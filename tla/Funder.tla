------------------------------- MODULE Funder -------------------------------
(***************************************************************************)
(* services/funder: a top-up redeems a user's paid credits on the          *)
(* EntitlementRegistry and then sends the device ETH, with a SQLite row    *)
(* per Credit attestation that is meant to survive a crash between any two *)
(* of those effects (http/top_up.rs, ledger.rs, resume.rs), over the       *)
(* retrying senders of crates/pangolin-chain/src/chain_submit.rs.          *)
(*                                                                         *)
(* A request that is refused (rate limit, schema, signatures, expiry, cap, *)
(* 409) changes nothing here and is not a step; a Credit in Credits is one *)
(* PAYMENT_AUTHORITY signed and its device countersigned.  A task is the   *)
(* request's handler or, after a restart, the resume task of its row;      *)
(* UNIQUE(attestation_hash) lets only one request per attestation past the *)
(* ledger, so a task is named by its attestation.  Steps are separated at  *)
(* the awaits; a handler whose client disconnects is dropped at one.  The  *)
(* host clock is the block clock.                                          *)
(***************************************************************************)
EXTENDS EntitlementRegistry, FiniteSets

CONSTANTS
  Credits,          \* Credit attestations [amount, nonce, expiresAt] of one user
  CAP,              \* eth_transfer_per_tx_cap_wei
  MAX_RETRIES,      \* PUBLISH_REVISION_MAX_RETRIES
  MaxTime,          \* bound: last block timestamp
  MaxTxs,           \* bound: transactions sent
  MaxCrashes,       \* bound: crashes of the service
  MaxLedgerFaults   \* bound: failed SQLite writes

ASSUME FunderAssumption ==
  /\ Credits \subseteq [amount : Nat, nonce : Nat, expiresAt : Nat]
  /\ MAX_RETRIES \in Nat \ {0}
  /\ CAP \in Nat /\ MaxTime \in Nat
  /\ MaxTxs \in Nat /\ MaxCrashes \in Nat /\ MaxLedgerFaults \in Nat

VARIABLES
  ledger,   \* payments.state per attestation, "absent" without a row
  task,     \* [pc, by, attempts, tx] per attestation
  txs,      \* transactions of the funder's wallet, in account-nonce order
  up,       \* the process runs
  crashes, faults

vars == <<registryVars, ledger, task, txs, up, crashes, faults, now>>

PaymentState == {"pre_redeem", "redeem_submitted", "redeem_mined", "eth_transfer_submitted",
                 "eth_transfer_mined", "eth_transfer_failed"}
Resumable == {"redeem_submitted", "redeem_mined", "eth_transfer_submitted"}
Terminal == {"eth_transfer_mined", "eth_transfer_failed"}

\* The ledger writes of a task: what each writes and what the task does next.
Writes ==
  [record_redeem    |-> [state |-> "redeem_submitted", then |-> "record_mined"],
   record_mined     |-> [state |-> "redeem_mined", then |-> "transfer"],
   record_transfer  |-> [state |-> "eth_transfer_submitted", then |-> "record_delivered"],
   record_delivered |-> [state |-> "eth_transfer_mined", then |-> "idle"],
   mark_failed      |-> [state |-> "eth_transfer_failed", then |-> "idle"]]

Idle == [pc |-> "idle", by |-> "handler", attempts |-> 0, tx |-> 0]

Init ==
  /\ Deployed
  /\ ledger = [a \in Credits |-> "absent"]
  /\ task = [a \in Credits |-> Idle]
  /\ txs = << >>
  /\ up = TRUE
  /\ crashes = 0 /\ faults = 0
  /\ now = 0

(***************************************************************************)
(* The request handler, up to the ledger row.                              *)
(***************************************************************************)

clamp_eth_transfer_amount(a) == a.amount <= CAP

\* The UNIQUE constraint on attestation_hash.
try_insert(a) == ledger[a] = "absent"

top_up(a) ==
  /\ up
  /\ now <= a.expiresAt
  /\ clamp_eth_transfer_amount(a)
  /\ try_insert(a)
  /\ ledger' = [ledger EXCEPT ![a] = "pre_redeem"]
  /\ task' = [task EXCEPT ![a] = [Idle EXCEPT !.pc = "redeem"]]
  /\ UNCHANGED <<txs, faults>>

(***************************************************************************)
(* Sending a transaction, with retries.                                    *)
(***************************************************************************)

\* Mutant: the resume task redeems at the chain's current nonce.
redemption_fields_current(a) ==
  [amount |-> a.amount,
   nonce |-> IF task[a].by = "handler" THEN a.nonce ELSE nonce,
   expiresAt |-> IF task[a].by = "handler" THEN a.expiresAt ELSE MaxTime]

\* The handler redeems at the Credit's own nonce.  The row keeps neither
\* nonce nor expiry: the resume task signs nonce 0, never expiring.
redemption_fields(a) ==
  [amount |-> a.amount,
   nonce |-> IF task[a].by = "handler" THEN a.nonce ELSE 0,
   expiresAt |-> IF task[a].by = "handler" THEN a.expiresAt ELSE MaxTime]

\* What the registry would do with the call now.
Redeemable(r) == Accepts(r) /\ Covers(r)

Sends(a) ==
  /\ Len(txs) < MaxTxs
  /\ txs' = Append(txs, [kind |-> task[a].pc, att |-> a, status |-> "pending",
                         fields |-> redemption_fields(a)])

\* estimate_gas runs the call: a redemption that would revert is not sent.
EstimatePasses(a) == task[a].pc = "redeem" => Redeemable(redemption_fields(a))

Goto(a, pc) == task' = [task EXCEPT ![a].pc = pc, ![a].attempts = 0]

\* The task gives up.  Before the redemption is recorded a handler leaves its
\* row as it is; everything later is marked for reconciliation.
Fail(a) ==
  /\ task' = [task EXCEPT ![a] = IF @.by = "handler" /\ @.pc \in {"redeem", "redeem_receipt"}
                                 THEN Idle
                                 ELSE [@ EXCEPT !.pc = "mark_failed", !.attempts = 0]]
  /\ UNCHANGED ledger

\* A revert ends a handler; the resume task takes it for ErrNonceTooLow of a
\* redemption that was mined before the crash, and goes on.
Reverted(a) ==
  IF task[a].by = "handler" \/ task[a].pc = "transfer_receipt" THEN Fail(a)
  ELSE Goto(a, "record_mined") /\ UNCHANGED ledger

HasBudget(a) == task[a].attempts + 1 < MAX_RETRIES

\* A transient error is retried with a fresh account nonce, up to the budget.
RetryOrFail(a) ==
  \/ /\ HasBudget(a)
     /\ task' = [task EXCEPT ![a].attempts = @ + 1]
     /\ UNCHANGED ledger
  \/ Fail(a)

\* Mutant: the receipt of the ETH transfer is not awaited.
AfterSendEager(pc) == IF pc = "redeem" THEN "redeem_receipt" ELSE "record_transfer"

AfterSend(pc) == IF pc = "redeem" THEN "redeem_receipt" ELSE "transfer_receipt"

Sending(a) == up /\ task[a].pc \in {"redeem", "transfer"}

\* broadcast_redemption_with_retries, broadcast_eth_transfer_with_retries:
\* the call reverts in the estimate; it is sent and answered; it is sent and
\* the answer is lost; it is not sent.
broadcast_with_retries(a) ==
  /\ Sending(a)
  /\ \/ ~EstimatePasses(a) /\ Reverted(a) /\ UNCHANGED txs
     \/ /\ EstimatePasses(a)
        /\ Sends(a)
        /\ task' = [task EXCEPT ![a].pc = AfterSend(@), ![a].tx = Len(txs) + 1]
        /\ UNCHANGED ledger
     \/ EstimatePasses(a) /\ Sends(a) /\ RetryOrFail(a)
     \/ RetryOrFail(a) /\ UNCHANGED txs
  /\ UNCHANGED faults

\* process_redemption_receipt, process_eth_transfer_receipt.
ReceiptOk(a) == txs[task[a].tx].status = "ok"

\* get_receipt returns, or times out however the transaction ends.
await_receipt(a) ==
  /\ up
  /\ task[a].pc \in {"redeem_receipt", "transfer_receipt"}
  /\ \/ /\ ReceiptOk(a)
        /\ Goto(a, IF task[a].pc = "transfer_receipt" THEN "record_transfer"
                   ELSE IF task[a].by = "handler" THEN "record_redeem" ELSE "record_mined")
        /\ UNCHANGED ledger
     \/ txs[task[a].tx].status = "reverted" /\ ~ReceiptOk(a) /\ Reverted(a)
     \/ Fail(a)
  /\ UNCHANGED <<txs, faults>>

\* update_redemption_tx_hash, transition_state(RedeemMined or
\* EthTransferFailed), mark_eth_transfer_submitted, mark_eth_transfer_mined.
record(a) ==
  /\ up
  /\ task[a].pc \in DOMAIN Writes
  /\ ledger' = [ledger EXCEPT ![a] = Writes[task[a].pc].state]
  /\ Goto(a, Writes[task[a].pc].then)
  /\ UNCHANGED <<txs, faults>>

\* One of those writes fails: the resume task gives up, a handler leaves its
\* row.  The failure of the mark itself is ignored; the task ends and the row
\* stays in flight.
record_fails(a) ==
  /\ up
  /\ task[a].pc \in DOMAIN Writes
  /\ faults < MaxLedgerFaults
  /\ faults' = faults + 1
  /\ task' = [task EXCEPT ![a] =
                 CASE @.pc = "mark_failed" -> [@ EXCEPT !.pc = "unmarked"]
                   [] @.pc # "mark_failed" /\ @.by = "resume" ->
                        [@ EXCEPT !.pc = "mark_failed", !.attempts = 0]
                   [] OTHER -> Idle]
  /\ UNCHANGED <<ledger, txs>>

\* The client of a handler goes away: the handler is dropped where it waits.
Disconnect(a) ==
  /\ up
  /\ task[a].pc \notin {"idle", "unmarked"}
  /\ task[a].by = "handler"
  /\ task' = [task EXCEPT ![a] = Idle]
  /\ UNCHANGED <<ledger, txs, faults>>

TaskStep(a) ==
  /\ \/ top_up(a)
     \/ broadcast_with_retries(a)
     \/ await_receipt(a)
     \/ record(a)
     \/ record_fails(a)
     \/ Disconnect(a)
  /\ UNCHANGED <<registryVars, up, crashes, now>>

(***************************************************************************)
(* Crash, restart and the chain.                                           *)
(***************************************************************************)

Crash ==
  /\ up
  /\ crashes < MaxCrashes
  /\ crashes' = crashes + 1
  /\ up' = FALSE
  /\ task' = [a \in Credits |-> Idle]
  /\ UNCHANGED <<registryVars, ledger, txs, faults, now>>

\* Mutant: rows in pre_redeem are resumed as well.
ResumeAtEager(state) ==
  CASE state \in {"pre_redeem", "redeem_mined"} -> "transfer"
    [] state = "redeem_submitted" -> "redeem"
    [] state = "eth_transfer_submitted" -> "record_delivered"
    [] OTHER -> "idle"

\* Mutant: a row in eth_transfer_submitted is left where it is.
ResumeAtNotSubmitted(state) ==
  CASE state = "redeem_mined" -> "transfer"
    [] state = "redeem_submitted" -> "redeem"
    [] OTHER -> "idle"

\* drive_to_completion: where the task of a row in that state starts.
ResumeAt(state) ==
  CASE state = "redeem_submitted" -> "redeem"
    [] state = "redeem_mined" -> "transfer"
    [] state = "eth_transfer_submitted" -> "record_delivered"
    [] OTHER -> "idle"

\* main runs resume_in_flight before it serves requests.
Restart ==
  /\ ~up
  /\ up' = TRUE
  /\ task' = [a \in Credits |-> [Idle EXCEPT !.pc = ResumeAt(ledger[a]), !.by = "resume"]]
  /\ UNCHANGED <<registryVars, ledger, txs, crashes, faults, now>>

\* The next transaction of the wallet is included in a block.  An ETH transfer
\* reverts if the device's account refuses it.
Mine ==
  \E i \in 1..Len(txs) :
    /\ txs[i].status = "pending"
    /\ \A j \in 1..(i - 1) : txs[j].status # "pending"
    /\ \/ /\ txs[i].kind = "redeem" => Redeemable(txs[i].fields)
          /\ txs' = [txs EXCEPT ![i].status = "ok"]
          /\ IF txs[i].kind = "redeem" THEN redeem(txs[i].fields) ELSE UNCHANGED registryVars
       \/ /\ txs[i].kind = "redeem" => ~Redeemable(txs[i].fields)
          /\ txs' = [txs EXCEPT ![i].status = "reverted"]
          /\ UNCHANGED registryVars
    /\ UNCHANGED <<ledger, task, up, crashes, faults, now>>

\* The user has a Credit booked on chain.
BookCredit(a) ==
  /\ credit(a)
  /\ UNCHANGED <<ledger, task, txs, up, crashes, faults, now>>

Tick ==
  /\ now < MaxTime /\ now' = now + 1
  /\ UNCHANGED <<registryVars, ledger, task, txs, up, crashes, faults>>

Next ==
  \/ \E a \in Credits : TaskStep(a)
  \/ Crash
  \/ Restart
  \/ Mine
  \/ \E a \in Credits : BookCredit(a)
  \/ Tick

Spec == Init /\ [][Next]_vars

(***************************************************************************)
(* Properties.                                                             *)
(***************************************************************************)

Mined(a, kind) == {i \in 1..Len(txs) : txs[i].att = a /\ txs[i].kind = kind /\ txs[i].status = "ok"}

TypeOK ==
  /\ ledger \in [Credits -> PaymentState \cup {"absent"}]
  /\ task \in [Credits -> [pc : {"idle", "redeem", "redeem_receipt", "transfer", "transfer_receipt",
                                   "unmarked"} \cup DOMAIN Writes,
                           by : {"handler", "resume"}, attempts : 0..(MAX_RETRIES - 1),
                           tx : 0..Len(txs)]]
  /\ balance \in 0..MaxUint
  /\ nonce = Len(log)
  /\ up \in BOOLEAN

\* Redeem first, ETH second (L-payment-order): no ETH leaves the wallet for a
\* Credit whose redemption was not booked on chain at that Credit's nonce,
\* across lost answers, crashes and the optimistic paths of the resume task.
NoFreeEth ==
  \A i \in 1..Len(txs) : txs[i].kind = "transfer" =>
    \E k \in 1..Len(log) : /\ log[k].kind = "Redeemed"
                           /\ log[k].nonce = txs[i].att.nonce
                           /\ log[k].amount = txs[i].att.amount

\* A Credit debits the user at most once, although a redemption may be sent
\* again after a lost answer and is sent again by the resume task.
DebitedOnce == \A a \in Credits : Cardinality(Mined(a, "redeem")) <= 1

\* A row says eth_transfer_mined only if the device has its ETH, also where
\* the resume task advances the row without looking for a receipt.
DeliveredIsTrue ==
  \A a \in Credits : ledger[a] = "eth_transfer_mined" => Mined(a, "transfer") # {}

\* After a restart every row whose redemption is recorded reaches a terminal
\* state, although the service may crash again on the way and a write of the
\* resume task may fail.  The one exception is a task that gives up and whose
\* EthTransferFailed write then fails: that row waits for the next restart.
\* (A row still in pre_redeem is never resumed, whatever happened on chain.)
InFlightResolves ==
  \A a \in Credits :
    (ledger[a] \in Resumable /\ task[a].by = "resume")
      ~> (ledger[a] \in Terminal \/ task[a].pc = "unmarked")

\* ledger.rs: "A leaked Credit attestation cannot be processed twice".
ProcessedOnce == \A a \in Credits : Cardinality(Mined(a, "transfer")) <= 1

\* Tasks run, the wallet's transactions are mined, and the service manager
\* restarts the process.  Crashes and write faults are bounded.
Fairness ==
  /\ \A a \in Credits :
       WF_vars((broadcast_with_retries(a) \/ await_receipt(a) \/ record(a))
               /\ UNCHANGED <<registryVars, up, crashes, now>>)
  /\ WF_vars(Mine)
  /\ WF_vars(Restart)

FairSpec == Spec /\ Fairness

=============================================================================

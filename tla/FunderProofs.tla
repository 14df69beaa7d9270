----------------------------- MODULE FunderProofs -----------------------------
(***************************************************************************)
(* Proofs about the funder service: the top-up of Funder, for every set of *)
(* Credits, every retry budget and any number of transactions, crashes and *)
(* failed writes; then the registry it redeems on, under all its callers,  *)
(* and the RateLimiter in front of it.                                     *)
(*                                                                         *)
(* The ledger row is what survives a crash: the invariant says what each   *)
(* state of a row, each place of a task and each transaction of the wallet *)
(* tells about the chain, and the chain's side of it is never taken back.  *)
(***************************************************************************)
EXTENDS Funder, RateLimiter, FiniteSetTheorems, TLAPS

Fields == [amount : Nat, nonce : Nat, expiresAt : Nat]
Txs == [kind : {"redeem", "transfer"}, att : Credits, status : {"pending", "ok", "reverted"},
        fields : Fields]
Events == Event
Phases == {"idle", "redeem", "redeem_receipt", "transfer", "transfer_receipt",
           "record_redeem", "record_mined", "record_transfer", "record_delivered",
           "mark_failed", "unmarked"}
Tasks == [pc : Phases, by : {"handler", "resume"}, attempts : 0..(MAX_RETRIES - 1), tx : Nat]
States == PaymentState \cup {"absent"}

Types ==
  /\ ledger \in [Credits -> States] /\ task \in [Credits -> Tasks]
  /\ txs \in Seq(Txs) /\ log \in Seq(Events)
  /\ balance \in 0..MaxUint /\ now \in Nat /\ up \in BOOLEAN

\* The redemption of a is booked on chain at its nonce.
Booked(a) == \E k \in 1..Len(log) : /\ log[k].kind = "Redeemed"
                                    /\ log[k].nonce = a.nonce /\ log[k].amount = a.amount

\* The ETH of a has arrived.
Delivered(a) == \E i \in 1..Len(txs) : /\ txs[i].kind = "transfer" /\ txs[i].att = a
                                       /\ txs[i].status = "ok"

\* What a row says has happened on chain.
LedgerOk(a, state) ==
  /\ state \in Resumable \cup {"eth_transfer_mined"} => Booked(a)
  /\ state \in {"eth_transfer_submitted", "eth_transfer_mined"} => Delivered(a)

\* What a task knows where it stands; the resume task only starts on rows whose
\* redemption is booked.
TaskOk(a, t) ==
  /\ t.pc \notin {"idle", "redeem", "redeem_receipt"} => Booked(a)
  /\ t.pc # "idle" /\ t.by = "resume" => Booked(a)
  /\ t.pc \in {"record_transfer", "record_delivered"} => Delivered(a)
  /\ t.tx <= Len(txs)
  /\ t.pc \in {"redeem_receipt", "transfer_receipt"} =>
       /\ t.tx \in 1..Len(txs) /\ txs[t.tx].att = a
       /\ txs[t.tx].kind = IF t.pc = "redeem_receipt" THEN "redeem" ELSE "transfer"

\* A redemption carries the Credit's nonce, or nonce 0 after one that did; ETH follows a
\* booked redemption.
TxOk(x) ==
  /\ x.kind = "redeem" => x.fields.amount = x.att.amount
  /\ x.kind = "redeem" => x.fields.nonce = x.att.nonce \/ (x.fields.nonce = 0 /\ Booked(x.att))
  /\ x.kind = "redeem" /\ x.status = "ok" => Booked(x.att) /\ x.fields.nonce = x.att.nonce
  /\ x.kind = "transfer" => Booked(x.att)

\* Nonces are used up in order.
NonceInv == nonce = Len(log) /\ \A k \in 1..Len(log) : log[k].nonce < nonce

Redeemed(i) == txs[i].kind = "redeem" /\ txs[i].status = "ok"

OnceInv == \A i, j \in 1..Len(txs) :
             Redeemed(i) /\ Redeemed(j) /\ txs[i].att = txs[j].att => i = j

FunderInv ==
  /\ Types /\ NonceInv /\ OnceInv
  /\ \A a \in Credits : LedgerOk(a, ledger[a]) /\ TaskOk(a, task[a])
  /\ \A i \in 1..Len(txs) : TxOk(txs[i])

-----------------------------------------------------------------------------
(* Facts about the constants and the start.                                *)

LEMMA Bounds ==
  /\ MAX_RETRIES \in Nat \ {0} /\ MaxUint \in Nat /\ MaxTime \in Nat
  /\ \A a \in Credits : a \in Fields /\ a.amount \in Nat /\ a.nonce \in Nat /\ a.expiresAt \in Nat
  BY FunderAssumption, RegistryAssumption DEF Fields

\* What fits is not cut off.
LEMMA WordFits == \A x \in 0..MaxUint : Word(x) = x
<1> SUFFICES ASSUME NEW x \in 0..MaxUint PROVE Word(x) = x
  OBVIOUS
<1>1. MaxUint \in Nat /\ x \in Nat /\ x < MaxUint + 1
  BY Bounds
<1> QED
  BY <1>1 DEF Word

\* A task that has ended, and a row to be reconciled, claim nothing.
LEMMA IdleFacts ==
  /\ Idle \in Tasks /\ Idle.pc = "idle" /\ Idle.tx = 0 /\ Idle.by = "handler"
  /\ "eth_transfer_failed" \in States /\ "pre_redeem" \in States /\ "absent" \in States
  BY Bounds DEF Idle, Tasks, Phases, States, PaymentState

LEMMA InitInv == Init => FunderInv
<1> SUFFICES ASSUME Init PROVE FunderInv
  OBVIOUS
<1>1. /\ txs = << >> /\ Len(txs) = 0 /\ txs \in Seq(Txs)
      /\ log = << >> /\ Len(log) = 0 /\ log \in Seq(Events) /\ nonce = 0
  BY DEF Init, Deployed
<1>2. Types
  BY <1>1, IdleFacts, Bounds DEF Init, Deployed, Types
<1>3. NonceInv /\ OnceInv
  BY <1>1 DEF NonceInv, OnceInv
<1>4. ASSUME NEW a \in Credits
      PROVE  LedgerOk(a, ledger[a]) /\ TaskOk(a, task[a])
  <2>1. ledger[a] = "absent" /\ task[a] = Idle
    BY DEF Init
  <2>2. QED
    BY <1>1, <2>1, IdleFacts DEF LedgerOk, TaskOk, Resumable
<1>5. QED
  BY <1>1, <1>2, <1>3, <1>4 DEF FunderInv

-----------------------------------------------------------------------------
(* What is known about the chain stays known.                              *)

\* The registry's log and the wallet's transactions only grow, and a transaction's
\* outcome does not change.
Grows ==
  /\ Len(log) \in Nat /\ Len(log') \in Nat /\ Len(txs) \in Nat /\ Len(txs') \in Nat
  /\ Len(log) <= Len(log') /\ Len(txs) <= Len(txs')
  /\ \A k \in 1..Len(log) : log'[k] = log[k]
  /\ \A i \in 1..Len(txs) : /\ txs'[i].kind = txs[i].kind /\ txs'[i].att = txs[i].att
                            /\ txs[i].status = "ok" => txs'[i].status = "ok"

LEMMA StaysKnown ==
  ASSUME Grows
  PROVE  /\ \A a : Booked(a) => Booked(a)'
         /\ \A a : Delivered(a) => Delivered(a)'
         /\ \A a, state : LedgerOk(a, state) => LedgerOk(a, state)'
         /\ \A a, t : t \in Tasks /\ TaskOk(a, t) => TaskOk(a, t)'
<1>1. \A a : Booked(a) => Booked(a)'
  BY DEF Grows, Booked
<1>2. \A a : Delivered(a) => Delivered(a)'
  BY DEF Grows, Delivered
<1>3. \A a, state : LedgerOk(a, state) => LedgerOk(a, state)'
  BY <1>1, <1>2 DEF LedgerOk
<1>4. ASSUME NEW a, NEW t \in Tasks, TaskOk(a, t)
      PROVE  TaskOk(a, t)'
  <2>1. t.tx \in Nat
    BY DEF Tasks
  <2>2. t.tx <= Len(txs') /\ (t.tx \in 1..Len(txs) => t.tx \in 1..Len(txs'))
    BY <1>4, <2>1 DEF TaskOk, Grows
  <2>3. QED
    BY <1>1, <1>2, <1>4, <2>2 DEF TaskOk, Grows
<1>5. QED
  BY <1>1, <1>2, <1>3, <1>4

-----------------------------------------------------------------------------
(* Steps of a task.                                                        *)

\* A step of one task: its row and its place change, and it may send one transaction.
LEMMA TaskChange ==
  ASSUME FunderInv, UNCHANGED <<registryVars, up, now>>, NEW a \in Credits,
         NEW t \in Tasks, NEW state \in States,
         task' = [task EXCEPT ![a] = t], ledger' = [ledger EXCEPT ![a] = state],
         \/ txs' = txs
         \/ \E x \in Txs : txs' = Append(txs, x) /\ x.status = "pending" /\ TxOk(x),
         TaskOk(a, t)', LedgerOk(a, state)
  PROVE  FunderInv'
<1>1. /\ ledger \in [Credits -> States] /\ task \in [Credits -> Tasks]
      /\ txs \in Seq(Txs) /\ log \in Seq(Events)
  BY DEF FunderInv, Types
<1>2. /\ txs' \in Seq(Txs) /\ Len(txs') \in Nat /\ Len(txs) <= Len(txs')
      /\ \A i \in 1..Len(txs) : txs'[i] = txs[i]
      /\ \A i \in 1..Len(txs') : i \notin 1..Len(txs) => txs'[i].status = "pending" /\ TxOk(txs'[i])
  <2>1. CASE txs' = txs
    <3>1. txs' \in Seq(Txs) /\ Len(txs') \in Nat /\ Len(txs) <= Len(txs')
      BY <1>1, <2>1
    <3>2. \A i \in 1..Len(txs') : i \in 1..Len(txs) /\ txs'[i] = txs[i]
      BY <2>1
    <3>3. QED
      BY <2>1, <3>1, <3>2
  <2>2. CASE txs' # txs
    <3>1. PICK x \in Txs : txs' = Append(txs, x) /\ x.status = "pending" /\ TxOk(x)
      BY <2>2
    <3>2. /\ txs' \in Seq(Txs) /\ Len(txs') = Len(txs) + 1 /\ Len(txs) \in Nat
          /\ \A i \in 1..Len(txs) : txs'[i] = txs[i]
          /\ txs'[Len(txs) + 1] = x
      BY <1>1, <3>1
    <3>3. \A i \in 1..Len(txs') : i \in 1..Len(txs) \/ i = Len(txs) + 1
      BY <3>2
    <3>4. \A i \in 1..Len(txs') : i \notin 1..Len(txs) => txs'[i].status = "pending" /\ TxOk(txs'[i])
      BY <3>1, <3>2, <3>3
    <3>5. Len(txs') \in Nat /\ Len(txs) <= Len(txs')
      BY <3>2
    <3>6. QED
      BY <3>2, <3>4, <3>5
  <2>3. QED
    BY <2>1, <2>2
<1>3. Types'
  BY <1>1, <1>2 DEF FunderInv, Types, registryVars
<1>4. Grows
  BY <1>1, <1>2 DEF Grows, registryVars
<1>5. NonceInv'
  BY DEF FunderInv, NonceInv, registryVars
<1>6. \A i \in 1..Len(txs') : Redeemed(i)' => i \in 1..Len(txs) /\ Redeemed(i)
  BY <1>2 DEF Redeemed
<1>7. OnceInv'
  BY <1>2, <1>6 DEF FunderInv, OnceInv
<1>8. ASSUME NEW i \in 1..Len(txs')
      PROVE  TxOk(txs[i])'
  <2>1. TxOk(txs'[i])
    BY <1>2 DEF FunderInv
  <2>2. QED
    BY <1>4, <2>1, StaysKnown DEF TxOk
<1>9. ASSUME NEW b \in Credits
      PROVE  LedgerOk(b, ledger[b])' /\ TaskOk(b, task[b])'
  <2>1. CASE b = a
    <3>1. ledger'[b] = state /\ task'[b] = t
      BY <1>1, <2>1
    <3>2. LedgerOk(a, state)'
      BY <1>4, StaysKnown
    <3>3. QED
      BY <2>1, <3>1, <3>2 DEF LedgerOk, TaskOk
  <2>2. CASE b # a
    <3>1. ledger'[b] = ledger[b] /\ task'[b] = task[b] /\ task[b] \in Tasks
      BY <1>1, <2>2
    <3>2. LedgerOk(b, ledger[b]) /\ TaskOk(b, task[b])
      BY DEF FunderInv
    <3>3. PICK l, u : l = ledger[b] /\ u = task[b]
      OBVIOUS
    <3>4. LedgerOk(b, l)' /\ TaskOk(b, u)'
      BY <1>4, <3>1, <3>2, <3>3, StaysKnown
    <3>5. QED
      BY <3>1, <3>3, <3>4 DEF LedgerOk, TaskOk
  <2>3. QED
    BY <2>1, <2>2
<1>10. QED
  BY <1>3, <1>5, <1>7, <1>8, <1>9 DEF FunderInv

\* The task of a moves on and leaves its row alone.
LEMMA MovesStep ==
  ASSUME FunderInv, UNCHANGED <<registryVars, up, now>>, NEW a \in Credits, NEW t \in Tasks,
         task' = [task EXCEPT ![a] = t], ledger' = ledger,
         \/ txs' = txs
         \/ \E x \in Txs : txs' = Append(txs, x) /\ x.status = "pending" /\ TxOk(x),
         TaskOk(a, t)'
  PROVE  FunderInv'
<1>1. ledger \in [Credits -> States] /\ ledger[a] \in States /\ LedgerOk(a, ledger[a])
  BY DEF FunderInv, Types
<1>2. ledger' = [ledger EXCEPT ![a] = ledger[a]]
  BY <1>1
<1>3. QED
  BY <1>1, <1>2, TaskChange

\* The task of a ends and leaves its row.
LEMMA EndsStep ==
  ASSUME FunderInv, UNCHANGED <<registryVars, up, now>>, NEW a \in Credits,
         task' = [task EXCEPT ![a] = Idle], ledger' = ledger,
         \/ txs' = txs
         \/ \E x \in Txs : txs' = Append(txs, x) /\ x.status = "pending" /\ TxOk(x)
  PROVE  FunderInv'
<1>1. 0 <= Len(txs')
  BY DEF FunderInv, Types
<1>2. TaskOk(a, Idle)'
  BY <1>1, IdleFacts DEF TaskOk, Idle
<1>3. QED
  BY <1>2, IdleFacts, MovesStep

\* The task of a gives up, or its mark is lost; it knows that the redemption is booked.
LEMMA MarksStep ==
  ASSUME FunderInv, UNCHANGED <<registryVars, up, now>>, NEW a \in Credits,
         NEW t \in Tasks, t.pc \in {"mark_failed", "unmarked"}, t.tx = task[a].tx, Booked(a),
         task' = [task EXCEPT ![a] = t], ledger' = ledger,
         \/ txs' = txs
         \/ \E x \in Txs : txs' = Append(txs, x) /\ x.status = "pending" /\ TxOk(x)
  PROVE  FunderInv'
<1>1. task[a] \in Tasks /\ task[a].tx <= Len(txs) /\ txs \in Seq(Txs)
  BY DEF FunderInv, Types, TaskOk
<1>2. t.tx <= Len(txs')
  <2>1. Len(txs) <= Len(txs') /\ Len(txs) \in Nat /\ Len(txs') \in Nat
    BY <1>1
  <2>2. QED
    BY <1>1, <2>1 DEF Tasks
<1>3. Booked(a)'
  BY DEF Booked, registryVars
<1>4. TaskOk(a, t)'
  BY <1>2, <1>3 DEF TaskOk
<1>5. QED
  BY <1>4, MovesStep

\* A request takes its row before it does anything else.
LEMMA TopUpStep ==
  ASSUME FunderInv, UNCHANGED <<registryVars, up, now>>, NEW a \in Credits, top_up(a)
  PROVE  FunderInv'
<1> DEFINE t == [Idle EXCEPT !.pc = "redeem"]
<1>1. /\ ledger' = [ledger EXCEPT ![a] = "pre_redeem"] /\ task' = [task EXCEPT ![a] = t]
      /\ txs' = txs
  BY DEF top_up
<1>2. t \in Tasks /\ t.pc = "redeem" /\ t.by = "handler" /\ t.tx = 0
  BY IdleFacts DEF Tasks, Phases
<1>3. LedgerOk(a, "pre_redeem")
  BY DEF LedgerOk, Resumable
<1>4. 0 <= Len(txs')
  BY <1>1 DEF FunderInv, Types
<1> HIDE DEF t
<1>5. TaskOk(a, t)'
  <2>1. PICK u : u = t
    OBVIOUS
  <2>2. TaskOk(a, u)'
    BY <1>2, <1>4, <2>1 DEF TaskOk
  <2>3. QED
    BY <2>1, <2>2 DEF t, TaskOk, Idle
<1>6. QED
  BY <1>1, <1>2, <1>3, <1>5, IdleFacts, TaskChange

\* What is sent: a redemption for the Credit's amount, or its ETH after the redemption.
LEMMA SendsFacts ==
  ASSUME FunderInv, NEW a \in Credits, task[a].pc \in {"redeem", "transfer"}, Sends(a)
  PROVE  /\ \E x \in Txs : txs' = Append(txs, x) /\ x.status = "pending" /\ TxOk(x)
         /\ txs'[Len(txs) + 1].att = a /\ txs'[Len(txs) + 1].kind = task[a].pc
         /\ Len(txs') = Len(txs) + 1
<1>1. /\ task[a] \in Tasks /\ TaskOk(a, task[a]) /\ txs \in Seq(Txs)
      /\ task[a].by \in {"handler", "resume"}
  BY DEF FunderInv, Types, Tasks
<1>2. PICK f : f = redemption_fields(a)
  OBVIOUS
<1>3. /\ f \in Fields /\ f.amount = a.amount
      /\ f.nonce = a.nonce \/ (f.nonce = 0 /\ task[a].by = "resume")
  <2>1. CASE task[a].by = "handler"
    <3>1. f = [amount |-> a.amount, nonce |-> a.nonce, expiresAt |-> a.expiresAt]
      BY <1>2, <2>1 DEF redemption_fields
    <3>2. QED
      BY <3>1, Bounds DEF Fields
  <2>2. CASE task[a].by = "resume"
    <3>1. f = [amount |-> a.amount, nonce |-> 0, expiresAt |-> MaxTime]
      BY <1>2, <2>2 DEF redemption_fields
    <3>2. QED
      BY <2>2, <3>1, Bounds DEF Fields
  <2>3. QED
    BY <1>1, <2>1, <2>2
<1>4. PICK x : x = [kind |-> task[a].pc, att |-> a, status |-> "pending", fields |-> f]
  OBVIOUS
<1>5. x \in Txs /\ x.status = "pending" /\ x.kind = task[a].pc /\ x.att = a /\ x.fields = f
  BY <1>3, <1>4 DEF Txs
<1>6. txs' = Append(txs, x)
  BY <1>2, <1>4 DEF Sends
<1>7. TxOk(x)
  BY <1>1, <1>3, <1>5 DEF TxOk, TaskOk
<1>8. txs'[Len(txs) + 1] = x /\ Len(txs') = Len(txs) + 1
  BY <1>1, <1>5, <1>6
<1>9. QED
  BY <1>5, <1>6, <1>7, <1>8

\* Fail, Reverted and RetryOrFail, in a task that sends or waits for a receipt.
LEMMA FailStep ==
  ASSUME FunderInv, UNCHANGED <<registryVars, up, now>>, NEW a \in Credits, Fail(a),
         task[a].pc # "idle",
         \/ txs' = txs
         \/ \E x \in Txs : txs' = Append(txs, x) /\ x.status = "pending" /\ TxOk(x)
  PROVE  FunderInv'
<1>1. task[a] \in Tasks /\ TaskOk(a, task[a]) /\ task \in [Credits -> Tasks] /\ ledger' = ledger
  BY DEF FunderInv, Types, Fail
<1>2. CASE task[a].by = "handler" /\ task[a].pc \in {"redeem", "redeem_receipt"}
  BY <1>1, <1>2, EndsStep DEF Fail
<1>3. CASE ~(task[a].by = "handler" /\ task[a].pc \in {"redeem", "redeem_receipt"})
  <2>1. PICK t : t = [task[a] EXCEPT !.pc = "mark_failed", !.attempts = 0]
    OBVIOUS
  <2>2. t \in Tasks /\ t.pc = "mark_failed" /\ t.tx = task[a].tx
    <3>1. 0 \in 0..(MAX_RETRIES - 1) /\ "mark_failed" \in Phases
      BY Bounds DEF Phases
    <3>2. QED
      BY <1>1, <2>1, <3>1 DEF Tasks
  <2>3. task' = [task EXCEPT ![a] = t]
    BY <1>1, <1>3, <2>1 DEF Fail
  <2>4. Booked(a)
    BY <1>1, <1>3 DEF TaskOk, Tasks
  <2>5. QED
    BY <1>1, <2>2, <2>3, <2>4, MarksStep
<1>4. QED
  BY <1>2, <1>3

\* Going on with a new place and a fresh budget.
LEMMA GotoStep ==
  ASSUME FunderInv, UNCHANGED <<registryVars, up, now, txs, ledger>>, NEW a \in Credits,
         NEW pc \in Phases \ {"redeem", "redeem_receipt", "transfer_receipt"}, Goto(a, pc),
         pc # "idle" => Booked(a),
         pc \in {"record_transfer", "record_delivered"} => Delivered(a)
  PROVE  FunderInv'
<1>1. task[a] \in Tasks /\ TaskOk(a, task[a]) /\ task \in [Credits -> Tasks]
  BY DEF FunderInv, Types
<1>2. PICK t : t = [task[a] EXCEPT !.pc = pc, !.attempts = 0]
  OBVIOUS
<1>3. t \in Tasks /\ t.pc = pc /\ t.tx = task[a].tx
  <2>1. 0 \in 0..(MAX_RETRIES - 1)
    BY Bounds
  <2>2. QED
    BY <1>1, <1>2, <2>1 DEF Tasks
<1>4. task' = [task EXCEPT ![a] = t]
  BY <1>1, <1>2 DEF Goto
<1>5. TaskOk(a, t)
  BY <1>1, <1>3 DEF TaskOk
<1>6. TaskOk(a, t)'
  BY <1>5 DEF TaskOk, Booked, Delivered, registryVars
<1>7. QED
  BY <1>3, <1>4, <1>6, MovesStep

\* A revert ends a handler; the resume task knows that the redemption is booked.
LEMMA RevertedStep ==
  ASSUME FunderInv, UNCHANGED <<registryVars, up, now, txs>>, NEW a \in Credits,
         task[a].pc # "idle", Reverted(a)
  PROVE  FunderInv'
<1>1. CASE task[a].by = "handler" \/ task[a].pc = "transfer_receipt"
  BY <1>1, FailStep DEF Reverted
<1>2. CASE ~(task[a].by = "handler" \/ task[a].pc = "transfer_receipt")
  <2>1. Goto(a, "record_mined") /\ UNCHANGED ledger
    BY <1>2 DEF Reverted
  <2>2. Booked(a)
    BY <1>2 DEF FunderInv, Types, Tasks, TaskOk
  <2>3. "record_mined" \in Phases \ {"redeem", "redeem_receipt", "transfer_receipt"}
    BY DEF Phases
  <2>4. QED
    BY <2>1, <2>2, <2>3, GotoStep
<1>3. QED
  BY <1>1, <1>2

LEMMA RetryStep ==
  ASSUME FunderInv, UNCHANGED <<registryVars, up, now>>, NEW a \in Credits,
         task[a].pc \in {"redeem", "transfer"}, RetryOrFail(a),
         \/ txs' = txs
         \/ \E x \in Txs : txs' = Append(txs, x) /\ x.status = "pending" /\ TxOk(x)
  PROVE  FunderInv'
<1>1. CASE Fail(a)
  BY <1>1, FailStep
<1>2. CASE ~Fail(a)
  <2>1. HasBudget(a) /\ task' = [task EXCEPT ![a].attempts = task[a].attempts + 1] /\ ledger' = ledger
    BY <1>2 DEF RetryOrFail
  <2>2. task[a] \in Tasks /\ TaskOk(a, task[a]) /\ task \in [Credits -> Tasks] /\ txs \in Seq(Txs)
    BY DEF FunderInv, Types
  <2>3. PICK t : t = [task[a] EXCEPT !.attempts = task[a].attempts + 1]
    OBVIOUS
  <2>4. task[a].attempts + 1 \in 0..(MAX_RETRIES - 1)
    BY <2>1, <2>2, Bounds DEF Tasks, HasBudget
  <2>5. t \in Tasks /\ t.pc = task[a].pc /\ t.by = task[a].by /\ t.tx = task[a].tx
    BY <2>2, <2>3, <2>4 DEF Tasks
  <2>6. task' = [task EXCEPT ![a] = t]
    BY <2>1, <2>2, <2>3
  <2>7. TaskOk(a, t)'
    <3>1. Len(txs) <= Len(txs')
      BY <2>2
    <3>2. t.tx <= Len(txs')
      BY <2>2, <2>5, <3>1 DEF TaskOk, Tasks
    <3>3. QED
      BY <2>2, <2>5, <3>2 DEF TaskOk, Booked, registryVars
  <2>8. QED
    BY <2>1, <2>5, <2>6, <2>7, MovesStep
<1>3. QED
  BY <1>1, <1>2

\* The senders.
LEMMA BroadcastStep ==
  ASSUME FunderInv, UNCHANGED <<registryVars, up, now>>, NEW a \in Credits,
         broadcast_with_retries(a)
  PROVE  FunderInv'
<1>1. task[a].pc \in {"redeem", "transfer"}
  BY DEF broadcast_with_retries, Sending
<1>2. CASE Reverted(a) /\ UNCHANGED txs
  BY <1>1, <1>2, RevertedStep
<1>3. CASE /\ Sends(a) /\ UNCHANGED ledger
           /\ task' = [task EXCEPT ![a].pc = AfterSend(task[a].pc), ![a].tx = Len(txs) + 1]
  <2>1. task[a] \in Tasks /\ TaskOk(a, task[a]) /\ task \in [Credits -> Tasks] /\ txs \in Seq(Txs)
    BY DEF FunderInv, Types
  <2>2. PICK t : t = [task[a] EXCEPT !.pc = AfterSend(task[a].pc), !.tx = Len(txs) + 1]
    OBVIOUS
  <2>3. /\ t \in Tasks /\ t.pc = AfterSend(task[a].pc) /\ t.by = task[a].by
        /\ t.tx = Len(txs) + 1
    <3>1. Len(txs) + 1 \in Nat
      BY <2>1
    <3>2. AfterSend(task[a].pc) \in Phases
      BY DEF AfterSend, Phases
    <3>3. QED
      BY <2>1, <2>2, <3>1, <3>2 DEF Tasks
  <2>4. task' = [task EXCEPT ![a] = t]
    BY <1>3, <2>1, <2>2
  <2>5. /\ \E x \in Txs : txs' = Append(txs, x) /\ x.status = "pending" /\ TxOk(x)
        /\ txs'[t.tx].att = a /\ txs'[t.tx].kind = task[a].pc /\ Len(txs') = t.tx
    BY <1>1, <1>3, <2>3, SendsFacts
  <2>6. t.tx \in 1..Len(txs') /\ t.tx <= Len(txs')
    BY <2>1, <2>3, <2>5
  <2>7. TaskOk(a, t)'
    <3>1. CASE task[a].pc = "redeem"
      BY <2>1, <2>3, <2>5, <2>6, <3>1 DEF TaskOk, AfterSend, Booked, registryVars
    <3>2. CASE task[a].pc = "transfer"
      BY <2>1, <2>3, <2>5, <2>6, <3>2 DEF TaskOk, AfterSend, Booked, registryVars
    <3>3. QED
      BY <1>1, <3>1, <3>2
  <2>8. QED
    BY <1>3, <2>3, <2>4, <2>5, <2>7, MovesStep
<1>4. CASE Sends(a) /\ RetryOrFail(a)
  BY <1>1, <1>4, SendsFacts, RetryStep
<1>5. CASE RetryOrFail(a) /\ UNCHANGED txs
  BY <1>1, <1>5, RetryStep
<1>6. QED
  BY <1>2, <1>3, <1>4, <1>5 DEF broadcast_with_retries

\* A receipt says what the chain has booked or delivered.
LEMMA AwaitStep ==
  ASSUME FunderInv, UNCHANGED <<registryVars, up, now>>, NEW a \in Credits, await_receipt(a)
  PROVE  FunderInv'
<1>1. task[a].pc \in {"redeem_receipt", "transfer_receipt"} /\ txs' = txs
  BY DEF await_receipt
<1>2. CASE Fail(a)
  BY <1>1, <1>2, FailStep
<1>3. CASE Reverted(a)
  BY <1>1, <1>3, RevertedStep
<1>4. CASE /\ ReceiptOk(a) /\ UNCHANGED ledger
           /\ Goto(a, IF task[a].pc = "transfer_receipt" THEN "record_transfer"
                      ELSE IF task[a].by = "handler" THEN "record_redeem" ELSE "record_mined")
  <2>1. /\ TaskOk(a, task[a]) /\ task[a].tx \in 1..Len(txs) /\ txs[task[a].tx].att = a
        /\ txs[task[a].tx].status = "ok" /\ TxOk(txs[task[a].tx])
    BY <1>1, <1>4 DEF FunderInv, TaskOk, ReceiptOk
  <2>2. CASE task[a].pc = "transfer_receipt"
    <3>1. Booked(a) /\ Delivered(a)
      BY <2>1, <2>2 DEF TaskOk, Delivered
    <3>2. Goto(a, "record_transfer")
      BY <1>4, <2>2
    <3>3. "record_transfer" \in Phases \ {"redeem", "redeem_receipt", "transfer_receipt"}
      BY DEF Phases
    <3>4. QED
      BY <1>1, <1>4, <3>1, <3>2, <3>3, GotoStep
  <2>3. CASE task[a].pc = "redeem_receipt"
    <3>1. Booked(a)
      BY <2>1, <2>3 DEF TaskOk, TxOk
    <3>2. PICK pc \in {"record_redeem", "record_mined"} : Goto(a, pc)
      BY <1>4, <2>3
    <3>3. pc \in Phases \ {"redeem", "redeem_receipt", "transfer_receipt"}
      BY DEF Phases
    <3>4. QED
      BY <1>1, <1>4, <3>1, <3>2, <3>3, GotoStep
  <2>4. QED
    BY <1>1, <2>2, <2>3
<1>5. QED
  BY <1>2, <1>3, <1>4 DEF await_receipt

\* A write of the ledger says no more than its task knows.
LEMMA RecordStep ==
  ASSUME FunderInv, UNCHANGED <<registryVars, up, now>>, NEW a \in Credits, record(a)
  PROVE  FunderInv'
<1>1. task[a] \in Tasks /\ TaskOk(a, task[a]) /\ task \in [Credits -> Tasks]
  BY DEF FunderInv, Types
<1>2. /\ task[a].pc \in {"record_redeem", "record_mined", "record_transfer", "record_delivered",
                          "mark_failed"}
      /\ ledger' = [ledger EXCEPT ![a] = Writes[task[a].pc].state]
      /\ Goto(a, Writes[task[a].pc].then) /\ txs' = txs
  BY DEF record, Writes
<1>3. PICK state : state = Writes[task[a].pc].state
  OBVIOUS
<1>4. PICK pc : pc = Writes[task[a].pc].then
  OBVIOUS
<1>5. /\ state \in States /\ pc \in {"record_mined", "transfer", "record_delivered", "idle"}
      /\ LedgerOk(a, state)
      /\ pc = "record_delivered" => Delivered(a)
  <2>1. Booked(a)
    BY <1>1, <1>2 DEF TaskOk
  <2>2. CASE task[a].pc \in {"record_redeem", "record_mined"}
    BY <1>3, <1>4, <2>1, <2>2 DEF Writes, States, PaymentState, LedgerOk
  <2>3. CASE task[a].pc \in {"record_transfer", "record_delivered"}
    BY <1>1, <1>3, <1>4, <2>1, <2>3 DEF Writes, States, PaymentState, LedgerOk, TaskOk
  <2>4. CASE task[a].pc = "mark_failed"
    BY <1>3, <1>4, <2>4 DEF Writes, States, PaymentState, LedgerOk, Resumable
  <2>5. QED
    BY <1>2, <2>2, <2>3, <2>4
<1>6. PICK t : t = [task[a] EXCEPT !.pc = pc, !.attempts = 0]
  OBVIOUS
<1>7. t \in Tasks /\ t.pc = pc /\ t.tx = task[a].tx
  <2>1. 0 \in 0..(MAX_RETRIES - 1) /\ pc \in Phases
    BY <1>5, Bounds DEF Phases
  <2>2. QED
    BY <1>1, <1>6, <2>1 DEF Tasks
<1>8. task' = [task EXCEPT ![a] = t]
  BY <1>1, <1>2, <1>4, <1>6 DEF Goto
<1>9. TaskOk(a, t)
  BY <1>1, <1>2, <1>5, <1>7 DEF TaskOk
<1>10. TaskOk(a, t)'
  BY <1>2, <1>9 DEF TaskOk, Booked, Delivered, registryVars
<1>11. QED
  BY <1>2, <1>3, <1>5, <1>7, <1>8, <1>10, TaskChange

\* A failed write, and a client that goes away.
LEMMA DropStep ==
  ASSUME FunderInv, UNCHANGED <<registryVars, up, now>>, NEW a \in Credits,
         record_fails(a) \/ Disconnect(a)
  PROVE  FunderInv'
<1>1. CASE record_fails(a)
  <2>1. task[a] \in Tasks /\ TaskOk(a, task[a]) /\ task \in [Credits -> Tasks]
    BY DEF FunderInv, Types
  <2>2. /\ task[a].pc \in {"record_redeem", "record_mined", "record_transfer", "record_delivered",
                            "mark_failed"}
        /\ ledger' = ledger /\ txs' = txs
    BY <1>1 DEF record_fails, Writes
  <2>3. Booked(a)
    BY <2>1, <2>2 DEF TaskOk
  <2>4. CASE task[a].pc = "mark_failed"
    <3>1. PICK t : t = [task[a] EXCEPT !.pc = "unmarked"]
      OBVIOUS
    <3>2. t \in Tasks /\ t.pc = "unmarked" /\ t.tx = task[a].tx
      BY <2>1, <3>1 DEF Tasks, Phases
    <3>3. task' = [task EXCEPT ![a] = t]
      BY <1>1, <2>1, <2>4, <3>1 DEF record_fails
    <3>4. QED
      BY <2>2, <2>3, <3>2, <3>3, MarksStep
  <2>5. CASE task[a].pc # "mark_failed" /\ task[a].by = "resume"
    <3>1. PICK t : t = [task[a] EXCEPT !.pc = "mark_failed", !.attempts = 0]
      OBVIOUS
    <3>2. t \in Tasks /\ t.pc = "mark_failed" /\ t.tx = task[a].tx
      <4>1. 0 \in 0..(MAX_RETRIES - 1) /\ "mark_failed" \in Phases
        BY Bounds DEF Phases
      <4>2. QED
        BY <2>1, <3>1, <4>1 DEF Tasks
    <3>3. task' = [task EXCEPT ![a] = t]
      BY <1>1, <2>1, <2>5, <3>1 DEF record_fails
    <3>4. QED
      BY <2>2, <2>3, <3>2, <3>3, MarksStep
  <2>6. CASE task[a].pc # "mark_failed" /\ task[a].by # "resume"
    BY <1>1, <2>1, <2>2, <2>6, EndsStep DEF record_fails
  <2>7. QED
    BY <2>4, <2>5, <2>6
<1>2. CASE Disconnect(a)
  BY <1>2, EndsStep DEF Disconnect
<1>3. QED
  BY <1>1, <1>2

-----------------------------------------------------------------------------
(* Crash and restart.                                                      *)

LEMMA TasksChange ==
  ASSUME FunderInv, UNCHANGED <<registryVars, ledger, txs, now>>, up' \in BOOLEAN,
         task' \in [Credits -> Tasks], \A a \in Credits : TaskOk(a, task[a])'
  PROVE  FunderInv'
<1>1. Types' /\ NonceInv' /\ OnceInv'
  BY DEF FunderInv, Types, NonceInv, OnceInv, Redeemed, registryVars
<1>2. \A a \in Credits : LedgerOk(a, ledger[a])'
  BY DEF FunderInv, LedgerOk, Booked, Delivered, registryVars
<1>3. \A i \in 1..Len(txs') : TxOk(txs[i])'
  BY DEF FunderInv, TxOk, Booked, registryVars
<1>4. QED
  BY <1>1, <1>2, <1>3 DEF FunderInv

LEMMA CrashStep == FunderInv /\ Crash => FunderInv'
<1> SUFFICES ASSUME FunderInv, Crash PROVE FunderInv'
  OBVIOUS
<1>1. /\ UNCHANGED <<registryVars, ledger, txs, now>> /\ task' = [a \in Credits |-> Idle]
  BY DEF Crash
<1>2. up' \in BOOLEAN
  BY DEF Crash
<1>3. task' \in [Credits -> Tasks]
  BY <1>1, IdleFacts
<1>4. 0 <= Len(txs')
  BY <1>1 DEF FunderInv, Types
<1>5. ASSUME NEW a \in Credits
      PROVE  TaskOk(a, task[a])'
  <2>1. task'[a].pc = "idle" /\ task'[a].tx = 0
    BY <1>1, IdleFacts
  <2>2. QED
    BY <1>4, <2>1 DEF TaskOk
<1>6. QED
  BY <1>1, <1>2, <1>3, <1>5, TasksChange

\* The resume tasks start where their rows say, on rows that tell of a booked redemption.
LEMMA RestartStep == FunderInv /\ Restart => FunderInv'
<1> SUFFICES ASSUME FunderInv, Restart PROVE FunderInv'
  OBVIOUS
<1>1. /\ UNCHANGED <<registryVars, ledger, txs, now>>
      /\ task' = [a \in Credits |-> [Idle EXCEPT !.pc = ResumeAt(ledger[a]), !.by = "resume"]]
  BY DEF Restart
<1>2. up' \in BOOLEAN
  BY DEF Restart
<1>3. 0 <= Len(txs')
  <2>1. txs' = txs /\ txs \in Seq(Txs)
    BY DEF Restart, FunderInv, Types
  <2>2. QED
    BY <2>1
<1>4. ASSUME NEW a \in Credits
      PROVE  task'[a] \in Tasks /\ TaskOk(a, task[a])'
  <2>1. ledger[a] \in States /\ LedgerOk(a, ledger[a])
    BY DEF FunderInv, Types
  <2>2. /\ ResumeAt(ledger[a]) \in {"redeem", "transfer", "record_delivered", "idle"}
        /\ ResumeAt(ledger[a]) # "idle" => Booked(a)
        /\ ResumeAt(ledger[a]) = "record_delivered" => Delivered(a)
    BY <2>1 DEF ResumeAt, LedgerOk, Resumable
  <2>3. task'[a] = [Idle EXCEPT !.pc = ResumeAt(ledger[a]), !.by = "resume"]
    BY <1>1
  <2>4. task'[a] \in Tasks /\ task'[a].pc = ResumeAt(ledger[a]) /\ task'[a].tx = 0
    BY <2>2, <2>3, IdleFacts DEF Tasks, Phases
  <2>5. (Booked(a) => Booked(a)') /\ (Delivered(a) => Delivered(a)')
    BY <1>1 DEF Booked, Delivered, registryVars
  <2>6. TaskOk(a, task[a])'
    BY <1>3, <2>2, <2>4, <2>5 DEF TaskOk
  <2>7. QED
    BY <2>4, <2>6
<1>5. task' \in [Credits -> Tasks]
  BY <1>1, <1>4
<1>6. QED
  BY <1>1, <1>2, <1>4, <1>5, TasksChange

-----------------------------------------------------------------------------
(* The chain.                                                              *)

\* A booked redemption has used up its nonce.
LEMMA BookedNonce ==
  ASSUME FunderInv, NEW a \in Credits, Booked(a)
  PROVE  a.nonce < nonce /\ nonce # 0
<1>1. PICK k \in 1..Len(log) : log[k].nonce = a.nonce
  BY DEF Booked
<1>2. a.nonce < nonce
  BY <1>1 DEF FunderInv, NonceInv
<1>3. a.nonce \in Nat /\ nonce \in Nat
  BY Bounds DEF FunderInv, NonceInv, Types
<1>4. QED
  BY <1>2, <1>3

\* The registry books a redemption or a Credit for the current nonce.
LEMMA BookFacts ==
  ASSUME FunderInv, NEW kind \in {"Credited", "Redeemed"}, NEW f \in Fields,
         NEW new \in 0..MaxUint, Book(kind, f, new), f.nonce = nonce
  PROVE  /\ log' \in Seq(Events) /\ Len(log') = Len(log) + 1 /\ Len(log) \in Nat
         /\ \A k \in 1..Len(log) : log'[k] = log[k]
         /\ log'[Len(log) + 1].kind = kind /\ log'[Len(log) + 1].nonce = f.nonce
         /\ log'[Len(log) + 1].amount = f.amount
         /\ balance' \in 0..MaxUint /\ NonceInv'
<1>1. log \in Seq(Events) /\ nonce = Len(log) /\ f.amount \in Nat /\ f.nonce \in Nat /\ new \in Nat
  BY Bounds DEF FunderInv, Types, NonceInv, Fields
<1>2. PICK e : e = [kind |-> kind, amount |-> f.amount, newBalance |-> new, nonce |-> f.nonce]
  OBVIOUS
<1>3. e \in Events /\ e.kind = kind /\ e.amount = f.amount /\ e.nonce = f.nonce
  BY <1>1, <1>2 DEF Events, Event
<1>4. log' = Append(log, e) /\ nonce' = f.nonce + 1 /\ balance' = new
  BY <1>2 DEF Book
<1>5. /\ log' \in Seq(Events) /\ Len(log') = Len(log) + 1 /\ Len(log) \in Nat
      /\ \A k \in 1..Len(log) : log'[k] = log[k]
      /\ log'[Len(log) + 1] = e
  BY <1>1, <1>3, <1>4
<1>6. nonce' = Len(log')
  BY <1>1, <1>4, <1>5
<1>7. ASSUME NEW k \in 1..Len(log')
      PROVE  log'[k].nonce < nonce'
  <2>1. CASE k \in 1..Len(log)
    <3>1. log[k].nonce < nonce
      BY <2>1 DEF FunderInv, NonceInv
    <3>2. log[k] \in Events
      BY <1>1, <2>1
    <3>3. log[k].nonce \in Nat
      BY <3>2 DEF Events, Event
    <3>4. QED
      BY <1>1, <1>4, <1>5, <2>1, <3>1, <3>3
  <2>2. CASE k = Len(log) + 1
    BY <1>1, <1>3, <1>4, <1>5, <2>2
  <2>3. QED
    BY <1>5, <2>1, <2>2
<1>8. QED
  BY <1>3, <1>4, <1>5, <1>6, <1>7 DEF NonceInv

\* A Credit is booked: nothing that was known is lost.
LEMMA BookCreditStep ==
  ASSUME FunderInv, NEW a \in Credits, BookCredit(a)
  PROVE  FunderInv'
<1>1. /\ UNCHANGED <<ledger, task, txs, up, now>>
      /\ a.nonce = nonce /\ balance + a.amount <= MaxUint
      /\ Book("Credited", a, balance + a.amount)
  <2>1. UNCHANGED <<ledger, task, txs, up, now>> /\ credit(a)
    BY DEF BookCredit
  <2>2. balance + a.amount \in 0..MaxUint
    BY <2>1, Bounds DEF credit, Fits, FunderInv, Types
  <2>3. Word(balance + a.amount) = balance + a.amount
    BY <2>2, WordFits
  <2> QED
    BY <2>1, <2>2, <2>3 DEF credit, Accepts, Fits
<1>2. a \in Fields /\ balance + a.amount \in 0..MaxUint
  BY <1>1, Bounds DEF FunderInv, Types
<1>3. /\ log' \in Seq(Events) /\ Len(log') = Len(log) + 1 /\ Len(log) \in Nat
      /\ \A k \in 1..Len(log) : log'[k] = log[k]
      /\ balance' \in 0..MaxUint /\ NonceInv'
  BY <1>1, <1>2, BookFacts
<1>4. Types' /\ OnceInv'
  BY <1>1, <1>3 DEF FunderInv, Types, OnceInv, Redeemed
<1>5. Grows
  BY <1>1, <1>3 DEF Grows, FunderInv, Types
<1>6. ASSUME NEW b \in Credits
      PROVE  LedgerOk(b, ledger[b])' /\ TaskOk(b, task[b])'
  <2>1. PICK l, u : l = ledger[b] /\ u = task[b]
    OBVIOUS
  <2>2. LedgerOk(b, l) /\ TaskOk(b, u) /\ u \in Tasks
    BY <2>1 DEF FunderInv, Types
  <2>3. LedgerOk(b, l)' /\ TaskOk(b, u)'
    BY <1>5, <2>2, StaysKnown
  <2>4. QED
    BY <1>1, <2>1, <2>3 DEF LedgerOk, TaskOk
<1>7. \A i \in 1..Len(txs') : TxOk(txs[i])'
  BY <1>1, <1>5, StaysKnown DEF FunderInv, TxOk
<1>8. QED
  BY <1>3, <1>4, <1>6, <1>7 DEF FunderInv

LEMMA TickStep == FunderInv /\ Tick => FunderInv'
<1> SUFFICES ASSUME FunderInv, Tick PROVE FunderInv'
  OBVIOUS
<1>1. now' = now + 1 /\ UNCHANGED <<registryVars, ledger, task, txs, up>>
  BY DEF Tick
<1>2. Types' /\ NonceInv' /\ OnceInv'
  BY <1>1 DEF FunderInv, Types, NonceInv, OnceInv, Redeemed, registryVars
<1>3. \A a \in Credits : LedgerOk(a, ledger[a])' /\ TaskOk(a, task[a])'
  BY <1>1 DEF FunderInv, LedgerOk, TaskOk, Booked, Delivered, registryVars
<1>4. \A i \in 1..Len(txs') : TxOk(txs[i])'
  BY <1>1 DEF FunderInv, TxOk, Booked, registryVars
<1>5. QED
  BY <1>2, <1>3, <1>4 DEF FunderInv

\* A transaction of the wallet is mined: a redemption passes only while its nonce is the
\* registry's, so it is the first of its Credit.
LEMMA MineStep == FunderInv /\ Mine => FunderInv'
<1> SUFFICES ASSUME FunderInv, Mine PROVE FunderInv'
  OBVIOUS
<1>1. PICK i \in 1..Len(txs) :
        /\ txs[i].status = "pending"
        /\ \/ /\ txs' = [txs EXCEPT ![i].status = "ok"]
              /\ IF txs[i].kind = "redeem" THEN redeem(txs[i].fields) ELSE UNCHANGED registryVars
           \/ txs' = [txs EXCEPT ![i].status = "reverted"] /\ UNCHANGED registryVars
        /\ UNCHANGED <<ledger, task, up, now>>
  BY DEF Mine
<1>2. /\ txs \in Seq(Txs) /\ txs[i] \in Txs /\ txs[i].att \in Credits /\ txs[i].fields \in Fields
      /\ TxOk(txs[i]) /\ log \in Seq(Events)
  <2>1. txs \in Seq(Txs) /\ TxOk(txs[i]) /\ log \in Seq(Events)
    BY DEF FunderInv, Types
  <2>2. txs[i] \in Txs
    BY <2>1
  <2>3. QED
    BY <2>1, <2>2 DEF Txs
<1>3. PICK status \in {"ok", "reverted"} : txs' = [txs EXCEPT ![i].status = status]
  BY <1>1
<1>4. /\ txs' \in Seq(Txs) /\ Len(txs') = Len(txs) /\ Len(txs) \in Nat
      /\ \A j \in 1..Len(txs) : j # i => txs'[j] = txs[j]
      /\ txs'[i] = [txs[i] EXCEPT !.status = status]
  <2>1. [txs[i] EXCEPT !.status = status] \in Txs
    BY <1>2 DEF Txs
  <2>2. PICK x \in Txs : x = [txs[i] EXCEPT !.status = status]
    BY <2>1
  <2>3. txs' = [txs EXCEPT ![i] = x]
    BY <1>3, <2>2
  <2>4. QED
    BY <1>2, <2>2, <2>3
<1>5. /\ txs'[i].kind = txs[i].kind /\ txs'[i].att = txs[i].att /\ txs'[i].fields = txs[i].fields
      /\ txs'[i].status = status
  BY <1>2, <1>4 DEF Txs
<1>same. \A j \in 1..Len(txs) : /\ txs'[j].kind = txs[j].kind /\ txs'[j].att = txs[j].att
                                /\ txs[j].status = "ok" => txs'[j].status = "ok"
  <2>1. txs[i].status # "ok"
    BY <1>1
  <2>2. QED
    BY <1>4, <1>5, <2>1
<1>6. CASE txs[i].kind = "redeem" /\ status = "ok"
  <2> DEFINE f == txs[i].fields
             a == txs[i].att
  <2>1. f.nonce = nonce /\ Covers(f) /\ Book("Redeemed", f, balance - f.amount)
    <3>1. txs'[i].status # "reverted"
      BY <1>5, <1>6
    <3>2. [txs EXCEPT ![i].status = "reverted"][i].status = "reverted"
      BY <1>2 DEF Txs
    <3>3. redeem(f)
      BY <1>1, <1>6, <3>1, <3>2
    <3>4. f.amount \in Nat
      BY <1>2 DEF Fields
    <3>5. balance - f.amount \in 0..MaxUint
      BY <3>3, <3>4, Bounds DEF redeem, Covers, FunderInv, Types
    <3>6. Word(balance - f.amount) = balance - f.amount
      BY <3>5, WordFits
    <3>7. QED
      BY <3>3, <3>6 DEF redeem, Accepts
  <2>2. f.amount \in Nat /\ f.nonce \in Nat /\ a.nonce \in Nat
    BY <1>2, Bounds DEF Fields
  <2>3. balance - f.amount \in 0..MaxUint
    BY <2>1, <2>2, Bounds DEF FunderInv, Types, Covers
  <2>4. ~Booked(a) /\ f.nonce = a.nonce /\ f.amount = a.amount
    <3>1. f.amount = a.amount /\ (f.nonce = a.nonce \/ (f.nonce = 0 /\ Booked(a)))
      BY <1>2, <1>6 DEF TxOk
    <3>2. Booked(a) => a.nonce < nonce /\ nonce # 0
      BY <1>2, BookedNonce
    <3>3. QED
      BY <2>1, <2>2, <3>1, <3>2
  <2>5. /\ log' \in Seq(Events) /\ Len(log') = Len(log) + 1 /\ Len(log) \in Nat
        /\ \A k \in 1..Len(log) : log'[k] = log[k]
        /\ log'[Len(log) + 1].kind = "Redeemed" /\ log'[Len(log) + 1].nonce = f.nonce
        /\ log'[Len(log) + 1].amount = f.amount
        /\ balance' \in 0..MaxUint /\ NonceInv'
    BY <1>2, <2>1, <2>3, BookFacts
  <2>6. Grows
    BY <1>same, <1>4, <2>5 DEF Grows
  <2>7. PICK c : c = a
    OBVIOUS
  <2>8. Booked(c)'
    <3>1. Len(log) + 1 \in 1..Len(log')
      BY <2>5
    <3>2. QED
      BY <2>4, <2>5, <2>7, <3>1 DEF Booked
  <2>9. Types'
    BY <1>1, <1>4, <2>5 DEF FunderInv, Types
  <2>10. OnceInv'
    <3>1. ASSUME NEW j \in 1..Len(txs), j # i, Redeemed(j)'
          PROVE  txs'[j].att # txs'[i].att
      <4>1. Redeemed(j) /\ TxOk(txs[j]) /\ txs'[j].att = txs[j].att
        BY <1>4, <3>1 DEF Redeemed, FunderInv
      <4>2. Booked(txs[j].att)
        BY <4>1 DEF TxOk, Redeemed
      <4>3. QED
        BY <1>5, <2>4, <4>1, <4>2
    <3>2. ASSUME NEW j \in 1..Len(txs), NEW k \in 1..Len(txs), j # i, k # i,
                 Redeemed(j)', Redeemed(k)', txs'[j].att = txs'[k].att
          PROVE  j = k
      BY <1>4, <3>2 DEF FunderInv, OnceInv, Redeemed
    <3>3. QED
      BY <1>4, <3>1, <3>2 DEF OnceInv
  <2>11. ASSUME NEW j \in 1..Len(txs')
         PROVE  TxOk(txs[j])'
    <3>1. CASE j = i
      BY <1>5, <1>6, <2>4, <2>7, <2>8, <3>1 DEF TxOk
    <3>2. CASE j # i
      <4>1. txs'[j] = txs[j] /\ TxOk(txs[j])
        BY <1>4, <3>2 DEF FunderInv
      <4>2. QED
        BY <2>6, <4>1, StaysKnown DEF TxOk
    <3>3. QED
      BY <3>1, <3>2
  <2>12. ASSUME NEW b \in Credits
         PROVE  LedgerOk(b, ledger[b])' /\ TaskOk(b, task[b])'
    <3>1. PICK l, u : l = ledger[b] /\ u = task[b]
      OBVIOUS
    <3>2. LedgerOk(b, l) /\ TaskOk(b, u) /\ u \in Tasks
      BY <3>1 DEF FunderInv, Types
    <3>3. LedgerOk(b, l)' /\ TaskOk(b, u)'
      BY <2>6, <3>2, StaysKnown
    <3>4. QED
      BY <1>1, <3>1, <3>3 DEF LedgerOk, TaskOk
  <2>13. QED
    BY <2>5, <2>9, <2>10, <2>11, <2>12 DEF FunderInv
<1>7. CASE ~(txs[i].kind = "redeem" /\ status = "ok")
  <2>1. UNCHANGED registryVars
    <3>1. [txs EXCEPT ![i].status = "ok"][i].status = "ok"
      BY <1>2 DEF Txs
    <3>2. QED
      BY <1>1, <1>5, <1>7, <3>1
  <2>2. Grows
    BY <1>same, <1>2, <1>4, <2>1 DEF Grows, registryVars
  <2>3. Types' /\ NonceInv'
    BY <1>1, <1>4, <2>1 DEF FunderInv, Types, NonceInv, registryVars
  <2>4. \A j \in 1..Len(txs) : Redeemed(j)' => Redeemed(j) /\ txs'[j].att = txs[j].att
    BY <1>4, <1>5, <1>7 DEF Redeemed
  <2>5. OnceInv'
    BY <1>4, <2>4 DEF FunderInv, OnceInv
  <2>6. ASSUME NEW j \in 1..Len(txs')
        PROVE  TxOk(txs[j])'
    <3>1. TxOk(txs[j])
      BY <1>4 DEF FunderInv
    <3>2. CASE j = i
      BY <1>5, <1>7, <2>2, <3>1, <3>2, StaysKnown DEF TxOk
    <3>3. CASE j # i
      BY <1>4, <2>2, <3>1, <3>3, StaysKnown DEF TxOk
    <3>4. QED
      BY <3>2, <3>3
  <2>7. ASSUME NEW b \in Credits
        PROVE  LedgerOk(b, ledger[b])' /\ TaskOk(b, task[b])'
    <3>1. PICK l, u : l = ledger[b] /\ u = task[b]
      OBVIOUS
    <3>2. LedgerOk(b, l) /\ TaskOk(b, u) /\ u \in Tasks
      BY <3>1 DEF FunderInv, Types
    <3>3. LedgerOk(b, l)' /\ TaskOk(b, u)'
      BY <2>2, <3>2, StaysKnown
    <3>4. QED
      BY <1>1, <3>1, <3>3 DEF LedgerOk, TaskOk
  <2>8. QED
    BY <2>3, <2>5, <2>6, <2>7 DEF FunderInv
<1>8. QED
  BY <1>6, <1>7

-----------------------------------------------------------------------------
(* The theorems.                                                           *)

\* Every step of a task, of the process, of the chain and of the user keeps the invariant.
LEMMA NextInv == FunderInv /\ [Next]_vars => FunderInv'
<1> SUFFICES ASSUME FunderInv, [Next]_vars PROVE FunderInv'
  OBVIOUS
<1>1. ASSUME NEW a \in Credits, TaskStep(a) PROVE FunderInv'
  BY <1>1, TopUpStep, BroadcastStep, AwaitStep, RecordStep, DropStep DEF TaskStep
<1>2. CASE Crash
  BY <1>2, CrashStep
<1>3. CASE Restart
  BY <1>3, RestartStep
<1>4. CASE Mine
  BY <1>4, MineStep
<1>5. ASSUME NEW a \in Credits, BookCredit(a) PROVE FunderInv'
  BY <1>5, BookCreditStep
<1>6. CASE Tick
  BY <1>6, TickStep
<1>7. CASE UNCHANGED vars
  <2>1. UNCHANGED <<registryVars, ledger, task, txs, up, now>>
    BY <1>7 DEF vars
  <2>2. up' \in BOOLEAN /\ task' \in [Credits -> Tasks]
    BY <2>1 DEF FunderInv, Types
  <2>3. \A a \in Credits : TaskOk(a, task[a])'
    BY <2>1 DEF FunderInv, TaskOk, Booked, Delivered, registryVars
  <2>4. QED
    BY <2>1, <2>2, <2>3, TasksChange
<1>8. QED
  BY <1>1, <1>2, <1>3, <1>4, <1>5, <1>6, <1>7 DEF Next

\* The inductive invariant of the funder: rows, tasks and transactions tell the truth
\* about the chain across crashes, lost answers and failed writes.
THEOREM FunderSafe == Spec => []FunderInv
  BY InitInv, NextInv, PTL DEF Spec

\* The rows and tasks of the service keep their types, the retry loops their budget, and
\* the registry's nonce counts its events.
THEOREM TypeCorrect == Spec => []TypeOK
<1>1. FunderInv => TypeOK
  <2> SUFFICES ASSUME FunderInv PROVE TypeOK
    OBVIOUS
  <2>1. DOMAIN Writes = {"record_redeem", "record_mined", "record_transfer", "record_delivered",
                         "mark_failed"}
    BY DEF Writes
  <2>2. ASSUME NEW a \in Credits
        PROVE  task[a] \in [pc : {"idle", "redeem", "redeem_receipt", "transfer", "transfer_receipt",
                                  "unmarked"} \cup DOMAIN Writes,
                            by : {"handler", "resume"}, attempts : 0..(MAX_RETRIES - 1),
                            tx : 0..Len(txs)]
    <3>1. task[a] \in Tasks /\ task[a].tx <= Len(txs) /\ Len(txs) \in Nat
      BY DEF FunderInv, Types, TaskOk
    <3>2. task[a].tx \in 0..Len(txs)
      BY <3>1 DEF Tasks
    <3>3. QED
      BY <2>1, <3>1, <3>2 DEF Tasks, Phases
  <2>3. task \in [Credits -> [pc : {"idle", "redeem", "redeem_receipt", "transfer",
                                    "transfer_receipt", "unmarked"} \cup DOMAIN Writes,
                              by : {"handler", "resume"}, attempts : 0..(MAX_RETRIES - 1),
                              tx : 0..Len(txs)]]
    BY <2>2 DEF FunderInv, Types
  <2>4. /\ ledger \in [Credits -> PaymentState \cup {"absent"}]
        /\ balance \in 0..MaxUint /\ nonce = Len(log)
    BY DEF FunderInv, Types, States, NonceInv
  <2>5. up \in BOOLEAN
    BY DEF FunderInv, Types
  <2>6. QED
    BY <2>3, <2>4, <2>5 DEF TypeOK
<1>2. QED
  BY <1>1, FunderSafe, PTL

\* L-payment-order: the funder sends no ETH for a Credit whose redemption is not booked on
\* chain at the Credit's nonce and for its amount.
THEOREM PaidBeforeEth == Spec => []NoFreeEth
<1>1. FunderInv => NoFreeEth
  BY DEF FunderInv, TxOk, Booked, NoFreeEth
<1>2. QED
  BY <1>1, FunderSafe, PTL

\* However often broadcast_redemption_with_retries and the resume task send it, one
\* redemption of a Credit passes.
THEOREM OneDebit == Spec => []DebitedOnce
<1>1. FunderInv => DebitedOnce
  <2> SUFFICES ASSUME FunderInv, NEW a \in Credits
               PROVE  Cardinality(Mined(a, "redeem")) <= 1
    BY DEF DebitedOnce
  <2>1. \A i, j \in Mined(a, "redeem") : i = j
    BY DEF Mined, FunderInv, OnceInv, Redeemed
  <2>2. CASE Mined(a, "redeem") = {}
    BY <2>2, FS_EmptySet
  <2>3. CASE Mined(a, "redeem") # {}
    <3>1. PICK i : Mined(a, "redeem") = {i}
      BY <2>1, <2>3
    <3>2. QED
      BY <3>1, FS_Singleton
  <2>4. QED
    BY <2>2, <2>3
<1>2. QED
  BY <1>1, FunderSafe, PTL

\* A row that says eth_transfer_mined tells of a transfer that was mined, although the resume
\* task writes it without a receipt.
THEOREM RowsTellTheTruth == Spec => []DeliveredIsTrue
<1>1. FunderInv => DeliveredIsTrue
  BY DEF FunderInv, LedgerOk, Delivered, DeliveredIsTrue, Mined
<1>2. QED
  BY <1>1, FunderSafe, PTL

-----------------------------------------------------------------------------
(***************************************************************************)
(* The contract that the service redeems on, under all its callers: every  *)
(* attestation may be signed, and anyone may relay it.                     *)
(***************************************************************************)
VARIABLES signedCredits, signedRedemptions

Contract == INSTANCE EntitlementRelay
  WITH Attestations <- Credits, credits <- signedCredits, redemptions <- signedRedemptions

\* The accounting facts are inductive as they stand: only Book writes what they speak of.
RegistryInv == Contract!TypeOK /\ LogAccounts /\ NonceRatchet

\* The deployed registry: no balance, nonce 0 and no event.
LEMMA RegistryInit == Contract!Init => RegistryInv
  BY FunderAssumption, RegistryAssumption
  DEF Contract!Init, Contract!Deployed, RegistryInv, Contract!TypeOK, LogAccounts, NonceRatchet,
  BalanceBefore, Contract!Event

\* A successful credit or redeem appends one event and keeps the books: both
\* functions write through Book, after the checks that make newBalance fit.
LEMMA BookStep ==
  ASSUME RegistryInv,
         NEW a \in Credits, NEW kind \in {"Credited", "Redeemed"},
         NEW newBalance \in 0..MaxUint,
         a.nonce = nonce,
         IF kind = "Credited" THEN newBalance = balance + a.amount
                              ELSE balance = newBalance + a.amount,
         Contract!Book(kind, a, newBalance),
         UNCHANGED <<signedCredits, signedRedemptions, now>>
  PROVE  RegistryInv'
<1> DEFINE e == [kind |-> kind, amount |-> a.amount,
                 newBalance |-> newBalance, nonce |-> a.nonce]
<1>1. /\ a.amount \in Nat /\ a.nonce \in Nat
      /\ MaxUint \in Nat /\ newBalance \in Nat
  BY FunderAssumption, RegistryAssumption
<1>2. log \in Seq(Contract!Event) /\ Len(log) \in Nat /\ e \in Contract!Event
  BY <1>1 DEF RegistryInv, Contract!TypeOK, Contract!Event
<1>3. /\ log' = Append(log, e)
      /\ balance' = newBalance
      /\ nonce' = a.nonce + 1
  BY DEF Contract!Book
<1> PICK n \in Nat : n = Len(log)
  BY <1>2
<1>4. /\ log' \in Seq(Contract!Event)
      /\ Len(log') = n + 1
      /\ log'[n + 1] = e
      /\ \A i \in 1..n : log'[i] = log[i]
  BY <1>2, <1>3
<1>5. Contract!TypeOK'
  BY <1>1, <1>3, <1>4 DEF RegistryInv, Contract!TypeOK
<1>6. NonceRatchet'
  <2>1. nonce = n /\ \A i \in 1..n : log[i].nonce = i - 1
    BY DEF RegistryInv, NonceRatchet
  <2>2. nonce' = n + 1 /\ log'[n + 1].nonce = n
    BY <1>3, <1>4, <2>1
  <2>3. QED
    BY <1>4, <2>1, <2>2 DEF NonceRatchet
<1>7. LogAccounts'
  <2>1. balance' = BalanceBefore(n + 1 + 1)'
    BY <1>3, <1>4 DEF BalanceBefore
  <2>2. \A i \in 1..(n + 1) : BalanceBefore(i)' = BalanceBefore(i)
    BY <1>4 DEF BalanceBefore
  <2>3. ASSUME NEW i \in 1..(n + 1)
        PROVE  (IF log[i].kind = "Credited"
                THEN log[i].newBalance = BalanceBefore(i) + log[i].amount
                ELSE BalanceBefore(i) = log[i].newBalance + log[i].amount)'
    <3>1. CASE i \in 1..n
      BY <3>1, <1>4, <2>2 DEF RegistryInv, LogAccounts
    <3>2. CASE i = n + 1
      <4>1. BalanceBefore(i)' = balance
        BY <3>2, <2>2 DEF RegistryInv, LogAccounts
      <4>2. log'[i] = e
        BY <3>2, <1>4
      <4>3. QED
        BY <4>1, <4>2
    <3>3. QED
      BY <3>1, <3>2
  <2>4. QED
    BY <2>1, <2>3, <1>4 DEF LogAccounts
<1>8. QED
  BY <1>5, <1>6, <1>7 DEF RegistryInv

\* Every call of the registry, every new attestation and every tick keeps the
\* invariant.
LEMMA RegistryNext == RegistryInv /\ [Contract!Next]_(Contract!vars) => RegistryInv'
<1> SUFFICES ASSUME RegistryInv, [Contract!Next]_(Contract!vars) PROVE RegistryInv'
  OBVIOUS
<1>1. ASSUME NEW a \in signedCredits, Contract!credit(a),
             UNCHANGED <<signedCredits, signedRedemptions, now>>
      PROVE  RegistryInv'
  <2>1. /\ a \in Credits /\ a.amount \in Nat /\ balance \in 0..MaxUint
        /\ MaxUint \in Nat
    BY FunderAssumption, RegistryAssumption DEF RegistryInv, Contract!TypeOK
  <2>2. balance + a.amount \in 0..MaxUint
    BY <1>1, <2>1 DEF Contract!credit, Contract!Fits
  <2>3. Contract!Word(balance + a.amount) = balance + a.amount
    BY <2>2, WordFits DEF Word, Contract!Word
  <2>4. QED
    BY <1>1, <2>1, <2>2, <2>3, BookStep DEF Contract!credit, Contract!Accepts
<1>2. ASSUME NEW a \in signedRedemptions, Contract!redeem(a),
             UNCHANGED <<signedCredits, signedRedemptions, now>>
      PROVE  RegistryInv'
  <2>1. /\ a \in Credits /\ a.amount \in Nat /\ balance \in 0..MaxUint
        /\ MaxUint \in Nat
    BY FunderAssumption, RegistryAssumption DEF RegistryInv, Contract!TypeOK
  <2>2. balance - a.amount \in 0..MaxUint /\ balance = (balance - a.amount) + a.amount
    BY <1>2, <2>1 DEF Contract!redeem, Contract!Covers
  <2>3. Contract!Word(balance - a.amount) = balance - a.amount
    BY <2>2, WordFits DEF Word, Contract!Word
  <2>4. QED
    BY <1>2, <2>1, <2>2, <2>3, BookStep DEF Contract!redeem, Contract!Accepts
<1>3. ASSUME NEW a \in Credits, Contract!signCredit(a) \/ Contract!signRedemption(a),
             UNCHANGED <<Contract!registryVars, now>>
      PROVE  RegistryInv'
  BY <1>3 DEF RegistryInv, Contract!TypeOK, LogAccounts, NonceRatchet,
     BalanceBefore,
     Contract!registryVars, Contract!signCredit, Contract!signRedemption
<1>4. CASE Contract!Tick /\ UNCHANGED <<Contract!registryVars, signedCredits, signedRedemptions>>
  BY <1>4 DEF RegistryInv, Contract!TypeOK, LogAccounts, NonceRatchet,
     BalanceBefore,
     Contract!registryVars, Contract!Tick
<1>5. CASE UNCHANGED Contract!vars
  BY <1>5 DEF RegistryInv, Contract!TypeOK, LogAccounts, NonceRatchet,
     BalanceBefore,
     Contract!vars, Contract!registryVars
<1>6. QED
  BY <1>1, <1>2, <1>3, <1>4, <1>5 DEF Contract!Next

\* The books and the nonce ratchet of the registry hold in every reachable
\* state.
THEOREM RegistrySafe == Contract!Spec => []RegistryInv
  BY RegistryInit, RegistryNext, PTL DEF Contract!Spec

\* The balance never leaves the range of its integer type.
THEOREM BalanceFits == Contract!Spec => []Contract!TypeOK
  BY RegistrySafe, PTL DEF RegistryInv

\* The events of credit and redeem account for every unit of the balance.
THEOREM BooksBalance == Contract!Spec => []LogAccounts
  BY RegistrySafe, PTL DEF RegistryInv

\* No Credit or Redemption attestation is booked twice.
THEOREM NoReplay == Contract!Spec => []NonceRatchet
  BY RegistrySafe, PTL DEF RegistryInv

-----------------------------------------------------------------------------
(***************************************************************************)
(* The rate limiter in front of the service, for any addresses and limits, *)
(* any finite set of requests, and times read in any order.                *)
(*                                                                         *)
(* A bucket holds the intervals it has been given, and its replenishment   *)
(* clock has booked them; the counter's window begins at a time that some  *)
(* request read, so a new window lies a whole window after the last.       *)
(***************************************************************************)
\* A request on its way through the three critical sections.
InFlight == [pc : {"address", "global", "refund"}, addr : Addresses, at : Nat]

\* The types of the limiter's variables.
LimiterTypes ==
  /\ DOMAIN buckets \subseteq Addresses
  /\ \A a \in DOMAIN buckets : buckets[a] \in Bucket
  /\ count \in 0..GLOBAL_CAP /\ clock \in Nat /\ window_start \in 0..clock
  /\ request \in [Requests -> InFlight \cup {NoRequest}]
  /\ admitted \in [Addresses -> Nat] /\ abandoned \in [Addresses -> Nat] /\ granted \in Nat

\* No request and no bucket is ahead of the clock.
TimesInv ==
  /\ \A r \in Requests : request[r].pc # "idle" => request[r].at <= clock
  /\ \A a \in DOMAIN buckets : buckets[a].last_replenish <= clock

\* What an address was given, beyond its full bucket, was replenished for it.
RateInv ==
  \A a \in Addresses \ collected :
    IF a \in DOMAIN buckets
    THEN (buckets[a].tokens + Held(a) + admitted[a] - BUCKET_SIZE) * INTERVAL
           <= buckets[a].last_replenish
    ELSE admitted[a] = 0 /\ Held(a) = 0

\* The windows before this one were at most full.
WindowInv == granted <= GLOBAL_CAP * (window_start \div WINDOW) + count

\* The inductive invariant of the limiter.
LimiterInv ==
  /\ LimiterTypes /\ TimesInv
  /\ NoTokenLeak /\ RateInv /\ WindowInv

\* What LimiterAssumption says of the limits, as the arithmetic needs it.
Limits ==
  /\ BUCKET_SIZE \in Nat /\ GLOBAL_CAP \in Nat /\ BUCKET_TTL \in Nat
  /\ INTERVAL \in Nat /\ INTERVAL > 0 /\ WINDOW \in Nat /\ WINDOW > 0

\* The limits are numbers, and an interval and a window are not empty.
LEMMA LimitFacts ==
  Limits /\ IsFiniteSet(Requests)
  BY LimiterAssumption DEF Limits

\* What fits into x as often as k times is at most the quotient.
LEMMA DivBelow ==
  ASSUME NEW d \in Nat, d > 0, NEW k \in Int, NEW x \in Nat, k * d <= x
  PROVE  k <= x \div d
  OBVIOUS

\* The quotient of two numbers.
LEMMA DivIsNat ==
  ASSUME NEW d \in Nat, d > 0, NEW x \in Nat
  PROVE  x \div d \in Nat /\ (x \div d) * d <= x
  OBVIOUS

\* A later time is in the same window or a later one, and in a later one after a whole window.
LEMMA DivGrows ==
  ASSUME NEW d \in Nat, d > 0, NEW x \in Nat, NEW y \in Nat
  PROVE  /\ x <= y => x \div d <= y \div d
         /\ x + d <= y => x \div d + 1 <= y \div d
  OBVIOUS

\* A token that moves between two places leaves the sum as it was.
LEMMA SumStays ==
  ASSUME NEW t \in Int, NEW h \in Int, NEW m \in Int, NEW k \in Int, NEW n \in Int, NEW s \in Int,
         k + n = h + m
  PROVE  t + k + n - s = t + h + m - s
  OBVIOUS

\* Products, for the provers: of a sum,
LEMMA TimesSum ==
  ASSUME NEW d \in Nat, NEW x \in Int, NEW n \in Int
  PROVE  (x + n) * d = x * d + n * d
  OBVIOUS

\* and of a larger number.
LEMMA TimesGrows ==
  ASSUME NEW d \in Nat, NEW x \in Int, NEW y \in Int, x <= y
  PROVE  x * d <= y * d
  OBVIOUS

\* The tokens in flight are counted by a natural number.
LEMMA HeldType ==
  ASSUME NEW a
  PROVE  Held(a) \in Nat
  BY LimitFacts, FS_Subset, FS_CardinalityType DEF Held

\* Request r holds a token of a.
Holds(r, a) == request[r].pc \in {"global", "refund"} /\ request[r].addr = a

\* One request moves: the token it held is counted no more, the one it holds is.
LEMMA HeldStep ==
  ASSUME NEW r \in Requests, NEW a,
         \A q \in Requests \ {r} : request'[q] = request[q]
  PROVE  /\ Held(a) \in Nat
         /\ Holds(r, a) => Held(a) > 0
         /\ Held(a)' =
              IF Holds(r, a) THEN IF Holds(r, a)' THEN Held(a) ELSE Held(a) - 1
                             ELSE IF Holds(r, a)' THEN Held(a) + 1 ELSE Held(a)
<1> DEFINE S == {q \in Requests : Holds(q, a)}
           T == {q \in Requests : Holds(q, a)'}
<1>1. Held(a) = Cardinality(S) /\ Held(a)' = Cardinality(T)
  BY DEF Held, Holds
<1>2. IsFiniteSet(S)
  BY LimitFacts, FS_Subset
<1>3. \A q \in Requests \ {r} : Holds(q, a)' <=> Holds(q, a)
  BY DEF Holds
<1> HIDE DEF Holds
<1>4. Cardinality(S) \in Nat /\ (r \in S => Cardinality(S \ {r}) = Cardinality(S) - 1)
  BY <1>2, FS_CardinalityType, FS_RemoveElement
<1>5. Cardinality(S \ {r}) \in Nat
  BY <1>2, FS_CardinalityType, FS_RemoveElement
<1>6. CASE Holds(r, a) /\ Holds(r, a)'
  BY <1>1, <1>3, <1>4, <1>5, <1>6
<1>7. CASE Holds(r, a) /\ ~Holds(r, a)'
  <2>1. T = S \ {r} /\ r \in S
    BY <1>3, <1>7
  <2>2. Cardinality(T) = Cardinality(S) - 1 /\ Cardinality(S) \in Nat /\ Cardinality(T) \in Nat
    BY <1>4, <1>5, <2>1
  <2>3. Cardinality(S) > 0
    BY <2>2
  <2>4. QED
    BY <1>1, <1>7, <2>2, <2>3
<1>8. CASE ~Holds(r, a) /\ Holds(r, a)'
  <2>1. T = S \cup {r} /\ r \notin S
    BY <1>3, <1>8
  <2>2. QED
    BY <1>1, <1>2, <1>4, <1>8, <2>1, FS_AddElement
<1>9. CASE ~Holds(r, a) /\ ~Holds(r, a)'
  <2>1. T = S
    BY <1>3, <1>9
  <2>2. QED
    BY <1>1, <1>4, <1>9, <2>1
<1>10. QED
  BY <1>6, <1>7, <1>8, <1>9

\* No request holds a token at the start.
LEMMA LimiterInitInv ==
  LimiterInit => LimiterInv
<1> SUFFICES ASSUME LimiterInit PROVE LimiterInv
  OBVIOUS
<1>1. \A r \in Requests : request[r].pc = "idle"
  BY DEF LimiterInit, NoRequest
<1>2. DOMAIN buckets = {}
  BY DEF LimiterInit
<1>3. LimiterTypes /\ TimesInv /\ NoTokenLeak
  BY LimitFacts, <1>1, <1>2 DEF LimiterInit, LimiterTypes, TimesInv, NoTokenLeak, Limits
<1>4. \A a : Held(a) = 0
  <2>1. \A a : {r \in Requests : request[r].pc \in {"global", "refund"} /\ request[r].addr = a} = {}
    BY <1>1
  <2>2. QED
    BY <2>1, FS_EmptySet DEF Held
<1>5. RateInv
  BY <1>2, <1>4 DEF LimiterInit, RateInv
<1>6. WindowInv
  BY LimitFacts, DivIsNat DEF LimiterInit, WindowInv, Limits
<1>7. QED
  BY <1>3, <1>5, <1>6 DEF LimiterInv

\* A request in flight has an address and a time that is not ahead of the clock.
LEMMA Flying ==
  ASSUME LimiterInv, NEW r \in Requests, request[r].pc # "idle"
  PROVE  request[r] \in InFlight /\ request[r].at <= clock
  BY DEF LimiterInv, LimiterTypes, TimesInv, NoRequest

\* check: a request that arrives holds nothing yet.
LEMMA CheckStep ==
  ASSUME LimiterInv, NEW r \in Requests, NEW b \in Addresses,
         check(r, b)
  PROVE  LimiterInv'
<1>1. \A q \in Requests \ {r} : request'[q] = request[q]
  BY DEF check, LimiterInv, LimiterTypes
<1>2. ~Holds(r, b) /\ \A a : ~Holds(r, a) /\ ~Holds(r, a)'
  BY DEF check, Holds, LimiterInv, LimiterTypes
<1>3. \A a : Held(a)' = Held(a)
  BY <1>1, <1>2, HeldStep
<1>4. LimiterTypes' /\ TimesInv'
  BY DEF check, LimiterInv, LimiterTypes, TimesInv, InFlight
<1>5. NoTokenLeak' /\ RateInv' /\ WindowInv'
  BY <1>3 DEF check, LimiterInv, NoTokenLeak, RateInv, WindowInv
<1>6. QED
  BY <1>4, <1>5 DEF LimiterInv

\* The garbage collection only drops buckets.
LEMMA GcFacts ==
  ASSUME NEW t
  PROVE  /\ DOMAIN AfterGc(t) \subseteq DOMAIN buckets
         /\ \A a \in DOMAIN AfterGc(t) : AfterGc(t)[a] = buckets[a]
  BY DEF AfterGc, Restrict

\* A replenishment adds at most one token per interval that it books, and books no
\* interval that is not over.
LEMMA ReplenishFacts ==
  ASSUME NEW b \in Bucket, NEW t \in Nat
  PROVE  /\ Replenished(b, t) \in Bucket
         /\ Replenished(b, t).tokens >= b.tokens
         /\ Replenished(b, t).last_replenish <= b.last_replenish
              \/ Replenished(b, t).last_replenish <= t
         /\ \E n \in Nat : /\ Replenished(b, t).tokens <= b.tokens + n
                           /\ Replenished(b, t).last_replenish = b.last_replenish + n * INTERVAL
<1> DEFINE s == Since(t, b.last_replenish)
           n == s \div INTERVAL
<1>1. b.tokens \in 0..BUCKET_SIZE /\ b.last_replenish \in Nat /\ Limits
  BY LimitFacts DEF Bucket
<1>2. s \in Nat /\ (s = 0 \/ b.last_replenish + s = t)
  BY <1>1 DEF Since
<1>3. n \in Nat /\ n * INTERVAL <= s /\ n * INTERVAL \in Nat
  BY <1>1, <1>2, DivIsNat DEF Limits
<1>4. /\ Replenished(b, t).tokens = Least(b.tokens + n, BUCKET_SIZE)
      /\ Replenished(b, t).last_replenish = b.last_replenish + n * INTERVAL
      /\ Replenished(b, t).last_seen = b.last_seen
      /\ Replenished(b, t) = [tokens |-> Least(b.tokens + n, BUCKET_SIZE),
                              last_replenish |-> b.last_replenish + n * INTERVAL,
                              last_seen |-> b.last_seen]
  <2>1. Replenished(b, t) = [b EXCEPT !.tokens = Least(b.tokens + n, BUCKET_SIZE),
                                      !.last_replenish = b.last_replenish + n * INTERVAL]
    BY DEF Replenished
  <2>2. b = [tokens |-> b.tokens, last_replenish |-> b.last_replenish, last_seen |-> b.last_seen]
    BY DEF Bucket
  <2> HIDE DEF n
  <2>3. QED
    BY <2>1, <2>2
<1> HIDE DEF n
<1>5. Replenished(b, t) \in Bucket
  BY <1>1, <1>3, <1>4 DEF Bucket, Least, Limits
<1>6. Replenished(b, t).tokens >= b.tokens /\ Replenished(b, t).tokens <= b.tokens + n
  BY <1>1, <1>3, <1>4 DEF Least, Limits
<1>7. QED
  BY <1>1, <1>2, <1>3, <1>4, <1>5, <1>6

\* The first critical section: the bucket of the address, replenished, less the token
\* that the request takes with it.
LEMMA AddressStep ==
  ASSUME LimiterInv, NEW r \in Requests, check_per_address(r)
  PROVE  LimiterInv'
<1>0. PICK t, b : t = request[r].at /\ b = request[r].addr
  OBVIOUS
<1> DEFINE map == AfterGc(t)
           entry == IF b \in DOMAIN map THEN map[b]
                    ELSE [tokens |-> BUCKET_SIZE, last_replenish |-> t, last_seen |-> t]
           full == [Replenished(entry, t) EXCEPT !.last_seen = t]
           kept == IF full.tokens = 0 THEN full ELSE [full EXCEPT !.tokens = @ - 1]
<1>1. /\ request[r].pc = "address" /\ request[r] \in InFlight /\ t <= clock
      /\ b \in Addresses /\ t \in Nat /\ clock \in Nat /\ Limits
  BY <1>0, Flying, LimitFacts DEF check_per_address, InFlight, LimiterInv, LimiterTypes
<1>2. /\ DOMAIN map \subseteq DOMAIN buckets
      /\ \A a \in DOMAIN map : map[a] = buckets[a]
  BY GcFacts
<1>3. entry \in Bucket /\ entry.last_replenish <= clock
  BY <1>1, <1>2 DEF LimiterInv, LimiterTypes, TimesInv, Bucket, Limits
<1>4. /\ buckets' = [y \in DOMAIN map \cup {b} |-> IF y = b THEN kept ELSE map[y]]
      /\ request' = IF full.tokens = 0 THEN [request EXCEPT ![r] = NoRequest]
                                       ELSE [request EXCEPT ![r].pc = "global"]
      /\ collected' = collected \cup (DOMAIN buckets \ DOMAIN map)
      /\ UNCHANGED <<count, window_start, clock, admitted, granted, abandoned>>
  BY <1>0 DEF check_per_address, GoOn, Done
<1> HIDE DEF map, entry
<1>5. full \in Bucket /\ full.tokens >= entry.tokens /\ full.last_replenish <= clock
  <2>1. /\ Replenished(entry, t) \in Bucket
        /\ Replenished(entry, t).tokens >= entry.tokens
        /\ Replenished(entry, t).last_replenish <= entry.last_replenish
             \/ Replenished(entry, t).last_replenish <= t
    BY <1>1, <1>3, ReplenishFacts
  <2>2. QED
    BY <1>1, <1>3, <2>1 DEF Bucket
<1>6. PICK n \in Nat : /\ full.tokens <= entry.tokens + n
                       /\ full.last_replenish = entry.last_replenish + n * INTERVAL
  <2>1. PICK n \in Nat : /\ Replenished(entry, t).tokens <= entry.tokens + n
                         /\ Replenished(entry, t).last_replenish
                              = entry.last_replenish + n * INTERVAL
    BY <1>1, <1>3, ReplenishFacts
  <2>2. QED
    BY <1>1, <1>3, <2>1, ReplenishFacts DEF Bucket
<1> HIDE DEF full
<1>7. /\ kept \in Bucket /\ kept.last_replenish = full.last_replenish
      /\ kept.tokens = IF full.tokens = 0 THEN 0 ELSE full.tokens - 1
  BY <1>1, <1>5 DEF Bucket, Limits
<1> HIDE DEF kept
<1>8. LimiterTypes'
  <2>1. request' \in [Requests -> InFlight \cup {NoRequest}]
    BY <1>1, <1>4 DEF LimiterInv, LimiterTypes, InFlight
  <2>2. QED
    BY <1>1, <1>2, <1>4, <1>7, <2>1 DEF LimiterInv, LimiterTypes
<1>9. \A q \in Requests \ {r} : request'[q] = request[q]
  BY <1>4 DEF LimiterInv, LimiterTypes
<1>10. request'[r] = IF full.tokens = 0 THEN NoRequest ELSE [request[r] EXCEPT !.pc = "global"]
  BY <1>4 DEF LimiterInv, LimiterTypes
<1>11. TimesInv'
  BY <1>1, <1>2, <1>4, <1>5, <1>7, <1>9, <1>10 DEF LimiterInv, TimesInv, InFlight, NoRequest
<1>12. \A a : /\ Held(a) \in Nat
              /\ Held(a)' = IF a = b /\ full.tokens # 0 THEN Held(a) + 1
                                    ELSE Held(a)
  <2>1. \A a : ~Holds(r, a) /\ (Holds(r, a)' <=> a = b /\ full.tokens # 0)
    BY <1>0, <1>1, <1>10 DEF Holds, InFlight, NoRequest
  <2>2. QED
    BY <1>9, <2>1, HeldStep
<1>13. NoTokenLeak'
  <2> SUFFICES ASSUME NEW a \in DOMAIN buckets'
               PROVE  buckets'[a].tokens + Held(a)' + abandoned'[a] + admitted'[a]
                        >= BUCKET_SIZE
    BY DEF NoTokenLeak
  <2>1. CASE a # b
    BY <1>2, <1>4, <1>12, <2>1 DEF LimiterInv, NoTokenLeak
  <2>2. CASE a = b
    <3>1. entry.tokens + Held(b) + abandoned[b] + admitted[b] >= BUCKET_SIZE
      BY <1>1, <1>2, <1>12 DEF LimiterInv, LimiterTypes, NoTokenLeak, entry, Limits
    <3>2. buckets'[b].tokens + Held(b)' = full.tokens + Held(b)
      BY <1>4, <1>5, <1>7, <1>12 DEF Bucket
    <3>3. /\ full.tokens \in Nat /\ entry.tokens \in Nat /\ Held(b) \in Nat
          /\ abandoned[b] \in Nat /\ admitted[b] \in Nat /\ BUCKET_SIZE \in Nat
      BY <1>1, <1>3, <1>5, <1>12 DEF LimiterInv, LimiterTypes, Bucket, Limits
    <3>4. buckets'[b].tokens + Held(b)' + abandoned[b] + admitted[b] >= BUCKET_SIZE
      BY <1>5, <3>1, <3>2, <3>3
    <3>5. QED
      BY <1>4, <2>2, <3>4
  <2>3. QED
    BY <2>1, <2>2
<1>14. RateInv'
  <2> SUFFICES ASSUME NEW a \in Addresses, a \notin collected'
               PROVE  IF a \in DOMAIN buckets'
                      THEN (buckets'[a].tokens + Held(a)' + admitted'[a] - BUCKET_SIZE) * INTERVAL
                             <= buckets'[a].last_replenish
                      ELSE admitted'[a] = 0 /\ Held(a)' = 0
    BY DEF RateInv
  <2>1. a \notin collected /\ (a \in DOMAIN buckets => a \in DOMAIN map)
    BY <1>4
  <2>2. CASE a # b
    BY <1>2, <1>4, <1>12, <2>1, <2>2 DEF LimiterInv, RateInv
  <2>3. CASE a = b
    <3> DEFINE x == entry.tokens + Held(b) + admitted[b] - BUCKET_SIZE
    <3>1. x \in Int /\ x * INTERVAL <= entry.last_replenish
      <4>1. CASE b \in DOMAIN map
        <5>1. entry = buckets[b]
          BY <1>2, <4>1 DEF entry
        <5>2. QED
          BY <1>1, <1>2, <1>12, <2>1, <2>3, <4>1, <5>1 DEF LimiterInv, RateInv, LimiterTypes,
             Bucket, Limits
      <4>2. CASE b \notin DOMAIN map
        <5>1. admitted[b] = 0 /\ Held(b) = 0
          BY <1>1, <2>1, <2>3, <4>2 DEF LimiterInv, RateInv
        <5>2. entry.tokens = BUCKET_SIZE /\ entry.last_replenish = t
          BY <4>2 DEF entry
        <5>3. QED
          BY <1>1, <5>1, <5>2 DEF Limits
      <4>3. QED
        BY <4>1, <4>2
    <3>2. buckets'[b].tokens + Held(b)' = full.tokens + Held(b)
      BY <1>4, <1>5, <1>7, <1>12 DEF Bucket
    <3> DEFINE y == buckets'[b].tokens + Held(b)' + admitted'[b] - BUCKET_SIZE
    <3>3. y \in Int /\ y <= x + n
      BY <1>1, <1>3, <1>4, <1>5, <1>6, <1>7, <1>12, <3>2 DEF LimiterInv, LimiterTypes,
         Bucket, Limits
    <3>4. buckets'[b].last_replenish = entry.last_replenish + n * INTERVAL
      BY <1>4, <1>6, <1>7
    <3> HIDE DEF x, y
    <3>5. y * INTERVAL <= x * INTERVAL + n * INTERVAL
      BY <1>1, <3>1, <3>3, TimesSum, TimesGrows DEF Limits
    <3>6. y * INTERVAL <= buckets'[b].last_replenish
      <4>1. entry.last_replenish \in Nat /\ n * INTERVAL \in Nat
            /\ x * INTERVAL \in Int /\ y * INTERVAL \in Int
        BY <1>1, <1>3, <3>1, <3>3 DEF Bucket, Limits
      <4>2. QED
        BY <3>1, <3>4, <3>5, <4>1
    <3>7. b \in DOMAIN buckets'
      BY <1>4
    <3>8. QED
      BY <2>3, <3>6, <3>7 DEF y
  <2>4. QED
    BY <2>2, <2>3
<1>15. WindowInv'
  BY <1>4 DEF LimiterInv, WindowInv
<1>16. QED
  BY <1>8, <1>11, <1>13, <1>14, <1>15 DEF LimiterInv

\* The second critical section: the request is admitted in a window with room, or goes on to
\* give its token back.
LEMMA GlobalStep ==
  ASSUME LimiterInv, NEW r \in Requests, check_global(r)
  PROVE  LimiterInv'
<1>0. PICK t, b, w : t = request[r].at /\ b = request[r].addr /\ w = WindowAt(t)
  OBVIOUS
<1>1. /\ request[r].pc = "global" /\ request[r] \in InFlight /\ t <= clock
      /\ b \in Addresses /\ t \in Nat /\ clock \in Nat /\ Limits
  BY <1>0, Flying, LimitFacts DEF check_global, InFlight, LimiterInv, LimiterTypes
<1>2. /\ window_start' = w.start
      /\ UNCHANGED <<buckets, clock, abandoned, collected>>
      /\ \/ /\ w.count >= GLOBAL_CAP /\ count' = w.count
            /\ request' = [request EXCEPT ![r].pc = "refund"] /\ UNCHANGED <<admitted, granted>>
         \/ /\ ~(w.count >= GLOBAL_CAP) /\ count' = w.count + 1
            /\ request' = [request EXCEPT ![r] = NoRequest]
            /\ admitted' = [admitted EXCEPT ![b] = @ + 1] /\ granted' = granted + 1
  BY <1>0 DEF check_global, GoOn, Done
<1>3. /\ w.count \in 0..GLOBAL_CAP /\ w.start \in 0..clock
      /\ granted <= GLOBAL_CAP * (w.start \div WINDOW) + w.count
  <2>1. /\ count \in Nat /\ count <= GLOBAL_CAP /\ window_start \in Nat /\ window_start <= clock
        /\ granted \in Nat /\ granted <= GLOBAL_CAP * (window_start \div WINDOW) + count
    BY DEF LimiterInv, LimiterTypes, WindowInv
  <2>2. CASE Since(t, window_start) >= WINDOW
    <3>1. window_start + WINDOW <= t /\ w.count = 0 /\ w.start = t
      BY <1>0, <1>1, <2>1, <2>2 DEF WindowAt, Since, Limits
    <3> DEFINE k == window_start \div WINDOW
               m == t \div WINDOW
    <3>2. k \in Nat /\ m \in Nat /\ k + 1 <= m
      BY <1>1, <2>1, <3>1, DivIsNat, DivGrows DEF Limits
    <3>3. GLOBAL_CAP * (k + 1) <= GLOBAL_CAP * m
      BY <1>1, <3>2, TimesGrows DEF Limits
    <3>4. GLOBAL_CAP * (k + 1) = GLOBAL_CAP * k + GLOBAL_CAP
      BY <1>1, <3>2, TimesSum DEF Limits
    <3>5. /\ GLOBAL_CAP * k \in Nat /\ GLOBAL_CAP * m \in Nat /\ GLOBAL_CAP \in Nat
          /\ granted <= GLOBAL_CAP * k + count
      BY <1>1, <2>1, <3>2 DEF Limits
    <3> HIDE DEF k, m
    <3>6. granted <= GLOBAL_CAP * m
      BY <2>1, <3>3, <3>4, <3>5
    <3>7. QED
      BY <1>1, <3>1, <3>5, <3>6 DEF m
  <2>3. CASE ~(Since(t, window_start) >= WINDOW)
    BY <1>0, <2>1, <2>3 DEF WindowAt
  <2>4. QED
    BY <2>2, <2>3
<1>4. \A q \in Requests \ {r} : request'[q] = request[q]
  BY <1>2 DEF LimiterInv, LimiterTypes
<1>5. LimiterTypes' /\ TimesInv'
  <2>1. request' \in [Requests -> InFlight \cup {NoRequest}] /\ granted' \in Nat
    BY <1>1, <1>2 DEF LimiterInv, LimiterTypes, InFlight
  <2>2. count' \in 0..GLOBAL_CAP /\ admitted' \in [Addresses -> Nat]
    BY <1>1, <1>2, <1>3 DEF LimiterInv, LimiterTypes, Limits
  <2>3. TimesInv'
    BY <1>1, <1>2, <1>4 DEF LimiterInv, LimiterTypes, TimesInv, InFlight, NoRequest
  <2>4. QED
    BY <1>2, <1>3, <2>1, <2>2, <2>3 DEF LimiterInv, LimiterTypes
<1>6. \A a \in Addresses : Held(a)' + admitted'[a] = Held(a) + admitted[a]
  <2> SUFFICES ASSUME NEW a \in Addresses
               PROVE  Held(a)' + admitted'[a] = Held(a) + admitted[a]
    OBVIOUS
  <2>1. Holds(r, a) <=> a = b
    BY <1>0, <1>1 DEF Holds
  <2>2. admitted[a] \in Nat /\ Held(a) \in Nat
    BY HeldType DEF LimiterInv, LimiterTypes
  <2>3. CASE request' = [request EXCEPT ![r].pc = "refund"] /\ UNCHANGED admitted
    <3>1. Holds(r, a)' <=> a = b
      BY <1>0, <1>1, <2>3 DEF Holds, LimiterInv, LimiterTypes, InFlight
    <3>2. QED
      BY <1>4, <2>1, <2>3, <3>1, HeldStep
  <2>4. CASE /\ request' = [request EXCEPT ![r] = NoRequest]
             /\ admitted' = [admitted EXCEPT ![b] = @ + 1]
    <3>1. ~Holds(r, a)'
      BY <2>4 DEF Holds, LimiterInv, LimiterTypes, NoRequest
    <3>2. admitted'[a] = IF a = b THEN admitted[a] + 1 ELSE admitted[a]
      BY <2>4 DEF LimiterInv, LimiterTypes
    <3>3. Held(a)' = IF a = b THEN Held(a) - 1 ELSE Held(a)
      BY <1>4, <2>1, <3>1, HeldStep
    <3>4. QED
      BY <2>2, <3>2, <3>3
  <2>5. QED
    BY <1>2, <2>3, <2>4
<1>7. \A a \in Addresses : /\ Held(a) \in Nat /\ Held(a)' \in Nat
                           /\ admitted[a] \in Nat /\ admitted'[a] \in Nat /\ abandoned[a] \in Nat
  <2>1. \A a : Held(a) \in Nat /\ Held(a)' \in Nat
    <3>1. \A a : Held(a) \in Nat
      BY HeldType
    <3>2. \A a : Held(a)' \in Nat
      BY <1>4, HeldStep
    <3>3. QED
      BY <3>1, <3>2
  <2>2. QED
    BY <1>5, <2>1 DEF LimiterInv, LimiterTypes
<1>8. NoTokenLeak'
  <2> SUFFICES ASSUME NEW a \in DOMAIN buckets
               PROVE  buckets[a].tokens + Held(a)' + abandoned[a] + admitted'[a] >= BUCKET_SIZE
    BY <1>2 DEF NoTokenLeak
  <2>1. a \in Addresses /\ buckets[a].tokens \in Nat
    BY DEF LimiterInv, LimiterTypes, Bucket
  <2>2. buckets[a].tokens + Held(a) + abandoned[a] + admitted[a] >= BUCKET_SIZE
    BY DEF LimiterInv, NoTokenLeak
  <2>3. QED
    BY <1>1, <1>6, <1>7, <2>1, <2>2 DEF Limits
<1>9. RateInv'
  <2> SUFFICES ASSUME NEW a \in Addresses, a \notin collected
               PROVE  IF a \in DOMAIN buckets
                      THEN (buckets[a].tokens + Held(a)' + admitted'[a] - BUCKET_SIZE) * INTERVAL
                             <= buckets[a].last_replenish
                      ELSE admitted'[a] = 0 /\ Held(a)' = 0
    BY <1>2 DEF RateInv
  <2>1. CASE a \in DOMAIN buckets
    <3> DEFINE x == buckets[a].tokens + Held(a) + admitted[a] - BUCKET_SIZE
               y == buckets[a].tokens + Held(a)' + admitted'[a] - BUCKET_SIZE
    <3>1. buckets[a].tokens \in Nat
      BY <2>1 DEF LimiterInv, LimiterTypes, Bucket
    <3>2. y = x
      <4>1. a \in Addresses /\ Held(a)' + admitted'[a] = Held(a) + admitted[a]
        BY <1>6
      <4>2. /\ Held(a) \in Nat /\ Held(a)' \in Nat
            /\ admitted[a] \in Nat /\ admitted'[a] \in Nat /\ BUCKET_SIZE \in Nat
        BY <1>1, <1>7 DEF Limits
      <4>3. QED
        BY <3>1, <4>1, <4>2, SumStays
    <3>3. x * INTERVAL <= buckets[a].last_replenish
      BY <2>1 DEF LimiterInv, RateInv
    <3> HIDE DEF x, y
    <3>4. y * INTERVAL <= buckets[a].last_replenish
      BY <3>2, <3>3
    <3>5. QED
      BY <2>1, <3>4 DEF y
  <2>2. CASE a \notin DOMAIN buckets
    BY <1>6, <1>7, <2>2 DEF LimiterInv, RateInv
  <2>3. QED
    BY <2>1, <2>2
<1>10. WindowInv'
  <2>1. w.start \div WINDOW \in Nat /\ GLOBAL_CAP * (w.start \div WINDOW) \in Nat /\ granted \in Nat
    BY <1>1, <1>3, DivIsNat DEF LimiterInv, LimiterTypes, Limits
  <2>2. QED
    BY <1>2, <1>3, <2>1 DEF WindowInv
<1>11. QED
  BY <1>5, <1>8, <1>9, <1>10 DEF LimiterInv

\* A request that ends without using its token: the token goes back into a bucket that is
\* not full, is dropped because the bucket is full, or is lost with the client.
LEMMA RefundStep ==
  ASSUME LimiterInv, NEW r \in Requests, refund_per_address(r)
  PROVE  LimiterInv'
<1>0. PICK b : b = request[r].addr
  OBVIOUS
<1>1. request[r].pc = "refund" /\ request[r] \in InFlight /\ b \in Addresses /\ Limits
  BY <1>0, Flying, LimitFacts DEF refund_per_address, InFlight
<1>2. /\ buckets' = [a \in DOMAIN buckets |->
                     IF a = b THEN Refunded(buckets[a]) ELSE buckets[a]]
      /\ request' = [request EXCEPT ![r] = NoRequest]
      /\ UNCHANGED <<count, window_start, clock, admitted, granted, abandoned, collected>>
  BY <1>0 DEF refund_per_address, Done
<1>3. /\ \A q \in Requests \ {r} : request'[q] = request[q]
      /\ request'[r] = NoRequest
  BY <1>2 DEF LimiterInv, LimiterTypes
<1>4. \A a : /\ Held(a) \in Nat
             /\ Held(a)' = IF a = b THEN Held(a) - 1 ELSE Held(a)
             /\ a = b => Held(a) > 0
  <2>1. \A a : (Holds(r, a) <=> a = b) /\ ~Holds(r, a)'
    BY <1>0, <1>1, <1>3 DEF Holds, NoRequest
  <2>2. QED
    BY <1>3, <2>1, HeldStep
<1>5. \A a \in DOMAIN buckets :
        /\ buckets'[a] \in Bucket
        /\ buckets'[a].last_replenish = buckets[a].last_replenish
        /\ buckets'[a].tokens = IF a = b THEN Least(buckets[a].tokens + 1, BUCKET_SIZE)
                                         ELSE buckets[a].tokens
  BY <1>1, <1>2 DEF LimiterInv, LimiterTypes, Bucket, Refunded, Least,
     Limits
<1>6. LimiterTypes' /\ TimesInv'
  BY <1>2, <1>3, <1>5 DEF LimiterInv, LimiterTypes, TimesInv, NoRequest
<1>7. \A a \in DOMAIN buckets :
        /\ a \in Addresses /\ buckets[a].tokens \in 0..BUCKET_SIZE /\ abandoned[a] \in Nat
        /\ admitted[a] \in Nat
  BY DEF LimiterInv, LimiterTypes, Bucket
<1>8. NoTokenLeak'
  BY <1>1, <1>2, <1>4, <1>5, <1>7 DEF LimiterInv, NoTokenLeak, Least, Limits
<1>9. RateInv'
  <2> SUFFICES ASSUME NEW a \in Addresses, a \notin collected
               PROVE  IF a \in DOMAIN buckets
                      THEN (buckets'[a].tokens + Held(a)' + admitted[a] - BUCKET_SIZE) * INTERVAL
                             <= buckets[a].last_replenish
                      ELSE admitted[a] = 0 /\ Held(a)' = 0
    BY <1>2, <1>5 DEF RateInv
  <2>1. CASE a \in DOMAIN buckets
    <3> DEFINE x == buckets[a].tokens + Held(a) + admitted[a] - BUCKET_SIZE
               y == buckets'[a].tokens + Held(a)' + admitted[a] - BUCKET_SIZE
    <3>1. x \in Int /\ y \in Int /\ y <= x
      BY <1>1, <1>4, <1>5, <1>7, <2>1 DEF Least, Limits
    <3>2. x * INTERVAL <= buckets[a].last_replenish /\ buckets[a].last_replenish \in Nat
      BY <2>1 DEF LimiterInv, RateInv, LimiterTypes, Bucket
    <3> HIDE DEF x, y
    <3>3. y * INTERVAL <= x * INTERVAL /\ x * INTERVAL \in Int /\ y * INTERVAL \in Int
      BY <1>1, <3>1, TimesGrows DEF Limits
    <3>4. y * INTERVAL <= buckets[a].last_replenish
      BY <3>2, <3>3
    <3>5. QED
      BY <2>1, <3>4 DEF y
  <2>2. CASE a \notin DOMAIN buckets
    BY <1>4, <2>2 DEF LimiterInv, RateInv
  <2>3. QED
    BY <2>1, <2>2
<1>10. WindowInv'
  BY <1>2 DEF LimiterInv, WindowInv
<1>11. QED
  BY <1>6, <1>8, <1>9, <1>10 DEF LimiterInv

\* A client that goes away with a token in its request's hands loses that token.
LEMMA AbandonStep ==
  ASSUME LimiterInv, NEW r \in Requests, Abandon(r)
  PROVE  LimiterInv'
<1>0. PICK b : b = request[r].addr
  OBVIOUS
<1>1. request[r] \in InFlight /\ b \in Addresses /\ Limits
  BY <1>0, Flying, LimitFacts DEF Abandon, InFlight
<1>2. /\ request' = [request EXCEPT ![r] = NoRequest]
      /\ abandoned' = IF request[r].pc = "address" THEN abandoned
                      ELSE [abandoned EXCEPT ![b] = @ + 1]
      /\ UNCHANGED <<buckets, count, window_start, clock, admitted, granted, collected>>
  BY <1>0 DEF Abandon, Done
<1>3. /\ \A q \in Requests \ {r} : request'[q] = request[q]
      /\ request'[r] = NoRequest
  BY <1>2 DEF LimiterInv, LimiterTypes
<1>4. \A a : /\ Held(a) \in Nat /\ (Holds(r, a) => Held(a) > 0)
             /\ Held(a)' = IF Holds(r, a) THEN Held(a) - 1 ELSE Held(a)
  <2>1. \A a : ~Holds(r, a)'
    BY <1>3 DEF Holds, NoRequest
  <2>2. QED
    BY <1>3, <2>1, HeldStep
<1>5. \A a \in Addresses : /\ abandoned[a] \in Nat /\ admitted[a] \in Nat
                           /\ abandoned'[a] = IF Holds(r, a) THEN abandoned[a] + 1 ELSE abandoned[a]
  BY <1>0, <1>1, <1>2 DEF LimiterInv, LimiterTypes, Holds, InFlight
<1>6. LimiterTypes' /\ TimesInv'
  BY <1>1, <1>2, <1>3 DEF LimiterInv, LimiterTypes, TimesInv, NoRequest
<1>7. \A a \in DOMAIN buckets : a \in Addresses /\ buckets[a].tokens \in 0..BUCKET_SIZE
  BY DEF LimiterInv, LimiterTypes, Bucket
<1> HIDE DEF Holds
<1>8. NoTokenLeak'
  BY <1>1, <1>2, <1>4, <1>5, <1>7 DEF LimiterInv, NoTokenLeak, Limits
<1>9. RateInv'
  <2> SUFFICES ASSUME NEW a \in Addresses, a \notin collected
               PROVE  IF a \in DOMAIN buckets
                      THEN (buckets[a].tokens + Held(a)' + admitted[a] - BUCKET_SIZE) * INTERVAL
                             <= buckets[a].last_replenish
                      ELSE admitted[a] = 0 /\ Held(a)' = 0
    BY <1>2 DEF RateInv
  <2>1. CASE a \in DOMAIN buckets
    <3> DEFINE x == buckets[a].tokens + Held(a) + admitted[a] - BUCKET_SIZE
               y == buckets[a].tokens + Held(a)' + admitted[a] - BUCKET_SIZE
    <3>1. x \in Int /\ y \in Int /\ y <= x
      BY <1>1, <1>4, <1>5, <1>7, <2>1 DEF Limits
    <3>2. x * INTERVAL <= buckets[a].last_replenish /\ buckets[a].last_replenish \in Nat
      BY <2>1 DEF LimiterInv, RateInv, LimiterTypes, Bucket
    <3> HIDE DEF x, y
    <3>3. y * INTERVAL <= x * INTERVAL /\ x * INTERVAL \in Int /\ y * INTERVAL \in Int
      BY <1>1, <3>1, TimesGrows DEF Limits
    <3>4. y * INTERVAL <= buckets[a].last_replenish
      BY <3>2, <3>3
    <3>5. QED
      BY <2>1, <3>4 DEF y
  <2>2. CASE a \notin DOMAIN buckets
    BY <1>4, <2>2 DEF LimiterInv, RateInv
  <2>3. QED
    BY <2>1, <2>2
<1>10. WindowInv'
  BY <1>2 DEF LimiterInv, WindowInv
<1>11. QED
  BY <1>6, <1>8, <1>9, <1>10 DEF LimiterInv

\* Every step of the limiter keeps the invariant.
LEMMA LimiterNextInv ==
  LimiterInv /\ [LimiterNext]_(limiterVars) => LimiterInv'
<1> SUFFICES ASSUME LimiterInv, [LimiterNext]_(limiterVars) PROVE LimiterInv'
  OBVIOUS
<1>1. CASE Elapse
  <2>1. LimiterTypes' /\ TimesInv'
    BY <1>1 DEF LimiterInv, LimiterTypes, TimesInv, Elapse, Bucket, InFlight,
       NoRequest
  <2>2. \A a : Held(a)' = Held(a)
    BY <1>1 DEF Elapse, Held
  <2>3. QED
    BY <1>1, <2>1, <2>2 DEF Elapse, LimiterInv, NoTokenLeak, RateInv, WindowInv
<1>2. CASE UNCHANGED limiterVars
  BY <1>2 DEF limiterVars, LimiterInv, LimiterTypes, TimesInv, NoTokenLeak, RateInv,
     WindowInv, Held
<1>3. QED
  BY <1>1, <1>2, CheckStep, AddressStep, GlobalStep, RefundStep, AbandonStep DEF LimiterNext

\* The inductive invariant of the limiter.
THEOREM LimiterSafe ==
  LimiterSpec => []LimiterInv
  BY LimiterInitInv, LimiterNextInv, PTL DEF LimiterSpec

\* The tokens stay within the bucket, the counter under its cap, and no window begins in the
\* future.
THEOREM LimiterTypeCorrect ==
  LimiterSpec => []LimiterTypeOK
<1>1. LimiterInv => LimiterTypeOK
  BY DEF LimiterInv, LimiterTypes, LimiterTypeOK, InFlight, NoRequest
<1>2. QED
  BY <1>1, LimiterSafe, PTL

\* A request that trips the global cap costs its address nothing.
THEOREM RefusalIsFree ==
  LimiterSpec => []NoTokenLeak
  BY LimiterSafe, PTL DEF LimiterInv

\* The addresses together are admitted at most GLOBAL_CAP times per window begun.
THEOREM CapHolds ==
  LimiterSpec => []GlobalBound
<1>1. LimiterInv => GlobalBound
  <2> SUFFICES ASSUME LimiterInv PROVE GlobalBound
    OBVIOUS
  <2>1. /\ count \in Nat /\ count <= GLOBAL_CAP /\ clock \in Nat /\ window_start \in Nat
        /\ window_start <= clock /\ granted \in Nat /\ Limits
    BY LimitFacts DEF LimiterInv, LimiterTypes
  <2> DEFINE k == window_start \div WINDOW
             m == clock \div WINDOW
  <2>2. k \in Nat /\ m \in Nat /\ k + 1 <= m + 1
    BY <2>1, DivIsNat, DivGrows DEF Limits
  <2>3. granted <= GLOBAL_CAP * k + count
    BY DEF LimiterInv, WindowInv
  <2> HIDE DEF k, m
  <2>4. GLOBAL_CAP * (k + 1) <= GLOBAL_CAP * (m + 1)
    BY <2>1, <2>2, TimesGrows DEF Limits
  <2>5. GLOBAL_CAP * (k + 1) = GLOBAL_CAP * k + GLOBAL_CAP
    BY <2>1, <2>2, TimesSum DEF Limits
  <2>6. GLOBAL_CAP * k \in Nat /\ GLOBAL_CAP * (m + 1) \in Nat /\ GLOBAL_CAP \in Nat
    BY <2>1, <2>2 DEF Limits
  <2>7. granted <= GLOBAL_CAP * (m + 1)
    BY <2>1, <2>3, <2>4, <2>5, <2>6
  <2>8. QED
    BY <2>7 DEF GlobalBound, m
<1>2. QED
  BY <1>1, LimiterSafe, PTL

\* An address has its bucket and then one request per interval, until its bucket is collected.
THEOREM RateHolds ==
  LimiterSpec => []ThrottledToRate
<1>1. LimiterInv => ThrottledToRate
  <2> SUFFICES ASSUME LimiterInv, NEW a \in Addresses, a \notin collected
               PROVE  admitted[a] <= BUCKET_SIZE + clock \div INTERVAL
    BY DEF ThrottledToRate
  <2>1. admitted[a] \in Nat /\ Held(a) \in Nat /\ clock \in Nat /\ Limits
    BY LimitFacts, HeldType DEF LimiterInv, LimiterTypes
  <2>2. clock \div INTERVAL \in Nat
    BY <2>1, DivIsNat DEF Limits
  <2>3. CASE a \in DOMAIN buckets
    <3> DEFINE x == buckets[a].tokens + Held(a) + admitted[a] - BUCKET_SIZE
    <3>1. x \in Int /\ admitted[a] - BUCKET_SIZE <= x
      BY <2>1, <2>3 DEF LimiterInv, LimiterTypes, Bucket, Limits
    <3>2. x * INTERVAL <= buckets[a].last_replenish
      BY <2>3 DEF LimiterInv, RateInv
    <3>3. buckets[a].last_replenish <= clock /\ buckets[a].last_replenish \in Nat
      BY <2>3 DEF LimiterInv, LimiterTypes, TimesInv, Bucket
    <3> HIDE DEF x
    <3>4. x * INTERVAL <= clock
      BY <2>1, <3>1, <3>2, <3>3 DEF Limits
    <3>5. x <= clock \div INTERVAL
      BY <2>1, <3>1, <3>4, DivBelow DEF Limits
    <3>6. QED
      BY <2>1, <2>2, <3>1, <3>5 DEF Limits
  <2>4. CASE a \notin DOMAIN buckets
    BY <2>1, <2>2, <2>4 DEF LimiterInv, RateInv, Limits
  <2>5. QED
    BY <2>3, <2>4
<1>2. QED
  BY <1>1, LimiterSafe, PTL

=============================================================================

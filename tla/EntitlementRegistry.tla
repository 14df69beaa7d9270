------------------------- MODULE EntitlementRegistry -------------------------
(***************************************************************************)
(* contracts/src/EntitlementRegistry.sol: the paid balance of one user.    *)
(*                                                                         *)
(* Both mappings are keyed by the user id and both digests bind it, so one *)
(* user is modelled.  A call that reverts changes nothing and is not a     *)
(* step.  EntitlementRelay adds the callers, and Funder the service that   *)
(* redeems.                                                                *)
(***************************************************************************)
EXTENDS Integers, Sequences

CONSTANT
  MaxUint        \* largest balance (2^256 - 1 in the code)

ASSUME RegistryAssumption == MaxUint \in Nat

VARIABLES
  balance,      \* paid credits of the user
  nonce,        \* next attestation nonce, shared by credit and redeem
  log,          \* the Credited and Redeemed events
  now           \* block.timestamp

registryVars == <<balance, nonce, log>>

Event == [kind : {"Credited", "Redeemed"}, amount : Nat, newBalance : Nat, nonce : Nat]

\* The deployed registry knows nothing of the user.
Deployed == balance = 0 /\ nonce = 0 /\ log = << >>

\* Mutant: an attestation of the past is accepted too.
AcceptsOld(a) == now <= a.expiresAt /\ a.nonce <= nonce

\* Not expired, and signed for exactly the current nonce.
Accepts(a) == now <= a.expiresAt /\ a.nonce = nonce

\* What a successful call writes.
Book(kind, a, newBalance) ==
  /\ nonce' = a.nonce + 1
  /\ balance' = newBalance
  /\ log' = Append(log, [kind |-> kind, amount |-> a.amount,
                         newBalance |-> newBalance, nonce |-> a.nonce])

\* The value that is left of x in a machine word.
Word(x) == x % (MaxUint + 1)

\* Mutant: the addition is unchecked.
FitsUnchecked(a) == TRUE

\* Solidity's checked addition.
Fits(a) == balance + a.amount <= MaxUint

credit(a) ==
  /\ Accepts(a)
  /\ Fits(a)
  /\ Book("Credited", a, Word(balance + a.amount))

Covers(a) == balance >= a.amount

redeem(a) ==
  /\ Accepts(a)
  /\ Covers(a)
  /\ Book("Redeemed", a, Word(balance - a.amount))

(***************************************************************************)
(* Properties.                                                             *)
(***************************************************************************)

\* The balance before event i, as the events tell it.
BalanceBefore(i) == IF i = 1 THEN 0 ELSE log[i - 1].newBalance

\* The event log alone accounts for every unit of the balance: each event
\* starts from the balance the previous one announced, adds or takes exactly
\* its amount, without wrapping, and the last one announced the balance.
LogAccounts ==
  /\ balance = BalanceBefore(Len(log) + 1)
  /\ \A i \in 1..Len(log) :
       IF log[i].kind = "Credited"
       THEN log[i].newBalance = BalanceBefore(i) + log[i].amount
       ELSE BalanceBefore(i) = log[i].newBalance + log[i].amount

\* Replay ratchet: the i-th event consumed nonce i - 1, so no attestation is
\* booked twice and, credits and redemptions sharing the nonce, a Credit and
\* a Redemption over the same nonce are never both booked.
NonceRatchet ==
  /\ nonce = Len(log)
  /\ \A i \in 1..Len(log) : log[i].nonce = i - 1

=============================================================================

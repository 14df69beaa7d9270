--------------------------- MODULE EntitlementRelay ---------------------------
(***************************************************************************)
(* The callers of contracts/src/EntitlementRegistry.sol.  `credits` and    *)
(* `redemptions` are the attestations that exist, signed by                *)
(* PAYMENT_AUTHORITY and by REDEMPTION_AUTHORITY; the two type hashes      *)
(* differ, so neither passes for the other.  Anyone may relay an           *)
(* attestation, at any time and any number of times.                       *)
(***************************************************************************)
EXTENDS EntitlementRegistry

CONSTANTS
  Attestations,  \* signed fields [amount, nonce, expiresAt]
  MaxTime        \* bound: last block timestamp

ASSUME RelayAssumption ==
  /\ Attestations \subseteq [amount : Nat, nonce : Nat, expiresAt : Nat]
  /\ MaxTime \in Nat

VARIABLES
  credits,      \* Credit attestations that exist
  redemptions   \* Redemption attestations that exist

vars == <<registryVars, credits, redemptions, now>>

Init == Deployed /\ credits = {} /\ redemptions = {} /\ now = 0

signCredit(a) == credits' = credits \cup {a} /\ UNCHANGED redemptions

signRedemption(a) == redemptions' = redemptions \cup {a} /\ UNCHANGED credits

Tick == now < MaxTime /\ now' = now + 1

Next ==
  \/ \E a \in credits : credit(a) /\ UNCHANGED <<credits, redemptions, now>>
  \/ \E a \in redemptions : redeem(a) /\ UNCHANGED <<credits, redemptions, now>>
  \/ \E a \in Attestations : (signCredit(a) \/ signRedemption(a)) /\ UNCHANGED <<registryVars, now>>
  \/ Tick /\ UNCHANGED <<registryVars, credits, redemptions>>

Spec == Init /\ [][Next]_vars

\* The balance stays within its integer type.
TypeOK ==
  /\ balance \in 0..MaxUint
  /\ nonce \in Nat
  /\ log \in Seq(Event)
  /\ credits \subseteq Attestations
  /\ redemptions \subseteq Attestations
  /\ now \in Nat

=============================================================================

--------------------------- MODULE VaultAuthority ---------------------------
(***************************************************************************)
(* The two contracts of one vault side by side: RevisionLogV2 consults     *)
(* vaultAuthority of the recovery contract in each manager check           *)
(* (_recoveryAuthority, a staticcall), so a guardian recovery may move the *)
(* manager between the signing and the execution of a device operation,    *)
(* and during a promotion's veto window.                                   *)
(*                                                                         *)
(* RevisionLogV2 is deployed against RecoveryV1, whose handling of the     *)
(* authority RecoveryV2 repeats unchanged; one recipient commitment makes  *)
(* RecoveryV2 behave as RecoveryV1.                                        *)
(***************************************************************************)
EXTENDS Integers, Sequences, FiniteSets

CONSTANTS
  Addrs, NoAddr,
  Guardians, Commitments, GuardianSets, Endorsements, MIN_DELAY, MaxAttempt,
  Messages, MAX_DEVICES, PROMOTION_DELAY, MaxNonce, MaxAuths, MaxSequence,
  MaxTime

ASSUME VaultAuthorityAssumption ==
  /\ NoAddr \notin Addrs
  /\ MaxTime \in Nat /\ MaxAttempt \in Nat

VARIABLES
  guardianSet, vaultAuthority, recovery, hasApproved, opened, closed, signed,
  authorizedDevice, authorizedDeviceCount, deviceManager, deviceNonce,
  pendingPromotion, bootstrapped, nextSequence, events, auths,
  now

Rec == INSTANCE RecoveryV2
Log == INSTANCE RevisionLogV2

recVars == <<guardianSet, vaultAuthority, recovery, hasApproved, opened, closed, signed>>
logVars == <<authorizedDevice, authorizedDeviceCount, deviceManager, deviceNonce,
             pendingPromotion, bootstrapped, nextSequence, events, auths>>
vars == <<recVars, logVars, now>>

Init == Rec!Init /\ Log!Init

\* Both contracts see the same block timestamp.
Next ==
  \/ Rec!ContractStep /\ UNCHANGED <<logVars, now>>
  \/ Log!LogStep /\ UNCHANGED <<recVars, now>>
  \/ Rec!Tick /\ UNCHANGED <<recVars, logVars>>

Spec == Init /\ [][Next]_vars

(***************************************************************************)
(* Properties.                                                             *)
(***************************************************************************)

\* The composition implements the open specification of RevisionLogV2: this
\* discharges its assumption about the authority, that no
\* recovery ever unsets it, so the manager check never falls back to a
\* deviceManager that was removed from the set meanwhile.
ImplementsRevisionLog == Log!Spec

\* Once a guardian set exists, the manager moves only by a finalized recovery,
\* to the address its quorum endorsed; before, only by a finalized promotion
\* or by the creation of the guardian set.
ManagerMovesByQuorum ==
  [][bootstrapped /\ Log!CurrentManager' # Log!CurrentManager =>
       IF vaultAuthority # NoAddr
       THEN \E c \in closed' : /\ c \notin closed
                               /\ c.outcome = "Finalized"
                               /\ c.newAuthority = Log!CurrentManager'
       ELSE \/ guardianSet'.initialized /\ ~guardianSet.initialized
            \/ /\ events'[Len(events')].kind = "PromotionFinalized"
               /\ events'[Len(events')].who = Log!CurrentManager']_vars

=============================================================================

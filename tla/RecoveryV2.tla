----------------------------- MODULE RecoveryV2 -----------------------------
(***************************************************************************)
(* contracts/src/RecoveryV2.sol: guardian recovery of one vault's          *)
(* authority.                                                              *)
(*                                                                         *)
(* Every mapping of the contract is keyed by the vault id and every digest *)
(* binds it, so one vault is modelled.  A call that reverts changes        *)
(* nothing and is not a step.  The inputs are the ones that pass the       *)
(* schema-version and zero-value checks (NoAddr is address(0) and is no    *)
(* member of Addrs; Commitments holds no zero).  A Merkle root stands for  *)
(* the set of guardians it commits to; a signature stands for the signed   *)
(* record, and ecrecover for its signer.                                   *)
(*                                                                         *)
(* Guardians sign off chain and anyone relays: a signature may reach the   *)
(* contract late, twice, or in another attempt than the one it was made    *)
(* for.  `signed` is the set of signatures that exist; it only grows.      *)
(***************************************************************************)
EXTENDS Integers, Sequences, FiniteSets

CONSTANTS
  Addrs,        \* externally owned accounts that may hold the authority
  NoAddr,       \* address(0)
  Guardians,    \* the guardian accounts
  Commitments,  \* recipient X25519 keys
  GuardianSets, \* arguments [root, threshold, guardianCount] of setGuardianSet
  Endorsements, \* [guardian, proposedAuthority, recipientCommitment, expiresAt]
                \* that a guardian may sign
  MIN_DELAY,    \* the veto window, in clock ticks (72 hours in the code)
  MaxTime,      \* bound: last block timestamp
  MaxAttempt    \* bound: number of attempts

ASSUME RecoveryAssumption ==
  /\ NoAddr \notin Addrs
  /\ IsFiniteSet(Guardians)
  /\ GuardianSets \subseteq [root : SUBSET Guardians, threshold : Nat, guardianCount : Nat]
  /\ Endorsements \subseteq [guardian : Guardians, proposedAuthority : Addrs,
                              recipientCommitment : Commitments, expiresAt : Nat]
  /\ MIN_DELAY \in Nat \ {0}
  /\ MaxTime \in Nat
  /\ MaxAttempt \in Nat

VARIABLES
  guardianSet,     \* [root, threshold, guardianCount, initialized]
  vaultAuthority,  \* who may cancel; rotated by finalizeRecovery
  recovery,        \* the current attempt
  hasApproved,     \* set of <<attemptNonce, guardian>>
  opened,          \* the RecoveryInitiated events, one per attempt nonce
  closed,          \* the RecoveryCanceled and RecoveryFinalized events
  signed,          \* Approve signatures the guardians have made
  now              \* block.timestamp

recVars == <<guardianSet, vaultAuthority, recovery, hasApproved, opened, closed, signed>>
vars == <<recVars, now>>

MIN_THRESHOLD == 2
MAX_THRESHOLD == 9
MIN_GUARDIANS == 3
MAX_GUARDIANS == 15

Status == {"None", "Pending", "Finalized", "Canceled"}

GuardianSet == [root : SUBSET Guardians, threshold : 0..MAX_THRESHOLD,
                guardianCount : 0..MAX_GUARDIANS, initialized : BOOLEAN]

\* A RecoveryInitiated event; its attempt nonce is its index in `opened`.
Opening == [proposedAuthority : Addrs, recipientCommitment : Commitments, at : Nat]

Recovery == [proposedAuthority : Addrs \cup {NoAddr}, initiatedAt : Nat,
             attemptNonce : Nat, approvals : Nat, status : Status,
             recipientCommitment : Commitments \cup {NoAddr}]

\* The EIP-712 Approve message together with the account that signed it.
Approve == [guardian : Guardians, proposedAuthority : Addrs, attemptNonce : Nat,
            expiresAt : Nat, recipientCommitment : Commitments]

\* A RecoveryCanceled or RecoveryFinalized event.
Closing == [attemptNonce : Nat, outcome : {"Finalized", "Canceled"}, at : Nat,
            newAuthority : Addrs]

Init ==
  /\ guardianSet = [root |-> {}, threshold |-> 0, guardianCount |-> 0, initialized |-> FALSE]
  /\ vaultAuthority = NoAddr
  /\ recovery = [proposedAuthority |-> NoAddr, initiatedAt |-> 0, attemptNonce |-> 0,
                 approvals |-> 0, status |-> "None", recipientCommitment |-> NoAddr]
  /\ hasApproved = {}
  /\ opened = << >>
  /\ closed = {}
  /\ signed = {}
  /\ now = 0

(***************************************************************************)
(* The entry points.                                                       *)
(***************************************************************************)

\* The set is immutable once written.
CanSetGuardians == ~guardianSet.initialized

\* The guardian count is declared by the caller: the contract sees the root
\* alone and cannot compare the two.
WithinBounds(gs) ==
  /\ gs.guardianCount \in MIN_GUARDIANS..MAX_GUARDIANS
  /\ gs.threshold \in MIN_THRESHOLD..MAX_THRESHOLD
  /\ gs.threshold <= gs.guardianCount

setGuardianSet(sender, gs) ==
  /\ CanSetGuardians
  /\ WithinBounds(gs)
  /\ guardianSet' = [root |-> gs.root, threshold |-> gs.threshold,
                     guardianCount |-> gs.guardianCount, initialized |-> TRUE]
  /\ vaultAuthority' = sender
  /\ UNCHANGED <<recovery, hasApproved, opened, closed, signed>>

\* Mutant: the window of the previous attempt goes on.
UnresetAttempt(proposedAuthority, recipientCommitment) ==
  [recovery EXCEPT !.proposedAuthority = proposedAuthority, !.approvals = 0,
                   !.attemptNonce = @ + 1, !.status = "Pending",
                   !.recipientCommitment = recipientCommitment]

\* Every field of the slot is overwritten.
FreshAttempt(proposedAuthority, recipientCommitment) ==
  [proposedAuthority |-> proposedAuthority,
   initiatedAt |-> now,
   attemptNonce |-> recovery.attemptNonce + 1,
   approvals |-> 0,
   status |-> "Pending",
   recipientCommitment |-> recipientCommitment]

\* Open to any caller.
initiateRecovery(proposedAuthority, recipientCommitment) ==
  /\ guardianSet.initialized
  /\ recovery.status # "Pending"
  /\ recovery.attemptNonce < MaxAttempt
  /\ recovery' = FreshAttempt(proposedAuthority, recipientCommitment)
  /\ opened' = Append(opened, [proposedAuthority |-> proposedAuthority,
                               recipientCommitment |-> recipientCommitment,
                               at |-> now])
  /\ UNCHANGED <<guardianSet, vaultAuthority, hasApproved, closed, signed>>

\* Mutant: the digest does not bind the attempt.
RecoversInAnyAttempt(sig) ==
  /\ sig.proposedAuthority = recovery.proposedAuthority
  /\ sig.recipientCommitment = recovery.recipientCommitment

\* Mutant: the digest does not bind the recipient, as in RecoveryV1.
RecoversForAnyRecipient(sig) ==
  /\ sig.proposedAuthority = recovery.proposedAuthority
  /\ sig.attemptNonce = recovery.attemptNonce

\* The digest is rebuilt from the stored attempt, so a signature recovers to
\* its guardian only if it was made over this attempt's fields.
Recovers(sig) ==
  /\ sig.proposedAuthority = recovery.proposedAuthority
  /\ sig.attemptNonce = recovery.attemptNonce
  /\ sig.recipientCommitment = recovery.recipientCommitment

\* Relayed by anyone; sig is a signature that exists.
approveRecovery(sig) ==
  /\ recovery.status = "Pending"
  /\ now <= sig.expiresAt
  /\ sig.guardian \in guardianSet.root
  /\ Recovers(sig)
  /\ <<recovery.attemptNonce, sig.guardian>> \notin hasApproved
  /\ hasApproved' = hasApproved \cup {<<recovery.attemptNonce, sig.guardian>>}
  /\ recovery' = [recovery EXCEPT !.approvals = @ + 1]
  /\ UNCHANGED <<guardianSet, vaultAuthority, opened, closed, signed>>

cancelRecovery(sender) ==
  /\ recovery.status = "Pending"
  /\ sender = vaultAuthority
  /\ recovery' = [recovery EXCEPT !.status = "Canceled"]
  /\ closed' = closed \cup {[attemptNonce |-> recovery.attemptNonce, outcome |-> "Canceled",
                             at |-> now, newAuthority |-> vaultAuthority]}
  /\ UNCHANGED <<guardianSet, vaultAuthority, hasApproved, opened, signed>>

\* Mutant: the status is not checked.
DueInAnyStatus ==
  /\ recovery.approvals >= guardianSet.threshold
  /\ now >= recovery.initiatedAt + MIN_DELAY

\* Mutant: off by one at the threshold.
DueAboveThreshold ==
  /\ recovery.status = "Pending"
  /\ recovery.approvals > guardianSet.threshold
  /\ now >= recovery.initiatedAt + MIN_DELAY

Due ==
  /\ recovery.status = "Pending"
  /\ recovery.approvals >= guardianSet.threshold
  /\ now >= recovery.initiatedAt + MIN_DELAY

\* Mutant: the new authority still has to claim the vault.
Unclaimed == NoAddr

\* What finalizeRecovery makes the authority.
NewAuthority == recovery.proposedAuthority

\* Open to any caller.
finalizeRecovery ==
  /\ Due
  /\ recovery' = [recovery EXCEPT !.status = "Finalized"]
  /\ vaultAuthority' = NewAuthority
  /\ closed' = closed \cup {[attemptNonce |-> recovery.attemptNonce, outcome |-> "Finalized",
                             at |-> now, newAuthority |-> recovery.proposedAuthority]}
  /\ UNCHANGED <<guardianSet, hasApproved, opened, signed>>

(***************************************************************************)
(* The environment.                                                        *)
(***************************************************************************)

\* A guardian signs an authority and a recipient, the pending attempt's or
\* others, at the attempt nonce its client reads; by the time the signature is
\* relayed the attempt may be over.
guardianSigns(e) ==
  /\ recovery.status = "Pending"
  /\ signed' = signed \cup {[guardian |-> e.guardian,
                             proposedAuthority |-> e.proposedAuthority,
                             attemptNonce |-> recovery.attemptNonce,
                             expiresAt |-> e.expiresAt,
                             recipientCommitment |-> e.recipientCommitment]}
  /\ UNCHANGED <<guardianSet, vaultAuthority, recovery, hasApproved, opened, closed>>

Tick ==
  /\ now < MaxTime
  /\ now' = now + 1

ContractStep ==
  \/ \E sender \in Addrs, gs \in GuardianSets : setGuardianSet(sender, gs)
  \/ \E a \in Addrs, c \in Commitments : initiateRecovery(a, c)
  \/ \E sig \in signed : approveRecovery(sig)
  \/ \E sender \in Addrs : cancelRecovery(sender)
  \/ finalizeRecovery
  \/ \E e \in Endorsements : guardianSigns(e)

Next ==
  \/ ContractStep /\ UNCHANGED now
  \/ Tick /\ UNCHANGED recVars

Spec == Init /\ [][Next]_vars

(***************************************************************************)
(* Properties.                                                             *)
(***************************************************************************)

TypeOK ==
  /\ guardianSet \in GuardianSet
  /\ vaultAuthority \in Addrs \cup {NoAddr}
  /\ recovery \in Recovery
  /\ hasApproved \subseteq Nat \X Guardians
  /\ opened \in Seq(Opening)
  /\ closed \subseteq Closing
  /\ signed \subseteq Approve
  /\ now \in Nat

Approvers(nonce) == {g \in Guardians : <<nonce, g>> \in hasApproved}

\* The approvals counter, bumped unchecked and reset by initiateRecovery, is
\* the number of distinct guardians that approved the current attempt, however
\* often and in whatever order their signatures are relayed.
ApprovalsCountDistinct ==
  recovery.approvals = Cardinality(Approvers(recovery.attemptNonce))

\* Guardian g endorsed attempt n: it signed exactly the authority and the
\* recipient that the RecoveryInitiated event of n announced.
Endorsed(n, g) ==
  \E sig \in signed : /\ sig.guardian = g
                      /\ sig.attemptNonce = n
                      /\ sig.proposedAuthority = opened[n].proposedAuthority
                      /\ sig.recipientCommitment = opened[n].recipientCommitment

\* approveRecovery never counts a guardian for an attempt, authority or
\* recipient other than the one it signed: a signature left over from a
\* canceled or finalized attempt is worth nothing to the next one.
ApprovalsEndorseAttempt ==
  \A p \in hasApproved : p[1] \in 1..Len(opened) /\ Endorsed(p[1], p[2])

\* An attempt ends at most once: what the authority canceled is never
\* finalized afterwards, and a finalized attempt is never finalized again.
ClosedOnce ==
  \A c, d \in closed : c.attemptNonce = d.attemptNonce => c = d

\* The authority only moves to an address that a quorum of guardians endorsed
\* in one and the same attempt, after that attempt stood open to the veto for
\* MIN_DELAY.
RotationsEarned ==
  \A c \in closed : c.outcome = "Finalized" =>
    /\ c.attemptNonce \in 1..Len(opened)
    /\ c.newAuthority = opened[c.attemptNonce].proposedAuthority
    /\ c.at >= opened[c.attemptNonce].at + MIN_DELAY
    /\ Cardinality({g \in guardianSet.root : Endorsed(c.attemptNonce, g)})
         >= guardianSet.threshold

\* Between two finalizations the authority does not move: it is the one the
\* last closing left in place.
AuthorityFollowsLog ==
  \A c \in closed :
    (\A d \in closed : d.attemptNonce <= c.attemptNonce) => vaultAuthority = c.newAuthority

\* Before the guardian set exists there is no authority and no attempt.
Uninitialized ==
  /\ vaultAuthority = NoAddr
  /\ recovery.attemptNonce = 0
  /\ hasApproved = {}
  /\ closed = {}

\* The slot is the last RecoveryInitiated event, and is pending exactly as
\* long as no closing event names it; only guardians under the root have
\* approved.
SlotMirrorsLog ==
  /\ Len(opened) = recovery.attemptNonce
  /\ guardianSet.initialized \/ Uninitialized
  /\ guardianSet.initialized => vaultAuthority # NoAddr
  /\ recovery.attemptNonce = 0 => recovery.status = "None"
  /\ recovery.attemptNonce > 0 =>
       opened[recovery.attemptNonce] =
         [proposedAuthority |-> recovery.proposedAuthority,
          recipientCommitment |-> recovery.recipientCommitment,
          at |-> recovery.initiatedAt]
  /\ \A c \in closed : /\ c.attemptNonce <= recovery.attemptNonce
                       /\ c.attemptNonce = recovery.attemptNonce => recovery.status # "Pending"
  /\ \A p \in hasApproved : p[2] \in guardianSet.root

\* An attempt that has its quorum does not stay pending: once its window is
\* over it is finalized, unless the authority cancels it first.
QuorumResolves ==
  ( /\ recovery.status = "Pending"
    /\ recovery.approvals >= guardianSet.threshold
    /\ recovery.initiatedAt + MIN_DELAY <= MaxTime )
      ~> recovery.status # "Pending"

\* Blocks keep coming, and somebody (the recovering user's client, or anyone
\* else: the call is open) submits finalizeRecovery once it is due.
Fairness ==
  /\ WF_vars(Tick /\ UNCHANGED recVars)
  /\ WF_vars(finalizeRecovery /\ UNCHANGED now)

FairSpec == Spec /\ Fairness

=============================================================================

--------------------------- MODULE RecoveryV2Proofs ---------------------------
(***************************************************************************)
(* The safety properties of RecoveryV2 for every number of guardians,      *)
(* attempts and clock ticks.                                               *)
(*                                                                         *)
(* The inductive invariant is RecoveryInv.  Besides the properties proved  *)
(* it needs SlotMirrorsLog: the properties speak of the events of an       *)
(* attempt, the contract only looks at its one slot.                       *)
(***************************************************************************)
EXTENDS RecoveryV2, FiniteSetTheorems, TLAPS

\* The inductive invariant.
RecoveryInv ==
  /\ TypeOK
  /\ SlotMirrorsLog
  /\ ApprovalsEndorseAttempt
  /\ ApprovalsCountDistinct
  /\ ClosedOnce
  /\ RotationsEarned
  /\ AuthorityFollowsLog

-----------------------------------------------------------------------------
(* The freshly deployed contract.                                          *)

\* The freshly deployed contract satisfies the inductive invariant.
LEMMA InitInv == Init => RecoveryInv
<1> SUFFICES ASSUME Init PROVE RecoveryInv
  OBVIOUS
<1>1. TypeOK
  BY DEF Init, TypeOK, GuardianSet, Recovery, Status, MAX_THRESHOLD, MAX_GUARDIANS
<1>2. SlotMirrorsLog
  BY DEF Init, SlotMirrorsLog, Uninitialized
<1>3. ApprovalsEndorseAttempt /\ ClosedOnce /\ RotationsEarned /\ AuthorityFollowsLog
  BY DEF Init, ApprovalsEndorseAttempt, ClosedOnce, RotationsEarned, AuthorityFollowsLog
<1>4. ApprovalsCountDistinct
  <2>1. Approvers(recovery.attemptNonce) = {}
    BY DEF Init, Approvers
  <2>2. QED
    BY <2>1, FS_EmptySet DEF Init, ApprovalsCountDistinct
<1>5. QED
  BY <1>1, <1>2, <1>3, <1>4 DEF RecoveryInv

-----------------------------------------------------------------------------
(* Types, and the slot against the event log.                              *)

\* Every external function of RecoveryV2 keeps the storage well typed.
LEMMA TypeStep == TypeOK /\ SlotMirrorsLog /\ [Next]_vars => TypeOK'
<1> SUFFICES ASSUME TypeOK, SlotMirrorsLog, [Next]_vars PROVE TypeOK'
  OBVIOUS
<1> USE RecoveryAssumption DEF TypeOK
<1>0. recovery.status = "Pending" =>
        /\ vaultAuthority \in Addrs
        /\ recovery.proposedAuthority \in Addrs
        /\ recovery.recipientCommitment \in Commitments
  <2> SUFFICES ASSUME recovery.status = "Pending"
               PROVE  /\ vaultAuthority \in Addrs
                      /\ recovery.proposedAuthority \in Addrs
                      /\ recovery.recipientCommitment \in Commitments
    OBVIOUS
  <2>1. recovery.attemptNonce \in Nat \ {0}
    BY DEF SlotMirrorsLog, Recovery
  <2>2. opened[recovery.attemptNonce] \in Opening
    BY <2>1 DEF SlotMirrorsLog
  <2>3. vaultAuthority \in Addrs
    BY <2>1 DEF SlotMirrorsLog, Uninitialized
  <2>4. QED
    BY <2>1, <2>2, <2>3 DEF SlotMirrorsLog, Opening
<1>1. ASSUME NEW sender \in Addrs, NEW gs \in GuardianSets,
             setGuardianSet(sender, gs), UNCHANGED now
      PROVE  TypeOK'
  BY <1>1 DEF setGuardianSet, CanSetGuardians, WithinBounds, GuardianSet,
              MIN_THRESHOLD, MAX_THRESHOLD, MIN_GUARDIANS, MAX_GUARDIANS
<1>2. ASSUME NEW a \in Addrs, NEW c \in Commitments, initiateRecovery(a, c), UNCHANGED now
      PROVE  TypeOK'
  BY <1>2 DEF initiateRecovery, FreshAttempt, Recovery, Status, Opening
<1>3. ASSUME NEW sig \in signed, approveRecovery(sig), UNCHANGED now
      PROVE  TypeOK'
  <2>1. <<recovery.attemptNonce, sig.guardian>> \in Nat \X Guardians
    BY DEF Recovery, Approve
  <2>2. recovery' \in Recovery
    BY <1>3 DEF approveRecovery, Recovery, Status
  <2>3. QED
    BY <1>3, <2>1, <2>2 DEF approveRecovery
<1>4. ASSUME NEW sender \in Addrs, cancelRecovery(sender), UNCHANGED now
      PROVE  TypeOK'
  BY <1>0, <1>4 DEF cancelRecovery, Recovery, Status, Closing
<1>5. CASE finalizeRecovery /\ UNCHANGED now
  <2>1. recovery.proposedAuthority \in Addrs
    BY <1>0, <1>5 DEF finalizeRecovery, Due
  <2>2. recovery' \in Recovery
    BY <1>5 DEF finalizeRecovery, Recovery, Status
  <2>3. closed' \subseteq Closing
    BY <1>5, <2>1 DEF finalizeRecovery, Recovery, Closing
  <2>4. QED
    BY <1>5, <2>1, <2>2, <2>3 DEF finalizeRecovery, NewAuthority
<1>6. ASSUME NEW e \in Endorsements,
             guardianSigns(e), UNCHANGED now
      PROVE  TypeOK'
  BY <1>0, <1>6 DEF guardianSigns, Recovery, Approve
<1>7. CASE Tick /\ UNCHANGED recVars
  BY <1>7 DEF Tick, recVars
<1>8. CASE UNCHANGED vars
  BY <1>8 DEF vars, recVars
<1>9. QED
  BY <1>1, <1>2, <1>3, <1>4, <1>5, <1>6, <1>7, <1>8 DEF Next, ContractStep

\* Every external function keeps the recovery slot equal to what the last
\* RecoveryInitiated event and the closing events say of it.
LEMMA SlotStep == TypeOK /\ SlotMirrorsLog /\ [Next]_vars => SlotMirrorsLog'
<1> SUFFICES ASSUME TypeOK, SlotMirrorsLog, [Next]_vars PROVE SlotMirrorsLog'
  OBVIOUS
<1> USE RecoveryAssumption DEF TypeOK, SlotMirrorsLog
<1>1. ASSUME NEW sender \in Addrs, NEW gs \in GuardianSets,
             setGuardianSet(sender, gs), UNCHANGED now
      PROVE  SlotMirrorsLog'
  BY <1>1 DEF setGuardianSet, CanSetGuardians, Uninitialized
<1>2. ASSUME NEW a \in Addrs, NEW c \in Commitments, initiateRecovery(a, c), UNCHANGED now
      PROVE  SlotMirrorsLog'
  BY <1>2 DEF initiateRecovery, FreshAttempt, Recovery, Closing, Opening, Uninitialized
<1>3. ASSUME NEW sig \in signed, approveRecovery(sig), UNCHANGED now
      PROVE  SlotMirrorsLog'
  <2>1. guardianSet.initialized
    BY <1>3 DEF approveRecovery, Uninitialized
  <2>2. \A p \in hasApproved' : p[2] \in guardianSet'.root
    BY <1>3 DEF approveRecovery
  <2>3. QED
    BY <1>3, <2>1, <2>2 DEF approveRecovery, Recovery
<1>4. ASSUME NEW sender \in Addrs, cancelRecovery(sender), UNCHANGED now
      PROVE  SlotMirrorsLog'
  BY <1>4 DEF cancelRecovery, Recovery, Uninitialized
<1>5. CASE finalizeRecovery /\ UNCHANGED now
  <2>1. recovery.attemptNonce \in Nat \ {0} /\ guardianSet.initialized
    BY <1>5 DEF finalizeRecovery, Due, Recovery, Uninitialized
  <2>2. opened[recovery.attemptNonce] \in Opening
    BY <2>1
  <2>3. recovery.proposedAuthority \in Addrs
    BY <2>1, <2>2 DEF Opening
  <2>4. QED
    BY <1>5, <2>1, <2>3 DEF finalizeRecovery, Due, NewAuthority, Recovery
<1>6. ASSUME NEW e \in Endorsements,
             guardianSigns(e), UNCHANGED now
      PROVE  SlotMirrorsLog'
  BY <1>6 DEF guardianSigns, Uninitialized
<1>7. CASE UNCHANGED recVars
  BY <1>7 DEF recVars, Uninitialized
<1>8. QED
  BY <1>1, <1>2, <1>3, <1>4, <1>5, <1>6, <1>7 DEF Next, ContractStep, vars

-----------------------------------------------------------------------------
(* Events and signatures are never taken back.                             *)

\* No step withdraws a RecoveryInitiated event or a guardian's signature.
LEMMA LogsGrow ==
  ASSUME TypeOK, [Next]_vars
  PROVE  /\ signed \subseteq signed'
         /\ Len(opened) <= Len(opened')
         /\ \A n \in 1..Len(opened) : opened'[n] = opened[n]
<1> USE DEF TypeOK
<1>1. ASSUME NEW a \in Addrs, NEW c \in Commitments, initiateRecovery(a, c)
      PROVE  /\ signed \subseteq signed'
             /\ Len(opened) <= Len(opened')
             /\ \A n \in 1..Len(opened) : opened'[n] = opened[n]
  BY <1>1 DEF initiateRecovery, Opening
<1>2. CASE UNCHANGED opened
  <2>1. signed \subseteq signed'
    BY <1>2 DEF Next, ContractStep, vars, recVars, setGuardianSet, initiateRecovery,
       approveRecovery, cancelRecovery, finalizeRecovery, guardianSigns
  <2>2. QED
    BY <1>2, <2>1
<1>3. QED
  BY <1>1, <1>2 DEF Next, ContractStep, vars, recVars, setGuardianSet,
     approveRecovery, cancelRecovery, finalizeRecovery, guardianSigns

\* An endorsement of an opened attempt stays one.
LEMMA EndorsedStays ==
  ASSUME TypeOK, [Next]_vars, NEW n \in 1..Len(opened), NEW g, Endorsed(n, g)
  PROVE  n \in 1..Len(opened') /\ Endorsed(n, g)'
  BY LogsGrow DEF Endorsed, TypeOK

-----------------------------------------------------------------------------
(* Approvals.                                                              *)

\* Every step keeps each approval bit backed by a signature over the attempt
\* it is set for.
LEMMA EndorseStep ==
  TypeOK /\ SlotMirrorsLog /\ ApprovalsEndorseAttempt /\ [Next]_vars
    => ApprovalsEndorseAttempt'
<1> SUFFICES ASSUME TypeOK, SlotMirrorsLog, ApprovalsEndorseAttempt, [Next]_vars,
                    NEW p \in hasApproved'
             PROVE  p[1] \in 1..Len(opened') /\ Endorsed(p[1], p[2])'
  BY DEF ApprovalsEndorseAttempt
<1>1. CASE p \in hasApproved
  BY <1>1, EndorsedStays DEF ApprovalsEndorseAttempt
<1>2. CASE p \notin hasApproved
  <2>1. PICK sig \in signed : approveRecovery(sig)
    BY <1>2 DEF Next, ContractStep, vars, recVars, setGuardianSet, initiateRecovery,
       cancelRecovery, finalizeRecovery, guardianSigns
  <2>2. p = <<recovery.attemptNonce, sig.guardian>>
    BY <1>2, <2>1 DEF approveRecovery
  <2>3. recovery.attemptNonce \in 1..Len(opened)
    BY <2>1 DEF approveRecovery, SlotMirrorsLog, TypeOK, Recovery
  <2>4. Endorsed(recovery.attemptNonce, sig.guardian)
    BY <2>1, <2>3 DEF approveRecovery, Recovers, Endorsed, SlotMirrorsLog, TypeOK, Recovery
  <2>5. QED
    BY <2>2, <2>3, <2>4, EndorsedStays
<1>3. QED
  BY <1>1, <1>2

\* The guardians counted for any attempt are finitely many.
LEMMA ApproversFinite ==
  ASSUME NEW n PROVE IsFiniteSet(Approvers(n))
  BY RecoveryAssumption, FS_Subset DEF Approvers

\* Every step keeps the approvals counter equal to the number of approval bits
\* of the current attempt.
LEMMA CountStep ==
  TypeOK /\ SlotMirrorsLog /\ ApprovalsEndorseAttempt /\ ApprovalsCountDistinct /\ [Next]_vars
    => ApprovalsCountDistinct'
<1> SUFFICES ASSUME TypeOK, SlotMirrorsLog, ApprovalsEndorseAttempt, ApprovalsCountDistinct,
                    [Next]_vars
             PROVE  ApprovalsCountDistinct'
  OBVIOUS
<1>1. ASSUME NEW a \in Addrs, NEW c \in Commitments, initiateRecovery(a, c)
      PROVE  ApprovalsCountDistinct'
  <2>1. \A g : <<recovery.attemptNonce + 1, g>> \notin hasApproved
    BY DEF ApprovalsEndorseAttempt, SlotMirrorsLog, TypeOK, Recovery
  <2>2. Approvers(recovery.attemptNonce)' = {}
    BY <1>1, <2>1 DEF initiateRecovery, FreshAttempt, Approvers
  <2>3. QED
    BY <1>1, <2>2, FS_EmptySet DEF initiateRecovery, FreshAttempt, ApprovalsCountDistinct
<1>2. ASSUME NEW sig \in signed, approveRecovery(sig)
      PROVE  ApprovalsCountDistinct'
  <2> DEFINE n == recovery.attemptNonce
  <2>1. sig.guardian \in Guardians
    BY DEF TypeOK, Approve
  <2>2. recovery'.attemptNonce = n /\ recovery'.approvals = recovery.approvals + 1
    BY <1>2 DEF approveRecovery, TypeOK, Recovery
  <2>3. Approvers(recovery.attemptNonce)' = Approvers(n) \cup {sig.guardian}
    BY <1>2, <2>1, <2>2 DEF approveRecovery, Approvers
  <2>4. sig.guardian \notin Approvers(n)
    BY <1>2 DEF approveRecovery, Approvers
  <2>5. Cardinality(Approvers(n) \cup {sig.guardian}) = Cardinality(Approvers(n)) + 1
    BY <2>4, ApproversFinite, FS_AddElement
  <2>6. QED
    BY <2>2, <2>3, <2>5 DEF ApprovalsCountDistinct
<1>3. CASE UNCHANGED <<recovery.approvals, recovery.attemptNonce, hasApproved>>
  <2>1. Approvers(recovery.attemptNonce)' = Approvers(recovery.attemptNonce)
    BY <1>3 DEF Approvers
  <2>2. QED
    BY <1>3, <2>1 DEF ApprovalsCountDistinct
<1>4. QED
  BY <1>1, <1>2, <1>3 DEF Next, ContractStep, vars, recVars, setGuardianSet, cancelRecovery,
     finalizeRecovery, guardianSigns, TypeOK, Recovery

-----------------------------------------------------------------------------
(* The closing of an attempt.                                              *)

\* A step adds at most one closing event, for the attempt in the slot, which
\* was pending and is no longer; a rotation is due and changes the authority.
LEMMA ClosingStep ==
  ASSUME TypeOK, SlotMirrorsLog, [Next]_vars
  PROVE  \/ /\ closed' = closed
            /\ closed # {} => vaultAuthority' = vaultAuthority
         \/ \E new \in Closing :
              /\ closed' = closed \cup {new}
              /\ new.attemptNonce = recovery.attemptNonce
              /\ recovery.status = "Pending"
              /\ vaultAuthority' = new.newAuthority
              /\ new.outcome = "Finalized" =>
                   /\ Due
                   /\ new.at = now
                   /\ new.newAuthority = recovery.proposedAuthority
<1>1. CASE closed' = closed
  <2>1. ASSUME NEW sender \in Addrs, NEW gs \in GuardianSets, setGuardianSet(sender, gs)
        PROVE  closed = {}
    BY <2>1 DEF setGuardianSet, CanSetGuardians, SlotMirrorsLog, Uninitialized
  <2>2. CASE finalizeRecovery
    <3> DEFINE new == [attemptNonce |-> recovery.attemptNonce, outcome |-> "Finalized",
                       at |-> now, newAuthority |-> recovery.proposedAuthority]
    <3>1. closed' = closed \cup {new} /\ new.attemptNonce = recovery.attemptNonce
      BY <2>2 DEF finalizeRecovery
    <3>2. new \in closed
      BY <1>1, <3>1
    <3>3. FALSE
      BY <2>2, <3>1, <3>2 DEF finalizeRecovery, Due, SlotMirrorsLog
    <3>4. QED
      BY <3>3
  <2>3. QED
    BY <1>1, <2>1, <2>2 DEF Next, ContractStep, vars, recVars, initiateRecovery, approveRecovery,
       cancelRecovery, guardianSigns
<1>2. CASE closed' # closed
  <2>1. closed' \subseteq Closing
    BY TypeStep DEF TypeOK
  <2>2. ASSUME NEW sender \in Addrs, cancelRecovery(sender)
        PROVE  \E new \in Closing :
                 /\ closed' = closed \cup {new}
                 /\ new.attemptNonce = recovery.attemptNonce
                 /\ recovery.status = "Pending"
                 /\ vaultAuthority' = new.newAuthority
                 /\ new.outcome # "Finalized"
    <3> DEFINE new == [attemptNonce |-> recovery.attemptNonce, outcome |-> "Canceled",
                       at |-> now, newAuthority |-> vaultAuthority]
    <3>1. closed' = closed \cup {new} /\ recovery.status = "Pending"
          /\ vaultAuthority' = vaultAuthority
      BY <2>2 DEF cancelRecovery
    <3>2. new \in Closing
      BY <2>1, <3>1
    <3>3. QED
      BY <3>1, <3>2
  <2>3. CASE finalizeRecovery
    <3> DEFINE new == [attemptNonce |-> recovery.attemptNonce, outcome |-> "Finalized",
                       at |-> now, newAuthority |-> recovery.proposedAuthority]
    <3>1. /\ closed' = closed \cup {new}
          /\ Due /\ recovery.status = "Pending"
          /\ vaultAuthority' = new.newAuthority
      BY <2>3 DEF finalizeRecovery, Due, NewAuthority
    <3>2. new \in Closing
      BY <2>1, <3>1
    <3>3. QED
      BY <3>1, <3>2
  <2>4. QED
    BY <1>2, <2>2, <2>3 DEF Next, ContractStep, vars, recVars, setGuardianSet, initiateRecovery,
       approveRecovery, guardianSigns
<1>3. QED
  BY <1>1, <1>2

\* No step closes an attempt that was closed before.
LEMMA ClosedOnceStep ==
  TypeOK /\ SlotMirrorsLog /\ ClosedOnce /\ [Next]_vars => ClosedOnce'
  BY ClosingStep DEF ClosedOnce, SlotMirrorsLog

\* Every step keeps vaultAuthority equal to what the event log says.
LEMMA AuthorityStep ==
  TypeOK /\ SlotMirrorsLog /\ AuthorityFollowsLog /\ [Next]_vars => AuthorityFollowsLog'
<1> SUFFICES ASSUME TypeOK, SlotMirrorsLog, AuthorityFollowsLog, [Next]_vars
             PROVE  AuthorityFollowsLog'
  OBVIOUS
<1>1. CASE closed' = closed /\ (closed # {} => vaultAuthority' = vaultAuthority)
  BY <1>1 DEF AuthorityFollowsLog
<1>2. ASSUME NEW new \in Closing, closed' = closed \cup {new},
             new.attemptNonce = recovery.attemptNonce, recovery.status = "Pending",
             vaultAuthority' = new.newAuthority
      PROVE  AuthorityFollowsLog'
  <2>1. \A c \in closed : c.attemptNonce < new.attemptNonce
    BY <1>2 DEF SlotMirrorsLog, TypeOK, Closing, Recovery
  <2>2. \A c \in closed : ~(new.attemptNonce <= c.attemptNonce)
    BY <1>2, <2>1 DEF TypeOK, Closing
  <2>3. QED
    BY <1>2, <2>2 DEF AuthorityFollowsLog
<1>3. QED
  BY <1>1, <1>2, ClosingStep

\* A quorum counted for an attempt is a quorum of endorsements under the root.
LEMMA QuorumEndorses ==
  ASSUME TypeOK, SlotMirrorsLog, ApprovalsEndorseAttempt, ApprovalsCountDistinct, Due
  PROVE  Cardinality({g \in guardianSet.root : Endorsed(recovery.attemptNonce, g)})
           >= guardianSet.threshold
<1> DEFINE n == recovery.attemptNonce
           Q == {g \in guardianSet.root : Endorsed(n, g)}
<1>1. guardianSet.root \subseteq Guardians /\ guardianSet.threshold \in Nat
  BY DEF TypeOK, GuardianSet
<1>2. IsFiniteSet(Q)
  BY <1>1, RecoveryAssumption, FS_Subset
<1>3. Approvers(n) \subseteq Q
  BY DEF Approvers, ApprovalsEndorseAttempt, SlotMirrorsLog
<1>4. Cardinality(Approvers(n)) <= Cardinality(Q)
  BY <1>2, <1>3, FS_Subset
<1>5. recovery.approvals = Cardinality(Approvers(n)) /\ recovery.approvals >= guardianSet.threshold
  BY DEF ApprovalsCountDistinct, Due
<1>6. Cardinality(Q) \in Nat /\ recovery.approvals \in Nat
  BY <1>2, FS_CardinalityType DEF TypeOK, Recovery
<1>7. QED
  BY <1>1, <1>4, <1>5, <1>6

\* Every step keeps each rotation backed by a quorum and a full veto window.
LEMMA EarnedStep ==
  RecoveryInv /\ [Next]_vars => RotationsEarned'
<1> SUFFICES ASSUME RecoveryInv, [Next]_vars,
                    NEW c \in closed', c.outcome = "Finalized"
             PROVE  /\ c.attemptNonce \in 1..Len(opened')
                    /\ c.newAuthority = opened'[c.attemptNonce].proposedAuthority
                    /\ c.at >= opened'[c.attemptNonce].at + MIN_DELAY
                    /\ Cardinality({g \in guardianSet'.root : Endorsed(c.attemptNonce, g)'})
                         >= guardianSet'.threshold
  BY DEF RotationsEarned
<1> USE DEF RecoveryInv
<1> DEFINE n == c.attemptNonce
           Q == {g \in guardianSet.root : Endorsed(n, g)}
           Q2 == {g \in guardianSet'.root : Endorsed(n, g)'}
<1>1. /\ n \in 1..Len(opened)
      /\ c.newAuthority = opened[n].proposedAuthority
      /\ c.at >= opened[n].at + MIN_DELAY
      /\ Cardinality(Q) >= guardianSet.threshold
  <2>1. CASE c \in closed
    BY <2>1 DEF RotationsEarned
  <2>2. CASE c \notin closed
    <3>1. /\ n = recovery.attemptNonce
          /\ Due
          /\ c.at = now
          /\ c.newAuthority = recovery.proposedAuthority
      BY <2>2, ClosingStep
    <3>2. n \in Nat \ {0} /\ n = Len(opened)
      BY <3>1 DEF Due, SlotMirrorsLog, TypeOK, Recovery
    <3>3. Cardinality(Q) >= guardianSet.threshold
      BY <3>1, QuorumEndorses
    <3>4. QED
      BY <3>1, <3>2, <3>3 DEF Due, SlotMirrorsLog
  <2>3. QED
    BY <2>1, <2>2
<1>2. n \in 1..Len(opened') /\ opened'[n] = opened[n]
  BY <1>1, LogsGrow DEF TypeOK
<1>3. guardianSet' = guardianSet
  <2>1. guardianSet.initialized
    BY <1>1 DEF SlotMirrorsLog, Uninitialized, TypeOK
  <2>2. QED
    BY <2>1 DEF Next, ContractStep, vars, recVars, setGuardianSet, CanSetGuardians,
       initiateRecovery, approveRecovery, cancelRecovery, finalizeRecovery, guardianSigns
<1>4. Q \subseteq Q2
  BY <1>1, <1>3, EndorsedStays
<1>5. IsFiniteSet(Q2)
  BY <1>3, RecoveryAssumption, FS_Subset DEF TypeOK, GuardianSet
<1>6. Cardinality(Q) <= Cardinality(Q2) /\ Cardinality(Q) \in Nat /\ Cardinality(Q2) \in Nat
  BY <1>4, <1>5, FS_Subset, FS_CardinalityType
<1>7. Cardinality(Q2) >= guardianSet'.threshold
  BY <1>1, <1>3, <1>6 DEF TypeOK, GuardianSet
<1>8. QED
  BY <1>1, <1>2, <1>7

-----------------------------------------------------------------------------

\* RecoveryInv holds in every reachable state of RecoveryV2.
THEOREM RecoverySafe == Spec => []RecoveryInv
<1>1. RecoveryInv /\ [Next]_vars => RecoveryInv'
  BY TypeStep, SlotStep, EndorseStep, CountStep, ClosedOnceStep, EarnedStep, AuthorityStep
     DEF RecoveryInv
<1>2. QED
  BY InitInv, <1>1, PTL DEF Spec

\* RecoveryV2 keeps every storage field within its type.
THEOREM TypeCorrect == Spec => []TypeOK
  BY RecoverySafe, PTL DEF RecoveryInv

\* The unchecked approvals counter counts distinct guardians of the current
\* attempt only.
THEOREM CountsDistinctGuardians == Spec => []ApprovalsCountDistinct
  BY RecoverySafe, PTL DEF RecoveryInv

\* No approval signature counts for an attempt, an authority or a recipient it
\* was not made for.
THEOREM NoStaleApproval == Spec => []ApprovalsEndorseAttempt
  BY RecoverySafe, PTL DEF RecoveryInv

\* A canceled attempt is never finalized, a finalized one never again.
THEOREM AttemptsCloseOnce == Spec => []ClosedOnce
  BY RecoverySafe, PTL DEF RecoveryInv

\* Every rotation of the authority was endorsed by a threshold of guardians of
\* the committed set, in one attempt, whose veto window was over.
THEOREM RotationsAreEarned == Spec => []RotationsEarned
  BY RecoverySafe, PTL DEF RecoveryInv

\* The authority is the one the last closing event announced.
THEOREM AuthorityIsLogged == Spec => []AuthorityFollowsLog
  BY RecoverySafe, PTL DEF RecoveryInv

=============================================================================

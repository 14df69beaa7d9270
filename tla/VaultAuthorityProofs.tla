------------------------ MODULE VaultAuthorityProofs ------------------------
(***************************************************************************)
(* The two contracts side by side: the recovery contract is the            *)
(* environment that RevisionLogV2 assumes, and the device log does not     *)
(* disturb a recovery.                                                     *)
(***************************************************************************)
EXTENDS VaultAuthority, TLAPS

\* What the recovery contract guarantees about the authority: it exists from
\* the guardian set on, a pending attempt names an address, and no closing
\* event names a pending attempt.
AuthorityInv ==
  /\ now \in Nat
  /\ vaultAuthority \in Addrs \cup {NoAddr}
  /\ guardianSet.initialized <=> vaultAuthority # NoAddr
  /\ recovery \in Rec!Recovery
  /\ recovery.status = "Pending" => recovery.proposedAuthority \in Addrs /\ guardianSet.initialized
  /\ recovery.status = "Pending" => \A c \in closed : c.attemptNonce < recovery.attemptNonce
  /\ \A c \in closed : c.attemptNonce \in 0..recovery.attemptNonce

\* The events form a sequence.
EventsAreLog == \E S : events \in Seq(S)

\* The authority a step of the recovery contract leaves behind.
LEMMA AuthorityMoves ==
  ASSUME AuthorityInv, Rec!ContractStep
  PROVE  vaultAuthority' = vaultAuthority \/ vaultAuthority' \in Addrs
<1>1. ASSUME Rec!finalizeRecovery PROVE vaultAuthority' \in Addrs
  BY <1>1 DEF AuthorityInv, Rec!finalizeRecovery, Rec!Due, Rec!NewAuthority
<1> QED
  BY <1>1 DEF Rec!ContractStep, Rec!setGuardianSet, Rec!initiateRecovery, Rec!approveRecovery,
              Rec!cancelRecovery, Rec!guardianSigns

\* Initially there is neither a guardian set nor an attempt nor an event.
LEMMA InitAuthority == Init => AuthorityInv /\ EventsAreLog
<1> SUFFICES ASSUME Init PROVE AuthorityInv /\ EventsAreLog
  OBVIOUS
<1>1. AuthorityInv
  BY DEF Init, Rec!Init, AuthorityInv, Rec!Status, Rec!Recovery
<1>2. << >> \in Seq({})
  OBVIOUS
<1> QED
  BY <1>1, <1>2 DEF EventsAreLog, Init, Log!Init

\* A step of either contract, or of the clock, keeps AuthorityInv.
LEMMA AuthorityStep == AuthorityInv /\ [Next]_vars => AuthorityInv'
<1> SUFFICES ASSUME AuthorityInv, [Next]_vars PROVE AuthorityInv'
  OBVIOUS
<1> USE VaultAuthorityAssumption DEF AuthorityInv, Rec!Recovery, Rec!Status
<1>1. ASSUME NEW sender \in Addrs, NEW gs, Rec!setGuardianSet(sender, gs), UNCHANGED now
      PROVE  AuthorityInv'
  BY <1>1 DEF Rec!setGuardianSet
<1>2. ASSUME NEW a \in Addrs, NEW c \in Commitments, Rec!initiateRecovery(a, c), UNCHANGED now
      PROVE  AuthorityInv'
  <2>1. /\ recovery' = [proposedAuthority |-> a, initiatedAt |-> now,
                        attemptNonce |-> recovery.attemptNonce + 1, approvals |-> 0,
                        status |-> "Pending", recipientCommitment |-> c]
        /\ guardianSet.initialized
        /\ UNCHANGED <<guardianSet, vaultAuthority, closed, now>>
    BY <1>2 DEF Rec!initiateRecovery, Rec!FreshAttempt
  <2>2. recovery.attemptNonce + 1 \in Nat
    OBVIOUS
  <2> QED
    BY <2>1, <2>2
<1>3. ASSUME NEW sig, Rec!approveRecovery(sig), UNCHANGED now
      PROVE  AuthorityInv'
  <2>1. /\ recovery' \in Rec!Recovery
        /\ recovery'.status = recovery.status
        /\ recovery'.attemptNonce = recovery.attemptNonce
        /\ recovery'.proposedAuthority = recovery.proposedAuthority
        /\ UNCHANGED <<guardianSet, vaultAuthority, closed, now>>
    BY <1>3 DEF Rec!approveRecovery
  <2> QED
    BY <2>1
<1>4. ASSUME NEW sender, Rec!cancelRecovery(sender), UNCHANGED now
      PROVE  AuthorityInv'
  <2>1. /\ recovery' \in Rec!Recovery
        /\ recovery'.status = "Canceled"
        /\ recovery'.attemptNonce = recovery.attemptNonce
        /\ UNCHANGED <<guardianSet, vaultAuthority, now>>
        /\ \A c \in closed' : c \in closed \/ c.attemptNonce = recovery.attemptNonce
    BY <1>4 DEF Rec!cancelRecovery
  <2> QED
    BY <2>1
<1>5. ASSUME Rec!finalizeRecovery, UNCHANGED now
      PROVE  AuthorityInv'
  <2>1. /\ recovery' \in Rec!Recovery
        /\ recovery'.status = "Finalized"
        /\ recovery'.attemptNonce = recovery.attemptNonce
        /\ vaultAuthority' \in Addrs
        /\ UNCHANGED <<guardianSet, now>>
        /\ \A c \in closed' : c \in closed \/ c.attemptNonce = recovery.attemptNonce
    BY <1>5 DEF Rec!finalizeRecovery, Rec!Due, Rec!NewAuthority
  <2>2. guardianSet.initialized
    BY <1>5 DEF Rec!finalizeRecovery, Rec!Due
  <2> QED
    BY <2>1, <2>2
<1>6. CASE UNCHANGED <<guardianSet, vaultAuthority, recovery, closed>> /\ now' \in Nat
  BY <1>6
<1> QED
  BY <1>1, <1>2, <1>3, <1>4, <1>5, <1>6
  DEF Next, Rec!ContractStep, Rec!guardianSigns, Rec!Tick, vars, recVars, logVars

\* What Emit appends is the last event, and the events stay a sequence.
LEMMA EmitKeepsLog ==
  ASSUME EventsAreLog, NEW kind, NEW who, NEW num, Log!Emit(kind, who, num)
  PROVE  /\ EventsAreLog'
         /\ events'[Len(events')].kind = kind
         /\ events'[Len(events')].who = who
<1> DEFINE e == [kind |-> kind, who |-> who, num |-> num, at |-> now]
<1>1. PICK S : events \in Seq(S)
  BY DEF EventsAreLog
<1>2. events' = Append(events, e)
  BY DEF Log!Emit
<1>3. e.kind = kind /\ e.who = who
  OBVIOUS
<1> HIDE DEF e
<1>4. events \in Seq(S \cup {e})
  BY <1>1
<1>5. events' \in Seq(S \cup {e}) /\ Len(events') = Len(events) + 1 /\ events'[Len(events) + 1] = e
  BY <1>2, <1>4
<1> QED
  BY <1>3, <1>5 DEF EventsAreLog

\* Every step keeps the events a sequence.
LEMMA LogGrows == EventsAreLog /\ [Next]_vars => EventsAreLog'
<1> SUFFICES ASSUME EventsAreLog, [Next]_vars PROVE EventsAreLog'
  OBVIOUS
<1>1. CASE events' = events
  BY <1>1 DEF EventsAreLog
<1>2. ASSUME NEW kind, NEW who, NEW num, Log!Emit(kind, who, num) PROVE EventsAreLog'
  BY <1>2, EmitKeepsLog
<1> QED
  BY <1>1, <1>2
  DEF Next, Rec!ContractStep, Rec!Tick, vars, recVars, logVars, Log!LogStep, Log!bootstrapVault,
      Log!publishRevision, Log!addDevice, Log!removeDevice, Log!proposePromotion,
      Log!finalizePromotion, Log!cancelPromotion, Log!sign

\* Every behaviour keeps AuthorityInv and the events a sequence.
LEMMA AuthoritySafe == Spec => [](AuthorityInv /\ EventsAreLog)
BY InitAuthority, AuthorityStep, LogGrows, PTL DEF Spec

\* The recovery contract is a correct environment of RevisionLogV2: whatever
\* setGuardianSet and finalizeRecovery do to vaultAuthority between two device
\* operations is a step RevisionLogV2.sol's _recoveryAuthority is proved for.
THEOREM LogImplemented == Spec => ImplementsRevisionLog
<1>1. Init => Log!Init
  BY DEF Init
<1>2. AuthorityInv /\ [Next]_vars => [Log!Next]_Log!vars
  <2> SUFFICES ASSUME AuthorityInv, [Next]_vars PROVE [Log!Next]_Log!vars
    OBVIOUS
  <2>1. CASE Rec!ContractStep /\ UNCHANGED <<logVars, now>>
    BY <2>1, AuthorityMoves DEF Log!Next, Log!RotateAuthority, Log!vars, Log!logVars, logVars
  <2>2. CASE Log!LogStep /\ UNCHANGED <<recVars, now>>
    BY <2>2 DEF Log!Next, recVars
  <2>3. CASE Rec!Tick /\ UNCHANGED <<recVars, logVars>>
    BY <2>3 DEF Log!Next, Log!Tick, Rec!Tick, Log!logVars, logVars, recVars
  <2>4. CASE UNCHANGED vars
    BY <2>4 DEF vars, recVars, logVars, Log!vars, Log!logVars
  <2> QED
    BY <2>1, <2>2, <2>3, <2>4 DEF Next
<1> QED
  BY <1>1, <1>2, AuthoritySafe, PTL DEF Spec, ImplementsRevisionLog, Log!Spec

\* finalizeRecovery closes its attempt by a new event that names the
\* authority it installs.
LEMMA FinalizeCloses ==
  ASSUME AuthorityInv, Rec!finalizeRecovery
  PROVE  \E c \in closed' : /\ c \notin closed
                            /\ c.outcome = "Finalized"
                            /\ c.newAuthority = vaultAuthority'
<1>1. recovery.status = "Pending"
  BY DEF Rec!finalizeRecovery, Rec!Due
<1> DEFINE c == [attemptNonce |-> recovery.attemptNonce, outcome |-> "Finalized",
                 at |-> now, newAuthority |-> Rec!NewAuthority]
<1>2. c \in closed' /\ c.newAuthority = vaultAuthority' /\ c.outcome = "Finalized"
  BY DEF Rec!finalizeRecovery, Rec!NewAuthority
<1>3. c.attemptNonce = recovery.attemptNonce /\ recovery.attemptNonce \in Nat
  BY DEF AuthorityInv, Rec!Recovery
<1> HIDE DEF c
<1>4. c \notin closed
  BY <1>1, <1>3 DEF AuthorityInv
<1> QED
  BY <1>2, <1>4

\* The manager of RevisionLogV2.sol (_currentManager) moves by a finalized
\* recovery once guardians exist; before, by a finalized promotion or by
\* setGuardianSet, and by no other call of either contract.
THEOREM ManagerIsMovedByQuorum == Spec => ManagerMovesByQuorum
<1> DEFINE Moves ==
      bootstrapped /\ Log!CurrentManager' # Log!CurrentManager =>
       IF vaultAuthority # NoAddr
       THEN \E c \in closed' : /\ c \notin closed
                               /\ c.outcome = "Finalized"
                               /\ c.newAuthority = Log!CurrentManager'
       ELSE \/ guardianSet'.initialized /\ ~guardianSet.initialized
            \/ /\ events'[Len(events')].kind = "PromotionFinalized"
               /\ events'[Len(events')].who = Log!CurrentManager'
<1>1. AuthorityInv /\ AuthorityInv' /\ EventsAreLog /\ [Next]_vars => [Moves]_vars
  <2> SUFFICES ASSUME AuthorityInv, AuthorityInv', EventsAreLog, Next,
                      bootstrapped, Log!CurrentManager' # Log!CurrentManager
               PROVE  Moves
    OBVIOUS
  <2>1. CASE Rec!ContractStep /\ UNCHANGED <<logVars, now>>
    <3>1. vaultAuthority' # vaultAuthority
      BY <2>1 DEF Log!CurrentManager, logVars
    <3>2. CASE Rec!finalizeRecovery
      <4>1. vaultAuthority # NoAddr /\ vaultAuthority' \in Addrs
        BY <3>2, <3>1, <2>1, AuthorityMoves
        DEF AuthorityInv, Rec!finalizeRecovery, Rec!Due
      <4>2. Log!CurrentManager' = vaultAuthority'
        BY <4>1, VaultAuthorityAssumption DEF Log!CurrentManager
      <4> QED
        BY <3>2, <4>1, <4>2, FinalizeCloses
    <3>3. CASE \E sender \in Addrs, gs \in GuardianSets : Rec!setGuardianSet(sender, gs)
      BY <3>3 DEF Rec!setGuardianSet, Rec!CanSetGuardians, AuthorityInv
    <3> QED
      BY <2>1, <3>1, <3>2, <3>3
      DEF Rec!ContractStep, Rec!initiateRecovery, Rec!approveRecovery, Rec!cancelRecovery,
          Rec!guardianSigns
  <2>2. CASE Log!LogStep /\ UNCHANGED <<recVars, now>>
    <3>1. vaultAuthority' = vaultAuthority
      BY <2>2 DEF recVars
    <3>2. vaultAuthority = NoAddr /\ deviceManager' # deviceManager
      BY <3>1 DEF Log!CurrentManager
    <3>3. Log!finalizePromotion
      BY <2>2, <3>2
      DEF Log!LogStep, Log!bootstrapVault, Log!publishRevision, Log!addDevice, Log!removeDevice,
          Log!proposePromotion, Log!cancelPromotion, Log!sign
    <3>4. Log!CurrentManager' = pendingPromotion.candidate
      BY <3>1, <3>2, <3>3 DEF Log!CurrentManager, Log!finalizePromotion
    <3>5. Log!Emit("PromotionFinalized", pendingPromotion.candidate, 0)
      BY <3>3 DEF Log!finalizePromotion
    <3> QED
      BY <3>2, <3>4, <3>5, EmitKeepsLog
  <2>3. CASE Rec!Tick /\ UNCHANGED <<recVars, logVars>>
    BY <2>3 DEF recVars, logVars, Log!CurrentManager
  <2> QED
    BY <2>1, <2>2, <2>3 DEF Next
<1> QED
  BY <1>1, AuthoritySafe, PTL DEF Spec, ManagerMovesByQuorum

=============================================================================

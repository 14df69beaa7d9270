------------------------- MODULE RevisionLogV2Proofs -------------------------
(***************************************************************************)
(* The device set, its manager, its nonce and its event log stay in step,  *)
(* for every set of addresses, cap, delay and number of signatures.        *)
(***************************************************************************)
EXTENDS RevisionLogV2, FiniteSetTheorems, TLAPS

\* Nothing has happened before bootstrapVault.
Unbooted ==
  ~bootstrapped => /\ authorizedDevice = {}
                   /\ events = << >>
                   /\ pendingPromotion = NoPromotion
                   /\ deviceNonce = 0

\* The pending promotion is the last promotion event of the log.
PendingMirrorsLog ==
  pendingPromotion.readyAt # 0 =>
    \E i \in 1..Len(events) :
      /\ events[i].kind = "PromotionProposed"
      /\ events[i].who = pendingPromotion.candidate
      /\ pendingPromotion.readyAt = events[i].at + PROMOTION_DELAY
      /\ \A k \in (i + 1)..Len(events) : events[k].kind \notin PromotionKinds

\* The set is finite, so that its size is a number.
SetFinite == IsFiniteSet(authorizedDevice)

LogInv ==
  /\ TypeOK /\ Unbooted
  /\ SetFinite /\ CountIsSetSize
  /\ ManagerIsMember
  /\ NoncesConsumedOnce
  /\ EventsExplainSet
  /\ PendingMirrorsLog /\ PromotionsEarned

-----------------------------------------------------------------------------

\* The constructor's state satisfies the invariant.
LEMMA InitInv == Init => LogInv
<1> SUFFICES ASSUME Init PROVE LogInv
  OBVIOUS
<1> USE RevisionLogAssumption DEF Init
<1>1. TypeOK /\ Unbooted
  <2>1. << >> \in Seq(Event)
    OBVIOUS
  <2> QED
    BY <2>1 DEF TypeOK, Unbooted
<1>2. SetFinite /\ CountIsSetSize
  BY FS_EmptySet DEF SetFinite, CountIsSetSize
<1>3. ManagerIsMember
  BY DEF ManagerIsMember
<1>4. NoncesConsumedOnce
  <2>1. Len(events) = 0 /\ deviceNonce = 0
    OBVIOUS
  <2>2. NonceEvents(0) = {}
    BY DEF NonceEvents
  <2>3. Cardinality(NonceEvents(Len(events))) = 0
    BY <2>1, <2>2, FS_EmptySet
  <2> QED
    BY <2>1, <2>3 DEF NoncesConsumedOnce
<1>5. EventsExplainSet
  BY DEF EventsExplainSet, ReplayMembers
<1>6. PendingMirrorsLog /\ PromotionsEarned
  BY DEF PendingMirrorsLog, PromotionsEarned, NoPromotion
<1> QED
  BY <1>1, <1>2, <1>3, <1>4, <1>5, <1>6 DEF LogInv

\* Every entry point keeps the storage of its type.
LEMMA TypeStep == TypeOK /\ Unbooted /\ [Next]_vars => TypeOK'
<1> SUFFICES ASSUME TypeOK, Unbooted, [Next]_vars PROVE TypeOK'
  OBVIOUS
<1> USE RevisionLogAssumption DEF TypeOK
<1>1. ASSUME NEW kind \in EventKinds, NEW who \in Addrs, NEW num \in Nat, Emit(kind, who, num)
      PROVE  events' \in Seq(Event)
  BY <1>1 DEF Emit, Event
<1>2. ASSUME NEW auth \in auths, bootstrapVault(auth), UNCHANGED <<vaultAuthority, now>>
      PROVE  TypeOK'
  <2>1. auth \in Auth
    OBVIOUS
  <2>2. events' \in Seq(Event)
    BY <1>1, <1>2, <2>1 DEF bootstrapVault, Auth, EventKinds
  <2> QED
    BY <1>2, <2>1, <2>2 DEF bootstrapVault, Auth
<1>3. ASSUME NEW signer \in Addrs, publishRevision(signer), UNCHANGED <<vaultAuthority, now>>
      PROVE  TypeOK'
  <2>1. events' \in Seq(Event)
    BY <1>1, <1>3 DEF publishRevision, EventKinds
  <2> QED
    BY <1>3, <2>1 DEF publishRevision
<1>4. ASSUME NEW auth \in auths, addDevice(auth), UNCHANGED <<vaultAuthority, now>>
      PROVE  TypeOK'
  <2>1. auth \in Auth
    OBVIOUS
  <2>2. events' \in Seq(Event)
    BY <1>1, <1>4, <2>1 DEF addDevice, Auth, EventKinds
  <2> QED
    BY <1>4, <2>1, <2>2 DEF addDevice, Auth
<1>5. ASSUME NEW auth \in auths, removeDevice(auth), UNCHANGED <<vaultAuthority, now>>
      PROVE  TypeOK'
  <2>1. auth \in Auth
    OBVIOUS
  <2>2. events' \in Seq(Event)
    BY <1>1, <1>5, <2>1 DEF removeDevice, Auth, EventKinds
  <2>3. authorizedDeviceCount - 1 \in Nat
    BY <1>5 DEF removeDevice, WouldBrick
  <2> QED
    BY <1>5, <2>1, <2>2, <2>3 DEF removeDevice, Auth
<1>6. ASSUME NEW auth \in auths, proposePromotion(auth), UNCHANGED <<vaultAuthority, now>>
      PROVE  TypeOK'
  <2>1. auth \in Auth
    OBVIOUS
  <2>2. events' \in Seq(Event)
    BY <1>1, <1>6, <2>1 DEF proposePromotion, Auth, EventKinds
  <2>3. pendingPromotion' \in [candidate : Addrs, readyAt : Nat \ {0}]
    BY <1>6, <2>1 DEF proposePromotion, Auth
  <2> QED
    BY <1>6, <2>1, <2>2, <2>3 DEF proposePromotion, Auth
<1>7. ASSUME finalizePromotion, UNCHANGED <<vaultAuthority, now>>
      PROVE  TypeOK'
  <2>1. pendingPromotion.candidate \in Addrs
    BY <1>7 DEF finalizePromotion, PromotionDue, NoPromotion
  <2>2. events' \in Seq(Event)
    BY <1>1, <1>7, <2>1 DEF finalizePromotion, EventKinds
  <2> QED
    BY <1>7, <2>1, <2>2 DEF finalizePromotion, Cleared
<1>8. ASSUME NEW sender \in Addrs, cancelPromotion(sender), UNCHANGED <<vaultAuthority, now>>
      PROVE  TypeOK'
  <2>1. pendingPromotion.candidate \in Addrs
    BY <1>8 DEF cancelPromotion, NoPromotion
  <2>2. events' \in Seq(Event)
    BY <1>1, <1>8, <2>1 DEF cancelPromotion, EventKinds
  <2> QED
    BY <1>8, <2>2 DEF cancelPromotion, Cleared
<1>9. ASSUME NEW m \in Messages, sign(m), UNCHANGED <<vaultAuthority, now>>
      PROVE  TypeOK'
  BY <1>9 DEF sign, Auth
<1>10. CASE RotateAuthority /\ UNCHANGED <<logVars, now>>
  BY <1>10 DEF RotateAuthority, logVars
<1>11. CASE Tick /\ UNCHANGED <<logVars, vaultAuthority>>
  BY <1>11 DEF Tick, logVars
<1>12. CASE UNCHANGED vars
  BY <1>12 DEF vars, logVars
<1> QED
  BY <1>2, <1>3, <1>4, <1>5, <1>6, <1>7, <1>8, <1>9, <1>10, <1>11, <1>12 DEF Next, LogStep

-----------------------------------------------------------------------------

NonceKinds == CarriesNonce \cup {"PromotionProposed"}

\* What a step that emits an event does to the set, the nonce and the pending
\* promotion.
Logged(kind, who, num) ==
  /\ Emit(kind, who, num)
  /\ bootstrapped'
  /\ ~bootstrapped => kind = "VaultBootstrapped"
  /\ kind \in {"VaultBootstrapped", "DeviceAdded"} =>
       authorizedDevice' = authorizedDevice \cup {who}
  /\ kind = "DeviceRemoved" => authorizedDevice' = authorizedDevice \ {who}
  /\ kind \notin {"VaultBootstrapped", "DeviceAdded", "DeviceRemoved"} =>
       authorizedDevice' = authorizedDevice
  /\ kind \in CarriesNonce => num = deviceNonce
  /\ kind \in NonceKinds => deviceNonce' = deviceNonce + 1
  /\ kind \notin NonceKinds => deviceNonce' = deviceNonce
  /\ kind = "RevisionPublished" => who \in authorizedDevice
  /\ kind = "PromotionProposed" =>
       pendingPromotion' = [candidate |-> who, readyAt |-> now + PROMOTION_DELAY]
  /\ kind = "PromotionFinalized" => /\ pendingPromotion.readyAt # 0
                                    /\ now >= pendingPromotion.readyAt
                                    /\ who = pendingPromotion.candidate
                                    /\ who \in authorizedDevice
  /\ kind \in {"PromotionFinalized", "PromotionCanceled"} => pendingPromotion' = NoPromotion
  /\ kind \notin PromotionKinds => pendingPromotion' = pendingPromotion

\* What a step that emits nothing leaves alone.
Quiet == UNCHANGED <<authorizedDevice, authorizedDeviceCount, deviceManager, deviceNonce,
                     pendingPromotion, bootstrapped, nextSequence, events>>

\* Every step of the contract emits one event that tells its effect; signing,
\* the clock and the recovery contract touch none of its storage.
LEMMA EventStep ==
  ASSUME TypeOK, Unbooted, [Next]_vars
  PROVE  \/ Quiet
         \/ \E kind \in EventKinds, who \in Addrs, num \in Nat : Logged(kind, who, num)
<1> USE DEF TypeOK, EventKinds, CarriesNonce, NonceKinds, PromotionKinds
<1>1. ASSUME NEW auth \in auths, bootstrapVault(auth)
      PROVE  Logged("VaultBootstrapped", auth.target, 0) /\ auth.target \in Addrs
  BY <1>1 DEF bootstrapVault, Logged, Unbooted, Auth
<1>2. ASSUME NEW signer \in Addrs, publishRevision(signer)
      PROVE  Logged("RevisionPublished", signer, nextSequence)
  BY <1>2 DEF publishRevision, VerifyAndGate, Logged
<1>3. ASSUME NEW auth \in auths, addDevice(auth)
      PROVE  Logged("DeviceAdded", auth.target, auth.nonce) /\ auth \in Auth
  BY <1>3 DEF addDevice, FreshNonce, Logged
<1>4. ASSUME NEW auth \in auths, removeDevice(auth)
      PROVE  Logged("DeviceRemoved", auth.target, auth.nonce) /\ auth \in Auth
  BY <1>4 DEF removeDevice, FreshNonce, Logged
<1>5. ASSUME NEW auth \in auths, proposePromotion(auth)
      PROVE  /\ Logged("PromotionProposed", auth.target, now + PROMOTION_DELAY) /\ auth \in Auth
             /\ now + PROMOTION_DELAY \in Nat
  BY <1>5, RevisionLogAssumption DEF proposePromotion, FreshNonce, Logged
<1>6. ASSUME finalizePromotion
      PROVE  /\ Logged("PromotionFinalized", pendingPromotion.candidate, 0)
             /\ pendingPromotion.candidate \in Addrs
  BY <1>6 DEF finalizePromotion, PromotionDue, Cleared, Logged, Unbooted, NoPromotion
<1>7. ASSUME NEW sender \in Addrs, cancelPromotion(sender)
      PROVE  /\ Logged("PromotionCanceled", pendingPromotion.candidate, 0)
             /\ pendingPromotion.candidate \in Addrs
  BY <1>7 DEF cancelPromotion, Cleared, Logged, Unbooted, NoPromotion
<1>8. ASSUME NEW m, sign(m)
      PROVE  Quiet
  BY <1>8 DEF sign, Quiet
<1>9. CASE UNCHANGED logVars
  BY <1>9 DEF logVars, Quiet
<1>10. CASE LogStep
  BY <1>1, <1>2, <1>3, <1>4, <1>5, <1>6, <1>7, <1>8, <1>10 DEF LogStep, Auth
<1> QED
  BY <1>9, <1>10 DEF Next, vars

\* The log after one more event.
LEMMA EmitFacts ==
  ASSUME TypeOK, NEW kind \in EventKinds, NEW who \in Addrs, NEW num \in Nat,
         Emit(kind, who, num)
  PROVE  /\ Len(events') = Len(events) + 1
         /\ \A i \in 1..Len(events) : events'[i] = events[i]
         /\ events'[Len(events) + 1] = [kind |-> kind, who |-> who, num |-> num, at |-> now]
         /\ Len(events) \in Nat
  BY DEF TypeOK, Emit, Event

\* Nothing happens before bootstrapVault.
LEMMA UnbootedStep == TypeOK /\ Unbooted /\ [Next]_vars => Unbooted'
  BY EventStep DEF Unbooted, Quiet, Logged, NoPromotion

\* The events that consumed a nonce are finitely many.
LEMMA NonceEventsFinite ==
  ASSUME NEW n \in Nat
  PROVE  IsFiniteSet(NonceEvents(n)) /\ Cardinality(NonceEvents(n)) \in Nat
<1>1. IsFiniteSet(1..n)
  BY FS_Interval
<1> QED
  BY <1>1, FS_Subset, FS_CardinalityType DEF NonceEvents

\* Each step that consumes the nonce writes one event, which tells it.
LEMMA NonceStep ==
  TypeOK /\ Unbooted /\ NoncesConsumedOnce /\ [Next]_vars => NoncesConsumedOnce'
<1> SUFFICES ASSUME TypeOK, Unbooted, NoncesConsumedOnce, [Next]_vars
             PROVE  NoncesConsumedOnce'
  OBVIOUS
<1>1. CASE Quiet
  BY <1>1 DEF Quiet, NoncesConsumedOnce, NonceEvents
<1>2. ASSUME NEW kind \in EventKinds, NEW who \in Addrs, NEW num \in Nat, Logged(kind, who, num)
      PROVE  NoncesConsumedOnce'
  <2>1. Emit(kind, who, num)
    BY <1>2 DEF Logged
  <2> PICK n \in Nat : n = Len(events)
    BY DEF TypeOK
  <2>2. /\ Len(events') = n + 1
        /\ \A i \in 1..n : events'[i] = events[i]
        /\ events'[n + 1].kind = kind /\ events'[n + 1].num = num
    <3>1. /\ Len(events') = Len(events) + 1
          /\ \A i \in 1..Len(events) : events'[i] = events[i]
          /\ events'[Len(events) + 1] = [kind |-> kind, who |-> who, num |-> num, at |-> now]
      BY <2>1, EmitFacts
    <3> QED
      BY <3>1
  <2>3. \A m \in 0..n : NonceEvents(m)' = NonceEvents(m)
    BY <2>2 DEF NonceEvents
  <2>4. NonceEvents(n + 1)' = IF kind \in NonceKinds THEN NonceEvents(n) \cup {n + 1}
                                                     ELSE NonceEvents(n)
    BY <2>2 DEF NonceEvents, NonceKinds
  <2>5. /\ IsFiniteSet(NonceEvents(n)) /\ Cardinality(NonceEvents(n)) \in Nat
        /\ n + 1 \notin NonceEvents(n)
    BY NonceEventsFinite DEF NonceEvents
  <2>6. deviceNonce = Cardinality(NonceEvents(n))
    BY DEF NoncesConsumedOnce
  <2>7. deviceNonce' = Cardinality(NonceEvents(n + 1)')
    <3>1. CASE kind \in NonceKinds
      BY <1>2, <2>4, <2>5, <2>6, <3>1, FS_AddElement DEF Logged
    <3>2. CASE kind \notin NonceKinds
      BY <1>2, <2>4, <2>6, <3>2 DEF Logged
    <3> QED
      BY <3>1, <3>2
  <2>8. ASSUME NEW i \in 1..(n + 1), events'[i].kind \in CarriesNonce
        PROVE  events'[i].num = Cardinality(NonceEvents(i - 1)')
    <3>1. NonceEvents(i - 1)' = NonceEvents(i - 1)
      BY <2>3
    <3>2. CASE i \in 1..n
      BY <2>2, <2>8, <3>1, <3>2 DEF NoncesConsumedOnce
    <3>3. CASE i = n + 1
      BY <1>2, <2>2, <2>6, <2>8, <3>1, <3>3 DEF Logged
    <3> QED
      BY <3>2, <3>3
  <2> QED
    BY <2>2, <2>7, <2>8 DEF NoncesConsumedOnce
<1> QED
  BY <1>1, <1>2, EventStep

\* The counter is the size of the set, and the set is never empty nor above
\* the cap.
LEMMA CountStep ==
  TypeOK /\ Unbooted /\ SetFinite /\ CountIsSetSize /\ [Next]_vars
    => SetFinite' /\ CountIsSetSize'
<1> SUFFICES ASSUME TypeOK, Unbooted, SetFinite, CountIsSetSize, [Next]_vars
             PROVE  SetFinite' /\ CountIsSetSize'
  OBVIOUS
<1> USE RevisionLogAssumption DEF SetFinite, CountIsSetSize
<1>1. ASSUME NEW auth \in auths, bootstrapVault(auth)
      PROVE  SetFinite' /\ CountIsSetSize'
  <2>1. authorizedDevice' = {auth.target}
    BY <1>1 DEF bootstrapVault, Unbooted
  <2>2. IsFiniteSet({auth.target}) /\ Cardinality({auth.target}) = 1
    BY FS_Singleton
  <2>3. authorizedDeviceCount' = 1
    BY <1>1 DEF bootstrapVault
  <2> QED
    BY <2>1, <2>2, <2>3
<1>2. ASSUME NEW auth \in auths, addDevice(auth)
      PROVE  SetFinite' /\ CountIsSetSize'
  <2>1. /\ IsFiniteSet(authorizedDevice \cup {auth.target})
        /\ Cardinality(authorizedDevice \cup {auth.target}) = Cardinality(authorizedDevice) + 1
    BY <1>2, FS_AddElement DEF addDevice
  <2> QED
    BY <1>2, <2>1 DEF addDevice, HasRoom, TypeOK
<1>3. ASSUME NEW auth \in auths, removeDevice(auth)
      PROVE  SetFinite' /\ CountIsSetSize'
  <2>1. /\ IsFiniteSet(authorizedDevice \ {auth.target})
        /\ Cardinality(authorizedDevice \ {auth.target}) = Cardinality(authorizedDevice) - 1
    BY <1>3, FS_RemoveElement DEF removeDevice
  <2> QED
    BY <1>3, <2>1 DEF removeDevice, WouldBrick, TypeOK
<1>4. CASE UNCHANGED <<authorizedDevice, authorizedDeviceCount, bootstrapped>>
  BY <1>4
<1>5. \/ \E auth \in auths : bootstrapVault(auth) \/ addDevice(auth) \/ removeDevice(auth)
      \/ UNCHANGED <<authorizedDevice, authorizedDeviceCount, bootstrapped>>
  BY DEF Next, LogStep, publishRevision, proposePromotion, finalizePromotion, cancelPromotion,
         sign, vars, logVars
<1> QED
  BY <1>1, <1>2, <1>3, <1>4, <1>5

\* The manager survives removals and promotions.
LEMMA ManagerStep ==
  TypeOK /\ Unbooted /\ ManagerIsMember /\ [Next]_vars => ManagerIsMember'
<1> SUFFICES ASSUME TypeOK, Unbooted, ManagerIsMember, [Next]_vars,
                    bootstrapped', vaultAuthority' = NoAddr
             PROVE  deviceManager' \in authorizedDevice'
  BY DEF ManagerIsMember
<1> USE RevisionLogAssumption DEF ManagerIsMember
<1>1. vaultAuthority = NoAddr
  BY DEF Next, RotateAuthority, TypeOK, vars, logVars
<1>2. CASE \E auth \in auths : bootstrapVault(auth)
  BY <1>1, <1>2 DEF bootstrapVault
<1>3. CASE \E auth \in auths : addDevice(auth)
  BY <1>1, <1>3 DEF addDevice
<1>4. CASE \E auth \in auths : removeDevice(auth)
  BY <1>1, <1>4 DEF removeDevice, WouldBrick, CurrentManager
<1>5. CASE finalizePromotion
  BY <1>5 DEF finalizePromotion, PromotionDue
<1>6. CASE UNCHANGED <<authorizedDevice, deviceManager, bootstrapped>>
  BY <1>1, <1>6
<1> QED
  BY <1>2, <1>3, <1>4, <1>5, <1>6
  DEF Next, LogStep, publishRevision, proposePromotion, cancelPromotion, sign, vars, logVars

\* The reader's fold over a prefix of the log does not change as the log grows.
LEMMA ReplayPrefix ==
  ASSUME TypeOK, NEW kind \in EventKinds, NEW who \in Addrs, NEW num \in Nat,
         Emit(kind, who, num), NEW m \in 0..Len(events)
  PROVE  ReplayMembers(m)' = ReplayMembers(m)
<1>1. \A i \in 1..m : events'[i] = events[i] /\ \A j \in (i + 1)..m : events'[j] = events[j]
  <2>1. Len(events) \in Nat /\ \A i \in 1..Len(events) : events'[i] = events[i]
    BY EmitFacts
  <2> QED
    BY <2>1
<1>2. \A d \in Addrs : d \in ReplayMembers(m)' <=> d \in ReplayMembers(m)
  BY <1>1 DEF ReplayMembers
<1>3. ReplayMembers(m) \subseteq Addrs /\ ReplayMembers(m)' \subseteq Addrs
  BY DEF ReplayMembers
<1> QED
  BY <1>2, <1>3

\* One more event, one more step of the reader's fold.
LEMMA ReplayStep ==
  ASSUME TypeOK, NEW kind \in EventKinds, NEW who \in Addrs, NEW num \in Nat,
         Emit(kind, who, num), NEW n \in Nat, n = Len(events)
  PROVE  ReplayMembers(n + 1)' =
           IF kind \in {"VaultBootstrapped", "DeviceAdded"} THEN ReplayMembers(n) \cup {who}
           ELSE IF kind = "DeviceRemoved" THEN ReplayMembers(n) \ {who}
           ELSE ReplayMembers(n)
<1>1. /\ \A i \in 1..n : events'[i] = events[i]
      /\ events'[n + 1] = [kind |-> kind, who |-> who, num |-> num, at |-> now]
  BY EmitFacts
<1>2. events'[n + 1].kind = kind /\ events'[n + 1].who = who
  BY <1>1
<1> DEFINE Joins(e, d) == e.kind \in {"VaultBootstrapped", "DeviceAdded"} /\ e.who = d
           Leaves(e, d) == e.kind = "DeviceRemoved" /\ e.who = d
<1>3. \A d \in Addrs : d \in ReplayMembers(n) <=>
        \E i \in 1..n : Joins(events[i], d) /\ \A j \in (i + 1)..n : ~Leaves(events[j], d)
  BY DEF ReplayMembers
<1>4. \A d \in Addrs : d \in ReplayMembers(n + 1)' <=>
        \E i \in 1..(n + 1) : Joins(events'[i], d) /\ \A j \in (i + 1)..(n + 1) : ~Leaves(events'[j], d)
  BY DEF ReplayMembers
<1>5. /\ \A d : Joins(events'[n + 1], d) <=> kind \in {"VaultBootstrapped", "DeviceAdded"} /\ who = d
      /\ \A d : Leaves(events'[n + 1], d) <=> kind = "DeviceRemoved" /\ who = d
  BY <1>2
<1>6. /\ \A i \in 1..n, d \in Addrs : Joins(events'[i], d) <=> Joins(events[i], d)
      /\ \A i \in 1..n, d \in Addrs : Leaves(events'[i], d) <=> Leaves(events[i], d)
  BY <1>1
<1> HIDE DEF Joins, Leaves
<1>7. ASSUME NEW d \in Addrs
      PROVE  d \in ReplayMembers(n + 1)' <=>
               \/ Joins(events'[n + 1], d)
               \/ d \in ReplayMembers(n) /\ ~Leaves(events'[n + 1], d)
  <2>1. ASSUME Joins(events'[n + 1], d)
        PROVE  d \in ReplayMembers(n + 1)'
    <3>1. n + 1 \in 1..(n + 1) /\ (n + 1 + 1)..(n + 1) = {}
      OBVIOUS
    <3> QED
      BY <1>4, <2>1, <3>1
  <2>2. ASSUME d \in ReplayMembers(n), ~Leaves(events'[n + 1], d)
        PROVE  d \in ReplayMembers(n + 1)'
    <3>1. PICK i \in 1..n : Joins(events[i], d) /\ \A j \in (i + 1)..n : ~Leaves(events[j], d)
      BY <1>3, <2>2
    <3>2. i \in 1..(n + 1) /\ Joins(events'[i], d)
      BY <1>6, <3>1
    <3>3. \A j \in (i + 1)..(n + 1) : j = n + 1 \/ (j \in 1..n /\ j \in (i + 1)..n)
      OBVIOUS
    <3>4. \A j \in (i + 1)..(n + 1) : ~Leaves(events'[j], d)
      BY <1>6, <2>2, <3>1, <3>3
    <3> QED
      BY <1>4, <3>2, <3>4
  <2>3. ASSUME d \in ReplayMembers(n + 1)', ~Joins(events'[n + 1], d)
        PROVE  d \in ReplayMembers(n) /\ ~Leaves(events'[n + 1], d)
    <3>1. PICK i \in 1..(n + 1) : /\ Joins(events'[i], d)
                                  /\ \A j \in (i + 1)..(n + 1) : ~Leaves(events'[j], d)
      BY <1>4, <2>3
    <3>2. i \in 1..n /\ n + 1 \in (i + 1)..(n + 1)
      BY <2>3, <3>1
    <3>3. \A j \in (i + 1)..n : j \in 1..n /\ j \in (i + 1)..(n + 1)
      BY <3>2
    <3> QED
      BY <1>3, <1>6, <3>1, <3>2, <3>3
  <2> QED
    BY <2>1, <2>2, <2>3
<1>8. ReplayMembers(n) \subseteq Addrs /\ ReplayMembers(n + 1)' \subseteq Addrs
  BY DEF ReplayMembers
<1>9. \A d \in Addrs : d \in ReplayMembers(n + 1)' <=>
        \/ kind \in {"VaultBootstrapped", "DeviceAdded"} /\ who = d
        \/ d \in ReplayMembers(n) /\ ~(kind = "DeviceRemoved" /\ who = d)
  BY <1>5, <1>7
<1> QED
  BY <1>8, <1>9

\* The fold of the events is the set the contract gates on.
LEMMA ReplaySetStep ==
  TypeOK /\ Unbooted /\ EventsExplainSet /\ [Next]_vars => EventsExplainSet'
<1> SUFFICES ASSUME TypeOK, Unbooted, EventsExplainSet, [Next]_vars PROVE EventsExplainSet'
  OBVIOUS
<1>1. CASE Quiet
  <2>1. events' = events /\ authorizedDevice' = authorizedDevice
    BY <1>1 DEF Quiet
  <2>2. \A m : ReplayMembers(m)' = ReplayMembers(m)
    BY <2>1, Zenon DEF ReplayMembers
  <2> QED
    BY <2>1, <2>2 DEF EventsExplainSet
<1>2. ASSUME NEW kind \in EventKinds, NEW who \in Addrs, NEW num \in Nat, Logged(kind, who, num)
      PROVE  EventsExplainSet'
  <2>1. Emit(kind, who, num)
    BY <1>2 DEF Logged
  <2>2. PICK n \in Nat : n = Len(events)
    BY <2>1, EmitFacts
  <2>3. Len(events') = n + 1
    BY <2>1, <2>2, EmitFacts
  <2>4. /\ \A i \in 1..n : events'[i] = events[i]
        /\ events'[n + 1].kind = kind /\ events'[n + 1].who = who
    <3>1. /\ \A i \in 1..n : events'[i] = events[i]
          /\ events'[n + 1] = [kind |-> kind, who |-> who, num |-> num, at |-> now]
      BY <2>1, <2>2, EmitFacts
    <3> QED
      BY <3>1
  <2>5. authorizedDevice = ReplayMembers(n)
    BY <2>2 DEF EventsExplainSet
  <2>6. authorizedDevice' = ReplayMembers(n + 1)'
    BY <1>2, <2>1, <2>2, <2>5, ReplayStep DEF Logged
  <2>7. ASSUME NEW i \in 1..(n + 1), events'[i].kind = "RevisionPublished"
        PROVE  events'[i].who \in ReplayMembers(i - 1)'
    <3>1. i - 1 \in 0..n /\ ReplayMembers(i - 1)' = ReplayMembers(i - 1)
      BY <2>1, <2>2, ReplayPrefix
    <3>2. CASE i \in 1..n
      BY <2>2, <2>4, <2>7, <3>1, <3>2 DEF EventsExplainSet
    <3>3. CASE i = n + 1
      <4>1. who \in ReplayMembers(n)
        BY <1>2, <2>4, <2>5, <2>7, <3>3 DEF Logged
      <4> QED
        BY <2>4, <3>1, <3>3, <4>1
    <3> QED
      BY <3>2, <3>3
  <2> QED
    BY <2>3, <2>6, <2>7 DEF EventsExplainSet
<1> QED
  BY <1>1, <1>2, EventStep

\* A promotion finalizes only out of the slot, which mirrors its proposal.
LEMMA PromotionStep ==
  TypeOK /\ Unbooted /\ EventsExplainSet /\ PendingMirrorsLog /\ PromotionsEarned /\ [Next]_vars
    => PendingMirrorsLog' /\ PromotionsEarned'
<1> SUFFICES ASSUME TypeOK, Unbooted, EventsExplainSet, PendingMirrorsLog, PromotionsEarned,
                    [Next]_vars
             PROVE  PendingMirrorsLog' /\ PromotionsEarned'
  OBVIOUS
<1>1. CASE Quiet
  <2>1. events' = events /\ pendingPromotion' = pendingPromotion
    BY <1>1 DEF Quiet
  <2>2. \A m : ReplayMembers(m)' = ReplayMembers(m)
    BY <2>1, Zenon DEF ReplayMembers
  <2> QED
    BY <2>1, <2>2 DEF PendingMirrorsLog, PromotionsEarned
<1>2. ASSUME NEW kind \in EventKinds, NEW who \in Addrs, NEW num \in Nat, Logged(kind, who, num)
      PROVE  PendingMirrorsLog' /\ PromotionsEarned'
  <2>1. Emit(kind, who, num)
    BY <1>2 DEF Logged
  <2>2. PICK n \in Nat : n = Len(events)
    BY <2>1, EmitFacts
  <2>3. Len(events') = n + 1
    BY <2>1, <2>2, EmitFacts
  <2>4. /\ \A i \in 1..n : events'[i] = events[i]
        /\ events'[n + 1].kind = kind /\ events'[n + 1].who = who /\ events'[n + 1].at = now
    <3>1. /\ \A i \in 1..n : events'[i] = events[i]
          /\ events'[n + 1] = [kind |-> kind, who |-> who, num |-> num, at |-> now]
      BY <2>1, <2>2, EmitFacts
    <3> QED
      BY <3>1
  <2>5. PendingMirrorsLog'
    <3>1. CASE kind = "PromotionProposed"
      <4>1. pendingPromotion' = [candidate |-> who, readyAt |-> now + PROMOTION_DELAY]
        BY <1>2, <3>1 DEF Logged
      <4>2. n + 1 \in 1..(n + 1) /\ (n + 1 + 1)..(n + 1) = {}
        OBVIOUS
      <4> QED
        BY <2>3, <2>4, <3>1, <4>1, <4>2 DEF PendingMirrorsLog
    <3>2. CASE kind \in {"PromotionFinalized", "PromotionCanceled"}
      BY <1>2, <3>2 DEF Logged, NoPromotion, PendingMirrorsLog
    <3>3. CASE kind \notin PromotionKinds
      <4>1. pendingPromotion' = pendingPromotion
        BY <1>2, <3>3 DEF Logged
      <4> SUFFICES ASSUME pendingPromotion.readyAt # 0 PROVE PendingMirrorsLog'
        BY <4>1 DEF PendingMirrorsLog
      <4>2. PICK i \in 1..n :
              /\ events[i].kind = "PromotionProposed"
              /\ events[i].who = pendingPromotion.candidate
              /\ pendingPromotion.readyAt = events[i].at + PROMOTION_DELAY
              /\ \A k \in (i + 1)..n : events[k].kind \notin PromotionKinds
        BY <2>2 DEF PendingMirrorsLog
      <4>3. \A k \in (i + 1)..(n + 1) : k = n + 1 \/ (k \in 1..n /\ k \in (i + 1)..n)
        OBVIOUS
      <4>4. \A k \in (i + 1)..(n + 1) : events'[k].kind \notin PromotionKinds
        BY <2>4, <3>3, <4>2, <4>3
      <4>5. i \in 1..(n + 1) /\ events'[i] = events[i]
        BY <2>4
      <4> QED
        BY <2>3, <4>1, <4>2, <4>4, <4>5 DEF PendingMirrorsLog
    <3> QED
      BY <3>1, <3>2, <3>3 DEF PromotionKinds
  <2>6. ASSUME NEW j \in 1..(n + 1), events'[j].kind = "PromotionFinalized"
        PROVE  /\ events'[j].who \in ReplayMembers(j)'
               /\ \E i \in 1..(j - 1) :
                    /\ events'[i].kind = "PromotionProposed"
                    /\ events'[i].who = events'[j].who
                    /\ events'[j].at >= events'[i].at + PROMOTION_DELAY
                    /\ \A k \in (i + 1)..(j - 1) : events'[k].kind \notin PromotionKinds
    <3>1. \A i \in 1..(j - 1) : i \in 1..n /\ events'[i] = events[i]
      BY <2>4
    <3>2. \A i \in 1..(j - 1) : \A k \in (i + 1)..(j - 1) : events'[k] = events[k]
      BY <2>4
    <3>3. CASE j \in 1..n
      <4>1. ReplayMembers(j)' = ReplayMembers(j)
        BY <2>1, <2>2, <3>3, ReplayPrefix
      <4>2. events'[j] = events[j]
        BY <2>4, <3>3
      <4>3. /\ events[j].who \in ReplayMembers(j)
            /\ \E i \in 1..(j - 1) :
                 /\ events[i].kind = "PromotionProposed"
                 /\ events[i].who = events[j].who
                 /\ events[j].at >= events[i].at + PROMOTION_DELAY
                 /\ \A k \in (i + 1)..(j - 1) : events[k].kind \notin PromotionKinds
        BY <2>2, <2>6, <3>3, <4>2 DEF PromotionsEarned
      <4> QED
        BY <3>1, <3>2, <4>1, <4>2, <4>3
    <3>4. CASE j = n + 1
      <4>1. /\ pendingPromotion.readyAt # 0 /\ now >= pendingPromotion.readyAt
            /\ who = pendingPromotion.candidate /\ who \in authorizedDevice
            /\ kind = "PromotionFinalized"
        BY <1>2, <2>4, <2>6, <3>4 DEF Logged
      <4>2. who \in ReplayMembers(n + 1)'
        BY <2>1, <2>2, <4>1, ReplayStep DEF EventsExplainSet
      <4>3. PICK i \in 1..n :
              /\ events[i].kind = "PromotionProposed"
              /\ events[i].who = pendingPromotion.candidate
              /\ pendingPromotion.readyAt = events[i].at + PROMOTION_DELAY
              /\ \A k \in (i + 1)..n : events[k].kind \notin PromotionKinds
        BY <2>2, <4>1 DEF PendingMirrorsLog
      <4>4. i \in 1..(j - 1) /\ j - 1 = n
        BY <3>4
      <4> QED
        BY <2>4, <3>1, <3>2, <3>4, <4>1, <4>2, <4>3, <4>4
    <3> QED
      BY <3>3, <3>4
  <2>7. PromotionsEarned'
    BY <2>3, <2>6 DEF PromotionsEarned
  <2> QED
    BY <2>5, <2>7
<1> QED
  BY <1>1, <1>2, EventStep

-----------------------------------------------------------------------------

\* Every step keeps the invariant.
LEMMA NextInv == LogInv /\ [Next]_vars => LogInv'
  BY TypeStep, UnbootedStep, CountStep, ManagerStep, NonceStep, ReplaySetStep, PromotionStep
  DEF LogInv

\* The invariant of the device log.
THEOREM LogSafe == Spec => []LogInv
  BY InitInv, NextInv, PTL DEF Spec

\* Storage, events and signatures keep their types; no counter wraps.
THEOREM LogTypes == Spec => []TypeOK
  BY LogSafe, PTL DEF LogInv

\* The counter beside the mapping is the size of the set, within its bounds.
THEOREM CountIsRight == Spec => []CountIsSetSize
  BY LogSafe, PTL DEF LogInv

\* No sequence of removals and promotions leaves a manager outside the set.
THEOREM NoBrick == Spec => []ManagerIsMember
  BY LogSafe, PTL DEF LogInv

\* Every signature of addDevice, removeDevice and proposePromotion acts at
\* most once.
THEOREM NoReplay == Spec => []NoncesConsumedOnce
  BY LogSafe, PTL DEF LogInv

\* The events tell a reader the set that publishRevision gates on.
THEOREM ReadersAgree == Spec => []EventsExplainSet
  BY LogSafe, PTL DEF LogInv

\* finalizePromotion follows a proposal that stood open to the veto for
\* PROMOTION_DELAY.
THEOREM PromotionsDelayed == Spec => []PromotionsEarned
  BY LogSafe, PTL DEF LogInv

\* Only the manager's signature at the current nonce changes the set.
THEOREM OnlyManagerChangesSet == Spec => SetChangesAuthorized
<1> DEFINE Authorized ==
      bootstrapped /\ authorizedDevice' # authorizedDevice =>
       \E auth \in auths :
         /\ auth.nonce = deviceNonce /\ deviceNonce' = deviceNonce + 1
         /\ auth.signer = CurrentManager
         /\ \/ /\ auth.kind = "AddDevice"
               /\ authorizedDevice' = authorizedDevice \cup {auth.target}
            \/ /\ auth.kind = "RemoveDevice"
               /\ authorizedDevice' = authorizedDevice \ {auth.target}
<1>1. [Next]_vars => [Authorized]_vars
  <2> SUFFICES ASSUME Next, bootstrapped, authorizedDevice' # authorizedDevice
               PROVE  Authorized
    BY DEF vars
  <2>1. \E auth \in auths : addDevice(auth) \/ removeDevice(auth)
    BY DEF Next, LogStep, bootstrapVault, publishRevision, proposePromotion, finalizePromotion,
           cancelPromotion, sign, logVars
  <2> QED
    BY <2>1 DEF addDevice, removeDevice, FreshNonce, RequireManagerSig
<1> QED
  BY <1>1, PTL DEF Spec, SetChangesAuthorized

=============================================================================

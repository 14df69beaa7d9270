---------------------------- MODULE RevisionLogV2 ----------------------------
(***************************************************************************)
(* contracts/src/RevisionLogV2.sol: one vault's set of authorized devices, *)
(* its manager, and the revisions the set may publish.                     *)
(*                                                                         *)
(* The contract reads the recovery contract's vaultAuthority live in every *)
(* manager check.  Here vaultAuthority moves by an environment step that   *)
(* says all this contract relies on: it is never unset again.  The module  *)
(* VaultAuthority puts the recovery contract in its place.                 *)
(*                                                                         *)
(* As in RecoveryV2: one vault, reverting calls are not steps, inputs pass *)
(* the schema and zero-value checks, a signature is the signed record.     *)
(* Devices sign off chain at the nonce they read and anyone relays the     *)
(* signature, late or twice; `auths` holds every signature that exists.    *)
(***************************************************************************)
EXTENDS Integers, Sequences, FiniteSets

CONSTANTS
  Addrs,            \* device and authority accounts
  NoAddr,           \* address(0)
  Messages,         \* [kind, target, signer] that somebody may sign
  MAX_DEVICES,      \* cap on the set (32 in the code)
  PROMOTION_DELAY,  \* veto window, in clock ticks (48 hours in the code)
  MaxTime,          \* bound: last block timestamp
  MaxNonce,         \* bound: device nonces used
  MaxAuths,         \* bound: signatures ever made
  MaxSequence       \* bound: revisions published

ASSUME RevisionLogAssumption ==
  /\ NoAddr \notin Addrs
  /\ Messages \subseteq [kind : {"AddDevice", "RemoveDevice", "Promote"}, target : Addrs,
                          signer : Addrs]
  /\ MAX_DEVICES \in Nat \ {0}
  /\ PROMOTION_DELAY \in Nat \ {0}
  /\ MaxTime \in Nat
  /\ MaxNonce \in Nat
  /\ MaxAuths \in Nat
  /\ MaxSequence \in Nat

VARIABLES
  authorizedDevice,       \* the set of authorized devices
  authorizedDeviceCount,
  deviceManager,
  deviceNonce,
  pendingPromotion,       \* [candidate, readyAt]; readyAt = 0 means none
  bootstrapped,
  nextSequence,
  events,                 \* the emitted events, oldest first
  auths,                  \* AddDevice, RemoveDevice and Promote signatures
  vaultAuthority,         \* recovery contract: NoAddr until a guardian set exists
  now                     \* block.timestamp

logVars == <<authorizedDevice, authorizedDeviceCount, deviceManager, deviceNonce,
             pendingPromotion, bootstrapped, nextSequence, events, auths>>
vars == <<logVars, vaultAuthority, now>>

NoPromotion == [candidate |-> NoAddr, readyAt |-> 0]

\* A signed EIP-712 message: what it is about, the nonce it binds, who signed.
Auth == [kind : {"AddDevice", "RemoveDevice", "Promote"}, target : Addrs,
         nonce : Nat, signer : Addrs]

EventKinds == {"VaultBootstrapped", "DeviceAdded", "DeviceRemoved", "RevisionPublished",
               "PromotionProposed", "PromotionFinalized", "PromotionCanceled"}

\* num is the number the event carries: the device nonce of a bootstrap, an add
\* or a removal, the sequence number of a revision, readyAt of a proposal, or 0.
Event == [kind : EventKinds, who : Addrs, num : Nat, at : Nat]

Emit(kind, who, num) ==
  events' = Append(events, [kind |-> kind, who |-> who, num |-> num, at |-> now])

Init ==
  /\ authorizedDevice = {}
  /\ authorizedDeviceCount = 0
  /\ deviceManager = NoAddr
  /\ deviceNonce = 0
  /\ pendingPromotion = NoPromotion
  /\ bootstrapped = FALSE
  /\ nextSequence = 0
  /\ events = << >>
  /\ auths = {}
  /\ vaultAuthority = NoAddr
  /\ now = 0

\* Mutant: the recovery authority is only a fallback.
LocalManagerFirst == IF deviceManager = NoAddr THEN vaultAuthority ELSE deviceManager

\* The manager every check uses: the recovery authority if there is one.
CurrentManager == IF vaultAuthority = NoAddr THEN deviceManager ELSE vaultAuthority

\* Mutant: any authorized device may add and remove devices.
RequireDeviceSig(auth) == auth.signer \in authorizedDevice

RequireManagerSig(auth) == auth.signer = CurrentManager

FreshNonce(auth) == auth.nonce = deviceNonce

(***************************************************************************)
(* The entry points; auth is a signature that exists.                      *)
(***************************************************************************)

\* The genesis signature is an AddDevice at nonce 0 by the device itself.
bootstrapVault(auth) ==
  /\ ~bootstrapped
  /\ auth.kind = "AddDevice" /\ auth.nonce = 0
  /\ auth.signer = auth.target
  /\ authorizedDevice' = authorizedDevice \cup {auth.target}
  /\ authorizedDeviceCount' = 1
  /\ deviceManager' = IF vaultAuthority = NoAddr THEN auth.target ELSE vaultAuthority
  /\ bootstrapped' = TRUE
  /\ deviceNonce' = 1
  /\ Emit("VaultBootstrapped", auth.target, 0)
  /\ UNCHANGED <<pendingPromotion, nextSequence, auths>>

\* Mutant: the signer's membership is not checked.
VerifyOnly(signer) == bootstrapped

VerifyAndGate(signer) ==
  /\ bootstrapped
  /\ signer \in authorizedDevice

\* No nonce is bound: a signed revision may be published again and again while
\* its signer is in the set.
publishRevision(signer) ==
  /\ VerifyAndGate(signer)
  /\ nextSequence < MaxSequence
  /\ nextSequence' = nextSequence + 1
  /\ Emit("RevisionPublished", signer, nextSequence)
  /\ UNCHANGED <<authorizedDevice, authorizedDeviceCount, deviceManager, deviceNonce,
                 pendingPromotion, bootstrapped, auths>>

\* Mutant: off by one at the cap.
HasRoomAtCap == authorizedDeviceCount <= MAX_DEVICES

HasRoom == authorizedDeviceCount < MAX_DEVICES

addDevice(auth) ==
  /\ auth.kind = "AddDevice"
  /\ bootstrapped
  /\ FreshNonce(auth)
  /\ HasRoom
  /\ auth.target \notin authorizedDevice
  /\ RequireManagerSig(auth)
  /\ authorizedDevice' = authorizedDevice \cup {auth.target}
  /\ authorizedDeviceCount' = authorizedDeviceCount + 1
  /\ deviceNonce' = auth.nonce + 1
  /\ Emit("DeviceAdded", auth.target, auth.nonce)
  /\ UNCHANGED <<deviceManager, pendingPromotion, bootstrapped, nextSequence, auths>>

WouldBrick(d) == d = CurrentManager \/ authorizedDeviceCount <= 1

removeDevice(auth) ==
  /\ auth.kind = "RemoveDevice"
  /\ bootstrapped
  /\ FreshNonce(auth)
  /\ auth.target \in authorizedDevice
  /\ ~WouldBrick(auth.target)
  /\ RequireManagerSig(auth)
  /\ authorizedDevice' = authorizedDevice \ {auth.target}
  /\ authorizedDeviceCount' = authorizedDeviceCount - 1
  /\ deviceNonce' = auth.nonce + 1
  /\ Emit("DeviceRemoved", auth.target, auth.nonce)
  /\ UNCHANGED <<deviceManager, pendingPromotion, bootstrapped, nextSequence, auths>>

proposePromotion(auth) ==
  /\ auth.kind = "Promote"
  /\ bootstrapped
  /\ FreshNonce(auth)
  /\ pendingPromotion.readyAt = 0
  /\ auth.target \in authorizedDevice
  /\ auth.signer = auth.target
  /\ deviceNonce' = auth.nonce + 1
  /\ pendingPromotion' = [candidate |-> auth.target, readyAt |-> now + PROMOTION_DELAY]
  /\ Emit("PromotionProposed", auth.target, now + PROMOTION_DELAY)
  /\ UNCHANGED <<authorizedDevice, authorizedDeviceCount, deviceManager, bootstrapped,
                 nextSequence, auths>>

\* Mutant: the window need not be over.
PromotionPending ==
  /\ pendingPromotion.readyAt # 0
  /\ pendingPromotion.candidate \in authorizedDevice

\* Mutant: the membership is not checked again.
PromotionElapsed == pendingPromotion.readyAt # 0 /\ now >= pendingPromotion.readyAt

\* Mutant: only in the block where the window ends.
PromotionDueNow == PromotionPending /\ now = pendingPromotion.readyAt

PromotionDue ==
  /\ pendingPromotion.readyAt # 0
  /\ now >= pendingPromotion.readyAt
  /\ pendingPromotion.candidate \in authorizedDevice

Cleared == NoPromotion

\* Open to any caller.
finalizePromotion ==
  /\ PromotionDue
  /\ deviceManager' = pendingPromotion.candidate
  /\ pendingPromotion' = Cleared
  /\ Emit("PromotionFinalized", pendingPromotion.candidate, 0)
  /\ UNCHANGED <<authorizedDevice, authorizedDeviceCount, deviceNonce, bootstrapped,
                 nextSequence, auths>>

cancelPromotion(sender) ==
  /\ pendingPromotion.readyAt # 0
  /\ sender = CurrentManager
  /\ pendingPromotion' = Cleared
  /\ Emit("PromotionCanceled", pendingPromotion.candidate, 0)
  /\ UNCHANGED <<authorizedDevice, authorizedDeviceCount, deviceManager, deviceNonce,
                 bootstrapped, nextSequence, auths>>

(***************************************************************************)
(* The environment.                                                        *)
(***************************************************************************)

\* A message is signed at the device nonce its client reads from the chain now;
\* by the time the signature is relayed the nonce may have moved.
sign(m) ==
  /\ deviceNonce < MaxNonce
  /\ Cardinality(auths) < MaxAuths
  /\ auths' = auths \cup {[kind |-> m.kind, target |-> m.target,
                           nonce |-> deviceNonce, signer |-> m.signer]}
  /\ UNCHANGED <<authorizedDevice, authorizedDeviceCount, deviceManager, deviceNonce,
                 pendingPromotion, bootstrapped, nextSequence, events>>

Tick ==
  /\ now < MaxTime
  /\ now' = now + 1

\* setGuardianSet and finalizeRecovery of the recovery contract.
RotateAuthority == vaultAuthority' \in Addrs

LogStep ==
  \/ \E auth \in auths : bootstrapVault(auth)
  \/ \E signer \in Addrs : publishRevision(signer)
  \/ \E auth \in auths : addDevice(auth)
  \/ \E auth \in auths : removeDevice(auth)
  \/ \E auth \in auths : proposePromotion(auth)
  \/ finalizePromotion
  \/ \E sender \in Addrs : cancelPromotion(sender)
  \/ \E m \in Messages : sign(m)

Next ==
  \/ LogStep /\ UNCHANGED <<vaultAuthority, now>>
  \/ RotateAuthority /\ UNCHANGED <<logVars, now>>
  \/ Tick /\ UNCHANGED <<logVars, vaultAuthority>>

Spec == Init /\ [][Next]_vars

(***************************************************************************)
(* Properties.                                                             *)
(***************************************************************************)

TypeOK ==
  /\ authorizedDevice \subseteq Addrs
  /\ authorizedDeviceCount \in Nat
  /\ deviceManager \in Addrs \cup {NoAddr}
  /\ deviceNonce \in Nat
  /\ \/ pendingPromotion = NoPromotion
     \/ pendingPromotion \in [candidate : Addrs, readyAt : Nat \ {0}]
  /\ bootstrapped \in BOOLEAN
  /\ nextSequence \in Nat
  /\ events \in Seq(Event)
  /\ auths \subseteq Auth
  /\ vaultAuthority \in Addrs \cup {NoAddr}
  /\ now \in Nat

\* The counter kept beside the mapping, bumped unchecked, is the size of the
\* set; the set never empties after bootstrap and never outgrows MAX_DEVICES.
CountIsSetSize ==
  /\ authorizedDeviceCount = Cardinality(authorizedDevice)
  /\ authorizedDeviceCount <= MAX_DEVICES
  /\ bootstrapped => authorizedDeviceCount >= 1

\* No-brick (L10): as long as no recovery authority outranks it, the device
\* manager is a member of the set, across removals, promotions of devices
\* that were removed meanwhile, and canceled promotions.
ManagerIsMember ==
  bootstrapped /\ vaultAuthority = NoAddr => deviceManager \in authorizedDevice

\* The set an off-chain reader computes from the first n events.
ReplayMembers(n) ==
  {d \in Addrs :
     \E i \in 1..n :
       /\ events[i].kind \in {"VaultBootstrapped", "DeviceAdded"} /\ events[i].who = d
       /\ \A j \in (i + 1)..n : ~(events[j].kind = "DeviceRemoved" /\ events[j].who = d)}

\* Clients never read the mapping as a whole: they fold the events.  The fold
\* gives the set the contract gates on, and every RevisionPublished was
\* signed by a member of the fold of the events before it.
EventsExplainSet ==
  /\ authorizedDevice = ReplayMembers(Len(events))
  /\ \A i \in 1..Len(events) :
       events[i].kind = "RevisionPublished" => events[i].who \in ReplayMembers(i - 1)

CarriesNonce == {"VaultBootstrapped", "DeviceAdded", "DeviceRemoved"}

\* The events among the first n whose call consumed a device nonce.
NonceEvents(n) == {i \in 1..n : events[i].kind \in CarriesNonce \cup {"PromotionProposed"}}

\* Anti-replay (Q-d): every device nonce is consumed by exactly one add,
\* remove or proposal, in order, so a signature relayed twice acts once and a
\* vetoed promotion cannot be proposed again from the same signature.
NoncesConsumedOnce ==
  /\ deviceNonce = Cardinality(NonceEvents(Len(events)))
  /\ \A i \in 1..Len(events) :
       events[i].kind \in CarriesNonce => events[i].num = Cardinality(NonceEvents(i - 1))

\* Only the current manager changes the set (L9): each change consumes the
\* current nonce with a signature of the manager over that very change.
SetChangesAuthorized ==
  [][bootstrapped /\ authorizedDevice' # authorizedDevice =>
       \E auth \in auths :
         /\ auth.nonce = deviceNonce /\ deviceNonce' = deviceNonce + 1
         /\ auth.signer = CurrentManager
         /\ \/ /\ auth.kind = "AddDevice"
               /\ authorizedDevice' = authorizedDevice \cup {auth.target}
            \/ /\ auth.kind = "RemoveDevice"
               /\ authorizedDevice' = authorizedDevice \ {auth.target}]_vars

PromotionKinds == {"PromotionProposed", "PromotionFinalized", "PromotionCanceled"}

\* Survivor promotion is delayed and vetoable (L11): a promotion that
\* finalizes was proposed by that very device at least PROMOTION_DELAY
\* earlier, was not canceled or replaced since, and its device is a member
\* at that point.
PromotionsEarned ==
  \A j \in 1..Len(events) : events[j].kind = "PromotionFinalized" =>
    /\ events[j].who \in ReplayMembers(j)
    /\ \E i \in 1..(j - 1) :
         /\ events[i].kind = "PromotionProposed"
         /\ events[i].who = events[j].who
         /\ events[j].at >= events[i].at + PROMOTION_DELAY
         /\ \A k \in (i + 1)..(j - 1) : events[k].kind \notin PromotionKinds

\* A pending promotion does not hang: it is finalized or canceled, or its
\* candidate has lost its membership.
PromotionResolves ==
  (pendingPromotion.readyAt \in 1..MaxTime) ~>
     (pendingPromotion.readyAt = 0 \/ pendingPromotion.candidate \notin authorizedDevice)

\* Blocks keep coming, and the candidate's client submits finalizePromotion,
\* a call open to anyone, once it is due.
Fairness ==
  /\ WF_vars(Tick /\ UNCHANGED <<logVars, vaultAuthority>>)
  /\ WF_vars(finalizePromotion /\ UNCHANGED <<vaultAuthority, now>>)

FairSpec == Spec /\ Fairness

=============================================================================

---------------------------- MODULE VaultKeysProofs ----------------------------
(***************************************************************************)
(* Proofs about VaultKeys, for every set of other devices and accounts and *)
(* every bound on the re-keys of the file.                                 *)
(*                                                                         *)
(* The session's VDK is the file's, since every re-key ends the session;   *)
(* VDKs are minted in order, so a rotation's VDK is held by nobody; and a  *)
(* removal that was resolved was resolved by a rotation, which left a      *)
(* retained epoch behind.                                                  *)
(***************************************************************************)
EXTENDS VaultKeys, TLAPS

Jobs == [op : {"idle", "add", "removed", "trigger", "rotate", "resolve"},
         dev : Devices \cup {None}, set : SUBSET Devices]
Backups == [vdk : Vdks, epoch : Epochs, seal : 0..(MaxAuth + 1)]

\* What TypeOK leaves open: the shape of the job and of the backups.
Shapes ==
  /\ job \in Jobs /\ backups \subseteq Backups
  /\ mixed \in BOOLEAN /\ stale \in BOOLEAN

\* The unlocked session has the file's VDK and epoch; each rotation re-keys.
SessionCurrent ==
  /\ active \in {NoSession, [vdk |-> meta.vdk, epoch |-> epoch]}
  /\ job.op \in {"add", "rotate"} => Unlocked
  /\ epoch <= meta.auth

\* Nobody has a VDK that is not minted yet.
BelowMinted ==
  /\ meta.vdk < minted
  /\ escrow.vdk < minted
  /\ \A b \in backups : b.vdk < minted
  /\ \A d \in Devices : \A v \in held[d] : v < minted

\* A device that vault_remove_device removed is off the chain, and is queued when
\* the job is over.
RemovedInv ==
  /\ removed \cap onchain = {}
  /\ job.op = "add" => job.dev \notin removed
  /\ job.op = "trigger" => job.dev \notin removed \cap job.set
  /\ job.op \in {"add", "removed", "trigger"} <=> job.dev # None
  /\ \A d \in removed \ {job.dev} : pending[d] # "none"

\* A removal is resolved by a rotation, whose VDK the removed device never gets
\* unless it is handed over again.
ResolvedInv ==
  /\ job.op = "resolve" => DOMAIN chain # {} /\ \A d \in Devices : meta.vdk \notin held[d]
  /\ \A d \in Devices : pending[d] = "resolved" =>
       DOMAIN chain # {} /\ (mixed \/ d \in again \/ meta.vdk \notin held[d])

KeysInv ==
  /\ TypeOK /\ Shapes
  /\ SessionCurrent /\ BelowMinted
  /\ EscrowCurrent /\ UnlockOpensAll
  /\ RemovedInv /\ ResolvedInv

-----------------------------------------------------------------------------

\* The facts about the constants, in the form the steps use.
LEMMA Bounds ==
  /\ MaxVdk \in Nat /\ MaxAuth \in Nat /\ MaxPeer \in Nat /\ MaxVdk >= 2
  /\ None \notin Devices /\ None \notin Vdks /\ None \in Int
  BY VaultKeysAssumption DEF OtherVdk, None, Vdks

\* The new file.
LEMMA InitInv == Init => KeysInv
<1> SUFFICES ASSUME Init PROVE KeysInv
  OBVIOUS
<1>1. /\ meta \in [vdk : Vdks, auth : 0..MaxAuth] /\ epoch \in Epochs /\ minted \in 2..MaxVdk
      /\ meta.vdk = 0 /\ meta.auth = 0
  BY Bounds DEF Init, OwnVdk, Vdks, Epochs
<1>2. DOMAIN chain = {} /\ DOMAIN rows = {}
  BY DEF Init
<1>3. backups \subseteq Backups /\ \A b \in backups : b.vdk < 2
  BY Bounds DEF Init, OtherVdk, Backups, Vdks, Epochs
<1>4. job \in Jobs /\ job = Idle /\ job.op = "idle" /\ job.dev = None /\ job.set = {}
  BY DEF Init, Idle, Jobs
<1>5. TypeOK
  BY <1>1, <1>2, <1>4, Bounds DEF Init, TypeOK
<1>6. Shapes
  BY <1>3, <1>4 DEF Init, Shapes
<1>7. SessionCurrent /\ BelowMinted
  BY <1>1, <1>3, <1>4 DEF Init, SessionCurrent, BelowMinted, NoEscrow, None
<1>8. EscrowCurrent /\ UnlockOpensAll
  BY <1>2 DEF Init, EscrowCurrent, UnlockOpensAll, KeysSurvive, DeviceKeyOpens, AnchorsOpen
<1>9. RemovedInv /\ ResolvedInv
  BY <1>4 DEF Init, RemovedInv, ResolvedInv
<1>10. QED
  BY <1>5, <1>6, <1>7, <1>8, <1>9 DEF KeysInv

-----------------------------------------------------------------------------
(* Steps that leave the keys of the file alone.                            *)

\* The device side of the state.
DeviceTypes ==
  /\ job \in Jobs
  /\ pending \in [Devices -> {"none", "pending", "resolved"}]
  /\ directory \subseteq Devices /\ onchain \subseteq Devices
  /\ held \in [Devices -> SUBSET Vdks] /\ \A d \in Devices : \A v \in held[d] : v < minted
  /\ peer \in 0..MaxPeer
  /\ removed \subseteq Devices /\ again \subseteq Devices

keyVars == <<meta, epoch, chain, rows, deviceKey, escrow, backups, minted, mixed, stale>>

\* What such a step has to keep.
LEMMA DeviceSide ==
  ASSUME KeysInv, UNCHANGED keyVars, active' \in {active, NoSession},
         DeviceTypes', RemovedInv', ResolvedInv',
         job'.op \in {"add", "rotate"} => active' # NoSession
  PROVE  KeysInv'
<1> USE DEF KeysInv
<1>1. TypeOK'
  BY DEF keyVars, DeviceTypes, TypeOK, Jobs
<1>2. Shapes'
  BY DEF keyVars, DeviceTypes, Shapes
<1>3. SessionCurrent'
  BY DEF keyVars, SessionCurrent, Unlocked
<1>4. BelowMinted'
  BY DEF keyVars, BelowMinted, DeviceTypes
<1>5. EscrowCurrent' /\ UnlockOpensAll'
  BY DEF keyVars, EscrowCurrent, UnlockOpensAll, KeysSurvive, KeyOf, DeviceKeyOpens, AnchorsOpen
<1>6. QED
  BY <1>1, <1>2, <1>3, <1>4, <1>5

LEMMA DeviceTypesHold == KeysInv => DeviceTypes
  BY DEF KeysInv, TypeOK, Shapes, BelowMinted, DeviceTypes

\* lock, a crash, an RPC error, a refused or failed rotation, the end of a rotation:
\* the job is over, and a removal that was cut off is not counted as one.
LEMMA JobOver ==
  ASSUME KeysInv, lock \/ rotation_refused \/ rotation_failed \/ rotation_returns
                       \/ rpc_fails \/ crash
  PROVE  KeysInv'
<1>1. /\ UNCHANGED keyVars /\ active' \in {active, NoSession} /\ job' = Idle
      /\ removed' \in {removed, removed \ {job.dev}}
      /\ job.dev # None => removed' = removed \ {job.dev}
      /\ UNCHANGED <<pending, directory, onchain, held, peer, again>>
  BY DEF KeysInv, RemovedInv, lock, rotation_refused, rotation_failed, rotation_returns,
     rpc_fails, crash, keyVars, disk, history, world, Idle
<1>2. job' \in Jobs /\ job'.op = "idle" /\ job'.dev = None
  BY <1>1 DEF Idle, Jobs
<1>3. DeviceTypes'
  BY <1>1, <1>2, DeviceTypesHold DEF DeviceTypes, keyVars
<1>4. RemovedInv'
  BY <1>1, <1>2, Bounds DEF KeysInv, RemovedInv, TypeOK
<1>5. ResolvedInv'
  BY <1>1, <1>2 DEF KeysInv, ResolvedInv, keyVars
<1>6. QED
  BY <1>1, <1>2, <1>3, <1>4, <1>5, DeviceSide

\* The two reads of the authorized set start a rotation or carry a removal on.
LEMMA ReadSet ==
  ASSUME KeysInv, read_authorized_set \/ read_set_after_removal
  PROVE  KeysInv'
<1>1. /\ UNCHANGED keyVars /\ active' = active
      /\ UNCHANGED <<pending, directory, onchain, held, peer, removed, again>>
  BY DEF read_authorized_set, read_set_after_removal, keyVars, disk, history, world
<1>2. onchain \subseteq Devices /\ job \in Jobs
  BY DEF KeysInv, TypeOK, Shapes
<1>3. CASE read_authorized_set
  <2>1. /\ job = Idle /\ Unlocked
        /\ job' = [op |-> "rotate", dev |-> None, set |-> onchain]
    BY <1>3 DEF read_authorized_set, Idle
  <2>2. job' \in Jobs /\ job'.op = "rotate" /\ job'.dev = None /\ job.dev = None
    BY <1>2, <2>1 DEF Jobs, Idle
  <2>3. DeviceTypes' /\ ResolvedInv'
    BY <1>1, <2>2, DeviceTypesHold DEF DeviceTypes, KeysInv, ResolvedInv, keyVars
  <2>4. RemovedInv'
    BY <1>1, <2>2 DEF KeysInv, RemovedInv
  <2>5. QED
    BY <1>1, <2>1, <2>2, <2>3, <2>4, DeviceSide DEF Unlocked
<1>4. CASE read_set_after_removal
  <2>1. /\ job.op = "removed"
        /\ job' = [op |-> "trigger", dev |-> job.dev, set |-> onchain]
    BY <1>2, <1>4 DEF read_set_after_removal, SetAfterRemoval, Jobs
  <2>2. job' \in Jobs /\ job'.op = "trigger" /\ job'.dev = job.dev /\ job'.set = onchain
    BY <1>2, <2>1 DEF Jobs
  <2>3. DeviceTypes' /\ ResolvedInv'
    BY <1>1, <2>2, DeviceTypesHold DEF DeviceTypes, KeysInv, ResolvedInv, keyVars
  <2>4. RemovedInv'
    BY <1>1, <2>1, <2>2 DEF KeysInv, RemovedInv
  <2>5. QED
    BY <1>1, <2>2, <2>3, <2>4, DeviceSide
<1>5. QED
  BY <1>3, <1>4

\* add_device_v2 and remove_device_v2 change the set on the chain and start a job.
LEMMA SetChange ==
  ASSUME KeysInv, NEW d \in Devices, add_device_v2(d) \/ remove_device_v2(d)
  PROVE  KeysInv'
<1>1. /\ UNCHANGED keyVars /\ active' = active /\ Unlocked /\ job = Idle
      /\ UNCHANGED <<pending, directory, held, peer, again>>
  BY DEF add_device_v2, remove_device_v2, keyVars, disk, history
<1>2. /\ onchain \subseteq Devices /\ removed \subseteq Devices
      /\ job.dev = None /\ None \notin Devices
  BY <1>1, Bounds DEF KeysInv, TypeOK, Idle
<1>3. CASE add_device_v2(d)
  <2>1. /\ job' = [op |-> "add", dev |-> d, set |-> {}]
        /\ onchain' = onchain \cup {d} /\ removed' = removed \ {d}
    BY <1>3 DEF add_device_v2, Idle
  <2>2. job' \in Jobs /\ job'.op = "add" /\ job'.dev = d
    BY <2>1 DEF Jobs
  <2>3. DeviceTypes' /\ ResolvedInv'
    BY <1>1, <1>2, <2>1, <2>2, DeviceTypesHold
    DEF DeviceTypes, KeysInv, ResolvedInv, keyVars
  <2>4. RemovedInv'
    BY <1>1, <1>2, <2>1, <2>2 DEF KeysInv, RemovedInv
  <2>5. QED
    BY <1>1, <2>2, <2>3, <2>4, DeviceSide DEF Unlocked
<1>4. CASE remove_device_v2(d)
  <2>1. /\ job' = [op |-> "removed", dev |-> d, set |-> {}]
        /\ onchain' = onchain \ {d} /\ removed' = removed \cup {d}
    BY <1>4 DEF remove_device_v2, Idle
  <2>2. job' \in Jobs /\ job'.op = "removed" /\ job'.dev = d
    BY <2>1 DEF Jobs
  <2>3. DeviceTypes' /\ ResolvedInv'
    BY <1>1, <1>2, <2>1, <2>2, DeviceTypesHold
    DEF DeviceTypes, KeysInv, ResolvedInv, keyVars
  <2>4. RemovedInv'
    BY <1>1, <1>2, <2>1, <2>2 DEF KeysInv, RemovedInv
  <2>5. QED
    BY <1>1, <2>2, <2>3, <2>4, DeviceSide
<1>5. QED
  BY <1>3, <1>4

\* process_device_removed_trigger queues the removed device: it is not in the set that
\* was read, unless somebody has added it again.
LEMMA TriggerStep == KeysInv /\ process_device_removed_trigger => KeysInv'
<1> SUFFICES ASSUME KeysInv, process_device_removed_trigger PROVE KeysInv'
  OBVIOUS
<1>1. /\ UNCHANGED keyVars /\ active' = active /\ job' = Idle /\ job.op = "trigger"
      /\ UNCHANGED <<directory, onchain, held, peer, removed, again>>
      /\ pending' = IF job.dev \in job.set THEN pending
                    ELSE [pending EXCEPT ![job.dev] = Queued(job.dev)]
  BY DEF process_device_removed_trigger, keyVars, history, world
<1>2. job' \in Jobs /\ job'.op = "idle" /\ job'.dev = None /\ None \notin Devices
  BY <1>1, Bounds DEF Idle, Jobs
<1>3. /\ pending \in [Devices -> {"none", "pending", "resolved"}]
      /\ job.dev \in Devices /\ removed \subseteq Devices
  BY <1>1 DEF KeysInv, TypeOK, RemovedInv
<1>4. Queued(job.dev) \in {"pending", "resolved"}
      /\ (Queued(job.dev) = "resolved" => pending[job.dev] = "resolved")
  BY <1>3 DEF Queued
<1>5. /\ pending' \in [Devices -> {"none", "pending", "resolved"}]
      /\ \A d \in Devices : pending'[d] = "none" => pending[d] = "none"
      /\ \A d \in Devices : pending'[d] = "resolved" => pending[d] = "resolved"
      /\ job.dev \notin job.set => pending'[job.dev] # "none"
  BY <1>1, <1>3, <1>4
<1>6. DeviceTypes' /\ ResolvedInv'
  BY <1>1, <1>2, <1>5, DeviceTypesHold DEF DeviceTypes, KeysInv, ResolvedInv, keyVars
<1>7. RemovedInv'
  BY <1>1, <1>2, <1>3, <1>5 DEF KeysInv, RemovedInv
<1>8. QED
  BY <1>1, <1>2, <1>6, <1>7, DeviceSide

\* Gets: a device whose removal was resolved and that is given VDKs again is marked.
LEMMA GetsStep ==
  ASSUME KeysInv, NEW d \in Devices, NEW vdks \in SUBSET Vdks, \A v \in vdks : v < minted,
         Gets(d, vdks),
         job.op = "resolve" => meta.vdk \notin vdks,
         UNCHANGED <<keyVars, pending>>
  PROVE  /\ held' \in [Devices -> SUBSET Vdks] /\ again' \subseteq Devices
         /\ \A e \in Devices : \A v \in held'[e] : v < minted
         /\ \A e \in Devices : pending[e] = "resolved" =>
              DOMAIN chain # {} /\ (mixed \/ e \in again' \/ meta.vdk \notin held'[e])
         /\ job.op = "resolve" => DOMAIN chain # {} /\ \A e \in Devices : meta.vdk \notin held'[e]
<1>1. /\ held \in [Devices -> SUBSET Vdks] /\ again \subseteq Devices
      /\ \A e \in Devices : \A v \in held[e] : v < minted
  BY DEF KeysInv, TypeOK, BelowMinted
<1>2. /\ held' = [held EXCEPT ![d] = held[d] \cup vdks]
      /\ again' = IF pending[d] = "resolved" THEN again \cup {d} ELSE again
  BY DEF Gets
<1>3. /\ held' \in [Devices -> SUBSET Vdks] /\ again' \subseteq Devices
      /\ \A e \in Devices : held'[e] = IF e = d THEN held[d] \cup vdks ELSE held[e]
  BY <1>1, <1>2
<1>4. QED
  BY <1>1, <1>2, <1>3 DEF KeysInv, ResolvedInv

\* The joining device receives the session's VDK.
LEMMA SealStep == KeysInv /\ seal_to_device => KeysInv'
<1> SUFFICES ASSUME KeysInv, seal_to_device PROVE KeysInv'
  OBVIOUS
<1>1. /\ UNCHANGED keyVars /\ active' = active /\ job' = Idle /\ job.op = "add"
      /\ UNCHANGED <<pending, onchain, peer, removed>>
      /\ Gets(job.dev, {active.vdk}) /\ directory' = directory \cup {job.dev}
  BY DEF seal_to_device, keyVars, history
<1>2. job' \in Jobs /\ job'.op = "idle" /\ job'.dev = None /\ None \notin Devices
  BY <1>1, Bounds DEF Idle, Jobs
<1>3. /\ job.dev \in Devices /\ directory \subseteq Devices /\ removed \subseteq Devices
      /\ active.vdk = meta.vdk /\ meta.vdk \in Vdks /\ meta.vdk < minted
  BY <1>1 DEF KeysInv, TypeOK, RemovedInv, SessionCurrent, Unlocked, BelowMinted
<1>4. /\ held' \in [Devices -> SUBSET Vdks] /\ again' \subseteq Devices
      /\ \A e \in Devices : \A v \in held'[e] : v < minted
      /\ \A e \in Devices : pending[e] = "resolved" =>
           DOMAIN chain # {} /\ (mixed \/ e \in again' \/ meta.vdk \notin held'[e])
  BY <1>1, <1>3, GetsStep
<1>5. DeviceTypes'
  BY <1>1, <1>2, <1>3, <1>4, DeviceTypesHold DEF DeviceTypes, keyVars
<1>6. ResolvedInv'
  BY <1>1, <1>2, <1>4 DEF ResolvedInv, keyVars
<1>7. RemovedInv'
  BY <1>1, <1>2, <1>3 DEF KeysInv, RemovedInv
<1>8. QED
  BY <1>1, <1>2, <1>5, <1>6, <1>7, DeviceSide

\* A pending row is resolved after a rotation whose VDK nobody has.
LEMMA ResolveStep ==
  ASSUME KeysInv, NEW d \in Devices, resolve_rotation_pending(d)
  PROVE  KeysInv'
<1>1. /\ UNCHANGED keyVars /\ active' = active /\ job' = job /\ job.op = "resolve"
      /\ UNCHANGED <<directory, onchain, held, peer, removed, again>>
      /\ pending' = [pending EXCEPT ![d] = "resolved"]
  BY DEF resolve_rotation_pending, keyVars, history, world
<1>2. /\ pending \in [Devices -> {"none", "pending", "resolved"}] /\ removed \subseteq Devices
  BY DEF KeysInv, TypeOK
<1>3. /\ pending' \in [Devices -> {"none", "pending", "resolved"}]
      /\ \A e \in Devices : pending'[e] = IF e = d THEN "resolved" ELSE pending[e]
  BY <1>1, <1>2
<1>4. DeviceTypes'
  BY <1>1, <1>3, DeviceTypesHold DEF DeviceTypes, keyVars
<1>5. ResolvedInv'
  BY <1>1, <1>3 DEF KeysInv, ResolvedInv, keyVars
<1>6. RemovedInv'
  BY <1>1, <1>2, <1>3 DEF KeysInv, RemovedInv
<1>7. QED
  BY <1>1, <1>4, <1>5, <1>6, DeviceSide

\* Another member adds a device and hands it what it holds itself, or removes one.
LEMMA PeerStep ==
  ASSUME KeysInv, NEW p \in Devices, NEW d \in Devices, peer_adds(p, d) \/ peer_removes(p, d)
  PROVE  KeysInv'
<1>1. /\ UNCHANGED keyVars /\ active' = active /\ job' = job
      /\ UNCHANGED <<pending, directory>> /\ peer' = peer + 1 /\ peer < MaxPeer
  BY DEF peer_adds, peer_removes, keyVars, disk, history
<1>2. /\ peer' \in 0..MaxPeer /\ held[p] \in SUBSET Vdks /\ \A v \in held[p] : v < minted
      /\ onchain \subseteq Devices /\ removed \subseteq Devices
      /\ job.op \in {"add", "rotate"} => active # NoSession
      /\ job.op = "resolve" => meta.vdk \notin held[p]
  BY <1>1, Bounds DEF KeysInv, TypeOK, BelowMinted, SessionCurrent, Unlocked, ResolvedInv
<1>3. CASE peer_adds(p, d)
  <2>1. /\ onchain' = onchain \cup {d} /\ removed' = removed \ {d} /\ Gets(d, held[p])
    BY <1>3 DEF peer_adds
  <2>2. /\ held' \in [Devices -> SUBSET Vdks] /\ again' \subseteq Devices
        /\ \A e \in Devices : \A v \in held'[e] : v < minted
        /\ \A e \in Devices : pending[e] = "resolved" =>
             DOMAIN chain # {} /\ (mixed \/ e \in again' \/ meta.vdk \notin held'[e])
        /\ job.op = "resolve" =>
             DOMAIN chain # {} /\ \A e \in Devices : meta.vdk \notin held'[e]
    BY <1>1, <1>2, <2>1, GetsStep
  <2>3. DeviceTypes'
    BY <1>1, <1>2, <2>1, <2>2, DeviceTypesHold DEF DeviceTypes, keyVars
  <2>4. ResolvedInv'
    BY <1>1, <2>2 DEF ResolvedInv, keyVars
  <2>5. RemovedInv'
    BY <1>1, <1>2, <2>1 DEF KeysInv, RemovedInv
  <2>6. QED
    BY <1>1, <1>2, <2>3, <2>4, <2>5, DeviceSide
<1>4. CASE peer_removes(p, d)
  <2>1. onchain' = onchain \ {d} /\ UNCHANGED <<held, removed, again>>
    BY <1>4 DEF peer_removes
  <2>2. DeviceTypes' /\ ResolvedInv'
    BY <1>1, <1>2, <2>1, DeviceTypesHold DEF DeviceTypes, KeysInv, ResolvedInv, keyVars
  <2>3. RemovedInv'
    BY <1>1, <2>1 DEF KeysInv, RemovedInv
  <2>4. QED
    BY <1>1, <1>2, <2>2, <2>3, DeviceSide
<1>5. QED
  BY <1>3, <1>4

-----------------------------------------------------------------------------
(* Steps that use or change the keys of the file.                          *)

deviceVars == <<job, pending, directory, onchain, held, peer, removed, again>>

\* An unlock reads the wrap in meta and seals the device key under that VDK.
LEMMA UnlockStep == KeysInv /\ unlock => KeysInv'
<1> SUFFICES ASSUME KeysInv, unlock PROVE KeysInv'
  OBVIOUS
<1> USE DEF KeysInv
<1>1. /\ active' = [vdk |-> meta.vdk, epoch |-> epoch] /\ deviceKey' = meta.vdk
      /\ UNCHANGED <<meta, epoch, chain, rows, escrow, backups, minted, mixed, stale>>
      /\ UNCHANGED deviceVars /\ job = Idle
  BY DEF unlock, history, world, deviceVars
<1>2. TypeOK' /\ Shapes'
  BY <1>1 DEF TypeOK, Shapes, deviceVars
<1>3. SessionCurrent'
  BY <1>1 DEF SessionCurrent, deviceVars, Idle
<1>4. BelowMinted' /\ EscrowCurrent' /\ RemovedInv' /\ ResolvedInv'
  BY <1>1 DEF BelowMinted, EscrowCurrent, RemovedInv, ResolvedInv, deviceVars
<1>5. UnlockOpensAll'
  BY <1>1 DEF UnlockOpensAll, KeysSurvive, KeyOf, DeviceKeyOpens, AnchorsOpen
<1>6. QED
  BY <1>2, <1>3, <1>4, <1>5

\* A new head is written under the session's VDK, which is the file's.
LEMMA WriteStep ==
  ASSUME KeysInv, NEW a \in Accounts, write(a)
  PROVE  KeysInv'
<1> USE DEF KeysInv
<1>1. /\ rows' = With(rows, a, active)
      /\ UNCHANGED <<meta, epoch, chain, deviceKey, escrow, active, backups, minted, mixed, stale>>
      /\ UNCHANGED deviceVars
  BY DEF write, history, world, deviceVars
<1>2. /\ active.vdk = meta.vdk /\ active.epoch = epoch
      /\ active \in [vdk : Vdks, epoch : Epochs]
  BY DEF write, Unlocked, SessionCurrent, TypeOK
<1>3. /\ DOMAIN rows' = {a} \cup DOMAIN rows /\ rows'[a] = active
      /\ \A b \in DOMAIN rows \ {a} : rows'[b] = rows[b]
  BY <1>1 DEF With
<1>4. TypeOK' /\ Shapes'
  BY <1>1, <1>2, <1>3 DEF TypeOK, Shapes, deviceVars
<1>5. SessionCurrent' /\ BelowMinted' /\ EscrowCurrent' /\ RemovedInv' /\ ResolvedInv'
  BY <1>1 DEF SessionCurrent, Unlocked, BelowMinted, EscrowCurrent, RemovedInv, ResolvedInv,
     deviceVars
<1>6. UnlockOpensAll'
  BY <1>1, <1>2, <1>3 DEF UnlockOpensAll, KeysSurvive, KeyOf, DeviceKeyOpens, AnchorsOpen
<1>7. QED
  BY <1>4, <1>5, <1>6

\* The guardians are given the session's VDK, and a backup the escrow's.
LEMMA EscrowStep ==
  ASSUME KeysInv, onboard_guardians \/ create_recovery_backup
  PROVE  KeysInv'
<1> USE DEF KeysInv
<1>1. /\ UNCHANGED <<meta, epoch, chain, rows, deviceKey, active, minted, mixed, stale>>
      /\ UNCHANGED deviceVars
      /\ active.vdk = meta.vdk /\ meta.vdk \in Vdks
  BY DEF onboard_guardians, create_recovery_backup, disk, history, world, deviceVars, Unlocked,
     SessionCurrent, TypeOK
<1>2. /\ SessionCurrent' /\ UnlockOpensAll' /\ RemovedInv' /\ ResolvedInv'
  BY <1>1 DEF SessionCurrent, Unlocked, RemovedInv, ResolvedInv, UnlockOpensAll, KeysSurvive,
     KeyOf, DeviceKeyOpens, AnchorsOpen, deviceVars
<1>3. CASE onboard_guardians
  <2>1. /\ escrow' = [vdk |-> meta.vdk, seal |-> meta.vdk, epoch |-> 0] /\ backups' = backups
    BY <1>1, <1>3 DEF onboard_guardians
  <2>2. escrow' \in [vdk : Vdks, seal : Vdks, epoch : 0..(MaxAuth + 1)]
    BY <1>1, <2>1, Bounds
  <2>3. TypeOK' /\ Shapes'
    BY <1>1, <2>1, <2>2 DEF TypeOK, Shapes, deviceVars
  <2>4. BelowMinted' /\ EscrowCurrent'
    BY <1>1, <2>1 DEF BelowMinted, EscrowCurrent, deviceVars
  <2>5. QED
    BY <1>2, <2>3, <2>4
<1>4. CASE create_recovery_backup
  <2>1. /\ backups' = backups \cup {[vdk |-> escrow.vdk, epoch |-> epoch, seal |-> escrow.epoch]}
        /\ escrow' = escrow /\ escrow # NoEscrow
    BY <1>4 DEF create_recovery_backup, EscrowReadable, disk
  <2>2. [vdk |-> escrow.vdk, epoch |-> epoch, seal |-> escrow.epoch] \in Backups
    BY <2>1 DEF TypeOK, Backups
  <2>3. TypeOK' /\ Shapes'
    BY <1>1, <2>1, <2>2 DEF TypeOK, Shapes, deviceVars
  <2>4. BelowMinted' /\ EscrowCurrent'
    BY <1>1, <2>1 DEF BelowMinted, EscrowCurrent, deviceVars
  <2>5. QED
    BY <1>2, <2>3, <2>4
<1>5. QED
  BY <1>3, <1>4

\* A recovery installs the backup's VDK; a file that holds anything under another VDK
\* is counted as mixed.
LEMMA RecoveryStep ==
  ASSUME KeysInv, NEW b \in backups, commit_recovery_rekey(b)
  PROVE  KeysInv'
<1> USE DEF KeysInv
<1>1. /\ meta' = [vdk |-> b.vdk, auth |-> meta.auth + 1] /\ meta.auth < MaxAuth
      /\ escrow' = [vdk |-> b.vdk, seal |-> b.vdk, epoch |-> b.epoch + 1]
      /\ active' = NoSession /\ job = Idle
      /\ UNCHANGED <<epoch, chain, rows, deviceKey, backups, minted>>
      /\ UNCHANGED deviceVars
  BY DEF commit_recovery_rekey, Rewrapped, RecoveryEscrow, world, deviceVars
<1>2. /\ mixed' \in BOOLEAN /\ stale' \in BOOLEAN
      /\ mixed' <=> mixed \/ (b.vdk # meta.vdk /\ (Contents \/ deviceKey # None))
      /\ stale' <=> stale \/ DOMAIN chain # {}
  BY Zenon DEF commit_recovery_rekey
<1>3. /\ b.vdk \in Vdks /\ b.epoch \in Epochs /\ b.vdk < minted
  BY DEF Shapes, Backups, BelowMinted
<1>4. /\ meta.auth \in 0..MaxAuth /\ epoch \in 0..MaxAuth /\ epoch <= meta.auth
      /\ meta.auth + 1 \in 0..MaxAuth /\ b.epoch + 1 \in 0..(MaxAuth + 1)
  BY <1>1, <1>3, Bounds DEF TypeOK, SessionCurrent, Epochs
<1>5. /\ meta' \in [vdk : Vdks, auth : 0..MaxAuth]
      /\ escrow' \in [vdk : Vdks, seal : Vdks, epoch : 0..(MaxAuth + 1)]
  BY <1>1, <1>3, <1>4
<1>6. TypeOK' /\ Shapes'
  BY <1>1, <1>2, <1>5 DEF TypeOK, Shapes, deviceVars
<1>7. SessionCurrent' /\ BelowMinted' /\ RemovedInv'
  BY <1>1, <1>3, <1>4 DEF SessionCurrent, BelowMinted, RemovedInv, deviceVars, Idle
<1>8. EscrowCurrent'
  BY <1>1 DEF EscrowCurrent
<1>9. CASE b.vdk = meta.vdk
  <2>1. UnlockOpensAll'
    BY <1>1, <1>2, <1>9 DEF UnlockOpensAll, KeysSurvive, KeyOf, DeviceKeyOpens, AnchorsOpen
  <2>2. ResolvedInv'
    BY <1>1, <1>2, <1>9 DEF ResolvedInv, deviceVars
  <2>3. QED
    BY <1>6, <1>7, <1>8, <2>1, <2>2
<1>10. CASE b.vdk # meta.vdk
  <2>1. mixed' \/ (DOMAIN rows = {} /\ DOMAIN chain = {} /\ deviceKey = None)
    BY <1>2, <1>10 DEF Contents
  <2>2. UnlockOpensAll'
    BY <1>1, <2>1 DEF UnlockOpensAll, KeysSurvive, DeviceKeyOpens, AnchorsOpen
  <2>3. ResolvedInv'
    BY <1>1, <2>1 DEF ResolvedInv, deviceVars, Idle
  <2>4. QED
    BY <1>6, <1>7, <1>8, <2>2, <2>3
<1>11. QED
  BY <1>9, <1>10

\* Joining another vault installs its VDK, likewise.
LEMMA JoinStep == KeysInv /\ install_paired_vdk => KeysInv'
<1> SUFFICES ASSUME KeysInv, install_paired_vdk PROVE KeysInv'
  OBVIOUS
<1> USE DEF KeysInv
<1>1. /\ meta' = [vdk |-> 1, auth |-> meta.auth + 1] /\ meta.auth < MaxAuth
      /\ deviceKey' \in {None, 1}
      /\ active' = NoSession /\ job = Idle
      /\ UNCHANGED <<epoch, chain, rows, escrow, backups, minted>>
      /\ UNCHANGED deviceVars
  BY DEF install_paired_vdk, Rewrapped, OtherVdk, Resealed, world, deviceVars
<1>2. /\ mixed' \in BOOLEAN /\ stale' \in BOOLEAN
      /\ mixed' <=> mixed \/ Contents \/ escrow # NoEscrow
      /\ stale' <=> stale \/ DOMAIN chain # {}
  BY Zenon DEF install_paired_vdk
<1>3. /\ meta.auth \in 0..MaxAuth /\ epoch \in 0..MaxAuth /\ epoch <= meta.auth
      /\ meta.auth + 1 \in 0..MaxAuth /\ 1 \in Vdks /\ 1 < minted
  BY <1>1, Bounds DEF TypeOK, SessionCurrent, Epochs, Vdks
<1>4. meta' \in [vdk : Vdks, auth : 0..MaxAuth]
  BY <1>1, <1>3
<1>5. TypeOK' /\ Shapes'
  BY <1>1, <1>2, <1>3, <1>4 DEF TypeOK, Shapes, deviceVars
<1>6. SessionCurrent' /\ BelowMinted' /\ RemovedInv'
  BY <1>1, <1>3 DEF SessionCurrent, BelowMinted, RemovedInv, deviceVars, Idle
<1>7. mixed' \/ (DOMAIN rows = {} /\ DOMAIN chain = {} /\ escrow = NoEscrow)
  BY <1>2 DEF Contents
<1>8. EscrowCurrent' /\ UnlockOpensAll'
  BY <1>1, <1>7 DEF EscrowCurrent, UnlockOpensAll, KeysSurvive, DeviceKeyOpens, AnchorsOpen
<1>9. ResolvedInv'
  BY <1>1, <1>7 DEF ResolvedInv, deviceVars, Idle
<1>10. QED
  BY <1>5, <1>6, <1>8, <1>9

\* A rotation demotes the VDK to the chain, where every head finds it, and installs a
\* VDK that nobody holds: everything is written in one transaction.
LEMMA RotationStep == KeysInv /\ commit_vdk_rotation => KeysInv'
<1> SUFFICES ASSUME KeysInv, commit_vdk_rotation PROVE KeysInv'
  OBVIOUS
<1> USE DEF KeysInv
<1> DEFINE retained == [vdk |-> active.vdk, auth |-> meta.auth + 1]
<1>1. /\ meta' = [vdk |-> minted, auth |-> meta.auth + 1] /\ meta.auth < MaxAuth
      /\ minted < MaxVdk /\ minted' = minted + 1 /\ epoch' = epoch + 1
      /\ chain' = With(chain, epoch, retained)
      /\ escrow' = [vdk |-> minted, seal |-> minted, epoch |-> epoch + 1]
      /\ deviceKey' \in {None, minted}
      /\ active' = NoSession
      /\ job.op = "rotate" /\ job' = [job EXCEPT !.op = "resolve"]
      /\ UNCHANGED <<rows, backups, mixed, pending, directory, onchain, held, peer, removed,
                     again>>
  BY DEF commit_vdk_rotation, Rewrapped, Retained, RotationEscrow, Resealed, world
<1>2. /\ stale' \in BOOLEAN /\ (stale' <=> stale \/ DOMAIN chain # {})
  BY Zenon DEF commit_vdk_rotation
<1>3. /\ active.vdk = meta.vdk /\ meta.vdk \in Vdks /\ meta.vdk < minted
  BY <1>1 DEF SessionCurrent, Unlocked, TypeOK, BelowMinted
<1>4. /\ meta.auth + 1 \in 0..MaxAuth /\ epoch + 1 \in 0..MaxAuth /\ epoch + 1 <= meta.auth + 1
      /\ epoch \in Nat /\ epoch + 1 \in 0..(MaxAuth + 1)
      /\ minted \in Vdks /\ minted \in Nat /\ minted + 1 \in 2..MaxVdk
  BY <1>1, Bounds DEF TypeOK, SessionCurrent, Epochs, Vdks
<1>5. retained \in [vdk : Vdks, auth : 0..MaxAuth]
  BY <1>3, <1>4
<1>6. /\ DOMAIN chain' = {epoch} \cup DOMAIN chain /\ chain'[epoch] = retained
      /\ \A e \in DOMAIN chain \ {epoch} : chain'[e] = chain[e]
      /\ DOMAIN chain \subseteq 0..(epoch - 1) /\ epoch \notin DOMAIN chain
  BY <1>1, <1>4 DEF With, TypeOK
<1>7. job' \in Jobs /\ job'.op = "resolve" /\ job'.dev = job.dev /\ job.dev = None
  BY <1>1 DEF Shapes, Jobs, RemovedInv
<1>8. TypeOK'
  <2>1. meta' \in [vdk : Vdks, auth : 0..MaxAuth]
    BY <1>1, <1>4
  <2>2. escrow' \in [vdk : Vdks, seal : Vdks, epoch : 0..(MaxAuth + 1)]
    BY <1>1, <1>4
  <2>3. /\ DOMAIN chain' \subseteq 0..(epoch' - 1)
        /\ \A e \in DOMAIN chain' : chain'[e] \in [vdk : Vdks, auth : 0..MaxAuth]
    BY <1>1, <1>4, <1>5, <1>6 DEF TypeOK
  <2>4. job'.op = "resolve" /\ job'.dev \in Devices \cup {None} /\ job'.set \subseteq Devices
    BY <1>7 DEF Jobs
  <2>5. QED
    BY <1>1, <1>4, <2>1, <2>2, <2>3, <2>4 DEF TypeOK, Epochs
<1>9. Shapes'
  BY <1>1, <1>2, <1>7 DEF Shapes
<1>10. SessionCurrent' /\ RemovedInv'
  BY <1>1, <1>4, <1>7 DEF SessionCurrent, RemovedInv
<1>11. BelowMinted'
  <2>1. \A v \in Vdks : v < minted => v < minted + 1
    BY <1>4, Bounds DEF Vdks
  <2>2. \A b \in backups : b.vdk \in Vdks
    BY DEF Shapes, Backups
  <2>3. \A d \in Devices : held[d] \subseteq Vdks
    BY DEF TypeOK
  <2>4. QED
    BY <1>1, <1>4, <2>1, <2>2, <2>3 DEF BelowMinted
<1>12. EscrowCurrent'
  BY <1>1 DEF EscrowCurrent
<1>13. ResolvedInv'
  <2>1. \A d \in Devices : minted \notin held[d]
    BY <1>4 DEF BelowMinted
  <2>2. QED
    BY <1>1, <1>6, <2>1 DEF ResolvedInv
<1>14. UnlockOpensAll'
  <2>1. DeviceKeyOpens'
    BY <1>1 DEF DeviceKeyOpens
  <2>2. ~stale' => AnchorsOpen'
    BY <1>1, <1>2, <1>6 DEF AnchorsOpen
  <2>3. ASSUME ~mixed, NEW a \in DOMAIN rows
        PROVE  KeyOf(rows[a].epoch)' = rows[a].vdk
    <3>1. KeyOf(rows[a].epoch) = rows[a].vdk /\ rows[a].vdk # None
      BY <2>3, Bounds DEF UnlockOpensAll, KeysSurvive, TypeOK
    <3>2. CASE rows[a].epoch = epoch
      BY <1>1, <1>3, <1>4, <1>6, <3>1, <3>2 DEF KeyOf
    <3>3. CASE rows[a].epoch # epoch
      <4>1. rows[a].epoch \in DOMAIN chain /\ chain[rows[a].epoch].vdk = rows[a].vdk
        BY <3>1, <3>3 DEF KeyOf
      <4>2. rows[a].epoch # epoch + 1
        BY <1>4, <1>6, <4>1
      <4>3. QED
        BY <1>1, <1>6, <3>3, <4>1, <4>2 DEF KeyOf
    <3>4. QED
      BY <3>2, <3>3
  <2>4. QED
    BY <1>1, <2>1, <2>2, <2>3 DEF UnlockOpensAll, KeysSurvive
<1>15. QED
  BY <1>8, <1>9, <1>10, <1>11, <1>12, <1>13, <1>14

-----------------------------------------------------------------------------
(* What the file promises.                                                 *)

\* Every operation on the file, every change by another device and every crash keep
\* the invariant.
LEMMA NextInv == KeysInv /\ [Next]_vars => KeysInv'
<1> SUFFICES ASSUME KeysInv, [Next]_vars PROVE KeysInv'
  OBVIOUS
<1>1. CASE UNCHANGED vars
  BY <1>1, DeviceSide, DeviceTypesHold
  DEF vars, disk, history, world, keyVars, DeviceTypes, KeysInv, RemovedInv, ResolvedInv,
      SessionCurrent, Unlocked
<1>2. CASE Next
  BY <1>2, JobOver, ReadSet, SetChange, TriggerStep, SealStep, ResolveStep, PeerStep,
     UnlockStep, WriteStep, EscrowStep, RecoveryStep, JoinStep, RotationStep DEF Next
<1>3. QED
  BY <1>1, <1>2

\* The invariant holds in every reachable state.
THEOREM KeysSafe == Spec => []KeysInv
  BY InitInv, NextInv, PTL DEF Spec

\* The tables have their types, and the chain never names the current epoch.
THEOREM TypeCorrect == Spec => []TypeOK
  BY KeysSafe, PTL DEF KeysInv

\* Rotation, recovery and onboarding leave the guardians with the VDK that the
\* password opens, and with shares that this VDK unseals.
THEOREM GuardiansCurrent == Spec => []EscrowCurrent
  BY KeysSafe, PTL DEF KeysInv

\* Every entry keeps its key and the device key stays readable, whatever the rotations
\* and crashes; the password opens all while no file with retained epochs was re-keyed.
THEOREM NothingLocksOut == Spec => []UnlockOpensAll
  BY KeysSafe, PTL DEF KeysInv

\* A removed device that holds the current VDK has its rotation pending.
THEOREM RemovalsArePending == Spec => []RemovedIsPending
<1>1. KeysInv => RemovedIsPending
  BY DEF KeysInv, TypeOK, RemovedInv, ResolvedInv, RemovedIsPending
<1>2. QED
  BY <1>1, KeysSafe, PTL

==============================================================================

------------------------------ MODULE VaultKeys ------------------------------
(***************************************************************************)
(* The keys of one vault file: the vault data key (VDK) wrapped under the  *)
(* password authority in `meta`, the retained VDKs of earlier epochs in    *)
(* `vdk_chain`, the sealed device key, the guardian escrow, backups, and   *)
(* the operations that re-key the file: rotation after a device removal,   *)
(* recovery from a backup, and joining another vault by pairing.           *)
(*                                                                         *)
(* A VDK is a number; so is a password authority: every re-key draws a     *)
(* fresh salt, hence a new authority, and the user knows the latest        *)
(* password.  Each database transaction is one step.  An operation that    *)
(* also talks to the chain is a sequence of steps under the vault mutex    *)
(* (`job`), during which only the other devices and a crash interfere.     *)
(***************************************************************************)
EXTENDS Integers, FiniteSets

CONSTANTS
  Devices,     \* the other devices that are ever paired
  Accounts,
  MaxVdk,      \* bound: VDKs in existence
  MaxAuth,     \* bound: re-keys of the file
  MaxPeer,     \* bound: device set changes by other devices
  MaxBackups   \* bound: backups

None == -1
OwnVdk == 0      \* the VDK minted by Vault::create
OtherVdk == 1    \* the VDK of another vault: the one that was lost, or the one joined

ASSUME VaultKeysAssumption ==
  /\ {MaxVdk, MaxAuth, MaxPeer, MaxBackups} \subseteq Nat
  /\ MaxVdk > OtherVdk
  /\ None \notin Devices

VARIABLES
  meta,       \* [vdk, auth]: the current VDK and the authority that wraps it
  epoch,      \* vdk_chain_state.current_epoch
  chain,      \* vdk_chain: epoch -> [vdk, auth]
  rows,       \* head revision of each account: account -> [vdk, epoch]
  deviceKey,  \* the VDK that seals the device_key row, or None
  escrow,     \* [vdk, seal, epoch]: VDK split, VDK that seals the shares, epoch bound
  pending,    \* rotation_pending: device -> "none", "pending" or "resolved"
  directory,  \* device_directory: the devices whose pairing key is known
  active,     \* the unlocked session's [vdk, epoch], or NoSession
  job,        \* the running operation
  onchain,    \* the other devices in the vault's RevisionLogV2 set
  backups,    \* recovery backups in the user's hands
  minted,     \* VDKs in existence
  peer,       \* device set changes by other devices so far
  held,       \* history: held[d], the VDKs sealed to device d
  mixed,      \* history: a VDK was installed that does not fit the file's contents
  stale,      \* history: a re-key met retained epochs
  removed,    \* history: devices last removed by a vault_remove_device that was not cut off
  again       \* history: devices given a VDK after their removal was resolved

disk == <<meta, epoch, chain, rows, deviceKey, escrow, pending, directory>>
history == <<mixed, stale>>
world == <<onchain, peer, held, removed, again>>
vars == <<disk, active, job, backups, minted, history, world>>

NoSession == [vdk |-> None, epoch |-> None]
NoEscrow == [vdk |-> None, seal |-> None, epoch |-> None]
Idle == [op |-> "idle", dev |-> None, set |-> {}]
Unlocked == active # NoSession

\* A table after INSERT OR REPLACE of row x.
With(table, x, row) ==
  [y \in {x} \cup DOMAIN table |-> IF y = x THEN row ELSE table[y]]

\* A new file, with or without a backup of another, lost vault.
Init ==
  /\ meta = [vdk |-> OwnVdk, auth |-> 0] /\ epoch = 0 /\ chain = << >>
  /\ rows = << >> /\ deviceKey = None /\ escrow = NoEscrow
  /\ pending = [d \in Devices |-> "none"] /\ directory = {}
  /\ active = NoSession /\ job = Idle
  /\ onchain = {} /\ peer = 0 /\ held = [d \in Devices |-> {}]
  /\ backups \in {{}, {[vdk |-> OtherVdk, epoch |-> 0, seal |-> 0]}}
  /\ minted = 2
  /\ mixed = FALSE /\ stale = FALSE /\ removed = {} /\ again = {}

(***************************************************************************)
(* Unlocking.                                                              *)
(***************************************************************************)

\* VdkChain::build_on_unlock: every retained anchor must open.
AnchorsOpen == \A e \in DOMAIN chain \ {epoch} : chain[e].auth = meta.auth

\* The key an entry of epoch e is read with; None when the chain lacks it.
KeyOf(e) ==
  IF e = epoch THEN meta.vdk
  ELSE IF e \in DOMAIN chain THEN chain[e].vdk ELSE None

\* build_active_state_data: an undecryptable head fails the unlock, one of an
\* epoch the chain lacks is left out of the cache.
HeadsOpen == \A a \in DOMAIN rows : KeyOf(rows[a].epoch) \in {None, rows[a].vdk}

DeviceKeyOpens == deviceKey \in {None, meta.vdk}

\* The first unlock registers the device and seals its key.
unlock ==
  /\ job = Idle /\ ~Unlocked
  /\ AnchorsOpen /\ HeadsOpen /\ DeviceKeyOpens
  /\ active' = [vdk |-> meta.vdk, epoch |-> epoch]
  /\ deviceKey' = meta.vdk
  /\ UNCHANGED <<meta, epoch, chain, rows, escrow, pending, directory, job,
                 backups, minted, history, world>>

lock ==
  /\ job = Idle /\ Unlocked
  /\ active' = NoSession
  /\ UNCHANGED <<disk, job, backups, minted, history, world>>

\* add_account, update_account, delete_account: a new head at the session's epoch.
write(a) ==
  /\ job = Idle /\ Unlocked
  /\ rows' = With(rows, a, active)
  /\ UNCHANGED <<meta, epoch, chain, deviceKey, escrow, pending, directory,
                 active, job, backups, minted, history, world>>

(***************************************************************************)
(* The guardian escrow and its backups.                                    *)
(***************************************************************************)

onboard_guardians ==
  /\ job = Idle /\ Unlocked
  /\ escrow' = [vdk |-> active.vdk, seal |-> active.vdk, epoch |-> 0]
  /\ UNCHANGED <<meta, epoch, chain, rows, deviceKey, pending, directory,
                 active, job, backups, minted, history, world>>

\* read_recovery_escrow opens the stored shares with the session's VDK.
EscrowReadable == escrow # NoEscrow /\ escrow.seal = active.vdk

\* The envelope names the vault's epoch, the shares are bound to the escrow's.
create_recovery_backup ==
  /\ job = Idle /\ Unlocked /\ EscrowReadable
  /\ Cardinality(backups) < MaxBackups
  /\ backups' = backups \cup {[vdk |-> escrow.vdk, epoch |-> epoch, seal |-> escrow.epoch]}
  /\ UNCHANGED <<disk, active, job, minted, history, world>>

(***************************************************************************)
(* Re-keying.                                                              *)
(***************************************************************************)

Rewrapped(vdk) == [vdk |-> vdk, auth |-> meta.auth + 1]

\* What the file holds under its present VDK, besides the escrow.
Contents == DOMAIN rows # {} \/ DOMAIN chain # {}

\* recover_from_shares: the guardians open the shares at the backup's epoch;
\* commit_recovery_rekey writes the new wrap and the re-split escrow.
RecoveryEscrow(b) == [vdk |-> b.vdk, seal |-> b.vdk, epoch |-> b.epoch + 1]

commit_recovery_rekey(b) ==
  /\ job = Idle /\ meta.auth < MaxAuth
  /\ b.epoch = b.seal
  /\ meta' = Rewrapped(b.vdk)
  /\ escrow' = RecoveryEscrow(b)
  /\ active' = NoSession
  /\ mixed' = (mixed \/ (b.vdk # meta.vdk /\ (Contents \/ deviceKey # None)))
  /\ stale' = (stale \/ DOMAIN chain # {})
  /\ UNCHANGED <<epoch, chain, rows, deviceKey, pending, directory, job,
                 backups, minted, world>>

\* pairing_open_and_join on the new device.
Resealed(vdk) == IF deviceKey = None THEN None ELSE vdk

install_paired_vdk ==
  /\ job = Idle /\ Unlocked /\ meta.auth < MaxAuth
  /\ meta' = Rewrapped(OtherVdk)
  /\ deviceKey' = Resealed(OtherVdk)
  /\ active' = NoSession
  /\ mixed' = (mixed \/ Contents \/ escrow # NoEscrow)
  /\ stale' = (stale \/ DOMAIN chain # {})
  /\ UNCHANGED <<epoch, chain, rows, escrow, pending, directory, job, backups,
                 minted, world>>

(***************************************************************************)
(* Adding and removing devices: a transaction, then local writes.          *)
(***************************************************************************)

Gets(d, vdks) ==
  /\ held' = [held EXCEPT ![d] = @ \cup vdks]
  /\ again' = IF pending[d] = "resolved" THEN again \cup {d} ELSE again

add_device_v2(d) ==
  /\ job = Idle /\ Unlocked /\ d \notin onchain
  /\ onchain' = onchain \cup {d}
  /\ removed' = removed \ {d}
  /\ job' = [Idle EXCEPT !.op = "add", !.dev = d]
  /\ UNCHANGED <<disk, active, backups, minted, history, peer, held, again>>

\* seal_vdk_for_new_device, record_device_directory_entry
seal_to_device ==
  /\ job.op = "add"
  /\ Gets(job.dev, {active.vdk})
  /\ directory' = directory \cup {job.dev}
  /\ job' = Idle
  /\ UNCHANGED <<meta, epoch, chain, rows, deviceKey, escrow, pending, active,
                 backups, minted, history, onchain, peer, removed>>

remove_device_v2(d) ==
  /\ job = Idle /\ Unlocked /\ d \in onchain
  /\ onchain' = onchain \ {d}
  /\ job' = [Idle EXCEPT !.op = "removed", !.dev = d]
  /\ removed' = removed \cup {d}
  /\ UNCHANGED <<disk, active, backups, minted, history, peer, held, again>>

\* Mutant: the set is the one before the removal.
SetBeforeRemoval == onchain \cup {job.dev}

\* read_authorized_set_v2, after the removal
SetAfterRemoval == onchain

read_set_after_removal ==
  /\ job.op = "removed"
  /\ job' = [job EXCEPT !.op = "trigger", !.set = SetAfterRemoval]
  /\ UNCHANGED <<disk, active, backups, minted, history, world>>

\* queue_rotation_pending is INSERT OR IGNORE.
Queued(d) == IF pending[d] = "none" THEN "pending" ELSE pending[d]

process_device_removed_trigger ==
  /\ job.op = "trigger"
  /\ pending' = IF job.dev \in job.set THEN pending
                ELSE [pending EXCEPT ![job.dev] = Queued(job.dev)]
  /\ job' = Idle
  /\ UNCHANGED <<meta, epoch, chain, rows, deviceKey, escrow, directory, active,
                 backups, minted, history, world>>

(***************************************************************************)
(* vault_complete_rotation.                                                *)
(***************************************************************************)

read_authorized_set ==
  /\ job = Idle /\ Unlocked
  /\ job' = [Idle EXCEPT !.op = "rotate", !.set = onchain]
  /\ UNCHANGED <<disk, active, backups, minted, history, world>>

\* resolve_survivors: the directory never names the device itself.
Survivors(set) == set \cap directory

Rotatable == Survivors(job.set) # {} /\ EscrowReadable

\* Mutant: the demoted VDK keeps its old wrap.
RetainedOldWrap == With(chain, epoch, [vdk |-> active.vdk, auth |-> meta.auth])

\* append_retained_and_advance_tx: the demoted VDK under the new authority.
Retained == With(chain, epoch, [vdk |-> active.vdk, auth |-> meta.auth + 1])

\* Mutant: the guardians keep the shares of the old VDK.
RotationEscrowKept(vdk) == escrow

\* rotate_vdk_for_survivors re-splits the fresh VDK at the next epoch.
RotationEscrow(vdk) == [vdk |-> vdk, seal |-> vdk, epoch |-> epoch + 1]

\* One transaction: meta, chain and pointer, escrow, device key.
commit_vdk_rotation ==
  /\ job.op = "rotate" /\ Rotatable
  /\ minted < MaxVdk /\ meta.auth < MaxAuth
  /\ meta' = Rewrapped(minted)
  /\ chain' = Retained
  /\ epoch' = epoch + 1
  /\ escrow' = RotationEscrow(minted)
  /\ deviceKey' = Resealed(minted)
  /\ minted' = minted + 1
  /\ active' = NoSession
  /\ stale' = (stale \/ DOMAIN chain # {})
  /\ job' = [job EXCEPT !.op = "resolve"]
  /\ UNCHANGED <<rows, pending, directory, backups, mixed, world>>

\* No survivor known, no escrow, or one the VDK does not open: nothing is written.
\* A failed commit has already taken the session's keys.
rotation_refused ==
  /\ job.op = "rotate" /\ ~Rotatable
  /\ job' = Idle
  /\ UNCHANGED <<disk, active, backups, minted, history, world>>

rotation_failed ==
  /\ job.op = "rotate" /\ Rotatable
  /\ active' = NoSession
  /\ job' = Idle
  /\ UNCHANGED <<disk, backups, minted, history, world>>

\* Pending rows whose signer is absent from the set that was read.
ToResolve == {d \in Devices \ job.set : pending[d] = "pending"}

resolve_rotation_pending(d) ==
  /\ job.op = "resolve" /\ d \in ToResolve
  /\ pending' = [pending EXCEPT ![d] = "resolved"]
  /\ UNCHANGED <<meta, epoch, chain, rows, deviceKey, escrow, directory, active,
                 job, backups, minted, history, world>>

rotation_returns ==
  /\ job.op = "resolve" /\ ToResolve = {}
  /\ job' = Idle
  /\ UNCHANGED <<disk, active, backups, minted, history, world>>

(***************************************************************************)
(* The environment.                                                        *)
(***************************************************************************)

\* Another member adds d and hands it the VDKs it holds itself.
peer_adds(p, d) ==
  /\ peer < MaxPeer /\ p \in onchain /\ d \notin onchain
  /\ onchain' = onchain \cup {d}
  /\ removed' = removed \ {d}
  /\ Gets(d, held[p])
  /\ peer' = peer + 1
  /\ UNCHANGED <<disk, active, job, backups, minted, history>>

peer_removes(p, d) ==
  /\ peer < MaxPeer /\ p \in onchain /\ d \in onchain
  /\ onchain' = onchain \ {d}
  /\ peer' = peer + 1
  /\ UNCHANGED <<disk, active, job, backups, minted, history, held, removed, again>>

\* An RPC error ends the operation; the session stays.
rpc_fails ==
  /\ job.op \in {"add", "removed"}
  /\ job' = Idle
  /\ removed' = removed \ {job.dev}
  /\ UNCHANGED <<disk, active, backups, minted, history, onchain, peer, held, again>>

crash ==
  /\ Unlocked \/ job # Idle
  /\ active' = NoSession /\ job' = Idle
  /\ removed' = removed \ {job.dev}
  /\ UNCHANGED <<disk, backups, minted, history, onchain, peer, held, again>>

Next ==
  \/ unlock \/ lock \/ \E a \in Accounts : write(a)
  \/ onboard_guardians \/ create_recovery_backup
  \/ \E b \in backups : commit_recovery_rekey(b)
  \/ install_paired_vdk
  \/ \E d \in Devices : add_device_v2(d) \/ remove_device_v2(d) \/ resolve_rotation_pending(d)
  \/ seal_to_device \/ read_set_after_removal \/ process_device_removed_trigger
  \/ read_authorized_set \/ commit_vdk_rotation \/ rotation_refused \/ rotation_failed
  \/ rotation_returns
  \/ \E p, d \in Devices : peer_adds(p, d) \/ peer_removes(p, d)
  \/ rpc_fails \/ crash

Spec == Init /\ [][Next]_vars

(***************************************************************************)
(* Properties.                                                             *)
(***************************************************************************)

Vdks == 0..(MaxVdk - 1)
Epochs == 0..MaxAuth

TypeOK ==
  /\ meta \in [vdk : Vdks, auth : 0..MaxAuth] /\ epoch \in Epochs
  /\ DOMAIN chain \subseteq 0..(epoch - 1)   \* never the current epoch
  /\ \A e \in DOMAIN chain : chain[e] \in [vdk : Vdks, auth : 0..MaxAuth]
  /\ DOMAIN rows \subseteq Accounts
  /\ \A a \in DOMAIN rows : rows[a] \in [vdk : Vdks, epoch : Epochs]
  /\ deviceKey \in Vdks \cup {None}
  /\ escrow \in [vdk : Vdks, seal : Vdks, epoch : 0..(MaxAuth + 1)] \cup {NoEscrow}
  /\ pending \in [Devices -> {"none", "pending", "resolved"}]
  /\ directory \subseteq Devices /\ onchain \subseteq Devices
  /\ active \in [vdk : Vdks, epoch : Epochs] \cup {NoSession}
  /\ job.op \in {"idle", "add", "removed", "trigger", "rotate", "resolve"}
  /\ job.dev \in Devices \cup {None} /\ job.set \subseteq Devices
  /\ held \in [Devices -> SUBSET Vdks]
  /\ minted \in 2..MaxVdk /\ peer \in 0..MaxPeer
  /\ removed \subseteq Devices /\ again \subseteq Devices

\* The guardians always hold the VDK the password opens, and that VDK opens the
\* stored shares: no rotation, recovery or crash leaves an older generation.
EscrowCurrent ==
  ~mixed /\ escrow # NoEscrow => escrow.vdk = meta.vdk /\ escrow.seal = meta.vdk

\* Each entry finds its key at the epoch it names, under one authority or another.
KeysSurvive == \A a \in DOMAIN rows : KeyOf(rows[a].epoch) = rows[a].vdk

\* Whatever was written under earlier VDKs, and after a crash at any point, the
\* file holds the key of every entry and the current VDK opens the device key;
\* until a file with retained epochs is re-keyed, the latest password opens all.
UnlockOpensAll == ~mixed => KeysSurvive /\ DeviceKeyOpens /\ (~stale => AnchorsOpen)

\* The comment on commit_vdk_rotation: one unlock opens every epoch.
OneUnlockOpensAll == ~mixed => AnchorsOpen

\* Once vault_remove_device has returned, the removal stays pending as long as
\* the removed device holds the current VDK.  (A device that was given the VDK
\* again after an earlier removal was resolved is not queued a second time.)
RemovedIsPending ==
  ~mixed => \A d \in removed \ (again \cup {job.dev}) : meta.vdk \in held[d] => pending[d] = "pending"
==============================================================================

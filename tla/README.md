# Pangolin: TLA+ models, model checks and proofs

Pangolin is a local-first password manager. A vault lives in an encrypted
SQLite file on each device; every edit is a signed *revision* that is announced
on a blockchain, from which the user's other devices pull it. Guardians can
move the authority over a vault to a new key after a veto window; a paid
service funds the device wallets. This directory holds TLA+ models of those
protocols, TLC configurations that check them on small instances, and TLAPS
proofs that extend the most important results to every value of the constants.
`PROJECT.json` maps each definition to the source lines it models.

## 1. Inventory

| Component | State | Operations | Talks to | Hard behaviour |
|---|---|---|---|---|
| `contracts/src/RecoveryV2.sol` (and V1, the same without the recipient commitment) | guardian set, vault authority, one recovery slot, approval mapping | setGuardianSet, initiateRecovery, approveRecovery, cancelRecovery, finalizeRecovery | read by RevisionLogV2; driven by recovery clients | guardian signatures are relayed late, twice, or in another attempt; finalize races cancel; the slot is reused |
| `contracts/src/RevisionLogV2.sol` (V0, V1: append-only predecessors) | device set + counter, manager, device nonce, pending promotion, sequence | bootstrapVault, publishRevision, addDevice, removeDevice, proposePromotion, finalizePromotion, cancelPromotion | reads RecoveryV1's authority at each manager check; its events are folded by readers | replayed signatures, removal of a promotion's candidate, recovery during a promotion, cap and floor of the set |
| `contracts/src/EntitlementRegistry.sol` | per-user balance and nonce | credit, redeem | the funder and the payment authority | credit and redeem share one strict nonce; expired and replayed attestations |
| `services/funder` | idempotency ledger (SQLite), rate-limit buckets | POST /v1/top-up, startup resume | EntitlementRegistry, the chain, device clients | a crash between an on-chain effect and its ledger write; lost responses and resends; concurrent requests with one attestation |
| `crates/pangolin-store` | accounts, revision DAG, heads, frozen flag, dirty markers, chain anchors, checkpoints, session, device registry, VDK chain, recovery escrow | account CRUD, publish queue, pull and ingest, fork resolution, rotation, lock/unlock, export | pangolin-chain adapter | two devices editing one account, crash between publish and marking, duplicated ingestion, stale heads, session expiry in the middle of an operation |
| `crates/pangolin-chain` | sync checkpoint, pending revisions, nonce cache, balance monitor | submit with retries, poll, reorg rollback, promotion of finalized revisions, websocket tail | EVM RPC nodes | reorgs, lost transaction responses, nonce races, finality |
| `crates/pangolin-core` | recovery orchestration, device add, rotation plans, pairing transport, guardian invites, password generator | state machines of the user-facing flows | store, chain, crypto | a flow interrupted between two durable steps; messages out of order |
| `crates/pangolin-indexer` | Noise-like handshake state, session counters | handshake, encrypt, decrypt | desktop app, extension | counters, replay, reordering |
| `crates/pangolin-crypto`, `-kdbx`, `-totp` | none (pure functions) | KDF, AEAD, signatures, Shamir, pairing; import formats; one-time codes | everyone | byte formats |
| `crates/pangolin-ffi`, `-funder-client` | handles, session tables | bindings; HTTP client of the funder | apps | session expiry between calls |
| `apps/cli`, `apps/desktop`, `apps/native-messaging-host`, `apps/extension`, `apps/component-library`, `apps/design-tokens`, `tools/*` | UI state, sync loop state | commands, IPC | FFI, store, chain | the sync loop's interleaving with user commands |

What makes each part correct, in one line each:

* recovery: the authority over a vault moves only where a quorum of guardians,
  endorsing one and the same attempt, wanted it, and only after the veto window;
* device log: only the current manager changes the device set, the set is never
  empty or above its cap, and a reader of the events computes the same set;
* registry: every unit of a balance is accounted for, no attestation counts twice;
* funder: no ETH without a debit, no debit twice, no payment stuck for ever;
* rate limiter: the limits hold and a refused request costs nothing;
* vault and sync: no edit is lost on its way to the chain, no foreign edit is
  merged unseen, and a command may be killed anywhere and run again;
* chain sync: the checkpoint covers what was fetched, an interrupted row is repaired,
  what a detected reorg removed is not made final, what earlier calls settled stays;
* sessions and capture authority: nothing guarded happens without a recent key
  press, after the session's deadline or beyond its ceiling, and no reveal returns
  what a write that reported success has replaced;
* keys, rotation, recovery, pairing: whatever re-keys the file, one password
  opens all of it, the guardians hold the current key, and a removed device
  stays queued until the key it knows is retired.

`PROJECT.json` lists the hazards line by line.

## 2. Modules

### RecoveryV2 (contracts/src/RecoveryV2.sol)

One vault of the recovery contract. `guardianSet`, `vaultAuthority`, `recovery`,
`hasApproved` are its storage. `opened` and `closed` are the RecoveryInitiated
and the RecoveryCanceled / RecoveryFinalized events. `signed` holds the Approve
signatures that exist off chain; any of them may be relayed at any time, by
anyone, any number of times. `now` is the block time. One action per external
function, plus `guardianSigns` (the guardians may endorse another authority or another
recipient than the attempt's; `Endorsements` says which) and `Tick`. A reverting call changes nothing and
is not a step. A Merkle root is the set of guardians it commits to, a signature
is the record of the fields it covers.

### RevisionLogV2 (contracts/src/RevisionLogV2.sol)

One vault of the device-set contract: `authorizedDevice` and its separately kept
counter, `deviceManager`, `deviceNonce`, `pendingPromotion`, `nextSequence`; the
event log `events` that clients fold; `auths`, the device-management signatures
that exist, each of one of the `Messages` with a nonce. The recovery contract appears as `vaultAuthority`, which may be set
at any time and move at any time, but is never unset (`RotateAuthority`).

### VaultAuthority

Both contracts on one clock, joined by the live read of the authority
(`_recoveryAuthority`). `ImplementsRevisionLog` shows that the composition
implements RevisionLogV2's specification, which discharges what that module
assumes about its environment.

### EntitlementRegistry and EntitlementRelay (contracts/src/EntitlementRegistry.sol)

EntitlementRegistry is the contract: one user's balance and nonce, `log` (the
Credited and Redeemed events), `credit` and `redeem`, which share the strict nonce,
and the balance bounded by the integer type. EntitlementRelay adds its callers: the
sets of Credit and Redemption attestations that exist, which anyone may relay.

### Funder (services/funder, crates/pangolin-chain/src/chain_submit.rs)

`top_up` inserts the ledger row; the task then redeems, records, transfers and
records. Steps are separated at the awaits. `broadcast_with_retries` and
`await_receipt` are the senders of chain_submit.rs: an answer may be lost after
the transaction was accepted, a receipt wait may time out, a retry uses the next
account nonce. `Mine` executes the wallet's transactions in order against the
registry of EntitlementRegistry, which the module extends, so there is one
definition of what the contract accepts. `Crash`, `Restart` and the resume task
(`ResumeAt`) follow resume.rs; `record_fails` is a failed SQLite write;
`Disconnect` is a handler dropped with its connection. A task that gives up writes
`eth_transfer_failed` (`mark_failed`); the code ignores the outcome of that write, so
it may fail silently, which leaves the task `unmarked` and the row in flight. A
redemption and an ETH transfer may both revert.

### RateLimiter (services/funder/src/rate_limit.rs)

`check` reads the clock once and then takes the per-address lock, the global
lock, and after a refusal the per-address lock again. Each critical section is
an action, so requests interleave between them and carry a time that may be old
when it is used. Buckets are collected when there are many. `admitted` counts
what was allowed to each address and `granted` what was allowed to all, counted
by the same step. `clock` is the monotonic clock (`Instant`), not the wall clock of
Funder; the module's own names carry `Limiter`, so that one module can extend both.

### VaultSync (pangolin-store/src/vault.rs, publish.rs; apps/cli/src/sync.rs)

One account of one vault file, the chain, and the commands. `rows`,
`superseded`, `account`, `dirty`, `stash`, `last_pulled` are the tables
`revisions`, `account_identities`, `dirty_accounts`, `pending_merges` and
`sync_state`; each action is one SQL transaction or one RPC call. `job` is the
command that holds the vault's lock file with its local variables (`pc`, the
listed markers, the chain view, the heads and the stash read before the pull).
`Kill` may end it between any two steps; an RPC error that makes the command
return is the same thing. A revision id is local and random or the canonical
hash of an event, which is written as the position of the first event with that
content. The AEAD is abstracted to what decides control: a row is `Readable` if
its nonce is not the placeholder. Every run signs with a new key, as the CLI's
commands do; the third idempotency check of `ingest_chain_revision` is therefore
modelled and never taken. Markers set in the same millisecond are taken in the
order of the edits. `pull` takes any `--from-block` and any
`--until-block`, above the checkpoint and above the head too. The command line's
`--dry-run`, which writes nothing, is not an action.

### ChainSync (pangolin-store/src/vault.rs; pangolin-chain/src/chain_sync)

Calls of `sync_from_chain` on one vault, V1 or V2, one after the other. `blocks`
is the canonical chain (a reorg truncates it and starts another `branch`, which
stands for the block hashes); `authorized` is RevisionLogV2's set. `rows` holds
what the columns of chain_sync say of each revision: block, observed hash,
pending or finalized, whether the recovered signer is stamped, revoked. Every
statement commits by itself, so insert, 'pending' stamp, signer stamp, rollback and
checkpoint are separate steps, and `Abort` may end the call between any two (a
kill, or any error). `sync` holds the call's local state: cursor, head, device
set read at the start, fetched logs, the reorg detector, and in the tail the
subscription and the breaker. `missed` is history: transactions that no later
call fetches, for a reason the model knows (a reorg put them below the
checkpoint, the gate refused them, the tail jumped over them, or their row was
rolled back at a height they had left for one that is fetched already).

Abstractions: one account, at most one event per block; the paged read of the
device set is one step; a subscription delivers the logs of blocks that a reorg
removes (`recv_removed`), whose `removed` flag the code does not look at; drops that
the pubsub layer repairs by itself appear as lost logs only; promotion and the checkpoint of one chunk are one step (promotion
cut off is repeated by the next call); the third idempotency check of
`ingest_chain_revision` does not arise.

### VaultKeys (pangolin-store: vault.rs, vdk_chain.rs, recovery_escrow.rs, device.rs; pangolin-core: composition.rs, rotation.rs; pangolin-ffi: pairing.rs, rotation_ffi.rs)

The keys of one vault file. `meta` is the current VDK and the authority (salt
and password) that wraps it; `chain` and `epoch` are `vdk_chain` and its
pointer; `rows` the head of each account with the VDK and epoch it was sealed
with; `deviceKey` the VDK that seals the device key; `escrow` the VDK that the
guardians' shares restore, the VDK that seals the stored shares and the epoch
they are bound to; `pending` and `directory` the rotation queue and the device
directory. A transaction is one step. The FFI calls that also use the chain
(`vault_add_device`, `vault_remove_device`, `vault_complete_rotation`) are
sequences of steps (`job`) under the vault mutex, during which other devices
change the set, an RPC fails or the process ends. The user knows the latest
password, so an anchor opens if its authority is `meta`'s.

`mixed` and `stale` mark the two situations that the properties exclude: a VDK
was installed over contents sealed with another (a recovery or a join of a file
in use), and a file with retained epochs was re-keyed (the finding of
section 6). Both are reachable; what the properties say holds until then.

### VaultSession (pangolin-store: session.rs, vault.rs, capture_authority.rs)

One vault handle against a clock. `session` is `session_state`; `keys`,
`presence` and `cache` are what `active` holds: the VDK, the time of the last
verification, the decrypted account. `idle` and `metaIdle` are the setting in
memory and on disk; `proofs` are the press-Y objects, which may be made at any
time and offered to any operation. Every operation runs under the handle's mutex
and is one step; it first checks freshness, and an overdue session becomes
expired there (`expire`). Operations with a presence proof record in `last` how
old the key press was and how long ago the session was opened; the properties
read it. One account and one capture context; the clock does not go back.

The account has a head pointer, a freeze flag and a set of leaves. A write commits
(`Commits`), then updates the search index, then the cache; it may return the index's
error in between (`IndexFails`), and a merge refreshes the cache only if it can read
its row back. `clear_frozen` moves the pointer and leaves the cache. An unlock of a
forked account caches the leaf with the largest id; ids are random, so that is any
leaf, and the pointer's revision where the leaf was sealed elsewhere (`Hydrated`).
Ingest and `clear_frozen` need no keys; they expire an overdue session and renew the
deadline of another (`Unguarded`). `replaced` is history: what writes that returned Ok
have replaced. The search index itself is not modelled.

### Proof modules and MC modules

`<module>Proofs` holds the theorems about `<module>`: RecoveryV2, RevisionLogV2,
VaultAuthority, Funder, ChainSync, VaultKeys, VaultSession and VaultSync have one.
FunderProofs extends Funder and RateLimiter and also holds the theorems about the
limiter and about the registry under all its callers (`Contract`, an instance of
EntitlementRelay). `MC<module>` gives model values, attestations or guardian
sets, and symmetry; the `.cfg` files give the bounds.

## 3. Runs

| Run | Question | Bounds and why they are enough |
|---|---|---|
| `recovery` | Can a signature, a cancel or a finalize act on an attempt other than its own? Does a quorum get its way? | 3 guardians with threshold 2, 2 authorities, 2 attempts, clock to 3 with a window of 2: a signature can outlive its attempt, meet the reused slot and expire, and finalize meets the boundary of the window. Four endorsements: two that agree, one of the wrong recipient and one of the wrong authority, each signed for any attempt; one guardian set within bounds and one beyond them |
| `device_log` | Do counter, set, manager, nonce and event log stay consistent? Does a promotion end? | 3 addresses against a cap of 2, so that cap, floor and re-adding happen; 4 signatures and nonces, so that a candidate is added, asks, is removed during its window and can be due (bootstrap, add, propose, remove, finalize); chosen messages, among them ones of the wrong signer; clock to 2 with a delay of 1, so that the due block can be missed |
| `vault_authority` | Does the composition implement the device log? Does the manager move only by quorum or promotion? | 2 addresses, 2 guardians, one attempt: the authority appears and rotates while a promotion is pending |
| `entitlement` | Do the books balance at the limits of the integer, with replays and expiry? | largest balance 3, two amounts, nonces and expiries around both limits |
| `funder` | No free ETH, no double debit, true terminal states, resumption | 3 Credits of which two compete for one nonce, 2 attempts per send, 4 transactions, 2 crashes, 1 failed write (also of the failure mark), reverting redemptions and transfers: crash, resume, crash again, resume again with a duplicate send |
| `rate_limit` | Rate and global bound, refunds | 2 addresses, 2 requests in flight, one disconnect of each address, bucket of 2, cap of 3, more than one window, so that full, empty, capped, collected and rolled over all occur |
| `vault_sync` | No lost marker, true anchors, no gap behind a pull from the checkpoint or below, edits at a leaf, no head merged unseen, one merge per retry | 4 ciphertexts, 3 events of which 1 foreign, 3 commands, chunks of 1 block: a command is killed, the next resumes, a foreign event lands in between; pulls from and to any block, existing or not |
| `chain_sync` | Does the checkpoint cover what was ingested, are interrupted rows repaired, is revocation complete, do detected orphans stay out and settled rows in, does the breaker count what it is told? | 3 blocks in chunks of 1 with confirmation depth 1, one own and one foreign transaction, a reorg of up to 2 blocks (deeper than finality, below the checkpoint, within a window that began above the checkpoint), one change of the device set, 2 calls: the second repairs what the first left; breaker threshold 2. The proofs of section 5 cover longer chains and larger chunks |
| `vault_keys` | Are password, device key, escrow and retained keys of one generation? Is a removal pending until its key is retired? | 2 other devices, 1 account, 3 re-keys, 4 VDKs (own, foreign, two rotations), 1 backup, 2 set changes by others: rotate, write, remove again, recover, in any order and cut off anywhere |
| `vault_session` | Can a guarded operation escape the key press, the deadline or the ceiling? Does a reveal return what was replaced? | freshness 1, ceiling 3, windows 1 and 2 and until-lock, clock to 4: each limit can be met, passed by one and renewed; one proof object, which every key press makes anew; 3 revisions, so that an edit meets a fork, is merged and replaced; 2 components |
| `funder_twice`, `keys_unlock` | findings, section 6 | as `funder` (slightly larger) and as `vault_keys` |

Deadlock is not checked in these runs: all clocks, nonces, events and commands
are bounded, so every behaviour of an instance ends (and in `vault_keys` a file
that no password opens really is the end); what must happen is stated as
liveness instead.

The runs list the properties that could fail for an interesting reason. The type
invariant `TypeOK` of every module holds at the same bounds. It is proved for every
module that states one, as are smaller invariants of RecoveryV2 and RevisionLogV2
that the listed ones rest on (section 5).

Each property of a passing run has a mutant in `PROJECT.json`: a change of one
mapped definition, of the kind a mistake in the code would be, under which TLC
finds the property violated.

## 4. Fairness

Liveness is checked in three runs, each under the least the code's environment
gives it.

* `QuorumResolves`: weak fairness of the clock and of `finalizeRecovery`, a call
  anyone may submit once it is due. `cancelRecovery` and the guardians are not
  fair.
* `PromotionResolves`: weak fairness of the clock and of `finalizePromotion`,
  open to any caller.
* `InFlightResolves`: weak fairness of each task (the async runtime schedules
  it), of mining, and of `Restart` (the service manager). Crashes, lost answers
  and failed writes are bounded but not otherwise restricted. No fairness on
  clients: nobody needs to send the request again.

## 5. What is proved

TLAPS proves, for every value of the constants:

* **RecoveryV2Proofs**: TypeOK, ApprovalsCountDistinct,
  ApprovalsEndorseAttempt, ClosedOnce, RotationsEarned, AuthorityFollowsLog, each
  as `Spec => []Inv`. None is inductive alone. The invariant `RecoveryInv` adds
  `SlotMirrorsLog`: the one recovery slot is always the last opening event, and
  is pending exactly while no closing names it. That is what ties the counter
  (reset in the slot) to the approval mapping (never reset), and a closing to the
  attempt whose quorum it claims. The proof goes: the logs only grow (LogsGrow),
  so an endorsement once given stays (EndorsedStays); an approval endorses the
  attempt in the slot (EndorseStep); hence the counter is the number of
  endorsers (CountStep); a closing happens at most once per attempt and carries
  the slot's content (ClosingStep); the theorems follow. It needs the
  assumptions of `RecoveryAssumption` only: finite guardian sets and `NoAddr`
  not an address.
* **RevisionLogV2Proofs**: TypeOK, CountIsSetSize, ManagerIsMember,
  NoncesConsumedOnce, EventsExplainSet, PromotionsEarned as invariants and
  SetChangesAuthorized as an action property. The inductive invariant `LogInv`
  adds three parts the contract relies on silently: the set is finite; nothing is
  set before bootstrap (`Unbooted`, which makes the counter's start at 1 right);
  and the pending slot mirrors the last promotion event (`PendingMirrorsLog`), without which
  `readyAt` would say nothing about when the candidate asked. The argument: each
  contract step emits exactly one event that tells its effect (EventStep); the
  reader's fold is stable on prefixes (ReplayPrefix) and advances with the
  appended event (ReplayStep); the parts follow one by one. Assumption:
  `RevisionLogAssumption`.
* **VaultAuthorityProofs**: the composition implements RevisionLogV2's
  specification (`Spec => ImplementsRevisionLog`), so the theorems above hold
  for the two contracts together, and ManagerMovesByQuorum. `AuthorityInv` says
  what the recovery contract guarantees: the authority exists exactly from the
  guardian set on, a pending attempt names a real address, and no closing event
  names a pending attempt (so the closing of a finalize is a new event).

* **FunderProofs**: TypeOK, NoFreeEth, DebitedOnce, DeliveredIsTrue. The properties
  speak of transactions and rows, but what survives a crash is the row alone, so
  the inductive invariant `FunderInv` says for every state of a row (`LedgerOk`),
  every place of a task (`TaskOk`) and every transaction of the wallet (`TxOk`)
  what has already happened on chain. `Booked` and `Delivered` are never taken
  back (StaysKnown), which is why a resumed task may trust a row
  that another process wrote, and why a task that failed to mark its row does no harm. One redemption of a Credit passes because every one
  that is sent carries the Credit's nonce, or nonce 0 after the booking, and the
  registry's nonce only grows (`NonceInv`). Assumption: Credits are records of
  naturals, the limits are naturals, at least one attempt per send.
* **FunderProofs, the registry** (`Contract!Spec`): TypeOK (no overflow or underflow),
  LogAccounts and NonceRatchet, from their conjunction `RegistryInv`, whose one
  interesting step is `BookStep`: appending an event keeps the books.
* **FunderProofs, the rate limiter** (`LimiterSpec`): LimiterTypeOK, NoTokenLeak, GlobalBound,
  ThrottledToRate. A token between two locks is in nobody's bucket, so `LimiterInv`
  counts it with the request that holds it (`HeldStep`). `RateInv` ties the three
  places of a token (bucket, request, admission) to the replenishment clock of the
  bucket: what an address was given beyond one full bucket, times the interval, is
  not more than that clock has booked; the division of the code loses only
  fractions, which the clock keeps. `WindowInv` says that the windows before the
  current one were at most full: a window is opened at a time some request read,
  at least one window after the last, so an old time opens none. Assumption:
  `LimiterAssumption` (positive interval and window, finitely many requests in
  flight).
* **ChainSyncProofs**: TypeOK, CheckpointCovers, UnstampedIsAhead,
  NoUnderRevocation, BreakerTrips, OrphansStayOut as invariants; SettledStays as an
  action property. `SyncInv` follows each block of the running chunk: it is
  `Settled`, or its event is still in `todo`, or it is the one being stamped
  (`ChunkInv`), so that moving the checkpoint to the end of the chunk keeps
  `CoverInv`. The chain may be reorganised between the fetch and any later step,
  therefore what a call has fetched or seen is only `Stable`: still canonical, or
  replaced by a reorg after which the events up to the call's head count as
  missed. Without this the rollback of a chunk could remove rows of blocks below
  the checkpoint that the invariant could not account for; finding it turned up
  the displaced rows of section 7, which the model now records. A row is `Complete`
  only with both stamps. `GoneInv` says that what the call still holds (fetched logs,
  removed logs, the event being stamped) is none of the blocks a detection has
  found off the chain, because branches only get younger; `StartInv` keeps
  everything the detector remembers above the call's start, so that a rollback
  window, which spans two remembered blocks, does not reach below it. The breaker's
  count is tied to the subscriptions tried (`BreakerInv`) also for
  subscriptions that open and are closed without an event. Assumptions: positive chunk size, depth and threshold;
  every transaction has one sender.
* **VaultKeysProofs**: TypeOK, EscrowCurrent, UnlockOpensAll, RemovedIsPending.
  `KeysInv` adds that an unlocked session has the file's own VDK and epoch
  (`SessionCurrent`: each re-key ends the session), that nobody holds a VDK that
  is not minted yet (`BelowMinted`, so a rotation's VDK is new to the removed
  device), that a removal is queued once its job is over (`RemovedInv`), and that
  it is resolved only by a rotation (`ResolvedInv`). Assumption: the bounds are
  naturals that allow both initial VDKs, and `None` is no device.
* **VaultSessionProofs**: TypeOK, NearGesture, UnderCeiling, NotAfterLapse as
  invariants, NotReplaced as an action property. Each speaks of the last guarded
  operation only; `SessionInv` adds how the fields of a session hang together: the
  deadline is under the ceiling counted from the unlock and a lapse shows in it
  (`DeadlineInv`), the remembered presence is at most one window younger than the
  key press (`PresenceInv`, hence two windows in NearGesture), and what a
  successful write has replaced is neither the head nor a leaf of a live account and,
  unless a merge's refresh failed, not cached (`StoreInv`: the cache may lag behind the
  disk, but only over revisions that no successful write has replaced). Assumption: times are
  naturals and every idle window is shorter than until-lock.
* **VaultSyncProofs**: TypeOK, HeadIsQueued, EditsExtendLeaf, AnchorsTrue and
  OneMergePerHead as invariants, PullKeepsCovered and FreezeLiftedKnowingly as
  action properties. `SyncInv` has a part for the file and the chain (`FileInv`) and
  one for the command (`CommandInv`); a kill leaves the first and forgets the
  second, which is why a later command can start from any state. `CommandInv` says
  for each place of a command what is still true of the values it read before an
  await: the event behind `anchor` is the one signed for the entry being marked, and
  the marker goes only once the row has its anchor (`MarkInv`); what a chunk that
  starts at or below the checkpoint has fetched up to its cursor is covered (`PullInv`); the stash read before the pull is
  still that of the chosen head, and no head has appeared since the decision that
  the resolution does not know (`ResolveInv`). `FileInv` adds that ids are fresh
  (`ParentsInv`: a new local id is nobody's parent, so an edit takes away only the
  head it extends) and that a published merge is the stashed one as long as its head
  can be resolved again (`MergeInv`, without which a retry could publish another).
  The lemmas behind the steps: a growing chain leaves canonical ids as they were
  (CanonicalStays), and a row that is no head never becomes one (HeadsShrink).
  Assumption: `SyncAssumption`, of which the chunk size is positive.

The bounds of the runs (clock, blocks, crashes, re-keys, commands) are constants
too, so the theorems hold for any number of each.

Only model-checked: liveness (QuorumResolves, PromotionResolves, InFlightResolves),
because fairness and ENABLED are outside the prover's reach. Every other property
of the runs is a theorem. GlobalBound is stated with the counter `granted`; that
the counter is the sum of `admitted` holds because one step increments both, and is
not a theorem, since a sum over the addresses is defined by recursion over data.

## 6. Findings

Runs marked "violation" in `PROJECT.json`; each quotes the sentence that it
refutes.

1. `funder_twice`: one Credit can pay a device twice: after a crash between the
   receipt of the ETH transfer and the ledger write, or after a lost send answer.
2. `keys_unlock`: a rotation re-wraps only the epoch it demotes. After a second
   rotation, or a recovery of a vault that has rotated, the older anchors are
   still under the previous password, `build_on_unlock` fails on them, and no
   password opens the vault. `UnlockOpensAll` shows that everything opens until
   that happens.

## 7. Observations without a run

Met while modelling; each follows from the definitions mapped to the lines named.

* RevisionLogV2: a candidate removed during its window keeps the promotion slot;
  only the manager can free it (RevisionLogV2.sol:737). A promotion finalized
  while a recovery authority exists has no effect on who manages.
* EntitlementRegistry: credit and redeem share the nonce, so a Credit attestation
  and the Redemption derived from it cannot both be booked; the funder's nonce
  is right only while credits are booked elsewhere, earlier.
* RateLimiter: a collected bucket comes back full, so an address that waits for
  the collection gets a fresh burst (`ThrottledToRate` is stated for addresses
  never collected).
* Funder: a row can stay in `pre_redeem` although the user was debited, because it
  leaves that status only once `submit_redemption_v1` has its receipt; ledger.rs:
  505-507 says such a redemption "was never broadcast". Nobody resumes the row and
  a retry is refused with 409. `InFlightResolves` therefore speaks of the rows that
  a restart resumes.
* Funder: the write that marks a failed payment is `let _ = ...` (resume.rs:84-86,
  top_up.rs:364-367). If it fails, the row stays in flight and no operator sees it
  until the next restart resumes it; `InFlightResolves` names this exception.
* CLI resolve: the end of `resolve_one` moves the checkpoint to its merge's block
  (sync.rs:947), over events of other devices that landed after its pull;
  `PullKeepsCovered` holds for the pulls only.
* CLI resolve: a resumed `resolve_one` (step 4a, sync.rs:719) lifts the freeze over
  a head its own pull has just ingested, although the comment at 682-684 says it
  cannot; `FreezeLiftedKnowingly` holds for the runs that publish their merge.
* CLI resolve: a pull between a killed `resolve_one` and its retry demotes the
  target head and prunes its stash (sync.rs:266), although 600-601 says the stash
  stays available; the account stays frozen.
* CLI publish: the A3 check cannot match an event of an earlier run, because each
  run signs with `DeviceKey::generate()` (commands/publish.rs:80); a kill between
  publish and mark_published leads to a second event.
* CLI resolve: the head left by a resolution is the ingested merge row, whose
  nonce is the placeholder, although vault.rs:11061-11062 says the resolve flow
  keeps the head at "a leaf this device can decrypt"; its `is_tombstone` is 0
  although THREAT_MODEL.md:625 says it is 1.
* CLI pull: `--from-block` more than one chunk below the checkpoint always ends
  in an error of advance_last_pulled_block. A `--from-block` above the checkpoint
  skips the blocks in between and `--until-block` above the head asks for blocks
  that do not exist yet; the checkpoint moves over both (sync.rs:142-152, 251-253),
  and no later pull without the flag fetches them. `PullKeepsCovered` is stated for
  the other pulls.

* Chain sync, rollback: it deletes the row and leaves
  `account_identities.head_revision_id` (vault.rs:8082; the comment at 8054-8056
  says the pointer goes with it). It also deletes a pending row that this device
  published itself, and canonical rows that lie between two orphaned blocks, since the
  window is one range.
* Chain sync, replay: a call from the genesis stamps finalized rows 'pending' again
  (8157-8172), and a rollback of that call may then delete them;
  docs/architecture/chain-sync.md:257-258 says that finalized revisions are "NEVER
  touched". `SettledStays` holds for calls that continue from the checkpoint.
* Chain sync, missing blocks: the comment of `detect_reorg` (chain_sync/reorg.rs:78-81)
  says that a block the node does not have is "silently skipped"; the code takes it
  for orphaned. `OrphansStayOut` and the model follow the code.
* Chain sync, breaker: an endpoint that accepts and drops again and again is not given
  up, because the pubsub layer reconnects by itself and reports no close
  (vault.rs:9947-9964, chain-sync.md:173-205). `BreakerTrips` is about failed opens and
  reported closes.
* Chain sync, removed logs: the tail ingests the log of a block that has left the chain,
  because `verify_alloy_log` does not look at its `removed` flag.
* Chain sync, checkpoint: it advances after a rollback too, so an event that the new
  branch has below it is not fetched again (chain-sync.md:253 has the next sync
  record it); the same with an `until_block` above the head. A reorg after the call is
  never noticed, because the detector lives as long as the call: its pending rows are
  promoted by a later call. The tail moves it over
  events that the subscription lost. An event refused by the gate is not fetched
  when its device is authorised again. These are the cases `missed` collects, and
  `CheckpointCovers` excludes.
* Chain sync, displaced rows: a reorg moves a transaction whose row is pending to a
  lower height. When it is fetched there, the exact-hash check answers
  AlreadyPresent without moving the row (vault.rs:7256-7268) and the stamp, which
  goes by anchor, matches nothing (8160-8180). The row keeps its old height, and a
  rollback, which goes by the recorded height (8071-8090), deletes it although its
  event is on the chain at or below the checkpoint; no later call fetches it.
  `missed` records these too, and `CheckpointCovers` names them.
* Chain sync: the retroactive pass revokes this device's own published row as long
  as it has no recovered signer; `from_genesis` with a checkpoint beyond the first
  chunk ends in an error.
* Keys, rotation: a device is never in its own directory, so after the removal of
  the only other device there is no survivor and the rotation is refused, although
  rotation.rs says the driving device is always one. A crash after the commit and
  before the queue is resolved invites a second rotation (finding 2). The survivor
  seals are dropped and `consume_survivor_seal` has no caller.
* Keys, queue: it is INSERT OR IGNORE, so a device that is added and removed again
  is not queued a second time, and a crash between the transaction and the queue
  leaves the removal unqueued (`RemovedIsPending` says so in its exceptions).
* Keys, recovery: on a file that was ever unlocked, recovering another vault's VDK
  leaves the device key sealed under the old one, and unlock fails; recovering from
  a backup older than a rotation brings the retired VDK back. A backup names the
  vault's epoch while its shares are bound to the escrow's; after a recovery, or
  guardians set up after a rotation, the two differ and the backup cannot be used.
* Keys, epochs: `read_identity_at` decrypts with the current VDK only; rows of
  `ingest_chain_revision` carry epoch 0; `vault_add_device` seals at the constant
  epoch 0; a join leaves the joining file's escrow and chain in place.
* Keys: a failed rotation commit leaves a session that is active and has no keys
  (modelled in both modules). The recovery recipient's secret is sealed under the
  VDK and is unreadable after a rotation.
* Session, idle setting: shortening it skips the freshness check and gives a lapsed
  session a new deadline (`revived` in VaultSession), although the doc of
  `set_session_idle` promises SessionExpired.
* Session, cache: it lags behind the disk in cases `NotReplaced` leaves open. After
  `clear_frozen` (vault.rs:3434-3547) a reveal shows what was cached before, not the
  chosen leaf. A write whose search-index update fails behind its commit (3090, 3209,
  5788) reports an error, and the old revision, or the deleted account, stays readable
  until the next unlock or successful write. A merge that cannot be read back (6509)
  reports success and leaves the cache, which `unsynced` marks. After a clear_frozen to
  a foreign leaf and an edit, the account is unfrozen and forked, and the next unlock
  may cache the older leaf, by its random id.
* Session, idle deadline: ingest and `clear_frozen` end with `touch_session`, so a sync
  in the background keeps a session open, up to the ceiling.
* Session: keys stay in memory after the deadline until the next call; operations
  that only use `require_active` (guardian set-up, backup, pairing, rotation) work
  on a lapsed session; clearing and registering a capture authority avoids the
  presence check of a replacement; an archive export includes frozen accounts; a
  clock that is set back keeps proofs and sessions fresh.

## 8. Not modelled, and the plan

Not modelled for good: cryptographic primitives, KDBX and TOTP parsers (byte
computations), SQL schema and encodings, user interfaces, most bindings, operator
tools, superseded contracts. Most of the repository's lines are of these kinds,
or tests; the models cover the parts with state and order.

Left out of the modelled parts: several accounts and the content of the search index; accounts
that need a newer build; promotions driven by the FFI (the contract side is
modelled); the recipient secret and attempt bookkeeping of a running recovery.

Planned, in this order:

1. Liveness of ChainSync (every call returns): the liveness check is slow at the
   bounds above, and smaller ones lose the deep reorg.
2. Recovery orchestration and pairing transport: interrupted flows; refinement
   to RecoveryV2's actions.
3. Indexer handshake and record counters; balance monitor; sync status and the
   background loop.

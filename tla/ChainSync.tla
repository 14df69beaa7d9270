------------------------------ MODULE ChainSync ------------------------------
(***************************************************************************)
(* One call of Vault::sync_from_chain after the other, on one vault, while *)
(* the chain grows and reorganises: chunked polling up to the head,        *)
(* pending and finalized revisions, the reorg detector, the checkpoint,    *)
(* the websocket tail, and for a V2 vault the honor gate with the          *)
(* retroactive revocation pass.                                            *)
(*                                                                         *)
(* The store commits every statement by itself, so a call may end between  *)
(* any two writes (Abort): the process is killed, or an RPC or the store   *)
(* fails and the call returns the error.  All revisions belong to one      *)
(* account; a block carries at most one of its events.  A block hash is    *)
(* the branch the block belongs to: a reorg starts a new branch.           *)
(***************************************************************************)
EXTENDS Integers, Sequences, FiniteSets, Functions

CONSTANTS
  Txs,            \* publish transactions
  OwnTx,          \* the one this device sends
  NoTx,           \* the content of an empty block
  Devices,
  Sender,         \* Sender[tx], the signer of the transaction
  CHUNK,          \* CHAIN_SYNC_LOG_BLOCK_CHUNK
  DEPTH,          \* CONFIRMATION_DEPTH_FOR_FINALIZATION
  THRESHOLD,      \* WS_CIRCUIT_BREAKER_THRESHOLD
  MaxHeight,      \* bound: blocks
  MaxReorgs,      \* bound: reorgs
  MaxReorgDepth,  \* bound: blocks a reorg removes
  MaxSetChanges,  \* bound: changes of the device set
  MaxCalls        \* bound: calls of sync_from_chain

ASSUME ChainSyncAssumption ==
  /\ OwnTx \in Txs /\ NoTx \notin Txs
  /\ Sender \in [Txs -> Devices]
  /\ CHUNK \in Nat \ {0} /\ DEPTH \in Nat \ {0} /\ THRESHOLD \in Nat \ {0}
  /\ {MaxHeight, MaxReorgs, MaxReorgDepth, MaxSetChanges, MaxCalls} \subseteq Nat

VARIABLES
  blocks,      \* the canonical chain: a sequence of [branch, tx]
  branch,      \* the number of reorgs so far
  authorized,  \* the V2 contract's live device set
  changes,     \* the number of set changes so far
  sent,        \* whether this device has sent OwnTx
  version,     \* meta.revisionlog_version
  rows,        \* revisions: id -> [block, branch, status, signed, revoked]
  head,        \* account_identities.head_revision_id
  devices,     \* signers in the devices table
  checkpoint,  \* last_synced_block of the version's own table
  calls,       \* calls so far
  sync,        \* the running call
  missed       \* history: transactions no later call will fetch

chainVars == <<blocks, branch, authorized, changes, sent>>
storeVars == <<rows, head, devices, checkpoint>>
vars == <<chainVars, version, storeVars, calls, sync, missed>>

Own(tx) == <<"own", tx>>
Chain(tx) == <<"chain", tx>>
NoHead == <<"none", NoTx>>

\* A row as INSERT leaves it: status has its column default, nothing observed.
Row(block) == [block |-> block, branch |-> -1, status |-> "finalized",
               signed |-> FALSE, revoked |-> FALSE]

Log(b) == [block |-> b, branch |-> blocks[b].branch, tx |-> blocks[b].tx]
NoLog == [block |-> 0, branch |-> 0, tx |-> NoTx]

\* The block hashes that the detector has recorded: block -> branch.
NothingSeen == [b \in {} |-> 0]

Idle == [pc |-> "idle", cursor |-> 0, head |-> 0, tail |-> FALSE, set |-> {}, upto |-> 0,
         todo |-> {}, seen |-> NothingSeen, log |-> NoLog,
         sub |-> 0, removed |-> {}, failures |-> 0, used |-> FALSE, fresh |-> FALSE,
         start |-> 0,   \* history: the cursor at the start
         gone |-> {},   \* history: blocks the detections found off the chain
         tries |-> 0]   \* history: subscriptions tried since the last event

Mined == {blocks[b].tx : b \in DOMAIN blocks} \ {NoTx}

Stored(tx) == Own(tx) \in DOMAIN rows \/ Chain(tx) \in DOMAIN rows

\* A new vault, with a local account or with none yet.
Init ==
  /\ blocks = << >> /\ branch = 0
  /\ authorized = Devices /\ changes = 0 /\ sent = FALSE
  /\ version \in {"V1", "V2"}
  /\ \/ rows = [r \in {Own(OwnTx)} |-> Row(0)] /\ head = Own(OwnTx)
     \/ rows = << >> /\ head = NoHead
  /\ devices = {}
  /\ checkpoint = 0 /\ calls = 0
  /\ sync = Idle
  /\ missed = {}

(***************************************************************************)
(* The chain.                                                              *)
(***************************************************************************)

\* A block at or below this height is not fetched again.
Behind == IF sync.head > checkpoint THEN sync.head ELSE checkpoint

Append1(tx) ==
  /\ Len(blocks) < MaxHeight
  /\ tx # NoTx /\ version = "V2" => Sender[tx] \in authorized
  /\ blocks' = Append(blocks, [branch |-> branch, tx |-> tx])
  /\ missed' = IF tx # NoTx /\ Len(blocks) + 1 <= Behind THEN missed \cup {tx} ELSE missed

Mine(tx) ==
  /\ Append1(tx)
  /\ tx \notin Mined
  /\ tx = OwnTx => sent    \* dropped by a reorg
  /\ UNCHANGED <<branch, authorized, changes, sent, version, storeVars, calls, sync>>

\* Events of the blocks above `keep`.
Dropped(keep) == {log \in {Log(b) : b \in DOMAIN blocks} : log.block > keep /\ log.tx # NoTx}

\* The node drops the blocks above `keep` and continues on another branch.  An
\* open subscription delivers their events (again) as removed, or late.
Reorg(keep) ==
  /\ branch < MaxReorgs
  /\ keep \in 0..(Len(blocks) - 1) /\ Len(blocks) - keep <= MaxReorgDepth
  /\ blocks' = SubSeq(blocks, 1, keep)
  /\ branch' = branch + 1
  /\ sync' = IF sync.pc \in {"recv", "ws_stamp", "ws_sign"}
             THEN [sync EXCEPT !.removed = @ \cup Dropped(keep)] ELSE sync
  /\ UNCHANGED <<authorized, changes, sent, version, storeVars, calls, missed>>

ChangeSet(set) ==
  /\ version = "V2" /\ changes < MaxSetChanges /\ set # {} /\ set # authorized
  /\ authorized' = set
  /\ changes' = changes + 1
  /\ UNCHANGED <<blocks, branch, sent, version, storeVars, calls, sync, missed>>

\* This device publishes its row (VaultSync): the answer arrives and the row
\* is anchored, or it is lost.
publish ==
  /\ sync = Idle /\ ~sent /\ Own(OwnTx) \in DOMAIN rows
  /\ sent' = TRUE
  /\ Append1(OwnTx)
  /\ rows' \in {rows, [rows EXCEPT ![Own(OwnTx)].block = Len(blocks) + 1]}
  /\ UNCHANGED <<branch, authorized, changes, version, head, devices, checkpoint, calls, sync>>

(***************************************************************************)
(* ReorgDetector.                                                          *)
(***************************************************************************)

Evicted(seen, tip) == Restrict(seen, {b \in DOMAIN seen : b >= tip - 2 * DEPTH})

\* record, with maybe_evict.
Recorded(seen, log) ==
  LET all == [b \in DOMAIN seen \cup {log.block} |->
                IF b = log.block THEN log.branch ELSE seen[b]]
      tip == CHOOSE t \in DOMAIN all : \A b \in DOMAIN all : b <= t
  IN Evicted(all, tip)

\* Mutant: a block the node does not have is skipped.
DivergentKnown(seen) == {b \in DOMAIN seen : b <= Len(blocks) /\ blocks[b].branch # seen[b]}

\* detect_reorg: observed blocks that are not canonical, or missing.
Divergent(seen) == {b \in DOMAIN seen : b > Len(blocks) \/ blocks[b].branch # seen[b]}

\* Mutant: the window reaches down to the first block.
WindowDown(set) == {b \in 0..MaxHeight : \E high \in set : b <= high}

\* extend_window
Window(set) == {b \in 0..MaxHeight : \E low, high \in set : b \in low..high}

(***************************************************************************)
(* The store.                                                              *)
(***************************************************************************)

Anchored(log) == {r \in DOMAIN rows : r[2] = log.tx /\ rows[r].block = log.block}

\* ingest_chain_revision: known by its canonical hash or by its anchor, or a
\* new row; the row that creates the account is its head.  Local rows have
\* another device id, so the third check does not apply.
Known(log) == Chain(log.tx) \in DOMAIN rows \/ Anchored(log) # {}

Ingest(log) ==
  IF Known(log) THEN UNCHANGED <<rows, head>>
  ELSE /\ rows' = [r \in DOMAIN rows \cup {Chain(log.tx)} |->
                     IF r = Chain(log.tx) THEN Row(log.block) ELSE rows[r]]
       /\ head' = IF head = NoHead THEN Chain(log.tx) ELSE head

\* The UPDATE of ingest_pending_chain_revision; it goes by the anchor, and
\* takes a row that was finalized back to 'pending'.
Stamped(log) ==
  [r \in DOMAIN rows |->
     IF r \in Anchored(log) THEN [rows[r] EXCEPT !.status = "pending", !.branch = log.branch]
     ELSE rows[r]]

\* stamp_recovered_signer, of a V2 vault.
Signed(log) ==
  [r \in DOMAIN rows |->
     IF version = "V2" /\ r \in Anchored(log) THEN [rows[r] EXCEPT !.signed = TRUE]
     ELSE rows[r]]

\* rollback_pending_revisions_in_range
RolledBack(window) ==
  {r \in DOMAIN rows : rows[r].status = "pending" /\ rows[r].block \in window}

\* promote_finalized_revisions
Promoted(tip) ==
  [r \in DOMAIN rows |->
     IF rows[r].status = "pending" /\ rows[r].block <= (IF tip > DEPTH THEN tip - DEPTH ELSE 0)
     THEN [rows[r] EXCEPT !.status = "finalized"] ELSE rows[r]]

\* Mutant: a row without a recovered signer is left alone.
RevokedKnown(r, set) == rows[r].signed /\ Sender[r[2]] \notin set

\* A row without a recovered signer is revoked.
WantRevoked(r, set) == ~(rows[r].signed /\ Sender[r[2]] \in set)

\* reevaluate_revocation_against_set
Reevaluated(set) ==
  [r \in DOMAIN rows |->
     IF rows[r].block # 0 THEN [rows[r] EXCEPT !.revoked = WantRevoked(r, set)] ELSE rows[r]]

(***************************************************************************)
(* sync_from_chain, stage 1.                                               *)
(***************************************************************************)

At(pc) == sync.pc = pc

\* The cursor is the checkpoint, or the genesis when asked for; the head is
\* the node's, or a block the caller gave, which rules out the tail.  A
\* cursor above the head is refused.
sync_from_chain(genesis, until, websocket) ==
  /\ sync = Idle /\ calls < MaxCalls
  /\ LET cursor == IF genesis THEN 0 ELSE checkpoint
         to == IF until = 0 THEN Len(blocks) ELSE until
     IN /\ cursor <= to
        /\ sync' = [Idle EXCEPT !.pc = IF version = "V2" THEN "set" ELSE "fetch",
                                !.cursor = cursor, !.start = cursor, !.head = to,
                                !.tail = websocket /\ until = 0]
  /\ calls' = calls + 1
  /\ UNCHANGED <<chainVars, version, storeVars, missed>>

\* read_authorized_set_v2; a failure ends the call.
read_authorized_set ==
  /\ At("set")
  /\ sync' = [sync EXCEPT !.set = authorized, !.pc = "fetch"]
  /\ UNCHANGED <<chainVars, version, storeVars, calls, missed>>

\* Mutant: the next chunk starts one block late.
ChunkStartLate == sync.cursor + 2

ChunkStart == sync.cursor + 1

ChunkEnd == IF sync.cursor + CHUNK < sync.head THEN sync.cursor + CHUNK ELSE sync.head

\* verify_alloy_log: a log of another contract, vault or schema, or without
\* its anchor, is rejected; such a block counts as empty here.
Verified(log) == log.tx # NoTx

\* eth_getLogs over the chunk.
Fetched(from, to) == {log \in {Log(b) : b \in (from..to) \cap DOMAIN blocks} : Verified(log)}

fetch_chunk ==
  /\ At("fetch") /\ sync.cursor < sync.head
  /\ sync' = [sync EXCEPT !.pc = "next", !.upto = ChunkEnd, !.todo = Fetched(ChunkStart, ChunkEnd)]
  /\ UNCHANGED <<chainVars, version, storeVars, calls, missed>>

\* is_signer_honored
Honored(tx) == version = "V1" \/ Sender[tx] \in sync.set

\* Mutant: a row that was there already is not stamped.
StampPhaseNew(log) == IF Known(log) THEN sync.pc ELSE IF At("next") THEN "stamp" ELSE "ws_stamp"

StampPhase(log) == IF At("next") THEN "stamp" ELSE "ws_stamp"

\* One event: the gate, then auto_register_device and the insert.  A gated
\* event is counted only.
ingest(log, ret) ==
  IF Honored(log.tx)
  THEN /\ devices' = devices \cup {Sender[log.tx]}
       /\ Ingest(log)
       /\ sync' = [ret EXCEPT !.pc = StampPhase(log), !.log = log]
       /\ UNCHANGED missed
  ELSE /\ missed' = missed \cup {log.tx}
       /\ sync' = ret
       /\ UNCHANGED <<rows, head, devices>>

\* The fetched events come in the order of their blocks.
ingest_event ==
  /\ At("next")
  /\ \E log \in sync.todo :
       /\ \A other \in sync.todo : log.block <= other.block
       /\ ingest(log, [sync EXCEPT !.todo = @ \ {log}])
  /\ UNCHANGED <<chainVars, version, checkpoint, calls>>

\* The 'pending' stamp, of a polled event or of the tail's.
stamp_event ==
  /\ sync.pc \in {"stamp", "ws_stamp"}
  /\ rows' = Stamped(sync.log)
  /\ sync' = [sync EXCEPT !.pc = IF At("stamp") THEN "sign" ELSE "ws_sign"]
  /\ UNCHANGED <<chainVars, version, head, devices, checkpoint, calls, missed>>

\* The signer, which is a write of its own, and the detector.
sign_event ==
  /\ At("sign")
  /\ rows' = Signed(sync.log)
  /\ sync' = [sync EXCEPT !.pc = "next", !.seen = Recorded(@, sync.log), !.log = NoLog]
  /\ UNCHANGED <<chainVars, version, head, devices, checkpoint, calls, missed>>

\* History: the rollback goes by the block that a row was stored with, and takes the
\* row of a transaction that is on the chain at another height by now.
Displaced(window) ==
  {r[2] : r \in {r \in RolledBack(window) :
                   \E c \in DOMAIN blocks : /\ blocks[c].tx = r[2] /\ c # rows[r].block
                                            /\ c <= sync.upto \/ c <= checkpoint}}

\* History: what the detector has seen and the chain does not have.
Orphaned(seen) ==
  {<<b, seen[b]>> : b \in {b \in DOMAIN seen : ~\E c \in DOMAIN blocks :
                                                  c = b /\ blocks[c].branch = seen[b]}}

\* detect_reorg_via_rpc, the rollback and forget_window.  The rollback leaves
\* the head pointer as it is.
detect_reorg ==
  /\ At("next") /\ sync.todo = {}
  /\ LET window == Window(Divergent(sync.seen))
     IN /\ rows' = Restrict(rows, DOMAIN rows \ RolledBack(window))
        /\ sync' = [sync EXCEPT !.pc = "advance", !.seen = Restrict(@, DOMAIN @ \ window),
                                !.gone = @ \cup Orphaned(sync.seen)]
        /\ missed' = missed \cup Displaced(window)
  /\ UNCHANGED <<chainVars, version, head, devices, checkpoint, calls>>

\* update_last_synced_block
Advanced(to) == IF to < checkpoint THEN checkpoint ELSE to

\* promote_finalized_revisions, then the checkpoint as the closing fence; cut
\* off between the two, the next call promotes again.  A move backwards is an
\* error and ends the call.
advance_checkpoint ==
  /\ At("advance")
  /\ rows' = Promoted(sync.head)
  /\ checkpoint' = Advanced(sync.upto)
  /\ sync' = IF sync.upto < checkpoint THEN Idle
             ELSE [sync EXCEPT !.pc = "fetch", !.cursor = sync.upto, !.upto = 0]
  /\ UNCHANGED <<chainVars, version, head, devices, calls, missed>>

\* What stage 2 keeps: the detector is not asked again, and nothing rolled back.
TipFollow == [sync EXCEPT !.pc = "open", !.seen = NothingSeen, !.start = 0]

\* The end of stage 1.
promote_rest ==
  /\ At("fetch") /\ sync.cursor = sync.head
  /\ rows' = Promoted(sync.head)
  /\ sync' = IF version = "V2" THEN [sync EXCEPT !.pc = "reevaluate"]
             ELSE IF sync.tail THEN TipFollow ELSE Idle
  /\ UNCHANGED <<chainVars, version, head, devices, checkpoint, calls, missed>>

reevaluate ==
  /\ At("reevaluate")
  /\ rows' = Reevaluated(sync.set)
  /\ sync' = IF sync.tail THEN TipFollow ELSE Idle
  /\ UNCHANGED <<chainVars, version, head, devices, checkpoint, calls, missed>>

(***************************************************************************)
(* Stage 2: the websocket tail.                                            *)
(***************************************************************************)

\* The subscription is given back.
Unsubscribed == [sync EXCEPT !.fresh = FALSE, !.sub = 0, !.removed = {}]

Closing == [Unsubscribed EXCEPT !.pc = "close", !.failures = 0, !.tries = 0]

\* The breaker: the loop goes on below the threshold.
Retried(failures, tries) ==
  IF failures < THRESHOLD
  THEN [Unsubscribed EXCEPT !.pc = "open", !.failures = failures, !.tries = tries]
  ELSE Closing

\* Mutant: every close after a successful open resets the breaker.
FailuresReset == 0

FailuresAfterClose == IF sync.fresh THEN 0 ELSE sync.failures + 1

open_subscription ==
  /\ At("open")
  /\ sync' \in {Retried(sync.failures + 1, sync.tries + 1),
                [sync EXCEPT !.pc = "recv", !.sub = Len(blocks), !.tries = @ + 1]}
  /\ UNCHANGED <<chainVars, version, storeVars, calls, missed>>

\* A log of a block mined after the subscription.  The pubsub layer
\* reconnects by itself, and logs of that time are lost.
recv_event ==
  /\ At("recv")
  /\ \E b \in (sync.sub + 1)..Len(blocks) :
       /\ Verified(Log(b))
       /\ ingest(Log(b), [sync EXCEPT !.sub = b])
  /\ UNCHANGED <<chainVars, version, checkpoint, calls>>

\* A log of a block that has left the chain: verify_alloy_log does not look at
\* its removed flag.
recv_removed ==
  /\ At("recv")
  /\ \E log \in sync.removed : ingest(log, [sync EXCEPT !.removed = @ \ {log}])
  /\ UNCHANGED <<chainVars, version, checkpoint, calls>>

\* Transactions of the blocks that an event at b overtakes.
Overtaken(b) == {log.tx : log \in Fetched(sync.cursor + 1, b) \ {sync.log}}

\* The signer, and the checkpoint that follows the event, past blocks whose
\* events never came; cut off between the two, the next call polls the event.
sign_ws_event ==
  /\ At("ws_sign")
  /\ rows' = Signed(sync.log)
  /\ LET b == sync.log.block
         kept == [sync EXCEPT !.pc = "recv", !.used = TRUE, !.fresh = TRUE, !.log = NoLog,
                              !.tries = 0]
     IN IF b > sync.cursor
        THEN /\ checkpoint' = Advanced(b)
             /\ missed' = missed \cup Overtaken(b)
             /\ sync' = IF b < checkpoint THEN Idle ELSE [kept EXCEPT !.cursor = b]
        ELSE /\ sync' = kept
             /\ UNCHANGED <<checkpoint, missed>>
  /\ UNCHANGED <<chainVars, version, head, devices, calls>>

subscription_closed ==
  /\ At("recv")
  /\ sync' = Retried(FailuresAfterClose, sync.tries)
  /\ UNCHANGED <<chainVars, version, storeVars, calls, missed>>

\* No event within the idle timeout, or the window is over.
recv_timeout ==
  /\ At("recv")
  /\ sync' = Closing
  /\ UNCHANGED <<chainVars, version, storeVars, calls, missed>>

finish ==
  /\ At("close")
  /\ rows' = IF sync.used THEN Promoted(sync.head) ELSE rows
  /\ sync' = Idle
  /\ UNCHANGED <<chainVars, version, head, devices, checkpoint, calls, missed>>

Abort ==
  /\ sync # Idle
  /\ sync' = Idle
  /\ UNCHANGED <<chainVars, version, storeVars, calls, missed>>

Step ==
  \/ read_authorized_set \/ fetch_chunk \/ ingest_event \/ stamp_event \/ sign_event
  \/ detect_reorg \/ advance_checkpoint \/ promote_rest \/ reevaluate
  \/ open_subscription \/ recv_event \/ recv_removed \/ sign_ws_event
  \/ subscription_closed \/ recv_timeout \/ finish

Next ==
  \/ \E tx \in Txs \cup {NoTx} : Mine(tx)
  \/ \E keep \in 0..MaxHeight : Reorg(keep)
  \/ \E set \in SUBSET Devices : ChangeSet(set)
  \/ publish
  \/ At("idle") /\ \E genesis, websocket \in BOOLEAN, until \in 0..MaxHeight :
                    sync_from_chain(genesis, until, websocket)
  \/ Step
  \/ Abort

Spec == Init /\ [][Next]_vars

(***************************************************************************)
(* Properties.                                                             *)
(***************************************************************************)

TypeOK ==
  /\ Len(blocks) <= MaxHeight /\ branch \in 0..MaxReorgs
  /\ DOMAIN rows \subseteq {Own(OwnTx)} \cup {Chain(tx) : tx \in Txs}
  /\ \A r \in DOMAIN rows :
       rows[r] \in [block : 0..MaxHeight, branch : -1..MaxReorgs, status : {"pending", "finalized"},
                    signed : BOOLEAN, revoked : BOOLEAN]
  /\ devices \subseteq Devices /\ missed \subseteq Txs
  /\ checkpoint \in 0..MaxHeight
  /\ sync.failures \in 0..(THRESHOLD - 1)

\* Below the checkpoint nothing is forgotten: every event there has its row,
\* however many calls were cut off.  The exceptions are the events that the
\* gate refused, that a reorg put at a height already fetched, that a websocket
\* event overtook, and whose row was rolled back at a height they have left.
CheckpointCovers ==
  \A b \in 1..checkpoint :
    b <= Len(blocks) /\ blocks[b].tx # NoTx
    => Stored(blocks[b].tx) \/ blocks[b].tx \in missed

\* A call that was cut off between the insert and the 'pending' stamp leaves a
\* row that looks final, and before the signer's stamp one that counts as
\* revoked; it lies above the checkpoint, so the next call stamps it.
UnstampedIsAhead ==
  \A tx \in Txs :
    /\ Chain(tx) \in DOMAIN rows
    /\ rows[Chain(tx)].branch = -1 \/ (version = "V2" /\ ~rows[Chain(tx)].signed)
    => LET b == rows[Chain(tx)].block
       IN \/ b > checkpoint
          \/ tx \in missed
          \/ b > Len(blocks) \/ blocks[b].tx # tx

\* From the retroactive pass to the end of the call, no honored row has a
\* signer outside the set the call has read: not one of an earlier call, of
\* an interrupted insert, or that the tail brought since.  The set itself may
\* be out of date by then.
NoUnderRevocation ==
  sync.pc \in {"open", "recv", "ws_stamp", "ws_sign", "close"} /\ version = "V2" =>
    \A r \in DOMAIN rows :
      rows[r].block # 0 /\ ~rows[r].revoked =>
        (rows[r].signed /\ Sender[r[2]] \in sync.set) \/ r[2] = sync.log.tx

\* A call that continues from the checkpoint takes away no row at or below the
\* checkpoint it began with, whatever the reorgs it detects: no later call would
\* fetch such a row again.  (A replay from the genesis may: it takes finalized
\* rows back to 'pending', which rollback_pending_revisions_in_range deletes,
\* although docs/architecture/chain-sync.md:257-258 says that finalized
\* revisions are never touched.)
SettledStays == [][\A r \in DOMAIN rows \ DOMAIN rows' : rows[r].block > sync.start]_vars

\* A block that a detection of the call has found off the chain, because another
\* is at its height or the chain has become shorter, has no pending row for the
\* rest of the call: no promotion makes such a row final.  (The comment of
\* detect_reorg, reorg.rs:78-81, has a missing block skipped; its code counts
\* it as orphaned.)
OrphansStayOut ==
  \A r \in DOMAIN rows :
    <<rows[r].block, rows[r].branch>> \in sync.gone => rows[r].status = "finalized"

\* The tail gives an endpoint up after THRESHOLD subscriptions in a row that
\* failed to open, or that the pubsub layer reported closed without an event.
\* (A drop that the pubsub layer repairs by itself is no such report: a storm of
\* them never reaches the breaker, vault.rs:9947-9964, and the call ends with
\* the idle timeout or the window.)
BreakerTrips == sync.tries <= THRESHOLD

=============================================================================

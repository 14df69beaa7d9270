---------------------------- MODULE ChainSyncProofs ----------------------------
(***************************************************************************)
(* Proofs about ChainSync, for every set of transactions and devices, every *)
(* chunk size, confirmation depth and breaker threshold, and any number of  *)
(* blocks, reorgs, calls and changes of the device set.                     *)
(*                                                                          *)
(* The checkpoint is only as good as the chunk before it: the invariant     *)
(* follows each block of a running chunk from the fetched event to the row  *)
(* with its stamps, and each block the reorg detector remembers.            *)
(***************************************************************************)
EXTENDS ChainSync, TLAPS

Heights == 0..MaxHeight
Branches == 0..MaxReorgs
Contents == Txs \cup {NoTx}
Blocks == [branch : Branches, tx : Contents]
Logs == [block : Heights, branch : Branches, tx : Contents]
Ids == {Own(OwnTx)} \cup {Chain(tx) : tx \in Txs}
Rows == [block : Heights, branch : Branches \cup {-1}, status : {"pending", "finalized"},
         signed : BOOLEAN, revoked : BOOLEAN]
Seen == UNION {[set -> Branches] : set \in SUBSET Heights}
Phases == {"idle", "set", "fetch", "next", "stamp", "sign", "advance", "reevaluate", "open",
           "recv", "ws_stamp", "ws_sign", "close"}
Calls == [pc : Phases, cursor : Heights, head : Heights, tail : BOOLEAN, set : SUBSET Devices,
          upto : Heights, todo : SUBSET Logs, seen : Seen, log : Logs,
          sub : Heights, removed : SUBSET Logs, failures : 0..(THRESHOLD - 1), used : BOOLEAN,
          fresh : BOOLEAN, start : Heights, gone : SUBSET (Heights \X Branches), tries : Nat]

\* The chain, the store and the running call have their types.
ChainTypes ==
  /\ blocks \in Seq(Blocks) /\ Len(blocks) \in Heights
  /\ branch \in Branches /\ authorized \subseteq Devices /\ sent \in BOOLEAN
  /\ version \in {"V1", "V2"}
StoreTypes ==
  /\ \A r \in DOMAIN rows : r \in Ids /\ rows[r] \in Rows
  /\ devices \subseteq Devices /\ checkpoint \in Heights /\ missed \subseteq Txs

\* This device's row has no block before it is published; a row of the chain has one.
BlockInv ==
  /\ ~sent /\ Own(OwnTx) \in DOMAIN rows => rows[Own(OwnTx)].block = 0
  /\ \A tx \in Txs : Chain(tx) \in DOMAIN rows => rows[Chain(tx)].block # 0

\* An event is being handled between its insert and its last stamp only; the cursor
\* stays behind the checkpoint and the chunk below the head.  Only an open subscription
\* delivers events of blocks that have left the chain.
CallInv ==
  /\ sync.pc \in {"stamp", "sign", "ws_stamp", "ws_sign"} =>
       sync.log.tx \in Txs /\ Known(sync.log) /\ Honored(sync.log.tx)
  /\ sync.pc \notin {"stamp", "sign", "ws_stamp", "ws_sign"} => sync.log = NoLog
  /\ sync.pc \in {"sign", "ws_sign"} => \A r \in Anchored(sync.log) : rows[r].branch # -1
  /\ sync.cursor <= checkpoint /\ sync.upto <= sync.head
  /\ \A log \in sync.todo \cup sync.removed : log.tx \in Txs /\ log.block # 0
  /\ sync.pc \notin {"recv", "ws_stamp", "ws_sign"} => sync.removed = {}

\* A block that was seen at height d is still canonical, or the reorg that removed it
\* made every event that is there now, up to the head of the call, a missed one.
Stable(d, br) ==
  \/ d \in DOMAIN blocks /\ blocks[d].branch = br
  \/ \A c \in DOMAIN blocks : d <= c /\ c <= sync.head => blocks[c].tx \in missed \cup {NoTx}

SeenInv ==
  /\ \A log \in sync.todo : log.block <= sync.head /\ Stable(log.block, log.branch)
  /\ sync.pc \in {"stamp", "sign"} =>
       sync.log.block <= sync.head /\ Stable(sync.log.block, sync.log.branch)
  /\ \A d \in DOMAIN sync.seen : d <= sync.head /\ Stable(d, sync.seen[d])

\* A row has the stamps that its version gives it.
Complete(r) == rows[r].branch # -1 /\ (version = "V2" => rows[r].signed)

\* Block b needs no further call: its event is known, and its row is stamped.
Settled(b) ==
  LET tx == blocks[b].tx
  IN \/ tx \in missed \cup {NoTx}
     \/ /\ Known(Log(b))
        /\ Chain(tx) \in DOMAIN rows /\ rows[Chain(tx)].block = b => Complete(Chain(tx))

\* The event of block b is log.
Is(log, b) == log.tx = blocks[b].tx /\ log.block = b

CoverInv == \A b \in DOMAIN blocks : b <= checkpoint => Settled(b)

ChunkInv ==
  \A b \in DOMAIN blocks :
    sync.pc \in {"next", "stamp", "sign", "advance"} /\ sync.cursor < b /\ b <= sync.upto =>
      \/ Settled(b)
      \/ sync.pc # "advance" /\ \E log \in sync.todo : Is(log, b)
      \/ sync.pc \in {"stamp", "sign"} /\ Is(sync.log, b)

\* After the retroactive pass, a row that counts has an honored signer, or is about to
\* be stamped.
RevokedInv ==
  sync.pc \in {"open", "recv", "ws_stamp", "ws_sign", "close"} /\ version = "V2" =>
    \A r \in DOMAIN rows :
      rows[r].block # 0 /\ ~rows[r].revoked =>
        \/ rows[r].signed /\ Sender[r[2]] \in sync.set
        \/ sync.pc \in {"ws_stamp", "ws_sign"} /\ r \in Anchored(sync.log)

\* The breaker counts every try since the last event but the one that is open.
BreakerInv ==
  /\ sync.fresh => sync.tries = 0
  /\ sync.pc \in {"recv", "ws_stamp", "ws_sign"} => sync.tries <= sync.failures + 1
  /\ sync.pc = "open" => sync.tries <= sync.failures /\ ~sync.fresh
  /\ sync.pc \notin {"open", "recv", "ws_stamp", "ws_sign"} =>
       sync.tries = 0 /\ sync.failures = 0 /\ ~sync.fresh

SyncInv ==
  /\ ChainTypes /\ StoreTypes /\ sync \in Calls
  /\ BlockInv /\ CallInv /\ SeenInv /\ CoverInv /\ ChunkInv
  /\ RevokedInv /\ BreakerInv

-----------------------------------------------------------------------------
(* Facts about the constants and the names of rows.                        *)

LEMMA Bounds ==
  /\ MaxHeight \in Nat /\ MaxReorgs \in Nat /\ THRESHOLD \in Nat \ {0}
  /\ CHUNK \in Nat \ {0} /\ DEPTH \in Nat \ {0}
  /\ OwnTx \in Txs /\ NoTx \notin Txs /\ Sender \in [Txs -> Devices]
  BY ChainSyncAssumption

\* A row's name says whether this device made it, and of which transaction it is.
LEMMA Names ==
  /\ \A r \in Ids : r[2] \in Txs /\ (r = Own(r[2]) \/ r = Chain(r[2]))
  /\ \A tx \in Txs : Own(tx)[2] = tx /\ Chain(tx)[2] = tx
  /\ \A tx, ty \in Txs : Own(tx) # Chain(ty)
  /\ \A tx, ty \in Txs : Chain(tx) = Chain(ty) => tx = ty
  BY Bounds DEF Ids, Own, Chain

\* The event of a canonical block.
LEMMA LogFacts ==
  ASSUME ChainTypes, NEW b \in DOMAIN blocks
  PROVE  /\ Log(b) \in Logs /\ Log(b).block = b /\ Log(b).tx = blocks[b].tx
         /\ Log(b).branch = blocks[b].branch /\ b \in Nat /\ b >= 1 /\ b <= Len(blocks)
<1>1. blocks \in Seq(Blocks) /\ Len(blocks) \in 0..MaxHeight /\ MaxHeight \in Nat
  BY Bounds DEF ChainTypes, Heights
<1>2. b \in 1..Len(blocks) /\ blocks[b] \in Blocks
  BY <1>1
<1>3. b \in Heights
  BY <1>1, <1>2 DEF Heights
<1>4. Log(b) = [block |-> b, branch |-> blocks[b].branch, tx |-> blocks[b].tx]
  BY DEF Log
<1>5. Log(b) \in Logs
  BY <1>2, <1>3, <1>4 DEF Logs, Blocks
<1>6. QED
  BY <1>1, <1>2, <1>4, <1>5

LEMMA IdleCall == Idle \in Calls /\ NoLog \in Logs
<1>1. NoLog \in Logs
  BY Bounds DEF NoLog, Logs, Heights, Branches, Contents
<1>2. NothingSeen \in Seen
  <2>1. NothingSeen \in [{} -> Branches]
    BY DEF NothingSeen
  <2>2. QED
    BY <2>1 DEF Seen
<1>3. 0 \in Heights /\ 0 \in 0..(THRESHOLD - 1)
  BY Bounds DEF Heights
<1>4. Idle \in Calls
  BY <1>1, <1>2, <1>3 DEF Idle, Calls, Phases
<1>5. QED
  BY <1>1, <1>4

\* A call that has ended leaves nothing to keep.
LEMMA IdleFacts ==
  ASSUME sync' = Idle, checkpoint' \in Heights
  PROVE  sync' \in Calls /\ CallInv' /\ SeenInv' /\ ChunkInv' /\ RevokedInv' /\ BreakerInv'
<1>1. /\ sync'.pc = "idle" /\ sync'.log = NoLog /\ sync'.cursor = 0 /\ sync'.upto = 0
      /\ sync'.head = 0 /\ sync'.todo = {} /\ sync'.seen = NothingSeen
      /\ sync'.failures = 0 /\ sync'.tries = 0 /\ sync'.removed = {}
  BY DEF Idle
<1>2. ~sync'.fresh
  BY DEF Idle
<1>3. DOMAIN sync'.seen = {}
  BY <1>1 DEF NothingSeen
<1>4. sync' \in Calls
  BY IdleCall
<1>5. CallInv'
  BY <1>1 DEF CallInv, Heights
<1>6. SeenInv' /\ ChunkInv' /\ RevokedInv'
  BY <1>1, <1>3 DEF SeenInv, ChunkInv, RevokedInv
<1>7. BreakerInv'
  BY <1>1, <1>2 DEF BreakerInv
<1>8. QED
  BY <1>4, <1>5, <1>6, <1>7

\* A new vault on an empty chain.
LEMMA InitInv == Init => SyncInv
<1> SUFFICES ASSUME Init PROVE SyncInv
  OBVIOUS
<1>1. /\ blocks = << >> /\ DOMAIN blocks = {} /\ Len(blocks) = 0
      /\ blocks \in Seq(Blocks)
  BY DEF Init
<1>2. 0 \in Heights /\ 0 \in Branches
  BY Bounds DEF Heights, Branches
<1>3. ChainTypes
  BY <1>1, <1>2 DEF Init, ChainTypes
<1>4. Row(0) \in Rows /\ Row(0).block = 0
  BY <1>2 DEF Row, Rows
<1>5. /\ \A r \in DOMAIN rows : r \in Ids /\ rows[r] \in Rows
      /\ BlockInv
  <2>1. \A tx \in Txs : Chain(tx) # Own(OwnTx)
    BY Names, Bounds
  <2>2. QED
    BY <1>4, <2>1 DEF Init, Ids, BlockInv
<1>6. StoreTypes
  BY <1>2, <1>5 DEF Init, StoreTypes
<1>7. /\ sync = Idle /\ sync.pc = "idle" /\ sync.log = NoLog /\ sync.cursor = 0
      /\ sync.upto = 0 /\ sync.head = 0 /\ sync.todo = {} /\ DOMAIN sync.seen = {}
      /\ sync.failures = 0 /\ sync.tries = 0 /\ sync.removed = {}
  BY DEF Init, Idle, NothingSeen
<1>8. ~sync.fresh
  BY DEF Init, Idle
<1>9. sync \in Calls
  BY <1>7, IdleCall
<1>10. CallInv
  BY <1>7 DEF Init, CallInv
<1>11. SeenInv /\ CoverInv /\ ChunkInv /\ RevokedInv
  BY <1>1, <1>7 DEF SeenInv, CoverInv, ChunkInv, RevokedInv
<1>12. BreakerInv
  BY <1>7, <1>8 DEF BreakerInv
<1>13. QED
  BY <1>3, <1>5, <1>6, <1>9, <1>10, <1>11, <1>12 DEF SyncInv

-----------------------------------------------------------------------------
(* Steps of the call that only change the call.                            *)

LEMMA CallStep ==
  ASSUME SyncInv, UNCHANGED <<chainVars, version, storeVars, missed>>,
         sync' \in Calls, CallInv', SeenInv', ChunkInv', RevokedInv', BreakerInv'
  PROVE  SyncInv'
<1>1. ChainTypes' /\ StoreTypes' /\ BlockInv'
  BY DEF SyncInv, ChainTypes, StoreTypes, BlockInv, chainVars, storeVars
<1>2. CoverInv'
  BY DEF SyncInv, CoverInv, Settled, Complete, Known, Anchored, Log, chainVars, storeVars
<1>3. QED
  BY <1>1, <1>2 DEF SyncInv

\* A call is cut off anywhere.
LEMMA AbortStep == SyncInv /\ Abort => SyncInv'
<1> SUFFICES ASSUME SyncInv, Abort PROVE SyncInv'
  OBVIOUS
<1>1. sync' = Idle /\ UNCHANGED <<chainVars, version, storeVars, missed>>
  BY DEF Abort
<1>2. checkpoint' \in Heights
  BY <1>1 DEF SyncInv, StoreTypes, storeVars
<1>3. QED
  BY <1>1, <1>2, IdleFacts, CallStep

\* A call starts with an empty detector and a cursor at or below the checkpoint.
LEMMA StartStep ==
  ASSUME SyncInv, NEW genesis \in BOOLEAN, NEW websocket \in BOOLEAN,
         NEW until \in 0..MaxHeight, sync_from_chain(genesis, until, websocket)
  PROVE  SyncInv'
<1> DEFINE cursor == IF genesis THEN 0 ELSE checkpoint
           to == IF until = 0 THEN Len(blocks) ELSE until
<1>1. /\ UNCHANGED <<chainVars, version, storeVars, missed>>
      /\ sync' = [Idle EXCEPT !.pc = IF version = "V2" THEN "set" ELSE "fetch",
                              !.cursor = cursor, !.start = cursor, !.head = to,
                              !.tail = websocket /\ until = 0]
  BY DEF sync_from_chain
<1>2. /\ cursor \in Heights /\ to \in Heights /\ cursor <= checkpoint /\ checkpoint \in Heights
      /\ (websocket /\ until = 0) \in BOOLEAN
  BY Bounds DEF SyncInv, ChainTypes, StoreTypes, Heights
<1>3. Idle \in Calls
  BY IdleCall
<1> HIDE DEF cursor, to
<1>4. sync' \in Calls
  <2>1. /\ (IF version = "V2" THEN "set" ELSE "fetch") \in Phases
    BY DEF Phases
  <2>2. QED
    BY <1>1, <1>2, <1>3, <2>1 DEF Calls
<1>5. /\ sync'.pc \in {"set", "fetch"} /\ sync'.cursor = cursor /\ sync'.head = to
      /\ sync'.log = NoLog /\ sync'.upto = 0 /\ sync'.todo = {} /\ sync'.seen = NothingSeen
      /\ sync'.failures = 0 /\ sync'.tries = 0 /\ sync'.removed = {}
  BY <1>1 DEF Idle
<1>6. sync'.fresh = FALSE
  BY <1>1 DEF Idle
<1>7. checkpoint' = checkpoint /\ DOMAIN sync'.seen = {}
  BY <1>1, <1>5 DEF storeVars, NothingSeen
<1>8. CallInv'
  BY <1>2, <1>5, <1>7 DEF CallInv, Heights
<1>9. SeenInv' /\ ChunkInv' /\ RevokedInv'
  BY <1>5, <1>7 DEF SeenInv, ChunkInv, RevokedInv
<1>10. BreakerInv'
  BY <1>5, <1>6 DEF BreakerInv
<1>11. QED
  BY <1>1, <1>4, <1>8, <1>9, <1>10, CallStep

\* The device set is read once, before the first chunk.
LEMMA ReadSetStep == SyncInv /\ read_authorized_set => SyncInv'
<1> SUFFICES ASSUME SyncInv, read_authorized_set PROVE SyncInv'
  OBVIOUS
<1>1. /\ UNCHANGED <<chainVars, version, storeVars, missed>> /\ sync.pc = "set"
      /\ sync' = [sync EXCEPT !.set = authorized, !.pc = "fetch"]
  BY DEF read_authorized_set, At
<1>2. sync \in Calls /\ authorized \in SUBSET Devices
  BY DEF SyncInv, ChainTypes
<1>3. sync' \in Calls
  BY <1>1, <1>2 DEF Calls, Phases
<1>4. /\ sync'.pc = "fetch" /\ sync'.cursor = sync.cursor /\ sync'.head = sync.head
      /\ sync'.upto = sync.upto /\ sync'.todo = sync.todo /\ sync'.seen = sync.seen
      /\ sync'.log = sync.log /\ sync'.failures = sync.failures /\ sync'.tries = sync.tries
      /\ sync'.fresh = sync.fresh /\ sync'.removed = sync.removed
  BY <1>1, <1>2 DEF Calls
<1>5. CallInv'
  BY <1>1, <1>4 DEF SyncInv, CallInv, storeVars
<1>6. SeenInv'
  BY <1>1, <1>4 DEF SyncInv, SeenInv, Stable, chainVars
<1>7. ChunkInv' /\ RevokedInv'
  BY <1>4 DEF ChunkInv, RevokedInv
<1>8. BreakerInv'
  BY <1>1, <1>4 DEF SyncInv, BreakerInv
<1>9. QED
  BY <1>1, <1>3, <1>5, <1>6, <1>7, <1>8, CallStep

\* eth_getLogs: every event of the chunk that is on the chain now is fetched.
LEMMA FetchStep == SyncInv /\ fetch_chunk => SyncInv'
<1> SUFFICES ASSUME SyncInv, fetch_chunk PROVE SyncInv'
  OBVIOUS
<1> DEFINE logs == Fetched(ChunkStart, ChunkEnd)
<1>1. /\ UNCHANGED <<chainVars, version, storeVars, missed>>
      /\ sync.pc = "fetch" /\ sync.cursor < sync.head
      /\ sync' = [sync EXCEPT !.pc = "next", !.upto = ChunkEnd, !.todo = logs]
  BY DEF fetch_chunk, At
<1>2. /\ sync \in Calls /\ sync.cursor \in Heights /\ sync.head \in Heights
      /\ blocks \in Seq(Blocks) /\ Len(blocks) \in Heights
  BY DEF SyncInv, ChainTypes, Calls
<1>3. /\ ChunkEnd \in Heights /\ ChunkEnd <= sync.head /\ ChunkStart = sync.cursor + 1
  BY <1>1, <1>2, Bounds DEF ChunkEnd, ChunkStart, Heights
<1>4. \A b \in DOMAIN blocks : Log(b) \in Logs /\ Log(b).block = b /\ Log(b).tx = blocks[b].tx
                              /\ Log(b).branch = blocks[b].branch
  BY LogFacts DEF SyncInv
<1>5. /\ logs \subseteq Logs
      /\ \A log \in logs : /\ log.tx \in Txs /\ log.block \in DOMAIN blocks
                           /\ log.block <= ChunkEnd /\ blocks[log.block].branch = log.branch
  <2>1. ASSUME NEW log \in logs
        PROVE  \E b \in DOMAIN blocks : b <= ChunkEnd /\ log = Log(b) /\ log.tx # NoTx
    BY <1>2, <1>3 DEF Fetched, Verified, Heights
  <2>2. ASSUME NEW log \in Logs, log.tx # NoTx
        PROVE  log.tx \in Txs
    BY <2>2 DEF Logs, Contents
  <2>3. QED
    BY <1>4, <2>1, <2>2
<1>6. \A b \in DOMAIN blocks :
        sync.cursor < b /\ b <= ChunkEnd => blocks[b].tx = NoTx \/ Log(b) \in logs
  BY <1>2, <1>3, <1>4 DEF Fetched, Verified, Heights
<1>7. sync' \in Calls
  BY <1>1, <1>2, <1>3, <1>5 DEF Calls, Phases
<1>8. /\ sync'.pc = "next" /\ sync'.cursor = sync.cursor /\ sync'.head = sync.head
      /\ sync'.upto = ChunkEnd /\ sync'.todo = logs /\ sync'.seen = sync.seen
      /\ sync'.log = sync.log /\ sync'.failures = sync.failures /\ sync'.tries = sync.tries
      /\ sync'.fresh = sync.fresh /\ sync'.removed = sync.removed
  BY <1>1, <1>2 DEF Calls
<1>9. CallInv'
  <2>1. \A log \in logs : log.block # 0
    BY <1>2, <1>5
  <2>2. QED
    BY <1>1, <1>3, <1>5, <1>8, <2>1 DEF SyncInv, CallInv, storeVars
<1>10. SeenInv'
  <2>1. \A log \in logs : log.block <= sync.head
    BY <1>2, <1>3, <1>5 DEF Heights
  <2>2. QED
    BY <1>1, <1>5, <1>8, <2>1 DEF SyncInv, SeenInv, Stable, chainVars
<1>11. ChunkInv'
  <2>1. ASSUME NEW b \in DOMAIN blocks, sync.cursor < b, b <= ChunkEnd
        PROVE  Settled(b)' \/ \E log \in logs : Is(log, b)'
    BY <1>1, <1>4, <1>6, <2>1 DEF Settled, Is, chainVars
  <2>2. QED
    BY <1>1, <1>8, <2>1 DEF ChunkInv, chainVars
<1>12. RevokedInv'
  BY <1>8 DEF RevokedInv
<1>13. BreakerInv'
  BY <1>1, <1>8 DEF SyncInv, BreakerInv
<1>14. QED
  BY <1>1, <1>7, <1>9, <1>10, <1>11, <1>12, <1>13, CallStep

-----------------------------------------------------------------------------
(* The tail.                                                               *)

\* What the steps of the tail that receive no event have in common.
LEMMA TailStep ==
  ASSUME SyncInv, UNCHANGED <<chainVars, version, storeVars, missed>>,
         sync.pc \in {"open", "recv"}, sync' \in Calls, sync'.pc \in {"open", "recv", "close"},
         sync'.cursor = sync.cursor, sync'.head = sync.head, sync'.upto = sync.upto,
         sync'.todo = sync.todo, sync'.seen = sync.seen, sync'.log = sync.log,
         sync'.set = sync.set, BreakerInv',
         sync'.removed = {} \/ (sync'.pc = "recv" /\ sync'.removed = sync.removed)
  PROVE  SyncInv'
<1>1. CallInv'
  BY DEF SyncInv, CallInv, storeVars
<1>2. SeenInv'
  BY DEF SyncInv, SeenInv, Stable, chainVars
<1>3. ChunkInv'
  BY DEF ChunkInv
<1>4. RevokedInv'
  BY DEF SyncInv, RevokedInv, storeVars
<1>5. QED
  BY <1>1, <1>2, <1>3, <1>4, CallStep

\* The breaker goes on below the threshold, and forgets its count when it gives up.
LEMMA RetriedStep ==
  ASSUME SyncInv, sync.pc \in {"open", "recv"},
         NEW failures \in Nat, NEW tries \in Nat, tries <= failures,
         sync' \in {Retried(failures, tries), Closing},
         UNCHANGED <<chainVars, version, storeVars, missed>>
  PROVE  SyncInv'
<1>1. sync \in Calls /\ 0 \in Heights /\ 0 \in 0..(THRESHOLD - 1)
  BY Bounds DEF SyncInv, Heights
<1>a. /\ Unsubscribed \in Calls
      /\ Unsubscribed.cursor = sync.cursor /\ Unsubscribed.head = sync.head
      /\ Unsubscribed.upto = sync.upto /\ Unsubscribed.todo = sync.todo
      /\ Unsubscribed.seen = sync.seen /\ Unsubscribed.log = sync.log
      /\ Unsubscribed.set = sync.set /\ Unsubscribed.removed = {}
  BY <1>1 DEF Unsubscribed, Calls
<1>b. Unsubscribed.fresh = FALSE
  BY <1>1 DEF Unsubscribed, Calls
<1>2. CASE sync' = Closing
  <2>1. sync' = [Unsubscribed EXCEPT !.pc = "close", !.failures = 0, !.tries = 0]
    BY <1>2 DEF Closing
  <2>2. sync' \in Calls
    BY <1>1, <1>a, <2>1 DEF Calls, Phases
  <2>3. /\ sync'.pc = "close" /\ sync'.failures = 0 /\ sync'.tries = 0
        /\ sync'.cursor = sync.cursor /\ sync'.head = sync.head /\ sync'.upto = sync.upto
        /\ sync'.todo = sync.todo /\ sync'.seen = sync.seen /\ sync'.log = sync.log
        /\ sync'.set = sync.set /\ sync'.removed = {}
    BY <1>a, <2>1 DEF Calls
  <2>4. sync'.fresh = FALSE
    BY <1>a, <1>b, <2>1 DEF Calls
  <2>5. BreakerInv'
    BY <2>3, <2>4 DEF BreakerInv
  <2>6. QED
    BY <2>2, <2>3, <2>5, TailStep
<1>3. CASE sync' # Closing
  <2>1. /\ failures < THRESHOLD
        /\ sync' = [Unsubscribed EXCEPT !.pc = "open", !.failures = failures, !.tries = tries]
    BY <1>3 DEF Retried
  <2>2. failures \in 0..(THRESHOLD - 1)
    BY <2>1, Bounds
  <2>3. sync' \in Calls
    BY <1>a, <2>1, <2>2 DEF Calls, Phases
  <2>4. /\ sync'.pc = "open" /\ sync'.failures = failures /\ sync'.tries = tries
        /\ sync'.cursor = sync.cursor /\ sync'.head = sync.head /\ sync'.upto = sync.upto
        /\ sync'.todo = sync.todo /\ sync'.seen = sync.seen /\ sync'.log = sync.log
        /\ sync'.set = sync.set /\ sync'.removed = {}
    BY <1>a, <2>1 DEF Calls
  <2>5. sync'.fresh = FALSE
    BY <1>a, <1>b, <2>1 DEF Calls
  <2>6. BreakerInv'
    BY <2>4, <2>5 DEF BreakerInv
  <2>7. QED
    BY <2>3, <2>4, <2>6, TailStep
<1>4. QED
  BY <1>2, <1>3

\* Opening a subscription, losing it, and the end of the tail.
LEMMA SubscriptionStep ==
  ASSUME SyncInv, open_subscription \/ subscription_closed \/ recv_timeout
  PROVE  SyncInv'
<1>1. UNCHANGED <<chainVars, version, storeVars, missed>>
  BY DEF open_subscription, subscription_closed, recv_timeout
<1>2. /\ sync \in Calls /\ sync.failures \in Nat /\ sync.tries \in Nat /\ sync.fresh \in BOOLEAN
      /\ Len(blocks) \in Heights
  BY Bounds DEF SyncInv, Calls, ChainTypes
<1>3. CASE open_subscription
  <2>1. /\ sync.pc = "open" /\ sync.tries <= sync.failures
        /\ sync.failures + 1 \in Nat /\ sync.tries + 1 \in Nat
        /\ sync.tries + 1 <= sync.failures + 1
    BY <1>2, <1>3 DEF open_subscription, At, SyncInv, BreakerInv
  <2>2. CASE sync' = Retried(sync.failures + 1, sync.tries + 1)
    BY <1>1, <2>1, <2>2, RetriedStep
  <2>3. CASE sync' = [sync EXCEPT !.pc = "recv", !.sub = Len(blocks), !.tries = sync.tries + 1]
    <3>1. sync' \in Calls
      BY <1>2, <2>1, <2>3 DEF Calls, Phases
    <3>2. /\ sync'.pc = "recv" /\ sync'.failures = sync.failures
          /\ sync'.tries = sync.tries + 1 /\ sync'.fresh = sync.fresh
          /\ sync'.cursor = sync.cursor /\ sync'.head = sync.head /\ sync'.upto = sync.upto
          /\ sync'.todo = sync.todo /\ sync'.seen = sync.seen /\ sync'.log = sync.log
          /\ sync'.set = sync.set /\ sync'.removed = sync.removed
      BY <1>2, <2>3 DEF Calls
    <3>3. ~sync.fresh
      BY <2>1 DEF SyncInv, BreakerInv
    <3>4. BreakerInv'
      BY <2>1, <3>2, <3>3 DEF BreakerInv
    <3>5. QED
      BY <1>1, <2>1, <3>1, <3>2, <3>4, TailStep
  <2>4. QED
    BY <1>3, <2>2, <2>3 DEF open_subscription
<1>4. CASE subscription_closed
  <2>1. /\ sync.pc = "recv" /\ sync' = Retried(FailuresAfterClose, sync.tries)
    BY <1>4 DEF subscription_closed, At
  <2>2. FailuresAfterClose \in Nat /\ sync.tries <= FailuresAfterClose
    BY <1>2, <2>1 DEF FailuresAfterClose, SyncInv, BreakerInv
  <2>3. QED
    BY <1>1, <1>2, <2>1, <2>2, RetriedStep
<1>5. CASE recv_timeout
  <2>1. sync.pc = "recv" /\ sync' = Closing
    BY <1>5 DEF recv_timeout, At
  <2>2. QED
    BY <1>1, <2>1, RetriedStep
<1>6. QED
  BY <1>3, <1>4, <1>5

-----------------------------------------------------------------------------
(* What keeps a block settled.                                             *)

\* Rows may be added, unless it is an unstamped one of this very event; a row keeps
\* its block and its stamp, except that this device's own row gets its block once.
LEMMA SettledKept ==
  ASSUME ChainTypes, StoreTypes, NEW b \in DOMAIN blocks, Settled(b),
         blocks'[b] = blocks[b], missed \subseteq missed', DOMAIN rows \subseteq DOMAIN rows',
         \A r \in DOMAIN rows : \/ rows'[r].block = rows[r].block
                                \/ rows[r].block = 0 /\ r = Own(OwnTx),
         \A r \in DOMAIN rows : Complete(r) => Complete(r)',
         \/ Chain(blocks[b].tx) \in DOMAIN rows \/ Chain(blocks[b].tx) \notin DOMAIN rows'
         \/ rows'[Chain(blocks[b].tx)].block # b
  PROVE  Settled(b)'
<1> DEFINE tx == blocks[b].tx
<1>1. Log(b)' = Log(b) /\ Log(b).tx = tx /\ Log(b).block = b /\ b # 0
  <2>1. Log(b)' = Log(b)
    BY DEF Log
  <2>2. QED
    BY <2>1, LogFacts
<1>2. CASE tx \in missed \cup {NoTx}
  BY <1>2 DEF Settled
<1>3. CASE tx \notin missed \cup {NoTx}
  <2>1. /\ Known(Log(b)) /\ tx \in Txs
        /\ Chain(tx) \in DOMAIN rows /\ rows[Chain(tx)].block = b => Complete(Chain(tx))
    <3>1. blocks[b] \in Blocks
      BY DEF ChainTypes
    <3>2. tx \in Txs
      BY <1>3, <3>1 DEF Blocks, Contents
    <3>3. QED
      BY <1>3, <3>2 DEF Settled
  <2>2. Chain(tx) # Own(OwnTx)
    BY <2>1, Names, Bounds
  <2>3. Known(Log(b))'
    BY <1>1, <2>1 DEF Known, Anchored
  <2>4. Chain(tx) \in DOMAIN rows' /\ rows'[Chain(tx)].block = b => Complete(Chain(tx))'
    BY <2>1, <2>2
  <2>5. QED
    BY <2>3, <2>4 DEF Settled
<1>4. QED
  BY <1>2, <1>3

-----------------------------------------------------------------------------
(* The chain.                                                              *)

\* A new block at a height that is not fetched again makes its event a missed one.
LEMMA AppendFacts ==
  ASSUME SyncInv, NEW tx \in Contents, Append1(tx)
  PROVE  LET n == Len(blocks) + 1
         IN  /\ blocks' \in Seq(Blocks) /\ Len(blocks') \in Heights
             /\ DOMAIN blocks' = DOMAIN blocks \cup {n} /\ n \in Nat /\ n \notin DOMAIN blocks
             /\ \A b \in DOMAIN blocks : blocks'[b] = blocks[b]
             /\ blocks'[n].tx = tx
             /\ missed \subseteq missed' /\ missed' \subseteq Txs
             /\ n <= sync.head \/ n <= checkpoint => tx \in missed' \cup {NoTx}
<1> DEFINE n == Len(blocks) + 1
           new == [branch |-> branch, tx |-> tx]
<1>1. /\ blocks \in Seq(Blocks) /\ Len(blocks) \in 0..MaxHeight /\ MaxHeight \in Nat
      /\ branch \in Branches /\ missed \subseteq Txs
      /\ sync.head \in Heights /\ checkpoint \in Heights
  BY Bounds DEF SyncInv, ChainTypes, StoreTypes, Heights, Calls
<1>2. new \in Blocks /\ new.tx = tx
  BY <1>1 DEF Blocks
<1>3. /\ blocks' = Append(blocks, new) /\ Len(blocks) < MaxHeight
      /\ missed' = IF tx # NoTx /\ Len(blocks) + 1 <= Behind THEN missed \cup {tx} ELSE missed
  BY DEF Append1
<1>4. /\ blocks' \in Seq(Blocks) /\ Len(blocks') = n /\ n \in Nat
      /\ DOMAIN blocks' = DOMAIN blocks \cup {n} /\ n \notin DOMAIN blocks
      /\ \A b \in DOMAIN blocks : blocks'[b] = blocks[b]
      /\ blocks'[n] = new
  BY <1>1, <1>2, <1>3
<1>5. n \in Heights
  BY <1>1, <1>3 DEF Heights
<1>6. n <= sync.head \/ n <= checkpoint => n <= Behind
  BY <1>1, <1>5, Bounds DEF Behind, Heights
<1>7. missed \subseteq missed' /\ missed' \subseteq Txs
  BY <1>1, <1>3 DEF Contents
<1>8. n <= sync.head \/ n <= checkpoint => tx \in missed' \cup {NoTx}
  BY <1>3, <1>6
<1>9. QED
  BY <1>2, <1>4, <1>5, <1>7, <1>8

\* A block is mined, or this device's row is published: nothing the call and the
\* checkpoint rely on changes.
LEMMA AppendStep ==
  ASSUME SyncInv, NEW tx \in Contents, Append1(tx),
         UNCHANGED <<branch, authorized, version, devices, checkpoint, sync>>,
         sent' \in BOOLEAN,
         rows' = rows \/ sync = Idle,
         DOMAIN rows' = DOMAIN rows,
         \A r \in DOMAIN rows : \/ rows'[r] = rows[r]
                                \/ /\ rows[r].block = 0 /\ r = Own(OwnTx) /\ sent' = TRUE
                                   /\ rows'[r] \in Rows /\ rows'[r].branch = rows[r].branch
                                   /\ Complete(r) => Complete(r)',
         sent => sent'
  PROVE  SyncInv'
<1>0. PICK n \in Nat : n = Len(blocks) + 1
  BY DEF SyncInv, ChainTypes, Heights
<1>1. /\ blocks' \in Seq(Blocks) /\ Len(blocks') \in Heights
      /\ DOMAIN blocks' = DOMAIN blocks \cup {n} /\ n \in Nat /\ n \notin DOMAIN blocks
      /\ \A b \in DOMAIN blocks : blocks'[b] = blocks[b]
      /\ blocks'[n].tx = tx
      /\ missed \subseteq missed' /\ missed' \subseteq Txs
      /\ n <= sync.head \/ n <= checkpoint => tx \in missed' \cup {NoTx}
  BY <1>0, AppendFacts
<1>2. ChainTypes' /\ sync' \in Calls
  BY <1>1 DEF SyncInv, ChainTypes
<1>3. StoreTypes' /\ BlockInv'
  BY <1>1 DEF SyncInv, StoreTypes, BlockInv
<1>4. \A b \in DOMAIN blocks : Settled(b) => Settled(b)'
  <2>1. \A r \in DOMAIN rows : Complete(r) => Complete(r)'
    BY DEF Complete
  <2>2. QED
    BY <1>1, <2>1, SettledKept DEF SyncInv
<1>5. n <= sync.head \/ n <= checkpoint => Settled(n)'
  BY <1>1 DEF Settled
<1>6. CallInv'
  <2>1. CASE rows' = rows
    BY <2>1 DEF SyncInv, CallInv, Known, Anchored, Honored
  <2>2. CASE sync = Idle
    BY <2>2, IdleFacts DEF SyncInv, StoreTypes
  <2>3. QED
    BY <2>1, <2>2
<1>7. SeenInv'
  <2>1. ASSUME NEW d, NEW br, Stable(d, br)
        PROVE  Stable(d, br)'
    <3>1. CASE d \in DOMAIN blocks /\ blocks[d].branch = br
      BY <1>1, <3>1 DEF Stable
    <3>2. CASE \A c \in DOMAIN blocks :
                 d <= c /\ c <= sync.head => blocks[c].tx \in missed \cup {NoTx}
      BY <1>1, <3>2 DEF Stable
    <3>3. QED
      BY <2>1, <3>1, <3>2 DEF Stable
  <2>2. QED
    BY <2>1 DEF SyncInv, SeenInv
<1>8. CoverInv'
  BY <1>1, <1>4, <1>5 DEF SyncInv, CoverInv
<1>9. ChunkInv'
  <2>1. n <= sync.upto => n <= sync.head
    BY <1>1, Bounds DEF SyncInv, CallInv, Calls, Heights
  <2>2. \A log : \A b \in DOMAIN blocks : Is(log, b)' <=> Is(log, b)
    BY <1>1 DEF Is
  <2>3. QED
    BY <1>1, <1>4, <1>5, <2>1, <2>2 DEF SyncInv, ChunkInv
<1>10. RevokedInv'
  <2>1. CASE rows' = rows
    BY <2>1 DEF SyncInv, RevokedInv, Anchored
  <2>2. CASE sync = Idle
    BY <2>2, IdleFacts DEF SyncInv, StoreTypes
  <2>3. QED
    BY <2>1, <2>2
<1>11. BreakerInv'
  BY DEF SyncInv, BreakerInv
<1>12. QED
  BY <1>2, <1>3, <1>6, <1>7, <1>8, <1>9, <1>10, <1>11 DEF SyncInv

LEMMA MineStep ==
  ASSUME SyncInv, NEW tx \in Contents, Mine(tx)
  PROVE  SyncInv'
<1>1. /\ Append1(tx)
      /\ UNCHANGED <<branch, authorized, sent, version, rows, devices, checkpoint, sync>>
  BY DEF Mine, storeVars
<1>2. sent' \in BOOLEAN
  BY <1>1 DEF SyncInv, ChainTypes
<1>3. QED
  BY <1>1, <1>2, AppendStep

\* The answer to the publish gives this device's row its block, or is lost.
LEMMA PublishStep == SyncInv /\ publish => SyncInv'
<1> SUFFICES ASSUME SyncInv, publish PROVE SyncInv'
  OBVIOUS
<1>1. /\ sync = Idle /\ ~sent /\ Own(OwnTx) \in DOMAIN rows /\ Append1(OwnTx)
      /\ rows' \in {rows, [rows EXCEPT ![Own(OwnTx)].block = Len(blocks) + 1]}
      /\ UNCHANGED <<branch, authorized, version, devices, checkpoint, sync>>
  BY DEF publish
<1>2. sent' = TRUE
  BY DEF publish
<1>3. OwnTx \in Contents
  BY Bounds DEF Contents
<1>4. rows[Own(OwnTx)].block = 0 /\ rows[Own(OwnTx)] \in Rows
  BY <1>1 DEF SyncInv, BlockInv, StoreTypes
<1>5. Len(blocks) + 1 \in Heights
  BY <1>1, Bounds DEF SyncInv, ChainTypes, Heights, Append1
<1>6. CASE rows' = rows
  BY <1>1, <1>2, <1>3, <1>6, AppendStep
<1>7. CASE rows' = [rows EXCEPT ![Own(OwnTx)].block = Len(blocks) + 1]
  <2>1. DOMAIN rows' = DOMAIN rows
    BY <1>7
  <2>2. ASSUME NEW r \in DOMAIN rows, r # Own(OwnTx)
        PROVE  rows'[r] = rows[r]
    BY <1>7, <2>2
  <2>3. rows'[Own(OwnTx)] = [rows[Own(OwnTx)] EXCEPT !.block = Len(blocks) + 1]
    BY <1>1, <1>7
  <2>4. /\ rows'[Own(OwnTx)] \in Rows /\ rows'[Own(OwnTx)].branch = rows[Own(OwnTx)].branch
        /\ rows'[Own(OwnTx)].signed = rows[Own(OwnTx)].signed
    BY <1>4, <1>5, <2>3 DEF Rows
  <2>5. Complete(Own(OwnTx)) => Complete(Own(OwnTx))'
    BY <1>1, <2>4 DEF Complete
  <2>6. QED
    BY <1>1, <1>2, <1>3, <1>4, <2>1, <2>2, <2>4, <2>5, AppendStep
<1>8. QED
  BY <1>1, <1>6, <1>7

\* A reorg only takes blocks away: what was stable above the cut has no block left.
LEMMA ReorgStep ==
  ASSUME SyncInv, NEW keep \in 0..MaxHeight, Reorg(keep)
  PROVE  SyncInv'
<1>1. /\ blocks' = SubSeq(blocks, 1, keep) /\ branch' = branch + 1 /\ branch < MaxReorgs
      /\ keep \in 0..(Len(blocks) - 1)
      /\ UNCHANGED <<authorized, sent, version, storeVars, missed>>
      /\ \/ sync' = sync
         \/ /\ sync.pc \in {"recv", "ws_stamp", "ws_sign"}
            /\ sync' = [sync EXCEPT !.removed = sync.removed \cup Dropped(keep)]
  BY DEF Reorg
<1>2. blocks \in Seq(Blocks) /\ Len(blocks) \in 0..MaxHeight /\ branch \in 0..MaxReorgs
  BY DEF SyncInv, ChainTypes, Heights, Branches
<1>3. /\ blocks' \in Seq(Blocks) /\ Len(blocks') = keep /\ DOMAIN blocks' = 1..keep
      /\ DOMAIN blocks = 1..Len(blocks)
      /\ \A b \in 1..keep : b \in DOMAIN blocks /\ blocks'[b] = blocks[b]
  BY <1>1, <1>2, Bounds
<1>4. branch + 1 \in Branches /\ keep \in Heights
  BY <1>1, <1>2, Bounds DEF Branches, Heights
<1>a. Dropped(keep) \subseteq Logs /\ \A log \in Dropped(keep) : log.tx \in Txs /\ log.block # 0
  <2>1. \A b \in DOMAIN blocks : Log(b) \in Logs /\ Log(b).block = b /\ b # 0
    BY LogFacts DEF SyncInv
  <2>2. \A log \in Dropped(keep) : log \in Logs /\ log.tx # NoTx /\ log.block # 0
    BY <2>1 DEF Dropped
  <2>3. QED
    BY <2>2 DEF Logs, Contents
<1>b. /\ sync' \in Calls /\ sync'.pc = sync.pc /\ sync'.cursor = sync.cursor
      /\ sync'.head = sync.head /\ sync'.upto = sync.upto /\ sync'.todo = sync.todo
      /\ sync'.seen = sync.seen /\ sync'.log = sync.log /\ sync'.set = sync.set
      /\ sync'.failures = sync.failures /\ sync'.tries = sync.tries
      /\ sync'.fresh = sync.fresh
      /\ sync'.removed = sync.removed \/ sync.pc \in {"recv", "ws_stamp", "ws_sign"}
      /\ sync'.removed \subseteq sync.removed \cup Dropped(keep)
  <2>1. sync \in Calls
    BY DEF SyncInv
  <2>2. CASE sync' = sync
    BY <2>1, <2>2
  <2>3. CASE /\ sync.pc \in {"recv", "ws_stamp", "ws_sign"}
             /\ sync' = [sync EXCEPT !.removed = sync.removed \cup Dropped(keep)]
    BY <1>a, <2>1, <2>3 DEF Calls
  <2>4. QED
    BY <1>1, <2>2, <2>3
<1>5. ChainTypes' /\ sync' \in Calls
  BY <1>1, <1>3, <1>4, <1>b DEF SyncInv, ChainTypes
<1>6. StoreTypes' /\ BlockInv'
  BY <1>1 DEF SyncInv, StoreTypes, BlockInv, storeVars
<1>7. \A b \in 1..keep : Settled(b) => Settled(b)'
  <2>1. \A r \in DOMAIN rows : Complete(r) => Complete(r)'
    BY <1>1 DEF Complete, storeVars
  <2>2. QED
    BY <1>1, <1>3, <2>1, SettledKept DEF SyncInv, storeVars
<1>8. CallInv'
  BY <1>1, <1>a, <1>b DEF SyncInv, CallInv, Known, Anchored, Honored, storeVars
<1>9. SeenInv'
  <2>1. ASSUME NEW d \in Heights, NEW br, Stable(d, br)
        PROVE  Stable(d, br)'
    <3>1. CASE d \in 1..keep
      BY <1>1, <1>3, <1>b, <2>1, <3>1 DEF Stable
    <3>2. CASE d \notin 1..keep /\ d # 0
      <4>1. \A c \in 1..keep : ~(d <= c)
        BY <3>2, Bounds DEF Heights
      <4>2. QED
        BY <1>3, <4>1 DEF Stable
    <3>3. CASE d = 0
      BY <1>1, <1>3, <1>b, <2>1, <3>3 DEF Stable
    <3>4. QED
      BY <3>1, <3>2, <3>3
  <2>2. /\ \A log \in sync.todo : log.block \in Heights
        /\ sync.log.block \in Heights /\ DOMAIN sync.seen \subseteq Heights
    BY DEF SyncInv, Calls, Logs, Seen
  <2>3. QED
    BY <1>b, <2>1, <2>2 DEF SyncInv, SeenInv
<1>10. CoverInv'
  BY <1>1, <1>3, <1>7 DEF SyncInv, CoverInv, storeVars
<1>11. ChunkInv'
  <2>1. \A log : \A b \in 1..keep : Is(log, b)' <=> Is(log, b)
    BY <1>3 DEF Is
  <2>2. QED
    BY <1>1, <1>3, <1>7, <1>b, <2>1 DEF SyncInv, ChunkInv
<1>12. RevokedInv' /\ BreakerInv'
  BY <1>1, <1>b DEF SyncInv, RevokedInv, BreakerInv, Anchored, storeVars
<1>13. QED
  BY <1>5, <1>6, <1>8, <1>9, <1>10, <1>11, <1>12 DEF SyncInv

\* A change of the device set: the running call keeps the set it has read.
LEMMA ChangeSetStep ==
  ASSUME SyncInv, NEW set \in SUBSET Devices, ChangeSet(set)
  PROVE  SyncInv'
<1>1. authorized' = set /\ UNCHANGED <<blocks, branch, sent, version, storeVars, sync, missed>>
  BY DEF ChangeSet
<1>2. ChainTypes' /\ StoreTypes' /\ sync' \in Calls /\ BlockInv'
  BY <1>1 DEF SyncInv, ChainTypes, StoreTypes, BlockInv, storeVars
<1>3. CallInv' /\ SeenInv'
  BY <1>1 DEF SyncInv, CallInv, SeenInv, Stable, Known, Anchored, Honored, storeVars
<1>4. \A b : Settled(b)' <=> Settled(b)
  BY <1>1 DEF Settled, Complete, Known, Anchored, Log, storeVars
<1>5. CoverInv' /\ ChunkInv'
  BY <1>1, <1>4 DEF SyncInv, CoverInv, ChunkInv, Is, storeVars
<1>6. RevokedInv' /\ BreakerInv'
  BY <1>1 DEF SyncInv, RevokedInv, BreakerInv, Anchored, storeVars
<1>7. QED
  BY <1>2, <1>3, <1>5, <1>6 DEF SyncInv

LEMMA StutterStep == SyncInv /\ UNCHANGED vars => SyncInv'
<1> SUFFICES ASSUME SyncInv, UNCHANGED vars PROVE SyncInv'
  OBVIOUS
<1>1. UNCHANGED <<chainVars, version, storeVars, sync, missed>>
  BY DEF vars
<1>2. sync' \in Calls /\ CallInv' /\ SeenInv'
  BY <1>1 DEF SyncInv, CallInv, SeenInv, Stable, Known, Anchored, Honored, chainVars, storeVars
<1>3. \A b : Settled(b)' <=> Settled(b)
  BY <1>1 DEF Settled, Complete, Known, Anchored, Log, chainVars, storeVars
<1>4. ChunkInv'
  BY <1>1, <1>3 DEF SyncInv, ChunkInv, Is, chainVars, storeVars
<1>5. RevokedInv' /\ BreakerInv'
  BY <1>1 DEF SyncInv, RevokedInv, BreakerInv, Anchored, storeVars
<1>6. QED
  BY <1>1, <1>2, <1>4, <1>5, CallStep

-----------------------------------------------------------------------------
(* Steps that rewrite rows in place.                                       *)

\* A row keeps its block and its stamps.
Keeps(r) ==
  /\ rows'[r] \in Rows /\ rows'[r].block = rows[r].block /\ rows'[r].branch = rows[r].branch
  /\ Complete(r) => Complete(r)'

\* Rows that keep their block and their stamps keep the blocks settled.
LEMMA RowsKept ==
  ASSUME SyncInv, UNCHANGED <<chainVars, version, devices, missed>>, checkpoint' \in Heights,
         DOMAIN rows' = DOMAIN rows,
         \A r \in DOMAIN rows : Keeps(r)
  PROVE  /\ ChainTypes' /\ StoreTypes' /\ BlockInv'
         /\ \A b \in DOMAIN blocks : Settled(b) => Settled(b)'
         /\ checkpoint' = checkpoint => CoverInv'
         /\ \A d, br : Stable(d, br) /\ sync'.head = sync.head => Stable(d, br)'
<1>1. ChainTypes'
  BY DEF SyncInv, ChainTypes, chainVars
<1>2. StoreTypes' /\ BlockInv'
  BY DEF SyncInv, StoreTypes, BlockInv, Keeps, chainVars
<1>3. \A b \in DOMAIN blocks : Settled(b) => Settled(b)'
  BY SettledKept DEF SyncInv, Keeps, chainVars
<1>4. checkpoint' = checkpoint => CoverInv'
  BY <1>3 DEF SyncInv, CoverInv, chainVars
<1>5. \A d, br : Stable(d, br) /\ sync'.head = sync.head => Stable(d, br)'
  BY DEF Stable, chainVars
<1>6. QED
  BY <1>1, <1>2, <1>3, <1>4, <1>5

\* promote_finalized_revisions changes the status only.
LEMMA PromotedKept ==
  ASSUME SyncInv, NEW tip \in Heights, rows' = Promoted(tip), version' = version
  PROVE  /\ DOMAIN rows' = DOMAIN rows
         /\ \A r \in DOMAIN rows : Keeps(r)
<1>1. DOMAIN rows' = DOMAIN rows
  BY DEF Promoted
<1>2. ASSUME NEW r \in DOMAIN rows
      PROVE  Keeps(r)
  <2>1. rows[r] \in Rows
    BY DEF SyncInv, StoreTypes
  <2>2. rows'[r] = rows[r] \/ rows'[r] = [rows[r] EXCEPT !.status = "finalized"]
    BY DEF Promoted
  <2>3. /\ rows'[r] \in Rows /\ rows'[r].block = rows[r].block
        /\ rows'[r].branch = rows[r].branch /\ rows'[r].signed = rows[r].signed
    BY <2>1, <2>2 DEF Rows
  <2>4. QED
    BY <2>3 DEF Keeps, Complete
<1>3. QED
  BY <1>1, <1>2

\* reevaluate_revocation_against_set changes the mark only, and leaves no row of a signer
\* outside the set unmarked.
LEMMA ReevaluatedKept ==
  ASSUME SyncInv, rows' = Reevaluated(sync.set), version' = version
  PROVE  /\ DOMAIN rows' = DOMAIN rows
         /\ \A r \in DOMAIN rows : Keeps(r)
         /\ \A r \in DOMAIN rows :
              rows'[r].block # 0 /\ ~rows'[r].revoked => rows'[r].signed /\ Sender[r[2]] \in sync.set
<1>1. DOMAIN rows' = DOMAIN rows
  BY DEF Reevaluated
<1>2. ASSUME NEW r \in DOMAIN rows
      PROVE  /\ Keeps(r)
             /\ rows'[r].block # 0 /\ ~rows'[r].revoked =>
                  rows'[r].signed /\ Sender[r[2]] \in sync.set
  <2>1. rows[r] \in Rows /\ WantRevoked(r, sync.set) \in BOOLEAN
    BY DEF SyncInv, StoreTypes, WantRevoked
  <2>2. CASE rows[r].block = 0
    <3>1. rows'[r] = rows[r]
      BY <2>2 DEF Reevaluated
    <3>2. Keeps(r)
      BY <2>1, <3>1 DEF Keeps, Complete
    <3>3. QED
      BY <2>2, <3>1, <3>2
  <2>3. CASE rows[r].block # 0
    <3>1. rows'[r] = [rows[r] EXCEPT !.revoked = WantRevoked(r, sync.set)]
      BY <2>3 DEF Reevaluated
    <3>2. /\ rows'[r] \in Rows /\ rows'[r].block = rows[r].block
          /\ rows'[r].branch = rows[r].branch
      BY <2>1, <3>1 DEF Rows
    <3>3. rows'[r].revoked = WantRevoked(r, sync.set) /\ rows'[r].signed = rows[r].signed
      BY <2>1, <3>1 DEF Rows
    <3>4. WantRevoked(r, sync.set) = ~(rows[r].signed /\ Sender[r[2]] \in sync.set)
      BY DEF WantRevoked
    <3>5. ~rows'[r].revoked => rows'[r].signed /\ Sender[r[2]] \in sync.set
      BY <3>3, <3>4, Zenon
    <3>6. Keeps(r)
      BY <3>2, <3>3 DEF Keeps, Complete
    <3>7. QED
      BY <3>5, <3>6
  <2>4. QED
    BY <2>2, <2>3
<1>3. QED
  BY <1>1, <1>2

\* The call ends with a last promotion.
LEMMA FinishStep == SyncInv /\ finish => SyncInv'
<1> SUFFICES ASSUME SyncInv, finish PROVE SyncInv'
  OBVIOUS
<1>1. /\ sync' = Idle /\ UNCHANGED <<chainVars, version, devices, checkpoint, missed>>
      /\ rows' = rows \/ rows' = Promoted(sync.head)
  BY DEF finish
<1>2. checkpoint' \in Heights /\ sync.head \in Heights
  BY <1>1 DEF SyncInv, StoreTypes, Calls
<1>3. /\ DOMAIN rows' = DOMAIN rows
      /\ \A r \in DOMAIN rows : Keeps(r)
  BY <1>1, <1>2, PromotedKept DEF SyncInv, StoreTypes, Keeps, Complete
<1>4. ChainTypes' /\ StoreTypes' /\ BlockInv' /\ CoverInv'
  BY <1>1, <1>2, <1>3, RowsKept
<1>5. sync' \in Calls /\ CallInv' /\ SeenInv' /\ ChunkInv' /\ RevokedInv' /\ BreakerInv'
  BY <1>1, <1>2, IdleFacts
<1>6. QED
  BY <1>4, <1>5 DEF SyncInv

\* The passes after the last chunk: the call goes on to the next pass, to the tail, or ends.
LEMMA PassStep ==
  ASSUME SyncInv, sync.pc \in {"fetch", "reevaluate"},
         UNCHANGED <<chainVars, version, devices, checkpoint, missed>>,
         DOMAIN rows' = DOMAIN rows,
         \A r \in DOMAIN rows : Keeps(r),
         sync' \in {[sync EXCEPT !.pc = "reevaluate"], TipFollow, Idle},
         RevokedInv'
  PROVE  SyncInv'
<1>1. sync \in Calls /\ checkpoint' \in Heights
  BY DEF SyncInv, StoreTypes
<1>2. /\ ChainTypes' /\ StoreTypes' /\ BlockInv' /\ CoverInv'
      /\ \A d, br : Stable(d, br) /\ sync'.head = sync.head => Stable(d, br)'
  BY <1>1, RowsKept
<1>3. CASE sync' = Idle
  BY <1>1, <1>2, <1>3, IdleFacts DEF SyncInv
<1>4. CASE sync' \in {[sync EXCEPT !.pc = "reevaluate"], TipFollow}
  <2>1. NothingSeen \in Seen /\ DOMAIN NothingSeen = {}
    <3>1. NothingSeen \in [{} -> Branches] /\ DOMAIN NothingSeen = {}
      BY DEF NothingSeen
    <3>2. QED
      BY <3>1 DEF Seen
  <2>2. sync' \in Calls
    <3>1. CASE sync' = TipFollow
      <4>1. 0 \in Heights
        BY Bounds DEF Heights
      <4>2. QED
        BY <1>1, <2>1, <3>1, <4>1 DEF Calls, Phases, TipFollow
    <3>2. CASE sync' = [sync EXCEPT !.pc = "reevaluate"]
      BY <1>1, <3>2 DEF Calls, Phases
    <3>3. QED
      BY <1>4, <3>1, <3>2
  <2>3. /\ sync'.pc \in {"reevaluate", "open"} /\ sync'.cursor = sync.cursor
        /\ sync'.head = sync.head /\ sync'.upto = sync.upto /\ sync'.todo = sync.todo
        /\ sync'.log = sync.log /\ sync'.failures = sync.failures /\ sync'.tries = sync.tries
        /\ sync'.fresh = sync.fresh /\ sync'.removed = sync.removed
        /\ sync'.seen = sync.seen \/ sync'.seen = NothingSeen
    BY <1>1, <1>4 DEF Calls, TipFollow
  <2>4. CallInv'
    BY <2>3 DEF SyncInv, CallInv
  <2>5. SeenInv'
    BY <1>2, <2>1, <2>3 DEF SyncInv, SeenInv
  <2>6. ChunkInv'
    BY <2>3 DEF ChunkInv
  <2>7. BreakerInv'
    <3>1. sync.tries = 0 /\ sync.failures = 0 /\ ~sync.fresh
      BY DEF SyncInv, BreakerInv
    <3>2. QED
      BY <2>3, <3>1 DEF BreakerInv
  <2>8. QED
    BY <1>2, <2>2, <2>4, <2>5, <2>6, <2>7 DEF SyncInv
<1>5. QED
  BY <1>3, <1>4

LEMMA PromoteRestStep == SyncInv /\ promote_rest => SyncInv'
<1> SUFFICES ASSUME SyncInv, promote_rest PROVE SyncInv'
  OBVIOUS
<1>1. /\ sync.pc = "fetch" /\ rows' = Promoted(sync.head)
      /\ UNCHANGED <<chainVars, version, devices, checkpoint, missed>>
      /\ version = "V2" => sync' = [sync EXCEPT !.pc = "reevaluate"]
      /\ sync' \in {[sync EXCEPT !.pc = "reevaluate"], TipFollow, Idle}
  BY DEF promote_rest, At
<1>2. sync \in Calls /\ sync.head \in Heights
  BY DEF SyncInv, Calls
<1>3. RevokedInv'
  BY <1>1, <1>2 DEF RevokedInv, Calls
<1>4. QED
  BY <1>1, <1>2, <1>3, PromotedKept, PassStep

LEMMA ReevaluateStep == SyncInv /\ reevaluate => SyncInv'
<1> SUFFICES ASSUME SyncInv, reevaluate PROVE SyncInv'
  OBVIOUS
<1>1. /\ sync.pc = "reevaluate" /\ rows' = Reevaluated(sync.set)
      /\ UNCHANGED <<chainVars, version, devices, checkpoint, missed>>
      /\ sync' \in {TipFollow, Idle}
  BY DEF reevaluate, At
<1>2. /\ DOMAIN rows' = DOMAIN rows
      /\ \A r \in DOMAIN rows : Keeps(r)
      /\ \A r \in DOMAIN rows :
           rows'[r].block # 0 /\ ~rows'[r].revoked => rows'[r].signed /\ Sender[r[2]] \in sync.set
  BY <1>1, ReevaluatedKept
<1>3. sync'.pc = "idle" \/ sync'.set = sync.set
  <2>1. sync \in Calls
    BY DEF SyncInv
  <2>2. CASE sync' = Idle
    BY <2>2 DEF Idle
  <2>3. CASE sync' = TipFollow
    BY <2>1, <2>3 DEF Calls, TipFollow
  <2>4. QED
    BY <1>1, <2>2, <2>3
<1>4. RevokedInv'
  BY <1>2, <1>3 DEF RevokedInv
<1>5. QED
  BY <1>1, <1>2, <1>4, PassStep

\* The checkpoint moves to the end of a chunk whose blocks are all settled.
LEMMA AdvanceStep == SyncInv /\ advance_checkpoint => SyncInv'
<1> SUFFICES ASSUME SyncInv, advance_checkpoint PROVE SyncInv'
  OBVIOUS
<1>1. /\ sync.pc = "advance" /\ rows' = Promoted(sync.head)
      /\ UNCHANGED <<chainVars, version, devices, missed>>
      /\ checkpoint' = Advanced(sync.upto)
      /\ sync' = IF sync.upto < checkpoint THEN Idle
                 ELSE [sync EXCEPT !.pc = "fetch", !.cursor = sync.upto, !.upto = 0]
  BY DEF advance_checkpoint, At
<1>2. /\ sync \in Calls /\ sync.head \in Heights /\ sync.upto \in Heights /\ sync.cursor \in Heights
      /\ checkpoint \in Heights /\ sync.cursor <= checkpoint /\ 0 \in Heights
  BY Bounds DEF SyncInv, Calls, StoreTypes, CallInv, Heights
<1>3. checkpoint' \in Heights
  BY <1>1, <1>2 DEF Advanced
<1>4. /\ DOMAIN rows' = DOMAIN rows
      /\ \A r \in DOMAIN rows : Keeps(r)
  BY <1>1, <1>2, PromotedKept
<1>5. /\ ChainTypes' /\ StoreTypes' /\ BlockInv'
      /\ checkpoint' = checkpoint => CoverInv'
      /\ \A b \in DOMAIN blocks : Settled(b) => Settled(b)'
      /\ \A d, br : Stable(d, br) /\ sync'.head = sync.head => Stable(d, br)'
  BY <1>1, <1>3, <1>4, RowsKept
<1>6. CASE sync.upto < checkpoint
  <2>1. sync' = Idle /\ checkpoint' = checkpoint
    BY <1>1, <1>6 DEF Advanced
  <2>2. QED
    BY <1>3, <1>5, <2>1, IdleFacts DEF SyncInv
<1>7. CASE ~(sync.upto < checkpoint)
  <2>1. /\ checkpoint' = sync.upto
        /\ sync' = [sync EXCEPT !.pc = "fetch", !.cursor = sync.upto, !.upto = 0]
    BY <1>1, <1>7 DEF Advanced
  <2>2. sync' \in Calls
    BY <1>2, <2>1 DEF Calls, Phases
  <2>3. /\ sync'.pc = "fetch" /\ sync'.cursor = sync.upto /\ sync'.upto = 0
        /\ sync'.head = sync.head /\ sync'.todo = sync.todo
        /\ sync'.log = sync.log /\ sync'.failures = sync.failures /\ sync'.tries = sync.tries
        /\ sync'.fresh = sync.fresh /\ sync'.seen = sync.seen /\ sync'.removed = sync.removed
    BY <1>2, <2>1 DEF Calls
  <2>4. CallInv'
    BY <1>1, <1>2, <2>1, <2>3 DEF SyncInv, CallInv, Heights
  <2>5. SeenInv'
    BY <1>1, <1>5, <2>3 DEF SyncInv, SeenInv
  <2>6. CoverInv'
    <3>1. ASSUME NEW b \in DOMAIN blocks, b <= sync.upto
          PROVE  Settled(b)
      <4>1. b \in Nat
        BY LogFacts DEF SyncInv
      <4>2. CASE b <= sync.cursor
        BY <1>2, <4>1, <4>2 DEF SyncInv, CoverInv, Heights
      <4>3. CASE sync.cursor < b
        BY <1>1, <3>1, <4>3 DEF SyncInv, ChunkInv
      <4>4. QED
        BY <1>2, <4>1, <4>2, <4>3 DEF Heights
    <3>2. QED
      BY <1>1, <1>5, <2>1, <3>1 DEF CoverInv, chainVars
  <2>7. ChunkInv' /\ RevokedInv'
    BY <2>3 DEF ChunkInv, RevokedInv
  <2>8. BreakerInv'
    BY <1>1, <2>3 DEF SyncInv, BreakerInv
  <2>9. QED
    BY <1>5, <2>2, <2>4, <2>5, <2>6, <2>7, <2>8 DEF SyncInv
<1>8. QED
  BY <1>6, <1>7

-----------------------------------------------------------------------------
(* An event is ingested.                                                   *)

\* ingest_chain_revision: afterwards the event is known, and no settled block has got an
\* unstamped row.
LEMMA IngestFacts ==
  ASSUME SyncInv, NEW log \in Logs, log.tx \in Txs, log.block # 0, Ingest(log),
         UNCHANGED <<chainVars, version, checkpoint, missed>>, devices' \subseteq Devices
  PROVE  /\ ChainTypes' /\ StoreTypes' /\ BlockInv' /\ CoverInv'
         /\ Known(log)'
         /\ \A r \in DOMAIN rows : r \in DOMAIN rows' /\ rows'[r] = rows[r]
         /\ \A r \in DOMAIN rows' \ DOMAIN rows : r \in Anchored(log)'
         /\ \A b \in DOMAIN blocks : Settled(b) => Settled(b)'
<1>1. ChainTypes'
  BY DEF SyncInv, ChainTypes, chainVars
<1>2. CASE Known(log)
  <2>1. rows' = rows
    BY <1>2 DEF Ingest
  <2>2. StoreTypes' /\ BlockInv' /\ Known(log)'
    BY <1>2, <2>1 DEF SyncInv, StoreTypes, BlockInv, Known, Anchored, chainVars
  <2>3. \A b \in DOMAIN blocks : Settled(b) => Settled(b)'
    BY <2>1 DEF Settled, Complete, Known, Anchored, Log, chainVars
  <2>4. CoverInv'
    BY <2>3 DEF SyncInv, CoverInv, chainVars
  <2>5. QED
    BY <1>1, <2>1, <2>2, <2>3, <2>4
<1>3. CASE ~Known(log)
  <2> DEFINE new == Chain(log.tx)
  <2>1. /\ rows' = [r \in DOMAIN rows \cup {new} |-> IF r = new THEN Row(log.block) ELSE rows[r]]
        /\ new \notin DOMAIN rows /\ Anchored(log) = {}
    BY <1>3 DEF Ingest, Known
  <2>2. log.block \in Heights /\ Row(log.block) \in Rows /\ Row(log.block).block = log.block
    BY DEF Logs, Row, Rows
  <2>3. /\ DOMAIN rows' = DOMAIN rows \cup {new} /\ rows'[new] = Row(log.block)
        /\ \A r \in DOMAIN rows : rows'[r] = rows[r]
    BY <2>1
  <2>4. new \in Ids /\ new # Own(OwnTx) /\ new[2] = log.tx
    BY Names, Bounds DEF Ids
  <2>5. StoreTypes' /\ BlockInv'
    BY <2>2, <2>3, <2>4 DEF SyncInv, StoreTypes, BlockInv, chainVars
  <2>6. Known(log)' /\ new \in Anchored(log)'
    BY <2>2, <2>3, <2>4 DEF Known, Anchored
  <2>7. ASSUME NEW b \in DOMAIN blocks, Settled(b)
        PROVE  Settled(b)'
    <3>1. Log(b).tx = blocks[b].tx /\ Log(b).block = b
      BY LogFacts DEF SyncInv
    <3>2. CASE blocks[b].tx \in missed \cup {NoTx}
      BY <3>2 DEF Settled, chainVars
    <3>3. CASE blocks[b].tx \notin missed \cup {NoTx}
      <4>1. Known(Log(b)) /\ blocks[b].tx \in Txs
        <5>1. blocks[b] \in Blocks
          BY DEF SyncInv, ChainTypes
        <5>2. QED
          BY <2>7, <3>3, <5>1 DEF Settled, Blocks, Contents
      <4>2. Chain(blocks[b].tx) = new => log.block # b
        <5>1. SUFFICES ASSUME Chain(blocks[b].tx) = new, log.block = b PROVE FALSE
          OBVIOUS
        <5>2. blocks[b].tx = log.tx
          BY <4>1, <5>1, Names
        <5>3. QED
          BY <2>1, <3>1, <4>1, <5>1, <5>2 DEF Known, Anchored
      <4>3. \/ Chain(blocks[b].tx) \in DOMAIN rows \/ Chain(blocks[b].tx) \notin DOMAIN rows'
            \/ rows'[Chain(blocks[b].tx)].block # b
        BY <2>2, <2>3, <4>2
      <4>4. \A r \in DOMAIN rows : Complete(r) => Complete(r)'
        BY <2>3 DEF Complete
      <4>5. QED
        BY <2>3, <2>7, <4>3, <4>4, SettledKept DEF SyncInv, chainVars
    <3>4. QED
      BY <3>2, <3>3
  <2>8. CoverInv'
    BY <2>7 DEF SyncInv, CoverInv, chainVars
  <2>9. QED
    BY <1>1, <2>3, <2>5, <2>6, <2>7, <2>8
<1>4. QED
  BY <1>2, <1>3

\* A gated event is counted only: it is a missed one from then on.
LEMMA GatedFacts ==
  ASSUME SyncInv, NEW tx \in Txs, missed' = missed \cup {tx},
         UNCHANGED <<chainVars, version, rows, devices, checkpoint>>
  PROVE  /\ ChainTypes' /\ StoreTypes' /\ BlockInv' /\ CoverInv'
         /\ \A b \in DOMAIN blocks : Settled(b) => Settled(b)'
<1>1. ChainTypes' /\ StoreTypes' /\ BlockInv'
  BY DEF SyncInv, ChainTypes, StoreTypes, BlockInv, chainVars
<1>2. \A b \in DOMAIN blocks : Settled(b) => Settled(b)'
  BY DEF Settled, Complete, Known, Anchored, Log, chainVars
<1>3. CoverInv'
  BY <1>2 DEF SyncInv, CoverInv, chainVars
<1>4. QED
  BY <1>1, <1>2, <1>3

\* The next event of the chunk.
LEMMA IngestEventStep == SyncInv /\ ingest_event => SyncInv'
<1> SUFFICES ASSUME SyncInv, ingest_event PROVE SyncInv'
  OBVIOUS
<1>1. PICK log \in sync.todo : ingest(log, [sync EXCEPT !.todo = sync.todo \ {log}])
  BY DEF ingest_event
<1>2. sync.pc = "next" /\ UNCHANGED <<chainVars, version, checkpoint>>
  BY DEF ingest_event, At
<1>3. /\ sync \in Calls /\ log \in Logs /\ log.tx \in Txs /\ Sender[log.tx] \in Devices
      /\ log.block # 0
      /\ devices \subseteq Devices
  BY Bounds DEF SyncInv, Calls, CallInv, StoreTypes
<1>4. \A d, br : Stable(d, br) /\ sync'.head = sync.head /\ missed \subseteq missed' => Stable(d, br)'
  BY <1>2 DEF Stable, chainVars
<1>5. CASE Honored(log.tx)
  <2>1. /\ devices' = devices \cup {Sender[log.tx]} /\ Ingest(log) /\ missed' = missed
        /\ sync' = [[sync EXCEPT !.todo = sync.todo \ {log}] EXCEPT !.pc = "stamp", !.log = log]
    BY <1>1, <1>2, <1>5 DEF ingest, StampPhase, At
  <2>2. /\ ChainTypes' /\ StoreTypes' /\ BlockInv' /\ CoverInv' /\ Known(log)'
        /\ \A b \in DOMAIN blocks : Settled(b) => Settled(b)'
    BY <1>2, <1>3, <2>1, IngestFacts
  <2>4. sync' \in Calls
    BY <1>3, <2>1 DEF Calls, Phases
  <2>5. /\ sync'.pc = "stamp" /\ sync'.cursor = sync.cursor /\ sync'.upto = sync.upto
        /\ sync'.head = sync.head /\ sync'.todo = sync.todo \ {log} /\ sync'.set = sync.set
        /\ sync'.log = log /\ sync'.failures = sync.failures /\ sync'.tries = sync.tries
        /\ sync'.fresh = sync.fresh /\ sync'.seen = sync.seen /\ sync'.removed = sync.removed
    BY <1>3, <2>1 DEF Calls
  <2>6. CallInv'
    BY <1>2, <1>3, <1>5, <2>2, <2>5 DEF SyncInv, CallInv, Honored
  <2>7. SeenInv'
    BY <1>4, <2>1, <2>5 DEF SyncInv, SeenInv
  <2>8. ChunkInv'
    <3>1. ASSUME NEW b \in DOMAIN blocks, sync.cursor < b, b <= sync.upto
          PROVE  \/ Settled(b)' \/ \E other \in sync.todo \ {log} : Is(other, b)'
                 \/ Is(log, b)'
      BY <1>2, <2>2, <3>1 DEF SyncInv, ChunkInv, Is, chainVars
    <3>2. QED
      BY <1>2, <2>5, <3>1 DEF ChunkInv, Is, chainVars
  <2>9. RevokedInv'
    BY <2>5 DEF RevokedInv
  <2>10. BreakerInv'
    BY <1>2, <2>5 DEF SyncInv, BreakerInv
  <2>11. QED
    BY <2>2, <2>4, <2>6, <2>7, <2>8, <2>9, <2>10 DEF SyncInv
<1>6. CASE ~Honored(log.tx)
  <2>1. /\ missed' = missed \cup {log.tx} /\ UNCHANGED <<rows, devices>>
        /\ sync' = [sync EXCEPT !.todo = sync.todo \ {log}]
    BY <1>1, <1>6 DEF ingest
  <2>2. /\ ChainTypes' /\ StoreTypes' /\ BlockInv' /\ CoverInv'
        /\ \A b \in DOMAIN blocks : Settled(b) => Settled(b)'
    BY <1>2, <1>3, <2>1, GatedFacts
  <2>3. sync' \in Calls
    BY <1>3, <2>1 DEF Calls
  <2>4. /\ sync'.pc = "next" /\ sync'.cursor = sync.cursor /\ sync'.upto = sync.upto
        /\ sync'.head = sync.head /\ sync'.todo = sync.todo \ {log}
        /\ sync'.log = sync.log /\ sync'.failures = sync.failures /\ sync'.tries = sync.tries
        /\ sync'.fresh = sync.fresh /\ sync'.seen = sync.seen /\ sync'.removed = sync.removed
    BY <1>2, <1>3, <2>1 DEF Calls
  <2>5. CallInv'
    BY <1>2, <2>4 DEF SyncInv, CallInv
  <2>6. SeenInv'
    BY <1>4, <2>1, <2>4 DEF SyncInv, SeenInv
  <2>7. ChunkInv'
    <3>1. ASSUME NEW b \in DOMAIN blocks, sync.cursor < b, b <= sync.upto
          PROVE  Settled(b)' \/ \E other \in sync.todo \ {log} : Is(other, b)'
      <4>1. CASE Settled(b) \/ \E other \in sync.todo \ {log} : Is(other, b)
        BY <1>2, <2>2, <4>1 DEF Is, chainVars
      <4>2. CASE Is(log, b)
        BY <1>2, <2>1, <4>2 DEF Is, Settled, chainVars
      <4>3. QED
        BY <1>2, <3>1, <4>1, <4>2 DEF SyncInv, ChunkInv
    <3>2. QED
      BY <1>2, <2>4, <3>1 DEF ChunkInv, chainVars
  <2>8. RevokedInv'
    BY <2>4 DEF RevokedInv
  <2>9. BreakerInv'
    BY <1>2, <2>4 DEF SyncInv, BreakerInv
  <2>10. QED
    BY <2>2, <2>3, <2>5, <2>6, <2>7, <2>8, <2>9 DEF SyncInv
<1>7. QED
  BY <1>5, <1>6

\* An event of the tail, whichever it is: of the other fields of the call only the
\* subscription's position and what it still has to deliver change.
LEMMA TailIngestStep ==
  ASSUME SyncInv, sync.pc = "recv", NEW log \in Logs, log.tx \in Txs, log.block # 0,
         NEW n \in Heights, NEW removed \in SUBSET sync.removed,
         ingest(log, [sync EXCEPT !.sub = n, !.removed = removed]),
         UNCHANGED <<chainVars, version, checkpoint>>
  PROVE  SyncInv'
<1> DEFINE ret == [sync EXCEPT !.sub = n, !.removed = removed]
<1>1. sync \in Calls /\ Sender[log.tx] \in Devices /\ devices \subseteq Devices
  BY Bounds DEF SyncInv, StoreTypes
<1>2. /\ ret \in Calls /\ ret.pc = "recv" /\ ret.cursor = sync.cursor /\ ret.upto = sync.upto
      /\ ret.head = sync.head /\ ret.todo = sync.todo /\ ret.set = sync.set
      /\ ret.log = sync.log /\ ret.failures = sync.failures /\ ret.tries = sync.tries
      /\ ret.fresh = sync.fresh /\ ret.seen = sync.seen /\ ret.removed = removed
  BY <1>1 DEF Calls
<1>3. ingest(log, ret)
  OBVIOUS
<1> HIDE DEF ret
<1>4. \A d, br : Stable(d, br) /\ sync'.head = sync.head /\ missed \subseteq missed' => Stable(d, br)'
  BY DEF Stable, chainVars
<1>5. CASE Honored(log.tx)
  <2>1. /\ devices' = devices \cup {Sender[log.tx]} /\ Ingest(log) /\ missed' = missed
        /\ sync' = [ret EXCEPT !.pc = "ws_stamp", !.log = log]
    BY <1>3, <1>5 DEF ingest, StampPhase, At
  <2>2. /\ ChainTypes' /\ StoreTypes' /\ BlockInv' /\ CoverInv' /\ Known(log)'
        /\ \A r \in DOMAIN rows : r \in DOMAIN rows' /\ rows'[r] = rows[r]
        /\ \A r \in DOMAIN rows' \ DOMAIN rows : r \in Anchored(log)'
    BY <1>1, <2>1, IngestFacts
  <2>3. sync' \in Calls
    BY <1>2, <2>1 DEF Calls, Phases
  <2>4. /\ sync'.pc = "ws_stamp" /\ sync'.cursor = sync.cursor /\ sync'.upto = sync.upto
        /\ sync'.head = sync.head /\ sync'.todo = sync.todo /\ sync'.set = sync.set
        /\ sync'.log = log /\ sync'.failures = sync.failures /\ sync'.tries = sync.tries
        /\ sync'.fresh = sync.fresh /\ sync'.seen = sync.seen /\ sync'.removed = removed
    BY <1>2, <2>1 DEF Calls
  <2>5. CallInv'
    BY <1>5, <2>2, <2>4 DEF SyncInv, CallInv, Honored
  <2>6. SeenInv'
    BY <1>4, <2>1, <2>4 DEF SyncInv, SeenInv
  <2>7. ChunkInv'
    BY <2>4 DEF ChunkInv
  <2>8. RevokedInv'
    <3>1. ASSUME NEW r \in DOMAIN rows', version = "V2", rows'[r].block # 0, ~rows'[r].revoked
          PROVE  \/ rows'[r].signed /\ Sender[r[2]] \in sync.set
                 \/ r \in Anchored(log)'
      BY <2>2, <3>1 DEF SyncInv, RevokedInv
    <3>2. QED
      BY <2>4, <3>1 DEF RevokedInv, Anchored
  <2>9. BreakerInv'
    BY <2>4 DEF SyncInv, BreakerInv
  <2>10. QED
    BY <2>2, <2>3, <2>5, <2>6, <2>7, <2>8, <2>9 DEF SyncInv
<1>6. CASE ~Honored(log.tx)
  <2>1. missed' = missed \cup {log.tx} /\ UNCHANGED <<rows, devices>> /\ sync' = ret
    BY <1>3, <1>6 DEF ingest
  <2>2. ChainTypes' /\ StoreTypes' /\ BlockInv' /\ CoverInv'
    BY <2>1, GatedFacts
  <2>3. CallInv'
    BY <1>2, <2>1 DEF SyncInv, CallInv
  <2>4. SeenInv'
    BY <1>2, <1>4, <2>1 DEF SyncInv, SeenInv
  <2>5. ChunkInv'
    BY <1>2, <2>1 DEF ChunkInv
  <2>6. RevokedInv'
    BY <1>2, <2>1 DEF SyncInv, RevokedInv
  <2>7. BreakerInv'
    BY <1>2, <2>1 DEF SyncInv, BreakerInv
  <2>8. QED
    BY <1>2, <2>1, <2>2, <2>3, <2>4, <2>5, <2>6, <2>7 DEF SyncInv
<1>7. QED
  BY <1>5, <1>6

\* An event of a block on the chain.
LEMMA RecvEventStep == SyncInv /\ recv_event => SyncInv'
<1> SUFFICES ASSUME SyncInv, recv_event PROVE SyncInv'
  OBVIOUS
<1>1. PICK n \in (sync.sub + 1)..Len(blocks) :
        Verified(Log(n)) /\ ingest(Log(n), [sync EXCEPT !.sub = n])
  BY DEF recv_event
<1>2. sync.pc = "recv" /\ UNCHANGED <<chainVars, version, checkpoint>> /\ sync \in Calls
  BY DEF recv_event, At, SyncInv
<1>3. n \in DOMAIN blocks /\ n \in Heights
  BY <1>1, Bounds DEF SyncInv, ChainTypes, Calls, Heights
<1>4. PICK log \in Logs : log = Log(n)
  BY <1>3, LogFacts DEF SyncInv
<1>5. log.tx \in Txs /\ log.block # 0
  <2>1. log.block = n /\ n # 0
    BY <1>3, <1>4, LogFacts DEF SyncInv
  <2>2. QED
    BY <1>1, <1>4, <2>1 DEF Verified, Logs, Contents
<1>6. [sync EXCEPT !.sub = n] = [sync EXCEPT !.sub = n, !.removed = sync.removed]
  BY <1>2 DEF Calls
<1>7. QED
  BY <1>1, <1>2, <1>3, <1>4, <1>5, <1>6, TailIngestStep

\* An event of a block that has left the chain.
LEMMA RecvRemovedStep == SyncInv /\ recv_removed => SyncInv'
<1> SUFFICES ASSUME SyncInv, recv_removed PROVE SyncInv'
  OBVIOUS
<1>1. PICK log \in sync.removed : ingest(log, [sync EXCEPT !.removed = sync.removed \ {log}])
  BY DEF recv_removed
<1>2. sync.pc = "recv" /\ UNCHANGED <<chainVars, version, checkpoint>> /\ sync \in Calls
  BY DEF recv_removed, At, SyncInv
<1>3. /\ log \in Logs /\ log.tx \in Txs /\ log.block # 0 /\ sync.sub \in Heights
      /\ sync.removed \ {log} \in SUBSET sync.removed
  BY <1>2 DEF SyncInv, CallInv, Calls
<1>4. [sync EXCEPT !.removed = sync.removed \ {log}]
        = [sync EXCEPT !.sub = sync.sub, !.removed = sync.removed \ {log}]
  BY <1>2 DEF Calls
<1>5. QED
  BY <1>1, <1>2, <1>3, <1>4, TailIngestStep

-----------------------------------------------------------------------------
(* An event is stamped.                                                    *)

\* What both stamps have in common: rows change in place, and a complete row stays so.
LEMMA StampFacts ==
  ASSUME SyncInv, NEW log \in Logs, DOMAIN rows' = DOMAIN rows,
         UNCHANGED <<chainVars, version, devices>>, checkpoint' \in Heights,
         missed \subseteq missed', missed' \subseteq Txs,
         \A r \in DOMAIN rows : /\ rows'[r] \in Rows /\ rows'[r].block = rows[r].block
                                /\ Complete(r) => Complete(r)'
  PROVE  /\ ChainTypes' /\ StoreTypes' /\ BlockInv'
         /\ \A any : Anchored(any)' = Anchored(any) /\ Known(any)' = Known(any)
         /\ \A b \in DOMAIN blocks : Settled(b) => Settled(b)'
<1>1. ChainTypes' /\ StoreTypes' /\ BlockInv'
  BY DEF SyncInv, ChainTypes, StoreTypes, BlockInv, chainVars
<1>2. \A any : Anchored(any)' = Anchored(any)
  BY DEF Anchored
<1>3. \A any : Known(any)' = Known(any)
  BY <1>2 DEF Known
<1>4. \A b \in DOMAIN blocks : Settled(b) => Settled(b)'
  BY SettledKept DEF SyncInv, chainVars
<1>5. QED
  BY <1>1, <1>2, <1>3, <1>4

\* The 'pending' stamp.
LEMMA StampedFacts ==
  ASSUME SyncInv, NEW log \in Logs, rows' = Stamped(log), version' = version
  PROVE  /\ DOMAIN rows' = DOMAIN rows
         /\ \A r \in DOMAIN rows \ Anchored(log) : rows'[r] = rows[r]
         /\ \A r \in Anchored(log) : rows'[r].branch = log.branch /\ rows'[r].branch # -1
         /\ \A r \in DOMAIN rows :
              /\ rows'[r] \in Rows /\ rows'[r].block = rows[r].block
              /\ Complete(r) => Complete(r)'
<1>1. DOMAIN rows' = DOMAIN rows /\ Anchored(log) \subseteq DOMAIN rows
  BY DEF Stamped, Anchored
<1>2. \A r \in DOMAIN rows \ Anchored(log) : rows'[r] = rows[r]
  BY DEF Stamped
<1>3. log.branch \in Branches /\ log.branch # -1
  BY Bounds DEF Logs, Branches
<1>4. ASSUME NEW r \in Anchored(log)
      PROVE  /\ rows'[r] \in Rows /\ rows'[r].block = rows[r].block
             /\ rows'[r].branch = log.branch /\ rows'[r].signed = rows[r].signed
  <2>1. rows[r] \in Rows
    BY <1>1 DEF SyncInv, StoreTypes
  <2>2. rows'[r] = [rows[r] EXCEPT !.status = "pending", !.branch = log.branch]
    BY <1>1 DEF Stamped
  <2>3. QED
    BY <1>3, <2>1, <2>2 DEF Rows
<1>5. ASSUME NEW r \in DOMAIN rows
      PROVE  /\ rows'[r] \in Rows /\ rows'[r].block = rows[r].block
             /\ Complete(r) => Complete(r)'
  <2>1. CASE r \in Anchored(log)
    BY <1>3, <1>4, <2>1 DEF Complete
  <2>2. CASE r \notin Anchored(log)
    BY <1>2, <2>2 DEF Complete, SyncInv, StoreTypes
  <2>3. QED
    BY <2>1, <2>2
<1>6. QED
  BY <1>1, <1>2, <1>3, <1>4, <1>5

\* The signer's stamp completes the rows of the event.
LEMMA SignedFacts ==
  ASSUME SyncInv, NEW log \in Logs, log.tx \in Txs, Known(log), rows' = Signed(log),
         \A r \in Anchored(log) : rows[r].branch # -1,
         UNCHANGED <<chainVars, version, devices>>, checkpoint' \in Heights,
         missed \subseteq missed', missed' \subseteq Txs
  PROVE  /\ ChainTypes' /\ StoreTypes' /\ BlockInv'
         /\ DOMAIN rows' = DOMAIN rows
         /\ \A r \in DOMAIN rows : /\ rows'[r].block = rows[r].block
                                   /\ rows'[r].branch = rows[r].branch
                                   /\ rows'[r].status = rows[r].status
         /\ \A r \in DOMAIN rows \ Anchored(log) : rows'[r] = rows[r]
         /\ \A r \in Anchored(log) : Complete(r)'
         /\ \A b \in DOMAIN blocks : Settled(b) => Settled(b)'
         /\ \A b \in DOMAIN blocks : Is(log, b) => Settled(b)'
<1>1. DOMAIN rows' = DOMAIN rows /\ Anchored(log) \subseteq DOMAIN rows
  BY DEF Signed, Anchored
<1>2. \A r \in DOMAIN rows \ Anchored(log) : rows'[r] = rows[r]
  BY DEF Signed
<1>3. ASSUME NEW r \in DOMAIN rows
      PROVE  /\ rows'[r] \in Rows /\ rows'[r].block = rows[r].block
             /\ rows'[r].branch = rows[r].branch /\ rows'[r].status = rows[r].status
             /\ rows[r].signed => rows'[r].signed
             /\ r \in Anchored(log) /\ version = "V2" => rows'[r].signed
  <2>1. rows[r] \in Rows
    BY DEF SyncInv, StoreTypes
  <2>2. CASE r \in Anchored(log) /\ version = "V2"
    <3>1. rows'[r] = [rows[r] EXCEPT !.signed = TRUE]
      BY <2>2 DEF Signed
    <3>2. /\ rows'[r] \in Rows /\ rows'[r].block = rows[r].block
          /\ rows'[r].branch = rows[r].branch /\ rows'[r].status = rows[r].status
      BY <2>1, <3>1 DEF Rows
    <3>3. rows'[r].signed = TRUE
      BY <2>1, <3>1 DEF Rows
    <3>4. QED
      BY <3>2, <3>3
  <2>3. CASE ~(r \in Anchored(log) /\ version = "V2")
    <3>1. rows'[r] = rows[r]
      BY <2>3 DEF Signed
    <3>2. QED
      BY <2>1, <2>3, <3>1
  <2>4. QED
    BY <2>2, <2>3
<1>4. \A r \in DOMAIN rows : Complete(r) => Complete(r)'
  BY <1>3 DEF Complete
<1>5. \A r \in Anchored(log) : Complete(r)'
  BY <1>1, <1>3 DEF Complete
<1>6. /\ ChainTypes' /\ StoreTypes' /\ BlockInv'
      /\ \A any : Anchored(any)' = Anchored(any) /\ Known(any)' = Known(any)
      /\ \A b \in DOMAIN blocks : Settled(b) => Settled(b)'
  BY <1>1, <1>3, <1>4, StampFacts
<1>7. ASSUME NEW b \in DOMAIN blocks, Is(log, b)
      PROVE  Settled(b)'
  <2>1. /\ Log(b)' = Log(b) /\ Log(b).tx = log.tx /\ Log(b).block = log.block
        /\ blocks[b].tx = log.tx /\ log.block = b /\ blocks' = blocks
    <3>1. Log(b)' = Log(b)
      BY DEF Log, chainVars
    <3>2. QED
      BY <1>7, <3>1, LogFacts DEF Is, SyncInv, chainVars
  <2>2. Known(Log(b))'
    <3>1. Known(Log(b))
      BY <2>1 DEF Known, Anchored
    <3>2. QED
      BY <1>1, <1>3, <2>1, <3>1 DEF Known, Anchored
  <2>3. Chain(log.tx) \in DOMAIN rows' /\ rows'[Chain(log.tx)].block = b
          => Complete(Chain(log.tx))'
    BY <1>1, <1>3, <1>5, <2>1, Names DEF Anchored
  <2>4. QED
    BY <2>1, <2>2, <2>3 DEF Settled
<1>8. QED
  BY <1>1, <1>2, <1>3, <1>5, <1>6, <1>7

\* record keeps what it has seen, but for the evicted blocks, and adds the event's block.
LEMMA RecordedFacts ==
  ASSUME NEW seen \in Seen, NEW log \in Logs
  PROVE  /\ Recorded(seen, log) \in Seen
         /\ \A d \in DOMAIN Recorded(seen, log) :
              \/ d = log.block /\ Recorded(seen, log)[d] = log.branch
              \/ d \in DOMAIN seen /\ Recorded(seen, log)[d] = seen[d]
<1> DEFINE all == [b \in DOMAIN seen \cup {log.block} |->
                     IF b = log.block THEN log.branch ELSE seen[b]]
           tip == CHOOSE t \in DOMAIN all : \A b \in DOMAIN all : b <= t
           left == {b \in DOMAIN all : b >= tip - 2 * DEPTH}
<1>1. PICK set \in SUBSET Heights : seen \in [set -> Branches]
  BY DEF Seen
<1>2. log.block \in Heights /\ log.branch \in Branches
  BY DEF Logs
<1>3. all \in [set \cup {log.block} -> Branches]
  BY <1>1, <1>2
<1>4. Recorded(seen, log) = [b \in left |-> all[b]]
  BY DEF Recorded, Evicted, Restrict
<1>5. left \subseteq DOMAIN all /\ DOMAIN all = DOMAIN seen \cup {log.block}
  OBVIOUS
<1> HIDE DEF left
<1>6. Recorded(seen, log) \in [left -> Branches] /\ left \in SUBSET Heights
  BY <1>1, <1>2, <1>3, <1>4, <1>5
<1>7. QED
  BY <1>4, <1>5, <1>6 DEF Seen

\* The 'pending' stamp of a polled event, or of an event of the tail.
LEMMA StampEventStep == SyncInv /\ stamp_event => SyncInv'
<1> SUFFICES ASSUME SyncInv, stamp_event PROVE SyncInv'
  OBVIOUS
<1>1. /\ sync.pc \in {"stamp", "ws_stamp"} /\ rows' = Stamped(sync.log)
      /\ sync' = [sync EXCEPT !.pc = IF sync.pc = "stamp" THEN "sign" ELSE "ws_sign"]
      /\ UNCHANGED <<chainVars, version, devices, checkpoint, missed>>
  BY DEF stamp_event, At
<1>2. sync \in Calls /\ sync.log \in Logs /\ checkpoint' \in Heights /\ missed' \subseteq Txs
  BY <1>1 DEF SyncInv, Calls, StoreTypes
<1>3. /\ DOMAIN rows' = DOMAIN rows
      /\ \A r \in DOMAIN rows \ Anchored(sync.log) : rows'[r] = rows[r]
      /\ \A r \in Anchored(sync.log) : rows'[r].branch # -1
      /\ \A r \in DOMAIN rows :
           /\ rows'[r] \in Rows /\ rows'[r].block = rows[r].block
           /\ Complete(r) => Complete(r)'
  BY <1>1, <1>2, StampedFacts
<1>4. /\ ChainTypes' /\ StoreTypes' /\ BlockInv'
      /\ \A any : Anchored(any)' = Anchored(any) /\ Known(any)' = Known(any)
      /\ \A b \in DOMAIN blocks : Settled(b) => Settled(b)'
  BY <1>1, <1>2, <1>3, StampFacts
<1>5. sync' \in Calls
  BY <1>1, <1>2 DEF Calls, Phases
<1>6. /\ sync'.cursor = sync.cursor /\ sync'.upto = sync.upto /\ sync'.set = sync.set
      /\ sync'.head = sync.head /\ sync'.todo = sync.todo /\ sync'.removed = sync.removed
      /\ sync'.log = sync.log /\ sync'.failures = sync.failures /\ sync'.tries = sync.tries
      /\ sync'.fresh = sync.fresh /\ sync'.seen = sync.seen
      /\ sync.pc = "stamp" => sync'.pc = "sign"
      /\ sync.pc = "ws_stamp" => sync'.pc = "ws_sign"
  BY <1>1, <1>2 DEF Calls
<1>7. CallInv'
  <2>1. /\ sync.log.tx \in Txs /\ Known(sync.log) /\ Honored(sync.log.tx)
        /\ sync.cursor <= checkpoint /\ sync.upto <= sync.head
        /\ \A log \in sync.todo \cup sync.removed : log.tx \in Txs /\ log.block # 0
        /\ sync.pc = "stamp" => sync.removed = {}
    BY <1>1 DEF SyncInv, CallInv
  <2>2. Honored(sync.log.tx)'
    BY <1>1, <1>6, <2>1 DEF Honored
  <2>3. Known(sync.log)' /\ \A r \in Anchored(sync.log)' : rows'[r].branch # -1
    <3>1. /\ Known(sync.log)' = Known(sync.log) /\ Anchored(sync.log)' = Anchored(sync.log)
      BY <1>3, <1>6 DEF Known, Anchored
    <3>2. QED
      BY <1>3, <1>6, <2>1, <3>1 DEF Known, Anchored
  <2>4. QED
    BY <1>1, <1>6, <2>1, <2>2, <2>3 DEF CallInv
<1>8. SeenInv'
  <2>1. \A d, br : Stable(d, br) => Stable(d, br)'
    BY <1>1, <1>6 DEF Stable, chainVars
  <2>2. QED
    BY <1>1, <1>6, <2>1 DEF SyncInv, SeenInv
<1>9. CoverInv'
  BY <1>1, <1>4 DEF SyncInv, CoverInv, chainVars
<1>10. ChunkInv'
  <2>1. \A log : \A b \in DOMAIN blocks : Is(log, b)' <=> Is(log, b)
    BY <1>1 DEF Is, chainVars
  <2>2. CASE sync.pc = "stamp"
    <3>1. ASSUME NEW b \in DOMAIN blocks, sync.cursor < b, b <= sync.upto
          PROVE  Settled(b)' \/ (\E log \in sync.todo : Is(log, b)) \/ Is(sync.log, b)
      BY <1>4, <2>2, <3>1 DEF SyncInv, ChunkInv
    <3>2. QED
      BY <1>1, <1>6, <2>1, <2>2, <3>1 DEF ChunkInv, Is, chainVars
  <2>3. CASE sync.pc = "ws_stamp"
    BY <1>6, <2>3 DEF ChunkInv
  <2>4. QED
    BY <1>1, <2>2, <2>3
<1>11. RevokedInv'
  <2>1. CASE sync.pc = "stamp"
    BY <1>6, <2>1 DEF RevokedInv
  <2>2. CASE sync.pc = "ws_stamp"
    <3>1. ASSUME NEW r \in DOMAIN rows, version = "V2", rows'[r].block # 0, ~rows'[r].revoked,
                 r \notin Anchored(sync.log)
          PROVE  rows'[r].signed /\ Sender[r[2]] \in sync.set
      <4>1. rows'[r] = rows[r]
        BY <1>3, <3>1
      <4>2. QED
        BY <2>2, <3>1, <4>1 DEF SyncInv, RevokedInv
    <3>2. Anchored(sync.log)' = Anchored(sync.log)
      BY <1>3, <1>6 DEF Anchored
    <3>3. QED
      BY <1>1, <1>3, <1>6, <2>2, <3>1, <3>2 DEF RevokedInv
  <2>3. QED
    BY <1>1, <2>1, <2>2
<1>12. BreakerInv'
  BY <1>1, <1>6 DEF SyncInv, BreakerInv
<1>13. QED
  BY <1>4, <1>5, <1>7, <1>8, <1>9, <1>10, <1>11, <1>12 DEF SyncInv

\* The signer of a polled event; the detector records its block.
LEMMA SignEventStep == SyncInv /\ sign_event => SyncInv'
<1> SUFFICES ASSUME SyncInv, sign_event PROVE SyncInv'
  OBVIOUS
<1> DEFINE seen == Recorded(sync.seen, sync.log)
<1>1. /\ sync.pc = "sign" /\ rows' = Signed(sync.log)
      /\ sync' = [sync EXCEPT !.pc = "next", !.seen = seen, !.log = NoLog]
      /\ UNCHANGED <<chainVars, version, devices, checkpoint, missed>>
  BY DEF sign_event, At
<1>2. sync \in Calls /\ sync.log \in Logs /\ sync.seen \in Seen /\ checkpoint' \in Heights
      /\ missed' \subseteq Txs
  BY <1>1 DEF SyncInv, Calls, StoreTypes
<1>3. /\ sync.log.tx \in Txs /\ Known(sync.log)
      /\ \A r \in Anchored(sync.log) : rows[r].branch # -1
  BY <1>1 DEF SyncInv, CallInv
<1>4. /\ ChainTypes' /\ StoreTypes' /\ BlockInv'
      /\ \A b \in DOMAIN blocks : Settled(b) => Settled(b)'
      /\ \A b \in DOMAIN blocks : Is(sync.log, b) => Settled(b)'
  BY <1>1, <1>2, <1>3, SignedFacts
<1>5. /\ seen \in Seen
      /\ \A d \in DOMAIN seen : \/ d = sync.log.block /\ seen[d] = sync.log.branch
                                \/ d \in DOMAIN sync.seen /\ seen[d] = sync.seen[d]
  BY <1>2, RecordedFacts
<1> HIDE DEF seen
<1>6. sync' \in Calls
  BY <1>1, <1>2, <1>5, IdleCall DEF Calls, Phases
<1>7. /\ sync'.pc = "next" /\ sync'.cursor = sync.cursor /\ sync'.upto = sync.upto
      /\ sync'.head = sync.head /\ sync'.todo = sync.todo /\ sync'.removed = sync.removed
      /\ sync'.log = NoLog /\ sync'.failures = sync.failures /\ sync'.tries = sync.tries
      /\ sync'.fresh = sync.fresh /\ sync'.seen = seen
  BY <1>1, <1>2 DEF Calls
<1>8. CallInv'
  BY <1>1, <1>7 DEF SyncInv, CallInv
<1>9. SeenInv'
  <2>1. \A d, br : Stable(d, br) => Stable(d, br)'
    BY <1>1, <1>7 DEF Stable, chainVars
  <2>2. QED
    BY <1>1, <1>5, <1>7, <2>1 DEF SyncInv, SeenInv
<1>10. CoverInv'
  BY <1>1, <1>4 DEF SyncInv, CoverInv, chainVars
<1>11. ChunkInv'
  <2>1. \A log : \A b \in DOMAIN blocks : Is(log, b)' <=> Is(log, b)
    BY <1>1 DEF Is, chainVars
  <2>2. ASSUME NEW b \in DOMAIN blocks, sync.cursor < b, b <= sync.upto
        PROVE  Settled(b)' \/ \E log \in sync.todo : Is(log, b)
    BY <1>1, <1>4, <2>2 DEF SyncInv, ChunkInv
  <2>3. QED
    BY <1>1, <1>7, <2>1, <2>2 DEF ChunkInv, chainVars
<1>12. RevokedInv'
  BY <1>7 DEF RevokedInv
<1>13. BreakerInv'
  BY <1>1, <1>7 DEF SyncInv, BreakerInv
<1>14. QED
  BY <1>4, <1>6, <1>8, <1>9, <1>10, <1>11, <1>12, <1>13 DEF SyncInv

\* The events that an event of the tail overtakes are transactions, and every event between
\* the cursor and its block is one of them or the event itself.
LEMMA OvertakenFacts ==
  ASSUME SyncInv, NEW n \in Heights
  PROVE  /\ Overtaken(n) \subseteq Txs
         /\ \A c \in DOMAIN blocks : sync.cursor < c /\ c <= n =>
              blocks[c].tx \in Overtaken(n) \cup {NoTx} \/ Is(sync.log, c)
<1>1. \A c \in DOMAIN blocks : /\ Log(c) \in Logs /\ Log(c).block = c /\ Log(c).tx = blocks[c].tx
                               /\ c \in Nat
  BY LogFacts DEF SyncInv
<1>2. sync.cursor \in Nat /\ n \in Nat
  BY Bounds DEF SyncInv, Calls, Heights
<1>3. Overtaken(n) \subseteq Txs
  <2>1. ASSUME NEW log \in Fetched(sync.cursor + 1, n)
        PROVE  log.tx \in Txs
    <3>1. PICK c \in DOMAIN blocks : log = Log(c) /\ log.tx # NoTx
      BY DEF Fetched, Verified
    <3>2. QED
      BY <1>1, <3>1 DEF Logs, Contents
  <2>2. QED
    BY <2>1 DEF Overtaken
<1>4. ASSUME NEW c \in DOMAIN blocks, sync.cursor < c, c <= n, blocks[c].tx # NoTx,
             ~Is(sync.log, c)
      PROVE  blocks[c].tx \in Overtaken(n)
  <2>1. c \in (sync.cursor + 1)..n
    BY <1>1, <1>2, <1>4
  <2>2. Log(c) \in Fetched(sync.cursor + 1, n)
    BY <1>1, <1>4, <2>1 DEF Fetched, Verified
  <2>3. Log(c) # sync.log
    BY <1>1, <1>4 DEF Is
  <2>4. QED
    BY <1>1, <2>2, <2>3 DEF Overtaken
<1>5. QED
  BY <1>3, <1>4

\* The signer of an event of the tail, and the checkpoint that follows it.
LEMMA SignWsEventStep == SyncInv /\ sign_ws_event => SyncInv'
<1> SUFFICES ASSUME SyncInv, sign_ws_event PROVE SyncInv'
  OBVIOUS
<1> DEFINE n == sync.log.block
           kept == [sync EXCEPT !.pc = "recv", !.used = TRUE, !.fresh = TRUE, !.log = NoLog,
                                !.tries = 0]
<1>1. /\ sync.pc = "ws_sign" /\ rows' = Signed(sync.log)
      /\ UNCHANGED <<chainVars, version, devices>>
      /\ \/ /\ n > sync.cursor /\ checkpoint' = Advanced(n) /\ missed' = missed \cup Overtaken(n)
            /\ sync' = IF n < checkpoint THEN Idle ELSE [kept EXCEPT !.cursor = n]
         \/ sync' = kept /\ checkpoint' = checkpoint /\ missed' = missed
  BY DEF sign_ws_event, At
<1>2. /\ sync \in Calls /\ sync.log \in Logs /\ checkpoint \in Heights /\ n \in Heights
      /\ missed \subseteq Txs /\ sync.cursor \in Heights /\ sync.cursor <= checkpoint
      /\ NoLog \in Logs
  BY IdleCall DEF SyncInv, Calls, StoreTypes, Logs, CallInv
<1>3. /\ sync.log.tx \in Txs /\ Known(sync.log) /\ Honored(sync.log.tx)
      /\ \A r \in Anchored(sync.log) : rows[r].branch # -1
  BY <1>1 DEF SyncInv, CallInv
<1>4. /\ Overtaken(n) \subseteq Txs
      /\ \A c \in DOMAIN blocks : sync.cursor < c /\ c <= n =>
           blocks[c].tx \in Overtaken(n) \cup {NoTx} \/ Is(sync.log, c)
  BY <1>2, OvertakenFacts
<1>5. missed \subseteq missed' /\ missed' \subseteq Txs /\ checkpoint' \in Heights
  BY <1>1, <1>2, <1>4 DEF Advanced
<1>6. /\ ChainTypes' /\ StoreTypes' /\ BlockInv'
      /\ DOMAIN rows' = DOMAIN rows
      /\ \A r \in DOMAIN rows \ Anchored(sync.log) : rows'[r] = rows[r]
      /\ \A r \in Anchored(sync.log) : Complete(r)'
      /\ \A b \in DOMAIN blocks : Settled(b) => Settled(b)'
      /\ \A b \in DOMAIN blocks : Is(sync.log, b) => Settled(b)'
  BY <1>1, <1>2, <1>3, <1>5, SignedFacts
<1>7. CoverInv'
  <2>1. ASSUME NEW c \in DOMAIN blocks, c <= checkpoint'
        PROVE  Settled(c)'
    <3>1. c \in Nat
      BY LogFacts DEF SyncInv
    <3>2. CASE c <= checkpoint
      BY <1>6, <3>2 DEF SyncInv, CoverInv
    <3>3. CASE ~(c <= checkpoint)
      <4>1. sync.cursor < c /\ c <= n /\ missed' = missed \cup Overtaken(n)
        BY <1>1, <1>2, <2>1, <3>1, <3>3, Bounds DEF Advanced, Heights
      <4>2. CASE Is(sync.log, c)
        BY <1>6, <4>2
      <4>3. CASE blocks[c].tx \in Overtaken(n) \cup {NoTx}
        <5>1. blocks'[c].tx \in missed' \cup {NoTx}
          BY <1>1, <4>1, <4>3 DEF chainVars
        <5>2. QED
          BY <5>1 DEF Settled
      <4>4. QED
        BY <1>4, <4>1, <4>2, <4>3
    <3>4. QED
      BY <3>2, <3>3
  <2>2. QED
    BY <1>1, <2>1 DEF CoverInv, chainVars
<1>8. CASE sync' = Idle
  BY <1>5, <1>6, <1>7, <1>8, IdleFacts DEF SyncInv
<1>9. CASE sync' # Idle
  <2>1. \/ sync' = kept /\ checkpoint' = checkpoint
        \/ sync' = [kept EXCEPT !.cursor = n] /\ checkpoint' = n
    BY <1>1, <1>2, <1>9, Bounds DEF Advanced, Heights
  <2>2. kept \in Calls
    BY <1>2 DEF Calls, Phases
  <2>3. sync' \in Calls
    BY <1>2, <2>1, <2>2 DEF Calls
  <2>4. /\ kept.pc = "recv" /\ kept.cursor = sync.cursor /\ kept.upto = sync.upto
        /\ kept.head = sync.head /\ kept.todo = sync.todo /\ kept.set = sync.set
        /\ kept.log = NoLog /\ kept.failures = sync.failures /\ kept.tries = 0
        /\ kept.seen = sync.seen /\ kept.removed = sync.removed
    BY <1>2 DEF Calls
  <2> HIDE DEF kept
  <2>5. /\ sync'.pc = "recv" /\ sync'.cursor <= checkpoint' /\ sync'.upto = sync.upto
        /\ sync'.head = sync.head /\ sync'.todo = sync.todo /\ sync'.set = sync.set
        /\ sync'.log = NoLog /\ sync'.failures = sync.failures /\ sync'.tries = 0
        /\ sync'.seen = sync.seen /\ sync'.removed = sync.removed
    <3>1. CASE sync' = kept /\ checkpoint' = checkpoint
      BY <1>2, <2>4, <3>1
    <3>2. CASE sync' = [kept EXCEPT !.cursor = n] /\ checkpoint' = n
      <4>1. sync'.cursor = n /\ n <= n
        BY <1>2, <2>2, <3>2, Bounds DEF Calls, Heights
      <4>2. QED
        BY <2>2, <2>4, <3>2, <4>1 DEF Calls
    <3>3. QED
      BY <2>1, <3>1, <3>2
  <2>6. CallInv'
    BY <2>5 DEF SyncInv, CallInv
  <2>7. SeenInv'
    <3>1. \A d, br : Stable(d, br) => Stable(d, br)'
      BY <1>1, <1>5, <2>5 DEF Stable, chainVars
    <3>2. QED
      BY <1>1, <2>5, <3>1 DEF SyncInv, SeenInv
  <2>8. ChunkInv'
    BY <2>5 DEF ChunkInv
  <2>9. RevokedInv'
    <3>1. ASSUME NEW r \in DOMAIN rows, version = "V2", rows'[r].block # 0, ~rows'[r].revoked
          PROVE  rows'[r].signed /\ Sender[r[2]] \in sync.set
      <4>1. CASE r \in Anchored(sync.log)
        <5>1. Sender[r[2]] \in sync.set
          BY <1>3, <3>1, <4>1 DEF Honored, Anchored
        <5>2. version' = "V2"
          BY <1>1, <3>1
        <5>3. rows'[r].signed
          BY <1>6, <4>1, <5>2 DEF Complete
        <5>4. QED
          BY <5>1, <5>3
      <4>2. CASE r \notin Anchored(sync.log)
        <5>1. rows'[r] = rows[r]
          BY <1>6, <4>2
        <5>2. QED
          BY <1>1, <3>1, <4>2, <5>1 DEF SyncInv, RevokedInv
      <4>3. QED
        BY <4>1, <4>2
    <3>2. QED
      BY <1>1, <1>6, <2>5, <3>1 DEF RevokedInv
  <2>10. BreakerInv'
    <3>1. sync.failures \in Nat
      BY <1>2, Bounds DEF Calls
    <3>2. 0 <= sync.failures + 1
      BY <3>1
    <3>3. QED
      BY <2>5, <3>2 DEF BreakerInv
  <2>11. QED
    BY <1>6, <1>7, <2>3, <2>6, <2>7, <2>8, <2>9, <2>10 DEF SyncInv
<1>10. QED
  BY <1>8, <1>9

-----------------------------------------------------------------------------
(* A reorg is detected.                                                    *)

\* A block of the window that is canonical now is not the one that was seen: by SeenInv
\* its event, if any, is a missed one.
LEMMA WindowFacts ==
  ASSUME SyncInv, NEW c \in DOMAIN blocks, c \in Window(Divergent(sync.seen))
  PROVE  blocks[c].tx \in missed \cup {NoTx}
<1>1. PICK low \in Divergent(sync.seen), high \in Divergent(sync.seen) : c \in low..high
  BY DEF Window
<1>2. /\ low \in DOMAIN sync.seen /\ high \in DOMAIN sync.seen
      /\ low > Len(blocks) \/ blocks[low].branch # sync.seen[low]
  BY DEF Divergent
<1>3. low \in Nat /\ high \in Nat /\ sync.head \in Nat /\ c \in Nat
  <2>1. DOMAIN sync.seen \subseteq Heights /\ sync.head \in Heights
    BY DEF SyncInv, Calls, Seen
  <2>2. QED
    BY <1>2, <2>1, LogFacts, Bounds DEF Heights, SyncInv
<1>4. high <= sync.head /\ Stable(low, sync.seen[low])
  BY <1>2 DEF SyncInv, SeenInv
<1>5. ~(low \in DOMAIN blocks /\ blocks[low].branch = sync.seen[low])
  BY <1>2, <1>3, LogFacts DEF SyncInv
<1>6. low <= c /\ c <= sync.head
  BY <1>1, <1>3, <1>4
<1>7. QED
  BY <1>4, <1>5, <1>6 DEF Stable

\* What is found off the chain are blocks that were seen.
LEMMA OrphanedFacts ==
  ASSUME NEW seen \in Seen
  PROVE  /\ Orphaned(seen) \subseteq Heights \X Branches
         /\ \A p \in Orphaned(seen) :
              /\ p = <<p[1], p[2]>> /\ p[1] \in DOMAIN seen /\ p[2] = seen[p[1]]
              /\ ~(p[1] \in DOMAIN blocks /\ blocks[p[1]].branch = p[2])
<1>1. PICK set \in SUBSET Heights : seen \in [set -> Branches]
  BY DEF Seen
<1>2. ASSUME NEW p \in Orphaned(seen)
      PROVE  /\ p = <<p[1], p[2]>> /\ p[1] \in DOMAIN seen /\ p[2] = seen[p[1]]
             /\ ~(p[1] \in DOMAIN blocks /\ blocks[p[1]].branch = p[2])
  <2>1. PICK b \in DOMAIN seen : /\ p = <<b, seen[b]>>
                                 /\ ~\E c \in DOMAIN blocks : c = b /\ blocks[c].branch = seen[b]
    BY DEF Orphaned
  <2>2. QED
    BY <2>1
<1>3. QED
  BY <1>1, <1>2

\* The rollback takes rows of blocks that are no longer canonical; a row whose event is
\* elsewhere on the chain is displaced.
LEMMA DetectStep == SyncInv /\ detect_reorg => SyncInv'
<1> SUFFICES ASSUME SyncInv, detect_reorg PROVE SyncInv'
  OBVIOUS
<1> DEFINE window == Window(Divergent(sync.seen))
           gone == RolledBack(window)
           left == Restrict(sync.seen, DOMAIN sync.seen \ window)
<1>1. /\ sync.pc = "next" /\ sync.todo = {}
      /\ rows' = Restrict(rows, DOMAIN rows \ gone)
      /\ sync' = [sync EXCEPT !.pc = "advance", !.seen = left,
                              !.gone = sync.gone \cup Orphaned(sync.seen)]
      /\ missed' = missed \cup Displaced(window)
      /\ UNCHANGED <<chainVars, version, devices, checkpoint>>
  BY DEF detect_reorg, At
<1>2. sync \in Calls /\ missed \subseteq Txs /\ \A r \in DOMAIN rows : r[2] \in Txs
  <2>1. sync \in Calls /\ missed \subseteq Txs /\ \A r \in DOMAIN rows : r \in Ids
    BY DEF SyncInv, StoreTypes
  <2>2. \A r \in Ids : r[2] \in Txs
    BY Bounds DEF Ids, Own, Chain
  <2>3. QED
    BY <2>1, <2>2
<1>3. /\ DOMAIN rows' = DOMAIN rows \ gone
      /\ \A r \in DOMAIN rows' : rows'[r] = rows[r]
  BY <1>1 DEF Restrict
<1>4. missed \subseteq missed' /\ missed' \subseteq Txs
  <2>1. gone \subseteq DOMAIN rows
    BY DEF RolledBack
  <2>2. Displaced(window) \subseteq Txs
    BY <1>2, <2>1 DEF Displaced
  <2>3. QED
    BY <1>1, <1>2, <2>2
<1>5. ChainTypes' /\ StoreTypes' /\ BlockInv'
  BY <1>1, <1>3, <1>4 DEF SyncInv, ChainTypes, StoreTypes, BlockInv, chainVars
<1>6. /\ left \in Seen
      /\ \A d \in DOMAIN left : d \in DOMAIN sync.seen /\ left[d] = sync.seen[d]
  <2>1. PICK set \in SUBSET Heights : sync.seen \in [set -> Branches]
    BY <1>2 DEF Calls, Seen
  <2>2. left = [d \in set \ window |-> sync.seen[d]]
    BY <2>1 DEF Restrict
  <2> HIDE DEF left, window
  <2>3. left \in [set \ window -> Branches] /\ set \ window \in SUBSET Heights
    BY <2>1, <2>2
  <2>4. QED
    BY <2>1, <2>2, <2>3 DEF Seen
<1> HIDE DEF left
<1>a. Orphaned(sync.seen) \subseteq Heights \X Branches
  BY <1>2, OrphanedFacts DEF Calls
<1>7. sync' \in Calls
  BY <1>1, <1>2, <1>6, <1>a DEF Calls, Phases
<1>8. /\ sync'.pc = "advance" /\ sync'.cursor = sync.cursor /\ sync'.upto = sync.upto
      /\ sync'.head = sync.head /\ sync'.todo = sync.todo
      /\ sync'.log = sync.log /\ sync'.failures = sync.failures /\ sync'.tries = sync.tries
      /\ sync'.fresh = sync.fresh /\ sync'.seen = left /\ sync'.removed = sync.removed
  BY <1>1, <1>2 DEF Calls
<1>9. CallInv'
  BY <1>1, <1>8 DEF SyncInv, CallInv
<1>10. SeenInv'
  <2>1. \A d, br : Stable(d, br) => Stable(d, br)'
    BY <1>1, <1>4, <1>8 DEF Stable, chainVars
  <2>2. QED
    BY <1>1, <1>6, <1>8, <2>1 DEF SyncInv, SeenInv
<1>11. ASSUME NEW c \in DOMAIN blocks, Settled(c), c <= sync.upto \/ c <= checkpoint
       PROVE  Settled(c)'
  <2> DEFINE tx == blocks[c].tx
  <2>1. CASE tx \in missed' \cup {NoTx}
    BY <1>1, <2>1 DEF Settled, chainVars
  <2>2. CASE tx \notin missed' \cup {NoTx}
    <3>1. \A r \in DOMAIN rows : r[2] = tx => r \notin gone
      <4>1. SUFFICES ASSUME NEW r \in gone, r[2] = tx PROVE FALSE
        OBVIOUS
      <4>2. rows[r].block \in window
        BY DEF RolledBack
      <4>3. CASE rows[r].block = c
        BY <1>4, <2>2, <4>2, <4>3, WindowFacts
      <4>4. CASE rows[r].block # c
        BY <1>1, <1>11, <2>2, <4>1, <4>4 DEF Displaced
      <4>5. QED
        BY <4>3, <4>4
    <3>2. Log(c)' = Log(c) /\ Log(c).tx = tx /\ blocks'[c].tx = tx
      <4>1. Log(c)' = Log(c) /\ blocks'[c].tx = tx
        BY <1>1 DEF Log, chainVars
      <4>2. QED
        BY <4>1, LogFacts DEF SyncInv
    <3>3. /\ Known(Log(c)) /\ tx \in Txs
          /\ Chain(tx) \in DOMAIN rows /\ rows[Chain(tx)].block = c => Complete(Chain(tx))
      <4>1. blocks[c] \in Blocks
        BY DEF SyncInv, ChainTypes
      <4>2. tx \in Txs
        BY <2>2, <4>1 DEF Blocks, Contents
      <4>3. QED
        BY <1>4, <1>11, <2>2, <4>2 DEF Settled
    <3>4. Chain(tx)[2] = tx
      BY <3>3, Names
    <3>5. Known(Log(c))'
      BY <1>3, <3>1, <3>2, <3>3, <3>4 DEF Known, Anchored
    <3>6. Chain(tx) \in DOMAIN rows' /\ rows'[Chain(tx)].block = c => Complete(Chain(tx))'
      <4>1. SUFFICES ASSUME Chain(tx) \in DOMAIN rows', rows'[Chain(tx)].block = c
                     PROVE  Complete(Chain(tx))'
        OBVIOUS
      <4>2. rows'[Chain(tx)] = rows[Chain(tx)] /\ Chain(tx) \in DOMAIN rows
        BY <1>3, <4>1
      <4>3. Complete(Chain(tx))
        BY <3>3, <4>1, <4>2
      <4>4. version' = version /\ blocks' = blocks
        BY <1>1 DEF chainVars
      <4>5. QED
        BY <4>2, <4>3, <4>4 DEF Complete
    <3>7. QED
      BY <3>2, <3>5, <3>6 DEF Settled
  <2>3. QED
    BY <2>1, <2>2
<1>12. CoverInv'
  BY <1>1, <1>11 DEF SyncInv, CoverInv, chainVars
<1>13. ChunkInv'
  <2>1. ASSUME NEW b \in DOMAIN blocks, sync.cursor < b, b <= sync.upto
        PROVE  Settled(b)
    BY <1>1, <2>1 DEF SyncInv, ChunkInv
  <2>2. QED
    BY <1>1, <1>8, <1>11, <2>1 DEF ChunkInv, chainVars
<1>14. RevokedInv'
  BY <1>8 DEF RevokedInv
<1>15. BreakerInv'
  BY <1>1, <1>8 DEF SyncInv, BreakerInv
<1>16. QED
  BY <1>5, <1>7, <1>9, <1>10, <1>12, <1>13, <1>14, <1>15 DEF SyncInv

-----------------------------------------------------------------------------
(* The theorems.                                                           *)

\* Every step of the chain, of this device and of the call keeps the invariant.
LEMMA NextInv == SyncInv /\ [Next]_vars => SyncInv'
<1> SUFFICES ASSUME SyncInv, [Next]_vars PROVE SyncInv'
  OBVIOUS
<1>1. ASSUME NEW tx \in Txs \cup {NoTx}, Mine(tx) PROVE SyncInv'
  BY <1>1, MineStep DEF Contents
<1>2. ASSUME NEW keep \in 0..MaxHeight, Reorg(keep) PROVE SyncInv'
  BY <1>2, ReorgStep
<1>3. ASSUME NEW set \in SUBSET Devices, ChangeSet(set) PROVE SyncInv'
  BY <1>3, ChangeSetStep
<1>4. CASE publish
  BY <1>4, PublishStep
<1>5. ASSUME NEW genesis \in BOOLEAN, NEW websocket \in BOOLEAN, NEW until \in 0..MaxHeight,
             sync_from_chain(genesis, until, websocket)
      PROVE  SyncInv'
  BY <1>5, StartStep
<1>6. CASE Step
  BY <1>6, ReadSetStep, FetchStep, IngestEventStep, StampEventStep, DetectStep, AdvanceStep,
     PromoteRestStep, ReevaluateStep, SubscriptionStep, RecvEventStep, RecvRemovedStep,
     SignEventStep, SignWsEventStep, FinishStep DEF Step
<1>7. CASE Abort
  BY <1>7, AbortStep
<1>8. CASE UNCHANGED vars
  BY <1>8, StutterStep
<1>9. QED
  BY <1>1, <1>2, <1>3, <1>4, <1>5, <1>6, <1>7, <1>8 DEF Next

\* The inductive invariant of sync_from_chain: the chunk, the detector and the checkpoint
\* agree with the chain and the store, whenever a call is cut off.
THEOREM SyncSafe == Spec => []SyncInv
  BY InitInv, NextInv, PTL DEF Spec

\* The chain, the store and the running call keep their types, and the breaker never
\* stores a count at its threshold.
THEOREM TypeCorrect == Spec => []TypeOK
<1>1. SyncInv => TypeOK
  <2> SUFFICES ASSUME SyncInv PROVE TypeOK
    OBVIOUS
  <2>1. Branches \cup {-1} = -1..MaxReorgs
    BY Bounds DEF Branches
  <2>2. ASSUME NEW r \in DOMAIN rows
        PROVE  /\ r \in {Own(OwnTx)} \cup {Chain(tx) : tx \in Txs}
               /\ rows[r] \in [block : 0..MaxHeight, branch : -1..MaxReorgs,
                               status : {"pending", "finalized"}, signed : BOOLEAN,
                               revoked : BOOLEAN]
    BY <2>1 DEF SyncInv, StoreTypes, Ids, Rows, Heights
  <2>3. Len(blocks) <= MaxHeight /\ branch \in 0..MaxReorgs /\ checkpoint \in 0..MaxHeight
    BY Bounds DEF SyncInv, ChainTypes, StoreTypes, Heights, Branches
  <2>4. sync.failures \in 0..(THRESHOLD - 1)
    BY DEF SyncInv, Calls
  <2>5. devices \subseteq Devices /\ missed \subseteq Txs
    BY DEF SyncInv, StoreTypes
  <2>6. QED
    BY <2>2, <2>3, <2>4, <2>5 DEF TypeOK
<1>2. QED
  BY <1>1, SyncSafe, PTL

\* Every event at or below the checkpoint has its row or is one of the named exceptions,
\* however the calls of sync_from_chain were cut off and however the chain was reorganised.
THEOREM NothingForgotten == Spec => []CheckpointCovers
<1>1. SyncInv => CheckpointCovers
  <2> SUFFICES ASSUME SyncInv, NEW b \in 1..checkpoint, b <= Len(blocks), blocks[b].tx # NoTx,
                      blocks[b].tx \notin missed
               PROVE  Stored(blocks[b].tx)
    BY DEF CheckpointCovers
  <2>1. b \in DOMAIN blocks /\ b <= checkpoint
    BY Bounds DEF SyncInv, ChainTypes, StoreTypes, Heights
  <2>2. Known(Log(b)) /\ Log(b).tx = blocks[b].tx
    BY <2>1, LogFacts DEF SyncInv, CoverInv, Settled
  <2>3. CASE Chain(blocks[b].tx) \in DOMAIN rows
    BY <2>3 DEF Stored
  <2>4. CASE Anchored(Log(b)) # {}
    <3>1. PICK r \in DOMAIN rows : r[2] = blocks[b].tx
      BY <2>2, <2>4 DEF Anchored
    <3>2. r \in Ids
      BY DEF SyncInv, StoreTypes
    <3>3. r = Own(blocks[b].tx) \/ r = Chain(blocks[b].tx)
      BY <3>1, <3>2 DEF Ids, Own, Chain
    <3>4. QED
      BY <3>1, <3>3 DEF Stored
  <2>5. QED
    BY <2>2, <2>3, <2>4 DEF Known
<1>2. QED
  BY <1>1, SyncSafe, PTL

\* A row that a cut-off call left without its stamps is above the checkpoint, where the next
\* call of sync_from_chain stamps it, unless its event has left its block or was missed.
THEOREM UnstampedComesAgain == Spec => []UnstampedIsAhead
<1>1. SyncInv => UnstampedIsAhead
  <2> SUFFICES ASSUME SyncInv, NEW tx \in Txs, Chain(tx) \in DOMAIN rows,
                      rows[Chain(tx)].branch = -1 \/ (version = "V2" /\ ~rows[Chain(tx)].signed),
                      tx \notin missed,
                      ~(rows[Chain(tx)].block > checkpoint),
                      ~(rows[Chain(tx)].block > Len(blocks)),
                      blocks[rows[Chain(tx)].block].tx = tx
               PROVE  FALSE
    BY DEF UnstampedIsAhead
  <2>1. PICK b \in Heights : b = rows[Chain(tx)].block
    BY DEF SyncInv, StoreTypes, Rows
  <2>2. b # 0
    BY <2>1 DEF SyncInv, BlockInv
  <2>3. b \in DOMAIN blocks /\ b <= checkpoint
    BY <2>1, <2>2, Bounds DEF SyncInv, ChainTypes, StoreTypes, Heights
  <2>4. Settled(b) /\ blocks[b].tx = tx /\ tx # NoTx
    BY <2>1, <2>3, Bounds DEF SyncInv, CoverInv
  <2>5. QED
    BY <2>1, <2>4 DEF Settled, Complete
<1>2. QED
  BY <1>1, SyncSafe, PTL

\* After reevaluate_revocation_against_set, and through the whole tail, a V2 vault honors no
\* row of a signer outside the device set that the call has read.
THEOREM RevocationIsComplete == Spec => []NoUnderRevocation
<1>1. SyncInv => NoUnderRevocation
  BY DEF SyncInv, RevokedInv, NoUnderRevocation, Anchored
<1>2. QED
  BY <1>1, SyncSafe, PTL

\* No call tries more than THRESHOLD subscriptions in a row that fail to open or that the
\* pubsub layer reports closed without an event; drops that this layer repairs by itself do
\* not reach the breaker.
THEOREM EndpointIsGivenUp == Spec => []BreakerTrips
<1>1. SyncInv => BreakerTrips
  <2> SUFFICES ASSUME SyncInv PROVE sync.tries <= THRESHOLD
    BY DEF BreakerTrips
  <2>1. sync.failures \in 0..(THRESHOLD - 1) /\ sync.tries \in Nat /\ THRESHOLD \in Nat
    BY Bounds DEF SyncInv, Calls
  <2>2. sync.tries <= sync.failures + 1
    BY <2>1 DEF SyncInv, BreakerInv
  <2>3. QED
    BY <2>1, <2>2
<1>2. QED
  BY <1>1, SyncSafe, PTL

-----------------------------------------------------------------------------
(* What the detections of a call have found, and where the call began.     *)

OnChain(d, br) == d \in DOMAIN blocks /\ blocks[d].branch = br

\* A block is on the chain, or a reorg has dropped it: it does not come back.
Past(d, br) == OnChain(d, br) \/ br < branch

Fresh(d, br) == Past(d, br) /\ <<d, br>> \notin sync.gone

Handling == {"stamp", "sign", "ws_stamp", "ws_sign"}

\* No event that the call still has to handle is of a block that it has found off the chain.
GoneInv ==
  /\ \A c \in DOMAIN blocks : blocks[c].branch <= branch /\ <<c, blocks[c].branch>> \notin sync.gone
  /\ \A p \in sync.gone : p[2] < branch
  /\ \A log \in sync.todo \cup sync.removed : Fresh(log.block, log.branch)
  /\ sync.pc \in Handling => Fresh(sync.log.block, sync.log.branch)
  /\ \A d \in DOMAIN sync.seen : Past(d, sync.seen[d])
  /\ OrphansStayOut

\* What the call fetches, handles and remembers is above the cursor that it began with.
StartInv ==
  /\ sync.start <= sync.cursor
  /\ sync.pc \in {"next", "stamp", "sign", "advance"} => sync.cursor <= sync.upto
  /\ \A log \in sync.todo : log.block > sync.start
  /\ sync.pc \in {"stamp", "sign"} => sync.log.block > sync.start
  /\ \A d \in DOMAIN sync.seen : d > sync.start

\* A step that adds nothing to what was found.
LEMMA GoneKept ==
  ASSUME GoneInv, UNCHANGED <<blocks, branch>>, sync'.gone = sync.gone,
         \A log \in sync'.todo \cup sync'.removed :
           log \in sync.todo \cup sync.removed \/ OnChain(log.block, log.branch),
         sync'.pc \in Handling => Fresh(sync'.log.block, sync'.log.branch),
         \A d \in DOMAIN sync'.seen : Past(d, sync'.seen[d]),
         OrphansStayOut'
  PROVE  GoneInv'
<1>1. \A d, br : Past(d, br)' <=> Past(d, br)
  BY DEF Past, OnChain
<1>2. \A d, br : Fresh(d, br)' <=> Fresh(d, br)
  BY <1>1 DEF Fresh
<1>3. \A d, br : OnChain(d, br) => Fresh(d, br)
  BY DEF GoneInv, Fresh, Past, OnChain
<1>4. \A log \in sync'.todo \cup sync'.removed : Fresh(log.block, log.branch)'
  BY <1>2, <1>3 DEF GoneInv
<1>5. sync'.pc \in Handling => Fresh(sync.log.block, sync.log.branch)'
  BY <1>1 DEF Fresh
<1>6. \A d \in DOMAIN sync'.seen : Past(d, sync.seen[d])'
  BY DEF Past, OnChain
<1>7. QED
  BY <1>4, <1>5, <1>6 DEF GoneInv

\* A call that has not found anything.
LEMMA GoneEmpty ==
  ASSUME GoneInv, UNCHANGED <<blocks, branch>>, sync'.gone = {}, sync'.todo = {},
         sync'.removed = {}, sync'.seen = NothingSeen, sync'.pc \notin Handling
  PROVE  GoneInv'
<1>1. DOMAIN sync'.seen = {}
  BY DEF NothingSeen
<1>2. QED
  BY <1>1 DEF GoneInv, OrphansStayOut

LEMMA IdleHistory ==
  ASSUME GoneInv, UNCHANGED <<blocks, branch>>, sync' = Idle
  PROVE  GoneInv' /\ StartInv'
<1>1. /\ sync'.gone = {} /\ sync'.todo = {} /\ sync'.removed = {} /\ sync'.seen = NothingSeen
      /\ sync'.pc = "idle" /\ sync'.start = 0 /\ sync'.cursor = 0
  BY DEF Idle
<1>2. DOMAIN sync'.seen = {}
  BY <1>1 DEF NothingSeen
<1>3. GoneInv'
  BY <1>1, GoneEmpty DEF Handling
<1>4. StartInv'
  BY <1>1, <1>2 DEF StartInv
<1>5. QED
  BY <1>3, <1>4

\* Rows that keep their block keep out what was found.
LEMMA RowsStayOut ==
  ASSUME OrphansStayOut, sync'.gone = sync.gone, DOMAIN rows' \subseteq DOMAIN rows,
         \A r \in DOMAIN rows' : /\ rows'[r].block = rows[r].block
                                 /\ rows'[r].branch = rows[r].branch
                                 /\ rows'[r].status \in {rows[r].status, "finalized"}
  PROVE  OrphansStayOut'
  BY DEF OrphansStayOut

\* The passes over the rows change the status to final, or the mark.
LEMMA PassesKeepBlocks ==
  ASSUME SyncInv, NEW tip, NEW set,
         rows' \in {rows, Promoted(tip), Reevaluated(set)}
  PROVE  /\ DOMAIN rows' = DOMAIN rows
         /\ \A r \in DOMAIN rows' : /\ rows'[r].block = rows[r].block
                                    /\ rows'[r].branch = rows[r].branch
                                    /\ rows'[r].status \in {rows[r].status, "finalized"}
<1>1. CASE rows' = rows
  BY <1>1
<1>2. CASE rows' = Promoted(tip)
  <2>1. DOMAIN rows' = DOMAIN rows
    BY <1>2 DEF Promoted
  <2>2. ASSUME NEW r \in DOMAIN rows
        PROVE  /\ rows'[r].block = rows[r].block /\ rows'[r].branch = rows[r].branch
               /\ rows'[r].status \in {rows[r].status, "finalized"}
    <3>1. rows[r] \in Rows
      BY DEF SyncInv, StoreTypes
    <3>2. rows'[r] = rows[r] \/ rows'[r] = [rows[r] EXCEPT !.status = "finalized"]
      BY <1>2 DEF Promoted
    <3>3. QED
      BY <3>1, <3>2 DEF Rows
  <2>3. QED
    BY <2>1, <2>2
<1>3. CASE rows' = Reevaluated(set)
  <2>1. DOMAIN rows' = DOMAIN rows
    BY <1>3 DEF Reevaluated
  <2>2. ASSUME NEW r \in DOMAIN rows
        PROVE  /\ rows'[r].block = rows[r].block /\ rows'[r].branch = rows[r].branch
               /\ rows'[r].status \in {rows[r].status, "finalized"}
    <3>1. rows[r] \in Rows
      BY DEF SyncInv, StoreTypes
    <3>2. rows'[r] = rows[r] \/ rows'[r] = [rows[r] EXCEPT !.revoked = WantRevoked(r, set)]
      BY <1>3 DEF Reevaluated
    <3>3. QED
      BY <3>1, <3>2 DEF Rows
  <2>3. QED
    BY <2>1, <2>2
<1>4. QED
  BY <1>1, <1>2, <1>3

\* Steps of the call that end it or go on to another phase without a new event.
LEMMA PhaseHistory ==
  ASSUME SyncInv, GoneInv, StartInv,
         \/ Abort \/ read_authorized_set \/ advance_checkpoint \/ promote_rest \/ reevaluate
         \/ open_subscription \/ subscription_closed \/ recv_timeout \/ finish
  PROVE  GoneInv' /\ StartInv'
<1>1. sync \in Calls /\ 0 \in Heights
  BY Bounds DEF SyncInv, Heights
<1>2. UNCHANGED <<blocks, branch>>
  BY DEF Abort, read_authorized_set, advance_checkpoint, promote_rest, reevaluate,
     open_subscription, subscription_closed, recv_timeout, finish, chainVars
<1>3. rows' \in {rows, Promoted(sync.head), Reevaluated(sync.set)}
  BY DEF Abort, read_authorized_set, advance_checkpoint, promote_rest, reevaluate,
     open_subscription, subscription_closed, recv_timeout, finish, storeVars
<1>4. CASE sync' = Idle
  BY <1>2, <1>4, IdleHistory
<1>5. CASE sync' # Idle
  <2>1. /\ Unsubscribed.gone = sync.gone /\ Unsubscribed.todo = sync.todo
        /\ Unsubscribed.removed = {} /\ Unsubscribed.start = sync.start
        /\ Unsubscribed.cursor = sync.cursor /\ Unsubscribed.seen = sync.seen
        /\ DOMAIN Unsubscribed = DOMAIN sync
    BY <1>1 DEF Unsubscribed, Calls
  <2>2. /\ sync'.gone = sync.gone /\ sync'.todo = sync.todo
        /\ sync'.removed \in {sync.removed, {}} /\ sync'.start \in {sync.start, 0}
        /\ sync'.cursor = sync.cursor \/ (advance_checkpoint /\ sync'.cursor = sync.upto)
        /\ sync'.seen \in {sync.seen, NothingSeen}
        /\ sync'.pc \notin Handling \cup {"next", "advance"}
    <3>1. CASE read_authorized_set
      BY <1>1, <3>1 DEF read_authorized_set, Calls, Handling
    <3>2. CASE advance_checkpoint
      BY <1>1, <1>5, <3>2 DEF advance_checkpoint, Calls, Handling
    <3>3. CASE promote_rest \/ reevaluate
      <4>1. sync' = [sync EXCEPT !.pc = "reevaluate"] \/ sync' = TipFollow
        BY <1>5, <3>3 DEF promote_rest, reevaluate
      <4>2. CASE sync' = [sync EXCEPT !.pc = "reevaluate"]
        BY <1>1, <4>2 DEF Calls, Handling
      <4>3. CASE sync' = TipFollow
        BY <1>1, <4>3 DEF TipFollow, Calls, Handling
      <4>4. QED
        BY <4>1, <4>2, <4>3
    <3>4. CASE open_subscription
      <4>1. CASE sync' = Retried(sync.failures + 1, sync.tries + 1)
        BY <1>1, <2>1, <4>1 DEF Retried, Closing, Calls, Handling
      <4>2. CASE sync' = [sync EXCEPT !.pc = "recv", !.sub = Len(blocks), !.tries = sync.tries + 1]
        BY <1>1, <4>2 DEF Calls, Handling
      <4>3. QED
        BY <3>4, <4>1, <4>2 DEF open_subscription
    <3>5. CASE subscription_closed \/ recv_timeout
      BY <1>1, <2>1, <3>5 DEF subscription_closed, recv_timeout, Retried, Closing, Calls, Handling
    <3>6. QED
      BY <1>5, <3>1, <3>2, <3>3, <3>4, <3>5 DEF Abort, finish
  <2>3. \A d \in DOMAIN sync'.seen : d \in DOMAIN sync.seen /\ sync'.seen[d] = sync.seen[d]
    BY <2>2 DEF NothingSeen
  <2>4. OrphansStayOut'
    BY <1>3, <2>2, PassesKeepBlocks, RowsStayOut DEF GoneInv
  <2>5. GoneInv'
    BY <1>2, <2>2, <2>3, <2>4, GoneKept DEF GoneInv
  <2>6. sync.cursor <= sync'.cursor
    <3>1. advance_checkpoint => sync.cursor <= sync.upto
      BY DEF advance_checkpoint, At, StartInv
    <3>2. QED
      BY <1>1, <2>2, <3>1, Bounds DEF Calls, Heights
  <2>7. StartInv'
    <3>1. /\ sync.start \in Nat /\ sync.cursor \in Nat /\ sync'.cursor \in Nat
          /\ sync'.start \in Nat /\ sync'.start <= sync.start
          /\ \A log \in sync.todo : log.block \in Nat
      BY <1>1, <2>2, Bounds DEF Calls, Logs, Heights
    <3>2. DOMAIN sync.seen \subseteq Nat
      <4>1. sync.seen \in Seen
        BY <1>1 DEF Calls
      <4>2. DOMAIN sync.seen \subseteq Heights
        BY <4>1 DEF Seen
      <4>3. QED
        BY <4>2 DEF Heights
    <3>3. QED
      BY <2>2, <2>3, <2>6, <3>1, <3>2 DEF StartInv, Handling
  <2>8. QED
    BY <2>5, <2>7
<1>6. QED
  BY <1>4, <1>5

\* A call begins with nothing found.
LEMMA StartHistory ==
  ASSUME SyncInv, GoneInv, StartInv, NEW genesis \in BOOLEAN, NEW websocket \in BOOLEAN,
         NEW until \in 0..MaxHeight, sync_from_chain(genesis, until, websocket)
  PROVE  GoneInv' /\ StartInv'
<1> DEFINE cursor == IF genesis THEN 0 ELSE checkpoint
           to == IF until = 0 THEN Len(blocks) ELSE until
<1>1. /\ UNCHANGED <<blocks, branch>>
      /\ sync' = [Idle EXCEPT !.pc = IF version = "V2" THEN "set" ELSE "fetch",
                              !.cursor = cursor, !.start = cursor, !.head = to,
                              !.tail = websocket /\ until = 0]
  BY DEF sync_from_chain, chainVars
<1>2. cursor \in Nat
  BY Bounds DEF SyncInv, StoreTypes, Heights
<1> HIDE DEF cursor, to
<1>3. /\ sync'.gone = {} /\ sync'.todo = {} /\ sync'.removed = {} /\ sync'.seen = NothingSeen
      /\ sync'.pc \in {"set", "fetch"} /\ sync'.start = cursor /\ sync'.cursor = cursor
  BY <1>1 DEF Idle
<1>4. DOMAIN sync'.seen = {}
  BY <1>3 DEF NothingSeen
<1>5. GoneInv'
  BY <1>1, <1>3, GoneEmpty DEF Handling
<1>6. StartInv'
  BY <1>2, <1>3, <1>4 DEF StartInv
<1>7. QED
  BY <1>5, <1>6

\* What is fetched is on the chain, above the cursor.
LEMMA FetchHistory ==
  ASSUME SyncInv, GoneInv, StartInv, fetch_chunk
  PROVE  GoneInv' /\ StartInv'
<1> DEFINE logs == Fetched(ChunkStart, ChunkEnd)
<1>1. /\ UNCHANGED <<blocks, branch, rows>> /\ sync.pc = "fetch" /\ sync.cursor < sync.head
      /\ sync' = [sync EXCEPT !.pc = "next", !.upto = ChunkEnd, !.todo = logs]
  BY DEF fetch_chunk, At, chainVars, storeVars
<1>2. sync \in Calls
  BY DEF SyncInv
<1>3. /\ sync'.pc = "next" /\ sync'.upto = ChunkEnd /\ sync'.todo = logs
      /\ sync'.gone = sync.gone /\ sync'.removed = sync.removed /\ sync'.start = sync.start
      /\ sync'.cursor = sync.cursor /\ sync'.seen = sync.seen
  BY <1>1, <1>2 DEF Calls
<1>4. sync.cursor \in Nat /\ sync.head \in Nat /\ sync.start \in Nat /\ CHUNK \in Nat \ {0}
  BY <1>2, Bounds DEF Calls, Heights
<1>5. ASSUME NEW log \in logs
      PROVE  OnChain(log.block, log.branch) /\ log.block > sync.start
  <2>1. PICK b \in (ChunkStart..ChunkEnd) \cap DOMAIN blocks : log = Log(b)
    BY DEF Fetched
  <2>2. log.block = b /\ log.branch = blocks[b].branch /\ b \in Nat
    BY <2>1, LogFacts DEF SyncInv
  <2>3. b > sync.cursor
    BY <1>4, <2>1, <2>2 DEF ChunkStart
  <2>4. QED
    BY <1>4, <2>1, <2>2, <2>3 DEF OnChain, StartInv
<1> HIDE DEF logs
<1>6. OrphansStayOut'
  BY <1>1, <1>3 DEF GoneInv, OrphansStayOut
<1>7. GoneInv'
  BY <1>1, <1>3, <1>5, <1>6, GoneKept DEF GoneInv, Handling
<1>8. StartInv'
  <2>1. sync.cursor <= ChunkEnd
    BY <1>1, <1>4 DEF ChunkEnd
  <2>2. QED
    BY <1>3, <1>5, <2>1 DEF StartInv
<1>9. QED
  BY <1>7, <1>8

\* A row that is inserted has not been observed.
LEMMA IngestStaysOut ==
  ASSUME SyncInv, OrphansStayOut, NEW log, Ingest(log), sync'.gone = sync.gone
  PROVE  OrphansStayOut'
<1>1. CASE rows' = rows
  BY <1>1 DEF OrphansStayOut
<1>2. CASE rows' # rows
  <2> DEFINE new == Chain(log.tx)
  <2>1. rows' = [r \in DOMAIN rows \cup {new} |-> IF r = new THEN Row(log.block) ELSE rows[r]]
    BY <1>2 DEF Ingest
  <2>2. rows'[new] = Row(log.block) /\ Row(log.block).status = "finalized"
    BY <2>1 DEF Row
  <2>3. \A r \in DOMAIN rows' : r = new \/ (r \in DOMAIN rows /\ rows'[r] = rows[r])
    BY <2>1
  <2> HIDE DEF new
  <2>4. QED
    BY <2>2, <2>3 DEF OrphansStayOut
<1>3. QED
  BY <1>1, <1>2

\* An event is taken from the chunk, or from the subscription.
LEMMA IngestHistory ==
  ASSUME SyncInv, GoneInv, StartInv, ingest_event \/ recv_event \/ recv_removed
  PROVE  GoneInv' /\ StartInv'
<1>1. sync \in Calls /\ UNCHANGED <<blocks, branch>>
  BY DEF SyncInv, ingest_event, recv_event, recv_removed, chainVars
<1>2. ASSUME NEW log, NEW ret \in Calls, ingest(log, ret), Fresh(log.block, log.branch),
             ret.pc = sync.pc, sync.pc \in {"next", "recv"}, ret.gone = sync.gone,
             ret.start = sync.start,
             ret.cursor = sync.cursor, ret.upto = sync.upto, ret.seen = sync.seen,
             ret.todo \subseteq sync.todo, ret.removed \subseteq sync.removed,
             sync.pc = "next" => log.block > sync.start
      PROVE  GoneInv' /\ StartInv'
  <2>1. \/ sync' = [ret EXCEPT !.pc = StampPhase(log), !.log = log] /\ Ingest(log)
        \/ sync' = ret /\ rows' = rows
    BY <1>2 DEF ingest
  <2>2. /\ sync'.gone = sync.gone /\ sync'.start = sync.start /\ sync'.cursor = sync.cursor
        /\ sync'.upto = sync.upto /\ sync'.seen = sync.seen /\ sync'.todo \subseteq sync.todo
        /\ sync'.removed \subseteq sync.removed
        /\ sync'.pc \in Handling => sync'.log = log
        /\ sync.pc = "recv" => sync'.pc \in {"recv", "ws_stamp"}
    BY <1>2, <2>1 DEF Calls, StampPhase, At, Handling
  <2>3. OrphansStayOut'
    <3>1. CASE rows' = rows
      BY <2>2, <3>1 DEF GoneInv, OrphansStayOut
    <3>2. CASE rows' # rows
      BY <2>1, <2>2, <3>2, IngestStaysOut DEF GoneInv
    <3>3. QED
      BY <3>1, <3>2
  <2>4. sync'.pc \in Handling => Fresh(sync'.log.block, sync'.log.branch)
    BY <1>2, <2>2
  <2>5. GoneInv'
    BY <1>1, <2>2, <2>3, <2>4, GoneKept DEF GoneInv
  <2>6. StartInv'
    BY <1>2, <2>2 DEF StartInv, Handling
  <2>7. QED
    BY <2>5, <2>6
<1>3. CASE ingest_event
  <2>1. PICK log \in sync.todo : ingest(log, [sync EXCEPT !.todo = sync.todo \ {log}])
    BY <1>3 DEF ingest_event
  <2>2. sync.pc = "next" /\ Fresh(log.block, log.branch) /\ log.block > sync.start
    BY <1>3, <2>1 DEF ingest_event, At, GoneInv, StartInv
  <2>3. PICK ret \in Calls : ret = [sync EXCEPT !.todo = sync.todo \ {log}]
    BY <1>1 DEF Calls
  <2>4. /\ ret.pc = sync.pc /\ ret.gone = sync.gone /\ ret.start = sync.start
        /\ ret.cursor = sync.cursor /\ ret.upto = sync.upto /\ ret.seen = sync.seen
        /\ ret.todo \subseteq sync.todo /\ ret.removed \subseteq sync.removed
    BY <1>1, <2>3 DEF Calls
  <2>5. QED
    BY <1>2, <2>1, <2>2, <2>3, <2>4
<1>4. CASE recv_event
  <2>1. PICK n \in (sync.sub + 1)..Len(blocks) : ingest(Log(n), [sync EXCEPT !.sub = n])
    BY <1>4 DEF recv_event
  <2>2. n \in DOMAIN blocks /\ n \in Heights /\ sync.pc = "recv"
    BY <1>1, <1>4, <2>1, Bounds DEF recv_event, At, SyncInv, ChainTypes, Calls, Heights
  <2>3. Fresh(Log(n).block, Log(n).branch)
    <3>1. Log(n).block = n /\ Log(n).branch = blocks[n].branch
      BY <2>2, LogFacts DEF SyncInv
    <3>2. QED
      BY <2>2, <3>1 DEF Fresh, Past, OnChain, GoneInv
  <2>4. PICK ret \in Calls : ret = [sync EXCEPT !.sub = n]
    BY <1>1, <2>2 DEF Calls
  <2>5. /\ ret.pc = sync.pc /\ ret.gone = sync.gone /\ ret.start = sync.start
        /\ ret.cursor = sync.cursor /\ ret.upto = sync.upto /\ ret.seen = sync.seen
        /\ ret.todo \subseteq sync.todo /\ ret.removed \subseteq sync.removed
    BY <1>1, <2>4 DEF Calls
  <2>6. QED
    BY <1>2, <2>1, <2>2, <2>3, <2>4, <2>5
<1>5. CASE recv_removed
  <2>1. PICK log \in sync.removed : ingest(log, [sync EXCEPT !.removed = sync.removed \ {log}])
    BY <1>5 DEF recv_removed
  <2>2. sync.pc = "recv" /\ Fresh(log.block, log.branch)
    BY <1>5, <2>1 DEF recv_removed, At, GoneInv
  <2>3. PICK ret \in Calls : ret = [sync EXCEPT !.removed = sync.removed \ {log}]
    BY <1>1 DEF Calls
  <2>4. /\ ret.pc = sync.pc /\ ret.gone = sync.gone /\ ret.start = sync.start
        /\ ret.cursor = sync.cursor /\ ret.upto = sync.upto /\ ret.seen = sync.seen
        /\ ret.todo \subseteq sync.todo /\ ret.removed \subseteq sync.removed
    BY <1>1, <2>3 DEF Calls
  <2>5. QED
    BY <1>2, <2>1, <2>2, <2>3, <2>4
<1>6. QED
  BY <1>3, <1>4, <1>5

\* The 'pending' stamp names a block that was not found off the chain.
LEMMA StampHistory ==
  ASSUME SyncInv, GoneInv, StartInv, stamp_event
  PROVE  GoneInv' /\ StartInv'
<1>1. /\ sync.pc \in {"stamp", "ws_stamp"} /\ rows' = Stamped(sync.log)
      /\ sync' = [sync EXCEPT !.pc = IF sync.pc = "stamp" THEN "sign" ELSE "ws_sign"]
      /\ UNCHANGED <<blocks, branch, version>>
  BY DEF stamp_event, At, chainVars
<1>2. sync \in Calls /\ sync.log \in Logs
  BY DEF SyncInv, Calls
<1>3. /\ sync'.gone = sync.gone /\ sync'.start = sync.start /\ sync'.cursor = sync.cursor
      /\ sync'.upto = sync.upto /\ sync'.seen = sync.seen /\ sync'.todo = sync.todo
      /\ sync'.removed = sync.removed /\ sync'.log = sync.log
      /\ sync'.pc \in {"sign", "ws_sign"}
      /\ sync'.pc = "sign" => sync.pc = "stamp"
  BY <1>1, <1>2 DEF Calls
<1>4. Fresh(sync.log.block, sync.log.branch)
  BY <1>1 DEF GoneInv, Handling
<1>5. /\ DOMAIN rows' = DOMAIN rows
      /\ \A r \in DOMAIN rows \ Anchored(sync.log) : rows'[r] = rows[r]
      /\ \A r \in Anchored(sync.log) : rows'[r].branch = sync.log.branch
      /\ \A r \in DOMAIN rows : rows'[r].block = rows[r].block
  BY <1>1, <1>2, StampedFacts
<1>6. OrphansStayOut'
  <2>1. ASSUME NEW r \in DOMAIN rows, <<rows'[r].block, rows'[r].branch>> \in sync.gone
        PROVE  rows'[r].status = "finalized"
    <3>1. r \notin Anchored(sync.log)
      BY <1>4, <1>5, <2>1 DEF Fresh, Anchored
    <3>2. QED
      BY <1>5, <2>1, <3>1 DEF GoneInv, OrphansStayOut
  <2>2. QED
    BY <1>3, <1>5, <2>1 DEF OrphansStayOut
<1>7. GoneInv'
  BY <1>1, <1>3, <1>4, <1>6, GoneKept DEF GoneInv
<1>8. StartInv'
  BY <1>1, <1>3 DEF StartInv
<1>9. QED
  BY <1>7, <1>8

\* The signer's stamp leaves the block, and the detector records it.
LEMMA SignHistory ==
  ASSUME SyncInv, GoneInv, StartInv, sign_event \/ sign_ws_event
  PROVE  GoneInv' /\ StartInv'
<1>1. /\ sync \in Calls /\ sync.log \in Logs /\ sync.seen \in Seen /\ sync.log.block \in Nat
      /\ sync.cursor \in Nat /\ sync.start \in Nat
  BY Bounds DEF SyncInv, Calls, Logs, Heights
<1>2. /\ UNCHANGED <<blocks, branch>> /\ rows' = Signed(sync.log)
  BY DEF sign_event, sign_ws_event, chainVars
<1>3. /\ DOMAIN rows' \subseteq DOMAIN rows
      /\ \A r \in DOMAIN rows' : /\ rows'[r].block = rows[r].block
                                 /\ rows'[r].branch = rows[r].branch
                                 /\ rows'[r].status = rows[r].status
  <2>1. DOMAIN rows' = DOMAIN rows
    BY <1>2 DEF Signed
  <2>2. ASSUME NEW r \in DOMAIN rows
        PROVE  /\ rows'[r].block = rows[r].block /\ rows'[r].branch = rows[r].branch
               /\ rows'[r].status = rows[r].status
    <3>1. rows[r] \in Rows
      BY DEF SyncInv, StoreTypes
    <3>2. rows'[r] = rows[r] \/ rows'[r] = [rows[r] EXCEPT !.signed = TRUE]
      BY <1>2 DEF Signed
    <3>3. QED
      BY <3>1, <3>2 DEF Rows
  <2>3. QED
    BY <2>1, <2>2
<1>4. CASE sign_event
  <2> DEFINE seen == Recorded(sync.seen, sync.log)
  <2>1. /\ sync.pc = "sign"
        /\ sync' = [sync EXCEPT !.pc = "next", !.seen = seen, !.log = NoLog]
    BY <1>4 DEF sign_event, At
  <2>2. /\ seen \in Seen
        /\ \A d \in DOMAIN seen : \/ d = sync.log.block /\ seen[d] = sync.log.branch
                                  \/ d \in DOMAIN sync.seen /\ seen[d] = sync.seen[d]
    BY <1>1, RecordedFacts
  <2> HIDE DEF seen
  <2>3. /\ sync'.gone = sync.gone /\ sync'.start = sync.start /\ sync'.cursor = sync.cursor
        /\ sync'.upto = sync.upto /\ sync'.seen = seen /\ sync'.todo = sync.todo
        /\ sync'.removed = sync.removed /\ sync'.pc = "next"
    BY <1>1, <2>1 DEF Calls
  <2>4. Past(sync.log.block, sync.log.branch) /\ sync.log.block > sync.start
    BY <2>1 DEF GoneInv, StartInv, Fresh, Handling
  <2>5. OrphansStayOut'
    BY <1>3, <2>3, RowsStayOut DEF GoneInv
  <2>6. GoneInv'
    BY <1>2, <2>2, <2>3, <2>4, <2>5, GoneKept DEF GoneInv, Handling
  <2>7. StartInv'
    BY <2>1, <2>2, <2>3, <2>4 DEF StartInv
  <2>8. QED
    BY <2>6, <2>7
<1>5. CASE sign_ws_event
  <2> DEFINE n == sync.log.block
             kept == [sync EXCEPT !.pc = "recv", !.used = TRUE, !.fresh = TRUE, !.log = NoLog,
                                  !.tries = 0]
  <2>1. \/ sync' = Idle \/ sync' = kept
        \/ n > sync.cursor /\ sync' = [kept EXCEPT !.cursor = n]
    BY <1>5 DEF sign_ws_event
  <2>2. CASE sync' = Idle
    BY <1>2, <2>2, IdleHistory
  <2>3. CASE sync' # Idle
    <3>1. /\ kept.gone = sync.gone /\ kept.start = sync.start /\ kept.seen = sync.seen
          /\ kept.todo = sync.todo /\ kept.removed = sync.removed /\ kept.pc = "recv"
          /\ kept.cursor = sync.cursor /\ DOMAIN kept = DOMAIN sync
      BY <1>1 DEF Calls
    <3> HIDE DEF kept
    <3>2. /\ sync'.gone = sync.gone /\ sync'.start = sync.start /\ sync'.seen = sync.seen
          /\ sync'.todo = sync.todo /\ sync'.removed = sync.removed /\ sync'.pc = "recv"
          /\ sync'.cursor = sync.cursor \/ (n > sync.cursor /\ sync'.cursor = n)
      BY <1>1, <2>1, <2>3, <3>1 DEF Calls
    <3>3. OrphansStayOut'
      BY <1>3, <3>2, RowsStayOut DEF GoneInv
    <3>4. GoneInv'
      BY <1>2, <3>2, <3>3, GoneKept DEF GoneInv, Handling
    <3>5. StartInv'
      BY <1>1, <3>2 DEF StartInv
    <3>6. QED
      BY <3>4, <3>5
  <2>4. QED
    BY <2>2, <2>3
<1>6. QED
  BY <1>4, <1>5

\* The rollback takes the pending rows of every block that is found off the chain.
LEMMA DetectHistory ==
  ASSUME SyncInv, GoneInv, StartInv, detect_reorg
  PROVE  GoneInv' /\ StartInv'
<1> DEFINE window == Window(Divergent(sync.seen))
           left == Restrict(sync.seen, DOMAIN sync.seen \ window)
<1>1. /\ sync.pc = "next" /\ sync.todo = {}
      /\ rows' = Restrict(rows, DOMAIN rows \ RolledBack(window))
      /\ sync' = [sync EXCEPT !.pc = "advance", !.seen = left,
                              !.gone = sync.gone \cup Orphaned(sync.seen)]
      /\ UNCHANGED <<blocks, branch>>
  BY DEF detect_reorg, At, chainVars
<1>2. /\ sync \in Calls /\ sync.seen \in Seen /\ sync.removed = {}
      /\ DOMAIN sync.seen \subseteq 0..MaxHeight
  BY <1>1 DEF SyncInv, Calls, CallInv, Seen, Heights
<1>3. /\ DOMAIN rows' = DOMAIN rows \ RolledBack(window)
      /\ \A r \in DOMAIN rows' : rows'[r] = rows[r]
  BY <1>1 DEF Restrict
<1>4. \A d \in DOMAIN left : d \in DOMAIN sync.seen /\ left[d] = sync.seen[d]
  BY DEF Restrict
<1>5. \A p \in Orphaned(sync.seen) :
        /\ p = <<p[1], p[2]>> /\ p[1] \in DOMAIN sync.seen /\ p[2] = sync.seen[p[1]]
        /\ ~OnChain(p[1], p[2])
  BY <1>2, OrphanedFacts DEF OnChain
<1>6. \A p \in Orphaned(sync.seen) : p[1] \in window
  <2>1. SUFFICES ASSUME NEW p \in Orphaned(sync.seen) PROVE p[1] \in window
    OBVIOUS
  <2>2. p[1] \in Divergent(sync.seen)
    <3>1. p[1] \in DOMAIN sync.seen /\ p[2] = sync.seen[p[1]] /\ ~OnChain(p[1], p[2])
      BY <1>5, <2>1
    <3>2. p[1] \in Nat /\ sync.start \in Nat /\ p[1] > sync.start
      BY <1>2, <3>1, Bounds DEF Calls, Heights, StartInv
    <3>3. DOMAIN blocks = 1..Len(blocks) /\ Len(blocks) \in Nat
      BY DEF SyncInv, ChainTypes
    <3>4. p[1] > Len(blocks) \/ p[1] \in DOMAIN blocks
      BY <3>2, <3>3
    <3>5. QED
      BY <3>1, <3>4 DEF Divergent, OnChain
  <2>3. QED
    BY <1>2, <1>5, <2>2, Bounds DEF Window
<1> HIDE DEF left, window
<1>7. /\ sync'.pc = "advance" /\ sync'.seen = left /\ sync'.todo = {} /\ sync'.removed = {}
      /\ sync'.gone = sync.gone \cup Orphaned(sync.seen) /\ sync'.start = sync.start
      /\ sync'.cursor = sync.cursor /\ sync'.upto = sync.upto
  BY <1>1, <1>2 DEF Calls
<1>8. GoneInv'
  <2>1. \A c \in DOMAIN blocks : <<c, blocks[c].branch>> \notin Orphaned(sync.seen)
    BY <1>5 DEF OnChain
  <2>2. \A p \in Orphaned(sync.seen) : p[2] < branch
    BY <1>5 DEF GoneInv, Past
  <2>3. OrphansStayOut'
    <3>1. ASSUME NEW r \in DOMAIN rows', <<rows[r].block, rows[r].branch>> \in Orphaned(sync.seen)
          PROVE  rows[r].status = "finalized"
      <4>1. rows[r].block \in window
        BY <1>6, <3>1
      <4>2. rows[r] \in Rows
        BY <1>3 DEF SyncInv, StoreTypes
      <4>3. QED
        BY <1>3, <4>1, <4>2 DEF RolledBack, Rows
    <3>2. QED
      BY <1>3, <1>7, <3>1 DEF GoneInv, OrphansStayOut
  <2>4. \A d \in DOMAIN sync'.seen : Past(d, sync.seen[d])'
    BY <1>1, <1>4, <1>7 DEF GoneInv, Past, OnChain
  <2>5. QED
    BY <1>1, <1>7, <2>1, <2>2, <2>3, <2>4 DEF GoneInv, Handling
<1>9. StartInv'
  BY <1>1, <1>4, <1>7 DEF StartInv
<1>10. QED
  BY <1>8, <1>9

\* A new block is of the current branch, which no block that was dropped is of.
LEMMA MineHistory ==
  ASSUME SyncInv, GoneInv, StartInv, publish \/ \E tx \in Contents : Mine(tx)
  PROVE  GoneInv' /\ StartInv'
<1>0. PICK tx \in Contents : Append1(tx)
  BY Bounds DEF publish, Mine, Contents
<1>1. sync' = sync /\ branch' = branch /\ branch \in Nat
  BY Bounds DEF publish, Mine, SyncInv, ChainTypes, Branches
<1>2. PICK n : n = Len(blocks) + 1
  OBVIOUS
<1>3. /\ DOMAIN blocks' = DOMAIN blocks \cup {n}
      /\ \A b \in DOMAIN blocks : blocks'[b] = blocks[b]
      /\ blocks'[n].branch = branch
  <2>1. blocks' = Append(blocks, [branch |-> branch, tx |-> tx]) /\ blocks \in Seq(Blocks)
    BY <1>0 DEF Append1, SyncInv, ChainTypes
  <2>2. [branch |-> branch, tx |-> tx] \in Blocks
    BY DEF SyncInv, ChainTypes, Blocks
  <2>3. /\ DOMAIN blocks' = DOMAIN blocks \cup {n}
        /\ \A b \in DOMAIN blocks : blocks'[b] = blocks[b]
        /\ blocks'[n] = [branch |-> branch, tx |-> tx]
    BY <1>2, <2>1, <2>2
  <2>4. QED
    BY <2>3
<1>4. \A d, br : Past(d, br) => Past(d, br)'
  BY <1>1, <1>3 DEF Past, OnChain
<1>5. \A c \in DOMAIN blocks' : blocks'[c].branch <= branch /\ <<c, blocks'[c].branch>> \notin sync.gone
  <2>1. ASSUME NEW c \in DOMAIN blocks
        PROVE  blocks'[c].branch <= branch /\ <<c, blocks'[c].branch>> \notin sync.gone
    BY <1>3 DEF GoneInv
  <2>2. branch <= branch /\ <<n, branch>> \notin sync.gone
    BY <1>1 DEF GoneInv
  <2>3. QED
    BY <1>3, <2>1, <2>2
<1>6. OrphansStayOut'
  <2>1. CASE rows' = rows
    BY <1>1, <2>1 DEF GoneInv, OrphansStayOut
  <2>2. CASE rows' # rows
    <3>1. sync = Idle
      BY <2>2 DEF publish, Mine, storeVars
    <3>2. sync'.gone = {}
      BY <1>1, <3>1 DEF Idle
    <3>3. QED
      BY <3>2 DEF OrphansStayOut
  <2>3. QED
    BY <2>1, <2>2
<1>7. GoneInv'
  <2>1. \A d, br : Fresh(d, br) => Fresh(d, br)'
    BY <1>1, <1>4 DEF Fresh
  <2>2. QED
    BY <1>1, <1>4, <1>5, <1>6, <2>1 DEF GoneInv
<1>8. StartInv'
  BY <1>1 DEF StartInv
<1>9. QED
  BY <1>7, <1>8

\* The blocks that a reorg drops are of an earlier branch from then on.
LEMMA ReorgHistory ==
  ASSUME SyncInv, GoneInv, StartInv, NEW keep \in 0..MaxHeight, Reorg(keep)
  PROVE  GoneInv' /\ StartInv'
<1>1. /\ blocks' = SubSeq(blocks, 1, keep) /\ branch' = branch + 1 /\ branch \in Nat
      /\ keep \in 0..(Len(blocks) - 1) /\ rows' = rows
      /\ \/ sync' = sync
         \/ sync' = [sync EXCEPT !.removed = sync.removed \cup Dropped(keep)]
  BY Bounds DEF Reorg, storeVars, SyncInv, ChainTypes, Branches
<1>2. sync \in Calls /\ blocks \in Seq(Blocks) /\ Len(blocks) \in Nat
  BY Bounds DEF SyncInv, ChainTypes, Heights
<1>3. /\ sync'.pc = sync.pc /\ sync'.cursor = sync.cursor /\ sync'.upto = sync.upto
      /\ sync'.todo = sync.todo /\ sync'.seen = sync.seen /\ sync'.log = sync.log
      /\ sync'.start = sync.start /\ sync'.gone = sync.gone
      /\ sync'.removed \subseteq sync.removed \cup Dropped(keep)
  BY <1>1, <1>2 DEF Calls
<1>4. /\ DOMAIN blocks' = 1..keep
      /\ \A b \in 1..keep : b \in DOMAIN blocks /\ blocks'[b] = blocks[b]
  BY <1>1, <1>2
<1>5. \A b \in DOMAIN blocks : blocks[b].branch \in Nat /\ blocks[b].branch <= branch
  <2>1. \A b \in DOMAIN blocks : blocks[b] \in Blocks
    BY <1>2
  <2>2. \A b \in DOMAIN blocks : blocks[b].branch \in Nat
    BY <2>1, Bounds DEF Blocks, Branches
  <2>3. \A b \in DOMAIN blocks : blocks[b].branch <= branch
    BY DEF GoneInv
  <2>4. QED
    BY <2>2, <2>3
<1>6. ASSUME NEW d, NEW br \in Nat, Past(d, br)
      PROVE  br < branch'
  BY <1>1, <1>5, <1>6 DEF Past, OnChain
<1>7. \A log \in Dropped(keep) : Fresh(log.block, log.branch) /\ log.branch \in Nat
  <2>1. SUFFICES ASSUME NEW log \in Dropped(keep)
                 PROVE  Fresh(log.block, log.branch) /\ log.branch \in Nat
    OBVIOUS
  <2>2. PICK b \in DOMAIN blocks : log = Log(b)
    BY DEF Dropped
  <2>3. log.block = b /\ log.branch = blocks[b].branch
    BY <2>2, LogFacts DEF SyncInv
  <2>4. QED
    BY <1>5, <2>2, <2>3 DEF Fresh, Past, OnChain, GoneInv
<1>8. /\ \A log \in sync.todo \cup sync.removed : log.branch \in Nat
      /\ sync.log.branch \in Nat
      /\ \A d \in DOMAIN sync.seen : sync.seen[d] \in Nat
      /\ \A p \in sync.gone : p[2] \in Nat
  <2>1. /\ \A log \in sync.todo \cup sync.removed : log.branch \in Nat
        /\ sync.log.branch \in Nat
    BY <1>2, Bounds DEF Calls, Logs, Branches
  <2>2. \A d \in DOMAIN sync.seen : sync.seen[d] \in Nat
    BY <1>2, Bounds DEF Calls, Seen, Branches
  <2>3. \A p \in sync.gone : p[2] \in Nat
    <3>1. sync.gone \subseteq Heights \X Branches
      BY <1>2 DEF Calls
    <3>2. QED
      BY <3>1, Bounds DEF Branches
  <2>4. QED
    BY <2>1, <2>2, <2>3
<1>9. \A log \in sync'.todo \cup sync'.removed : Fresh(log.block, log.branch)'
  <2>1. SUFFICES ASSUME NEW log \in sync'.todo \cup sync'.removed
                 PROVE  Fresh(log.block, log.branch)'
    OBVIOUS
  <2>2. Fresh(log.block, log.branch) /\ log.branch \in Nat
    BY <1>3, <1>7, <1>8, <2>1 DEF GoneInv
  <2>3. QED
    BY <1>3, <1>6, <2>2 DEF Fresh, Past
<1>10. sync'.pc \in Handling => Fresh(sync.log.block, sync.log.branch)'
  <2>1. sync.pc \in Handling => sync.log.branch < branch'
    BY <1>6, <1>8 DEF GoneInv, Fresh
  <2>2. QED
    BY <1>3, <2>1 DEF GoneInv, Fresh, Past
<1>11. \A d \in DOMAIN sync'.seen : Past(d, sync.seen[d])'
  <2>1. \A d \in DOMAIN sync.seen : sync.seen[d] < branch'
    BY <1>6, <1>8 DEF GoneInv
  <2>2. QED
    BY <1>3, <2>1 DEF Past
<1>12. \A c \in DOMAIN blocks' : /\ blocks'[c].branch <= branch'
                                 /\ <<c, blocks'[c].branch>> \notin sync'.gone
  BY <1>1, <1>3, <1>4, <1>5 DEF GoneInv
<1>13. \A p \in sync'.gone : p[2] < branch'
  BY <1>1, <1>3, <1>8 DEF GoneInv
<1>14. OrphansStayOut'
  BY <1>1, <1>3 DEF GoneInv, OrphansStayOut
<1>15. GoneInv'
  BY <1>9, <1>10, <1>11, <1>12, <1>13, <1>14 DEF GoneInv
<1>16. StartInv'
  BY <1>3 DEF StartInv
<1>17. QED
  BY <1>15, <1>16

LEMMA InitHistory == Init => GoneInv /\ StartInv
<1> SUFFICES ASSUME Init PROVE GoneInv /\ StartInv
  OBVIOUS
<1>1. /\ sync.gone = {} /\ sync.todo = {} /\ sync.removed = {} /\ DOMAIN sync.seen = {}
      /\ sync.pc = "idle" /\ sync.start = 0 /\ sync.cursor = 0
  BY DEF Init, Idle, NothingSeen
<1>2. DOMAIN blocks = {}
  BY DEF Init
<1>3. GoneInv
  BY <1>1, <1>2 DEF GoneInv, OrphansStayOut, Handling
<1>4. StartInv
  BY <1>1 DEF StartInv
<1>5. QED
  BY <1>3, <1>4

LEMMA NextHistory == SyncInv /\ GoneInv /\ StartInv /\ [Next]_vars => GoneInv' /\ StartInv'
<1> SUFFICES ASSUME SyncInv, GoneInv, StartInv, [Next]_vars PROVE GoneInv' /\ StartInv'
  OBVIOUS
<1>1. ASSUME NEW tx \in Txs \cup {NoTx}, Mine(tx) PROVE GoneInv' /\ StartInv'
  BY <1>1, MineHistory DEF Contents
<1>2. ASSUME NEW keep \in 0..MaxHeight, Reorg(keep) PROVE GoneInv' /\ StartInv'
  BY <1>2, ReorgHistory
<1>3. CASE publish
  BY <1>3, MineHistory
<1>4. ASSUME NEW genesis \in BOOLEAN, NEW websocket \in BOOLEAN, NEW until \in 0..MaxHeight,
             sync_from_chain(genesis, until, websocket)
      PROVE  GoneInv' /\ StartInv'
  BY <1>4, StartHistory
<1>5. CASE Step \/ Abort
  BY <1>5, PhaseHistory, FetchHistory, IngestHistory, StampHistory, SignHistory, DetectHistory
     DEF Step
<1>6. CASE (\E set \in SUBSET Devices : ChangeSet(set)) \/ UNCHANGED vars
  <2>1. UNCHANGED <<blocks, branch, rows, sync>>
    BY <1>6 DEF ChangeSet, vars, chainVars, storeVars
  <2>2. QED
    BY <2>1 DEF GoneInv, StartInv, OrphansStayOut, Fresh, Past, OnChain
<1>7. QED
  BY <1>1, <1>2, <1>3, <1>4, <1>5, <1>6 DEF Next

\* What the detections found off the chain stays out of the store for the rest of the call:
\* no block that detect_reorg found replaced or missing has a pending row, whether the row is
\* of this call or an earlier one and whatever the subscription still delivers.
THEOREM OrphansAreRolledBack == Spec => []OrphansStayOut
<1>1. Init => SyncInv /\ GoneInv /\ StartInv
  BY InitInv, InitHistory
<1>2. SyncInv /\ GoneInv /\ StartInv /\ [Next]_vars => (SyncInv /\ GoneInv /\ StartInv)'
  BY NextInv, NextHistory
<1>3. GoneInv => OrphansStayOut
  BY DEF GoneInv
<1>4. QED
  BY <1>1, <1>2, <1>3, PTL DEF Spec

\* Rows are taken away by the rollback only, and of those of a call that continues from the
\* checkpoint none is at or below it: the window of extend_window holds no block that the call
\* has not passed.
THEOREM SettledRowsStay == Spec => SettledStays
<1> DEFINE Kept == \A r \in DOMAIN rows \ DOMAIN rows' : rows[r].block > sync.start
<1>1. SyncInv /\ StartInv /\ [Next]_vars => Kept
  <2> SUFFICES ASSUME SyncInv, StartInv, [Next]_vars PROVE Kept
    OBVIOUS
  <2>1. CASE DOMAIN rows \subseteq DOMAIN rows'
    BY <2>1
  <2>2. CASE detect_reorg
    <3> DEFINE window == Window(Divergent(sync.seen))
    <3>1. rows' = Restrict(rows, DOMAIN rows \ RolledBack(window))
      BY <2>2 DEF detect_reorg
    <3>2. DOMAIN rows' = DOMAIN rows \ RolledBack(window)
      BY <3>1 DEF Restrict
    <3>3. ASSUME NEW b \in window
          PROVE  b > sync.start
      <4>1. PICK low \in Divergent(sync.seen), high \in Divergent(sync.seen) :
              b \in low..high /\ b \in 0..MaxHeight
        BY DEF Window
      <4>2. low \in DOMAIN sync.seen /\ low > sync.start
        BY DEF Divergent, StartInv
      <4>3. low \in Nat /\ high \in Int /\ sync.start \in Nat
        <5>1. sync \in Calls
          BY DEF SyncInv
        <5>2. DOMAIN sync.seen \subseteq 0..MaxHeight /\ sync.start \in 0..MaxHeight
          BY <5>1 DEF Calls, Seen, Heights
        <5>3. QED
          BY <5>2, <4>2, Bounds DEF Divergent
      <4>4. QED
        BY <4>1, <4>2, <4>3, Bounds
    <3> HIDE DEF window
    <3>4. QED
      BY <3>2, <3>3 DEF RolledBack
  <2>3. ASSUME NEW log, NEW ret, ingest(log, ret)
        PROVE  DOMAIN rows \subseteq DOMAIN rows'
    BY <2>3 DEF ingest, Ingest
  <2>4. CASE publish \/ ingest_event \/ recv_event \/ recv_removed
    BY <2>1, <2>3, <2>4 DEF publish, ingest_event, recv_event, recv_removed
  <2>5. CASE stamp_event \/ sign_event \/ sign_ws_event
    BY <2>1, <2>5 DEF stamp_event, sign_event, sign_ws_event, Stamped, Signed
  <2>6. CASE advance_checkpoint \/ promote_rest \/ finish \/ reevaluate
    BY <2>1, <2>6 DEF advance_checkpoint, promote_rest, finish, reevaluate, Promoted, Reevaluated
  <2>7. CASE \/ \E tx \in Txs \cup {NoTx} : Mine(tx)
             \/ \E keep \in 0..MaxHeight : Reorg(keep)
             \/ \E set \in SUBSET Devices : ChangeSet(set)
             \/ \E genesis, websocket \in BOOLEAN, until \in 0..MaxHeight :
                  sync_from_chain(genesis, until, websocket)
             \/ Abort \/ UNCHANGED vars
    BY <2>1, <2>7 DEF Mine, Reorg, ChangeSet, sync_from_chain, Abort, storeVars, vars
  <2>8. CASE \/ read_authorized_set \/ fetch_chunk \/ open_subscription
             \/ subscription_closed \/ recv_timeout
    BY <2>1, <2>8 DEF read_authorized_set, fetch_chunk, open_subscription, subscription_closed,
       recv_timeout, storeVars
  <2>9. QED
    BY <2>2, <2>4, <2>5, <2>6, <2>7, <2>8 DEF Next, Step
<1>2. Init => SyncInv /\ GoneInv /\ StartInv
  BY InitInv, InitHistory
<1>3. SyncInv /\ GoneInv /\ StartInv /\ [Next]_vars => (SyncInv /\ GoneInv /\ StartInv)'
  BY NextInv, NextHistory
<1>4. QED
  BY <1>1, <1>2, <1>3, PTL DEF Spec, SettledStays

=============================================================================

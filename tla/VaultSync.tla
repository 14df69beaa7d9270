------------------------------ MODULE VaultSync ------------------------------
(***************************************************************************)
(* One account of a vault file, the chain, and the commands that move      *)
(* revisions between them: edits (vault.rs), the publish engine with its   *)
(* dirty markers (publish.rs, flush_publish_queue), pull_all and           *)
(* resolve_one (apps/cli/src/sync.rs), and the local resolve_fork.         *)
(*                                                                         *)
(* A command holds the vault's lock file, so commands do not overlap; each *)
(* may be killed between two of its writes, and every run signs with a     *)
(* fresh key (DeviceKey::generate).  A failed RPC that makes a command     *)
(* return is a kill.  Other devices publish at any time.  A revision id is *)
(* a random local one or the canonical hash of a chain event, written here *)
(* as the position of the first event with that content.  One event per    *)
(* block.  A payload is a ciphertext, told from every other by its number; *)
(* the chain carries no nonce, so an ingested row cannot be decrypted.     *)
(***************************************************************************)
EXTENDS Integers, Sequences, FiniteSets, Functions

CONSTANTS
  PULL_CHUNK_SIZE,  \* blocks per pull chunk
  MaxPayloads,      \* bound: ciphertexts sealed, here and elsewhere
  MaxEvents,        \* bound: events on chain
  MaxForeign,       \* bound: events of other devices
  MaxRuns           \* bound: commands started

ASSUME SyncAssumption ==
  /\ PULL_CHUNK_SIZE \in Nat \ {0}
  /\ MaxPayloads \in Nat \ {0}
  /\ MaxEvents \in Nat /\ MaxForeign \in Nat /\ MaxRuns \in Nat

VARIABLES
  rows,         \* revisions: id -> [parent, payload, device, anchor, is_tombstone]
  superseded,   \* revisions with superseded_by set
  account,      \* account_identities: [head, frozen, tombstoned]
  dirty,        \* dirty_accounts
  stash,        \* pending_merges: target head -> [payload, key]
  last_pulled,  \* sync_state.last_pulled_block
  chain,        \* the RevisionPublished events of the vault
  job,          \* the command that holds the vault
  payloads,     \* ciphertexts sealed so far
  runs          \* commands started so far

storeVars == <<rows, superseded, account, dirty, stash, last_pulled>>
vars == <<storeVars, chain, job, payloads, runs>>

Genesis == <<"genesis", 0>>
Local(n) == <<"local", n>>
Chain(i) == <<"chain", i>>

VaultDevice == 0     \* the device id of local rows; runs sign as 1, 2, ...
ForeignDevice == -1

Payload(n, seal, tomb) == [n |-> n, seal |-> seal, tomb |-> tomb]

NoStash == [payload |-> Payload(0, "none", FALSE), key |-> 0]

Idle == [cmd |-> "none", pc |-> "idle", key |-> 0, drained |-> FALSE,
         todo |-> {}, view |-> {}, anchor |-> 0,
         start |-> 0, at |-> 0, fetched |-> 0, stop |-> 0, upto |-> 0,
         chosen |-> Genesis, saved |-> NoStash, pre |-> {}, merge |-> Genesis]

Row(parent, payload, device, anchor, tomb) ==
  [parent |-> parent, payload |-> payload, device |-> device, anchor |-> anchor,
   is_tombstone |-> tomb]

With(id, row) == [r \in DOMAIN rows \cup {id} |-> IF r = id THEN row ELSE rows[r]]

\* account_heads
Heads == {r \in DOMAIN rows \ superseded : \A q \in DOMAIN rows : rows[q].parent # r}

\* The canonical hash binds parent, device and payload.
Canonical(e) == Chain(CHOOSE i \in 1..Len(chain) : chain[i] = e /\ \A j \in 1..(i - 1) : chain[j] # e)

Event(parent, payload, device) == [parent |-> parent, payload |-> payload, device |-> device]

\* A row whose nonce is not the placeholder.
Readable(r) == r[1] = "local"

\* After add_account.
Init ==
  /\ rows = [r \in {Local(1)} |-> Row(Genesis, Payload(1, "edit", FALSE), VaultDevice, 0, FALSE)]
  /\ superseded = {}
  /\ account = [head |-> Local(1), frozen |-> FALSE, tombstoned |-> FALSE]
  /\ dirty = {Local(1)}
  /\ stash = << >>
  /\ last_pulled = 0
  /\ chain = << >>
  /\ job = Idle
  /\ payloads = 1
  /\ runs = 0

(***************************************************************************)
(* Edits and the local resolution.                                         *)
(***************************************************************************)

\* One transaction.
write_revision(tomb) ==
  /\ job = Idle /\ ~account.frozen /\ ~account.tombstoned /\ payloads < MaxPayloads
  /\ LET id == Local(payloads + 1)
     IN /\ rows' = With(id, Row(account.head, Payload(payloads + 1, "edit", tomb), VaultDevice, 0, tomb))
        /\ account' = [account EXCEPT !.head = id, !.tombstoned = tomb]
        /\ dirty' = dirty \cup {id}
  /\ payloads' = payloads + 1
  /\ UNCHANGED <<superseded, stash, last_pulled, chain, job, runs>>

update_account == write_revision(FALSE)

delete_account == write_revision(TRUE)

\* prune_orphan_pending_merges
Pruned(s) == Restrict(s, DOMAIN s \cap Heads)

\* resolve_fork of the desktop: the losers are superseded by a local merge.
resolve_fork(keep) ==
  /\ job = Idle /\ ~account.tombstoned /\ payloads < MaxPayloads
  /\ Cardinality(Heads) > 1 /\ keep \in Heads /\ Readable(keep)
  /\ LET id == Local(payloads + 1)
         tomb == rows[keep].is_tombstone
     IN /\ rows' = With(id, Row(keep, Payload(payloads + 1, "edit", tomb), VaultDevice, 0, tomb))
        /\ superseded' = superseded \cup (Heads \ {keep})
        /\ account' = [head |-> id, frozen |-> FALSE, tombstoned |-> tomb]
        /\ dirty' = dirty \cup {id}
        /\ stash' = Restrict(stash, {})
  /\ payloads' = payloads + 1
  /\ UNCHANGED <<last_pulled, chain, job, runs>>

(***************************************************************************)
(* Commands.                                                               *)
(***************************************************************************)

Start(cmd, pc) ==
  /\ job = Idle /\ runs < MaxRuns
  /\ runs' = runs + 1
  /\ job' = [Idle EXCEPT !.cmd = cmd, !.pc = pc, !.key = runs + 1]

\* lock_with_drain, on the way out of a command.
Draining(j) == [Idle EXCEPT !.cmd = j.cmd, !.key = j.key, !.pc = "coalesce", !.drained = TRUE]

Goto(pc) == job' = [job EXCEPT !.pc = pc]

Stop == job' = Idle

Kill == job # Idle /\ Stop /\ UNCHANGED <<storeVars, chain, payloads, runs>>

\* pangolin-cli publish: publish_all, then lock_with_drain.
publish == Start("publish", "list") /\ UNCHANGED <<storeVars, chain, payloads>>

\* pangolin-cli flush, and the desktop's: flush_publish_queue, then the drain.
flush == Start("publish", "coalesce") /\ UNCHANGED <<storeVars, chain, payloads>>

\* Mutant: the oldest marker is kept instead of the head's.
CoalescedToOldest ==
  IF Cardinality(dirty) < 2 THEN dirty
  ELSE {r \in dirty : \A q \in dirty : r[2] <= q[2]}

\* coalesce_dirty_markers
Coalesced == IF Cardinality(dirty) < 2 THEN dirty ELSE dirty \cap {account.head}

coalesce ==
  /\ job.pc = "coalesce"
  /\ dirty' = Coalesced
  /\ Goto("list")
  /\ UNCHANGED <<rows, superseded, account, stash, last_pulled, chain, payloads, runs>>

\* publish_all_for_vault: the markers and, unless the RPC fails, the chain
\* above the checkpoint, both read once.
list ==
  /\ job.pc = "list"
  /\ \E view \in {{}, (last_pulled + 1)..Len(chain)} :
       job' = [job EXCEPT !.pc = "submit", !.todo = dirty, !.view = view]
  /\ UNCHANGED <<storeVars, chain, payloads, runs>>

\* Markers are listed in the order they were set.
Oldest(s) == CHOOSE r \in s : \A q \in s : r[2] <= q[2]

Signed(r) == Event(rows[r].parent, rows[r].payload, job.key)

\* Mutant: the check compares the parent only.
OnChainByParent(r) == {i \in job.view : chain[i].parent = rows[r].parent}

\* A3, the pre-publish check.
OnChain(r) == {i \in job.view : chain[i] = Signed(r)}

\* publish_one: the entry is on chain already, or it lands and the answer
\* arrives or not, or it is refused; a failed entry keeps its marker.
publish_one ==
  /\ job.pc = "submit" /\ job.todo # {}
  /\ LET r == Oldest(job.todo)
         Mark(i) == job' = [job EXCEPT !.pc = "mark", !.anchor = i]
         Skip == job' = [job EXCEPT !.todo = @ \ {r}]
     IN IF OnChain(r) # {}
        THEN Mark(CHOOSE i \in OnChain(r) : \A j \in OnChain(r) : i <= j) /\ UNCHANGED chain
        ELSE \/ /\ job.cmd # "pull" /\ Len(chain) < MaxEvents
                /\ chain' = Append(chain, Signed(r))
                /\ Mark(Len(chain) + 1) \/ Skip
             \/ Skip /\ UNCHANGED chain
  /\ UNCHANGED <<storeVars, payloads, runs>>

mark_published ==
  /\ job.pc = "mark"
  /\ rows' = [rows EXCEPT ![Oldest(job.todo)].anchor = job.anchor]
  /\ Goto("clear")
  /\ UNCHANGED <<superseded, account, dirty, stash, last_pulled, chain, payloads, runs>>

clear_dirty ==
  /\ job.pc = "clear"
  /\ dirty' = dirty \ {Oldest(job.todo)}
  /\ job' = [job EXCEPT !.pc = "submit", !.todo = @ \ {Oldest(job.todo)}, !.anchor = 0]
  /\ UNCHANGED <<rows, superseded, account, stash, last_pulled, chain, payloads, runs>>

\* The end of publish_all: the drain, or the end of the command.
published ==
  /\ job.pc = "submit" /\ job.todo = {}
  /\ IF job.drained THEN Stop ELSE job' = Draining(job)
  /\ UNCHANGED <<storeVars, chain, payloads, runs>>

(***************************************************************************)
(* pull_all.                                                               *)
(***************************************************************************)

Earlier(m, n) == IF m < n THEN m ELSE n

ChunkEnd(start, upto) == Earlier(start + PULL_CHUNK_SIZE, upto)

\* What follows pull_all: the drain of `pull`, with a read-only adapter, or
\* the decision of `resolve`.
AfterPull(j) == IF j.cmd = "pull" THEN Draining(j)
                ELSE [j EXCEPT !.pc = "decide", !.start = 0, !.at = 0, !.fetched = 0,
                               !.stop = 0, !.upto = 0]

\* pull_since asks for the blocks after start up to stop and gets those that exist.
Chunk(j, start, at, stop, upto) ==
  [j EXCEPT !.pc = "ingest", !.start = start, !.at = at, !.fetched = Earlier(stop, Len(chain)),
            !.stop = stop, !.upto = upto]

\* Mutant: the first event of each chunk is skipped.
PullingLate(j, from, upto) ==
  IF upto <= from THEN AfterPull(j) ELSE Chunk(j, from, from + 1, ChunkEnd(from, upto), upto)

Pulling(j, from, upto) ==
  IF upto <= from THEN AfterPull(j) ELSE Chunk(j, from, from, ChunkEnd(from, upto), upto)

\* pangolin-cli pull: from the checkpoint or any --from-block, up to the head
\* the node reports or any --until-block.
pull(from, upto) ==
  /\ job = Idle /\ runs < MaxRuns
  /\ runs' = runs + 1
  /\ job' = Pulling([Idle EXCEPT !.cmd = "pull", !.key = runs + 1], from, upto)
  /\ UNCHANGED <<storeVars, chain, payloads>>

\* Local rows of this device that the event could be the publication of.
Unanchored(e) == {r \in DOMAIN rows : /\ rows[r].anchor = 0
                                      /\ rows[r].parent = e.parent
                                      /\ rows[r].payload = e.payload
                                      /\ rows[r].device = e.device}

\* Mutant: only the first foreign revision of an account freezes it.
FreezeFirst(a) == [a EXCEPT !.frozen = @ \/ rows[a.head].anchor # 0]

\* A foreign revision freezes the account; the head pointer stays.
Freeze(a) == [a EXCEPT !.frozen = TRUE]

\* ingest_chain_revision
Ingest(i) ==
  LET e == chain[i]
  IN IF Canonical(e) \in DOMAIN rows \/ \E r \in DOMAIN rows : rows[r].anchor = i
     THEN UNCHANGED <<rows, account>>
     ELSE IF Unanchored(e) # {}
     THEN \E r \in Unanchored(e) : rows' = [rows EXCEPT ![r].anchor = i] /\ UNCHANGED account
     ELSE /\ rows' = With(Canonical(e), Row(e.parent, e.payload, e.device, i, FALSE))
          /\ account' = Freeze(account)

pull_ingest ==
  /\ job.pc = "ingest" /\ job.at < job.fetched
  /\ Ingest(job.at + 1)
  /\ job' = [job EXCEPT !.at = @ + 1]
  /\ UNCHANGED <<superseded, dirty, stash, last_pulled, chain, payloads, runs>>

\* advance_last_pulled_block
Advanced(block) == IF block < last_pulled THEN last_pulled ELSE block

\* The checkpoint moves to the end of the chunk, also over blocks before its
\* start or above the head.  A refusal to move it back ends the pull.
pull_advance ==
  /\ job.pc = "ingest" /\ job.at >= job.fetched
  /\ IF job.stop < last_pulled
     THEN Stop /\ UNCHANGED last_pulled
     ELSE last_pulled' = Advanced(job.stop) /\ Goto("prune")
  /\ UNCHANGED <<rows, superseded, account, dirty, stash, chain, payloads, runs>>

pull_prune ==
  /\ job.pc = "prune"
  /\ stash' = Pruned(stash)
  /\ job' = Pulling(job, job.stop, job.upto)
  /\ UNCHANGED <<rows, superseded, account, dirty, last_pulled, chain, payloads, runs>>

(***************************************************************************)
(* resolve_one.                                                            *)
(***************************************************************************)

\* Steps 1 to 3: the heads and the stash are read before the pull.
resolve(keep, upto) ==
  /\ job = Idle /\ runs < MaxRuns
  /\ keep \in Heads
  /\ runs' = runs + 1
  /\ stash' = Pruned(stash)
  /\ job' = Pulling([Idle EXCEPT !.cmd = "resolve", !.key = runs + 1, !.chosen = keep, !.pre = Heads,
                                 !.saved = IF keep \in DOMAIN stash THEN stash[keep] ELSE NoStash],
                    last_pulled, upto)
  /\ UNCHANGED <<rows, superseded, account, dirty, last_pulled, chain, payloads>>

MergeEvent(s) == Event(job.chosen, s.payload, s.key)

\* Rows that hold the stashed merge: a previous run published it.
Landed == {r \in DOMAIN rows : /\ r[1] = "chain"
                               /\ chain[r[2]] = MergeEvent(job.saved)}

\* build_merge_payload_for_resolve decrypts the chosen head, or re-seals a
\* tombstone.
Sealable == Readable(job.chosen) \/ rows[job.chosen].is_tombstone

\* Mutant: the stash of an earlier run is not used.
SavedNever == NoStash

\* The stash of an earlier run.
Saved == job.saved

\* Mutant: any head may have appeared as long as the chosen one is a head.
UnmovedChosen == job.chosen \in Heads

\* The chain_moved guard of step 4b: no head the user has not seen.
Unmoved == Heads \subseteq job.pre

\* Steps 4 to 8.
decide ==
  /\ job.pc = "decide"
  /\ IF job.saved # NoStash /\ Landed # {}
     THEN /\ job' = [job EXCEPT !.pc = "unfreeze", !.merge = CHOOSE r \in Landed : TRUE]
          /\ UNCHANGED <<stash, payloads>>
     ELSE IF Unmoved /\ job.chosen \in Heads
             /\ (Saved # NoStash \/ (Sealable /\ payloads < MaxPayloads))
     THEN IF Saved # NoStash
          THEN Goto("merge") /\ UNCHANGED <<stash, payloads>>
          ELSE LET s == [payload |-> Payload(payloads + 1, "merge", rows[job.chosen].is_tombstone),
                         key |-> job.key]
               IN /\ stash' = [x \in DOMAIN stash \cup {job.chosen} |->
                                 IF x = job.chosen THEN s ELSE stash[x]]
                  /\ job' = [job EXCEPT !.pc = "merge", !.saved = s]
                  /\ payloads' = payloads + 1
     ELSE Stop /\ UNCHANGED <<stash, payloads>>
  /\ UNCHANGED <<rows, superseded, account, dirty, last_pulled, chain, runs>>

\* Step 9; a refused or unanswered publish ends the command.
publish_merge ==
  /\ job.pc = "merge" /\ Len(chain) < MaxEvents
  /\ chain' = Append(chain, MergeEvent(job.saved))
  /\ job' = [job EXCEPT !.pc = "ingest_merge", !.anchor = Len(chain) + 1]
  /\ UNCHANGED <<storeVars, payloads, runs>>

\* Step 10.
ingest_merge ==
  /\ job.pc = "ingest_merge"
  /\ Ingest(job.anchor)
  /\ job' = [job EXCEPT !.pc = "unfreeze", !.merge = Canonical(chain[job.anchor])]
  /\ UNCHANGED <<superseded, dirty, stash, last_pulled, chain, payloads, runs>>

\* Step 11, or the end of step 4a.
clear_frozen ==
  /\ job.pc = "unfreeze"
  /\ IF job.merge \in Heads
     THEN account' = [account EXCEPT !.frozen = FALSE, !.head = job.merge] /\ Goto("unstash")
     ELSE Stop /\ UNCHANGED account
  /\ UNCHANGED <<rows, superseded, dirty, stash, last_pulled, chain, payloads, runs>>

\* Step 12, or the end of step 4a, which returns here.
clear_pending_merge ==
  /\ job.pc = "unstash"
  /\ stash' = Restrict(stash, DOMAIN stash \ {job.chosen})
  /\ IF job.anchor = 0 THEN job' = Draining(job) ELSE Goto("advance")
  /\ UNCHANGED <<rows, superseded, account, dirty, last_pulled, chain, payloads, runs>>

\* The checkpoint moves to the merge's block; a refusal is only logged.
advance_last_pulled ==
  /\ job.pc = "advance"
  /\ last_pulled' = Advanced(job.anchor)
  /\ job' = Draining(job)
  /\ UNCHANGED <<rows, superseded, account, dirty, stash, chain, payloads, runs>>

(***************************************************************************)
(* Another device publishes a revision over any id the chain has shown it. *)
(***************************************************************************)

Shown == {Genesis} \cup {chain[i].parent : i \in 1..Len(chain)}
                   \cup {Canonical(chain[i]) : i \in 1..Len(chain)}

ForeignPublish(parent) ==
  /\ Len(chain) < MaxEvents /\ payloads < MaxPayloads
  /\ Cardinality({i \in 1..Len(chain) : chain[i].device = ForeignDevice}) < MaxForeign
  /\ chain' = Append(chain, Event(parent, Payload(payloads + 1, "foreign", FALSE), ForeignDevice))
  /\ payloads' = payloads + 1
  /\ UNCHANGED <<storeVars, job, runs>>

Next ==
  \/ update_account \/ delete_account
  \/ \E keep \in DOMAIN rows : resolve_fork(keep)
  \/ publish \/ flush
  \/ coalesce \/ list \/ publish_one \/ mark_published \/ clear_dirty \/ published
  \/ \E from, upto \in 0..MaxEvents : pull(from, upto)
  \/ pull_ingest \/ pull_advance \/ pull_prune
  \/ \E keep \in DOMAIN rows, upto \in 0..Len(chain) : resolve(keep, upto)
  \/ decide \/ publish_merge \/ ingest_merge
  \/ clear_frozen \/ clear_pending_merge \/ advance_last_pulled
  \/ Kill
  \/ \E parent \in Shown : ForeignPublish(parent)

Spec == Init /\ [][Next]_vars

(***************************************************************************)
(* Properties.                                                             *)
(***************************************************************************)

\* Every id that a pointer, a marker, a stash or a command holds names a
\* stored revision, whatever was pruned or killed meanwhile.
TypeOK ==
  /\ DOMAIN rows \subseteq {Local(n) : n \in 1..payloads} \cup {Chain(i) : i \in 1..Len(chain)}
  /\ account.head \in DOMAIN rows
  /\ dirty \subseteq DOMAIN rows /\ superseded \subseteq DOMAIN rows
  /\ DOMAIN stash \subseteq DOMAIN rows
  /\ last_pulled \in Nat
  /\ job.todo \subseteq dirty

\* An edit is not lost on its way to the chain: while the head revision has
\* no anchor it has a dirty marker, across coalescing, lost answers, kills
\* and resolutions.
HeadIsQueued == rows[account.head].anchor = 0 => account.head \in dirty

\* An account that may be edited is edited at a leaf: no known revision was
\* made on top of its head by someone else.
EditsExtendLeaf == ~account.frozen => account.head \in Heads

\* The anchor of a revision points at the event that published it, although
\* anchors are set by the publish engine, by its A3 check and by the pull.
AnchorsTrue ==
  \A r \in DOMAIN rows : rows[r].anchor # 0 =>
    /\ chain[rows[r].anchor].parent = rows[r].parent
    /\ chain[rows[r].anchor].payload = rows[r].payload

\* Retries of a resolution republish one merge: the events that merge onto a
\* head are equal, ciphertext and key, however often resolve_one was killed.
OneMergePerHead ==
  \A i, j \in 1..Len(chain) :
    /\ chain[i].payload.seal = "merge" /\ chain[j].payload.seal = "merge"
    /\ chain[i].parent = chain[j].parent
    => chain[i] = chain[j]

\* The checkpoint is a block of the chain, and every event up to it has its row.
Covered ==
  /\ last_pulled <= Len(chain)
  /\ \A i \in 1..last_pulled : \/ Canonical(chain[i]) \in DOMAIN rows
                               \/ \E r \in DOMAIN rows : rows[r].anchor = i

\* A pull that starts at or below the checkpoint and asks for blocks that exist
\* leaves no gap behind its checkpoint: over all chunks, kills and restarts,
\* what was covered before a step of pull_all is covered after it.  (A
\* --from-block above the checkpoint, an --until-block above the head and the
\* end of resolve_one do leave one; see the README.)
PullKeepsCovered ==
  [][/\ job.pc \in {"ingest", "prune"} /\ Covered
     /\ job.start <= last_pulled /\ job.fetched = job.stop
     => Covered']_vars

\* A resolution that publishes its merge lifts the freeze only over heads that
\* the user saw, or its own merge: what the pull in between ingested keeps the
\* account frozen.  (A resumed resolution, step 4a, does not hold to this.)
FreezeLiftedKnowingly ==
  [][/\ account.frozen /\ ~account'.frozen
     /\ job.cmd = "resolve" /\ job.anchor # 0
     => Heads \subseteq job.pre \cup {job.merge}]_vars

=============================================================================

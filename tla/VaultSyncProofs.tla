---------------------------- MODULE VaultSyncProofs ----------------------------
(***************************************************************************)
(* Proofs about VaultSync, for every chunk size and any number of edits,   *)
(* events, foreign devices and commands, each killed anywhere.             *)
(*                                                                         *)
(* A command carries what it has read across its awaits.  The invariant    *)
(* says for each place of a command what is still true of it: the event    *)
(* that the entry being marked was published as, the part of the chain a   *)
(* pull has been through, and the stash, the heads and the merge of a      *)
(* resolution.                                                             *)
(***************************************************************************)
EXTENDS VaultSync, WellFoundedInduction, TLAPS

Revs == {Genesis} \cup {Local(n) : n \in Nat} \cup {Chain(i) : i \in Nat}
Payloads == [n : Nat, seal : {"none", "edit", "merge", "foreign"}, tomb : BOOLEAN]
Events == [parent : Revs, payload : Payloads, device : Int]
Rows == [parent : Revs, payload : Payloads, device : Int, anchor : Nat, is_tombstone : BOOLEAN]
Stashes == [payload : Payloads, key : Nat]
Publishing == {"coalesce", "list", "submit", "mark", "clear"}
Resolving == {"decide", "merge", "ingest_merge", "unfreeze", "unstash", "advance"}
Phases == {"idle", "ingest", "prune"} \cup Publishing \cup Resolving
Jobs == [cmd : {"none", "publish", "pull", "resolve"}, pc : Phases, key : Nat, drained : BOOLEAN,
         todo : SUBSET Revs, view : SUBSET Nat, anchor : Nat,
         start : Nat, at : Nat, fetched : Nat, stop : Nat, upto : Nat,
         chosen : Revs, saved : Stashes, pre : SUBSET Revs, merge : Revs]

StoreTypes ==
  /\ \A r \in DOMAIN rows : rows[r] \in Rows
  /\ account \in [head : Revs, frozen : BOOLEAN, tombstoned : BOOLEAN]
  /\ \A x \in DOMAIN stash : stash[x] \in Stashes /\ stash[x].payload.seal = "merge"
  /\ chain \in Seq(Events) /\ payloads \in Nat /\ runs \in Nat /\ last_pulled \in Nat

\* Ids name what exists: parents as well, so that a new local id is nobody's parent.
Named == {Local(n) : n \in 1..payloads} \cup {Chain(i) : i \in 1..Len(chain)}

\* Pointers, markers and stashes are of stored revisions.
StoredInv ==
  /\ DOMAIN rows \subseteq Named
  /\ account.head \in DOMAIN rows
  /\ dirty \subseteq DOMAIN rows /\ superseded \subseteq DOMAIN rows
  /\ DOMAIN stash \subseteq DOMAIN rows

ParentsInv ==
  /\ \A r \in DOMAIN rows : rows[r].parent \in Named \cup {Genesis}
  /\ \A i \in 1..Len(chain) : chain[i].parent \in Named \cup {Genesis}

\* A local row is an edit; a row of the chain is the row of its event, and has an anchor.
RowsInv ==
  /\ \A r \in DOMAIN rows : r[1] = "local" => rows[r].payload.seal = "edit"
  /\ \A i \in 1..Len(chain) : Chain(i) \in DOMAIN rows =>
       rows[Chain(i)].parent = chain[i].parent /\ rows[Chain(i)].anchor # 0
  /\ \A r \in DOMAIN rows : rows[r].anchor \in 0..Len(chain)
  /\ \A r \in dirty : r[1] = "local"

\* The command's view is of the chain, and its list shrinks with the markers.
JobInv ==
  /\ job.pc \notin {"submit", "mark", "clear"} => job.todo = {}
  /\ job.view \subseteq 1..Len(chain) /\ job.anchor \in 0..Len(chain)
  /\ job.pc \in {"ingest", "prune", "decide"} => job.anchor = 0
  /\ job.pc = "ingest" => job.fetched <= Len(chain)
  /\ job.pc \in {"ingest", "prune"} => job.cmd \in {"pull", "resolve"}
  /\ job.pc \in Resolving => job.cmd = "resolve"

\* An entry is marked with the event it was published as, and unmarked once it has its anchor.
MarkInv ==
  /\ job.pc \in {"mark", "clear"} => job.todo # {} /\ job.anchor # 0
  /\ job.pc = "mark" => chain[job.anchor] = Signed(Oldest(job.todo))
  /\ job.pc = "clear" => rows[Oldest(job.todo)].anchor # 0

\* The event of block i has its row.
CoveredAt(i) == Canonical(chain[i]) \in DOMAIN rows \/ \E r \in DOMAIN rows : rows[r].anchor = i

\* A pull whose chunk starts at or below the checkpoint has left out nothing
\* that it fetched between the checkpoint and its place.
PullInv ==
  job.pc = "ingest" /\ job.start <= last_pulled =>
    \A i \in (last_pulled + 1)..job.at : i <= job.fetched => CoveredAt(i)

\* What a resolution has read, and decided, about the head it keeps.
ResolveInv ==
  /\ job.cmd = "resolve" /\ job.pc \in {"ingest", "prune", "decide"} =>
       /\ job.chosen \in DOMAIN rows
       /\ job.chosen \in Heads =>
            job.saved = IF job.chosen \in DOMAIN stash THEN stash[job.chosen] ELSE NoStash
  /\ job.pc = "merge" => /\ job.chosen \in Heads \cap DOMAIN stash
                         /\ stash[job.chosen] = job.saved /\ Heads \subseteq job.pre
  /\ job.pc = "ingest_merge" => /\ job.anchor # 0 /\ chain[job.anchor].parent = job.chosen
                                /\ Heads \subseteq job.pre
  /\ job.pc = "unfreeze" => /\ job.merge[1] = "chain"
                            /\ job.merge \in DOMAIN rows => rows[job.merge].parent = job.chosen
                            /\ job.anchor # 0 => Heads \subseteq job.pre \cup {job.merge}
  /\ job.pc = "unstash" => job.chosen \notin Heads

\* A published merge is the stashed one as long as its head can be resolved again.
MergeInv ==
  \A i \in 1..Len(chain) : chain[i].payload.seal = "merge" =>
    /\ chain[i].parent \in DOMAIN rows
    /\ chain[i].parent \in Heads =>
         /\ chain[i].parent \in DOMAIN stash
         /\ stash[chain[i].parent] = [payload |-> chain[i].payload, key |-> chain[i].device]

\* The file and the chain.
FileInv ==
  /\ StoreTypes /\ StoredInv /\ ParentsInv /\ RowsInv /\ MergeInv
  /\ HeadIsQueued /\ EditsExtendLeaf /\ AnchorsTrue /\ OneMergePerHead

\* The command that holds the file.
CommandInv ==
  /\ job \in Jobs /\ job.todo \subseteq dirty
  /\ JobInv /\ MarkInv /\ PullInv /\ ResolveInv

SyncInv == FileInv /\ CommandInv

-----------------------------------------------------------------------------
(* Ids, heads, and the first event with some content.                      *)

\* The numbers of a set have a smallest one.
LEMMA Smallest ==
  ASSUME NEW S, S \subseteq Nat, S # {}
  PROVE  \E m \in S : \A k \in S : m <= k
<1>1. PICK m \in S : \A k \in S : ~(<<k, m>> \in OpToRel(<, Nat))
  BY WFMin, NatLessThanWellFounded
<1>2. \A k \in S : ~(k < m)
  BY <1>1 DEF OpToRel
<1>3. QED
  BY <1>2

\* An id tells whether it is local or of the chain, and its number.
LEMMA IdFacts ==
  /\ \A n : Local(n)[1] = "local" /\ Local(n)[2] = n
  /\ \A i : Chain(i)[1] = "chain" /\ Chain(i)[2] = i
  /\ Genesis[1] = "genesis"
  /\ \A n : Local(n) # Genesis /\ Chain(n) # Genesis
  /\ \A m, n : Local(m) = Local(n) => m = n
  /\ \A i, j : Chain(i) = Chain(j) => i = j
  /\ \A n, i : Local(n) # Chain(i)
  BY DEF Local, Chain, Genesis

\* The index that Canonical chooses: of the first event with that content.
LEMMA FirstIndex ==
  ASSUME NEW c \in Seq(Events), NEW k \in 1..Len(c)
  PROVE  \E i \in 1..k :
           /\ (CHOOSE h \in 1..Len(c) : c[h] = c[k] /\ \A j \in 1..(h - 1) : c[j] # c[k]) = i
           /\ c[i] = c[k] /\ \A j \in 1..(i - 1) : c[j] # c[k]
<1> DEFINE S == {i \in 1..Len(c) : c[i] = c[k]}
           First(i) == c[i] = c[k] /\ \A j \in 1..(i - 1) : c[j] # c[k]
<1>1. Len(c) \in Nat
  OBVIOUS
<1>2. PICK m \in S : \A i \in S : m <= i
  <2>1. S \subseteq Nat /\ S # {}
    BY <1>1
  <2>2. QED
    BY <2>1, Smallest
<1>3. m \in 1..Len(c) /\ First(m) /\ m \in 1..k
  BY <1>1, <1>2
<1>4. \A i \in 1..Len(c) : First(i) => i = m
  BY <1>1, <1>3
<1>5. (CHOOSE h \in 1..Len(c) : First(h)) = m
  BY <1>3, <1>4
<1>6. QED
  BY <1>3, <1>5

\* The canonical id of an event on the chain is that of the first event like it.
LEMMA FirstEvent ==
  ASSUME chain \in Seq(Events), NEW k \in 1..Len(chain)
  PROVE  \E i \in 1..k : /\ Canonical(chain[k]) = Chain(i) /\ chain[i] = chain[k]
                         /\ \A j \in 1..(i - 1) : chain[j] # chain[k]
<1>1. PICK i \in 1..k :
        /\ (CHOOSE n \in 1..Len(chain) :
              chain[n] = chain[k] /\ \A j \in 1..(n - 1) : chain[j] # chain[k]) = i
        /\ chain[i] = chain[k] /\ \A j \in 1..(i - 1) : chain[j] # chain[k]
  BY FirstIndex
<1>2. Canonical(chain[k]) = Chain(i)
  BY <1>1 DEF Canonical
<1>3. QED
  BY <1>1, <1>2

\* A longer chain gives its events the ids they had.
LEMMA CanonicalStays ==
  ASSUME chain \in Seq(Events), NEW x \in Events, chain' = Append(chain, x),
         NEW k \in 1..Len(chain)
  PROVE  Canonical(chain[k])' = Canonical(chain[k]) /\ chain'[k] = chain[k]
<1>1. chain' \in Seq(Events) /\ \A j \in 1..Len(chain) : chain'[j] = chain[j]
  OBVIOUS
<1>2. k \in 1..Len(chain')
  OBVIOUS
<1>3. PICK i \in 1..k : /\ Canonical(chain[k]) = Chain(i) /\ chain[i] = chain[k]
                        /\ \A j \in 1..(i - 1) : chain[j] # chain[k]
  BY FirstEvent
<1>4. PICK h \in 1..k :
        /\ (CHOOSE n \in 1..Len(chain') :
              chain'[n] = chain'[k] /\ \A j \in 1..(n - 1) : chain'[j] # chain'[k]) = h
        /\ chain'[h] = chain'[k] /\ \A j \in 1..(h - 1) : chain'[j] # chain'[k]
  BY <1>1, <1>2, FirstIndex
<1>c. Canonical(chain[k])' = Chain(h)
  BY <1>4 DEF Canonical, Chain
<1>5. i = h
  BY <1>1, <1>3, <1>4
<1>6. QED
  BY <1>1, <1>3, <1>c, <1>5

\* Markers are of local revisions, so a list of them has an oldest entry.
LEMMA OldestIn ==
  ASSUME NEW S, S # {}, S \subseteq {Local(n) : n \in Nat}
  PROVE  Oldest(S) \in S
<1> DEFINE N == {n \in Nat : Local(n) \in S}
<1>1. N \subseteq Nat /\ N # {}
  OBVIOUS
<1>2. PICK m \in N : \A k \in N : m <= k
  BY <1>1, Smallest
<1>3. Local(m) \in S /\ \A q \in S : Local(m)[2] <= q[2]
  BY <1>2, IdFacts
<1>4. QED
  BY <1>3 DEF Oldest

\* The markers of the invariant are such a list.
LEMMA DirtyLocal ==
  ASSUME FileInv
  PROVE  dirty \subseteq {Local(n) : n \in Nat}
<1>1. payloads \in Nat /\ Len(chain) \in Nat
  BY DEF FileInv, StoreTypes
<1>2. dirty \subseteq {Local(n) : n \in 1..payloads} \cup {Chain(i) : i \in 1..Len(chain)}
  BY DEF FileInv, StoredInv, Named
<1>3. \A r \in dirty : r[1] = "local"
  BY DEF FileInv, RowsInv
<1>4. QED
  BY <1>1, <1>2, <1>3, IdFacts

\* No revision becomes a head again: rows only come, with their parents, and
\* a superseded one stays superseded.
LEMMA HeadsShrink ==
  ASSUME DOMAIN rows \subseteq DOMAIN rows', superseded \subseteq superseded',
         \A r \in DOMAIN rows : rows'[r].parent = rows[r].parent
  PROVE  \A r \in DOMAIN rows : r \in Heads' => r \in Heads
  BY DEF Heads

\* The heads depend on the rows, their parents and the superseded ones only.
LEMMA HeadsSame ==
  ASSUME DOMAIN rows' = DOMAIN rows, superseded' = superseded,
         \A r \in DOMAIN rows : rows'[r].parent = rows[r].parent
  PROVE  Heads' = Heads
  BY DEF Heads

\* A step of the command that leaves the file and the chain alone.
LEMMA FileSame ==
  ASSUME FileInv, UNCHANGED <<storeVars, chain, payloads>>, runs' \in Nat
  PROVE  FileInv' /\ Heads' = Heads
  BY DEF FileInv, StoreTypes, StoredInv, ParentsInv, RowsInv, MergeInv, HeadIsQueued,
         EditsExtendLeaf, AnchorsTrue, OneMergePerHead, storeVars, Named, Heads

\* A command that has nothing in hand.
LEMMA QuietJob ==
  ASSUME job' \in Jobs, job'.todo = {}, job'.view = {}, job'.anchor = 0,
         job'.pc \in {"idle", "coalesce", "list"}, chain' \in Seq(Events)
  PROVE  CommandInv'
<1>1. Len(chain') \in Nat
  OBVIOUS
<1>2. QED
  BY <1>1 DEF CommandInv, JobInv, MarkInv, PullInv, ResolveInv, Resolving

\* No command is a command too.
LEMMA IdleType == Idle \in Jobs
  BY DEF Jobs, Idle, NoStash, Payload, Stashes, Payloads, Revs, Phases

\* A drain starts with nothing in hand.
LEMMA DrainType ==
  ASSUME NEW j \in Jobs
  PROVE  /\ Draining(j) \in Jobs
         /\ Draining(j).todo = {} /\ Draining(j).view = {} /\ Draining(j).anchor = 0
         /\ Draining(j).pc = "coalesce"
<1>1. j.cmd \in {"none", "publish", "pull", "resolve"} /\ j.key \in Nat
  BY DEF Jobs
<1>2. "coalesce" \in Phases
  BY DEF Phases, Publishing
<1>3. Draining(j) \in Jobs
  BY <1>1, <1>2, IdleType DEF Jobs, Draining
<1>4. QED
  BY <1>3 DEF Idle, Draining

\* A command that has ended, or is on its way to the drain.
LEMMA EndedJob ==
  ASSUME chain' \in Seq(Events), job \in Jobs, job' = Idle \/ job' = Draining(job)
  PROVE  CommandInv'
<1>1. CASE job' = Idle
  BY <1>1, IdleType, QuietJob DEF Idle
<1>2. CASE job' = Draining(job)
  BY <1>2, DrainType, QuietJob
<1>3. QED
  BY <1>1, <1>2

\* The vault after add_account.
LEMMA InitInv == Init => SyncInv
<1> SUFFICES ASSUME Init PROVE SyncInv
  OBVIOUS
<1>1. DOMAIN rows = {Local(1)} /\ Local(1) \in Revs /\ Genesis \in Revs
  BY DEF Init, Revs
<1>2. rows[Local(1)] = Row(Genesis, Payload(1, "edit", FALSE), VaultDevice, 0, FALSE)
  BY DEF Init
<1>3. Len(chain) = 0 /\ chain \in Seq(Events) /\ payloads = 1 /\ DOMAIN stash = {}
  BY DEF Init
<1>4. Named = {Local(1)}
  BY <1>3 DEF Named
<1>5. Heads = {Local(1)}
  BY <1>1, <1>2, IdFacts DEF Heads, Init, Row
<1>6. StoreTypes
  BY <1>1, <1>2, <1>3 DEF StoreTypes, Rows, Payloads, Row, Payload, VaultDevice, Init
<1>7. StoredInv /\ ParentsInv /\ RowsInv /\ MergeInv
  BY <1>1, <1>2, <1>3, <1>4, IdFacts
     DEF StoredInv, ParentsInv, RowsInv, MergeInv, Init, Row, Payload
<1>8. HeadIsQueued /\ EditsExtendLeaf /\ AnchorsTrue /\ OneMergePerHead
  BY <1>1, <1>2, <1>3, <1>5
     DEF HeadIsQueued, EditsExtendLeaf, AnchorsTrue, OneMergePerHead, Init, Row
<1>9. CommandInv
  <2>1. job = Idle
    BY DEF Init
  <2>2. job \in Jobs
    BY <2>1 DEF Jobs, Idle, NoStash, Payload, Stashes, Payloads, Revs, Phases
  <2>3. QED
    BY <1>3, <2>1, <2>2 DEF CommandInv, JobInv, MarkInv, PullInv, ResolveInv, Idle, Resolving
<1>10. QED
  BY <1>6, <1>7, <1>8, <1>9 DEF SyncInv, FileInv

-----------------------------------------------------------------------------
(* The steps of a command that change nothing else.                        *)

\* Another place of the same command.
LEMMA GotoType ==
  ASSUME NEW j \in Jobs, NEW pc \in Phases
  PROVE  /\ [j EXCEPT !.pc = pc] \in Jobs
         /\ \A x \in {"cmd", "key", "todo", "view", "anchor", "start", "at", "fetched",
                      "stop", "upto", "chosen", "saved", "pre", "merge"} : [j EXCEPT !.pc = pc][x] = j[x]
  BY DEF Jobs

\* A chunk ends after its first block and not after the last one to pull.
LEMMA ChunkFacts ==
  ASSUME NEW from \in Nat, NEW upto \in Nat, from < upto
  PROVE  ChunkEnd(from, upto) \in (from + 1)..upto
  BY SyncAssumption DEF ChunkEnd, Earlier

\* A command keeps what it holds when it moves.
Carries(p, j) ==
  /\ p.cmd = j.cmd /\ p.todo = j.todo /\ p.view = j.view /\ p.anchor = j.anchor
  /\ p.chosen = j.chosen /\ p.saved = j.saved /\ p.pre = j.pre

\* Where pull_all goes: to the drain, into a chunk, or back to resolve_one.
PulledTo(p, j, from, upto) ==
  \/ p = Draining(j)
  \/ /\ p \in Jobs /\ Carries(p, j) /\ p.pc = "ingest"
     /\ p.start = from /\ p.at = from /\ p.fetched <= Len(chain)
  \/ p \in Jobs /\ Carries(p, j) /\ p.pc = "decide" /\ p.cmd = "resolve"

\* The next place of a pull.
LEMMA PullingFacts ==
  ASSUME NEW j \in Jobs, NEW from \in Nat, NEW upto \in Nat, j.cmd \in {"pull", "resolve"},
         chain \in Seq(Events)
  PROVE  PulledTo(Pulling(j, from, upto), j, from, upto)
<1>1. "ingest" \in Phases /\ "decide" \in Phases
  BY DEF Phases, Resolving
<1> PICK p : p = Pulling(j, from, upto)
  OBVIOUS
<1>2. CASE upto <= from /\ j.cmd = "pull"
  BY <1>2 DEF Pulling, AfterPull, PulledTo
<1>3. CASE upto <= from /\ j.cmd = "resolve"
  <2> PICK z \in Nat : z = 0
    OBVIOUS
  <2>1. p = [j EXCEPT !.pc = "decide", !.start = z, !.at = z, !.fetched = z, !.stop = z,
                        !.upto = z]
    BY <1>3 DEF Pulling, AfterPull
  <2>q. PICK q : q = [j EXCEPT !.pc = "decide", !.start = z, !.at = z]
    OBVIOUS
  <2>r. q \in Jobs /\ q.pc = "decide"
    BY <1>1, <2>q DEF Jobs
  <2>s. p = [q EXCEPT !.fetched = z, !.stop = z, !.upto = z]
    BY <2>1, <2>q
  <2>2. p \in Jobs /\ p.pc = "decide"
    BY <2>r, <2>s DEF Jobs
  <2>3. Carries(p, j)
    BY <2>1 DEF Jobs, Carries
  <2>4. QED
    BY <1>3, <2>2, <2>3 DEF PulledTo, Carries
<1>4. CASE from < upto
  <2>s. PICK stop : stop = ChunkEnd(from, upto)
    OBVIOUS
  <2>f. PICK fetched : fetched = Earlier(stop, Len(chain))
    OBVIOUS
  <2>1. p = [j EXCEPT !.pc = "ingest", !.start = from, !.at = from, !.fetched = fetched,
                      !.stop = stop, !.upto = upto]
    BY <1>4, <2>s, <2>f DEF Pulling, Chunk
  <2>2. stop \in Nat
    BY <1>4, <2>s, ChunkFacts
  <2>l. fetched \in Nat /\ fetched <= Len(chain)
    <3>1. Len(chain) \in Nat
      OBVIOUS
    <3>2. QED
      BY <2>f, <2>2, <3>1 DEF Earlier
  <2>q. PICK q : q = [j EXCEPT !.pc = "ingest", !.start = from, !.at = from]
    OBVIOUS
  <2>r. q \in Jobs /\ q.pc = "ingest" /\ q.start = from /\ q.at = from
    BY <1>1, <2>q DEF Jobs
  <2>t. p = [q EXCEPT !.fetched = fetched, !.stop = stop, !.upto = upto]
    BY <2>1, <2>q
  <2>3. p \in Jobs /\ p.pc = "ingest" /\ p.start = from /\ p.at = from /\ p.fetched = fetched
    BY <2>2, <2>l, <2>r, <2>t DEF Jobs
  <2>4. Carries(p, j)
    BY <2>1 DEF Jobs, Carries
  <2>5. QED
    BY <2>l, <2>3, <2>4 DEF PulledTo
<1>5. QED
  BY <1>2, <1>3, <1>4

\* A pull that goes on, or goes back to resolve_one, has what the invariant asks of it.
LEMMA PulledJob ==
  ASSUME NEW j \in Jobs, NEW from \in Nat, NEW upto \in Nat, j.cmd \in {"pull", "resolve"},
         chain \in Seq(Events), chain' = chain, last_pulled' \in Nat,
         job' = Pulling(j, from, upto),
         j.todo = {}, j.anchor = 0, j.view \subseteq 1..Len(chain),
         j.cmd = "resolve" =>
           /\ j.chosen \in DOMAIN rows'
           /\ j.chosen \in Heads' =>
                j.saved = IF j.chosen \in DOMAIN stash' THEN stash'[j.chosen] ELSE NoStash
  PROVE  CommandInv'
<1>0. Len(chain') \in Nat /\ Len(chain') = Len(chain) /\ chain' \in Seq(Events)
  OBVIOUS
<1>1. CASE job' = Draining(j)
  BY <1>0, <1>1, DrainType, QuietJob
<1>2. CASE /\ job' \in Jobs /\ Carries(job', j) /\ job'.pc = "ingest"
           /\ job'.start = from /\ job'.at = from /\ job'.fetched <= Len(chain)
  <2>1. JobInv' /\ MarkInv'
    BY <1>0, <1>2 DEF JobInv, MarkInv, Resolving, Carries
  <2>2. PullInv'
    BY <1>2 DEF PullInv
  <2>3. ResolveInv'
    BY <1>2 DEF ResolveInv, Carries
  <2>4. QED
    BY <1>2, <2>1, <2>2, <2>3 DEF CommandInv, Carries
<1>3. CASE job' \in Jobs /\ Carries(job', j) /\ job'.pc = "decide" /\ job'.cmd = "resolve"
  <2>1. JobInv' /\ MarkInv'
    BY <1>0, <1>3 DEF JobInv, MarkInv, Resolving, Carries
  <2>2. PullInv'
    BY <1>3 DEF PullInv
  <2>3. ResolveInv'
    BY <1>3 DEF ResolveInv, Carries
  <2>4. QED
    BY <1>3, <2>1, <2>2, <2>3 DEF CommandInv, Carries
<1>4. PulledTo(job', j, from, upto)
  BY PullingFacts
<1>5. QED
  BY <1>1, <1>2, <1>3, <1>4 DEF PulledTo

\* The types of the variables, as the steps need them.
LEMMA SyncTypes ==
  ASSUME SyncInv
  PROVE  /\ chain \in Seq(Events) /\ Len(chain) \in Nat /\ payloads \in Nat /\ runs \in Nat
         /\ last_pulled \in Nat /\ job \in Jobs
  BY DEF SyncInv, FileInv, CommandInv, StoreTypes, StoredInv

\* publish and flush start with nothing in hand.
LEMMA StartStep ==
  ASSUME SyncInv, publish \/ flush
  PROVE  SyncInv'
<1>1. PICK pc \in {"list", "coalesce"} : /\ runs' = runs + 1 /\ UNCHANGED <<storeVars, chain, payloads>>
                                         /\ job' = [Idle EXCEPT !.cmd = "publish", !.pc = pc,
                                                                !.key = runs + 1]
  BY DEF publish, flush, Start
<1>2. pc \in Phases /\ runs + 1 \in Nat
  BY SyncTypes DEF Phases, Publishing
<1>3. job' \in Jobs /\ job'.pc = pc /\ job'.todo = Idle.todo /\ job'.view = Idle.view
      /\ job'.anchor = Idle.anchor
  BY <1>1, <1>2, IdleType DEF Jobs
<1>4. CommandInv'
  BY <1>1, <1>3, SyncTypes, QuietJob DEF Idle
<1>5. QED
  BY <1>1, <1>2, <1>4, FileSame DEF SyncInv

\* A kill leaves the file as the last write left it.
LEMMA KillStep ==
  ASSUME SyncInv, Kill
  PROVE  SyncInv'
  BY FileSame, EndedJob, SyncTypes DEF Kill, Stop, SyncInv

\* A publish ends in the drain, and the drain ends the command.
LEMMA PublishedStep ==
  ASSUME SyncInv, published
  PROVE  SyncInv'
<1>1. job' = Idle \/ job' = Draining(job)
  BY DEF published, Stop
<1>2. UNCHANGED <<storeVars, chain, payloads, runs>>
  BY DEF published
<1>3. QED
  BY <1>1, <1>2, FileSame, EndedJob, SyncTypes DEF SyncInv

\* The list is of markers that are set, and the view is of the chain.
LEMMA ListStep ==
  ASSUME SyncInv, list
  PROVE  SyncInv'
<1>1. PICK view \in {{}, (last_pulled + 1)..Len(chain)} :
        job' = [job EXCEPT !.pc = "submit", !.todo = dirty, !.view = view]
  BY DEF list
<1>2. UNCHANGED <<storeVars, chain, payloads, runs>> /\ job.pc = "list"
  BY DEF list
<1>3. view \subseteq 1..Len(chain) /\ view \subseteq Nat
  BY <1>1, SyncTypes
<1>4. dirty \subseteq Revs
  BY DirtyLocal DEF SyncInv, Revs
<1>5. "submit" \in Phases
  BY DEF Phases, Publishing
<1>6. job' \in Jobs /\ job'.pc = "submit" /\ job'.todo = dirty /\ job'.view = view
      /\ job'.anchor = job.anchor
  BY <1>1, <1>3, <1>4, <1>5, SyncTypes DEF Jobs
<1>7. job.anchor \in 0..Len(chain)
  BY DEF SyncInv, CommandInv, JobInv
<1>8. CommandInv'
  BY <1>2, <1>3, <1>6, <1>7
     DEF CommandInv, JobInv, MarkInv, PullInv, ResolveInv, Resolving, storeVars
<1>9. QED
  BY <1>2, <1>8, FileSame, SyncTypes DEF SyncInv

\* pull starts anywhere.
LEMMA PullStep ==
  ASSUME SyncInv, NEW from \in Nat, NEW upto \in Nat, pull(from, upto)
  PROVE  SyncInv'
<1>1. runs + 1 \in Nat
  BY SyncTypes
<1>2. PICK j : j = [Idle EXCEPT !.cmd = "pull", !.key = runs + 1]
  OBVIOUS
<1>3. j \in Jobs /\ j.cmd = "pull" /\ j.todo = Idle.todo /\ j.view = Idle.view
      /\ j.anchor = Idle.anchor
  BY <1>1, <1>2, IdleType DEF Jobs
<1>4. /\ job' = Pulling(j, from, upto) /\ runs' = runs + 1
      /\ UNCHANGED <<storeVars, chain, payloads>>
  BY <1>2 DEF pull
<1>5. j.todo = {} /\ j.view = {} /\ j.anchor = 0
  BY <1>3 DEF Idle
<1>7. chain \in Seq(Events) /\ chain' = chain /\ last_pulled' \in Nat
  BY <1>4, SyncTypes DEF storeVars
<1>8. CommandInv'
  BY <1>3, <1>4, <1>5, <1>7, PulledJob
<1>9. QED
  BY <1>1, <1>4, <1>8, FileSame DEF SyncInv

-----------------------------------------------------------------------------
(* The chain grows.                                                        *)

\* What Append does.
LEMMA AppendFacts ==
  ASSUME chain \in Seq(Events), NEW x \in Events, chain' = Append(chain, x)
  PROVE  /\ chain' \in Seq(Events) /\ Len(chain) \in Nat /\ Len(chain') = Len(chain) + 1
         /\ \A i \in 1..Len(chain) : chain'[i] = chain[i]
         /\ chain'[Len(chain) + 1] = x
         /\ \A i \in 1..Len(chain') : i \in 1..Len(chain) \/ i = Len(chain) + 1
  OBVIOUS

\* An event that was covered stays covered.
LEMMA CoveredStays ==
  ASSUME chain \in Seq(Events), NEW x \in Events, chain' = Append(chain, x), rows' = rows,
         NEW i \in 1..Len(chain), CoveredAt(i)
  PROVE  CoveredAt(i)'
<1>1. Canonical(chain[i])' = Canonical(chain[i])
  BY CanonicalStays
<1>2. QED
  BY <1>1 DEF CoveredAt

\* An event of the chain, over a revision that has been named.  A merge is over
\* the head that is stashed with it: so it equals the merges over it so far.
LEMMA AppendFile ==
  ASSUME FileInv, NEW x \in Events, chain' = Append(chain, x), UNCHANGED storeVars,
         payloads' \in Nat, payloads <= payloads', runs' = runs,
         x.parent \in Named \cup {Genesis},
         x.payload.seal = "merge" =>
           /\ x.parent \in Heads \cap DOMAIN stash
           /\ stash[x.parent] = [payload |-> x.payload, key |-> x.device]
  PROVE  FileInv' /\ Heads' = Heads
<1>1. chain \in Seq(Events) /\ payloads \in Nat
  BY DEF FileInv, StoreTypes
<1>2. /\ chain' \in Seq(Events) /\ Len(chain) \in Nat /\ Len(chain') = Len(chain) + 1
      /\ \A i \in 1..Len(chain) : chain'[i] = chain[i]
      /\ chain'[Len(chain) + 1] = x
      /\ \A i \in 1..Len(chain') : i \in 1..Len(chain) \/ i = Len(chain) + 1
  BY <1>1, AppendFacts
<1>3. Named \subseteq Named'
  BY <1>1, <1>2 DEF Named
<1>4. /\ UNCHANGED <<rows, superseded, account, dirty, stash, last_pulled>>
  BY DEF storeVars
<1>5. Heads' = Heads
  BY <1>4 DEF Heads
<1>6. Heads \subseteq DOMAIN rows
  BY DEF Heads
<1>7. StoreTypes'
  BY <1>2, <1>4 DEF FileInv, StoreTypes
<1>8. StoredInv'
  BY <1>2, <1>3, <1>4 DEF FileInv, StoredInv, StoreTypes
<1>9. ParentsInv'
  BY <1>2, <1>3, <1>4 DEF FileInv, ParentsInv
<1>10. RowsInv'
  <2>1. Chain(Len(chain) + 1) \notin DOMAIN rows
    BY <1>2, IdFacts DEF FileInv, StoredInv, Named
  <2>2. QED
    BY <1>2, <1>4, <2>1 DEF FileInv, RowsInv, StoreTypes, Rows
<1>11. MergeInv'
  BY <1>2, <1>4, <1>5, <1>6 DEF FileInv, MergeInv
<1>12. HeadIsQueued' /\ EditsExtendLeaf'
  BY <1>4, <1>5 DEF FileInv, HeadIsQueued, EditsExtendLeaf
<1>13. AnchorsTrue'
  <2>1. \A r \in DOMAIN rows : rows[r].anchor \in 0..Len(chain)
    BY DEF FileInv, RowsInv
  <2>2. \A r \in DOMAIN rows : rows[r].anchor # 0 => chain'[rows[r].anchor] = chain[rows[r].anchor]
    BY <1>2, <2>1
  <2>3. QED
    BY <1>4, <2>2 DEF FileInv, AnchorsTrue
<1>14. OneMergePerHead'
  <2>1. \A i \in 1..Len(chain) : chain[i].payload.seal = "merge" /\ x.payload.seal = "merge"
                                 /\ chain[i].parent = x.parent => chain[i] = x
    <3> SUFFICES ASSUME NEW i \in 1..Len(chain), chain[i].payload.seal = "merge",
                        x.payload.seal = "merge", chain[i].parent = x.parent
                 PROVE  chain[i] = x
      OBVIOUS
    <3>1. stash[x.parent] = [payload |-> chain[i].payload, key |-> chain[i].device]
      BY DEF FileInv, MergeInv
    <3>2. chain[i].payload = x.payload /\ chain[i].device = x.device
      BY <3>1
    <3>3. chain[i] \in Events
      BY <1>1
    <3>4. QED
      BY <3>2, <3>3 DEF Events
  <2>2. QED
    BY <1>2, <2>1 DEF FileInv, OneMergePerHead
<1>15. QED
  BY <1>5, <1>7, <1>8, <1>9, <1>10, <1>11, <1>12, <1>13, <1>14 DEF FileInv

\* The event that a listed entry would be published as.
LEMMA SignedType ==
  ASSUME SyncInv, NEW r \in dirty
  PROVE  Signed(r) \in Events /\ Signed(r).parent \in Named \cup {Genesis}
         /\ Signed(r).payload.seal = "edit"
<1>1. r \in DOMAIN rows /\ r[1] = "local" /\ rows[r] \in Rows /\ job.key \in Nat
  BY SyncTypes DEF SyncInv, FileInv, StoredInv, RowsInv, StoreTypes, Jobs
<1>2. Signed(r) \in Events
  BY <1>1 DEF Signed, Event, Events, Rows
<1>3. rows[r].parent \in Named \cup {Genesis} /\ rows[r].payload.seal = "edit"
  BY <1>1 DEF SyncInv, FileInv, ParentsInv, RowsInv
<1>4. QED
  BY <1>2, <1>3 DEF Signed, Event

\* The view and the anchor of a command are of the longer chain too.
LEMMA ViewStays ==
  ASSUME JobInv, chain \in Seq(Events), chain' \in Seq(Events), Len(chain) <= Len(chain')
  PROVE  job.view \subseteq 1..Len(chain') /\ job.anchor \in 0..Len(chain')
<1>1. Len(chain) \in Nat /\ Len(chain') \in Nat
  OBVIOUS
<1>2. QED
  BY <1>1 DEF JobInv

\* The publish engine goes to its next entry.
LEMMA SkipJob ==
  ASSUME job \in Jobs, job.todo \subseteq dirty, JobInv, job.pc = "submit", dirty' = dirty,
         chain \in Seq(Events), chain' \in Seq(Events), Len(chain) <= Len(chain'),
         job' = [job EXCEPT !.todo = @ \ {Oldest(job.todo)}]
  PROVE  CommandInv'
<1>1. /\ job' \in Jobs /\ job'.pc = "submit" /\ job'.todo = job.todo \ {Oldest(job.todo)}
      /\ job'.view = job.view /\ job'.anchor = job.anchor
  BY DEF Jobs
<1>2. JobInv' /\ MarkInv'
  BY <1>1, ViewStays DEF JobInv, MarkInv, Resolving
<1>3. QED
  BY <1>1, <1>2 DEF CommandInv, PullInv, ResolveInv

\* The publish engine has the event of its entry.
LEMMA MarkJob ==
  ASSUME job \in Jobs, job.todo \subseteq dirty, JobInv, job.pc = "submit", UNCHANGED storeVars,
         chain \in Seq(Events), chain' \in Seq(Events), Len(chain) <= Len(chain'), job.todo # {},
         NEW i \in Nat, i # 0, i <= Len(chain'), chain'[i] = Signed(Oldest(job.todo)),
         job' = [job EXCEPT !.pc = "mark", !.anchor = i]
  PROVE  CommandInv'
<1>1. "mark" \in Phases
  BY DEF Phases, Publishing
<1>2. /\ job' \in Jobs /\ job'.pc = "mark" /\ job'.todo = job.todo /\ job'.key = job.key
      /\ job'.view = job.view /\ job'.anchor = i
  BY <1>1 DEF Jobs
<1>3. Signed(Oldest(job.todo))' = Signed(Oldest(job.todo))
  BY <1>2 DEF Signed, Event, Oldest, storeVars
<1>4. MarkInv'
  BY <1>2, <1>3 DEF MarkInv
<1>5. Len(chain') \in Nat
  OBVIOUS
<1>6. i \in 0..Len(chain')
  BY <1>5
<1>7. JobInv'
  BY <1>2, <1>6, ViewStays DEF JobInv, Resolving
<1>8. QED
  BY <1>2, <1>4, <1>7 DEF CommandInv, PullInv, ResolveInv, storeVars

\* An entry is on chain already, or it lands, or it does not.
LEMMA PublishOneStep ==
  ASSUME SyncInv, publish_one
  PROVE  SyncInv'
<1> PICK r : r = Oldest(job.todo)
  OBVIOUS
<1>1. job.pc = "submit" /\ job.todo # {} /\ UNCHANGED <<storeVars, payloads, runs>>
  BY DEF publish_one
<1>2. job \in Jobs /\ job.todo \subseteq dirty /\ JobInv
  BY DEF SyncInv, CommandInv
<1>3. r \in dirty
  BY <1>1, <1>2, DirtyLocal, OldestIn DEF SyncInv
<1>4. Signed(r) \in Events /\ Signed(r).parent \in Named \cup {Genesis}
      /\ Signed(r).payload.seal = "edit"
  BY <1>3, SignedType
<1>5. CASE chain' = chain /\ job' = [job EXCEPT !.todo = @ \ {r}]
  <2>1. CommandInv'
    BY <1>1, <1>2, <1>5, SkipJob, SyncTypes DEF storeVars
  <2>2. QED
    BY <1>1, <1>5, <2>1, FileSame, SyncTypes DEF SyncInv
<1>6. ASSUME chain' = chain, OnChain(r) # {},
             job' = [job EXCEPT !.pc = "mark",
                                !.anchor = CHOOSE i \in OnChain(r) : \A j \in OnChain(r) : i <= j]
      PROVE  SyncInv'
  <2>m. PICK m : m = CHOOSE i \in OnChain(r) : \A j \in OnChain(r) : i <= j
    OBVIOUS
  <2>1. OnChain(r) \subseteq 1..Len(chain) /\ OnChain(r) \subseteq Nat
    BY <1>2 DEF OnChain, JobInv
  <2>2. \E i \in OnChain(r) : \A j \in OnChain(r) : i <= j
    BY <1>6, <2>1, Smallest
  <2>3. m \in OnChain(r)
    BY <2>2, <2>m
  <2>4. m \in 1..Len(chain') /\ chain'[m] = Signed(r)
    BY <1>6, <2>1, <2>3 DEF OnChain
  <2>5. CommandInv'
    <3>0. chain' = chain
      BY <1>6
    <3>l. Len(chain') \in Nat /\ chain' \in Seq(Events) /\ Len(chain) <= Len(chain')
      BY <3>0, SyncTypes
    <3>1. m \in Nat /\ m # 0 /\ m <= Len(chain')
      BY <2>4, <3>l
    <3>2. job' = [job EXCEPT !.pc = "mark", !.anchor = m]
      BY <1>6, <2>m
    <3>3. QED
      BY <1>1, <1>2, <2>4, <3>l, <3>1, <3>2, MarkJob, SyncTypes
  <2>6. QED
    BY <1>1, <1>6, <2>5, FileSame, SyncTypes DEF SyncInv
<1>7. ASSUME chain' = Append(chain, Signed(r)),
             \/ job' = [job EXCEPT !.pc = "mark", !.anchor = Len(chain) + 1]
             \/ job' = [job EXCEPT !.todo = @ \ {r}]
      PROVE  SyncInv'
  <2>1. FileInv'
    <3> PICK x : x = Signed(r)
      OBVIOUS
    <3>1. x \in Events /\ x.parent \in Named \cup {Genesis} /\ x.payload.seal # "merge"
      BY <1>4
    <3>2. chain' = Append(chain, x) /\ UNCHANGED storeVars /\ payloads' \in Nat
          /\ payloads <= payloads' /\ runs' = runs
      BY <1>1, <1>7, SyncTypes
    <3>3. QED
      BY <3>1, <3>2, AppendFile DEF SyncInv
  <2>2. Len(chain') = Len(chain) + 1 /\ chain'[Len(chain) + 1] = Signed(r)
    BY <1>4, <1>7, AppendFacts, SyncTypes
  <2>s. chain' \in Seq(Events)
    BY <1>4, <1>7, AppendFacts, SyncTypes
  <2>3. Len(chain) + 1 \in 1..Len(chain') /\ Len(chain') \in Nat /\ Len(chain) <= Len(chain')
    BY <2>2, SyncTypes
  <2>4. CommandInv'
    <3>1. CASE job' = [job EXCEPT !.pc = "mark", !.anchor = Len(chain) + 1]
      <4> PICK n : n = Len(chain) + 1
        OBVIOUS
      <4>1. n \in Nat /\ n # 0 /\ n <= Len(chain') /\ chain'[n] = Signed(r)
        BY <2>2, <2>3, SyncTypes
      <4>2. job' = [job EXCEPT !.pc = "mark", !.anchor = n]
        BY <3>1
      <4>3. QED
        BY <1>1, <1>2, <2>3, <2>s, <4>1, <4>2, MarkJob, SyncTypes
    <3>2. CASE job' = [job EXCEPT !.todo = @ \ {r}]
      BY <1>1, <1>2, <2>3, <2>s, <3>2, SkipJob, SyncTypes DEF storeVars
    <3>3. QED
      BY <1>7, <3>1, <3>2
  <2>5. QED
    BY <2>1, <2>4 DEF SyncInv
<1>8. QED
  BY <1>5, <1>6, <1>7 DEF publish_one

\* Ids that name something are ids.
LEMMA NamedRevs ==
  ASSUME payloads \in Nat, chain \in Seq(Events)
  PROVE  Named \cup {Genesis} \subseteq Revs
<1>1. Len(chain) \in Nat
  OBVIOUS
<1>2. QED
  BY <1>1 DEF Named, Revs

\* What the command knows of the chain outlives an event of another device.
LEMMA AppendCommand ==
  ASSUME SyncInv, NEW x \in Events, chain' = Append(chain, x), UNCHANGED <<storeVars, job>>,
         Heads' = Heads
  PROVE  CommandInv'
<1>1. /\ chain \in Seq(Events) /\ chain' \in Seq(Events) /\ Len(chain) \in Nat
      /\ Len(chain') = Len(chain) + 1 /\ \A i \in 1..Len(chain) : chain'[i] = chain[i]
  BY SyncTypes, AppendFacts
<1>2. UNCHANGED <<rows, dirty, stash, last_pulled, job>> /\ last_pulled \in Nat
  BY SyncTypes DEF storeVars
<1>3. job \in Jobs /\ job.todo \subseteq dirty /\ JobInv /\ MarkInv /\ PullInv /\ ResolveInv
  BY DEF SyncInv, CommandInv
<1>4. job.anchor # 0 => chain'[job.anchor] = chain[job.anchor]
  BY <1>1, <1>3 DEF JobInv
<1>5. JobInv'
  <2>1. job.view \subseteq 1..Len(chain') /\ job.anchor \in 0..Len(chain')
    BY <1>1, <1>3, ViewStays
  <2>2. job.fetched \in Nat
    BY <1>3 DEF Jobs
  <2>3. job.fetched <= Len(chain) => job.fetched <= Len(chain')
    BY <1>1, <2>2
  <2>4. QED
    BY <1>2, <1>3, <2>1, <2>3 DEF JobInv
<1>6. MarkInv'
  <2>1. Signed(Oldest(job.todo))' = Signed(Oldest(job.todo))
    BY <1>2 DEF Signed, Oldest, Event
  <2>2. QED
    BY <1>2, <1>3, <1>4, <2>1 DEF MarkInv
<1>7. PullInv'
  <2> SUFFICES ASSUME job.pc = "ingest", job.start <= last_pulled,
                      NEW i \in (last_pulled + 1)..job.at, i <= job.fetched
               PROVE  CoveredAt(i)'
    BY <1>2 DEF PullInv
  <2>1. CoveredAt(i)
    BY <1>3 DEF PullInv
  <2>2. job.at \in Nat /\ job.fetched \in Nat /\ job.fetched <= Len(chain)
    BY <1>1, <1>3 DEF JobInv, Jobs
  <2>3. i \in 1..Len(chain)
    BY <1>1, <1>2, <2>2
  <2>4. QED
    BY <1>1, <1>2, <2>1, <2>3, CoveredStays
<1>8. ResolveInv'
  BY <1>2, <1>3, <1>4 DEF ResolveInv
<1>9. QED
  BY <1>2, <1>3, <1>5, <1>6, <1>7, <1>8 DEF CommandInv

\* Another device publishes over an id that the chain has shown it.
LEMMA ForeignStep ==
  ASSUME SyncInv, NEW parent \in Shown, ForeignPublish(parent)
  PROVE  SyncInv'
<1>x. PICK x : x = Event(parent, Payload(payloads + 1, "foreign", FALSE), ForeignDevice)
  OBVIOUS
<1>1. /\ chain' = Append(chain, x) /\ payloads' = payloads + 1 /\ UNCHANGED <<storeVars, job, runs>>
  BY <1>x DEF ForeignPublish
<1>2. parent \in Named \cup {Genesis}
  <2>1. CASE parent \in {chain[i].parent : i \in 1..Len(chain)}
    BY <2>1 DEF SyncInv, FileInv, ParentsInv
  <2>2. ASSUME NEW k \in 1..Len(chain), parent = Canonical(chain[k])
        PROVE  parent \in Named
    <3>1. PICK i \in 1..k : Canonical(chain[k]) = Chain(i)
      BY SyncTypes, FirstEvent
    <3>2. i \in 1..Len(chain)
      BY SyncTypes
    <3>3. QED
      BY <2>2, <3>1, <3>2 DEF Named
  <2>3. QED
    BY <2>1, <2>2 DEF Shown
<1>3. parent \in Revs
  BY <1>2, NamedRevs, SyncTypes
<1>4. payloads + 1 \in Nat /\ payloads <= payloads + 1
  BY SyncTypes
<1>5. x \in Events /\ x.parent = parent /\ x.payload.seal = "foreign"
  BY <1>x, <1>3, <1>4 DEF Event, Events, Payload, Payloads, ForeignDevice
<1>6. FileInv' /\ Heads' = Heads
  <2>1. x.payload.seal # "merge" /\ x.parent \in Named \cup {Genesis}
    BY <1>2, <1>5
  <2>2. UNCHANGED storeVars /\ payloads' \in Nat /\ payloads <= payloads' /\ runs' = runs
    BY <1>1, <1>4
  <2>3. QED
    BY <1>1, <1>5, <2>1, <2>2, AppendFile DEF SyncInv
<1>7. CommandInv'
  BY <1>1, <1>5, <1>6, AppendCommand
<1>8. QED
  BY <1>6, <1>7 DEF SyncInv

\* The merge is published from its stash.
LEMMA PublishMergeStep ==
  ASSUME SyncInv, publish_merge
  PROVE  SyncInv'
<1>x. PICK x : x = MergeEvent(job.saved)
  OBVIOUS
<1>1. /\ job.pc = "merge" /\ chain' = Append(chain, x)
      /\ job' = [job EXCEPT !.pc = "ingest_merge", !.anchor = Len(chain) + 1]
      /\ UNCHANGED <<storeVars, payloads, runs>>
  BY <1>x DEF publish_merge
<1>2. /\ job.chosen \in Heads \cap DOMAIN stash /\ stash[job.chosen] = job.saved
      /\ Heads \subseteq job.pre
  BY <1>1 DEF SyncInv, CommandInv, ResolveInv
<1>3. job.chosen \in Named
  BY <1>2 DEF SyncInv, FileInv, StoredInv
<1>4. job.chosen \in Revs /\ job.saved \in Stashes
  BY SyncTypes DEF Jobs
<1>5. /\ x \in Events /\ x.parent = job.chosen /\ x.payload = job.saved.payload
      /\ x.device = job.saved.key
  BY <1>x, <1>4 DEF MergeEvent, Event, Events, Stashes
<1>6. job.saved = [payload |-> x.payload, key |-> x.device]
  BY <1>4, <1>5 DEF Stashes
<1>7. FileInv' /\ Heads' = Heads
  <2>1. x.parent \in Heads \cap DOMAIN stash /\ x.parent \in Named \cup {Genesis}
        /\ stash[x.parent] = [payload |-> x.payload, key |-> x.device]
    BY <1>2, <1>3, <1>5, <1>6
  <2>2. UNCHANGED storeVars /\ payloads' \in Nat /\ payloads <= payloads' /\ runs' = runs
    BY <1>1, SyncTypes
  <2>3. QED
    BY <1>1, <1>5, <2>1, <2>2, AppendFile DEF SyncInv
<1>8. CommandInv'
  <2>n. PICK n : n = Len(chain) + 1
    OBVIOUS
  <2>1. /\ chain' \in Seq(Events) /\ Len(chain') = n /\ n \in Nat /\ n # 0 /\ chain'[n] = x
        /\ Len(chain) <= Len(chain')
    BY <1>1, <1>5, <2>n, AppendFacts, SyncTypes
  <2>2. "ingest_merge" \in Phases
    BY DEF Phases, Resolving
  <2>3. /\ job' \in Jobs /\ job'.pc = "ingest_merge" /\ job'.anchor = n
        /\ job'.chosen = job.chosen /\ job'.pre = job.pre /\ job'.cmd = job.cmd
        /\ job'.todo = job.todo /\ job'.view = job.view
    BY <1>1, <2>n, <2>1, <2>2, SyncTypes DEF Jobs
  <2>4. n \in 0..Len(chain')
    BY <2>1
  <2>5. JobInv' /\ MarkInv' /\ PullInv'
    <3>1. JobInv /\ job.todo = {} /\ job.cmd = "resolve"
      BY <1>1 DEF SyncInv, CommandInv, JobInv, Resolving
    <3>2. job.view \subseteq 1..Len(chain')
      BY <2>1, <3>1, ViewStays, SyncTypes
    <3>3. QED
      BY <2>3, <2>4, <3>1, <3>2 DEF JobInv, MarkInv, PullInv, Resolving
  <2>6. ResolveInv'
    BY <1>2, <1>5, <1>7, <2>1, <2>3 DEF ResolveInv
  <2>7. job'.todo \subseteq dirty'
    BY <1>1, <2>3 DEF SyncInv, CommandInv, storeVars
  <2>8. QED
    BY <2>3, <2>5, <2>6, <2>7 DEF CommandInv
<1>9. QED
  BY <1>7, <1>8 DEF SyncInv

-----------------------------------------------------------------------------
(* Markers and anchors.                                                    *)

\* A marker may go once the head is anchored, and any other marker at any time.
LEMMA DirtyFile ==
  ASSUME FileInv, dirty' \subseteq dirty,
         UNCHANGED <<rows, superseded, account, stash, last_pulled, chain, payloads, runs>>,
         rows[account.head].anchor = 0 /\ account.head \in dirty => account.head \in dirty'
  PROVE  FileInv'
<1>1. Heads' = Heads
  BY DEF Heads
<1>2. StoreTypes' /\ StoredInv' /\ ParentsInv' /\ RowsInv'
  BY DEF FileInv, StoreTypes, StoredInv, ParentsInv, RowsInv, Named
<1>3. MergeInv' /\ EditsExtendLeaf' /\ AnchorsTrue' /\ OneMergePerHead'
  BY <1>1 DEF FileInv, MergeInv, EditsExtendLeaf, AnchorsTrue, OneMergePerHead
<1>4. HeadIsQueued'
  BY DEF FileInv, HeadIsQueued
<1>5. QED
  BY <1>2, <1>3, <1>4 DEF FileInv

\* Coalescing keeps the marker of the head.
LEMMA CoalesceStep ==
  ASSUME SyncInv, coalesce
  PROVE  SyncInv'
<1>1. job.pc = "coalesce" /\ dirty' = Coalesced /\ job' = [job EXCEPT !.pc = "list"]
      /\ UNCHANGED <<rows, superseded, account, stash, last_pulled, chain, payloads, runs>>
  BY DEF coalesce, Goto
<1>2. dirty' \subseteq dirty /\ (account.head \in dirty => account.head \in dirty')
  BY <1>1 DEF Coalesced
<1>3. FileInv'
  BY <1>1, <1>2, DirtyFile DEF SyncInv
<1>4. "list" \in Phases
  BY DEF Phases, Publishing
<1>5. /\ job' \in Jobs /\ job'.pc = "list" /\ job'.todo = job.todo
      /\ job'.view = job.view /\ job'.anchor = job.anchor
  BY <1>1, <1>4, SyncTypes DEF Jobs
<1>6. job.todo = {} /\ job.view \subseteq 1..Len(chain) /\ job.anchor \in 0..Len(chain)
  BY <1>1 DEF SyncInv, CommandInv, JobInv
<1>7. CommandInv'
  BY <1>1, <1>5, <1>6 DEF CommandInv, JobInv, MarkInv, PullInv, ResolveInv, Resolving
<1>8. QED
  BY <1>3, <1>7 DEF SyncInv

\* A marker is cleared after its anchor is set.
LEMMA ClearDirtyStep ==
  ASSUME SyncInv, clear_dirty
  PROVE  SyncInv'
<1>r. PICK r : r = Oldest(job.todo)
  OBVIOUS
<1>1. /\ job.pc = "clear" /\ dirty' = dirty \ {r}
      /\ job' = [job EXCEPT !.pc = "submit", !.todo = @ \ {r}, !.anchor = 0]
      /\ UNCHANGED <<rows, superseded, account, stash, last_pulled, chain, payloads, runs>>
  BY <1>r DEF clear_dirty
<1>2. rows[r].anchor # 0
  BY <1>r, <1>1 DEF SyncInv, CommandInv, MarkInv
<1>3. FileInv'
  BY <1>1, <1>2, DirtyFile DEF SyncInv
<1>4. "submit" \in Phases
  BY DEF Phases, Publishing
<1>z. PICK z \in Nat : z = 0
  OBVIOUS
<1>j. job' = [job EXCEPT !.pc = "submit", !.todo = @ \ {r}, !.anchor = z]
  BY <1>1, <1>z
<1>5. /\ job' \in Jobs /\ job'.pc = "submit" /\ job'.todo = job.todo \ {r}
      /\ job'.view = job.view /\ job'.anchor = z
  BY <1>j, <1>4, SyncTypes DEF Jobs
<1>6. job.todo \subseteq dirty /\ job.view \subseteq 1..Len(chain)
  BY DEF SyncInv, CommandInv, JobInv
<1>7. z \in 0..Len(chain)
  BY <1>z, SyncTypes
<1>8. CommandInv'
  BY <1>1, <1>5, <1>6, <1>7 DEF CommandInv, JobInv, MarkInv, PullInv, ResolveInv, Resolving
<1>9. QED
  BY <1>3, <1>8 DEF SyncInv

\* The anchor of a stored revision is set to an event with its content.
LEMMA AnchorFile ==
  ASSUME FileInv, NEW r \in DOMAIN rows, NEW a \in 1..Len(chain),
         chain[a].parent = rows[r].parent, chain[a].payload = rows[r].payload,
         rows' = [rows EXCEPT ![r].anchor = a],
         UNCHANGED <<superseded, account, dirty, stash, last_pulled, chain, payloads, runs>>
  PROVE  /\ FileInv' /\ Heads' = Heads /\ DOMAIN rows' = DOMAIN rows
         /\ \A q \in DOMAIN rows : rows'[q].parent = rows[q].parent /\ (q # r => rows'[q] = rows[q])
         /\ rows'[r].anchor = a
<1>1. chain \in Seq(Events) /\ Len(chain) \in Nat /\ a \in Nat /\ a # 0 /\ rows[r] \in Rows
  BY DEF FileInv, StoreTypes
<1>2. DOMAIN rows' = DOMAIN rows /\ \A q \in DOMAIN rows : q # r => rows'[q] = rows[q]
  OBVIOUS
<1>3. rows'[r] = [rows[r] EXCEPT !.anchor = a]
  OBVIOUS
<1>4. /\ rows'[r] \in Rows /\ rows'[r].anchor = a /\ rows'[r].parent = rows[r].parent
      /\ rows'[r].payload = rows[r].payload
  BY <1>1, <1>3 DEF Rows
<1>5. \A q \in DOMAIN rows : rows'[q].parent = rows[q].parent /\ rows'[q].payload = rows[q].payload
  BY <1>2, <1>4
<1>6. Heads' = Heads
  BY <1>2, <1>5, HeadsSame
<1>7. StoreTypes'
  BY <1>2, <1>4 DEF FileInv, StoreTypes
<1>8. StoredInv' /\ ParentsInv'
  BY <1>2, <1>5 DEF FileInv, StoredInv, ParentsInv, Named
<1>9. RowsInv'
  <2>1. \A q \in DOMAIN rows : rows'[q].anchor \in 0..Len(chain)
    BY <1>1, <1>2, <1>4 DEF FileInv, RowsInv
  <2>2. \A q \in DOMAIN rows : rows[q].anchor # 0 => rows'[q].anchor # 0
    BY <1>1, <1>2, <1>4
  <2>3. QED
    BY <1>2, <1>5, <2>1, <2>2 DEF FileInv, RowsInv
<1>10. MergeInv' /\ EditsExtendLeaf' /\ OneMergePerHead'
  BY <1>2, <1>6 DEF FileInv, MergeInv, EditsExtendLeaf, OneMergePerHead
<1>11. HeadIsQueued'
  <2>1. account.head \in DOMAIN rows
    BY DEF FileInv, StoredInv
  <2>2. QED
    BY <1>1, <1>2, <1>4, <2>1 DEF FileInv, HeadIsQueued
<1>12. AnchorsTrue'
  BY <1>2, <1>4, <1>5 DEF FileInv, AnchorsTrue
<1>13. QED
  BY <1>2, <1>4, <1>5, <1>6, <1>7, <1>8, <1>9, <1>10, <1>11, <1>12 DEF FileInv

\* The entry gets the anchor of the event that it was published as.
LEMMA MarkStep ==
  ASSUME SyncInv, mark_published
  PROVE  SyncInv'
<1>r. PICK r : r = Oldest(job.todo)
  OBVIOUS
<1>1. /\ job.pc = "mark" /\ rows' = [rows EXCEPT ![r].anchor = job.anchor]
      /\ job' = [job EXCEPT !.pc = "clear"]
      /\ UNCHANGED <<superseded, account, dirty, stash, last_pulled, chain, payloads, runs>>
  BY <1>r DEF mark_published, Goto
<1>2. /\ job.todo # {} /\ job.todo \subseteq dirty /\ job.anchor # 0 /\ job.anchor \in 0..Len(chain)
      /\ chain[job.anchor] = Signed(r) /\ job.view \subseteq 1..Len(chain)
  BY <1>r, <1>1 DEF SyncInv, CommandInv, MarkInv, JobInv
<1>3. r \in job.todo
  BY <1>r, <1>2, DirtyLocal, OldestIn DEF SyncInv
<1>4. r \in DOMAIN rows
  BY <1>2, <1>3 DEF SyncInv, FileInv, StoredInv
<1>5. chain[job.anchor].parent = rows[r].parent /\ chain[job.anchor].payload = rows[r].payload
  BY <1>2 DEF Signed, Event
<1>6. job.anchor \in 1..Len(chain)
  BY <1>2, SyncTypes
<1>7. FileInv' /\ rows'[r].anchor = job.anchor
  BY <1>1, <1>4, <1>5, <1>6, AnchorFile DEF SyncInv
<1>8. "clear" \in Phases
  BY DEF Phases, Publishing
<1>9. /\ job' \in Jobs /\ job'.pc = "clear" /\ job'.todo = job.todo
      /\ job'.view = job.view /\ job'.anchor = job.anchor
  BY <1>1, <1>8, SyncTypes DEF Jobs
<1>10. JobInv' /\ PullInv' /\ ResolveInv'
  BY <1>1, <1>2, <1>9 DEF JobInv, PullInv, ResolveInv, Resolving
<1>11. MarkInv'
  <2>1. Oldest(job'.todo) = r
    BY <1>r, <1>9
  <2>2. QED
    BY <1>2, <1>7, <1>9, <2>1 DEF MarkInv
<1>12. QED
  BY <1>1, <1>2, <1>7, <1>9, <1>10, <1>11 DEF SyncInv, CommandInv

-----------------------------------------------------------------------------
(* ingest_chain_revision.                                                  *)

\* The row of an event, and a file with one more row.
RowOf(row, a) ==
  /\ row \in Rows /\ row.parent = chain[a].parent /\ row.payload = chain[a].payload
  /\ row.anchor = a

RowAdded(id, row) ==
  /\ DOMAIN rows' = DOMAIN rows \cup {id} /\ rows'[id] = row
  /\ \A q \in DOMAIN rows : rows'[q] = rows[q]

\* A new row has the id of the first event with its content.
LEMMA ChainRowFile ==
  ASSUME FileInv, NEW a \in 1..Len(chain), NEW id, id = Canonical(chain[a]), id \notin DOMAIN rows,
         NEW row, RowOf(row, a), rows' = With(id, row), account' = Freeze(account),
         UNCHANGED <<superseded, dirty, stash, last_pulled, chain, payloads, runs>>
  PROVE  FileInv' /\ RowAdded(id, row)
<1>1. chain \in Seq(Events) /\ Len(chain) \in Nat /\ a \in Nat /\ a # 0
  BY DEF FileInv, StoreTypes
<1>2. PICK k \in 1..a : id = Chain(k) /\ chain[k] = chain[a]
  BY <1>1, FirstEvent
<1>3. k \in 1..Len(chain) /\ id \in Named
  BY <1>1, <1>2 DEF Named
<1>4. DOMAIN rows' = DOMAIN rows \cup {id} /\ rows'[id] = row /\ \A q \in DOMAIN rows : rows'[q] = rows[q]
  BY DEF With
<1>5. \A q \in DOMAIN rows' : \/ q \in DOMAIN rows /\ rows'[q] = rows[q]
                              \/ q = id /\ rows'[q] = row
  BY <1>4
<1>6. /\ row \in Rows /\ row.parent = chain[a].parent /\ row.payload = chain[a].payload
      /\ row.anchor = a
  BY DEF RowOf
<1>7. /\ account' \in [head : Revs, frozen : BOOLEAN, tombstoned : BOOLEAN]
      /\ account'.head = account.head /\ account'.frozen = TRUE
  BY DEF FileInv, StoreTypes, Freeze
<1>8. account.head \in DOMAIN rows
  BY DEF FileInv, StoredInv
<1>9. StoreTypes'
  BY <1>4, <1>5, <1>6, <1>7 DEF FileInv, StoreTypes
<1>10. StoredInv'
  BY <1>3, <1>4, <1>7 DEF FileInv, StoredInv, Named
<1>11. ParentsInv'
  BY <1>4, <1>5, <1>6 DEF FileInv, ParentsInv, Named
<1>12. RowsInv'
  <2>1. id[1] # "local"
    BY <1>2, IdFacts
  <2>2. \A r \in DOMAIN rows' : r[1] = "local" => rows'[r].payload.seal = "edit"
    BY <1>4, <2>1 DEF FileInv, RowsInv
  <2>3. ASSUME NEW i \in 1..Len(chain), Chain(i) \in DOMAIN rows'
        PROVE  rows'[Chain(i)].parent = chain[i].parent /\ rows'[Chain(i)].anchor # 0
    <3>1. CASE Chain(i) = id
      BY <1>1, <1>2, <1>4, <1>5, <1>6, <3>1, IdFacts
    <3>2. CASE Chain(i) \in DOMAIN rows
      BY <1>4, <3>2 DEF FileInv, RowsInv
    <3>3. QED
      BY <1>4, <2>3, <3>1, <3>2
  <2>4. \A r \in DOMAIN rows' : rows'[r].anchor \in 0..Len(chain)
    BY <1>1, <1>4, <1>5, <1>6 DEF FileInv, RowsInv
  <2>5. QED
    BY <2>2, <2>3, <2>4 DEF FileInv, RowsInv
<1>13. MergeInv'
  <2>1. \A r \in DOMAIN rows : r \in Heads' => r \in Heads
    BY <1>4, HeadsShrink
  <2>2. QED
    BY <1>4, <2>1 DEF FileInv, MergeInv
<1>14. HeadIsQueued' /\ EditsExtendLeaf'
  BY <1>4, <1>7, <1>8 DEF FileInv, HeadIsQueued, EditsExtendLeaf
<1>15. AnchorsTrue'
  BY <1>4, <1>5, <1>6 DEF FileInv, AnchorsTrue
<1>16. OneMergePerHead'
  BY DEF FileInv, OneMergePerHead
<1>17. QED
  BY <1>4, <1>9, <1>10, <1>11, <1>12, <1>13, <1>14, <1>15, <1>16 DEF FileInv, RowAdded

\* What an ingest leaves: the event has its row, no covered event loses its own,
\* and the only new head is the row of the event.
Ingested(a) ==
  /\ FileInv' /\ CoveredAt(a)'
  /\ DOMAIN rows \subseteq DOMAIN rows'
  /\ \A q \in DOMAIN rows : rows'[q].parent = rows[q].parent
  /\ \A k \in 1..Len(chain) : CoveredAt(k) => CoveredAt(k)'
  /\ Heads' \subseteq Heads \cup {Canonical(chain[a])}
  /\ account'.frozen \/ account' = account

\* An event is known, anchors a local row, or becomes a row that freezes the account.
LEMMA IngestFile ==
  ASSUME FileInv, NEW a \in 1..Len(chain), Ingest(a),
         UNCHANGED <<superseded, dirty, stash, last_pulled, chain, payloads, runs>>
  PROVE  Ingested(a)
<1>0. Len(chain) \in Nat /\ a \in Nat
  BY DEF FileInv, StoreTypes
<1>c. \A k \in 1..Len(chain) : Canonical(chain[k])' = Canonical(chain[k])
  BY DEF Canonical
<1>1. CASE CoveredAt(a)
  <2>1. UNCHANGED <<rows, account>>
    BY <1>1 DEF Ingest, CoveredAt
  <2>2. FileInv' /\ Heads' = Heads
    BY <2>1, FileSame DEF storeVars, FileInv, StoreTypes
  <2>3. \A k \in 1..Len(chain) : CoveredAt(k) => CoveredAt(k)'
    BY <1>c, <2>1 DEF CoveredAt
  <2>4. QED
    BY <1>1, <2>1, <2>2, <2>3 DEF Ingested
<1>2. CASE ~CoveredAt(a) /\ Unanchored(chain[a]) # {}
  <2>1. PICK r \in Unanchored(chain[a]) : rows' = [rows EXCEPT ![r].anchor = a] /\ UNCHANGED account
    BY <1>2 DEF Ingest, CoveredAt
  <2>2. /\ r \in DOMAIN rows /\ rows[r].anchor = 0 /\ chain[a].parent = rows[r].parent
        /\ chain[a].payload = rows[r].payload
    BY <2>1 DEF Unanchored
  <2>3. /\ FileInv' /\ Heads' = Heads /\ DOMAIN rows' = DOMAIN rows
        /\ \A q \in DOMAIN rows : rows'[q].parent = rows[q].parent /\ (q # r => rows'[q] = rows[q])
        /\ rows'[r].anchor = a
    BY <2>1, <2>2, AnchorFile
  <2>4. CoveredAt(a)'
    BY <2>2, <2>3 DEF CoveredAt
  <2>5. ASSUME NEW k \in 1..Len(chain), CoveredAt(k)
        PROVE  CoveredAt(k)'
    <3>1. CASE Canonical(chain[k]) \in DOMAIN rows
      BY <1>c, <2>3, <3>1 DEF CoveredAt
    <3>2. ASSUME NEW q \in DOMAIN rows, rows[q].anchor = k
          PROVE  CoveredAt(k)'
      <4>1. q # r
        BY <1>0, <2>2, <3>2
      <4>2. QED
        BY <2>3, <3>2, <4>1 DEF CoveredAt
    <3>3. QED
      BY <2>5, <3>1, <3>2 DEF CoveredAt
  <2>6. QED
    BY <2>1, <2>3, <2>4, <2>5 DEF Ingested
<1>3. CASE ~CoveredAt(a) /\ Unanchored(chain[a]) = {}
  <2>id. PICK id : id = Canonical(chain[a])
    OBVIOUS
  <2>row. PICK row : row = Row(chain[a].parent, chain[a].payload, chain[a].device, a, FALSE)
    OBVIOUS
  <2>1. id \notin DOMAIN rows
    BY <1>3, <2>id DEF CoveredAt
  <2>e. chain[a] \in Events
    BY DEF FileInv, StoreTypes
  <2>f. RowOf(row, a)
    BY <1>0, <2>e, <2>row DEF Row, Rows, Events, RowOf
  <2>2. rows' = With(id, row) /\ account' = Freeze(account)
    BY <1>3, <2>id, <2>row DEF Ingest, CoveredAt
  <2>a. FileInv' /\ RowAdded(id, row)
    BY <2>id, <2>f, <2>1, <2>2, ChainRowFile
  <2>3. /\ FileInv' /\ DOMAIN rows' = DOMAIN rows \cup {id}
        /\ \A q \in DOMAIN rows : rows'[q] = rows[q]
    BY <2>a DEF RowAdded
  <2>4. CoveredAt(a)'
    BY <1>c, <2>id, <2>3 DEF CoveredAt
  <2>5. \A k \in 1..Len(chain) : CoveredAt(k) => CoveredAt(k)'
    BY <1>c, <2>3 DEF CoveredAt
  <2>6. \A r \in DOMAIN rows : r \in Heads' => r \in Heads
    BY <2>3, HeadsShrink
  <2>7. Heads' \subseteq DOMAIN rows \cup {id}
    BY <2>3 DEF Heads
  <2>8. account'.frozen
    BY <2>2 DEF Freeze, FileInv, StoreTypes
  <2>9. QED
    BY <2>id, <2>3, <2>4, <2>5, <2>6, <2>7, <2>8 DEF Ingested
<1>4. QED
  BY <1>1, <1>2, <1>3

\* A pull ingests the next event of its chunk.
LEMMA PullIngestStep ==
  ASSUME SyncInv, pull_ingest
  PROVE  SyncInv' /\ \A k \in 1..Len(chain) : CoveredAt(k) => CoveredAt(k)'
<1>a. PICK a : a = job.at + 1
  OBVIOUS
<1>1. /\ job.pc = "ingest" /\ job.at < job.fetched /\ Ingest(a) /\ job' = [job EXCEPT !.at = @ + 1]
      /\ UNCHANGED <<superseded, dirty, stash, last_pulled, chain, payloads, runs>>
  BY <1>a DEF pull_ingest
<1>2. job \in Jobs /\ job.todo \subseteq dirty /\ JobInv /\ PullInv /\ ResolveInv
  BY DEF SyncInv, CommandInv
<1>3. job.at \in Nat /\ job.fetched \in Nat
  BY <1>2 DEF Jobs
<1>4. /\ job.todo = {} /\ job.view \subseteq 1..Len(chain) /\ job.anchor = 0
      /\ job.fetched <= Len(chain) /\ job.cmd \in {"pull", "resolve"}
  BY <1>1, <1>2 DEF JobInv
<1>5. a \in 1..Len(chain) /\ a \in Nat
  BY <1>a, <1>1, <1>3, <1>4, SyncTypes
<1>6. Ingested(a)
  BY <1>1, <1>5, IngestFile DEF SyncInv
<1>7. /\ job' \in Jobs /\ job'.pc = "ingest" /\ job'.at = a /\ job'.start = job.start
      /\ job'.fetched = job.fetched /\ Carries(job', job)
  <2>1. job' = [job EXCEPT !.at = a]
    BY <1>a, <1>1
  <2>2. job' \in Jobs /\ job'.pc = job.pc /\ job'.at = a /\ job'.start = job.start
        /\ job'.fetched = job.fetched
    BY <1>2, <1>5, <2>1 DEF Jobs
  <2>3. Carries(job', job)
    BY <1>2, <2>1 DEF Jobs, Carries
  <2>4. QED
    BY <1>1, <2>2, <2>3
<1>8. JobInv' /\ MarkInv'
  BY <1>1, <1>4, <1>5, <1>7, SyncTypes DEF JobInv, MarkInv, Resolving, Carries
<1>9. PullInv'
  <2> SUFFICES ASSUME job.start <= last_pulled, NEW i \in (last_pulled + 1)..a, i <= job.fetched
               PROVE  CoveredAt(i)'
    BY <1>1, <1>7 DEF PullInv
  <2>1. CASE i = a
    BY <1>6, <2>1 DEF Ingested
  <2>2. CASE i \in (last_pulled + 1)..job.at
    <3>1. CoveredAt(i)
      BY <1>1, <1>2, <2>2 DEF PullInv
    <3>2. i \in 1..Len(chain)
      BY <1>3, <1>4, SyncTypes
    <3>3. QED
      BY <1>6, <3>1, <3>2 DEF Ingested
  <2>3. QED
    BY <1>a, <1>3, <2>1, <2>2, SyncTypes
<1>10. ResolveInv'
  <2> SUFFICES ASSUME job.cmd = "resolve"
               PROVE  /\ job.chosen \in DOMAIN rows'
                      /\ job.chosen \in Heads' =>
                           job.saved = IF job.chosen \in DOMAIN stash THEN stash[job.chosen]
                                       ELSE NoStash
    BY <1>1, <1>7 DEF ResolveInv, Carries
  <2>1. /\ job.chosen \in DOMAIN rows
        /\ job.chosen \in Heads =>
             job.saved = IF job.chosen \in DOMAIN stash THEN stash[job.chosen] ELSE NoStash
    BY <1>1, <1>2 DEF ResolveInv
  <2>2. \A r \in DOMAIN rows : r \in Heads' => r \in Heads
    BY <1>1, <1>6, HeadsShrink DEF Ingested
  <2>3. QED
    BY <1>6, <2>1, <2>2 DEF Ingested
<1>11. CommandInv'
  BY <1>1, <1>2, <1>7, <1>8, <1>9, <1>10 DEF CommandInv, Carries
<1>12. QED
  BY <1>6, <1>11 DEF SyncInv, Ingested

\* A resolution ingests its own merge: a row over the head it keeps.
LEMMA IngestMergeStep ==
  ASSUME SyncInv, ingest_merge
  PROVE  SyncInv'
<1>a. PICK a : a = job.anchor
  OBVIOUS
<1>m. PICK m : m = Canonical(chain[a])
  OBVIOUS
<1>1. /\ job.pc = "ingest_merge" /\ Ingest(a) /\ job' = [job EXCEPT !.pc = "unfreeze", !.merge = m]
      /\ UNCHANGED <<superseded, dirty, stash, last_pulled, chain, payloads, runs>>
  BY <1>a, <1>m DEF ingest_merge
<1>2. job \in Jobs /\ job.todo \subseteq dirty /\ JobInv /\ ResolveInv
  BY DEF SyncInv, CommandInv
<1>3. /\ job.anchor # 0 /\ chain[a].parent = job.chosen /\ Heads \subseteq job.pre
      /\ job.anchor \in 0..Len(chain) /\ job.view \subseteq 1..Len(chain) /\ job.todo = {}
      /\ job.cmd = "resolve"
  BY <1>a, <1>1, <1>2 DEF ResolveInv, JobInv, Resolving
<1>4. a \in 1..Len(chain)
  BY <1>a, <1>3, SyncTypes
<1>5. Ingested(a)
  BY <1>1, <1>4, IngestFile DEF SyncInv
<1>6. PICK k \in 1..a : m = Chain(k) /\ chain[k] = chain[a]
  BY <1>m, <1>4, FirstEvent, SyncTypes
<1>7. k \in 1..Len(chain) /\ m \in Revs /\ m[1] = "chain"
  BY <1>4, <1>6, IdFacts, SyncTypes DEF Revs
<1>8. "unfreeze" \in Phases
  BY DEF Phases, Resolving
<1>9. job' \in Jobs /\ job'.pc = "unfreeze" /\ job'.merge = m
  BY <1>1, <1>2, <1>7, <1>8 DEF Jobs
<1>10. Carries(job', job)
  BY <1>1, <1>2 DEF Jobs, Carries
<1>11. JobInv' /\ MarkInv' /\ PullInv'
  BY <1>1, <1>3, <1>9, <1>10 DEF JobInv, MarkInv, PullInv, Resolving, Carries
<1>12. ResolveInv'
  <2>1. m \in DOMAIN rows' => rows'[m].parent = job.chosen
    <3>1. RowsInv'
      BY <1>5 DEF Ingested, FileInv
    <3>2. QED
      BY <1>1, <1>3, <1>6, <1>7, <3>1 DEF RowsInv, Chain
  <2>2. Heads' \subseteq job.pre \cup {m}
    BY <1>m, <1>3, <1>5 DEF Ingested
  <2>3. QED
    BY <1>7, <1>9, <1>10, <2>1, <2>2 DEF ResolveInv, Carries
<1>13. CommandInv'
  BY <1>1, <1>2, <1>9, <1>10, <1>11, <1>12 DEF CommandInv, Carries
<1>14. QED
  BY <1>5, <1>13 DEF SyncInv, Ingested

-----------------------------------------------------------------------------
(* The checkpoint, the stash and the freeze.                               *)

\* The checkpoint moves.
LEMMA CheckpointFile ==
  ASSUME FileInv, last_pulled' \in Nat,
         UNCHANGED <<rows, superseded, account, dirty, stash, chain, payloads, runs>>
  PROVE  FileInv' /\ Heads' = Heads
<1>1. Heads' = Heads
  BY DEF Heads
<1>2. StoreTypes' /\ StoredInv' /\ ParentsInv' /\ RowsInv'
  BY DEF FileInv, StoreTypes, StoredInv, ParentsInv, RowsInv, Named
<1>3. MergeInv' /\ HeadIsQueued' /\ EditsExtendLeaf' /\ AnchorsTrue' /\ OneMergePerHead'
  BY <1>1 DEF FileInv, MergeInv, HeadIsQueued, EditsExtendLeaf, AnchorsTrue, OneMergePerHead
<1>4. QED
  BY <1>1, <1>2, <1>3 DEF FileInv

\* The checkpoint moves to the end of the chunk once all that was fetched is ingested.
LEMMA PullAdvanceStep ==
  ASSUME SyncInv, pull_advance
  PROVE  SyncInv'
<1>1. /\ job.pc = "ingest"
      /\ UNCHANGED <<rows, superseded, account, dirty, stash, chain, payloads, runs>>
  BY DEF pull_advance
<1>2. job \in Jobs /\ job.todo \subseteq dirty /\ JobInv /\ ResolveInv
  BY DEF SyncInv, CommandInv
<1>3. job.stop \in Nat
  BY <1>2 DEF Jobs
<1>5. CASE job' = Idle /\ last_pulled' = last_pulled
  BY <1>1, <1>5, FileSame, EndedJob, SyncTypes DEF SyncInv, storeVars
<1>6. CASE job.stop >= last_pulled /\ last_pulled' = Advanced(job.stop)
           /\ job' = [job EXCEPT !.pc = "prune"]
  <2>1. last_pulled' = job.stop
    BY <1>3, <1>6, SyncTypes DEF Advanced
  <2>2. FileInv' /\ Heads' = Heads
    BY <1>1, <1>3, <2>1, CheckpointFile DEF SyncInv
  <2>3. "prune" \in Phases
    BY DEF Phases
  <2>4. job' \in Jobs /\ job'.pc = "prune"
    BY <1>2, <1>6, <2>3 DEF Jobs
  <2>5. Carries(job', job)
    BY <1>2, <1>6 DEF Jobs, Carries
  <2>6. JobInv' /\ MarkInv'
    BY <1>1, <1>2, <2>4, <2>5 DEF JobInv, MarkInv, Resolving, Carries
  <2>7. PullInv'
    BY <2>4 DEF PullInv
  <2>8. ResolveInv'
    BY <1>1, <1>2, <2>2, <2>4, <2>5 DEF ResolveInv, Carries
  <2>9. QED
    BY <1>1, <1>2, <2>2, <2>4, <2>5, <2>6, <2>7, <2>8 DEF SyncInv, CommandInv, Carries
<1>7. QED
  BY <1>3, <1>5, <1>6, SyncTypes DEF pull_advance, Stop, Goto

\* The checkpoint moves to the merge.
LEMMA AdvanceStep ==
  ASSUME SyncInv, advance_last_pulled
  PROVE  SyncInv'
<1>1. job.anchor \in 0..Len(chain)
  BY DEF SyncInv, CommandInv, JobInv
<1>2. last_pulled' \in Nat
  BY <1>1, SyncTypes DEF advance_last_pulled, Advanced
<1>3. UNCHANGED <<rows, superseded, account, dirty, stash, chain, payloads, runs>>
      /\ job' = Draining(job)
  BY DEF advance_last_pulled
<1>4. FileInv'
  BY <1>2, <1>3, CheckpointFile DEF SyncInv
<1>5. CommandInv'
  BY <1>3, EndedJob, SyncTypes
<1>6. QED
  BY <1>4, <1>5 DEF SyncInv

\* A stash of a head is kept; the others may go.
StashKept == \A x \in Heads \cap DOMAIN stash : x \in DOMAIN stash' /\ stash'[x] = stash[x]

\* Stashes are merges over stored revisions.
StashOk(s) == \A x \in DOMAIN s : x \in DOMAIN rows /\ s[x] \in Stashes /\ s[x].payload.seal = "merge"

\* Stashes come and go, but not those of heads.
LEMMA StashFile ==
  ASSUME FileInv, StashKept, StashOk(stash'), payloads' \in Nat, payloads <= payloads',
         runs' \in Nat, UNCHANGED <<rows, superseded, account, dirty, last_pulled, chain>>
  PROVE  FileInv' /\ Heads' = Heads
<1>1. Heads' = Heads
  BY DEF Heads
<1>2. payloads \in Nat /\ Len(chain) \in Nat
  BY DEF FileInv, StoreTypes
<1>3. Named \subseteq Named'
  BY <1>2 DEF Named
<1>4. StoreTypes' /\ StoredInv' /\ ParentsInv' /\ RowsInv'
  BY <1>3 DEF FileInv, StoreTypes, StoredInv, ParentsInv, RowsInv, StashOk
<1>5. MergeInv'
  BY <1>1 DEF FileInv, MergeInv, StashKept
<1>6. HeadIsQueued' /\ EditsExtendLeaf' /\ AnchorsTrue' /\ OneMergePerHead'
  BY <1>1 DEF FileInv, HeadIsQueued, EditsExtendLeaf, AnchorsTrue, OneMergePerHead
<1>7. QED
  BY <1>1, <1>4, <1>5, <1>6 DEF FileInv

\* What is taken from the stash, and what is left.
LEMMA RestrictStash ==
  ASSUME FileInv, NEW S, stash' = Restrict(stash, S), S \subseteq DOMAIN stash
  PROVE  StashOk(stash') /\ DOMAIN stash' = S /\ \A x \in S : stash'[x] = stash[x]
<1>1. DOMAIN stash' = S /\ \A x \in S : stash'[x] = stash[x]
  BY DEF Restrict
<1>2. QED
  BY <1>1 DEF FileInv, StoreTypes, StoredInv, StashOk

\* Pruning keeps the stashes of the heads.
LEMMA PrunedStash ==
  ASSUME FileInv, stash' = Pruned(stash)
  PROVE  /\ StashOk(stash') /\ StashKept
         /\ \A x \in Heads : /\ x \in DOMAIN stash' <=> x \in DOMAIN stash
                             /\ x \in DOMAIN stash => stash'[x] = stash[x]
<1>1. stash' = Restrict(stash, DOMAIN stash \cap Heads)
  BY DEF Pruned
<1>2. /\ StashOk(stash') /\ DOMAIN stash' = DOMAIN stash \cap Heads
      /\ \A x \in DOMAIN stash \cap Heads : stash'[x] = stash[x]
  BY <1>1, RestrictStash
<1>3. QED
  BY <1>2 DEF StashKept

\* A pull goes on to its next chunk.
LEMMA PullPruneStep ==
  ASSUME SyncInv, pull_prune
  PROVE  SyncInv'
<1>1. /\ job.pc = "prune" /\ stash' = Pruned(stash) /\ job' = Pulling(job, job.stop, job.upto)
      /\ UNCHANGED <<rows, superseded, account, dirty, last_pulled, chain, payloads, runs>>
  BY DEF pull_prune
<1>2. job \in Jobs /\ JobInv /\ PullInv /\ ResolveInv
  BY DEF SyncInv, CommandInv
<1>3. job.stop \in Nat /\ job.upto \in Nat
  BY <1>2 DEF Jobs
<1>4. /\ job.todo = {} /\ job.view \subseteq 1..Len(chain) /\ job.anchor = 0 /\ job.cmd \in {"pull", "resolve"}
  BY <1>1, <1>2 DEF JobInv
<1>5. /\ StashOk(stash') /\ StashKept
      /\ \A x \in Heads : /\ x \in DOMAIN stash' <=> x \in DOMAIN stash
                          /\ x \in DOMAIN stash => stash'[x] = stash[x]
  BY <1>1, PrunedStash DEF SyncInv
<1>6. FileInv' /\ Heads' = Heads
  BY <1>1, <1>5, StashFile, SyncTypes DEF SyncInv
<1>8. job.cmd = "resolve" =>
        /\ job.chosen \in DOMAIN rows'
        /\ job.chosen \in Heads' =>
             job.saved = IF job.chosen \in DOMAIN stash' THEN stash'[job.chosen] ELSE NoStash
  BY <1>1, <1>2, <1>5, <1>6 DEF ResolveInv
<1>9. CommandInv'
  BY <1>1, <1>2, <1>3, <1>4, <1>8, PulledJob, SyncTypes
<1>10. QED
  BY <1>6, <1>9 DEF SyncInv

\* The head is off the list of heads: its stash may go.
LEMMA ClearPendingStep ==
  ASSUME SyncInv, clear_pending_merge
  PROVE  SyncInv'
<1>1. /\ job.pc = "unstash" /\ stash' = Restrict(stash, DOMAIN stash \ {job.chosen})
      /\ UNCHANGED <<rows, superseded, account, dirty, last_pulled, chain, payloads, runs>>
  BY DEF clear_pending_merge
<1>2. job \in Jobs /\ JobInv /\ job.chosen \notin Heads
  BY <1>1 DEF SyncInv, CommandInv, ResolveInv
<1>3. /\ StashOk(stash') /\ DOMAIN stash' = DOMAIN stash \ {job.chosen}
      /\ \A x \in DOMAIN stash \ {job.chosen} : stash'[x] = stash[x]
  BY <1>1, RestrictStash DEF SyncInv
<1>4. StashKept
  BY <1>2, <1>3 DEF StashKept
<1>5. FileInv'
  BY <1>1, <1>3, <1>4, StashFile, SyncTypes DEF SyncInv
<1>6. CASE job' = Draining(job)
  BY <1>1, <1>5, <1>6, EndedJob, SyncTypes DEF SyncInv
<1>7. CASE job' = [job EXCEPT !.pc = "advance"]
  <2>1. "advance" \in Phases
    BY DEF Phases, Resolving
  <2>2. /\ job' \in Jobs /\ job'.pc = "advance" /\ job'.cmd = job.cmd /\ job'.todo = job.todo
        /\ job'.view = job.view /\ job'.anchor = job.anchor
    BY <1>2, <1>7, <2>1 DEF Jobs
  <2>3. job.todo = {} /\ job.cmd = "resolve"
    BY <1>1, <1>2 DEF JobInv, Resolving
  <2>4. CommandInv'
    BY <1>1, <1>2, <2>2, <2>3 DEF CommandInv, JobInv, MarkInv, PullInv, ResolveInv
  <2>5. QED
    BY <1>5, <2>4 DEF SyncInv
<1>8. QED
  BY <1>6, <1>7 DEF clear_pending_merge, Goto

\* The freeze is lifted at the merge: a head, with an anchor, over the head it keeps.
LEMMA ClearFrozenStep ==
  ASSUME SyncInv, clear_frozen
  PROVE  SyncInv'
<1>1. /\ job.pc = "unfreeze"
      /\ UNCHANGED <<rows, superseded, dirty, stash, last_pulled, chain, payloads, runs>>
  BY DEF clear_frozen
<1>2. /\ job \in Jobs /\ JobInv /\ job.merge[1] = "chain"
      /\ job.merge \in DOMAIN rows => rows[job.merge].parent = job.chosen
  BY <1>1 DEF SyncInv, CommandInv, ResolveInv
<1>3. CASE job' = Idle /\ account' = account
  BY <1>1, <1>3, FileSame, EndedJob, SyncTypes DEF SyncInv, storeVars
<1>4. CASE job.merge \in Heads /\ account' = [account EXCEPT !.frozen = FALSE, !.head = job.merge]
           /\ job' = [job EXCEPT !.pc = "unstash"]
  <2>1. job.merge \in DOMAIN rows /\ Heads' = Heads
    BY <1>1, <1>4 DEF Heads
  <2>2. rows[job.merge].anchor # 0
    <3>1. job.merge \in Named
      BY <2>1 DEF SyncInv, FileInv, StoredInv
    <3>2. PICK k \in 1..Len(chain) : job.merge = Chain(k)
      BY <1>2, <3>1, IdFacts DEF Named
    <3>3. QED
      BY <2>1, <3>2 DEF SyncInv, FileInv, RowsInv
  <2>3. /\ account' \in [head : Revs, frozen : BOOLEAN, tombstoned : BOOLEAN]
        /\ account'.head = job.merge
    <3>1. job.merge \in Revs
      BY <1>2 DEF Jobs
    <3>2. QED
      BY <1>4, <3>1 DEF SyncInv, FileInv, StoreTypes
  <2>4. StoreTypes' /\ StoredInv' /\ ParentsInv' /\ RowsInv'
    BY <1>1, <2>1, <2>3 DEF SyncInv, FileInv, StoreTypes, StoredInv, ParentsInv, RowsInv, Named
  <2>5. MergeInv' /\ AnchorsTrue' /\ OneMergePerHead'
    BY <1>1, <2>1 DEF SyncInv, FileInv, MergeInv, AnchorsTrue, OneMergePerHead
  <2>6. HeadIsQueued' /\ EditsExtendLeaf'
    BY <1>1, <1>4, <2>1, <2>2, <2>3 DEF HeadIsQueued, EditsExtendLeaf
  <2>7. "unstash" \in Phases
    BY DEF Phases, Resolving
  <2>8. /\ job' \in Jobs /\ job'.pc = "unstash" /\ job'.cmd = job.cmd /\ job'.todo = job.todo
        /\ job'.view = job.view /\ job'.anchor = job.anchor /\ job'.chosen = job.chosen
    BY <1>2, <1>4, <2>7 DEF Jobs
  <2>9. job.todo = {} /\ job.cmd = "resolve"
    BY <1>1, <1>2 DEF JobInv, Resolving
  <2>10. job.chosen \notin Heads
    BY <1>2, <2>1 DEF Heads
  <2>11. CommandInv'
    BY <1>1, <1>2, <2>1, <2>8, <2>9, <2>10
       DEF CommandInv, JobInv, MarkInv, PullInv, ResolveInv
  <2>12. QED
    BY <2>4, <2>5, <2>6, <2>11 DEF SyncInv, FileInv
<1>5. QED
  BY <1>3, <1>4 DEF clear_frozen, Stop, Goto

-----------------------------------------------------------------------------
(* resolve_one up to the publication of its merge.                         *)

\* The heads and the stash are read before the pull.
LEMMA ResolveStep ==
  ASSUME SyncInv, NEW keep \in DOMAIN rows, NEW upto \in Nat,
         resolve(keep, upto)
  PROVE  SyncInv'
<1>s. PICK s : s = IF keep \in DOMAIN stash THEN stash[keep] ELSE NoStash
  OBVIOUS
<1>j. PICK j : j = [Idle EXCEPT !.cmd = "resolve", !.key = runs + 1, !.chosen = keep, !.pre = Heads,
                                !.saved = s]
  OBVIOUS
<1>1. /\ keep \in Heads /\ runs' = runs + 1 /\ stash' = Pruned(stash)
      /\ job' = Pulling(j, last_pulled, upto)
      /\ UNCHANGED <<rows, superseded, account, dirty, last_pulled, chain, payloads>>
  BY <1>s, <1>j DEF resolve
<1>2. runs + 1 \in Nat
  BY SyncTypes
<1>3. DOMAIN rows \subseteq Revs
  BY NamedRevs, SyncTypes DEF SyncInv, FileInv, StoredInv
<1>4. keep \in Revs /\ Heads \subseteq Revs
  BY <1>3 DEF Heads
<1>5. s \in Stashes
  BY <1>s DEF SyncInv, FileInv, StoreTypes, NoStash, Stashes, Payload, Payloads
<1>6. j \in Jobs /\ j.cmd = "resolve" /\ j.chosen = keep /\ j.saved = s /\ j.todo = Idle.todo
      /\ j.view = Idle.view /\ j.anchor = Idle.anchor
  BY <1>j, <1>2, <1>4, <1>5, IdleType DEF Jobs
<1>7. j.todo = {} /\ j.view = {} /\ j.anchor = 0
  BY <1>6 DEF Idle
<1>8. /\ StashOk(stash') /\ StashKept
      /\ \A x \in Heads : /\ x \in DOMAIN stash' <=> x \in DOMAIN stash
                          /\ x \in DOMAIN stash => stash'[x] = stash[x]
  BY <1>1, PrunedStash DEF SyncInv
<1>9. FileInv' /\ Heads' = Heads
  BY <1>1, <1>2, <1>8, StashFile, SyncTypes DEF SyncInv
<1>11. /\ j.chosen \in DOMAIN rows'
       /\ j.saved = IF j.chosen \in DOMAIN stash' THEN stash'[j.chosen] ELSE NoStash
  BY <1>s, <1>1, <1>6, <1>8
<1>12. CommandInv'
  BY <1>1, <1>6, <1>7, <1>11, PulledJob, SyncTypes
<1>13. QED
  BY <1>9, <1>12 DEF SyncInv

\* A merge of an earlier run has its row: over the head that it keeps.
LEMMA LandedFacts ==
  ASSUME SyncInv, NEW r \in Landed
  PROVE  /\ r \in DOMAIN rows /\ r \in Revs /\ r[1] = "chain" /\ rows[r].parent = job.chosen
<1>1. r \in DOMAIN rows /\ r[1] = "chain" /\ chain[r[2]] = MergeEvent(job.saved)
  BY DEF Landed
<1>2. r \in Named
  BY <1>1 DEF SyncInv, FileInv, StoredInv
<1>3. PICK k \in 1..Len(chain) : r = Chain(k)
  BY <1>1, <1>2, IdFacts DEF Named
<1>4. chain[k].parent = job.chosen
  BY <1>1, <1>3, IdFacts DEF MergeEvent, Event
<1>5. rows[r].parent = chain[k].parent
  BY <1>1, <1>3 DEF SyncInv, FileInv, RowsInv
<1>6. r \in Revs
  BY <1>2, NamedRevs, SyncTypes
<1>7. QED
  BY <1>1, <1>4, <1>5, <1>6

\* What a resolution that has nothing left to decide holds.
LEMMA DecidedJob ==
  ASSUME job \in Jobs, JobInv, job.pc = "decide", chain' = chain, dirty' = dirty,
         job' \in Jobs, job'.pc \in {"unfreeze", "merge"}, job'.cmd = job.cmd,
         job'.todo = job.todo, job'.view = job.view, job'.anchor = job.anchor,
         ResolveInv'
  PROVE  CommandInv'
<1>1. job.todo = {} /\ job.cmd = "resolve" /\ job.view \subseteq 1..Len(chain)
      /\ job.anchor \in 0..Len(chain)
  BY DEF JobInv, Resolving
<1>2. JobInv' /\ MarkInv' /\ PullInv'
  BY <1>1 DEF JobInv, MarkInv, PullInv, Resolving
<1>3. QED
  BY <1>1, <1>2 DEF CommandInv

\* The merge is found, taken from the stash, or sealed and stashed before it is published.
LEMMA DecideStep ==
  ASSUME SyncInv, decide
  PROVE  SyncInv'
<1>1. job.pc = "decide" /\ UNCHANGED <<rows, superseded, account, dirty, last_pulled, chain, runs>>
  BY DEF decide
<1>2. job \in Jobs /\ JobInv /\ ResolveInv
  BY DEF SyncInv, CommandInv
<1>3. /\ job.cmd = "resolve" /\ job.anchor = 0 /\ job.chosen \in DOMAIN rows
      /\ job.chosen \in Heads =>
           job.saved = IF job.chosen \in DOMAIN stash THEN stash[job.chosen] ELSE NoStash
  BY <1>1, <1>2 DEF JobInv, ResolveInv, Resolving
<1>4. "unfreeze" \in Phases /\ "merge" \in Phases
  BY DEF Phases, Resolving
<1>5. CASE /\ Landed # {} /\ job' = [job EXCEPT !.pc = "unfreeze", !.merge = CHOOSE r \in Landed : TRUE]
           /\ UNCHANGED <<stash, payloads>>
  <2>r. PICK r : r = CHOOSE x \in Landed : TRUE
    OBVIOUS
  <2>1. r \in Landed
    BY <1>5, <2>r
  <2>2. job' = [job EXCEPT !.pc = "unfreeze", !.merge = r]
    BY <1>5, <2>r
  <2>3. /\ r \in DOMAIN rows /\ r \in Revs /\ r[1] = "chain" /\ rows[r].parent = job.chosen
    BY <2>1, LandedFacts
  <2>4. /\ job' \in Jobs /\ job'.pc = "unfreeze" /\ job'.cmd = job.cmd
        /\ job'.todo = job.todo /\ job'.view = job.view /\ job'.anchor = job.anchor
        /\ job'.merge = r /\ job'.chosen = job.chosen
    BY <1>2, <1>4, <2>2, <2>3 DEF Jobs
  <2>5. ResolveInv'
    BY <1>1, <1>3, <2>3, <2>4 DEF ResolveInv
  <2>6. CommandInv'
    BY <1>1, <1>2, <2>4, <2>5, DecidedJob
  <2>7. FileInv'
    BY <1>1, <1>5, FileSame, SyncTypes DEF SyncInv, storeVars
  <2>8. QED
    BY <2>6, <2>7 DEF SyncInv
<1>6. CASE /\ Heads \subseteq job.pre /\ job.chosen \in Heads /\ job.saved # NoStash
           /\ job' = [job EXCEPT !.pc = "merge"] /\ UNCHANGED <<stash, payloads>>
  <2>1. FileInv' /\ Heads' = Heads
    BY <1>1, <1>6, FileSame, SyncTypes DEF SyncInv, storeVars
  <2>2. /\ job' \in Jobs /\ job'.pc = "merge" /\ job'.cmd = job.cmd
        /\ job'.todo = job.todo /\ job'.view = job.view /\ job'.anchor = job.anchor
        /\ job'.saved = job.saved /\ job'.chosen = job.chosen /\ job'.pre = job.pre
    BY <1>2, <1>4, <1>6 DEF Jobs
  <2>3. job.chosen \in DOMAIN stash /\ stash[job.chosen] = job.saved
    BY <1>3, <1>6
  <2>4. ResolveInv'
    BY <1>1, <1>6, <2>1, <2>2, <2>3 DEF ResolveInv
  <2>5. CommandInv'
    BY <1>1, <1>2, <2>2, <2>4, DecidedJob
  <2>6. QED
    BY <2>1, <2>5 DEF SyncInv
<1>s. PICK s : s = [payload |-> Payload(payloads + 1, "merge", rows[job.chosen].is_tombstone),
                    key |-> job.key]
  OBVIOUS
<1>7. CASE /\ Heads \subseteq job.pre /\ job.chosen \in Heads /\ job.saved = NoStash
           /\ stash' = [x \in DOMAIN stash \cup {job.chosen} |-> IF x = job.chosen THEN s ELSE stash[x]]
           /\ job' = [job EXCEPT !.pc = "merge", !.saved = s] /\ payloads' = payloads + 1
  <2>1. job.chosen \notin DOMAIN stash
    <3>1. ASSUME job.chosen \in DOMAIN stash
          PROVE  FALSE
      <4>1. stash[job.chosen].payload.seal = "merge" /\ stash[job.chosen] = NoStash
        BY <1>3, <1>7, <3>1 DEF SyncInv, FileInv, StoreTypes
      <4>2. QED
        BY <4>1 DEF NoStash, Payload
    <3>2. QED
      BY <3>1
  <2>2. rows[job.chosen].is_tombstone \in BOOLEAN /\ payloads + 1 \in Nat /\ job.key \in Nat
    <3>1. rows[job.chosen] \in Rows
      BY <1>3 DEF SyncInv, FileInv, StoreTypes
    <3>2. QED
      BY <1>2, <3>1, SyncTypes DEF Rows, Jobs
  <2>3. s \in Stashes /\ s.payload.seal = "merge"
    BY <1>s, <2>2 DEF Stashes, Payloads, Payload
  <2>4. /\ DOMAIN stash' = DOMAIN stash \cup {job.chosen} /\ stash'[job.chosen] = s
        /\ \A x \in DOMAIN stash : stash'[x] = stash[x]
    BY <1>7, <2>1
  <2>5. StashKept
    BY <2>4 DEF StashKept
  <2>6. StashOk(stash')
    <3>1. \A x \in DOMAIN stash : x \in DOMAIN rows /\ stash[x] \in Stashes
                                  /\ stash[x].payload.seal = "merge"
      BY DEF SyncInv, FileInv, StoreTypes, StoredInv
    <3>2. QED
      BY <1>3, <2>3, <2>4, <3>1 DEF StashOk
  <2>7. FileInv' /\ Heads' = Heads
    BY <1>1, <1>7, <2>5, <2>6, StashFile, SyncTypes DEF SyncInv
  <2>8. /\ job' \in Jobs /\ job'.pc = "merge" /\ job'.cmd = job.cmd
        /\ job'.todo = job.todo /\ job'.view = job.view /\ job'.anchor = job.anchor
        /\ job'.saved = s /\ job'.chosen = job.chosen /\ job'.pre = job.pre
    BY <1>2, <1>4, <1>7, <2>3 DEF Jobs
  <2>9. ResolveInv'
    BY <1>7, <2>4, <2>7, <2>8 DEF ResolveInv
  <2>10. CommandInv'
    BY <1>1, <1>2, <2>8, <2>9, DecidedJob
  <2>11. QED
    BY <2>7, <2>10 DEF SyncInv
<1>8. CASE job' = Idle /\ UNCHANGED <<stash, payloads>>
  BY <1>1, <1>8, FileSame, EndedJob, SyncTypes DEF SyncInv, storeVars
<1>9. QED
  BY <1>s, <1>5, <1>6, <1>7, <1>8 DEF decide, Unmoved, Saved, Goto, Stop

-----------------------------------------------------------------------------
(* Edits.                                                                  *)

\* A new local revision, over a stored one: nobody's parent, and the head.
LEMMA NewRowFile ==
  ASSUME FileInv, NEW id, id = Local(payloads + 1), NEW row \in Rows,
         row.parent \in DOMAIN rows, row.payload.seal = "edit", row.anchor = 0,
         rows' = With(id, row), payloads' = payloads + 1, dirty' = dirty \cup {id},
         account' \in [head : Revs, frozen : BOOLEAN, tombstoned : BOOLEAN], account'.head = id,
         superseded \subseteq superseded', superseded' \subseteq DOMAIN rows,
         StashOk(stash'), MergeInv', UNCHANGED <<last_pulled, chain, runs>>
  PROVE  FileInv'
<1>1. payloads \in Nat /\ chain \in Seq(Events) /\ Len(chain) \in Nat
  BY DEF FileInv, StoreTypes
<1>2. DOMAIN rows' = DOMAIN rows \cup {id} /\ rows'[id] = row /\ \A q \in DOMAIN rows : rows'[q] = rows[q]
  <2>1. id \notin DOMAIN rows
    BY <1>1, IdFacts DEF FileInv, StoredInv, Named
  <2>2. QED
    BY <2>1 DEF With
<1>3. id \notin Named \cup {Genesis}
  BY <1>1, IdFacts DEF Named
<1>4. Named \subseteq Named' /\ id \in Named'
  BY <1>1 DEF Named
<1>5. \A q \in DOMAIN rows' : \/ q \in DOMAIN rows /\ rows'[q] = rows[q]
                              \/ q = id /\ rows'[q] = row
  BY <1>2
<1>6. row.parent \in Named
  BY DEF FileInv, StoredInv
<1>7. StoreTypes'
  BY <1>1, <1>2, <1>5 DEF FileInv, StoreTypes, StashOk
<1>8. StoredInv'
  BY <1>2, <1>4 DEF FileInv, StoredInv, StashOk
<1>9. ParentsInv'
  BY <1>4, <1>5, <1>6 DEF FileInv, ParentsInv
<1>10. RowsInv'
  <2>1. id[1] = "local" /\ \A i \in 1..Len(chain) : Chain(i) # id
    BY IdFacts
  <2>2. \A q \in DOMAIN rows' : rows'[q].anchor \in 0..Len(chain)
    BY <1>1, <1>5 DEF FileInv, RowsInv
  <2>3. QED
    BY <1>2, <1>5, <2>1, <2>2 DEF FileInv, RowsInv
<1>11. HeadIsQueued'
  BY DEF HeadIsQueued
<1>12. EditsExtendLeaf'
  <2>1. \A q \in DOMAIN rows' : rows'[q].parent # id
    BY <1>3, <1>5, <1>6 DEF FileInv, ParentsInv
  <2>2. id \notin superseded'
    BY <1>3 DEF FileInv, StoredInv
  <2>3. id \in Heads'
    BY <1>2, <2>1, <2>2 DEF Heads
  <2>4. QED
    BY <2>3 DEF EditsExtendLeaf
<1>13. AnchorsTrue' /\ OneMergePerHead'
  BY <1>5 DEF FileInv, AnchorsTrue, OneMergePerHead
<1>14. QED
  BY <1>7, <1>8, <1>9, <1>10, <1>11, <1>12, <1>13 DEF FileInv

\* The row of an edit.
LEMMA EditRow ==
  ASSUME SyncInv, NEW parent \in DOMAIN rows, NEW tomb \in BOOLEAN,
         NEW row, row = Row(parent, Payload(payloads + 1, "edit", tomb), VaultDevice, 0, tomb)
  PROVE  /\ row \in Rows /\ row.parent = parent /\ row.payload.seal = "edit" /\ row.anchor = 0
         /\ Local(payloads + 1) \in Revs /\ Local(payloads + 1) \notin DOMAIN rows
<1>1. payloads \in Nat /\ payloads + 1 \in Nat
  BY SyncTypes
<1>2. parent \in Revs
  BY NamedRevs, SyncTypes DEF SyncInv, FileInv, StoredInv
<1>3. row \in Rows /\ row.parent = parent /\ row.payload.seal = "edit" /\ row.anchor = 0
  BY <1>1, <1>2 DEF Row, Rows, Payload, Payloads, VaultDevice
<1>4. Local(payloads + 1) \in Revs
  BY <1>1 DEF Revs
<1>5. Local(payloads + 1) \notin DOMAIN rows
  BY <1>1, IdFacts DEF SyncInv, FileInv, StoredInv, Named
<1>6. QED
  BY <1>3, <1>4, <1>5

\* The command is still none.
LEMMA StillIdle ==
  ASSUME SyncInv, job = Idle, job' = job, chain' = chain
  PROVE  CommandInv'
  BY EndedJob, SyncTypes

\* update_account and delete_account put a leaf on the head.
LEMMA WriteStep ==
  ASSUME SyncInv, NEW tomb \in BOOLEAN, write_revision(tomb)
  PROVE  SyncInv'
<1>id. PICK id : id = Local(payloads + 1)
  OBVIOUS
<1>row. PICK row : row = Row(account.head, Payload(payloads + 1, "edit", tomb), VaultDevice, 0, tomb)
  OBVIOUS
<1>1. /\ job = Idle /\ rows' = With(id, row) /\ dirty' = dirty \cup {id} /\ payloads' = payloads + 1
      /\ account' = [account EXCEPT !.head = id, !.tombstoned = tomb]
      /\ UNCHANGED <<superseded, stash, last_pulled, chain, job, runs>>
  BY <1>id, <1>row DEF write_revision
<1>2. account.head \in DOMAIN rows
  BY DEF SyncInv, FileInv, StoredInv
<1>3. /\ row \in Rows /\ row.parent = account.head /\ row.payload.seal = "edit" /\ row.anchor = 0
      /\ id \in Revs /\ id \notin DOMAIN rows
  BY <1>id, <1>row, <1>2, EditRow
<1>4. /\ account' \in [head : Revs, frozen : BOOLEAN, tombstoned : BOOLEAN]
      /\ account'.head = id
  BY <1>1, <1>3 DEF SyncInv, FileInv, StoreTypes
<1>5. StashOk(stash')
  BY <1>1 DEF SyncInv, FileInv, StoreTypes, StoredInv, StashOk
<1>6. MergeInv'
  <2>1. DOMAIN rows \subseteq DOMAIN rows' /\ \A q \in DOMAIN rows : rows'[q] = rows[q]
    BY <1>1, <1>3 DEF With
  <2>2. \A r \in DOMAIN rows : r \in Heads' => r \in Heads
    BY <1>1, <2>1, HeadsShrink
  <2>3. QED
    BY <1>1, <2>1, <2>2 DEF SyncInv, FileInv, MergeInv
<1>7. superseded \subseteq superseded' /\ superseded' \subseteq DOMAIN rows
  BY <1>1 DEF SyncInv, FileInv, StoredInv
<1>8. FileInv'
  BY <1>id, <1>1, <1>2, <1>3, <1>4, <1>5, <1>6, <1>7, NewRowFile DEF SyncInv
<1>9. QED
  BY <1>1, <1>8, StillIdle DEF SyncInv

\* resolve_fork leaves one head: every other is superseded, and the kept one has a child.
LEMMA ForkStep ==
  ASSUME SyncInv, NEW keep \in DOMAIN rows, resolve_fork(keep)
  PROVE  SyncInv'
<1>id. PICK id : id = Local(payloads + 1)
  OBVIOUS
<1>t. PICK tomb : tomb = rows[keep].is_tombstone
  OBVIOUS
<1>row. PICK row : row = Row(keep, Payload(payloads + 1, "edit", tomb), VaultDevice, 0, tomb)
  OBVIOUS
<1>1. /\ job = Idle /\ rows' = With(id, row) /\ dirty' = dirty \cup {id} /\ payloads' = payloads + 1
      /\ superseded' = superseded \cup (Heads \ {keep})
      /\ account' = [head |-> id, frozen |-> FALSE, tombstoned |-> tomb]
      /\ stash' = Restrict(stash, {})
      /\ UNCHANGED <<last_pulled, chain, job, runs>>
  BY <1>id, <1>t, <1>row DEF resolve_fork
<1>2. tomb \in BOOLEAN
  <2>1. rows[keep] \in Rows
    BY DEF SyncInv, FileInv, StoreTypes
  <2>2. QED
    BY <1>t, <2>1 DEF Rows
<1>3. /\ row \in Rows /\ row.parent = keep /\ row.payload.seal = "edit" /\ row.anchor = 0
      /\ id \in Revs /\ id \notin DOMAIN rows
  BY <1>id, <1>row, <1>2, EditRow
<1>4. /\ account' \in [head : Revs, frozen : BOOLEAN, tombstoned : BOOLEAN]
      /\ account'.head = id
  BY <1>1, <1>2, <1>3
<1>5. StashOk(stash')
  <2>1. DOMAIN stash' = {}
    BY <1>1 DEF Restrict
  <2>2. QED
    BY <2>1 DEF StashOk
<1>6. MergeInv'
  <2>1. /\ DOMAIN rows \subseteq DOMAIN rows' /\ id \in DOMAIN rows' /\ rows'[id] = row
        /\ \A q \in DOMAIN rows : rows'[q] = rows[q]
    BY <1>1, <1>3 DEF With
  <2>2. \A r \in DOMAIN rows : r \in Heads' => r \in Heads
    BY <1>1, <2>1, HeadsShrink
  <2>3. keep \notin Heads'
    BY <1>3, <2>1 DEF Heads
  <2>4. \A r \in Heads \ {keep} : r \notin Heads'
    BY <1>1 DEF Heads
  <2>5. \A r \in DOMAIN rows : r \notin Heads'
    BY <2>2, <2>3, <2>4
  <2>6. QED
    BY <1>1, <2>1, <2>5 DEF SyncInv, FileInv, MergeInv
<1>7. superseded \subseteq superseded' /\ superseded' \subseteq DOMAIN rows
  BY <1>1 DEF SyncInv, FileInv, StoredInv, Heads
<1>8. FileInv'
  BY <1>id, <1>1, <1>3, <1>4, <1>5, <1>6, <1>7, NewRowFile DEF SyncInv
<1>9. QED
  BY <1>1, <1>8, StillIdle DEF SyncInv

-----------------------------------------------------------------------------
(* The theorems.                                                           *)

\* Every step keeps the invariant.
LEMMA NextInv == SyncInv /\ [Next]_vars => SyncInv'
<1> SUFFICES ASSUME SyncInv, [Next]_vars PROVE SyncInv'
  OBVIOUS
<1>1. CASE UNCHANGED vars
  <2>1. FileInv' /\ Heads' = Heads
    BY <1>1, FileSame, SyncTypes DEF vars, SyncInv
  <2>2. CommandInv'
    BY <1>1, <2>1 DEF vars, storeVars, SyncInv, CommandInv, JobInv, MarkInv, PullInv, ResolveInv,
       CoveredAt, Canonical, Signed
  <2>3. QED
    BY <2>1, <2>2 DEF SyncInv
<1>2. CASE update_account \/ delete_account
  BY <1>2, WriteStep DEF update_account, delete_account
<1>3. CASE \E keep \in DOMAIN rows : resolve_fork(keep)
  BY <1>3, ForkStep
<1>4. CASE publish \/ flush
  BY <1>4, StartStep
<1>5. CASE coalesce \/ list \/ publish_one \/ mark_published \/ clear_dirty \/ published
  BY <1>5, CoalesceStep, ListStep, PublishOneStep, MarkStep, ClearDirtyStep, PublishedStep
<1>6. CASE \E from, upto \in 0..MaxEvents : pull(from, upto)
  <2>1. 0..MaxEvents \subseteq Nat
    BY SyncAssumption
  <2>2. QED
    BY <1>6, <2>1, PullStep
<1>7. CASE pull_ingest \/ pull_advance \/ pull_prune
  BY <1>7, PullIngestStep, PullAdvanceStep, PullPruneStep
<1>8. CASE \E keep \in DOMAIN rows, upto \in 0..Len(chain) : resolve(keep, upto)
  <2>1. 0..Len(chain) \subseteq Nat
    BY SyncTypes
  <2>2. QED
    BY <1>8, <2>1, ResolveStep
<1>9. CASE decide \/ publish_merge \/ ingest_merge
  BY <1>9, DecideStep, PublishMergeStep, IngestMergeStep
<1>10. CASE clear_frozen \/ clear_pending_merge \/ advance_last_pulled \/ Kill
  BY <1>10, ClearFrozenStep, ClearPendingStep, AdvanceStep, KillStep
<1>11. CASE \E parent \in Shown : ForeignPublish(parent)
  BY <1>11, ForeignStep
<1>12. QED
  BY <1>1, <1>2, <1>3, <1>4, <1>5, <1>6, <1>7, <1>8, <1>9, <1>10, <1>11 DEF Next

\* Whatever is edited, published, pulled, resolved or killed, in any order, the
\* file, the chain and the command agree as the invariant says.
THEOREM SyncSafe == Spec => []SyncInv
  BY InitInv, NextInv, PTL DEF Spec

\* Every id that a pointer, a marker, a stash or a command holds names a stored
\* revision.
THEOREM TypeCorrect == Spec => []TypeOK
<1>1. SyncInv => TypeOK
  <2> SUFFICES ASSUME SyncInv PROVE TypeOK
    OBVIOUS
  <2>1. last_pulled \in Nat
    BY SyncTypes
  <2>2. QED
    BY <2>1 DEF TypeOK, SyncInv, FileInv, StoredInv, CommandInv, Named
<1>2. QED
  BY <1>1, SyncSafe, PTL

\* An edit is not lost on its way to the chain: an unpublished head has its marker.
THEOREM NoEditLost == Spec => []HeadIsQueued
<1>1. SyncInv => HeadIsQueued
  BY DEF SyncInv, FileInv
<1>2. QED
  BY <1>1, SyncSafe, PTL

\* An account that is not frozen is edited at a leaf.
THEOREM EditsAtLeaf == Spec => []EditsExtendLeaf
<1>1. SyncInv => EditsExtendLeaf
  BY DEF SyncInv, FileInv
<1>2. QED
  BY <1>1, SyncSafe, PTL

\* Whoever set it, an anchor points at the event of its revision.
THEOREM AnchorsHold == Spec => []AnchorsTrue
<1>1. SyncInv => AnchorsTrue
  BY DEF SyncInv, FileInv
<1>2. QED
  BY <1>1, SyncSafe, PTL

\* However often resolve_one is killed and run again, a head gets one merge.
THEOREM OneMerge == Spec => []OneMergePerHead
<1>1. SyncInv => OneMergePerHead
  BY DEF SyncInv, FileInv
<1>2. QED
  BY <1>1, SyncSafe, PTL

\* A pull that starts at or below the checkpoint and fetches all it asks for leaves
\* no event behind the checkpoint without its row.
THEOREM PullLeavesNoGap == Spec => PullKeepsCovered
<1>1. SyncInv /\ [Next]_vars => 
        [job.pc \in {"ingest", "prune"} /\ Covered /\ job.start <= last_pulled
         /\ job.fetched = job.stop => Covered']_vars
  <2> SUFFICES ASSUME SyncInv, Next, job.pc \in {"ingest", "prune"}, Covered,
                      job.start <= last_pulled, job.fetched = job.stop
               PROVE  Covered'
    OBVIOUS
  <2>i. job # Idle
    BY DEF Idle
  <2>c. last_pulled <= Len(chain)
    BY DEF Covered
  <2>0. \A k \in 1..last_pulled : k \in 1..Len(chain) /\ CoveredAt(k)
    BY SyncTypes DEF Covered, CoveredAt
  <2>1. CASE UNCHANGED <<rows, last_pulled, chain>>
    BY <2>1 DEF Covered, Canonical
  <2>2. CASE pull_ingest
    <3>1. UNCHANGED <<last_pulled, chain>>
      BY <2>2 DEF pull_ingest
    <3>2. \A k \in 1..last_pulled : CoveredAt(k)'
      BY <2>0, <2>2, PullIngestStep
    <3>3. QED
      BY <2>c, <3>1, <3>2 DEF Covered, CoveredAt
  <2>3. CASE pull_advance
    <3>1. UNCHANGED <<rows, chain>> /\ job.pc = "ingest" /\ job.at >= job.fetched
      BY <2>3 DEF pull_advance
    <3>2. last_pulled' = last_pulled \/ last_pulled' = job.fetched
      BY <2>3, <3>1 DEF pull_advance, Advanced
    <3>3. \A k \in (last_pulled + 1)..job.at : k <= job.fetched => CoveredAt(k)
      BY <3>1 DEF SyncInv, CommandInv, PullInv
    <3>4. job.at \in Nat /\ job.fetched \in Nat /\ job.fetched <= Len(chain)
      BY <3>1, SyncTypes DEF Jobs, SyncInv, CommandInv, JobInv
    <3>5. \A k \in 1..last_pulled' : CoveredAt(k)
      BY <2>0, <3>1, <3>2, <3>3, <3>4, SyncTypes
    <3>6. \A k \in 1..last_pulled' : CoveredAt(k)'
      BY <3>1, <3>5 DEF CoveredAt, Canonical
    <3>7. QED
      BY <2>c, <3>1, <3>2, <3>4, <3>6 DEF Covered, CoveredAt
  <2>4. ASSUME NEW parent \in Shown, ForeignPublish(parent)
        PROVE  Covered'
    <3>1. PICK x : chain' = Append(chain, x)
      BY <2>4 DEF ForeignPublish
    <3>2. SyncInv'
      BY <2>4, ForeignStep
    <3>3. chain \in Seq(Events) /\ chain' \in Seq(Events)
      BY <3>2, SyncTypes DEF SyncInv, FileInv, StoreTypes
    <3>4. x \in Events
      BY <3>1, <3>3
    <3>5. rows' = rows /\ last_pulled' = last_pulled
      BY <2>4 DEF ForeignPublish, storeVars
    <3>6. \A k \in 1..last_pulled : CoveredAt(k)'
      BY <2>0, <3>1, <3>3, <3>4, <3>5, CoveredStays
    <3>7. last_pulled' <= Len(chain')
      BY <2>c, <3>1, <3>3, <3>4, <3>5, SyncTypes
    <3>8. QED
      BY <3>5, <3>6, <3>7 DEF Covered, CoveredAt
  <2>5. QED
    BY <2>i, <2>1, <2>2, <2>3, <2>4
       DEF Next, update_account, delete_account, write_revision, resolve_fork, publish, flush, Start,
           coalesce, list, publish_one, mark_published, clear_dirty, published, pull, pull_prune,
           resolve, decide, publish_merge, ingest_merge, clear_frozen, clear_pending_merge,
           advance_last_pulled, Kill, storeVars
<1>2. QED
  BY <1>1, SyncSafe, PTL DEF Spec, PullKeepsCovered

\* A resolution that publishes its merge lifts the freeze over heads the user
\* saw, or its own merge.
THEOREM FreezeLifted == Spec => FreezeLiftedKnowingly
<1>1. SyncInv /\ [Next]_vars =>
        [account.frozen /\ ~account'.frozen /\ job.cmd = "resolve" /\ job.anchor # 0
           => Heads \subseteq job.pre \cup {job.merge}]_vars
  <2> SUFFICES ASSUME SyncInv, Next, account.frozen, ~account'.frozen, job.cmd = "resolve",
                      job.anchor # 0
               PROVE  Heads \subseteq job.pre \cup {job.merge}
    OBVIOUS
  <2>i. job # Idle
    BY DEF Idle
  <2>1. CASE account' = account
    BY <2>1
  <2>2. CASE clear_frozen
    BY <2>2 DEF clear_frozen, SyncInv, CommandInv, ResolveInv
  <2>3. CASE pull_ingest
    BY <2>3 DEF pull_ingest, SyncInv, CommandInv, JobInv
  <2>4. CASE ingest_merge
    <3>1. ResolveInv /\ job.pc = "ingest_merge"
      BY <2>4 DEF ingest_merge, SyncInv, CommandInv
    <3>2. QED
      BY <3>1 DEF ResolveInv
  <2>5. QED
    BY <2>i, <2>1, <2>2, <2>3, <2>4
       DEF Next, update_account, delete_account, write_revision, resolve_fork, publish, flush, Start,
           coalesce, list, publish_one, mark_published, clear_dirty, published, pull, pull_advance,
           pull_prune, resolve, decide, publish_merge, clear_pending_merge,
           advance_last_pulled, Kill, ForeignPublish, storeVars
<1>2. QED
  BY <1>1, SyncSafe, PTL DEF Spec, FreezeLiftedKnowingly

=============================================================================

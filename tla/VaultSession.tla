----------------------------- MODULE VaultSession -----------------------------
(***************************************************************************)
(* The session of one vault handle: unlocking, the idle deadline and the   *)
(* absolute ceiling, single-use presence proofs and their freshness        *)
(* window, and the operations they guard: reveals and exports, account     *)
(* edits with the decrypted cache, the idle setting, and the registration  *)
(* of a capture authority.                                                 *)
(*                                                                         *)
(* Every operation runs under the handle's mutex, so each is one step.     *)
(* Expiry is lazy: time passes, and the next operation notices.  One       *)
(* account, one capture context; a revision is a number, given in the      *)
(* order of arrival, which also stands for its content (ids are random, so *)
(* the largest id among the leaves is that of any).  The clock does not go *)
(* back.                                                                   *)
(***************************************************************************)
EXTENDS Integers, FiniteSets, FiniteSetsExt

CONSTANTS
  Proofs,              \* presence proof objects
  Components,          \* components that may be the capture authority
  PRESENCE_FRESHNESS,
  ABSOLUTE_MAX,
  Windows,             \* the finite idle windows of SessionDuration
  DEFAULT,             \* the window of a vault that never chose one
  UntilLock,           \* SessionDuration::UntilDeviceLock, above every window
  MaxClock,            \* bound: time
  MaxRev               \* bound: revisions

ASSUME VaultSessionAssumption ==
  /\ PRESENCE_FRESHNESS \in Nat /\ ABSOLUTE_MAX \in Nat /\ MaxClock \in Nat /\ MaxRev \in Nat
  /\ Windows \subseteq Nat /\ DEFAULT \in Windows
  /\ UntilLock \in Nat /\ \A w \in Windows : w < UntilLock

VARIABLES
  clock,
  session,   \* [kind, expires, started]: Vault::session_state
  keys,      \* whether Vault::active is set
  presence,  \* active.last_presence_at
  cache,     \* the cached revision of the account, or None
  idle,      \* Vault::session_idle
  metaIdle,  \* meta.session_idle_secs, or None
  proofs,    \* proof -> [made, consumed]
  account,   \* [state, head, frozen, leaves]: head pointer, freeze flag, account_heads
  revs,      \* revisions so far
  own,       \* the revisions sealed here; ingested ones have a placeholder nonce
  capture,   \* the registered component, or None
  gesture,   \* history: when the proof was made that the session last verified
  opened,    \* history: when the session was unlocked
  lapsed,    \* history: the deadline has passed since then
  revived,   \* history: a shortened idle setting renewed a lapsed session
  replaced,  \* history: revisions that a write which reported success has replaced
  unsynced,  \* history: a merge could not read its row back into the cache
  last       \* history: the presence-guarded operation of the last step, or NoOp

None == -1
Durations == Windows \cup {UntilLock}

vars == <<clock, session, keys, presence, cache, idle, metaIdle, proofs, account, revs,
          own, capture, gesture, opened, lapsed, revived, replaced, unsynced, last>>
settings == <<idle, metaIdle>>
rows == <<account, revs, own>>
data == <<rows, capture>>
writes == <<replaced, unsynced>>
course == <<gesture, opened, lapsed, revived>>
history == <<course, writes>>

Locked == [kind |-> "locked", expires |-> None, started |-> None]
Expired == [Locked EXCEPT !.kind = "expired"]
NoOp == [op |-> "none", age |-> 0, span |-> 0, lapsed |-> FALSE, rev |-> None]

\* The step is not a presence-guarded operation.
Quiet == last' = NoOp

Init ==
  /\ clock = 0 /\ session = Locked /\ keys = FALSE /\ presence = None /\ cache = None
  /\ metaIdle = None /\ idle = DEFAULT
  /\ proofs = [p \in Proofs |-> [made |-> None, consumed |-> FALSE]]
  /\ account = [state |-> "absent", head |-> None, frozen |-> FALSE, leaves |-> {}]
  /\ revs = 0 /\ own = {} /\ capture = None
  /\ gesture = None /\ opened = None /\ lapsed = FALSE /\ revived = FALSE /\ last = NoOp
  /\ replaced = {} /\ unsynced = FALSE

(***************************************************************************)
(* Time and proofs.                                                        *)
(***************************************************************************)

tick ==
  /\ clock < MaxClock
  /\ clock' = clock + 1
  /\ lapsed' = (lapsed \/ (session.kind = "active" /\ clock' > session.expires))
  /\ UNCHANGED <<session, keys, presence, cache, settings, proofs, data, gesture,
                 opened, revived, writes>>
  /\ Quiet

\* PressYPresenceProof::confirmed, when the user presses the key.
confirmed(p) ==
  /\ proofs' = [proofs EXCEPT ![p] = [made |-> clock, consumed |-> FALSE]]
  /\ UNCHANGED <<clock, session, keys, presence, cache, settings, data, history>>
  /\ Quiet

\* Mutant: the age is not checked.
VerifiesUnaged(p) == proofs[p].made # None /\ ~proofs[p].consumed

\* PressYPresenceProof::verify succeeds.
Verifies(p) ==
  /\ proofs[p].made # None /\ ~proofs[p].consumed
  /\ clock - proofs[p].made <= PRESENCE_FRESHNESS

Consumed(p) == [proofs EXCEPT ![p].consumed = TRUE]

(***************************************************************************)
(* The session.                                                            *)
(***************************************************************************)

\* Mutant: every use renews the ceiling.
DeadlineRolling(now, started, window) ==
  IF window = UntilLock THEN now + ABSOLUTE_MAX ELSE now + window

\* next_idle_deadline
Deadline(now, started, window) ==
  IF window = UntilLock THEN started + ABSOLUTE_MAX
  ELSE Min({now + window, started + ABSOLUTE_MAX})

Overdue == session.kind = "active" /\ clock > session.expires

\* Mutant: the deadline is not looked at.
UsableLate == session.kind = "active" /\ keys

\* check_session_freshness, then require_active
Usable == session.kind = "active" /\ ~Overdue /\ keys

Touched == [session EXCEPT !.expires = Deadline(clock, session.started, idle)]

\* Keys and cache are dropped with the session.
Ends(state) ==
  /\ session' = state /\ keys' = FALSE /\ presence' = None /\ cache' = None
  /\ gesture' = None /\ opened' = None /\ lapsed' = FALSE /\ revived' = FALSE

Ended(state) ==
  /\ Ends(state)
  /\ UNCHANGED <<clock, settings, proofs, data, writes>>
  /\ Quiet

\* What check_session_freshness and maybe_expire_active_session leave of an
\* overdue session; every guarded operation does this before anything else.
expire == Overdue /\ Ended(Expired)

\* hydrate_account_into_state: of a forked account the elected leaf, or the
\* head pointer where that leaf cannot be decrypted.
Hydrated(elected) ==
  LET canonical == IF Cardinality(account.leaves) > 1 THEN elected ELSE account.head
      rev == IF canonical \in own THEN canonical ELSE account.head
  IN IF account.state = "live" /\ rev \in own THEN rev ELSE None

\* From any state: a second unlock starts a new session.
unlock(p) ==
  /\ Verifies(p)
  /\ proofs' = Consumed(p)
  /\ session' = [kind |-> "active", expires |-> Deadline(clock, clock, idle), started |-> clock]
  /\ keys' = TRUE /\ presence' = clock
  /\ \/ account.leaves = {} /\ cache' = None
     \/ \E elected \in account.leaves : cache' = Hydrated(elected)
  /\ gesture' = proofs[p].made /\ opened' = clock /\ lapsed' = FALSE /\ revived' = FALSE
  /\ unsynced' = FALSE
  /\ UNCHANGED <<clock, settings, data, replaced>>
  /\ Quiet

\* A wrong password: the proof is spent, the session is as before.
unlock_refused(p) ==
  /\ Verifies(p)
  /\ proofs' = Consumed(p)
  /\ UNCHANGED <<clock, session, keys, presence, cache, settings, data, history>>
  /\ Quiet

\* Vault::lock, and a committed rotation, recovery or join.
lock == session # Locked /\ Ended(Locked)

device_locked == session.kind = "active" /\ Ended(Expired)

\* commit_vdk_rotation_from_active takes the keys before a commit that fails.
rotation_failed ==
  /\ keys
  /\ keys' = FALSE /\ presence' = None /\ cache' = None
  /\ UNCHANGED <<clock, session, settings, proofs, data, history>>
  /\ Quiet

\* SessionDuration::from_meta_secs
FromMeta(raw) == IF raw = None THEN DEFAULT ELSE raw

\* The process ends; Vault::open reads the setting back.
reopen ==
  /\ Ends(Locked)
  /\ idle' = FromMeta(metaIdle)
  /\ UNCHANGED <<clock, metaIdle, proofs, data, writes>>
  /\ Quiet

(***************************************************************************)
(* Presence-guarded operations.                                            *)
(***************************************************************************)

Recent == presence # None /\ clock - presence <= PRESENCE_FRESHNESS

\* ensure_presence_fresh: a recent verification suffices, the proof is then kept.
EnsurePresence(p) ==
  \/ /\ Recent
     /\ UNCHANGED <<presence, proofs, gesture>>
  \/ /\ ~Recent /\ Verifies(p)
     /\ proofs' = Consumed(p) /\ presence' = clock
     /\ gesture' = proofs[p].made

\* For reading, after the gesture of this step.
Records(op, rev) ==
  last' = [op |-> op, age |-> clock - gesture', span |-> clock - opened,
           lapsed |-> lapsed /\ ~revived, rev |-> rev]

\* refuse_if_frozen
Readable == account.state = "live" /\ ~account.frozen

\* reveal_secret_field serves the cached snapshot.
reveal_secret_field(p) ==
  /\ Usable /\ ~account.frozen /\ cache # None
  /\ EnsurePresence(p)
  /\ Records("reveal", cache)
  /\ session' = Touched
  /\ UNCHANGED <<clock, keys, cache, settings, data, opened, lapsed, revived, writes>>

\* reveal_password_history, export_payload: the head on disk, which export_payload
\* copies as it is, also one that cannot be decrypted here.
reveal_from_disk(p) ==
  /\ Usable /\ Readable
  /\ EnsurePresence(p)
  /\ Records("reveal", account.head)
  /\ session' = Touched
  /\ UNCHANGED <<clock, keys, cache, settings, data, opened, lapsed, revived, writes>>

\* export_encrypted, export_plaintext: every account, frozen or not.
export_archive(p) ==
  /\ Usable
  /\ EnsurePresence(p)
  /\ Records("export", None)
  /\ session' = Touched
  /\ UNCHANGED <<clock, keys, cache, settings, data, opened, lapsed, revived, writes>>

\* The operation fails after the presence check: no such account, or an
\* unconfirmed plaintext export.  The verification is kept, the deadline is not moved.
guarded_op_fails(p) ==
  /\ Usable
  /\ EnsurePresence(p)
  /\ UNCHANGED <<clock, session, keys, cache, settings, data, opened, lapsed, revived, writes>>
  /\ Quiet

touch_session_explicit(p) ==
  /\ Usable
  /\ EnsurePresence(p)
  /\ Records("extend", None)
  /\ session' = Touched
  /\ UNCHANGED <<clock, keys, cache, settings, data, opened, lapsed, revived, writes>>

\* The setting is written, and an active session's deadline is counted from now.
SetIdle(window) ==
  /\ idle' = window /\ metaIdle' = window
  /\ session' = IF session.kind = "active"
                THEN [session EXCEPT !.expires = Deadline(clock, session.started, window)]
                ELSE session

Longer(window) == window > idle

set_session_idle_longer(window, p) ==
  /\ Longer(window)
  /\ \/ Usable /\ EnsurePresence(p) /\ Records("lengthen", None)
     \/ /\ session.kind # "active" /\ Verifies(p)
        /\ proofs' = Consumed(p)
        /\ last' = [NoOp EXCEPT !.op = "lengthen", !.age = clock - proofs[p].made]
        /\ UNCHANGED <<presence, gesture>>
  /\ SetIdle(window)
  /\ UNCHANGED <<clock, keys, cache, data, opened, lapsed, revived, writes>>

\* No proof, and no freshness check either.
set_session_idle_shorter(window) ==
  /\ ~Longer(window)
  /\ SetIdle(window)
  /\ revived' = (revived \/ Overdue)
  /\ UNCHANGED <<clock, keys, presence, cache, proofs, data, gesture, opened, lapsed, writes>>
  /\ Quiet

(***************************************************************************)
(* Accounts.  Each write commits, then brings the search index and then    *)
(* the cache up to date; an error of the index is returned in between.     *)
(***************************************************************************)

\* Mutant: the cache is left as it was.
CachedOld(rev) == cache

\* The cache after a new revision.
Cached(rev) == rev

\* The transaction: a new revision over the revisions `over` is the head.
Commits(state, over) ==
  /\ revs < MaxRev
  /\ revs' = revs + 1 /\ own' = own \cup {revs + 1}
  /\ account' = [state |-> state, head |-> revs + 1, frozen |-> FALSE,
                 leaves |-> (account.leaves \ over) \cup {revs + 1}]
  /\ UNCHANGED <<clock, keys, presence, settings, proofs, capture, course>>
  /\ Quiet

\* The write returns Ok; a deletion replaces everything.
Succeeds(state) ==
  /\ cache' = IF state = "live" THEN Cached(revs + 1) ELSE None
  /\ session' = Touched
  /\ replaced' = (1..revs') \ (IF state = "live" THEN account'.leaves ELSE {})
  /\ unsynced' = FALSE

\* It returns the index's error, after the commit.
IndexFails == UNCHANGED <<session, cache, writes>>

add_account ==
  /\ Usable /\ account.state = "absent"
  /\ Commits("live", {})
  /\ Succeeds("live") \/ IndexFails

\* update_account and account_update
update_account ==
  /\ Usable /\ Readable
  /\ Commits("live", {account.head})
  /\ Succeeds("live") \/ IndexFails

delete_account ==
  /\ Usable /\ Readable
  /\ Commits("deleted", {account.head})
  /\ Succeeds("deleted") \/ IndexFails

\* The merge over every leaf, frozen or not; the leaf it keeps must be readable
\* here.  Its refresh of the cache is best-effort.
resolve_fork(keep) ==
  /\ Usable /\ account.state = "live" /\ Cardinality(account.leaves) > 1
  /\ keep \in account.leaves \cap own
  /\ Commits("live", account.leaves)
  /\ \/ Succeeds("live")
     \/ /\ session' = Touched
        /\ replaced' = 1..revs
        /\ unsynced' = TRUE
        /\ UNCHANGED cache

\* totp_generate, account_get, account_search: no presence.
read_account ==
  /\ Usable /\ Readable
  /\ session' = Touched
  /\ UNCHANGED <<clock, keys, presence, cache, settings, proofs, data, history>>
  /\ Quiet

\* maybe_expire_active_session at the start and touch_session at the end, of the
\* operations that do not need the keys.
Unguarded ==
  /\ \/ Overdue /\ Ends(Expired)
     \/ /\ ~Overdue
        /\ session' = IF session.kind = "active" THEN Touched ELSE session
        /\ UNCHANGED <<keys, presence, cache, course>>
  /\ UNCHANGED <<clock, settings, proofs, capture, writes>>
  /\ Quiet

\* Another device's revision, over `parent`: the account is frozen, its head
\* pointer stays, and the session gets its next deadline.
ingest_chain_revision(parent) ==
  /\ revs < MaxRev
  /\ revs' = revs + 1
  /\ account' = [state |-> IF account.state = "absent" THEN "live" ELSE account.state,
                 head |-> IF account.state = "absent" THEN revs + 1 ELSE account.head,
                 frozen |-> TRUE,
                 leaves |-> (account.leaves \ {parent}) \cup {revs + 1}]
  /\ Unguarded
  /\ UNCHANGED own

\* An event that is there already.
ingest_known == account.state # "absent" /\ Unguarded /\ UNCHANGED rows

\* The head pointer goes to a leaf, readable here or not, deleted or not; the cache
\* is not told.
clear_frozen(chosen) ==
  /\ chosen \in account.leaves
  /\ account' = [account EXCEPT !.head = chosen, !.frozen = FALSE]
  /\ Unguarded
  /\ UNCHANGED <<revs, own>>

(***************************************************************************)
(* The capture authority.                                                  *)
(***************************************************************************)

\* Nothing registered, or the same component again.
capture_authority_register(c) ==
  /\ session.kind = "active" /\ ~Overdue /\ capture \in {None, c}
  /\ capture' = c
  /\ session' = Touched
  /\ UNCHANGED <<clock, keys, presence, cache, settings, proofs, rows, history>>
  /\ Quiet

\* replace_existing
capture_authority_replace(c, p) ==
  /\ Usable /\ capture \notin {None, c}
  /\ EnsurePresence(p)
  /\ Records("replace", None)
  /\ capture' = c
  /\ session' = Touched
  /\ UNCHANGED <<clock, keys, cache, settings, rows, opened, lapsed, revived, writes>>

capture_authority_clear ==
  /\ session.kind = "active" /\ ~Overdue
  /\ capture' = None
  /\ session' = Touched
  /\ UNCHANGED <<clock, keys, presence, cache, settings, proofs, rows, history>>
  /\ Quiet

Next ==
  \/ tick \/ expire \/ lock \/ device_locked \/ rotation_failed \/ reopen
  \/ \E p \in Proofs :
       \/ confirmed(p) \/ unlock(p) \/ unlock_refused(p)
       \/ reveal_secret_field(p) \/ reveal_from_disk(p) \/ export_archive(p)
       \/ guarded_op_fails(p)
       \/ touch_session_explicit(p)
       \/ \E w \in Durations : set_session_idle_longer(w, p)
       \/ \E c \in Components : capture_authority_replace(c, p)
  \/ \E w \in Durations : set_session_idle_shorter(w)
  \/ add_account \/ update_account \/ delete_account \/ read_account
  \/ \E keep \in 1..MaxRev : resolve_fork(keep)
  \/ \E parent \in 0..MaxRev : ingest_chain_revision(parent)
  \/ ingest_known
  \/ \E chosen \in 1..MaxRev : clear_frozen(chosen)
  \/ \E c \in Components : capture_authority_register(c)
  \/ capture_authority_clear

Spec == Init /\ [][Next]_vars

(***************************************************************************)
(* Properties.                                                             *)
(***************************************************************************)

Times == 0..MaxClock
Maybe(S) == S \cup {None}

TypeOK ==
  /\ clock \in Times
  /\ session.kind \in {"locked", "active", "expired"}
  /\ session.kind = "active" => session.started \in 0..clock /\ session.expires \in Nat
  /\ keys \in BOOLEAN /\ (keys => session.kind = "active" /\ presence \in session.started..clock)
  /\ cache \in Maybe(1..revs) /\ (cache # None => keys)
  /\ idle \in Durations /\ metaIdle \in Maybe(Durations)
  /\ proofs \in [Proofs -> [made : Maybe(Times), consumed : BOOLEAN]]
  /\ account.state \in {"absent", "live", "deleted"} /\ account.frozen \in BOOLEAN
  /\ account.head \in Maybe(1..revs) /\ account.leaves \subseteq 1..revs
  /\ revs \in 0..MaxRev /\ own \subseteq 1..revs
  /\ capture \in Maybe(Components)

\* A presence-guarded operation follows the user's key press by at most two
\* freshness windows: one until the proof is verified, one after it.  No chain of
\* operations, unlocks or failures stretches it.
NearGesture == last.age <= 2 * PRESENCE_FRESHNESS

\* Nothing guarded happens later than the absolute maximum after the unlock, however
\* often the session was used, extended or given another idle setting.
UnderCeiling == last.span <= ABSOLUTE_MAX

\* A session whose deadline has passed serves nothing guarded any more (unless a
\* shorter idle setting has renewed it).
NotAfterLapse == ~last.lapsed

\* A reveal, from the cache or from the disk, never returns a revision that a write
\* which reported success has replaced, and nothing of an account whose deletion was
\* reported: not after foreign revisions, frozen and cleared accounts, failed writes and
\* new sessions.  The one exception is a merge whose refresh of the cache failed.
\* (Other lags of the cache are the code's behaviour: after clear_frozen, and after a
\* write or a deletion that returned the index's error behind its commit, it serves what
\* it held before, until the next unlock or successful write.)
NotReplaced ==
  [][last'.op = "reveal" => last'.rev \notin replaced \/ unsynced]_vars
=============================================================================

-------------------------- MODULE VaultSessionProofs --------------------------
(***************************************************************************)
(* Proofs about VaultSession, for every presence window, ceiling, set of   *)
(* idle windows and number of proofs, and for every bound on the clock.    *)
(*                                                                         *)
(* None of the properties is inductive: each speaks of the last guarded    *)
(* operation only.  What carries them from step to step is how the fields  *)
(* of the session hang together: the deadline stays under the ceiling      *)
(* counted from the unlock, the remembered presence is at most one window  *)
(* younger than the key press, a lapse shows in the deadline, and neither  *)
(* the head pointer, nor a leaf, nor the cache is a replaced revision.     *)
(***************************************************************************)
EXTENDS VaultSession, TLAPS

\* The shapes of the records whose fields TypeOK bounds.
Shapes ==
  /\ session \in [kind : {"locked", "active", "expired"}, expires : Int, started : Int]
  /\ last \in [op : {"none", "reveal", "export", "extend", "lengthen", "replace"},
               age : Int, span : Int, lapsed : BOOLEAN, rev : Int]
  /\ presence \in Int /\ gesture \in Int /\ opened \in Int
  /\ lapsed \in BOOLEAN /\ revived \in BOOLEAN

\* The deadline of an active session, against its start and its ceiling.
DeadlineInv ==
  session.kind = "active" =>
    /\ session.expires <= session.started + ABSOLUTE_MAX
    /\ opened = session.started
    /\ lapsed /\ ~revived => clock > session.expires

\* The presence a session remembers was proved by a key press at most one window
\* earlier.
PresenceInv == keys => presence - gesture <= PRESENCE_FRESHNESS

\* The account, its revisions and the cache: what a successful write has replaced is
\* neither the head nor a leaf of the account any more, nor cached.
StoreInv ==
  /\ account \in [state : {"absent", "live", "deleted"}, head : Maybe(1..revs),
                  frozen : BOOLEAN, leaves : SUBSET (1..revs)]
  /\ revs \in 0..MaxRev /\ own \subseteq 1..revs /\ cache \in Maybe(1..revs)
  /\ replaced \subseteq 1..revs /\ unsynced \in BOOLEAN
  /\ account.state = "absent" => account.leaves = {}
  /\ account.state = "live" => account.head \notin replaced /\ account.leaves \cap replaced = {}
  /\ cache \in replaced => unsynced

SessionInv ==
  /\ TypeOK /\ Shapes
  /\ DeadlineInv /\ PresenceInv /\ StoreInv
  /\ NearGesture /\ UnderCeiling /\ NotAfterLapse

-----------------------------------------------------------------------------
(* The deadline.                                                           *)

\* The smaller of two numbers.
LEMMA MinOfTwo ==
  ASSUME NEW a \in Int, NEW b \in Int
  PROVE  Min({a, b}) = IF a <= b THEN a ELSE b
<1> DEFINE m == IF a <= b THEN a ELSE b
<1>1. m \in {a, b} /\ \A y \in {a, b} : m <= y
  OBVIOUS
<1>2. \A x \in {a, b} : (\A y \in {a, b} : x <= y) => x = m
  OBVIOUS
<1>3. QED
  BY <1>1, <1>2 DEF Min

\* next_idle_deadline: whatever the window, the deadline is a time no later than the
\* ceiling counted from the start of the session.
LEMMA DeadlineBounded ==
  ASSUME NEW now \in Nat, NEW started \in 0..now, NEW window \in Durations
  PROVE  /\ Deadline(now, started, window) \in Nat
         /\ Deadline(now, started, window) <= started + ABSOLUTE_MAX
<1>1. window \in Nat /\ ABSOLUTE_MAX \in Nat
  BY VaultSessionAssumption DEF Durations
<1>2. Min({now + window, started + ABSOLUTE_MAX})
        = IF now + window <= started + ABSOLUTE_MAX
          THEN now + window ELSE started + ABSOLUTE_MAX
  BY <1>1, MinOfTwo
<1>3. QED
  BY <1>1, <1>2 DEF Deadline

\* The fresh handle.
LEMMA InitInv == Init => SessionInv
<1> SUFFICES ASSUME Init PROVE SessionInv
  OBVIOUS
<1>1. proofs \in [Proofs -> [made : Maybe(Times), consumed : BOOLEAN]]
  BY DEF Init, Maybe
<1>2. TypeOK
  <2>1. clock \in Times /\ session.kind = "locked"
    BY VaultSessionAssumption DEF Init, Locked, Times
  <2>4. keys \in BOOLEAN /\ ~keys
    BY DEF Init
  <2>2. /\ cache \in Maybe(1..revs) /\ cache = None
        /\ idle \in Durations /\ metaIdle \in Maybe(Durations)
    BY VaultSessionAssumption DEF Init, Maybe, Durations
  <2>3. /\ account.state \in {"absent", "live", "deleted"} /\ account.frozen \in BOOLEAN
        /\ account.head \in Maybe(1..revs) /\ account.leaves \subseteq 1..revs
        /\ revs \in 0..MaxRev /\ own \subseteq 1..revs
        /\ capture \in Maybe(Components)
    BY VaultSessionAssumption DEF Init, Maybe
  <2>5. QED
    BY <1>1, <2>1, <2>2, <2>3, <2>4 DEF TypeOK
<1>3. Shapes
  <2>1. session \in [kind : {"locked", "active", "expired"}, expires : Int, started : Int]
    BY DEF Init, Locked, None
  <2>3. last \in [op : {"none", "reveal", "export", "extend", "lengthen", "replace"},
                  age : Int, span : Int, lapsed : BOOLEAN, rev : Int]
    BY DEF Init, NoOp, None
  <2>4. presence \in Int /\ gesture \in Int /\ opened \in Int
    BY DEF Init, None
  <2>5. lapsed \in BOOLEAN /\ revived \in BOOLEAN
    BY DEF Init
  <2>6. QED
    BY <2>1, <2>3, <2>4, <2>5 DEF Shapes
<1>4. StoreInv
  <2>1. revs = 0 /\ revs \in 0..MaxRev /\ own = {} /\ replaced = {} /\ cache \in Maybe(1..revs)
    BY VaultSessionAssumption DEF Init, Maybe
  <2>2. account \in [state : {"absent", "live", "deleted"}, head : Maybe(1..revs),
                     frozen : BOOLEAN, leaves : SUBSET (1..revs)]
    BY DEF Init, Maybe
  <2>3. account.state = "absent" /\ account.leaves = {} /\ unsynced \in BOOLEAN
    BY DEF Init
  <2>4. QED
    BY <2>1, <2>2, <2>3 DEF StoreInv
<1>5. QED
  BY <1>2, <1>3, <1>4, VaultSessionAssumption
  DEF Init, SessionInv, DeadlineInv, PresenceInv, NearGesture, UnderCeiling,
      NotAfterLapse, Locked, NoOp, None

\* A session that is not overdue has not lapsed, and is under its ceiling.
LEMMA OnTime ==
  ASSUME SessionInv, session.kind = "active", ~Overdue
  PROVE  /\ session.started \in 0..clock /\ opened = session.started
         /\ clock <= session.expires /\ clock - opened <= ABSOLUTE_MAX
         /\ ~(lapsed /\ ~revived)
  BY VaultSessionAssumption DEF SessionInv, TypeOK, Shapes, DeadlineInv, Overdue, Times

\* Moving the deadline keeps the start of the session and respects the ceiling.
LEMMA Moved ==
  ASSUME SessionInv, session.kind = "active", NEW window \in Durations
  PROVE  LET moved == [session EXCEPT !.expires = Deadline(clock, session.started, window)]
         IN  /\ moved \in [kind : {"locked", "active", "expired"}, expires : Int, started : Int]
             /\ moved.kind = "active" /\ moved.started = session.started
             /\ moved.expires \in Nat /\ moved.expires <= moved.started + ABSOLUTE_MAX
<1>1. clock \in Nat /\ session.started \in 0..clock
  BY VaultSessionAssumption DEF SessionInv, TypeOK, Times
<1>2. /\ Deadline(clock, session.started, window) \in Nat
      /\ Deadline(clock, session.started, window) <= session.started + ABSOLUTE_MAX
  BY <1>1, DeadlineBounded
<1>3. QED
  BY <1>2 DEF SessionInv, Shapes

\* ensure_presence_fresh: whether it trusts the remembered presence or verifies a
\* proof, the operation it lets through is at most two windows after the key press.
LEMMA PresenceStep ==
  ASSUME SessionInv, NEW p \in Proofs, Usable, EnsurePresence(p)
  PROVE  /\ presence' \in session.started..clock
         /\ gesture' \in Int /\ presence' - gesture' <= PRESENCE_FRESHNESS
         /\ clock - gesture' <= 2 * PRESENCE_FRESHNESS
         /\ proofs' \in [Proofs -> [made : Maybe(Times), consumed : BOOLEAN]]
<1>1. /\ clock \in Nat /\ session.started \in 0..clock /\ PRESENCE_FRESHNESS \in Nat
      /\ presence \in session.started..clock /\ gesture \in Int
      /\ presence - gesture <= PRESENCE_FRESHNESS
      /\ proofs \in [Proofs -> [made : Maybe(Times), consumed : BOOLEAN]]
  BY VaultSessionAssumption DEF SessionInv, TypeOK, Shapes, PresenceInv, Usable, Times
<1>2. CASE Recent /\ UNCHANGED <<presence, proofs, gesture>>
  BY <1>1, <1>2 DEF Recent
<1>3. CASE /\ ~Recent /\ Verifies(p)
           /\ proofs' = Consumed(p) /\ presence' = clock /\ gesture' = proofs[p].made
  <2>1. proofs[p].made \in Int
    BY <1>1, VaultSessionAssumption DEF Maybe, Times, None
  <2>2. clock - gesture' <= PRESENCE_FRESHNESS
    BY <1>3 DEF Verifies
  <2>3. proofs' \in [Proofs -> [made : Maybe(Times), consumed : BOOLEAN]]
    BY <1>1, <1>3 DEF Consumed
  <2>4. QED
    BY <1>1, <1>3, <2>1, <2>2, <2>3
<1>4. QED
  BY <1>2, <1>3 DEF EnsurePresence

-----------------------------------------------------------------------------
(* The steps.                                                              *)

\* Time passes: a deadline that is passed now is remembered as a lapse.
LEMMA TickStep == SessionInv /\ tick => SessionInv'
<1> SUFFICES ASSUME SessionInv, tick PROVE SessionInv'
  OBVIOUS
<1> USE DEF SessionInv
<1>1. TypeOK' /\ Shapes'
  BY VaultSessionAssumption
  DEF TypeOK, Shapes, tick, settings, data, rows, Quiet, NoOp, Times, None
<1>2. DeadlineInv' /\ PresenceInv' /\ StoreInv'
  BY VaultSessionAssumption
  DEF TypeOK, Shapes, DeadlineInv, PresenceInv, StoreInv, tick, settings, data, rows, writes,
      Times
<1>3. NearGesture' /\ UnderCeiling' /\ NotAfterLapse'
  BY VaultSessionAssumption DEF tick, Quiet, NoOp, NearGesture, UnderCeiling, NotAfterLapse
<1>4. QED
  BY <1>1, <1>2, <1>3

\* The steps that end the session, or lose its keys: nothing is left that the other
\* parts speak of.
LEMMA EndStep ==
  ASSUME SessionInv, expire \/ lock \/ device_locked \/ rotation_failed \/ reopen
  PROVE  SessionInv'
<1> USE DEF SessionInv
<1>1. /\ session' \in {Locked, Expired, session} /\ ~keys' /\ keys' \in BOOLEAN
      /\ presence' = None /\ cache' = None /\ last' = NoOp
      /\ idle' \in {idle, FromMeta(metaIdle)}
      /\ \/ /\ session'.kind # "active"
            /\ gesture' = None /\ opened' = None /\ lapsed' = FALSE /\ revived' = FALSE
         \/ UNCHANGED <<session, gesture, opened, lapsed, revived>>
      /\ UNCHANGED <<clock, metaIdle, proofs, data, writes>>
  <2>1. CASE rotation_failed
    BY <2>1 DEF rotation_failed, Quiet, settings, history, course
  <2>2. CASE expire \/ lock \/ device_locked \/ reopen
    <3>1. Ends(Locked) \/ Ends(Expired)
      BY <2>2 DEF expire, lock, device_locked, reopen, Ended
    <3>2. /\ session' \in {Locked, Expired} /\ keys' = FALSE /\ presence' = None /\ cache' = None
          /\ gesture' = None /\ opened' = None /\ lapsed' = FALSE /\ revived' = FALSE
      BY <3>1 DEF Ends
    <3>3. /\ last' = NoOp /\ idle' \in {idle, FromMeta(metaIdle)}
          /\ UNCHANGED <<clock, metaIdle, proofs, data, writes>>
      BY <2>2 DEF expire, lock, device_locked, reopen, Ended, Quiet, settings
    <3>4. session'.kind # "active"
      BY <3>2 DEF Locked, Expired
    <3>5. QED
      BY <3>2, <3>3, <3>4
  <2>3. QED
    BY <2>1, <2>2
<1>2. idle' \in Durations
  BY <1>1, VaultSessionAssumption DEF TypeOK, FromMeta, Durations, Maybe, None
<1>3. TypeOK' /\ Shapes'
  <2>1. TypeOK'
    BY <1>1, <1>2 DEF TypeOK, Locked, Expired, data, rows, Maybe
  <2>2. lapsed' \in BOOLEAN /\ revived' \in BOOLEAN
    BY <1>1, Zenon DEF Shapes
  <2>3. /\ session' \in [kind : {"locked", "active", "expired"}, expires : Int, started : Int]
        /\ presence' \in Int /\ gesture' \in Int /\ opened' \in Int
    BY <1>1 DEF Shapes, Locked, Expired, None
  <2>4. last' \in [op : {"none", "reveal", "export", "extend", "lengthen", "replace"},
                   age : Int, span : Int, lapsed : BOOLEAN, rev : Int]
    BY <1>1 DEF NoOp, None
  <2>5. QED
    BY <2>1, <2>2, <2>3, <2>4 DEF Shapes
<1>4. DeadlineInv' /\ PresenceInv' /\ StoreInv'
  <2>1. DeadlineInv' /\ PresenceInv'
    BY <1>1 DEF DeadlineInv, PresenceInv
  <2>2. None \notin replaced
    BY DEF StoreInv, None
  <2>3. StoreInv'
    BY <1>1, <2>2 DEF StoreInv, data, rows, writes, Maybe
  <2>4. QED
    BY <2>1, <2>3
<1>5. NearGesture' /\ UnderCeiling' /\ NotAfterLapse'
  BY <1>1, VaultSessionAssumption DEF NoOp, NearGesture, UnderCeiling, NotAfterLapse
<1>6. QED
  BY <1>3, <1>4, <1>5

\* The user presses the key, or unlocks with a wrong password: only a proof changes.
LEMMA ProofStep ==
  ASSUME SessionInv, NEW p \in Proofs, confirmed(p) \/ unlock_refused(p)
  PROVE  SessionInv'
<1> USE DEF SessionInv
<1>1. proofs' \in [Proofs -> [made : Maybe(Times), consumed : BOOLEAN]]
  <2>1. proofs \in [Proofs -> [made : Maybe(Times), consumed : BOOLEAN]]
    BY DEF TypeOK
  <2>2. CASE confirmed(p)
    <3>1. [made |-> clock, consumed |-> FALSE] \in [made : Maybe(Times), consumed : BOOLEAN]
      BY DEF TypeOK, Maybe
    <3>2. QED
      BY <2>1, <2>2, <3>1 DEF confirmed
  <2>3. CASE unlock_refused(p)
    BY <2>1, <2>3 DEF unlock_refused, Consumed
  <2>4. QED
    BY <2>2, <2>3
<1>2. /\ last' = NoOp
      /\ UNCHANGED <<clock, session, keys, presence, cache, settings, data, history>>
  BY DEF confirmed, unlock_refused, Quiet
<1>3. QED
  BY <1>1, <1>2, VaultSessionAssumption
  DEF TypeOK, Shapes, DeadlineInv, PresenceInv, StoreInv, NearGesture, UnderCeiling,
      NotAfterLapse, settings, data, rows, history, course, writes, NoOp, None

\* An unlock starts everything anew, from a proof that is at most one window old.
LEMMA UnlockStep ==
  ASSUME SessionInv, NEW p \in Proofs, unlock(p)
  PROVE  SessionInv'
<1> USE DEF SessionInv
<1>1. /\ clock \in Nat /\ clock \in 0..clock /\ idle \in Durations
      /\ proofs[p].made \in Int
  BY VaultSessionAssumption DEF TypeOK, Times, Maybe, None
<1>2. /\ session' = [kind |-> "active", expires |-> session'.expires, started |-> clock]
      /\ session'.expires \in Nat /\ session'.expires <= clock + ABSOLUTE_MAX
  BY <1>1, DeadlineBounded DEF unlock
<1>3. /\ keys' = TRUE /\ presence' = clock /\ gesture' = proofs[p].made /\ opened' = clock
      /\ lapsed' = FALSE /\ revived' = FALSE /\ last' = NoOp
      /\ clock - proofs[p].made <= PRESENCE_FRESHNESS
      /\ unsynced' = FALSE /\ UNCHANGED <<clock, settings, data, replaced>>
  BY DEF unlock, Verifies, Quiet
<1>4. /\ proofs' \in [Proofs -> [made : Maybe(Times), consumed : BOOLEAN]]
      /\ cache' \in Maybe(1..revs) /\ cache' \notin replaced
  <2>1. None \notin replaced /\ None \in Maybe(1..revs)
    BY DEF StoreInv, None, Maybe
  <2>2. ASSUME NEW elected \in account.leaves
        PROVE  Hydrated(elected) \in Maybe(1..revs) /\ Hydrated(elected) \notin replaced
    BY <2>1, <2>2 DEF StoreInv, Hydrated, Maybe
  <2>3. cache' \in Maybe(1..revs) /\ cache' \notin replaced
    BY <2>1, <2>2 DEF unlock
  <2>4. QED
    BY <2>3 DEF TypeOK, unlock, Consumed
<1>5. TypeOK'
  BY <1>1, <1>2, <1>3, <1>4 DEF TypeOK, settings, data, rows
<1>6. Shapes'
  <2>1. lapsed' \in BOOLEAN /\ revived' \in BOOLEAN
    BY <1>3
  <2>2. last' \in [op : {"none", "reveal", "export", "extend", "lengthen", "replace"},
                   age : Int, span : Int, lapsed : BOOLEAN, rev : Int]
    BY <1>3 DEF NoOp, None
  <2>3. session' \in [kind : {"locked", "active", "expired"}, expires : Int, started : Int]
    BY <1>1, <1>2
  <2>4. QED
    BY <1>1, <1>3, <2>1, <2>2, <2>3 DEF Shapes
<1>7. StoreInv'
  BY <1>3, <1>4 DEF StoreInv, data, rows
<1>8. QED
  BY <1>1, <1>2, <1>3, <1>5, <1>6, <1>7, VaultSessionAssumption
  DEF DeadlineInv, PresenceInv, NearGesture, UnderCeiling, NotAfterLapse, NoOp

\* Every operation behind ensure_presence_fresh that leaves the accounts alone: it
\* records itself, or fails, and moves the deadline or leaves it.
LEMMA GuardedStep ==
  ASSUME SessionInv, NEW p \in Proofs, Usable, EnsurePresence(p),
         NEW op \in {"reveal", "export", "extend", "replace", "lengthen"}, NEW rev \in Int,
         Records(op, rev) \/ Quiet,
         session' \in {session, Touched},
         capture' \in Maybe(Components),
         UNCHANGED <<clock, keys, cache, settings, rows, opened, lapsed, revived, writes>>
  PROVE  SessionInv'
<1> USE DEF SessionInv
<1>1. /\ session.kind = "active" /\ ~Overdue /\ clock \in Nat /\ idle \in Durations
      /\ keys = TRUE
  BY VaultSessionAssumption DEF TypeOK, Usable, Times
<1>2. /\ session.started \in 0..clock /\ opened = session.started
      /\ clock <= session.expires /\ clock - opened <= ABSOLUTE_MAX
      /\ ~(lapsed /\ ~revived)
  BY <1>1, OnTime
<1>3. /\ session' \in [kind : {"locked", "active", "expired"}, expires : Int, started : Int]
      /\ session'.kind = "active" /\ session'.started = session.started
      /\ session'.expires \in Nat /\ session'.expires <= session'.started + ABSOLUTE_MAX
  BY <1>1, Moved DEF Touched, TypeOK, Shapes, DeadlineInv
<1>4. /\ presence' \in session.started..clock
      /\ gesture' \in Int /\ presence' - gesture' <= PRESENCE_FRESHNESS
      /\ clock - gesture' <= 2 * PRESENCE_FRESHNESS
      /\ proofs' \in [Proofs -> [made : Maybe(Times), consumed : BOOLEAN]]
  BY PresenceStep
<1>5. /\ last' \in [op : {"none", "reveal", "export", "extend", "lengthen", "replace"},
                    age : Int, span : Int, lapsed : BOOLEAN, rev : Int]
      /\ NearGesture' /\ UnderCeiling' /\ NotAfterLapse'
  <2>1. CASE Quiet
    BY <2>1, VaultSessionAssumption
    DEF Quiet, NoOp, None, NearGesture, UnderCeiling, NotAfterLapse
  <2>2. CASE Records(op, rev)
    BY <2>2, <1>1, <1>2, <1>4
    DEF Records, Shapes, NearGesture, UnderCeiling, NotAfterLapse
  <2>3. QED
    BY <2>1, <2>2
<1>6. TypeOK' /\ Shapes'
  <2>1. TypeOK'
    BY <1>1, <1>3, <1>4 DEF TypeOK, settings, rows
  <2>2. presence' \in Int /\ opened' \in Int
    BY <1>1, <1>2, <1>4 DEF Shapes
  <2>3. Shapes'
    BY <1>3, <1>4, <1>5, <2>2 DEF Shapes
  <2>4. QED
    BY <2>1, <2>3
<1>7. DeadlineInv' /\ PresenceInv' /\ StoreInv'
  BY <1>2, <1>3, <1>4 DEF DeadlineInv, PresenceInv, StoreInv, rows, writes
<1>8. QED
  BY <1>5, <1>6, <1>7

\* An operation on the accounts or the capture authority that needs no proof: an active
\* session that is not overdue keeps its deadline or gets the next one.
LEMMA UseStep ==
  ASSUME SessionInv, session.kind = "active", ~Overdue, Quiet,
         session' \in {session, Touched}, StoreInv', cache' # None => keys,
         capture' \in Maybe(Components),
         UNCHANGED <<clock, keys, presence, settings, proofs, course>>
  PROVE  SessionInv'
<1> USE DEF SessionInv
<1>1. idle \in Durations
  BY DEF TypeOK
<1>2. /\ session' \in [kind : {"locked", "active", "expired"}, expires : Int, started : Int]
      /\ session'.kind = "active" /\ session'.started = session.started
      /\ session'.expires \in Nat /\ session'.expires <= session'.started + ABSOLUTE_MAX
  BY <1>1, Moved DEF Touched, TypeOK, Shapes, DeadlineInv
<1>3. session.started \in 0..clock /\ opened = session.started /\ ~(lapsed /\ ~revived)
  BY OnTime
<1>4. /\ last' \in [op : {"none", "reveal", "export", "extend", "lengthen", "replace"},
                    age : Int, span : Int, lapsed : BOOLEAN, rev : Int]
      /\ NearGesture' /\ UnderCeiling' /\ NotAfterLapse'
  BY VaultSessionAssumption DEF Quiet, NoOp, None, NearGesture, UnderCeiling, NotAfterLapse
<1>5. TypeOK'
  BY <1>2, <1>3 DEF TypeOK, StoreInv, settings
<1>6. Shapes'
  BY <1>2, <1>4 DEF Shapes, course
<1>7. DeadlineInv' /\ PresenceInv'
  BY <1>2, <1>3 DEF DeadlineInv, PresenceInv, course
<1>8. QED
  BY <1>4, <1>5, <1>6, <1>7

\* A write numbers its revision after all others.  When it succeeds, the cache has the
\* revision or nothing; when the index fails, or the merge's refresh, it has what it had.
LEMMA WriteStep ==
  ASSUME SessionInv, NEW state \in {"live", "deleted"}, NEW over, Usable, Commits(state, over),
         \/ Succeeds(state)
         \/ IndexFails
         \/ /\ state = "live" /\ over = account.leaves
            /\ session' = Touched /\ replaced' = 1..revs /\ unsynced' = TRUE /\ cache' = cache,
         account.state # "deleted"
  PROVE  SessionInv'
<1>1. /\ revs \in Nat /\ revs + 1 \in 1..MaxRev /\ MaxRev \in Nat
      /\ account.leaves \subseteq 1..revs /\ replaced \subseteq 1..revs /\ own \subseteq 1..revs
      /\ cache \in Maybe(1..revs) /\ account.leaves \cap replaced = {}
  BY VaultSessionAssumption DEF SessionInv, StoreInv, Commits
<1>2. /\ revs' = revs + 1 /\ own' \subseteq 1..revs' /\ revs' \in 0..MaxRev
      /\ account' = [state |-> state, head |-> revs', frozen |-> FALSE,
                     leaves |-> (account.leaves \ over) \cup {revs'}]
  <2>1. /\ revs' = revs + 1 /\ own' = own \cup {revs'}
        /\ account' = [state |-> state, head |-> revs', frozen |-> FALSE,
                       leaves |-> (account.leaves \ over) \cup {revs'}]
    BY DEF Commits
  <2>2. revs' \in 0..MaxRev /\ own' \subseteq 1..revs'
    BY <1>1, <2>1
  <2>3. QED
    BY <2>1, <2>2
<1>3. /\ revs' \in 1..revs' /\ revs' \notin 1..revs /\ 1..revs \subseteq 1..revs'
      /\ Maybe(1..revs) \subseteq Maybe(1..revs') /\ None \in Maybe(1..revs') /\ None \notin 1..revs'
  BY <1>1, <1>2 DEF Maybe, None
<1>4. account' \in [state : {"absent", "live", "deleted"}, head : Maybe(1..revs'),
                    frozen : BOOLEAN, leaves : SUBSET (1..revs')]
  <2>1. revs' \in Maybe(1..revs') /\ (account.leaves \ over) \cup {revs'} \in SUBSET (1..revs')
    BY <1>1, <1>3 DEF Maybe
  <2>2. QED
    BY <1>2, <2>1
<1>5. /\ account'.state = state /\ account'.head = revs'
      /\ account'.leaves = (account.leaves \ over) \cup {revs'}
  BY <1>2
<1>6. /\ session' \in {session, Touched} /\ (cache' # None => keys) /\ StoreInv'
  <2>1. CASE Succeeds(state)
    <3>1. /\ session' = Touched /\ unsynced' = FALSE
          /\ cache' = IF state = "live" THEN revs' ELSE None
          /\ replaced' = (1..revs') \ (IF state = "live" THEN account'.leaves ELSE {})
      BY <1>2, <2>1 DEF Succeeds, Cached
    <3>2. cache' \in Maybe(1..revs') /\ cache' \notin replaced' /\ replaced' \subseteq 1..revs'
      BY <1>3, <1>5, <3>1 DEF Maybe
    <3>3. state = "live" => revs' \notin replaced' /\ account'.leaves \cap replaced' = {}
      BY <1>5, <3>1
    <3>4. StoreInv'
      BY <1>2, <1>4, <1>5, <3>1, <3>2, <3>3 DEF StoreInv
    <3>5. QED
      BY <3>1, <3>4 DEF Usable
  <2>2. CASE IndexFails
    <3>1. session' = session /\ cache' = cache /\ replaced' = replaced /\ unsynced' = unsynced
      BY <2>2 DEF IndexFails, writes
    <3>2. revs' \notin replaced /\ ((account.leaves \ over) \cup {revs'}) \cap replaced = {}
      BY <1>1, <1>3
    <3>3. unsynced \in BOOLEAN /\ (cache \in replaced => unsynced) /\ (cache # None => keys)
      BY DEF SessionInv, StoreInv, TypeOK
    <3>4. cache \in Maybe(1..revs') /\ replaced \subseteq 1..revs'
      BY <1>1, <1>3
    <3>5. StoreInv'
      BY <1>2, <1>4, <1>5, <3>1, <3>2, <3>3, <3>4 DEF StoreInv
    <3>6. QED
      BY <3>1, <3>3, <3>5
  <2>3. CASE /\ state = "live" /\ over = account.leaves
             /\ session' = Touched /\ replaced' = 1..revs /\ unsynced' = TRUE /\ cache' = cache
    <3>1. account'.leaves = {revs'}
      BY <1>5, <2>3
    <3>2. cache' \in Maybe(1..revs') /\ replaced' \subseteq 1..revs' /\ (cache # None => keys)
      BY <1>1, <1>3, <2>3 DEF SessionInv, TypeOK
    <3>3. revs' \notin replaced' /\ account'.leaves \cap replaced' = {}
      BY <1>3, <2>3, <3>1
    <3>4. StoreInv'
      BY <1>2, <1>4, <1>5, <2>3, <3>2, <3>3 DEF StoreInv
    <3>5. QED
      BY <2>3, <3>2, <3>4
  <2>4. QED
    BY <2>1, <2>2, <2>3
<1>7. capture' \in Maybe(Components)
  BY DEF SessionInv, TypeOK, Commits
<1>8. QED
  BY <1>6, <1>7, UseStep DEF Usable, Commits

\* Reading an account, and registering or clearing the capture authority.
LEMMA LookStep ==
  ASSUME SessionInv,
         \/ read_account \/ capture_authority_clear
         \/ \E c \in Components : capture_authority_register(c)
  PROVE  SessionInv'
<1>1. /\ session.kind = "active" /\ ~Overdue /\ Quiet /\ session' = Touched
      /\ capture' \in Maybe(Components)
      /\ UNCHANGED <<clock, keys, presence, cache, settings, proofs, rows, course, writes>>
  BY DEF SessionInv, TypeOK, read_account, capture_authority_clear,
     capture_authority_register, Usable, Maybe, data, history
<1>2. StoreInv' /\ (cache' # None => keys)
  BY <1>1 DEF SessionInv, StoreInv, TypeOK, rows, writes
<1>3. QED
  BY <1>1, <1>2, UseStep

\* The operations that need no keys: an overdue session ends, an active one gets its
\* next deadline.
LEMMA UnguardedStep ==
  ASSUME SessionInv, Unguarded, StoreInv'
  PROVE  SessionInv'
<1> USE DEF SessionInv
<1>1. last' = NoOp /\ UNCHANGED <<clock, settings, proofs, capture>>
  BY DEF Unguarded, Quiet
<1>2. CASE ~Overdue /\ session.kind = "active"
  <2>1. session' = Touched /\ UNCHANGED <<keys, presence, cache, course>>
    BY <1>2 DEF Unguarded
  <2>2. QED
    BY <1>1, <1>2, <2>1, UseStep DEF Quiet, TypeOK
<1>3. CASE Overdue \/ session.kind # "active"
  <2>1. /\ last' \in [op : {"none", "reveal", "export", "extend", "lengthen", "replace"},
                      age : Int, span : Int, lapsed : BOOLEAN, rev : Int]
        /\ NearGesture' /\ UnderCeiling' /\ NotAfterLapse'
    BY <1>1, VaultSessionAssumption DEF NoOp, None, NearGesture, UnderCeiling, NotAfterLapse
  <2>2. CASE Overdue
    <3>1. /\ session' = Expired /\ keys' = FALSE /\ presence' = None /\ cache' = None
          /\ gesture' = None /\ opened' = None /\ lapsed' = FALSE /\ revived' = FALSE
      BY <2>2 DEF Unguarded, Ends
    <3>2. /\ session'.kind = "expired"
          /\ session' \in [kind : {"locked", "active", "expired"}, expires : Int, started : Int]
      BY <3>1 DEF Expired, Locked, None
    <3>3. TypeOK'
      BY <1>1, <3>1, <3>2 DEF TypeOK, StoreInv, settings
    <3>4. Shapes'
      <4>1. lapsed' \in BOOLEAN /\ revived' \in BOOLEAN
        BY <3>1
      <4>2. presence' \in Int /\ gesture' \in Int /\ opened' \in Int
        BY <3>1 DEF None
      <4>3. QED
        BY <2>1, <3>2, <4>1, <4>2 DEF Shapes
    <3>5. QED
      BY <2>1, <3>1, <3>2, <3>3, <3>4 DEF DeadlineInv, PresenceInv
  <2>3. CASE ~Overdue /\ session.kind # "active"
    <3>1. UNCHANGED <<session, keys, presence, cache, course>>
      BY <2>3 DEF Unguarded
    <3>2. TypeOK' /\ Shapes'
      BY <1>1, <2>1, <3>1 DEF TypeOK, Shapes, StoreInv, settings, course
    <3>3. QED
      BY <1>1, <2>1, <3>1, <3>2 DEF DeadlineInv, PresenceInv, course
  <2>4. QED
    BY <1>3, <2>2, <2>3
<1>4. QED
  BY <1>2, <1>3

\* A revision of another device leaves the head pointer, and is a leaf itself.
LEMMA IngestStep ==
  ASSUME SessionInv, NEW parent, ingest_chain_revision(parent)
  PROVE  SessionInv'
<1>1. /\ revs \in Nat /\ revs' = revs + 1 /\ revs' \in 0..MaxRev /\ own' = own
      /\ account \in [state : {"absent", "live", "deleted"}, head : Maybe(1..revs),
                       frozen : BOOLEAN, leaves : SUBSET (1..revs)]
      /\ replaced \subseteq 1..revs /\ own \subseteq 1..revs /\ cache \in Maybe(1..revs)
      /\ unsynced \in BOOLEAN /\ (cache \in replaced => unsynced)
  BY VaultSessionAssumption DEF SessionInv, StoreInv, ingest_chain_revision
<1>2. /\ revs' \in 1..revs' /\ revs' \notin 1..revs /\ 1..revs \subseteq 1..revs'
      /\ Maybe(1..revs) \subseteq Maybe(1..revs') /\ None \in Maybe(1..revs') /\ None \notin 1..revs
  BY <1>1 DEF Maybe, None
<1> DEFINE state == IF account.state = "absent" THEN "live" ELSE account.state
           head == IF account.state = "absent" THEN revs' ELSE account.head
           leaves == (account.leaves \ {parent}) \cup {revs'}
<1>3. account' = [state |-> state, head |-> head, frozen |-> TRUE, leaves |-> leaves]
  BY <1>1 DEF ingest_chain_revision
<1>4. /\ state \in {"live", "deleted"} /\ head \in Maybe(1..revs')
      /\ leaves \in SUBSET (1..revs')
  BY <1>1, <1>2 DEF Maybe
<1>5. state = "live" => head \notin replaced /\ leaves \cap replaced = {}
  BY <1>1, <1>2 DEF SessionInv, StoreInv
<1>6. /\ cache' \in {cache, None} /\ replaced' = replaced /\ unsynced' = unsynced
  BY DEF ingest_chain_revision, Unguarded, Ends, writes
<1> HIDE DEF state, head, leaves
<1>7. /\ account' \in [state : {"absent", "live", "deleted"}, head : Maybe(1..revs'),
                        frozen : BOOLEAN, leaves : SUBSET (1..revs')]
      /\ account'.state = state /\ account'.head = head /\ account'.leaves = leaves
  BY <1>3, <1>4
<1>8. cache' \in Maybe(1..revs') /\ (cache' \in replaced => unsynced)
  BY <1>1, <1>2, <1>6
<1>9. StoreInv'
  BY <1>1, <1>2, <1>4, <1>5, <1>6, <1>7, <1>8 DEF StoreInv
<1>10. QED
  BY <1>9, UnguardedStep DEF ingest_chain_revision

\* The head pointer goes to a leaf.
LEMMA ClearStep ==
  ASSUME SessionInv, NEW chosen, clear_frozen(chosen)
  PROVE  SessionInv'
<1>1. /\ chosen \in account.leaves /\ UNCHANGED <<revs, own, replaced, unsynced>>
      /\ account' = [account EXCEPT !.head = chosen, !.frozen = FALSE]
      /\ cache' \in {cache, None}
  BY DEF clear_frozen, Unguarded, Ends, writes
<1>2. /\ account'.state = account.state /\ account'.leaves = account.leaves
      /\ account'.head = chosen
      /\ account' \in [state : {"absent", "live", "deleted"}, head : Maybe(1..revs),
                        frozen : BOOLEAN, leaves : SUBSET (1..revs)]
  BY <1>1 DEF SessionInv, StoreInv, Maybe
<1>3. None \notin replaced /\ None \in Maybe(1..revs)
  BY DEF SessionInv, StoreInv, None, Maybe
<1>4. StoreInv'
  BY <1>1, <1>2, <1>3 DEF SessionInv, StoreInv
<1>5. QED
  BY <1>4, UnguardedStep DEF clear_frozen

\* A longer idle window needs a proof, or a usable session's presence; an active
\* session's deadline is counted anew, under the old ceiling.
LEMMA LongerStep ==
  ASSUME SessionInv, NEW p \in Proofs, NEW w \in Durations, set_session_idle_longer(w, p)
  PROVE  SessionInv'
<1> USE DEF SessionInv
<1>1. /\ idle' = w /\ metaIdle' = w
      /\ UNCHANGED <<clock, keys, cache, data, opened, lapsed, revived, writes>>
  BY DEF set_session_idle_longer, SetIdle
<1>2. clock \in Nat /\ PRESENCE_FRESHNESS \in Nat /\ ABSOLUTE_MAX \in Nat
  BY VaultSessionAssumption DEF TypeOK, Times
<1>3. CASE Usable /\ EnsurePresence(p) /\ Records("lengthen", None)
  <2>1. session.kind = "active" /\ ~Overdue
    BY <1>3 DEF Usable
  <2>2. /\ session.started \in 0..clock /\ opened = session.started /\ ~(lapsed /\ ~revived)
        /\ clock - opened <= ABSOLUTE_MAX
    BY <2>1, OnTime
  <2>3. /\ session' \in [kind : {"locked", "active", "expired"}, expires : Int, started : Int]
        /\ session'.kind = "active" /\ session'.started = session.started
        /\ session'.expires \in Nat /\ session'.expires <= session'.started + ABSOLUTE_MAX
    BY <2>1, Moved DEF set_session_idle_longer, SetIdle
  <2>4. /\ presence' \in session.started..clock
        /\ gesture' \in Int /\ presence' - gesture' <= PRESENCE_FRESHNESS
        /\ clock - gesture' <= 2 * PRESENCE_FRESHNESS
        /\ proofs' \in [Proofs -> [made : Maybe(Times), consumed : BOOLEAN]]
    BY <1>3, PresenceStep
  <2>5. /\ last' \in [op : {"none", "reveal", "export", "extend", "lengthen", "replace"},
                      age : Int, span : Int, lapsed : BOOLEAN, rev : Int]
        /\ NearGesture' /\ UnderCeiling' /\ NotAfterLapse'
    <3>1. None \in Int /\ opened \in Int
      BY DEF None, Shapes
    <3>2. last' = [op |-> "lengthen", age |-> clock - gesture', span |-> clock - opened,
                   lapsed |-> FALSE, rev |-> None]
      BY <1>3, <2>2 DEF Records
    <3>3. clock - gesture' \in Int /\ clock - opened \in Int
      BY <1>2, <2>4, <3>1
    <3>4. last' \in [op : {"none", "reveal", "export", "extend", "lengthen", "replace"},
                     age : Int, span : Int, lapsed : BOOLEAN, rev : Int]
      BY <3>1, <3>2, <3>3
    <3>5. last'.age = clock - gesture' /\ last'.span = clock - opened /\ ~last'.lapsed
      BY <3>2
    <3>6. NearGesture' /\ UnderCeiling' /\ NotAfterLapse'
      BY <2>2, <2>4, <3>5 DEF NearGesture, UnderCeiling, NotAfterLapse
    <3>7. QED
      BY <3>4, <3>6
  <2>6. TypeOK' /\ Shapes'
    BY <1>1, <1>2, <2>2, <2>3, <2>4, <2>5 DEF TypeOK, Shapes, data, rows, Maybe
  <2>7. DeadlineInv' /\ PresenceInv' /\ StoreInv'
    BY <1>1, <2>2, <2>3, <2>4 DEF DeadlineInv, PresenceInv, StoreInv, data, rows, writes
  <2>8. QED
    BY <2>5, <2>6, <2>7
<1>4. CASE /\ session.kind # "active" /\ Verifies(p)
           /\ proofs' = Consumed(p)
           /\ last' = [NoOp EXCEPT !.op = "lengthen", !.age = clock - proofs[p].made]
           /\ UNCHANGED <<presence, gesture>>
  <2>1. session' = session /\ ~keys
    BY <1>4 DEF set_session_idle_longer, SetIdle, TypeOK
  <2>2. /\ proofs[p].made \in Int /\ clock - proofs[p].made <= 2 * PRESENCE_FRESHNESS
    BY <1>2, <1>4, VaultSessionAssumption DEF TypeOK, Verifies, Maybe, Times, None
  <2>3. proofs' \in [Proofs -> [made : Maybe(Times), consumed : BOOLEAN]]
    BY <1>4 DEF TypeOK, Consumed
  <2>4. last' = [op |-> "lengthen", age |-> clock - proofs[p].made, span |-> 0,
                 lapsed |-> FALSE, rev |-> None]
    BY <1>4 DEF NoOp
  <2>5. /\ last' \in [op : {"none", "reveal", "export", "extend", "lengthen", "replace"},
                      age : Int, span : Int, lapsed : BOOLEAN, rev : Int]
        /\ NearGesture' /\ UnderCeiling' /\ NotAfterLapse'
    <3>1. last'.age = clock - proofs[p].made /\ last'.span = 0
      BY <2>4
    <3>2. NearGesture' /\ UnderCeiling'
      <4>1. NearGesture'
        BY <1>2, <2>2, <3>1 DEF NearGesture
      <4>2. UnderCeiling'
        BY <1>2, <3>1 DEF UnderCeiling
      <4>3. QED
        BY <4>1, <4>2
    <3>3. NotAfterLapse'
      BY <2>4 DEF NotAfterLapse
    <3>4. last' \in [op : {"none", "reveal", "export", "extend", "lengthen", "replace"},
                     age : Int, span : Int, lapsed : BOOLEAN, rev : Int]
      <4>1. clock - proofs[p].made \in Int /\ 0 \in Int /\ None \in Int
        BY <1>2, <2>2 DEF None
      <4>2. QED
        BY <2>4, <4>1
    <3>5. QED
      BY <3>2, <3>3, <3>4
  <2>6. TypeOK' /\ Shapes'
    BY <1>1, <1>2, <1>4, <2>1, <2>2, <2>3, <2>5 DEF TypeOK, Shapes, data, rows, Maybe
  <2>7. DeadlineInv' /\ PresenceInv' /\ StoreInv'
    BY <1>1, <1>4, <2>1 DEF DeadlineInv, PresenceInv, StoreInv, data, rows, writes
  <2>8. QED
    BY <2>5, <2>6, <2>7
<1>5. QED
  BY <1>3, <1>4 DEF set_session_idle_longer

\* A shorter one needs nothing, and renews an overdue session.
LEMMA ShorterStep ==
  ASSUME SessionInv, NEW w \in Durations, set_session_idle_shorter(w)
  PROVE  SessionInv'
<1> USE DEF SessionInv
<1>1. /\ idle' = w /\ metaIdle' = w /\ last' = NoOp
      /\ UNCHANGED <<clock, keys, presence, cache, proofs, data, gesture, opened, lapsed, writes>>
  BY DEF set_session_idle_shorter, SetIdle, Quiet
<1>2. revived' \in BOOLEAN /\ (revived' <=> revived \/ Overdue)
  BY Zenon DEF set_session_idle_shorter
<1>3. /\ last' \in [op : {"none", "reveal", "export", "extend", "lengthen", "replace"},
                    age : Int, span : Int, lapsed : BOOLEAN, rev : Int]
      /\ NearGesture' /\ UnderCeiling' /\ NotAfterLapse'
  BY <1>1, VaultSessionAssumption DEF NoOp, None, NearGesture, UnderCeiling, NotAfterLapse
<1>4. CASE session.kind # "active"
  <2>1. session' = session
    BY <1>4 DEF set_session_idle_shorter, SetIdle
  <2>2. TypeOK' /\ Shapes'
    BY <1>1, <1>2, <1>3, <2>1 DEF TypeOK, Shapes, data, rows, Maybe
  <2>3. QED
    BY <1>1, <1>3, <1>4, <2>1, <2>2 DEF DeadlineInv, PresenceInv, StoreInv, data, rows, writes
<1>5. CASE session.kind = "active"
  <2>1. /\ session' \in [kind : {"locked", "active", "expired"}, expires : Int, started : Int]
        /\ session'.kind = "active" /\ session'.started = session.started
        /\ session'.expires \in Nat /\ session'.expires <= session'.started + ABSOLUTE_MAX
    BY <1>5, Moved DEF set_session_idle_shorter, SetIdle
  <2>2. ~(lapsed' /\ ~revived')
    BY <1>1, <1>2, <1>5, OnTime
  <2>3. TypeOK' /\ Shapes'
    BY <1>1, <1>2, <1>3, <1>5, <2>1 DEF TypeOK, Shapes, data, rows, Maybe
  <2>4. DeadlineInv' /\ PresenceInv' /\ StoreInv'
    BY <1>1, <1>5, <2>1, <2>2 DEF DeadlineInv, PresenceInv, StoreInv, data, rows, writes
  <2>5. QED
    BY <1>3, <2>3, <2>4
<1>6. QED
  BY <1>4, <1>5

\* Every operation of the handle, and time, keep the invariant.
LEMMA NextInv == SessionInv /\ [Next]_vars => SessionInv'
<1> SUFFICES ASSUME SessionInv, [Next]_vars PROVE SessionInv'
  OBVIOUS
<1>1. ASSUME NEW p \in Proofs,
             \/ reveal_secret_field(p) \/ reveal_from_disk(p) \/ export_archive(p)
             \/ guarded_op_fails(p) \/ touch_session_explicit(p)
      PROVE  SessionInv'
  <2>1. cache \in Int /\ account.head \in Int /\ None \in Int
    BY VaultSessionAssumption DEF SessionInv, TypeOK, Maybe, None
  <2>2. capture \in Maybe(Components)
    BY DEF SessionInv, TypeOK
  <2>3. /\ Usable /\ EnsurePresence(p) /\ session' \in {session, Touched}
        /\ UNCHANGED <<clock, keys, cache, settings, rows, capture, opened, lapsed, revived,
                       writes>>
    BY <1>1 DEF reveal_secret_field, reveal_from_disk, export_archive, guarded_op_fails,
       touch_session_explicit, data
  <2>4. \/ Records("reveal", cache) \/ Records("reveal", account.head)
        \/ Records("export", None) \/ Records("extend", None) \/ Quiet
    BY <1>1 DEF reveal_secret_field, reveal_from_disk, export_archive, guarded_op_fails,
       touch_session_explicit
  <2>5. QED
    BY <2>1, <2>2, <2>3, <2>4, GuardedStep
<1>2. ASSUME NEW p \in Proofs, NEW c \in Components, capture_authority_replace(c, p)
      PROVE  SessionInv'
  <2>1. capture' \in Maybe(Components) /\ None \in Int
    BY <1>2 DEF capture_authority_replace, Maybe, None
  <2>2. QED
    BY <1>2, <2>1, GuardedStep DEF capture_authority_replace
<1>3. ASSUME \/ add_account \/ update_account \/ delete_account
             \/ \E keep \in 1..MaxRev : resolve_fork(keep)
      PROVE  SessionInv'
  <2>1. CASE add_account
    BY <2>1, WriteStep DEF add_account
  <2>2. CASE update_account
    BY <2>2, WriteStep DEF update_account, Readable
  <2>3. CASE delete_account
    BY <2>3, WriteStep DEF delete_account, Readable
  <2>4. CASE \E keep \in 1..MaxRev : resolve_fork(keep)
    BY <2>4, WriteStep DEF resolve_fork
  <2>5. QED
    BY <1>3, <2>1, <2>2, <2>3, <2>4
<1>6. ASSUME ingest_known
      PROVE  SessionInv'
  <2>1. UNCHANGED <<account, revs, own, replaced, unsynced>> /\ cache' \in {cache, None}
    BY <1>6 DEF ingest_known, Unguarded, Ends, rows, writes
  <2>2. None \notin replaced /\ None \in Maybe(1..revs)
    BY DEF SessionInv, StoreInv, None, Maybe
  <2>3. StoreInv'
    BY <2>1, <2>2 DEF SessionInv, StoreInv
  <2>4. QED
    BY <1>6, <2>3, UnguardedStep DEF ingest_known
<1>4. CASE UNCHANGED vars
  BY <1>4 DEF vars, settings, data, rows, history, course, writes, SessionInv, TypeOK, Shapes, DeadlineInv,
     PresenceInv, StoreInv, NearGesture, UnderCeiling, NotAfterLapse
<1>7. QED
  BY <1>1, <1>2, <1>3, <1>4, <1>6, TickStep, EndStep, ProofStep, UnlockStep, LongerStep,
     ShorterStep, LookStep, IngestStep, ClearStep DEF Next

-----------------------------------------------------------------------------
(* What the handle promises.                                               *)

\* The invariant holds in every reachable state.
THEOREM SessionSafe == Spec => []SessionInv
  BY InitInv, NextInv, PTL DEF Spec

\* The state of the handle has its type, and keys are held by active sessions only.
THEOREM TypeCorrect == Spec => []TypeOK
  BY SessionSafe, PTL DEF SessionInv

\* ensure_presence_fresh: a guarded operation follows the user's key press by at most
\* two freshness windows, however the operations are chained.
THEOREM GuardedNearGesture == Spec => []NearGesture
  BY SessionSafe, PTL DEF SessionInv

\* next_idle_deadline: no guarded operation runs past the absolute maximum after the
\* unlock, whatever was used, extended or set in between.
THEOREM GuardedUnderCeiling == Spec => []UnderCeiling
  BY SessionSafe, PTL DEF SessionInv

\* check_session_freshness: once the deadline has passed, nothing guarded is served
\* until the next unlock, unless a shorter idle setting renewed the session.
THEOREM NothingAfterLapse == Spec => []NotAfterLapse
  BY SessionSafe, PTL DEF SessionInv

\* A reveal, from the cache or from the disk, returns a revision that is not replaced.
LEMMA RevealStep ==
  SessionInv /\ Next => (last'.op = "reveal" => last'.rev \notin replaced \/ unsynced)
<1> SUFFICES ASSUME SessionInv, Next, last'.op = "reveal"
             PROVE  last'.rev \notin replaced \/ unsynced
  OBVIOUS
<1>1. ~Quiet
  BY DEF Quiet, NoOp
<1>2. PICK p \in Proofs :
        \/ reveal_secret_field(p) \/ reveal_from_disk(p) \/ export_archive(p)
        \/ touch_session_explicit(p)
        \/ \E w \in Durations : set_session_idle_longer(w, p)
        \/ \E c \in Components : capture_authority_replace(c, p)
  BY <1>1 DEF Next, tick, expire, lock, device_locked, rotation_failed, reopen, Ended,
     confirmed, unlock, unlock_refused, guarded_op_fails, set_session_idle_shorter,
     add_account, update_account, delete_account, resolve_fork, Commits, read_account,
     ingest_chain_revision, ingest_known, clear_frozen, Unguarded,
     capture_authority_register, capture_authority_clear
<1>3. CASE reveal_secret_field(p)
  BY <1>3 DEF reveal_secret_field, Records, SessionInv, StoreInv
<1>4. CASE reveal_from_disk(p)
  BY <1>4 DEF reveal_from_disk, Records, Readable, SessionInv, StoreInv
<1>5. CASE \/ export_archive(p) \/ touch_session_explicit(p)
           \/ \E c \in Components : capture_authority_replace(c, p)
  BY <1>5 DEF export_archive, touch_session_explicit, capture_authority_replace, Records
<1>6. CASE \E w \in Durations : set_session_idle_longer(w, p)
  <2>1. CASE Records("lengthen", None)
    BY <2>1 DEF Records
  <2>2. CASE last' = [NoOp EXCEPT !.op = "lengthen", !.age = clock - proofs[p].made]
    BY <2>2 DEF NoOp
  <2>3. QED
    BY <1>6, <2>1, <2>2 DEF set_session_idle_longer
<1>7. QED
  BY <1>2, <1>3, <1>4, <1>5, <1>6

\* reveal_secret_field serves the cache, which may lag behind the disk: but never with a
\* revision that a write which reported success has replaced, nor with a deleted account
\* whose deletion was reported, except after a merge whose refresh failed.
THEOREM RevealsAreNotReplaced == Spec => NotReplaced
<1>1. SessionInv /\ [Next]_vars =>
        [last'.op = "reveal" => last'.rev \notin replaced \/ unsynced]_vars
  BY RevealStep
<1>2. QED
  BY <1>1, SessionSafe, PTL DEF Spec, NotReplaced

=============================================================================

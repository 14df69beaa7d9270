----------------------------- MODULE RateLimiter -----------------------------
(***************************************************************************)
(* services/funder/src/rate_limit.rs: a token bucket per device address    *)
(* and a counter per hour over all addresses.                              *)
(*                                                                         *)
(* `check` reads the clock once and then takes the bucket lock, the        *)
(* counter lock and, if the counter is spent, the bucket lock again;       *)
(* requests interleave between those three, each with the time it read     *)
(* when it arrived.  Instant::duration_since saturates at zero.  A client  *)
(* that disconnects has its request dropped where it waits.                *)
(***************************************************************************)
EXTENDS Integers, FiniteSets, Functions

CONSTANTS
  Addresses,        \* device addresses
  Requests,         \* request tasks that may be in flight together
  BUCKET_SIZE,      \* per_address_bucket_size
  INTERVAL,         \* per_address_replenish_interval_secs
  GLOBAL_CAP,       \* global_cap_per_hour
  WINDOW,           \* the hour of the global counter
  BUCKET_TTL,       \* BUCKET_TTL_SECS
  GC_THRESHOLD,     \* map size above which stale buckets are dropped
  MaxClock,         \* bound: last clock value
  MaxAbandoned      \* bound: requests of an address dropped by their client

ASSUME LimiterAssumption ==
  /\ IsFiniteSet(Requests)
  /\ BUCKET_SIZE \in Nat /\ GLOBAL_CAP \in Nat /\ BUCKET_TTL \in Nat
  /\ INTERVAL \in Nat \ {0} /\ WINDOW \in Nat \ {0}
  /\ GC_THRESHOLD \in Nat /\ MaxClock \in Nat /\ MaxAbandoned \in Nat

VARIABLES
  buckets,       \* per_address: [tokens, last_replenish, last_seen] of the known addresses
  count,         \* global.count
  window_start,  \* global.window_start
  request,       \* [pc, addr, at] of each request in flight
  clock,         \* Instant::now
  admitted,      \* requests allowed so far, per address
  granted,       \* requests allowed so far, of all addresses
  abandoned,     \* disconnects while a token was held, per address
  collected      \* addresses whose bucket was ever dropped from the map

limiterVars ==
  <<buckets, count, window_start, request, clock, admitted, granted, abandoned, collected>>

NoRequest == [pc |-> "idle"]

Bucket == [tokens : 0..BUCKET_SIZE, last_replenish : Nat, last_seen : Nat]

LimiterInit ==
  /\ buckets = << >>
  /\ count = 0 /\ window_start = 0
  /\ request = [r \in Requests |-> NoRequest]
  /\ clock = 0
  /\ admitted = [a \in Addresses |-> 0]
  /\ granted = 0
  /\ abandoned = [a \in Addresses |-> 0]
  /\ collected = {}

Least(x, y) == IF x < y THEN x ELSE y

\* Instant::duration_since
Since(later, earlier) == IF later < earlier THEN 0 ELSE later - earlier

GoOn(r, pc) == request' = [request EXCEPT ![r].pc = pc]
Done(r) == request' = [request EXCEPT ![r] = NoRequest]

\* check: the request arrives and reads the clock.
check(r, a) ==
  /\ request[r].pc = "idle"
  /\ request' = [request EXCEPT ![r] = [pc |-> "address", addr |-> a, at |-> clock]]
  /\ UNCHANGED <<buckets, count, window_start, clock, admitted, granted, abandoned, collected>>

\* The lazy garbage collection, on large maps only.
AfterGc(t) ==
  IF Cardinality(DOMAIN buckets) > GC_THRESHOLD
  THEN Restrict(buckets, {a \in DOMAIN buckets : Since(t, buckets[a].last_seen) < BUCKET_TTL})
  ELSE buckets

\* Mutant: the replenishment clock is not advanced.
ReplenishedAgain(b, t) ==
  LET n == Since(t, b.last_replenish) \div INTERVAL
  IN [b EXCEPT !.tokens = Least(@ + n, BUCKET_SIZE)]

\* Lazy replenishment: whole intervals only, clamped to the bucket size.
Replenished(b, t) ==
  LET n == Since(t, b.last_replenish) \div INTERVAL
  IN [b EXCEPT !.tokens = Least(@ + n, BUCKET_SIZE), !.last_replenish = @ + n * INTERVAL]

\* The first critical section, with t the time the request read on arrival.
check_per_address(r) ==
  /\ request[r].pc = "address"
  /\ LET t == request[r].at
         a == request[r].addr
         map == AfterGc(t)
         entry == IF a \in DOMAIN map THEN map[a]
                  ELSE [tokens |-> BUCKET_SIZE, last_replenish |-> t, last_seen |-> t]
         b == [Replenished(entry, t) EXCEPT !.last_seen = t]
         Stored(x) == [y \in DOMAIN map \cup {a} |-> IF y = a THEN x ELSE map[y]]
     IN IF b.tokens = 0
        THEN buckets' = Stored(b) /\ Done(r)
        ELSE buckets' = Stored([b EXCEPT !.tokens = @ - 1]) /\ GoOn(r, "global")
  /\ collected' = collected \cup (DOMAIN buckets \ DOMAIN AfterGc(request[r].at))
  /\ UNCHANGED <<count, window_start, clock, admitted, granted, abandoned>>

\* Mutant: the counter starts afresh without a new window.
WindowAfterHour(t) == IF Since(t, window_start) >= WINDOW THEN [count |-> 0, start |-> window_start]
                      ELSE [count |-> count, start |-> window_start]

\* The counter, in a new window if the hour is over.
WindowAt(t) == IF Since(t, window_start) >= WINDOW THEN [count |-> 0, start |-> t]
               ELSE [count |-> count, start |-> window_start]

\* The second critical section.
check_global(r) ==
  /\ request[r].pc = "global"
  /\ LET w == WindowAt(request[r].at)
     IN /\ window_start' = w.start
        /\ IF w.count >= GLOBAL_CAP
           THEN count' = w.count /\ GoOn(r, "refund") /\ UNCHANGED <<admitted, granted>>
           ELSE /\ count' = w.count + 1
                /\ Done(r)
                /\ admitted' = [admitted EXCEPT ![request[r].addr] = @ + 1]
                /\ granted' = granted + 1
  /\ UNCHANGED <<buckets, clock, abandoned, collected>>

\* Mutant: no refund.
RefundedNothing(b) == b

Refunded(b) == [b EXCEPT !.tokens = Least(@ + 1, BUCKET_SIZE)]

\* The third; the bucket may be gone by now.
refund_per_address(r) ==
  /\ request[r].pc = "refund"
  /\ buckets' = [a \in DOMAIN buckets |->
                   IF a = request[r].addr THEN Refunded(buckets[a]) ELSE buckets[a]]
  /\ Done(r)
  /\ UNCHANGED <<count, window_start, clock, admitted, granted, abandoned, collected>>

\* The client goes away while its request waits for a lock.
Abandon(r) ==
  /\ request[r].pc \in {"address", "global", "refund"}
  /\ abandoned[request[r].addr] < MaxAbandoned
  /\ abandoned' = IF request[r].pc = "address" THEN abandoned
                  ELSE [abandoned EXCEPT ![request[r].addr] = @ + 1]
  /\ Done(r)
  /\ UNCHANGED <<buckets, count, window_start, clock, admitted, granted, collected>>

Elapse ==
  /\ clock < MaxClock
  /\ clock' = clock + 1
  /\ UNCHANGED <<buckets, count, window_start, request, admitted, granted, abandoned, collected>>

LimiterNext ==
  \/ \E r \in Requests, a \in Addresses : check(r, a)
  \/ \E r \in Requests : \/ check_per_address(r)
                         \/ check_global(r)
                         \/ refund_per_address(r)
                         \/ Abandon(r)
  \/ Elapse

LimiterSpec == LimiterInit /\ [][LimiterNext]_limiterVars

(***************************************************************************)
(* Properties.                                                             *)
(***************************************************************************)

\* The tokens stay within the bucket, and no request opens a window with a
\* time that lies in the future.
LimiterTypeOK ==
  /\ DOMAIN buckets \subseteq Addresses
  /\ \A a \in DOMAIN buckets : buckets[a] \in Bucket
  /\ count \in 0..GLOBAL_CAP
  /\ window_start \in 0..clock
  /\ \A r \in Requests : request[r].pc \in {"idle", "address", "global", "refund"}

\* Tokens of a that requests in flight have taken and not yet used or given
\* back.
Held(a) == Cardinality({r \in Requests : request[r].pc \in {"global", "refund"} /\ request[r].addr = a})

\* A request that trips the global cap costs its address nothing: apart from
\* disconnects, every missing token is an admission or is held by a request
\* in flight, whatever interleaves between the take and the refund.
NoTokenLeak ==
  \A a \in DOMAIN buckets :
    buckets[a].tokens + Held(a) + abandoned[a] + admitted[a] >= BUCKET_SIZE

\* The addresses together are admitted at most GLOBAL_CAP times per window
\* begun, although a request may open a window with a time it read long ago.
GlobalBound ==
  granted <= GLOBAL_CAP * (clock \div WINDOW + 1)

\* "A single address can burst 10 then is throttled to 6/hour": a bucket
\* full, and then one request per interval, however the requests and the
\* times they read interleave, until its bucket is collected.
ThrottledToRate ==
  \A a \in Addresses \ collected : admitted[a] <= BUCKET_SIZE + clock \div INTERVAL

=============================================================================

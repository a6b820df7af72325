---------------------------- MODULE RateLimiter ----------------------------
(***************************************************************************)
(* The two limiters of core/rate_limit.py: LocalRateLimiter, an ordered    *)
(* dictionary of at most MaxKeys buckets that drops expired events when it *)
(* comes across them, and RedisRateLimiter, a script over one sorted set   *)
(* per key.  An answer is one action: the local limiter does not await,    *)
(* and Redis runs a script as a whole.                                     *)
(***************************************************************************)
EXTENDS Integers, FiniteSets

CONSTANTS
  Keys,            \* logical keys
  LimitOf,         \* limit and
  WindowOf,        \* window, in ticks, its callers give for each key
  TicksPerSecond,  \* resolution of the clock
  MaxKeys,         \* local_max_keys
  Backends,        \* values of settings.rate_limit.backend
  LastTick,        \* bound: the clock stops here
  Budget           \* bounds: how often each event may happen

Events == {"call", "restart", "timeout"}

ASSUME RateLimiterAssumption ==
  /\ Keys # {}
  /\ LimitOf \in [Keys -> Int] /\ WindowOf \in [Keys -> Int]
  /\ TicksPerSecond \in Nat \ {0}
  /\ MaxKeys \in Nat \ {0}
  /\ Backends \subseteq {"local", "redis"}
  /\ LastTick \in Nat
  /\ Budget \in [Events -> Nat]

VARIABLES
  backend,    \* which limiter build_rate_limiter made
  clock,      \* time.monotonic, or TIME of Redis
  events,     \* events kept for each key: the bucket, or the sorted set
  place,      \* when a key was moved to the end of the local dictionary, or 0:
              \* it has no bucket
  expiry,     \* when Redis drops the set of a key (PEXPIRE)
  reply,      \* the last answer
  granted,    \* history: every admission
  forgotten,  \* history: admissions that were dropped while they counted
  asked,      \* history: when the local limiter was last asked for a key
  left        \* what is left of Budget

vars == <<backend, clock, events, place, expiry, reply, granted, forgotten, asked, left>>

Stamp == [at : Nat, nr : Nat]
Answer == [key : Keys, outcome : {"allowed", "denied", "unavailable"}, retry : Nat]

Init ==
  /\ backend \in Backends
  /\ clock = 0
  /\ events = [k \in Keys |-> {}]
  /\ place = [k \in Keys |-> 0]
  /\ expiry = [k \in Keys |-> 0]
  /\ reply = [key |-> CHOOSE k \in Keys : TRUE, outcome |-> "allowed", retry |-> 0]
  /\ granted = [k \in Keys |-> {}]
  /\ forgotten = [k \in Keys |-> {}]
  /\ asked = [k \in Keys |-> 0]
  /\ left = Budget

Spend(e) == left[e] > 0 /\ left' = [left EXCEPT ![e] = @ - 1]

Limited(k) == LimitOf[k] > 0 /\ WindowOf[k] > 0

Tick ==
  /\ clock < LastTick
  /\ clock' = clock + 1
  /\ UNCHANGED <<backend, events, place, expiry, reply, granted, forgotten, asked, left>>

-----------------------------------------------------------------------------
(* What an answer is made of *)

Unexpired(k) == IF backend = "redis" /\ clock > expiry[k] THEN {} ELSE events[k]

\* events[0] <= now - window_seconds is expired.
Live(k) == {e \in Unexpired(k) : e.at > clock - WindowOf[k]}

Full(k) == Cardinality(Live(k)) >= LimitOf[k]

\* This is the Nth call; 0 is before all calls.
Nth == Budget["call"] - left["call"] + 1

New == [at |-> clock, nr |-> Nth]

Oldest(k) == CHOOSE t \in {e.at : e \in Live(k)} : \A e \in Live(k) : t <= e.at

\* Mutant: seconds are cut off, not rounded up.
RetryAfterFloor(k) == (Oldest(k) + WindowOf[k] - clock) \div TicksPerSecond

\* max(1, ceil(oldest + window - now))
RetryAfter(k) ==
  LET up == (Oldest(k) + WindowOf[k] - clock + TicksPerSecond - 1) \div TicksPerSecond
  IN  IF up < 1 THEN 1 ELSE up

Answered(k, outcome, retry) == reply' = [key |-> k, outcome |-> outcome, retry |-> retry]

\* History: what leaves the buckets while it counts.
Lost == forgotten' = [k \in Keys |-> forgotten[k] \cup (Live(k) \ events'[k])]

Grant(k) ==
  /\ granted' = [granted EXCEPT ![k] = @ \cup {New}]
  /\ Lost
  /\ Answered(k, "allowed", 0)

Refuse(k) == Answered(k, "denied", RetryAfter(k)) /\ Lost /\ UNCHANGED granted

AllowUnlimited(k) ==
  /\ ~Limited(k)
  /\ Answered(k, "allowed", 0)
  /\ UNCHANGED <<backend, clock, events, place, expiry, granted, forgotten, asked, left>>

-----------------------------------------------------------------------------
(* LocalRateLimiter.allow *)

Local(k) ==
  /\ backend = "local" /\ Limited(k)
  /\ Spend("call")
  /\ asked' = [asked EXCEPT ![k] = Nth]
  /\ UNCHANGED <<backend, clock, expiry>>

\* Mutant: the dictionary is full of keys whose events have all expired.
CrowdAsFound(k) == {x \in Keys \ {k} : place[x] # 0}

\* The buckets that _make_room leaves, before it evicts one.
Crowd(k) == {x \in Keys \ {k} : place[x] # 0 /\ Live(x) # {}}

\* Mutant: no bucket is evicted.
RoomUnbounded(k) == Crowd(k)

\* popitem(last=False)
Room(k) ==
  IF Cardinality(Crowd(k)) < MaxKeys THEN Crowd(k)
  ELSE {x \in Crowd(k) : \E y \in Crowd(k) : place[y] < place[x]}

MoveToEnd(k) == place' = [place EXCEPT ![k] = Nth]

\* A bucket of k is made, in the room of the one used least recently.
LocalFirst(k) ==
  /\ Local(k)
  /\ Live(k) = {}
  /\ place' = [x \in Keys |-> IF x = k THEN Nth ELSE IF x \in Room(k) THEN place[x] ELSE 0]
  /\ events' = [x \in Keys |-> IF x = k THEN {New} ELSE IF x \in Room(k) THEN Live(x) ELSE {}]
  /\ Grant(k)

\* Mutant: only an admission moves the bucket to the end.
LocalDenyUnmoved(k) ==
  /\ Local(k)
  /\ Full(k)
  /\ place' = place
  /\ events' = [events EXCEPT ![k] = Live(k)]
  /\ Refuse(k)

LocalAgain(k) ==
  /\ Local(k)
  /\ Live(k) # {} /\ ~Full(k)
  /\ MoveToEnd(k)
  /\ events' = [events EXCEPT ![k] = Live(k) \cup {New}]
  /\ Grant(k)

LocalDeny(k) ==
  /\ Local(k)
  /\ Full(k)
  /\ MoveToEnd(k)
  /\ events' = [events EXCEPT ![k] = Live(k)]
  /\ Refuse(k)

-----------------------------------------------------------------------------
(* RedisRateLimiter.allow *)

Redis(k) ==
  /\ backend = "redis" /\ Limited(k)
  /\ Spend("call")
  /\ UNCHANGED <<backend, clock, place, asked>>

\* Mutant: the set expires a window after its first event.
CountedOnce(k) ==
  /\ ~Full(k)
  /\ events' = [events EXCEPT ![k] = Live(k) \cup {New}]
  /\ expiry' = [expiry EXCEPT ![k] = IF Live(k) = {} THEN clock + WindowOf[k] ELSE @]

Counted(k) ==
  /\ ~Full(k)
  /\ events' = [events EXCEPT ![k] = Live(k) \cup {New}]
  /\ expiry' = [expiry EXCEPT ![k] = clock + WindowOf[k]]

Pruned(k) ==
  /\ Full(k)
  /\ events' = [events EXCEPT ![k] = Live(k)]
  /\ UNCHANGED expiry

RedisAllow(k) == Redis(k) /\ Counted(k) /\ Grant(k)

RedisDeny(k) == Redis(k) /\ Pruned(k) /\ Refuse(k)

\* A RedisError: the script did or did not run.
RedisRaises(k) ==
  /\ backend = "redis" /\ Limited(k)
  /\ left["call"] > 0 /\ left["timeout"] > 0
  /\ left' = [left EXCEPT !["call"] = @ - 1, !["timeout"] = @ - 1]
  /\ Counted(k) \/ Pruned(k) \/ UNCHANGED <<events, expiry>>
  /\ Lost
  /\ Answered(k, "unavailable", 0)
  /\ UNCHANGED <<backend, clock, place, granted, asked>>

\* The process of the local limiter is replaced, or Redis loses its data.
Restart ==
  /\ Spend("restart")
  /\ events' = [k \in Keys |-> {}]
  /\ place' = [k \in Keys |-> 0]
  /\ Lost
  /\ UNCHANGED <<backend, clock, expiry, reply, granted, asked>>

Next ==
  \/ Tick \/ Restart
  \/ \E k \in Keys :
       \/ AllowUnlimited(k)
       \/ LocalFirst(k) \/ LocalAgain(k) \/ LocalDeny(k)
       \/ RedisAllow(k) \/ RedisDeny(k) \/ RedisRaises(k)

Spec == Init /\ [][Next]_vars

-----------------------------------------------------------------------------
(* Properties *)

(* TypeOK: events, times and answers are of their kinds, and the local       *)
(* dictionary never holds more than MaxKeys keys.                            *)
TypeOK ==
  /\ backend \in Backends
  /\ clock \in Nat
  /\ events \in [Keys -> SUBSET Stamp]
  /\ place \in [Keys -> Nat]
  /\ Cardinality({k \in Keys : place[k] # 0}) <= MaxKeys
  /\ expiry \in [Keys -> Nat]
  /\ reply \in Answer
  /\ granted \in [Keys -> SUBSET Stamp] /\ forgotten \in [Keys -> SUBSET Stamp]
  /\ asked \in [Keys -> Nat]
  /\ left \in [Events -> Nat]

Remembered(k) == {e \in granted[k] \ forgotten[k] : e.at > clock - WindowOf[k]}

(* WindowBound: no more requests of a key are admitted within a window than  *)
(* its limit, except by an eviction or a restart, whichever backend counts   *)
(* them and whatever it drops on the way.                                    *)
WindowBound == \A k \in Keys : Limited(k) => Cardinality(Remembered(k)) <= LimitOf[k]

(* EvictsLeastRecent: the local limiter forgets admissions that count only   *)
(* if MaxKeys keys have some, and then those of the key that was not asked   *)
(* for the longest time; an answer of Redis never forgets any.               *)
EvictsLeastRecent ==
  [][\A k \in Keys :
       forgotten'[k] # forgotten[k] /\ UNCHANGED left["restart"] =>
         /\ backend = "local"
         /\ Cardinality({x \in Keys : Live(x) # {}}) >= MaxKeys
         /\ \A x \in Keys \ {k} : Live(x) # {} => asked[k] < asked[x]]_vars

Window == INSTANCE SlidingWindow WITH
  log <- [k \in Keys |-> Live(k)],
  capacity <- IF backend = "local" THEN MaxKeys ELSE 0

(* ImplementsWindow: both limiters answer as if they dropped each event at   *)
(* the tick it expires: they deny only a full key, with the least            *)
(* retry_after_seconds that suffices.                                        *)
ImplementsWindow == Window!WindowSpec
=============================================================================

--------------------------- MODULE SlidingWindow ---------------------------
(***************************************************************************)
(* What a rate limiter promises (the RateLimiter protocol): a request of a *)
(* key is denied exactly when the limit of that key is used up by requests *)
(* admitted less than a window ago, and a request that is denied is told   *)
(* the least number of seconds after which there is room again.  A limiter *)
(* that has capacity for some keys may forget one to admit another, and    *)
(* one that is restarted forgets them all.                                 *)
(***************************************************************************)
EXTENDS Integers, FiniteSets

CONSTANTS
  Keys,            \* logical keys
  LimitOf,         \* limit and
  WindowOf,        \* window, in ticks, of each
  TicksPerSecond   \* resolution of the clock

VARIABLES
  capacity,  \* keys that can be remembered, 0 for all of them: never changes
  clock,     \* the limiter's clock
  log,       \* admissions of each key that still count
  reply      \* the last answer

windowVars == <<capacity, clock, log, reply>>

Answer == [key : Keys, outcome : {"allowed", "denied", "unavailable"}, retry : Nat]
Answered(k, outcome, retry) == reply' = [key |-> k, outcome |-> outcome, retry |-> retry]

Counting(S, k, time) == {e \in S : e.at > time - WindowOf[k]}
RoomAt(k, time) == Cardinality(Counting(log[k], k, time)) < LimitOf[k]

WindowInit ==
  /\ capacity \in Nat
  /\ clock = 0
  /\ log = [k \in Keys |-> {}]
  /\ reply \in Answer

Pass ==
  /\ clock' > clock
  /\ log' = [k \in Keys |-> Counting(log[k], k, clock')]
  /\ UNCHANGED reply

\* The admission of k is one more event, of now.
Logged(k, old) ==
  \E e \in log'[k] : /\ e.at = clock /\ e \notin log[k]
                     /\ log' = [old EXCEPT ![k] = @ \cup {e}]

\* Another key is forgotten when all that can be remembered still count.
Evicted(k) ==
  {x \in Keys \ {k} : /\ capacity # 0 /\ log[k] = {}
                     /\ Cardinality({y \in Keys : log[y] # {}}) >= capacity}

Allow(k) ==
  /\ RoomAt(k, clock)
  /\ \/ Logged(k, log)
     \/ \E x \in Evicted(k) : Logged(k, [log EXCEPT ![x] = {}])
  /\ Answered(k, "allowed", 0)
  /\ UNCHANGED clock

Unlimited(k) ==
  /\ LimitOf[k] <= 0 \/ WindowOf[k] <= 0
  /\ Answered(k, "allowed", 0)
  /\ UNCHANGED <<clock, log>>

Deny(k) ==
  /\ LimitOf[k] > 0 /\ ~RoomAt(k, clock)
  /\ Answered(k, "denied", reply'.retry)
  /\ reply'.retry >= 1
  /\ RoomAt(k, clock + reply'.retry * TicksPerSecond)
  /\ reply'.retry > 1 => ~RoomAt(k, clock + (reply'.retry - 1) * TicksPerSecond)
  /\ UNCHANGED <<clock, log>>

\* No answer: the request may count all the same.
Fail(k) ==
  /\ \/ UNCHANGED log
     \/ RoomAt(k, clock) /\ Logged(k, log)
  /\ Answered(k, "unavailable", 0)
  /\ UNCHANGED clock

ForgetAll ==
  /\ log' = [k \in Keys |-> {}]
  /\ UNCHANGED <<clock, reply>>

WindowNext ==
  /\ \/ Pass \/ ForgetAll
     \/ \E k \in Keys : Allow(k) \/ Unlimited(k) \/ Deny(k) \/ Fail(k)
  /\ UNCHANGED capacity

WindowSpec == WindowInit /\ [][WindowNext]_windowVars
=============================================================================

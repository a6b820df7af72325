------------------------- MODULE RateLimiterProofs -------------------------
(* Proofs about RateLimiter, for every set of keys, all limits, windows and  *)
(* resolutions, any capacity and either backend.                             *)
EXTENDS RateLimiter, FiniteSetTheorems, WellFoundedInduction, TLAPS

Kinds ==
  /\ backend \in Backends
  /\ clock \in Nat
  /\ left \in [Events -> Nat] /\ left["call"] <= Budget["call"]
  /\ events \in [Keys -> SUBSET Stamp]
  /\ place \in [Keys -> Nat] /\ asked \in [Keys -> Nat]
  /\ expiry \in [Keys -> Nat]
  /\ granted \in [Keys -> SUBSET Stamp]
  /\ forgotten \in [Keys -> SUBSET Stamp]

\* What is remembered is still there to be counted, and Redis does not drop
\* the set of a key before its last event has expired.
Accounted(k) ==
  /\ IsFiniteSet(events[k])
  /\ \A e \in events[k] : e.at <= clock
  /\ backend = "redis" => \A e \in events[k] : e.at + WindowOf[k] <= expiry[k]
  /\ Remembered(k) \subseteq Live(k)
  /\ Limited(k) => Cardinality(Live(k)) <= LimitOf[k]

WindowInv == Kinds /\ \A k \in Keys : Accounted(k)

LEMMA Constants == LimitOf \in [Keys -> Int] /\ WindowOf \in [Keys -> Int]
BY RateLimiterAssumption

(* The events that count are some of those that are kept.                    *)
LEMMA LiveKept ==
  ASSUME NEW k \in Keys, Accounted(k)
  PROVE  /\ Live(k) \subseteq events[k] /\ IsFiniteSet(Live(k))
         /\ Cardinality(Live(k)) \in Nat
<1>1. Live(k) \subseteq events[k] BY DEF Live, Unexpired
<1>2. IsFiniteSet(Live(k)) BY <1>1, FS_Subset DEF Accounted
<1> QED BY <1>1, <1>2, FS_CardinalityType

(* Dropping events of a key, and noting which of them counted.               *)
LEMMA DropKeeps ==
  ASSUME Kinds, Kinds', NEW k \in Keys, Accounted(k), UNCHANGED <<backend, clock>>,
         events'[k] \subseteq events[k],
         expiry'[k] = expiry[k], granted'[k] = granted[k],
         forgotten'[k] = forgotten[k] \cup (Live(k) \ events'[k])
  PROVE  Accounted(k)'
<1>1. Live(k)' \subseteq Live(k) BY DEF Live, Unexpired
<1>2. IsFiniteSet(events'[k]) BY FS_Subset DEF Accounted
<1>3. \A e \in events'[k] : e.at <= clock' BY DEF Accounted
<1>4. backend' = "redis" => \A e \in events'[k] : e.at + WindowOf[k] <= expiry'[k]
  BY DEF Accounted
<1>5. Remembered(k)' \subseteq Live(k)'
  <2> SUFFICES ASSUME NEW e \in Remembered(k)' PROVE e \in Live(k)'
    OBVIOUS
  <2>1. e \in Remembered(k) /\ e \notin Live(k) \ events'[k] BY DEF Remembered
  <2>2. e \in Live(k) /\ e \in events'[k] BY <2>1 DEF Accounted
  <2> QED BY <2>2 DEF Live, Unexpired
<1>6. Cardinality(Live(k)') <= Cardinality(Live(k)) /\ Cardinality(Live(k)') \in Nat
  BY <1>1, LiveKept, FS_Subset, FS_CardinalityType
<1>7. Limited(k)' => Cardinality(Live(k)') <= LimitOf[k]
  <2>1. Limited(k)' => Cardinality(Live(k)) <= LimitOf[k] BY DEF Accounted, Limited
  <2> QED BY <2>1, <1>6, LiveKept, Constants
<1> QED BY <1>2, <1>3, <1>4, <1>5, <1>7 DEF Accounted

(* Admitting a request of a key that is not full.                            *)
LEMMA AdmitKeeps ==
  ASSUME Kinds, Kinds', NEW k \in Keys, Accounted(k), UNCHANGED <<backend, clock>>,
         Limited(k), ~Full(k),
         events'[k] = Live(k) \cup {New},
         backend = "redis" => expiry'[k] = clock + WindowOf[k],
         granted'[k] \subseteq granted[k] \cup {New},
         forgotten'[k] = forgotten[k] \cup (Live(k) \ events'[k])
  PROVE  Accounted(k)'
<1> USE Constants
<1>1. New.at = clock /\ WindowOf[k] \in Int /\ WindowOf[k] > 0 /\ clock \in Nat
  BY DEF New, Limited, Kinds
<1>2. \A e \in events'[k] : e.at \in Nat /\ e.at <= clock
  BY <1>1, LiveKept DEF Accounted, Kinds, Stamp
<1>3. backend' = "redis" => \A e \in events'[k] : e.at + WindowOf[k] <= expiry'[k]
  BY <1>1, <1>2
<1>4. IsFiniteSet(events'[k]) BY LiveKept, FS_AddElement
<1>5. Live(k)' = events'[k]
  <2>1. backend' = "redis" => ~(clock' > expiry'[k]) BY <1>1
  <2>2. Unexpired(k)' = events'[k] BY <2>1 DEF Unexpired
  <2>3. \A e \in events'[k] : e.at > clock' - WindowOf[k] BY <1>1 DEF Live
  <2> QED BY <2>2, <2>3 DEF Live
<1>6. Remembered(k)' \subseteq Live(k)'
  <2> SUFFICES ASSUME NEW e \in Remembered(k)' PROVE e \in events'[k]
    BY <1>5
  <2>1. CASE e = New BY <2>1
  <2>2. CASE e # New
    <3>1. e \in Remembered(k) BY <2>2 DEF Remembered
    <3> QED BY <3>1 DEF Accounted
  <2> QED BY <2>1, <2>2
<1>7. Cardinality(Live(k)') <= LimitOf[k]
  <2>1. Cardinality(events'[k]) <= Cardinality(Live(k)) + 1 /\ Cardinality(events'[k]) \in Nat
    <3>1. Cardinality(Live(k) \cup {New})
            = IF New \in Live(k) THEN Cardinality(Live(k)) ELSE Cardinality(Live(k)) + 1
      BY LiveKept, FS_AddElement
    <3> QED BY <3>1, LiveKept
  <2>2. Cardinality(Live(k)) < LimitOf[k] /\ LimitOf[k] \in Int BY LiveKept DEF Full
  <2> QED BY <2>1, <2>2, <1>5, LiveKept
<1> QED BY <1>2, <1>3, <1>4, <1>6, <1>7 DEF Accounted

(* Time passes: what no longer counts is not remembered either.              *)
LEMMA TickKeeps ==
  ASSUME Kinds, NEW k \in Keys, Accounted(k), Tick
  PROVE  Accounted(k)'
<1> USE Constants DEF Tick
<1>0. clock' = clock + 1 /\ clock \in Nat /\ WindowOf[k] \in Int /\ expiry[k] \in Int
  BY DEF Kinds
<1>1. \A e \in events[k] : e.at \in Nat /\ e.at <= clock BY DEF Accounted, Kinds, Stamp
<1>2. Live(k)' \subseteq Live(k) BY <1>0, <1>1 DEF Live, Unexpired
<1>3. Remembered(k)' \subseteq Live(k)'
  <2> SUFFICES ASSUME NEW e \in Remembered(k)' PROVE e \in Live(k)'
    OBVIOUS
  <2>1. e.at \in Nat BY DEF Remembered, Kinds, Stamp
  <2>2. e \in Remembered(k) /\ e.at > clock' - WindowOf[k] BY <2>1, <1>0 DEF Remembered
  <2>3. e \in events[k] BY <2>2, LiveKept DEF Accounted
  <2>4. backend = "redis" => ~(clock' > expiry[k]) BY <2>1, <2>2, <2>3, <1>0 DEF Accounted
  <2>5. e \in Unexpired(k)' BY <2>3, <2>4 DEF Unexpired
  <2> QED BY <2>2, <2>5 DEF Live
<1>4. Cardinality(Live(k)') <= Cardinality(Live(k)) /\ Cardinality(Live(k)') \in Nat
  BY <1>2, LiveKept, FS_Subset, FS_CardinalityType
<1>5. Limited(k)' => Cardinality(Live(k)') <= LimitOf[k]
  <2>1. Limited(k)' => Cardinality(Live(k)) <= LimitOf[k] BY DEF Accounted, Limited
  <2> QED BY <2>1, <1>4, LiveKept
<1>6. \A e \in events'[k] : e.at <= clock' BY <1>0, <1>1
<1> QED BY <1>3, <1>5, <1>6 DEF Accounted

(* A key that an answer to another key leaves alone.                         *)
LEMMA OtherKeeps ==
  ASSUME Kinds, Kinds', NEW k \in Keys, Accounted(k), UNCHANGED <<backend, clock>>, Lost,
         events'[k] = events[k], expiry'[k] = expiry[k], granted'[k] = granted[k]
  PROVE  Accounted(k)'
<1>1. forgotten'[k] = forgotten[k] \cup (Live(k) \ events'[k]) BY DEF Lost
<1> QED BY <1>1, DropKeeps

(* The number of a call is a positive number, and no call has it again.      *)
LEMMA NthKind ==
  ASSUME Kinds
  PROVE  /\ Nth \in Nat \ {0} /\ New \in Stamp
         /\ left'["call"] = left["call"] - 1 => Nth' = Nth + 1
         /\ UNCHANGED left => Nth' = Nth
<1>1. "call" \in Events /\ Budget["call"] \in Nat /\ left["call"] \in Nat
  BY RateLimiterAssumption DEF Events, Kinds
<1> QED BY <1>1 DEF Nth, New, Stamp, Kinds

(* The events that count are events.                                         *)
LEMMA LiveKind == ASSUME Kinds, NEW k \in Keys PROVE Live(k) \in SUBSET Stamp
BY DEF Live, Unexpired, Kinds

(* What is left stays within the budget.                                     *)
LEMMA SpendKind ==
  ASSUME Kinds, NEW e \in Events, Spend(e)
  PROVE  /\ left' \in [Events -> Nat] /\ left'["call"] <= Budget["call"]
         /\ e = "call" => left'["call"] = left["call"] - 1
         /\ e # "call" => left'["call"] = left["call"]
BY RateLimiterAssumption DEF Spend, Kinds, Events

(* The history of what was dropped is one of events.                         *)
LEMMA LostKind == ASSUME Kinds, Lost PROVE forgotten' \in [Keys -> SUBSET Stamp]
BY LiveKind DEF Lost, Kinds

(* Every step keeps the kinds of what is counted.                            *)
LEMMA KindsStep == ASSUME Kinds, [Next]_vars PROVE Kinds'
<1>0. "call" \in Events /\ "restart" \in Events /\ "timeout" \in Events BY DEF Events
<1>1. CASE Tick BY <1>1 DEF Tick, Kinds
<1>2. CASE Restart BY <1>2, <1>0, SpendKind, LostKind DEF Restart, Kinds
<1>3. CASE UNCHANGED vars BY <1>3 DEF vars, Kinds
<1>4. ASSUME NEW k \in Keys, AllowUnlimited(k) PROVE Kinds'
  BY <1>4 DEF AllowUnlimited, Kinds
<1>5. ASSUME NEW k \in Keys, Local(k) PROVE
        /\ left' \in [Events -> Nat] /\ left'["call"] <= Budget["call"]
        /\ asked' \in [Keys -> Nat] /\ UNCHANGED <<backend, clock, expiry>>
  BY <1>5, <1>0, SpendKind, NthKind DEF Local, Kinds
<1>6. ASSUME NEW k \in Keys, Grant(k) \/ Refuse(k) PROVE
        granted' \in [Keys -> SUBSET Stamp] /\ forgotten' \in [Keys -> SUBSET Stamp]
  BY <1>6, LostKind, NthKind DEF Grant, Refuse, Kinds
<1>7. ASSUME NEW k \in Keys, LocalFirst(k) PROVE Kinds'
  <2>1. \A x \in Keys : {New} \in SUBSET Stamp /\ Live(x) \in SUBSET Stamp
    BY NthKind, LiveKind
  <2>2. events' \in [Keys -> SUBSET Stamp] BY <1>7, <2>1 DEF LocalFirst
  <2>3. place' \in [Keys -> Nat] BY <1>7, NthKind DEF LocalFirst, Kinds
  <2> QED BY <1>5, <1>6, <1>7, <2>2, <2>3 DEF LocalFirst, Kinds
<1>8. ASSUME NEW k \in Keys, LocalAgain(k) PROVE Kinds'
  BY <1>8, <1>5, <1>6, NthKind, LiveKind DEF LocalAgain, MoveToEnd, Kinds
<1>9. ASSUME NEW k \in Keys, LocalDeny(k) PROVE Kinds'
  BY <1>9, <1>5, <1>6, NthKind, LiveKind DEF LocalDeny, MoveToEnd, Kinds
<1>10. ASSUME NEW k \in Keys, Limited(k), Counted(k) PROVE
        events' \in [Keys -> SUBSET Stamp] /\ expiry' \in [Keys -> Nat]
  <2>1. {New} \in SUBSET Stamp /\ Live(k) \in SUBSET Stamp BY NthKind, LiveKind
  <2>2. Live(k) \cup {New} \in SUBSET Stamp BY <2>1
  <2>3. clock + WindowOf[k] \in Nat BY <1>10, Constants DEF Kinds, Limited
  <2> QED BY <1>10, <2>2, <2>3 DEF Counted, Kinds
<1>11. ASSUME NEW k \in Keys, Pruned(k) PROVE
        events' \in [Keys -> SUBSET Stamp] /\ expiry' \in [Keys -> Nat]
  BY <1>11, LiveKind DEF Pruned, Kinds
<1>12. ASSUME NEW k \in Keys, RedisAllow(k) PROVE Kinds'
  BY <1>12, <1>6, <1>10, <1>0, SpendKind DEF RedisAllow, Redis, Kinds
<1>13. ASSUME NEW k \in Keys, RedisDeny(k) PROVE Kinds'
  BY <1>13, <1>6, <1>11, <1>0, SpendKind DEF RedisDeny, Redis, Kinds
<1>14. ASSUME NEW k \in Keys, RedisRaises(k) PROVE Kinds'
  <2>1. left' \in [Events -> Nat] /\ left'["call"] <= Budget["call"]
    <3>1. Budget["call"] \in Nat /\ left["call"] \in Nat /\ left["timeout"] \in Nat
      BY <1>0, RateLimiterAssumption DEF Kinds
    <3>2. left' = [left EXCEPT !["call"] = left["call"] - 1, !["timeout"] = left["timeout"] - 1]
      BY <1>14 DEF RedisRaises
    <3>3. left["call"] - 1 \in Nat /\ left["timeout"] - 1 \in Nat
      BY <1>14, <3>1 DEF RedisRaises
    <3>4. left' \in [Events -> Nat]
      BY <3>2, <3>3 DEF Kinds
    <3>5. left'["call"] = left["call"] - 1
      BY <3>2, <1>0 DEF Kinds
    <3> QED BY <3>1, <3>4, <3>5 DEF Kinds
  <2>2. events' \in [Keys -> SUBSET Stamp] /\ expiry' \in [Keys -> Nat]
    BY <1>14, <1>10, <1>11 DEF RedisRaises, Kinds
  <2> QED BY <1>14, <2>1, <2>2, LostKind DEF RedisRaises, Kinds
<1> QED
  BY <1>1, <1>2, <1>3, <1>4, <1>7, <1>8, <1>9, <1>12, <1>13, <1>14 DEF Next

(* The local limiter keeps the account of every key.                         *)
LEMMA LocalKeeps ==
  ASSUME WindowInv, Kinds', NEW k \in Keys, NEW x \in Keys,
         LocalFirst(k) \/ LocalAgain(k) \/ LocalDeny(k)
  PROVE  Accounted(x)'
<1>0. /\ Kinds /\ Accounted(x) /\ Accounted(k) /\ Limited(k) /\ backend = "local"
      /\ UNCHANGED <<backend, clock, expiry>>
  BY DEF WindowInv, LocalFirst, LocalAgain, LocalDeny, Local
<1>l. Lost BY DEF LocalFirst, LocalAgain, LocalDeny, Grant, Refuse
<1>f. forgotten'[x] = forgotten[x] \cup (Live(x) \ events'[x]) BY <1>l DEF Lost
<1>1. CASE LocalFirst(k)
  <2>1. CASE x = k
    <3>1. events'[k] = {New} BY <1>1 DEF LocalFirst
    <3>2. ~Full(k)
      <4>1. Live(k) = {} /\ Cardinality({}) = 0 BY <1>1, FS_EmptySet DEF LocalFirst
      <4> QED BY <4>1, <1>0, Constants DEF Full, Limited
    <3>3. events'[k] = Live(k) \cup {New} BY <3>1, <1>1 DEF LocalFirst
    <3>4. granted'[k] \subseteq granted[k] \cup {New}
      BY <1>1, <1>0 DEF LocalFirst, Grant, Kinds
    <3> QED BY <3>2, <3>3, <3>4, <2>1, <1>0, <1>f, AdmitKeeps
  <2>2. CASE x # k
    <3>1. events'[x] \subseteq Live(x) BY <1>1, <2>2 DEF LocalFirst
    <3>2. events'[x] \subseteq events[x] BY <3>1, <1>0, LiveKept
    <3>3. granted'[x] = granted[x] BY <1>1, <1>0, <2>2 DEF LocalFirst, Grant, Kinds
    <3> QED BY <3>2, <3>3, <1>0, <1>f, DropKeeps
  <2> QED BY <2>1, <2>2
<1>2. CASE LocalAgain(k)
  <2>1. CASE x = k
    <3>1. ~Full(k) /\ events'[k] = Live(k) \cup {New} BY <1>2, <1>0 DEF LocalAgain, Kinds
    <3>2. granted'[k] \subseteq granted[k] \cup {New}
      BY <1>2, <1>0 DEF LocalAgain, Grant, Kinds
    <3> QED BY <3>1, <3>2, <2>1, <1>0, <1>f, AdmitKeeps
  <2>2. CASE x # k
    <3>1. events'[x] = events[x] /\ granted'[x] = granted[x]
      BY <1>2, <1>0, <2>2 DEF LocalAgain, Grant, Kinds
    <3> QED BY <3>1, <1>0, <1>l, OtherKeeps
  <2> QED BY <2>1, <2>2
<1>3. CASE LocalDeny(k)
  <2>1. granted'[x] = granted[x] BY <1>3 DEF LocalDeny, Refuse
  <2>2. events'[x] \subseteq events[x]
    BY <1>3, <1>0, LiveKept DEF LocalDeny, Kinds
  <2> QED BY <2>1, <2>2, <1>0, <1>f, DropKeeps
<1> QED BY <1>1, <1>2, <1>3

(* So does Redis, whether or not its answer arrives.                         *)
LEMMA RedisKeeps ==
  ASSUME WindowInv, Kinds', NEW k \in Keys, NEW x \in Keys,
         RedisAllow(k) \/ RedisDeny(k) \/ RedisRaises(k)
  PROVE  Accounted(x)'
<1>0. /\ Kinds /\ Accounted(x) /\ Accounted(k) /\ Limited(k)
      /\ UNCHANGED <<backend, clock>>
  BY DEF WindowInv, RedisAllow, RedisDeny, RedisRaises, Redis
<1>l. Lost BY DEF RedisAllow, RedisDeny, RedisRaises, Grant, Refuse
<1>f. forgotten'[x] = forgotten[x] \cup (Live(x) \ events'[x]) BY <1>l DEF Lost
<1>g. granted'[x] \subseteq granted[x] \cup {New} /\ (x # k => granted'[x] = granted[x])
  BY <1>0 DEF RedisAllow, RedisDeny, RedisRaises, Grant, Refuse, Kinds
<1>1. CASE Counted(k)
  <2>1. CASE x = k
    <3>1. /\ ~Full(k) /\ events'[k] = Live(k) \cup {New}
          /\ expiry'[k] = clock + WindowOf[k]
      BY <1>1, <1>0 DEF Counted, Kinds
    <3> QED BY <3>1, <2>1, <1>0, <1>f, <1>g, AdmitKeeps
  <2>2. CASE x # k
    <3>1. events'[x] = events[x] /\ expiry'[x] = expiry[x]
      BY <1>1, <1>0, <2>2 DEF Counted, Kinds
    <3> QED BY <3>1, <2>2, <1>0, <1>l, <1>g, OtherKeeps
  <2> QED BY <2>1, <2>2
<1>2. CASE ~Counted(k)
  <2>1. granted' = granted BY <1>2 DEF RedisAllow, RedisDeny, RedisRaises, Refuse
  <2>2. Pruned(k) \/ UNCHANGED <<events, expiry>>
    BY <1>2 DEF RedisAllow, RedisDeny, RedisRaises
  <2>3. events'[x] \subseteq events[x] /\ expiry'[x] = expiry[x]
    BY <2>2, <1>0, LiveKept DEF Pruned, Kinds
  <2> QED BY <2>1, <2>3, <1>0, <1>f, DropKeeps
<1> QED BY <1>1, <1>2

LEMMA RestartKeeps ==
  ASSUME WindowInv, Kinds', NEW x \in Keys, Restart
  PROVE  Accounted(x)'
<1>1. /\ Kinds /\ Accounted(x) /\ UNCHANGED <<backend, clock>>
      /\ expiry'[x] = expiry[x] /\ granted'[x] = granted[x]
      /\ events'[x] = {} /\ Lost
  BY DEF WindowInv, Restart
<1>2. forgotten'[x] = forgotten[x] \cup (Live(x) \ events'[x]) BY <1>1 DEF Lost
<1> QED BY <1>1, <1>2, DropKeeps

LEMMA WindowInvStep == WindowInv /\ [Next]_vars => WindowInv'
<1> SUFFICES ASSUME WindowInv, [Next]_vars PROVE WindowInv'
  OBVIOUS
<1>0. Kinds' BY KindsStep DEF WindowInv
<1> SUFFICES ASSUME NEW x \in Keys PROVE Accounted(x)'
  BY <1>0 DEF WindowInv
<1>1. CASE Tick BY <1>1, TickKeeps DEF WindowInv
<1>2. CASE Restart BY <1>0, <1>2, RestartKeeps
<1>3. CASE UNCHANGED vars
  BY <1>3 DEF vars, WindowInv, Accounted, Remembered, Live, Unexpired, Limited
<1>4. ASSUME NEW k \in Keys, AllowUnlimited(k) PROVE Accounted(x)'
  BY <1>4 DEF AllowUnlimited, WindowInv, Accounted, Remembered, Live, Unexpired, Limited
<1>5. ASSUME NEW k \in Keys, LocalFirst(k) \/ LocalAgain(k) \/ LocalDeny(k)
      PROVE  Accounted(x)'
  BY <1>0, <1>5, LocalKeeps
<1>6. ASSUME NEW k \in Keys, RedisAllow(k) \/ RedisDeny(k) \/ RedisRaises(k)
      PROVE  Accounted(x)'
  BY <1>0, <1>6, RedisKeeps
<1> QED BY <1>1, <1>2, <1>3, <1>4, <1>5, <1>6 DEF Next

LEMMA WindowInvInit == Init => WindowInv
<1> SUFFICES ASSUME Init PROVE WindowInv
  OBVIOUS
<1>1. Kinds BY RateLimiterAssumption DEF Init, Kinds, Events
<1>2. ASSUME NEW k \in Keys PROVE Accounted(k)
  <2>1. events[k] = {} /\ granted[k] = {} BY DEF Init
  <2>2. Live(k) = {} /\ Remembered(k) = {} BY <2>1 DEF Live, Unexpired, Remembered
  <2>3. IsFiniteSet({}) /\ Cardinality({}) = 0 BY FS_EmptySet
  <2>4. Limited(k) => 0 <= LimitOf[k] BY Constants DEF Limited
  <2> QED BY <2>1, <2>2, <2>3, <2>4 DEF Accounted
<1> QED BY <1>1, <1>2 DEF WindowInv

(* Whichever backend counts them, and whatever is dropped on the way, no     *)
(* more requests of a key that it remembers are admitted within a window     *)
(* than the limit of that key.                                               *)
THEOREM WindowBounded == Spec => []WindowBound
<1>1. WindowInv => WindowBound
  <2> SUFFICES ASSUME WindowInv, NEW k \in Keys, Limited(k)
               PROVE  Cardinality(Remembered(k)) <= LimitOf[k]
    BY DEF WindowBound
  <2>1. Accounted(k) BY DEF WindowInv
  <2>2. /\ Cardinality(Remembered(k)) \in Nat
        /\ Cardinality(Remembered(k)) <= Cardinality(Live(k))
    BY <2>1, LiveKept, FS_Subset, FS_CardinalityType DEF Accounted
  <2> QED BY <2>1, <2>2, LiveKept, Constants DEF Accounted
<1> QED BY <1>1, WindowInvInit, WindowInvStep, PTL DEF Spec

-----------------------------------------------------------------------------
(* The dictionary of the local limiter *)

Held == {k \in Keys : place[k] # 0}

\* A bucket is where its key was last asked for.
Ordered ==
  /\ \A k \in Keys : place[k] \in {0, asked[k]} /\ asked[k] < Nth
  /\ \A k, l \in Keys : asked[k] = asked[l] /\ asked[k] # 0 => k = l

Roomy == IsFiniteSet(Held) /\ Cardinality(Held) <= MaxKeys

\* Every event that is kept is in a bucket, and is of an earlier call.
Bucketed ==
  \A k \in Keys :
    /\ backend = "local" /\ events[k] # {} => place[k] # 0
    /\ \A e \in events[k] : e.nr < Nth

Dictionary == Ordered /\ Roomy /\ Bucketed

(* Some number of a set of natural numbers is the least.                     *)
LEMMA LeastNumber ==
  ASSUME NEW T, T \subseteq Nat, T # {}
  PROVE  \E n \in T : \A m \in T : n <= m
<1> DEFINE R == OpToRel(<, Nat)
<1>1. \E n \in T : \A m \in T : ~(<<m, n>> \in R)
  <2> HIDE DEF R
  <2>1. IsWellFoundedOn(R, Nat) BY NatLessThanWellFounded DEF R
  <2> QED BY <2>1, WFMin
<1>2. PICK n \in T : \A m \in T : ~(<<m, n>> \in R) BY <1>1
<1>3. \A m \in T : m \in Nat /\ n \in Nat /\ ~(m < n)
  BY <1>2 DEF OpToRel
<1> QED BY <1>3

(* There is room for the bucket of k in what _make_room leaves, and at most  *)
(* one key that has events, the one used least recently, gave way to it.     *)
LEMMA RoomFits ==
  ASSUME Kinds, Dictionary, NEW k \in Keys
  PROVE  /\ Room(k) \subseteq Crowd(k) /\ Crowd(k) \subseteq Held \ {k}
         /\ IsFiniteSet(Crowd(k)) /\ Cardinality(Crowd(k)) \in Nat
         /\ IsFiniteSet(Room(k) \cup {k}) /\ Cardinality(Room(k) \cup {k}) <= MaxKeys
         /\ \A x \in Crowd(k) \ Room(k) :
              /\ Cardinality(Crowd(k)) >= MaxKeys
              /\ \A y \in Crowd(k) \ {x} : place[x] < place[y] /\ y \in Room(k)
<1> DEFINE C == Crowd(k)
<1>0. MaxKeys \in Nat /\ MaxKeys > 0 BY RateLimiterAssumption
<1>1. C \subseteq Held \ {k} BY DEF Crowd, Held
<1>2. /\ IsFiniteSet(C) /\ Cardinality(C) \in Nat /\ Cardinality(C) <= MaxKeys
  <2>1. Cardinality(Held) \in Nat /\ Cardinality(Held) <= MaxKeys /\ IsFiniteSet(Held)
    BY FS_CardinalityType DEF Dictionary, Roomy
  <2>2. IsFiniteSet(C) /\ Cardinality(C) <= Cardinality(Held) BY <1>1, <2>1, FS_Subset
  <2> QED BY <2>1, <2>2, <1>0, FS_CardinalityType
<1>3. \A x \in C : place[x] \in Nat \ {0} BY DEF Crowd, Kinds
<1>4. Room(k) \subseteq C BY DEF Room
<1>5. IsFiniteSet(Room(k)) /\ Cardinality(Room(k)) \in Nat
  BY <1>2, <1>4, FS_Subset, FS_CardinalityType
<1>6. k \notin Room(k) BY <1>1, <1>4
<1>7. /\ IsFiniteSet(Room(k) \cup {k})
      /\ Cardinality(Room(k) \cup {k}) = Cardinality(Room(k)) + 1
  BY <1>5, <1>6, FS_AddElement
<1>8. Cardinality(Room(k)) < MaxKeys
  <2>1. CASE Cardinality(C) < MaxKeys BY <2>1 DEF Room
  <2>2. CASE ~(Cardinality(C) < MaxKeys)
    <3>1. Cardinality(C) = MaxKeys BY <2>2, <1>2, <1>0
    <3>2. C # {} BY <3>1, <1>0, FS_EmptySet
    <3> DEFINE T == {place[x] : x \in C}
    <3>3. T \subseteq Nat /\ T # {} BY <1>3, <3>2
    <3>4. PICK m \in C : \A y \in C : place[m] <= place[y]
      <4> HIDE DEF T
      <4>1. PICK n \in T : \A t \in T : n <= t BY <3>3, LeastNumber
      <4> QED BY <4>1 DEF T
    <3>5. m \notin Room(k)
      <4>1. \A y \in C : ~(place[y] < place[m]) BY <3>4, <1>3
      <4> QED BY <4>1, <2>2 DEF Room
    <3>6. Room(k) \subseteq C \ {m} BY <1>4, <3>5
    <3>7. IsFiniteSet(C \ {m}) /\ Cardinality(C \ {m}) = Cardinality(C) - 1
      BY <1>2, FS_RemoveElement
    <3>8. Cardinality(Room(k)) <= Cardinality(C \ {m}) BY <3>6, <3>7, FS_Subset
    <3> QED BY <3>1, <3>7, <3>8, <1>0, <1>5
  <2> QED BY <2>1, <2>2
<1>9. ASSUME NEW x \in C \ Room(k)
      PROVE  /\ Cardinality(C) >= MaxKeys
             /\ \A y \in C \ {x} : place[x] < place[y] /\ y \in Room(k)
  <2>1. ~(Cardinality(C) < MaxKeys) BY <1>9 DEF Room
  <2>2. \A y \in C : ~(place[y] < place[x]) BY <1>9, <2>1 DEF Room
  <2>3. \A y \in C \ {x} : place[x] # place[y]
    BY <1>3, <1>9 DEF Dictionary, Ordered, Crowd
  <2>4. \A y \in C \ {x} : place[x] < place[y] BY <2>2, <2>3, <1>3
  <2>5. \A y \in C \ {x} : y \in Room(k) BY <2>4, <2>1, <1>9 DEF Room
  <2> QED BY <2>1, <2>4, <2>5, <1>2, <1>0
<1> QED BY <1>1, <1>2, <1>4, <1>7, <1>8, <1>9, <1>5, <1>0


(* Steps that ask the local limiter nothing, and keep some of the events or  *)
(* add the one of this call.                                                 *)
LEMMA DictionaryFrame ==
  ASSUME Kinds, Dictionary, UNCHANGED <<backend, place, asked>>, Nth' \in Nat, Nth <= Nth',
         \A k \in Keys :
           \/ events'[k] \subseteq events[k]
           \/ /\ events'[k] \subseteq events[k] \cup {New} /\ Nth' = Nth + 1
              /\ backend = "redis"
  PROVE  Dictionary'
<1>1. Ordered' BY NthKind DEF Dictionary, Ordered, Kinds
<1>2. Roomy'
  <2>1. Held' = Held BY DEF Held
  <2> QED BY <2>1 DEF Dictionary, Roomy
<1>3. Bucketed'
  <2> SUFFICES ASSUME NEW k \in Keys
               PROVE  /\ backend' = "local" /\ events'[k] # {} => place'[k] # 0
                      /\ \A e \in events'[k] : e.nr < Nth'
    BY DEF Bucketed
  <2>1. \A e \in events[k] : e.nr \in Nat /\ e.nr < Nth
    BY DEF Dictionary, Bucketed, Kinds, Stamp
  <2>2. New.nr = Nth /\ Nth \in Nat BY NthKind DEF New
  <2> QED BY <2>1, <2>2 DEF Dictionary, Bucketed
<1> QED BY <1>1, <1>2, <1>3 DEF Dictionary

(* The key that is asked for goes to the end.                                *)
LEMMA AskedLast ==
  ASSUME Kinds, Dictionary, NEW k \in Keys, Nth' = Nth + 1,
         asked' = [asked EXCEPT ![k] = Nth],
         place' \in [Keys -> Nat], place'[k] = Nth,
         \A x \in Keys \ {k} : place'[x] \in {0, place[x]}
  PROVE  Ordered'
<1>1. Nth \in Nat \ {0} BY NthKind
<1>2. \A x \in Keys : /\ asked[x] \in Nat /\ asked[x] < Nth /\ place[x] \in {0, asked[x]}
                      /\ asked'[x] = IF x = k THEN Nth ELSE asked[x]
  BY DEF Kinds, Dictionary, Ordered
<1>3. \A x, y \in Keys : asked[x] = asked[y] /\ asked[x] # 0 => x = y
  BY DEF Dictionary, Ordered
<1>4. \A x \in Keys : place'[x] \in {0, asked'[x]} /\ asked'[x] < Nth' BY <1>1, <1>2
<1>5. \A x, y \in Keys : asked'[x] = asked'[y] /\ asked'[x] # 0 => x = y
  BY <1>1, <1>2, <1>3
<1> QED BY <1>4, <1>5 DEF Ordered

(* A first event gets a bucket in the room that was made.                    *)
LEMMA FirstKeeps ==
  ASSUME Kinds, Kinds', Dictionary, NEW k \in Keys, LocalFirst(k)
  PROVE  Dictionary'
<1>1. Nth \in Nat \ {0} /\ Nth' = Nth + 1 /\ New.nr = Nth
  BY NthKind, SpendKind DEF LocalFirst, Local, Events, New
<1>2. /\ place' = [x \in Keys |-> IF x = k THEN Nth ELSE IF x \in Room(k) THEN place[x] ELSE 0]
      /\ events' = [x \in Keys |-> IF x = k THEN {New}
                                   ELSE IF x \in Room(k) THEN Live(x) ELSE {}]
      /\ asked' = [asked EXCEPT ![k] = Nth] /\ UNCHANGED backend
  BY DEF LocalFirst, Local
<1>3. Room(k) \subseteq Held \ {k} BY RoomFits
<1>4. Ordered'
  <2>1. place'[k] = Nth /\ \A x \in Keys \ {k} : place'[x] \in {0, place[x]} BY <1>2
  <2>2. place' \in [Keys -> Nat] BY DEF Kinds
  <2> QED BY <1>1, <1>2, <2>1, <2>2, AskedLast
<1>5. Roomy'
  <2>1. Held' = Room(k) \cup {k} BY <1>1, <1>2, <1>3 DEF Held
  <2> QED BY <2>1, RoomFits DEF Roomy
<1>6. Bucketed'
  <2> SUFFICES ASSUME NEW x \in Keys
               PROVE  /\ backend' = "local" /\ events'[x] # {} => place'[x] # 0
                      /\ \A e \in events'[x] : e.nr < Nth'
    BY DEF Bucketed
  <2>1. \A e \in Live(x) : e.nr \in Nat /\ e.nr < Nth
    BY DEF Live, Unexpired, Dictionary, Bucketed, Kinds, Stamp
  <2> QED BY <1>1, <1>2, <1>3, <2>1 DEF Held
<1> QED BY <1>4, <1>5, <1>6 DEF Dictionary

(* A bucket with an event that counts is moved to the end.                   *)
LEMMA AgainKeeps ==
  ASSUME Kinds, Kinds', Dictionary, NEW k \in Keys, Accounted(k),
         LocalAgain(k) \/ LocalDeny(k)
  PROVE  Dictionary'
<1>1. Nth \in Nat \ {0} /\ Nth' = Nth + 1 /\ New.nr = Nth
  BY NthKind, SpendKind DEF LocalAgain, LocalDeny, Local, Events, New
<1>2. /\ place' = [place EXCEPT ![k] = Nth] /\ asked' = [asked EXCEPT ![k] = Nth]
      /\ UNCHANGED backend /\ backend = "local" /\ Limited(k)
      /\ \/ events' = [events EXCEPT ![k] = Live(k) \cup {New}]
         \/ events' = [events EXCEPT ![k] = Live(k)]
  BY DEF LocalAgain, LocalDeny, Local, MoveToEnd
<1>3. Live(k) # {}
  <2>1. CASE LocalAgain(k) BY <2>1 DEF LocalAgain
  <2>2. CASE LocalDeny(k)
    <3>1. Cardinality(Live(k)) >= LimitOf[k] /\ LimitOf[k] > 0 /\ LimitOf[k] \in Int
      BY <1>2, <2>2, Constants DEF LocalDeny, Full, Limited
    <3> QED BY <3>1, FS_EmptySet
  <2> QED BY <2>1, <2>2
<1>4. place[k] # 0 BY <1>2, <1>3, LiveKept DEF Dictionary, Bucketed
<1>5. Ordered'
  <2>1. place'[k] = Nth /\ \A x \in Keys \ {k} : place'[x] \in {0, place[x]}
    BY <1>2 DEF Kinds
  <2>2. place' \in [Keys -> Nat] BY DEF Kinds
  <2> QED BY <1>1, <1>2, <2>1, <2>2, AskedLast
<1>6. Roomy'
  <2>1. Held' = Held BY <1>1, <1>2, <1>4 DEF Held, Kinds
  <2> QED BY <2>1 DEF Dictionary, Roomy
<1>7. Bucketed'
  <2> SUFFICES ASSUME NEW x \in Keys
               PROVE  /\ events'[x] # {} => place'[x] # 0
                      /\ \A e \in events'[x] : e.nr < Nth'
    BY DEF Bucketed
  <2>1. \A e \in events[x] : e.nr \in Nat /\ e.nr < Nth
    BY DEF Dictionary, Bucketed, Kinds, Stamp
  <2>2. events'[x] \subseteq events[x] \cup {New} /\ (x # k => events'[x] = events[x])
    BY <1>2, LiveKept DEF Kinds
  <2>3. place'[x] = IF x = k THEN Nth ELSE place[x] BY <1>2 DEF Kinds
  <2> QED BY <1>1, <1>2, <2>1, <2>2, <2>3 DEF Dictionary, Bucketed
<1> QED BY <1>5, <1>6, <1>7 DEF Dictionary

(* Redis keeps no dictionary.                                                *)
LEMMA RedisNotes ==
  ASSUME WindowInv, Dictionary, NEW k \in Keys,
         RedisAllow(k) \/ RedisDeny(k) \/ RedisRaises(k)
  PROVE  Dictionary'
<1>0. Kinds /\ Accounted(k) /\ backend = "redis" /\ UNCHANGED <<backend, place, asked>>
  BY DEF WindowInv, RedisAllow, RedisDeny, RedisRaises, Redis
<1>1. left'["call"] = left["call"] - 1
  <2>1. CASE RedisRaises(k) BY <2>1, <1>0 DEF RedisRaises, Kinds, Events
  <2> QED BY <2>1, <1>0, SpendKind DEF RedisAllow, RedisDeny, Redis, Events
<1>2. Nth \in Nat /\ Nth' = Nth + 1 BY <1>0, <1>1, NthKind
<1>3. \A x \in Keys : events'[x] \subseteq events[x] \cup {New}
  BY <1>0, LiveKept DEF RedisAllow, RedisDeny, RedisRaises, Counted, Pruned, Kinds
<1> QED BY <1>0, <1>2, <1>3, DictionaryFrame

LocalInv == WindowInv /\ Dictionary

(* All that the answers rely on is invariant.                                *)
LEMMA LocalInvCorrect == Spec => []LocalInv
<1>1. Init => LocalInv
  <2> SUFFICES ASSUME Init PROVE Dictionary
    BY WindowInvInit DEF LocalInv
  <2>1. Nth = 1 BY RateLimiterAssumption DEF Init, Nth, Events
  <2>2. Held = {} BY DEF Init, Held
  <2>3. Roomy BY <2>2, FS_EmptySet, RateLimiterAssumption DEF Roomy
  <2> QED BY <2>1, <2>3 DEF Init, Dictionary, Ordered, Bucketed
<1>2. LocalInv /\ [Next]_vars => LocalInv'
  <2> SUFFICES ASSUME LocalInv, [Next]_vars PROVE Dictionary'
    BY WindowInvStep DEF LocalInv
  <2>0. Kinds /\ Kinds' /\ Dictionary /\ WindowInv BY KindsStep DEF LocalInv, WindowInv
  <2>1. CASE Tick \/ UNCHANGED vars \/ \E k \in Keys : AllowUnlimited(k)
    <3>1. UNCHANGED <<backend, place, asked, left, events>>
      BY <2>1 DEF Tick, vars, AllowUnlimited
    <3>2. Nth \in Nat /\ Nth' = Nth BY <2>0, <3>1, NthKind
    <3> QED BY <2>0, <3>1, <3>2, DictionaryFrame
  <2>2. CASE Restart
    <3>1. Nth' = Nth
      BY <2>0, <2>2, SpendKind DEF Restart, Nth, Events
    <3>2. Held' = {} BY <2>2 DEF Restart, Held
    <3>3. Roomy' BY <3>2, FS_EmptySet, RateLimiterAssumption DEF Roomy
    <3>4. Bucketed' BY <2>2 DEF Restart, Bucketed
    <3>5. Ordered' BY <2>0, <2>2, <3>1 DEF Restart, Dictionary, Ordered
    <3> QED BY <3>3, <3>4, <3>5 DEF Dictionary
  <2>3. ASSUME NEW k \in Keys, LocalFirst(k) PROVE Dictionary'
    BY <2>0, <2>3, FirstKeeps
  <2>4. ASSUME NEW k \in Keys, LocalAgain(k) \/ LocalDeny(k) PROVE Dictionary'
    BY <2>0, <2>4, AgainKeeps DEF WindowInv
  <2>5. ASSUME NEW k \in Keys, RedisAllow(k) \/ RedisDeny(k) \/ RedisRaises(k)
        PROVE  Dictionary'
    BY <2>0, <2>5, RedisNotes
  <2> QED BY <2>1, <2>2, <2>3, <2>4, <2>5 DEF Next
<1> QED BY <1>1, <1>2, PTL DEF Spec

(* The local limiter forgets admissions that count only if MaxKeys keys have *)
(* some, and then those of the key that was not asked for the longest time;  *)
(* an answer of Redis never forgets any.                                     *)
THEOREM EvictionIsOfLeastRecent == Spec => EvictsLeastRecent
<1> DEFINE Due(k) ==
      /\ backend = "local"
      /\ Cardinality({x \in Keys : Live(x) # {}}) >= MaxKeys
      /\ \A x \in Keys \ {k} : Live(x) # {} => asked[k] < asked[x]
<1>1. LocalInv /\ [Next]_vars =>
        [\A k \in Keys : forgotten'[k] # forgotten[k] /\ UNCHANGED left["restart"] => Due(k)]_vars
  <2> SUFFICES ASSUME LocalInv, Next, NEW x \in Keys,
                      forgotten'[x] # forgotten[x], UNCHANGED left["restart"]
               PROVE  Due(x)
    OBVIOUS
  <2>0. Kinds /\ Dictionary /\ \A k \in Keys : Accounted(k) BY DEF LocalInv, WindowInv
  <2>1. ~Restart BY <2>0 DEF Restart, Spend, Kinds, Events
  <2>2. Lost /\ \E e \in Live(x) : e \notin events'[x]
    <3>1. Lost
      BY <2>1 DEF Next, Tick, AllowUnlimited, LocalFirst, LocalAgain, LocalDeny,
                  RedisAllow, RedisDeny, RedisRaises, Grant, Refuse
    <3> QED BY <3>1 DEF Lost
  <2>3. Live(x) \subseteq events[x] BY <2>0, LiveKept
  <2>4. PICK k \in Keys : LocalFirst(k)
    <3>1. ASSUME NEW k \in Keys, LocalAgain(k) \/ LocalDeny(k) PROVE FALSE
      BY <2>0, <2>2, <2>3, <3>1 DEF LocalAgain, LocalDeny, Kinds
    <3>2. ASSUME NEW k \in Keys, RedisAllow(k) \/ RedisDeny(k) \/ RedisRaises(k) PROVE FALSE
      BY <2>0, <2>2, <2>3, <3>2 DEF RedisAllow, RedisDeny, RedisRaises, Counted, Pruned, Kinds
    <3> QED
      BY <2>1, <2>2, <2>3, <3>1, <3>2 DEF Next, Tick, AllowUnlimited
  <2>5. x \in Crowd(k) \ Room(k)
    <3>1. Live(k) = {} /\ backend = "local" BY <2>4 DEF LocalFirst, Local
    <3>2. x # k BY <2>2, <3>1
    <3>3. x \notin Room(k) BY <2>2, <2>4, <3>2 DEF LocalFirst
    <3>4. place[x] # 0 BY <2>0, <2>2, <2>3, <3>1 DEF Dictionary, Bucketed
    <3> QED BY <2>2, <3>2, <3>3, <3>4 DEF Crowd
  <2>6. {y \in Keys : Live(y) # {}} = Crowd(k)
    <3>1. Live(k) = {} /\ backend = "local" BY <2>4 DEF LocalFirst, Local
    <3>2. \A y \in Keys : Live(y) # {} => y # k /\ place[y] # 0
      BY <2>0, <3>1, LiveKept DEF Dictionary, Bucketed
    <3> QED BY <3>2 DEF Crowd
  <2>7. \A y \in Keys \ {x} : Live(y) # {} => asked[x] < asked[y]
    <3> SUFFICES ASSUME NEW y \in Keys \ {x}, Live(y) # {} PROVE asked[x] < asked[y]
      OBVIOUS
    <3>1. y \in Crowd(k) BY <2>6
    <3>2. place[x] < place[y] BY <2>0, <2>5, <3>1, RoomFits
    <3>3. place[x] = asked[x] /\ place[y] = asked[y]
      BY <2>0, <2>5, <3>1 DEF Crowd, Dictionary, Ordered
    <3> QED BY <3>2, <3>3
  <2>8. backend = "local" BY <2>4 DEF LocalFirst, Local
  <2> QED BY <2>0, <2>5, <2>6, <2>7, <2>8, RoomFits
<1> QED BY <1>1, LocalInvCorrect, PTL DEF Spec, EvictsLeastRecent


-----------------------------------------------------------------------------
(* What an answer says *)

(* Some event that counts is the oldest.                                     *)
LEMMA OldestFacts ==
  ASSUME Kinds, NEW k \in Keys, Live(k) # {}
  PROVE  /\ Oldest(k) \in Nat
         /\ \A e \in Live(k) : e.at \in Nat /\ Oldest(k) <= e.at
         /\ \E e \in Live(k) : e.at = Oldest(k)
<1> DEFINE T == {e.at : e \in Live(k)}
<1>1. \A e \in Live(k) : e.at \in Nat BY LiveKind DEF Stamp
<1>2. T \subseteq Nat /\ T # {} BY <1>1
<1>3. PICK n \in T : \A m \in T : n <= m
  <2> HIDE DEF T
  <2> QED BY <1>2, LeastNumber
<1>4. n \in T /\ \A e \in Live(k) : n <= e.at BY <1>3
<1>5. Oldest(k) \in T /\ \A e \in Live(k) : Oldest(k) <= e.at
  BY <1>4 DEF Oldest
<1> QED BY <1>1, <1>5

(* The seconds that are announced last until the oldest event has expired,   *)
(* and one less would not.                                                   *)
LEMMA RetryFacts ==
  ASSUME Kinds, NEW k \in Keys, Live(k) # {}
  PROVE  /\ RetryAfter(k) \in Nat /\ RetryAfter(k) >= 1
         /\ Oldest(k) <= clock + RetryAfter(k) * TicksPerSecond - WindowOf[k]
         /\ RetryAfter(k) > 1 =>
              Oldest(k) > clock + (RetryAfter(k) - 1) * TicksPerSecond - WindowOf[k]
<1> DEFINE T == TicksPerSecond
           a == Oldest(k) + WindowOf[k] - clock
           up == (a + T - 1) \div T
<1>1. clock \in Nat /\ WindowOf[k] \in Int /\ Oldest(k) \in Nat /\ T \in Nat \ {0}
  BY Constants, OldestFacts, RateLimiterAssumption DEF Kinds
<1>2. a \in Nat /\ a > 0
  <2>1. PICK e \in Live(k) : e.at = Oldest(k) BY OldestFacts
  <2>2. Oldest(k) > clock - WindowOf[k] BY <2>1 DEF Live
  <2> QED BY <2>2, <1>1
<1> HIDE DEF a
<1>3. a + T - 1 \in Nat /\ a + T - 1 >= T BY <1>1, <1>2
<1>4. up \in Nat /\ up * T \in Nat /\ up * T <= a + T - 1 /\ a + T - 1 < up * T + T
  <2> DEFINE b == a + T - 1
  <2>1. b \in Nat BY <1>3
  <2> HIDE DEF b, T
  <2>2. /\ (b \div T) \in Nat /\ (b \div T) * T \in Nat
        /\ (b \div T) * T <= b /\ b < (b \div T) * T + T
    BY <2>1, <1>1
  <2> QED BY <2>2 DEF b
<1>5. up >= 1
  <2>1. CASE up = 0 BY <2>1, <1>3, <1>4, <1>1
  <2> QED BY <2>1, <1>4
<1>6. RetryAfter(k) = up BY <1>4, <1>5 DEF RetryAfter, a
<1>7. (up - 1) * T = up * T - T
  <2> HIDE DEF up, T
  <2> QED BY <1>4, <1>1
<1>8. a <= up * T /\ (up - 1) * T < a
  <2> HIDE DEF up, T
  <2> QED BY <1>1, <1>2, <1>4, <1>7
<1> HIDE DEF up
<1> QED BY <1>1, <1>4, <1>5, <1>6, <1>7, <1>8 DEF a

Replied == reply \in Answer

(* Events, times and answers are of their kinds, and the local dictionary    *)
(* never holds more than MaxKeys keys.                                       *)
THEOREM TypeCorrect == Spec => []TypeOK
<1>1. Init => Replied BY RateLimiterAssumption DEF Init, Replied, Answer
<1>2. LocalInv /\ Replied /\ [Next]_vars => Replied'
  <2> SUFFICES ASSUME LocalInv, Replied, [Next]_vars PROVE Replied'
    OBVIOUS
  <2>1. ASSUME NEW k \in Keys, Limited(k), Full(k) PROVE RetryAfter(k) \in Nat
    <3>1. Cardinality(Live(k)) >= LimitOf[k] /\ LimitOf[k] > 0 /\ LimitOf[k] \in Int
      BY <2>1, Constants DEF Full, Limited
    <3>2. Live(k) # {} BY <3>1, FS_EmptySet
    <3> QED BY <3>2, RetryFacts DEF LocalInv, WindowInv
  <2>2. ASSUME NEW k \in Keys, LocalDeny(k) \/ RedisDeny(k) PROVE Replied'
    BY <2>1, <2>2
       DEF LocalDeny, RedisDeny, Local, Redis, Pruned, Refuse, Answered, Replied, Answer
  <2> QED
    BY <2>2 DEF Next, vars, Tick, Restart, AllowUnlimited, LocalFirst, LocalAgain,
                RedisAllow, RedisRaises, Grant, Answered, Replied, Answer
<1>3. LocalInv /\ Replied => TypeOK
  BY DEF LocalInv, WindowInv, Kinds, Dictionary, Roomy, Held, Replied, TypeOK
<1> QED BY <1>1, <1>2, <1>3, LocalInvCorrect, PTL DEF Spec

-----------------------------------------------------------------------------
(* Both limiters are sliding windows *)

(* A key whose events are left alone, or rid of expired ones, counts as      *)
(* before.                                                                   *)
LEMMA SameCount ==
  ASSUME NEW k \in Keys, UNCHANGED <<backend, clock>>, expiry'[k] = expiry[k],
         events'[k] = events[k] \/ events'[k] = Live(k)
  PROVE  Live(k)' = Live(k)
BY DEF Live, Unexpired

(* An admission is counted.                                                  *)
LEMMA OneMore ==
  ASSUME Kinds, NEW k \in Keys, Limited(k), UNCHANGED <<backend, clock>>,
         events'[k] = Live(k) \cup {New},
         backend = "redis" => expiry'[k] = clock + WindowOf[k]
  PROVE  Live(k)' = Live(k) \cup {New}
<1>1. New.at = clock /\ WindowOf[k] \in Int /\ WindowOf[k] > 0 /\ clock \in Nat
  BY Constants DEF New, Limited, Kinds
<1>2. backend' = "redis" => ~(clock' > expiry'[k]) BY <1>1
<1>3. Unexpired(k)' = events'[k] BY <1>2 DEF Unexpired
<1>4. \A e \in events'[k] : e.at > clock' - WindowOf[k] BY <1>1 DEF Live
<1> QED BY <1>3, <1>4 DEF Live


(* What will count at a later time.                                          *)
Then(k, time) == {e \in Live(k) : e.at > time - WindowOf[k]}

(* What RoomAt counts, and that it counts all of it now.                     *)
LEMMA RoomIs ==
  ASSUME NEW k \in Keys, Accounted(k)
  PROVE  /\ \A time : Window!RoomAt(k, time)
                        <=> Cardinality(Then(k, time)) < LimitOf[k]
         /\ Window!RoomAt(k, clock) <=> Cardinality(Live(k)) < LimitOf[k]
         /\ Window!RoomAt(k, clock) <=> ~Full(k)
<1>1. \A S : Window!Cardinality(S) = Cardinality(S) BY DEF Window!Cardinality, Cardinality
<1>2. [x \in Keys |-> Live(x)][k] = Live(k) OBVIOUS
<1>3. \A time : Window!RoomAt(k, time)
                  <=> Cardinality(Then(k, time)) < LimitOf[k]
  BY <1>1, <1>2 DEF Window!RoomAt, Window!Counting, Then
<1>4. Then(k, clock) = Live(k) BY DEF Then, Live
<1>5. Cardinality(Live(k)) \in Nat /\ LimitOf[k] \in Int BY LiveKept, Constants
<1> QED BY <1>3, <1>4, <1>5 DEF Full

(* The next event is none that is kept.                                      *)
LEMMA NewIsNew == ASSUME Kinds, Dictionary, NEW k \in Keys PROVE New \notin Live(k)
<1>1. \A e \in Live(k) : e.nr \in Nat /\ e.nr < Nth
  BY DEF Live, Unexpired, Dictionary, Bucketed, Kinds, Stamp
<1> QED BY <1>1, NthKind DEF New

(* An admission to a log, be it the present one or one without some key.     *)
LEMMA LoggedIs ==
  ASSUME Kinds, Dictionary, NEW k \in Keys, NEW old, old = [x \in Keys |-> old[x]],
         \A x \in Keys : Live(x)' = IF x = k THEN old[x] \cup {New} ELSE old[x]
  PROVE  Window!Logged(k, old)
<1>1. New.at = clock /\ New \notin Live(k) /\ New \in Live(k)'
  BY NewIsNew DEF New
<1>2. [x \in Keys |-> Live(x)'] = [old EXCEPT ![k] = @ \cup {New}] OBVIOUS
<1> QED BY <1>1, <1>2 DEF Window!Logged

(* One more event of k, and nothing else: in place of the limiters.          *)
LEMMA OneMoreLogged ==
  ASSUME Kinds, Dictionary, NEW k \in Keys, Limited(k), UNCHANGED <<backend, clock>>,
         events' = [events EXCEPT ![k] = Live(k) \cup {New}],
         backend = "redis" => expiry'[k] = clock + WindowOf[k],
         \A x \in Keys \ {k} : expiry'[x] = expiry[x]
  PROVE  Window!Logged(k, [x \in Keys |-> Live(x)])
<1>1. Live(k)' = Live(k) \cup {New} BY OneMore DEF Kinds
<1>2. \A x \in Keys \ {k} : Live(x)' = Live(x) BY SameCount DEF Kinds
<1> QED BY <1>1, <1>2, LoggedIs

(* The first event of a key in the local dictionary, which may evict a key.  *)
LEMMA FirstAllows ==
  ASSUME LocalInv, NEW k \in Keys, LocalFirst(k)
  PROVE  Window!Allow(k)
<1>0. /\ Kinds /\ Dictionary /\ Accounted(k) /\ Limited(k) /\ backend = "local"
      /\ UNCHANGED <<backend, clock, expiry>> /\ Live(k) = {}
  BY DEF LocalInv, WindowInv, LocalFirst, Local
<1>1. Window!RoomAt(k, clock)
  <2>1. Cardinality(Live(k)) < LimitOf[k] BY <1>0, FS_EmptySet, Constants DEF Limited
  <2> QED BY <1>0, <2>1, RoomIs
<1>2. Live(k)' = {New}
  <2>1. events'[k] = Live(k) \cup {New} BY <1>0 DEF LocalFirst
  <2> QED BY <1>0, <2>1, OneMore
<1>3. \A x \in Keys \ {k} : Live(x)' = IF x \in Room(k) THEN Live(x) ELSE {}
  <2> SUFFICES ASSUME NEW x \in Keys \ {k}
               PROVE  Live(x)' = IF x \in Room(k) THEN Live(x) ELSE {}
    OBVIOUS
  <2>1. CASE x \in Room(k)
    <3>1. events'[x] = Live(x) BY <2>1 DEF LocalFirst
    <3> QED BY <2>1, <3>1, <1>0, SameCount
  <2>2. CASE x \notin Room(k)
    <3>1. events'[x] = {} BY <2>2 DEF LocalFirst
    <3> QED BY <2>2, <3>1 DEF Live, Unexpired
  <2> QED BY <2>1, <2>2
<1>4. \A x \in Keys \ {k} : x \notin Crowd(k) => Live(x) = {}
  BY <1>0, LiveKept DEF Crowd, LocalInv, WindowInv, Dictionary, Bucketed
<1>5. Window!Answered(k, "allowed", 0) /\ UNCHANGED clock
  BY <1>0 DEF LocalFirst, Grant, Answered, Window!Answered
<1>6. CASE Crowd(k) \subseteq Room(k)
  <2>1. \A x \in Keys : Live(x)' = IF x = k THEN Live(x) \cup {New} ELSE Live(x)
    BY <1>0, <1>2, <1>3, <1>4, <1>6
  <2>2. Window!Logged(k, [x \in Keys |-> Live(x)]) BY <2>1, <1>0, LoggedIs
  <2> QED BY <1>1, <1>5, <2>2 DEF Window!Allow
<1>7. CASE ~(Crowd(k) \subseteq Room(k))
  <2>1. PICK z \in Crowd(k) : z \notin Room(k) BY <1>7
  <2>2. /\ Cardinality(Crowd(k)) >= MaxKeys /\ \A y \in Crowd(k) \ {z} : y \in Room(k)
        /\ Room(k) \subseteq Crowd(k) /\ z \in Keys \ {k}
    BY <1>0, <2>1, RoomFits DEF Crowd
  <2> DEFINE old == [[x \in Keys |-> Live(x)] EXCEPT ![z] = {}]
  <2>3. \A x \in Keys : Live(x)' = IF x = k THEN old[x] \cup {New} ELSE old[x]
    BY <1>0, <1>2, <1>3, <1>4, <2>1, <2>2
  <2>4. old = [x \in Keys |-> old[x]] OBVIOUS
  <2>5. Window!Logged(k, old)
    <3> HIDE DEF old
    <3> QED BY <2>3, <2>4, <1>0, LoggedIs
  <2>6. z \in Window!Evicted(k)
    <3>1. {y \in Keys : [x \in Keys |-> Live(x)][y] # {}} = Crowd(k)
      BY <1>0, <1>4 DEF Crowd
    <3>2. \A S : Window!Cardinality(S) = Cardinality(S)
      BY DEF Window!Cardinality, Cardinality
    <3>3. MaxKeys # 0 /\ [x \in Keys |-> Live(x)][k] = {}
      BY <1>0, RateLimiterAssumption
    <3> QED BY <1>0, <2>2, <3>1, <3>2, <3>3 DEF Window!Evicted
  <2> QED BY <1>1, <1>5, <2>5, <2>6 DEF Window!Allow
<1> QED BY <1>6, <1>7

(* A further event of a key, in the dictionary or in Redis.                  *)
LEMMA FurtherAllows ==
  ASSUME LocalInv, NEW k \in Keys, LocalAgain(k) \/ RedisAllow(k)
  PROVE  Window!Allow(k)
<1>0. /\ Kinds /\ Dictionary /\ Accounted(k) /\ Limited(k) /\ ~Full(k)
      /\ UNCHANGED <<backend, clock>>
      /\ events' = [events EXCEPT ![k] = Live(k) \cup {New}]
  BY DEF LocalInv, WindowInv, LocalAgain, Local, RedisAllow, Redis, Counted
<1>1. /\ backend = "redis" => expiry'[k] = clock + WindowOf[k]
      /\ \A x \in Keys \ {k} : expiry'[x] = expiry[x]
  BY <1>0 DEF LocalAgain, Local, RedisAllow, Counted, Kinds
<1>2. Window!RoomAt(k, clock) BY <1>0, RoomIs
<1>3. Window!Logged(k, [x \in Keys |-> Live(x)]) BY <1>0, <1>1, OneMoreLogged
<1>4. Window!Answered(k, "allowed", 0) /\ UNCHANGED clock
  BY <1>0 DEF LocalAgain, RedisAllow, Grant, Answered, Window!Answered
<1> QED BY <1>2, <1>3, <1>4 DEF Window!Allow

(* A refusal: the limit is used up, and the time to wait is the least.       *)
LEMMA DenyDenies ==
  ASSUME LocalInv, NEW k \in Keys, LocalDeny(k) \/ RedisDeny(k)
  PROVE  Window!Deny(k)
<1>0. /\ Kinds /\ Accounted(k) /\ Limited(k) /\ Full(k) /\ UNCHANGED <<backend, clock, expiry>>
      /\ events' = [events EXCEPT ![k] = Live(k)]
      /\ reply' = [key |-> k, outcome |-> "denied", retry |-> RetryAfter(k)]
  BY DEF LocalInv, WindowInv, LocalDeny, Local, RedisDeny, Redis, Pruned, Refuse, Answered
<1>1. /\ Cardinality(Live(k)) \in Nat /\ IsFiniteSet(Live(k)) /\ LimitOf[k] \in Int
      /\ Cardinality(Live(k)) = LimitOf[k] /\ LimitOf[k] > 0
  BY <1>0, LiveKept, Constants DEF Accounted, Full, Limited
<1>2. Live(k) # {} BY <1>1, FS_EmptySet
<1> DEFINE r == RetryAfter(k)
           After(n) == Then(k, clock + n * TicksPerSecond)
<1>3. /\ r \in Nat /\ r >= 1 /\ Oldest(k) <= clock + r * TicksPerSecond - WindowOf[k]
      /\ r > 1 => Oldest(k) > clock + (r - 1) * TicksPerSecond - WindowOf[k]
  BY <1>0, <1>2, RetryFacts
<1>4. /\ Oldest(k) \in Nat /\ \A e \in Live(k) : e.at \in Nat /\ Oldest(k) <= e.at
      /\ \E e \in Live(k) : e.at = Oldest(k)
  BY <1>0, <1>2, OldestFacts
<1>5. clock \in Nat /\ WindowOf[k] \in Int /\ TicksPerSecond \in Nat
  BY <1>0, Constants, RateLimiterAssumption DEF Kinds
<1>6. Cardinality(After(r)) < LimitOf[k]
  <2>1. PICK o \in Live(k) : o.at = Oldest(k) BY <1>4
  <2>2. o \notin After(r)
    <3>1. r * TicksPerSecond \in Int BY <1>3, <1>5
    <3> HIDE DEF r
    <3> QED BY <2>1, <3>1, <1>3, <1>4, <1>5 DEF Then
  <2>3. After(r) \subseteq Live(k) \ {o} BY <2>2 DEF Then
  <2>4. IsFiniteSet(Live(k) \ {o}) /\ Cardinality(Live(k) \ {o}) = Cardinality(Live(k)) - 1
    BY <1>1, FS_RemoveElement
  <2>5. Cardinality(After(r)) <= Cardinality(Live(k) \ {o}) /\ Cardinality(After(r)) \in Nat
    BY <2>3, <2>4, FS_Subset, FS_CardinalityType
  <2> QED BY <1>1, <2>4, <2>5
<1>7. r > 1 => ~(Cardinality(After(r - 1)) < LimitOf[k])
  <2> SUFFICES ASSUME r > 1 PROVE After(r - 1) = Live(k)
    BY <1>1
  <2>1. (r - 1) * TicksPerSecond \in Int BY <1>3, <1>5
  <2>2. Oldest(k) > clock + (r - 1) * TicksPerSecond - WindowOf[k] BY <1>3
  <2> HIDE DEF r
  <2> QED BY <2>1, <2>2, <1>4, <1>5 DEF Then
<1>8. ~Window!RoomAt(k, clock) BY <1>0, RoomIs
<1>9. \A n : Window!RoomAt(k, clock + n * TicksPerSecond)
              <=> Cardinality(After(n)) < LimitOf[k]
  BY <1>0, RoomIs
<1>10. /\ Window!RoomAt(k, clock + r * TicksPerSecond)
       /\ r > 1 => ~Window!RoomAt(k, clock + (r - 1) * TicksPerSecond)
  <2> HIDE DEF r, After
  <2> QED BY <1>6, <1>7, <1>9
<1>11. \A x \in Keys : Live(x)' = Live(x)
  <2>1. \A x \in Keys : events'[x] = events[x] \/ events'[x] = Live(x) BY <1>0 DEF Kinds
  <2> QED BY <1>0, <2>1, SameCount
<1>12. reply'.retry = r BY <1>0
<1> HIDE DEF r
<1>13. Window!Answered(k, "denied", reply'.retry) BY <1>0, <1>12 DEF Window!Answered, r
<1> QED BY <1>0, <1>1, <1>3, <1>8, <1>10, <1>11, <1>12, <1>13 DEF Window!Deny

(* No answer of Redis, with or without the event.                            *)
LEMMA RaisesFails ==
  ASSUME LocalInv, NEW k \in Keys, RedisRaises(k)
  PROVE  Window!Fail(k)
<1>0. /\ Kinds /\ Dictionary /\ Accounted(k) /\ Limited(k) /\ UNCHANGED <<backend, clock>>
  BY DEF LocalInv, WindowInv, RedisRaises
<1>1. Window!Answered(k, "unavailable", 0) BY DEF RedisRaises, Answered, Window!Answered
<1>2. CASE Counted(k)
  <2>1. /\ ~Full(k) /\ events' = [events EXCEPT ![k] = Live(k) \cup {New}]
        /\ backend = "redis" => expiry'[k] = clock + WindowOf[k]
        /\ \A x \in Keys \ {k} : expiry'[x] = expiry[x]
    BY <1>0, <1>2 DEF Counted, Kinds
  <2>2. Window!RoomAt(k, clock) BY <1>0, <2>1, RoomIs
  <2>3. Window!Logged(k, [x \in Keys |-> Live(x)]) BY <1>0, <2>1, OneMoreLogged
  <2> QED BY <1>0, <1>1, <2>2, <2>3 DEF Window!Fail
<1>3. CASE ~Counted(k)
  <2>1. \A x \in Keys : /\ events'[x] = events[x] \/ events'[x] = Live(x)
                        /\ expiry'[x] = expiry[x]
    BY <1>0, <1>3 DEF RedisRaises, Pruned, Kinds
  <2>2. \A x \in Keys : Live(x)' = Live(x) BY <1>0, <2>1, SameCount
  <2> QED BY <1>0, <1>1, <2>2 DEF Window!Fail
<1> QED BY <1>2, <1>3

(* Time passes: the events that expire are not counted any more, although    *)
(* they may be kept; and Redis drops no set with one that counts.            *)
LEMMA TickPasses ==
  ASSUME LocalInv, Tick
  PROVE  Window!Pass
<1>0. clock \in Nat /\ clock' = clock + 1 /\ UNCHANGED <<backend, events, expiry, reply>>
  BY DEF LocalInv, WindowInv, Kinds, Tick
<1>1. ASSUME NEW k \in Keys
      PROVE  Live(k)' = {e \in Live(k) : e.at > clock' - WindowOf[k]}
  <2>1. /\ WindowOf[k] \in Int /\ expiry[k] \in Nat
        /\ \A e \in events[k] : e.at \in Nat
        /\ backend = "redis" => \A e \in events[k] : e.at + WindowOf[k] <= expiry[k]
    BY Constants DEF LocalInv, WindowInv, Kinds, Accounted, Stamp
  <2> QED BY <1>0, <2>1 DEF Live, Unexpired
<1>2. \A k \in Keys : [x \in Keys |-> Live(x)][k] = Live(k) OBVIOUS
<1>3. clock' > clock BY <1>0
<1> QED BY <1>0, <1>1, <1>2, <1>3 DEF Window!Pass, Window!Counting

(* Both limiters answer as if they dropped each event at the tick it         *)
(* expires: they deny only a full key, with the least retry_after_seconds    *)
(* that suffices, and forget a key only to admit another at capacity.        *)
THEOREM LimitersAreWindows == Spec => ImplementsWindow
<1>1. Init => Window!WindowInit
  <2> SUFFICES ASSUME Init PROVE Window!WindowInit
    OBVIOUS
  <2>1. \A k \in Keys : Live(k) = {} BY DEF Init, Live, Unexpired
  <2>2. reply \in Window!Answer BY RateLimiterAssumption DEF Init, Window!Answer
  <2> QED BY <2>1, <2>2, RateLimiterAssumption DEF Init, Window!WindowInit
<1>2. LocalInv /\ [Next]_vars => [Window!WindowNext]_(Window!windowVars)
  <2> SUFFICES ASSUME LocalInv, [Next]_vars
               PROVE  [Window!WindowNext]_(Window!windowVars)
    OBVIOUS
  <2>0. UNCHANGED backend
    BY DEF Next, vars, Tick, Restart, AllowUnlimited, LocalFirst, LocalAgain, LocalDeny, Local,
           RedisAllow, RedisDeny, Redis, RedisRaises
  <2>1. CASE Tick BY <2>0, <2>1, TickPasses DEF Window!WindowNext
  <2>2. CASE Restart
    <3>1. \A k \in Keys : Live(k)' = {} BY <2>2 DEF Restart, Live, Unexpired
    <3>2. Window!ForgetAll BY <2>2, <3>1 DEF Restart, Window!ForgetAll
    <3> QED BY <2>0, <3>2 DEF Window!WindowNext
  <2>3. CASE UNCHANGED vars
    <3>1. \A k \in Keys : Live(k)' = Live(k) BY <2>3, SameCount DEF vars
    <3> QED BY <2>3, <3>1 DEF vars, Window!windowVars
  <2>4. ASSUME NEW k \in Keys, AllowUnlimited(k) PROVE Window!Unlimited(k)
    <3>1. \A x \in Keys : Live(x)' = Live(x) BY <2>4, SameCount DEF AllowUnlimited
    <3>2. LimitOf[k] <= 0 \/ WindowOf[k] <= 0 BY <2>4, Constants DEF AllowUnlimited, Limited
    <3> QED BY <2>4, <3>1, <3>2 DEF AllowUnlimited, Answered, Window!Answered, Window!Unlimited
  <2>5. ASSUME NEW k \in Keys,
               \/ AllowUnlimited(k) \/ LocalFirst(k) \/ LocalAgain(k) \/ LocalDeny(k)
               \/ RedisAllow(k) \/ RedisDeny(k) \/ RedisRaises(k)
        PROVE  Window!WindowNext
    <3>1. Window!Allow(k) \/ Window!Unlimited(k) \/ Window!Deny(k) \/ Window!Fail(k)
      BY <2>4, <2>5, FirstAllows, FurtherAllows, DenyDenies, RaisesFails
    <3> QED BY <2>0, <3>1 DEF Window!WindowNext
  <2> QED BY <2>1, <2>2, <2>3, <2>5 DEF Next
<1> QED BY <1>1, <1>2, LocalInvCorrect, PTL DEF Spec, ImplementsWindow, Window!WindowSpec
=============================================================================

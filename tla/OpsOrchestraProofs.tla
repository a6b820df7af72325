------------------------- MODULE OpsOrchestraProofs -------------------------
(***************************************************************************)
(* What is exchanged with OpsOrchestra.  OutboundSync: what is answered or *)
(* recorded as synced was delivered, and no more often than the retry loop *)
(* may repeat itself.  EntitySync: the rows follow the entities of         *)
(* OpsOrchestra, and exports are imported as a whole or not at all.        *)
(***************************************************************************)
EXTENDS OutboundSync, EntitySync, SequenceTheorems, TLAPS

\* Each attempt delivers at most once, and an attempt without an answer has not
\* delivered yet; what was accepted was delivered, and is all that is recorded.
Counted ==
  /\ attempt \in 0 .. MaxRetries
  /\ received \in Nat
  /\ received <= attempt + 1
  /\ reply = Nothing => received <= attempt
  /\ push = "synced" => reply = "taken"
  /\ reply = "taken" => received > 0

Recorded ==
  /\ push \in {"idle", "sending", "synced", "failed"}
  /\ reply \in Replies \cup {Nothing}
  /\ exported \in BOOLEAN
  /\ exported => push = "synced"

(* The loop counts what it may have delivered.                               *)
LEMMA CountedNext ==
  ASSUME Counted, [OutNext]_outVars
  PROVE  Counted'
<1> USE RetriesAssumption DEF Counted, Replies, Retryable, Nothing
<1>1. CASE Sync
  BY <1>1 DEF Sync
<1>2. CASE Post
  BY <1>2 DEF Post
<1>3. CASE PostAgain
  BY <1>3 DEF PostAgain
<1>4. CASE RaiseError
  BY <1>4 DEF RaiseError
<1>5. CASE ReadBody
  BY <1>5 DEF ReadBody, Accepts
<1>6. CASE Cancel
  BY <1>6 DEF Cancel
<1>7. CASE UNCHANGED outVars
  BY <1>7 DEF outVars
<1> QED
  BY <1>1, <1>2, <1>3, <1>4, <1>5, <1>6, <1>7 DEF OutNext

(* Only a request that was synced is recorded.                               *)
LEMMA RecordedNext ==
  ASSUME Recorded, [OutNext]_outVars
  PROVE  Recorded'
<1> USE DEF Recorded
<1>1. CASE Sync
  BY <1>1, Zenon DEF Sync
<1>2. CASE Post
  BY <1>2, Zenon DEF Post
<1>3. CASE PostAgain
  BY <1>3, Zenon DEF PostAgain
<1>4. CASE RaiseError
  BY <1>4, Zenon DEF RaiseError
<1>5. CASE ReadBody
  <2>1. push = "sending" /\ reply' = reply
    BY <1>5, Zenon DEF ReadBody
  <2>2. ~exported
    BY <2>1
  <2>3. CASE push' = "synced" /\ exported' = TRUE
    BY <2>1, <2>3, Zenon
  <2>4. CASE push' = "failed" /\ exported' = exported
    BY <2>1, <2>2, <2>4, Zenon
  <2> QED
    BY <1>5, <2>3, <2>4, Zenon DEF ReadBody
<1>6. CASE Cancel
  BY <1>6, Zenon DEF Cancel
<1>7. CASE UNCHANGED outVars
  BY <1>7 DEF outVars
<1> QED
  BY <1>1, <1>2, <1>3, <1>4, <1>5, <1>6, <1>7 DEF OutNext

(* SyncedDelivered: for any number of retries, a report that                 *)
(* sync_assessment_to_opsorchestra answers or records as synced was taken by *)
(* OpsOrchestra, and the retry loop delivers at most MaxRetries + 1 copies.  *)
THEOREM SyncedDelivered == OutSpec => [](OutTypeOK /\ SyncedWasReceived)
<1>1. OutInit => Counted
  BY RetriesAssumption DEF OutInit, Counted, Nothing
<1>2. OutInit => Recorded
  BY Zenon DEF OutInit, Recorded
<1>3. Counted /\ Recorded => OutTypeOK /\ SyncedWasReceived
  <2> SUFFICES ASSUME Counted, Recorded PROVE OutTypeOK /\ SyncedWasReceived
    OBVIOUS
  <2>1. received <= MaxRetries + 1
    BY RetriesAssumption DEF Counted
  <2>2. push = "synced" => received > 0
    BY DEF Counted
  <2>3. OutTypeOK
    BY DEF Counted, Recorded, OutTypeOK
  <2> QED
    BY <2>1, <2>2, <2>3, Zenon DEF Recorded, SyncedWasReceived
<1> QED
  BY <1>1, <1>2, <1>3, CountedNext, RecordedNext, PTL DEF OutSpec

-----------------------------------------------------------------------------
(* The entities follow OpsOrchestra's *)

\* A change of i that is known here is the last one, or older.
Known(i, c) == c.n <= upstream[i].n /\ (c.n = upstream[i].n => c = upstream[i])

\* What is on its way or was written is known.
Heard ==
  /\ \A i \in Ids : upstream[i].n <= changes /\ (upstream[i].n = 0 => upstream[i] = NoChange)
  /\ \A i \in Ids : \A k \in DOMAIN queue[i] : Known(i, queue[i][k])
  /\ \A e \in flight : Known(e.id, e.change)
  /\ \A i \in Ids : Known(i, store[i])
  /\ \A s \in Servers, i \in Ids : Known(i, handling[s].data[i])

\* Events wait in their order; the last one is about the last change.
InOrder ==
  /\ queue \in [Ids -> Seq(Change)]
  /\ \A i \in Ids :
       /\ Len(queue[i]) <= changes
       /\ queue[i] # <<>> => queue[i][Len(queue[i])] = upstream[i]

\* What the webhook h waits to write, and what it wrote.
Answerable(h) ==
  h.from = "event" =>
    \/ h.at = "writing" /\ \E i \in Ids : h.todo = {i}
    \/ /\ h.at = "rereading" /\ h.todo = {}
       /\ h.last \in Ids /\ newest[h.last] >= h.data[h.last].n

Written ==
  /\ \A s \in Servers : Answerable(handling[s])
  /\ \A i \in Ids : newest[i] <= upstream[i].n
  /\ \A i \in Ids \ disturbed : store[i].n = newest[i]
  /\ \A i \in Ids : queue[i] = <<>> /\ upstream[i].is # "malformed" => newest[i] = upstream[i].n

SyncInv == SyncTypeOK /\ Heard /\ InOrder /\ Written

(* The kinds of what is constant.                                            *)
LEMMA SyncConstants ==
  /\ MaxChanges \in Nat /\ NoId \notin Ids
  /\ NoChange \in Change /\ NoChange.n = 0 /\ NoChange.is = "gone"
  /\ \A is \in {"gone", "valid"} : [n |-> ByHand, is |-> is] \in Change
  /\ \A c \in Change : c.n \in Int /\ c.n <= MaxChanges /\ c.is \in {"gone", "valid", "malformed"}
  /\ Waiting \in Handling /\ Waiting.from = "nobody" /\ Waiting.at = "waiting"
  /\ \A i \in Ids : Waiting.data[i] = NoChange
<1>1. MaxChanges \in Nat /\ NoId \notin Ids
  BY SyncAssumption DEF NoId
<1>2. /\ NoChange \in Change /\ NoChange.n = 0 /\ NoChange.is = "gone"
      /\ \A is \in {"gone", "valid"} : [n |-> ByHand, is |-> is] \in Change
      /\ \A c \in Change : c.n \in Int /\ c.n <= MaxChanges
           /\ c.is \in {"gone", "valid", "malformed"}
  BY <1>1 DEF NoChange, Change, ByHand
<1>3. [i \in Ids |-> NoChange] \in [Ids -> Change]
  BY <1>2
<1>4. Waiting \in Handling
  BY <1>3 DEF Waiting, Handling
<1>5. Waiting.from = "nobody" /\ Waiting.at = "waiting" /\ \A i \in Ids : Waiting.data[i] = NoChange
  BY DEF Waiting
<1> QED
  BY <1>1, <1>2, <1>4, <1>5

(* Nobody has heard of anything.                                             *)
LEMMA SyncInvInit ==
  ASSUME SyncInit
  PROVE  SyncInv
<1>1. SyncTypeOK
  BY SyncConstants DEF SyncInit, SyncTypeOK
<1>2. Heard
  BY SyncConstants DEF SyncInit, Heard, Known
<1>3. InOrder
  BY DEF SyncInit, InOrder
<1>4. Written
  BY SyncConstants DEF SyncInit, Written, Answerable
<1> QED
  BY <1>1, <1>2, <1>3, <1>4 DEF SyncInv

(* A request goes on, and nothing else moves but attempts that arrived.      *)
LEMMA RequestKeeps ==
  ASSUME SyncInv, NEW s \in Servers, NEW h \in Handling, Handles(s, h),
         UNCHANGED <<perType, upstream, changes, queue, store, newest, disturbed>>,
         flight' \subseteq flight,
         \A i \in Ids : Known(i, h.data[i]),
         Answerable(h)
  PROVE  SyncInv'
<1>1. /\ handling' \in [Servers -> Handling]
      /\ \A r \in Servers : handling'[r] = handling[r] \/ handling'[r] = h
  BY DEF SyncInv, SyncTypeOK, Handles
<1>2. SyncTypeOK'
  BY <1>1 DEF SyncInv, SyncTypeOK
<1>3. Heard'
  BY <1>1 DEF SyncInv, Heard, Known
<1>4. InOrder'
  BY DEF SyncInv, InOrder
<1>5. \A r \in Servers : Answerable(handling[r])'
  BY <1>1 DEF SyncInv, Written, Answerable
<1>6. Written'
  BY <1>5 DEF SyncInv, Written
<1> QED
  BY <1>2, <1>3, <1>4, <1>6 DEF SyncInv

(* A row is written: what it says was never newer than OpsOrchestra, and it  *)
(* is the newest unless the entity is disturbed.                             *)
LEMMA RecordKeeps ==
  ASSUME SyncInv, NEW i \in Ids, NEW c \in Change, Known(i, c), Record(i, c), UNCHANGED upstream
  PROVE  /\ store' \in [Ids -> Change] /\ newest' \in [Ids -> 0 .. MaxChanges]
         /\ disturbed' \subseteq Ids
         /\ \A j \in Ids : Known(j, store[j])' /\ newest'[j] <= upstream[j].n
              /\ newest'[j] >= newest[j]
         /\ \A j \in Ids \ disturbed' : store'[j].n = newest'[j]
         /\ newest'[i] >= c.n
<1>1. c.n \in Int /\ c.n <= MaxChanges /\ newest[i] \in 0 .. MaxChanges /\ MaxChanges \in Nat
  BY SyncConstants DEF SyncInv, SyncTypeOK
<1>2. store' = [store EXCEPT ![i] = c] /\ store' \in [Ids -> Change]
  BY DEF Record, SyncInv, SyncTypeOK
<1>3. newest' = [newest EXCEPT ![i] = IF c.n > newest[i] THEN c.n ELSE newest[i]]
  BY DEF Record, SyncInv, SyncTypeOK
<1>4. newest' \in [Ids -> 0 .. MaxChanges] /\ newest'[i] >= newest[i] /\ newest'[i] >= c.n
      /\ newest'[i] \in {c.n, newest[i]} /\ \A j \in Ids \ {i} : newest'[j] = newest[j]
  BY <1>1, <1>3 DEF SyncInv, SyncTypeOK
<1>5. disturbed' = IF c.n < newest[i] THEN disturbed \cup {i} ELSE disturbed \ {i}
  BY DEF Record
<1>6. disturbed' \subseteq Ids
  BY <1>5 DEF SyncInv, SyncTypeOK
<1>7. \A j \in Ids : Known(j, store[j])'
  BY <1>2 DEF SyncInv, Heard, Known, SyncTypeOK
<1>8. \A j \in Ids : newest'[j] <= upstream[j].n /\ newest'[j] >= newest[j]
  <2> SUFFICES ASSUME NEW j \in Ids PROVE newest'[j] <= upstream[j].n /\ newest'[j] >= newest[j]
    OBVIOUS
  <2>1. newest[j] \in Int /\ newest[j] <= upstream[j].n /\ c.n <= upstream[i].n
    BY DEF SyncInv, SyncTypeOK, Written, Known
  <2> QED
    BY <1>4, <2>1
<1>9. \A j \in Ids \ disturbed' : store'[j].n = newest'[j]
  <2> SUFFICES ASSUME NEW j \in Ids, j \notin disturbed' PROVE store'[j].n = newest'[j]
    OBVIOUS
  <2>1. CASE j = i
    BY <1>1, <1>2, <1>3, <1>5, <2>1 DEF SyncInv, SyncTypeOK
  <2>2. CASE j # i
    BY <1>2, <1>4, <1>5, <2>2 DEF SyncInv, SyncTypeOK, Written
  <2> QED
    BY <2>1, <2>2
<1> QED
  BY <1>2, <1>4, <1>6, <1>7, <1>8, <1>9

(* An event that is settled is the first of its entity; if none is left, it  *)
(* was about the last change.                                                *)
LEMMA SettleKeeps ==
  ASSUME SyncInv, NEW e, e.id \in Ids, Settles(e), UNCHANGED <<upstream, changes>>
  PROVE  /\ InOrder'
         /\ \A j \in Ids : \A k \in DOMAIN queue'[j] : Known(j, queue'[j][k])
         /\ \A j \in Ids : Len(queue'[j]) <= MaxChanges
              /\ \A k \in 1 .. Len(queue'[j]) : queue'[j][k] \in Change
         /\ \A j \in Ids : queue'[j] = <<>> /\ queue[j] # <<>> => j = e.id /\ upstream[j] = e.change
<1> DEFINE q == queue[e.id]
<1>1. queue \in [Ids -> Seq(Change)] /\ changes \in 0 .. MaxChanges /\ q \in Seq(Change)
  BY DEF SyncInv, SyncTypeOK, InOrder
<1>2. CASE queue' = queue
  BY <1>1, <1>2 DEF SyncInv, InOrder, Heard, SyncTypeOK
<1>3. CASE q # <<>> /\ Head(q) = e.change /\ queue' = [queue EXCEPT ![e.id] = Tail(@)]
  <2>1. /\ Tail(q) \in Seq(Change) /\ Len(Tail(q)) = Len(q) - 1 /\ Len(q) \in Nat \ {0}
        /\ \A k \in 1 .. Len(Tail(q)) : Tail(q)[k] = q[k + 1]
        /\ DOMAIN Tail(q) = 1 .. Len(Tail(q)) /\ DOMAIN q = 1 .. Len(q)
        /\ Tail(q) = <<>> => Len(Tail(q)) = 0
        /\ Tail(q) # <<>> => Len(Tail(q)) # 0
    <3>1. Tail(q) \in Seq(Change) /\ Len(Tail(q)) = Len(q) - 1 /\ Len(q) \in Nat \ {0}
      BY <1>1, <1>3, HeadTailProperties, EmptySeq
    <3>2. \A k \in 1 .. Len(Tail(q)) : Tail(q)[k] = q[k + 1]
      BY <1>1, <1>3, HeadTailProperties
    <3>3. DOMAIN Tail(q) = 1 .. Len(Tail(q)) /\ DOMAIN q = 1 .. Len(q)
      BY <1>1, <3>1, LenProperties
    <3>4. /\ Tail(q) = <<>> => Len(Tail(q)) = 0
          /\ Tail(q) # <<>> => Len(Tail(q)) # 0
      BY <3>1, EmptySeq
    <3> QED
      BY <3>1, <3>2, <3>3, <3>4
  <2>2. queue' = [queue EXCEPT ![e.id] = Tail(q)]
    BY <1>3
  <2> HIDE DEF q
  <2>3. queue' \in [Ids -> Seq(Change)] /\ queue'[e.id] = Tail(q)
        /\ \A j \in Ids \ {e.id} : queue'[j] = queue[j]
    BY <1>1, <2>1, <2>2
  <2>4. /\ Len(q) <= changes /\ q[Len(q)] = upstream[e.id]
        /\ \A k \in DOMAIN q : Known(e.id, q[k]) /\ q[k] \in Change
    BY <1>3 DEF q, SyncInv, InOrder, Heard, SyncTypeOK
  <2>5. Len(Tail(q)) <= changes /\ (Tail(q) # <<>> => Tail(q)[Len(Tail(q))] = upstream[e.id])
        /\ \A k \in DOMAIN Tail(q) : Known(e.id, Tail(q)[k]) /\ Tail(q)[k] \in Change
    BY <1>1, <2>1, <2>4
  <2>6. Tail(q) = <<>> => upstream[e.id] = e.change
    <3>1. Head(q) = q[1]
      BY <1>1, <1>3 DEF q
    <3> QED
      BY <1>3, <2>1, <2>4, <3>1 DEF q
  <2>7. InOrder'
    BY <2>3, <2>5 DEF SyncInv, InOrder
  <2>8. MaxChanges \in Nat /\ q \in Seq(Change) /\ changes \in Nat /\ changes <= MaxChanges
    BY <1>1, SyncConstants
  <2>9. ASSUME NEW j \in Ids
        PROVE  /\ \A k \in DOMAIN queue'[j] : Known(j, queue'[j][k])
               /\ Len(queue'[j]) <= MaxChanges
               /\ \A k \in 1 .. Len(queue'[j]) : queue'[j][k] \in Change
               /\ queue'[j] = <<>> /\ queue[j] # <<>> => j = e.id /\ upstream[j] = e.change
    <3>1. CASE j = e.id
      <4>1. queue'[j] = Tail(q)
        BY <2>3, <3>1
      <4>2. Len(Tail(q)) <= MaxChanges
        BY <2>1, <2>5, <2>8
      <4>3. \A k \in DOMAIN queue'[j] : Known(j, queue'[j][k])
        BY <2>5, <3>1, <4>1
      <4>4. \A k \in 1 .. Len(queue'[j]) : queue'[j][k] \in Change
        BY <2>1, <2>5, <4>1
      <4> QED
        BY <2>6, <3>1, <4>1, <4>2, <4>3, <4>4
    <3>2. CASE j # e.id
      BY <2>3, <3>2 DEF SyncInv, Heard, SyncTypeOK
    <3> QED
      BY <3>1, <3>2
  <2> QED
    BY <2>7, <2>9
<1> QED
  BY <1>2, <1>3 DEF Settles

(* OpsOrchestra changes an entity: what was the last change is older now.    *)
LEMMA ChangeKeeps ==
  ASSUME SyncInv, NEW i \in Ids, ChangeUpstream(i)
  PROVE  SyncInv'
<1>1. PICK is \in {"gone", "valid", "malformed"} :
        LET c == [n |-> changes + 1, is |-> is]
        IN  /\ upstream' = [upstream EXCEPT ![i] = c]
            /\ queue' = [queue EXCEPT ![i] = Append(@, c)]
  BY DEF ChangeUpstream
<1> DEFINE c == [n |-> changes + 1, is |-> is]
           q == queue[i]
<1>2. /\ changes \in Nat /\ changes' = changes + 1 /\ changes' \in 0 .. MaxChanges
      /\ MaxChanges \in Nat
      /\ c \in Change /\ c.n = changes + 1
      /\ UNCHANGED <<perType, flight, store, handling, newest, disturbed>>
  BY SyncConstants DEF ChangeUpstream, SyncInv, SyncTypeOK, Change, ByHand
<1>3. upstream' = [upstream EXCEPT ![i] = c] /\ queue' = [queue EXCEPT ![i] = Append(q, c)]
  BY <1>1
<1>4. /\ queue \in [Ids -> Seq(Change)] /\ q \in Seq(Change) /\ Len(q) \in Nat
      /\ DOMAIN q = 1 .. Len(q)
      /\ Len(q) <= changes
  BY LenProperties DEF SyncInv, InOrder
<1> HIDE DEF c, q
<1>5. /\ Append(q, c) \in Seq(Change) /\ Len(Append(q, c)) = Len(q) + 1
      /\ DOMAIN Append(q, c) = 1 .. Len(q) + 1
      /\ \A k \in 1 .. Len(q) : Append(q, c)[k] = q[k]
      /\ Append(q, c)[Len(q) + 1] = c
  BY <1>2, <1>4, AppendProperties, LenProperties
<1>6. /\ upstream' \in [Ids -> Change] /\ upstream'[i] = c
      /\ \A j \in Ids \ {i} : upstream'[j] = upstream[j]
  BY <1>2, <1>3 DEF SyncInv, SyncTypeOK
<1>7. /\ queue' \in [Ids -> Seq(Change)] /\ queue'[i] = Append(q, c)
      /\ \A j \in Ids \ {i} : queue'[j] = queue[j]
  BY <1>3, <1>4, <1>5
<1>8. \A j \in Ids : upstream[j] \in Change /\ upstream[j].n \in Int /\ upstream[j].n <= changes
  BY SyncConstants DEF SyncInv, SyncTypeOK, Heard
<1> DEFINE After(j, d) == d.n <= upstream'[j].n /\ (d.n = upstream'[j].n => d = upstream'[j])
<1>9. ASSUME NEW j \in Ids, NEW d \in Change, Known(j, d) PROVE After(j, d)
  <2>1. d.n \in Int /\ upstream[j].n \in Int
    BY <1>8, <1>9, SyncConstants
  <2>2. CASE j = i
    BY <1>2, <1>6, <1>8, <1>9, <2>1, <2>2 DEF Known
  <2>3. CASE j # i
    BY <1>6, <1>9, <2>3 DEF Known
  <2> QED
    BY <2>2, <2>3
<1>10. After(i, c)
  BY <1>2, <1>6
<1> HIDE DEF After
<1>11. \A k \in 1 .. Len(q) : q[k] \in Change /\ Known(i, q[k])
  BY <1>4 DEF q, SyncInv, Heard
<1>12. \A k \in DOMAIN queue'[i] : queue'[i][k] \in Change /\ After(i, queue'[i][k])
  <2> SUFFICES ASSUME NEW k \in 1 .. Len(q) + 1
               PROVE  Append(q, c)[k] \in Change /\ After(i, Append(q, c)[k])
    BY <1>5, <1>7
  <2>1. CASE k \in 1 .. Len(q)
    BY <1>5, <1>9, <1>11, <2>1
  <2>2. CASE k = Len(q) + 1
    BY <1>2, <1>5, <1>10, <2>2
  <2> QED
    BY <1>4, <2>1, <2>2
<1>13. \A j \in Ids \ {i} : \A k \in DOMAIN queue'[j] : queue'[j][k] \in Change
         /\ After(j, queue'[j][k])
  <2> SUFFICES ASSUME NEW j \in Ids \ {i}, NEW k \in DOMAIN queue[j]
               PROVE  queue[j][k] \in Change /\ After(j, queue[j][k])
    BY <1>7
  <2>1. queue[j][k] \in Change /\ Known(j, queue[j][k])
    BY <1>4, LenProperties DEF SyncInv, Heard
  <2> QED
    BY <1>9, <2>1
<1>14. \A j \in Ids : Len(queue'[j]) <= changes' /\ Len(queue'[j]) <= MaxChanges
  <2>1. Len(queue'[i]) <= changes'
    BY <1>2, <1>4, <1>5, <1>7
  <2>2. ASSUME NEW j \in Ids \ {i} PROVE Len(queue'[j]) <= changes'
    <3>1. Len(queue[j]) \in Nat /\ Len(queue[j]) <= changes
      BY <1>4, LenProperties DEF SyncInv, InOrder
    <3> QED
      BY <1>2, <1>7, <3>1
  <2>3. \A j \in Ids : Len(queue'[j]) \in Nat
    BY <1>7, LenProperties
  <2> QED
    BY <1>2, <2>1, <2>2, <2>3
<1>15. SyncTypeOK'
  <2>1. \A j \in Ids : DOMAIN queue'[j] = 1 .. Len(queue'[j])
    BY <1>7, LenProperties
  <2>2. \A j \in Ids : \A k \in 1 .. Len(queue'[j]) : queue'[j][k] \in Change
    BY <1>12, <1>13, <2>1
  <2> QED
    BY <1>2, <1>6, <1>14, <2>2 DEF SyncInv, SyncTypeOK
<1>16. Heard'
  <2>1. \A j \in Ids : upstream'[j].n <= changes' /\ (upstream'[j].n = 0 => upstream'[j] = NoChange)
    BY <1>2, <1>6, <1>8 DEF SyncInv, Heard
  <2>2. \A j \in Ids : \A k \in DOMAIN queue'[j] : After(j, queue'[j][k])
    BY <1>12, <1>13
  <2>3. \A e \in flight' : After(e.id, e.change)
    BY <1>2, <1>9 DEF SyncInv, SyncTypeOK, Heard, Event
  <2>4. \A j \in Ids : After(j, store'[j])
    BY <1>2, <1>9 DEF SyncInv, SyncTypeOK, Heard
  <2>5. \A s \in Servers, j \in Ids : After(j, handling'[s].data[j])
    BY <1>2, <1>9 DEF SyncInv, SyncTypeOK, Heard, Handling
  <2> QED
    BY <2>1, <2>2, <2>3, <2>4, <2>5 DEF Heard, Known, After, NoChange
<1>17. InOrder'
  <2>1. \A j \in Ids : queue'[j] # <<>> => queue'[j][Len(queue'[j])] = upstream'[j]
    BY <1>5, <1>6, <1>7 DEF SyncInv, InOrder
  <2> QED
    BY <1>7, <1>14, <2>1 DEF InOrder
<1>18. Written'
  <2>1. \A s \in Servers : Answerable(handling[s])'
    BY <1>2 DEF SyncInv, Written, Answerable
  <2>2. \A j \in Ids : newest'[j] <= upstream'[j].n
    <3> SUFFICES ASSUME NEW j \in Ids PROVE newest[j] <= upstream'[j].n
      BY <1>2
    <3>1. newest[j] \in Int /\ newest[j] <= upstream[j].n
      BY DEF SyncInv, SyncTypeOK, Written
    <3> QED
      BY <1>2, <1>6, <1>8, <3>1
  <2>3. \A j \in Ids : queue'[j] = <<>> => j # i
    BY <1>5, <1>7, <1>2, <1>4, AppendProperties
  <2> QED
    BY <1>2, <1>6, <1>7, <2>1, <2>2, <2>3 DEF SyncInv, Written
<1> QED
  BY <1>15, <1>16, <1>17, <1>18 DEF SyncInv

(* What is left of a request's kinds when it goes on.                        *)
LEMMA RequestKinds ==
  ASSUME SyncInv, NEW s \in Servers
  PROVE  /\ handling[s] \in Handling /\ \A i \in Ids : handling[s].data[i] \in Change
         /\ \A i \in Ids : Known(i, handling[s].data[i]) /\ Known(i, NoChange)
         /\ Answerable(handling[s]) /\ Answerable(Waiting)
<1>1. handling[s] \in Handling /\ \A i \in Ids : handling[s].data[i] \in Change
  BY DEF SyncInv, SyncTypeOK, Handling
<1>2. \A i \in Ids : upstream[i].n \in Int /\ 0 <= upstream[i].n
  <2> SUFFICES ASSUME NEW i \in Ids PROVE upstream[i].n \in Int /\ 0 <= upstream[i].n
    OBVIOUS
  <2>1. upstream[i].n \in Int
    BY SyncConstants DEF SyncInv, SyncTypeOK
  <2>2. newest[i] \in Int /\ 0 <= newest[i] /\ newest[i] <= upstream[i].n
    BY SyncConstants DEF SyncInv, SyncTypeOK, Written
  <2> QED
    BY <2>1, <2>2
<1>3. \A i \in Ids : Known(i, NoChange)
  BY <1>2, SyncConstants DEF SyncInv, Heard, Known
<1> QED
  BY <1>1, <1>3, SyncConstants DEF SyncInv, Heard, Written, Answerable

(* An attempt to deliver an event.                                           *)
LEMMA SendKeeps ==
  ASSUME SyncInv, NEW i \in Ids, Send(i)
  PROVE  SyncInv'
<1> DEFINE e == [id |-> i, change |-> Head(queue[i])]
<1>1. queue[i] \in Seq(Change) /\ queue[i] # <<>> /\ DOMAIN queue[i] = 1 .. Len(queue[i])
  BY LenProperties DEF Send, SyncInv, InOrder
<1>2. Head(queue[i]) = queue[i][1] /\ 1 \in DOMAIN queue[i] /\ Head(queue[i]) \in Change
  BY <1>1, EmptySeq, HeadTailProperties
<1>3. Known(i, Head(queue[i]))
  BY <1>2 DEF SyncInv, Heard
<1>4. e \in Event /\ e.id = i /\ e.change = Head(queue[i]) /\ flight' = flight \cup {e}
  BY <1>2 DEF Event, Send
<1> HIDE DEF e
<1>5. SyncTypeOK'
  BY <1>4 DEF Send, SyncInv, SyncTypeOK
<1>6. Heard'
  BY <1>3, <1>4 DEF Send, SyncInv, Heard, Known
<1>7. InOrder' /\ Written'
  BY DEF Send, SyncInv, InOrder, Written, Answerable
<1> QED
  BY <1>5, <1>6, <1>7 DEF SyncInv

(* A row is written, by a request or at once; nothing is settled.            *)
LEMMA WriteKeeps ==
  ASSUME SyncInv, NEW i \in Ids, NEW c \in Change, Known(i, c), Record(i, c),
         UNCHANGED <<perType, upstream, changes, queue, flight>>,
         handling' \in [Servers -> Handling],
         \A r \in Servers : \A j \in Ids : Known(j, handling'[r].data[j]),
         \A r \in Servers : Answerable(handling[r])'
  PROVE  SyncInv'
<1>1. /\ store' \in [Ids -> Change] /\ newest' \in [Ids -> 0 .. MaxChanges]
      /\ disturbed' \subseteq Ids
      /\ \A j \in Ids : Known(j, store[j])' /\ newest'[j] <= upstream[j].n
           /\ newest'[j] >= newest[j]
      /\ \A j \in Ids \ disturbed' : store'[j].n = newest'[j]
  BY RecordKeeps
<1>2. SyncTypeOK'
  BY <1>1 DEF SyncInv, SyncTypeOK
<1>3. Heard'
  BY <1>1 DEF SyncInv, Heard, Known
<1>4. InOrder'
  BY DEF SyncInv, InOrder
<1>5. \A j \in Ids : newest[j] \in Int /\ newest'[j] \in Int /\ upstream[j].n \in Int
  BY <1>1, SyncConstants DEF SyncInv, SyncTypeOK
<1>6. \A j \in Ids : queue'[j] = <<>> /\ upstream'[j].is # "malformed"
        => newest'[j] = upstream'[j].n
  BY <1>1, <1>5 DEF SyncInv, Written
<1>7. Written'
  BY <1>1, <1>6 DEF Written
<1> QED
  BY <1>2, <1>3, <1>4, <1>7 DEF SyncInv

(* The next row of a request.                                                *)
LEMMA UpsertKeeps ==
  ASSUME SyncInv, NEW s \in Servers, Upsert(s)
  PROVE  SyncInv'
<1>1. PICK i \in handling[s].todo :
        /\ Record(i, handling[s].data[i])
        /\ Handles(s, [handling[s] EXCEPT !.at = "rereading", !.todo = @ \ {i}, !.last = i])
  BY DEF Upsert
<1> DEFINE h == [handling[s] EXCEPT !.at = "rereading", !.todo = @ \ {i}, !.last = i]
<1>2. /\ handling[s] \in Handling /\ i \in Ids
      /\ handling[s].data[i] \in Change /\ Known(i, handling[s].data[i])
  BY RequestKinds DEF Handling
<1>3. /\ h \in Handling /\ h.data = handling[s].data /\ h.last = i /\ h.at = "rereading"
      /\ h.from = handling[s].from /\ h.todo = handling[s].todo \ {i} /\ handling[s].at = "writing"
  BY <1>2 DEF Handling, Upsert, Is
<1>4. handling' = [handling EXCEPT ![s] = h]
  BY <1>1 DEF Handles
<1> HIDE DEF h
<1>5. /\ handling' \in [Servers -> Handling]
      /\ handling'[s] = h /\ \A r \in Servers \ {s} : handling'[r] = handling[r]
  BY <1>3, <1>4 DEF SyncInv, SyncTypeOK
<1>6. /\ newest'[i] >= handling[s].data[i].n /\ \A j \in Ids : newest'[j] >= newest[j]
      /\ newest' \in [Ids -> 0 .. MaxChanges]
  BY <1>1, <1>2, RecordKeeps DEF Upsert
<1>7. ASSUME NEW r \in Servers PROVE Answerable(handling[r])'
  <2>1. CASE r = s
    <3>1. h.from = "event" => h.todo = {}
      BY <1>2, <1>3, RequestKinds DEF Answerable
    <3> QED
      BY <1>2, <1>3, <1>5, <1>6, <2>1, <3>1 DEF Answerable
  <2>2. CASE r # s
    <3>1. handling'[r] = handling[r] /\ Answerable(handling[r])
      BY <1>5, <2>2, RequestKinds
    <3>2. \A j \in Ids : newest[j] \in Int /\ newest'[j] \in Int /\ handling[r].data[j].n \in Int
      BY <1>6, RequestKinds, SyncConstants DEF SyncInv, SyncTypeOK
    <3>3. \A j \in Ids : newest[j] >= handling[r].data[j].n => newest'[j] >= handling[r].data[j].n
      BY <1>6, <3>2
    <3> QED
      BY <3>1, <3>3 DEF Answerable
  <2> QED
    BY <2>1, <2>2
<1>8. \A r \in Servers : \A j \in Ids : Known(j, handling'[r].data[j])
  BY <1>3, <1>5, RequestKinds
<1> QED
  BY <1>1, <1>2, <1>5, <1>7, <1>8, WriteKeeps DEF Upsert

(* The end of a request: an event that was written is settled.               *)
LEMMA SucceedKeeps ==
  ASSUME SyncInv, NEW s \in Servers, Succeed(s)
  PROVE  SyncInv'
<1>1. CASE handling[s].from # "event"
  <2>1. /\ Handles(s, Waiting) /\ Waiting \in Handling
        /\ UNCHANGED <<perType, upstream, changes, queue, flight, store, newest, disturbed>>
    BY <1>1, SyncConstants DEF Succeed
  <2>2. \A i \in Ids : Known(i, Waiting.data[i])
    BY RequestKinds, SyncConstants
  <2> QED
    BY <2>1, <2>2, RequestKinds, RequestKeeps
<1>2. CASE handling[s].from = "event"
  <2> DEFINE i == handling[s].last
             e == [id |-> i, change |-> handling[s].data[i]]
  <2>1. /\ i \in Ids /\ newest[i] >= handling[s].data[i].n /\ Settles(e)
        /\ Handles(s, Waiting)
        /\ UNCHANGED <<perType, upstream, changes, flight, store, newest, disturbed>>
    BY <1>2, RequestKinds DEF Succeed, Is, Answerable
  <2>2. e.id = i /\ e.change = handling[s].data[i]
    OBVIOUS
  <2> HIDE DEF e
  <2>3. /\ InOrder'
        /\ \A j \in Ids : \A k \in DOMAIN queue'[j] : Known(j, queue'[j][k])
        /\ \A j \in Ids : Len(queue'[j]) <= MaxChanges
             /\ \A k \in 1 .. Len(queue'[j]) : queue'[j][k] \in Change
        /\ \A j \in Ids : queue'[j] = <<>> /\ queue[j] # <<>> => j = i
             /\ upstream[j] = handling[s].data[i]
    BY <2>1, <2>2, SettleKeeps
  <2> HIDE DEF i
  <2>4. /\ handling' \in [Servers -> Handling]
        /\ \A r \in Servers : handling'[r] = handling[r] \/ handling'[r] = Waiting
    BY <2>1, SyncConstants DEF Handles, SyncInv, SyncTypeOK
  <2>5. SyncTypeOK'
    BY <2>1, <2>3, <2>4 DEF SyncInv, SyncTypeOK
  <2>6. \A r \in Servers : \A j \in Ids : Known(j, handling'[r].data[j])
    BY <2>4, RequestKinds, SyncConstants
  <2>7. Heard'
    BY <2>1, <2>3, <2>6 DEF SyncInv, Heard, Known
  <2>8. \A r \in Servers : Answerable(handling[r])'
    BY <2>1, <2>4, RequestKinds, SyncConstants DEF Answerable
  <2>9. ASSUME NEW j \in Ids, queue'[j] = <<>>, upstream[j].is # "malformed"
        PROVE  newest[j] = upstream[j].n
    <3>1. CASE queue[j] = <<>>
      BY <2>9, <3>1 DEF SyncInv, Written
    <3>2. CASE queue[j] # <<>>
      <4>1. newest[j] >= upstream[j].n
        BY <2>1, <2>3, <2>9, <3>2
      <4>2. newest[j] <= upstream[j].n /\ newest[j] \in Int /\ upstream[j].n \in Int
        BY SyncConstants DEF SyncInv, SyncTypeOK, Written
      <4> QED
        BY <4>1, <4>2
    <3> QED
      BY <3>1, <3>2
  <2>10. Written'
    BY <2>1, <2>8, <2>9 DEF SyncInv, Written
  <2> QED
    BY <2>3, <2>5, <2>7, <2>10 DEF SyncInv
<1> QED
  BY <1>1, <1>2

(* What is written by hand is older than every change.                       *)
LEMMA OlderByHand ==
  ASSUME SyncInv, NEW i \in Ids, NEW c \in Change, c.n = ByHand
  PROVE  Known(i, c)
<1>1. newest[i] \in Int /\ 0 <= newest[i] /\ newest[i] <= upstream[i].n /\ upstream[i].n \in Int
  BY SyncConstants DEF SyncInv, SyncTypeOK, Written
<1> QED
  BY <1>1 DEF Known, ByHand

(* An event that is settled where it arrives: a deletion was written.        *)
LEMMA EventKeeps ==
  ASSUME SyncInv, NEW s \in Servers, NEW e \in flight, DeleteEvent(s, e) \/ RefuseEvent(s, e)
  PROVE  SyncInv'
<1>1. /\ e \in Event /\ e.id \in Ids /\ e.change \in Change /\ Known(e.id, e.change)
      /\ UNCHANGED <<perType, upstream, changes, handling>> /\ flight' \subseteq flight
  BY DEF DeleteEvent, RefuseEvent, Arrives, SyncInv, SyncTypeOK, Heard, Event
<1>2. /\ InOrder'
      /\ \A j \in Ids : \A k \in DOMAIN queue'[j] : Known(j, queue'[j][k])
      /\ \A j \in Ids : Len(queue'[j]) <= MaxChanges
           /\ \A k \in 1 .. Len(queue'[j]) : queue'[j][k] \in Change
      /\ \A j \in Ids : queue'[j] = <<>> /\ queue[j] # <<>> => j = e.id /\ upstream[j] = e.change
  BY <1>1, SettleKeeps DEF DeleteEvent, RefuseEvent
<1>3. /\ store' \in [Ids -> Change] /\ newest' \in [Ids -> 0 .. MaxChanges]
      /\ disturbed' \subseteq Ids
      /\ \A j \in Ids : Known(j, store[j])' /\ newest'[j] <= upstream[j].n
           /\ newest'[j] >= newest[j]
      /\ \A j \in Ids \ disturbed' : store'[j].n = newest'[j]
      /\ e.change.is # "malformed" => newest'[e.id] >= e.change.n
  <2>1. CASE DeleteEvent(s, e)
    BY <1>1, <2>1, RecordKeeps DEF DeleteEvent
  <2>2. CASE RefuseEvent(s, e)
    <3>1. e.change.is = "malformed" /\ UNCHANGED <<store, newest, disturbed>>
      BY <2>2 DEF RefuseEvent
    <3>2. \A j \in Ids : newest[j] \in Int
      BY SyncConstants DEF SyncInv, SyncTypeOK
    <3>3. \A j \in Ids : newest'[j] <= upstream[j].n /\ newest'[j] >= newest[j]
      BY <3>1, <3>2 DEF SyncInv, Written
    <3> QED
      BY <1>1, <3>1, <3>3 DEF SyncInv, SyncTypeOK, Heard, Written, Known
  <2> QED
    BY <2>1, <2>2
<1>4. SyncTypeOK'
  BY <1>1, <1>2, <1>3 DEF SyncInv, SyncTypeOK
<1>5. Heard'
  BY <1>1, <1>2, <1>3 DEF SyncInv, Heard, Known
<1>6. \A j \in Ids : newest[j] \in Int /\ newest'[j] \in Int /\ upstream[j].n \in Int
  BY <1>3, SyncConstants DEF SyncInv, SyncTypeOK
<1>7. ASSUME NEW r \in Servers PROVE Answerable(handling[r])'
  <2>1. Answerable(handling[r]) /\ handling'[r] = handling[r]
    BY <1>1, RequestKinds
  <2>2. \A j \in Ids : handling[r].data[j].n \in Int
    BY RequestKinds, SyncConstants
  <2>3. \A j \in Ids : newest[j] >= handling[r].data[j].n => newest'[j] >= handling[r].data[j].n
    BY <1>3, <1>6, <2>2
  <2> QED
    BY <2>1, <2>3 DEF Answerable
<1>8. ASSUME NEW j \in Ids, queue'[j] = <<>>, upstream[j].is # "malformed"
      PROVE  newest'[j] = upstream[j].n
  <2>1. CASE queue[j] = <<>>
    <3>1. newest[j] = upstream[j].n
      BY <1>8, <2>1 DEF SyncInv, Written
    <3> QED
      BY <1>3, <1>6, <3>1
  <2>2. CASE queue[j] # <<>>
    <3>1. j = e.id /\ upstream[j] = e.change
      BY <1>2, <1>8, <2>2
    <3>2. newest'[j] >= upstream[j].n
      BY <1>3, <1>8, <3>1
    <3> QED
      BY <1>3, <1>6, <3>2
  <2> QED
    BY <2>1, <2>2
<1>9. Written'
  BY <1>1, <1>3, <1>7, <1>8 DEF Written
<1> QED
  BY <1>2, <1>4, <1>5, <1>9 DEF SyncInv

(* What a request goes on as: its data are what it has, or what OpsOrchestra *)
(* has.                                                                      *)
LEMMA HandleKeeps ==
  ASSUME SyncInv, NEW s \in Servers,
         \/ Continue(s) \/ Fail(s) \/ AskExport(s) \/ Export(s) \/ Import(s)
         \/ \E e \in flight : UpsertEvent(s, e)
         \/ \E ids \in SUBSET Ids : Save(s, ids)
  PROVE  SyncInv'
<1>0. /\ handling[s] \in Handling /\ \A i \in Ids : handling[s].data[i] \in Change
      /\ \A i \in Ids : Known(i, handling[s].data[i]) /\ Known(i, NoChange)
      /\ Answerable(handling[s]) /\ Answerable(Waiting)
      /\ Waiting \in Handling /\ \A i \in Ids : Waiting.data[i] = NoChange
  BY RequestKinds, SyncConstants
<1>1. CASE Fail(s) \/ (Import(s) /\ Handles(s, Waiting))
  BY <1>0, <1>1, RequestKeeps DEF Fail, Import
<1>2. CASE Continue(s)
  <2> DEFINE h == [handling[s] EXCEPT !.at = "writing"]
  <2>1. h \in Handling /\ h.data = handling[s].data /\ h.from = handling[s].from
    BY <1>0 DEF Handling
  <2>2. Handles(s, h) /\ handling[s].at = "rereading" /\ handling[s].todo # {}
    BY <1>2 DEF Continue, Is, Left
  <2>3. Answerable(h)
    BY <1>0, <2>1, <2>2 DEF Answerable
  <2> HIDE DEF h
  <2> QED
    BY <1>0, <1>2, <2>1, <2>2, <2>3, RequestKeeps DEF Continue
<1>3. CASE AskExport(s)
  <2> DEFINE h == [Waiting EXCEPT !.at = "exporting", !.from = "export"]
  <2>1. h \in Handling /\ h.data = Waiting.data /\ h.from = "export" /\ Handles(s, h)
    BY <1>0, <1>3 DEF Handling, AskExport
  <2> HIDE DEF h
  <2>2. Answerable(h) /\ \A i \in Ids : Known(i, h.data[i])
    BY <1>0, <2>1 DEF Answerable
  <2> QED
    BY <1>3, <2>1, <2>2, RequestKeeps DEF AskExport
<1>4. CASE Export(s)
  <2> DEFINE h == [handling[s] EXCEPT !.at = "exported", !.data = upstream]
  <2>1. /\ h \in Handling /\ h.data = upstream /\ h.from = handling[s].from /\ Handles(s, h)
        /\ handling[s].at = "exporting"
    BY <1>0, <1>4 DEF Handling, Export, Is, SyncInv, SyncTypeOK
  <2> HIDE DEF h
  <2>2. Answerable(h)
    BY <1>0, <2>1 DEF Answerable
  <2>3. \A i \in Ids : upstream[i].n \in Int
    BY SyncConstants DEF SyncInv, SyncTypeOK
  <2>4. \A i \in Ids : Known(i, h.data[i])
    BY <2>1, <2>3 DEF Known
  <2> QED
    BY <1>4, <2>1, <2>2, <2>4, RequestKeeps DEF Export
<1>5. CASE Import(s) /\ ~Handles(s, Waiting)
  <2> DEFINE good == Parse(handling[s].data)
             h == [handling[s] EXCEPT !.at = "writing", !.todo = good]
  <2>1. Handles(s, h) /\ handling[s].at = "exported"
    BY <1>5 DEF Import, Is
  <2>2. good \in SUBSET Ids
    BY DEF Parse, Exported
  <2> HIDE DEF good
  <2>3. h \in Handling /\ h.data = handling[s].data /\ h.from = handling[s].from
    BY <1>0, <2>2 DEF Handling
  <2>4. Answerable(h)
    BY <1>0, <2>1, <2>3 DEF Answerable
  <2> HIDE DEF h
  <2> QED
    BY <1>0, <1>5, <2>1, <2>3, <2>4, RequestKeeps DEF Import
<1>6. ASSUME NEW e \in flight, UpsertEvent(s, e) PROVE SyncInv'
  <2> DEFINE h == [Waiting EXCEPT !.at = "writing", !.from = "event", !.todo = {e.id},
                                  !.data[e.id] = e.change]
  <2>1. /\ e.id \in Ids /\ e.change \in Change /\ Known(e.id, e.change)
        /\ flight' \subseteq flight
    BY <1>6 DEF UpsertEvent, Arrives, SyncInv, SyncTypeOK, Heard, Event
  <2>2. Handles(s, h)
    BY <1>6 DEF UpsertEvent
  <2>3. /\ h \in Handling /\ h.at = "writing" /\ h.todo = {e.id}
        /\ h.data = [Waiting.data EXCEPT ![e.id] = e.change]
    BY <1>0, <2>1 DEF Handling
  <2> HIDE DEF h
  <2>4. Answerable(h)
    BY <2>1, <2>3 DEF Answerable
  <2>5. \A i \in Ids : Known(i, h.data[i])
    BY <1>0, <2>1, <2>3 DEF Handling
  <2> QED
    BY <1>6, <2>1, <2>2, <2>3, <2>4, <2>5, RequestKeeps DEF UpsertEvent
<1>7. ASSUME NEW ids \in SUBSET Ids, Save(s, ids) PROVE SyncInv'
  <2> DEFINE c == [n |-> ByHand, is |-> "valid"]
             h == [Waiting EXCEPT !.at = "writing", !.from = "hand", !.todo = ids,
                                  !.data = [i \in Ids |-> c]]
  <2>1. Handles(s, h)
    BY <1>7 DEF Save
  <2>2. c \in Change /\ c.n = ByHand
    BY SyncConstants
  <2> HIDE DEF c
  <2>3. h \in Handling /\ h.from = "hand" /\ h.data = [i \in Ids |-> c]
    BY <1>0, <2>2 DEF Handling
  <2> HIDE DEF h
  <2>4. \A i \in Ids : Known(i, c)
    BY <2>2, OlderByHand
  <2>5. Answerable(h) /\ \A i \in Ids : Known(i, h.data[i])
    BY <2>3, <2>4 DEF Answerable
  <2> QED
    BY <1>7, <2>1, <2>3, <2>5, RequestKeeps DEF Save
<1> QED
  BY <1>1, <1>2, <1>3, <1>4, <1>5, <1>6, <1>7

(* Every step keeps the invariant.                                           *)
LEMMA SyncInvNext ==
  ASSUME SyncInv, [SyncNext]_syncVars
  PROVE  SyncInv'
<1>1. ASSUME NEW s \in Servers, NEW i \in Ids, DeleteByHand(s, i) PROVE SyncInv'
  <2> DEFINE c == [n |-> ByHand, is |-> "gone"]
  <2>1. c \in Change /\ c.n = ByHand /\ Record(i, c)
    BY <1>1, SyncConstants DEF DeleteByHand
  <2> HIDE DEF c
  <2>2. /\ Known(i, c) /\ UNCHANGED <<perType, upstream, changes, queue, flight, handling>>
        /\ newest' \in [Ids -> 0 .. MaxChanges] /\ \A j \in Ids : newest'[j] >= newest[j]
    BY <1>1, <2>1, OlderByHand, RecordKeeps DEF DeleteByHand
  <2>3. ASSUME NEW r \in Servers PROVE Answerable(handling[r])'
    <3>1. Answerable(handling[r]) /\ handling'[r] = handling[r]
      BY <2>2, RequestKinds
    <3>2. \A j \in Ids : newest[j] \in Int /\ newest'[j] \in Int /\ handling[r].data[j].n \in Int
      BY <2>2, RequestKinds, SyncConstants DEF SyncInv, SyncTypeOK
    <3>3. \A j \in Ids : newest[j] >= handling[r].data[j].n => newest'[j] >= handling[r].data[j].n
      BY <2>2, <3>2
    <3> QED
      BY <3>1, <3>3 DEF Answerable
  <2>4. /\ handling' \in [Servers -> Handling]
        /\ \A r \in Servers : \A j \in Ids : Known(j, handling'[r].data[j])
    BY <2>2, RequestKinds DEF SyncInv, SyncTypeOK
  <2> QED
    BY <2>1, <2>2, <2>3, <2>4, WriteKeeps
<1>2. CASE UNCHANGED syncVars
  BY <1>2 DEF syncVars, SyncInv, SyncTypeOK, Heard, Known, InOrder, Written, Answerable
<1> QED
  BY <1>1, <1>2, ChangeKeeps, SendKeeps, UpsertKeeps, SucceedKeeps, EventKeeps, HandleKeeps
     DEF SyncNext

(* EntitiesCatchUp: for any entities, servers and changes, whatever attempts *)
(* are lost, late or repeated and whatever requests fail half way, the row   *)
(* of an entity whose events were all answered says what OpsOrchestra has.   *)
THEOREM EntitiesCatchUp == SyncSpec => []CatchesUp
<1>1. SyncInv => CatchesUp
  <2> SUFFICES ASSUME SyncInv, NEW i \in Ids \ disturbed, queue[i] = <<>>,
                      upstream[i].is # "malformed"
               PROVE  store[i] = upstream[i]
    BY DEF CatchesUp, Agrees
  <2>1. store[i].n = newest[i] /\ newest[i] = upstream[i].n
    BY DEF SyncInv, Written
  <2> QED
    BY <2>1 DEF SyncInv, Heard, Known
<1> QED
  BY <1>1, SyncInvInit, SyncInvNext, PTL DEF SyncSpec

(* SyncTypeCorrect: changes, events and requests are always of their kinds.  *)
THEOREM SyncTypeCorrect == SyncSpec => []SyncTypeOK
<1>1. SyncInv => SyncTypeOK
  BY DEF SyncInv
<1> QED
  BY <1>1, SyncInvInit, SyncInvNext, PTL DEF SyncSpec

-----------------------------------------------------------------------------
(* Exports are imported whole *)

(* Only Import takes an export to the rows, and it looks at all of it first. *)
LEMMA SoundExportsNext ==
  ASSUME SyncTypeOK, SoundExports, [SyncNext]_syncVars
  PROVE  SoundExports'
<1> DEFINE Sound(h) == h.from = "export" /\ h.at \in {"writing", "rereading"}
                         => (\A i \in Ids : h.data[i].is # "malformed") /\ ~TooMany(h.data)
<1>1. \A s \in Servers : handling[s] \in Handling /\ Sound(handling[s])
  BY DEF SyncTypeOK, SoundExports
<1>2. perType' = perType
  BY DEF SyncNext, ChangeUpstream, Send, Upsert, Continue, Succeed, Fail, AskExport, Export, Import,
         UpsertEvent, DeleteEvent, RefuseEvent, Save, DeleteByHand, syncVars
<1>3. ASSUME UNCHANGED handling PROVE SoundExports'
  BY <1>2, <1>3 DEF SoundExports, TooMany, Exported
<1>4. ASSUME NEW s \in Servers, NEW h, Handles(s, h), Sound(h) PROVE SoundExports'
  <2>1. \A r \in Servers : handling'[r] = handling[r] \/ handling'[r] = h
    BY <1>4 DEF Handles, SyncTypeOK
  <2> HIDE DEF Sound
  <2>2. \A r \in Servers : Sound(handling'[r])
    BY <1>1, <1>4, <2>1
  <2> QED
    BY <1>2, <2>2 DEF SoundExports, Sound, TooMany, Exported
<1>5. ASSUME NEW s \in Servers, Upsert(s) \/ Continue(s) PROVE SoundExports'
  <2>1. CASE Upsert(s)
    <3>1. PICK i \in handling[s].todo :
            Handles(s, [handling[s] EXCEPT !.at = "rereading", !.todo = @ \ {i}, !.last = i])
      BY <2>1 DEF Upsert
    <3> DEFINE h == [handling[s] EXCEPT !.at = "rereading", !.todo = @ \ {i}, !.last = i]
    <3>2. h.from = handling[s].from /\ h.data = handling[s].data /\ handling[s].at = "writing"
      BY <1>1, <2>1 DEF Handling, Upsert, Is
    <3> HIDE DEF h
    <3>3. Sound(h)
      BY <1>1, <3>2
    <3> QED
      BY <1>4, <3>1, <3>3 DEF h
  <2>2. CASE Continue(s)
    <3> DEFINE h == [handling[s] EXCEPT !.at = "writing"]
    <3>1. /\ h.from = handling[s].from /\ h.data = handling[s].data /\ handling[s].at = "rereading"
          /\ Handles(s, h)
      BY <1>1, <2>2 DEF Handling, Continue, Is
    <3> HIDE DEF h
    <3>2. Sound(h)
      BY <1>1, <3>1
    <3> QED
      BY <1>4, <3>1, <3>2
  <2> QED
    BY <1>5, <2>1, <2>2
<1>6. ASSUME NEW s \in Servers, Succeed(s) \/ Fail(s) \/ AskExport(s) \/ Export(s)
      PROVE SoundExports'
  <2>1. CASE Succeed(s) \/ Fail(s)
    BY <1>4, <2>1, SyncConstants DEF Succeed, Fail
  <2>2. CASE AskExport(s)
    <3> DEFINE h == [Waiting EXCEPT !.at = "exporting", !.from = "export"]
    <3>1. Handles(s, h) /\ h.at = "exporting"
      BY <2>2 DEF AskExport, Waiting
    <3> HIDE DEF h
    <3> QED
      BY <1>4, <3>1
  <2>3. CASE Export(s)
    <3> DEFINE h == [handling[s] EXCEPT !.at = "exported", !.data = upstream]
    <3>1. Handles(s, h) /\ h.at = "exported"
      BY <1>1, <2>3 DEF Export, Handling
    <3> HIDE DEF h
    <3> QED
      BY <1>4, <3>1
  <2> QED
    BY <1>6, <2>1, <2>2, <2>3
<1>7. ASSUME NEW s \in Servers, NEW e \in flight, UpsertEvent(s, e) PROVE SoundExports'
  <2> DEFINE h == [Waiting EXCEPT !.at = "writing", !.from = "event", !.todo = {e.id},
                                  !.data[e.id] = e.change]
  <2>1. Handles(s, h) /\ h.from = "event"
    BY <1>7 DEF UpsertEvent, Waiting
  <2> HIDE DEF h
  <2> QED
    BY <1>4, <2>1
<1>8. ASSUME NEW s \in Servers, NEW ids \in SUBSET Ids, Save(s, ids) PROVE SoundExports'
  <2> DEFINE h == [Waiting EXCEPT !.at = "writing", !.from = "hand", !.todo = ids,
                                  !.data = [i \in Ids |-> [n |-> ByHand, is |-> "valid"]]]
  <2>1. Handles(s, h) /\ h.from = "hand"
    BY <1>8 DEF Save, Waiting
  <2> HIDE DEF h
  <2> QED
    BY <1>4, <2>1
<1>9. ASSUME NEW s \in Servers, Import(s) PROVE SoundExports'
  <2> DEFINE data == handling[s].data
             good == Parse(data)
             h == [handling[s] EXCEPT !.at = "writing", !.todo = good]
  <2>1. CASE good = {}
    <3>1. Handles(s, Waiting) /\ Sound(Waiting)
      BY <1>9, <2>1, SyncConstants DEF Import
    <3> QED
      BY <1>4, <3>1
  <2>2. CASE good # {}
    <3>1. Handles(s, h) /\ h.data = data
      BY <1>1, <1>9, <2>2 DEF Import, Handling
    <3>2. (\A i \in Ids : data[i].is # "malformed") /\ ~TooMany(data)
      BY <2>2 DEF Parse, Exported
    <3> HIDE DEF h, good, data
    <3>3. Sound(h)
      BY <3>1, <3>2
    <3> QED
      BY <1>4, <3>1, <3>3
  <2> QED
    BY <2>1, <2>2
<1>10. CASE UNCHANGED syncVars \/ \E i \in Ids : ChangeUpstream(i) \/ Send(i)
  BY <1>3, <1>10 DEF syncVars, ChangeUpstream, Send
<1>11. ASSUME NEW s \in Servers,
              \/ \E e \in flight : DeleteEvent(s, e) \/ RefuseEvent(s, e)
              \/ \E i \in Ids : DeleteByHand(s, i)
       PROVE  SoundExports'
  BY <1>3, <1>11 DEF DeleteEvent, RefuseEvent, DeleteByHand
<1> QED
  BY <1>5, <1>6, <1>7, <1>8, <1>9, <1>10, <1>11 DEF SyncNext

(* ExportsAreSound: for any limit and any groups of entities, nothing of an  *)
(* export that _parse_graph_entities refuses as a whole reaches a row.       *)
THEOREM ExportsAreSound == SyncSpec => []SoundExports
<1>1. SyncInit => SoundExports
  BY SyncConstants DEF SyncInit, SoundExports
<1>2. SyncInv => SyncTypeOK
  BY DEF SyncInv
<1> QED
  BY <1>1, <1>2, SyncInvInit, SyncInvNext, SoundExportsNext, PTL DEF SyncSpec
=============================================================================

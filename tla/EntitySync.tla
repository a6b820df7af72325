----------------------------- MODULE EntitySync -----------------------------
(***************************************************************************)
(* The entities of a tenant (storage/entity_repository.py) and everything  *)
(* that writes them in api/main.py: the handlers for organizations and     *)
(* entities, the CSV import, the webhook of OpsOrchestra and the import of *)
(* its graph export (connectors/opsorchestra_connector.py).                *)
(*                                                                         *)
(* OpsOrchestra is outside: it changes its entities, sends an event for    *)
(* each change, one entity's events one after another, and repeats an      *)
(* event until it is answered, so that an attempt it gave up on may still  *)
(* arrive much later; and it exports what it has.                          *)
(***************************************************************************)
EXTENDS Integers, Sequences, FiniteSets, Deployment

CONSTANTS
  Ids,         \* entities
  GroupOf,     \* the list of the export that an entity is in
  Limits,      \* values opsorchestra_graph_max_entities_per_type may have
  MaxChanges   \* bound: changes made upstream

NoId == "no id"

ASSUME SyncAssumption == MaxChanges \in Nat /\ NoId \notin Ids

VARIABLES
  perType,   \* opsorchestra_graph_max_entities_per_type of this deployment
  upstream,  \* the last change of each entity at OpsOrchestra
  changes,   \* changes made so far
  queue,     \* events that OpsOrchestra has not seen answered, by entity
  flight,    \* attempts to deliver that may still arrive
  store,     \* the table entities: the change a row was written from
  handling,  \* what each server is doing
  newest,    \* history: the newest change that was ever written, by entity
  disturbed  \* history: entities last written from an older change, or by hand

syncVars == <<perType, upstream, changes, queue, flight, store, handling, newest, disturbed>>

\* n: number of the change, 0 for none and ByHand for one made here.
ByHand == -1
Change == [n : ByHand .. MaxChanges, is : {"gone", "valid", "malformed"}]
NoChange == [n |-> 0, is |-> "gone"]
Event == [id : Ids, change : Change]

\* todo: entities still to be written from data; last: the one just written.
Waiting == [at |-> "waiting", from |-> "nobody", todo |-> {}, last |-> NoId,
            data |-> [i \in Ids |-> NoChange]]
Handling == [at : {"waiting", "exporting", "exported", "writing", "rereading"},
             from : {"nobody", "event", "export", "hand"}, todo : SUBSET Ids, last : Ids \cup {NoId},
             data : [Ids -> Change]]

SyncInit ==
  /\ perType \in Limits
  /\ upstream = [i \in Ids |-> NoChange]
  /\ changes = 0
  /\ queue = [i \in Ids |-> <<>>]
  /\ flight = {}
  /\ store = [i \in Ids |-> NoChange]
  /\ handling = [s \in Servers |-> Waiting]
  /\ newest = [i \in Ids |-> 0]
  /\ disturbed = {}

Handles(s, state) == handling' = [handling EXCEPT ![s] = state]
Is(s, where) == handling[s].at = where

-----------------------------------------------------------------------------
(* OpsOrchestra *)

ChangeUpstream(i) ==
  /\ changes < MaxChanges
  /\ \E is \in {"gone", "valid", "malformed"} :
       LET c == [n |-> changes + 1, is |-> is]
       IN  /\ is = "gone" => upstream[i].is # "gone"
           /\ upstream' = [upstream EXCEPT ![i] = c]
           /\ queue' = [queue EXCEPT ![i] = Append(@, c)]
  /\ changes' = changes + 1
  /\ UNCHANGED <<perType, flight, store, handling, newest, disturbed>>

Send(i) ==
  /\ queue[i] # <<>>
  /\ flight' = flight \cup {[id |-> i, change |-> Head(queue[i])]}
  /\ UNCHANGED <<perType, upstream, changes, queue, store, handling, newest, disturbed>>

\* An answer below 500 settles the event; the answer may be lost.
Settles(e) ==
  queue' \in {queue, IF queue[e.id] # <<>> /\ Head(queue[e.id]) = e.change
                       THEN [queue EXCEPT ![e.id] = Tail(@)] ELSE queue}

\* An attempt arrives, once or again.
Arrives(e) == e \in flight /\ flight' \in {flight, flight \ {e}}

-----------------------------------------------------------------------------
(* upsert_entity and delete_entity *)

\* What a row is written from, and whether that sets it back.
Record(i, c) ==
  /\ store' = [store EXCEPT ![i] = c]
  /\ newest' = [newest EXCEPT ![i] = IF c.n > @ THEN c.n ELSE @]
  /\ disturbed' = IF c.n < newest[i] THEN disturbed \cup {i} ELSE disturbed \ {i}

\* Mutant: a row that exists is kept.
InsertOnly(s) ==
  /\ Is(s, "writing")
  /\ \E i \in handling[s].todo :
       /\ Record(i, IF store[i].is = "gone" THEN handling[s].data[i] ELSE store[i])
       /\ Handles(s, [handling[s] EXCEPT !.at = "rereading", !.todo = @ \ {i}, !.last = i])
  /\ UNCHANGED <<perType, upstream, changes, queue, flight>>

\* INSERT ... ON CONFLICT DO UPDATE of the next entity, whatever the row came from.
Upsert(s) ==
  /\ Is(s, "writing")
  /\ \E i \in handling[s].todo :
       /\ Record(i, handling[s].data[i])
       /\ Handles(s, [handling[s] EXCEPT !.at = "rereading", !.todo = @ \ {i}, !.last = i])
  /\ UNCHANGED <<perType, upstream, changes, queue, flight>>

Left(s) == handling[s].todo # {}
Persisted(s) == store[handling[s].last].is # "gone"

\* The row is read again; the rest of the import follows.
Continue(s) ==
  /\ Is(s, "rereading") /\ Persisted(s) /\ Left(s)
  /\ Handles(s, [handling[s] EXCEPT !.at = "writing"])
  /\ UNCHANGED <<perType, upstream, changes, queue, flight, store, newest, disturbed>>

Succeed(s) ==
  /\ Is(s, "rereading") /\ Persisted(s) /\ ~Left(s)
  /\ IF handling[s].from = "event"
       THEN LET i == handling[s].last IN Settles([id |-> i, change |-> handling[s].data[i]])
       ELSE UNCHANGED queue
  /\ Handles(s, Waiting)
  /\ UNCHANGED <<perType, upstream, changes, flight, store, newest, disturbed>>

\* A DatabaseError, the row deleted by another process before it was read again,
\* or the end of the process: what is written stays, the rest is not.
Fail(s) ==
  /\ ~Is(s, "waiting")
  /\ Handles(s, Waiting)
  /\ UNCHANGED <<perType, upstream, changes, queue, flight, store, newest, disturbed>>

-----------------------------------------------------------------------------
(* opsorchestra_webhook *)

\* entity.created and entity.updated
UpsertEvent(s, e) ==
  /\ Is(s, "waiting") /\ Arrives(e) /\ e.change.is = "valid"
  /\ Handles(s, [Waiting EXCEPT !.at = "writing", !.from = "event", !.todo = {e.id},
                                !.data[e.id] = e.change])
  /\ UNCHANGED <<perType, upstream, changes, queue, store, newest, disturbed>>

\* entity.deleted: one statement; no row is no error.
DeleteEvent(s, e) ==
  /\ Is(s, "waiting") /\ Arrives(e) /\ e.change.is = "gone"
  /\ Record(e.id, e.change)
  /\ Settles(e)
  /\ UNCHANGED <<perType, upstream, changes, handling>>

\* 400 or 422: the sender does not repeat it.
RefuseEvent(s, e) ==
  /\ Is(s, "waiting") /\ Arrives(e) /\ e.change.is = "malformed"
  /\ Settles(e)
  /\ UNCHANGED <<perType, upstream, changes, store, handling, newest, disturbed>>

-----------------------------------------------------------------------------
(* pull_entities_from_opsorchestra *)

AskExport(s) ==
  /\ Is(s, "waiting")
  /\ Handles(s, [Waiting EXCEPT !.at = "exporting", !.from = "export"])
  /\ UNCHANGED <<perType, upstream, changes, queue, flight, store, newest, disturbed>>

\* OpsOrchestra answers with what it has; the handler awaits it.
Export(s) ==
  /\ Is(s, "exporting")
  /\ Handles(s, [handling[s] EXCEPT !.at = "exported", !.data = upstream])
  /\ UNCHANGED <<perType, upstream, changes, queue, flight, store, newest, disturbed>>

Exported(data) == {i \in Ids : data[i].is # "gone"}

TooMany(data) ==
  \E i \in Exported(data) : Cardinality({j \in Exported(data) : GroupOf[j] = GroupOf[i]}) > perType

\* Mutant: an item that cannot be parsed is left out.
ParseWhatFits(data) ==
  IF TooMany(data) THEN {} ELSE {i \in Exported(data) : data[i].is = "valid"}

\* _parse_graph_entities: one bad item, or one list too long, spoils the export.
Parse(data) ==
  IF TooMany(data) \/ \E i \in Exported(data) : data[i].is = "malformed" THEN {} ELSE Exported(data)

Import(s) ==
  /\ Is(s, "exported")
  /\ LET good == Parse(handling[s].data)
     IN  IF good = {} THEN Handles(s, Waiting)
                      ELSE Handles(s, [handling[s] EXCEPT !.at = "writing", !.todo = good])
  /\ UNCHANGED <<perType, upstream, changes, queue, flight, store, newest, disturbed>>

-----------------------------------------------------------------------------
(* The handlers for organizations and entities, and import_from_csv *)

\* One entity, or those of a file that could be loaded as a whole.
Save(s, ids) ==
  /\ Is(s, "waiting") /\ ids # {}
  /\ Handles(s, [Waiting EXCEPT !.at = "writing", !.from = "hand", !.todo = ids,
                                !.data = [i \in Ids |-> [n |-> ByHand, is |-> "valid"]]])
  /\ UNCHANGED <<perType, upstream, changes, queue, flight, store, newest, disturbed>>

DeleteByHand(s, i) ==
  /\ Is(s, "waiting")
  /\ store[i].is # "gone"
  /\ Record(i, [n |-> ByHand, is |-> "gone"])
  /\ UNCHANGED <<perType, upstream, changes, queue, flight, handling>>

SyncNext ==
  \/ \E i \in Ids : ChangeUpstream(i) \/ Send(i)
  \/ \E s \in Servers :
       \/ Upsert(s) \/ Continue(s) \/ Succeed(s) \/ Fail(s)
       \/ AskExport(s) \/ Export(s) \/ Import(s)
       \/ \E e \in flight : UpsertEvent(s, e) \/ DeleteEvent(s, e) \/ RefuseEvent(s, e)
       \/ \E ids \in SUBSET Ids : Save(s, ids)
       \/ \E i \in Ids : DeleteByHand(s, i)

SyncSpec == SyncInit /\ [][SyncNext]_syncVars

-----------------------------------------------------------------------------
(* Properties *)

(* SyncTypeOK: changes, events and requests are of their kinds.              *)
SyncTypeOK ==
  /\ perType \in Limits
  /\ upstream \in [Ids -> Change]
  /\ changes \in 0 .. MaxChanges
  /\ \A i \in Ids : Len(queue[i]) <= MaxChanges /\ \A k \in 1 .. Len(queue[i]) : queue[i][k] \in Change
  /\ flight \subseteq Event
  /\ store \in [Ids -> Change]
  /\ handling \in [Servers -> Handling]
  /\ newest \in [Ids -> 0 .. MaxChanges]
  /\ disturbed \subseteq Ids

(* CatchesUp: once OpsOrchestra has seen its events of an entity answered,   *)
(* the row says what OpsOrchestra has, whatever was repeated, failed half    *)
(* way or ran at the same time, unless the last write was by hand, by an     *)
(* attempt that came late or by an export that was older than an event.      *)
Agrees(i) == store[i] = upstream[i] \/ (store[i].is = "gone" /\ upstream[i].is = "gone")

CatchesUp ==
  \A i \in Ids \ disturbed :
    queue[i] = <<>> /\ upstream[i].is # "malformed" => Agrees(i)

(* SoundExports: whatever an export leaves in the table comes from one that  *)
(* had no item that cannot be parsed and no list that was too long.          *)
SoundExports ==
  \A s \in Servers :
    handling[s].from = "export" /\ handling[s].at \in {"writing", "rereading"}
      => /\ \A i \in Ids : handling[s].data[i].is # "malformed"
         /\ ~TooMany(handling[s].data)
=============================================================================

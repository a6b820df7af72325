---------------------------- MODULE OutboundSync ----------------------------
(***************************************************************************)
(* The delivery of an assessment report to OpsOrchestra: the handler       *)
(* sync_assessment_to_opsorchestra of api/main.py and the retry loop of    *)
(* connectors/opsorchestra_connector.py.  The receiver is outside; the     *)
(* network may lose a request, an answer, or take too long for either.     *)
(***************************************************************************)
EXTENDS Integers, Deployment

VARIABLES
  push,      \* the request under way, or how the last one was answered
  attempt,   \* of the retry loop, from 0
  reply,     \* what send() came to
  received,  \* history: times the receiver took the report of this request
  exported   \* history: requests recorded as exported (audit_data_export)

outVars == <<push, attempt, reply, received, exported>>

Nothing == "nothing"
Retryable == {"busy", "dropped"}  \* 408, 425, 429, 5xx; a listed transport error
Replies == Retryable \cup {"taken", "refused", "broken"}
  \* refused: another status, a redirect included; broken: any other httpx error

OutInit ==
  /\ push = "idle"
  /\ attempt = 0
  /\ reply = Nothing
  /\ received = 0
  /\ exported = FALSE

\* The report is there and the URL is configured.
Sync ==
  /\ push \in {"idle", "synced", "failed"}
  /\ push' = "sending"
  /\ attempt' = 0 /\ reply' = Nothing /\ received' = 0 /\ exported' = FALSE

\* The receiver takes the report whenever it says so, and perhaps when the answer is lost
\* or an intermediary answers for it.
Post ==
  /\ push = "sending" /\ reply = Nothing
  /\ \E r \in Replies :
       /\ reply' = r
       /\ received' \in IF r = "taken" THEN {received + 1}
                        ELSE IF r \in {"dropped", "broken", "busy"} THEN {received, received + 1}
                        ELSE {received}
  /\ UNCHANGED <<push, attempt, exported>>

\* Mutant: a retryable status of the last attempt is returned as it is.
AcceptsLast(r) == r = "taken" \/ (r = "busy" /\ attempt = MaxRetries)

\* raise_for_status does not raise.
Accepts(r) == r = "taken"

PostAgain ==
  /\ push = "sending" /\ reply \in Retryable /\ attempt < MaxRetries
  /\ attempt' = attempt + 1
  /\ reply' = Nothing
  /\ UNCHANGED <<push, received, exported>>

RaiseError ==
  /\ push = "sending" /\ reply # Nothing /\ ~Accepts(reply)
  /\ reply \in Retryable => attempt = MaxRetries
  /\ push' = "failed"
  /\ UNCHANGED <<attempt, reply, received, exported>>

\* A body that claims to be JSON and is not ends the request after the delivery.
ReadBody ==
  /\ push = "sending" /\ Accepts(reply)
  /\ \/ push' = "synced" /\ exported' = TRUE
     \/ push' = "failed" /\ UNCHANGED exported
  /\ UNCHANGED <<attempt, reply, received>>

\* The client goes away while the handler waits, or the process ends.
Cancel ==
  /\ push = "sending"
  /\ push' = "failed"
  /\ UNCHANGED <<attempt, reply, received, exported>>

OutNext == Sync \/ Post \/ PostAgain \/ RaiseError \/ ReadBody \/ Cancel

OutSpec == OutInit /\ [][OutNext]_outVars

(* OutTypeOK: the request and the loop are of their kinds.                   *)
OutTypeOK ==
  /\ push \in {"idle", "sending", "synced", "failed"}
  /\ attempt \in 0 .. MaxRetries
  /\ reply \in Replies \cup {Nothing}
  /\ received \in Nat
  /\ exported \in BOOLEAN

(* SyncedWasReceived: a report that is answered or recorded as synced was    *)
(* taken by OpsOrchestra, and however often the loop repeats itself it never *)
(* delivers more than MaxRetries + 1 copies.                                 *)
SyncedWasReceived ==
  /\ push = "synced" \/ exported => received > 0
  /\ received <= MaxRetries + 1
=============================================================================

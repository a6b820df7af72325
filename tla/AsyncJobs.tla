----------------------------- MODULE AsyncJobs -----------------------------
(***************************************************************************)
(* Asynchronous assessments: the upload handler and the dispatchers of     *)
(* schedules, which submit jobs, the row of the job in SQLite, the Redis   *)
(* list of job ids, and the processors that run jobs, namely the runtime   *)
(* workers (AsyncAssessmentWorker and BrokerAsyncAssessmentWorker) and, in *)
(* poll mode, the status handlers of the API.                              *)
(*                                                                         *)
(* One action is one transaction on the database, one call to the broker,  *)
(* one change of the file system or one suspension of a coroutine, since   *)
(* the processes share nothing else and each can die between any two.      *)
(***************************************************************************)
EXTENDS Naturals, Sequences, FiniteSets

CONSTANTS
  Jobs,        \* uploads a client may submit; an upload that is admitted is a job
  Dispatched,  \* those that are no uploads: a dispatcher of schedules makes them
  Tenants,     \* tenants
  TenantOf,    \* the tenant each upload belongs to
  BadData,     \* uploads the assessment engine raises on
  Workers,     \* runtime workers: the API's own one, or scalescore-worker
  Handlers,    \* GET /assessments/async/{job_id} handlers
  Mode,        \* settings.async_assessment.mode
  QueueLimit,  \* max_outstanding_jobs_per_tenant
  MaxUploads,  \* uploads of one tenant being received at once (server concurrency)
  Budget,      \* how often each environment event may happen
  NoJob        \* what a processor that has no job holds

Procs == Workers \cup Handlers
Events == {"start", "crash", "stop", "fault"}

ASSUME AsyncJobsAssumption ==
  /\ TenantOf \in [Jobs -> Tenants]
  /\ Dispatched \subseteq Jobs /\ IsFiniteSet(Dispatched)
  /\ Workers \cap Handlers = {}
  /\ Mode \in {"poll", "background", "broker"}
  /\ QueueLimit \in Nat \ {0}
  /\ MaxUploads \in Nat \ {0}
  /\ Budget \in [Events -> Nat]
  /\ NoJob \notin Jobs

VARIABLES
  upload,    \* how far the submission of each upload has come
  status,    \* the job row: status,
  percent,   \*   progress_percentage
  report,    \*   and report_id: which of the job's reports, 0 for NULL
  arrival,   \* jobs in the order of created_at
  datasets,  \* jobs whose dataset directory exists
  reports,   \* saved reports <<job, run of the job that made it>>
  runs,      \* how often each job was claimed
  broker,    \* the Redis list
  orphans,   \* workers whose BLPOP thread outlives the cancelled coroutine
  pc,        \* where each processor is
  task,      \* the job it holds
  run,       \* which run of that job it is
  left       \* what is left of Budget

rowVars == <<status, percent, report, arrival, runs>>
procVars == <<pc, task, run, orphans>>
vars == <<upload, status, percent, report, arrival, datasets, reports, runs,
          broker, orphans, pc, task, run, left>>

Terminal == {"completed", "failed"}
Status == {"none", "queued", "processing"} \cup Terminal
UploadState == {"new", "receiving", "created", "unpublished",
                "accepted", "rejected", "unavailable", "errored", "aborted"}
PC == {"off", "idle", "popped", "claimed", "running", "computed", "saving",
       "saved", "raised", "cleaning", "dying", "dead"}

Init ==
  /\ upload = [j \in Jobs |-> "new"]
  /\ status = [j \in Jobs |-> "none"]
  /\ percent = [j \in Jobs |-> 0]
  /\ report = [j \in Jobs |-> 0]
  /\ arrival = <<>>
  /\ datasets = {}
  /\ reports = {}
  /\ runs = [j \in Jobs |-> 0]
  /\ broker = <<>>
  /\ orphans = {}
  /\ pc = [p \in Procs |-> IF p \in Workers THEN "off" ELSE "idle"]
  /\ task = [p \in Procs |-> NoJob]
  /\ run = [p \in Procs |-> 0]
  /\ left = Budget

Spend(e) == left[e] > 0 /\ left' = [left EXCEPT ![e] = @ - 1]

-----------------------------------------------------------------------------
(* Submission: the upload handler, or _dispatch_schedule *)

UploadsAt(t, where) == {j \in Jobs \ Dispatched : TenantOf[j] = t /\ upload[j] = where}

\* Jobs of tenant t that count_jobs(QUEUED, PROCESSING) sees.
Outstanding(t) ==
  {j \in Jobs : TenantOf[j] = t /\ status[j] \in {"queued", "processing"}}

\* Mutant: the limit is off by one.
QueueHasRoomAtLimit(t) == Cardinality(Outstanding(t)) <= QueueLimit

QueueHasRoom(t) == Cardinality(Outstanding(t)) < QueueLimit

\* The limit is checked and the directory made before the files are awaited. A
\* dispatcher does not look at the limit before it copies its dataset.
Admit(j) ==
  /\ upload[j] = "new"
  /\ \/ j \in Dispatched
     \/ /\ Cardinality(UploadsAt(TenantOf[j], "receiving")) < MaxUploads
        /\ QueueHasRoom(TenantOf[j])
  /\ upload' = [upload EXCEPT ![j] = "receiving"]
  /\ datasets' = datasets \cup {j}
  /\ UNCHANGED <<rowVars, procVars, reports, broker, left>>

RejectFull(j) ==
  /\ upload[j] = "new" /\ j \notin Dispatched
  /\ ~QueueHasRoom(TenantOf[j])
  /\ upload' = [upload EXCEPT ![j] = "rejected"]
  /\ UNCHANGED <<rowVars, procVars, datasets, reports, broker, left>>

\* A file is empty or too large, or cannot be copied: the directory goes too.
RejectFiles(j) ==
  /\ upload[j] = "receiving"
  /\ upload' = [upload EXCEPT ![j] = "rejected"]
  /\ datasets' = datasets \ {j}
  /\ UNCHANGED <<rowVars, procVars, reports, broker, left>>

InsertRow(j) ==
  /\ status' = [status EXCEPT ![j] = "queued"]
  /\ percent' = [percent EXCEPT ![j] = 0]
  /\ report' = [report EXCEPT ![j] = 0]
  /\ arrival' = Append(arrival, j)

\* Mutant: nothing is published.
AfterCreateUnpublished == "accepted"

\* Only broker mode has something left to do before the 202 is sent.
AfterCreate == IF Mode = "broker" THEN "created" ELSE "accepted"

CreateJob(j) ==
  /\ upload[j] = "receiving"
  /\ InsertRow(j)
  /\ upload' = [upload EXCEPT ![j] = AfterCreate]
  /\ UNCHANGED <<procVars, datasets, reports, runs, broker, left>>

\* The row is committed, but reading it back raises: the directory of a job
\* that stays queued is removed.
CreateJobUnread(j) ==
  /\ upload[j] = "receiving"
  /\ Spend("fault")
  /\ InsertRow(j)
  /\ datasets' = datasets \ {j}
  /\ upload' = [upload EXCEPT ![j] = "errored"]
  /\ UNCHANGED <<procVars, reports, runs, broker>>

Publish(j) ==
  /\ upload[j] = "created"
  /\ broker' = Append(broker, j)
  /\ upload' = [upload EXCEPT ![j] = "accepted"]
  /\ UNCHANGED <<rowVars, procVars, datasets, reports, left>>

\* Mutant: an RPUSH that raised is tried again.
PublishRetries(j) ==
  /\ upload[j] = "created"
  /\ Spend("fault")
  /\ broker' = Append(broker, j)
  /\ UNCHANGED <<upload, rowVars, procVars, datasets, reports>>

\* RPUSH raises: the list may or may not have been extended.
PublishRaises(j) ==
  /\ upload[j] = "created"
  /\ Spend("fault")
  /\ \E reached \in BOOLEAN :
       broker' = IF reached THEN Append(broker, j) ELSE broker
  /\ upload' = [upload EXCEPT ![j] = "unpublished"]
  /\ UNCHANGED <<rowVars, procVars, datasets, reports>>

SetFailed(j) ==
  /\ status' = [status EXCEPT ![j] = "failed"]
  /\ UNCHANGED <<percent, report, arrival, runs>>

\* "Job was marked failed and can be retried", then the directory is removed;
\* it is removed as well if mark_failed raises.
MarkUnpublished(j) ==
  /\ upload[j] = "unpublished"
  /\ \/ /\ SetFailed(j)
        /\ upload' = [upload EXCEPT ![j] = "unavailable"]
        /\ UNCHANGED left
     \/ /\ Spend("fault")
        /\ upload' = [upload EXCEPT ![j] = "errored"]
        /\ UNCHANGED rowVars
  /\ datasets' = datasets \ {j}
  /\ UNCHANGED <<procVars, reports, broker>>

\* mark_run_dispatched raises: the dispatcher takes the directory of its job
\* away, which waits, runs or has run.
Disown(j) ==
  /\ j \in Dispatched /\ upload[j] = "accepted"
  /\ Spend("fault")
  /\ upload' = [upload EXCEPT ![j] = "errored"]
  /\ datasets' = datasets \ {j}
  /\ UNCHANGED <<rowVars, procVars, reports, broker>>

\* The process dies, or the request is cancelled, during a submission.
AbortUpload(j) ==
  /\ upload[j] \in {"receiving", "created", "unpublished"}
  /\ Spend("crash")
  /\ upload' = [upload EXCEPT ![j] = "aborted"]
  /\ UNCHANGED <<rowVars, procVars, datasets, reports, broker>>

Submission(j) ==
  Admit(j) \/ RejectFull(j) \/ RejectFiles(j) \/ CreateJob(j) \/ CreateJobUnread(j)
    \/ Publish(j) \/ PublishRaises(j) \/ MarkUnpublished(j) \/ Disown(j) \/ AbortUpload(j)

-----------------------------------------------------------------------------
(* Processors: taking a job *)

Goto(p, to) == pc' = [pc EXCEPT ![p] = to]
Holds(p, j) == task[p] = j

\* Mutant: a row that is being processed is selected, too.
QueuedOrProcessing == {j \in Jobs : status[j] \in {"queued", "processing"}}

Queued == {j \in Jobs : status[j] = "queued"}

\* SELECT ... ORDER BY created_at LIMIT 1
Oldest(j) ==
  /\ j \in Queued
  /\ \E i \in DOMAIN arrival :
       arrival[i] = j /\ \A k \in 1 .. (i - 1) : arrival[k] \notin Queued

\* Mutant: the claim forgets to set the status.
TakeRowQuietly(p, j) ==
  /\ runs' = [runs EXCEPT ![j] = @ + 1]
  /\ run' = [run EXCEPT ![p] = runs[j] + 1]
  /\ task' = [task EXCEPT ![p] = j]
  /\ UNCHANGED <<status, percent, report, arrival>>

\* The compare-and-set UPDATE both claim methods share.
TakeRow(p, j) ==
  /\ status' = [status EXCEPT ![j] = "processing"]
  /\ percent' = [percent EXCEPT ![j] = 10]
  /\ runs' = [runs EXCEPT ![j] = @ + 1]
  /\ run' = [run EXCEPT ![p] = runs[j] + 1]
  /\ task' = [task EXCEPT ![p] = j]
  /\ UNCHANGED <<report, arrival>>

\* claim_next_queued_job, by a worker outside broker mode or by a status
\* request in poll mode.
ClaimsFromRows(p) ==
  \/ p \in Workers /\ Mode # "broker"
  \/ p \in Handlers /\ Mode = "poll"

ClaimNext(p, j) ==
  /\ pc[p] = "idle" /\ ClaimsFromRows(p)
  /\ Oldest(j)
  /\ TakeRow(p, j)
  /\ Goto(p, "claimed")
  /\ UNCHANGED <<upload, datasets, reports, broker, orphans, left>>

\* An idle broker worker has a thread in BLPOP, which hands it the id it pops.
Pop(w) ==
  /\ pc[w] = "idle" /\ w \in Workers /\ Mode = "broker"
  /\ broker # <<>>
  /\ broker' = Tail(broker)
  /\ task' = [task EXCEPT ![w] = Head(broker)]
  /\ Goto(w, "popped")
  /\ UNCHANGED <<upload, rowVars, datasets, reports, run, orphans, left>>

ClaimPopped(w, j) ==
  /\ pc[w] = "popped" /\ Holds(w, j)
  /\ status[j] = "queued"
  /\ TakeRow(w, j)
  /\ Goto(w, "claimed")
  /\ UNCHANGED <<upload, datasets, reports, broker, orphans, left>>

\* claim_job finds no queued row of that id, and the id is gone.
DropPopped(w, j) ==
  /\ pc[w] = "popped" /\ Holds(w, j)
  /\ status[j] # "queued"
  /\ task' = [task EXCEPT ![w] = NoJob]
  /\ Goto(w, "idle")
  /\ UNCHANGED <<upload, rowVars, datasets, reports, broker, run, orphans, left>>

-----------------------------------------------------------------------------
(* Processors: running a job. No write below looks at the status of the row. *)

\* A step of p inside _process_job, from one place to the next.
At(p, j, from, to) == pc[p] = from /\ Holds(p, j) /\ Goto(p, to)

Report(p, j) == <<j, run[p]>>

\* Mutant: progress is added up.
AddPercent(j, n) == percent' = [percent EXCEPT ![j] = @ + n]

SetPercent(j, n) == percent' = [percent EXCEPT ![j] = n]

\* update_progress before the engine runs ...
Begin(p, j) ==
  /\ At(p, j, "claimed", "running")
  /\ SetPercent(j, 30)
  /\ UNCHANGED <<upload, status, report, arrival, runs, datasets, reports, broker,
                 orphans, task, run, left>>

\* ... the engine reads the dataset in a thread ...
Run(p, j) ==
  /\ At(p, j, "running",
        IF j \in datasets /\ j \notin BadData THEN "computed" ELSE "raised")
  /\ UNCHANGED <<upload, rowVars, datasets, reports, broker, orphans, task, run, left>>

SetCompleted(p, j) ==
  /\ status' = [status EXCEPT ![j] = "completed"]
  /\ percent' = [percent EXCEPT ![j] = 100]
  /\ report' = [report EXCEPT ![j] = run[p]]
  /\ UNCHANGED <<arrival, runs>>

\* Mutant: the row is completed before the report is saved.
CompletedEarly(p, j) ==
  /\ At(p, j, "computed", "saving")
  /\ SetCompleted(p, j)
  /\ UNCHANGED <<upload, datasets, reports, broker, orphans, task, run, left>>

\* ... update_progress after it ...
Computed(p, j) ==
  /\ At(p, j, "computed", "saving")
  /\ SetPercent(j, 85)
  /\ UNCHANGED <<upload, status, report, arrival, runs, datasets, reports, broker,
                 orphans, task, run, left>>

\* Mutant: the dataset goes as soon as there is a report.
SaveReportAndClean(p, j) ==
  /\ At(p, j, "saving", "saved")
  /\ reports' = reports \cup {Report(p, j)}
  /\ datasets' = datasets \ {j}
  /\ UNCHANGED <<upload, rowVars, broker, orphans, task, run, left>>

SaveReport(p, j) ==
  /\ At(p, j, "saving", "saved")
  /\ reports' = reports \cup {Report(p, j)}
  /\ UNCHANGED <<upload, rowVars, datasets, broker, orphans, task, run, left>>

MarkCompleted(p, j) ==
  /\ At(p, j, "saved", "cleaning")
  /\ SetCompleted(p, j)
  /\ UNCHANGED <<upload, datasets, reports, broker, orphans, task, run, left>>

\* Mutant: the except clause only logs.
LogFailure(p, j) ==
  /\ At(p, j, "raised", "cleaning")
  /\ UNCHANGED <<upload, rowVars, datasets, reports, broker, orphans, task, run, left>>

MarkFailed(p, j) ==
  /\ At(p, j, "raised", "cleaning")
  /\ SetFailed(j)
  /\ UNCHANGED <<upload, datasets, reports, broker, orphans, task, run, left>>

\* Mutant: only a completed job is cleaned up.
CleanCompleted(p, j) ==
  /\ At(p, j, "cleaning", "idle")
  /\ datasets' = IF status[j] = "completed" THEN datasets \ {j} ELSE datasets
  /\ task' = [task EXCEPT ![p] = NoJob]
  /\ UNCHANGED <<upload, rowVars, reports, broker, run, orphans, left>>

\* The finally clause removes the dataset, and p turns to its next job. An
\* exception out of mark_failed has ended the loop of a worker.
Clean(p, j) ==
  /\ \/ At(p, j, "cleaning", "idle")
     \/ At(p, j, "dying", IF p \in Workers THEN "dead" ELSE "idle")
  /\ datasets' = datasets \ {j}
  /\ task' = [task EXCEPT ![p] = NoJob]
  /\ UNCHANGED <<upload, rowVars, reports, broker, run, orphans, left>>

Step(p, j) ==
  ClaimNext(p, j) \/ ClaimPopped(p, j) \/ DropPopped(p, j) \/ Begin(p, j) \/ Run(p, j)
    \/ Computed(p, j) \/ SaveReport(p, j) \/ MarkCompleted(p, j) \/ MarkFailed(p, j)
    \/ Clean(p, j)

-----------------------------------------------------------------------------
(* Database errors. A write raises before it commits, or commits and raises *)
(* while the row is read back.                                              *)

WriteRaises(p, j) ==
  /\ \E from \in {"claimed", "computed", "saving", "saved"} : At(p, j, from, "raised")
  /\ Spend("fault")
  /\ UNCHANGED <<upload, rowVars, datasets, reports, broker, orphans, task, run>>

ProgressUnread(p, j) ==
  /\ \/ At(p, j, "claimed", "raised") /\ SetPercent(j, 30)
     \/ At(p, j, "computed", "raised") /\ SetPercent(j, 85)
  /\ Spend("fault")
  /\ UNCHANGED <<upload, status, report, arrival, runs, datasets, reports, broker,
                 orphans, task, run>>

CompletedUnread(p, j) ==
  /\ At(p, j, "saved", "raised")
  /\ Spend("fault")
  /\ SetCompleted(p, j)
  /\ UNCHANGED <<upload, datasets, reports, broker, orphans, task, run>>

\* claim_next_queued_job or claim_job commits and raises: the job is left
\* processing, and the loop of a worker is over.
ClaimUnread(p, j) ==
  /\ pc[p] = "claimed" /\ Holds(p, j)
  /\ Spend("fault")
  /\ Goto(p, IF p \in Workers THEN "dead" ELSE "idle")
  /\ task' = [task EXCEPT ![p] = NoJob]
  /\ UNCHANGED <<upload, rowVars, datasets, reports, broker, orphans, run>>

MarkFailedRaises(p, j) ==
  /\ At(p, j, "raised", "dying")
  /\ Spend("fault")
  /\ SetFailed(j) \/ UNCHANGED rowVars
  /\ UNCHANGED <<upload, datasets, reports, broker, orphans, task, run>>

Fault(p, j) ==
  WriteRaises(p, j) \/ ProgressUnread(p, j) \/ CompletedUnread(p, j)
    \/ ClaimUnread(p, j) \/ MarkFailedRaises(p, j)

-----------------------------------------------------------------------------
(* Starting, stopping and losing a processor *)

\* Mutants: nothing is given back; failed jobs are given back, too; the
\* progress of a job that is given back is kept.
NothingRequeued == status
FailedRequeued ==
  [j \in Jobs |-> IF status[j] \in {"processing", "failed"} THEN "queued" ELSE status[j]]
PercentKept == percent

RequeuedStatus ==
  [j \in Jobs |-> IF status[j] = "processing" THEN "queued" ELSE status[j]]
RequeuedPercent ==
  [j \in Jobs |-> IF status[j] = "processing" THEN 0 ELSE percent[j]]

\* start() gives back every job that is being processed, by whomever.
Start(w) ==
  /\ pc[w] = "off" /\ w \notin orphans
  /\ Spend("start")
  /\ status' = RequeuedStatus
  /\ percent' = RequeuedPercent
  /\ Goto(w, "idle")
  /\ UNCHANGED <<upload, report, arrival, runs, datasets, reports, broker, orphans,
                 task, run>>

Leave(w) ==
  /\ Goto(w, "off")
  /\ task' = [task EXCEPT ![w] = NoJob]

\* stop() cancels the coroutine, which is suspended in BLPOP or a sleep ...
StopIdle(w) ==
  /\ pc[w] \in {"idle", "popped", "dead"}
  /\ Spend("stop")
  /\ Leave(w)
  /\ \/ UNCHANGED orphans
     \/ pc[w] = "idle" /\ Mode = "broker" /\ orphans' = orphans \cup {w}
  /\ UNCHANGED <<upload, rowVars, datasets, reports, broker, run>>

\* ... or waits for the engine: the finally clause runs on the way out.
StopRunning(w, j) ==
  /\ pc[w] = "running" /\ Holds(w, j)
  /\ Spend("stop")
  /\ Leave(w)
  /\ datasets' = datasets \ {j}
  /\ UNCHANGED <<upload, rowVars, reports, broker, run, orphans>>

\* The thread stop() left behind pops an id for nobody, or times out.
OrphanEnds(w) ==
  /\ w \in orphans
  /\ \/ UNCHANGED broker
     \/ broker # <<>> /\ broker' = Tail(broker)
  /\ orphans' = orphans \ {w}
  /\ UNCHANGED <<upload, rowVars, datasets, reports, pc, task, run, left>>

\* dequeue or the claim raises, and with it the coroutine of the worker; the
\* reply to a BLPOP may be lost on the way.
LoopDies(w) ==
  /\ pc[w] \in {"idle", "popped"}
  /\ Spend("fault")
  /\ Goto(w, "dead")
  /\ task' = [task EXCEPT ![w] = NoJob]
  /\ \/ UNCHANGED broker
     \/ pc[w] = "idle" /\ Mode = "broker" /\ broker # <<>> /\ broker' = Tail(broker)
  /\ UNCHANGED <<upload, rowVars, datasets, reports, run, orphans>>

\* The process of p dies: its database rows, the broker and the files stay.
Crash(p) ==
  /\ pc[p] \notin (IF p \in Workers THEN {"off"} ELSE {"idle"})
  /\ Spend("crash")
  /\ Goto(p, IF p \in Workers THEN "off" ELSE "idle")
  /\ task' = [task EXCEPT ![p] = NoJob]
  /\ UNCHANGED <<upload, rowVars, datasets, reports, broker, run, orphans>>

Next ==
  \/ \E j \in Jobs : Submission(j)
  \/ \E p \in Procs, j \in Jobs : Step(p, j) \/ Fault(p, j)
  \/ \E w \in Workers :
       \/ Pop(w) \/ Start(w) \/ StopIdle(w) \/ OrphanEnds(w) \/ LoopDies(w)
       \/ \E j \in Jobs : StopRunning(w, j)
  \/ \E p \in Procs : Crash(p)

Spec == Init /\ [][Next]_vars

(* Coroutines, handlers and BLPOP threads are scheduled, a process that has *)
(* ended is started again, and in poll mode clients go on asking.           *)
Fairness ==
  /\ \A j \in Jobs : WF_vars(Publish(j)) /\ WF_vars(MarkUnpublished(j))
  /\ \A p \in Procs : WF_vars(\E j \in Jobs : Step(p, j))
  /\ \A w \in Workers : WF_vars(Pop(w)) /\ WF_vars(Start(w)) /\ WF_vars(OrphanEnds(w))

FairSpec == Spec /\ Fairness

-----------------------------------------------------------------------------
(* Properties of every deployment *)

(* TypeOK: the rows, the files, the broker and the processors hold values of *)
(* the kinds async_assessment_repository.py and async_assessment.py give     *)
(* them, and a processor between claim and cleanup has a job.                *)
TypeOK ==
  /\ upload \in [Jobs -> UploadState]
  /\ status \in [Jobs -> Status]
  /\ percent \in [Jobs -> {0, 10, 30, 85, 100}]
  /\ report \in [Jobs -> Nat]
  /\ arrival \in Seq(Jobs) /\ broker \in Seq(Jobs)
  /\ datasets \subseteq Jobs
  /\ reports \subseteq Jobs \X Nat
  /\ runs \in [Jobs -> Nat]
  /\ orphans \subseteq Workers
  /\ pc \in [Procs -> PC]
  /\ task \in [Procs -> Jobs \cup {NoJob}]
  /\ run \in [Procs -> Nat]
  /\ left \in [Events -> Nat]

(* CompletedHasReport: the report_id a completed row names can be fetched,   *)
(* whatever crashed, raised or ran twice: _process_job saves the report      *)
(* before it marks the row, and no writer takes the report_id back.          *)
CompletedHasReport ==
  \A j \in Jobs : status[j] = "completed" => <<j, report[j]>> \in reports

Started == Budget["start"] - left["start"]

(* RunBound: only a worker that starts gives a job back, so a job is claimed *)
(* at most once more than workers were started, and every report saved for   *)
(* it is the work of one of these runs.                                      *)
RunBound ==
  /\ \A j \in Jobs : runs[j] <= 1 + Started
  /\ \A r \in reports : r[2] \in 1 .. runs[r[1]]

(* AdmissionBound: the queue limit is checked before the files are received, *)
(* so the uploads of a tenant that are outstanding can pass it, but by no    *)
(* more than those being received at once, less one. The jobs of schedules   *)
(* count against the limit and are not held to it, so they are left out.     *)
AdmissionBound ==
  \A t \in Tenants :
    Cardinality(Outstanding(t) \ Dispatched) + Cardinality(UploadsAt(t, "receiving"))
      <= QueueLimit - 1 + MaxUploads

(* NeverReactivated: a job whose client saw it completed or failed never     *)
(* goes back to the queue or to a worker, although the writes of             *)
(* _process_job do not look at the status they overwrite.                    *)
NeverReactivated ==
  [][\A j \in Jobs : status[j] \in Terminal => status'[j] \in Terminal]_vars

-----------------------------------------------------------------------------
(* Properties of some deployments *)

AtWork(p) == pc[p] \in {"claimed", "running", "computed", "saving", "saved", "raised"}

(* ExclusiveRun: no two processors are at work on the same job at once.      *)
ExclusiveRun ==
  \A p, q \in Procs : AtWork(p) /\ AtWork(q) /\ task[p] = task[q] => p = q

(* TerminalIsFinal: what a client was told of a job that ended stays so:     *)
(* neither its outcome nor its report changes.                               *)
TerminalIsFinal ==
  [][\A j \in Jobs : status[j] \in Terminal =>
       status'[j] = status[j] /\ report'[j] = report[j]]_vars

(* RowCoherent: status, progress_percentage and report_id, which different   *)
(* statements write, agree.                                                  *)
RowCoherent ==
  \A j \in Jobs :
    /\ status[j] = "queued" => percent[j] = 0 /\ report[j] = 0
    /\ status[j] = "processing" => percent[j] \in {10, 30, 85} /\ report[j] = 0
    /\ status[j] = "completed" => percent[j] = 100 /\ report[j] # 0
    /\ status[j] = "failed" => report[j] = 0

(* FailsOnlyForBadData: a job that the client was told is accepted fails     *)
(* only if the assessment engine cannot make sense of its data.              *)
FailsOnlyForBadData ==
  \A j \in Jobs : upload[j] = "accepted" /\ status[j] = "failed" => j \in BadData

(* AtMostOneRun: in broker mode the id of a job is published once and        *)
(* popped once, so that no job is ever run twice, by whichever worker.       *)
AtMostOneRun == \A j \in Jobs : runs[j] <= 1

Undisturbed == \A e \in {"crash", "stop", "fault"} : left[e] = Budget[e]

(* IdInTransit: in broker mode, while nothing has crashed, was stopped or    *)
(* raised, the id of every accepted job that waits is in the list or with    *)
(* the worker that popped it: a queued row alone is never picked up.         *)
IdInTransit ==
  Undisturbed =>
    \A j \in Jobs : upload[j] = "accepted" /\ status[j] = "queued" =>
      (\E i \in DOMAIN broker : broker[i] = j) \/ (\E p \in Procs : task[p] = j)

Accepted(j) == upload[j] = "accepted"
Ended(j) == status[j] \in Terminal

(* AcceptedJobsEnd: every job whose upload was answered 202 is completed or  *)
(* failed at some time.                                                      *)
AcceptedJobsEnd == \A j \in Jobs : Accepted(j) ~> Ended(j)

(* EndsUnlessDisturbed: the same, as long as no processor is lost, stopped   *)
(* or hit by a database error.                                               *)
EndsUnlessDisturbed == \A j \in Jobs : Accepted(j) ~> (Ended(j) \/ ~Undisturbed)

(* GoodJobsComplete: every accepted job with sound data is completed and     *)
(* stays so, through every crash of the worker that runs it.                 *)
GoodJobsComplete ==
  \A j \in Jobs \ BadData : Accepted(j) ~> [](status[j] = "completed")

(* DatasetsReclaimed: the directory of a job that ended is removed.          *)
DatasetsReclaimed == \A j \in Jobs : Ended(j) ~> j \notin datasets

Lifecycle == INSTANCE JobLifecycle WITH
  Reports <- 1 .. (1 + Budget["start"]), NoReport <- 0, result <- report

(* ImplementsLifecycle: the rows, as clients read them, go through the life  *)
(* JobLifecycle describes.                                                   *)
ImplementsLifecycle == Lifecycle!JobSpec
=============================================================================

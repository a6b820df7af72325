------------------------- MODULE ScheduledDispatch -------------------------
(***************************************************************************)
(* Scheduled assessments: the handlers that create, pause and resume a     *)
(* schedule, the dispatchers (one per runtime worker, or the API's own)    *)
(* that turn due schedules into asynchronous jobs, and the workers that    *)
(* run these jobs, reduced to what becomes of a row and its dataset.       *)
(*                                                                         *)
(* One action is one reading of the clock, one statement or transaction on *)
(* the database, or one change of the file system.                         *)
(***************************************************************************)
EXTENDS RunTimes, Sequences, FiniteSets

CONSTANTS
  Schedules,     \* schedules a client may create
  PlanOf,        \* the plan of each
  Servers,       \* API processes: each carries out one resume at a time
  Dispatchers,   \* running ScheduledAssessmentDispatchers
  Workers,       \* runtime workers, each at work on one job at a time
  BatchSize,     \* scheduled_dispatch_batch_size
  Publishes,     \* enqueue_job is given: broker mode
  LastDay,       \* bound: the clock stops on this day
  Budget         \* bounds: how often each environment event may happen

Events == {"crash", "fault", "edit", "kill"}

ASSUME ScheduledDispatchAssumption ==
  /\ PlanOf \in [Schedules -> Plan]
  /\ BatchSize \in Nat \ {0}
  /\ Publishes \in BOOLEAN
  /\ LastDay \in Nat
  /\ Budget \in [Events -> Nat]

VARIABLES
  now,        \* datetime.now(UTC)
  state,      \* the schedule row: status,
  nextRun,    \*   next_run_at,
  lastJob,    \*   last_job_id, 0 for NULL,
  lastError,  \*   whether last_error is set
  sources,    \* schedules whose dataset directory exists
  resume,     \* the resume each server is carrying out, and now as it read it
  resumed,    \* observed only: from when to when each finished resume took
  jobs,       \* job rows in the order they were made; a job's id is its place
  pc,         \* where each dispatcher is
  asOf,       \* now, as a dispatcher read it before it selected rows
  rows,       \* rows it selected
  batch,      \* rows it claimed and has made no job for
  current,    \* the row it is dispatching
  made,       \* the job it made for that row, 0 before
  left        \* what is left of Budget

resumeVars == <<resume, resumed>>
scheduleVars == <<state, nextRun, lastJob, lastError, sources, resumeVars>>
dispatcherVars == <<pc, asOf, rows, batch, current, made>>
vars == <<now, state, nextRun, lastJob, lastError, sources, resume, resumed, jobs,
          pc, asOf, rows, batch, current, made, left>>

Row == [schedule : Schedules, due : Instant]
Job == [schedule : Schedules, due : Instant,
        status : {"queued", "processing", "completed", "failed"},
        data : BOOLEAN, listed : BOOLEAN, held : SUBSET Workers]
Resumption == [schedule : Schedules, from : Instant]
PC == {"idle", "looking", "selected", "working", "copied", "created", "unpublished",
       "reporting", "made", "failing", "erring", "dead", "off"}
Monday == [day |-> 0, slot |-> 0]
NoRow == [schedule |-> "none", due |-> Monday]
NoResume == [schedule |-> "none", from |-> Monday]

Init ==
  /\ now = Monday
  /\ state = [s \in Schedules |-> "none"]
  /\ nextRun = [s \in Schedules |-> Monday]
  /\ lastJob = [s \in Schedules |-> 0]
  /\ lastError = [s \in Schedules |-> FALSE]
  /\ sources = {}
  /\ resume = [w \in Servers |-> NoResume]
  /\ resumed = {}
  /\ jobs = <<>>
  /\ pc = [d \in Dispatchers |-> "idle"]
  /\ asOf = [d \in Dispatchers |-> Monday]
  /\ rows = [d \in Dispatchers |-> {}]
  /\ batch = [d \in Dispatchers |-> {}]
  /\ current = [d \in Dispatchers |-> NoRow]
  /\ made = [d \in Dispatchers |-> 0]
  /\ left = Budget

Spend(e) == left[e] > 0 /\ left' = [left EXCEPT ![e] = @ - 1]

\* The clock may be looked at again at any later minute.
Tick ==
  /\ \E day \in now.day .. LastDay, slot \in 0 .. (SlotsPerDay - 1) :
       /\ Before(now, [day |-> day, slot |-> slot])
       /\ now' = [day |-> day, slot |-> slot]
  /\ UNCHANGED <<scheduleVars, jobs, dispatcherVars, left>>

\* What the clock has shown so far.
Instants ==
  {t \in [day : 0 .. now.day, slot : 0 .. (SlotsPerDay - 1)] : NotAfter(t, now)}

-----------------------------------------------------------------------------
(* The handlers of /api/v1/assessments/schedules *)

\* The row is nobody else's before the INSERT, which may come any time after
\* the clock was read.
InsertSchedule(s) ==
  /\ state[s] = "none"
  /\ state' = [state EXCEPT ![s] = "active"]
  /\ \E t \in Instants : nextRun' = [nextRun EXCEPT ![s] = NextRunAt(PlanOf[s], t)]
  /\ UNCHANGED <<now, lastJob, lastError, resumeVars, jobs, dispatcherVars>>

CreateSchedule(s) ==
  /\ InsertSchedule(s)
  /\ sources' = sources \cup {s}
  /\ UNCHANGED left

\* The row is committed but reading it back raises: the handler removes the
\* dataset of a schedule that stays active.
CreateScheduleUnread(s) ==
  /\ InsertSchedule(s)
  /\ Spend("fault")
  /\ UNCHANGED sources

Pause(s) ==
  /\ state[s] # "none"
  /\ Spend("edit")
  /\ state' = [state EXCEPT ![s] = "paused"]
  /\ UNCHANGED <<now, nextRun, lastJob, lastError, sources, resumeVars, jobs, dispatcherVars>>

\* update_status reads the clock first; what it SELECTs then never changes.
StartResume(w, s) ==
  /\ resume[w] = NoResume
  /\ state[s] # "none"
  /\ Spend("edit")
  /\ resume' = [resume EXCEPT ![w] = [schedule |-> s, from |-> now]]
  /\ UNCHANGED <<now, state, nextRun, lastJob, lastError, sources, resumed, jobs, dispatcherVars>>

\* A row that exists is written whatever became of it since the clock was read.
FinishResume(w, next) ==
  /\ resume[w] # NoResume
  /\ LET s == resume[w].schedule IN
       /\ state' = [state EXCEPT ![s] = "active"]
       /\ nextRun' = [nextRun EXCEPT ![s] = next]
       /\ resumed' = resumed \cup {[schedule |-> s, from |-> resume[w].from, until |-> now]}
  /\ resume' = [resume EXCEPT ![w] = NoResume]
  /\ UNCHANGED <<now, lastJob, lastError, sources, jobs, dispatcherVars, left>>

\* Mutant: a schedule that is resumed runs at once.
ResumeAtOnce(w) == FinishResume(w, now)

\* Resuming an active schedule computes its next run anew, too.
Resume(w) == FinishResume(w, NextRunAt(PlanOf[resume[w].schedule], resume[w].from))

Handler(s) ==
  \/ CreateSchedule(s) \/ CreateScheduleUnread(s) \/ Pause(s)
  \/ \E w \in Servers : StartResume(w, s)

-----------------------------------------------------------------------------
(* claim_due_schedules *)

Goto(d, to) == pc' = [pc EXCEPT ![d] = to]

\* WHERE status = 'active' AND next_run_at <= t
DueAt(t) ==
  {[schedule |-> s, due |-> nextRun[s]] :
     s \in {s \in Schedules : state[s] = "active" /\ NotAfter(nextRun[s], t)}}

\* ORDER BY next_run_at LIMIT BatchSize
Selection(Q, due) ==
  /\ Q \subseteq due
  /\ Cardinality(Q) = BatchSize \/ (Cardinality(Q) < BatchSize /\ Q = due)
  /\ \A r \in Q, o \in due \ Q : NotAfter(r.due, o.due)

ForgetClock(d) == asOf' = [asOf EXCEPT ![d] = Monday]

ReadClock(d) ==
  /\ pc[d] = "idle"
  /\ asOf' = [asOf EXCEPT ![d] = now]
  /\ Goto(d, "looking")
  /\ UNCHANGED <<now, scheduleVars, jobs, rows, batch, current, made, left>>

\* The SELECT runs outside the transaction the first UPDATE opens.
Select(d) ==
  /\ pc[d] = "looking"
  /\ \E Q \in SUBSET DueAt(asOf[d]) :
       /\ Selection(Q, DueAt(asOf[d]))
       /\ rows' = [rows EXCEPT ![d] = Q]
       /\ IF Q = {} THEN Goto(d, "idle") /\ ForgetClock(d)
                    ELSE Goto(d, "selected") /\ UNCHANGED asOf
  /\ UNCHANGED <<now, scheduleVars, jobs, batch, current, made, left>>

\* Mutants: the UPDATE does not repeat the test on next_run_at, or on status.
WonWithoutTime(d) == {r \in rows[d] : state[r.schedule] = "active"}
WonWithoutStatus(d) == {r \in rows[d] : nextRun[r.schedule] = r.due}

\* WHERE schedule_id = ? AND status = 'active' AND next_run_at = ?
Won(d) == {r \in rows[d] : state[r.schedule] = "active" /\ nextRun[r.schedule] = r.due}

Claims(d, s) == \E r \in Won(d) : r.schedule = s

Take(d) ==
  /\ pc[d] = "selected"
  /\ nextRun' = [s \in Schedules |->
       IF Claims(d, s) THEN NextRunAt(PlanOf[s], Later(asOf[d], nextRun[s])) ELSE nextRun[s]]
  /\ lastError' = [s \in Schedules |-> ~Claims(d, s) /\ lastError[s]]
  /\ rows' = [rows EXCEPT ![d] = {}]
  /\ batch' = [batch EXCEPT ![d] = Won(d)]
  /\ Goto(d, IF Won(d) = {} THEN "idle" ELSE "working")
  /\ ForgetClock(d)
  /\ UNCHANGED <<now, state, lastJob, sources, resumeVars, jobs, current, made, left>>

-----------------------------------------------------------------------------
(* _dispatch_schedule *)

\* The loop over the batch ends the dispatch of its current row.
EndDispatch(d) ==
  /\ Goto(d, IF batch'[d] = {} THEN "idle" ELSE "working")
  /\ current' = [current EXCEPT ![d] = NoRow]
  /\ made' = [made EXCEPT ![d] = 0]

Drop(d, r) == batch' = [batch EXCEPT ![d] = @ \ {r}]

FirstOf(B, r) == r \in B /\ \A o \in B : NotAfter(r.due, o.due)

SetError(s) == lastError' = [lastError EXCEPT ![s] = TRUE]

Missing(d, r) ==
  /\ pc[d] = "working" /\ FirstOf(batch[d], r)
  /\ r.schedule \notin sources
  /\ SetError(r.schedule)
  /\ Drop(d, r)
  /\ EndDispatch(d)
  /\ UNCHANGED <<now, state, nextRun, lastJob, sources, resumeVars, jobs, asOf, rows, left>>

Copy(d, r) ==
  /\ pc[d] = "working" /\ FirstOf(batch[d], r)
  /\ r.schedule \in sources
  /\ current' = [current EXCEPT ![d] = r]
  /\ Goto(d, "copied")
  /\ UNCHANGED <<now, scheduleVars, jobs, asOf, rows, batch, made, left>>

NewJob(r) ==
  [schedule |-> r.schedule, due |-> r.due, status |-> "queued",
   data |-> TRUE, listed |-> FALSE, held |-> {}]

\* Mutant: the id of the job is counted before it is inserted.
CreateJobMiscounted(d, to) ==
  /\ pc[d] = "copied"
  /\ jobs' = Append(jobs, NewJob(current[d]))
  /\ made' = [made EXCEPT ![d] = Len(jobs)]
  /\ Drop(d, current[d])
  /\ Goto(d, to)
  /\ UNCHANGED <<now, scheduleVars, asOf, rows, current>>

CreateJob(d, to) ==
  /\ pc[d] = "copied"
  /\ jobs' = Append(jobs, NewJob(current[d]))
  /\ made' = [made EXCEPT ![d] = Len(jobs) + 1]
  /\ Drop(d, current[d])
  /\ Goto(d, to)
  /\ UNCHANGED <<now, scheduleVars, asOf, rows, current>>

CreateJobRow(d) ==
  /\ CreateJob(d, IF Publishes THEN "created" ELSE "made")
  /\ UNCHANGED left

Publish(d) ==
  /\ pc[d] = "created"
  /\ jobs' = [jobs EXCEPT ![made[d]].listed = TRUE]
  /\ Goto(d, "made")
  /\ UNCHANGED <<now, scheduleVars, asOf, rows, batch, current, made, left>>

MarkUnpublished(d) ==
  /\ pc[d] = "unpublished"
  /\ jobs' = [jobs EXCEPT ![made[d]].status = "failed"]
  /\ Goto(d, "reporting")
  /\ UNCHANGED <<now, scheduleVars, asOf, rows, batch, current, made, left>>

RemoveData(d) ==
  IF made[d] = 0 THEN UNCHANGED jobs ELSE jobs' = [jobs EXCEPT ![made[d]].data = FALSE]

ReportUnpublished(d) ==
  /\ pc[d] = "reporting"
  /\ SetError(current[d].schedule)
  /\ RemoveData(d)
  /\ UNCHANGED batch
  /\ EndDispatch(d)
  /\ UNCHANGED <<now, state, nextRun, lastJob, sources, resumeVars, asOf, rows, left>>

SetDispatched(s, k) ==
  /\ lastJob' = [lastJob EXCEPT ![s] = k]
  /\ lastError' = [lastError EXCEPT ![s] = FALSE]

MarkDispatched(d) ==
  /\ pc[d] = "made"
  /\ SetDispatched(current[d].schedule, made[d])
  /\ UNCHANGED batch
  /\ EndDispatch(d)
  /\ UNCHANGED <<now, state, nextRun, sources, resumeVars, jobs, asOf, rows, left>>


\* except Exception: the dataset goes first, whatever has become of the job ...
CleanUp(d) ==
  /\ pc[d] = "failing"
  /\ RemoveData(d)
  /\ Goto(d, "erring")
  /\ UNCHANGED <<now, scheduleVars, asOf, rows, batch, current, made, left>>

\* ... then the error is recorded.
MarkError(d) ==
  /\ pc[d] = "erring"
  /\ SetError(current[d].schedule)
  /\ UNCHANGED batch
  /\ EndDispatch(d)
  /\ UNCHANGED <<now, state, nextRun, lastJob, sources, resumeVars, jobs, asOf, rows, left>>

Step(d) ==
  \/ ReadClock(d) \/ Select(d) \/ Take(d) \/ CreateJobRow(d) \/ Publish(d) \/ MarkUnpublished(d)
  \/ ReportUnpublished(d) \/ MarkDispatched(d) \/ CleanUp(d) \/ MarkError(d)
  \/ \E r \in batch[d] : Missing(d, r) \/ Copy(d, r)

-----------------------------------------------------------------------------
(* Errors: everything _dispatch_schedule calls may raise; a database call    *)
(* before or after its commit.                                               *)

Failing(d) ==
  /\ Spend("fault")
  /\ Goto(d, "failing")
  /\ UNCHANGED <<now, state, nextRun, sources, resumeVars, asOf, rows>>

CopyRaises(d, r) ==
  /\ pc[d] = "working" /\ FirstOf(batch[d], r)
  /\ r.schedule \in sources
  /\ current' = [current EXCEPT ![d] = r]
  /\ Drop(d, r)
  /\ Failing(d)
  /\ UNCHANGED <<lastJob, lastError, jobs, made>>

CreateJobRaises(d) ==
  /\ pc[d] = "copied"
  /\ Drop(d, current[d])
  /\ Failing(d)
  /\ UNCHANGED <<lastJob, lastError, jobs, current, made>>

\* create_job commits and raises: the dataset of a queued job is removed.
CreateJobUnread(d) == CreateJob(d, "failing") /\ Spend("fault")

PublishRaises(d) ==
  /\ pc[d] = "created"
  /\ Spend("fault")
  /\ jobs' = jobs \/ jobs' = [jobs EXCEPT ![made[d]].listed = TRUE]
  /\ Goto(d, "unpublished")
  /\ UNCHANGED <<now, scheduleVars, asOf, rows, batch, current, made>>

MarkUnpublishedRaises(d) ==
  /\ pc[d] = "unpublished"
  /\ Failing(d)
  /\ jobs' = jobs \/ jobs' = [jobs EXCEPT ![made[d]].status = "failed"]
  /\ UNCHANGED <<lastJob, lastError, batch, current, made>>

ReportUnpublishedRaises(d) ==
  /\ pc[d] = "reporting"
  /\ Failing(d)
  /\ UNCHANGED lastError \/ SetError(current[d].schedule)
  /\ UNCHANGED <<lastJob, jobs, batch, current, made>>

MarkDispatchedRaises(d) ==
  /\ pc[d] = "made"
  /\ Failing(d)
  /\ UNCHANGED <<lastJob, lastError>> \/ SetDispatched(current[d].schedule, made[d])
  /\ UNCHANGED <<jobs, batch, current, made>>

Forget(d, to) ==
  /\ Goto(d, to)
  /\ rows' = [rows EXCEPT ![d] = {}]
  /\ batch' = [batch EXCEPT ![d] = {}]
  /\ current' = [current EXCEPT ![d] = NoRow]
  /\ made' = [made EXCEPT ![d] = 0]
  /\ ForgetClock(d)
  /\ UNCHANGED <<now, state, nextRun, lastJob, sources, resumeVars, jobs>>

\* What raises outside the try, or in the except clause, ends _run, and the
\* rest of the batch is dropped.
LoopDies(d) ==
  /\ \/ pc[d] \in {"looking", "selected"} /\ UNCHANGED lastError
     \/ \E r \in batch[d] :
          /\ pc[d] = "working" /\ FirstOf(batch[d], r) /\ r.schedule \notin sources
          /\ UNCHANGED lastError \/ SetError(r.schedule)
     \/ /\ pc[d] = "erring"
        /\ UNCHANGED lastError \/ SetError(current[d].schedule)
  /\ Spend("fault")
  /\ Forget(d, "dead")

Fault(d) ==
  \/ CreateJobRaises(d) \/ CreateJobUnread(d) \/ PublishRaises(d)
  \/ MarkUnpublishedRaises(d) \/ ReportUnpublishedRaises(d) \/ MarkDispatchedRaises(d)
  \/ LoopDies(d)
  \/ \E r \in batch[d] : CopyRaises(d, r)

\* The process is killed, or stopped between two awaits.
Crash(d) ==
  /\ pc[d] # "off"
  /\ Spend("crash")
  /\ Forget(d, "off")
  /\ UNCHANGED lastError

Start(d) ==
  /\ pc[d] = "off"
  /\ Goto(d, "idle")
  /\ UNCHANGED <<now, scheduleVars, jobs, asOf, rows, batch, current, made, left>>

-----------------------------------------------------------------------------
(* The workers, as far as the dispatch is concerned (AsyncJobs has the rest) *)

Free(v) == \A k \in DOMAIN jobs : v \notin jobs[k].held

ClaimJob(v, k) ==
  /\ Free(v)
  /\ jobs[k].status = "queued"
  /\ Publishes => jobs[k].listed
  /\ jobs' = [jobs EXCEPT ![k].status = "processing", ![k].listed = FALSE,
                          ![k].held = @ \cup {v}]

DropId(v, k) ==
  /\ Free(v)
  /\ jobs[k].listed /\ jobs[k].status # "queued"
  /\ jobs' = [jobs EXCEPT ![k].listed = FALSE]

\* _process_job ends; it may have read the dataset before that was removed.
EndJob(v, k) ==
  /\ v \in jobs[k].held
  /\ \E outcome \in {"completed", "failed"} :
       /\ jobs[k].data => outcome = "completed"
       /\ jobs' = [jobs EXCEPT ![k].status = outcome, ![k].data = FALSE, ![k].held = @ \ {v}]

\* The worker is killed over the job, or it is stopped, and the finally clause
\* of _process_job removes the dataset; the row stays processing.
LeaveJob(v, k) ==
  /\ v \in jobs[k].held
  /\ Spend("kill")
  /\ \E kept \in BOOLEAN :
       jobs' = [jobs EXCEPT ![k].held = @ \ {v}, ![k].data = @ /\ kept]

\* A worker starts, and gives back all that is processing. Bound: only when a
\* job was left.
Requeue ==
  /\ \E k \in DOMAIN jobs : jobs[k].status = "processing" /\ jobs[k].held = {}
  /\ jobs' = [k \in DOMAIN jobs |->
       IF jobs[k].status = "processing" THEN [jobs[k] EXCEPT !.status = "queued"] ELSE jobs[k]]

Work ==
  /\ \/ Requeue
     \/ \E v \in Workers, k \in DOMAIN jobs : ClaimJob(v, k) \/ DropId(v, k) \/ EndJob(v, k)
  /\ UNCHANGED <<now, scheduleVars, dispatcherVars, left>>

Leave ==
  /\ \E v \in Workers, k \in DOMAIN jobs : LeaveJob(v, k)
  /\ UNCHANGED <<now, scheduleVars, dispatcherVars>>

Next ==
  \/ Tick
  \/ \E s \in Schedules : Handler(s)
  \/ \E w \in Servers : Resume(w)
  \/ \E d \in Dispatchers : Step(d) \/ Fault(d) \/ Crash(d) \/ Start(d)
  \/ Work \/ Leave

Spec == Init /\ [][Next]_vars

(* The coroutine of a dispatcher goes on, and its process is started again;  *)
(* so do the workers.                                                        *)
FairSpec ==
  /\ Spec
  /\ \A d \in Dispatchers : WF_vars(Step(d) \/ Start(d))
  /\ WF_vars(Work)

-----------------------------------------------------------------------------
(* Properties *)

RowsOK ==
  /\ now \in Instant
  /\ state \in [Schedules -> {"none", "active", "paused"}]
  /\ nextRun \in [Schedules -> Instant]
  /\ jobs \in Seq(Job)
  /\ lastJob \in [Schedules -> 0 .. Len(jobs)]
  /\ lastError \in [Schedules -> BOOLEAN]
  /\ sources \subseteq Schedules
  /\ resume \in [Servers -> Resumption \cup {NoResume}]
  /\ resumed \subseteq [schedule : Schedules, from : Instant, until : Instant]

DispatchersOK ==
  /\ pc \in [Dispatchers -> PC]
  /\ asOf \in [Dispatchers -> Instant]
  /\ rows \in [Dispatchers -> SUBSET Row]
  /\ batch \in [Dispatchers -> SUBSET Row]
  /\ current \in [Dispatchers -> Row \cup {NoRow}]
  /\ made \in [Dispatchers -> 0 .. Len(jobs)]
  /\ left \in [Events -> Nat]

StagesOK ==
  \A d \in Dispatchers :
    /\ pc[d] = "copied" => current[d] \in batch[d]
    /\ pc[d] \in {"created", "unpublished", "reporting", "made"} => made[d] # 0

(* TypeOK: rows, jobs and dispatchers hold values of the kinds the           *)
(* repositories give them, and a dispatcher past create_job names its job.   *)
TypeOK == RowsOK /\ DispatchersOK /\ StagesOK

RowOf(k) == [schedule |-> jobs[k].schedule, due |-> jobs[k].due]

\* The run fell due between the clock reading and the UPDATE of a resume.
DueDuringResume(r) ==
  \E i \in resumed :
    i.schedule = r.schedule /\ Before(i.from, r.due) /\ NotAfter(r.due, i.until)

(* OneJobPerSlot: however many dispatchers run, crash and start again, no    *)
(* run of a schedule becomes two jobs, as claim_due_schedules repeats its    *)
(* test on next_run_at in the UPDATE; unless it fell due while a resume of   *)
(* its schedule was under way, whose UPDATE has no such test.                *)
OneJobPerSlot ==
  \A k, l \in DOMAIN jobs : RowOf(k) = RowOf(l) => k = l \/ DueDuringResume(RowOf(k))

(* NextRunIsEarliest: next_run_at is due, or it is the earliest run of the   *)
(* plan after now: neither creation, nor claims, late or repeated, nor       *)
(* resuming ever skip a run that is yet to come.                             *)
NextRunIsEarliest ==
  \A s \in Schedules : state[s] # "none" =>
    NotAfter(nextRun[s], now) \/ EarliestRunAfter(PlanOf[s], now, nextRun[s])

(* NextRunAdvances: nothing moves next_run_at back, but a resume whose       *)
(* clock is out of date when its UPDATE comes, and that one only to a run    *)
(* that fell due in between: no slot that was over when the client asked to  *)
(* resume ever comes up again.                                               *)
NextRunAdvances ==
  [][\A s \in Schedules : state[s] # "none" /\ Before(nextRun'[s], nextRun[s]) =>
       \E w \in Servers :
         /\ resume[w].schedule = s /\ resume'[w] = NoResume
         /\ Before(resume[w].from, nextRun'[s]) /\ NotAfter(nextRun'[s], now)]_vars

(* PausedIsStill: as long as a schedule is paused no run of it is claimed,   *)
(* even by a dispatcher that selected it before.                             *)
PausedIsStill ==
  [][\A s \in Schedules :
       state[s] = "paused" /\ state'[s] = "paused" => nextRun'[s] = nextRun[s]]_vars

RunRows ==
  {r \in [schedule : Schedules, due : [day : 0 .. LastDay, slot : 0 .. (SlotsPerDay - 1)]] :
     IsRun(PlanOf[r.schedule], r.due)}

Dead(d) == pc[d] \in {"dead", "off"}

\* A worker left a job for r, and with it the dataset, or the id that was its
\* only way to a worker.
LostToWorker(r) ==
  \E k \in DOMAIN jobs :
    /\ RowOf(k) = r /\ jobs[k].status = "processing" /\ jobs[k].held = {}
    /\ Publishes \/ ~jobs[k].data

=============================================================================

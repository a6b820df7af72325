---------------------- MODULE ScheduledDispatchProofs ----------------------
(* Proofs about RunTimes and ScheduledDispatch, for every set of schedules,  *)
(* plans and dispatchers and every resolution of the day.                    *)
EXTENDS ScheduledDispatch, SequenceTheorems, TLAPS

(* The candidate today or later in the week, and the same one period on.     *)
LEMMA NextRunFacts ==
  ASSUME NEW plan \in Plan, NEW t \in Instant
  PROVE  /\ NextRunAt(plan, t) \in Instant
         /\ IsRun(plan, NextRunAt(plan, t))
         /\ Before(t, NextRunAt(plan, t))
         /\ \A u \in Instant : IsRun(plan, u) /\ Before(t, u) => NotAfter(NextRunAt(plan, t), u)
<1>1. CASE plan.cadence = "daily"
  BY <1>1, RunTimesAssumption DEF Plan, Instant, NextRunAt, IsRun, Before, NotAfter
<1>2. CASE plan.cadence = "weekly"
  <2> DEFINE ahead == (plan.weekday - Weekday(t.day)) % 7
             candidate == [day |-> t.day + ahead, slot |-> plan.slot]
             later == [day |-> t.day + ahead + 7, slot |-> plan.slot]
  <2>1. /\ ahead \in 0 .. 6
        /\ Weekday(t.day + ahead) = plan.weekday /\ Weekday(t.day + ahead + 7) = plan.weekday
        /\ \A e \in Nat : e >= t.day /\ Weekday(e) = plan.weekday =>
             e = t.day + ahead \/ e >= t.day + ahead + 7
    <3>1. plan.weekday \in 0 .. 6 /\ t.day \in Nat
      BY DEF Plan, Instant
    <3>2. ahead = (plan.weekday - (t.day % 7)) % 7
      BY DEF Weekday
    <3> HIDE DEF ahead
    <3>3. ahead \in 0 .. 6
      BY <3>1, <3>2
    <3>4. PICK day \in Nat, w \in 0 .. 6, a \in 0 .. 6 :
            day = t.day /\ w = plan.weekday /\ a = ahead
      BY <3>1, <3>3
    <3>5. a = (w - (day % 7)) % 7
      BY <3>2, <3>4
    <3>6. /\ (day + a) % 7 = w /\ (day + a + 7) % 7 = w
          /\ \A e \in Nat : e >= day /\ e % 7 = w => e = day + a \/ e >= day + a + 7
      BY ONLY <3>5, day \in Nat, w \in 0 .. 6, a \in 0 .. 6, SMTT(60)
    <3>7. QED
      BY <3>4, <3>6 DEF Weekday
  <2>2. NextRunAt(plan, t) = IF NotAfter(candidate, t) THEN later ELSE candidate
    BY <1>2, <2>1 DEF NextRunAt
  <2> HIDE DEF ahead
  <2>3. candidate \in Instant /\ later \in Instant
    BY <2>1, RunTimesAssumption DEF Instant, Plan
  <2>4. IsRun(plan, candidate) /\ IsRun(plan, later)
    BY <2>1 DEF IsRun
  <2>5. Before(t, later)
    BY <2>1 DEF Before, Instant
  <2>6. ~NotAfter(candidate, t) => Before(t, candidate)
    BY <2>3 DEF NotAfter, Before, Instant
  <2>7. ASSUME NEW u \in Instant, IsRun(plan, u), Before(t, u)
        PROVE  u = candidate \/ NotAfter(later, u)
    <3>1. u.day \in Nat /\ u.day >= t.day /\ Weekday(u.day) = plan.weekday
      BY <1>2, <2>7 DEF IsRun, Before, Instant
    <3>2. u.slot = plan.slot /\ u = [day |-> u.day, slot |-> u.slot]
      BY <2>7 DEF IsRun, Instant
    <3>3. CASE u.day = t.day + ahead
      BY <3>2, <3>3
    <3>4. CASE u.day >= t.day + ahead + 7
      BY <2>1, <3>1, <3>2, <3>4 DEF NotAfter, Before, Instant
    <3>5. QED
      BY <2>1, <3>1, <3>3, <3>4
  <2>8. NotAfter(candidate, later)
    BY <2>1 DEF NotAfter, Before, Instant
  <2>9. \A u \in Instant : Before(t, u) /\ u = candidate => ~NotAfter(candidate, t)
    BY <2>3 DEF NotAfter, Before, Instant
  <2>10. CASE NotAfter(candidate, t)
    BY <2>2, <2>3, <2>4, <2>5, <2>7, <2>9, <2>10
  <2>11. CASE ~NotAfter(candidate, t)
    <3>1. \A u \in Instant : IsRun(plan, u) /\ Before(t, u) => NotAfter(candidate, u)
      <4> SUFFICES ASSUME NEW u \in Instant, IsRun(plan, u), Before(t, u)
                   PROVE  NotAfter(candidate, u)
        OBVIOUS
      <4>1. CASE u = candidate BY <4>1 DEF NotAfter
      <4>2. CASE NotAfter(later, u)
        BY <2>3, <2>8, <4>2 DEF NotAfter, Before, Instant
      <4>3. QED BY <2>7, <4>1, <4>2
    <3>2. QED
      BY <2>2, <2>3, <2>4, <2>6, <2>11, <3>1
  <2>12. QED
    BY <2>10, <2>11
<1>3. QED
  BY <1>1, <1>2 DEF Plan

(* For every plan and instant, _compute_next_run_at returns the earliest run *)
(* after that instant: no run is repeated and none is skipped.               *)
THEOREM NextRunCorrect ==
  \A plan \in Plan, t \in Instant : EarliestRunAfter(plan, t, NextRunAt(plan, t))
BY NextRunFacts DEF EarliestRunAfter, Instant

-----------------------------------------------------------------------------
(* The order of instants *)

LEMMA Order ==
  ASSUME NEW a \in Instant, NEW b \in Instant, NEW c \in Instant
  PROVE  /\ NotAfter(a, b) \/ Before(b, a)
         /\ ~(NotAfter(a, b) /\ Before(b, a))
         /\ Before(a, b) /\ NotAfter(b, c) => Before(a, c)
         /\ NotAfter(a, b) /\ Before(b, c) => Before(a, c)
         /\ NotAfter(a, b) /\ NotAfter(b, c) => NotAfter(a, c)
         /\ Before(a, b) => NotAfter(a, b)
BY RunTimesAssumption DEF Instant, Before, NotAfter

-----------------------------------------------------------------------------
(* Jobs: which are made and which only change *)

SameRows == Len(jobs') = Len(jobs) /\ \A k \in 1 .. Len(jobs) : RowOf(k)' = RowOf(k)

JobsEdited == jobs' \in Seq(Job) /\ SameRows

LEMMA EditedJob ==
  ASSUME jobs \in Seq(Job), NEW k \in 1 .. Len(jobs), NEW j \in Job,
         j.schedule = jobs[k].schedule, j.due = jobs[k].due,
         jobs' = [jobs EXCEPT ![k] = j]
  PROVE  JobsEdited
<1>1. jobs' \in Seq(Job) /\ Len(jobs') = Len(jobs)
      /\ \A i \in 1 .. Len(jobs) : jobs'[i] = IF i = k THEN j ELSE jobs[i]
  BY ExceptSeq
<1>2. QED
  BY <1>1 DEF JobsEdited, SameRows, RowOf

LEMMA UneditedJobs ==
  ASSUME jobs \in Seq(Job), jobs' = jobs
  PROVE  JobsEdited
BY DEF JobsEdited, SameRows, RowOf

LEMMA StatusEdited ==
  ASSUME jobs \in Seq(Job), NEW k \in 1 .. Len(jobs),
         NEW status \in {"queued", "processing", "completed", "failed"},
         jobs' = [jobs EXCEPT ![k].status = status]
  PROVE  JobsEdited
<1> DEFINE j == [jobs[k] EXCEPT !.status = status]
<1>1. jobs[k] \in Job
  OBVIOUS
<1>2. j \in Job /\ j.schedule = jobs[k].schedule /\ j.due = jobs[k].due
  BY <1>1 DEF Job
<1>3. jobs' = [jobs EXCEPT ![k] = j]
  OBVIOUS
<1> HIDE DEF j
<1>4. QED
  BY <1>2, <1>3, EditedJob

LEMMA ListedEdited ==
  ASSUME jobs \in Seq(Job), NEW k \in 1 .. Len(jobs), NEW b \in BOOLEAN,
         jobs' = [jobs EXCEPT ![k].listed = b]
  PROVE  JobsEdited
<1> DEFINE j == [jobs[k] EXCEPT !.listed = b]
<1>1. jobs[k] \in Job
  OBVIOUS
<1>2. j \in Job /\ j.schedule = jobs[k].schedule /\ j.due = jobs[k].due
  BY <1>1 DEF Job
<1>3. jobs' = [jobs EXCEPT ![k] = j]
  OBVIOUS
<1> HIDE DEF j
<1>4. QED
  BY <1>2, <1>3, EditedJob

LEMMA DataRemoved ==
  ASSUME TypeOK, NEW d \in Dispatchers, RemoveData(d)
  PROVE  JobsEdited
<1>1. jobs \in Seq(Job) /\ made[d] \in 0 .. Len(jobs)
  BY DEF TypeOK, RowsOK, DispatchersOK
<1>2. CASE made[d] = 0
  BY <1>1, <1>2, UneditedJobs DEF RemoveData
<1>3. CASE made[d] # 0
  <2> DEFINE k == made[d]
             j == [jobs[k] EXCEPT !.data = FALSE]
  <2>1. k \in 1 .. Len(jobs) /\ jobs[k] \in Job
    BY <1>1, <1>3
  <2>2. j \in Job /\ j.schedule = jobs[k].schedule /\ j.due = jobs[k].due
    BY <2>1 DEF Job
  <2>3. jobs' = [jobs EXCEPT ![k] = j]
    BY <1>3 DEF RemoveData
  <2> HIDE DEF j
  <2>4. QED
    BY <1>1, <2>1, <2>2, <2>3, EditedJob
<1>4. QED
  BY <1>2, <1>3

LEMMA WorkEdits ==
  ASSUME TypeOK, Work \/ Leave
  PROVE  JobsEdited
<1>1. jobs \in Seq(Job) /\ DOMAIN jobs = 1 .. Len(jobs)
      /\ \A k \in 1 .. Len(jobs) : jobs[k] \in Job
  BY DEF TypeOK, RowsOK
<1>2. ASSUME NEW v \in Workers, NEW k \in 1 .. Len(jobs), ClaimJob(v, k)
      PROVE  JobsEdited
  <2> DEFINE j == [jobs[k] EXCEPT !.status = "processing", !.listed = FALSE, !.held = @ \cup {v}]
  <2>1. j \in Job /\ j.schedule = jobs[k].schedule /\ j.due = jobs[k].due
    BY <1>1 DEF Job
  <2>2. jobs' = [jobs EXCEPT ![k] = j]
    BY <1>1, <1>2 DEF ClaimJob
  <2> HIDE DEF j
  <2>3. QED
    BY <1>1, <2>1, <2>2, EditedJob
<1>3. ASSUME NEW v \in Workers, NEW k \in 1 .. Len(jobs), DropId(v, k)
      PROVE  JobsEdited
  BY <1>1, <1>3, ListedEdited DEF DropId
<1>4. ASSUME NEW v \in Workers, NEW k \in 1 .. Len(jobs), EndJob(v, k)
      PROVE  JobsEdited
  <2> PICK outcome \in {"completed", "failed"} :
        jobs' = [jobs EXCEPT ![k].status = outcome, ![k].data = FALSE, ![k].held = @ \ {v}]
    BY <1>4 DEF EndJob
  <2> DEFINE j == [jobs[k] EXCEPT !.status = outcome, !.data = FALSE, !.held = @ \ {v}]
  <2>1. j \in Job /\ j.schedule = jobs[k].schedule /\ j.due = jobs[k].due
    BY <1>1 DEF Job
  <2>2. jobs' = [jobs EXCEPT ![k] = j]
    BY <1>1
  <2> HIDE DEF j
  <2>3. QED
    BY <1>1, <2>1, <2>2, EditedJob
<1>5. ASSUME NEW v \in Workers, NEW k \in 1 .. Len(jobs), LeaveJob(v, k)
      PROVE  JobsEdited
  <2> PICK kept \in BOOLEAN : jobs' = [jobs EXCEPT ![k].held = @ \ {v}, ![k].data = @ /\ kept]
    BY <1>5 DEF LeaveJob
  <2> DEFINE data == jobs[k].data /\ kept
             j == [jobs[k] EXCEPT !.held = @ \ {v}, !.data = data]
  <2>1. data \in BOOLEAN
    BY <1>1 DEF Job
  <2>2. jobs' = [jobs EXCEPT ![k] = j]
    BY <1>1 DEF Job
  <2> HIDE DEF data
  <2>3. j \in Job /\ j.schedule = jobs[k].schedule /\ j.due = jobs[k].due
    BY <1>1, <2>1 DEF Job
  <2> HIDE DEF j
  <2>4. QED
    BY <1>1, <2>2, <2>3, EditedJob
<1>6. CASE Requeue
  <2> DEFINE j(k) == IF jobs[k].status = "processing" THEN [jobs[k] EXCEPT !.status = "queued"]
                                                      ELSE jobs[k]
  <2>1. \A k \in 1 .. Len(jobs) :
          j(k) \in Job /\ j(k).schedule = jobs[k].schedule /\ j(k).due = jobs[k].due
    BY <1>1 DEF Job
  <2>2. jobs' = [k \in 1 .. Len(jobs) |-> j(k)]
    BY <1>1, <1>6 DEF Requeue
  <2> HIDE DEF j
  <2>3. Len(jobs) \in Nat
    BY <1>1
  <2>4. jobs' \in Seq(Job) /\ Len(jobs') = Len(jobs)
        /\ \A k \in 1 .. Len(jobs) : jobs'[k] = j(k)
    BY <2>1, <2>2, <2>3
  <2>5. QED
    BY <2>1, <2>4 DEF JobsEdited, SameRows, RowOf
<1>7. QED
  BY <1>1, <1>2, <1>3, <1>4, <1>5, <1>6 DEF Work, Leave

-----------------------------------------------------------------------------
(* Steps that make no job and claim no row *)

Quiet ==
  /\ UNCHANGED <<now, state, nextRun, resume, resumed>>
  /\ \A d \in Dispatchers : asOf'[d] = asOf[d] \/ (asOf'[d] = Monday /\ rows'[d] = {})
  /\ JobsEdited
  /\ \A d \in Dispatchers : rows'[d] \subseteq rows[d] /\ batch'[d] \subseteq batch[d]

LEMMA MondayType ==
  /\ Monday \in Instant
  /\ \A t \in Instant : NotAfter(Monday, t)
<1>1. Monday \in Instant
  BY RunTimesAssumption DEF Monday, Instant
<1>2. ASSUME NEW t \in Instant
      PROVE  NotAfter(Monday, t)
  BY RunTimesAssumption DEF Monday, Instant, NotAfter, Before
<1>3. QED
  BY <1>1, <1>2

LEMMA QuietStep ==
  ASSUME TypeOK, NEW d \in Dispatchers
  PROVE  \/ Publish(d) \/ MarkUnpublished(d) \/ ReportUnpublished(d) \/ MarkDispatched(d)
         \/ CleanUp(d) \/ MarkError(d) \/ Start(d) \/ Crash(d)
         \/ CreateJobRaises(d) \/ PublishRaises(d) \/ MarkUnpublishedRaises(d)
         \/ ReportUnpublishedRaises(d) \/ MarkDispatchedRaises(d) \/ LoopDies(d)
         \/ \E r \in batch[d] : Missing(d, r) \/ Copy(d, r) \/ CopyRaises(d, r)
         => TypeOK' /\ Quiet
<1> USE MondayType DEF Goto, ForgetClock, scheduleVars, resumeVars, dispatcherVars, EndDispatch, SetError, SetDispatched, PC, Spend, Events
<1> DEFINE Kept == /\ UNCHANGED <<now, state, nextRun, resume, resumed>>
                   /\ \A e \in Dispatchers : asOf'[e] = asOf[e] \/ (asOf'[e] = Monday /\ rows'[e] = {})
                   /\ \A e \in Dispatchers : rows'[e] \subseteq rows[e] /\ batch'[e] \subseteq batch[e]
           Length == jobs' \in Seq(Job) /\ Len(jobs') = Len(jobs)
<1>1. jobs \in Seq(Job) /\ Len(jobs) \in Nat /\ (made[d] # 0 => made[d] \in 1 .. Len(jobs))
  BY DEF TypeOK, RowsOK, DispatchersOK
<1>2. JobsEdited => Length
  BY DEF JobsEdited, SameRows
<1> HIDE DEF Length
<1>3. ASSUME Publish(d) PROVE TypeOK' /\ Quiet
  <2>1. JobsEdited
    BY <1>1, <1>3, ListedEdited DEF TypeOK, RowsOK, DispatchersOK, StagesOK, Publish
  <2>2. Length
    BY <1>2, <2>1
  <2>3. RowsOK'
    BY <1>1, <1>3, <2>2 DEF TypeOK, RowsOK, DispatchersOK, Length, Publish
  <2>4. DispatchersOK'
    BY <1>1, <1>3, <2>2 DEF TypeOK, RowsOK, DispatchersOK, Length, Publish
  <2>5. StagesOK'
    BY <1>1, <1>3, <2>2 DEF TypeOK, RowsOK, DispatchersOK, StagesOK, Length, Publish
  <2>6. Kept
    BY <1>3 DEF TypeOK, DispatchersOK, Publish
  <2>7. QED
    BY <2>1, <2>3, <2>4, <2>5, <2>6 DEF Quiet, TypeOK
<1>4. ASSUME MarkUnpublished(d) PROVE TypeOK' /\ Quiet
  <2>1. JobsEdited
    BY <1>1, <1>4, StatusEdited DEF TypeOK, RowsOK, DispatchersOK, StagesOK, MarkUnpublished
  <2>2. Length
    BY <1>2, <2>1
  <2>3. RowsOK'
    BY <1>1, <1>4, <2>2 DEF TypeOK, RowsOK, DispatchersOK, Length, MarkUnpublished
  <2>4. DispatchersOK'
    BY <1>1, <1>4, <2>2 DEF TypeOK, RowsOK, DispatchersOK, Length, MarkUnpublished
  <2>5. StagesOK'
    BY <1>1, <1>4, <2>2 DEF TypeOK, RowsOK, DispatchersOK, StagesOK, Length, MarkUnpublished
  <2>6. Kept
    BY <1>4 DEF TypeOK, DispatchersOK, MarkUnpublished
  <2>7. QED
    BY <2>1, <2>3, <2>4, <2>5, <2>6 DEF Quiet, TypeOK
<1>5. ASSUME ReportUnpublished(d) PROVE TypeOK' /\ Quiet
  <2>1. JobsEdited
    BY <1>1, <1>5, DataRemoved DEF ReportUnpublished
  <2>2. Length
    BY <1>2, <2>1
  <2>3. RowsOK'
    BY <1>1, <1>5, <2>2 DEF TypeOK, RowsOK, DispatchersOK, Length, ReportUnpublished
  <2>4. DispatchersOK'
    BY <1>1, <1>5, <2>2 DEF TypeOK, RowsOK, DispatchersOK, Length, ReportUnpublished
  <2>5. StagesOK'
    BY <1>1, <1>5, <2>2 DEF TypeOK, RowsOK, DispatchersOK, StagesOK, Length, ReportUnpublished
  <2>6. Kept
    BY <1>5 DEF TypeOK, DispatchersOK, ReportUnpublished
  <2>7. QED
    BY <2>1, <2>3, <2>4, <2>5, <2>6 DEF Quiet, TypeOK
<1>6. ASSUME MarkDispatched(d) PROVE TypeOK' /\ Quiet
  <2>1. JobsEdited
    BY <1>1, <1>6, UneditedJobs DEF TypeOK, RowsOK, DispatchersOK, StagesOK, MarkDispatched
  <2>2. Length
    BY <1>2, <2>1
  <2>3. RowsOK'
    BY <1>1, <1>6, <2>2 DEF TypeOK, RowsOK, DispatchersOK, Length, MarkDispatched
  <2>4. DispatchersOK'
    BY <1>1, <1>6, <2>2 DEF TypeOK, RowsOK, DispatchersOK, Length, MarkDispatched
  <2>5. StagesOK'
    BY <1>1, <1>6, <2>2 DEF TypeOK, RowsOK, DispatchersOK, StagesOK, Length, MarkDispatched
  <2>6. Kept
    BY <1>6 DEF TypeOK, DispatchersOK, MarkDispatched
  <2>7. QED
    BY <2>1, <2>3, <2>4, <2>5, <2>6 DEF Quiet, TypeOK
<1>7. ASSUME CleanUp(d) PROVE TypeOK' /\ Quiet
  <2>1. JobsEdited
    BY <1>1, <1>7, DataRemoved DEF CleanUp
  <2>2. Length
    BY <1>2, <2>1
  <2>3. RowsOK'
    BY <1>1, <1>7, <2>2 DEF TypeOK, RowsOK, DispatchersOK, Length, CleanUp
  <2>4. DispatchersOK'
    BY <1>1, <1>7, <2>2 DEF TypeOK, RowsOK, DispatchersOK, Length, CleanUp
  <2>5. StagesOK'
    BY <1>1, <1>7, <2>2 DEF TypeOK, RowsOK, DispatchersOK, StagesOK, Length, CleanUp
  <2>6. Kept
    BY <1>7 DEF TypeOK, DispatchersOK, CleanUp
  <2>7. QED
    BY <2>1, <2>3, <2>4, <2>5, <2>6 DEF Quiet, TypeOK
<1>8. ASSUME MarkError(d) PROVE TypeOK' /\ Quiet
  <2>1. JobsEdited
    BY <1>1, <1>8, UneditedJobs DEF TypeOK, RowsOK, DispatchersOK, StagesOK, MarkError
  <2>2. Length
    BY <1>2, <2>1
  <2>3. RowsOK'
    BY <1>1, <1>8, <2>2 DEF TypeOK, RowsOK, DispatchersOK, Length, MarkError
  <2>4. DispatchersOK'
    BY <1>1, <1>8, <2>2 DEF TypeOK, RowsOK, DispatchersOK, Length, MarkError
  <2>5. StagesOK'
    BY <1>1, <1>8, <2>2 DEF TypeOK, RowsOK, DispatchersOK, StagesOK, Length, MarkError
  <2>6. Kept
    BY <1>8 DEF TypeOK, DispatchersOK, MarkError
  <2>7. QED
    BY <2>1, <2>3, <2>4, <2>5, <2>6 DEF Quiet, TypeOK
<1>9. ASSUME Start(d) PROVE TypeOK' /\ Quiet
  <2>1. JobsEdited
    BY <1>1, <1>9, UneditedJobs DEF TypeOK, RowsOK, DispatchersOK, StagesOK, Start
  <2>2. Length
    BY <1>2, <2>1
  <2>3. RowsOK'
    BY <1>1, <1>9, <2>2 DEF TypeOK, RowsOK, DispatchersOK, Length, Start
  <2>4. DispatchersOK'
    BY <1>1, <1>9, <2>2 DEF TypeOK, RowsOK, DispatchersOK, Length, Start
  <2>5. StagesOK'
    BY <1>1, <1>9, <2>2 DEF TypeOK, RowsOK, DispatchersOK, StagesOK, Length, Start
  <2>6. Kept
    BY <1>9 DEF TypeOK, DispatchersOK, Start
  <2>7. QED
    BY <2>1, <2>3, <2>4, <2>5, <2>6 DEF Quiet, TypeOK
<1>10. ASSUME Crash(d) PROVE TypeOK' /\ Quiet
  <2>1. JobsEdited
    BY <1>1, <1>10, UneditedJobs DEF TypeOK, RowsOK, DispatchersOK, StagesOK, Crash, Forget
  <2>2. Length
    BY <1>2, <2>1
  <2>3. RowsOK'
    BY <1>1, <1>10, <2>2 DEF TypeOK, RowsOK, DispatchersOK, Length, Crash, Forget
  <2>4. DispatchersOK'
    BY <1>1, <1>10, <2>2 DEF TypeOK, RowsOK, DispatchersOK, Length, Crash, Forget
  <2>5. StagesOK'
    BY <1>1, <1>10, <2>2 DEF TypeOK, RowsOK, DispatchersOK, StagesOK, Length, Crash, Forget
  <2>6. Kept
    BY <1>10 DEF TypeOK, DispatchersOK, Crash, Forget
  <2>7. QED
    BY <2>1, <2>3, <2>4, <2>5, <2>6 DEF Quiet, TypeOK
<1>11. ASSUME CreateJobRaises(d) PROVE TypeOK' /\ Quiet
  <2>1. JobsEdited
    BY <1>1, <1>11, UneditedJobs DEF TypeOK, RowsOK, DispatchersOK, StagesOK, CreateJobRaises, Failing, Drop
  <2>2. Length
    BY <1>2, <2>1
  <2>3. RowsOK'
    BY <1>1, <1>11, <2>2 DEF TypeOK, RowsOK, DispatchersOK, Length, CreateJobRaises, Failing, Drop
  <2>4. DispatchersOK'
    BY <1>1, <1>11, <2>2 DEF TypeOK, RowsOK, DispatchersOK, Length, CreateJobRaises, Failing, Drop
  <2>5. StagesOK'
    BY <1>1, <1>11, <2>2 DEF TypeOK, RowsOK, DispatchersOK, StagesOK, Length, CreateJobRaises, Failing, Drop
  <2>6. Kept
    BY <1>11 DEF TypeOK, DispatchersOK, CreateJobRaises, Failing, Drop
  <2>7. QED
    BY <2>1, <2>3, <2>4, <2>5, <2>6 DEF Quiet, TypeOK
<1>12. ASSUME PublishRaises(d) PROVE TypeOK' /\ Quiet
  <2>1. JobsEdited
    BY <1>1, <1>12, UneditedJobs, ListedEdited DEF TypeOK, RowsOK, DispatchersOK, StagesOK, PublishRaises
  <2>2. Length
    BY <1>2, <2>1
  <2>3. RowsOK'
    BY <1>1, <1>12, <2>2 DEF TypeOK, RowsOK, DispatchersOK, Length, PublishRaises
  <2>4. DispatchersOK'
    BY <1>1, <1>12, <2>2 DEF TypeOK, RowsOK, DispatchersOK, Length, PublishRaises
  <2>5. StagesOK'
    BY <1>1, <1>12, <2>2 DEF TypeOK, RowsOK, DispatchersOK, StagesOK, Length, PublishRaises
  <2>6. Kept
    BY <1>12 DEF TypeOK, DispatchersOK, PublishRaises
  <2>7. QED
    BY <2>1, <2>3, <2>4, <2>5, <2>6 DEF Quiet, TypeOK
<1>13. ASSUME MarkUnpublishedRaises(d) PROVE TypeOK' /\ Quiet
  <2>1. JobsEdited
    BY <1>1, <1>13, UneditedJobs, StatusEdited DEF TypeOK, RowsOK, DispatchersOK, StagesOK, MarkUnpublishedRaises, Failing
  <2>2. Length
    BY <1>2, <2>1
  <2>3. RowsOK'
    BY <1>1, <1>13, <2>2 DEF TypeOK, RowsOK, DispatchersOK, Length, MarkUnpublishedRaises, Failing
  <2>4. DispatchersOK'
    BY <1>1, <1>13, <2>2 DEF TypeOK, RowsOK, DispatchersOK, Length, MarkUnpublishedRaises, Failing
  <2>5. StagesOK'
    BY <1>1, <1>13, <2>2 DEF TypeOK, RowsOK, DispatchersOK, StagesOK, Length, MarkUnpublishedRaises, Failing
  <2>6. Kept
    BY <1>13 DEF TypeOK, DispatchersOK, MarkUnpublishedRaises, Failing
  <2>7. QED
    BY <2>1, <2>3, <2>4, <2>5, <2>6 DEF Quiet, TypeOK
<1>14. ASSUME ReportUnpublishedRaises(d) PROVE TypeOK' /\ Quiet
  <2>1. JobsEdited
    BY <1>1, <1>14, UneditedJobs DEF TypeOK, RowsOK, DispatchersOK, StagesOK, ReportUnpublishedRaises, Failing
  <2>2. Length
    BY <1>2, <2>1
  <2>3. RowsOK'
    <3>1. UNCHANGED <<now, state, nextRun, sources, resume, resumed, jobs>>
      BY <1>14 DEF ReportUnpublishedRaises, Failing
    <3>2. /\ lastJob' \in [Schedules -> 0 .. Len(jobs)]
          /\ lastError' \in [Schedules -> BOOLEAN]
      <4>1. /\ lastJob \in [Schedules -> 0 .. Len(jobs)] /\ lastError \in [Schedules -> BOOLEAN]
            /\ made[d] \in 0 .. Len(jobs)
        BY DEF TypeOK, RowsOK, DispatchersOK
      <4>2. CASE UNCHANGED <<lastJob, lastError>>
        BY <4>1, <4>2
      <4>3. CASE SetError(current[d].schedule) /\ UNCHANGED lastJob
        BY <4>1, <4>3
      <4>4. QED
        BY <1>14, <4>2, <4>3 DEF ReportUnpublishedRaises
    <3>3. QED
      BY <3>1, <3>2 DEF TypeOK, RowsOK
  <2>4. DispatchersOK'
    BY <1>1, <1>14, <2>2 DEF TypeOK, RowsOK, DispatchersOK, Length, ReportUnpublishedRaises, Failing
  <2>5. StagesOK'
    BY <1>1, <1>14, <2>2 DEF TypeOK, RowsOK, DispatchersOK, StagesOK, Length, ReportUnpublishedRaises, Failing
  <2>6. Kept
    BY <1>14 DEF TypeOK, DispatchersOK, ReportUnpublishedRaises, Failing
  <2>7. QED
    BY <2>1, <2>3, <2>4, <2>5, <2>6 DEF Quiet, TypeOK
<1>15. ASSUME MarkDispatchedRaises(d) PROVE TypeOK' /\ Quiet
  <2>1. JobsEdited
    BY <1>1, <1>15, UneditedJobs DEF TypeOK, RowsOK, DispatchersOK, StagesOK, MarkDispatchedRaises, Failing
  <2>2. Length
    BY <1>2, <2>1
  <2>3. RowsOK'
    <3>1. UNCHANGED <<now, state, nextRun, sources, resume, resumed, jobs>>
      BY <1>15 DEF MarkDispatchedRaises, Failing
    <3>2. /\ lastJob' \in [Schedules -> 0 .. Len(jobs)]
          /\ lastError' \in [Schedules -> BOOLEAN]
      <4>1. /\ lastJob \in [Schedules -> 0 .. Len(jobs)] /\ lastError \in [Schedules -> BOOLEAN]
            /\ made[d] \in 0 .. Len(jobs)
        BY DEF TypeOK, RowsOK, DispatchersOK
      <4>2. CASE UNCHANGED <<lastJob, lastError>>
        BY <4>1, <4>2
      <4>3. CASE SetDispatched(current[d].schedule, made[d])
        BY <4>1, <4>3
      <4>4. QED
        BY <1>15, <4>2, <4>3 DEF MarkDispatchedRaises
    <3>3. QED
      BY <3>1, <3>2 DEF TypeOK, RowsOK
  <2>4. DispatchersOK'
    BY <1>1, <1>15, <2>2 DEF TypeOK, RowsOK, DispatchersOK, Length, MarkDispatchedRaises, Failing
  <2>5. StagesOK'
    BY <1>1, <1>15, <2>2 DEF TypeOK, RowsOK, DispatchersOK, StagesOK, Length, MarkDispatchedRaises, Failing
  <2>6. Kept
    BY <1>15 DEF TypeOK, DispatchersOK, MarkDispatchedRaises, Failing
  <2>7. QED
    BY <2>1, <2>3, <2>4, <2>5, <2>6 DEF Quiet, TypeOK
<1>16. ASSUME LoopDies(d) PROVE TypeOK' /\ Quiet
  <2>1. JobsEdited
    BY <1>1, <1>16, UneditedJobs DEF TypeOK, RowsOK, DispatchersOK, StagesOK, LoopDies, Forget
  <2>2. Length
    BY <1>2, <2>1
  <2>3. RowsOK'
    BY <1>1, <1>16, <2>2 DEF TypeOK, RowsOK, DispatchersOK, Length, LoopDies, Forget
  <2>4. DispatchersOK'
    BY <1>1, <1>16, <2>2 DEF TypeOK, RowsOK, DispatchersOK, Length, LoopDies, Forget
  <2>5. StagesOK'
    BY <1>1, <1>16, <2>2 DEF TypeOK, RowsOK, DispatchersOK, StagesOK, Length, LoopDies, Forget
  <2>6. Kept
    BY <1>16 DEF TypeOK, DispatchersOK, LoopDies, Forget
  <2>7. QED
    BY <2>1, <2>3, <2>4, <2>5, <2>6 DEF Quiet, TypeOK
<1>17. ASSUME NEW r \in batch[d], Missing(d, r) \/ Copy(d, r) \/ CopyRaises(d, r)
       PROVE  TypeOK' /\ Quiet
  <2>1. JobsEdited
    BY <1>1, <1>17, UneditedJobs DEF Missing, Copy, CopyRaises
  <2>2. Length /\ r \in Row
    BY <1>2, <2>1 DEF TypeOK, DispatchersOK
  <2>3. ASSUME Missing(d, r) PROVE TypeOK' /\ Kept
    <3>1. RowsOK'
      BY <1>1, <2>2, <2>3 DEF TypeOK, RowsOK, DispatchersOK, Length, Missing, Drop
    <3>2. DispatchersOK'
      BY <1>1, <2>2, <2>3 DEF TypeOK, RowsOK, DispatchersOK, Length, Missing, Drop
    <3>3. StagesOK'
      BY <1>1, <2>2, <2>3 DEF TypeOK, RowsOK, DispatchersOK, StagesOK, Length, Missing, Drop
    <3>4. Kept
      BY <1>1, <2>2, <2>3 DEF TypeOK, RowsOK, DispatchersOK, Length, Missing, Drop
    <3>5. QED
      BY <3>1, <3>2, <3>3, <3>4 DEF TypeOK
  <2>4. ASSUME Copy(d, r) PROVE TypeOK' /\ Kept
    <3>1. RowsOK'
      BY <1>1, <2>2, <2>4 DEF TypeOK, RowsOK, DispatchersOK, Length, Copy
    <3>2. DispatchersOK'
      BY <1>1, <2>2, <2>4 DEF TypeOK, RowsOK, DispatchersOK, Length, Copy
    <3>3. StagesOK'
      BY <1>1, <2>2, <2>4 DEF TypeOK, RowsOK, DispatchersOK, StagesOK, Length, Copy
    <3>4. Kept
      BY <1>1, <2>2, <2>4 DEF TypeOK, RowsOK, DispatchersOK, Length, Copy
    <3>5. QED
      BY <3>1, <3>2, <3>3, <3>4 DEF TypeOK
  <2>5. ASSUME CopyRaises(d, r) PROVE TypeOK' /\ Kept
    <3>1. RowsOK'
      BY <1>1, <2>2, <2>5 DEF TypeOK, RowsOK, DispatchersOK, Length, CopyRaises, Failing, Drop
    <3>2. DispatchersOK'
      BY <1>1, <2>2, <2>5 DEF TypeOK, RowsOK, DispatchersOK, Length, CopyRaises, Failing, Drop
    <3>3. StagesOK'
      BY <1>1, <2>2, <2>5 DEF TypeOK, RowsOK, DispatchersOK, StagesOK, Length, CopyRaises, Failing, Drop
    <3>4. Kept
      BY <1>1, <2>2, <2>5 DEF TypeOK, RowsOK, DispatchersOK, Length, CopyRaises, Failing, Drop
    <3>5. QED
      BY <3>1, <3>2, <3>3, <3>4 DEF TypeOK
  <2>6. QED
    BY <1>17, <2>1, <2>3, <2>4, <2>5 DEF Quiet
<1>18. QED
  BY <1>3, <1>4, <1>5, <1>6, <1>7, <1>8, <1>9, <1>10, <1>11, <1>12, <1>13, <1>14, <1>15, <1>16, <1>17

-----------------------------------------------------------------------------
(* Type correctness: the steps that are not quiet, and the theorem *)

LEMMA WorkStep ==
  ASSUME TypeOK, Work \/ Leave
  PROVE  TypeOK' /\ Quiet
<1>1. JobsEdited
  BY WorkEdits
<1>2. jobs' \in Seq(Job) /\ Len(jobs') = Len(jobs)
  BY <1>1 DEF JobsEdited, SameRows
<1>3. UNCHANGED <<now, scheduleVars, dispatcherVars>> /\ left' \in [Events -> Nat]
  <2>1. left \in [Events -> Nat] /\ "kill" \in Events
    BY DEF TypeOK, DispatchersOK, Events
  <2>2. CASE Work
    BY <2>1, <2>2 DEF Work
  <2>3. CASE Leave
    <3>1. Spend("kill")
      BY <2>3 DEF Leave, LeaveJob
    <3>2. left' \in [Events -> Nat]
      BY <2>1, <3>1 DEF Spend
    <3>3. QED
      BY <2>3, <3>2 DEF Leave
  <2>4. QED
    BY <2>2, <2>3
<1>4. QED
  BY <1>1, <1>2, <1>3 DEF Quiet, TypeOK, RowsOK, DispatchersOK, StagesOK, scheduleVars, resumeVars,
                          dispatcherVars

LEMMA StutterStep ==
  ASSUME TypeOK, UNCHANGED vars
  PROVE  TypeOK' /\ Quiet
<1>1. JobsEdited
  BY UneditedJobs DEF vars, TypeOK, RowsOK
<1>2. QED
  BY <1>1 DEF Quiet, vars, TypeOK, RowsOK, DispatchersOK, StagesOK

\* RowOf(Len(jobs))' is the row of the new job.
LEMMA CreateJobMakes ==
  ASSUME TypeOK, NEW d \in Dispatchers, CreateJobRow(d) \/ CreateJobUnread(d)
  PROVE  /\ TypeOK'
         /\ current[d] \in batch[d] /\ current[d] \in Row
         /\ batch' = [batch EXCEPT ![d] = @ \ {current[d]}]
         /\ Len(jobs') = Len(jobs) + 1
         /\ \A k \in 1 .. Len(jobs) : RowOf(k)' = RowOf(k)
         /\ RowOf(Len(jobs))' = current[d]
<1>0. /\ \E to \in {"created", "made", "failing"} : CreateJob(d, to)
      /\ left' \in [Events -> Nat]
  BY DEF CreateJobRow, CreateJobUnread, Spend, Events, TypeOK, DispatchersOK
<1> PICK to \in {"created", "made", "failing"} : CreateJob(d, to)
  BY <1>0
<1>1. current[d] \in batch[d] /\ current[d] \in Row /\ jobs \in Seq(Job)
  BY DEF CreateJob, TypeOK, RowsOK, DispatchersOK, StagesOK
<1>2. NewJob(current[d]) \in Job
  BY <1>1 DEF NewJob, Job, Row
<1>3. /\ jobs' \in Seq(Job) /\ Len(jobs') = Len(jobs) + 1
      /\ \A k \in 1 .. Len(jobs) : jobs'[k] = jobs[k]
      /\ jobs'[Len(jobs) + 1] = NewJob(current[d])
  BY <1>1, <1>2, AppendProperties DEF CreateJob
<1>4. Len(jobs) \in Nat
  BY <1>1
<1>5. RowOf(Len(jobs))' = current[d]
  BY <1>1, <1>3 DEF RowOf, NewJob, Row
<1>6. RowsOK'
  BY <1>3, <1>4 DEF CreateJob, scheduleVars, resumeVars, TypeOK, RowsOK
<1>7. DispatchersOK'
  BY <1>0, <1>3, <1>4 DEF CreateJob, Drop, Goto, PC, TypeOK, DispatchersOK
<1>8. StagesOK'
  BY <1>3, <1>4 DEF CreateJob, Drop, Goto, TypeOK, DispatchersOK, StagesOK
<1>9. QED
  BY <1>1, <1>3, <1>5, <1>6, <1>7, <1>8 DEF CreateJob, Drop, RowOf, TypeOK

LEMMA NextRunOf ==
  ASSUME NEW s \in Schedules, NEW t \in Instant
  PROVE  LET next == NextRunAt(PlanOf[s], t)
         IN  /\ next \in Instant /\ IsRun(PlanOf[s], next) /\ Before(t, next)
             /\ \A u \in Instant : IsRun(PlanOf[s], u) /\ Before(t, u) => NotAfter(next, u)
<1>1. PlanOf[s] \in Plan
  BY ScheduledDispatchAssumption
<1>2. QED
  BY <1>1, NextRunFacts

LEMMA LaterType ==
  ASSUME NEW t \in Instant, NEW u \in Instant
  PROVE  Later(t, u) \in Instant
BY DEF Later

LEMMA TypeInit == Init => TypeOK
<1> SUFFICES ASSUME Init PROVE TypeOK
  OBVIOUS
<1>1. Monday \in Instant
  BY RunTimesAssumption DEF Monday, Instant
<1>2. jobs \in Seq(Job) /\ Len(jobs) = 0
  BY DEF Init
<1>3. RowsOK
  BY <1>1, <1>2 DEF Init, RowsOK
<1>4. DispatchersOK
  BY <1>1, <1>2, ScheduledDispatchAssumption DEF Init, DispatchersOK, PC
<1>5. StagesOK
  BY DEF Init, StagesOK
<1>6. QED
  BY <1>3, <1>4, <1>5 DEF TypeOK

LEMMA InstantsPast ==
  ASSUME TypeOK, NEW t \in Instants
  PROVE  t \in Instant /\ NotAfter(t, now)
<1>1. now.day \in Nat
  BY DEF TypeOK, RowsOK, Instant
<1>2. \A day \in 0 .. now.day : day \in Nat
  BY <1>1
<1>3. QED
  BY <1>2 DEF Instants, Instant

LEMMA HandlerType ==
  ASSUME TypeOK, NEW s \in Schedules, Handler(s)
  PROVE  TypeOK'
<1>1. \A t \in Instants : NextRunAt(PlanOf[s], t) \in Instant
  BY NextRunOf, InstantsPast
<1> USE DEF TypeOK, RowsOK, DispatchersOK, StagesOK, scheduleVars, resumeVars, dispatcherVars
<1>2. ASSUME CreateSchedule(s) PROVE TypeOK'
  BY <1>1, <1>2 DEF CreateSchedule, InsertSchedule
<1>3. ASSUME CreateScheduleUnread(s) PROVE TypeOK'
  BY <1>1, <1>3 DEF CreateScheduleUnread, InsertSchedule, Spend, Events
<1>4. ASSUME Pause(s) PROVE TypeOK'
  BY <1>4 DEF Pause, Spend, Events
<1>5. ASSUME NEW w \in Servers, StartResume(w, s) PROVE TypeOK'
  BY <1>5 DEF StartResume, Resumption, Spend, Events
<1>6. QED
  BY <1>2, <1>3, <1>4, <1>5 DEF Handler

(* What a server that carries out a resume has read, and what it writes.     *)
LEMMA ResumeFacts ==
  ASSUME TypeOK, NEW w \in Servers, Resume(w)
  PROVE  LET s == resume[w].schedule
             t == resume[w].from
             next == NextRunAt(PlanOf[s], t)
         IN  /\ s \in Schedules /\ t \in Instant
             /\ next \in Instant /\ IsRun(PlanOf[s], next) /\ Before(t, next)
             /\ \A u \in Instant : IsRun(PlanOf[s], u) /\ Before(t, u) => NotAfter(next, u)
             /\ state' = [state EXCEPT ![s] = "active"]
             /\ nextRun' = [nextRun EXCEPT ![s] = next]
             /\ resume' = [resume EXCEPT ![w] = NoResume]
             /\ resumed' = resumed \cup {[schedule |-> s, from |-> t, until |-> now]}
             /\ UNCHANGED <<now, lastJob, lastError, sources, jobs, dispatcherVars, left>>
<1>1. resume[w] \in Resumption
  BY DEF Resume, FinishResume, TypeOK, RowsOK
<1>2. resume[w].schedule \in Schedules /\ resume[w].from \in Instant
  BY <1>1 DEF Resumption
<1>3. QED
  BY <1>2, NextRunOf DEF Resume, FinishResume

LEMMA ResumeType ==
  ASSUME TypeOK, NEW w \in Servers, Resume(w)
  PROVE  TypeOK'
<1>1. now \in Instant
  BY DEF TypeOK, RowsOK
<1>2. RowsOK'
  <2> DEFINE s == resume[w].schedule
             t == resume[w].from
             next == NextRunAt(PlanOf[s], t)
  <2>1. s \in Schedules /\ t \in Instant /\ next \in Instant
    BY ResumeFacts
  <2>2. /\ state' = [state EXCEPT ![s] = "active"]
        /\ nextRun' = [nextRun EXCEPT ![s] = next]
        /\ resume' = [resume EXCEPT ![w] = NoResume]
        /\ resumed' = resumed \cup {[schedule |-> s, from |-> t, until |-> now]}
        /\ UNCHANGED <<now, lastJob, lastError, sources, jobs>>
    BY ResumeFacts
  <2> HIDE DEF s, t, next
  <2>3. state' \in [Schedules -> {"none", "active", "paused"}] /\ nextRun' \in [Schedules -> Instant]
    BY <2>1, <2>2 DEF TypeOK, RowsOK
  <2>4. resume' \in [Servers -> Resumption \cup {NoResume}]
    BY <2>2 DEF TypeOK, RowsOK
  <2>5. resumed' \subseteq [schedule : Schedules, from : Instant, until : Instant]
    BY <1>1, <2>1, <2>2 DEF TypeOK, RowsOK
  <2>6. QED
    BY <1>1, <2>2, <2>3, <2>4, <2>5 DEF TypeOK, RowsOK
<1>3. DispatchersOK' /\ StagesOK'
  BY ResumeFacts DEF TypeOK, DispatchersOK, StagesOK, dispatcherVars
<1>4. QED
  BY <1>2, <1>3 DEF TypeOK

LEMMA ClaimType ==
  ASSUME TypeOK, NEW d \in Dispatchers, ReadClock(d) \/ Select(d) \/ Take(d)
  PROVE  TypeOK'
<1>1. DueAt(asOf[d]) \subseteq Row
  BY DEF DueAt, Row, TypeOK, RowsOK
<1>2. ASSUME NEW s \in Schedules
      PROVE  NextRunAt(PlanOf[s], Later(asOf[d], nextRun[s])) \in Instant
  BY NextRunOf, LaterType DEF TypeOK, RowsOK, DispatchersOK
<1>3. ASSUME Select(d) PROVE TypeOK'
  <2>1. PICK Q \in SUBSET DueAt(asOf[d]) :
          /\ rows' = [rows EXCEPT ![d] = Q]
          /\ Goto(d, "idle") \/ Goto(d, "selected")
          /\ asOf' = asOf \/ ForgetClock(d)
    BY <1>3 DEF Select
  <2>2. UNCHANGED <<now, scheduleVars, jobs, batch, current, made, left>>
    BY <1>3 DEF Select
  <2>3. Q \subseteq Row
    BY <1>1
  <2>4. asOf' \in [Dispatchers -> Instant]
    BY <2>1, MondayType DEF ForgetClock, TypeOK, DispatchersOK
  <2>5. pc' \in [Dispatchers -> PC] /\ rows' \in [Dispatchers -> SUBSET Row]
    BY <2>1, <2>3 DEF Goto, PC, TypeOK, DispatchersOK
  <2>6. StagesOK'
    BY <2>1, <2>2 DEF Goto, TypeOK, DispatchersOK, StagesOK
  <2>7. QED
    BY <2>2, <2>4, <2>5, <2>6 DEF scheduleVars, resumeVars, TypeOK, RowsOK, DispatchersOK
<1>6. ASSUME ReadClock(d) PROVE TypeOK'
  BY <1>6 DEF ReadClock, Goto, PC, scheduleVars, resumeVars, TypeOK, RowsOK, DispatchersOK, StagesOK
<1>4. ASSUME Take(d) PROVE TypeOK'
  <2>1. Won(d) \subseteq Row
    BY DEF Won, TypeOK, DispatchersOK
  <2>2. nextRun' \in [Schedules -> Instant]
    BY <1>2, <1>4 DEF Take, TypeOK, RowsOK
  <2>3. lastError' \in [Schedules -> BOOLEAN]
    BY <1>4 DEF Take, TypeOK, RowsOK, Claims
  <2>4. RowsOK'
    BY <1>4, <2>2, <2>3 DEF Take, resumeVars, TypeOK, RowsOK
  <2>5. DispatchersOK'
    BY <1>4, <2>1, MondayType DEF Take, ForgetClock, Goto, PC, TypeOK, DispatchersOK
  <2>6. StagesOK'
    BY <1>4 DEF Take, Goto, TypeOK, DispatchersOK, StagesOK
  <2>7. QED
    BY <2>4, <2>5, <2>6 DEF TypeOK
<1>5. QED
  BY <1>3, <1>4, <1>6

LEMMA TickType ==
  ASSUME TypeOK, Tick
  PROVE  TypeOK' /\ UNCHANGED <<scheduleVars, jobs, dispatcherVars, left>> /\ Before(now, now')
<1>1. PICK day \in now.day .. LastDay, slot \in 0 .. (SlotsPerDay - 1) :
        now' = [day |-> day, slot |-> slot] /\ Before(now, now')
  BY DEF Tick
<1>2. now.day \in Nat /\ LastDay \in Nat
  BY ScheduledDispatchAssumption DEF TypeOK, RowsOK, Instant
<1>3. now' \in Instant
  BY <1>1, <1>2 DEF Instant
<1>4. QED
  BY <1>1, <1>3 DEF Tick, TypeOK, RowsOK, DispatchersOK, StagesOK, scheduleVars, resumeVars,
                    dispatcherVars

(* A step is quiet, or it is one of those that make a job, claim a row,      *)
(* write a schedule or move the clock.                                       *)
LEMMA StepCases ==
  ASSUME TypeOK, [Next]_vars
  PROVE  /\ TypeOK'
         /\ \/ Quiet
            \/ Tick
            \/ \E s \in Schedules : Handler(s)
            \/ \E w \in Servers : Resume(w)
            \/ \E d \in Dispatchers : ReadClock(d) \/ Select(d) \/ Take(d)
            \/ \E d \in Dispatchers : CreateJobRow(d) \/ CreateJobUnread(d)
<1>1. CASE UNCHANGED vars
  BY <1>1, StutterStep
<1>2. CASE Tick
  BY <1>2, TickType
<1>3. CASE \E s \in Schedules : Handler(s)
  BY <1>3, HandlerType
<1>4. CASE Work \/ Leave
  BY <1>4, WorkStep
<1>7. CASE \E w \in Servers : Resume(w)
  BY <1>7, ResumeType
<1>5. CASE \E d \in Dispatchers : Step(d) \/ Fault(d) \/ Crash(d) \/ Start(d)
  <2> PICK d \in Dispatchers : Step(d) \/ Fault(d) \/ Crash(d) \/ Start(d)
    BY <1>5
  <2>1. CASE ReadClock(d) \/ Select(d) \/ Take(d)
    BY <2>1, ClaimType
  <2>2. CASE CreateJobRow(d) \/ CreateJobUnread(d)
    BY <2>2, CreateJobMakes
  <2>3. CASE ~(ReadClock(d) \/ Select(d) \/ Take(d) \/ CreateJobRow(d) \/ CreateJobUnread(d))
    BY <2>3, QuietStep DEF Step, Fault
  <2>4. QED
    BY <2>1, <2>2, <2>3
<1>6. QED
  BY <1>1, <1>2, <1>3, <1>4, <1>5, <1>7 DEF Next

(* TypeOK holds for every set of schedules and dispatchers, whatever raises  *)
(* or crashes: an id a dispatcher holds is always the id of a job.           *)
THEOREM DispatchTypeCorrect == Spec => []TypeOK
<1>1. TypeOK /\ [Next]_vars => TypeOK'
  BY StepCases
<1>2. QED
  BY TypeInit, <1>1, PTL DEF Spec

-----------------------------------------------------------------------------
(* The invariant: next_run_at is ahead of every row that was claimed, so     *)
(* that no claim repeats one, and at most one dispatcher holds a row that    *)
(* has no job; but for the rows a resume may have brought back, those that   *)
(* fell due while it was under way.                                          *)

\* What a dispatcher selected was due when it looked.
SelectedWereDue ==
  \A d \in Dispatchers :
    NotAfter(asOf[d], now) /\ \A r \in rows[d] : NotAfter(r.due, asOf[d])

\* What was claimed was due.
ClaimedWereDue ==
  /\ \A k \in 1 .. Len(jobs) : NotAfter(jobs[k].due, now)
  /\ \A d \in Dispatchers : \A r \in batch[d] : NotAfter(r.due, now)

\* A resume has read the clock, and a row that exists.
ResumesRead ==
  \A w \in Servers : resume[w] # NoResume =>
    NotAfter(resume[w].from, now) /\ state[resume[w].schedule] # "none"

\* Only schedules that exist have jobs or claimed rows.
Known ==
  \A s \in Schedules : state[s] = "none" =>
    /\ \A k \in 1 .. Len(jobs) : jobs[k].schedule # s
    /\ \A d \in Dispatchers : \A r \in batch[d] : r.schedule # s

\* next_run_at is a run, and no later than any run that is yet to come.
NextRunTracked ==
  \A s \in Schedules : state[s] # "none" =>
    /\ IsRun(PlanOf[s], nextRun[s])
    /\ \A t \in Instant : IsRun(PlanOf[s], t) /\ Before(now, t) => NotAfter(nextRun[s], t)

DueWithin(r, I) ==
  \E i \in I : i.schedule = r.schedule /\ Before(i.from, r.due) /\ NotAfter(r.due, i.until)

JobsBehind ==
  \A k \in 1 .. Len(jobs) :
    Before(jobs[k].due, nextRun[jobs[k].schedule]) \/ DueWithin(RowOf(k), resumed)

BatchesBehind ==
  \A d \in Dispatchers : \A r \in batch[d] : DueWithin(r, resumed) \/
    (Before(r.due, nextRun[r.schedule]) /\ \A k \in 1 .. Len(jobs) : RowOf(k) # r)

BatchesDisjoint ==
  \A d, e \in Dispatchers : d # e => \A r \in batch[d] \cap batch[e] : DueWithin(r, resumed)

Unrepeated ==
  \A k, l \in 1 .. Len(jobs) : RowOf(k) = RowOf(l) => k = l \/ DueWithin(RowOf(k), resumed)

DispatchInv ==
  /\ TypeOK /\ SelectedWereDue /\ ClaimedWereDue /\ ResumesRead /\ Known /\ NextRunTracked
  /\ JobsBehind /\ BatchesBehind /\ BatchesDisjoint /\ Unrepeated

\* What NextRunAdvances says of a step.
OnlyResumesGoBack ==
  \A s \in Schedules : state[s] # "none" /\ Before(nextRun'[s], nextRun[s]) =>
    \E w \in Servers :
      /\ resume[w].schedule = s /\ resume'[w] = NoResume
      /\ Before(resume[w].from, nextRun'[s]) /\ NotAfter(nextRun'[s], now)

LEMMA JobFields ==
  ASSUME TypeOK
  PROVE  \A k \in 1 .. Len(jobs) : jobs[k].schedule \in Schedules /\ jobs[k].due \in Instant
<1>1. \A k \in 1 .. Len(jobs) : jobs[k] \in Job
  BY DEF TypeOK, RowsOK
<1>2. QED
  BY <1>1 DEF Job

(* A run that fell due during a resume remains one.                          *)
LEMMA ResumedGrows ==
  ASSUME NEW I, NEW J, I \subseteq J, NEW r, DueWithin(r, I)
  PROVE  DueWithin(r, J)
BY DEF DueWithin

LEMMA Forward ==
  ASSUME TypeOK, TypeOK', \A s \in Schedules : state[s] # "none" => NotAfter(nextRun[s], nextRun'[s])
  PROVE  OnlyResumesGoBack
<1>1. \A s \in Schedules : nextRun[s] \in Instant /\ nextRun'[s] \in Instant
  BY DEF TypeOK, RowsOK
<1>2. QED
  BY <1>1, Order DEF OnlyResumesGoBack

LEMMA DispatchInvInit == Init => DispatchInv
<1> SUFFICES ASSUME Init PROVE DispatchInv
  OBVIOUS
<1>1. TypeOK /\ Len(jobs) = 0
  BY TypeInit DEF Init
<1>2. SelectedWereDue
  BY DEF Init, SelectedWereDue, NotAfter
<1>3. ResumesRead /\ ClaimedWereDue
  BY <1>1 DEF Init, ResumesRead, ClaimedWereDue
<1>4. QED
  BY <1>1, <1>2, <1>3 DEF Init, DispatchInv, Known, NextRunTracked, JobsBehind, BatchesBehind,
                    BatchesDisjoint, Unrepeated

LEMMA QuietKeeps ==
  ASSUME DispatchInv, TypeOK', Quiet
  PROVE  DispatchInv'
<1> USE DEF Quiet
<1>1. /\ Len(jobs') = Len(jobs) /\ Len(jobs) \in Nat
      /\ \A k \in 1 .. Len(jobs) : /\ RowOf(k)' = RowOf(k)
                                   /\ jobs'[k].schedule = jobs[k].schedule
                                   /\ jobs'[k].due = jobs[k].due
  BY DEF JobsEdited, SameRows, RowOf, DispatchInv, TypeOK, RowsOK
<1>2. SelectedWereDue'
  <2>1. now \in Instant /\ now' = now
    BY DEF DispatchInv, TypeOK, RowsOK
  <2>2. QED
    BY <2>1, MondayType DEF DispatchInv, SelectedWereDue
<1>3. Known' /\ ClaimedWereDue' /\ ResumesRead'
  BY <1>1 DEF DispatchInv, Known, ClaimedWereDue, ResumesRead
<1>4. NextRunTracked'
  BY DEF DispatchInv, NextRunTracked
<1>5. JobsBehind'
  BY <1>1 DEF DispatchInv, JobsBehind
<1>6. BatchesBehind'
  BY <1>1 DEF DispatchInv, BatchesBehind
<1>7. BatchesDisjoint'
  BY DEF DispatchInv, BatchesDisjoint
<1>8. Unrepeated'
  BY <1>1 DEF DispatchInv, Unrepeated
<1>9. QED
  BY <1>2, <1>3, <1>4, <1>5, <1>6, <1>7, <1>8 DEF DispatchInv

LEMMA TickKeeps ==
  ASSUME DispatchInv, TypeOK', Tick
  PROVE  DispatchInv'
<1>1. UNCHANGED <<scheduleVars, jobs, dispatcherVars, left>> /\ Before(now, now')
  BY TickType DEF DispatchInv
<1>2. now \in Instant /\ now' \in Instant /\ \A d \in Dispatchers : asOf[d] \in Instant
  BY DEF DispatchInv, TypeOK, RowsOK, DispatchersOK
<1>3. \A t \in Instant : NotAfter(t, now) => NotAfter(t, now')
  BY <1>1, <1>2, Order
<1>4. \A t \in Instant : Before(now', t) => Before(now, t)
  BY <1>1, <1>2, Order
<1>5. SelectedWereDue'
  BY <1>1, <1>2, <1>3 DEF DispatchInv, SelectedWereDue, dispatcherVars
<1>6. NextRunTracked'
  BY <1>1, <1>4 DEF DispatchInv, NextRunTracked, scheduleVars
<1>7. ClaimedWereDue'
  <2>1. \A d \in Dispatchers : \A r \in batch[d] : r.due \in Instant
    BY DEF DispatchInv, TypeOK, DispatchersOK, Row
  <2>2. \A k \in 1 .. Len(jobs) : jobs[k].due \in Instant
    BY JobFields DEF DispatchInv
  <2>3. QED
    BY <1>1, <1>3, <2>1, <2>2 DEF DispatchInv, ClaimedWereDue, dispatcherVars
<1>8. ResumesRead'
  <2>1. \A w \in Servers : resume[w] # NoResume => resume[w].from \in Instant
    BY DEF DispatchInv, TypeOK, RowsOK, Resumption
  <2>2. QED
    BY <1>1, <1>3, <2>1 DEF DispatchInv, ResumesRead, scheduleVars, resumeVars
<1>9. Known' /\ JobsBehind' /\ BatchesBehind' /\ BatchesDisjoint' /\ Unrepeated'
  BY <1>1 DEF DispatchInv, Known, JobsBehind, BatchesBehind, BatchesDisjoint, Unrepeated,
              RowOf, scheduleVars, resumeVars, dispatcherVars
<1>10. QED
  BY <1>5, <1>6, <1>7, <1>8, <1>9 DEF DispatchInv

(* A new row is tracked, and no job or batch is of it.                       *)
LEMMA InsertKeeps ==
  ASSUME DispatchInv, TypeOK', NEW s \in Schedules, InsertSchedule(s)
  PROVE  DispatchInv' /\ OnlyResumesGoBack
<1>1. /\ UNCHANGED <<now, jobs, asOf, rows, batch, resume, resumed>>
      /\ state[s] = "none" /\ state' = [state EXCEPT ![s] = "active"]
  BY DEF InsertSchedule, dispatcherVars, resumeVars
<1>2. PICK t \in Instants : nextRun' = [nextRun EXCEPT ![s] = NextRunAt(PlanOf[s], t)]
  BY DEF InsertSchedule
<1>3. /\ now \in Instant /\ nextRun \in [Schedules -> Instant]
      /\ state \in [Schedules -> {"none", "active", "paused"}]
      /\ t \in Instant /\ NotAfter(t, now)
  BY InstantsPast DEF DispatchInv, TypeOK, RowsOK
<1>4. \A x \in Schedules : x # s => nextRun'[x] = nextRun[x] /\ state'[x] = state[x]
  BY <1>1, <1>2, <1>3
<1>5. NextRunTracked'
  <2>1. /\ IsRun(PlanOf[s], nextRun'[s])
        /\ \A u \in Instant : IsRun(PlanOf[s], u) /\ Before(now, u) => NotAfter(nextRun'[s], u)
    BY <1>2, <1>3, NextRunOf, Order
  <2>2. QED
    BY <1>1, <1>4, <2>1 DEF DispatchInv, NextRunTracked
<1>6. \A r \in Row : r.schedule \in Schedules
  BY DEF Row
<1>7. \A k \in 1 .. Len(jobs) : jobs[k].schedule \in Schedules /\ jobs[k].schedule # s
  BY <1>1, JobFields DEF DispatchInv, Known
<1>8. \A d \in Dispatchers : \A r \in batch[d] : r.schedule \in Schedules /\ r.schedule # s
  BY <1>1, <1>6 DEF DispatchInv, Known, TypeOK, DispatchersOK
<1>9. JobsBehind'
  BY <1>1, <1>4, <1>7 DEF DispatchInv, JobsBehind, RowOf
<1>10. BatchesBehind'
  BY <1>1, <1>4, <1>8 DEF DispatchInv, BatchesBehind, RowOf
<1>11. Known'
  BY <1>1, <1>3, <1>4 DEF DispatchInv, Known
<1>12. ResumesRead'
  BY <1>1, <1>3 DEF DispatchInv, ResumesRead, TypeOK, RowsOK, Resumption
<1>13. SelectedWereDue' /\ ClaimedWereDue' /\ BatchesDisjoint' /\ Unrepeated'
  BY <1>1 DEF DispatchInv, SelectedWereDue, ClaimedWereDue, BatchesDisjoint, Unrepeated, RowOf
<1>14. OnlyResumesGoBack
  BY <1>1, <1>4, Forward DEF DispatchInv, NotAfter
<1>15. QED
  BY <1>5, <1>9, <1>10, <1>11, <1>12, <1>13, <1>14 DEF DispatchInv

LEMMA HandlerKeeps ==
  ASSUME DispatchInv, TypeOK', NEW s \in Schedules, Handler(s)
  PROVE  DispatchInv' /\ OnlyResumesGoBack
<1>1. CASE CreateSchedule(s) \/ CreateScheduleUnread(s)
  BY <1>1, InsertKeeps DEF CreateSchedule, CreateScheduleUnread
<1>2. CASE Pause(s) \/ \E w \in Servers : StartResume(w, s)
  <2>1. UNCHANGED <<now, nextRun, jobs, asOf, rows, batch, resumed>>
    BY <1>2 DEF Pause, StartResume, dispatcherVars, resumeVars
  <2>2. /\ state \in [Schedules -> {"none", "active", "paused"}]
        /\ state[s] # "none"
        /\ state' = state \/ state' = [state EXCEPT ![s] = "paused"]
    BY <1>2 DEF Pause, StartResume, DispatchInv, TypeOK, RowsOK
  <2>3. \A x \in Schedules : state'[x] = "none" <=> state[x] = "none"
    BY <2>2
  <2>4. ResumesRead'
    <3>1. resume \in [Servers -> Resumption \cup {NoResume}]
      BY DEF DispatchInv, TypeOK, RowsOK
    <3>2. ASSUME NEW w \in Servers, resume'[w] # NoResume
          PROVE  /\ NotAfter(resume'[w].from, now)
                 /\ resume'[w].schedule \in Schedules /\ state[resume'[w].schedule] # "none"
      <4>1. CASE resume'[w] = resume[w]
        BY <3>1, <3>2, <4>1 DEF DispatchInv, ResumesRead, Resumption
      <4>2. CASE resume'[w] # resume[w]
        BY <1>2, <2>2, <3>1, <4>2 DEF Pause, StartResume, resumeVars, NotAfter
      <4>3. QED
        BY <4>1, <4>2
    <3>3. QED
      BY <2>1, <2>3, <3>2 DEF ResumesRead
  <2>5. Known' /\ NextRunTracked'
    BY <2>1, <2>3 DEF DispatchInv, Known, NextRunTracked
  <2>6. /\ SelectedWereDue' /\ ClaimedWereDue' /\ JobsBehind' /\ BatchesBehind'
        /\ BatchesDisjoint' /\ Unrepeated'
    BY <2>1 DEF DispatchInv, SelectedWereDue, ClaimedWereDue, JobsBehind, BatchesBehind,
                BatchesDisjoint, Unrepeated, RowOf
  <2>7. OnlyResumesGoBack
    BY <2>1, Forward DEF DispatchInv, NotAfter
  <2>8. QED
    BY <2>4, <2>5, <2>6, <2>7 DEF DispatchInv
<1>3. QED
  BY <1>1, <1>2 DEF Handler

(* A resume tracks the runs after its clock; what was claimed since then     *)
(* fell due while it was under way.                                          *)
LEMMA ResumeKeeps ==
  ASSUME DispatchInv, TypeOK', NEW w \in Servers, Resume(w)
  PROVE  DispatchInv' /\ OnlyResumesGoBack
<1> DEFINE s == resume[w].schedule
           t == resume[w].from
           i == [schedule |-> s, from |-> t, until |-> now]
<1>1. /\ s \in Schedules /\ t \in Instant
      /\ nextRun'[s] \in Instant /\ IsRun(PlanOf[s], nextRun'[s]) /\ Before(t, nextRun'[s])
      /\ \A u \in Instant : IsRun(PlanOf[s], u) /\ Before(t, u) => NotAfter(nextRun'[s], u)
      /\ \A x \in Schedules : x # s => nextRun'[x] = nextRun[x]
  <2>1. nextRun \in [Schedules -> Instant]
    BY DEF DispatchInv, TypeOK, RowsOK
  <2>2. QED
    BY <2>1, ResumeFacts DEF DispatchInv
<1>2. /\ resumed' = resumed \cup {i}
      /\ resume' = [resume EXCEPT ![w] = NoResume]
      /\ state' = [state EXCEPT ![s] = "active"]
      /\ UNCHANGED <<now, jobs, asOf, rows, batch>>
  BY ResumeFacts DEF DispatchInv, dispatcherVars
<1>3. /\ now \in Instant /\ nextRun \in [Schedules -> Instant]
      /\ state \in [Schedules -> {"none", "active", "paused"}]
      /\ resume \in [Servers -> Resumption \cup {NoResume}]
      /\ \A d \in Dispatchers : batch[d] \subseteq Row
  BY DEF DispatchInv, TypeOK, RowsOK, DispatchersOK
<1>4. NotAfter(t, now) /\ state[s] # "none"
  BY DEF Resume, FinishResume, DispatchInv, ResumesRead
<1>5. \A r : DueWithin(r, resumed) => DueWithin(r, resumed')
  BY <1>2, ResumedGrows
<1>6. ASSUME NEW r, r.schedule = s, r.due \in Instant, NotAfter(r.due, now),
             ~Before(r.due, nextRun'[s])
      PROVE  DueWithin(r, resumed')
  <2>1. Before(t, r.due)
    BY <1>1, <1>6, Order
  <2>2. i \in resumed' /\ i.schedule = r.schedule /\ i.from = t /\ i.until = now
    BY <1>2, <1>6
  <2>3. QED
    BY <1>6, <2>1, <2>2 DEF DueWithin
<1>7. state' \in [Schedules -> {"none", "active", "paused"}]
      /\ \A x \in Schedules : state'[x] = "none" <=> state[x] = "none"
  BY <1>1, <1>2, <1>3, <1>4
<1> HIDE DEF i
<1>8. NextRunTracked'
  <2>1. \A u \in Instant : Before(now, u) => Before(t, u)
    BY <1>1, <1>3, <1>4, Order
  <2>2. QED
    BY <1>1, <1>2, <1>7, <2>1 DEF DispatchInv, NextRunTracked
<1>9. ASSUME NEW r, r.schedule \in Schedules, r.due \in Instant, NotAfter(r.due, now),
             Before(r.due, nextRun[r.schedule]) \/ DueWithin(r, resumed)
      PROVE  Before(r.due, nextRun'[r.schedule]) \/ DueWithin(r, resumed')
  BY <1>1, <1>5, <1>6, <1>9
<1>10. JobsBehind'
  <2>1. ASSUME NEW k \in 1 .. Len(jobs)
        PROVE  /\ RowOf(k).schedule = jobs[k].schedule /\ RowOf(k).due = jobs[k].due
               /\ RowOf(k).schedule \in Schedules /\ RowOf(k).due \in Instant
               /\ NotAfter(RowOf(k).due, now)
               /\ Before(RowOf(k).due, nextRun[RowOf(k).schedule]) \/ DueWithin(RowOf(k), resumed)
    <3>1. RowOf(k).schedule = jobs[k].schedule /\ RowOf(k).due = jobs[k].due
      BY DEF RowOf
    <3>2. QED
      BY <3>1, JobFields DEF DispatchInv, ClaimedWereDue, JobsBehind
  <2>2. ASSUME NEW k \in 1 .. Len(jobs)
        PROVE  Before(jobs[k].due, nextRun'[jobs[k].schedule]) \/ DueWithin(RowOf(k), resumed')
    BY <1>9, <2>1
  <2>3. \A k \in 1 .. Len(jobs) : RowOf(k)' = RowOf(k)
    BY <1>2 DEF RowOf
  <2>4. QED
    BY <1>2, <2>2, <2>3 DEF JobsBehind
<1>11. BatchesBehind'
  <2>1. ASSUME NEW d \in Dispatchers, NEW r \in batch[d]
        PROVE  DueWithin(r, resumed') \/
               (Before(r.due, nextRun'[r.schedule]) /\ \A k \in 1 .. Len(jobs) : RowOf(k) # r)
    <3>1. r.schedule \in Schedules /\ r.due \in Instant /\ NotAfter(r.due, now)
      BY <1>3 DEF Row, DispatchInv, ClaimedWereDue
    <3>2. DueWithin(r, resumed) \/
          (Before(r.due, nextRun[r.schedule]) /\ \A k \in 1 .. Len(jobs) : RowOf(k) # r)
      BY DEF DispatchInv, BatchesBehind
    <3>3. QED
      BY <1>5, <1>9, <3>1, <3>2
  <2>2. QED
    BY <1>2, <2>1 DEF BatchesBehind, RowOf
<1>12. BatchesDisjoint' /\ Unrepeated'
  BY <1>2, <1>5 DEF DispatchInv, BatchesDisjoint, Unrepeated, RowOf
<1>13. SelectedWereDue' /\ ClaimedWereDue' /\ Known'
  BY <1>2, <1>7 DEF DispatchInv, SelectedWereDue, ClaimedWereDue, Known
<1>14. ResumesRead'
  <2>1. \A v \in Servers : resume'[v] # NoResume => resume'[v] = resume[v]
    BY <1>2, <1>3
  <2>2. \A v \in Servers : resume[v] # NoResume => resume[v].schedule \in Schedules
    BY <1>3 DEF Resumption
  <2>3. QED
    BY <1>2, <1>7, <2>1, <2>2 DEF DispatchInv, ResumesRead
<1>15. OnlyResumesGoBack
  <2> SUFFICES ASSUME NEW x \in Schedules, state[x] # "none", Before(nextRun'[x], nextRun[x])
               PROVE  /\ x = s /\ resume'[w] = NoResume
                      /\ Before(t, nextRun'[x]) /\ NotAfter(nextRun'[x], now)
    BY DEF OnlyResumesGoBack
  <2>1. nextRun[x] \in Instant
    BY <1>3
  <2>2. x = s
    BY <1>1, <2>1, Order DEF NotAfter
  <2>3. ~Before(now, nextRun'[s])
    BY <1>1, <1>3, <2>1, <2>2, Order DEF DispatchInv, NextRunTracked
  <2>4. NotAfter(nextRun'[s], now)
    BY <1>1, <1>3, <2>3, Order
  <2>5. resume'[w] = NoResume
    BY <1>2, <1>3
  <2>6. QED
    BY <1>1, <2>2, <2>4, <2>5
<1>16. QED
  BY <1>8, <1>10, <1>11, <1>12, <1>13, <1>14, <1>15 DEF DispatchInv

LEMMA SelectKeeps ==
  ASSUME DispatchInv, TypeOK', NEW d \in Dispatchers, ReadClock(d) \/ Select(d)
  PROVE  DispatchInv'
<1>1. UNCHANGED <<now, state, nextRun, jobs, batch, resume, resumed>>
  BY DEF ReadClock, Select, scheduleVars, resumeVars
<1>2. /\ now \in Instant /\ asOf \in [Dispatchers -> Instant]
      /\ rows \in [Dispatchers -> SUBSET Row]
      /\ \A e \in Dispatchers : NotAfter(asOf[e], now)
  BY DEF DispatchInv, TypeOK, RowsOK, DispatchersOK, SelectedWereDue
<1>3. SelectedWereDue'
  <2>1. CASE ReadClock(d)
    <3>1. rows' = rows /\ asOf' = [asOf EXCEPT ![d] = now] /\ NotAfter(now, now)
      BY <2>1 DEF ReadClock, NotAfter
    <3>2. \A r \in Row : NotAfter(r.due, asOf[d]) => NotAfter(r.due, now)
      BY <1>2, Order DEF Row
    <3>3. QED
      BY <1>1, <1>2, <3>1, <3>2 DEF DispatchInv, SelectedWereDue
  <2>2. CASE Select(d)
    <3>1. PICK Q \in SUBSET DueAt(asOf[d]) :
            /\ rows' = [rows EXCEPT ![d] = Q]
            /\ (Q = {} /\ ForgetClock(d)) \/ asOf' = asOf
      BY <2>2 DEF Select
    <3>2. \A r \in Q : NotAfter(r.due, asOf[d])
      BY DEF DueAt
    <3>3. \A e \in Dispatchers : NotAfter(asOf'[e], now)
      BY <1>2, <3>1, MondayType DEF ForgetClock
    <3>4. ASSUME NEW e \in Dispatchers, NEW r \in rows'[e]
          PROVE  NotAfter(r.due, asOf'[e])
      <4>1. CASE e = d
        BY <1>2, <3>1, <3>2, <4>1
      <4>2. CASE e # d
        BY <1>2, <3>1, <4>2 DEF ForgetClock, DispatchInv, SelectedWereDue
      <4>3. QED
        BY <4>1, <4>2
    <3>5. QED
      BY <1>1, <3>3, <3>4 DEF SelectedWereDue
  <2>3. QED
    BY <2>1, <2>2
<1>4. QED
  BY <1>1, <1>3 DEF DispatchInv, ClaimedWereDue, ResumesRead, Known, NextRunTracked, JobsBehind,
                    BatchesBehind, BatchesDisjoint, Unrepeated, RowOf

LEMMA TakeKeeps ==
  ASSUME DispatchInv, TypeOK', NEW d \in Dispatchers, Take(d)
  PROVE  DispatchInv' /\ \A s \in Schedules : NotAfter(nextRun[s], nextRun'[s])
<1> DEFINE ref(s) == Later(asOf[d], nextRun[s])
<1>1. /\ UNCHANGED <<now, state, jobs, resume, resumed>>
      /\ asOf' = [asOf EXCEPT ![d] = Monday]
      /\ rows' = [rows EXCEPT ![d] = {}] /\ batch' = [batch EXCEPT ![d] = Won(d)]
      /\ nextRun' = [s \in Schedules |->
           IF Claims(d, s) THEN NextRunAt(PlanOf[s], ref(s)) ELSE nextRun[s]]
  BY DEF Take, resumeVars, ForgetClock
<1>2. /\ now \in Instant /\ asOf[d] \in Instant /\ nextRun \in [Schedules -> Instant]
      /\ nextRun' \in [Schedules -> Instant] /\ jobs \in Seq(Job)
      /\ \A e \in Dispatchers : batch[e] \subseteq Row
      /\ Won(d) \subseteq Row
      /\ asOf \in [Dispatchers -> Instant]
      /\ rows \in [Dispatchers -> SUBSET Row] /\ batch \in [Dispatchers -> SUBSET Row]
  BY DEF DispatchInv, TypeOK, RowsOK, DispatchersOK, Won
<1>3. \A r \in Won(d) : /\ state[r.schedule] = "active" /\ r.due = nextRun[r.schedule]
                        /\ NotAfter(r.due, asOf[d]) /\ r.schedule \in Schedules
  BY <1>2 DEF Won, DispatchInv, SelectedWereDue, Row
<1>4. ASSUME NEW s \in Schedules, Claims(d, s)
      PROVE  /\ state[s] = "active"
             /\ ref(s) \in Instant /\ NotAfter(nextRun[s], ref(s)) /\ NotAfter(ref(s), now)
             /\ nextRun'[s] = NextRunAt(PlanOf[s], ref(s))
  <2>1. state[s] = "active" /\ NotAfter(nextRun[s], asOf[d])
    BY <1>3, <1>4 DEF Claims
  <2>2. NotAfter(asOf[d], now)
    BY DEF DispatchInv, SelectedWereDue
  <2>3. ref(s) = asOf[d]
    BY <2>1 DEF Later, NotAfter
  <2>4. QED
    BY <1>1, <1>2, <1>4, <2>1, <2>2, <2>3
<1> HIDE DEF ref
<1>5. ASSUME NEW s \in Schedules, Claims(d, s)
      PROVE  Before(nextRun[s], nextRun'[s])
  BY <1>2, <1>4, <1>5, NextRunOf, Order
<1>6. \A s \in Schedules : NotAfter(nextRun[s], nextRun'[s])
  BY <1>1, <1>5 DEF NotAfter
<1>7. NextRunTracked'
  <2> SUFFICES ASSUME NEW s \in Schedules, state[s] # "none"
               PROVE  /\ IsRun(PlanOf[s], nextRun'[s])
                      /\ \A t \in Instant : IsRun(PlanOf[s], t) /\ Before(now, t)
                           => NotAfter(nextRun'[s], t)
    BY <1>1 DEF NextRunTracked
  <2>1. CASE Claims(d, s)
    <3>1. \A t \in Instant : Before(now, t) => Before(ref(s), t)
      BY <1>2, <1>4, <2>1, Order
    <3>2. QED
      BY <1>4, <2>1, <3>1, NextRunOf
  <2>2. CASE ~Claims(d, s)
    BY <1>1, <2>2 DEF DispatchInv, NextRunTracked
  <2>3. QED
    BY <2>1, <2>2
<1>8. ASSUME NEW s \in Schedules, NEW t \in Instant, Before(t, nextRun[s])
      PROVE  Before(t, nextRun'[s])
  BY <1>2, <1>6, <1>8, Order
<1>9. \A k \in 1 .. Len(jobs) : jobs[k].schedule \in Schedules /\ jobs[k].due \in Instant
  BY JobFields DEF DispatchInv
<1>10. \A r \in Row : r.schedule \in Schedules /\ r.due \in Instant
  BY DEF Row
<1>11. JobsBehind'
  BY <1>1, <1>8, <1>9 DEF DispatchInv, JobsBehind, RowOf
<1>12. ASSUME NEW r \in Won(d)
       PROVE  /\ Before(r.due, nextRun'[r.schedule]) /\ NotAfter(r.due, now)
              /\ DueWithin(r, resumed) \/ \A k \in 1 .. Len(jobs) : RowOf(k) # r
              /\ DueWithin(r, resumed) \/ \A e \in Dispatchers : r \notin batch[e]
  <2>1. ~Before(r.due, nextRun[r.schedule])
    BY <1>2, <1>3, Order DEF NotAfter
  <2>2. Before(r.due, nextRun'[r.schedule])
    BY <1>3, <1>5 DEF Claims
  <2>3. NotAfter(r.due, now)
    BY <1>2, <1>3, <1>10, Order DEF DispatchInv, SelectedWereDue
  <2>4. ASSUME NEW k \in 1 .. Len(jobs), RowOf(k) = r
        PROVE  DueWithin(r, resumed)
    BY <2>1, <2>4 DEF DispatchInv, JobsBehind, RowOf
  <2>5. ASSUME NEW e \in Dispatchers, r \in batch[e]
        PROVE  DueWithin(r, resumed)
    BY <2>1, <2>5 DEF DispatchInv, BatchesBehind
  <2>6. QED
    BY <2>2, <2>3, <2>4, <2>5
<1>13. \A e \in Dispatchers : batch'[e] = IF e = d THEN Won(d) ELSE batch[e]
  BY <1>1, <1>2
<1>14. BatchesBehind'
  <2> SUFFICES ASSUME NEW e \in Dispatchers, NEW r \in batch'[e], ~DueWithin(r, resumed)
               PROVE  Before(r.due, nextRun'[r.schedule]) /\ \A k \in 1 .. Len(jobs) : RowOf(k) # r
    BY <1>1 DEF BatchesBehind, RowOf
  <2>1. CASE e = d
    BY <1>12, <1>13, <2>1
  <2>2. CASE e # d
    BY <1>2, <1>8, <1>10, <1>13, <2>2 DEF DispatchInv, BatchesBehind
  <2>3. QED
    BY <2>1, <2>2
<1>15. BatchesDisjoint'
  <2> SUFFICES ASSUME NEW e \in Dispatchers, NEW f \in Dispatchers, e # f,
                      NEW r \in batch'[e] \cap batch'[f]
               PROVE  DueWithin(r, resumed)
    BY <1>1 DEF BatchesDisjoint
  <2>1. CASE e = d \/ f = d
    BY <1>12, <1>13, <2>1
  <2>2. CASE e # d /\ f # d
    BY <1>13, <2>2 DEF DispatchInv, BatchesDisjoint
  <2>3. QED
    BY <2>1, <2>2
<1>16. Known'
  BY <1>1, <1>3, <1>13 DEF DispatchInv, Known
<1>17. ClaimedWereDue'
  BY <1>1, <1>12, <1>13 DEF DispatchInv, ClaimedWereDue
<1>18. SelectedWereDue'
  BY <1>1, <1>2, MondayType DEF DispatchInv, SelectedWereDue
<1>19. ResumesRead' /\ Unrepeated'
  BY <1>1 DEF DispatchInv, ResumesRead, Unrepeated, RowOf
<1>20. QED
  BY <1>6, <1>7, <1>11, <1>14, <1>15, <1>16, <1>17, <1>18, <1>19 DEF DispatchInv

LEMMA CreateJobKeeps ==
  ASSUME DispatchInv, TypeOK', NEW d \in Dispatchers, CreateJobRow(d) \/ CreateJobUnread(d)
  PROVE  DispatchInv'
<1> DEFINE c == current[d]
           n == Len(jobs)
<1>1. /\ c \in batch[d] /\ c \in Row
      /\ batch' = [batch EXCEPT ![d] = @ \ {c}]
      /\ Len(jobs') = n + 1
      /\ \A k \in 1 .. n : RowOf(k)' = RowOf(k)
      /\ RowOf(Len(jobs))' = c
  BY CreateJobMakes DEF DispatchInv
<1>2. UNCHANGED <<now, state, nextRun, asOf, rows, resume, resumed>>
  BY DEF CreateJobRow, CreateJobUnread, CreateJob, scheduleVars, resumeVars
<1>3. n \in Nat /\ batch \in [Dispatchers -> SUBSET Row]
  BY DEF DispatchInv, TypeOK, RowsOK, DispatchersOK
<1> HIDE DEF c, n
<1>4. \A k \in 1 .. Len(jobs') : \/ k \in 1 .. n /\ RowOf(k)' = RowOf(k)
                                 \/ k = n + 1 /\ RowOf(k)' = c
  BY <1>1, <1>3
<1>5. /\ DueWithin(c, resumed) \/ \A k \in 1 .. n : RowOf(k) # c
      /\ DueWithin(c, resumed) \/ Before(c.due, nextRun[c.schedule])
      /\ NotAfter(c.due, now)
  BY <1>1 DEF DispatchInv, BatchesBehind, ClaimedWereDue, n
<1>6. /\ \A k \in 1 .. Len(jobs') : /\ RowOf(k)'.schedule = jobs'[k].schedule
                                    /\ RowOf(k)'.due = jobs'[k].due
      /\ \A k \in 1 .. n : RowOf(k).schedule = jobs[k].schedule /\ RowOf(k).due = jobs[k].due
  BY DEF RowOf
<1>7. Unrepeated'
  <2> SUFFICES ASSUME NEW k \in 1 .. Len(jobs'), NEW l \in 1 .. Len(jobs'),
                      RowOf(k)' = RowOf(l)', k # l
               PROVE  DueWithin(RowOf(k)', resumed)
    BY <1>2 DEF Unrepeated
  <2>1. CASE k \in 1 .. n /\ l \in 1 .. n
    BY <1>1, <2>1 DEF DispatchInv, Unrepeated, n
  <2>2. CASE k = n + 1 \/ l = n + 1
    BY <1>3, <1>4, <1>5, <2>2
  <2>3. QED
    BY <1>4, <2>1, <2>2
<1>8. JobsBehind'
  <2> SUFFICES ASSUME NEW k \in 1 .. Len(jobs')
               PROVE  Before(jobs'[k].due, nextRun[jobs'[k].schedule]) \/ DueWithin(RowOf(k)', resumed)
    BY <1>2 DEF JobsBehind
  <2>1. CASE k \in 1 .. n /\ RowOf(k)' = RowOf(k)
    BY <1>6, <2>1 DEF DispatchInv, JobsBehind, n
  <2>2. CASE RowOf(k)' = c
    BY <1>5, <1>6, <2>2
  <2>3. QED
    BY <1>4, <2>1, <2>2
<1>9. Known'
  BY <1>1, <1>2, <1>3, <1>4, <1>6 DEF DispatchInv, Known, n
<1>10. /\ \A e \in Dispatchers : batch'[e] \subseteq batch[e]
       /\ \A e \in Dispatchers : c \in batch'[e] => DueWithin(c, resumed)
  BY <1>1, <1>3 DEF DispatchInv, BatchesDisjoint
<1>11. BatchesBehind'
  BY <1>2, <1>4, <1>10 DEF DispatchInv, BatchesBehind, n
<1>12. BatchesDisjoint'
  BY <1>2, <1>10 DEF DispatchInv, BatchesDisjoint
<1>13. ClaimedWereDue'
  BY <1>2, <1>4, <1>5, <1>6, <1>10 DEF DispatchInv, ClaimedWereDue, n
<1>14. SelectedWereDue' /\ NextRunTracked' /\ ResumesRead'
  BY <1>2 DEF DispatchInv, SelectedWereDue, NextRunTracked, ResumesRead
<1>15. QED
  BY <1>7, <1>8, <1>9, <1>11, <1>12, <1>13, <1>14 DEF DispatchInv

LEMMA DispatchInvStep ==
  ASSUME DispatchInv, [Next]_vars
  PROVE  DispatchInv' /\ OnlyResumesGoBack
<1>1. /\ TypeOK /\ TypeOK'
      /\ \/ Quiet
         \/ Tick
         \/ \E s \in Schedules : Handler(s)
         \/ \E w \in Servers : Resume(w)
         \/ \E d \in Dispatchers : ReadClock(d) \/ Select(d) \/ Take(d)
         \/ \E d \in Dispatchers : CreateJobRow(d) \/ CreateJobUnread(d)
  BY StepCases DEF DispatchInv
<1>2. nextRun' = nextRun => OnlyResumesGoBack
  BY <1>1, Forward DEF NotAfter
<1>3. CASE Quiet
  BY <1>1, <1>2, <1>3, QuietKeeps DEF Quiet
<1>4. CASE Tick
  BY <1>1, <1>2, <1>4, TickKeeps DEF Tick, scheduleVars
<1>5. CASE \E s \in Schedules : Handler(s)
  BY <1>1, <1>5, HandlerKeeps
<1>6. CASE \E w \in Servers : Resume(w)
  BY <1>1, <1>6, ResumeKeeps
<1>7. ASSUME NEW d \in Dispatchers, ReadClock(d) \/ Select(d)
      PROVE  DispatchInv' /\ OnlyResumesGoBack
  BY <1>1, <1>2, <1>7, SelectKeeps DEF ReadClock, Select, scheduleVars
<1>8. ASSUME NEW d \in Dispatchers, Take(d)
      PROVE  DispatchInv' /\ OnlyResumesGoBack
  BY <1>1, <1>8, TakeKeeps, Forward
<1>9. ASSUME NEW d \in Dispatchers, CreateJobRow(d) \/ CreateJobUnread(d)
      PROVE  DispatchInv' /\ OnlyResumesGoBack
  BY <1>1, <1>2, <1>9, CreateJobKeeps DEF CreateJobRow, CreateJobUnread, CreateJob, scheduleVars
<1>10. QED
  BY <1>1, <1>3, <1>4, <1>5, <1>6, <1>7, <1>8, <1>9

(* However many dispatchers select, claim, crash and start again, and        *)
(* however many resumes are half done, a run of a schedule becomes at most   *)
(* one job, unless it fell due while its schedule was being resumed.         *)
THEOREM DispatchedOnce == Spec => []OneJobPerSlot
<1>1. DispatchInv => OneJobPerSlot
  <2> SUFFICES ASSUME DispatchInv PROVE OneJobPerSlot
    OBVIOUS
  <2>1. DOMAIN jobs = 1 .. Len(jobs)
    BY DEF DispatchInv, TypeOK, RowsOK
  <2>2. \A r : DueWithin(r, resumed) => DueDuringResume(r)
    BY DEF DueWithin, DueDuringResume
  <2>3. QED
    BY <2>1, <2>2 DEF DispatchInv, Unrepeated, OneJobPerSlot
<1>2. DispatchInv /\ [Next]_vars => DispatchInv'
  BY DispatchInvStep
<1>3. QED
  BY DispatchInvInit, <1>1, <1>2, PTL DEF Spec

(* No handler, claim or fault moves next_run_at back but the UPDATE of a     *)
(* resume with an old clock, and that one only to a run that fell due after  *)
(* the clock was read.                                                       *)
THEOREM NextRunGoesBackOnlyByResume == Spec => NextRunAdvances
<1>1. DispatchInv /\ [Next]_vars
      => [\A s \in Schedules : state[s] # "none" /\ Before(nextRun'[s], nextRun[s]) =>
            \E w \in Servers :
              /\ resume[w].schedule = s /\ resume'[w] = NoResume
              /\ Before(resume[w].from, nextRun'[s]) /\ NotAfter(nextRun'[s], now)]_vars
  BY DispatchInvStep DEF OnlyResumesGoBack
<1>2. DispatchInv /\ [Next]_vars => DispatchInv'
  BY DispatchInvStep
<1>3. QED
  BY DispatchInvInit, <1>1, <1>2, PTL DEF Spec, NextRunAdvances

(* For every plan and every clock, next_run_at is due or it is the earliest  *)
(* run that is yet to come.                                                  *)
THEOREM NoRunSkipped == Spec => []NextRunIsEarliest
<1>1. DispatchInv => NextRunIsEarliest
  <2> SUFFICES ASSUME DispatchInv, NEW s \in Schedules, state[s] # "none",
                      ~NotAfter(nextRun[s], now)
               PROVE  EarliestRunAfter(PlanOf[s], now, nextRun[s])
    BY DEF NextRunIsEarliest
  <2>1. now \in Instant /\ nextRun[s] \in Instant
    BY DEF DispatchInv, TypeOK, RowsOK
  <2>2. Before(now, nextRun[s])
    BY <2>1, Order
  <2>3. QED
    BY <2>1, <2>2 DEF DispatchInv, NextRunTracked, EarliestRunAfter, Instant
<1>2. DispatchInv /\ [Next]_vars => DispatchInv'
  BY DispatchInvStep
<1>3. QED
  BY DispatchInvInit, <1>1, <1>2, PTL DEF Spec

(* No claim, not even of a row selected before, moves a paused schedule.     *)
THEOREM PausedStays == Spec => PausedIsStill
<1> DEFINE Still == \A s \in Schedules :
                      state[s] = "paused" /\ state'[s] = "paused" => nextRun'[s] = nextRun[s]
<1>1. TypeOK /\ [Next]_vars => TypeOK' /\ [Still]_vars
  <2> SUFFICES ASSUME TypeOK, [Next]_vars PROVE TypeOK' /\ Still
    OBVIOUS
  <2>1. /\ state \in [Schedules -> {"none", "active", "paused"}]
        /\ nextRun \in [Schedules -> Instant]
    BY DEF TypeOK, RowsOK
  <2>2. CASE Quiet \/ Tick
    BY <2>2, StepCases DEF Quiet, Tick, scheduleVars
  <2>3. ASSUME NEW s \in Schedules, Handler(s) PROVE Still
    <3>1. CASE CreateSchedule(s) \/ CreateScheduleUnread(s)
      BY <2>1, <3>1 DEF CreateSchedule, CreateScheduleUnread, InsertSchedule
    <3>2. CASE Pause(s) \/ \E w \in Servers : StartResume(w, s)
      BY <3>2 DEF Pause, StartResume
    <3>3. QED
      BY <2>3, <3>1, <3>2 DEF Handler
  <2>4. ASSUME NEW w \in Servers, Resume(w) PROVE Still
    BY <2>1, <2>4, ResumeFacts
  <2>5. ASSUME NEW d \in Dispatchers, ReadClock(d) \/ Select(d) PROVE Still
    BY <2>5 DEF ReadClock, Select, scheduleVars
  <2>6. ASSUME NEW d \in Dispatchers, Take(d) PROVE Still
    BY <2>6 DEF Take, Claims, Won
  <2>7. ASSUME NEW d \in Dispatchers, CreateJobRow(d) \/ CreateJobUnread(d) PROVE Still
    BY <2>7 DEF CreateJobRow, CreateJobUnread, CreateJob, scheduleVars
  <2>8. QED
    BY <2>2, <2>3, <2>4, <2>5, <2>6, <2>7, StepCases
<1>2. QED
  BY TypeInit, <1>1, PTL DEF Spec, PausedIsStill

=============================================================================

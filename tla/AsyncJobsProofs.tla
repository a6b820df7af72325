-------------------------- MODULE AsyncJobsProofs --------------------------
(* Proofs about AsyncJobs, for every set of jobs, tenants and processors, in *)
(* every mode and within every budget of environment events.                 *)
EXTENDS AsyncJobs, FiniteSetTheorems, TLAPS

(* Spending an event that is left keeps what is left a natural number.       *)
LEMMA SpendType ==
  ASSUME left \in [Events -> Nat], NEW e \in Events, Spend(e)
  PROVE  left' \in [Events -> Nat]
BY DEF Spend

(* These events have a budget.                                              *)
LEMMA KnownEvents == /\ "start" \in Events /\ "crash" \in Events
                     /\ "stop" \in Events /\ "fault" \in Events
BY DEF Events

(* Appending to a list of jobs gives a list of jobs.                        *)
LEMMA AppendType ==
  ASSUME NEW S, NEW s \in Seq(S), NEW x \in S
  PROVE  Append(s, x) \in Seq(S)
OBVIOUS

(* What a popped list leaves is a list of jobs, and its head was on it.     *)
LEMMA TailType ==
  ASSUME NEW S, NEW s \in Seq(S), s # <<>>
  PROVE  Tail(s) \in Seq(S) /\ Head(s) \in S
OBVIOUS

(* The steps of a submission keep the types.                                *)
LEMMA SubmissionType ==
  ASSUME TypeOK, NEW j \in Jobs, Submission(j)
  PROVE  TypeOK'
<1> USE DEF TypeOK, UploadState, Status, Terminal, PC, rowVars, procVars
<1>0. \A e \in Events : Spend(e) => left' \in [Events -> Nat]
  BY SpendType
<1>a. Append(arrival, j) \in Seq(Jobs) /\ Append(broker, j) \in Seq(Jobs)
  BY AppendType
<1>1. CASE Admit(j) BY <1>1 DEF Admit
<1>2. CASE RejectFull(j) BY <1>2 DEF RejectFull
<1>3. CASE RejectFiles(j) BY <1>3 DEF RejectFiles
<1>4. CASE CreateJob(j) BY <1>4, <1>a DEF CreateJob, InsertRow, AfterCreate
<1>5. CASE CreateJobUnread(j) BY <1>5, <1>a, <1>0, KnownEvents DEF CreateJobUnread, InsertRow
<1>6. CASE Publish(j) BY <1>6, <1>a DEF Publish
<1>7. CASE PublishRaises(j) BY <1>7, <1>a, <1>0, KnownEvents DEF PublishRaises
<1>8. CASE MarkUnpublished(j)
  <2>1. left' \in [Events -> Nat] BY <1>8, <1>0, KnownEvents DEF MarkUnpublished
  <2>2. upload' \in [Jobs -> UploadState]
    <3>1. \E s \in {"unavailable", "errored"} : upload' = [upload EXCEPT ![j] = s]
      BY <1>8 DEF MarkUnpublished
    <3>2. QED BY <3>1
  <2>3. status' \in [Jobs -> Status] BY <1>8 DEF MarkUnpublished, SetFailed
  <2>4. UNCHANGED <<percent, report, arrival, runs>> BY <1>8 DEF MarkUnpublished, SetFailed
  <2>5. datasets' \subseteq Jobs /\ UNCHANGED <<procVars, reports, broker>>
    BY <1>8 DEF MarkUnpublished
  <2>6. QED BY <2>1, <2>2, <2>3, <2>4, <2>5
<1>9. CASE Disown(j) BY <1>9, <1>0, KnownEvents DEF Disown
<1>10. CASE AbortUpload(j) BY <1>10, <1>0, KnownEvents DEF AbortUpload
<1>11. QED
  BY <1>1, <1>2, <1>3, <1>4, <1>5, <1>6, <1>7, <1>8, <1>9, <1>10 DEF Submission

(* The steps of a processor keep the types.                                 *)
LEMMA StepType ==
  ASSUME TypeOK, NEW p \in Procs, NEW j \in Jobs, Step(p, j) \/ Fault(p, j)
  PROVE  TypeOK'
<1> USE DEF TypeOK, Status, Terminal, PC, rowVars, Goto, At, SetPercent
<1>0. \A e \in Events : Spend(e) => left' \in [Events -> Nat]
  BY SpendType
<1>a. Spend("fault") => left' \in [Events -> Nat]
  BY <1>0, KnownEvents
<1>1. CASE ClaimNext(p, j) BY <1>1 DEF ClaimNext, TakeRow
<1>2. CASE ClaimPopped(p, j) BY <1>2 DEF ClaimPopped, TakeRow
<1>3. CASE DropPopped(p, j) BY <1>3 DEF DropPopped
<1>4. CASE Begin(p, j) BY <1>4 DEF Begin
<1>5. CASE Run(p, j) BY <1>5 DEF Run
<1>6. CASE Computed(p, j) BY <1>6 DEF Computed
<1>7. CASE SaveReport(p, j) BY <1>7 DEF SaveReport, Report
<1>8. CASE MarkCompleted(p, j) BY <1>8 DEF MarkCompleted, SetCompleted
<1>9. CASE MarkFailed(p, j) BY <1>9 DEF MarkFailed, SetFailed
<1>10. CASE Clean(p, j) BY <1>10 DEF Clean
<1>11. CASE WriteRaises(p, j)
  <2>1. left' \in [Events -> Nat] BY <1>11, <1>a DEF WriteRaises
  <2>2. pc' = [pc EXCEPT ![p] = "raised"] BY <1>11, Zenon DEF WriteRaises
  <2>3. pc' \in [Procs -> PC] BY <2>2
  <2>4. UNCHANGED <<upload, rowVars, datasets, reports, broker, orphans, task, run>>
    BY <1>11, Zenon DEF WriteRaises
  <2>5. QED BY <2>1, <2>3, <2>4
<1>12. CASE ProgressUnread(p, j) BY <1>12, <1>a DEF ProgressUnread
<1>13. CASE CompletedUnread(p, j) BY <1>13, <1>a DEF CompletedUnread, SetCompleted
<1>14. CASE ClaimUnread(p, j) BY <1>14, <1>a DEF ClaimUnread
<1>15. CASE MarkFailedRaises(p, j)
  <2>1. left' \in [Events -> Nat] BY <1>15, <1>a DEF MarkFailedRaises
  <2>2. pc' = [pc EXCEPT ![p] = "dying"] BY <1>15, Zenon DEF MarkFailedRaises
  <2>3. pc' \in [Procs -> PC] BY <2>2
  <2>4. status' \in [Jobs -> Status] BY <1>15 DEF MarkFailedRaises, SetFailed
  <2>5. UNCHANGED <<percent, report, arrival, runs>> BY <1>15 DEF MarkFailedRaises, SetFailed
  <2>6. UNCHANGED <<upload, datasets, reports, broker, orphans, task, run>>
    BY <1>15, Zenon DEF MarkFailedRaises
  <2>7. QED BY <2>1, <2>3, <2>4, <2>5, <2>6
<1>16. QED
  BY <1>1, <1>2, <1>3, <1>4, <1>5, <1>6, <1>7, <1>8, <1>9, <1>10, <1>11, <1>12,
     <1>13, <1>14, <1>15 DEF Step, Fault

(* So do the steps of its loop: waiting, claiming, stopping, starting again. *)
LEMMA LifeType ==
  ASSUME TypeOK, NEW w \in Workers,
         \/ Pop(w) \/ Start(w) \/ StopIdle(w) \/ OrphanEnds(w) \/ LoopDies(w)
         \/ \E j \in Jobs : StopRunning(w, j)
  PROVE  TypeOK'
<1> USE DEF TypeOK, Status, Terminal, PC, rowVars, Goto, Leave
<1>0. \A e \in Events : Spend(e) => left' \in [Events -> Nat]
  BY SpendType
<1>1. CASE Pop(w) BY <1>1, TailType DEF Pop
<1>2. CASE Start(w) BY <1>2, <1>0, KnownEvents DEF Start, RequeuedStatus, RequeuedPercent
<1>3. CASE StopIdle(w) BY <1>3, <1>0, KnownEvents DEF StopIdle
<1>4. CASE OrphanEnds(w)
  <2>1. broker' \in Seq(Jobs)
    <3>1. CASE UNCHANGED broker BY <3>1
    <3>2. CASE broker # <<>> /\ broker' = Tail(broker) BY <3>2, TailType
    <3>3. QED BY <1>4, <3>1, <3>2 DEF OrphanEnds
  <2>2. QED BY <1>4, <2>1 DEF OrphanEnds
<1>5. CASE LoopDies(w)
  <2>1. broker' \in Seq(Jobs)
    <3>1. CASE UNCHANGED broker BY <3>1
    <3>2. CASE broker # <<>> /\ broker' = Tail(broker) BY <3>2, TailType
    <3>3. QED BY <1>5, <3>1, <3>2 DEF LoopDies
  <2>2. left' \in [Events -> Nat] BY <1>5, <1>0, KnownEvents DEF LoopDies
  <2>3. QED BY <1>5, <2>1, <2>2 DEF LoopDies
<1>6. CASE \E j \in Jobs : StopRunning(w, j)
  <2>1. PICK j \in Jobs : StopRunning(w, j) BY <1>6
  <2>2. left' \in [Events -> Nat] BY <1>0, <2>1, KnownEvents DEF StopRunning
  <2>3. pc' \in [Procs -> PC] /\ task' \in [Procs -> Jobs \cup {NoJob}]
    BY <2>1 DEF StopRunning
  <2>4. datasets' \subseteq Jobs BY <2>1 DEF StopRunning
  <2>5. QED BY <2>1, <2>2, <2>3, <2>4 DEF StopRunning
<1>7. QED BY <1>1, <1>2, <1>3, <1>4, <1>5, <1>6

(* Rows, files, broker and processors always hold values of their kinds.     *)
THEOREM TypeCorrect == Spec => []TypeOK
<1>1. Init => TypeOK
  BY AsyncJobsAssumption DEF Init, TypeOK, UploadState, Status, PC, Procs
<1>2. TypeOK /\ [Next]_vars => TypeOK'
  <2> SUFFICES ASSUME TypeOK, [Next]_vars PROVE TypeOK'
    OBVIOUS
  <2>1. CASE \E j \in Jobs : Submission(j)
    BY <2>1, SubmissionType
  <2>2. CASE \E p \in Procs, j \in Jobs : Step(p, j) \/ Fault(p, j)
    BY <2>2, StepType
  <2>3. CASE \E w \in Workers :
               \/ Pop(w) \/ Start(w) \/ StopIdle(w) \/ OrphanEnds(w) \/ LoopDies(w)
               \/ \E j \in Jobs : StopRunning(w, j)
    BY <2>3, LifeType
  <2>4. CASE \E p \in Procs : Crash(p)
    <3>1. PICK p \in Procs : Crash(p)
      BY <2>4
    <3>2. left' \in [Events -> Nat]
      BY <3>1, SpendType, KnownEvents DEF Crash, TypeOK
    <3>3. pc' \in [Procs -> PC] /\ task' \in [Procs -> Jobs \cup {NoJob}]
      BY <3>1 DEF Crash, TypeOK, PC, Goto
    <3>4. QED
      BY <3>1, <3>2, <3>3 DEF Crash, TypeOK, rowVars
  <2>5. CASE UNCHANGED vars
    BY <2>5 DEF vars, TypeOK
  <2>6. QED
    BY <2>1, <2>2, <2>3, <2>4, <2>5 DEF Next
<1>3. QED
  BY <1>1, <1>2, PTL DEF Spec

-----------------------------------------------------------------------------
(* The report of a completed job *)

(* What a processor about to mark a row completed has saved.                 *)
Saved == \A p \in Procs : pc[p] = "saved" => <<task[p], run[p]>> \in reports

ReportInv == Saved /\ CompletedHasReport

(* The steps of a submission keep the invariant of the reports:             *)
LEMMA SubmissionReport ==
  ASSUME TypeOK, ReportInv, NEW j \in Jobs, Submission(j)
  PROVE  ReportInv'
<1> USE DEF TypeOK, ReportInv, Saved, CompletedHasReport, rowVars, procVars
<1>1. CASE Admit(j) \/ RejectFull(j) \/ RejectFiles(j) \/ Publish(j) \/ PublishRaises(j)
             \/ Disown(j) \/ AbortUpload(j)
  BY <1>1 DEF Admit, RejectFull, RejectFiles, Publish, PublishRaises, Disown, AbortUpload
<1>2. CASE CreateJob(j) BY <1>2 DEF CreateJob, InsertRow
<1>3. CASE CreateJobUnread(j) BY <1>3 DEF CreateJobUnread, InsertRow
<1>4. CASE MarkUnpublished(j) BY <1>4 DEF MarkUnpublished, SetFailed
<1>5. QED
  BY <1>1, <1>2, <1>3, <1>4 DEF Submission

(* so does a processor, which saves before it names a report,               *)
LEMMA StepReport ==
  ASSUME TypeOK, ReportInv, NEW p \in Procs, NEW j \in Jobs, Step(p, j) \/ Fault(p, j)
  PROVE  ReportInv'
<1> USE DEF TypeOK, ReportInv, Saved, CompletedHasReport, rowVars, Goto, At, Holds
<1>1. CASE ClaimNext(p, j) BY <1>1 DEF ClaimNext, TakeRow
<1>2. CASE ClaimPopped(p, j) BY <1>2 DEF ClaimPopped, TakeRow
<1>3. CASE DropPopped(p, j) BY <1>3 DEF DropPopped
<1>4. CASE Begin(p, j) BY <1>4 DEF Begin
<1>5. CASE Run(p, j) BY <1>5 DEF Run
<1>6. CASE Computed(p, j) BY <1>6 DEF Computed
<1>7. CASE SaveReport(p, j) BY <1>7 DEF SaveReport, Report
<1>8. CASE MarkCompleted(p, j) BY <1>8 DEF MarkCompleted, SetCompleted
<1>9. CASE MarkFailed(p, j) BY <1>9 DEF MarkFailed, SetFailed
<1>10. CASE Clean(p, j) BY <1>10 DEF Clean
<1>11. CASE WriteRaises(p, j) BY <1>11 DEF WriteRaises
<1>12. CASE ProgressUnread(p, j) BY <1>12 DEF ProgressUnread
<1>13. CASE CompletedUnread(p, j) BY <1>13 DEF CompletedUnread, SetCompleted
<1>14. CASE ClaimUnread(p, j) BY <1>14 DEF ClaimUnread
<1>15. CASE MarkFailedRaises(p, j) BY <1>15 DEF MarkFailedRaises, SetFailed
<1>16. QED
  BY <1>1, <1>2, <1>3, <1>4, <1>5, <1>6, <1>7, <1>8, <1>9, <1>10, <1>11, <1>12,
     <1>13, <1>14, <1>15 DEF Step, Fault

(* and so do the steps of its loop.                                         *)
LEMMA LifeReport ==
  ASSUME TypeOK, ReportInv, NEW w \in Workers,
         \/ Pop(w) \/ Start(w) \/ StopIdle(w) \/ OrphanEnds(w) \/ LoopDies(w)
         \/ \E j \in Jobs : StopRunning(w, j)
  PROVE  ReportInv'
<1> USE DEF TypeOK, ReportInv, Saved, CompletedHasReport, rowVars, Goto, Leave, Procs
<1>1. CASE Pop(w) BY <1>1 DEF Pop
<1>2. CASE Start(w) BY <1>2 DEF Start, RequeuedStatus
<1>3. CASE StopIdle(w) BY <1>3 DEF StopIdle
<1>4. CASE OrphanEnds(w) BY <1>4 DEF OrphanEnds
<1>5. CASE LoopDies(w) BY <1>5 DEF LoopDies
<1>6. CASE \E j \in Jobs : StopRunning(w, j) BY <1>6 DEF StopRunning
<1>7. QED BY <1>1, <1>2, <1>3, <1>4, <1>5, <1>6

(* In every deployment the report a completed row names has been saved.      *)
THEOREM CompletedReported == Spec => []CompletedHasReport
<1>1. Init => ReportInv
  BY DEF Init, ReportInv, Saved, CompletedHasReport
<1>2. TypeOK /\ ReportInv /\ [Next]_vars => ReportInv'
  <2> SUFFICES ASSUME TypeOK, ReportInv, [Next]_vars PROVE ReportInv'
    OBVIOUS
  <2>1. CASE \E j \in Jobs : Submission(j)
    BY <2>1, SubmissionReport
  <2>2. CASE \E p \in Procs, j \in Jobs : Step(p, j) \/ Fault(p, j)
    BY <2>2, StepReport
  <2>3. CASE \E w \in Workers :
               \/ Pop(w) \/ Start(w) \/ StopIdle(w) \/ OrphanEnds(w) \/ LoopDies(w)
               \/ \E j \in Jobs : StopRunning(w, j)
    BY <2>3, LifeReport
  <2>4. CASE \E p \in Procs : Crash(p)
    BY <2>4 DEF Crash, TypeOK, ReportInv, Saved, CompletedHasReport, rowVars, Goto
  <2>5. CASE UNCHANGED vars
    BY <2>5 DEF vars, ReportInv, Saved, CompletedHasReport
  <2>6. QED
    BY <2>1, <2>2, <2>3, <2>4, <2>5 DEF Next
<1>3. ReportInv => CompletedHasReport
  BY DEF ReportInv
<1>4. QED
  BY <1>1, <1>2, <1>3, TypeCorrect, PTL DEF Spec

-----------------------------------------------------------------------------
(* Jobs that ended stay ended *)

(* An upload without a row is unknown to rows, broker and processors. It is  *)
(* needed because the writes of _process_job do not look at what they        *)
(* overwrite, and the insertion of a row must find nothing to undo.          *)
Unknown(j) ==
  /\ status[j] = "none" /\ runs[j] = 0
  /\ \A p \in Procs : task[p] # j
  /\ \A i \in 1 .. Len(broker) : broker[i] # j

Fresh == \A j \in Jobs : upload[j] \in {"new", "receiving"} => Unknown(j)

(* What is on a list after an append.                                       *)
LEMMA AppendFacts ==
  ASSUME NEW S, NEW s \in Seq(S), NEW x \in S
  PROVE  /\ Len(Append(s, x)) = Len(s) + 1 /\ Len(s) \in Nat
         /\ \A i \in 1 .. Len(s) + 1 : Append(s, x)[i] = IF i <= Len(s) THEN s[i] ELSE x
OBVIOUS

(* What is on a list after a pop.                                           *)
LEMMA TailFacts ==
  ASSUME NEW S, NEW s \in Seq(S), s # <<>>
  PROVE  /\ Len(s) \in Nat /\ Len(s) > 0 /\ Len(Tail(s)) = Len(s) - 1
         /\ Head(s) = s[1]
         /\ \A i \in 1 .. Len(s) - 1 : Tail(s)[i] = s[i + 1]
OBVIOUS

(* An identifier is used from the moment its row is created.                *)
LEMMA SubmissionFresh ==
  ASSUME TypeOK, Fresh, NEW j \in Jobs, Submission(j)
  PROVE  Fresh'
<1> USE DEF TypeOK, Fresh, Unknown, rowVars, procVars
<1>1. CASE Admit(j) BY <1>1 DEF Admit
<1>2. CASE RejectFull(j) \/ RejectFiles(j) \/ Disown(j) \/ AbortUpload(j)
  <2>1. CASE RejectFull(j) \/ RejectFiles(j) BY <2>1 DEF RejectFull, RejectFiles
  <2>2. CASE Disown(j) BY <2>2 DEF Disown
  <2>3. CASE AbortUpload(j) BY <2>3 DEF AbortUpload
  <2>4. QED BY <1>2, <2>1, <2>2, <2>3
<1>3. CASE CreateJob(j) BY <1>3 DEF CreateJob, InsertRow, AfterCreate
<1>4. CASE CreateJobUnread(j) BY <1>4 DEF CreateJobUnread, InsertRow
<1>5. CASE Publish(j) BY <1>5, AppendFacts DEF Publish
<1>6. CASE PublishRaises(j)
  <2>1. CASE broker' = Append(broker, j) BY <1>6, <2>1, AppendFacts DEF PublishRaises
  <2>2. CASE broker' = broker BY <1>6, <2>2 DEF PublishRaises
  <2>3. QED BY <1>6, <2>1, <2>2 DEF PublishRaises
<1>7. CASE MarkUnpublished(j)
  <2>1. UNCHANGED <<runs, task, broker>>
    BY <1>7 DEF MarkUnpublished, SetFailed
  <2>2. \A k \in Jobs : upload'[k] \in {"new", "receiving"} =>
          k # j /\ upload[k] \in {"new", "receiving"}
    BY <1>7 DEF MarkUnpublished
  <2>3. \A k \in Jobs \ {j} : status'[k] = status[k]
    BY <1>7 DEF MarkUnpublished, SetFailed
  <2>4. QED
    BY <2>1, <2>2, <2>3
<1>8. QED
  BY <1>1, <1>2, <1>3, <1>4, <1>5, <1>6, <1>7 DEF Submission

(* Processors take identifiers from rows,                                   *)
LEMMA StepFresh ==
  ASSUME TypeOK, Fresh, NEW p \in Procs, NEW j \in Jobs, Step(p, j) \/ Fault(p, j)
  PROVE  Fresh'
<1> USE AsyncJobsAssumption DEF TypeOK, Fresh, Unknown, rowVars, Goto, At, Holds
<1>1. CASE ClaimNext(p, j) BY <1>1 DEF ClaimNext, TakeRow, Oldest, Queued
<1>2. CASE ClaimPopped(p, j) BY <1>2 DEF ClaimPopped, TakeRow
<1>3. CASE DropPopped(p, j) BY <1>3 DEF DropPopped
<1>4. CASE Begin(p, j) BY <1>4 DEF Begin
<1>5. CASE Run(p, j) BY <1>5 DEF Run
<1>6. CASE Computed(p, j) BY <1>6 DEF Computed
<1>7. CASE SaveReport(p, j) BY <1>7 DEF SaveReport, Report
<1>8. CASE MarkCompleted(p, j) BY <1>8 DEF MarkCompleted, SetCompleted
<1>9. CASE MarkFailed(p, j) BY <1>9 DEF MarkFailed, SetFailed
<1>10. CASE Clean(p, j) BY <1>10 DEF Clean
<1>11. CASE WriteRaises(p, j) BY <1>11 DEF WriteRaises
<1>12. CASE ProgressUnread(p, j) BY <1>12 DEF ProgressUnread
<1>13. CASE CompletedUnread(p, j) BY <1>13 DEF CompletedUnread, SetCompleted
<1>14. CASE ClaimUnread(p, j) BY <1>14 DEF ClaimUnread
<1>15. CASE MarkFailedRaises(p, j) BY <1>15 DEF MarkFailedRaises, SetFailed
<1>16. QED
  BY <1>1, <1>2, <1>3, <1>4, <1>5, <1>6, <1>7, <1>8, <1>9, <1>10, <1>11, <1>12,
     <1>13, <1>14, <1>15 DEF Step, Fault

(* and from the list of the broker.                                         *)
LEMMA LifeFresh ==
  ASSUME TypeOK, Fresh, NEW w \in Workers,
         \/ Pop(w) \/ Start(w) \/ StopIdle(w) \/ OrphanEnds(w) \/ LoopDies(w)
         \/ \E j \in Jobs : StopRunning(w, j)
  PROVE  Fresh'
<1> USE AsyncJobsAssumption DEF TypeOK, Fresh, Unknown, rowVars, Goto, Leave
<1>1. CASE Pop(w) BY <1>1, TailFacts DEF Pop
<1>2. CASE Start(w) BY <1>2 DEF Start, RequeuedStatus
<1>3. CASE StopIdle(w) BY <1>3 DEF StopIdle
<1>4. CASE OrphanEnds(w)
  <2>1. CASE broker' = broker BY <1>4, <2>1 DEF OrphanEnds
  <2>2. CASE broker # <<>> /\ broker' = Tail(broker)
    BY <1>4, <2>2, TailFacts DEF OrphanEnds
  <2>3. QED BY <1>4, <2>1, <2>2 DEF OrphanEnds
<1>5. CASE LoopDies(w)
  <2>1. CASE broker' = broker BY <1>5, <2>1 DEF LoopDies
  <2>2. CASE broker # <<>> /\ broker' = Tail(broker)
    BY <1>5, <2>2, TailFacts DEF LoopDies
  <2>3. QED BY <1>5, <2>1, <2>2 DEF LoopDies
<1>6. CASE \E j \in Jobs : StopRunning(w, j) BY <1>6 DEF StopRunning
<1>7. QED BY <1>1, <1>2, <1>3, <1>4, <1>5, <1>6

(* Nothing refers to a job before its submission has come to its row.       *)
LEMMA FreshCorrect == Spec => []Fresh
<1>1. Init => Fresh
  BY AsyncJobsAssumption DEF Init, Fresh, Unknown
<1>2. TypeOK /\ Fresh /\ [Next]_vars => Fresh'
  <2> SUFFICES ASSUME TypeOK, Fresh, [Next]_vars PROVE Fresh'
    OBVIOUS
  <2>1. CASE \E j \in Jobs : Submission(j)
    BY <2>1, SubmissionFresh
  <2>2. CASE \E p \in Procs, j \in Jobs : Step(p, j) \/ Fault(p, j)
    BY <2>2, StepFresh
  <2>3. CASE \E w \in Workers :
               \/ Pop(w) \/ Start(w) \/ StopIdle(w) \/ OrphanEnds(w) \/ LoopDies(w)
               \/ \E j \in Jobs : StopRunning(w, j)
    BY <2>3, LifeFresh
  <2>4. CASE \E p \in Procs : Crash(p)
    BY <2>4, AsyncJobsAssumption DEF Crash, TypeOK, Fresh, Unknown, rowVars, Goto
  <2>5. CASE UNCHANGED vars
    BY <2>5 DEF vars, Fresh, Unknown
  <2>6. QED
    BY <2>1, <2>2, <2>3, <2>4, <2>5 DEF Next
<1>3. QED
  BY <1>1, <1>2, TypeCorrect, PTL DEF Spec

StaysEnded == \A k \in Jobs : status[k] \in Terminal => status'[k] \in Terminal

(* The only row a submission writes is a new one.                           *)
LEMMA SubmissionStaysEnded ==
  ASSUME TypeOK, Fresh, NEW j \in Jobs, Submission(j)
  PROVE  StaysEnded
<1> USE DEF TypeOK, Fresh, Unknown, StaysEnded, Terminal, rowVars, procVars
<1>1. CASE Admit(j) \/ RejectFull(j) \/ RejectFiles(j) \/ Publish(j) \/ PublishRaises(j)
             \/ Disown(j) \/ AbortUpload(j)
  BY <1>1 DEF Admit, RejectFull, RejectFiles, Publish, PublishRaises, Disown, AbortUpload
<1>2. CASE CreateJob(j) BY <1>2 DEF CreateJob, InsertRow
<1>3. CASE CreateJobUnread(j) BY <1>3 DEF CreateJobUnread, InsertRow
<1>4. CASE MarkUnpublished(j) BY <1>4 DEF MarkUnpublished, SetFailed
<1>5. QED
  BY <1>1, <1>2, <1>3, <1>4 DEF Submission

(* No write of a processor queues a row or marks it processing that ended.  *)
LEMMA StepStaysEnded ==
  ASSUME TypeOK, NEW p \in Procs, NEW j \in Jobs, Step(p, j) \/ Fault(p, j)
  PROVE  StaysEnded
<1> USE DEF TypeOK, StaysEnded, Terminal, rowVars
<1>1. CASE ClaimNext(p, j) BY <1>1 DEF ClaimNext, TakeRow, Oldest, Queued
<1>2. CASE ClaimPopped(p, j) BY <1>2 DEF ClaimPopped, TakeRow
<1>3. CASE DropPopped(p, j) BY <1>3 DEF DropPopped
<1>4. CASE Begin(p, j) BY <1>4 DEF Begin
<1>5. CASE Run(p, j) BY <1>5 DEF Run
<1>6. CASE Computed(p, j) BY <1>6 DEF Computed
<1>7. CASE SaveReport(p, j) BY <1>7 DEF SaveReport, Report
<1>8. CASE MarkCompleted(p, j) BY <1>8 DEF MarkCompleted, SetCompleted
<1>9. CASE MarkFailed(p, j) BY <1>9 DEF MarkFailed, SetFailed
<1>10. CASE Clean(p, j) BY <1>10 DEF Clean
<1>11. CASE WriteRaises(p, j) BY <1>11 DEF WriteRaises
<1>12. CASE ProgressUnread(p, j) BY <1>12 DEF ProgressUnread
<1>13. CASE CompletedUnread(p, j) BY <1>13 DEF CompletedUnread, SetCompleted
<1>14. CASE ClaimUnread(p, j) BY <1>14 DEF ClaimUnread
<1>15. CASE MarkFailedRaises(p, j) BY <1>15 DEF MarkFailedRaises, SetFailed
<1>16. QED
  BY <1>1, <1>2, <1>3, <1>4, <1>5, <1>6, <1>7, <1>8, <1>9, <1>10, <1>11, <1>12,
     <1>13, <1>14, <1>15 DEF Step, Fault

(* In every deployment a job that ended is never queued or processed again.  *)
THEOREM EndedForGood == Spec => NeverReactivated
<1>1. TypeOK /\ Fresh /\ [Next]_vars => [StaysEnded]_vars
  <2> SUFFICES ASSUME TypeOK, Fresh, Next PROVE StaysEnded
    OBVIOUS
  <2>1. CASE \E j \in Jobs : Submission(j)
    BY <2>1, SubmissionStaysEnded
  <2>2. CASE \E p \in Procs, j \in Jobs : Step(p, j) \/ Fault(p, j)
    BY <2>2, StepStaysEnded
  <2>3. CASE \E w \in Workers :
               \/ Pop(w) \/ Start(w) \/ StopIdle(w) \/ OrphanEnds(w) \/ LoopDies(w)
               \/ \E j \in Jobs : StopRunning(w, j)
    BY <2>3 DEF TypeOK, StaysEnded, Terminal, rowVars, Pop, Start, RequeuedStatus, StopIdle,
                OrphanEnds, LoopDies, StopRunning
  <2>4. CASE \E p \in Procs : Crash(p)
    BY <2>4 DEF Crash, StaysEnded, rowVars
  <2>5. QED
    BY <2>1, <2>2, <2>3, <2>4 DEF Next
<1>2. TypeOK /\ Fresh /\ [Next]_vars
        => [\A j \in Jobs : status[j] \in Terminal => status'[j] \in Terminal]_vars
  BY <1>1 DEF StaysEnded
<1>3. QED
  BY <1>2, TypeCorrect, FreshCorrect, PTL DEF Spec, NeverReactivated

-----------------------------------------------------------------------------
(* How often a job runs *)

(* A queued job has one run ahead of it, which the number of starts pays     *)
(* for; a processor at work on a job works on one of the runs counted.       *)
Ahead(j) == IF status[j] = "queued" THEN 1 ELSE 0

RunInv ==
  /\ left["start"] <= Budget["start"]
  /\ \A j \in Jobs : runs[j] + Ahead(j) <= 1 + Started
  /\ \A p \in Procs : AtWork(p) => task[p] \in Jobs /\ run[p] \in 1 .. runs[task[p]]
  /\ \A r \in reports : r[2] \in 1 .. runs[r[1]]

(* What RunInv looks at: the steps that leave it alone keep it.              *)
LEMMA RunFrame ==
  ASSUME RunInv, UNCHANGED <<status, runs, reports, run>>, UNCHANGED left["start"],
         \A p \in Procs : AtWork(p)' => AtWork(p) /\ task'[p] = task[p]
  PROVE  RunInv'
BY DEF RunInv, Ahead, Started

(* What spending does to the starts that are left.                          *)
LEMMA SpendOther ==
  ASSUME TypeOK, NEW e \in Events, Spend(e)
  PROVE  /\ e # "start" => left'["start"] = left["start"]
         /\ e = "start" => left'["start"] = left["start"] - 1
BY KnownEvents DEF TypeOK, Spend, Events

(* The starts that were made are counted by a natural number.               *)
LEMMA NaturalStarts ==
  ASSUME TypeOK, RunInv
  PROVE  /\ Budget["start"] \in Nat /\ left["start"] \in Nat
         /\ Started \in Nat
BY AsyncJobsAssumption, KnownEvents DEF TypeOK, RunInv, Started

(* Neither does a step that takes no run, puts nothing ahead of a job, and   *)
(* leaves each processor that is at work at work on the same run, or done.   *)
LEMMA QuietRun ==
  ASSUME TypeOK, RunInv, UNCHANGED <<runs, reports, run>>, left'["start"] = left["start"],
         \A k \in Jobs : Ahead(k)' <= Ahead(k),
         \A p \in Procs : AtWork(p)' => AtWork(p) /\ task'[p] = task[p]
  PROVE  RunInv'
<1>1. \A k \in Jobs : runs[k] \in Nat /\ Ahead(k) \in Nat /\ Ahead(k)' \in Nat
  BY DEF TypeOK, Ahead
<1>2. Started' = Started /\ Started \in Nat
  BY NaturalStarts DEF Started
<1>3. \A k \in Jobs : runs'[k] + Ahead(k)' <= 1 + Started'
  BY <1>1, <1>2 DEF RunInv
<1>4. QED
  BY <1>3 DEF RunInv

(* A submission puts one run ahead of its job;                              *)
LEMMA SubmissionRun ==
  ASSUME TypeOK, Fresh, RunInv, NEW j \in Jobs, Submission(j)
  PROVE  RunInv'
<1> USE DEF rowVars, procVars
<1>1. CASE Admit(j) \/ RejectFull(j) \/ RejectFiles(j) \/ Publish(j)
  BY <1>1, RunFrame DEF Admit, RejectFull, RejectFiles, Publish, AtWork
<1>2. CASE PublishRaises(j) \/ Disown(j) \/ AbortUpload(j)
  BY <1>2, RunFrame, SpendOther, KnownEvents DEF PublishRaises, Disown, AbortUpload, AtWork
<1>3. ASSUME InsertRow(j), upload[j] = "receiving", left'["start"] = left["start"],
             UNCHANGED <<procVars, reports, runs>>
      PROVE  RunInv'
  <2>1. runs[j] = 0 /\ Started \in Nat /\ Started' = Started
    BY <1>3, NaturalStarts DEF Fresh, Unknown, Started
  <2>2. status \in [Jobs -> Status] /\ status' = [status EXCEPT ![j] = "queued"]
    BY <1>3 DEF TypeOK, InsertRow
  <2>3. ASSUME NEW k \in Jobs PROVE runs'[k] + Ahead(k)' <= 1 + Started'
    <3>1. CASE k = j
      BY <1>3, <2>1, <2>2, <3>1 DEF Ahead
    <3>2. CASE k # j
      <4>1. Ahead(k)' = Ahead(k) /\ runs'[k] = runs[k]
        BY <1>3, <2>2, <3>2 DEF Ahead
      <4>2. QED
        BY <2>1, <4>1 DEF RunInv
    <3>3. QED
      BY <3>1, <3>2
  <2>4. QED
    BY <1>3, <2>3 DEF RunInv, AtWork
<1>4. CASE CreateJob(j) BY <1>4, <1>3 DEF CreateJob
<1>5. CASE CreateJobUnread(j) BY <1>5, <1>3, SpendOther, KnownEvents DEF CreateJobUnread
<1>6. CASE MarkUnpublished(j)
  <2>1. left'["start"] = left["start"]
    BY <1>6, SpendOther, KnownEvents DEF MarkUnpublished
  <2>2. status' = status \/ status' = [status EXCEPT ![j] = "failed"]
    BY <1>6 DEF MarkUnpublished, SetFailed
  <2>3. UNCHANGED <<procVars, reports, runs>>
    BY <1>6 DEF MarkUnpublished, SetFailed
  <2>4. \A k \in Jobs : Ahead(k)' <= Ahead(k)
    BY <2>2 DEF TypeOK, Ahead
  <2>5. UNCHANGED <<runs, reports, run>>
    BY <2>3 DEF procVars
  <2>6. \A p \in Procs : AtWork(p)' => AtWork(p) /\ task'[p] = task[p]
    BY <2>3 DEF procVars, AtWork
  <2>7. QED
    BY <2>1, <2>4, <2>5, <2>6, QuietRun
<1>7. QED
  BY <1>1, <1>2, <1>4, <1>5, <1>6 DEF Submission

(* A claim uses up the run that was ahead of the job.                        *)
LEMMA TakeRowRun ==
  ASSUME TypeOK, RunInv, NEW p \in Procs, NEW j \in Jobs,
         status[j] = "queued", TakeRow(p, j), Goto(p, "claimed"),
         UNCHANGED <<reports, left>>
  PROVE  RunInv'
<1>1. runs' = [runs EXCEPT ![j] = runs[j] + 1] /\ runs[j] \in Nat
  BY DEF TakeRow, TypeOK
<1>2. \A k \in Jobs : runs'[k] + Ahead(k)' <= 1 + Started'
  <2>1. runs \in [Jobs -> Nat] /\ status \in [Jobs -> Status]
    BY DEF TypeOK
  <2>2. status' = [status EXCEPT ![j] = "processing"] /\ Started' = Started
    BY DEF TakeRow, Started
  <2>3. ASSUME NEW k \in Jobs PROVE runs'[k] + Ahead(k)' = runs[k] + Ahead(k)
    <3>1. CASE k = j
      BY <1>1, <2>1, <2>2, <3>1 DEF Ahead
    <3>2. CASE k # j
      BY <1>1, <2>1, <2>2, <3>2 DEF Ahead
    <3>3. QED
      BY <3>1, <3>2
  <2>4. QED
    BY <2>2, <2>3 DEF RunInv
<1>3. \A k \in Jobs : runs[k] \in Nat /\ runs'[k] \in Nat /\ runs'[k] >= runs[k]
  BY <1>1 DEF TypeOK
<1>4. \A q \in Procs :
        AtWork(q)' => task'[q] \in Jobs /\ run'[q] \in 1 .. runs'[task'[q]]
  <2> SUFFICES ASSUME NEW q \in Procs, AtWork(q)'
               PROVE  task'[q] \in Jobs /\ run'[q] \in 1 .. runs'[task'[q]]
    OBVIOUS
  <2>1. CASE q = p
    BY <2>1, <1>1 DEF TakeRow, TypeOK
  <2>2. CASE q # p
    <3>1. AtWork(q) /\ task'[q] = task[q] /\ run'[q] = run[q]
      BY <2>2 DEF TakeRow, TypeOK, Goto, AtWork
    <3>2. task[q] \in Jobs /\ run[q] \in 1 .. runs[task[q]]
      BY <3>1 DEF RunInv
    <3>3. QED
      BY <3>1, <3>2, <1>3
  <2>3. QED
    BY <2>1, <2>2
<1>5. \A r \in reports' : r[2] \in 1 .. runs'[r[1]]
  <2> SUFFICES ASSUME NEW r \in reports PROVE r[2] \in 1 .. runs'[r[1]]
    OBVIOUS
  <2>1. r[1] \in Jobs /\ r[2] \in 1 .. runs[r[1]]
    BY DEF TypeOK, RunInv
  <2>2. QED
    BY <2>1, <1>3
<1>6. QED
  BY <1>2, <1>4, <1>5 DEF RunInv

(* a processor makes it, and reports on no other;                           *)
LEMMA StepRun ==
  ASSUME TypeOK, RunInv, NEW p \in Procs, NEW j \in Jobs, Step(p, j) \/ Fault(p, j)
  PROVE  RunInv'
<1>1. CASE ClaimNext(p, j)
  BY <1>1, TakeRowRun DEF ClaimNext, Oldest, Queued
<1>2. CASE ClaimPopped(p, j)
  BY <1>2, TakeRowRun DEF ClaimPopped
<1>3. CASE DropPopped(p, j) \/ Begin(p, j) \/ Run(p, j) \/ Computed(p, j) \/ Clean(p, j)
  <2>1. UNCHANGED <<status, runs, reports, run, left>>
    BY <1>3 DEF DropPopped, Begin, Run, Computed, Clean, rowVars
  <2>2. \A q \in Procs : AtWork(q)' => AtWork(q) /\ task'[q] = task[q]
    BY <1>3 DEF DropPopped, Begin, Run, Computed, Clean, Goto, At, Holds, AtWork, TypeOK
  <2>3. QED
    BY <2>1, <2>2, RunFrame
<1>4. CASE SaveReport(p, j)
  <2>1. UNCHANGED <<status, runs, run, task, left>>
    BY <1>4 DEF SaveReport, rowVars
  <2>2. \A q \in Procs : AtWork(q)' => AtWork(q)
    BY <1>4 DEF SaveReport, Goto, At, AtWork, TypeOK
  <2>3. \A r \in reports' : r[2] \in 1 .. runs[r[1]]
    BY <1>4 DEF SaveReport, Report, At, Holds, AtWork, RunInv
  <2>4. \A k \in Jobs : runs'[k] + Ahead(k)' <= 1 + Started'
    BY <2>1 DEF RunInv, Ahead, Started
  <2>5. QED
    BY <2>1, <2>2, <2>3, <2>4 DEF RunInv
<1>5. CASE MarkCompleted(p, j) \/ MarkFailed(p, j)
  <2>1. UNCHANGED <<runs, reports, run, left>>
    BY <1>5 DEF MarkCompleted, MarkFailed, SetCompleted, SetFailed
  <2>2. \A k \in Jobs : Ahead(k)' <= Ahead(k)
    BY <1>5 DEF MarkCompleted, MarkFailed, SetCompleted, SetFailed, Ahead, TypeOK
  <2>3. \A q \in Procs : AtWork(q)' => AtWork(q) /\ task'[q] = task[q]
    BY <1>5 DEF MarkCompleted, MarkFailed, Goto, At, AtWork, TypeOK
  <2>4. QED
    BY <2>1, <2>2, <2>3, QuietRun
<1>6. CASE Fault(p, j)
  <2>1. left'["start"] = left["start"]
    BY <1>6, SpendOther, KnownEvents
       DEF Fault, WriteRaises, ProgressUnread, CompletedUnread, ClaimUnread, MarkFailedRaises
  <2>2. \A k \in Jobs : Ahead(k)' <= Ahead(k)
    BY <1>6
       DEF Fault, WriteRaises, ProgressUnread, CompletedUnread, ClaimUnread, MarkFailedRaises,
           SetCompleted, SetFailed, rowVars, TypeOK, Ahead
  <2>3. UNCHANGED <<runs, run, reports>>
    BY <1>6
       DEF Fault, WriteRaises, ProgressUnread, CompletedUnread, ClaimUnread, MarkFailedRaises,
           SetCompleted, SetFailed, rowVars
  <2>4. \A q \in Procs : AtWork(q)' => AtWork(q) /\ task'[q] = task[q]
    BY <1>6
       DEF Fault, WriteRaises, ProgressUnread, CompletedUnread, ClaimUnread, MarkFailedRaises,
           Goto, At, Holds, AtWork, TypeOK
  <2>5. QED
    BY <2>1, <2>2, <2>3, <2>4, QuietRun
<1>7. QED
  BY <1>1, <1>2, <1>3, <1>4, <1>5, <1>6 DEF Step

(* a start pays for the runs it puts ahead of the jobs it gives back.       *)
LEMMA StartRun ==
  ASSUME TypeOK, RunInv, NEW w \in Workers, Start(w)
  PROVE  RunInv'
<1>1. left'["start"] = left["start"] - 1
  BY SpendOther, KnownEvents DEF Start
<1>2. \A j \in Jobs : runs'[j] + Ahead(j)' <= 1 + Started'
  <2>1. \A j \in Jobs : runs[j] \in Nat /\ Ahead(j) \in Nat /\ Ahead(j)' \in 0 .. 1
    BY DEF TypeOK, Ahead
  <2>2. Started' = Started + 1 /\ Started \in Nat
    BY <1>1, NaturalStarts DEF Started
  <2>3. \A j \in Jobs : runs'[j] = runs[j] /\ runs[j] <= 1 + Started
    BY <2>1, <2>2 DEF Start, RunInv
  <2>4. QED
    BY <2>1, <2>2, <2>3
<1>3. \A p \in Procs : AtWork(p)' => AtWork(p) /\ UNCHANGED <<task, run, runs>>
  BY DEF Start, Goto, AtWork, TypeOK, Procs
<1>4. UNCHANGED <<reports, runs>>
  BY DEF Start
<1>5. QED
  BY <1>1, <1>2, <1>3, <1>4, NaturalStarts DEF RunInv

(* In every deployment a job is claimed at most once more than workers were  *)
(* started, and no report is saved but by one of these runs.                 *)
THEOREM RunsBounded == Spec => []RunBound
<1>1. Init => RunInv
  BY AsyncJobsAssumption, KnownEvents DEF Init, RunInv, Ahead, Started, AtWork
<1>2. TypeOK /\ Fresh /\ RunInv /\ [Next]_vars => RunInv'
  <2> SUFFICES ASSUME TypeOK, Fresh, RunInv, [Next]_vars PROVE RunInv'
    OBVIOUS
  <2>1. CASE \E j \in Jobs : Submission(j)
    BY <2>1, SubmissionRun
  <2>2. CASE \E p \in Procs, j \in Jobs : Step(p, j) \/ Fault(p, j)
    BY <2>2, StepRun
  <2>3. ASSUME NEW w \in Workers, Start(w) PROVE RunInv'
    BY <2>3, StartRun
  <2>4. ASSUME NEW w \in Workers,
               \/ Pop(w) \/ StopIdle(w) \/ OrphanEnds(w) \/ LoopDies(w)
               \/ \E j \in Jobs : StopRunning(w, j)
        PROVE  RunInv'
    <3>1. left'["start"] = left["start"]
      BY <2>4, SpendOther, KnownEvents DEF Pop, StopIdle, OrphanEnds, LoopDies, StopRunning
    <3>2. UNCHANGED <<status, runs, reports, run>>
      BY <2>4 DEF Pop, StopIdle, OrphanEnds, LoopDies, StopRunning, rowVars
    <3>3. \A p \in Procs : AtWork(p)' => AtWork(p) /\ task'[p] = task[p]
      BY <2>4 DEF Pop, StopIdle, OrphanEnds, LoopDies, StopRunning, Leave, Goto, AtWork,
               TypeOK, Procs
    <3>4. QED
      BY <3>1, <3>2, <3>3, RunFrame
  <2>5. ASSUME NEW p \in Procs, Crash(p) PROVE RunInv'
    <3>1. left'["start"] = left["start"]
      BY <2>5, SpendOther, KnownEvents DEF Crash
    <3>2. \A q \in Procs : AtWork(q)' => AtWork(q) /\ task'[q] = task[q]
      BY <2>5 DEF Crash, Goto, AtWork, TypeOK
    <3>3. QED
      BY <2>5, <3>1, <3>2, RunFrame DEF Crash, rowVars
  <2>6. CASE UNCHANGED vars
    BY <2>6, RunFrame DEF vars, AtWork
  <2>7. QED
    BY <2>1, <2>2, <2>3, <2>4, <2>5, <2>6 DEF Next
<1>3. TypeOK /\ RunInv => RunBound
  <2> SUFFICES ASSUME TypeOK, RunInv PROVE RunBound
    OBVIOUS
  <2>1. \A j \in Jobs : runs[j] \in Nat /\ Ahead(j) \in Nat
    BY DEF TypeOK, Ahead
  <2>2. \A j \in Jobs : runs[j] <= 1 + Started
    BY <2>1, NaturalStarts DEF RunInv
  <2>3. QED
    BY <2>2 DEF RunInv, RunBound
<1>4. QED
  BY <1>1, <1>2, <1>3, TypeCorrect, FreshCorrect, PTL DEF Spec
-----------------------------------------------------------------------------
(* How many uploads of a tenant are outstanding *)

(* Uploads that count against the limit, or will once their files are        *)
(* received.                                                                 *)
Counted(t) == (Outstanding(t) \ Dispatched) \cup UploadsAt(t, "receiving")

(* Every upload counted was counted when it was admitted, by a guard that    *)
(* looks at the two parts one after the other, and at the jobs of schedules  *)
(* besides. An upload passes from one part to the other when its row is      *)
(* inserted, so it is their union that is bounded; the union is finite       *)
(* although nothing says that there are finitely many uploads.               *)
Admitted ==
  \A t \in Tenants :
    IsFiniteSet(Counted(t)) /\ Cardinality(Counted(t)) <= QueueLimit - 1 + MaxUploads

Live(k) ==
  k \notin Dispatched /\ (status[k] \in {"queued", "processing"} \/ upload[k] = "receiving")

(* Counted is the set of live uploads, before a step and after it.          *)
LEMMA CountedIsLive ==
  ASSUME NEW t \in Tenants
  PROVE  /\ Counted(t) = {k \in Jobs : TenantOf[k] = t /\ Live(k)}
         /\ Counted(t)' = {k \in Jobs : TenantOf[k] = t /\ Live(k)'}
BY DEF Counted, Outstanding, UploadsAt, Live

(* A step that counts no further job keeps the bound.                        *)
LEMMA CountShrinks ==
  ASSUME Admitted, \A k \in Jobs : Live(k)' => Live(k)
  PROVE  Admitted'
<1> SUFFICES ASSUME NEW t \in Tenants
             PROVE  /\ IsFiniteSet(Counted(t)')
                    /\ Cardinality(Counted(t)') <= QueueLimit - 1 + MaxUploads
  BY DEF Admitted
<1>1. Counted(t)' \subseteq Counted(t)
  BY CountedIsLive
<1>2. IsFiniteSet(Counted(t)) /\ Cardinality(Counted(t)) <= QueueLimit - 1 + MaxUploads
  BY DEF Admitted
<1>3. /\ IsFiniteSet(Counted(t)') /\ Cardinality(Counted(t)') <= Cardinality(Counted(t))
      /\ Cardinality(Counted(t)) \in Nat /\ Cardinality(Counted(t)') \in Nat
  BY <1>1, <1>2, FS_Subset, FS_CardinalityType
<1>4. QED
  BY <1>2, <1>3, AsyncJobsAssumption

(* Admission itself: the guards bound the two parts before the step.         *)
LEMMA AdmitCounts ==
  ASSUME TypeOK, Admitted, NEW j \in Jobs \ Dispatched, Admit(j)
  PROVE  Admitted'
<1> SUFFICES ASSUME NEW t \in Tenants
             PROVE  /\ IsFiniteSet(Counted(t)')
                    /\ Cardinality(Counted(t)') <= QueueLimit - 1 + MaxUploads
  BY DEF Admitted
<1>1. IsFiniteSet(Counted(t)) /\ Cardinality(Counted(t)) <= QueueLimit - 1 + MaxUploads
  BY DEF Admitted
<1>2. CASE t # TenantOf[j]
  <2>1. Counted(t)' = Counted(t)
    BY <1>2 DEF Counted, Outstanding, UploadsAt, Admit, rowVars, TypeOK
  <2>2. QED
    BY <1>1, <2>1
<1>3. CASE t = TenantOf[j]
  <2> DEFINE Out == Outstanding(t) \ Dispatched
             Recv == UploadsAt(t, "receiving")
  <2>1. Counted(t)' = Out \cup (Recv \cup {j})
    BY <1>3 DEF Counted, Outstanding, UploadsAt, Admit, rowVars, TypeOK
  <2>2. Out \subseteq Counted(t) /\ Recv \subseteq Counted(t)
    BY DEF Counted
  <2>3. IsFiniteSet(Out) /\ IsFiniteSet(Recv)
    BY <1>1, <2>2, FS_Subset
  <2>4. Cardinality(Out) < QueueLimit /\ Cardinality(Recv) < MaxUploads
    <3> DEFINE Made == Outstanding(t) \cap Dispatched
    <3>1. IsFiniteSet(Made)
      BY FS_Subset, Made \subseteq Dispatched, AsyncJobsAssumption
    <3>2. IsFiniteSet(Out \cup Made)
      BY <2>3, <3>1, FS_Union
    <3>3. Out \cup Made = Outstanding(t) /\ Out \subseteq Outstanding(t)
      OBVIOUS
    <3>4. IsFiniteSet(Outstanding(t))
      BY <3>2, <3>3
    <3> HIDE DEF Out
    <3>5. Cardinality(Out) <= Cardinality(Outstanding(t))
      BY <3>3, <3>4, FS_Subset
    <3>6. Cardinality(Out) \in Nat /\ Cardinality(Outstanding(t)) \in Nat
      BY <2>3, <3>4, FS_CardinalityType
    <3>7. Cardinality(Outstanding(t)) < QueueLimit /\ Cardinality(Recv) < MaxUploads
      BY <1>3 DEF Admit, QueueHasRoom
    <3>8. QED
      BY <3>5, <3>6, <3>7, AsyncJobsAssumption
  <2>5. j \notin Recv
    BY DEF Admit, UploadsAt
  <2>6. IsFiniteSet(Recv \cup {j}) /\ Cardinality(Recv \cup {j}) = Cardinality(Recv) + 1
    BY <2>3, <2>5, FS_AddElement
  <2>7. /\ IsFiniteSet(Out \cup (Recv \cup {j})) /\ IsFiniteSet(Out \cap (Recv \cup {j}))
        /\ Cardinality(Out \cup (Recv \cup {j}))
             = Cardinality(Out) + Cardinality(Recv \cup {j})
                 - Cardinality(Out \cap (Recv \cup {j}))
    BY <2>3, <2>6, FS_Union, FS_Intersection
  <2>8. /\ Cardinality(Out) \in Nat /\ Cardinality(Recv) \in Nat
        /\ Cardinality(Out \cap (Recv \cup {j})) \in Nat
    BY <2>3, <2>7, FS_CardinalityType
  <2> HIDE DEF Out, Recv
  <2>9. QED
    BY <2>1, <2>4, <2>6, <2>7, <2>8, AsyncJobsAssumption
<1>4. QED
  BY <1>2, <1>3

(* A submission adds its upload to the live ones with its admission.        *)
LEMMA SubmissionCounts ==
  ASSUME TypeOK, Admitted, NEW j \in Jobs, Submission(j)
  PROVE  Admitted'
<1> USE DEF TypeOK, Live, rowVars
<1>1. CASE Admit(j)
  <2>1. CASE j \notin Dispatched
    BY <1>1, <2>1, AdmitCounts
  <2>2. CASE j \in Dispatched
    BY <1>1, <2>2, CountShrinks DEF Admit
  <2>3. QED
    BY <2>1, <2>2
<1>2. CASE \/ RejectFull(j) \/ RejectFiles(j) \/ Publish(j) \/ PublishRaises(j) \/ Disown(j)
           \/ AbortUpload(j)
  BY <1>2, CountShrinks DEF RejectFull, RejectFiles, Publish, PublishRaises, Disown, AbortUpload
<1>3. CASE CreateJob(j) \/ CreateJobUnread(j)
  BY <1>3, CountShrinks DEF CreateJob, CreateJobUnread, InsertRow, AfterCreate
<1>4. CASE MarkUnpublished(j)
  BY <1>4, CountShrinks DEF MarkUnpublished, SetFailed
<1>5. QED
  BY <1>1, <1>2, <1>3, <1>4 DEF Submission

(* A processor adds no live upload.                                         *)
LEMMA StepCounts ==
  ASSUME TypeOK, Admitted, NEW p \in Procs, NEW j \in Jobs, Step(p, j) \/ Fault(p, j)
  PROVE  Admitted'
<1> USE DEF TypeOK, Live, rowVars
<1>1. CASE ClaimNext(p, j) \/ ClaimPopped(p, j)
  BY <1>1, CountShrinks DEF ClaimNext, ClaimPopped, TakeRow, Oldest, Queued
<1>2. CASE DropPopped(p, j) \/ Begin(p, j) \/ Run(p, j) \/ Computed(p, j) \/ SaveReport(p, j)
             \/ Clean(p, j)
  BY <1>2, CountShrinks DEF DropPopped, Begin, Run, Computed, SaveReport, Clean
<1>3. CASE MarkCompleted(p, j) \/ MarkFailed(p, j)
  BY <1>3, CountShrinks DEF MarkCompleted, MarkFailed, SetCompleted, SetFailed
<1>4. CASE Fault(p, j)
  BY <1>4, CountShrinks
     DEF Fault, WriteRaises, ProgressUnread, CompletedUnread, ClaimUnread, MarkFailedRaises,
         SetCompleted, SetFailed
<1>5. QED
  BY <1>1, <1>2, <1>3, <1>4 DEF Step

(* In every deployment, with schedules or without, a tenant's outstanding    *)
(* uploads pass the queue limit by no more than those it was having received *)
(* at once, less one; nothing bounds the jobs of its schedules.              *)
THEOREM AdmissionBounded == Spec => []AdmissionBound
<1>1. Init => Admitted
  <2> SUFFICES ASSUME Init, NEW t \in Tenants
               PROVE  /\ IsFiniteSet(Counted(t))
                      /\ Cardinality(Counted(t)) <= QueueLimit - 1 + MaxUploads
    BY DEF Admitted
  <2>1. Counted(t) = {}
    BY DEF Counted, Outstanding, UploadsAt, Init
  <2>2. QED
    BY <2>1, FS_EmptySet, AsyncJobsAssumption
<1>2. TypeOK /\ Admitted /\ [Next]_vars => Admitted'
  <2> SUFFICES ASSUME TypeOK, Admitted, [Next]_vars PROVE Admitted'
    OBVIOUS
  <2>1. CASE \E j \in Jobs : Submission(j)
    BY <2>1, SubmissionCounts
  <2>2. CASE \E p \in Procs, j \in Jobs : Step(p, j) \/ Fault(p, j)
    BY <2>2, StepCounts
  <2>3. CASE \E w \in Workers :
               \/ Pop(w) \/ Start(w) \/ StopIdle(w) \/ OrphanEnds(w) \/ LoopDies(w)
               \/ \E j \in Jobs : StopRunning(w, j)
    BY <2>3, CountShrinks
       DEF Live, rowVars, TypeOK, Pop, Start, RequeuedStatus, StopIdle, OrphanEnds, LoopDies,
           StopRunning
  <2>4. CASE \E p \in Procs : Crash(p)
    BY <2>4, CountShrinks DEF Crash, Live, rowVars
  <2>5. CASE UNCHANGED vars
    BY <2>5, CountShrinks DEF vars, Live
  <2>6. QED
    BY <2>1, <2>2, <2>3, <2>4, <2>5 DEF Next
<1>3. TypeOK /\ Fresh /\ Admitted => AdmissionBound
  <2> SUFFICES ASSUME TypeOK, Fresh, Admitted, NEW t \in Tenants
               PROVE  Cardinality(Outstanding(t) \ Dispatched)
                        + Cardinality(UploadsAt(t, "receiving"))
                        <= QueueLimit - 1 + MaxUploads
    BY DEF AdmissionBound
  <2> DEFINE Out == Outstanding(t) \ Dispatched
             Recv == UploadsAt(t, "receiving")
  <2>1. IsFiniteSet(Out \cup Recv) /\ Cardinality(Out \cup Recv) <= QueueLimit - 1 + MaxUploads
    BY DEF Admitted, Counted
  <2>2. IsFiniteSet(Out) /\ IsFiniteSet(Recv)
    BY <2>1, FS_Subset, Out \subseteq Out \cup Recv, Recv \subseteq Out \cup Recv
  <2>3. Out \cap Recv = {}
    BY DEF Fresh, Unknown, Outstanding, UploadsAt
  <2> HIDE DEF Out, Recv
  <2>4. Cardinality(Out \cup Recv) = Cardinality(Out) + Cardinality(Recv) - Cardinality({})
    BY <2>2, <2>3, FS_Union
  <2>5. Cardinality({}) = 0 /\ Cardinality(Out) \in Nat /\ Cardinality(Recv) \in Nat
    BY <2>2, FS_EmptySet, FS_CardinalityType
  <2>6. Cardinality(Out) + Cardinality(Recv) <= QueueLimit - 1 + MaxUploads
    BY <2>1, <2>4, <2>5
  <2>7. QED
    BY <2>6 DEF Out, Recv
<1>4. QED
  BY <1>1, <1>2, <1>3, TypeCorrect, FreshCorrect, PTL DEF Spec
=============================================================================

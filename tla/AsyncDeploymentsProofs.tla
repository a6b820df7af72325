----------------------- MODULE AsyncDeploymentsProofs -----------------------
(* Proofs of the properties of AsyncJobs that some ways of deploying the     *)
(* service have and others lack, for every set of jobs, tenants and          *)
(* processors a deployment of that kind may have.                            *)
EXTENDS AsyncJobsProofs

Life(w) ==
  \/ Pop(w) \/ Start(w) \/ StopIdle(w) \/ OrphanEnds(w) \/ LoopDies(w)
  \/ \E j \in Jobs : StopRunning(w, j)

(* The step of a proof by the groups of Next.                                *)
LEMMA NextByGroup ==
  ASSUME [Next]_vars, NEW P,
         \A j \in Jobs : Submission(j) => P,
         \A p \in Procs, j \in Jobs : Step(p, j) \/ Fault(p, j) => P,
         \A w \in Workers : Life(w) => P,
         \A p \in Procs : Crash(p) => P,
         UNCHANGED vars => P
  PROVE  P
BY DEF Next, Life

-----------------------------------------------------------------------------
(* Whose run it is *)

(* From the claim to the end of the finally clause p has a run of its own.   *)
Busy(p) == AtWork(p) \/ pc[p] \in {"cleaning", "dying"}

Owned ==
  /\ \A p \in Procs : Busy(p) => task[p] \in Jobs /\ run[p] \in 1 .. runs[task[p]]
  /\ \A p, q \in Procs :
       Busy(p) /\ Busy(q) /\ task[p] = task[q] /\ run[p] = run[q] => p = q

(* Steps other than a claim give nobody a run.                               *)
KeepsRuns ==
  /\ UNCHANGED <<runs, run>>
  /\ \A p \in Procs : Busy(p)' => Busy(p) /\ task'[p] = task[p]

(* What the two ways to claim a job have in common.                          *)
Claims(p, j) ==
  /\ pc[p] \in {"idle", "popped"} /\ status[j] = "queued"
  /\ TakeRow(p, j) /\ Goto(p, "claimed")
  /\ UNCHANGED <<upload, datasets, reports, broker, orphans, left>>

(* A step after which nobody is busy with another run keeps ownership.      *)
LEMMA OwnedFrame ==
  ASSUME Owned, KeepsRuns
  PROVE  Owned'
BY DEF Owned, KeepsRuns

(* A claim makes a run that nobody else has.                                *)
LEMMA OwnedClaim ==
  ASSUME TypeOK, Owned, NEW p \in Procs, NEW j \in Jobs, Claims(p, j)
  PROVE  Owned'
<1>1. /\ runs' = [runs EXCEPT ![j] = runs[j] + 1] /\ runs[j] \in Nat
      /\ task'[p] = j /\ run'[p] = runs[j] + 1 /\ runs'[j] = runs[j] + 1
  BY DEF Claims, TakeRow, TypeOK
<1>2. \A q \in Procs \ {p} : Busy(q)' => Busy(q) /\ task'[q] = task[q] /\ run'[q] = run[q]
  BY DEF Claims, TakeRow, Goto, Busy, AtWork, TypeOK
<1>3. \A k \in Jobs : runs[k] \in Nat /\ runs'[k] \in Nat /\ runs'[k] >= runs[k]
  BY <1>1 DEF TypeOK
<1>4. \A q \in Procs : Busy(q)' => task'[q] \in Jobs /\ run'[q] \in 1 .. runs'[task'[q]]
  <2> SUFFICES ASSUME NEW q \in Procs, Busy(q)'
               PROVE  task'[q] \in Jobs /\ run'[q] \in 1 .. runs'[task'[q]]
    OBVIOUS
  <2>1. CASE q = p BY <2>1, <1>1
  <2>2. CASE q # p
    <3>1. task[q] \in Jobs /\ run[q] \in 1 .. runs[task[q]]
      BY <2>2, <1>2 DEF Owned
    <3>2. QED BY <2>2, <3>1, <1>2, <1>3
  <2>3. QED BY <2>1, <2>2
<1>5. \A q \in Procs \ {p} : Busy(q)' /\ task'[q] = j => run'[q] # runs[j] + 1
  BY <1>1, <1>2 DEF Owned
<1>6. \A q, r \in Procs :
        Busy(q)' /\ Busy(r)' /\ task'[q] = task'[r] /\ run'[q] = run'[r] => q = r
  BY <1>1, <1>2, <1>5 DEF Owned
<1>7. QED
  BY <1>4, <1>6 DEF Owned

(* Submissions give nobody a run,                                           *)
LEMMA SubmissionKeepsRuns ==
  ASSUME NEW j \in Jobs, Submission(j)
  PROVE  KeepsRuns
BY DEF Submission, Admit, RejectFull, RejectFiles, CreateJob, CreateJobUnread, InsertRow,
       Publish, PublishRaises, MarkUnpublished, SetFailed, Disown, AbortUpload, rowVars, procVars,
       KeepsRuns, Busy, AtWork

(* a processor gets one by a claim alone,                                   *)
LEMMA StepKeepsRuns ==
  ASSUME TypeOK, NEW p \in Procs, NEW j \in Jobs, Step(p, j) \/ Fault(p, j)
  PROVE  KeepsRuns \/ Claims(p, j)
<1> USE DEF TypeOK, rowVars, Goto, At, Holds, KeepsRuns, Busy, AtWork
<1>1. CASE ClaimNext(p, j) BY <1>1 DEF ClaimNext, Oldest, Queued, Claims
<1>2. CASE ClaimPopped(p, j) BY <1>2 DEF ClaimPopped, Claims
<1>3. CASE DropPopped(p, j) BY <1>3 DEF DropPopped
<1>4. CASE Begin(p, j) \/ Run(p, j) \/ Computed(p, j) \/ SaveReport(p, j)
  BY <1>4 DEF Begin, Run, Computed, SaveReport
<1>5. CASE MarkCompleted(p, j) \/ MarkFailed(p, j)
  BY <1>5 DEF MarkCompleted, MarkFailed, SetCompleted, SetFailed
<1>6. CASE Clean(p, j) BY <1>6 DEF Clean
<1>7. CASE Fault(p, j)
  BY <1>7
     DEF Fault, WriteRaises, ProgressUnread, CompletedUnread, ClaimUnread, MarkFailedRaises,
         SetCompleted, SetFailed
<1>8. QED
  BY <1>1, <1>2, <1>3, <1>4, <1>5, <1>6, <1>7 DEF Step

(* its loop gives it none,                                                  *)
LEMMA LifeKeepsRuns ==
  ASSUME TypeOK, NEW w \in Workers, Life(w)
  PROVE  KeepsRuns
BY DEF Life, Pop, Start, StopIdle, OrphanEnds, LoopDies, StopRunning, Leave, Goto, rowVars,
       KeepsRuns, Busy, AtWork, TypeOK, Procs

(* and a crash takes it away.                                               *)
LEMMA CrashKeepsRuns ==
  ASSUME TypeOK, NEW p \in Procs, Crash(p)
  PROVE  KeepsRuns
BY DEF Crash, Goto, rowVars, KeepsRuns, Busy, AtWork, TypeOK

(* In every deployment two processors never share a run of a job.            *)
LEMMA OwnedCorrect == Spec => []Owned
<1>1. Init => Owned
  BY DEF Init, Owned, Busy, AtWork
<1>2. TypeOK /\ Owned /\ [Next]_vars => Owned'
  <2> SUFFICES ASSUME TypeOK, Owned, [Next]_vars PROVE Owned'
    OBVIOUS
  <2>1. \A j \in Jobs : Submission(j) => Owned'
    BY SubmissionKeepsRuns, OwnedFrame
  <2>2. \A p \in Procs, j \in Jobs : Step(p, j) \/ Fault(p, j) => Owned'
    BY StepKeepsRuns, OwnedFrame, OwnedClaim
  <2>3. \A w \in Workers : Life(w) => Owned'
    BY LifeKeepsRuns, OwnedFrame
  <2>4. \A p \in Procs : Crash(p) => Owned'
    BY CrashKeepsRuns, OwnedFrame
  <2>5. UNCHANGED vars => Owned'
    BY DEF vars, Owned, Busy, AtWork
  <2>6. QED
    BY <2>1, <2>2, <2>3, <2>4, <2>5, NextByGroup
<1>3. QED
  BY <1>1, <1>2, TypeCorrect, PTL DEF Spec
-----------------------------------------------------------------------------
(* One run of each job in broker mode *)

(* The id of a job is in one place at most: with its upload, once in the     *)
(* list, or with the one worker that popped it; it has not been run then.    *)
Popped(p, j) == pc[p] = "popped" /\ task[p] = j

OncePublished ==
  \A j \in Jobs : upload[j] \in {"new", "receiving", "created"} =>
    /\ runs[j] = 0
    /\ \A i \in 1 .. Len(broker) : broker[i] # j
    /\ \A p \in Procs : ~Popped(p, j)

OnceListed ==
  /\ \A i, k \in 1 .. Len(broker) : broker[i] = broker[k] => i = k
  /\ \A i \in 1 .. Len(broker) :
       runs[broker[i]] = 0 /\ \A p \in Procs : ~Popped(p, broker[i])

OncePopped ==
  /\ \A p \in Procs : pc[p] = "popped" => task[p] \in Jobs /\ runs[task[p]] = 0
  /\ \A p, q \in Procs : pc[p] = "popped" /\ Popped(q, task[p]) => p = q

Once == OncePublished /\ OnceListed /\ OncePopped /\ AtMostOneRun

(* A step that publishes, pops and claims nothing, or loses the head of the  *)
(* list.                                                                     *)
KeepsIds ==
  /\ UNCHANGED <<upload, runs>>
  /\ broker' = broker \/ (broker # <<>> /\ broker' = Tail(broker))
  /\ \A p \in Procs : pc'[p] = "popped" => pc[p] = "popped" /\ task'[p] = task[p]

(* What the invariant of the deliveries depends on.                         *)
LEMMA OnceFrame ==
  ASSUME TypeOK, Once, KeepsIds
  PROVE  Once'
<1> USE DEF KeepsIds, Once
<1>1. CASE broker' = broker
  BY <1>1 DEF OncePublished, OnceListed, OncePopped, Popped, AtMostOneRun
<1>2. CASE broker # <<>> /\ broker' = Tail(broker)
  <2>1. /\ Len(broker) \in Nat /\ Len(broker') = Len(broker) - 1
        /\ \A i \in 1 .. Len(broker') : broker'[i] = broker[i + 1] /\ i + 1 \in 1 .. Len(broker)
    BY <1>2, TailFacts DEF TypeOK
  <2>2. OncePublished'
    BY <2>1 DEF OncePublished, Popped
  <2>3. OnceListed'
    <3>1. ASSUME NEW i \in 1 .. Len(broker'), NEW k \in 1 .. Len(broker'),
                 broker'[i] = broker'[k]
          PROVE  i = k
      <4>1. broker[i + 1] = broker[k + 1] /\ i + 1 \in 1 .. Len(broker)
              /\ k + 1 \in 1 .. Len(broker)
        BY <2>1, <3>1
      <4>2. i + 1 = k + 1
        BY <4>1 DEF OnceListed
      <4>3. QED
        BY <4>2
    <3>2. ASSUME NEW i \in 1 .. Len(broker')
          PROVE  runs'[broker'[i]] = 0 /\ \A p \in Procs : ~Popped(p, broker[i])'
      <4>1. i + 1 \in 1 .. Len(broker) /\ broker'[i] = broker[i + 1]
        BY <2>1
      <4>2. runs[broker[i + 1]] = 0 /\ \A p \in Procs : ~Popped(p, broker[i + 1])
        BY <4>1 DEF OnceListed
      <4>3. QED
        BY <4>1, <4>2 DEF Popped
    <3>3. QED
      BY <3>1, <3>2 DEF OnceListed, Popped
  <2>4. OncePopped' /\ AtMostOneRun'
    BY DEF OncePopped, Popped, AtMostOneRun
  <2>5. QED
    BY <2>2, <2>3, <2>4
<1>3. QED
  BY <1>1, <1>2

(* A submission lists the identifier of its job once.                       *)
LEMMA SubmissionOnce ==
  ASSUME TypeOK, Once, Mode = "broker", NEW j \in Jobs, Submission(j)
  PROVE  Once'
<1> USE DEF TypeOK, Once, OncePublished, OnceListed, OncePopped, Popped, AtMostOneRun,
            rowVars, procVars
<1>1. ASSUME upload[j] = "created", upload'[j] \in {"accepted", "unpublished"},
             upload' = [upload EXCEPT ![j] = upload'[j]], broker' = Append(broker, j),
             UNCHANGED <<runs, pc, task>>
      PROVE  Once'
  <2>1. /\ Len(broker) \in Nat /\ Len(broker') = Len(broker) + 1
        /\ broker'[Len(broker')] = j
        /\ \A i \in 1 .. Len(broker) : broker'[i] = broker[i]
    <3>1. broker \in Seq(Jobs)
      OBVIOUS
    <3> HIDE DEF TypeOK, Once
    <3>2. QED
      BY <1>1, <3>1, AppendFacts
  <2>2. /\ runs[j] = 0 /\ \A p \in Procs : ~Popped(p, j)
        /\ \A i \in 1 .. Len(broker) : broker[i] # j /\ broker[i] \in Jobs
    BY <1>1
  <2>3. \A k \in Jobs : upload'[k] \in {"new", "receiving", "created"} =>
          k # j /\ upload[k] \in {"new", "receiving", "created"}
    BY <1>1
  <2>4. \A i \in 1 .. Len(broker') : i \in 1 .. Len(broker) \/ i = Len(broker')
    <3> DEFINE n == Len(broker)
               m == Len(broker')
    <3>1. n \in Nat /\ m = n + 1
      BY <2>1
    <3> HIDE DEF n, m, TypeOK, Once, OncePublished, OnceListed, OncePopped, AtMostOneRun
    <3>2. \A i \in 1 .. m : i \in 1 .. n \/ i = m
      BY <3>1
    <3>3. QED
      BY <3>2 DEF n, m
  <2>5. OncePublished'
    BY <1>1, <2>1, <2>3, <2>4
  <2>6. OnceListed'
    BY <1>1, <2>1, <2>2, <2>4
  <2>7. OncePopped' /\ AtMostOneRun'
    BY <1>1
  <2>8. QED
    BY <2>5, <2>6, <2>7
<1>2. ASSUME \/ upload[j] \in {"new", "receiving", "created"}
             \/ upload'[j] \notin {"new", "receiving", "created"},
             upload' = [upload EXCEPT ![j] = upload'[j]],
             UNCHANGED <<runs, pc, task, broker>>
      PROVE  Once'
  <2>1. \A k \in Jobs : upload'[k] \in {"new", "receiving", "created"} =>
          upload[k] \in {"new", "receiving", "created"}
    BY <1>2
  <2>2. OncePublished'
    BY <1>2, <2>1
  <2>3. OnceListed' /\ OncePopped' /\ AtMostOneRun'
    BY <1>2
  <2> HIDE DEF OncePublished, OnceListed, OncePopped, AtMostOneRun
  <2>4. QED
    BY <2>2, <2>3
<1>3. CASE Admit(j) \/ RejectFull(j) \/ RejectFiles(j) \/ Disown(j) \/ AbortUpload(j)
  <2>1. CASE Admit(j) BY <2>1, <1>2 DEF Admit
  <2>2. CASE RejectFull(j) BY <2>2, <1>2 DEF RejectFull
  <2>3. CASE RejectFiles(j) BY <2>3, <1>2 DEF RejectFiles
  <2>4. CASE Disown(j) \/ AbortUpload(j) BY <2>4, <1>2 DEF Disown, AbortUpload
  <2>5. QED BY <1>3, <2>1, <2>2, <2>3, <2>4
<1>4. CASE CreateJob(j) \/ CreateJobUnread(j)
  BY <1>4, <1>2 DEF CreateJob, CreateJobUnread, InsertRow, AfterCreate
<1>5. CASE Publish(j) BY <1>5, <1>1 DEF Publish
<1>6. CASE PublishRaises(j) BY <1>6, <1>1, <1>2 DEF PublishRaises
<1>7. CASE MarkUnpublished(j) BY <1>7, <1>2 DEF MarkUnpublished, SetFailed
<1>8. QED
  BY <1>3, <1>4, <1>5, <1>6, <1>7 DEF Submission

(* A worker that pops an identifier is the only one that has it.            *)
LEMMA PopOnce ==
  ASSUME TypeOK, Once, NEW w \in Workers, Pop(w)
  PROVE  Once'
<1> DEFINE j == Head(broker)
<1>1. /\ Len(broker) \in Nat /\ 1 \in 1 .. Len(broker) /\ Len(broker') = Len(broker) - 1
      /\ j = broker[1] /\ j \in Jobs
      /\ \A i \in 1 .. Len(broker') : broker'[i] = broker[i + 1] /\ i + 1 \in 1 .. Len(broker)
  BY TailFacts, TailType DEF Pop, TypeOK
<1>2. /\ UNCHANGED <<upload, runs>> /\ w \in Procs
      /\ pc' = [pc EXCEPT ![w] = "popped"] /\ task' = [task EXCEPT ![w] = j]
  BY DEF Pop, Goto, rowVars, Procs
<1> HIDE DEF j
<1>3. \A p \in Procs \ {w} : pc'[p] = pc[p] /\ task'[p] = task[p]
  BY <1>2 DEF TypeOK
<1>4. pc'[w] = "popped" /\ task'[w] = j
  BY <1>2 DEF TypeOK
<1>5. runs[j] = 0 /\ \A p \in Procs : ~Popped(p, j)
  BY <1>1 DEF Once, OnceListed
<1>6. \A k \in Jobs, p \in Procs : Popped(p, k)' => Popped(p, k) \/ (p = w /\ k = j)
  BY <1>3, <1>4 DEF Popped
<1>7. OncePublished'
  <2>1. SUFFICES ASSUME NEW k \in Jobs, upload[k] \in {"new", "receiving", "created"}
                 PROVE  /\ runs[k] = 0 /\ \A i \in 1 .. Len(broker') : broker'[i] # k
                        /\ \A p \in Procs : ~Popped(p, k)'
    BY <1>2 DEF OncePublished
  <2>2. /\ runs[k] = 0 /\ \A i \in 1 .. Len(broker) : broker[i] # k
        /\ \A p \in Procs : ~Popped(p, k)
    BY <2>1 DEF Once, OncePublished
  <2>3. \A i \in 1 .. Len(broker') : broker'[i] # k
    BY <1>1, <2>2
  <2>4. k # j
    BY <1>1, <2>2
  <2>5. QED
    BY <1>6, <2>2, <2>3, <2>4
<1>8. OnceListed'
  <2> DEFINE n == Len(broker)
             m == Len(broker')
  <2>1. /\ n \in Nat /\ 1 \in 1 .. n /\ m = n - 1 /\ j = broker[1]
        /\ \A i \in 1 .. m : broker'[i] = broker[i + 1] /\ i + 1 \in 1 .. n
    BY <1>1
  <2>2. /\ \A i, k \in 1 .. n : broker[i] = broker[k] => i = k
        /\ \A i \in 1 .. n : runs[broker[i]] = 0 /\ \A p \in Procs : ~Popped(p, broker[i])
    BY DEF Once, OnceListed
  <2>3. \A i \in 1 .. n : broker[i] \in Jobs
    BY DEF TypeOK
  <2> HIDE DEF n, m
  <2>4. \A i, k \in 1 .. m : broker'[i] = broker'[k] => i = k
    <3>1. SUFFICES ASSUME NEW i \in 1 .. m, NEW k \in 1 .. m, broker'[i] = broker'[k]
                   PROVE  i = k
      OBVIOUS
    <3>2. i \in Int /\ k \in Int /\ i + 1 \in 1 .. n /\ k + 1 \in 1 .. n
      BY <2>1
    <3>3. broker[i + 1] = broker[k + 1]
      BY <2>1, <3>1
    <3>4. i + 1 = k + 1
      BY <2>2, <3>2, <3>3
    <3>5. QED
      BY <3>2, <3>4
  <2>5. ASSUME NEW i \in 1 .. m
        PROVE  (runs[broker[i]] = 0 /\ \A p \in Procs : ~Popped(p, broker[i]))'
    <3>1. i + 1 \in 1 .. n /\ broker'[i] = broker[i + 1] /\ i + 1 # 1
      BY <2>1
    <3>2. runs[broker[i + 1]] = 0 /\ (\A p \in Procs : ~Popped(p, broker[i + 1]))
          /\ broker[i + 1] # j /\ broker[i + 1] \in Jobs
      BY <2>1, <2>2, <2>3, <3>1
    <3>3. /\ broker'[i] \in Jobs /\ broker'[i] # j /\ runs'[broker'[i]] = 0
          /\ \A p \in Procs : ~Popped(p, broker'[i])
      BY <1>2, <3>1, <3>2
    <3>4. runs'[broker'[i]] = 0
      BY <3>3
    <3>5. ASSUME NEW k \in Jobs, k = broker'[i], NEW p \in Procs
          PROVE  ~Popped(p, k)'
      BY <1>6, <3>3, <3>5
    <3>6. (\A p \in Procs : ~Popped(p, broker[i]))'
      BY <3>3, <3>5
    <3>7. QED
      BY <3>4, <3>6
  <2>6. \A i, k \in 1 .. Len(broker') : broker'[i] = broker'[k] => i = k
    BY <2>4 DEF m
  <2>7. \A i \in 1 .. Len(broker') :
          (runs[broker[i]] = 0 /\ \A p \in Procs : ~Popped(p, broker[i]))'
    BY <2>5, Zenon DEF m
  <2>8. QED
    BY <2>6, <2>7, Zenon DEF OnceListed
<1>9. OncePopped'
  BY <1>1, <1>2, <1>3, <1>4, <1>5 DEF Once, OncePopped, Popped
<1>10. QED
  BY <1>2, <1>7, <1>8, <1>9 DEF Once, AtMostOneRun

(* In broker mode a job is claimed by the worker that popped its id.         *)
LEMMA ClaimOnce ==
  ASSUME TypeOK, Once, NEW p \in Procs, NEW j \in Jobs, ClaimPopped(p, j)
  PROVE  Once'
<1>1. Popped(p, j) /\ UNCHANGED <<upload, broker>>
  BY DEF ClaimPopped, Holds, Popped
<1>2. /\ runs' = [runs EXCEPT ![j] = runs[j] + 1] /\ runs[j] = 0
  BY DEF ClaimPopped, TakeRow, TypeOK, Once, OncePopped, Holds
<1>3. \A q \in Procs : pc'[q] = "popped" =>
        q # p /\ pc[q] = "popped" /\ task'[q] = task[q] /\ task[q] # j
  BY <1>1 DEF ClaimPopped, TakeRow, Goto, TypeOK, Once, OncePopped, Popped
<1>4. upload[j] \notin {"new", "receiving", "created"}
  BY <1>1 DEF Once, OncePublished
<1>5. \A i \in 1 .. Len(broker) : broker[i] # j /\ broker[i] \in Jobs
  BY <1>1 DEF Once, OnceListed, TypeOK
<1>6. \A k \in Jobs : runs'[k] = IF k = j THEN 1 ELSE runs[k]
  BY <1>2 DEF TypeOK
<1>7. OncePublished'
  BY <1>1, <1>3, <1>4, <1>6 DEF Once, OncePublished, Popped
<1>8. OnceListed'
  BY <1>1, <1>3, <1>5, <1>6 DEF Once, OnceListed, Popped
<1>9. OncePopped'
  BY <1>3, <1>6 DEF Once, OncePopped, Popped
<1>10. QED
  BY <1>6, <1>7, <1>8, <1>9 DEF Once, AtMostOneRun

(* In broker mode a processor claims what it popped, and lists nothing.     *)
LEMMA StepOnce ==
  ASSUME TypeOK, Once, Mode = "broker", NEW p \in Procs, NEW j \in Jobs,
         Step(p, j) \/ Fault(p, j)
  PROVE  Once'
<1> USE DEF TypeOK, rowVars, Goto, At, Holds, KeepsIds
<1>1. CASE ClaimNext(p, j) BY <1>1 DEF ClaimNext, ClaimsFromRows
<1>2. CASE ClaimPopped(p, j) BY <1>2, ClaimOnce
<1>3. CASE DropPopped(p, j) \/ Clean(p, j)
  <2>1. KeepsIds BY <1>3 DEF DropPopped, Clean
  <2>2. QED BY <2>1, OnceFrame
<1>4. CASE Begin(p, j) \/ Run(p, j) \/ Computed(p, j) \/ SaveReport(p, j)
  <2>1. KeepsIds BY <1>4 DEF Begin, Run, Computed, SaveReport
  <2>2. QED BY <2>1, OnceFrame
<1>5. CASE MarkCompleted(p, j) \/ MarkFailed(p, j)
  <2>1. CASE MarkCompleted(p, j)
    <3>1. KeepsIds BY <2>1 DEF MarkCompleted, SetCompleted
    <3>2. QED BY <3>1, OnceFrame
  <2>2. CASE MarkFailed(p, j)
    <3>1. KeepsIds BY <2>2 DEF MarkFailed, SetFailed
    <3>2. QED BY <3>1, OnceFrame
  <2>3. QED BY <1>5, <2>1, <2>2
<1>6. CASE Fault(p, j)
  <2>1. KeepsIds
    BY <1>6 DEF Fault, WriteRaises, ProgressUnread, CompletedUnread, ClaimUnread,
                MarkFailedRaises, SetCompleted, SetFailed
  <2>2. QED BY <2>1, OnceFrame
<1>7. QED
  BY <1>1, <1>2, <1>3, <1>4, <1>5, <1>6 DEF Step

(* In broker mode every identifier is listed, popped and claimed once.      *)
LEMMA OnceCorrect ==
  ASSUME Mode = "broker"
  PROVE  Spec => []Once
<1>1. Init => Once
  BY AsyncJobsAssumption
     DEF Init, Once, OncePublished, OnceListed, OncePopped, Popped, AtMostOneRun
<1>2. TypeOK /\ Once /\ [Next]_vars => Once'
  <2> SUFFICES ASSUME TypeOK, Once, [Next]_vars PROVE Once'
    OBVIOUS
  <2>1. \A j \in Jobs : Submission(j) => Once'
    BY SubmissionOnce
  <2>2. \A p \in Procs, j \in Jobs : Step(p, j) \/ Fault(p, j) => Once'
    BY StepOnce
  <2>3. ASSUME NEW w \in Workers, Life(w) PROVE Once'
    <3>1. CASE Pop(w) BY <3>1, PopOnce
    <3>2. CASE Start(w) \/ StopIdle(w) \/ OrphanEnds(w) \/ LoopDies(w)
                 \/ \E j \in Jobs : StopRunning(w, j)
      BY <3>2, OnceFrame
         DEF KeepsIds, Start, StopIdle, OrphanEnds, LoopDies, StopRunning, Leave, Goto, rowVars,
             TypeOK
    <3>3. QED BY <2>3, <3>1, <3>2 DEF Life
  <2>4. \A p \in Procs : Crash(p) => Once'
    BY OnceFrame DEF KeepsIds, Crash, Goto, rowVars, TypeOK
  <2>5. UNCHANGED vars => Once'
    BY OnceFrame DEF KeepsIds, vars
  <2>6. QED
    BY <2>1, <2>2, <2>3, <2>4, <2>5, NextByGroup
<1>3. QED
  BY <1>1, <1>2, TypeCorrect, PTL DEF Spec

(* In broker mode no job is run twice, whatever is lost, stopped or raises.  *)
THEOREM RunAtMostOnce ==
  ASSUME Mode = "broker"
  PROVE  Spec => []AtMostOneRun
<1>1. Once => AtMostOneRun
  BY DEF Once
<1>2. QED
  BY <1>1, OnceCorrect, PTL
-----------------------------------------------------------------------------
(* One processor for each job *)

(* Deployments that run a job no second time: ids come from the broker, or   *)
(* status requests do all the work and no worker ever gives a job back.      *)
RunsOnce == Mode = "broker" \/ Workers = {}

(* A single worker, and status requests that only read.                      *)
OneWorker == Mode # "poll" /\ \E w \in Workers : Workers = {w}

(* Status requests do nothing but read outside poll mode.                    *)
HandlersRead == \A p \in Procs \ Workers : pc[p] = "idle"

(* No status handler gets to work outside poll mode.                        *)
LEMMA HandlersOnlyRead ==
  ASSUME Mode # "poll"
  PROVE  Spec => []HandlersRead
<1>1. Init => HandlersRead
  BY DEF Init, HandlersRead
<1>2. TypeOK /\ HandlersRead /\ [Next]_vars => HandlersRead'
  <2> SUFFICES ASSUME TypeOK, HandlersRead, [Next]_vars PROVE HandlersRead'
    OBVIOUS
  <2> USE DEF TypeOK, HandlersRead, Goto
  <2>1. \A j \in Jobs : Submission(j) => HandlersRead'
    BY DEF Submission, Admit, RejectFull, RejectFiles, CreateJob, CreateJobUnread, Publish,
           PublishRaises, MarkUnpublished, Disown, AbortUpload, procVars
  <2>2. \A p \in Procs, j \in Jobs : Step(p, j) \/ Fault(p, j) => HandlersRead'
    BY DEF Step, ClaimNext, ClaimsFromRows, ClaimPopped, DropPopped, Begin, Run, Computed,
           SaveReport, MarkCompleted, MarkFailed, Clean, Fault, WriteRaises, ProgressUnread,
           CompletedUnread, ClaimUnread, MarkFailedRaises, At
  <2>3. \A w \in Workers : Life(w) => HandlersRead'
    BY DEF Life, Pop, Start, StopIdle, OrphanEnds, LoopDies, StopRunning, Leave
  <2>4. \A p \in Procs : Crash(p) => HandlersRead'
    BY DEF Crash
  <2>5. UNCHANGED vars => HandlersRead'
    BY DEF vars
  <2>6. QED
    BY <2>1, <2>2, <2>3, <2>4, <2>5, NextByGroup
<1>3. QED
  BY <1>1, <1>2, TypeCorrect, PTL DEF Spec

(* Only a worker that starts uses up a start.                                *)
LEMMA NoWorkerNoStart ==
  ASSUME Workers = {}
  PROVE  Spec => [](left["start"] = Budget["start"])
<1> DEFINE Unspent == left["start"] = Budget["start"]
<1>1. Init => Unspent
  BY DEF Init
<1>2. TypeOK /\ Unspent /\ [Next]_vars => Unspent'
  <2> SUFFICES ASSUME TypeOK, Unspent, [Next]_vars PROVE left'["start"] = left["start"]
    OBVIOUS
  <2> USE SpendOther, KnownEvents
  <2>1. \A j \in Jobs : Submission(j) => left'["start"] = left["start"]
    BY DEF Submission, Admit, RejectFull, RejectFiles, CreateJob, CreateJobUnread, Publish,
           PublishRaises, MarkUnpublished, Disown, AbortUpload
  <2>2. \A p \in Procs, j \in Jobs :
          Step(p, j) \/ Fault(p, j) => left'["start"] = left["start"]
    BY DEF Step, ClaimNext, ClaimPopped, DropPopped, Begin, Run, Computed,
           SaveReport, MarkCompleted, MarkFailed, Clean, Fault, WriteRaises, ProgressUnread,
           CompletedUnread, ClaimUnread, MarkFailedRaises
  <2>3. \A w \in Workers : Life(w) => left'["start"] = left["start"]
    OBVIOUS
  <2>4. \A p \in Procs : Crash(p) => left'["start"] = left["start"]
    BY DEF Crash
  <2>5. UNCHANGED vars => left'["start"] = left["start"]
    BY DEF vars
  <2>6. QED
    BY <2>1, <2>2, <2>3, <2>4, <2>5, NextByGroup
<1>3. QED
  BY <1>1, <1>2, TypeCorrect, PTL DEF Spec

(* Where a job has one run only, ownership is exclusive.                    *)
LEMMA OneRunEach ==
  ASSUME TypeOK, Owned, AtMostOneRun
  PROVE  ExclusiveRun
<1>1. \A p \in Procs : AtWork(p) => task[p] \in Jobs /\ run[p] \in 1 .. runs[task[p]]
  BY DEF Owned, Busy
<1>2. \A j \in Jobs : runs[j] \in Nat /\ runs[j] <= 1
  BY DEF AtMostOneRun, TypeOK
<1>3. \A p \in Procs : AtWork(p) => run[p] = 1
  BY <1>1, <1>2
<1>4. QED
  BY <1>3 DEF Owned, Busy, ExclusiveRun

(* No two processors are at work on the same job, where a job is run once or *)
(* there is a single worker. (Beside handlers that poll, or beside another   *)
(* worker outside broker mode, a worker that starts gives back jobs others   *)
(* are at work on.)                                                          *)
THEOREM RunsExclusive ==
  ASSUME RunsOnce \/ OneWorker
  PROVE  Spec => []ExclusiveRun
<1>1. CASE Mode = "broker"
  <2>1. TypeOK /\ Owned /\ AtMostOneRun => ExclusiveRun
    BY OneRunEach
  <2>2. QED
    BY <1>1, <2>1, TypeCorrect, OwnedCorrect, RunAtMostOnce, PTL
<1>2. CASE Workers = {}
  <2>1. TypeOK /\ Owned /\ RunBound /\ left["start"] = Budget["start"] => ExclusiveRun
    <3> SUFFICES ASSUME TypeOK, Owned, RunBound, left["start"] = Budget["start"]
                 PROVE  ExclusiveRun
      OBVIOUS
    <3>1. Started = 0
      BY AsyncJobsAssumption, KnownEvents DEF Started
    <3>2. AtMostOneRun
      BY <3>1 DEF RunBound, AtMostOneRun
    <3>3. QED
      BY <3>2, OneRunEach
  <2>2. QED
    BY <1>2, <2>1, TypeCorrect, OwnedCorrect, RunsBounded, NoWorkerNoStart, PTL
<1>3. CASE OneWorker
  <2>1. HandlersRead => ExclusiveRun
    BY <1>3 DEF OneWorker, HandlersRead, ExclusiveRun, AtWork
  <2>2. Mode # "poll"
    BY <1>3 DEF OneWorker
  <2>3. QED
    BY <2>1, <2>2, HandlersOnlyRead, PTL
<1>4. QED
  BY <1>1, <1>2, <1>3 DEF RunsOnce

-----------------------------------------------------------------------------
(* The row of a job that one processor at a time works on *)

OneActor == Workers = {} \/ OneWorker

(* Nobody is at work when a worker starts and gives every job back.          *)
Alone == \A w \in Workers : pc[w] = "off" => \A p \in Procs : ~AtWork(p)

(* With a single worker, or none, no one is at work when one starts.        *)
LEMMA AloneCorrect ==
  ASSUME OneActor
  PROVE  Spec => []Alone
<1>1. CASE Workers = {}
  <2>1. Alone
    BY <1>1 DEF Alone
  <2>2. QED
    BY <2>1, PTL
<1>2. CASE OneWorker
  <2>1. HandlersRead => Alone
    BY <1>2 DEF OneWorker, HandlersRead, Alone, AtWork
  <2>2. Mode # "poll"
    BY <1>2 DEF OneWorker
  <2>3. QED
    BY <2>1, <2>2, HandlersOnlyRead, PTL
<1>3. QED
  BY <1>1, <1>2 DEF OneActor

(* The writes of _process_job overwrite the row they find. Without database  *)
(* errors, and with nobody else at work on the job, they find it processing, *)
(* and no row names a report but a completed one.                            *)
Undoubted ==
  /\ \A p \in Procs :
       /\ pc[p] # "dying"
       /\ AtWork(p) => status[task[p]] = "processing"
       /\ pc[p] = "cleaning" => status[task[p]] \in Terminal
  /\ \A j \in Jobs : upload[j] # "unpublished"
  /\ \A j \in Jobs : status[j] # "completed" => report[j] = 0
  /\ left["fault"] = 0

Rows == Undoubted /\ RowCoherent

(* All that the writers have to rely on.                                     *)
Ground == TypeOK /\ Fresh /\ Owned /\ ExclusiveRun /\ Alone

(* Steps that write no row, and begin no work.                               *)
KeepsRows ==
  /\ rowVars' = rowVars
  /\ \A p \in Procs : \/ pc'[p] = pc[p] /\ task'[p] = task[p]
                     \/ pc'[p] \in {"off", "idle", "popped", "dead"}
  /\ \A j \in Jobs : upload'[j] # "unpublished"

(* A step that writes no row and gets nobody to work keeps the rows.        *)
LEMMA RowsFrame ==
  ASSUME Rows, KeepsRows, left'["fault"] = 0
  PROVE  Rows'
BY DEF Rows, Undoubted, RowCoherent, KeepsRows, rowVars, AtWork

(* No write raises.                                                          *)
LEMMA NoFault ==
  ASSUME TypeOK, Undoubted
  PROVE  /\ ~Spend("fault")
         /\ \A e \in Events : e # "fault" /\ Spend(e) => left'["fault"] = 0
BY KnownEvents DEF TypeOK, Undoubted, Spend

(* The row a submission creates is coherent, and no other changes.          *)
LEMMA SubmissionRows ==
  ASSUME Ground, Rows, NEW j \in Jobs, Submission(j)
  PROVE  Rows'
<1>0. /\ ~Spend("fault") /\ left["fault"] = 0
      /\ \A e \in Events : e # "fault" /\ Spend(e) => left'["fault"] = 0
  BY NoFault DEF Ground, Rows, Undoubted
<1>1. CASE Admit(j) \/ RejectFull(j) \/ RejectFiles(j) \/ Publish(j) \/ Disown(j) \/ AbortUpload(j)
  <2>1. left'["fault"] = 0
    BY <1>0, <1>1, KnownEvents DEF Admit, RejectFull, RejectFiles, Publish, Disown, AbortUpload
  <2>2. KeepsRows
    BY <1>1
       DEF Admit, RejectFull, RejectFiles, Publish, Disown, AbortUpload, KeepsRows, procVars, Ground,
           TypeOK, Rows, Undoubted
  <2>3. QED
    BY <2>1, <2>2, RowsFrame
<1>2. CASE CreateJob(j)
  <2>1. status[j] = "none" /\ \A p \in Procs : task[p] # j
    BY <1>2 DEF CreateJob, Ground, Fresh, Unknown
  <2>2. QED
    BY <1>2, <2>1
       DEF CreateJob, InsertRow, AfterCreate, Ground, TypeOK, Rows, Undoubted, RowCoherent,
           AtWork, procVars, Owned, Busy
<1>3. QED
  BY <1>0, <1>1, <1>2
     DEF Submission, CreateJobUnread, PublishRaises, MarkUnpublished, Rows, Undoubted

(* The row of j while nobody else is at work on it.                          *)
LEMMA OthersKeep ==
  ASSUME Ground, Rows, NEW p \in Procs, AtWork(p)
  PROVE  /\ task[p] \in Jobs /\ status[task[p]] = "processing" /\ run[p] \in Nat \ {0}
         /\ run[p] <= runs[task[p]] /\ report[task[p]] = 0
         /\ \A q \in Procs \ {p} : AtWork(q) => task[q] # task[p] /\ task[q] \in Jobs
         /\ \A q \in Procs \ {p} : pc[q] = "cleaning" => task[q] # task[p] /\ task[q] \in Jobs
<1>1. task[p] \in Jobs /\ run[p] \in 1 .. runs[task[p]] /\ runs[task[p]] \in Nat
  BY DEF Ground, Owned, Busy, TypeOK
<1>2. status[task[p]] = "processing"
  BY DEF Rows, Undoubted
<1>3. QED
  BY <1>1, <1>2 DEF Ground, Owned, Busy, ExclusiveRun, Rows, Undoubted, Terminal

(* A claim makes a coherent row of a queued one,                            *)
LEMMA ClaimRows ==
  ASSUME Ground, Rows, NEW p \in Procs, NEW j \in Jobs, Claims(p, j)
  PROVE  Rows'
<1>1. /\ status' = [status EXCEPT ![j] = "processing"] /\ percent' = [percent EXCEPT ![j] = 10]
      /\ UNCHANGED <<report, upload, left>> /\ status[j] = "queued"
      /\ pc' = [pc EXCEPT ![p] = "claimed"] /\ task' = [task EXCEPT ![p] = j]
  BY DEF Claims, TakeRow, Goto
<1>2. \A q \in Procs : AtWork(q) => status[task[q]] = "processing" /\ task[q] \in Jobs
  BY DEF Rows, Undoubted, Ground, Owned, Busy
<1>3. \A q \in Procs : pc[q] = "cleaning" => status[task[q]] \in Terminal /\ task[q] \in Jobs
  BY DEF Rows, Undoubted, Ground, Owned, Busy
<1>4. Undoubted'
  BY <1>1, <1>2, <1>3 DEF Ground, TypeOK, Rows, Undoubted, AtWork, Terminal
<1>5. RowCoherent'
  BY <1>1 DEF Ground, TypeOK, Rows, RowCoherent
<1>6. QED
  BY <1>4, <1>5 DEF Rows

(* every write of a processor finds the row as its claim left it,           *)
LEMMA StepRows ==
  ASSUME Ground, Rows, NEW p \in Procs, NEW j \in Jobs, Step(p, j) \/ Fault(p, j)
  PROVE  Rows'
<1>0. ~Spend("fault") /\ left["fault"] = 0
  BY NoFault DEF Ground, Rows, Undoubted
<1>1. CASE ClaimNext(p, j)
  BY <1>1, ClaimRows DEF ClaimNext, Oldest, Queued, Claims
<1>2. CASE ClaimPopped(p, j)
  BY <1>2, ClaimRows DEF ClaimPopped, Claims
<1>3. CASE DropPopped(p, j) \/ Clean(p, j)
  <2>1. KeepsRows
    BY <1>3
       DEF DropPopped, Clean, KeepsRows, At, Goto, Ground, TypeOK, Rows, Undoubted
  <2>2. QED
    BY <1>0, <1>3, <2>1, RowsFrame DEF DropPopped, Clean
<1>4. ASSUME AtWork(p), Holds(p, j), UNCHANGED <<upload, status, report, task, left>>,
             NEW to \in {"running", "computed", "saving", "saved", "raised"}, Goto(p, to),
             UNCHANGED percent \/ SetPercent(j, 30) \/ SetPercent(j, 85)
      PROVE  Rows'
  <2>1. status[j] = "processing"
    BY <1>4, OthersKeep DEF Holds
  <2>2. Undoubted'
    BY <1>4, <2>1 DEF Ground, TypeOK, Rows, Undoubted, AtWork, Goto, Holds
  <2>3. RowCoherent'
    BY <1>4, <2>1 DEF Ground, TypeOK, Rows, RowCoherent, SetPercent
  <2>4. QED
    BY <2>2, <2>3 DEF Rows
<1>5. CASE Begin(p, j) \/ Run(p, j) \/ Computed(p, j) \/ SaveReport(p, j)
  BY <1>4, <1>5 DEF Begin, Run, Computed, SaveReport, At, AtWork, rowVars
<1>6. ASSUME AtWork(p), Holds(p, j), Goto(p, "cleaning"), SetCompleted(p, j) \/ SetFailed(j),
             UNCHANGED <<upload, task, left>>
      PROVE  Rows'
  <2>1. /\ status[j] = "processing" /\ run[p] # 0 /\ report[j] = 0
        /\ \A q \in Procs \ {p} : AtWork(q) => task[q] # j /\ task[q] \in Jobs
        /\ \A q \in Procs \ {p} : pc[q] = "cleaning" => task[q] # j /\ task[q] \in Jobs
    BY <1>6, OthersKeep DEF Holds
  <2>2. /\ status'[j] \in Terminal /\ \A k \in Jobs \ {j} : status'[k] = status[k]
        /\ \A k \in Jobs : status'[k] # "completed" => report'[k] = 0
    <3>1. /\ status \in [Jobs -> Status] /\ report \in [Jobs -> Nat]
          /\ \A k \in Jobs : status[k] # "completed" => report[k] = 0
      BY DEF Ground, TypeOK, Rows, Undoubted
    <3>2. CASE SetCompleted(p, j)
      BY <2>1, <3>1, <3>2 DEF SetCompleted, Terminal
    <3>3. CASE SetFailed(j)
      BY <2>1, <3>1, <3>3 DEF SetFailed, Terminal
    <3>4. QED
      BY <1>6, <3>2, <3>3
  <2>3. /\ pc'[p] = "cleaning" /\ task'[p] = j
        /\ \A q \in Procs \ {p} : pc'[q] = pc[q] /\ task'[q] = task[q]
    BY <1>6 DEF Goto, Holds, Ground, TypeOK
  <2>4. Undoubted'
    BY <1>6, <2>1, <2>2, <2>3 DEF Rows, Undoubted, AtWork
  <2>5. RowCoherent'
    BY <1>6, <2>1 DEF Ground, TypeOK, Rows, RowCoherent, SetCompleted, SetFailed
  <2>6. QED
    BY <2>4, <2>5 DEF Rows
<1>7. CASE MarkCompleted(p, j) \/ MarkFailed(p, j)
  BY <1>6, <1>7 DEF MarkCompleted, MarkFailed, At, AtWork
<1>8. CASE Fault(p, j)
  BY <1>0, <1>8
     DEF Fault, WriteRaises, ProgressUnread, CompletedUnread, ClaimUnread, MarkFailedRaises
<1>9. QED
  BY <1>1, <1>2, <1>3, <1>5, <1>7, <1>8 DEF Step

(* a start resets the rows it gives back,                                   *)
LEMMA StartRows ==
  ASSUME Ground, Rows, NEW w \in Workers, Start(w)
  PROVE  Rows'
<1>1. \A p \in Procs : ~AtWork(p)
  BY DEF Start, Ground, Alone
<1>2. left'["fault"] = 0
  BY NoFault, KnownEvents DEF Start, Ground, Rows
<1>3. \A p \in Procs : pc[p] = "cleaning" => task[p] \in Jobs /\ status[task[p]] \in Terminal
  BY DEF Ground, Owned, Busy, Rows, Undoubted
<1>4. Undoubted'
  BY <1>1, <1>2, <1>3
     DEF Start, RequeuedStatus, Goto, Ground, TypeOK, Rows, Undoubted, AtWork, Terminal
<1>5. RowCoherent'
  BY DEF Start, RequeuedStatus, RequeuedPercent, Ground, TypeOK, Rows, RowCoherent
<1>6. QED
  BY <1>4, <1>5 DEF Rows

(* the loop writes no other row,                                            *)
LEMMA LifeRows ==
  ASSUME Ground, Rows, NEW w \in Workers, Life(w)
  PROVE  Rows'
<1>0. /\ ~Spend("fault") /\ left["fault"] = 0
      /\ \A e \in Events : e # "fault" /\ Spend(e) => left'["fault"] = 0
  BY NoFault DEF Ground, Rows, Undoubted
<1>1. CASE Start(w) BY <1>1, StartRows
<1>2. CASE Pop(w) \/ StopIdle(w) \/ OrphanEnds(w) \/ \E j \in Jobs : StopRunning(w, j)
  <2>1. KeepsRows
    BY <1>2
       DEF Pop, StopIdle, OrphanEnds, StopRunning, Leave, Goto, KeepsRows, Ground, TypeOK, Rows,
           Undoubted
  <2>2. left'["fault"] = 0
    BY <1>0, <1>2, KnownEvents DEF Pop, StopIdle, OrphanEnds, StopRunning
  <2>3. QED
    BY <2>1, <2>2, RowsFrame
<1>3. QED
  BY <1>0, <1>1, <1>2 DEF Life, LoopDies

(* and a crash writes none.                                                 *)
LEMMA CrashRows ==
  ASSUME Ground, Rows, NEW p \in Procs, Crash(p)
  PROVE  Rows'
<1>1. left'["fault"] = 0
  BY NoFault, KnownEvents DEF Crash, Ground, Rows
<1>2. KeepsRows
  BY DEF Crash, Goto, KeepsRows, Ground, TypeOK, Rows, Undoubted
<1>3. QED
  BY <1>1, <1>2, RowsFrame

(* With one actor all that the writers rely on is invariant.                *)
LEMMA GroundCorrect ==
  ASSUME OneActor
  PROVE  Spec => []Ground
<1>1. RunsOnce \/ OneWorker
  BY DEF OneActor, RunsOnce
<1>2. QED
  BY <1>1, TypeCorrect, FreshCorrect, OwnedCorrect, RunsExclusive, AloneCorrect, PTL DEF Ground

(* With one actor, and when no write raises, the rows are coherent.         *)
LEMMA RowsCorrect ==
  ASSUME OneActor, Budget["fault"] = 0
  PROVE  Spec => []Rows
<1>1. Init => Rows
  BY DEF Init, Rows, Undoubted, RowCoherent, AtWork
<1>2. Ground /\ Rows /\ [Next]_vars => Rows'
  <2> SUFFICES ASSUME Ground, Rows, [Next]_vars PROVE Rows'
    OBVIOUS
  <2>1. \A j \in Jobs : Submission(j) => Rows'
    BY SubmissionRows
  <2>2. \A p \in Procs, j \in Jobs : Step(p, j) \/ Fault(p, j) => Rows'
    BY StepRows
  <2>3. \A w \in Workers : Life(w) => Rows'
    BY LifeRows
  <2>4. \A p \in Procs : Crash(p) => Rows'
    BY CrashRows
  <2>5. UNCHANGED vars => Rows'
    BY DEF vars, Rows, Undoubted, RowCoherent, AtWork
  <2>6. QED
    BY <2>1, <2>2, <2>3, <2>4, <2>5, NextByGroup
<1>3. QED
  BY <1>1, <1>2, GroundCorrect, PTL DEF Spec

(* Where one worker runs the jobs, or status requests alone, and no database *)
(* call raises, status, progress and report of a row agree.                  *)
THEOREM RowsCohere ==
  ASSUME OneActor, Budget["fault"] = 0
  PROVE  Spec => []RowCoherent
<1>1. Rows => RowCoherent
  BY DEF Rows
<1>2. QED
  BY <1>1, RowsCorrect, PTL

-----------------------------------------------------------------------------
(* What clients see of a job *)

(* No job is run more often than JobLifecycle has reports for.               *)
LEMMA ReportsSuffice ==
  ASSUME TypeOK, RunBound
  PROVE  \A j \in Jobs : runs[j] \in Nat /\ runs[j] <= 1 + Budget["start"]
<1>1. left["start"] \in Nat /\ Budget["start"] \in Nat
  BY AsyncJobsAssumption, KnownEvents DEF TypeOK
<1>2. \A j \in Jobs : runs[j] \in Nat /\ runs[j] <= 1 + (Budget["start"] - left["start"])
  BY DEF TypeOK, RunBound, Started
<1>3. QED
  BY <1>1, <1>2

LifecycleStep == [Lifecycle!JobNext]_(Lifecycle!jobVars)

(* A submission is the birth of a job, or no step in the life of any.       *)
LEMMA SubmissionLives ==
  ASSUME Ground, Rows, NEW j \in Jobs, Submission(j)
  PROVE  LifecycleStep
<1>0. ~Spend("fault") /\ \A k \in Jobs : upload[k] # "unpublished"
  BY NoFault DEF Ground, Rows, Undoubted
<1>1. CASE Admit(j) \/ RejectFull(j) \/ RejectFiles(j) \/ Publish(j) \/ Disown(j) \/ AbortUpload(j)
  BY <1>1
     DEF Admit, RejectFull, RejectFiles, Publish, Disown, AbortUpload, rowVars, LifecycleStep,
         Lifecycle!jobVars
<1>2. CASE CreateJob(j)
  <2>1. status[j] = "none" /\ report[j] = 0
    BY <1>2 DEF CreateJob, Ground, Fresh, Unknown, Rows, Undoubted
  <2>2. report' = report
    BY <1>2, <2>1 DEF CreateJob, InsertRow, Ground, TypeOK
  <2>3. Lifecycle!Submit(j)
    BY <1>2, <2>1, <2>2 DEF CreateJob, InsertRow, Lifecycle!Submit, Lifecycle!MoveTo
  <2>4. QED
    BY <2>3 DEF LifecycleStep, Lifecycle!JobNext
<1>3. QED
  BY <1>0, <1>1, <1>2 DEF Submission, CreateJobUnread, PublishRaises, MarkUnpublished

(* A processor takes one step in the life of its job at a time.             *)
LEMMA StepLives ==
  ASSUME Ground, Rows, RunBound, NEW p \in Procs, NEW j \in Jobs, Step(p, j) \/ Fault(p, j)
  PROVE  LifecycleStep
<1>0. ~Spend("fault")
  BY NoFault DEF Ground, Rows
<1>1. CASE ClaimNext(p, j) \/ ClaimPopped(p, j)
  <2>1. Lifecycle!Claim(j)
    BY <1>1
       DEF ClaimNext, ClaimPopped, Oldest, Queued, TakeRow, Lifecycle!Claim, Lifecycle!MoveTo
  <2>2. QED
    BY <2>1 DEF LifecycleStep, Lifecycle!JobNext
<1>2. CASE DropPopped(p, j) \/ Begin(p, j) \/ Run(p, j) \/ Computed(p, j) \/ SaveReport(p, j)
             \/ Clean(p, j)
  BY <1>2
     DEF DropPopped, Begin, Run, Computed, SaveReport, Clean, rowVars, LifecycleStep,
         Lifecycle!jobVars
<1>3. CASE MarkCompleted(p, j)
  <2>1. /\ status[j] = "processing" /\ run[p] \in 1 .. (1 + Budget["start"])
    <3>1. AtWork(p) /\ task[p] = j
      BY <1>3 DEF MarkCompleted, At, AtWork, Holds
    <3>2. status[j] = "processing" /\ run[p] \in Nat \ {0} /\ run[p] <= runs[j]
      BY <3>1, OthersKeep
    <3>3. runs[j] \in Nat /\ runs[j] <= 1 + Budget["start"] /\ Budget["start"] \in Nat
      BY ReportsSuffice, AsyncJobsAssumption, KnownEvents DEF Ground
    <3>4. QED
      BY <3>2, <3>3
  <2>2. Lifecycle!Complete(j)
    BY <1>3, <2>1
       DEF MarkCompleted, SetCompleted, Lifecycle!Complete, Lifecycle!MoveTo
  <2>3. QED
    BY <2>2 DEF LifecycleStep, Lifecycle!JobNext
<1>4. CASE MarkFailed(p, j)
  <2>1. status[j] = "processing"
    BY <1>4, OthersKeep DEF MarkFailed, At, AtWork, Holds
  <2>2. Lifecycle!Fail(j)
    BY <1>4, <2>1 DEF MarkFailed, SetFailed, Lifecycle!Fail, Lifecycle!MoveTo
  <2>3. QED
    BY <2>2 DEF LifecycleStep, Lifecycle!JobNext
<1>5. QED
  BY <1>0, <1>1, <1>2, <1>3, <1>4
     DEF Step, Fault, WriteRaises, ProgressUnread, CompletedUnread, ClaimUnread,
         MarkFailedRaises

(* A start gives the jobs back; no other step of the loop matters to them.  *)
LEMMA LifeLives ==
  ASSUME NEW w \in Workers, Life(w)
  PROVE  LifecycleStep
<1>1. CASE Start(w)
  <2>1. Lifecycle!GiveBack
    BY <1>1 DEF Start, RequeuedStatus, Lifecycle!GiveBack
  <2>2. QED
    BY <2>1 DEF LifecycleStep, Lifecycle!JobNext
<1>2. CASE Pop(w) \/ StopIdle(w) \/ OrphanEnds(w) \/ LoopDies(w)
             \/ \E j \in Jobs : StopRunning(w, j)
  BY <1>2
     DEF Pop, StopIdle, OrphanEnds, LoopDies, StopRunning, rowVars, LifecycleStep,
         Lifecycle!jobVars
<1>3. QED
  BY <1>1, <1>2 DEF Life

(* So every step is one in the life of the jobs, or none.                   *)
LEMMA StepsLive ==
  ASSUME Ground, Rows, RunBound, [Next]_vars
  PROVE  LifecycleStep
<1>1. \A j \in Jobs : Submission(j) => LifecycleStep
  BY SubmissionLives
<1>2. \A p \in Procs, j \in Jobs : Step(p, j) \/ Fault(p, j) => LifecycleStep
  BY StepLives
<1>3. \A w \in Workers : Life(w) => LifecycleStep
  BY LifeLives
<1>4. \A p \in Procs : Crash(p) => LifecycleStep
  BY DEF Crash, rowVars, LifecycleStep, Lifecycle!jobVars
<1>5. UNCHANGED vars => LifecycleStep
  BY DEF vars, LifecycleStep, Lifecycle!jobVars
<1>6. QED
  BY <1>1, <1>2, <1>3, <1>4, <1>5, NextByGroup

(* Where one worker runs the jobs, or status requests alone, and no database *)
(* call raises, AsyncJobs implements JobLifecycle: every transaction is one  *)
(* step in the life of one job, a start gives all jobs back, and the rest    *)
(* clients do not see.                                                       *)
THEOREM RowsLive ==
  ASSUME OneActor, Budget["fault"] = 0
  PROVE  Spec => ImplementsLifecycle
<1>1. Init => Lifecycle!JobInit
  BY DEF Init, Lifecycle!JobInit
<1>2. Ground /\ Rows /\ RunBound /\ [Next]_vars => [Lifecycle!JobNext]_(Lifecycle!jobVars)
  BY StepsLive DEF LifecycleStep
<1>3. QED
  BY <1>1, <1>2, GroundCorrect, RowsCorrect, RunsBounded, PTL
     DEF Spec, ImplementsLifecycle, Lifecycle!JobSpec

(* There, no step in the life of a job changes its end.                      *)
LEMMA LivesEndOnce ==
  ASSUME OneActor, Budget["fault"] = 0
  PROVE  Spec => TerminalIsFinal
<1>1. Ground /\ Rows /\ RunBound /\ [Next]_vars
        => [\A j \in Jobs : status[j] \in Terminal =>
              status'[j] = status[j] /\ report'[j] = report[j]]_vars
  <2> SUFFICES ASSUME Ground, Rows, RunBound, [Next]_vars,
                      NEW j \in Jobs, status[j] \in Terminal
               PROVE  status'[j] = status[j] /\ report'[j] = report[j]
    OBVIOUS
  <2>1. TypeOK /\ LifecycleStep
    BY StepsLive DEF Ground
  <2>2. ASSUME NEW k \in Jobs, NEW from \in {"none", "queued", "processing"}, NEW to,
               Lifecycle!MoveTo(k, from, to)
        PROVE  k # j /\ status'[j] = status[j]
    BY <2>1, <2>2 DEF Lifecycle!MoveTo, TypeOK, Terminal
  <2>3. CASE Lifecycle!GiveBack
    BY <2>3 DEF Lifecycle!GiveBack, Terminal
  <2>4. ASSUME NEW k \in Jobs,
               \/ Lifecycle!Submit(k) \/ Lifecycle!Claim(k) \/ Lifecycle!Fail(k)
               \/ Lifecycle!Withdraw(k)
        PROVE  status'[j] = status[j] /\ report'[j] = report[j]
    BY <2>2, <2>4 DEF Lifecycle!Submit, Lifecycle!Claim, Lifecycle!Fail, Lifecycle!Withdraw
  <2>5. ASSUME NEW k \in Jobs, Lifecycle!Complete(k)
        PROVE  status'[j] = status[j] /\ report'[j] = report[j]
    BY <2>1, <2>2, <2>5 DEF Lifecycle!Complete, TypeOK
  <2>6. CASE UNCHANGED Lifecycle!jobVars
    BY <2>6 DEF Lifecycle!jobVars
  <2>7. QED
    BY <2>1, <2>3, <2>4, <2>5, <2>6 DEF LifecycleStep, Lifecycle!JobNext
<1>2. QED
  BY <1>1, GroundCorrect, RowsCorrect, RunsBounded, PTL DEF Spec, TerminalIsFinal

(* In broker mode several workers may be at work, and one that starts takes  *)
(* away the status of the jobs of the others; but there is one run of each   *)
(* job, and it is over when the job has ended.                               *)
Unended ==
  /\ \A p \in Procs : pc[p] # "dying" /\ (AtWork(p) => status[task[p]] \notin Terminal)
  /\ \A j \in Jobs : upload[j] # "unpublished"
  /\ left["fault"] = 0

EndsKept ==
  \A j \in Jobs : status[j] \in Terminal => status'[j] = status[j] /\ report'[j] = report[j]

SoleRuns == TypeOK /\ Fresh /\ Owned /\ ExclusiveRun

(* A step that ends no job, and gets nobody to work, keeps Unended.         *)
LEMMA UnendedFrame ==
  ASSUME SoleRuns, Unended, left'["fault"] = 0,
         \A j \in Jobs : upload'[j] = upload[j] \/ upload'[j] # "unpublished",
         UNCHANGED report,
         \A j \in Jobs :
           \/ status'[j] = status[j]
           \/ status[j] = "none" /\ \A p \in Procs : task[p] # j
           \/ status[j] = "processing" /\ status'[j] = "queued",
         \A p \in Procs : pc'[p] # "dying" /\ (AtWork(p)' => AtWork(p) /\ task'[p] = task[p])
  PROVE  Unended' /\ EndsKept
<1>1. \A p \in Procs : AtWork(p) => task[p] \in Jobs
  BY DEF SoleRuns, Owned, Busy
<1>2. QED
  BY <1>1 DEF Unended, EndsKept, Terminal

(* No write raises.                                                         *)
LEMMA UnendedNoFault ==
  ASSUME TypeOK, Unended
  PROVE  /\ ~Spend("fault")
         /\ \A e \in Events : e # "fault" /\ Spend(e) => left'["fault"] = 0
BY KnownEvents DEF TypeOK, Unended, Spend

(* A submission changes no end,                                             *)
LEMMA SubmissionEnds ==
  ASSUME SoleRuns, Unended, NEW j \in Jobs, Submission(j)
  PROVE  Unended' /\ EndsKept
<1>0. /\ ~Spend("fault") /\ TypeOK /\ left["fault"] = 0
      /\ \A e \in Events : e # "fault" /\ Spend(e) => left'["fault"] = 0
      /\ \A k \in Jobs : upload[k] # "unpublished"
      /\ \A p \in Procs : pc[p] # "dying"
  BY UnendedNoFault DEF SoleRuns, Unended
<1>1. CASE Admit(j) \/ RejectFull(j) \/ RejectFiles(j) \/ Publish(j) \/ Disown(j) \/ AbortUpload(j)
  <2>1. left'["fault"] = 0
    BY <1>0, <1>1, KnownEvents DEF Admit, RejectFull, RejectFiles, Publish, Disown, AbortUpload
  <2>2. /\ UNCHANGED <<status, report, pc, task>>
        /\ \A k \in Jobs : upload'[k] # "unpublished"
    BY <1>0, <1>1
       DEF Admit, RejectFull, RejectFiles, Publish, Disown, AbortUpload, rowVars, procVars, TypeOK
  <2>3. QED
    BY <1>0, <2>1, <2>2, UnendedFrame DEF AtWork
<1>2. CASE CreateJob(j)
  <2>1. status[j] = "none" /\ \A p \in Procs : task[p] # j
    BY <1>2 DEF CreateJob, SoleRuns, Fresh, Unknown
  <2>2. \A p \in Procs : AtWork(p) => task[p] \in Jobs \ {j}
    BY <2>1 DEF SoleRuns, Owned, Busy
  <2>3. /\ \A k \in Jobs \ {j} : status'[k] = status[k] /\ report'[k] = report[k]
        /\ UNCHANGED <<pc, task, left>> /\ \A k \in Jobs : upload'[k] # "unpublished"
    BY <1>0, <1>2 DEF CreateJob, InsertRow, AfterCreate, procVars, TypeOK
  <2>4. QED
    BY <1>0, <2>1, <2>2, <2>3 DEF Unended, EndsKept, AtWork, Terminal
<1>3. QED
  BY <1>0, <1>1, <1>2 DEF Submission, CreateJobUnread, PublishRaises, MarkUnpublished

(* a processor that is at work has not ended its job,                       *)
LEMMA StepEnds ==
  ASSUME SoleRuns, Unended, NEW p \in Procs, NEW j \in Jobs, Step(p, j) \/ Fault(p, j)
  PROVE  Unended' /\ EndsKept
<1> USE DEF TypeOK, Goto, At, Holds, rowVars
<1>0. /\ ~Spend("fault") /\ TypeOK /\ left["fault"] = 0
      /\ \A q \in Procs : pc[q] # "dying"
      /\ \A q \in Procs : AtWork(q) => task[q] \in Jobs
  BY UnendedNoFault DEF SoleRuns, Unended, Owned, Busy
<1>1. CASE ClaimNext(p, j) \/ ClaimPopped(p, j)
  <2>1. /\ status[j] = "queued" /\ UNCHANGED <<upload, report, left>>
        /\ status'[j] = "processing" /\ \A k \in Jobs \ {j} : status'[k] = status[k]
        /\ pc'[p] = "claimed" /\ task'[p] = j
        /\ \A q \in Procs \ {p} : pc'[q] = pc[q] /\ task'[q] = task[q]
    BY <1>0, <1>1 DEF ClaimNext, ClaimPopped, Oldest, Queued, TakeRow
  <2> HIDE DEF TypeOK, Goto, At, Holds, rowVars
  <2>2. \A q \in Procs : pc'[q] # "dying"
    BY <1>0, <2>1
  <2>3. \A q \in Procs : AtWork(q)' => status'[task'[q]] \notin Terminal
    <3>1. ASSUME NEW q \in Procs \ {p}, AtWork(q)'
          PROVE  status'[task'[q]] \notin Terminal
      <4>1. AtWork(q) /\ task'[q] = task[q] /\ task[q] \in Jobs
        BY <1>0, <2>1, <3>1 DEF AtWork
      <4>2. status[task[q]] \notin Terminal
        BY <4>1 DEF Unended
      <4>3. QED
        BY <2>1, <4>1, <4>2 DEF Terminal
    <3>2. status'[task'[p]] \notin Terminal
      BY <2>1 DEF Terminal
    <3>3. QED
      BY <3>1, <3>2
  <2>4. \A k \in Jobs : upload'[k] # "unpublished"
    BY <2>1 DEF Unended
  <2>5. EndsKept
    BY <2>1 DEF EndsKept, Terminal
  <2>6. QED
    BY <1>0, <2>1, <2>2, <2>3, <2>4, <2>5 DEF Unended
<1>2. CASE DropPopped(p, j) \/ Begin(p, j) \/ Run(p, j) \/ Computed(p, j) \/ SaveReport(p, j)
             \/ Clean(p, j)
  <2>1. /\ UNCHANGED <<upload, status, report, left>>
        /\ \A q \in Procs :
             pc'[q] # "dying" /\ (AtWork(q)' => AtWork(q) /\ task'[q] = task[q])
    BY <1>0, <1>2 DEF DropPopped, Begin, Run, Computed, SaveReport, Clean, AtWork
  <2>2. QED
    BY <1>0, <2>1, UnendedFrame
<1>3. CASE MarkCompleted(p, j) \/ MarkFailed(p, j)
  <2>1. AtWork(p) /\ task[p] = j
    BY <1>3 DEF MarkCompleted, MarkFailed, AtWork
  <2>2. \A q \in Procs \ {p} : AtWork(q) => task[q] # j
    BY <2>1 DEF SoleRuns, ExclusiveRun
  <2>3. status[j] \notin Terminal
    BY <2>1 DEF Unended
  <2>4. /\ UNCHANGED <<upload, left, task>> /\ pc'[p] = "cleaning"
        /\ \A q \in Procs \ {p} : pc'[q] = pc[q]
        /\ \A k \in Jobs \ {j} : status'[k] = status[k] /\ report'[k] = report[k]
    BY <1>0, <1>3 DEF MarkCompleted, MarkFailed, SetCompleted, SetFailed
  <2>5. QED
    BY <1>0, <2>2, <2>3, <2>4 DEF Unended, EndsKept, AtWork
<1>4. QED
  BY <1>0, <1>1, <1>2, <1>3
     DEF Step, Fault, WriteRaises, ProgressUnread, CompletedUnread, ClaimUnread,
         MarkFailedRaises

(* and the loop changes no end.                                             *)
LEMMA LifeEnds ==
  ASSUME SoleRuns, Unended, NEW w \in Workers, Life(w)
  PROVE  Unended' /\ EndsKept
<1>0. /\ ~Spend("fault") /\ TypeOK /\ left["fault"] = 0
      /\ \A e \in Events : e # "fault" /\ Spend(e) => left'["fault"] = 0
      /\ \A q \in Procs : pc[q] # "dying"
  BY UnendedNoFault DEF SoleRuns, Unended
<1>1. CASE Pop(w) \/ Start(w) \/ StopIdle(w) \/ OrphanEnds(w) \/ \E j \in Jobs : StopRunning(w, j)
  <2>1. left'["fault"] = 0
    BY <1>0, <1>1, KnownEvents DEF Pop, Start, StopIdle, OrphanEnds, StopRunning
  <2>2. /\ UNCHANGED <<upload, report>>
        /\ \A j \in Jobs : \/ status'[j] = status[j]
                           \/ status[j] = "processing" /\ status'[j] = "queued"
    BY <1>1 DEF Pop, Start, RequeuedStatus, StopIdle, OrphanEnds, StopRunning, rowVars
  <2>3. \A q \in Procs :
          pc'[q] # "dying" /\ (AtWork(q)' => AtWork(q) /\ task'[q] = task[q])
    BY <1>0, <1>1
       DEF Pop, Start, StopIdle, OrphanEnds, StopRunning, Leave, Goto, AtWork, TypeOK
  <2>4. QED
    BY <2>1, <2>2, <2>3, UnendedFrame
<1>2. QED
  BY <1>0, <1>1 DEF Life, LoopDies

(* In broker mode no step changes the end of a job.                         *)
LEMMA BrokeredEndOnce ==
  ASSUME Mode = "broker", Budget["fault"] = 0
  PROVE  Spec => TerminalIsFinal
<1>1. Init => Unended
  BY DEF Init, Unended, AtWork
<1>2. SoleRuns /\ Unended /\ [Next]_vars => Unended' /\ EndsKept
  <2> SUFFICES ASSUME SoleRuns, Unended, [Next]_vars PROVE Unended' /\ EndsKept
    OBVIOUS
  <2>1. \A j \in Jobs : Submission(j) => Unended' /\ EndsKept
    BY SubmissionEnds
  <2>2. \A p \in Procs, j \in Jobs : Step(p, j) \/ Fault(p, j) => Unended' /\ EndsKept
    BY StepEnds
  <2>3. \A w \in Workers : Life(w) => Unended' /\ EndsKept
    BY LifeEnds
  <2>4. ASSUME NEW p \in Procs, Crash(p) PROVE Unended' /\ EndsKept
    <3>1. left'["fault"] = 0 /\ TypeOK
      BY <2>4, UnendedNoFault, KnownEvents DEF Crash, SoleRuns
    <3>2. /\ UNCHANGED <<upload, status, report>>
          /\ \A q \in Procs :
               pc'[q] # "dying" /\ (AtWork(q)' => AtWork(q) /\ task'[q] = task[q])
      BY <2>4, <3>1 DEF Crash, Goto, rowVars, AtWork, TypeOK, Unended
    <3>3. QED
      BY <3>1, <3>2, UnendedFrame
  <2>5. UNCHANGED vars => Unended' /\ EndsKept
    BY DEF vars, Unended, EndsKept, AtWork
  <2>6. QED
    BY <2>1, <2>2, <2>3, <2>4, <2>5, NextByGroup
<1>3. SoleRuns /\ Unended /\ [Next]_vars
        => [\A j \in Jobs : status[j] \in Terminal =>
              status'[j] = status[j] /\ report'[j] = report[j]]_vars
  BY <1>2 DEF EndsKept
<1>4. RunsOnce \/ OneWorker
  BY DEF RunsOnce
<1>5. Spec => []SoleRuns
  BY <1>4, TypeCorrect, FreshCorrect, OwnedCorrect, RunsExclusive, PTL DEF SoleRuns
<1>6. QED
  BY <1>1, <1>2, <1>3, <1>5, PTL DEF Spec, TerminalIsFinal

(* While no database call raises, what a client was told of a job that ended *)
(* stays so: with a single actor, and in broker mode beside any number of    *)
(* workers.                                                                  *)
THEOREM EndIsFinal ==
  ASSUME Budget["fault"] = 0, OneActor \/ Mode = "broker"
  PROVE  Spec => TerminalIsFinal
BY LivesEndOnce, BrokeredEndOnce

-----------------------------------------------------------------------------
(* The dataset of a job that can still run *)

Promised(j) == upload[j] \in {"created", "accepted"}

(* The directory is there as long as the job may be run (again), so that the *)
(* engine raises for its data alone.                                         *)
DataKept ==
  /\ \A j \in Jobs : upload[j] = "receiving" => j \in datasets
  /\ \A j \in Jobs :
       Promised(j) /\ status[j] \in {"queued", "processing"} => j \in datasets
  /\ \A j \in Jobs : Promised(j) /\ status[j] = "failed" => j \in BadData
  /\ \A p \in Procs : pc[p] = "raised" /\ Promised(task[p]) => task[p] \in BadData
  /\ left["stop"] = 0

(* Nobody stops a worker.                                                   *)
LEMMA NoStop ==
  ASSUME TypeOK, DataKept
  PROVE  /\ ~Spend("stop")
         /\ \A e \in Events : e # "stop" /\ Spend(e) => left'["stop"] = 0
BY KnownEvents DEF TypeOK, DataKept, Spend

(* Steps of processors: none that forgets the data of a job that may still   *)
(* run, and each failure is due to bad data.                                 *)
LEMMA DataFrame ==
  ASSUME DataKept, UNCHANGED upload, left'["stop"] = 0,
         \A k \in Jobs : status'[k] \in {"queued", "processing"} =>
           status[k] \in {"queued", "processing"} /\ (k \in datasets => k \in datasets'),
         \A k \in Jobs : upload[k] = "receiving" /\ k \in datasets => k \in datasets',
         \A k \in Jobs :
           status'[k] = "failed" => status[k] = "failed" \/ (Promised(k) => k \in BadData),
         \A p \in Procs : pc'[p] = "raised" =>
           \/ pc[p] = "raised" /\ task'[p] = task[p]
           \/ Promised(task'[p]) => task'[p] \in BadData
  PROVE  DataKept'
<1>1. \A k : Promised(k)' = Promised(k)
  BY DEF Promised
<1>2. \A p \in Procs : pc'[p] = "raised" /\ Promised(task'[p]) => task'[p] \in BadData
  BY DEF DataKept
<1>3. QED
  BY <1>1, <1>2 DEF DataKept, Promised

(* A submission stores the files before it creates the row.                 *)
LEMMA SubmissionKeepsData ==
  ASSUME Ground, Rows, DataKept, NEW j \in Jobs, Submission(j)
  PROVE  DataKept'
<1>0. /\ ~Spend("fault") /\ \A k \in Jobs : upload[k] # "unpublished"
      /\ left["stop"] = 0 /\ TypeOK
      /\ \A e \in Events : e # "stop" /\ Spend(e) => left'["stop"] = 0
  BY NoFault, NoStop DEF Ground, Rows, Undoubted, DataKept
<1>1. \A p \in Procs : pc[p] = "raised" => task[p] \in Jobs
  BY DEF Ground, Owned, Busy, AtWork
<1>2. ASSUME upload' = [upload EXCEPT ![j] = upload'[j]], left'["stop"] = 0,
             UNCHANGED <<pc, task>>,
             Promised(j)' => Promised(j),
             upload'[j] = "receiving" => j \in datasets',
             \A k \in Jobs \ {j} : k \in datasets => k \in datasets',
             Promised(j)' => (j \in datasets => j \in datasets'),
             UNCHANGED status
      PROVE  DataKept'
  <2>1. \A k \in Jobs \ {j} : upload'[k] = upload[k] /\ (Promised(k)' <=> Promised(k))
    BY <1>0, <1>2 DEF TypeOK, Promised
  <2>2. \A k \in Jobs : Promised(k)' => Promised(k) /\ (k \in datasets => k \in datasets')
    BY <1>2, <2>1
  <2>3. \A p \in Procs : pc'[p] = "raised" /\ Promised(task[p])' => task[p] \in BadData
    BY <1>1, <1>2, <2>2 DEF DataKept
  <2>4. \A k \in Jobs : upload'[k] = "receiving" => k \in datasets'
    BY <1>2, <2>1 DEF DataKept
  <2>5. QED
    BY <1>2, <2>2, <2>3, <2>4 DEF DataKept, Promised
<1>3. CASE Admit(j) BY <1>0, <1>2, <1>3 DEF Admit, Promised, TypeOK, rowVars, procVars
<1>4. CASE RejectFull(j) \/ RejectFiles(j)
  BY <1>0, <1>2, <1>4 DEF RejectFull, RejectFiles, Promised, TypeOK, rowVars, procVars
<1>5. CASE Publish(j) BY <1>0, <1>2, <1>5 DEF Publish, Promised, TypeOK, rowVars, procVars
<1>6. CASE Disown(j) \/ AbortUpload(j)
  BY <1>0, <1>2, <1>6, KnownEvents DEF Disown, AbortUpload, Promised, TypeOK, rowVars, procVars
<1>7. CASE CreateJob(j)
  <2>1. \A p \in Procs : task[p] # j
    BY <1>7 DEF CreateJob, Ground, Fresh, Unknown
  <2>2. /\ \A k \in Jobs \ {j} : upload'[k] = upload[k] /\ status'[k] = status[k]
        /\ Promised(j)' /\ status'[j] = "queued" /\ upload[j] = "receiving"
        /\ UNCHANGED <<datasets, pc, task, left>>
    BY <1>0, <1>7 DEF CreateJob, InsertRow, AfterCreate, procVars, Promised, TypeOK
  <2>3. \A k \in Jobs \ {j} : Promised(k)' <=> Promised(k)
    BY <2>2 DEF Promised
  <2>4. \A p \in Procs : pc'[p] = "raised" /\ Promised(task[p])' => task[p] \in BadData
    BY <1>1, <2>1, <2>2, <2>3 DEF DataKept
  <2>5. QED
    BY <2>2, <2>3, <2>4 DEF DataKept, Promised
<1>8. QED
  BY <1>0, <1>3, <1>4, <1>5, <1>6, <1>7
     DEF Submission, CreateJobUnread, PublishRaises, MarkUnpublished

(* A processor removes the files of a job that has ended.                   *)
LEMMA StepKeepsData ==
  ASSUME Ground, Rows, DataKept, NEW p \in Procs, NEW j \in Jobs, Step(p, j) \/ Fault(p, j)
  PROVE  DataKept'
<1> USE DEF TypeOK, Goto, At, Holds, rowVars
<1>0. ~Spend("fault") /\ TypeOK /\ left["stop"] = 0
  BY NoFault DEF Ground, Rows, DataKept
<1>1. CASE ClaimNext(p, j) \/ ClaimPopped(p, j)
  <2>1. CASE ClaimNext(p, j)
    BY <1>0, <2>1, DataFrame DEF ClaimNext, Oldest, Queued, TakeRow
  <2>2. CASE ClaimPopped(p, j)
    BY <1>0, <2>2, DataFrame DEF ClaimPopped, Queued, TakeRow
  <2>3. QED
    BY <1>1, <2>1, <2>2
<1>2. CASE DropPopped(p, j) \/ Begin(p, j) \/ Computed(p, j) \/ SaveReport(p, j)
  BY <1>0, <1>2, DataFrame DEF DropPopped, Begin, Computed, SaveReport
<1>3. CASE Run(p, j)
  <2>1. status[j] = "processing"
    BY <1>3, OthersKeep DEF Run, AtWork
  <2>2. (j \in datasets /\ j \notin BadData) \/ (Promised(j) => j \in BadData)
    BY <2>1 DEF DataKept
  <2>3. QED
    BY <1>0, <1>3, <2>2, DataFrame DEF Run
<1>4. CASE MarkCompleted(p, j)
  BY <1>0, <1>4, DataFrame DEF MarkCompleted, SetCompleted
<1>5. CASE MarkFailed(p, j)
  <2>1. Promised(j) => j \in BadData
    BY <1>5 DEF MarkFailed, DataKept
  <2>2. QED
    BY <1>0, <1>5, <2>1, DataFrame DEF MarkFailed, SetFailed
<1>6. CASE Clean(p, j)
  <2>1. status[j] \in Terminal /\ upload[j] # "receiving"
    BY <1>6 DEF Clean, Ground, Rows, Undoubted, Fresh, Unknown
  <2>2. QED
    BY <1>0, <1>6, <2>1, DataFrame DEF Clean, Terminal
<1>7. QED
  BY <1>0, <1>1, <1>2, <1>3, <1>4, <1>5, <1>6
     DEF Step, Fault, WriteRaises, ProgressUnread, CompletedUnread, ClaimUnread,
         MarkFailedRaises

(* The loop removes no files, for nobody stops it.                          *)
LEMMA LifeKeepsData ==
  ASSUME Ground, Rows, DataKept, NEW w \in Workers, Life(w)
  PROVE  DataKept'
<1>0. /\ ~Spend("fault") /\ ~Spend("stop") /\ TypeOK /\ left["stop"] = 0
      /\ \A e \in Events : e # "stop" /\ Spend(e) => left'["stop"] = 0
  BY NoFault, NoStop DEF Ground, Rows, DataKept
<1>1. CASE Pop(w) \/ OrphanEnds(w)
  BY <1>0, <1>1, DataFrame DEF Pop, OrphanEnds, TypeOK, Goto, rowVars
<1>2. CASE Start(w)
  <2>1. left'["stop"] = 0
    BY <1>0, <1>2, KnownEvents DEF Start
  <2>2. QED
    BY <1>0, <1>2, <2>1, DataFrame DEF Start, RequeuedStatus, TypeOK, Goto
<1>3. QED
  BY <1>0, <1>1, <1>2 DEF Life, StopIdle, LoopDies, StopRunning

(* With a single actor, crashes alone lose no dataset. (A worker that is     *)
(* stopped removes the dataset of a job the next one will be given.)         *)
LEMMA ActorKeepsData ==
  ASSUME OneActor, Budget["fault"] = 0, Budget["stop"] = 0
  PROVE  Spec => []FailsOnlyForBadData
<1>1. Init => DataKept
  BY DEF Init, DataKept, Promised
<1>2. Ground /\ Rows /\ DataKept /\ [Next]_vars => DataKept'
  <2> SUFFICES ASSUME Ground, Rows, DataKept, [Next]_vars PROVE DataKept'
    OBVIOUS
  <2>1. \A j \in Jobs : Submission(j) => DataKept'
    BY SubmissionKeepsData
  <2>2. \A p \in Procs, j \in Jobs : Step(p, j) \/ Fault(p, j) => DataKept'
    BY StepKeepsData
  <2>3. \A w \in Workers : Life(w) => DataKept'
    BY LifeKeepsData
  <2>4. ASSUME NEW p \in Procs, Crash(p) PROVE DataKept'
    <3>1. left'["stop"] = 0 /\ TypeOK
      BY <2>4, NoStop, KnownEvents DEF Crash, Ground
    <3>2. QED
      BY <2>4, <3>1, DataFrame DEF Crash, TypeOK, Goto, rowVars
  <2>5. UNCHANGED vars => DataKept'
    BY DEF vars, DataKept, Promised
  <2>6. QED
    BY <2>1, <2>2, <2>3, <2>4, <2>5, NextByGroup
<1>3. DataKept => FailsOnlyForBadData
  BY DEF DataKept, Promised, FailsOnlyForBadData
<1>4. QED
  BY <1>1, <1>2, <1>3, GroundCorrect, RowsCorrect, PTL DEF Spec

(* In broker mode a job is run but once, so its data is needed by the run    *)
(* that will be, or by the processor that has it.                            *)
DataUnused ==
  /\ \A j \in Jobs : upload[j] = "receiving" => j \in datasets
  /\ \A j \in Jobs : Promised(j) /\ runs[j] = 0 => j \in datasets
  /\ \A p \in Procs :
       pc[p] \in {"claimed", "running"} /\ Promised(task[p]) => task[p] \in datasets
  /\ \A p \in Procs : pc[p] = "raised" /\ Promised(task[p]) => task[p] \in BadData
  /\ \A j \in Jobs : Promised(j) /\ status[j] = "failed" => j \in BadData
  /\ left["fault"] = 0

(* What brokered jobs rely on: every run is somebody's, and the only one.    *)
Brokered == TypeOK /\ Fresh /\ Owned /\ Once

(* Steps that leave uploads alone.                                           *)
LEMMA UnusedFrame ==
  ASSUME DataUnused, UNCHANGED upload, left'["fault"] = 0,
         \A k \in Jobs : upload[k] = "receiving" \/ runs'[k] = 0 =>
           (runs'[k] = 0 => runs[k] = 0) /\ (k \in datasets => k \in datasets'),
         \A p \in Procs : pc'[p] \in {"claimed", "running"} =>
           (Promised(task'[p]) => task'[p] \in datasets'),
         \A p \in Procs : pc'[p] = "raised" =>
           \/ pc[p] = "raised" /\ task'[p] = task[p]
           \/ Promised(task'[p]) => task'[p] \in BadData,
         \A k \in Jobs :
           status'[k] = "failed" => status[k] = "failed" \/ (Promised(k) => k \in BadData)
  PROVE  DataUnused'
<1>1. \A k : Promised(k)' = Promised(k)
  BY DEF Promised
<1>2. \A p \in Procs : pc'[p] = "raised" /\ Promised(task'[p]) => task'[p] \in BadData
  BY DEF DataUnused
<1>3. QED
  BY <1>1, <1>2 DEF DataUnused, Promised

(* No write raises.                                                         *)
LEMMA NoFaultLeft ==
  ASSUME TypeOK, DataUnused
  PROVE  /\ ~Spend("fault")
         /\ \A e \in Events : e # "fault" /\ Spend(e) => left'["fault"] = 0
BY KnownEvents DEF TypeOK, DataUnused, Spend

(* A submission touches no files but its own.                               *)
LEMMA SubmissionUsesNone ==
  ASSUME Brokered, Mode = "broker", DataUnused, NEW j \in Jobs, Submission(j)
  PROVE  DataUnused'
<1>0. /\ ~Spend("fault") /\ TypeOK /\ left["fault"] = 0
      /\ \A e \in Events : e # "fault" /\ Spend(e) => left'["fault"] = 0
  BY NoFaultLeft DEF Brokered, DataUnused
<1>1. \A p \in Procs : AtWork(p) => task[p] \in Jobs
  BY DEF Brokered, Owned, Busy
<1>2. ASSUME upload' = [upload EXCEPT ![j] = upload'[j]], left'["fault"] = 0,
             UNCHANGED <<pc, task, runs>>,
             \A k \in Jobs \ {j} :
               (k \in datasets => k \in datasets') /\ status'[k] = status[k],
             upload'[j] = "receiving" => j \in datasets',
             Promised(j)' => \/ upload[j] = "receiving"
                             \/ Promised(j) /\ status'[j] = status[j],
             Promised(j)' => status'[j] # "failed" \/ status'[j] = status[j],
             Promised(j)' => (j \in datasets => j \in datasets')
      PROVE  DataUnused'
  <2>1. \A k \in Jobs \ {j} : upload'[k] = upload[k] /\ (Promised(k)' <=> Promised(k))
    BY <1>0, <1>2 DEF TypeOK, Promised
  <2>2. upload[j] = "receiving" => j \in datasets /\ \A p \in Procs : task[p] # j
    BY DEF Brokered, Fresh, Unknown, DataUnused
  <2>3. \A k \in Jobs : upload'[k] = "receiving" => k \in datasets'
    BY <1>2, <2>1 DEF DataUnused
  <2>4. \A k \in Jobs : Promised(k)' /\ runs'[k] = 0 => k \in datasets'
    BY <1>2, <2>1, <2>2 DEF DataUnused
  <2>5. \A p \in Procs : AtWork(p) /\ Promised(task[p])' =>
          Promised(task[p]) /\ (task[p] \in datasets => task[p] \in datasets')
    BY <1>1, <1>2, <2>1, <2>2
  <2>6. \A k \in Jobs : Promised(k)' /\ status'[k] = "failed" => k \in BadData
    <3>1. upload[j] = "receiving" => status[j] = "none"
      BY DEF Brokered, Fresh, Unknown
    <3>2. QED
      BY <1>2, <2>1, <3>1 DEF DataUnused
  <2>7. QED
    BY <1>2, <2>3, <2>4, <2>5, <2>6 DEF DataUnused, AtWork, Promised
<1>3. CASE Admit(j) BY <1>0, <1>2, <1>3 DEF Admit, Promised, TypeOK, rowVars, procVars
<1>4. CASE RejectFull(j) \/ RejectFiles(j)
  BY <1>0, <1>2, <1>4 DEF RejectFull, RejectFiles, Promised, TypeOK, rowVars, procVars
<1>5. CASE Publish(j) BY <1>0, <1>2, <1>5 DEF Publish, Promised, TypeOK, rowVars, procVars
<1>6. CASE Disown(j) \/ AbortUpload(j)
  BY <1>0, <1>2, <1>6, KnownEvents DEF Disown, AbortUpload, Promised, TypeOK, rowVars, procVars
<1>7. CASE CreateJob(j)
  BY <1>0, <1>2, <1>7 DEF CreateJob, InsertRow, AfterCreate, Promised, TypeOK, procVars
<1>8. CASE MarkUnpublished(j)
  BY <1>0, <1>2, <1>8 DEF MarkUnpublished, SetFailed, Promised, TypeOK, rowVars, procVars
<1>9. QED
  BY <1>0, <1>3, <1>4, <1>5, <1>6, <1>7, <1>8 DEF Submission, CreateJobUnread, PublishRaises

(* The dataset p removes on the way out is one that only p could use.        *)
LEMMA OwnDataset ==
  ASSUME Brokered, DataUnused, NEW p \in Procs, Busy(p)
  PROVE  /\ task[p] \in Jobs /\ runs[task[p]] # 0 /\ upload[task[p]] # "receiving"
         /\ \A q \in Procs \ {p} : Busy(q) => task[q] # task[p]
<1>1. \A q \in Procs : Busy(q) => task[q] \in Jobs /\ run[q] \in 1 .. runs[task[q]]
  BY DEF Brokered, Owned
<1>2. \A j \in Jobs : runs[j] \in Nat /\ runs[j] <= 1
  BY DEF Brokered, TypeOK, Once, AtMostOneRun
<1>3. \A q \in Procs : Busy(q) => run[q] = 1 /\ runs[task[q]] # 0
  BY <1>1, <1>2
<1>4. QED
  BY <1>1, <1>3 DEF Brokered, Owned, Fresh, Unknown

(* A processor removes no files but those of its run.                       *)
LEMMA StepUsesOwn ==
  ASSUME Brokered, Mode = "broker", DataUnused, NEW p \in Procs, NEW j \in Jobs,
         Step(p, j) \/ Fault(p, j)
  PROVE  DataUnused'
<1> USE DEF TypeOK, Goto, At, Holds, rowVars
<1>0. /\ ~Spend("fault") /\ TypeOK /\ left["fault"] = 0
      /\ \A q \in Procs :
           pc[q] \in {"claimed", "running"} => (Promised(task[q]) => task[q] \in datasets)
  BY NoFaultLeft DEF Brokered, DataUnused
<1>1. CASE ClaimPopped(p, j)
  <2>1. runs[j] = 0 /\ (Promised(j) => j \in datasets)
    BY <1>1 DEF ClaimPopped, Brokered, Once, OncePopped, DataUnused
  <2>2. QED
    BY <1>0, <1>1, <2>1, UnusedFrame DEF ClaimPopped, TakeRow
<1>2. CASE DropPopped(p, j) \/ Begin(p, j) \/ Computed(p, j) \/ SaveReport(p, j)
  <2>1. /\ UNCHANGED <<upload, status, runs, datasets, left>>
        /\ \A q \in Procs : pc'[q] \in {"claimed", "running"} =>
             pc[q] \in {"claimed", "running"} /\ task'[q] = task[q]
        /\ \A q \in Procs : pc'[q] = "raised" => pc[q] = "raised" /\ task'[q] = task[q]
    BY <1>0, <1>2 DEF DropPopped, Begin, Computed, SaveReport
  <2>2. QED
    BY <1>0, <2>1, UnusedFrame
<1>3. CASE Run(p, j)
  <2>1. (j \in datasets /\ j \notin BadData) \/ (Promised(j) => j \in BadData)
    BY <1>3 DEF Run, DataUnused
  <2>2. QED
    BY <1>0, <1>3, <2>1, UnusedFrame DEF Run
<1>4. CASE MarkCompleted(p, j)
  BY <1>0, <1>4, UnusedFrame DEF MarkCompleted, SetCompleted
<1>5. CASE MarkFailed(p, j)
  <2>1. Promised(j) => j \in BadData
    BY <1>5 DEF MarkFailed, DataUnused
  <2>2. QED
    BY <1>0, <1>5, <2>1, UnusedFrame DEF MarkFailed, SetFailed
<1>6. CASE Clean(p, j)
  <2>1. /\ runs[j] # 0 /\ upload[j] # "receiving"
        /\ \A q \in Procs \ {p} : Busy(q) => task[q] # j
    BY <1>6, OwnDataset DEF Clean, Busy
  <2>2. QED
    BY <1>0, <1>6, <2>1, UnusedFrame DEF Clean, Busy, AtWork
<1>7. QED
  BY <1>0, <1>1, <1>2, <1>3, <1>4, <1>5, <1>6
     DEF Step, Fault, WriteRaises, ProgressUnread, CompletedUnread, ClaimUnread,
         MarkFailedRaises, ClaimNext, ClaimsFromRows

(* The loop removes the files of the run it breaks off.                     *)
LEMMA LifeUsesOwn ==
  ASSUME Brokered, DataUnused, NEW w \in Workers, Life(w)
  PROVE  DataUnused'
<1> USE DEF TypeOK, Goto, Leave, rowVars
<1>0. /\ ~Spend("fault") /\ TypeOK /\ left["fault"] = 0 /\ w \in Procs
      /\ \A e \in Events : e # "fault" /\ Spend(e) => left'["fault"] = 0
      /\ \A q \in Procs :
           pc[q] \in {"claimed", "running"} => (Promised(task[q]) => task[q] \in datasets)
  BY NoFaultLeft DEF Brokered, DataUnused, Procs
<1>1. CASE Pop(w) \/ OrphanEnds(w)
  <2>1. /\ UNCHANGED <<upload, status, runs, datasets, left>>
        /\ \A q \in Procs : pc'[q] \in {"claimed", "running"} =>
             pc[q] \in {"claimed", "running"} /\ task'[q] = task[q]
        /\ \A q \in Procs : pc'[q] = "raised" => pc[q] = "raised" /\ task'[q] = task[q]
    BY <1>0, <1>1 DEF Pop, OrphanEnds
  <2>2. QED
    BY <1>0, <2>1, UnusedFrame
<1>2. CASE Start(w) \/ StopIdle(w)
  <2>1. left'["fault"] = 0
    BY <1>0, <1>2, KnownEvents DEF Start, StopIdle
  <2>2. UNCHANGED <<upload, runs, datasets>>
    BY <1>2 DEF Start, StopIdle
  <2>3. \A q \in Procs : pc'[q] \in {"claimed", "running", "raised"} =>
          pc'[q] = pc[q] /\ task'[q] = task[q]
    BY <1>0, <1>2 DEF Start, StopIdle
  <2>4. \A k \in Jobs : status'[k] = "failed" => status[k] = "failed"
    BY <1>0, <1>2 DEF Start, RequeuedStatus, StopIdle
  <2> HIDE DEF TypeOK, Goto, Leave, rowVars
  <2>5. QED
    BY <1>0, <2>1, <2>2, <2>3, <2>4, UnusedFrame
<1>3. CASE \E j \in Jobs : StopRunning(w, j)
  <2>1. PICK j \in Jobs : StopRunning(w, j)
    BY <1>3
  <2>2. /\ runs[j] # 0 /\ upload[j] # "receiving"
        /\ \A q \in Procs \ {w} : Busy(q) => task[q] # j
    BY <1>0, <2>1, OwnDataset DEF StopRunning, Holds, Busy, AtWork
  <2>3. left'["fault"] = 0
    BY <1>0, <2>1, KnownEvents DEF StopRunning
  <2>4. QED
    BY <1>0, <2>1, <2>2, <2>3, UnusedFrame DEF StopRunning, Busy, AtWork
<1>4. QED
  BY <1>0, <1>1, <1>2, <1>3 DEF Life, LoopDies

(* In broker mode stops lose no dataset either: the job is not run again.    *)
LEMMA BrokerKeepsData ==
  ASSUME Mode = "broker", Budget["fault"] = 0
  PROVE  Spec => []FailsOnlyForBadData
<1>1. Init => DataUnused
  BY DEF Init, DataUnused, Promised
<1>2. Brokered /\ DataUnused /\ [Next]_vars => DataUnused'
  <2> SUFFICES ASSUME Brokered, DataUnused, [Next]_vars PROVE DataUnused'
    OBVIOUS
  <2>1. \A j \in Jobs : Submission(j) => DataUnused'
    BY SubmissionUsesNone
  <2>2. \A p \in Procs, j \in Jobs : Step(p, j) \/ Fault(p, j) => DataUnused'
    BY StepUsesOwn
  <2>3. \A w \in Workers : Life(w) => DataUnused'
    BY LifeUsesOwn
  <2>4. ASSUME NEW p \in Procs, Crash(p) PROVE DataUnused'
    <3>1. left'["fault"] = 0 /\ TypeOK
      BY <2>4, NoFaultLeft, KnownEvents DEF Crash, Brokered
    <3>2. QED
      BY <2>4, <3>1, UnusedFrame DEF Crash, DataUnused, TypeOK, Goto, rowVars
  <2>5. UNCHANGED vars => DataUnused'
    BY DEF vars, DataUnused, Promised
  <2>6. QED
    BY <2>1, <2>2, <2>3, <2>4, <2>5, NextByGroup
<1>3. DataUnused => FailsOnlyForBadData
  BY DEF DataUnused, Promised, FailsOnlyForBadData
<1>4. QED
  BY <1>1, <1>2, <1>3, TypeCorrect, FreshCorrect, OwnedCorrect, OnceCorrect, PTL
     DEF Spec, Brokered

(* While no database call raises, an accepted job fails only if the engine   *)
(* cannot read its data: with a single actor that is not stopped, and in     *)
(* broker mode whatever is lost or stopped.                                  *)
THEOREM FailuresAreBadData ==
  ASSUME Budget["fault"] = 0,
         Mode = "broker" \/ (OneActor /\ Budget["stop"] = 0)
  PROVE  Spec => []FailsOnlyForBadData
BY ActorKeepsData, BrokerKeepsData

-----------------------------------------------------------------------------
(* The id of a job that waits, in broker mode *)

(* No more is left of an event than there was.                               *)
Within == \A e \in Events : left[e] <= Budget[e]

(* Nothing adds to what is left.                                            *)
LEMMA WithinCorrect == Spec => []Within
<1>1. Init => Within
  BY AsyncJobsAssumption DEF Init, Within
<1>2. TypeOK /\ Within /\ [Next]_vars => Within'
  <2> SUFFICES ASSUME TypeOK, Within, [Next]_vars PROVE Within'
    OBVIOUS
  <2>0. /\ \A e \in Events : Spend(e) => Within'
        /\ UNCHANGED left => Within'
    <3>1. ASSUME NEW e \in Events, Spend(e), NEW f \in Events PROVE left'[f] <= Budget[f]
      <4>1. /\ left[f] \in Nat /\ Budget[f] \in Nat /\ left[f] <= Budget[f]
            /\ left'[f] = IF f = e THEN left[f] - 1 ELSE left[f]
        BY <3>1, AsyncJobsAssumption DEF Spend, Within, TypeOK
      <4>2. QED
        BY <4>1
    <3>2. QED
      BY <3>1 DEF Within
  <2>1. \A j \in Jobs : Submission(j) => Within'
    BY <2>0, KnownEvents
       DEF Submission, Admit, RejectFull, RejectFiles, CreateJob, CreateJobUnread, Publish,
           PublishRaises, MarkUnpublished, Disown, AbortUpload
  <2>2. \A p \in Procs, j \in Jobs : Step(p, j) \/ Fault(p, j) => Within'
    BY <2>0, KnownEvents
       DEF Step, ClaimNext, ClaimPopped, DropPopped, Begin, Run, Computed, SaveReport,
           MarkCompleted, MarkFailed, Clean, Fault, WriteRaises, ProgressUnread,
           CompletedUnread, ClaimUnread, MarkFailedRaises
  <2>3. \A w \in Workers : Life(w) => Within'
    BY <2>0, KnownEvents DEF Life, Pop, Start, StopIdle, OrphanEnds, LoopDies, StopRunning
  <2>4. \A p \in Procs : Crash(p) => Within'
    BY <2>0, KnownEvents DEF Crash
  <2>5. UNCHANGED vars => Within'
    BY <2>0 DEF vars
  <2>6. QED
    BY <2>1, <2>2, <2>3, <2>4, <2>5, NextByGroup
<1>3. QED
  BY <1>1, <1>2, TypeCorrect, PTL DEF Spec

(* What was spent once is never regained.                                    *)
LEMMA StaysDisturbed ==
  ASSUME TypeOK, Within, Undisturbed'
  PROVE  /\ UNCHANGED left => Undisturbed
         /\ ~Spend("crash") /\ ~Spend("stop") /\ ~Spend("fault")
         /\ Spend("start") => Undisturbed
BY AsyncJobsAssumption, KnownEvents DEF TypeOK, Within, Undisturbed, Spend, Events

(* While nothing was disturbed each job in progress is with its processor,   *)
(* no reply of the broker was lost, and no BLPOP is left without a worker.   *)
InGoodHands(j) == \E p \in Procs : task[p] = j /\ AtWork(p)
OnTheWay(j) ==
  \/ \E i \in 1 .. Len(broker) : broker[i] = j
  \/ \E p \in Procs : Popped(p, j)

Delivered ==
  /\ orphans = {}
  /\ \A p \in Procs : pc[p] = "cleaning" => status[task[p]] \in Terminal
  /\ \A p \in Procs : pc[p] # "dying"
  /\ \A j \in Jobs : status[j] = "processing" => InGoodHands(j)
  /\ \A j \in Jobs :
       upload[j] = "accepted" /\ status[j] = "queued" => OnTheWay(j) \/ InGoodHands(j)

(* A submission that ends well has its identifier on the list.              *)
LEMMA SubmissionDelivers ==
  ASSUME TypeOK, Fresh, Owned, Delivered, Mode = "broker", NEW j \in Jobs, Submission(j),
         ~Spend("fault")
  PROVE  Delivered'
<1>1. CASE Admit(j) \/ RejectFull(j) \/ RejectFiles(j) \/ Disown(j) \/ AbortUpload(j)
  <2>1. /\ UNCHANGED <<pc, task, orphans, broker, status>>
        /\ \A k \in Jobs : upload'[k] = "accepted" => upload[k] = "accepted"
    BY <1>1 DEF Admit, RejectFull, RejectFiles, Disown, AbortUpload, rowVars, procVars, TypeOK
  <2>2. QED
    BY <2>1 DEF Delivered, InGoodHands, OnTheWay, Popped, AtWork
<1>2. CASE CreateJob(j)
  <2>1. \A p \in Procs : task[p] # j
    BY <1>2 DEF CreateJob, Fresh, Unknown
  <2>2. /\ \A k \in Jobs \ {j} : upload'[k] = upload[k] /\ status'[k] = status[k]
        /\ upload'[j] = "created" /\ status'[j] = "queued"
        /\ UNCHANGED <<pc, task, orphans, broker>>
    BY <1>2 DEF CreateJob, InsertRow, AfterCreate, procVars, TypeOK
  <2>3. \A p \in Procs : pc[p] = "cleaning" => task[p] \in Jobs \ {j}
    BY <2>1 DEF Owned, Busy
  <2>4. QED
    BY <2>2, <2>3 DEF Delivered, InGoodHands, OnTheWay, Popped, AtWork
<1>3. CASE Publish(j)
  <2>1. /\ Len(broker) \in Nat /\ Len(broker') = Len(broker) + 1
        /\ broker'[Len(broker')] = j
        /\ \A i \in 1 .. Len(broker) : broker'[i] = broker[i]
    BY <1>3, AppendFacts DEF Publish, TypeOK
  <2>2. OnTheWay(j)'
    BY <2>1 DEF OnTheWay
  <2>3. /\ \A k \in Jobs \ {j} : upload'[k] = upload[k]
        /\ UNCHANGED <<pc, task, orphans, status>>
    BY <1>3 DEF Publish, rowVars, procVars, TypeOK
  <2>4. \A k \in Jobs : (OnTheWay(k) => OnTheWay(k)') /\ InGoodHands(k)' = InGoodHands(k)
    BY <2>1, <2>3 DEF OnTheWay, Popped, InGoodHands, AtWork
  <2>5. QED
    BY <2>2, <2>3, <2>4 DEF Delivered
<1>4. CASE MarkUnpublished(j)
  <2>1. /\ upload'[j] = "unavailable" /\ status'[j] = "failed"
        /\ \A k \in Jobs \ {j} : upload'[k] = upload[k] /\ status'[k] = status[k]
        /\ UNCHANGED <<pc, task, orphans, broker>>
    BY <1>4 DEF MarkUnpublished, SetFailed, procVars, TypeOK
  <2>2. \A p \in Procs : pc[p] = "cleaning" => task[p] \in Jobs
    BY DEF Owned, Busy
  <2>3. QED
    BY <2>1, <2>2 DEF Delivered, InGoodHands, OnTheWay, Popped, AtWork, Terminal
<1>5. QED
  BY <1>1, <1>2, <1>3, <1>4 DEF Submission, CreateJobUnread, PublishRaises

(* Steps of one processor from place to place, with or without a write.      *)
LEMMA StepDelivers ==
  ASSUME TypeOK, Owned, Delivered, Mode = "broker", NEW p \in Procs, NEW j \in Jobs,
         Step(p, j) \/ Fault(p, j), ~Spend("fault")
  PROVE  Delivered'
<1>0. \A q \in Procs : pc[q] = "cleaning" \/ AtWork(q) => task[q] \in Jobs
  BY DEF Owned, Busy
<1>1. CASE ClaimPopped(p, j)
  <2>1. /\ status' = [status EXCEPT ![j] = "processing"] /\ status[j] = "queued"
        /\ pc' = [pc EXCEPT ![p] = "claimed"] /\ task[p] = j /\ pc[p] = "popped"
        /\ task' = [task EXCEPT ![p] = j]
        /\ UNCHANGED <<upload, orphans, broker>>
    BY <1>1 DEF ClaimPopped, TakeRow, Goto, Holds
  <2>2. /\ task' = task /\ pc'[p] = "claimed" /\ \A q \in Procs \ {p} : pc'[q] = pc[q]
        /\ status'[j] = "processing" /\ \A k \in Jobs \ {j} : status'[k] = status[k]
    BY <2>1 DEF TypeOK
  <2>3. InGoodHands(j)'
    BY <2>1, <2>2 DEF InGoodHands, AtWork
  <2>4. \A k \in Jobs \ {j} :
          (OnTheWay(k) => OnTheWay(k)') /\ (InGoodHands(k) => InGoodHands(k)')
    BY <2>1, <2>2 DEF OnTheWay, Popped, InGoodHands, AtWork
  <2>5. QED
    BY <1>0, <2>1, <2>2, <2>3, <2>4 DEF Delivered, Terminal
<1>2. CASE DropPopped(p, j) \/ Clean(p, j)
  <2>1. /\ pc[p] \in {"popped", "cleaning"} /\ task[p] = j /\ status[j] # "queued"
        /\ pc'[p] = "idle"
        /\ \A q \in Procs \ {p} : pc'[q] = pc[q] /\ task'[q] = task[q]
        /\ UNCHANGED <<upload, status, orphans, broker>>
    <3>1. pc[p] = "cleaning" => status[task[p]] \in Terminal
      BY DEF Delivered
    <3>2. pc[p] # "dying"
      BY DEF Delivered
    <3>3. QED
      BY <1>2, <3>1, <3>2 DEF DropPopped, Clean, At, Holds, Goto, Terminal, rowVars, TypeOK
  <2>2. \A k \in Jobs : InGoodHands(k) => InGoodHands(k)'
    BY <2>1 DEF InGoodHands, AtWork
  <2>3. \A k \in Jobs : OnTheWay(k) => OnTheWay(k)' \/ k = j
    BY <2>1 DEF OnTheWay, Popped
  <2>4. QED
    BY <2>1, <2>2, <2>3 DEF Delivered
<1>3. ASSUME pc[p] # "popped", NEW to \in PC, Goto(p, to), task[p] = j,
             AtWork(p), UNCHANGED <<upload, orphans, broker, task>>,
             \/ AtWork(p)' /\ UNCHANGED status
             \/ to = "cleaning" /\ \E s \in Terminal : status' = [status EXCEPT ![j] = s]
      PROVE  Delivered'
  <2>1. /\ pc'[p] = to /\ \A q \in Procs \ {p} : pc'[q] = pc[q]
        /\ to # "dying"
    BY <1>3 DEF Goto, TypeOK, AtWork
  <2>2. \A k \in Jobs : OnTheWay(k) => OnTheWay(k)'
    BY <1>3, <2>1 DEF OnTheWay, Popped
  <2>3. CASE AtWork(p)' /\ UNCHANGED status
    <3>1. to # "cleaning"
      BY <2>1, <2>3 DEF AtWork
    <3>2. \A k \in Jobs : InGoodHands(k) => InGoodHands(k)'
      BY <1>3, <2>1, <2>3 DEF InGoodHands, AtWork
    <3>3. QED
      BY <1>3, <2>1, <2>2, <2>3, <3>1, <3>2 DEF Delivered
  <2>4. CASE to = "cleaning" /\ \E s \in Terminal : status' = [status EXCEPT ![j] = s]
    <3>1. status'[j] \in Terminal /\ \A k \in Jobs \ {j} : status'[k] = status[k]
      BY <2>4 DEF TypeOK
    <3>2. \A k \in Jobs \ {j} : InGoodHands(k) => InGoodHands(k)'
      BY <1>3, <2>1 DEF InGoodHands, AtWork
    <3>3. QED
      BY <1>0, <1>3, <2>1, <2>2, <3>1, <3>2 DEF Delivered, Terminal
  <2>5. QED
    BY <1>3, <2>3, <2>4
<1>4. CASE Begin(p, j) \/ Run(p, j) \/ Computed(p, j) \/ SaveReport(p, j)
  <2>1. PICK to \in {"running", "computed", "saving", "saved", "raised"} :
          At(p, j, pc[p], to) /\ AtWork(p)
    BY <1>4 DEF Begin, Run, Computed, SaveReport, At, AtWork
  <2>2. AtWork(p)' /\ to \in PC
    BY <2>1 DEF At, Goto, AtWork, TypeOK, PC
  <2>3. QED
    BY <1>3, <1>4, <2>1, <2>2
       DEF Begin, Run, Computed, SaveReport, At, AtWork, Holds, rowVars
<1>5. CASE MarkCompleted(p, j) \/ MarkFailed(p, j)
  <2>1. AtWork(p) /\ At(p, j, pc[p], "cleaning") /\ "cleaning" \in PC
    BY <1>5 DEF MarkCompleted, MarkFailed, At, AtWork, PC
  <2>2. \E s \in Terminal : status' = [status EXCEPT ![j] = s]
    BY <1>5 DEF MarkCompleted, MarkFailed, SetCompleted, SetFailed, Terminal
  <2>3. QED
    BY <1>3, <1>5, <2>1, <2>2 DEF MarkCompleted, MarkFailed, At, AtWork, Holds
<1>6. QED
  BY <1>1, <1>2, <1>4, <1>5
     DEF Step, Fault, WriteRaises, ProgressUnread, CompletedUnread, ClaimUnread,
         MarkFailedRaises, ClaimNext, ClaimsFromRows

(* An identifier that leaves the list is in the hands of a worker.          *)
LEMMA LifeDelivers ==
  ASSUME TypeOK, Owned, Delivered, NEW w \in Workers, Life(w),
         ~Spend("fault"), ~Spend("stop")
  PROVE  Delivered'
<1>0. /\ \A q \in Procs : pc[q] = "cleaning" \/ AtWork(q) => task[q] \in Jobs
      /\ w \in Procs
  BY DEF Owned, Busy, Procs
<1>1. CASE Pop(w)
  <2> DEFINE j == Head(broker)
  <2>1. /\ Len(broker) \in Nat /\ Len(broker') = Len(broker) - 1 /\ j = broker[1]
        /\ \A i \in 1 .. Len(broker') : broker'[i] = broker[i + 1]
    BY <1>1, TailFacts DEF Pop, TypeOK
  <2>2. /\ pc[w] = "idle" /\ pc'[w] = "popped" /\ task'[w] = j
        /\ \A q \in Procs \ {w} : pc'[q] = pc[q] /\ task'[q] = task[q]
        /\ UNCHANGED <<upload, status, orphans>>
    BY <1>0, <1>1 DEF Pop, Goto, rowVars, TypeOK
  <2> HIDE DEF j
  <2>3. ASSUME NEW k \in Jobs, OnTheWay(k) PROVE OnTheWay(k)'
    <3>1. CASE k = j
      BY <1>0, <2>2, <3>1 DEF OnTheWay, Popped
    <3>2. CASE k # j /\ \E i \in 1 .. Len(broker) : broker[i] = k
      <4>1. PICK i \in 1 .. Len(broker) : broker[i] = k
        BY <3>2
      <4>2. i - 1 \in 1 .. Len(broker') /\ broker'[i - 1] = broker[(i - 1) + 1]
        BY <2>1, <3>2, <4>1
      <4>3. broker'[i - 1] = k
        BY <2>1, <4>1, <4>2
      <4>4. QED
        BY <4>2, <4>3 DEF OnTheWay
    <3>3. CASE \E p \in Procs : Popped(p, k)
      BY <2>2, <3>3 DEF OnTheWay, Popped
    <3>4. QED
      BY <2>3, <3>1, <3>2, <3>3 DEF OnTheWay
  <2>4. \A k \in Jobs : InGoodHands(k) => InGoodHands(k)'
    BY <2>2 DEF InGoodHands, AtWork
  <2>5. QED
    BY <2>2, <2>3, <2>4 DEF Delivered
<1>2. CASE Start(w)
  <2>1. /\ pc[w] = "off" /\ pc'[w] = "idle" /\ \A q \in Procs \ {w} : pc'[q] = pc[q]
        /\ \A k \in Jobs :
             status'[k] = IF status[k] = "processing" THEN "queued" ELSE status[k]
        /\ UNCHANGED <<upload, task, orphans, broker>>
    BY <1>0, <1>2 DEF Start, RequeuedStatus, Goto, TypeOK
  <2>2. \A k \in Jobs :
          (OnTheWay(k) => OnTheWay(k)') /\ (InGoodHands(k) => InGoodHands(k)')
    BY <2>1 DEF OnTheWay, Popped, InGoodHands, AtWork
  <2>3. QED
    BY <1>0, <2>1, <2>2 DEF Delivered, Terminal
<1>3. QED
  BY <1>1, <1>2 DEF Life, StopIdle, StopRunning, LoopDies, OrphanEnds, Delivered

(* In broker mode, while nothing has crashed, was stopped or raised, the id  *)
(* of every accepted job that waits is in the list or with a worker.         *)
THEOREM IdsInTransit ==
  ASSUME Mode = "broker"
  PROVE  Spec => []IdInTransit
<1> DEFINE Inv == Undisturbed => Delivered
           Base == TypeOK /\ Fresh /\ Owned /\ Within
<1>1. Init => Inv
  BY DEF Init, Delivered
<1>2. Base /\ Inv /\ [Next]_vars => Inv'
  <2> SUFFICES ASSUME Base, Inv, [Next]_vars, Undisturbed' PROVE Delivered'
    OBVIOUS
  <2>0. /\ TypeOK /\ Fresh /\ Owned
        /\ UNCHANGED left => Delivered
        /\ ~Spend("crash") /\ ~Spend("stop") /\ ~Spend("fault")
        /\ Spend("start") => Delivered
    BY StaysDisturbed
  <2> HIDE DEF Inv, Base
  <2>1. ASSUME NEW j \in Jobs, Submission(j) PROVE Delivered'
    <3>1. UNCHANGED left
      BY <2>0, <2>1
         DEF Submission, Admit, RejectFull, RejectFiles, CreateJob, CreateJobUnread, Publish,
             PublishRaises, MarkUnpublished, Disown, AbortUpload
    <3>2. QED
      BY <2>0, <2>1, <3>1, SubmissionDelivers
  <2>2. ASSUME NEW p \in Procs, NEW j \in Jobs, Step(p, j) \/ Fault(p, j) PROVE Delivered'
    <3>1. UNCHANGED left
      BY <2>0, <2>2
         DEF Step, ClaimNext, ClaimPopped, DropPopped, Begin, Run, Computed, SaveReport,
             MarkCompleted, MarkFailed, Clean, Fault, WriteRaises, ProgressUnread,
             CompletedUnread, ClaimUnread, MarkFailedRaises
    <3>2. QED
      BY <2>0, <2>2, <3>1, StepDelivers
  <2>3. ASSUME NEW w \in Workers, Life(w) PROVE Delivered'
    <3>1. Delivered
      BY <2>0, <2>3 DEF Life, Pop, Start, StopIdle, OrphanEnds, LoopDies, StopRunning
    <3>2. QED
      BY <2>0, <2>3, <3>1, LifeDelivers
  <2>4. \A p \in Procs : ~Crash(p)
    BY <2>0 DEF Crash
  <2>5. ASSUME UNCHANGED vars PROVE Delivered'
    BY <2>0, <2>5 DEF vars, Delivered, InGoodHands, OnTheWay, Popped, AtWork
  <2>6. QED
    BY <2>1, <2>2, <2>3, <2>4, <2>5, NextByGroup
<1>3. TypeOK /\ Inv => IdInTransit
  <2> SUFFICES ASSUME TypeOK, Delivered, NEW j \in Jobs,
                      upload[j] = "accepted", status[j] = "queued"
               PROVE  \/ \E i \in DOMAIN broker : broker[i] = j
                      \/ \E p \in Procs : task[p] = j
    BY DEF IdInTransit
  <2>1. OnTheWay(j) \/ InGoodHands(j)
    BY DEF Delivered
  <2>2. DOMAIN broker = 1 .. Len(broker)
    BY DEF TypeOK
  <2>3. QED
    BY <2>1, <2>2 DEF OnTheWay, InGoodHands, Popped
<1>4. QED
  BY <1>1, <1>2, <1>3, TypeCorrect, FreshCorrect, OwnedCorrect, WithinCorrect, PTL DEF Spec
=============================================================================

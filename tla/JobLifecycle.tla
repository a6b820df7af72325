--------------------------- MODULE JobLifecycle ---------------------------
(***************************************************************************)
(* What an asynchronous assessment promises its client: a job is accepted  *)
(* once, is worked on by one processor at a time, may be given back to the *)
(* queue, and ends exactly once, either with the report it names or with   *)
(* an error.  Nothing here says how jobs are stored, which process works   *)
(* on them, or in how many steps.                                          *)
(***************************************************************************)
CONSTANTS
  Jobs,      \* the jobs
  Reports,   \* the reports a job may end with
  NoReport   \* what the row of a job without a report names

VARIABLES
  status,   \* the client-visible status of every job
  result    \* the report the row of the job names

jobVars == <<status, result>>

Terminal == {"completed", "failed"}
Status == {"none", "queued", "processing"} \cup Terminal

JobInit ==
  /\ status = [j \in Jobs |-> "none"]
  /\ result = [j \in Jobs |-> NoReport]

MoveTo(j, from, to) ==
  /\ status[j] = from
  /\ status' = [status EXCEPT ![j] = to]

Submit(j) == MoveTo(j, "none", "queued") /\ UNCHANGED result
Claim(j) == MoveTo(j, "queued", "processing") /\ UNCHANGED result
Complete(j) ==
  /\ MoveTo(j, "processing", "completed")
  /\ \E r \in Reports : result' = [result EXCEPT ![j] = r]
Fail(j) == MoveTo(j, "processing", "failed") /\ UNCHANGED result

\* A job the broker never received ends without having been processed.
Withdraw(j) == MoveTo(j, "queued", "failed") /\ UNCHANGED result

\* A restarted worker gives back every job that was being processed.
GiveBack ==
  /\ status' = [j \in Jobs |->
                  IF status[j] = "processing" THEN "queued" ELSE status[j]]
  /\ UNCHANGED result

JobNext ==
  \/ GiveBack
  \/ \E j \in Jobs :
       Submit(j) \/ Claim(j) \/ Complete(j) \/ Fail(j) \/ Withdraw(j)

JobSpec == JobInit /\ [][JobNext]_jobVars
=============================================================================

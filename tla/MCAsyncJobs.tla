---------------------------- MODULE MCAsyncJobs ----------------------------
(* Values for TLC of the constants of AsyncJobs: one tenant or two, one bad  *)
(* upload, and a budget of environment events per run.                       *)
EXTENDS AsyncJobs

CONSTANTS j1, j2, j3, j4, t1, t2

OneTenant == [j \in Jobs |-> t1]
TwoTenants == [j \in Jobs |-> IF j = j3 THEN t2 ELSE t1]

Times(start, crash, stop, fault) ==
  [e \in Events |-> CASE e = "start" -> start [] e = "crash" -> crash
                      [] e = "stop" -> stop [] e = "fault" -> fault]

Crashes == Times(3, 2, 0, 0)
Quiet == Times(0, 0, 0, 0)
Anything == Times(2, 1, 1, 1)
BrokerEvents == Times(2, 1, 1, 1)
OneStop == Times(2, 0, 1, 0)
OneRestart == Times(2, 1, 0, 0)
OneStart == Times(1, 0, 0, 0)
=============================================================================

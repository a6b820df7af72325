------------------------ MODULE MCScheduledDispatch ------------------------
(* Values for TLC of the constants of ScheduledDispatch.                     *)
EXTENDS ScheduledDispatch

Daily == [cadence |-> "daily", slot |-> 1, weekday |-> 0]
Weekly == [cadence |-> "weekly", slot |-> 0, weekday |-> 1]

AllDaily == [s \in Schedules |-> Daily]
AllWeekly == [s \in Schedules |-> Weekly]

Times(crash, fault, edit, kill) ==
  [e \in Events |-> CASE e = "crash" -> crash [] e = "fault" -> fault
                      [] e = "edit" -> edit [] e = "kill" -> kill]

Everything == Times(1, 2, 1, 0)
Edits == Times(1, 0, 2, 0)
OneFault == Times(0, 1, 0, 1)
=============================================================================

------------------------------ MODULE RunTimes ------------------------------
(* When a scheduled assessment runs: instants of the UTC calendar, the plan  *)
(* of a schedule, and the next run the repository computes for it.           *)
EXTENDS Integers

CONSTANT SlotsPerDay   \* minutes of a day that the model tells apart

ASSUME RunTimesAssumption == SlotsPerDay \in Nat \ {0}

\* Days are counted from a Monday.
Instant == [day : Nat, slot : 0 .. (SlotsPerDay - 1)]
Weekday(day) == day % 7

Before(t, u) == t.day < u.day \/ (t.day = u.day /\ t.slot < u.slot)
NotAfter(t, u) == t = u \/ Before(t, u)
Later(t, u) == IF Before(u, t) THEN t ELSE u

\* weekday is run_day_of_week, which a daily plan does not look at.
Plan == [cadence : {"daily", "weekly"}, slot : 0 .. (SlotsPerDay - 1), weekday : 0 .. 6]

\* Mutant: the run of today is never taken.
NextRunNotToday(plan, t) ==
  LET ahead == IF plan.cadence = "daily" THEN 0 ELSE (plan.weekday - Weekday(t.day)) % 7
      period == IF plan.cadence = "daily" THEN 1 ELSE 7
      candidate == [day |-> t.day + ahead, slot |-> plan.slot]
  IN  IF candidate.day <= t.day THEN [candidate EXCEPT !.day = @ + period] ELSE candidate

\* Mutant: a weekly run that is over comes up again the next day.
NextRunTomorrow(plan, t) ==
  LET ahead == IF plan.cadence = "daily" THEN 0 ELSE (plan.weekday - Weekday(t.day)) % 7
      candidate == [day |-> t.day + ahead, slot |-> plan.slot]
  IN  IF NotAfter(candidate, t) THEN [candidate EXCEPT !.day = @ + 1] ELSE candidate

\* _compute_next_run_at
NextRunAt(plan, t) ==
  LET ahead == IF plan.cadence = "daily" THEN 0 ELSE (plan.weekday - Weekday(t.day)) % 7
      period == IF plan.cadence = "daily" THEN 1 ELSE 7
      candidate == [day |-> t.day + ahead, slot |-> plan.slot]
  IN  IF NotAfter(candidate, t) THEN [candidate EXCEPT !.day = @ + period] ELSE candidate

(* What it is meant to be: a run of the plan after t, and none before it.    *)
IsRun(plan, t) ==
  t.slot = plan.slot /\ (plan.cadence = "weekly" => Weekday(t.day) = plan.weekday)

EarliestRunAfter(plan, t, next) ==
  /\ IsRun(plan, next) /\ Before(t, next)
  /\ \A day \in t.day .. next.day, slot \in 0 .. (SlotsPerDay - 1) :
       LET u == [day |-> day, slot |-> slot]
       IN  IsRun(plan, u) /\ Before(t, u) => NotAfter(next, u)
=============================================================================

--------------------------- MODULE OrgAssessment ---------------------------
(***************************************************************************)
(* The assessment of an organisation from its CSV files                    *)
(* (core/assessment.py, scoring/engine.py), and of the same organisation   *)
(* again after one of its systems came to depend on one more thing.        *)
(*                                                                         *)
(* org is an organisation as Bottlenecks describes it, with two fields     *)
(* more: names, how many organisations its file lists, and context, <<>>   *)
(* or <<the context of a workflow>>.  report is <<>> when it was refused;  *)
(* its field all is what the detector found, of which the report of the    *)
(* code only has the number and the top.                                   *)
(***************************************************************************)
EXTENDS Bottlenecks, Recommendations, WorkflowReadiness

CONSTANTS
  Orgs,      \* the organisations that are assessed first
  Pairs,     \* <<s, d>>: system s may come to depend on d
  MaxNeeds   \* bound on the dependencies of an organisation

VARIABLES org, report

orgVars == <<org, report>>

Areas == {"engineering", "sales", "operations", "finance", "people", "facilities",
          "legal_compliance", "product", "customer_success", "marketing"}

-----------------------------------------------------------------------------
(* The scoring engine *)

AreaOf(constraint) == IF constraint.kind = "facility" THEN "facilities" ELSE "operations"

\* In quarters. The engine reads the clock after the detector has: of day days
\* day - 1 whole ones are left.
Proximity(day) ==
  CASE day = NoDate -> 4
    [] day # NoDate /\ day <= 30 -> 8
    [] day > 30 /\ day <= 90 -> 6
    [] day > 90 /\ day <= 180 -> 4
    [] day > 180 /\ day <= 365 -> 3
    [] day > 365 -> 2

\* Severity 15, times chance, times proximity: in 400ths of a point.
ConstraintPenalty(c) == 75 * c.chance * Proximity(c.day)

Penalty(constraints, risks) ==
  Sum([i \in DOMAIN constraints |-> ConstraintPenalty(constraints[i])])
    + Sum([i \in DOMAIN risks |-> risks[i].weight])

Magnitude(signals) == Sum([i \in DOMAIN signals |-> signals[i].percent])

\* A fraction: 1, and a 200th of the mean magnitude of the area's signals; 2 at
\* most, and nothing at least: below -200 it is negative.
GrowthIntensity(signals, area) ==
  LET relevant == SelectSeq(signals, LAMBDA s : area \in s.areas)
      n == Len(relevant)
  IN  IF n = 0 THEN [num |-> 1, den |-> 1]
      ELSE [num |-> AtMost(400 * n, 200 * n + Magnitude(relevant)), den |-> 200 * n]

AreaScore(constraints, risks, signals, area) ==
  LET mine == SelectSeq(constraints, LAMBDA c : AreaOf(c) = area)
      intensity == GrowthIntensity(signals, area)
      penalty == Penalty(mine, IF area = "operations" THEN risks ELSE <<>>) * intensity.num
  IN  AtLeast(0, Rounded(40000 * intensity.den - penalty, 40 * intensity.den))

-----------------------------------------------------------------------------
(* The report *)

\* Those with a finding or a signal; all of them when there is none.
AssessedAreas(constraints, risks, signals) ==
  LET found == {AreaOf(constraints[i]) : i \in DOMAIN constraints}
               \cup (IF risks # <<>> THEN {"operations"} ELSE {})
               \cup UNION {signals[i].areas : i \in DOMAIN signals}
  IN  IF found = {} THEN Areas ELSE found

\* Sorted by their risk_score, the highest first.  Nothing sets it, all are
\* nought, and the sort is stable: the risks stay in the order they were found.
TopRisks(risks) == FirstOf(5, risks)

LevelCount(risks, level) == Cardinality({i \in DOMAIN risks : risks[i].level = level})

Refused(o) == o.names # 1

Report(o) ==
  LET constraints == Constraints(o)
      risks == Risks(o)
      areas == AssessedAreas(constraints, risks, o.signals)
      scores == [a \in areas |-> AreaScore(constraints, risks, o.signals, a)]
      overall == Mean(scores, Cardinality(areas))
      recommended == Recommendations(constraints, risks)
      base == [overall |-> overall, grade |-> Grade(overall), areas |-> scores,
               constraints |-> constraints, all |-> risks, top |-> TopRisks(risks),
               risks |-> Len(risks), critical |-> LevelCount(risks, "critical"),
               high |-> LevelCount(risks, "high"), recommendations |-> recommended,
               actions |-> ImmediateActions(recommended), workflow |-> <<>>]
  IN  IF o.context = <<>> THEN base ELSE WithContext(base, o.context[1])

Assessed(o) == IF Refused(o) THEN <<>> ELSE <<Report(o)>>

-----------------------------------------------------------------------------
(* Behaviour *)

OrgInit == org \in Orgs /\ report = Assessed(org)

AddDependency(i, d) ==
  /\ <<org.systems[i].id, d>> \in Pairs
  /\ d \notin ToSet(org.systems[i].needs)
  /\ Sum([k \in DOMAIN org.systems |-> Len(org.systems[k].needs)]) < MaxNeeds
  /\ org' = [org EXCEPT !.systems[i].needs = Append(@, d)]
  /\ report' = Assessed(org')

OrgNext == \E i \in DOMAIN org.systems, pair \in Pairs : AddDependency(i, pair[2])

OrgSpec == OrgInit /\ [][OrgNext]_orgVars

-----------------------------------------------------------------------------
(* Properties *)

Levels == {"medium", "high", "critical"}
Rank == [medium |-> 1, high |-> 2, critical |-> 3]

\* The growth of an area makes its penalties heavier or lighter, but penalties
\* they remain: the mean magnitude of its signals is not below -200.
Penalised(signals, area) == GrowthIntensity(signals, area).num >= 0

(* OrgTypeOK: there is a report just when the file names one organisation,   *)
(* its scores are no less than nought, and no more than 100 where penalties  *)
(* are penalties, and it keeps five risks and fifteen recommendations at     *)
(* most.                                                                     *)
OrgTypeOK ==
  /\ org.names \in 0 .. 2
  /\ (report = <<>>) = Refused(org)
  /\ \A i \in DOMAIN report :
       /\ report[i].overall \in Nat
       /\ DOMAIN report[i].areas \subseteq Areas
       /\ \A a \in DOMAIN report[i].areas :
            /\ report[i].areas[a] \in Nat
            /\ Penalised(org.signals, a) => report[i].areas[a] <= 1000
       /\ Len(report[i].top) <= 5
       /\ Len(report[i].recommendations) <= Most

Kept(risk, risks) ==
  \E i \in DOMAIN risks :
    /\ risks[i].category = risk.category
    /\ risks[i].target = risk.target
    /\ risk.affected \subseteq risks[i].affected
    /\ Rank[risks[i].level] >= Rank[risk.level]
    /\ risks[i].weight >= risk.weight

(* NoBetter: one more dependency takes no constraint and no risk away, makes *)
(* none of them lighter, and raises the score of no area whose penalties are *)
(* penalties (the detector's cascades and concentrations, and the engine,    *)
(* whose growth multiplier has no lower bound).  Nothing is said of the      *)
(* overall score: an area that is assessed only now can raise the mean.      *)
NoBetter ==
  \A old \in ToSet(report), new \in ToSet(report') :
    /\ new.constraints = old.constraints
    /\ \A i \in DOMAIN old.all : Kept(old.all[i], new.all)
    /\ \A a \in DOMAIN old.areas \cap DOMAIN new.areas :
         Penalised(org.signals, a) => new.areas[a] <= old.areas[a]
    /\ new.critical >= old.critical

(* DependenciesNeverHelp: no step that adds a dependency makes a report      *)
(* better, see NoBetter.                                                     *)
DependenciesNeverHelp == [][NoBetter]_orgVars

(* GravestRisksOnTop: no risk that is left out of the top risks of a report  *)
(* weighs more than one that is shown (RiskIndicator.risk_score is said to   *)
(* be probability times impact times severity, and the report to show the    *)
(* highest).                                                                 *)
GravestRisksOnTop ==
  \A r \in ToSet(report) :
    \A shown \in DOMAIN r.top, out \in DOMAIN r.all \ DOMAIN r.top :
      r.top[shown].weight >= r.all[out].weight
=============================================================================

-------------------------- MODULE WorkflowReadiness --------------------------
(***************************************************************************)
(* The readiness of one workflow (core/workflow_readiness.py): five        *)
(* pillars, scored from a report and the documents the workflow has, then  *)
(* moved by the evidence that was submitted with it.  Points are tenths.   *)
(*                                                                         *)
(* A report is a record with at least the fields                           *)
(*   overall, grade, constraints, top, risks, critical, workflow           *)
(* (see OrgAssessment and Assessments); workflow is <<>> until the context *)
(* is applied, then <<[context, pillars, score, grade, rollup]>>.          *)
(* Constraints and risks are those of Bottlenecks.  No risk it finds is    *)
(* about governance, and all of them count as dependency risks.            *)
(***************************************************************************)
EXTENDS Integers, Sequences, FiniteSets, Scores

Pillars == {"stability", "resilience", "oversight", "control", "blast"}
BlastRadii == {"low", "medium", "high", "critical"}
Answers == {"yes", "no", "unknown"}
ControlAreas == {"approval_gate", "decision_logging", "evidence_retention",
                 "exception_handling", "periodic_review"}
ControlStates == {"missing", "documented", "operating", "verified"}

\* The context of a workflow says which of its documents exist: whether id and
\* name are more than blanks, which systems it touches, how many control
\* requirements there are.
WorkflowContext ==
  [id : BOOLEAN, name : BOOLEAN, owner : BOOLEAN, role : BOOLEAN, escalation : BOOLEAN,
   fallback : BOOLEAN, override : BOOLEAN, tolerance : BOOLEAN, reversible : BOOLEAN,
   systems : SUBSET STRING, controls : Nat, blast : BlastRadii]

-----------------------------------------------------------------------------
(* The pillars *)

Unless(documented, penalty) == IF documented THEN 0 ELSE penalty
Given(condition, penalty) == IF condition THEN penalty ELSE 0

\* All constraints, or those on systems the workflow touches.
RelevantConstraints(constraints, systems) ==
  {i \in DOMAIN constraints : systems = {} \/ constraints[i].id \in systems}

\* Cascades and concentrations concern every workflow.
RelevantRisks(risks, systems) ==
  {i \in DOMAIN risks :
     \/ systems = {}
     \/ risks[i].affected \cap systems # {}
     \/ risks[i].category \in {"cascade_risk", "concentration_risk"}}

BlastPenalty == [low |-> 50, medium |-> 120, high |-> 220, critical |-> 300]

PillarScores(report, context) ==
  [stability |->
     Bounded(report.overall + 50
       - AtMost(550, 50 * Len(report.constraints) + 15 * report.risks + 60 * report.critical
                     + Unless(context.reversible, 80))),
   resilience |->
     Bounded(report.overall + 20
       - AtMost(550, 80 * Cardinality(RelevantConstraints(report.constraints, context.systems))
                     + 60 * Cardinality(RelevantRisks(report.top, context.systems))
                     + Unless(context.systems # {}, 120))),
   oversight |->
     Bounded(1000 - Unless(context.owner, 120) - Unless(context.escalation, 200)
       - Unless(context.fallback, 150) - Unless(context.override, 100)
       - Given(report.critical > 0, 50)),
   control |->
     Bounded(1000
       - AtMost(500, Unless(context.controls > 0, 250) + Given(context.controls = 1, 100)
                     + Given(report.critical > 0, 60))),
   blast |->
     Bounded(1000 - BlastPenalty[context.blast] - Unless(context.tolerance, 100)
       - Unless(context.reversible, 100) - Unless(context.fallback, 100))]

WorkflowScore(pillars) ==
  Rounded(pillars.stability + pillars.resilience + pillars.oversight + pillars.control
            + pillars.blast, 5)

\* The organisation as far as this one workflow shows it.
Rollup(score) == [average |-> score, lowest |-> score, highest |-> score, grade |-> Grade(score)]

Readiness(context, pillars) ==
  LET score == WorkflowScore(pillars)
  IN  [context |-> context, pillars |-> pillars, score |-> score, grade |-> Grade(score),
       rollup |-> Rollup(score)]

WithContext(report, context) ==
  [report EXCEPT !.workflow = <<Readiness(context, PillarScores(report, context))>>]

-----------------------------------------------------------------------------
(* The evidence *)

Numbers == Nat \cup {NotGiven}

Posture == [coverage : Numbers, age : Numbers, audit : Answers, linked : Answers]

\* There is no posture, or one.
Evidence ==
  [controls : [ControlAreas -> ControlStates \cup {"unknown"}], posture : Seq(Posture),
   owner : Answers, systems : Answers, escalation : Answers, fallback : Answers,
   override : Answers, rollback : Answers, approvals : Numbers, logs : Numbers]

Answered(answer, gain, loss) == CASE answer = "yes" -> gain [] answer = "no" -> -loss [] OTHER -> 0

ControlDelta ==
  [missing |-> -60, documented |-> -15, operating |-> 25, verified |-> 45, unknown |-> 0]

ControlsDelta(controls) ==
  LET delta == [a \in ControlAreas |-> ControlDelta[controls[a]]]
  IN  delta.approval_gate + delta.decision_logging + delta.evidence_retention
        + delta.exception_handling + delta.periodic_review

\* Coverage is in tenths of a percent.
CoverageDelta(coverage) ==
  CASE coverage = NotGiven -> 0
    [] coverage >= 900 -> 60
    [] coverage >= 750 /\ coverage < 900 -> 30
    [] coverage >= 500 /\ coverage < 750 -> -20
    [] coverage >= 0 /\ coverage < 500 -> -80

AgeDelta(days) ==
  CASE days = NotGiven -> 0
    [] days >= 0 /\ days <= 30 -> 40
    [] days > 30 /\ days <= 90 -> 10
    [] days > 90 /\ days <= 180 -> -30
    [] days > 180 -> -70

PostureDelta(p) ==
  CoverageDelta(p.coverage) + AgeDelta(p.age) + Answered(p.audit, 50, 80) + Answered(p.linked, 30, 50)

CountDelta(count, enough, gain, few, none) ==
  CASE count = NotGiven -> 0
    [] count >= enough -> gain
    [] count > 0 /\ count < enough -> -few
    [] count = 0 -> -none

\* The counts only matter without a posture.
TraceDelta(e) ==
  IF e.posture # <<>> THEN PostureDelta(e.posture[1])
  ELSE CountDelta(e.approvals, 3, 60, 40, 120) + CountDelta(e.logs, 10, 50, 30, 100)

EvidenceDelta(e) ==
  [stability |-> Answered(e.fallback, 30, 50) + Answered(e.rollback, 30, 60),
   resilience |-> Answered(e.systems, 40, 80),
   oversight |->
     Answered(e.owner, 40, 100) + Answered(e.escalation, 50, 100) + Answered(e.override, 30, 60),
   control |-> ControlsDelta(e.controls) + TraceDelta(e),
   blast |-> Answered(e.fallback, 50, 70) + Answered(e.rollback, 60, 100)]

Moved(pillars, evidence) ==
  LET delta == EvidenceDelta(evidence)
  IN  [p \in Pillars |-> Bounded(pillars[p] + delta[p])]

\* Mutant: the rollup keeps the score from before the evidence.
WithEvidenceButRollup(report, evidence) ==
  IF evidence = <<>> \/ report.workflow = <<>> THEN report
  ELSE LET before == report.workflow[1]
       IN  [report EXCEPT !.workflow =
              <<[Readiness(before.context, Moved(before.pillars, evidence[1])) EXCEPT
                   !.rollup = before.rollup]>>]

WithEvidence(report, evidence) ==
  IF evidence = <<>> \/ report.workflow = <<>> THEN report
  ELSE LET before == report.workflow[1]
       IN  [report EXCEPT !.workflow =
              <<Readiness(before.context, Moved(before.pillars, evidence[1]))>>]
=============================================================================

---------------------------- MODULE Assessments ----------------------------
(***************************************************************************)
(* Workflows that are assessed without CSV files: the two endpoints that   *)
(* take one (api/main.py), the assessment (run_workflow_assessment in      *)
(* core/assessment.py), the reference to it that is published, and the     *)
(* summary for operators (core/operator_summary.py).                       *)
(***************************************************************************)
EXTENDS DocumentOperations, SequencesExt

Reference == [org : STRING, workflow : STRING, env : STRING]

\* owner is the reference to the workflow that a canonical one carries, which
\* has to agree with it.
ControlRefs ==
  {ref \in [org : STRING, workflow : STRING, env : STRING, area : STRING, canonical : BOOLEAN,
            owner : Reference, implementation : {"planned", "in_progress", "implemented", "waived"},
            linkage : {"missing", "linked", "verified", "not_applicable"}] :
     ref.canonical => ref.owner = [org |-> ref.org, workflow |-> ref.workflow, env |-> ref.env]}

\* The workflow of the context is called "w".  Of the optional parts there is
\* none or one; the baseline is in tenths; texts says whether all texts are
\* summaries.  Only "ref", which answers with the reference, has a type.
Request ==
  {r \in [endpoint : {"report", "ref"}, org : STRING, context : WorkflowContext,
          workflowRef : Seq(Reference), controlRefs : Seq(ControlRefs),
          baseline : (0 .. 1000) \cup {NotGiven}, evidence : Seq(Evidence),
          learning : Seq(LearningInputs), profile : Seq(Profiles),
          type : {"workflow_readiness", "operational_learning_suitability"}, texts : BOOLEAN] :
     r.endpoint = "report" => r.type = "workflow_readiness"}

CONSTANTS
  Tenant,     \* the organisation of the user
  Requests,   \* the requests that are sent first
  Ladders     \* Ladders[f]: the values of the number f of a profile, worst first

ASSUME RequestsAssumption == Requests \subseteq Request
ASSUME LaddersAssumption ==
  /\ DOMAIN Ladders \subseteq {"volume", "reviewed", "sources", "coverage", "age"}
  /\ \A f \in DOMAIN Ladders :
       /\ Ladders[f] \in Seq(Nat)
       /\ \A k \in DOMAIN Ladders[f] \ {1} :
            IF f = "age" THEN Ladders[f][k] <= Ladders[f][k - 1]
            ELSE Ladders[f][k - 1] <= Ladders[f][k]

VARIABLES request, report, refusal, summary

assessVars == <<request, report, refusal, summary>>

-----------------------------------------------------------------------------
(* What the endpoints refuse *)

Owners(r) ==
  {ref.owner : ref \in {ref \in ToSet(r.controlRefs) : ref.canonical}}

References(r) == ToSet(r.workflowRef) \cup ToSet(r.controlRefs) \cup Owners(r)

TenantMismatch(r) == r.org # Tenant \/ \E ref \in References(r) : ref.org # Tenant
WorkflowMismatch(r) == \E ref \in References(r) : ref.workflow # "w"
EnvironmentMismatch(r) == Cardinality({ref.env : ref \in References(r)}) > 1

RefRefusal(r) ==
  CASE r.workflowRef = <<>> -> "workflow_ref_required"
    [] r.workflowRef # <<>> /\ r.org # r.workflowRef[1].org -> "organization_mismatch"
    [] r.workflowRef # <<>> /\ r.org = r.workflowRef[1].org /\ r.org # Tenant -> "tenant_mismatch"
    [] r.workflowRef # <<>> /\ r.org = r.workflowRef[1].org /\ r.org = Tenant ->
         IF r.type = "operational_learning_suitability" /\ r.learning = <<>> /\ r.profile = <<>>
         THEN "learning_not_assessed" ELSE "none"

\* Mutant: the workflow need not be the one of the context.
AlignmentRefusalOfOrgs(r) ==
  IF TenantMismatch(r) THEN "tenant_mismatch"
  ELSE IF EnvironmentMismatch(r) THEN "environment_mismatch" ELSE "none"

AlignmentRefusal(r) ==
  IF TenantMismatch(r) THEN "tenant_mismatch"
  ELSE IF WorkflowMismatch(r) THEN "workflow_mismatch"
  ELSE IF EnvironmentMismatch(r) THEN "environment_mismatch" ELSE "none"

Refusal(r) ==
  LET early == IF r.endpoint = "ref" THEN RefRefusal(r) ELSE "none"
      aligned == AlignmentRefusal(r)
  IN  CASE early # "none" -> early
        [] early = "none" /\ aligned # "none" -> aligned
        [] early = "none" /\ aligned = "none" -> IF r.texts THEN "none" ELSE "texts_not_summaries"

-----------------------------------------------------------------------------
(* The assessment *)

ControlStateOf(ref) ==
  CASE ~ref.canonical -> "missing"
    [] ref.canonical /\ ref.implementation = "implemented" ->
         IF ref.linkage = "verified" THEN "verified" ELSE "operating"
    [] ref.canonical /\ ref.implementation = "in_progress" -> "documented"
    [] OTHER -> "missing"

\* The first reference to a control area counts.
StateOfArea(refs, area) ==
  LET about == {i \in DOMAIN refs : refs[i].area = area}
  IN  IF about = {} THEN "unknown"
      ELSE ControlStateOf(refs[CHOOSE i \in about : \A j \in about : i <= j])

Linked(refs, states) ==
  Cardinality({i \in DOMAIN refs : refs[i].canonical /\ refs[i].linkage \in states})

EvidenceOfControls(refs) ==
  [controls |-> [area \in ControlAreas |-> StateOfArea(refs, area)],
   posture |->
     << [coverage |-> Rounded(1000 * Linked(refs, {"verified"}), Len(refs)), age |-> NotGiven,
         audit |-> "no",
         linked |-> IF Linked(refs, {"linked", "verified"}) > 0 THEN "yes" ELSE "no"] >>,
   owner |-> "no", systems |-> "unknown", escalation |-> "unknown", fallback |-> "unknown",
   override |-> "unknown", rollback |-> "unknown", approvals |-> 0, logs |-> 0]

\* What the request gives, else what its profile says, else its controls.
EvidenceFor(r) ==
  CASE r.evidence # <<>> -> r.evidence
    [] r.evidence = <<>> /\ r.profile # <<>> -> <<EvidenceOf(r.profile[1])>>
    [] r.evidence = <<>> /\ r.profile = <<>> ->
         IF r.controlRefs = <<>> THEN <<>> ELSE <<EvidenceOfControls(r.controlRefs)>>

LearningInputsFor(r) ==
  IF r.learning # <<>> \/ r.profile = <<>> THEN r.learning
  ELSE <<LearningInputsOf(r.profile[1])>>

BaselineDelta == [low |-> 40, medium |-> 0, high |-> -60, critical |-> -100]

Baseline(r) ==
  LET c == r.context
      documents == <<c.owner, c.role, c.systems # {}, c.escalation, c.controls > 0, c.fallback,
                     c.override, c.tolerance, c.reversible>>
      count == Cardinality({i \in DOMAIN documents : documents[i]})
      derived == Rounded(4050 + 350 * count + 9 * BaselineDelta[c.blast], 9)
  IN  IF r.baseline # NotGiven THEN r.baseline ELSE AtLeast(350, AtMost(850, derived))

StatusOfScore(score) ==
  CASE score >= 800 -> "ready"
    [] score >= 650 /\ score < 800 -> "watch"
    [] score >= 500 /\ score < 650 -> "at_risk"
    [] OTHER -> "blocked"

\* The reference to be published, for a report without one.
AssessmentRef(rep, r) ==
  LET eval == rep.learning[1].eval
      score == IF r.type = "operational_learning_suitability"
               THEN IF rep.learning[1].blocked THEN AtMost(eval.score, 490) ELSE eval.score
               ELSE rep.workflow[1].score
  IN  IF r.workflowRef = <<>> THEN <<>>
      ELSE << [type |-> r.type, score |-> score, grade |-> Grade(score),
               status |-> StatusOfScore(score), org |-> rep.org,
               workflow |-> r.workflowRef[1]] >>

\* A score of nought counts as none, and gives way to the baseline.
ScoreOr(score, baseline) == IF score = 0 THEN baseline ELSE score

Run(r) ==
  LET first == [org |-> r.org, overall |-> Baseline(r), grade |-> Grade(Baseline(r)),
                constraints |-> <<>>, top |-> <<>>, risks |-> 0, critical |-> 0,
                workflow |-> <<>>, workflowRef |-> r.workflowRef, learning |-> <<>>,
                claims |-> IF r.profile = <<>> THEN <<>> ELSE ClaimsOf(r.profile[1]), ref |-> <<>>]
      rated == WithEvidence(WithContext(first, r.context), EvidenceFor(r))
      inputs == LearningInputsFor(r)
      whole == [rated EXCEPT
                  !.learning = IF inputs = <<>> THEN <<>> ELSE <<Suitability(inputs[1])>>,
                  !.overall = ScoreOr(rated.workflow[1].score, Baseline(r)),
                  !.grade = rated.workflow[1].grade]
  IN  [whole EXCEPT !.ref = AssessmentRef(whole, r)]

-----------------------------------------------------------------------------
(* The summary *)

Aligned(rep) ==
  /\ \A ref \in ToSet(rep.workflowRef) : ref.workflow = "w" /\ ref.org = rep.org
  /\ rep.ref # <<>> =>
       /\ rep.workflowRef # <<>>
       /\ rep.ref[1].type = "workflow_readiness"
       /\ rep.ref[1].org = rep.org
       /\ rep.ref[1].workflow = rep.workflowRef[1]
       /\ rep.ref[1].score = rep.workflow[1].score
       /\ rep.ref[1].grade = rep.workflow[1].grade

Summarisable(rep) ==
  /\ rep.workflow # <<>>
  /\ rep.workflow[1].context.id /\ rep.workflow[1].context.name
  /\ DOMAIN rep.workflow[1].pillars = Pillars
  /\ \A p \in Pillars : rep.workflow[1].pillars[p] \in 0 .. 1000
  /\ rep.workflow[1].score \in 0 .. 1000
  /\ Aligned(rep)

-----------------------------------------------------------------------------
(* Requests that are better than another *)

Above(ladder, x) == {ladder[k] : k \in {k \in DOMAIN ladder \ {1} : ladder[k - 1] = x}}

GovernanceLadders ==
  [basis |-> <<"operator", "owner">>, rights |-> <<"missing", "partial", "complete">>,
   provenance |-> <<"missing", "partial", "complete">>,
   redaction |-> <<"missing", "partial", "complete">>,
   risk |-> <<"critical", "high", "medium", "low">>]

BetterClaims(c) ==
  (UNION {{[c EXCEPT !.states[v] = s] : s \in Above(ClaimStates, c.states[v])} : v \in Reviews})
  \cup (IF c.lacking > c.core THEN {[c EXCEPT !.lacking = @ - 1]} ELSE {})
  \cup (IF c.core > 0 THEN {[c EXCEPT !.lacking = @ - 1, !.core = @ - 1]} ELSE {})

\* One "no" became "yes", one number, completeness or review is a step better.
BetterProfiles(p) ==
  {[p EXCEPT !.answers[q] = "yes"] : q \in {q \in Questions : p.answers[q] = "no"}}
  \cup (UNION {{[p EXCEPT ![f] = x] : x \in Above(Ladders[f], p[f])} : f \in DOMAIN Ladders})
  \cup (UNION {{[p EXCEPT !.governance[f] = x] :
                  x \in Above(GovernanceLadders[f], p.governance[f])} :
                 f \in DOMAIN GovernanceLadders})
  \cup (IF p.claims = <<>> THEN {}
        ELSE {[p EXCEPT !.claims[1] = c] : c \in BetterClaims(p.claims[1])})

Confirmations == {"owner", "systems", "escalation", "fallback", "override", "rollback"}

BetterEvidence(e) ==
  {[e EXCEPT ![q] = "yes"] : q \in {q \in Confirmations : e[q] = "no"}}
  \cup {[e EXCEPT !.approvals = x] : x \in Above(<<0, 1, 3>>, e.approvals)}
  \cup {[e EXCEPT !.logs = x] : x \in Above(<<0, 1, 10>>, e.logs)}

BetterRef(ref) ==
  {[ref EXCEPT !.implementation = x] :
     x \in Above(<<"planned", "in_progress", "implemented">>, ref.implementation)}
  \cup {[ref EXCEPT !.linkage = x] : x \in Above(<<"missing", "linked", "verified">>, ref.linkage)}

Better(r) ==
  (IF r.profile = <<>> THEN {}
   ELSE {[r EXCEPT !.profile[1] = p] : p \in BetterProfiles(r.profile[1])})
  \cup (IF r.evidence = <<>> THEN {}
        ELSE {[r EXCEPT !.evidence[1] = e] : e \in BetterEvidence(r.evidence[1])})
  \cup (UNION {{[r EXCEPT !.controlRefs[i] = ref] : ref \in BetterRef(r.controlRefs[i])} :
                 i \in DOMAIN r.controlRefs})

-----------------------------------------------------------------------------
(* Behaviour *)

Answer(r) ==
  /\ refusal' = Refusal(r)
  /\ report' = IF Refusal(r) = "none" THEN <<Run(r)>> ELSE <<>>

AssessInit ==
  /\ request \in Requests
  /\ report = IF Refusal(request) = "none" THEN <<Run(request)>> ELSE <<>>
  /\ refusal = Refusal(request)
  /\ summary = "unasked"

\* The same workflow is assessed again, with something better to say.
Improve ==
  /\ request' \in Better(request)
  /\ Answer(request')
  /\ summary' = "unasked"

\* The summary of the stored report is asked for.
Summarise ==
  /\ report # <<>> /\ summary = "unasked"
  /\ summary' = IF Summarisable(report[1]) THEN "given" ELSE "refused"
  /\ UNCHANGED <<request, report, refusal>>

AssessNext == Improve \/ Summarise

AssessSpec == AssessInit /\ [][AssessNext]_assessVars

-----------------------------------------------------------------------------
(* Properties *)

(* AssessTypeOK: there is a report just when nothing refused the request.    *)
AssessTypeOK ==
  /\ (report = <<>>) = (refusal # "none")
  /\ summary \in {"unasked", "given", "refused"}
  /\ \A i \in DOMAIN report : report[i].overall \in 0 .. 1000

Position(status) == CHOOSE k \in DOMAIN Statuses : Statuses[k] = status

(* NoWorse: a request that says "yes" where the last one said "no", or is    *)
(* better in a number, a review or a completeness, gets no lower score of    *)
(* the workflow, of operational learning or of its claims, and no lower      *)
(* status; but for a weak candidate for training, which the code calls       *)
(* unsuitable as soon as it is suitable for evaluation.  An answer that was  *)
(* unknown is another matter: to know more can cost points.                  *)
NoWorse ==
  \A old \in ToSet(report), new \in ToSet(report') :
    /\ new.overall >= old.overall
    /\ \A a \in ToSet(old.learning), b \in ToSet(new.learning) :
         /\ Position(b.status) >= Position(a.status)
         /\ Position(b.eval.status) >= Position(a.eval.status)
         /\ \/ Position(b.training.status) >= Position(a.training.status)
            \/ a.training.status = "weak_candidate" /\ b.status = "eval_suitable"
         /\ b.eval.score >= a.eval.score /\ b.training.score >= a.training.score
    /\ \A a \in ToSet(old.claims), b \in ToSet(new.claims) :
         b.score >= a.score /\ Position(b.status) >= Position(a.status)

(* ImprovingNeverHurts: no step to a better request makes the report worse.  *)
ImprovingNeverHurts == [][NoWorse]_assessVars

(* OneScore: a report shows one score: its overall score is that of the      *)
(* workflow, of the rollup and of the reference that is published, with the  *)
(* same grade; and the reference of a workflow whose learning is blocked     *)
(* never says better than blocked (the score is copied in four steps, and    *)
(* a score of nought is taken for none: no workflow may come down to it).    *)
OneScore ==
  \A rep \in ToSet(report) :
    LET w == rep.workflow[1]
    IN  /\ rep.overall = w.score /\ rep.grade = w.grade
        /\ w.rollup =
             [average |-> w.score, lowest |-> w.score, highest |-> w.score, grade |-> w.grade]
        /\ \A ref \in ToSet(rep.ref) :
             IF ref.type = "workflow_readiness" THEN ref.score = w.score /\ ref.grade = w.grade
             ELSE /\ rep.learning # <<>>
                  /\ rep.learning[1].blocked => ref.status = "blocked"

(* WorkflowSummarised: the summary of a stored report is refused only if the *)
(* reference it published is about learning, or a name is blank: whatever    *)
(* else build_operator_summary tests, the endpoints have made sure of.       *)
WorkflowSummarised ==
  summary = "refused" =>
    \/ \E ref \in ToSet(report[1].ref) : ref.type = "operational_learning_suitability"
    \/ ~request.context.id \/ ~request.context.name
=============================================================================

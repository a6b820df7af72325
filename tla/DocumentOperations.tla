------------------------- MODULE DocumentOperations -------------------------
(***************************************************************************)
(* What a profile of document operations (core/document_operations.py)     *)
(* says as evidence, as inputs of operational learning, and of its claims. *)
(***************************************************************************)
EXTENDS Integers, Sequences, WorkflowReadiness, LearningSuitability

Questions == {"closed", "escalated", "signoff", "redaction", "sop", "outcome", "rules",
              "evidence", "owner", "systems", "sla"}

Reviews == {"source", "phi", "redaction", "governance", "approval", "rate", "downstream",
            "savings"}

\* Lowest first: missing and blocked, waiting for a review, ready.
ClaimStates == <<"missing", "review_required", "ready">>

\* The states of the reviews, how many evidence classes are lacking, and how
\* many of the core ones.
ClaimsProfile ==
  {c \in [states : [Reviews -> Range(ClaimStates)], lacking : Nat, core : Nat] : c.core <= c.lacking}

\* There are claims of one workflow, or none.
Profiles ==
  [answers : [Questions -> Answers], volume : Numbers, reviewed : Numbers, sources : Numbers,
   coverage : Numbers, age : Numbers, governance : Governance, claims : Seq(ClaimsProfile)]

-----------------------------------------------------------------------------
(* Answers that may be unknown *)

\* x and y, as Python has it: the first that is not "yes".
And(x, y) == IF x = "yes" THEN y ELSE x

AllTrue(answers) ==
  CASE "unknown" \in answers -> "unknown"
    [] "unknown" \notin answers /\ answers = {"yes"} -> "yes"
    [] OTHER -> "no"

AnyTrue(answers) ==
  CASE "yes" \in answers -> "yes" [] answers = {"no"} -> "no" [] OTHER -> "unknown"

VerifiedWhen(answer) ==
  CASE answer = "yes" -> "verified" [] answer = "no" -> "missing" [] OTHER -> "unknown"

Known(answers, questions) == Cardinality({q \in questions : answers[q] # "unknown"})
Affirmed(answers, questions) == Cardinality({q \in questions : answers[q] = "yes"})

-----------------------------------------------------------------------------
(* Evidence of the workflow *)

\* The share of the known answers that are "yes".
DerivedCoverage(a) ==
  LET checks == Questions \ {"redaction", "owner", "systems", "sla"}
  IN  IF Known(a, checks) = 0 THEN NotGiven
      ELSE Rounded(1000 * Affirmed(a, checks), Known(a, checks))

LinkedArtifacts(p) ==
  CASE p.sources = NotGiven -> p.answers.evidence
    [] p.sources > 0 -> "yes"
    [] p.sources = 0 -> "no"

EvidenceOf(p) ==
  LET a == p.answers
  IN  [controls |->
         [approval_gate |-> VerifiedWhen(And(a.signoff, a.escalated)),
          decision_logging |-> VerifiedWhen(a.evidence),
          evidence_retention |-> VerifiedWhen(And(a.evidence, a.closed)),
          exception_handling |-> VerifiedWhen(a.escalated),
          periodic_review |-> IF a.sla = "yes" THEN "documented" ELSE VerifiedWhen(a.sla)],
       posture |->
         << [coverage |-> IF p.coverage # NotGiven THEN p.coverage ELSE DerivedCoverage(a),
             age |-> p.age,
             audit |-> AllTrue({a.evidence, a.closed, a.escalated}),
             linked |-> LinkedArtifacts(p)] >>,
       owner |-> a.owner, systems |-> a.systems, escalation |-> a.escalated,
       fallback |-> "unknown", override |-> a.signoff, rollback |-> "unknown",
       approvals |-> p.sources, logs |-> p.reviewed]

-----------------------------------------------------------------------------
(* Inputs of operational learning *)

SopClarity(a) ==
  CASE {a.sop, a.rules} = {"unknown"} -> NotGiven
    [] {a.sop, a.rules} = {"yes"} -> 840
    [] "yes" \in {a.sop, a.rules} /\ a.sop # a.rules -> 640
    [] OTHER -> 300

OutcomeObservability(a) ==
  LET checks == {"outcome", "evidence", "closed", "escalated"}
      known == Known(a, checks)
  IN  IF known = 0 THEN NotGiven ELSE Rounded(350 * known + 530 * Affirmed(a, checks), known)

VolumeScore(volume) ==
  CASE volume >= 50 -> 880
    [] volume >= 20 /\ volume < 50 -> 800
    [] volume >= 5 /\ volume < 20 -> 680
    [] volume > 0 /\ volume < 5 -> 550
    [] volume = 0 -> 250

Repeatability(p) ==
  IF p.volume = NotGiven THEN NotGiven
  ELSE Bounded(VolumeScore(p.volume) + Answered(p.answers.rules, 20, 120))

ReviewedScore(count) ==
  CASE count >= 25 -> 800
    [] count >= 10 /\ count < 25 -> 700
    [] count >= 3 /\ count < 10 -> 560
    [] count > 0 /\ count < 3 -> 450
    [] count = 0 -> 250

ReviewDensity(p) ==
  IF p.reviewed = NotGiven THEN NotGiven
  ELSE Bounded(ReviewedScore(p.reviewed)
         + Answered(p.answers.escalated, 30, 0) + Answered(p.answers.signoff, 20, 0))

\* Mutant: a required review is what makes redaction hard.
RedactionIfRequired(p) ==
  CASE p.answers.redaction = "yes" -> 350
    [] p.answers.redaction # "yes" /\ p.governance.redaction = "complete" -> 820
    [] p.answers.redaction # "yes" /\ p.governance.redaction = "partial" -> 650
    [] OTHER -> 350

RedactionManageability(p) ==
  CASE p.answers.redaction = "no" -> 350
    [] p.answers.redaction # "no" /\ p.governance.redaction = "complete" -> 820
    [] p.answers.redaction # "no" /\ p.governance.redaction = "partial" -> 650
    [] p.answers.redaction # "no" /\ p.governance.redaction = "missing" -> 350
    [] OTHER -> IF p.answers.redaction = "yes" THEN 500 ELSE NotGiven

\* Claims whose privacy or redaction is not reviewed cap the signal.
CappedByClaims(signal, claims) ==
  IF claims # <<>> /\ {claims[1].states.phi, claims[1].states.redaction} # {"ready"}
  THEN IF signal = NotGiven THEN 300 ELSE AtMost(signal, 300)
  ELSE signal

\* Tenths of a run a week.
RunsOf(volume) == IF volume = NotGiven THEN NotGiven ELSE 10 * volume

LearningInputsOf(p) ==
  LET a == p.answers
  IN  [sop |-> AnyTrue({a.sop, a.rules}), sopSignal |-> SopClarity(a),
       outcome |-> a.outcome, outcomeSignal |-> OutcomeObservability(a),
       frequency |-> RunsOf(p.volume), repeatability |-> Repeatability(p),
       review |-> AnyTrue({a.escalated, a.signoff}), reviewSignal |-> ReviewDensity(p),
       redactionSignal |-> CappedByClaims(RedactionManageability(p), p.claims),
       governance |-> p.governance]

-----------------------------------------------------------------------------
(* Claims *)

ReviewPenalty ==
  [source |-> 200, phi |-> 250, redaction |-> 250, governance |-> 250, approval |-> 220,
   rate |-> 180, downstream |-> 140, savings |-> 140]

Unready(c) == {r \in Reviews : c.states[r] # "ready"}

ClaimsBlocked(c) ==
  \/ c.core > 0
  \/ Unready(c) \cap {"source", "phi", "redaction", "governance", "approval"} # {}
  \/ c.states.downstream = "missing"

\* Whatever is not a blocker is a reason that keeps the claims a weak candidate.
ClaimsSuitability(c) ==
  LET cost == [r \in Reviews |-> Unless(c.states[r] = "ready", ReviewPenalty[r])]
      score == Bounded(1000 - 60 * c.lacking
                 - (cost.source + cost.phi + cost.redaction + cost.governance
                    + cost.approval + cost.rate + cost.downstream + cost.savings))
      reasons == c.lacking > 0 \/ Unready(c) # {}
  IN  [score |-> score,
       status |-> CASE ClaimsBlocked(c) -> "blocked"
                    [] ~ClaimsBlocked(c) /\ score >= 800 /\ ~reasons -> "eval_suitable"
                    [] ~ClaimsBlocked(c) /\ score >= 500 /\ (score < 800 \/ reasons) ->
                         "weak_candidate"
                    [] OTHER -> "blocked"]

ClaimsOf(p) == IF p.claims = <<>> THEN <<>> ELSE <<ClaimsSuitability(p.claims[1])>>
=============================================================================

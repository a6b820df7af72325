------------------------ MODULE LearningSuitability ------------------------
(***************************************************************************)
(* Operational learning (core/operational_learning.py): whether a workflow *)
(* is suitable for internal evaluation and for training.                   *)
(*                                                                         *)
(* A governance state that is not given counts as one that says nothing,   *)
(* which is what it comes to: all its parts are "none".                    *)
(***************************************************************************)
EXTENDS Integers, Sequences, FiniteSets, Scores

Completeness == {"none", "missing", "partial", "complete"}
Bases == {"none", "operator", "owner"}
RiskBands == {"none", "critical", "high", "medium", "low"}

\* Nothing is said without a basis.
Governance ==
  {g \in [basis : Bases, rights : Completeness, provenance : Completeness, redaction : Completeness,
          risk : RiskBands] :
     g.basis = "none" => {g.rights, g.provenance, g.redaction, g.risk} = {"none"}}

\* Whether there is an SOP, an outcome, a review; signals of 0 .. 1000, and the
\* tenths of a run there are a week, on average: the code takes any fraction.
LearningInputs ==
  LET Presence == {"yes", "no", "unknown"}
      Signals == (0 .. 1000) \cup {NotGiven}
  IN  [sop : Presence, outcome : Presence, review : Presence, sopSignal : Signals,
       outcomeSignal : Signals, repeatability : Signals, reviewSignal : Signals,
       redactionSignal : Signals, frequency : Nat \cup {NotGiven}, governance : Governance]

EvalThreshold == 700
TrainingThreshold == 800

Dimensions == {"repeatability", "sop", "outcome", "review", "redaction", "governance"}

EvalWeight ==
  [repeatability |-> 25, sop |-> 20, outcome |-> 20, review |-> 15, redaction |-> 10,
   governance |-> 10]
TrainingWeight ==
  [repeatability |-> 20, sop |-> 15, outcome |-> 15, review |-> 15, redaction |-> 20,
   governance |-> 15]

CompletenessScore == [none |-> 25, missing |-> 25, partial |-> 65, complete |-> 92]
RedactionScore == [none |-> 350, missing |-> 250, partial |-> 550, complete |-> 800]
RiskScore == [none |-> 25, critical |-> 20, high |-> 45, medium |-> 75, low |-> 92]

-----------------------------------------------------------------------------
(* The dimensions *)

FrequencyScore(frequency) ==
  CASE frequency = NotGiven -> 450
    [] frequency = 0 -> 250
    [] frequency >= 1 /\ frequency < 10 -> 450
    [] frequency >= 10 /\ frequency < 30 -> 600
    [] frequency >= 30 /\ frequency < 50 -> 700
    [] frequency >= 50 /\ frequency < 100 -> 800
    [] frequency >= 100 -> 900

SignalOr(signal, score) == IF signal # NotGiven THEN signal ELSE score

PresenceScore(present, score) ==
  CASE present = "yes" -> score [] present = "unknown" -> 250 [] present = "no" -> 200

GovernanceScore(g) ==
  Rounded(10 * (CompletenessScore[g.rights] + CompletenessScore[g.provenance]
                + CompletenessScore[g.redaction] + RiskScore[g.risk]), 4)

DimensionScores(in) ==
  [repeatability |-> SignalOr(in.repeatability, FrequencyScore(in.frequency)),
   sop |-> SignalOr(in.sopSignal, PresenceScore(in.sop, 650)),
   outcome |-> SignalOr(in.outcomeSignal, PresenceScore(in.outcome, 650)),
   review |-> SignalOr(in.reviewSignal, PresenceScore(in.review, 550)),
   redaction |-> SignalOr(in.redactionSignal, RedactionScore[in.governance.redaction]),
   governance |-> GovernanceScore(in.governance)]

Weighted(scores, weight) ==
  Rounded(scores.repeatability * weight.repeatability + scores.sop * weight.sop
            + scores.outcome * weight.outcome + scores.review * weight.review
            + scores.redaction * weight.redaction + scores.governance * weight.governance, 100)

-----------------------------------------------------------------------------
(* What blocks, and the status *)

Prerequisite(present, signal) == present = "yes" \/ signal # NotGiven

Incomplete(g) ==
  {g.rights, g.provenance, g.redaction} \cap {"none", "missing"} # {} \/ g.risk = "none"

HighRisk(g) == ~Incomplete(g) /\ g.risk \in {"high", "critical"}

HardBlocked(in, scores) ==
  \/ ~Prerequisite(in.sop, in.sopSignal)
  \/ ~Prerequisite(in.outcome, in.outcomeSignal)
  \/ ~Prerequisite(in.review, in.reviewSignal)
  \/ Incomplete(in.governance)
  \/ HighRisk(in.governance)
  \/ scores.redaction < 400
  \/ scores.governance < 350

AllAtLeast(scores, floors) == \A d \in DOMAIN floors : scores[d] >= floors[d]

EvalMet(scores) ==
  /\ Weighted(scores, EvalWeight) >= EvalThreshold
  /\ AllAtLeast(scores, [repeatability |-> 600, sop |-> 600, outcome |-> 600, review |-> 500])

\* Training needs the evidence of the owner of governance, not an operator's review.
TrainingMet(scores, basis) ==
  /\ EvalMet(scores)
  /\ basis = "owner"
  /\ Weighted(scores, TrainingWeight) >= TrainingThreshold
  /\ AllAtLeast(scores, [repeatability |-> 750, sop |-> 700, outcome |-> 700, review |-> 650,
                         redaction |-> 700, governance |-> 600])

WeakCandidate(scores) ==
  /\ Weighted(scores, EvalWeight) >= 500
  /\ AllAtLeast(scores, [repeatability |-> 450, sop |-> 450, outcome |-> 450, review |-> 400,
                         redaction |-> 400, governance |-> 350])

\* Lowest first.
Statuses == <<"blocked", "unsuitable", "weak_candidate", "eval_suitable", "training_candidate">>

StatusOf(blocked, training, eval, weak) ==
  CASE blocked -> "blocked"
    [] ~blocked /\ training -> "training_candidate"
    [] ~blocked /\ ~training /\ eval -> "eval_suitable"
    [] ~blocked /\ ~training /\ ~eval /\ weak -> "weak_candidate"
    [] OTHER -> "unsuitable"

Suitability(in) ==
  LET scores == DimensionScores(in)
      blocked == HardBlocked(in, scores)
      eval == EvalMet(scores)
      training == TrainingMet(scores, in.governance.basis)
      weak == ~eval /\ WeakCandidate(scores)
  IN  [status |-> StatusOf(blocked, training, eval, weak), blocked |-> blocked,
       eval |-> [score |-> Weighted(scores, EvalWeight),
                 status |-> StatusOf(blocked, FALSE, eval, weak)],
       training |-> [score |-> Weighted(scores, TrainingWeight),
                     status |-> StatusOf(blocked, training, FALSE, weak)]]
=============================================================================

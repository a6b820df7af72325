------------------------- MODULE AssessmentsProofs -------------------------
(***************************************************************************)
(* Assessments: one score in every report of a workflow, a summary of      *)
(* every one that is stored, and no worse a report for a better request,   *)
(* for any tenant, requests and ladders.                                   *)
(***************************************************************************)
EXTENDS Assessments, FiniteSetTheorems, WellFoundedInduction, TLAPS

LEMMA RoundedNat == ASSUME NEW n \in Nat, NEW d \in Nat \ {0} PROVE Rounded(n, d) \in Nat
  <1>1. n \div d \in Nat
    OBVIOUS
  <1>2. n % d \in Nat
    OBVIOUS
  <1>3. QED BY <1>1, <1>2 DEF Rounded

LEMMA CountsAreNumbers ==
  ASSUME NEW S, IsFiniteSet(S), NEW T \in SUBSET S
  PROVE Cardinality(T) \in Nat
  BY FS_Subset, FS_CardinalityType

LEMMA AnsweredInt ==
  ASSUME NEW a, NEW gain \in Nat, NEW loss \in Nat
  PROVE Answered(a, gain, loss) \in Int /\ Answered(a, gain, loss) >= -loss
  BY DEF Answered

LEMMA DeltasOfEvidence ==
  ASSUME NEW e \in Evidence
  PROVE /\ EvidenceDelta(e) \in [Pillars -> Int]
        /\ EvidenceDelta(e).oversight >= -260
  <1>1. ControlsDelta(e.controls) \in Int
    <2>1. \A a \in ControlAreas : ControlDelta[e.controls[a]] \in Int
      BY DEF Evidence, ControlDelta, ControlStates
    <2>2. QED BY <2>1 DEF ControlsDelta, ControlAreas
  <1>2. ASSUME NEW p \in Posture PROVE PostureDelta(p) \in Int
    <2>1. p.coverage \in Numbers /\ p.age \in Numbers
      BY DEF Posture
    <2>2. CoverageDelta(p.coverage) \in Int /\ AgeDelta(p.age) \in Int
      BY <2>1 DEF CoverageDelta, AgeDelta, Numbers, NotGiven
    <2>3. QED BY <2>2, AnsweredInt DEF PostureDelta
  <1>3. TraceDelta(e) \in Int
    <2>1. CASE e.posture # <<>>
      <3>1. e.posture[1] \in Posture
        BY <2>1 DEF Evidence
      <3>2. QED BY <2>1, <3>1, <1>2 DEF TraceDelta
    <2>2. CASE e.posture = <<>>
      <3>1. e.approvals \in Numbers /\ e.logs \in Numbers
        BY DEF Evidence
      <3>2. CountDelta(e.approvals, 3, 60, 40, 120) \in Int
        BY <3>1 DEF CountDelta, Numbers, NotGiven
      <3>3. CountDelta(e.logs, 10, 50, 30, 100) \in Int
        BY <3>1 DEF CountDelta, Numbers, NotGiven
      <3>4. QED BY <2>2, <3>2, <3>3 DEF TraceDelta
    <2>3. QED BY <2>1, <2>2
  <1>4. EvidenceDelta(e).oversight =
          Answered(e.owner, 40, 100) + Answered(e.escalation, 50, 100)
            + Answered(e.override, 30, 60)
    BY DEF EvidenceDelta
  <1>5. EvidenceDelta(e).oversight \in Int /\ EvidenceDelta(e).oversight >= -260
    BY <1>4, AnsweredInt
  <1>6. /\ EvidenceDelta(e).stability \in Int /\ EvidenceDelta(e).resilience \in Int
        /\ EvidenceDelta(e).control \in Int /\ EvidenceDelta(e).blast \in Int
    BY <1>1, <1>3, AnsweredInt DEF EvidenceDelta
  <1>7. QED BY <1>5, <1>6 DEF EvidenceDelta, Pillars

-----------------------------------------------------------------------------
(* The pillars before and after the evidence *)

\* The pillars of a workflow, each with its score.
RatedPillars == [Pillars -> 0 .. 1000]

LEMMA RatedIsNumber ==
  ASSUME NEW p \in RatedPillars, NEW x \in Pillars
  PROVE p[x] \in Nat /\ p[x] <= 1000
  <1> DEFINE n == p[x]
  <1>1. n \in 0 .. 1000
    BY DEF RatedPillars
  <1> HIDE DEF n
  <1>2. n \in Nat /\ n <= 1000
    BY <1>1
  <1>3. QED BY <1>2 DEF n

\* A report before the workflow is rated: no constraint and no risk is in it.
Unrated(rep) ==
  /\ rep.overall \in Int /\ rep.constraints = <<>> /\ rep.top = <<>>
  /\ rep.risks = 0 /\ rep.critical = 0

LEMMA PillarsOfContext ==
  ASSUME NEW c \in WorkflowContext, NEW rep, Unrated(rep)
  PROVE /\ PillarScores(rep, c) \in RatedPillars
        /\ PillarScores(rep, c).oversight >= 430
  <1> DEFINE p == PillarScores(rep, c)
  <1>0. /\ rep.overall \in Int /\ rep.constraints = <<>> /\ rep.top = <<>>
        /\ rep.risks = 0 /\ rep.critical = 0
    BY DEF Unrated
  <1>1. /\ RelevantConstraints(rep.constraints, c.systems) = {}
        /\ RelevantRisks(rep.top, c.systems) = {}
    BY <1>0 DEF RelevantConstraints, RelevantRisks
  <1>2. Cardinality({}) = 0
    BY FS_EmptySet
  <1>3. Len(<<>>) = 0
    OBVIOUS
  <1>4. p.stability \in 0 .. 1000
    <2> DEFINE loss == 50 * Len(rep.constraints) + 15 * rep.risks + 60 * rep.critical
                         + Unless(c.reversible, 80)
               x == rep.overall + 50 - AtMost(550, loss)
    <2>1. loss \in Int
      BY <1>0, <1>3 DEF Unless
    <2>2. p.stability = Bounded(x)
      BY DEF PillarScores
    <2> HIDE DEF loss
    <2>3. x \in Int
      <3>1. AtMost(550, loss) \in Int
        BY <2>1 DEF AtMost
      <3>2. QED BY <1>0, <3>1
    <2> HIDE DEF x
    <2>4. QED BY <2>2, <2>3 DEF Bounded, AtLeast, AtMost
  <1>5. p.resilience \in 0 .. 1000
    <2> DEFINE loss == 80 * Cardinality(RelevantConstraints(rep.constraints, c.systems))
                         + 60 * Cardinality(RelevantRisks(rep.top, c.systems))
                         + Unless(c.systems # {}, 120)
               x == rep.overall + 20 - AtMost(550, loss)
    <2>1. loss \in Int
      <3>1. /\ Cardinality(RelevantConstraints(rep.constraints, c.systems)) = 0
            /\ Cardinality(RelevantRisks(rep.top, c.systems)) = 0
        BY <1>1, <1>2
      <3>2. QED BY <3>1 DEF Unless
    <2>2. p.resilience = Bounded(x)
      BY DEF PillarScores
    <2> HIDE DEF loss
    <2>3. x \in Int
      <3>1. AtMost(550, loss) \in Int
        BY <2>1 DEF AtMost
      <3>2. QED BY <1>0, <3>1
    <2> HIDE DEF x
    <2>4. QED BY <2>2, <2>3 DEF Bounded, AtLeast, AtMost
  <1>6. p.oversight \in 0 .. 1000 /\ p.oversight >= 430
    <2>1. \E y \in Int : y >= 430 /\ p.oversight = Bounded(y)
      BY <1>0 DEF PillarScores, Unless, Given
    <2>2. QED BY <2>1 DEF Bounded, AtLeast, AtMost
  <1>7. p.control \in 0 .. 1000
    <2>1. c.controls \in Nat
      BY DEF WorkflowContext
    <2> DEFINE loss == Unless(c.controls > 0, 250) + Given(c.controls = 1, 100)
                         + Given(rep.critical > 0, 60)
               x == 1000 - AtMost(500, loss)
    <2>2. loss \in Int
      BY <2>1 DEF Unless, Given
    <2>3. p.control = Bounded(x)
      BY DEF PillarScores
    <2> HIDE DEF loss
    <2>4. x \in Int
      BY <2>2 DEF AtMost
    <2> HIDE DEF x
    <2>5. QED BY <2>3, <2>4 DEF Bounded, AtLeast, AtMost
  <1>8. p.blast \in 0 .. 1000
    <2>1. BlastPenalty[c.blast] \in Nat
      BY DEF WorkflowContext, BlastRadii, BlastPenalty
    <2> DEFINE x == 1000 - BlastPenalty[c.blast] - Unless(c.tolerance, 100)
                      - Unless(c.reversible, 100) - Unless(c.fallback, 100)
    <2>2. x \in Int
      BY <2>1 DEF Unless
    <2>3. p.blast = Bounded(x)
      BY DEF PillarScores
    <2> HIDE DEF x
    <2>4. QED BY <2>2, <2>3 DEF Bounded, AtLeast, AtMost
  <1>9. p = [f \in Pillars |-> p[f]]
    BY DEF PillarScores, Pillars
  <1>10. ASSUME NEW f \in Pillars PROVE p[f] \in 0 .. 1000
    <2> HIDE DEF p
    <2>1. QED BY <1>4, <1>5, <1>6, <1>7, <1>8, <1>10 DEF Pillars
  <1>11. p \in RatedPillars
    <2> HIDE DEF p
    <2>1. QED BY <1>9, <1>10 DEF RatedPillars
  <1>12. QED BY <1>6, <1>11

LEMMA ScoreOfPillars ==
  ASSUME NEW p \in RatedPillars
  PROVE /\ WorkflowScore(p) \in 0 .. 1000
        /\ p.oversight >= 5 => WorkflowScore(p) > 0
  <1> DEFINE a == p.stability
             b == p.resilience
             c == p.oversight
             d == p.control
             e == p.blast
  <1>1. /\ a \in Nat /\ a <= 1000 /\ b \in Nat /\ b <= 1000 /\ c \in Nat /\ c <= 1000
        /\ d \in Nat /\ d <= 1000 /\ e \in Nat /\ e <= 1000
    <2>1. \A x \in Pillars : p[x] \in Nat /\ p[x] <= 1000
      BY RatedIsNumber
    <2>2. QED BY <2>1 DEF Pillars
  <1>2. WorkflowScore(p) = Rounded(a + b + c + d + e, 5)
    BY Zenon DEF WorkflowScore
  <1>3. p.oversight = c
    OBVIOUS
  <1> HIDE DEF a, b, c, d, e
  <1> DEFINE n == a + b + c + d + e
  <1>4. n \in Int /\ n >= 0 /\ n <= 5000 /\ (c >= 5 => n >= 5)
    BY <1>1
  <1>5. WorkflowScore(p) = Rounded(n, 5)
    BY <1>2
  <1> HIDE DEF n
  <1>6. Rounded(n, 5) \in 0 .. 1000 /\ (n >= 5 => Rounded(n, 5) > 0)
    BY <1>4 DEF Rounded
  <1>7. QED BY <1>3, <1>4, <1>5, <1>6

LEMMA PillarsOfEvidence ==
  ASSUME NEW p \in RatedPillars, p.oversight >= 430, NEW e \in Evidence
  PROVE Moved(p, e) \in RatedPillars /\ Moved(p, e).oversight >= 5
  <1> DEFINE d == EvidenceDelta(e)
             q == [f \in Pillars |-> Bounded(p[f] + d[f])]
  <1>1. d \in [Pillars -> Int] /\ d.oversight >= -260
    BY DeltasOfEvidence
  <1>0. Moved(p, e) = q
    BY DEF Moved
  <1> HIDE DEF d
  <1>2. \A f \in Pillars : p[f] + d[f] \in Int
    <2>1. TAKE f \in Pillars
    <2>2. p[f] \in Int /\ d[f] \in Int
      BY <1>1, RatedIsNumber
    <2>3. QED BY <2>2
  <1>3. \A f \in Pillars : Bounded(p[f] + d[f]) \in 0 .. 1000
    <2> DEFINE scores == 0 .. 1000
    <2>1. \A x \in Int : Bounded(x) \in scores
      BY DEF Bounded, AtLeast, AtMost
    <2> HIDE DEF scores
    <2>2. \A f \in Pillars : Bounded(p[f] + d[f]) \in scores
      BY <1>2, <2>1, Zenon
    <2>3. QED BY <2>2 DEF scores
  <1>4. q.oversight = Bounded(p.oversight + d.oversight)
    BY DEF Pillars
  <1>5. p.oversight + d.oversight >= 5 /\ p.oversight + d.oversight \in Int
    <2>1. "oversight" \in Pillars
      BY DEF Pillars
    <2>2. p.oversight \in Int /\ d.oversight \in Int
      BY <1>1, <2>1, RatedIsNumber
    <2>3. QED BY <1>1, <2>2
  <1>6. q.oversight >= 5
    BY <1>4, <1>5 DEF Bounded, AtLeast, AtMost
  <1>7. q \in RatedPillars
    <2> DEFINE rated == 0 .. 1000
               moved(f) == Bounded(p[f] + d[f])
    <2>1. q = [f \in Pillars |-> moved(f)] /\ \A f \in Pillars : moved(f) \in rated
      BY <1>3
    <2> HIDE DEF q, moved, rated
    <2>2. q \in [Pillars -> rated]
      BY <2>1
    <2>3. QED BY <2>2 DEF RatedPillars, rated
  <1> HIDE DEF q
  <1>8. QED BY <1>0, <1>6, <1>7

-----------------------------------------------------------------------------
(* The evidence of a request *)

LEMMA TripleIsFinite == ASSUME NEW a, NEW b, NEW c PROVE IsFiniteSet({a, b, c})
  <1>1. {a, b, c} = ({a} \cup {b}) \cup {c}
    OBVIOUS
  <1>2. IsFiniteSet({a}) /\ IsFiniteSet({b}) /\ IsFiniteSet({c})
    BY FS_Singleton
  <1>3. IsFiniteSet({a} \cup {b})
    BY <1>2, FS_Union, Zenon
  <1>4. IsFiniteSet(({a} \cup {b}) \cup {c})
    BY <1>2, <1>3, FS_Union, Zenon
  <1>5. QED BY <1>1, <1>4

LEMMA QuestionsAreFinite == IsFiniteSet(Questions)
  <1>1. Questions = ({"closed", "escalated", "signoff"} \cup {"redaction", "sop", "outcome"})
                      \cup ({"rules", "evidence", "owner"} \cup {"systems", "sla", "closed"})
    BY DEF Questions
  <1>2. QED BY <1>1, TripleIsFinite, FS_Union

LEMMA CountsOfAnswers ==
  ASSUME NEW a, NEW questions \in SUBSET Questions
  PROVE Known(a, questions) \in Nat /\ Affirmed(a, questions) \in Nat
  <1>1. /\ {q \in questions : a[q] # "unknown"} \in SUBSET Questions
        /\ {q \in questions : a[q] = "yes"} \in SUBSET Questions
    OBVIOUS
  <1>2. QED BY <1>1, QuestionsAreFinite, CountsAreNumbers DEF Known, Affirmed

LEMMA AnswersCombine ==
  /\ \A x, y \in Answers : And(x, y) \in Answers
  /\ \A S : AllTrue(S) \in Answers /\ AnyTrue(S) \in Answers
  /\ \A x : VerifiedWhen(x) \in {"verified", "missing", "unknown"}
  BY DEF And, AllTrue, AnyTrue, VerifiedWhen, Answers

LEMMA EvidenceOfProfile == ASSUME NEW p \in Profiles PROVE EvidenceOf(p) \in Evidence
  <1> DEFINE e == EvidenceOf(p)
             a == p.answers
             post == e.posture[1]
  <1>1. /\ p.answers \in [Questions -> Answers]
        /\ p.sources \in Numbers /\ p.coverage \in Numbers /\ p.age \in Numbers
        /\ p.reviewed \in Numbers
    BY DEF Profiles
  <1>2. /\ a.signoff \in Answers /\ a.escalated \in Answers /\ a.evidence \in Answers
        /\ a.closed \in Answers /\ a.owner \in Answers /\ a.systems \in Answers
    BY <1>1 DEF Questions
  <1>3. e.controls \in [ControlAreas -> ControlStates \cup {"unknown"}]
    BY AnswersCombine DEF EvidenceOf, ControlAreas, ControlStates
  <1>4. DerivedCoverage(a) \in Numbers
    <2> DEFINE checks == Questions \ {"redaction", "owner", "systems", "sla"}
    <2>1. Known(a, checks) \in Nat /\ Affirmed(a, checks) \in Nat
      BY CountsOfAnswers
    <2>2. Known(a, checks) # 0 => Rounded(1000 * Affirmed(a, checks), Known(a, checks)) \in Nat
      BY <2>1, RoundedNat
    <2>3. QED BY <2>2 DEF DerivedCoverage, Numbers
  <1>5. LinkedArtifacts(p) \in Answers
    BY <1>1, <1>2 DEF LinkedArtifacts, Numbers, NotGiven, Answers
  <1>6. e.posture \in Seq(Posture)
    <2>1. e.posture = << [coverage |-> IF p.coverage # NotGiven THEN p.coverage ELSE DerivedCoverage(a),
                          age |-> p.age, audit |-> AllTrue({a.evidence, a.closed, a.escalated}),
                          linked |-> LinkedArtifacts(p)] >>
      BY DEF EvidenceOf
    <2>2. QED BY <2>1, <1>1, <1>4, <1>5, AnswersCombine DEF Posture
  <1>7. QED
    BY <1>1, <1>2, <1>3, <1>6 DEF EvidenceOf, Evidence, Answers

LEMMA EvidenceOfReferences ==
  ASSUME NEW refs \in Seq(ControlRefs), refs # <<>>
  PROVE EvidenceOfControls(refs) \in Evidence
  <1> DEFINE e == EvidenceOfControls(refs)
  <1>1. \A area : StateOfArea(refs, area) \in ControlStates \cup {"unknown"}
    BY DEF StateOfArea, ControlStateOf, ControlStates
  <1>2. e.controls \in [ControlAreas -> ControlStates \cup {"unknown"}]
    BY <1>1 DEF EvidenceOfControls
  <1>3. \A states : Linked(refs, states) \in Nat
    <2>1. TAKE states
    <2>2. Len(refs) \in Nat /\ DOMAIN refs = 1 .. Len(refs)
      OBVIOUS
    <2>3. IsFiniteSet(DOMAIN refs)
      BY <2>2, FS_Interval
    <2>4. QED BY <2>3, CountsAreNumbers DEF Linked
  <1>4. Rounded(1000 * Linked(refs, {"verified"}), Len(refs)) \in Nat
    <2> DEFINE n == 1000 * Linked(refs, {"verified"})
    <2>1. Len(refs) \in Nat \ {0}
      OBVIOUS
    <2>2. n \in Nat
      BY <1>3
    <2> HIDE DEF n
    <2>3. QED BY <2>1, <2>2, RoundedNat DEF n
  <1>5. e.posture \in Seq(Posture)
    BY <1>4 DEF EvidenceOfControls, Posture, Numbers, Answers
  <1>6. QED
    BY <1>2, <1>5 DEF EvidenceOfControls, Evidence, Answers, Numbers

LEMMA EvidenceOfRequest ==
  ASSUME NEW r \in Request, EvidenceFor(r) # <<>>
  PROVE EvidenceFor(r)[1] \in Evidence
  <1>1. /\ r.evidence \in Seq(Evidence) /\ r.profile \in Seq(Profiles)
        /\ r.controlRefs \in Seq(ControlRefs)
    BY DEF Request
  <1>2. CASE r.evidence # <<>>
    BY <1>1, <1>2 DEF EvidenceFor
  <1>3. CASE r.evidence = <<>> /\ r.profile # <<>>
    BY <1>1, <1>3, EvidenceOfProfile DEF EvidenceFor
  <1>4. CASE r.evidence = <<>> /\ r.profile = <<>>
    BY <1>1, <1>4, EvidenceOfReferences DEF EvidenceFor
  <1>5. QED BY <1>2, <1>3, <1>4

LEMMA BaselineIsScore == ASSUME NEW r \in Request PROVE Baseline(r) \in 0 .. 1000
  <1> DEFINE c == r.context
             documents == <<c.owner, c.role, c.systems # {}, c.escalation, c.controls > 0,
                            c.fallback, c.override, c.tolerance, c.reversible>>
             count == Cardinality({i \in DOMAIN documents : documents[i]})
             n == 4050 + 350 * count + 9 * BaselineDelta[c.blast]
  <1>1. r.baseline \in (0 .. 1000) \cup {NotGiven} /\ c \in WorkflowContext
    BY DEF Request
  <1>2. count \in Nat
    <2>1. {i \in DOMAIN documents : documents[i]} \in SUBSET (1 .. 9)
      OBVIOUS
    <2>2. IsFiniteSet(1 .. 9)
      <3>1. 1 \in Int /\ 9 \in Int
        OBVIOUS
      <3>2. QED BY <3>1, FS_Interval, Zenon
    <2>3. QED BY <2>1, <2>2, CountsAreNumbers
  <1>3. BaselineDelta[c.blast] \in {40, 0, -60, -100}
    BY <1>1 DEF WorkflowContext, BlastRadii, BaselineDelta
  <1>4. Baseline(r) = IF r.baseline # NotGiven THEN r.baseline
                      ELSE AtLeast(350, AtMost(850, Rounded(n, 9)))
    BY DEF Baseline
  <1> HIDE DEF c, count
  <1>5. n \in Nat
    BY <1>2, <1>3
  <1> HIDE DEF n
  <1>6. Rounded(n, 9) \in Nat
    BY <1>5, RoundedNat
  <1>7. AtLeast(350, AtMost(850, Rounded(n, 9))) \in 0 .. 1000
    BY <1>6 DEF AtLeast, AtMost
  <1>8. QED BY <1>1, <1>4, <1>7
-----------------------------------------------------------------------------
(* The learning of a request *)

LEMMA RepeatabilityOfProfile ==
  ASSUME NEW p \in Profiles
  PROVE Repeatability(p) \in (0 .. 1000) \cup {NotGiven}
  <1> DEFINE gain == Answered(p.answers.rules, 20, 120)
             x == VolumeScore(p.volume) + gain
  <1>1. p.volume \in Numbers
    BY DEF Profiles
  <1>2. p.volume # NotGiven => VolumeScore(p.volume) \in Int
    BY <1>1 DEF VolumeScore, Numbers, NotGiven
  <1>3. gain \in Int
    BY AnsweredInt
  <1>4. Repeatability(p) = IF p.volume = NotGiven THEN NotGiven ELSE Bounded(x)
    BY DEF Repeatability
  <1>5. p.volume # NotGiven => x \in Int
    BY <1>2, <1>3
  <1> HIDE DEF x
  <1>6. QED BY <1>4, <1>5 DEF Bounded, AtLeast, AtMost

LEMMA ReviewOfProfile ==
  ASSUME NEW p \in Profiles
  PROVE ReviewDensity(p) \in (0 .. 1000) \cup {NotGiven}
  <1> DEFINE gain == Answered(p.answers.escalated, 30, 0)
             more == Answered(p.answers.signoff, 20, 0)
             x == ReviewedScore(p.reviewed) + gain + more
  <1>1. p.reviewed \in Numbers
    BY DEF Profiles
  <1>2. p.reviewed # NotGiven => ReviewedScore(p.reviewed) \in Int
    BY <1>1 DEF ReviewedScore, Numbers, NotGiven
  <1>3. gain \in Int /\ more \in Int
    BY AnsweredInt
  <1>4. ReviewDensity(p) = IF p.reviewed = NotGiven THEN NotGiven ELSE Bounded(x)
    BY DEF ReviewDensity
  <1>5. p.reviewed # NotGiven => x \in Int
    BY <1>2, <1>3
  <1> HIDE DEF x
  <1>6. QED BY <1>4, <1>5 DEF Bounded, AtLeast, AtMost

LEMMA OutcomeOfAnswers ==
  ASSUME NEW a
  PROVE OutcomeObservability(a) \in Nat \cup {NotGiven}
  <1> DEFINE checks == {"outcome", "evidence", "closed", "escalated"}
             known == Known(a, checks)
             n == 350 * known + 530 * Affirmed(a, checks)
  <1>1. known \in Nat /\ Affirmed(a, checks) \in Nat
    BY CountsOfAnswers DEF Questions
  <1>2. OutcomeObservability(a) = IF known = 0 THEN NotGiven ELSE Rounded(n, known)
    BY DEF OutcomeObservability
  <1>3. n \in Nat
    BY <1>1
  <1> HIDE DEF n, known
  <1>4. known # 0 => Rounded(n, known) \in Nat
    BY <1>1, <1>3, RoundedNat
  <1>5. QED BY <1>2, <1>4
\* Inputs that have a score: those of a request, and those that a profile gives.
Scorable(in) ==
  /\ in.sop \in Answers /\ in.outcome \in Answers /\ in.review \in Answers
  /\ in.sopSignal \in Numbers /\ in.outcomeSignal \in Numbers /\ in.repeatability \in Numbers
  /\ in.reviewSignal \in Numbers /\ in.redactionSignal \in Numbers /\ in.frequency \in Numbers
  /\ in.governance \in Governance

LEMMA InputsOfProfile == ASSUME NEW p \in Profiles PROVE Scorable(LearningInputsOf(p))
  <1> DEFINE in == LearningInputsOf(p)
             a == p.answers
  <1>1. /\ p.answers \in [Questions -> Answers] /\ p.volume \in Numbers
        /\ p.governance \in Governance
    BY DEF Profiles
  <1>2. SopClarity(a) \in Numbers
    BY DEF SopClarity, Numbers, NotGiven
  <1>3. CappedByClaims(RedactionManageability(p), p.claims) \in Numbers
    <2>1. RedactionManageability(p) \in Numbers
      BY DEF RedactionManageability, Numbers, NotGiven
    <2>2. QED BY <2>1 DEF CappedByClaims, Numbers, NotGiven, AtMost
  <1>4. /\ Repeatability(p) \in Numbers /\ ReviewDensity(p) \in Numbers
        /\ OutcomeObservability(a) \in Numbers
    <2>1. \A x \in (0 .. 1000) \cup {NotGiven} : x \in Numbers
      BY DEF Numbers
    <2>2. Repeatability(p) \in Numbers
      BY <2>1, RepeatabilityOfProfile
    <2>3. ReviewDensity(p) \in Numbers
      BY <2>1, ReviewOfProfile
    <2>4. OutcomeObservability(a) \in Numbers
      BY OutcomeOfAnswers DEF Numbers
    <2>5. QED BY <2>2, <2>3, <2>4
  <1>5. a.outcome \in Answers
    BY <1>1 DEF Questions
  <1>6. RunsOf(p.volume) \in Numbers
    BY <1>1 DEF RunsOf, Numbers, NotGiven
  <1>7. QED
    BY <1>1, <1>2, <1>3, <1>4, <1>5, <1>6, AnswersCombine DEF Scorable, LearningInputsOf

LEMMA InputsOfRequest ==
  ASSUME NEW r \in Request, LearningInputsFor(r) # <<>>
  PROVE Scorable(LearningInputsFor(r)[1])
  <1>1. r.learning \in Seq(LearningInputs) /\ r.profile \in Seq(Profiles)
    BY DEF Request
  <1>2. \A in \in LearningInputs : Scorable(in)
    <2> DEFINE Signals == (0 .. 1000) \cup {NotGiven}
    <2>1. Signals \subseteq Numbers
      BY DEF Numbers
    <2>2. TAKE in \in LearningInputs
    <2>3. /\ in.sopSignal \in Signals /\ in.outcomeSignal \in Signals
          /\ in.repeatability \in Signals /\ in.reviewSignal \in Signals
          /\ in.redactionSignal \in Signals
      <3> DEFINE Presence == {"yes", "no", "unknown"}
                 Runs == Nat \cup {NotGiven}
      <3>1. in \in [sop : Presence, outcome : Presence, review : Presence, sopSignal : Signals,
                    outcomeSignal : Signals, repeatability : Signals, reviewSignal : Signals,
                    redactionSignal : Signals, frequency : Runs, governance : Governance]
        BY DEF LearningInputs
      <3> HIDE DEF Signals, Presence, Runs
      <3>2. QED BY <3>1
    <2> HIDE DEF Signals
    <2>4. /\ in.sopSignal \in Numbers /\ in.outcomeSignal \in Numbers
          /\ in.repeatability \in Numbers /\ in.reviewSignal \in Numbers
          /\ in.redactionSignal \in Numbers
      BY <2>1, <2>3
    <2>5. /\ in.sop \in Answers /\ in.outcome \in Answers /\ in.review \in Answers
          /\ in.frequency \in Numbers /\ in.governance \in Governance
      BY DEF LearningInputs, Answers, Numbers
    <2>6. QED BY <2>4, <2>5 DEF Scorable
  <1>3. CASE r.learning # <<>>
    BY <1>1, <1>2, <1>3 DEF LearningInputsFor
  <1>4. CASE r.learning = <<>> /\ r.profile # <<>>
    BY <1>1, <1>4, InputsOfProfile DEF LearningInputsFor
  <1>5. QED BY <1>3, <1>4 DEF LearningInputsFor

LEMMA DimensionsAreScores ==
  ASSUME NEW in, Scorable(in)
  PROVE \A d \in Dimensions : DimensionScores(in)[d] \in Nat
  <1> DEFINE scores == DimensionScores(in)
  <1>1. \A signal \in Numbers, score \in Nat : SignalOr(signal, score) \in Nat
    BY DEF SignalOr, Numbers, NotGiven
  <1>2. /\ PresenceScore(in.sop, 650) \in Nat /\ PresenceScore(in.outcome, 650) \in Nat
        /\ PresenceScore(in.review, 550) \in Nat
    BY DEF PresenceScore, Answers, Scorable
  <1>3. FrequencyScore(in.frequency) \in Nat
    BY DEF Scorable, FrequencyScore, Numbers, NotGiven
  <1>4. RedactionScore[in.governance.redaction] \in Nat
    BY DEF Scorable, Governance, Completeness, RedactionScore
  <1>5. GovernanceScore(in.governance) \in Nat
    <2> DEFINE g == in.governance
               n == 10 * (CompletenessScore[g.rights] + CompletenessScore[g.provenance]
                          + CompletenessScore[g.redaction] + RiskScore[g.risk])
    <2>1. /\ CompletenessScore[g.rights] \in Nat /\ CompletenessScore[g.provenance] \in Nat
          /\ CompletenessScore[g.redaction] \in Nat /\ RiskScore[g.risk] \in Nat
      BY DEF Scorable, Governance, Completeness, RiskBands, CompletenessScore, RiskScore
    <2>2. n \in Nat
      BY <2>1
    <2> HIDE DEF n
    <2>3. Rounded(n, 4) \in Nat
      BY <2>2, RoundedNat
    <2>4. QED BY <2>3 DEF n, GovernanceScore
  <1>0. /\ in.repeatability \in Numbers /\ in.redactionSignal \in Numbers
        /\ in.sopSignal \in Numbers /\ in.outcomeSignal \in Numbers /\ in.reviewSignal \in Numbers
    BY DEF Scorable
  <1>6. scores.repeatability \in Nat
    BY <1>0, <1>1, <1>3 DEF DimensionScores
  <1>7. scores.redaction \in Nat
    BY <1>0, <1>1, <1>4 DEF DimensionScores
  <1>8. scores.governance \in Nat
    BY <1>5 DEF DimensionScores
  <1>9. scores.sop \in Nat /\ scores.outcome \in Nat /\ scores.review \in Nat
    <2>1. /\ scores.sop = SignalOr(in.sopSignal, PresenceScore(in.sop, 650))
          /\ scores.outcome = SignalOr(in.outcomeSignal, PresenceScore(in.outcome, 650))
          /\ scores.review = SignalOr(in.reviewSignal, PresenceScore(in.review, 550))
      BY DEF DimensionScores
    <2> HIDE DEF scores
    <2>2. QED BY <1>0, <1>1, <1>2, <2>1
  <1>10. QED BY <1>6, <1>7, <1>8, <1>9 DEF Dimensions

LEMMA EvalScoreOfInputs ==
  ASSUME NEW in, Scorable(in)
  PROVE Suitability(in).eval.score \in Nat
  <1> DEFINE s == DimensionScores(in)
             n == s.repeatability * 25 + s.sop * 20 + s.outcome * 20 + s.review * 15
                    + s.redaction * 10 + s.governance * 10
  <1>1. /\ s.repeatability \in Nat /\ s.sop \in Nat /\ s.outcome \in Nat
        /\ s.review \in Nat /\ s.redaction \in Nat /\ s.governance \in Nat
    BY DimensionsAreScores DEF Dimensions
  <1>2. Suitability(in).eval.score = Weighted(s, EvalWeight)
    BY DEF Suitability
  <1>3. Weighted(s, EvalWeight) = Rounded(n, 100)
    BY DEF Weighted, EvalWeight
  <1> HIDE DEF s
  <1>4. n \in Nat
    BY <1>1
  <1> HIDE DEF n
  <1>5. Rounded(n, 100) \in Nat
    BY <1>4, RoundedNat
  <1>6. QED BY <1>2, <1>3, <1>5
-----------------------------------------------------------------------------
(* The report of a request *)

\* What every report of a workflow is: one readiness, whose score it copies.
Shows(rep, context, pillars) ==
  /\ rep.workflow = <<Readiness(context, pillars)>>
  /\ rep.overall = WorkflowScore(pillars)
  /\ rep.grade = Grade(WorkflowScore(pillars))

\* What the pillars of a request are scored from: nothing but its baseline.
Unscored(r) ==
  [overall |-> Baseline(r), constraints |-> <<>>, top |-> <<>>, risks |-> 0, critical |-> 0]

PillarsFor(r) ==
  LET p == PillarScores(Unscored(r), r.context)
  IN  IF EvidenceFor(r) = <<>> THEN p ELSE Moved(p, EvidenceFor(r)[1])

Reports(rep, r) ==
  /\ PillarsFor(r) \in RatedPillars
  /\ Shows(rep, r.context, PillarsFor(r))
  /\ rep.org = r.org /\ rep.workflowRef = r.workflowRef
  /\ rep.learning = IF LearningInputsFor(r) = <<>> THEN <<>>
                    ELSE <<Suitability(LearningInputsFor(r)[1])>>
  /\ rep.claims = IF r.profile = <<>> THEN <<>> ELSE ClaimsOf(r.profile[1])
  /\ rep.ref = AssessmentRef(rep, r)

LEMMA PillarsOfSameReport ==
  ASSUME NEW x, NEW y, NEW c, x.overall = y.overall, x.constraints = y.constraints,
         x.top = y.top, x.risks = y.risks, x.critical = y.critical
  PROVE PillarScores(x, c) = PillarScores(y, c)
  BY DEF PillarScores

LEMMA ReportOfRequest == ASSUME NEW r \in Request PROVE Reports(Run(r), r)
  <1> DEFINE first ==
               [org |-> r.org, overall |-> Baseline(r), grade |-> Grade(Baseline(r)),
                constraints |-> <<>>, top |-> <<>>, risks |-> 0, critical |-> 0,
                workflow |-> <<>>, workflowRef |-> r.workflowRef, learning |-> <<>>,
                claims |-> IF r.profile = <<>> THEN <<>> ELSE ClaimsOf(r.profile[1]), ref |-> <<>>]
             inputs == LearningInputsFor(r)
             learned == IF inputs = <<>> THEN <<>> ELSE <<Suitability(inputs[1])>>
             rated == WithEvidence(WithContext(first, r.context), EvidenceFor(r))
             p == PillarScores(first, r.context)
             q == IF EvidenceFor(r) = <<>> THEN p ELSE Moved(p, EvidenceFor(r)[1])
  <1>0. q = PillarsFor(r)
    <2>1. p = PillarScores(Unscored(r), r.context)
      BY PillarsOfSameReport DEF Unscored
    <2> HIDE DEF p
    <2>2. QED BY <2>1, Zenon DEF PillarsFor
  <1>1. p \in RatedPillars /\ p.oversight >= 430
    <2>1. r.context \in WorkflowContext
      BY DEF Request
    <2>2. Baseline(r) \in 0 .. 1000
      BY BaselineIsScore
    <2>3. Unrated(first)
      <3>1. Baseline(r) \in Int
        BY <2>2
      <3>2. QED BY <3>1 DEF Unrated
    <2> HIDE DEF first
    <2>4. QED BY <2>1, <2>3, PillarsOfContext
  <1>2. q \in RatedPillars /\ q.oversight >= 5
    <2> HIDE DEF p
    <2>1. p.oversight >= 5
      <3>1. p.oversight \in 0 .. 1000
        BY <1>1 DEF Pillars, RatedPillars
      <3>2. QED BY <1>1, <3>1
    <2>2. CASE EvidenceFor(r) = <<>>
      BY <1>1, <2>1, <2>2, Zenon
    <2>3. CASE EvidenceFor(r) # <<>>
      <3>1. EvidenceFor(r)[1] \in Evidence
        BY <2>3, EvidenceOfRequest
      <3>2. q = Moved(p, EvidenceFor(r)[1])
        BY <2>3
      <3> HIDE DEF q
      <3>3. QED BY <1>1, <3>1, <3>2, PillarsOfEvidence
    <2>4. QED BY <2>2, <2>3
  <1>3. rated = [first EXCEPT !.workflow = <<Readiness(r.context, q)>>]
    <2> DEFINE based == [first EXCEPT !.workflow = <<Readiness(r.context, p)>>]
    <2>1. WithContext(first, r.context) = based
      BY DEF WithContext
    <2>2. based.workflow = <<Readiness(r.context, p)>>
      OBVIOUS
    <2>3. \A w : [based EXCEPT !.workflow = w] = [first EXCEPT !.workflow = w]
      OBVIOUS
    <2>4. CASE EvidenceFor(r) = <<>>
      BY <2>1, <2>4 DEF WithEvidence
    <2>5. CASE EvidenceFor(r) # <<>>
      <3>1. q = Moved(p, EvidenceFor(r)[1])
        BY <2>5
      <3> HIDE DEF based, first, p, q
      <3>2. WithEvidence(based, EvidenceFor(r))
              = [based EXCEPT !.workflow = <<Readiness(r.context, Moved(p, EvidenceFor(r)[1]))>>]
        <4>1. based.workflow # <<>> /\ based.workflow[1] = Readiness(r.context, p)
          BY <2>2
        <4>2. Readiness(r.context, p).context = r.context /\ Readiness(r.context, p).pillars = p
          BY DEF Readiness
        <4>3. QED BY <2>5, <4>1, <4>2 DEF WithEvidence
      <3>3. QED BY <2>1, <2>3, <3>1, <3>2
    <2>6. QED BY <2>4, <2>5
  <1>4. WorkflowScore(q) # 0
    <2> HIDE DEF q
    <2>1. WorkflowScore(q) \in 0 .. 1000 /\ WorkflowScore(q) > 0
      BY <1>2, ScoreOfPillars
    <2>2. QED BY <2>1
  <1> DEFINE whole == [rated EXCEPT !.learning = learned,
                         !.overall = ScoreOr(rated.workflow[1].score, Baseline(r)),
                         !.grade = rated.workflow[1].grade]
  <1>5. Run(r) = [whole EXCEPT !.ref = AssessmentRef(whole, r)]
    BY DEF Run
  <1> HIDE DEF p, q, rated, learned, inputs
  <1>6. /\ whole.workflow = <<Readiness(r.context, q)>>
        /\ whole.org = r.org /\ whole.workflowRef = r.workflowRef /\ whole.learning = learned
        /\ whole.claims = IF r.profile = <<>> THEN <<>> ELSE ClaimsOf(r.profile[1])
        /\ whole.overall = ScoreOr(rated.workflow[1].score, Baseline(r))
        /\ whole.grade = rated.workflow[1].grade
    BY <1>3
  <1>7. /\ rated.workflow[1].score = WorkflowScore(q)
        /\ rated.workflow[1].grade = Grade(WorkflowScore(q))
    BY <1>3 DEF Readiness
  <1>8. whole.overall = WorkflowScore(q) /\ whole.grade = Grade(WorkflowScore(q))
    BY <1>4, <1>6, <1>7 DEF ScoreOr
  <1> DEFINE rep == Run(r)
  <1>9. /\ rep.workflow = whole.workflow /\ rep.overall = whole.overall /\ rep.grade = whole.grade
        /\ rep.org = whole.org /\ rep.workflowRef = whole.workflowRef
        /\ rep.learning = whole.learning /\ rep.claims = whole.claims
        /\ rep.ref = AssessmentRef(whole, r)
    BY <1>3, <1>5
  <1> HIDE DEF rep, whole, first
  <1>10. AssessmentRef(rep, r) = AssessmentRef(whole, r)
    BY <1>9 DEF AssessmentRef
  <1>11. rep.learning = IF LearningInputsFor(r) = <<>> THEN <<>>
                        ELSE <<Suitability(LearningInputsFor(r)[1])>>
    BY <1>6, <1>9 DEF learned, inputs
  <1>12. Reports(rep, r)
    <2>1. Shows(rep, r.context, q)
      BY <1>6, <1>8, <1>9 DEF Shows
    <2>2. /\ rep.org = r.org /\ rep.workflowRef = r.workflowRef
          /\ rep.claims = IF r.profile = <<>> THEN <<>> ELSE ClaimsOf(r.profile[1])
      BY <1>6, <1>9
    <2>3. rep.ref = AssessmentRef(rep, r)
      BY <1>9, <1>10
    <2>4. PillarsFor(r) \in RatedPillars /\ Shows(rep, r.context, PillarsFor(r))
      BY <1>0, <1>2, <2>1, Zenon
    <2>5. QED BY <1>11, <2>2, <2>3, <2>4, Zenon DEF Reports
  <1>13. QED BY <1>12 DEF rep
LEMMA PillarsOfReport ==
  ASSUME NEW rep, NEW r, Reports(rep, r)
  PROVE \E pillars \in RatedPillars :
          /\ rep.workflow = <<Readiness(r.context, pillars)>>
          /\ rep.overall = WorkflowScore(pillars)
          /\ rep.grade = Grade(WorkflowScore(pillars))
  BY Zenon DEF Reports, Shows

-----------------------------------------------------------------------------
(* A better request is a request *)

LEMMA AboveIsOfLadder ==
  ASSUME NEW S, NEW ladder \in Seq(S), NEW x, NEW y \in Above(ladder, x)
  PROVE y \in S
  BY DEF Above

LEMMA BetterClaimsAreClaims ==
  ASSUME NEW c \in ClaimsProfile, NEW d \in BetterClaims(c)
  PROVE d \in ClaimsProfile
  <1> DEFINE States == {"missing", "review_required", "ready"}
  <1>1. ClaimStates \in Seq(States) /\ Range(ClaimStates) = States
    <2>1. ClaimStates \in Seq(States)
      BY DEF ClaimStates
    <2>2. DOMAIN ClaimStates = 1 .. 3
      BY DEF ClaimStates
    <2>3. /\ ClaimStates[1] = "missing" /\ ClaimStates[2] = "review_required"
          /\ ClaimStates[3] = "ready"
      BY DEF ClaimStates
    <2>4. Range(ClaimStates) = {ClaimStates[i] : i \in 1 .. 3}
      BY <2>2 DEF Range
    <2>5. Range(ClaimStates) = States
      BY <2>3, <2>4
    <2>6. QED BY <2>1, <2>5
  <1>2. /\ c \in [states : [Reviews -> States], lacking : Nat, core : Nat]
        /\ c.core <= c.lacking
    BY <1>1 DEF ClaimsProfile
  <1>3. \A s : s \in ClaimsProfile <=>
               /\ s \in [states : [Reviews -> States], lacking : Nat, core : Nat]
               /\ s.core <= s.lacking
    BY <1>1 DEF ClaimsProfile
  <1> HIDE DEF States
  <1>4. CASE \E v \in Reviews : \E s \in Above(ClaimStates, c.states[v]) :
               d = [c EXCEPT !.states[v] = s]
    <2>1. PICK v \in Reviews, s \in States : d = [c EXCEPT !.states[v] = s]
      BY <1>1, <1>4, AboveIsOfLadder
    <2>2. QED BY <1>2, <1>3, <2>1
  <1>5. CASE c.lacking > c.core /\ d = [c EXCEPT !.lacking = @ - 1]
    BY <1>2, <1>3, <1>5
  <1>6. CASE c.core > 0 /\ d = [c EXCEPT !.lacking = @ - 1, !.core = @ - 1]
    <2>1. /\ d.core = c.core - 1 /\ d.lacking = c.lacking - 1 /\ d.states = c.states
          /\ d = [states |-> c.states, lacking |-> c.lacking - 1, core |-> c.core - 1]
      BY <1>2, <1>6
    <2>2. c.core - 1 \in Nat /\ c.lacking - 1 \in Nat /\ c.core - 1 <= c.lacking - 1
      BY <1>2, <1>6
    <2>3. QED BY <1>2, <1>3, <2>1, <2>2
  <1>7. QED BY <1>4, <1>5, <1>6 DEF BetterClaims

LEMMA BetterProfilesAreProfiles ==
  ASSUME NEW p \in Profiles, NEW q \in BetterProfiles(p)
  PROVE q \in Profiles
  <1>1. CASE \E x \in Questions : q = [p EXCEPT !.answers[x] = "yes"]
    BY <1>1 DEF Profiles, Answers
  <1>2. CASE \E f \in DOMAIN Ladders : \E x \in Above(Ladders[f], p[f]) : q = [p EXCEPT ![f] = x]
    <2>1. PICK f \in DOMAIN Ladders, x \in Nat : q = [p EXCEPT ![f] = x]
      BY <1>2, LaddersAssumption, AboveIsOfLadder
    <2>2. f \in {"volume", "reviewed", "sources", "coverage", "age"}
      BY LaddersAssumption
    <2>3. QED BY <2>1, <2>2 DEF Profiles, Numbers
  <1>3. CASE \E f \in DOMAIN GovernanceLadders :
               \E x \in Above(GovernanceLadders[f], p.governance[f]) :
                 q = [p EXCEPT !.governance[f] = x]
    <2>1a. PICK f \in DOMAIN GovernanceLadders :
             \E x \in Above(GovernanceLadders[f], p.governance[f]) :
               q = [p EXCEPT !.governance[f] = x]
      BY <1>3
    <2>1. PICK x \in Above(GovernanceLadders[f], p.governance[f]) :
            q = [p EXCEPT !.governance[f] = x]
      BY <2>1a
    <2>0. /\ <<"operator", "owner">> \in Seq(Bases)
          /\ <<"missing", "partial", "complete">> \in Seq(Completeness)
          /\ <<"critical", "high", "medium", "low">> \in Seq(RiskBands)
      BY DEF Bases, Completeness, RiskBands
    <2>2. \/ f = "basis" /\ GovernanceLadders[f] \in Seq(Bases)
          \/ /\ f \in {"rights", "provenance", "redaction"}
             /\ GovernanceLadders[f] \in Seq(Completeness)
          \/ f = "risk" /\ GovernanceLadders[f] \in Seq(RiskBands)
      <3>1. f \in {"basis", "rights", "provenance", "redaction", "risk"}
        BY DEF GovernanceLadders
      <3>2. /\ GovernanceLadders.basis = <<"operator", "owner">>
            /\ GovernanceLadders.rights = <<"missing", "partial", "complete">>
            /\ GovernanceLadders.provenance = <<"missing", "partial", "complete">>
            /\ GovernanceLadders.redaction = <<"missing", "partial", "complete">>
            /\ GovernanceLadders.risk = <<"critical", "high", "medium", "low">>
        BY DEF GovernanceLadders
      <3>3. /\ GovernanceLadders.basis \in Seq(Bases)
            /\ \A g \in {"rights", "provenance", "redaction"} :
                 GovernanceLadders[g] \in Seq(Completeness)
            /\ GovernanceLadders.risk \in Seq(RiskBands)
        BY <2>0, <3>2
      <3>4. QED BY <3>1, <3>3
    <2>3. \/ f = "basis" /\ x \in Bases
          \/ f \in {"rights", "provenance", "redaction"} /\ x \in Completeness
          \/ f = "risk" /\ x \in RiskBands
      BY <2>2, AboveIsOfLadder
    <2>4. p.governance \in Governance
      BY DEF Profiles
    <2>5. p.governance.basis # "none" /\ x # "none"
      <3>1. PICK k \in DOMAIN GovernanceLadders[f] \ {1} :
              GovernanceLadders[f][k - 1] = p.governance[f] /\ GovernanceLadders[f][k] = x
        BY <2>1 DEF Above
      <3>2. \A g \in DOMAIN GovernanceLadders : \A j \in DOMAIN GovernanceLadders[g] :
              GovernanceLadders[g][j] # "none"
        BY DEF GovernanceLadders
      <3>3. k - 1 \in DOMAIN GovernanceLadders[f]
        BY <2>2, <3>1
      <3>4. p.governance[f] # "none" /\ x # "none"
        BY <3>1, <3>2, <3>3
      <3>5. QED BY <2>2, <2>4, <3>4 DEF Governance
    <2>6. [p.governance EXCEPT ![f] = x] \in Governance
      BY <2>3, <2>4, <2>5 DEF Governance, Bases
    <2>7. q = [p EXCEPT !.governance = [p.governance EXCEPT ![f] = x]]
      BY <2>1
    <2>8. QED BY <2>6, <2>7 DEF Profiles
  <1>4. CASE p.claims # <<>> /\ \E c \in BetterClaims(p.claims[1]) : q = [p EXCEPT !.claims[1] = c]
    <2>1. p.claims \in Seq(ClaimsProfile) /\ p.claims[1] \in ClaimsProfile
      BY <1>4 DEF Profiles
    <2>2. PICK c \in ClaimsProfile : q = [p EXCEPT !.claims[1] = c]
      BY <1>4, <2>1, BetterClaimsAreClaims
    <2>3. [p.claims EXCEPT ![1] = c] \in Seq(ClaimsProfile)
      BY <1>4, <2>1
    <2>4. QED BY <2>2, <2>3 DEF Profiles
  <1>5. \/ \E x \in Questions : q = [p EXCEPT !.answers[x] = "yes"]
        \/ \E f \in DOMAIN Ladders : \E x \in Above(Ladders[f], p[f]) : q = [p EXCEPT ![f] = x]
        \/ \E f \in DOMAIN GovernanceLadders :
             \E x \in Above(GovernanceLadders[f], p.governance[f]) :
               q = [p EXCEPT !.governance[f] = x]
        \/ p.claims # <<>> /\ \E c \in BetterClaims(p.claims[1]) : q = [p EXCEPT !.claims[1] = c]
    BY Zenon DEF BetterProfiles
  <1>6. QED BY <1>1, <1>2, <1>3, <1>4, <1>5, Zenon

LEMMA BetterEvidenceIsEvidence ==
  ASSUME NEW e \in Evidence, NEW g \in BetterEvidence(e)
  PROVE g \in Evidence
  <1>1. CASE \E x \in Confirmations : g = [e EXCEPT ![x] = "yes"]
    BY <1>1 DEF Evidence, Confirmations, Answers
  <1>2. CASE \E x \in Above(<<0, 1, 3>>, e.approvals) : g = [e EXCEPT !.approvals = x]
    <2>1. <<0, 1, 3>> \in Seq(Nat)
      OBVIOUS
    <2>2. PICK x \in Nat : g = [e EXCEPT !.approvals = x]
      BY <1>2, <2>1, AboveIsOfLadder
    <2>3. QED BY <2>2 DEF Evidence, Numbers
  <1>3. CASE \E x \in Above(<<0, 1, 10>>, e.logs) : g = [e EXCEPT !.logs = x]
    <2>1. <<0, 1, 10>> \in Seq(Nat)
      OBVIOUS
    <2>2. PICK x \in Nat : g = [e EXCEPT !.logs = x]
      BY <1>3, <2>1, AboveIsOfLadder
    <2>3. QED BY <2>2 DEF Evidence, Numbers
  <1>4. QED BY <1>1, <1>2, <1>3 DEF BetterEvidence

LEMMA BetterRefIsRef ==
  ASSUME NEW ref \in ControlRefs, NEW other \in BetterRef(ref)
  PROVE other \in ControlRefs
  <1> DEFINE States == {"planned", "in_progress", "implemented", "waived"}
             Linkages == {"missing", "linked", "verified", "not_applicable"}
  <1>1. /\ <<"planned", "in_progress", "implemented">> \in Seq(States)
        /\ <<"missing", "linked", "verified">> \in Seq(Linkages)
    OBVIOUS
  <1>2. \/ \E x \in States : other = [ref EXCEPT !.implementation = x]
        \/ \E x \in Linkages : other = [ref EXCEPT !.linkage = x]
    <2> HIDE DEF States, Linkages
    <2>1. QED BY <1>1, AboveIsOfLadder DEF BetterRef
  <1>3. QED BY <1>2 DEF ControlRefs

LEMMA OtherPartsAreRequests ==
  ASSUME NEW r \in Request, NEW s,
         \/ \E t \in Seq(Profiles) : s = [r EXCEPT !.profile = t]
         \/ \E t \in Seq(Evidence) : s = [r EXCEPT !.evidence = t]
         \/ \E t \in Seq(ControlRefs) : s = [r EXCEPT !.controlRefs = t]
  PROVE s \in Request
  <1> DEFINE Endpoints == {"report", "ref"}
             Types == {"workflow_readiness", "operational_learning_suitability"}
             Scores == (0 .. 1000) \cup {NotGiven}
             Names == STRING
             Truths == BOOLEAN
             Contexts == WorkflowContext
             Refs == Seq(Reference)
             Controls == Seq(ControlRefs)
             Evidences == Seq(Evidence)
             Learnings == Seq(LearningInputs)
             Profiled == Seq(Profiles)
             Fields == [endpoint : Endpoints, org : Names, context : Contexts,
                        workflowRef : Refs, controlRefs : Controls, baseline : Scores,
                        evidence : Evidences, learning : Learnings, profile : Profiled,
                        type : Types, texts : Truths]
  <1>0. Request = {x \in Fields : x.endpoint = "report" => x.type = "workflow_readiness"}
    BY DEF Request
  <1>1. r \in Fields /\ (r.endpoint = "report" => r.type = "workflow_readiness")
    <2> HIDE DEF Fields
    <2>1. QED BY <1>0, Zenon
  <1>2. ASSUME s \in Fields, s.endpoint = r.endpoint, s.type = r.type
        PROVE s \in Request
    <2>1. s.endpoint = "report" => s.type = "workflow_readiness"
      BY <1>1, <1>2
    <2> HIDE DEF Fields
    <2>2. QED BY <1>0, <1>2, <2>1, Zenon
  <1>3. \/ \E t \in Profiled : s = [r EXCEPT !.profile = t]
        \/ \E t \in Evidences : s = [r EXCEPT !.evidence = t]
        \/ \E t \in Controls : s = [r EXCEPT !.controlRefs = t]
    OBVIOUS
  <1> HIDE DEF Endpoints, Types, Scores, Names, Truths, Contexts, Refs, Controls, Evidences,
               Learnings, Profiled
  <1>4. s \in Fields /\ s.endpoint = r.endpoint /\ s.type = r.type
    BY <1>1, <1>3
  <1>5. QED BY <1>2, <1>4

LEMMA BetterIsRequest ==
  ASSUME NEW r \in Request, NEW s \in Better(r)
  PROVE s \in Request
  <1>1. /\ r.evidence \in Seq(Evidence) /\ r.profile \in Seq(Profiles)
        /\ r.controlRefs \in Seq(ControlRefs)
    BY DEF Request
  <1>2. CASE r.profile # <<>> /\ \E p \in BetterProfiles(r.profile[1]) :
               s = [r EXCEPT !.profile[1] = p]
    <2>1. r.profile[1] \in Profiles
      BY <1>1, <1>2
    <2>2. PICK p \in Profiles : s = [r EXCEPT !.profile[1] = p]
      BY <1>2, <2>1, BetterProfilesAreProfiles
    <2>3. [r.profile EXCEPT ![1] = p] \in Seq(Profiles)
      BY <1>1, <1>2
    <2>4. s = [r EXCEPT !.profile = [r.profile EXCEPT ![1] = p]]
      BY <2>2
    <2>5. QED BY <2>3, <2>4, OtherPartsAreRequests
  <1>3. CASE r.evidence # <<>> /\ \E e \in BetterEvidence(r.evidence[1]) :
               s = [r EXCEPT !.evidence[1] = e]
    <2>1. r.evidence[1] \in Evidence
      BY <1>1, <1>3
    <2>2. PICK e \in Evidence : s = [r EXCEPT !.evidence[1] = e]
      BY <1>3, <2>1, BetterEvidenceIsEvidence
    <2>3. [r.evidence EXCEPT ![1] = e] \in Seq(Evidence)
      BY <1>1, <1>3
    <2>4. s = [r EXCEPT !.evidence = [r.evidence EXCEPT ![1] = e]]
      BY <2>2
    <2>5. QED BY <2>3, <2>4, OtherPartsAreRequests
  <1>4. CASE \E i \in DOMAIN r.controlRefs : \E ref \in BetterRef(r.controlRefs[i]) :
               s = [r EXCEPT !.controlRefs[i] = ref]
    <2>1. PICK i \in DOMAIN r.controlRefs : \E ref \in BetterRef(r.controlRefs[i]) :
                 s = [r EXCEPT !.controlRefs[i] = ref]
      BY <1>4
    <2>2. r.controlRefs[i] \in ControlRefs
      BY <1>1
    <2>3. PICK ref \in ControlRefs : s = [r EXCEPT !.controlRefs[i] = ref]
      BY <2>1, <2>2, BetterRefIsRef
    <2>4. [r.controlRefs EXCEPT ![i] = ref] \in Seq(ControlRefs)
      BY <1>1
    <2>5. s = [r EXCEPT !.controlRefs = [r.controlRefs EXCEPT ![i] = ref]]
      BY <2>3
    <2>6. QED BY <2>4, <2>5, OtherPartsAreRequests
  <1>5. QED BY <1>2, <1>3, <1>4 DEF Better
-----------------------------------------------------------------------------
(* Rounding and bounding keep the order of scores *)

LEMMA DivisionIsExact ==
  ASSUME NEW n \in Nat, NEW d \in Nat \ {0},
         NEW q, q = n \div d, NEW r, r = n % d
  PROVE q \in Nat /\ r \in Nat /\ n = d * q + r /\ r < d
  <1>1. q \in Nat
    OBVIOUS
  <1>2. r \in Nat /\ r < d
    OBVIOUS
  <1>3. n = d * q + r
    <2>1. n \in Int /\ d \in Int /\ d > 0 /\ q \in Int /\ r \in Int
      BY <1>1, <1>2
    <2>2. QED BY <2>1
  <1>4. QED BY <1>1, <1>2, <1>3

LEMMA ProductMonotone ==
  ASSUME NEW x \in Nat, NEW y \in Nat, x <= y, NEW d \in Nat
  PROVE d * x <= d * y
  OBVIOUS

LEMMA RoundedMonotone ==
  ASSUME NEW m \in Nat, NEW n \in Nat, m <= n, NEW d \in Nat \ {0}
  PROVE Rounded(m, d) <= Rounded(n, d)
  <1> DEFINE p == m \div d
             a == m % d
             q == n \div d
             b == n % d
  <1>1. p \in Nat /\ a \in Nat /\ m = d * p + a /\ a < d
    BY DivisionIsExact
  <1>2. q \in Nat /\ b \in Nat /\ n = d * q + b /\ b < d
    BY DivisionIsExact
  <1>3. /\ Rounded(m, d) = IF 2 * a > d \/ (2 * a = d /\ p % 2 = 1) THEN p + 1 ELSE p
        /\ Rounded(n, d) = IF 2 * b > d \/ (2 * b = d /\ q % 2 = 1) THEN q + 1 ELSE q
    BY DEF Rounded
  <1> HIDE DEF p, a, q, b
  <1>4. p <= q
    <2>1. SUFFICES ASSUME q + 1 <= p PROVE FALSE
      BY <1>1, <1>2
    <2>2. d * (q + 1) <= d * p
      BY <1>1, <1>2, <2>1, ProductMonotone
    <2>3. d * (q + 1) = d * q + d
      BY <1>2
    <2> DEFINE x == d * p
               y == d * q
    <2>4. x \in Int /\ y \in Int /\ y + d <= x /\ m = x + a /\ n = y + b
      BY <1>1, <1>2, <2>2, <2>3
    <2> HIDE DEF x, y
    <2>5. QED BY <1>1, <1>2, <2>4
  <1>5. CASE p < q
    BY <1>1, <1>2, <1>3, <1>5
  <1>6. CASE p = q
    <2>1. a <= b
      <3> DEFINE x == d * p
      <3>1. x \in Int /\ m = x + a /\ n = x + b
        BY <1>1, <1>2, <1>6
      <3> HIDE DEF x
      <3>2. QED BY <1>1, <1>2, <3>1
    <2>2. QED BY <1>1, <1>2, <1>3, <1>6, <2>1
  <1>7. QED BY <1>1, <1>2, <1>4, <1>5, <1>6

LEMMA BoundedMonotone ==
  ASSUME NEW x \in Int, NEW y \in Int, x <= y
  PROVE Bounded(x) <= Bounded(y) /\ Bounded(x) \in Nat /\ Bounded(y) \in Nat
  BY DEF Bounded, AtLeast, AtMost

-----------------------------------------------------------------------------
(* Answers that are no worse *)

\* y is x, or better than it.
NoWorseAnswer(x, y) ==
  x \in Answers /\ y \in Answers /\ (x = y \/ x = "no" \/ y = "yes")

LEMMA AnsweredMonotone ==
  ASSUME NEW x, NEW y, NoWorseAnswer(x, y), NEW gain \in Nat, NEW loss \in Nat
  PROVE /\ Answered(x, gain, loss) \in Int /\ Answered(y, gain, loss) \in Int
        /\ Answered(x, gain, loss) <= Answered(y, gain, loss)
  BY DEF NoWorseAnswer, Answers, Answered

AllOf(e, f, g) ==
  IF e = "unknown" \/ f = "unknown" \/ g = "unknown" THEN "unknown"
  ELSE IF e = "yes" /\ f = "yes" /\ g = "yes" THEN "yes" ELSE "no"

LEMMA AllTrueOfThree ==
  ASSUME NEW e, NEW f, NEW g
  PROVE AllTrue({e, f, g}) = AllOf(e, f, g)
  <1>1. CASE "unknown" \in {e, f, g}
    BY <1>1 DEF AllTrue, AllOf
  <1>2. CASE "unknown" \notin {e, f, g} /\ {e, f, g} = {"yes"}
    BY <1>2 DEF AllTrue, AllOf
  <1>3. CASE "unknown" \notin {e, f, g} /\ {e, f, g} # {"yes"}
    BY <1>3 DEF AllTrue, AllOf
  <1>4. QED BY <1>1, <1>2, <1>3

AnyOf(e, f) ==
  IF e = "yes" \/ f = "yes" THEN "yes" ELSE IF e = "no" /\ f = "no" THEN "no" ELSE "unknown"

LEMMA AnyTrueOfTwo ==
  ASSUME NEW e, NEW f
  PROVE AnyTrue({e, f}) = AnyOf(e, f)
  <1>1. CASE "yes" \in {e, f}
    BY <1>1 DEF AnyTrue, AnyOf
  <1>2. CASE "yes" \notin {e, f} /\ {e, f} = {"no"}
    BY <1>2 DEF AnyTrue, AnyOf
  <1>3. CASE "yes" \notin {e, f} /\ {e, f} # {"no"}
    BY <1>3 DEF AnyTrue, AnyOf
  <1>4. QED BY <1>1, <1>2, <1>3

\* A "no" that became "yes", or the same.
Improved(x, y) == NoWorseAnswer(x, y) /\ (x = "unknown" <=> y = "unknown")

\* What is combined of improved answers is no worse.
LEMMA AndMonotone ==
  ASSUME NEW u, NEW v, NEW x, NEW y, Improved(u, x), Improved(v, y)
  PROVE NoWorseAnswer(And(u, v), And(x, y))
  BY DEF Improved, NoWorseAnswer, And, Answers

LEMMA AllTrueMonotone ==
  ASSUME NEW u, NEW v, NEW w, NEW x, NEW y, NEW z,
         Improved(u, x), Improved(v, y), Improved(w, z)
  PROVE NoWorseAnswer(AllTrue({u, v, w}), AllTrue({x, y, z}))
  <1>1. AllTrue({u, v, w}) = AllOf(u, v, w) /\ AllTrue({x, y, z}) = AllOf(x, y, z)
    BY AllTrueOfThree
  <1>2. NoWorseAnswer(AllOf(u, v, w), AllOf(x, y, z))
    BY DEF Improved, NoWorseAnswer, Answers, AllOf
  <1>3. QED BY <1>1, <1>2

LEMMA AnyTrueMonotone ==
  ASSUME NEW u, NEW v, NEW x, NEW y, Improved(u, x), Improved(v, y)
  PROVE NoWorseAnswer(AnyTrue({u, v}), AnyTrue({x, y}))
  <1>1. AnyTrue({u, v}) = AnyOf(u, v) /\ AnyTrue({x, y}) = AnyOf(x, y)
    BY AnyTrueOfTwo DEF Improved, NoWorseAnswer
  <1>2. NoWorseAnswer(AnyOf(u, v), AnyOf(x, y))
    BY DEF Improved, NoWorseAnswer, Answers, AnyOf
  <1>3. QED BY <1>1, <1>2

-----------------------------------------------------------------------------
(* Evidence that is no worse *)

\* The number y is x, or higher; neither came or went.
NoLess(x, y) == x \in Numbers /\ y \in Numbers /\ (x = y \/ (x # NotGiven /\ x <= y))

LEMMA CountMonotone ==
  ASSUME NEW x, NEW y, NoLess(x, y), NEW enough \in Nat \ {0}, NEW gain \in Nat, NEW few \in Nat,
         NEW none \in Nat, few <= none
  PROVE /\ CountDelta(x, enough, gain, few, none) \in Int
        /\ CountDelta(y, enough, gain, few, none) \in Int
        /\ CountDelta(x, enough, gain, few, none) <= CountDelta(y, enough, gain, few, none)
  <1>1. CASE x = NotGiven
    BY <1>1 DEF NoLess, Numbers, NotGiven, CountDelta
  <1>2. CASE x # NotGiven
    <2>1. x \in Nat /\ y \in Nat /\ x <= y /\ x # NotGiven /\ y # NotGiven
      BY <1>2 DEF NoLess, Numbers, NotGiven
    <2>2. \A c \in Nat : CountDelta(c, enough, gain, few, none) =
                           IF c >= enough THEN gain ELSE IF c = 0 THEN -none ELSE -few
      BY DEF CountDelta, NotGiven
    <2>3. QED BY <2>1, <2>2
  <1>3. QED BY <1>1, <1>2

LEMMA CoverageMonotone ==
  ASSUME NEW x, NEW y, NoLess(x, y)
  PROVE /\ CoverageDelta(x) \in Int /\ CoverageDelta(y) \in Int
        /\ CoverageDelta(x) <= CoverageDelta(y)
  BY DEF NoLess, Numbers, NotGiven, CoverageDelta

LEMMA AgeMonotone ==
  ASSUME NEW x, NEW y, NoLess(y, x) \/ (x = y /\ x \in Numbers)
  PROVE /\ AgeDelta(x) \in Int /\ AgeDelta(y) \in Int
        /\ AgeDelta(x) <= AgeDelta(y)
  BY DEF NoLess, Numbers, NotGiven, AgeDelta

NoWorsePosture(x, y) ==
  /\ NoLess(x.coverage, y.coverage) /\ NoLess(y.age, x.age)
  /\ NoWorseAnswer(x.audit, y.audit) /\ NoWorseAnswer(x.linked, y.linked)

LEMMA PostureMonotone ==
  ASSUME NEW x, NEW y, NoWorsePosture(x, y)
  PROVE /\ PostureDelta(x) \in Int /\ PostureDelta(y) \in Int
        /\ PostureDelta(x) <= PostureDelta(y)
  <1>1. /\ CoverageDelta(x.coverage) \in Int /\ CoverageDelta(y.coverage) \in Int
        /\ CoverageDelta(x.coverage) <= CoverageDelta(y.coverage)
    BY CoverageMonotone DEF NoWorsePosture
  <1>2. /\ AgeDelta(x.age) \in Int /\ AgeDelta(y.age) \in Int /\ AgeDelta(x.age) <= AgeDelta(y.age)
    BY AgeMonotone DEF NoWorsePosture
  <1>3. /\ Answered(x.audit, 50, 80) \in Int /\ Answered(y.audit, 50, 80) \in Int
        /\ Answered(x.audit, 50, 80) <= Answered(y.audit, 50, 80)
    BY AnsweredMonotone DEF NoWorsePosture
  <1>4. /\ Answered(x.linked, 30, 50) \in Int /\ Answered(y.linked, 30, 50) \in Int
        /\ Answered(x.linked, 30, 50) <= Answered(y.linked, 30, 50)
    BY AnsweredMonotone DEF NoWorsePosture
  <1>5. QED BY <1>1, <1>2, <1>3, <1>4 DEF PostureDelta

\* A control whose state counts no less.
NoWorseControls(c, d) ==
  \A a \in ControlAreas : /\ ControlDelta[c[a]] \in Int /\ ControlDelta[d[a]] \in Int
                          /\ ControlDelta[c[a]] <= ControlDelta[d[a]]

LEMMA ControlsMonotone ==
  ASSUME NEW c, NEW d, NoWorseControls(c, d)
  PROVE /\ ControlsDelta(c) \in Int /\ ControlsDelta(d) \in Int
        /\ ControlsDelta(c) <= ControlsDelta(d)
  BY DEF NoWorseControls, ControlsDelta, ControlAreas

\* The evidence moves no pillar down.
NoWorseEvidence(e, f) ==
  /\ NoWorseControls(e.controls, f.controls)
  /\ \/ /\ e.posture # <<>> /\ f.posture # <<>>
        /\ NoWorsePosture(e.posture[1], f.posture[1])
     \/ /\ e.posture = <<>> /\ f.posture = <<>>
        /\ NoLess(e.approvals, f.approvals) /\ NoLess(e.logs, f.logs)
  /\ NoWorseAnswer(e.owner, f.owner) /\ NoWorseAnswer(e.systems, f.systems)
  /\ NoWorseAnswer(e.escalation, f.escalation) /\ NoWorseAnswer(e.fallback, f.fallback)
  /\ NoWorseAnswer(e.override, f.override) /\ NoWorseAnswer(e.rollback, f.rollback)

LEMMA EvidenceMonotone ==
  ASSUME NEW e \in Evidence, NEW f \in Evidence, NoWorseEvidence(e, f)
  PROVE \A p \in Pillars : EvidenceDelta(e)[p] <= EvidenceDelta(f)[p]
  <1>0. /\ NoWorseAnswer(e.owner, f.owner) /\ NoWorseAnswer(e.systems, f.systems)
        /\ NoWorseAnswer(e.escalation, f.escalation) /\ NoWorseAnswer(e.fallback, f.fallback)
        /\ NoWorseAnswer(e.override, f.override) /\ NoWorseAnswer(e.rollback, f.rollback)
    BY Zenon DEF NoWorseEvidence
  <1>1. EvidenceDelta(e).stability <= EvidenceDelta(f).stability
    <2>1. /\ Answered(e.fallback, 30, 50) \in Int /\ Answered(f.fallback, 30, 50) \in Int
          /\ Answered(e.fallback, 30, 50) <= Answered(f.fallback, 30, 50)
      BY <1>0, AnsweredMonotone
    <2>2. /\ Answered(e.rollback, 30, 60) \in Int /\ Answered(f.rollback, 30, 60) \in Int
          /\ Answered(e.rollback, 30, 60) <= Answered(f.rollback, 30, 60)
      BY <1>0, AnsweredMonotone
    <2>3. QED BY <2>1, <2>2 DEF EvidenceDelta
  <1>2. EvidenceDelta(e).resilience <= EvidenceDelta(f).resilience
    <2>1. Answered(e.systems, 40, 80) <= Answered(f.systems, 40, 80)
      BY <1>0, AnsweredMonotone
    <2>2. QED BY <2>1 DEF EvidenceDelta
  <1>3. EvidenceDelta(e).oversight <= EvidenceDelta(f).oversight
    <2>1. /\ Answered(e.owner, 40, 100) \in Int /\ Answered(f.owner, 40, 100) \in Int
          /\ Answered(e.owner, 40, 100) <= Answered(f.owner, 40, 100)
      BY <1>0, AnsweredMonotone
    <2>2. /\ Answered(e.escalation, 50, 100) \in Int /\ Answered(f.escalation, 50, 100) \in Int
          /\ Answered(e.escalation, 50, 100) <= Answered(f.escalation, 50, 100)
      BY <1>0, AnsweredMonotone
    <2>3. /\ Answered(e.override, 30, 60) \in Int /\ Answered(f.override, 30, 60) \in Int
          /\ Answered(e.override, 30, 60) <= Answered(f.override, 30, 60)
      BY <1>0, AnsweredMonotone
    <2>4. QED BY <2>1, <2>2, <2>3 DEF EvidenceDelta
  <1>4. EvidenceDelta(e).control <= EvidenceDelta(f).control
    <2>1. /\ ControlsDelta(e.controls) \in Int /\ ControlsDelta(f.controls) \in Int
          /\ ControlsDelta(e.controls) <= ControlsDelta(f.controls)
      BY ControlsMonotone DEF NoWorseEvidence
    <2>2. /\ TraceDelta(e) \in Int /\ TraceDelta(f) \in Int /\ TraceDelta(e) <= TraceDelta(f)
      <3>1. CASE /\ e.posture # <<>> /\ f.posture # <<>>
                 /\ NoWorsePosture(e.posture[1], f.posture[1])
        BY <3>1, PostureMonotone DEF TraceDelta
      <3>2. CASE /\ e.posture = <<>> /\ f.posture = <<>>
                 /\ NoLess(e.approvals, f.approvals) /\ NoLess(e.logs, f.logs)
        <4> DEFINE a == CountDelta(e.approvals, 3, 60, 40, 120)
                   b == CountDelta(f.approvals, 3, 60, 40, 120)
                   c == CountDelta(e.logs, 10, 50, 30, 100)
                   d == CountDelta(f.logs, 10, 50, 30, 100)
        <4>1. a \in Int /\ b \in Int /\ a <= b
          BY <3>2, CountMonotone
        <4>2. c \in Int /\ d \in Int /\ c <= d
          BY <3>2, CountMonotone
        <4>3. TraceDelta(e) = a + c /\ TraceDelta(f) = b + d
          BY <3>2 DEF TraceDelta
        <4> HIDE DEF a, b, c, d
        <4>4. QED BY <4>1, <4>2, <4>3
      <3>3. QED BY <3>1, <3>2 DEF NoWorseEvidence
    <2>3. QED BY <2>1, <2>2 DEF EvidenceDelta
  <1>5. EvidenceDelta(e).blast <= EvidenceDelta(f).blast
    <2>1. /\ Answered(e.fallback, 50, 70) \in Int /\ Answered(f.fallback, 50, 70) \in Int
          /\ Answered(e.fallback, 50, 70) <= Answered(f.fallback, 50, 70)
      BY <1>0, AnsweredMonotone
    <2>2. /\ Answered(e.rollback, 60, 100) \in Int /\ Answered(f.rollback, 60, 100) \in Int
          /\ Answered(e.rollback, 60, 100) <= Answered(f.rollback, 60, 100)
      BY <1>0, AnsweredMonotone
    <2>3. QED BY <2>1, <2>2 DEF EvidenceDelta
  <1>6. QED BY <1>1, <1>2, <1>3, <1>4, <1>5 DEF Pillars

\* Pillars that are moved by evidence that is no worse make no lower score.
LEMMA ScoreMonotone ==
  ASSUME NEW p \in RatedPillars, NEW q \in RatedPillars, \A x \in Pillars : p[x] <= q[x]
  PROVE WorkflowScore(p) <= WorkflowScore(q)
  <1> DEFINE m == p.stability + p.resilience + p.oversight + p.control + p.blast
             n == q.stability + q.resilience + q.oversight + q.control + q.blast
  <1>0. \A x \in Pillars : p[x] \in Nat /\ q[x] \in Nat
    BY RatedIsNumber
  <1>1. /\ p.stability \in Nat /\ p.resilience \in Nat /\ p.oversight \in Nat
        /\ p.control \in Nat /\ p.blast \in Nat
    BY <1>0 DEF Pillars
  <1>2. /\ q.stability \in Nat /\ q.resilience \in Nat /\ q.oversight \in Nat
        /\ q.control \in Nat /\ q.blast \in Nat
    BY <1>0 DEF Pillars
  <1>3. /\ p.stability <= q.stability /\ p.resilience <= q.resilience
        /\ p.oversight <= q.oversight /\ p.control <= q.control /\ p.blast <= q.blast
    BY DEF Pillars
  <1>4. m \in Nat /\ n \in Nat /\ m <= n
    BY <1>1, <1>2, <1>3
  <1>5. WorkflowScore(p) = Rounded(m, 5) /\ WorkflowScore(q) = Rounded(n, 5)
    BY DEF WorkflowScore
  <1> HIDE DEF m, n
  <1>6. Rounded(m, 5) <= Rounded(n, 5)
    BY <1>4, RoundedMonotone
  <1>7. QED BY <1>5, <1>6

LEMMA MovedMonotone ==
  ASSUME NEW p \in RatedPillars, NEW e \in Evidence, NEW f \in Evidence, NoWorseEvidence(e, f)
  PROVE \A x \in Pillars : Moved(p, e)[x] <= Moved(p, f)[x]
  <1>1. TAKE x \in Pillars
  <1>2. p[x] \in Int /\ EvidenceDelta(e)[x] \in Int /\ EvidenceDelta(f)[x] \in Int
    <2>1. p[x] \in Int
      BY RatedIsNumber
    <2>2. EvidenceDelta(e)[x] \in Int /\ EvidenceDelta(f)[x] \in Int
      BY DeltasOfEvidence
    <2>3. QED BY <2>1, <2>2
  <1>3. EvidenceDelta(e)[x] <= EvidenceDelta(f)[x]
    BY EvidenceMonotone
  <1> DEFINE i == p[x] + EvidenceDelta(e)[x]
             j == p[x] + EvidenceDelta(f)[x]
  <1>4. i \in Int /\ j \in Int /\ i <= j
    BY <1>2, <1>3
  <1>5. Moved(p, e)[x] = Bounded(i) /\ Moved(p, f)[x] = Bounded(j)
    BY DEF Moved
  <1> HIDE DEF i, j
  <1>6. QED BY <1>4, <1>5, BoundedMonotone

-----------------------------------------------------------------------------
(* Profiles that are no worse *)

\* The next value of a ladder of completeness, or of risk.
NoWorseCompleteness(x, y) ==
  x = y \/ <<x, y>> \in {<<"missing", "partial">>, <<"partial", "complete">>}
NoWorseRisk(x, y) ==
  x = y \/ <<x, y>> \in {<<"critical", "high">>, <<"high", "medium">>, <<"medium", "low">>}

NoWorseGovernance(g, h) ==
  /\ g.basis = "owner" => h.basis = "owner"
  /\ NoWorseCompleteness(g.rights, h.rights)
  /\ NoWorseCompleteness(g.provenance, h.provenance)
  /\ NoWorseCompleteness(g.redaction, h.redaction)
  /\ NoWorseRisk(g.risk, h.risk)

NoWorseReview(x, y) ==
  x = y \/ <<x, y>> \in {<<"missing", "review_required">>, <<"review_required", "ready">>}

NoWorseClaims(c, d) ==
  /\ \A v \in Reviews : NoWorseReview(c.states[v], d.states[v])
  /\ d.lacking <= c.lacking /\ d.core <= c.core

NoWorseAnswers(a, b) ==
  \A x \in Questions : Improved(a[x], b[x])

NoWorseProfile(p, q) ==
  /\ NoWorseAnswers(p.answers, q.answers)
  /\ NoLess(p.volume, q.volume) /\ NoLess(p.reviewed, q.reviewed)
  /\ NoLess(p.sources, q.sources) /\ NoLess(p.coverage, q.coverage) /\ NoLess(q.age, p.age)
  /\ NoWorseGovernance(p.governance, q.governance)
  /\ \/ p.claims = <<>> /\ q.claims = <<>>
     \/ p.claims # <<>> /\ q.claims # <<>> /\ NoWorseClaims(p.claims[1], q.claims[1])

\* As many answers are known, and no fewer of them are "yes".
LEMMA AnswersCounted ==
  ASSUME NEW a, NEW b, NoWorseAnswers(a, b), NEW questions \in SUBSET Questions
  PROVE /\ Known(a, questions) = Known(b, questions)
        /\ Affirmed(a, questions) <= Affirmed(b, questions)
  <1>1. {x \in questions : a[x] # "unknown"} = {x \in questions : b[x] # "unknown"}
    BY DEF NoWorseAnswers, Improved
  <1>2. {x \in questions : a[x] = "yes"} \subseteq {x \in questions : b[x] = "yes"}
    BY DEF NoWorseAnswers, NoWorseAnswer, Improved
  <1>3. IsFiniteSet({x \in questions : b[x] = "yes"})
    <2>1. {x \in questions : b[x] = "yes"} \in SUBSET Questions
      OBVIOUS
    <2>2. QED BY <2>1, QuestionsAreFinite, FS_Subset
  <1>4. Affirmed(a, questions) <= Affirmed(b, questions)
    BY <1>2, <1>3, FS_Subset DEF Affirmed
  <1>5. QED BY <1>1, <1>4 DEF Known

\* The share of the known answers that are "yes" is no less.
LEMMA DerivedCoverageMonotone ==
  ASSUME NEW a, NEW b, NoWorseAnswers(a, b)
  PROVE NoLess(DerivedCoverage(a), DerivedCoverage(b))
  <1> DEFINE checks == Questions \ {"redaction", "owner", "systems", "sla"}
             known == Known(a, checks)
             x == Affirmed(a, checks)
             y == Affirmed(b, checks)
  <1>1. known = Known(b, checks) /\ x <= y /\ known \in Nat /\ x \in Nat /\ y \in Nat
    BY AnswersCounted, CountsOfAnswers
  <1>2. /\ DerivedCoverage(a) = IF known = 0 THEN NotGiven ELSE Rounded(1000 * x, known)
        /\ DerivedCoverage(b) = IF known = 0 THEN NotGiven ELSE Rounded(1000 * y, known)
    BY <1>1 DEF DerivedCoverage
  <1> HIDE DEF known, x, y
  <1>3. CASE known = 0
    BY <1>2, <1>3 DEF NoLess, Numbers
  <1>4. CASE known # 0
    <2> DEFINE m == 1000 * x
               n == 1000 * y
    <2>1. m \in Nat /\ n \in Nat /\ m <= n
      BY <1>1
    <2> HIDE DEF m, n
    <2>2. Rounded(m, known) \in Nat /\ Rounded(n, known) \in Nat
      BY <1>1, <1>4, <2>1, RoundedNat
    <2>3. Rounded(m, known) <= Rounded(n, known)
      BY <1>1, <1>4, <2>1, RoundedMonotone
    <2>4. DerivedCoverage(a) = Rounded(m, known) /\ DerivedCoverage(b) = Rounded(n, known)
      BY <1>2, <1>4 DEF m, n
    <2>5. QED BY <2>2, <2>3, <2>4 DEF NoLess, Numbers, NotGiven
  <1>5. QED BY <1>3, <1>4

\* A better answer makes a better control.
LEMMA VerifiedMonotone ==
  ASSUME NEW x, NEW y, NoWorseAnswer(x, y)
  PROVE /\ ControlDelta[VerifiedWhen(x)] \in Int /\ ControlDelta[VerifiedWhen(y)] \in Int
        /\ ControlDelta[VerifiedWhen(x)] <= ControlDelta[VerifiedWhen(y)]
  BY DEF NoWorseAnswer, Answers, VerifiedWhen, ControlDelta

LEMMA ProfileEvidenceMonotone ==
  ASSUME NEW p \in Profiles, NEW q \in Profiles, NoWorseProfile(p, q)
  PROVE NoWorseEvidence(EvidenceOf(p), EvidenceOf(q))
  <1> DEFINE a == p.answers
             b == q.answers
             e == EvidenceOf(p)
             f == EvidenceOf(q)
  <1>1. NoWorseAnswers(a, b)
    BY DEF NoWorseProfile
  <1> HIDE DEF a, b
  <1>2. /\ Improved(a.signoff, b.signoff) /\ Improved(a.escalated, b.escalated)
        /\ Improved(a.evidence, b.evidence) /\ Improved(a.closed, b.closed)
        /\ Improved(a.owner, b.owner) /\ Improved(a.systems, b.systems)
        /\ Improved(a.sla, b.sla)
    BY <1>1 DEF NoWorseAnswers, Questions
  <1>3. /\ NoWorseAnswer(a.signoff, b.signoff) /\ NoWorseAnswer(a.escalated, b.escalated)
        /\ NoWorseAnswer(a.evidence, b.evidence) /\ NoWorseAnswer(a.closed, b.closed)
        /\ NoWorseAnswer(a.owner, b.owner) /\ NoWorseAnswer(a.systems, b.systems)
    BY <1>2 DEF Improved
  <1>4. /\ NoWorseAnswer(And(a.signoff, a.escalated), And(b.signoff, b.escalated))
        /\ NoWorseAnswer(And(a.evidence, a.closed), And(b.evidence, b.closed))
    BY <1>2, AndMonotone
  <1>5. NoWorseAnswer(AllTrue({a.evidence, a.closed, a.escalated}),
                      AllTrue({b.evidence, b.closed, b.escalated}))
    BY <1>2, AllTrueMonotone
  <1>6. NoWorseControls(e.controls, f.controls)
    <2>1. /\ e.controls.approval_gate = VerifiedWhen(And(a.signoff, a.escalated))
          /\ e.controls.decision_logging = VerifiedWhen(a.evidence)
          /\ e.controls.evidence_retention = VerifiedWhen(And(a.evidence, a.closed))
          /\ e.controls.exception_handling = VerifiedWhen(a.escalated)
          /\ e.controls.periodic_review =
               IF a.sla = "yes" THEN "documented" ELSE VerifiedWhen(a.sla)
      BY DEF EvidenceOf, a
    <2>2. /\ f.controls.approval_gate = VerifiedWhen(And(b.signoff, b.escalated))
          /\ f.controls.decision_logging = VerifiedWhen(b.evidence)
          /\ f.controls.evidence_retention = VerifiedWhen(And(b.evidence, b.closed))
          /\ f.controls.exception_handling = VerifiedWhen(b.escalated)
          /\ f.controls.periodic_review =
               IF b.sla = "yes" THEN "documented" ELSE VerifiedWhen(b.sla)
      BY DEF EvidenceOf, b
    <2> DEFINE c == e.controls
               d == f.controls
    <2> HIDE DEF e, f, c, d
    <2>3. /\ ControlDelta[c.approval_gate] \in Int /\ ControlDelta[d.approval_gate] \in Int
          /\ ControlDelta[c.approval_gate] <= ControlDelta[d.approval_gate]
      BY <1>4, <2>1, <2>2, VerifiedMonotone DEF c, d
    <2>4. /\ ControlDelta[c.decision_logging] \in Int /\ ControlDelta[d.decision_logging] \in Int
          /\ ControlDelta[c.decision_logging] <= ControlDelta[d.decision_logging]
      BY <1>3, <2>1, <2>2, VerifiedMonotone DEF c, d
    <2>5. /\ ControlDelta[c.evidence_retention] \in Int
          /\ ControlDelta[d.evidence_retention] \in Int
          /\ ControlDelta[c.evidence_retention] <= ControlDelta[d.evidence_retention]
      BY <1>4, <2>1, <2>2, VerifiedMonotone DEF c, d
    <2>6. /\ ControlDelta[c.exception_handling] \in Int
          /\ ControlDelta[d.exception_handling] \in Int
          /\ ControlDelta[c.exception_handling] <= ControlDelta[d.exception_handling]
      BY <1>3, <2>1, <2>2, VerifiedMonotone DEF c, d
    <2>7. /\ ControlDelta[c.periodic_review] \in Int /\ ControlDelta[d.periodic_review] \in Int
          /\ ControlDelta[c.periodic_review] <= ControlDelta[d.periodic_review]
      <3>1. /\ c.periodic_review = IF a.sla = "yes" THEN "documented" ELSE VerifiedWhen(a.sla)
            /\ d.periodic_review = IF b.sla = "yes" THEN "documented" ELSE VerifiedWhen(b.sla)
        BY <2>1, <2>2 DEF c, d
      <3>2. CASE a.sla = b.sla
        BY <1>2, <3>1, <3>2 DEF Improved, NoWorseAnswer, Answers, VerifiedWhen, ControlDelta
      <3>3. CASE a.sla = "no" /\ b.sla = "yes"
        BY <3>1, <3>3 DEF VerifiedWhen, ControlDelta
      <3>4. QED
        BY <1>2, <3>2, <3>3 DEF Improved, NoWorseAnswer, Answers
    <2>8. NoWorseControls(c, d)
      BY <2>3, <2>4, <2>5, <2>6, <2>7 DEF NoWorseControls, ControlAreas
    <2>9. QED BY <2>8 DEF c, d
  <1>7. NoWorsePosture(e.posture[1], f.posture[1])
    <2>1. /\ e.posture[1].coverage = IF p.coverage # NotGiven THEN p.coverage ELSE DerivedCoverage(a)
          /\ e.posture[1].age = p.age
          /\ e.posture[1].audit = AllTrue({a.evidence, a.closed, a.escalated})
          /\ e.posture[1].linked = LinkedArtifacts(p)
      BY DEF EvidenceOf, a
    <2>2. /\ f.posture[1].coverage = IF q.coverage # NotGiven THEN q.coverage ELSE DerivedCoverage(b)
          /\ f.posture[1].age = q.age
          /\ f.posture[1].audit = AllTrue({b.evidence, b.closed, b.escalated})
          /\ f.posture[1].linked = LinkedArtifacts(q)
      BY DEF EvidenceOf, b
    <2> DEFINE x == e.posture[1]
               y == f.posture[1]
    <2> HIDE DEF e, f, x, y
    <2>3. NoLess(x.coverage, y.coverage)
      <3>1. NoLess(p.coverage, q.coverage) /\ NoLess(DerivedCoverage(a), DerivedCoverage(b))
        BY <1>1, DerivedCoverageMonotone DEF NoWorseProfile
      <3>2. p.coverage = NotGiven <=> q.coverage = NotGiven
        BY <3>1 DEF NoLess, Numbers, NotGiven
      <3>3. QED BY <2>1, <2>2, <3>1, <3>2 DEF x, y
    <2>4. NoLess(y.age, x.age)
      BY <2>1, <2>2 DEF x, y, NoWorseProfile
    <2>5. NoWorseAnswer(x.audit, y.audit)
      BY <1>5, <2>1, <2>2 DEF x, y
    <2>6. NoWorseAnswer(x.linked, y.linked)
      <3>1. NoLess(p.sources, q.sources)
        BY DEF NoWorseProfile
      <3>2. /\ LinkedArtifacts(p) = IF p.sources = NotGiven THEN a.evidence
                                    ELSE IF p.sources = 0 THEN "no" ELSE "yes"
            /\ LinkedArtifacts(q) = IF q.sources = NotGiven THEN b.evidence
                                    ELSE IF q.sources = 0 THEN "no" ELSE "yes"
        BY <3>1 DEF LinkedArtifacts, NoLess, Numbers, NotGiven, a, b
      <3>3. NoWorseAnswer(LinkedArtifacts(p), LinkedArtifacts(q))
        BY <1>3, <3>1, <3>2 DEF NoLess, Numbers, NotGiven, NoWorseAnswer, Answers
      <3>4. QED BY <2>1, <2>2, <3>3 DEF x, y
    <2>7. NoWorsePosture(x, y)
      BY <2>3, <2>4, <2>5, <2>6 DEF NoWorsePosture
    <2>8. QED BY <2>7 DEF x, y
  <1>8. e.posture # <<>> /\ f.posture # <<>>
    BY DEF EvidenceOf
  <1>9. /\ NoWorseAnswer(e.owner, f.owner) /\ NoWorseAnswer(e.systems, f.systems)
        /\ NoWorseAnswer(e.escalation, f.escalation) /\ NoWorseAnswer(e.fallback, f.fallback)
        /\ NoWorseAnswer(e.override, f.override) /\ NoWorseAnswer(e.rollback, f.rollback)
    <2>1. /\ e.owner = a.owner /\ e.systems = a.systems /\ e.escalation = a.escalated
          /\ e.fallback = "unknown" /\ e.override = a.signoff /\ e.rollback = "unknown"
      BY DEF EvidenceOf, a
    <2>2. /\ f.owner = b.owner /\ f.systems = b.systems /\ f.escalation = b.escalated
          /\ f.fallback = "unknown" /\ f.override = b.signoff /\ f.rollback = "unknown"
      BY DEF EvidenceOf, b
    <2> HIDE DEF e, f
    <2>3. NoWorseAnswer("unknown", "unknown")
      BY DEF NoWorseAnswer, Answers
    <2>4. QED BY <1>3, <2>1, <2>2, <2>3
  <1> HIDE DEF e, f
  <1>10. QED BY <1>6, <1>7, <1>8, <1>9 DEF NoWorseEvidence, e, f

-----------------------------------------------------------------------------
(* Inputs of operational learning that are no worse *)

\* Signals: both are given, or neither.
NoWorseInputs(i, j) ==
  /\ NoWorseAnswer(i.sop, j.sop) /\ NoWorseAnswer(i.outcome, j.outcome)
  /\ NoWorseAnswer(i.review, j.review)
  /\ NoLess(i.sopSignal, j.sopSignal) /\ NoLess(i.outcomeSignal, j.outcomeSignal)
  /\ NoLess(i.reviewSignal, j.reviewSignal) /\ NoLess(i.repeatability, j.repeatability)
  /\ NoLess(i.frequency, j.frequency)
  /\ NoWorseGovernance(i.governance, j.governance)
  /\ SignalOr(i.redactionSignal, RedactionScore[i.governance.redaction])
       <= SignalOr(j.redactionSignal, RedactionScore[j.governance.redaction])

LEMMA SopMonotone ==
  ASSUME NEW a, NEW b, NoWorseAnswers(a, b)
  PROVE NoLess(SopClarity(a), SopClarity(b))
  <1> DEFINE clarity(x, y) ==
               IF x = "unknown" /\ y = "unknown" THEN NotGiven
               ELSE IF x = "yes" /\ y = "yes" THEN 840
               ELSE IF x = "yes" \/ y = "yes" THEN 640 ELSE 300
  <1>1. Improved(a.sop, b.sop) /\ Improved(a.rules, b.rules)
    BY DEF NoWorseAnswers, Questions
  <1>2. \A c : SopClarity(c) = clarity(c.sop, c.rules)
    <2>1. TAKE c
    <2>2. CASE c.sop = "unknown" /\ c.rules = "unknown"
      BY <2>2 DEF SopClarity
    <2>3. CASE c.sop = "yes" /\ c.rules = "yes"
      BY <2>3 DEF SopClarity
    <2>4. CASE (c.sop = "yes" \/ c.rules = "yes") /\ c.sop # c.rules
      BY <2>4 DEF SopClarity
    <2>5. CASE c.sop # "yes" /\ c.rules # "yes" /\ ~(c.sop = "unknown" /\ c.rules = "unknown")
      BY <2>5 DEF SopClarity
    <2>6. QED BY <2>2, <2>3, <2>4, <2>5
  <1>3. SopClarity(a) = clarity(a.sop, a.rules) /\ SopClarity(b) = clarity(b.sop, b.rules)
    BY <1>2
  <1>4. QED BY <1>1, <1>3 DEF Improved, NoWorseAnswer, Answers, NoLess, Numbers, NotGiven

LEMMA OutcomeMonotone ==
  ASSUME NEW a, NEW b, NoWorseAnswers(a, b)
  PROVE NoLess(OutcomeObservability(a), OutcomeObservability(b))
  <1> DEFINE checks == {"outcome", "evidence", "closed", "escalated"}
             known == Known(a, checks)
             m == 350 * known + 530 * Affirmed(a, checks)
             n == 350 * known + 530 * Affirmed(b, checks)
  <1>0. checks \in SUBSET Questions
    BY DEF Questions
  <1> HIDE DEF checks
  <1>1. /\ known = Known(b, checks) /\ known \in Nat
        /\ Affirmed(a, checks) \in Nat /\ Affirmed(b, checks) \in Nat
        /\ Affirmed(a, checks) <= Affirmed(b, checks)
    BY <1>0, AnswersCounted, CountsOfAnswers
  <1>2. /\ OutcomeObservability(a) = IF known = 0 THEN NotGiven ELSE Rounded(m, known)
        /\ OutcomeObservability(b) = IF known = 0 THEN NotGiven ELSE Rounded(n, known)
    BY <1>1 DEF OutcomeObservability, checks
  <1>3. m \in Nat /\ n \in Nat /\ m <= n
    BY <1>1
  <1> HIDE DEF m, n, known
  <1>4. CASE known = 0
    BY <1>2, <1>4 DEF NoLess, Numbers
  <1>5. CASE known # 0
    <2>1. Rounded(m, known) \in Nat /\ Rounded(n, known) \in Nat
      BY <1>1, <1>3, <1>5, RoundedNat
    <2>2. Rounded(m, known) <= Rounded(n, known)
      BY <1>1, <1>3, <1>5, RoundedMonotone
    <2>3. QED BY <1>2, <1>5, <2>1, <2>2 DEF NoLess, Numbers, NotGiven
  <1>6. QED BY <1>4, <1>5

LEMMA VolumeMonotone ==
  ASSUME NEW m \in Nat, NEW n \in Nat, m <= n
  PROVE /\ VolumeScore(m) \in Int /\ VolumeScore(n) \in Int /\ VolumeScore(m) <= VolumeScore(n)
        /\ ReviewedScore(m) \in Int /\ ReviewedScore(n) \in Int
        /\ ReviewedScore(m) <= ReviewedScore(n)
        /\ FrequencyScore(m) \in Nat /\ FrequencyScore(n) \in Nat
        /\ FrequencyScore(m) <= FrequencyScore(n)
  BY DEF VolumeScore, ReviewedScore, FrequencyScore, NotGiven

LEMMA RepeatabilityMonotone ==
  ASSUME NEW p, NEW q, NoWorseProfile(p, q)
  PROVE NoLess(Repeatability(p), Repeatability(q))
  <1> DEFINE a == Answered(p.answers.rules, 20, 120)
             b == Answered(q.answers.rules, 20, 120)
             x == VolumeScore(p.volume) + a
             y == VolumeScore(q.volume) + b
  <1>1. a \in Int /\ b \in Int /\ a <= b
    <2>1. NoWorseAnswer(p.answers.rules, q.answers.rules)
      BY DEF NoWorseProfile, NoWorseAnswers, Improved, Questions
    <2>2. QED BY <2>1, AnsweredMonotone
  <1>2. NoLess(p.volume, q.volume)
    BY DEF NoWorseProfile
  <1>3. /\ Repeatability(p) = IF p.volume = NotGiven THEN NotGiven ELSE Bounded(x)
        /\ Repeatability(q) = IF q.volume = NotGiven THEN NotGiven ELSE Bounded(y)
    BY DEF Repeatability
  <1> HIDE DEF a, b
  <1>4. CASE p.volume = NotGiven
    BY <1>2, <1>3, <1>4 DEF NoLess, Numbers, NotGiven
  <1>5. CASE p.volume # NotGiven
    <2>1. p.volume \in Nat /\ q.volume \in Nat /\ p.volume <= q.volume /\ q.volume # NotGiven
      BY <1>2, <1>5 DEF NoLess, Numbers, NotGiven
    <2>2. x \in Int /\ y \in Int /\ x <= y
      BY <1>1, <2>1, VolumeMonotone
    <2> HIDE DEF x, y
    <2>3. Bounded(x) <= Bounded(y) /\ Bounded(x) \in Nat /\ Bounded(y) \in Nat
      BY <2>2, BoundedMonotone
    <2>4. QED BY <1>3, <1>5, <2>1, <2>3 DEF NoLess, Numbers, NotGiven
  <1>6. QED BY <1>4, <1>5

LEMMA ReviewMonotone ==
  ASSUME NEW p, NEW q, NoWorseProfile(p, q)
  PROVE NoLess(ReviewDensity(p), ReviewDensity(q))
  <1> DEFINE a == Answered(p.answers.escalated, 30, 0)
             b == Answered(q.answers.escalated, 30, 0)
             c == Answered(p.answers.signoff, 20, 0)
             d == Answered(q.answers.signoff, 20, 0)
             x == ReviewedScore(p.reviewed) + a + c
             y == ReviewedScore(q.reviewed) + b + d
  <1>1. a \in Int /\ b \in Int /\ a <= b /\ c \in Int /\ d \in Int /\ c <= d
    <2>1. /\ NoWorseAnswer(p.answers.escalated, q.answers.escalated)
          /\ NoWorseAnswer(p.answers.signoff, q.answers.signoff)
      BY DEF NoWorseProfile, NoWorseAnswers, Improved, Questions
    <2>2. a \in Int /\ b \in Int /\ a <= b
      BY <2>1, AnsweredMonotone
    <2>3. c \in Int /\ d \in Int /\ c <= d
      BY <2>1, AnsweredMonotone
    <2>4. QED BY <2>2, <2>3
  <1>2. NoLess(p.reviewed, q.reviewed)
    BY DEF NoWorseProfile
  <1>3. /\ ReviewDensity(p) = IF p.reviewed = NotGiven THEN NotGiven ELSE Bounded(x)
        /\ ReviewDensity(q) = IF q.reviewed = NotGiven THEN NotGiven ELSE Bounded(y)
    BY DEF ReviewDensity
  <1> HIDE DEF a, b, c, d
  <1>4. CASE p.reviewed = NotGiven
    BY <1>2, <1>3, <1>4 DEF NoLess, Numbers, NotGiven
  <1>5. CASE p.reviewed # NotGiven
    <2>1. /\ p.reviewed \in Nat /\ q.reviewed \in Nat /\ p.reviewed <= q.reviewed
          /\ q.reviewed # NotGiven
      BY <1>2, <1>5 DEF NoLess, Numbers, NotGiven
    <2>2. x \in Int /\ y \in Int /\ x <= y
      BY <1>1, <2>1, VolumeMonotone
    <2> HIDE DEF x, y
    <2>3. Bounded(x) <= Bounded(y) /\ Bounded(x) \in Nat /\ Bounded(y) \in Nat
      BY <2>2, BoundedMonotone
    <2>4. QED BY <1>3, <1>5, <2>1, <2>3 DEF NoLess, Numbers, NotGiven
  <1>6. QED BY <1>4, <1>5

\* The signal as it is scored: with the default of the governance, if there is none.
RedactionOf(p) ==
  SignalOr(CappedByClaims(RedactionManageability(p), p.claims), RedactionScore[p.governance.redaction])

LEMMA RedactionMonotone ==
  ASSUME NEW p \in Profiles, NEW q \in Profiles, NoWorseProfile(p, q)
  PROVE RedactionOf(p) <= RedactionOf(q)
  <1> DEFINE g == p.governance.redaction
             h == q.governance.redaction
             a == p.answers.redaction
             b == q.answers.redaction
             capped(t) == t # <<>> /\ {t[1].states.phi, t[1].states.redaction} # {"ready"}
             score(x, y) ==
               IF x = "no" THEN 350
               ELSE IF y = "complete" THEN 820
               ELSE IF y = "partial" THEN 650
               ELSE IF y = "missing" THEN 350
               ELSE IF x = "yes" THEN 500 ELSE NotGiven
             result(x, y, c) ==
               LET s == IF c THEN IF score(x, y) = NotGiven THEN 300 ELSE AtMost(score(x, y), 300)
                        ELSE score(x, y)
               IN  IF s # NotGiven THEN s ELSE RedactionScore[y]
  <1>1. Improved(a, b) /\ NoWorseCompleteness(g, h)
    BY DEF NoWorseProfile, NoWorseAnswers, Questions, NoWorseGovernance
  <1>2. g \in Completeness /\ h \in Completeness
    BY DEF Profiles, Governance
  <1>3. capped(q.claims) => capped(p.claims)
    <2>1. ASSUME p.claims # <<>>, q.claims # <<>>, NoWorseClaims(p.claims[1], q.claims[1]),
                 ~capped(p.claims)
          PROVE ~capped(q.claims)
      <3>1. p.claims[1].states.phi = "ready" /\ p.claims[1].states.redaction = "ready"
        BY <2>1
      <3>2. /\ NoWorseReview(p.claims[1].states.phi, q.claims[1].states.phi)
            /\ NoWorseReview(p.claims[1].states.redaction, q.claims[1].states.redaction)
        BY <2>1 DEF NoWorseClaims, Reviews
      <3>3. q.claims[1].states.phi = "ready" /\ q.claims[1].states.redaction = "ready"
        BY <3>1, <3>2 DEF NoWorseReview
      <3>4. QED BY <3>3
    <2>2. QED BY <2>1 DEF NoWorseProfile
  <1>4. RedactionOf(p) = result(a, g, capped(p.claims))
    <2>1. RedactionManageability(p) = score(a, g)
      BY DEF RedactionManageability
    <2> HIDE DEF score, a, g
    <2>2. QED BY <2>1 DEF RedactionOf, CappedByClaims, SignalOr, g
  <1>5. RedactionOf(q) = result(b, h, capped(q.claims))
    <2>1. RedactionManageability(q) = score(b, h)
      BY DEF RedactionManageability
    <2> HIDE DEF score, b, h
    <2>2. QED BY <2>1 DEF RedactionOf, CappedByClaims, SignalOr, h
  <1> DEFINE c == capped(p.claims)
             d == capped(q.claims)
  <1>6. (d => c) /\ c \in BOOLEAN /\ d \in BOOLEAN
    BY <1>3
  <1>7. RedactionOf(p) = result(a, g, c) /\ RedactionOf(q) = result(b, h, d)
    BY <1>4, <1>5
  <1> HIDE DEF a, b, c, d, g, h
  <1>8. score(a, g) \in {NotGiven, 350, 500, 650, 820} /\ score(b, h) \in {NotGiven, 350, 500, 650, 820}
    OBVIOUS
  <1>9. /\ score(a, g) = NotGiven <=> score(b, h) = NotGiven
        /\ score(a, g) <= score(b, h)
        /\ score(a, g) = NotGiven => g = "none" /\ h = "none"
    BY <1>1, <1>2 DEF Improved, NoWorseAnswer, Answers, NoWorseCompleteness, Completeness, NotGiven
  <1>10. RedactionScore["none"] = 350
    BY DEF RedactionScore
  <1> HIDE DEF score
  <1>11. QED BY <1>6, <1>7, <1>8, <1>9, <1>10 DEF NotGiven, AtMost

LEMMA ProfileInputsMonotone ==
  ASSUME NEW p \in Profiles, NEW q \in Profiles, NoWorseProfile(p, q)
  PROVE NoWorseInputs(LearningInputsOf(p), LearningInputsOf(q))
  <1> DEFINE a == p.answers
             b == q.answers
             i == LearningInputsOf(p)
             j == LearningInputsOf(q)
  <1>1. NoWorseAnswers(a, b)
    BY DEF NoWorseProfile
  <1>2. /\ Improved(a.sop, b.sop) /\ Improved(a.rules, b.rules) /\ Improved(a.outcome, b.outcome)
        /\ Improved(a.escalated, b.escalated) /\ Improved(a.signoff, b.signoff)
    BY <1>1 DEF NoWorseAnswers, Questions
  <1>3. NoWorseAnswer(AnyTrue({a.sop, a.rules}), AnyTrue({b.sop, b.rules}))
    BY <1>2, AnyTrueMonotone
  <1>4. NoWorseAnswer(AnyTrue({a.escalated, a.signoff}), AnyTrue({b.escalated, b.signoff}))
    BY <1>2, AnyTrueMonotone
  <1>5. NoWorseAnswer(a.outcome, b.outcome)
    BY <1>2 DEF Improved
  <1>6. NoLess(SopClarity(a), SopClarity(b)) /\ NoLess(OutcomeObservability(a), OutcomeObservability(b))
    BY <1>1, SopMonotone, OutcomeMonotone
  <1>7. NoLess(ReviewDensity(p), ReviewDensity(q)) /\ NoLess(Repeatability(p), Repeatability(q))
    BY ReviewMonotone, RepeatabilityMonotone
  <1>8. RedactionOf(p) <= RedactionOf(q)
    BY RedactionMonotone
  <1>9. NoLess(RunsOf(p.volume), RunsOf(q.volume)) /\ NoWorseGovernance(p.governance, q.governance)
    <2>1. NoLess(p.volume, q.volume) /\ NoWorseGovernance(p.governance, q.governance)
      BY DEF NoWorseProfile
    <2>2. NoLess(RunsOf(p.volume), RunsOf(q.volume))
      BY <2>1 DEF NoLess, RunsOf, Numbers, NotGiven
    <2>3. QED BY <2>1, <2>2
  <1>10. /\ i.sop = AnyTrue({a.sop, a.rules}) /\ i.sopSignal = SopClarity(a)
         /\ i.outcome = a.outcome /\ i.outcomeSignal = OutcomeObservability(a)
         /\ i.frequency = RunsOf(p.volume) /\ i.repeatability = Repeatability(p)
         /\ i.review = AnyTrue({a.escalated, a.signoff}) /\ i.reviewSignal = ReviewDensity(p)
         /\ i.redactionSignal = CappedByClaims(RedactionManageability(p), p.claims)
         /\ i.governance = p.governance
    BY DEF LearningInputsOf
  <1>11. /\ j.sop = AnyTrue({b.sop, b.rules}) /\ j.sopSignal = SopClarity(b)
         /\ j.outcome = b.outcome /\ j.outcomeSignal = OutcomeObservability(b)
         /\ j.frequency = RunsOf(q.volume) /\ j.repeatability = Repeatability(q)
         /\ j.review = AnyTrue({b.escalated, b.signoff}) /\ j.reviewSignal = ReviewDensity(q)
         /\ j.redactionSignal = CappedByClaims(RedactionManageability(q), q.claims)
         /\ j.governance = q.governance
    BY DEF LearningInputsOf
  <1> HIDE DEF a, b, i, j
  <1>12. SignalOr(i.redactionSignal, RedactionScore[i.governance.redaction])
           <= SignalOr(j.redactionSignal, RedactionScore[j.governance.redaction])
    BY <1>8, <1>10, <1>11 DEF RedactionOf
  <1>13. QED
    BY <1>3, <1>4, <1>5, <1>6, <1>7, <1>9, <1>10, <1>11, <1>12 DEF NoWorseInputs, i, j

-----------------------------------------------------------------------------
(* The suitability of inputs that are no worse *)

LEMMA SignalMonotone ==
  ASSUME NEW x, NEW y, NoLess(x, y), NEW m \in Nat, NEW n \in Nat, m <= n
  PROVE SignalOr(x, m) <= SignalOr(y, n)
  BY DEF NoLess, Numbers, NotGiven, SignalOr

LEMMA PresenceMonotone ==
  ASSUME NEW x, NEW y, NoWorseAnswer(x, y), NEW score \in Nat, score >= 250
  PROVE /\ PresenceScore(x, score) \in Nat /\ PresenceScore(y, score) \in Nat
        /\ PresenceScore(x, score) <= PresenceScore(y, score)
  BY DEF NoWorseAnswer, Answers, PresenceScore

LEMMA GovernanceMonotone ==
  ASSUME NEW g \in Governance, NEW h \in Governance, NoWorseGovernance(g, h)
  PROVE GovernanceScore(g) <= GovernanceScore(h)
  <1>1. \A x, y \in Completeness : NoWorseCompleteness(x, y) =>
           /\ CompletenessScore[x] \in Nat /\ CompletenessScore[y] \in Nat
           /\ CompletenessScore[x] <= CompletenessScore[y]
    BY DEF NoWorseCompleteness, Completeness, CompletenessScore
  <1>2. \A x, y \in RiskBands : NoWorseRisk(x, y) =>
           RiskScore[x] \in Nat /\ RiskScore[y] \in Nat /\ RiskScore[x] <= RiskScore[y]
    BY DEF NoWorseRisk, RiskBands, RiskScore
  <1>3. /\ g.rights \in Completeness /\ g.provenance \in Completeness
        /\ g.redaction \in Completeness /\ g.risk \in RiskBands
        /\ h.rights \in Completeness /\ h.provenance \in Completeness
        /\ h.redaction \in Completeness /\ h.risk \in RiskBands
    BY DEF Governance
  <1> DEFINE a == CompletenessScore[g.rights]
             b == CompletenessScore[g.provenance]
             c == CompletenessScore[g.redaction]
             d == RiskScore[g.risk]
             e == CompletenessScore[h.rights]
             f == CompletenessScore[h.provenance]
             k == CompletenessScore[h.redaction]
             l == RiskScore[h.risk]
             m == 10 * (a + b + c + d)
             n == 10 * (e + f + k + l)
  <1>4. a \in Nat /\ e \in Nat /\ a <= e
    BY <1>1, <1>3 DEF NoWorseGovernance
  <1>5. b \in Nat /\ f \in Nat /\ b <= f
    BY <1>1, <1>3 DEF NoWorseGovernance
  <1>6. c \in Nat /\ k \in Nat /\ c <= k
    BY <1>1, <1>3 DEF NoWorseGovernance
  <1>7. d \in Nat /\ l \in Nat /\ d <= l
    BY <1>2, <1>3 DEF NoWorseGovernance
  <1>8. GovernanceScore(g) = Rounded(m, 4) /\ GovernanceScore(h) = Rounded(n, 4)
    BY DEF GovernanceScore
  <1> HIDE DEF a, b, c, d, e, f, k, l
  <1>9. m \in Nat /\ n \in Nat /\ m <= n
    BY <1>4, <1>5, <1>6, <1>7
  <1> HIDE DEF m, n
  <1>10. QED BY <1>8, <1>9, RoundedMonotone

\* Scores of the dimensions, none of them lower.
NoLowerScores(s, t) ==
  \A d \in Dimensions : s[d] \in Nat /\ t[d] \in Nat /\ s[d] <= t[d]

LEMMA DimensionsMonotone ==
  ASSUME NEW i, NEW j, Scorable(i), Scorable(j), NoWorseInputs(i, j)
  PROVE NoLowerScores(DimensionScores(i), DimensionScores(j))
  <1> DEFINE s == DimensionScores(i)
             t == DimensionScores(j)
  <1>0. \A d \in Dimensions : s[d] \in Nat /\ t[d] \in Nat
    BY DimensionsAreScores
  <1>1. s.repeatability <= t.repeatability
    <2>1. /\ NoLess(i.frequency, j.frequency) /\ NoLess(i.repeatability, j.repeatability)
      BY DEF NoWorseInputs
    <2>2. /\ FrequencyScore(i.frequency) \in Nat /\ FrequencyScore(j.frequency) \in Nat
          /\ FrequencyScore(i.frequency) <= FrequencyScore(j.frequency)
      <3>1. CASE i.frequency = NotGiven
        BY <2>1, <3>1 DEF NoLess, Numbers, NotGiven, FrequencyScore
      <3>2. CASE i.frequency # NotGiven
        <4>1. i.frequency \in Nat /\ j.frequency \in Nat /\ i.frequency <= j.frequency
          BY <2>1, <3>2 DEF NoLess, Numbers, NotGiven
        <4>2. QED BY <4>1, VolumeMonotone
      <3>3. QED BY <3>1, <3>2
    <2>3. QED BY <2>1, <2>2, SignalMonotone DEF DimensionScores
  <1>2. s.sop <= t.sop
    <2>1. NoWorseAnswer(i.sop, j.sop) /\ NoLess(i.sopSignal, j.sopSignal)
      BY DEF NoWorseInputs
    <2>2. /\ PresenceScore(i.sop, 650) \in Nat /\ PresenceScore(j.sop, 650) \in Nat
          /\ PresenceScore(i.sop, 650) <= PresenceScore(j.sop, 650)
      BY <2>1, PresenceMonotone
    <2>3. QED BY <2>1, <2>2, SignalMonotone DEF DimensionScores
  <1>3. s.outcome <= t.outcome
    <2>1. NoWorseAnswer(i.outcome, j.outcome) /\ NoLess(i.outcomeSignal, j.outcomeSignal)
      BY DEF NoWorseInputs
    <2>2. /\ PresenceScore(i.outcome, 650) \in Nat /\ PresenceScore(j.outcome, 650) \in Nat
          /\ PresenceScore(i.outcome, 650) <= PresenceScore(j.outcome, 650)
      BY <2>1, PresenceMonotone
    <2>3. QED BY <2>1, <2>2, SignalMonotone DEF DimensionScores
  <1>4. s.review <= t.review
    <2>1. NoWorseAnswer(i.review, j.review) /\ NoLess(i.reviewSignal, j.reviewSignal)
      BY DEF NoWorseInputs
    <2>2. /\ PresenceScore(i.review, 550) \in Nat /\ PresenceScore(j.review, 550) \in Nat
          /\ PresenceScore(i.review, 550) <= PresenceScore(j.review, 550)
      BY <2>1, PresenceMonotone
    <2>3. QED BY <2>1, <2>2, SignalMonotone DEF DimensionScores
  <1>5. s.redaction <= t.redaction
    BY DEF DimensionScores, NoWorseInputs
  <1>6. s.governance <= t.governance
    <2>1. /\ i.governance \in Governance /\ j.governance \in Governance
          /\ NoWorseGovernance(i.governance, j.governance)
      BY DEF Scorable, NoWorseInputs
    <2>2. QED BY <2>1, GovernanceMonotone DEF DimensionScores
  <1> HIDE DEF s, t
  <1>7. NoLowerScores(s, t)
    BY <1>0, <1>1, <1>2, <1>3, <1>4, <1>5, <1>6 DEF NoLowerScores, Dimensions
  <1>8. QED BY <1>7 DEF s, t

LEMMA WeightedMonotone ==
  ASSUME NEW s, NEW t, NoLowerScores(s, t)
  PROVE /\ Weighted(s, EvalWeight) \in Nat /\ Weighted(t, EvalWeight) \in Nat
        /\ Weighted(s, EvalWeight) <= Weighted(t, EvalWeight)
        /\ Weighted(s, TrainingWeight) \in Nat /\ Weighted(t, TrainingWeight) \in Nat
        /\ Weighted(s, TrainingWeight) <= Weighted(t, TrainingWeight)
  <1> DEFINE a == s.repeatability
             b == s.sop
             c == s.outcome
             d == s.review
             e == s.redaction
             f == s.governance
             g == t.repeatability
             h == t.sop
             i == t.outcome
             j == t.review
             k == t.redaction
             l == t.governance
             m == a * 25 + b * 20 + c * 20 + d * 15 + e * 10 + f * 10
             n == g * 25 + h * 20 + i * 20 + j * 15 + k * 10 + l * 10
             p == a * 20 + b * 15 + c * 15 + d * 15 + e * 20 + f * 15
             q == g * 20 + h * 15 + i * 15 + j * 15 + k * 20 + l * 15
  <1>1. /\ a \in Nat /\ b \in Nat /\ c \in Nat /\ d \in Nat /\ e \in Nat /\ f \in Nat
        /\ g \in Nat /\ h \in Nat /\ i \in Nat /\ j \in Nat /\ k \in Nat /\ l \in Nat
        /\ a <= g /\ b <= h /\ c <= i /\ d <= j /\ e <= k /\ f <= l
    BY DEF NoLowerScores, Dimensions
  <1>2. /\ Weighted(s, EvalWeight) = Rounded(m, 100) /\ Weighted(t, EvalWeight) = Rounded(n, 100)
        /\ Weighted(s, TrainingWeight) = Rounded(p, 100)
        /\ Weighted(t, TrainingWeight) = Rounded(q, 100)
    BY DEF Weighted, EvalWeight, TrainingWeight
  <1> HIDE DEF a, b, c, d, e, f, g, h, i, j, k, l
  <1>3. m \in Nat /\ n \in Nat /\ m <= n
    BY <1>1
  <1>4. p \in Nat /\ q \in Nat /\ p <= q
    BY <1>1
  <1> HIDE DEF m, n, p, q
  <1>5. Rounded(m, 100) \in Nat /\ Rounded(n, 100) \in Nat /\ Rounded(m, 100) <= Rounded(n, 100)
    BY <1>3, RoundedNat, RoundedMonotone
  <1>6. Rounded(p, 100) \in Nat /\ Rounded(q, 100) \in Nat /\ Rounded(p, 100) <= Rounded(q, 100)
    BY <1>4, RoundedNat, RoundedMonotone
  <1>7. QED BY <1>2, <1>5, <1>6

LEMMA FloorsMonotone ==
  ASSUME NEW s, NEW t, NoLowerScores(s, t), NEW floors, DOMAIN floors \subseteq Dimensions,
         \A d \in DOMAIN floors : floors[d] \in Nat, AllAtLeast(s, floors)
  PROVE AllAtLeast(t, floors)
  BY DEF NoLowerScores, AllAtLeast

\* What was met or suitable stays so, and what blocks was there before.
LEMMA ThresholdsMonotone ==
  ASSUME NEW s, NEW t, NoLowerScores(s, t)
  PROVE /\ EvalMet(s) => EvalMet(t)
        /\ WeakCandidate(s) => WeakCandidate(t)
        /\ \A b, c : TrainingMet(s, b) /\ (b = "owner" => c = "owner") => TrainingMet(t, c)
  <1>1. EvalMet(s) => EvalMet(t)
    <2> DEFINE floors == [repeatability |-> 600, sop |-> 600, outcome |-> 600, review |-> 500]
    <2>1. DOMAIN floors \subseteq Dimensions /\ \A d \in DOMAIN floors : floors[d] \in Nat
      BY DEF Dimensions
    <2>2. AllAtLeast(s, floors) => AllAtLeast(t, floors)
      <3> HIDE DEF floors
      <3>1. QED BY <2>1, FloorsMonotone
    <2>3. \A x : EvalMet(x) <=> Weighted(x, EvalWeight) >= EvalThreshold /\ AllAtLeast(x, floors)
      BY DEF EvalMet
    <2> HIDE DEF floors
    <2>4. QED BY <2>2, <2>3, WeightedMonotone DEF EvalThreshold
  <1>2. WeakCandidate(s) => WeakCandidate(t)
    <2> DEFINE floors == [repeatability |-> 450, sop |-> 450, outcome |-> 450, review |-> 400,
                          redaction |-> 400, governance |-> 350]
    <2>1. DOMAIN floors \subseteq Dimensions /\ \A d \in DOMAIN floors : floors[d] \in Nat
      BY DEF Dimensions
    <2>2. AllAtLeast(s, floors) => AllAtLeast(t, floors)
      <3> HIDE DEF floors
      <3>1. QED BY <2>1, FloorsMonotone
    <2>3. \A x : WeakCandidate(x) <=> Weighted(x, EvalWeight) >= 500 /\ AllAtLeast(x, floors)
      BY DEF WeakCandidate
    <2> HIDE DEF floors
    <2>4. QED BY <2>2, <2>3, WeightedMonotone
  <1>3. ASSUME NEW b, NEW c, TrainingMet(s, b), b = "owner" => c = "owner"
        PROVE TrainingMet(t, c)
    <2> DEFINE floors == [repeatability |-> 750, sop |-> 700, outcome |-> 700, review |-> 650,
                          redaction |-> 700, governance |-> 600]
    <2>1. DOMAIN floors \subseteq Dimensions /\ \A d \in DOMAIN floors : floors[d] \in Nat
      BY DEF Dimensions
    <2>2. AllAtLeast(s, floors) => AllAtLeast(t, floors)
      <3> HIDE DEF floors
      <3>1. QED BY <2>1, FloorsMonotone
    <2>3. \A x, o : TrainingMet(x, o) <=> /\ EvalMet(x) /\ o = "owner"
                                          /\ Weighted(x, TrainingWeight) >= TrainingThreshold
                                          /\ AllAtLeast(x, floors)
      BY DEF TrainingMet
    <2> HIDE DEF floors
    <2>4. QED BY <1>1, <1>3, <2>2, <2>3, WeightedMonotone DEF TrainingThreshold
  <1>4. QED BY <1>1, <1>2, <1>3

LEMMA BlockedMonotone ==
  ASSUME NEW i, NEW j, NoWorseInputs(i, j), NEW s, NEW t, NoLowerScores(s, t), HardBlocked(j, t),
         Scorable(i), Scorable(j)
  PROVE HardBlocked(i, s)
  <1>1. \A x, y, m, n : NoWorseAnswer(x, y) /\ NoLess(m, n) /\ Prerequisite(x, m) =>
                          Prerequisite(y, n)
    BY DEF NoWorseAnswer, NoLess, Numbers, NotGiven, Prerequisite
  <1>2. /\ Prerequisite(i.sop, i.sopSignal) => Prerequisite(j.sop, j.sopSignal)
        /\ Prerequisite(i.outcome, i.outcomeSignal) => Prerequisite(j.outcome, j.outcomeSignal)
        /\ Prerequisite(i.review, i.reviewSignal) => Prerequisite(j.review, j.reviewSignal)
    BY <1>1 DEF NoWorseInputs
  <1>3. /\ i.governance \in Governance /\ j.governance \in Governance
        /\ NoWorseGovernance(i.governance, j.governance)
    BY DEF Scorable, NoWorseInputs
  <1>4. ~Incomplete(i.governance) /\ ~HighRisk(i.governance) =>
          ~Incomplete(j.governance) /\ ~HighRisk(j.governance)
    BY <1>3 DEF Incomplete, HighRisk, NoWorseGovernance, NoWorseCompleteness, NoWorseRisk
  <1>5. /\ s.redaction \in Nat /\ t.redaction \in Nat /\ s.redaction <= t.redaction
        /\ s.governance \in Nat /\ t.governance \in Nat /\ s.governance <= t.governance
    BY DEF NoLowerScores, Dimensions
  <1>6. QED BY <1>2, <1>4, <1>5 DEF HardBlocked

-----------------------------------------------------------------------------
(* Statuses, and the order of them *)

LEMMA Positions ==
  /\ Position("blocked") = 1 /\ Position("unsuitable") = 2 /\ Position("weak_candidate") = 3
  /\ Position("eval_suitable") = 4 /\ Position("training_candidate") = 5
  <1>1. DOMAIN Statuses = 1 .. 5
    BY DEF Statuses
  <1>2. /\ Statuses[1] = "blocked" /\ Statuses[2] = "unsuitable" /\ Statuses[3] = "weak_candidate"
        /\ Statuses[4] = "eval_suitable" /\ Statuses[5] = "training_candidate"
    BY DEF Statuses
  <1>3. \A k \in 1 .. 5 : k = 1 \/ k = 2 \/ k = 3 \/ k = 4 \/ k = 5
    OBVIOUS
  <1>4. ASSUME NEW n \in 1 .. 5
        PROVE Position(Statuses[n]) = n
    <2>1. \A k \in 1 .. 5 : Statuses[k] = Statuses[n] => k = n
      BY <1>2, <1>3
    <2>2. (CHOOSE k \in 1 .. 5 : Statuses[k] = Statuses[n]) = n
      BY <2>1
    <2>3. QED BY <1>1, <2>2 DEF Position
  <1>5. 1 \in 1 .. 5 /\ 2 \in 1 .. 5 /\ 3 \in 1 .. 5 /\ 4 \in 1 .. 5 /\ 5 \in 1 .. 5
    OBVIOUS
  <1>6. QED BY <1>2, <1>4, <1>5

\* How far the status is from blocked.
RankOf(blocked, training, eval, weak) ==
  IF blocked THEN 1 ELSE IF training THEN 5 ELSE IF eval THEN 4 ELSE IF weak THEN 3 ELSE 2

LEMMA PositionOfStatus ==
  ASSUME NEW blocked \in BOOLEAN, NEW training \in BOOLEAN, NEW eval \in BOOLEAN,
         NEW weak \in BOOLEAN
  PROVE Position(StatusOf(blocked, training, eval, weak)) = RankOf(blocked, training, eval, weak)
  <1>1. CASE blocked
    BY <1>1, Positions DEF StatusOf, RankOf
  <1>2. CASE ~blocked /\ training
    BY <1>2, Positions DEF StatusOf, RankOf
  <1>3. CASE ~blocked /\ ~training /\ eval
    BY <1>3, Positions DEF StatusOf, RankOf
  <1>4. CASE ~blocked /\ ~training /\ ~eval /\ weak
    BY <1>4, Positions DEF StatusOf, RankOf
  <1>5. CASE ~blocked /\ ~training /\ ~eval /\ ~weak
    BY <1>5, Positions DEF StatusOf, RankOf
  <1>6. QED BY <1>1, <1>2, <1>3, <1>4, <1>5

\* The status for evaluation leaves training aside, that for training evaluation.
LEMMA PositionOfPart ==
  ASSUME NEW blocked \in BOOLEAN, NEW met \in BOOLEAN, NEW weak \in BOOLEAN
  PROVE /\ Position(StatusOf(blocked, FALSE, met, weak)) =
             IF blocked THEN 1 ELSE IF met THEN 4 ELSE IF weak THEN 3 ELSE 2
        /\ Position(StatusOf(blocked, met, FALSE, weak)) =
             IF blocked THEN 1 ELSE IF met THEN 5 ELSE IF weak THEN 3 ELSE 2
  <1>1. CASE blocked
    BY <1>1, Positions DEF StatusOf
  <1>2. CASE ~blocked /\ met
    BY <1>2, Positions DEF StatusOf
  <1>3. CASE ~blocked /\ ~met /\ weak
    BY <1>3, Positions DEF StatusOf
  <1>4. CASE ~blocked /\ ~met /\ ~weak
    BY <1>4, Positions DEF StatusOf
  <1>5. QED BY <1>1, <1>2, <1>3, <1>4

\* What NoWorse says of two suitabilities.
NoWorseSuitability(a, b) ==
  /\ Position(b.status) >= Position(a.status)
  /\ Position(b.eval.status) >= Position(a.eval.status)
  /\ \/ Position(b.training.status) >= Position(a.training.status)
     \/ a.training.status = "weak_candidate" /\ b.status = "eval_suitable"
  /\ b.eval.score >= a.eval.score /\ b.training.score >= a.training.score

\* Inputs that are no worse make no lower score and no lower status.
LEMMA SuitabilityMonotone ==
  ASSUME NEW i, NEW j, Scorable(i), Scorable(j), NoWorseInputs(i, j)
  PROVE NoWorseSuitability(Suitability(i), Suitability(j))
  <1> DEFINE s == DimensionScores(i)
             t == DimensionScores(j)
             a == Suitability(i)
             b == Suitability(j)
             blockedA == HardBlocked(i, s)
             blockedB == HardBlocked(j, t)
             trainingA == TrainingMet(s, i.governance.basis)
             trainingB == TrainingMet(t, j.governance.basis)
             evalA == EvalMet(s)
             evalB == EvalMet(t)
             weakA == ~EvalMet(s) /\ WeakCandidate(s)
             weakB == ~EvalMet(t) /\ WeakCandidate(t)
  <1>1. NoLowerScores(s, t)
    BY DimensionsMonotone
  <1>2. /\ blockedA \in BOOLEAN /\ trainingA \in BOOLEAN /\ evalA \in BOOLEAN /\ weakA \in BOOLEAN
        /\ blockedB \in BOOLEAN /\ trainingB \in BOOLEAN /\ evalB \in BOOLEAN /\ weakB \in BOOLEAN
    BY DEF HardBlocked, TrainingMet, EvalMet
  <1>3. blockedB => blockedA
    <2> HIDE DEF s, t
    <2>1. QED BY <1>1, BlockedMonotone
  <1>4. /\ evalA => evalB
        /\ weakA => weakB \/ evalB
        /\ trainingA => trainingB
    <2>1. i.governance.basis = "owner" => j.governance.basis = "owner"
      BY DEF NoWorseInputs, NoWorseGovernance
    <2> HIDE DEF s, t
    <2>2. QED BY <1>1, <2>1, ThresholdsMonotone
  <1>5. trainingA => evalA
    BY DEF TrainingMet
  <1>6. trainingB => evalB
    BY DEF TrainingMet
  <1>7. ~(weakA /\ evalA) /\ ~(weakB /\ evalB)
    OBVIOUS
  <1>8. /\ a.status = StatusOf(blockedA, trainingA, evalA, weakA)
        /\ a.eval.status = StatusOf(blockedA, FALSE, evalA, weakA)
        /\ a.training.status = StatusOf(blockedA, trainingA, FALSE, weakA)
        /\ a.eval.score = Weighted(s, EvalWeight) /\ a.training.score = Weighted(s, TrainingWeight)
    BY DEF Suitability
  <1>9. /\ b.status = StatusOf(blockedB, trainingB, evalB, weakB)
        /\ b.eval.status = StatusOf(blockedB, FALSE, evalB, weakB)
        /\ b.training.status = StatusOf(blockedB, trainingB, FALSE, weakB)
        /\ b.eval.score = Weighted(t, EvalWeight) /\ b.training.score = Weighted(t, TrainingWeight)
    BY DEF Suitability
  <1> HIDE DEF s, t, a, b, blockedA, blockedB, trainingA, trainingB, evalA, evalB, weakA, weakB
  <1>10. b.eval.score >= a.eval.score /\ b.training.score >= a.training.score
    BY <1>1, <1>8, <1>9, WeightedMonotone
  <1>11. Position(b.status) >= Position(a.status)
    <2>1. Position(a.status) = RankOf(blockedA, trainingA, evalA, weakA)
      BY <1>2, <1>8, PositionOfStatus
    <2>2. Position(b.status) = RankOf(blockedB, trainingB, evalB, weakB)
      BY <1>2, <1>9, PositionOfStatus
    <2>3. QED BY <1>3, <1>4, <2>1, <2>2 DEF RankOf
  <1>12. Position(b.eval.status) >= Position(a.eval.status)
    <2>1. Position(a.eval.status) =
            IF blockedA THEN 1 ELSE IF evalA THEN 4 ELSE IF weakA THEN 3 ELSE 2
      <3>1. a.eval.status = StatusOf(blockedA, FALSE, evalA, weakA)
        BY <1>8
      <3>2. Position(StatusOf(blockedA, FALSE, evalA, weakA)) =
              IF blockedA THEN 1 ELSE IF evalA THEN 4 ELSE IF weakA THEN 3 ELSE 2
        BY <1>2, PositionOfPart
      <3>3. QED BY <3>1, <3>2
    <2>2. Position(b.eval.status) =
            IF blockedB THEN 1 ELSE IF evalB THEN 4 ELSE IF weakB THEN 3 ELSE 2
      <3>1. b.eval.status = StatusOf(blockedB, FALSE, evalB, weakB)
        BY <1>9
      <3>2. Position(StatusOf(blockedB, FALSE, evalB, weakB)) =
              IF blockedB THEN 1 ELSE IF evalB THEN 4 ELSE IF weakB THEN 3 ELSE 2
        BY <1>2, PositionOfPart
      <3>3. QED BY <3>1, <3>2
    <2>3. QED BY <1>3, <1>4, <2>1, <2>2
  <1>13. \/ Position(b.training.status) >= Position(a.training.status)
         \/ a.training.status = "weak_candidate" /\ b.status = "eval_suitable"
    <2>1. Position(a.training.status) =
            IF blockedA THEN 1 ELSE IF trainingA THEN 5 ELSE IF weakA THEN 3 ELSE 2
      <3>1. a.training.status = StatusOf(blockedA, trainingA, FALSE, weakA)
        BY <1>8
      <3>2. Position(StatusOf(blockedA, trainingA, FALSE, weakA)) =
              IF blockedA THEN 1 ELSE IF trainingA THEN 5 ELSE IF weakA THEN 3 ELSE 2
        BY <1>2, PositionOfPart
      <3>3. QED BY <3>1, <3>2
    <2>2. Position(b.training.status) =
            IF blockedB THEN 1 ELSE IF trainingB THEN 5 ELSE IF weakB THEN 3 ELSE 2
      <3>1. b.training.status = StatusOf(blockedB, trainingB, FALSE, weakB)
        BY <1>9
      <3>2. Position(StatusOf(blockedB, trainingB, FALSE, weakB)) =
              IF blockedB THEN 1 ELSE IF trainingB THEN 5 ELSE IF weakB THEN 3 ELSE 2
        BY <1>2, PositionOfPart
      <3>3. QED BY <3>1, <3>2
    <2>3. CASE ~blockedA /\ ~trainingA /\ weakA /\ ~trainingB /\ ~weakB
      <3>1. a.training.status = "weak_candidate"
        BY <1>8, <2>3 DEF StatusOf
      <3>2. ~blockedB /\ evalB
        BY <1>3, <1>4, <2>3
      <3>3. b.status = "eval_suitable"
        BY <1>9, <2>3, <3>2 DEF StatusOf
      <3>4. QED BY <3>1, <3>3
    <2>4. CASE ~(~blockedA /\ ~trainingA /\ weakA /\ ~trainingB /\ ~weakB)
      BY <1>3, <1>4, <2>1, <2>2, <2>4
    <2>5. QED BY <2>3, <2>4
  <1>14. NoWorseSuitability(a, b)
    BY <1>10, <1>11, <1>12, <1>13 DEF NoWorseSuitability
  <1>15. QED BY <1>14 DEF a, b

-----------------------------------------------------------------------------
(* Claims that are no worse *)

\* What the reviews that are not ready take off the score of claims.
Cost(c) == [r \in Reviews |-> Unless(c.states[r] = "ready", ReviewPenalty[r])]
Costs(c) ==
  Cost(c).source + Cost(c).phi + Cost(c).redaction + Cost(c).governance + Cost(c).approval
    + Cost(c).rate + Cost(c).downstream + Cost(c).savings

LEMMA CostMonotone ==
  ASSUME NEW c, NEW d, NoWorseClaims(c, d)
  PROVE Costs(c) \in Nat /\ Costs(d) \in Nat /\ Costs(d) <= Costs(c)
  <1>1. ASSUME NEW r \in Reviews
        PROVE Cost(c)[r] \in Nat /\ Cost(d)[r] \in Nat /\ Cost(d)[r] <= Cost(c)[r]
    <2>1. ReviewPenalty[r] \in Nat
      BY DEF Reviews, ReviewPenalty
    <2>2. NoWorseReview(c.states[r], d.states[r])
      BY DEF NoWorseClaims
    <2>3. c.states[r] = "ready" => d.states[r] = "ready"
      BY <2>2 DEF NoWorseReview
    <2>4. QED BY <2>1, <2>3 DEF Cost, Unless
  <1>2. QED BY <1>1 DEF Costs, Reviews

LEMMA ClaimsMonotone ==
  ASSUME NEW c \in ClaimsProfile, NEW d \in ClaimsProfile, NoWorseClaims(c, d)
  PROVE LET a == ClaimsSuitability(c)
            b == ClaimsSuitability(d)
        IN  b.score >= a.score /\ Position(b.status) >= Position(a.status)
  <1> DEFINE x == 1000 - 60 * c.lacking - Costs(c)
             y == 1000 - 60 * d.lacking - Costs(d)
             m == Bounded(x)
             n == Bounded(y)
             blockedC == ClaimsBlocked(c)
             blockedD == ClaimsBlocked(d)
             reasonsC == c.lacking > 0 \/ Unready(c) # {}
             reasonsD == d.lacking > 0 \/ Unready(d) # {}
             status(blocked, score, reasons) ==
               CASE blocked -> "blocked"
                 [] ~blocked /\ score >= 800 /\ ~reasons -> "eval_suitable"
                 [] ~blocked /\ score >= 500 /\ (score < 800 \/ reasons) -> "weak_candidate"
                 [] OTHER -> "blocked"
  <1>1. /\ c.lacking \in Nat /\ d.lacking \in Nat /\ c.core \in Nat /\ d.core \in Nat
        /\ d.lacking <= c.lacking /\ d.core <= c.core
    BY DEF ClaimsProfile, NoWorseClaims
  <1>2. x \in Int /\ y \in Int /\ x <= y
    BY <1>1, CostMonotone
  <1>3. \A r \in Reviews : c.states[r] = "ready" => d.states[r] = "ready"
    BY DEF NoWorseClaims, NoWorseReview
  <1>4. Unready(d) \subseteq Unready(c)
    BY <1>3 DEF Unready
  <1>5. blockedD => blockedC
    <2>1. d.core > 0 => c.core > 0
      BY <1>1
    <2>2. d.states.downstream = "missing" => c.states.downstream = "missing"
      BY DEF NoWorseClaims, NoWorseReview, Reviews
    <2>3. QED BY <1>4, <2>1, <2>2 DEF ClaimsBlocked
  <1>6. reasonsD => reasonsC
    BY <1>1, <1>4
  <1>7. /\ ClaimsSuitability(c) = [score |-> m, status |-> status(blockedC, m, reasonsC)]
        /\ ClaimsSuitability(d) = [score |-> n, status |-> status(blockedD, n, reasonsD)]
    BY Zenon DEF ClaimsSuitability, Costs, Cost
  <1> HIDE DEF x, y
  <1>8. m \in Nat /\ n \in Nat /\ m <= n
    BY <1>2, BoundedMonotone
  <1> DEFINE rank(blocked, score, reasons) ==
               IF blocked \/ score < 500 THEN 1
               ELSE IF score >= 800 /\ ~reasons THEN 4 ELSE 3
  <1>9. ASSUME NEW blocked \in BOOLEAN, NEW score \in Nat, NEW reasons \in BOOLEAN
        PROVE Position(status(blocked, score, reasons)) = rank(blocked, score, reasons)
    <2>1. CASE blocked
      BY <2>1, Positions
    <2>2. CASE ~blocked /\ score >= 800 /\ ~reasons
      BY <2>2, Positions
    <2>3. CASE ~blocked /\ score >= 500 /\ (score < 800 \/ reasons)
      BY <2>3, Positions
    <2>4. CASE ~blocked /\ score < 500
      BY <2>4, Positions
    <2>5. QED BY <2>1, <2>2, <2>3, <2>4
  <1>10. /\ blockedC \in BOOLEAN /\ blockedD \in BOOLEAN
         /\ reasonsC \in BOOLEAN /\ reasonsD \in BOOLEAN
    BY DEF ClaimsBlocked
  <1> HIDE DEF m, n, blockedC, blockedD, reasonsC, reasonsD, status
  <1>11. rank(blockedC, m, reasonsC) <= rank(blockedD, n, reasonsD)
    BY <1>5, <1>6, <1>8
  <1>12. /\ Position(status(blockedC, m, reasonsC)) = rank(blockedC, m, reasonsC)
         /\ Position(status(blockedD, n, reasonsD)) = rank(blockedD, n, reasonsD)
    BY <1>8, <1>9, <1>10
  <1>13. rank(blockedC, m, reasonsC) \in Nat /\ rank(blockedD, n, reasonsD) \in Nat
    OBVIOUS
  <1> HIDE DEF rank
  <1>14. QED BY <1>7, <1>8, <1>11, <1>12, <1>13

-----------------------------------------------------------------------------
(* A better request is no worse in any part *)

LEMMA AboveIsNext ==
  ASSUME NEW S, NEW ladder \in Seq(S), NEW x, NEW y \in Above(ladder, x)
  PROVE \E k \in DOMAIN ladder \ {1} : k - 1 \in DOMAIN ladder /\ ladder[k - 1] = x /\ ladder[k] = y
  <1>1. PICK k \in DOMAIN ladder \ {1} : ladder[k - 1] = x /\ ladder[k] = y
    BY DEF Above
  <1>2. k - 1 \in DOMAIN ladder
    OBVIOUS
  <1>3. QED BY <1>1, <1>2

LEMMA AboveOfThree ==
  ASSUME NEW u, NEW v, NEW w, NEW x, NEW y \in Above(<<u, v, w>>, x)
  PROVE (x = u /\ y = v) \/ (x = v /\ y = w)
  <1>1. PICK k \in DOMAIN <<u, v, w>> \ {1} : <<u, v, w>>[k - 1] = x /\ <<u, v, w>>[k] = y
    BY DEF Above
  <1>2. k = 2 \/ k = 3
    OBVIOUS
  <1>3. QED BY <1>1, <1>2

LEMMA SameIsNoWorse ==
  ASSUME NEW p \in Profiles
  PROVE NoWorseProfile(p, p)
  <1>1. /\ p.answers \in [Questions -> Answers] /\ p.volume \in Numbers /\ p.reviewed \in Numbers
        /\ p.sources \in Numbers /\ p.coverage \in Numbers /\ p.age \in Numbers
    BY DEF Profiles
  <1>2. NoWorseAnswers(p.answers, p.answers)
    BY <1>1 DEF NoWorseAnswers, Improved, NoWorseAnswer
  <1>3. NoWorseGovernance(p.governance, p.governance)
    BY DEF NoWorseGovernance, NoWorseCompleteness, NoWorseRisk
  <1>4. p.claims # <<>> => NoWorseClaims(p.claims[1], p.claims[1])
    <2>1. ASSUME p.claims # <<>>
          PROVE NoWorseClaims(p.claims[1], p.claims[1])
      <3>1. p.claims[1] \in ClaimsProfile
        BY <2>1 DEF Profiles
      <3>2. p.claims[1].lacking \in Nat /\ p.claims[1].core \in Nat
        BY <3>1 DEF ClaimsProfile
      <3>3. QED BY <3>2 DEF NoWorseClaims, NoWorseReview
    <2>2. QED BY <2>1
  <1>5. QED BY <1>1, <1>2, <1>3, <1>4 DEF NoWorseProfile, NoLess

LEMMA BetterClaimsAreNoWorse ==
  ASSUME NEW c \in ClaimsProfile, NEW d \in BetterClaims(c)
  PROVE NoWorseClaims(c, d)
  <1>1. /\ c.lacking \in Nat /\ c.core \in Nat
        /\ DOMAIN c.states = Reviews /\ c.states = [v \in Reviews |-> c.states[v]]
    BY DEF ClaimsProfile
  <1>2. CASE \E v \in Reviews : \E s \in Above(ClaimStates, c.states[v]) :
               d = [c EXCEPT !.states[v] = s]
    <2>1. PICK v \in Reviews : \E s \in Above(ClaimStates, c.states[v]) :
                                 d = [c EXCEPT !.states[v] = s]
      BY <1>2
    <2>2. PICK s \in Above(ClaimStates, c.states[v]) : d = [c EXCEPT !.states[v] = s]
      BY <2>1
    <2>3. NoWorseReview(c.states[v], s)
      BY AboveOfThree DEF ClaimStates, NoWorseReview
    <2>4. /\ d.states = [c.states EXCEPT ![v] = s] /\ d.lacking = c.lacking /\ d.core = c.core
      BY <2>2 DEF ClaimsProfile
    <2>5. \A x \in Reviews : NoWorseReview(c.states[x], d.states[x])
      BY <1>1, <2>3, <2>4 DEF NoWorseReview
    <2>6. QED BY <1>1, <2>4, <2>5 DEF NoWorseClaims
  <1>3. CASE d = [c EXCEPT !.lacking = @ - 1]
    BY <1>1, <1>3 DEF ClaimsProfile, NoWorseClaims, NoWorseReview
  <1>4. CASE d = [c EXCEPT !.lacking = @ - 1, !.core = @ - 1]
    BY <1>1, <1>4 DEF ClaimsProfile, NoWorseClaims, NoWorseReview
  <1>5. QED BY <1>2, <1>3, <1>4 DEF BetterClaims

LEMMA LadderIsNoLess ==
  ASSUME NEW f \in DOMAIN Ladders, NEW x, NEW y \in Above(Ladders[f], x)
  PROVE IF f = "age" THEN NoLess(y, x) ELSE NoLess(x, y)
  <1>1. Ladders[f] \in Seq(Nat)
    BY LaddersAssumption
  <1>2. PICK k \in DOMAIN Ladders[f] \ {1} :
          k - 1 \in DOMAIN Ladders[f] /\ Ladders[f][k - 1] = x /\ Ladders[f][k] = y
    BY <1>1, AboveIsNext
  <1>3. x \in Nat /\ y \in Nat
    BY <1>1, <1>2
  <1>4. IF f = "age" THEN y <= x ELSE x <= y
    BY <1>2, LaddersAssumption
  <1>5. QED BY <1>3, <1>4 DEF NoLess, Numbers, NotGiven

LEMMA BetterGovernanceIsNoWorse ==
  ASSUME NEW g \in Governance, NEW f \in DOMAIN GovernanceLadders,
         NEW x \in Above(GovernanceLadders[f], g[f])
  PROVE NoWorseGovernance(g, [g EXCEPT ![f] = x])
  <1> DEFINE h == [g EXCEPT ![f] = x]
  <1>1. f \in {"basis", "rights", "provenance", "redaction", "risk"}
    BY DEF GovernanceLadders
  <1>2. g = [basis |-> g.basis, rights |-> g.rights, provenance |-> g.provenance,
             redaction |-> g.redaction, risk |-> g.risk]
    BY DEF Governance
  <1>3. /\ h.basis = (IF f = "basis" THEN x ELSE g.basis)
        /\ h.rights = (IF f = "rights" THEN x ELSE g.rights)
        /\ h.provenance = (IF f = "provenance" THEN x ELSE g.provenance)
        /\ h.redaction = (IF f = "redaction" THEN x ELSE g.redaction)
        /\ h.risk = (IF f = "risk" THEN x ELSE g.risk)
    BY <1>1, <1>2
  <1>4. /\ f = "basis" => x = "owner"
        /\ f \in {"rights", "provenance", "redaction"} => NoWorseCompleteness(g[f], x)
        /\ f = "risk" => NoWorseRisk(g[f], x)
    <2>1. ASSUME f = "basis"
          PROVE x = "owner"
      <3>1. x \in Above(<<"operator", "owner">>, g[f])
        BY <2>1 DEF GovernanceLadders
      <3>2. PICK k \in DOMAIN <<"operator", "owner">> \ {1} : <<"operator", "owner">>[k] = x
        BY <3>1 DEF Above
      <3>3. k = 2
        OBVIOUS
      <3>4. QED BY <3>2, <3>3
    <2>2. ASSUME f \in {"rights", "provenance", "redaction"}
          PROVE NoWorseCompleteness(g[f], x)
      <3>1. x \in Above(<<"missing", "partial", "complete">>, g[f])
        BY <2>2 DEF GovernanceLadders
      <3>2. QED BY <3>1, AboveOfThree DEF NoWorseCompleteness
    <2>3. ASSUME f = "risk"
          PROVE NoWorseRisk(g[f], x)
      <3>1. x \in Above(<<"critical", "high", "medium", "low">>, g[f])
        BY <2>3 DEF GovernanceLadders
      <3> DEFINE ladder == <<"critical", "high", "medium", "low">>
      <3>2. PICK k \in DOMAIN ladder \ {1} : ladder[k - 1] = g[f] /\ ladder[k] = x
        BY <3>1 DEF Above
      <3>3. k = 2 \/ k = 3 \/ k = 4
        OBVIOUS
      <3>4. QED BY <3>2, <3>3 DEF NoWorseRisk
    <2>4. QED BY <2>1, <2>2, <2>3
  <1> HIDE DEF h
  <1>5. NoWorseGovernance(g, h)
    BY <1>1, <1>3, <1>4 DEF NoWorseGovernance, NoWorseCompleteness, NoWorseRisk
  <1>6. QED BY <1>5 DEF h

LEMMA BetterProfilesAreNoWorse ==
  ASSUME NEW p \in Profiles, NEW q \in BetterProfiles(p)
  PROVE NoWorseProfile(p, q)
  <1>0. NoWorseProfile(p, p)
    BY SameIsNoWorse
  <1>1. CASE \E x \in {x \in Questions : p.answers[x] = "no"} : q = [p EXCEPT !.answers[x] = "yes"]
    <2>1. PICK x \in Questions : p.answers[x] = "no" /\ q = [p EXCEPT !.answers[x] = "yes"]
      BY <1>1
    <2>2. q = [p EXCEPT !.answers = [p.answers EXCEPT ![x] = "yes"]]
      BY <2>1
    <2>3. p.answers \in [Questions -> Answers]
      BY DEF Profiles
    <2>4. NoWorseAnswers(p.answers, [p.answers EXCEPT ![x] = "yes"])
      BY <2>1, <2>3 DEF NoWorseAnswers, Improved, NoWorseAnswer, Answers
    <2>5. /\ q.answers = [p.answers EXCEPT ![x] = "yes"] /\ q.volume = p.volume
          /\ q.reviewed = p.reviewed /\ q.sources = p.sources /\ q.coverage = p.coverage
          /\ q.age = p.age /\ q.governance = p.governance /\ q.claims = p.claims
      BY <2>2 DEF Profiles
    <2>6. QED BY <1>0, <2>4, <2>5 DEF NoWorseProfile
  <1>2. CASE \E f \in DOMAIN Ladders : \E x \in Above(Ladders[f], p[f]) : q = [p EXCEPT ![f] = x]
    <2>1. PICK f \in DOMAIN Ladders : \E x \in Above(Ladders[f], p[f]) : q = [p EXCEPT ![f] = x]
      BY <1>2
    <2>2. PICK x \in Above(Ladders[f], p[f]) : q = [p EXCEPT ![f] = x]
      BY <2>1
    <2>3. IF f = "age" THEN NoLess(x, p[f]) ELSE NoLess(p[f], x)
      BY LadderIsNoLess
    <2>4. f \in {"volume", "reviewed", "sources", "coverage", "age"}
      BY LaddersAssumption
    <2>5. /\ q.answers = p.answers /\ q.governance = p.governance /\ q.claims = p.claims
          /\ q.volume = (IF f = "volume" THEN x ELSE p.volume)
          /\ q.reviewed = (IF f = "reviewed" THEN x ELSE p.reviewed)
          /\ q.sources = (IF f = "sources" THEN x ELSE p.sources)
          /\ q.coverage = (IF f = "coverage" THEN x ELSE p.coverage)
          /\ q.age = (IF f = "age" THEN x ELSE p.age)
      BY <2>2, <2>4 DEF Profiles
    <2>6. QED BY <1>0, <2>3, <2>4, <2>5 DEF NoWorseProfile
  <1>3. CASE \E f \in DOMAIN GovernanceLadders :
               \E x \in Above(GovernanceLadders[f], p.governance[f]) :
                 q = [p EXCEPT !.governance[f] = x]
    <2>1. PICK f \in DOMAIN GovernanceLadders :
            \E x \in Above(GovernanceLadders[f], p.governance[f]) :
              q = [p EXCEPT !.governance[f] = x]
      BY <1>3
    <2>2. PICK x \in Above(GovernanceLadders[f], p.governance[f]) :
            q = [p EXCEPT !.governance[f] = x]
      BY <2>1
    <2>3. p.governance \in Governance
      BY DEF Profiles
    <2>4. NoWorseGovernance(p.governance, [p.governance EXCEPT ![f] = x])
      BY <2>3, BetterGovernanceIsNoWorse
    <2>5. /\ q.answers = p.answers /\ q.volume = p.volume
          /\ q.reviewed = p.reviewed /\ q.sources = p.sources /\ q.coverage = p.coverage
          /\ q.age = p.age /\ q.claims = p.claims
          /\ q.governance = [p.governance EXCEPT ![f] = x]
      BY <2>2 DEF Profiles
    <2>6. QED BY <1>0, <2>4, <2>5 DEF NoWorseProfile
  <1>4. CASE p.claims # <<>> /\ \E c \in BetterClaims(p.claims[1]) : q = [p EXCEPT !.claims[1] = c]
    <2>1. PICK c \in BetterClaims(p.claims[1]) : q = [p EXCEPT !.claims[1] = c]
      BY <1>4
    <2>2. p.claims \in Seq(ClaimsProfile) /\ p.claims[1] \in ClaimsProfile /\ 1 \in DOMAIN p.claims
      BY <1>4 DEF Profiles
    <2>3. NoWorseClaims(p.claims[1], c)
      BY <2>2, BetterClaimsAreNoWorse
    <2>4. /\ q.answers = p.answers /\ q.volume = p.volume
          /\ q.reviewed = p.reviewed /\ q.sources = p.sources /\ q.coverage = p.coverage
          /\ q.age = p.age /\ q.governance = p.governance
          /\ q.claims = [p.claims EXCEPT ![1] = c]
      BY <2>1 DEF Profiles
    <2>5. q.claims # <<>> /\ q.claims[1] = c
      BY <1>4, <2>2, <2>4
    <2>6. QED BY <1>0, <1>4, <2>3, <2>4, <2>5 DEF NoWorseProfile
  <1>5. \/ \E x \in {x \in Questions : p.answers[x] = "no"} : q = [p EXCEPT !.answers[x] = "yes"]
        \/ \E f \in DOMAIN Ladders : \E x \in Above(Ladders[f], p[f]) : q = [p EXCEPT ![f] = x]
        \/ \E f \in DOMAIN GovernanceLadders :
             \E x \in Above(GovernanceLadders[f], p.governance[f]) :
               q = [p EXCEPT !.governance[f] = x]
        \/ p.claims # <<>> /\ \E c \in BetterClaims(p.claims[1]) : q = [p EXCEPT !.claims[1] = c]
    BY Zenon DEF BetterProfiles
  <1>6. QED BY <1>1, <1>2, <1>3, <1>4, <1>5, Zenon

-----------------------------------------------------------------------------
(* Evidence that got better, given or of control references *)

LEMMA SameEvidenceIsNoWorse == ASSUME NEW e \in Evidence PROVE NoWorseEvidence(e, e)
  <1>1. NoWorseControls(e.controls, e.controls)
    BY DEF NoWorseControls, Evidence, ControlDelta, ControlStates
  <1>2. e.posture # <<>> => NoWorsePosture(e.posture[1], e.posture[1])
    <2>1. ASSUME e.posture # <<>>
          PROVE NoWorsePosture(e.posture[1], e.posture[1])
      <3>1. e.posture[1] \in Posture
        BY <2>1 DEF Evidence
      <3>2. QED BY <3>1 DEF NoWorsePosture, Posture, NoLess, NoWorseAnswer
    <2>2. QED BY <2>1
  <1>3. NoLess(e.approvals, e.approvals) /\ NoLess(e.logs, e.logs)
    BY DEF Evidence, NoLess
  <1>4. /\ NoWorseAnswer(e.owner, e.owner) /\ NoWorseAnswer(e.systems, e.systems)
        /\ NoWorseAnswer(e.escalation, e.escalation) /\ NoWorseAnswer(e.fallback, e.fallback)
        /\ NoWorseAnswer(e.override, e.override) /\ NoWorseAnswer(e.rollback, e.rollback)
    BY DEF Evidence, NoWorseAnswer
  <1>5. QED BY <1>1, <1>2, <1>3, <1>4 DEF NoWorseEvidence

LEMMA MoreIsNoLess ==
  ASSUME NEW n \in Nat \ {0}, NEW x, NEW y \in Above(<<0, 1, n>>, x)
  PROVE NoLess(x, y)
  <1>1. (x = 0 /\ y = 1) \/ (x = 1 /\ y = n)
    BY AboveOfThree
  <1>2. QED BY <1>1 DEF NoLess, Numbers, NotGiven

LEMMA BetterEvidenceIsNoWorse ==
  ASSUME NEW e \in Evidence, NEW f \in BetterEvidence(e)
  PROVE NoWorseEvidence(e, f)
  <1>0. NoWorseEvidence(e, e)
    BY SameEvidenceIsNoWorse
  <1>1. CASE \E x \in {x \in Confirmations : e[x] = "no"} : f = [e EXCEPT ![x] = "yes"]
    <2>1. PICK x \in Confirmations : e[x] = "no" /\ f = [e EXCEPT ![x] = "yes"]
      BY <1>1
    <2>2. /\ f.controls = e.controls /\ f.posture = e.posture
          /\ f.approvals = e.approvals /\ f.logs = e.logs
          /\ f.owner = (IF x = "owner" THEN "yes" ELSE e.owner)
          /\ f.systems = (IF x = "systems" THEN "yes" ELSE e.systems)
          /\ f.escalation = (IF x = "escalation" THEN "yes" ELSE e.escalation)
          /\ f.fallback = (IF x = "fallback" THEN "yes" ELSE e.fallback)
          /\ f.override = (IF x = "override" THEN "yes" ELSE e.override)
          /\ f.rollback = (IF x = "rollback" THEN "yes" ELSE e.rollback)
      BY <2>1 DEF Evidence, Confirmations
    <2>3. \A y : NoWorseAnswer(y, y) => NoWorseAnswer(y, "yes")
      BY DEF NoWorseAnswer, Answers
    <2>4. QED BY <1>0, <2>2, <2>3 DEF NoWorseEvidence
  <1>2. CASE \E x \in Above(<<0, 1, 3>>, e.approvals) : f = [e EXCEPT !.approvals = x]
    <2>1. PICK x \in Above(<<0, 1, 3>>, e.approvals) : f = [e EXCEPT !.approvals = x]
      BY <1>2
    <2>2. NoLess(e.approvals, x)
      BY MoreIsNoLess
    <2>3. /\ f.controls = e.controls /\ f.posture = e.posture /\ f.approvals = x
          /\ f.logs = e.logs /\ f.owner = e.owner /\ f.systems = e.systems
          /\ f.escalation = e.escalation /\ f.fallback = e.fallback
          /\ f.override = e.override /\ f.rollback = e.rollback
      BY <2>1 DEF Evidence
    <2>4. QED BY <1>0, <2>2, <2>3 DEF NoWorseEvidence
  <1>3. CASE \E x \in Above(<<0, 1, 10>>, e.logs) : f = [e EXCEPT !.logs = x]
    <2>1. PICK x \in Above(<<0, 1, 10>>, e.logs) : f = [e EXCEPT !.logs = x]
      BY <1>3
    <2>2. NoLess(e.logs, x)
      BY MoreIsNoLess
    <2>3. /\ f.controls = e.controls /\ f.posture = e.posture /\ f.approvals = e.approvals
          /\ f.logs = x /\ f.owner = e.owner /\ f.systems = e.systems
          /\ f.escalation = e.escalation /\ f.fallback = e.fallback
          /\ f.override = e.override /\ f.rollback = e.rollback
      BY <2>1 DEF Evidence
    <2>4. QED BY <1>0, <2>2, <2>3 DEF NoWorseEvidence
  <1>4. QED BY <1>1, <1>2, <1>3 DEF BetterEvidence

LEMMA LeastOfNumbers ==
  ASSUME NEW S, S \subseteq Nat, S # {}
  PROVE \E k \in S : \A j \in S : k <= j
  <1> DEFINE below == {ss \in Nat \X Nat : ss[1] < ss[2]}
  <1>1. IsWellFoundedOn(below, Nat)
    BY NatLessThanWellFounded DEF OpToRel
  <1>2. \A j, k \in Nat : j < k => <<j, k>> \in below
    OBVIOUS
  <1> HIDE DEF below
  <1>3. PICK k \in S : \A j \in S : <<j, k>> \notin below
    BY <1>1, WFMin, Zenon
  <1>4. \A j \in S : k <= j
    <2>1. TAKE j \in S
    <2>2. j \in Nat /\ k \in Nat /\ ~(j < k)
      BY <1>2, <1>3
    <2>3. QED BY <2>2
  <1>5. QED BY <1>4

\* A reference that was brought on, or linked better: all else in it is the same.
NoWorseRef(x, y) ==
  /\ y.area = x.area /\ y.canonical = x.canonical
  /\ \/ y.implementation = x.implementation
     \/ x.implementation = "planned" /\ y.implementation = "in_progress"
     \/ x.implementation = "in_progress" /\ y.implementation = "implemented"
  /\ \/ y.linkage = x.linkage
     \/ x.linkage = "missing" /\ y.linkage = "linked"
     \/ x.linkage = "linked" /\ y.linkage = "verified"

LEMMA BetterRefIsNoWorse ==
  ASSUME NEW x \in ControlRefs, NEW y \in BetterRef(x)
  PROVE NoWorseRef(x, y)
  <1>1. CASE \E v \in Above(<<"planned", "in_progress", "implemented">>, x.implementation) :
               y = [x EXCEPT !.implementation = v]
    <2>1. PICK v \in Above(<<"planned", "in_progress", "implemented">>, x.implementation) :
            y = [x EXCEPT !.implementation = v]
      BY <1>1
    <2>2. \/ x.implementation = "planned" /\ v = "in_progress"
          \/ x.implementation = "in_progress" /\ v = "implemented"
      BY AboveOfThree
    <2>3. /\ y.area = x.area /\ y.canonical = x.canonical /\ y.linkage = x.linkage
          /\ y.implementation = v
      BY <2>1 DEF ControlRefs
    <2>4. QED BY <2>2, <2>3 DEF NoWorseRef
  <1>2. CASE \E v \in Above(<<"missing", "linked", "verified">>, x.linkage) :
               y = [x EXCEPT !.linkage = v]
    <2>1. PICK v \in Above(<<"missing", "linked", "verified">>, x.linkage) :
            y = [x EXCEPT !.linkage = v]
      BY <1>2
    <2>2. \/ x.linkage = "missing" /\ v = "linked"
          \/ x.linkage = "linked" /\ v = "verified"
      BY AboveOfThree
    <2>3. /\ y.area = x.area /\ y.canonical = x.canonical /\ y.linkage = v
          /\ y.implementation = x.implementation
      BY <2>1 DEF ControlRefs
    <2>4. QED BY <2>2, <2>3 DEF NoWorseRef
  <1>3. QED BY <1>1, <1>2 DEF BetterRef

LEMMA RefStateMonotone ==
  ASSUME NEW x, NEW y, NoWorseRef(x, y), x.canonical \in BOOLEAN
  PROVE /\ ControlDelta[ControlStateOf(x)] \in Int /\ ControlDelta[ControlStateOf(y)] \in Int
        /\ ControlDelta[ControlStateOf(x)] <= ControlDelta[ControlStateOf(y)]
  <1> DEFINE state(canonical, implementation, linkage) ==
               IF ~canonical THEN "missing"
               ELSE IF implementation = "implemented"
                    THEN IF linkage = "verified" THEN "verified" ELSE "operating"
                    ELSE IF implementation = "in_progress" THEN "documented" ELSE "missing"
  <1>1. ASSUME NEW ref, ref.canonical \in BOOLEAN
        PROVE ControlStateOf(ref) = state(ref.canonical, ref.implementation, ref.linkage)
    <2>1. CASE ~ref.canonical
      BY <2>1 DEF ControlStateOf
    <2>2. CASE ref.canonical /\ ref.implementation = "implemented"
      BY <2>2 DEF ControlStateOf
    <2>3. CASE ref.canonical /\ ref.implementation = "in_progress"
      BY <2>3 DEF ControlStateOf
    <2>4. CASE /\ ref.canonical /\ ref.implementation # "implemented"
               /\ ref.implementation # "in_progress"
      BY <2>4 DEF ControlStateOf
    <2>5. QED BY <1>1, <2>1, <2>2, <2>3, <2>4
  <1>2. y.canonical = x.canonical
    BY DEF NoWorseRef
  <1>3. /\ ControlStateOf(x) = state(x.canonical, x.implementation, x.linkage)
        /\ ControlStateOf(y) = state(x.canonical, y.implementation, y.linkage)
    BY <1>1, <1>2
  <1>4. CASE ~x.canonical
    BY <1>3, <1>4 DEF ControlDelta
  <1>5. CASE x.canonical
    BY <1>3, <1>5 DEF NoWorseRef, ControlDelta
  <1>6. QED BY <1>4, <1>5

LEMMA ReferencesMonotone ==
  ASSUME NEW refs \in Seq(ControlRefs), NEW i \in DOMAIN refs, NEW ref \in BetterRef(refs[i])
  PROVE NoWorseEvidence(EvidenceOfControls(refs), EvidenceOfControls([refs EXCEPT ![i] = ref]))
  <1> DEFINE new == [refs EXCEPT ![i] = ref]
             e == EvidenceOfControls(refs)
             f == EvidenceOfControls(new)
  <1>0. /\ refs[i] \in ControlRefs /\ ref \in ControlRefs
        /\ new \in Seq(ControlRefs) /\ DOMAIN new = DOMAIN refs /\ Len(new) = Len(refs)
        /\ refs # <<>> /\ Len(refs) \in Nat \ {0} /\ DOMAIN refs = 1 .. Len(refs)
    BY BetterRefIsRef
  <1>1. \A k \in DOMAIN refs : NoWorseRef(refs[k], new[k]) /\ refs[k].canonical \in BOOLEAN
    <2>1. TAKE k \in DOMAIN refs
    <2>2. refs[k] \in ControlRefs
      BY <1>0
    <2>3. refs[k].canonical \in BOOLEAN
      BY <2>2 DEF ControlRefs
    <2>4. CASE k = i
      BY <1>0, <2>3, <2>4, BetterRefIsNoWorse
    <2>5. CASE k # i
      BY <2>3, <2>5 DEF NoWorseRef
    <2>6. QED BY <2>4, <2>5
  <1> HIDE DEF new
  <1>2. ASSUME NEW area
        PROVE /\ ControlDelta[StateOfArea(refs, area)] \in Int
              /\ ControlDelta[StateOfArea(new, area)] \in Int
              /\ ControlDelta[StateOfArea(refs, area)] <= ControlDelta[StateOfArea(new, area)]
    <2> DEFINE about == {k \in DOMAIN refs : refs[k].area = area}
               least == CHOOSE k \in about : \A j \in about : k <= j
    <2>1. about = {k \in DOMAIN new : new[k].area = area}
      BY <1>0, <1>1 DEF NoWorseRef
    <2>2. CASE about = {}
      <3>1. StateOfArea(refs, area) = "unknown" /\ StateOfArea(new, area) = "unknown"
        BY <2>1, <2>2, Zenon DEF StateOfArea
      <3>2. QED BY <3>1 DEF ControlDelta
    <2>3. CASE about # {}
      <3>1. \E k \in about : \A j \in about : k <= j
        <4>1. about \subseteq Nat
          BY <1>0
        <4> HIDE DEF about
        <4>2. QED BY <2>3, <4>1, LeastOfNumbers
      <3>2. least \in about
        BY <3>1, Zenon
      <3>3. least \in DOMAIN refs
        BY <3>2
      <3>4. /\ StateOfArea(refs, area) = ControlStateOf(refs[least])
            /\ StateOfArea(new, area) = ControlStateOf(new[least])
        BY <2>1, <2>3, Zenon DEF StateOfArea
      <3> HIDE DEF least
      <3>5. NoWorseRef(refs[least], new[least]) /\ refs[least].canonical \in BOOLEAN
        BY <1>1, <3>3
      <3>6. QED BY <3>4, <3>5, RefStateMonotone
    <2>4. QED BY <2>2, <2>3
  <1>3. NoWorseControls(e.controls, f.controls)
    BY <1>2 DEF EvidenceOfControls, NoWorseControls
  <1>4. ASSUME NEW states,
               states = {"verified"} \/ states = {"linked", "verified"}
        PROVE /\ Linked(refs, states) \in Nat /\ Linked(new, states) \in Nat
              /\ Linked(refs, states) <= Linked(new, states)
    <2> DEFINE a == {k \in DOMAIN refs : refs[k].canonical /\ refs[k].linkage \in states}
               b == {k \in DOMAIN new : new[k].canonical /\ new[k].linkage \in states}
    <2>1. \A k \in DOMAIN refs : /\ new[k].canonical = refs[k].canonical
                                 /\ refs[k].linkage \in states => new[k].linkage \in states
      BY <1>1, <1>4 DEF NoWorseRef
    <2>2. a \subseteq b /\ b \subseteq 1 .. Len(refs)
      BY <1>0, <2>1
    <2>3. IsFiniteSet(1 .. Len(refs))
      BY <1>0, FS_Interval
    <2>4. Linked(refs, states) = Cardinality(a) /\ Linked(new, states) = Cardinality(b)
      BY DEF Linked
    <2> HIDE DEF a, b
    <2>5. IsFiniteSet(b)
      BY <2>2, <2>3, FS_Subset
    <2>6. Cardinality(a) <= Cardinality(b) /\ IsFiniteSet(a)
      BY <2>2, <2>5, FS_Subset
    <2>7. QED BY <2>4, <2>5, <2>6, FS_CardinalityType
  <1> DEFINE u == e.posture[1]
             v == f.posture[1]
  <1>5. NoLess(u.coverage, v.coverage)
    <2> DEFINE m == 1000 * Linked(refs, {"verified"})
               n == 1000 * Linked(new, {"verified"})
    <2>1. m \in Nat /\ n \in Nat /\ m <= n
      BY <1>4
    <2>2. u.coverage = Rounded(m, Len(refs)) /\ v.coverage = Rounded(n, Len(refs))
      BY <1>0 DEF EvidenceOfControls
    <2> HIDE DEF m, n, u, v
    <2>3. /\ Rounded(m, Len(refs)) \in Nat /\ Rounded(n, Len(refs)) \in Nat
          /\ Rounded(m, Len(refs)) <= Rounded(n, Len(refs))
      BY <1>0, <2>1, RoundedNat, RoundedMonotone
    <2>4. QED BY <2>2, <2>3 DEF NoLess, Numbers, NotGiven
  <1>6. NoWorseAnswer(u.linked, v.linked)
    <2> DEFINE x == Linked(refs, {"linked", "verified"})
               y == Linked(new, {"linked", "verified"})
    <2>1. x \in Nat /\ y \in Nat /\ x <= y
      BY <1>4
    <2>2. /\ u.linked = (IF x > 0 THEN "yes" ELSE "no")
          /\ v.linked = (IF y > 0 THEN "yes" ELSE "no")
      BY DEF EvidenceOfControls
    <2> HIDE DEF x, y, u, v
    <2>3. QED BY <2>1, <2>2 DEF NoWorseAnswer, Answers
  <1>7. /\ e.posture # <<>> /\ f.posture # <<>>
        /\ NoWorsePosture(u, v)
    <2>1. /\ e.posture # <<>> /\ f.posture # <<>>
          /\ u.age = NotGiven /\ v.age = NotGiven /\ u.audit = "no" /\ v.audit = "no"
      BY DEF EvidenceOfControls
    <2> HIDE DEF u, v
    <2>2. NoLess(v.age, u.age) /\ NoWorseAnswer(u.audit, v.audit)
      BY <2>1 DEF NoLess, Numbers, NoWorseAnswer, Answers
    <2>3. QED BY <1>5, <1>6, <2>1, <2>2 DEF NoWorsePosture
  <1>8. /\ e.owner = "no" /\ f.owner = "no" /\ e.systems = "unknown" /\ f.systems = "unknown"
        /\ e.escalation = "unknown" /\ f.escalation = "unknown"
        /\ e.fallback = "unknown" /\ f.fallback = "unknown"
        /\ e.override = "unknown" /\ f.override = "unknown"
        /\ e.rollback = "unknown" /\ f.rollback = "unknown"
    BY DEF EvidenceOfControls
  <1>9. NoWorseEvidence(e, f)
    <2> HIDE DEF e, f
    <2>1. NoWorseAnswer("no", "no") /\ NoWorseAnswer("unknown", "unknown")
      BY DEF NoWorseAnswer, Answers
    <2>2. QED BY <1>3, <1>7, <1>8, <2>1 DEF NoWorseEvidence, u, v
  <1>10. QED BY <1>9 DEF e, f, new

-----------------------------------------------------------------------------
(* A better request gets no worse a report *)

\* What a report is made of: all but the profile and the evidence is the same.
NoWorseRequest(r, s) ==
  /\ s.context = r.context /\ Baseline(s) = Baseline(r) /\ s.learning = r.learning
  /\ \/ r.profile = <<>> /\ s.profile = <<>>
     \/ /\ r.profile # <<>> /\ s.profile # <<>>
        /\ NoWorseProfile(r.profile[1], s.profile[1])
  /\ \/ EvidenceFor(r) = <<>> /\ EvidenceFor(s) = <<>>
     \/ /\ EvidenceFor(r) # <<>> /\ EvidenceFor(s) # <<>>
        /\ NoWorseEvidence(EvidenceFor(r)[1], EvidenceFor(s)[1])

LEMMA SameRequestIsNoWorse == ASSUME NEW r \in Request PROVE NoWorseRequest(r, r)
  <1>1. r.profile # <<>> => NoWorseProfile(r.profile[1], r.profile[1])
    <2>1. ASSUME r.profile # <<>>
          PROVE NoWorseProfile(r.profile[1], r.profile[1])
      <3>1. r.profile \in Seq(Profiles)
        BY DEF Request
      <3>2. r.profile[1] \in Profiles
        BY <2>1, <3>1
      <3>3. QED BY <3>2, SameIsNoWorse
    <2>2. QED BY <2>1
  <1>2. EvidenceFor(r) # <<>> => NoWorseEvidence(EvidenceFor(r)[1], EvidenceFor(r)[1])
    BY EvidenceOfRequest, SameEvidenceIsNoWorse
  <1>3. QED BY <1>1, <1>2 DEF NoWorseRequest

\* The baseline of a request is that of its context, if none is given.
LEMMA SameBaseline ==
  ASSUME NEW r, NEW s, s.context = r.context, s.baseline = r.baseline
  PROVE Baseline(s) = Baseline(r)
  BY DEF Baseline

LEMMA BetterRequestIsNoWorse ==
  ASSUME NEW r \in Request, NEW s \in Better(r)
  PROVE NoWorseRequest(r, s)
  <1>0. /\ r.evidence \in Seq(Evidence) /\ r.profile \in Seq(Profiles)
        /\ r.controlRefs \in Seq(ControlRefs)
    BY DEF Request
  <1>1. NoWorseRequest(r, r)
    BY SameRequestIsNoWorse
  <1>2. CASE r.profile # <<>> /\ \E p \in BetterProfiles(r.profile[1]) :
               s = [r EXCEPT !.profile[1] = p]
    <2>1. PICK p \in BetterProfiles(r.profile[1]) : s = [r EXCEPT !.profile[1] = p]
      BY <1>2
    <2>2. r.profile[1] \in Profiles /\ 1 \in DOMAIN r.profile
      BY <1>0, <1>2
    <2>3. p \in Profiles /\ NoWorseProfile(r.profile[1], p)
      BY <2>2, BetterProfilesAreProfiles, BetterProfilesAreNoWorse
    <2>4. /\ s.context = r.context /\ s.baseline = r.baseline /\ s.learning = r.learning
          /\ s.evidence = r.evidence /\ s.controlRefs = r.controlRefs
          /\ s.profile = [r.profile EXCEPT ![1] = p]
      BY <2>1 DEF Request
    <2>5. s.profile # <<>> /\ s.profile[1] = p
      BY <1>0, <1>2, <2>2, <2>4
    <2>6. Baseline(s) = Baseline(r)
      BY <2>4, SameBaseline
    <2>7. CASE r.evidence # <<>>
      <3>1. EvidenceFor(s) = EvidenceFor(r)
        BY <2>4, <2>7 DEF EvidenceFor
      <3>2. QED BY <1>1, <1>2, <2>3, <2>4, <2>5, <2>6, <3>1 DEF NoWorseRequest
    <2>8. CASE r.evidence = <<>>
      <3>1. EvidenceFor(r) = <<EvidenceOf(r.profile[1])>> /\ EvidenceFor(s) = <<EvidenceOf(p)>>
        BY <1>2, <2>4, <2>5, <2>8 DEF EvidenceFor
      <3>2. NoWorseEvidence(EvidenceOf(r.profile[1]), EvidenceOf(p))
        BY <2>2, <2>3, ProfileEvidenceMonotone
      <3>3. /\ EvidenceFor(r) # <<>> /\ EvidenceFor(s) # <<>>
            /\ NoWorseEvidence(EvidenceFor(r)[1], EvidenceFor(s)[1])
        BY <3>1, <3>2
      <3>4. QED BY <1>2, <2>3, <2>4, <2>5, <2>6, <3>3 DEF NoWorseRequest
    <2>9. QED BY <2>7, <2>8
  <1>3. CASE r.evidence # <<>> /\ \E e \in BetterEvidence(r.evidence[1]) :
               s = [r EXCEPT !.evidence[1] = e]
    <2>1. PICK e \in BetterEvidence(r.evidence[1]) : s = [r EXCEPT !.evidence[1] = e]
      BY <1>3
    <2>2. r.evidence[1] \in Evidence /\ 1 \in DOMAIN r.evidence
      BY <1>0, <1>3
    <2>3. NoWorseEvidence(r.evidence[1], e)
      BY <2>2, BetterEvidenceIsNoWorse
    <2>4. /\ s.context = r.context /\ s.baseline = r.baseline /\ s.learning = r.learning
          /\ s.profile = r.profile /\ s.evidence = [r.evidence EXCEPT ![1] = e]
      BY <2>1 DEF Request
    <2>5. s.evidence # <<>> /\ s.evidence[1] = e
      BY <1>0, <1>3, <2>2, <2>4
    <2>6. Baseline(s) = Baseline(r)
      BY <2>4, SameBaseline
    <2>7. EvidenceFor(r) = r.evidence /\ EvidenceFor(s) = s.evidence
      BY <1>3, <2>5 DEF EvidenceFor
    <2>8. QED BY <1>1, <1>3, <2>3, <2>4, <2>5, <2>6, <2>7 DEF NoWorseRequest
  <1>4. CASE \E i \in DOMAIN r.controlRefs : \E ref \in BetterRef(r.controlRefs[i]) :
               s = [r EXCEPT !.controlRefs[i] = ref]
    <2>1. PICK i \in DOMAIN r.controlRefs : \E ref \in BetterRef(r.controlRefs[i]) :
                 s = [r EXCEPT !.controlRefs[i] = ref]
      BY <1>4
    <2>2. PICK ref \in BetterRef(r.controlRefs[i]) : s = [r EXCEPT !.controlRefs[i] = ref]
      BY <2>1
    <2> DEFINE new == [r.controlRefs EXCEPT ![i] = ref]
    <2>3. /\ s.context = r.context /\ s.baseline = r.baseline /\ s.learning = r.learning
          /\ s.profile = r.profile /\ s.evidence = r.evidence /\ s.controlRefs = new
      BY <2>2 DEF Request
    <2>4. Baseline(s) = Baseline(r)
      BY <2>3, SameBaseline
    <2>5. CASE r.evidence # <<>> \/ r.profile # <<>>
      <3>1. EvidenceFor(s) = EvidenceFor(r)
        BY <2>3, <2>5 DEF EvidenceFor
      <3>2. QED BY <1>1, <2>3, <2>4, <3>1 DEF NoWorseRequest
    <2>6. CASE r.evidence = <<>> /\ r.profile = <<>>
      <3>1. r.controlRefs # <<>> /\ new # <<>>
        BY <1>0
      <3>2. NoWorseEvidence(EvidenceOfControls(r.controlRefs), EvidenceOfControls(new))
        BY <1>0, ReferencesMonotone
      <3> HIDE DEF new
      <3>3. /\ EvidenceFor(r) = <<EvidenceOfControls(r.controlRefs)>>
            /\ EvidenceFor(s) = <<EvidenceOfControls(new)>>
        BY <2>3, <2>6, <3>1 DEF EvidenceFor
      <3>4. /\ EvidenceFor(r) # <<>> /\ EvidenceFor(s) # <<>>
            /\ NoWorseEvidence(EvidenceFor(r)[1], EvidenceFor(s)[1])
        BY <3>2, <3>3
      <3>5. QED BY <1>1, <2>3, <2>4, <3>4 DEF NoWorseRequest
    <2>7. QED BY <2>5, <2>6
  <1>5. QED BY <1>2, <1>3, <1>4 DEF Better

LEMMA PillarsMonotone ==
  ASSUME NEW r \in Request, NEW s \in Request, NoWorseRequest(r, s)
  PROVE \A x \in Pillars : PillarsFor(r)[x] <= PillarsFor(s)[x]
  <1> DEFINE p == PillarScores(Unscored(r), r.context)
  <1>1. p \in RatedPillars
    <2>1. r.context \in WorkflowContext
      BY DEF Request
    <2>2. Baseline(r) \in Int
      <3>1. Baseline(r) \in 0 .. 1000
        BY BaselineIsScore
      <3>2. QED BY <3>1
    <2>3. Unrated(Unscored(r))
      BY <2>2 DEF Unrated, Unscored
    <2>4. QED BY <2>1, <2>3, PillarsOfContext
  <1>2. PillarScores(Unscored(s), s.context) = p
    <2>1. Unscored(s) = Unscored(r) /\ s.context = r.context
      BY DEF NoWorseRequest, Unscored
    <2>2. QED BY <2>1
  <1>3. CASE EvidenceFor(r) = <<>> /\ EvidenceFor(s) = <<>>
    <2>1. PillarsFor(r) = p /\ PillarsFor(s) = p
      BY <1>2, <1>3, Zenon DEF PillarsFor
    <2> HIDE DEF p
    <2>2. \A x \in Pillars : p[x] <= p[x]
      BY <1>1, RatedIsNumber
    <2>3. QED BY <2>1, <2>2
  <1>4. CASE /\ EvidenceFor(r) # <<>> /\ EvidenceFor(s) # <<>>
             /\ NoWorseEvidence(EvidenceFor(r)[1], EvidenceFor(s)[1])
    <2> DEFINE e == EvidenceFor(r)[1]
               f == EvidenceFor(s)[1]
    <2>1. PillarsFor(r) = Moved(p, e) /\ PillarsFor(s) = Moved(p, f)
      BY <1>2, <1>4, Zenon DEF PillarsFor
    <2>2. e \in Evidence /\ f \in Evidence
      BY <1>4, EvidenceOfRequest
    <2> HIDE DEF p, e, f
    <2>3. NoWorseEvidence(e, f)
      BY <1>4 DEF e, f
    <2>4. QED BY <1>1, <2>1, <2>2, <2>3, MovedMonotone
  <1>5. QED BY <1>3, <1>4 DEF NoWorseRequest

LEMMA SameInputsAreNoWorse == ASSUME NEW i, Scorable(i) PROVE NoWorseInputs(i, i)
  <1>1. /\ NoWorseAnswer(i.sop, i.sop) /\ NoWorseAnswer(i.outcome, i.outcome)
        /\ NoWorseAnswer(i.review, i.review)
    BY DEF Scorable, NoWorseAnswer
  <1>2. /\ NoLess(i.sopSignal, i.sopSignal) /\ NoLess(i.outcomeSignal, i.outcomeSignal)
        /\ NoLess(i.reviewSignal, i.reviewSignal) /\ NoLess(i.repeatability, i.repeatability)
        /\ NoLess(i.frequency, i.frequency)
    BY DEF Scorable, NoLess
  <1>3. NoWorseGovernance(i.governance, i.governance)
    BY DEF NoWorseGovernance, NoWorseCompleteness, NoWorseRisk
  <1>4. SignalOr(i.redactionSignal, RedactionScore[i.governance.redaction]) \in Int
    <2>1. RedactionScore[i.governance.redaction] \in Int
      BY DEF Scorable, Governance, Completeness, RedactionScore
    <2>2. i.redactionSignal \in Numbers
      BY DEF Scorable
    <2>3. QED BY <2>1, <2>2 DEF SignalOr, Numbers, NotGiven
  <1>5. QED BY <1>1, <1>2, <1>3, <1>4 DEF NoWorseInputs

LEMMA InputsMonotone ==
  ASSUME NEW r \in Request, NEW s \in Request, NoWorseRequest(r, s),
         LearningInputsFor(r) # <<>>, LearningInputsFor(s) # <<>>
  PROVE NoWorseInputs(LearningInputsFor(r)[1], LearningInputsFor(s)[1])
  <1>1. s.learning = r.learning
    BY DEF NoWorseRequest
  <1>2. CASE r.learning # <<>> \/ r.profile = <<>>
    <2>1. s.learning # <<>> \/ s.profile = <<>>
      BY <1>1, <1>2 DEF NoWorseRequest
    <2>2. LearningInputsFor(s) = LearningInputsFor(r)
      BY <1>1, <1>2, <2>1 DEF LearningInputsFor
    <2>3. QED BY <2>2, InputsOfRequest, SameInputsAreNoWorse
  <1>3. CASE r.learning = <<>> /\ r.profile # <<>>
    <2>1. s.profile # <<>> /\ NoWorseProfile(r.profile[1], s.profile[1])
      BY <1>3 DEF NoWorseRequest
    <2>2. /\ LearningInputsFor(r) = <<LearningInputsOf(r.profile[1])>>
          /\ LearningInputsFor(s) = <<LearningInputsOf(s.profile[1])>>
      BY <1>1, <1>3, <2>1 DEF LearningInputsFor
    <2>3. r.profile \in Seq(Profiles) /\ s.profile \in Seq(Profiles)
      BY DEF Request
    <2>4. r.profile[1] \in Profiles /\ s.profile[1] \in Profiles
      BY <1>3, <2>1, <2>3
    <2>5. NoWorseInputs(LearningInputsOf(r.profile[1]), LearningInputsOf(s.profile[1]))
      BY <2>1, <2>4, ProfileInputsMonotone
    <2>6. QED BY <2>2, <2>5
  <1>4. QED BY <1>2, <1>3

\* What NoWorse says of a report and the next.
NoWorseReport(old, new) ==
  /\ new.overall >= old.overall
  /\ \A a \in ToSet(old.learning), b \in ToSet(new.learning) : NoWorseSuitability(a, b)
  /\ \A a \in ToSet(old.claims), b \in ToSet(new.claims) :
       b.score >= a.score /\ Position(b.status) >= Position(a.status)

LEMMA MemberOfPair == ASSUME NEW x, NEW y \in ToSet(<<x>>) PROVE y = x
  BY DEF ToSet

LEMMA NoMember == ASSUME NEW y \in ToSet(<<>>) PROVE FALSE
  BY DEF ToSet

LEMMA ReportMonotone ==
  ASSUME NEW r \in Request, NEW s \in Request, NoWorseRequest(r, s),
         NEW old, NEW new, Reports(old, r), Reports(new, s)
  PROVE NoWorseReport(old, new)
  <1>1. new.overall >= old.overall
    <2>1. PillarsFor(r) \in RatedPillars /\ PillarsFor(s) \in RatedPillars
      BY DEF Reports
    <2>2. old.overall = WorkflowScore(PillarsFor(r)) /\ new.overall = WorkflowScore(PillarsFor(s))
      BY DEF Reports, Shows
    <2>3. \A x \in Pillars : PillarsFor(r)[x] <= PillarsFor(s)[x]
      BY PillarsMonotone
    <2>4. WorkflowScore(PillarsFor(r)) <= WorkflowScore(PillarsFor(s))
      BY <2>1, <2>3, ScoreMonotone
    <2>5. /\ WorkflowScore(PillarsFor(r)) \in 0 .. 1000
          /\ WorkflowScore(PillarsFor(s)) \in 0 .. 1000
      BY <2>1, ScoreOfPillars
    <2>6. QED BY <2>2, <2>4, <2>5
  <1>2. ASSUME NEW a \in ToSet(old.learning), NEW b \in ToSet(new.learning)
        PROVE NoWorseSuitability(a, b)
    <2> DEFINE i == LearningInputsFor(r)
               j == LearningInputsFor(s)
    <2>1. /\ old.learning = IF i = <<>> THEN <<>> ELSE <<Suitability(i[1])>>
          /\ new.learning = IF j = <<>> THEN <<>> ELSE <<Suitability(j[1])>>
      BY Zenon DEF Reports
    <2> HIDE DEF i, j
    <2>2. i # <<>> /\ j # <<>>
      BY <1>2, <2>1, NoMember, Zenon
    <2>3. a = Suitability(i[1]) /\ b = Suitability(j[1])
      BY <1>2, <2>1, <2>2, MemberOfPair, Zenon
    <2>4. Scorable(i[1]) /\ Scorable(j[1])
      BY <2>2, InputsOfRequest DEF i, j
    <2>5. NoWorseInputs(i[1], j[1])
      BY <2>2, InputsMonotone DEF i, j
    <2>6. QED BY <2>3, <2>4, <2>5, SuitabilityMonotone
  <1>3. ASSUME NEW a \in ToSet(old.claims), NEW b \in ToSet(new.claims)
        PROVE b.score >= a.score /\ Position(b.status) >= Position(a.status)
    <2> DEFINE p == r.profile[1]
               q == s.profile[1]
    <2>1. /\ old.claims = IF r.profile = <<>> THEN <<>> ELSE ClaimsOf(p)
          /\ new.claims = IF s.profile = <<>> THEN <<>> ELSE ClaimsOf(q)
      BY Zenon DEF Reports
    <2>2. r.profile # <<>> /\ s.profile # <<>>
      BY <1>3, <2>1, NoMember, Zenon
    <2>3. p \in Profiles /\ q \in Profiles
      <3>1. r.profile \in Seq(Profiles) /\ s.profile \in Seq(Profiles)
        BY DEF Request
      <3>2. QED BY <2>2, <3>1
    <2>4. NoWorseProfile(p, q)
      BY <2>2 DEF NoWorseRequest
    <2> HIDE DEF p, q
    <2>5. a \in ToSet(ClaimsOf(p)) /\ b \in ToSet(ClaimsOf(q))
      BY <1>3, <2>1, <2>2, Zenon
    <2>6. p.claims # <<>> /\ q.claims # <<>>
      BY <2>5, NoMember, Zenon DEF ClaimsOf
    <2>7. a = ClaimsSuitability(p.claims[1]) /\ b = ClaimsSuitability(q.claims[1])
      BY <2>5, <2>6, MemberOfPair, Zenon DEF ClaimsOf
    <2>8. p.claims[1] \in ClaimsProfile /\ q.claims[1] \in ClaimsProfile
      <3>1. p.claims \in Seq(ClaimsProfile) /\ q.claims \in Seq(ClaimsProfile)
        BY <2>3 DEF Profiles
      <3>2. QED BY <2>6, <3>1
    <2>9. NoWorseClaims(p.claims[1], q.claims[1])
      BY <2>4, <2>6 DEF NoWorseProfile
    <2>10. QED BY <2>7, <2>8, <2>9, ClaimsMonotone
  <1>4. QED BY <1>1, <1>2, <1>3 DEF NoWorseReport

-----------------------------------------------------------------------------
(* The theorems *)

\* What is known in every state: the request is one, the answer is that to it,
\* and a summary is refused only of a report that is not summarisable.
AssessInv ==
  /\ request \in Request
  /\ refusal = Refusal(request)
  /\ report = IF Refusal(request) = "none" THEN <<Run(request)>> ELSE <<>>
  /\ summary \in {"unasked", "given", "refused"}
  /\ summary = "refused" => report # <<>> /\ ~Summarisable(report[1])

LEMMA AssessInvInitially == AssessInit => AssessInv
  BY RequestsAssumption DEF AssessInit, AssessInv

LEMMA AssessInvStep == AssessInv /\ [AssessNext]_assessVars => AssessInv'
  <1>1. ASSUME AssessInv, Improve
        PROVE AssessInv'
    <2>1. request' \in Request
      BY <1>1, BetterIsRequest DEF AssessInv, Improve
    <2>2. QED BY <1>1, <2>1 DEF AssessInv, Improve, Answer
  <1>2. ASSUME AssessInv, Summarise
        PROVE AssessInv'
    BY <1>2 DEF AssessInv, Summarise
  <1>3. ASSUME AssessInv, UNCHANGED assessVars
        PROVE AssessInv'
    BY <1>3 DEF AssessInv, assessVars
  <1>4. QED BY <1>1, <1>2, <1>3 DEF AssessNext

\* Every state is an answer to a request, and its report that of the request.
THEOREM AnswersAreAssessments == AssessSpec => []AssessInv
  BY AssessInvInitially, AssessInvStep, PTL DEF AssessSpec

LEMMA ReportIsAssessment ==
  ASSUME AssessInv, NEW rep \in ToSet(report)
  PROVE /\ Refusal(request) = "none" /\ report = <<rep>> /\ report[1] = rep
        /\ Reports(rep, request)
  <1>1. report = <<Run(request)>> /\ Refusal(request) = "none"
    BY DEF AssessInv, ToSet
  <1>2. rep = Run(request)
    BY <1>1 DEF ToSet
  <1>3. QED BY <1>1, <1>2, ReportOfRequest DEF AssessInv

\* There is a report just when nothing refused the request, and its overall
\* score is from 0 to 100 (run_workflow_assessment).
THEOREM AnswersAreWellTyped == AssessSpec => []AssessTypeOK
  <1>1. ASSUME AssessInv
        PROVE AssessTypeOK
    <2>1. (report = <<>>) = (refusal # "none")
      BY <1>1 DEF AssessInv
    <2>2. ASSUME NEW i \in DOMAIN report
          PROVE report[i].overall \in 0 .. 1000
      <3>1. report[i] \in ToSet(report)
        BY DEF ToSet
      <3>2. Reports(report[i], request)
        BY <1>1, <3>1, ReportIsAssessment
      <3>3. PICK pillars \in RatedPillars : report[i].overall = WorkflowScore(pillars)
        BY <3>2, PillarsOfReport
      <3>4. QED BY <3>3, ScoreOfPillars
    <2>3. QED BY <1>1, <2>1, <2>2 DEF AssessInv, AssessTypeOK
  <1>2. QED BY <1>1, AnswersAreAssessments, PTL

LEMMA RefOfReport ==
  ASSUME NEW rep, NEW r \in Request, Reports(rep, r), Refusal(r) = "none",
         NEW ref \in ToSet(rep.ref)
  PROVE /\ r.workflowRef # <<>> /\ ref.workflow = r.workflowRef[1]
        /\ ref.org = rep.org /\ ref.type = r.type
        /\ ref.type = "workflow_readiness" =>
             ref.score = rep.workflow[1].score /\ ref.grade = Grade(rep.workflow[1].score)
        /\ ref.type # "workflow_readiness" =>
             /\ rep.learning # <<>>
             /\ rep.learning[1].blocked => ref.status = "blocked"
  <1> DEFINE score == IF r.type = "operational_learning_suitability"
                      THEN IF rep.learning[1].blocked THEN AtMost(rep.learning[1].eval.score, 490)
                           ELSE rep.learning[1].eval.score
                      ELSE rep.workflow[1].score
             only == [type |-> r.type, score |-> score, grade |-> Grade(score),
                      status |-> StatusOfScore(score), org |-> rep.org,
                      workflow |-> r.workflowRef[1]]
  <1>1. rep.ref = IF r.workflowRef = <<>> THEN <<>> ELSE <<only>>
    BY DEF Reports, AssessmentRef
  <1>2. r.workflowRef # <<>> /\ ref = only
    <2> HIDE DEF only
    <2>1. QED BY <1>1 DEF ToSet
  <1>3. /\ ref.type = r.type /\ ref.score = score /\ ref.grade = Grade(score)
        /\ ref.status = StatusOfScore(score) /\ ref.org = rep.org
        /\ ref.workflow = r.workflowRef[1]
    <2> HIDE DEF score
    <2>1. QED BY <1>2
  <1>4. r.type \in {"workflow_readiness", "operational_learning_suitability"}
        /\ (r.endpoint = "report" => r.type = "workflow_readiness")
        /\ r.endpoint \in {"report", "ref"}
    BY DEF Request
  <1>5. CASE r.type = "workflow_readiness"
    BY <1>2, <1>3, <1>5
  <1>6. CASE r.type = "operational_learning_suitability"
    <2>1. RefRefusal(r) = "none"
      BY <1>4, <1>6 DEF Refusal
    <2>2. LearningInputsFor(r) # <<>>
      BY <1>6, <2>1 DEF RefRefusal, LearningInputsFor
    <2>3. rep.learning = <<Suitability(LearningInputsFor(r)[1])>>
      BY <2>2 DEF Reports
    <2>4. rep.learning[1].eval.score \in Nat
      BY <2>2, <2>3, InputsOfRequest, EvalScoreOfInputs
    <2>5. ASSUME rep.learning[1].blocked
          PROVE ref.status = "blocked"
      <3>1. score = AtMost(rep.learning[1].eval.score, 490)
        BY <1>6, <2>5
      <3> HIDE DEF score
      <3>2. score \in Nat /\ score <= 490
        BY <2>4, <3>1 DEF AtMost
      <3>3. StatusOfScore(score) = "blocked"
        BY <3>2 DEF StatusOfScore
      <3>4. QED BY <1>3, <3>3
    <2>6. QED BY <1>2, <1>3, <1>6, <2>3, <2>5
  <1>7. QED BY <1>4, <1>5, <1>6

\* A report shows one score: the overall score is that of the workflow, of its
\* rollup and of the reference that is published; and the reference of a
\* workflow whose learning is blocked says blocked (run_workflow_assessment,
\* build_assessment_ref).
THEOREM ReportsShowOneScore == AssessSpec => []OneScore
  <1>1. ASSUME AssessInv, NEW rep \in ToSet(report)
        PROVE LET w == rep.workflow[1]
              IN  /\ rep.overall = w.score /\ rep.grade = w.grade
                  /\ w.rollup = [average |-> w.score, lowest |-> w.score, highest |-> w.score,
                                 grade |-> w.grade]
                  /\ \A ref \in ToSet(rep.ref) :
                       IF ref.type = "workflow_readiness"
                       THEN ref.score = w.score /\ ref.grade = w.grade
                       ELSE /\ rep.learning # <<>>
                            /\ rep.learning[1].blocked => ref.status = "blocked"
    <2>1. Refusal(request) = "none" /\ Reports(rep, request) /\ request \in Request
      BY <1>1, ReportIsAssessment DEF AssessInv
    <2>2. PICK pillars \in RatedPillars :
            /\ rep.workflow = <<Readiness(request.context, pillars)>>
            /\ rep.overall = WorkflowScore(pillars)
            /\ rep.grade = Grade(WorkflowScore(pillars))
      BY <2>1, PillarsOfReport, Zenon
    <2>3. /\ rep.workflow[1].score = rep.overall /\ rep.workflow[1].grade = rep.grade
          /\ rep.workflow[1].rollup = [average |-> rep.overall, lowest |-> rep.overall,
                                       highest |-> rep.overall, grade |-> rep.grade]
      BY <2>2 DEF Readiness, Rollup
    <2>4. rep.grade = Grade(rep.overall)
      BY <2>2
    <2>5. QED BY <2>1, <2>3, <2>4, RefOfReport
  <1>2. AssessInv => OneScore
    BY <1>1 DEF OneScore
  <1>3. QED BY <1>2, AnswersAreAssessments, PTL

LEMMA RefIsListed ==
  ASSUME NEW rep, NEW r, Reports(rep, r), rep.ref # <<>>
  PROVE rep.ref[1] \in ToSet(rep.ref)
  <1>1. \A x : 1 \in DOMAIN <<x>>
    OBVIOUS
  <1>2. rep.ref = AssessmentRef(rep, r)
    BY Zenon DEF Reports
  <1>3. \E x : rep.ref = <<x>>
    <2>1. CASE r.workflowRef = <<>>
      BY <1>2, <2>1, Zenon DEF AssessmentRef
    <2>2. CASE r.workflowRef # <<>>
      BY <1>2, <2>2 DEF AssessmentRef
    <2>3. QED BY <2>1, <2>2
  <1>4. QED BY <1>1, <1>3 DEF ToSet

LEMMA AlignedReports ==
  ASSUME NEW r \in Request, NEW rep, Reports(rep, r), Refusal(r) = "none",
         r.type = "workflow_readiness" \/ rep.ref = <<>>
  PROVE Aligned(rep)
  <1>1. ~TenantMismatch(r) /\ ~WorkflowMismatch(r)
    BY DEF Refusal, AlignmentRefusal
  <1>2. ASSUME NEW ref \in ToSet(rep.workflowRef)
        PROVE ref.workflow = "w" /\ ref.org = rep.org
    <2>1. ref \in References(r)
      BY <1>2 DEF Reports, References
    <2>2. QED BY <1>1, <2>1 DEF TenantMismatch, WorkflowMismatch, Reports
  <1>3. ASSUME rep.ref # <<>>
        PROVE /\ rep.workflowRef # <<>>
              /\ rep.ref[1].type = "workflow_readiness"
              /\ rep.ref[1].org = rep.org
              /\ rep.ref[1].workflow = rep.workflowRef[1]
              /\ rep.ref[1].score = rep.workflow[1].score
              /\ rep.ref[1].grade = rep.workflow[1].grade
    <2>1. rep.ref[1] \in ToSet(rep.ref)
      BY <1>3, RefIsListed
    <2>2. rep.workflow[1].grade = Grade(rep.workflow[1].score)
      <3>1. PICK pillars \in RatedPillars : rep.workflow = <<Readiness(r.context, pillars)>>
        BY PillarsOfReport
      <3>2. rep.workflow[1] = Readiness(r.context, pillars)
        BY <3>1
      <3>3. QED BY <3>2 DEF Readiness
    <2>3. rep.workflowRef = r.workflowRef /\ r.type = "workflow_readiness"
      BY <1>3 DEF Reports
    <2>4. QED BY <2>1, <2>2, <2>3, RefOfReport
  <1>4. QED BY <1>2, <1>3 DEF Aligned

ScoredPillars(pillars) ==
  DOMAIN pillars = Pillars /\ \A p \in Pillars : pillars[p] \in 0 .. 1000

LEMMA UnsummarisedReport ==
  ASSUME NEW rep, ~Summarisable(rep), Aligned(rep), rep.workflow # <<>>,
         ScoredPillars(rep.workflow[1].pillars), rep.workflow[1].score \in 0 .. 1000
  PROVE ~(rep.workflow[1].context.id /\ rep.workflow[1].context.name)
  BY Zenon DEF Summarisable, ScoredPillars

\* The summary of a stored report is refused only if its reference is about
\* learning, or a name is blank (build_operator_summary).
THEOREM SummariesAreGiven == AssessSpec => []WorkflowSummarised
  <1>1. ASSUME AssessInv, summary = "refused"
        PROVE \/ \E ref \in ToSet(report[1].ref) : ref.type = "operational_learning_suitability"
              \/ ~request.context.id \/ ~request.context.name
    <2>1. report # <<>> /\ ~Summarisable(report[1])
      BY <1>1 DEF AssessInv
    <2>2. report[1] \in ToSet(report)
      BY <1>1, <2>1 DEF AssessInv, ToSet
    <2>3. /\ Refusal(request) = "none" /\ Reports(report[1], request) /\ request \in Request
      BY <1>1, <2>2, ReportIsAssessment DEF AssessInv
    <2>4. PICK pillars \in RatedPillars :
            report[1].workflow = <<Readiness(request.context, pillars)>>
      BY <2>3, PillarsOfReport
    <2>5. /\ report[1].workflow # <<>>
          /\ report[1].workflow[1].context = request.context
          /\ report[1].workflow[1].pillars = pillars
          /\ report[1].workflow[1].score \in 0 .. 1000
      <3>1. report[1].workflow # <<>> /\ report[1].workflow[1] = Readiness(request.context, pillars)
        BY <2>4
      <3>2. /\ Readiness(request.context, pillars).context = request.context
            /\ Readiness(request.context, pillars).pillars = pillars
            /\ Readiness(request.context, pillars).score = WorkflowScore(pillars)
        BY DEF Readiness
      <3>3. WorkflowScore(pillars) \in 0 .. 1000
        BY ScoreOfPillars
      <3>4. report[1].workflow[1].score \in 0 .. 1000
        BY <3>1, <3>2, <3>3
      <3>5. QED BY <3>1, <3>2, <3>4, Zenon
    <2>6. CASE Aligned(report[1])
      <3>1. ScoredPillars(pillars)
        BY DEF ScoredPillars, RatedPillars
      <3>2. ScoredPillars(report[1].workflow[1].pillars)
        BY <2>5, <3>1
      <3>3. ~Summarisable(report[1])
        BY <2>1
      <3> DEFINE c == report[1].workflow[1].context
      <3>4. ~(c.id /\ c.name)
        BY <2>5, <2>6, <3>2, <3>3, UnsummarisedReport
      <3>5. c = request.context
        BY <2>5
      <3> HIDE DEF c
      <3>6. QED BY <3>4, <3>5, Zenon
    <2>7. CASE ~Aligned(report[1])
      <3> DEFINE ref == report[1].ref[1]
      <3>1. request.type # "workflow_readiness" /\ report[1].ref # <<>>
        BY <2>3, <2>7, AlignedReports
      <3>2. request.type = "operational_learning_suitability"
        BY <2>3, <3>1 DEF Request
      <3>3. ref \in ToSet(report[1].ref)
        BY <2>3, <3>1, RefIsListed
      <3> HIDE DEF ref
      <3>4. ref.type = "operational_learning_suitability"
        BY <2>3, <3>2, <3>3, RefOfReport
      <3>5. QED BY <3>3, <3>4, Zenon
    <2>8. QED BY <2>6, <2>7
  <1>2. AssessInv => WorkflowSummarised
    BY <1>1 DEF WorkflowSummarised
  <1>3. QED BY <1>2, AnswersAreAssessments, PTL

\* No step to a request that says something better -- "yes" for "no", or one
\* number, completeness or review a step up -- makes the report worse: neither
\* the score of the workflow, nor the scores and the statuses of operational
\* learning and of the claims go down, but for the weak candidate for training
\* that is suitable for evaluation (run_workflow_assessment and all that it
\* rates with: assess_workflow_evidence, the inputs and the suitability of
\* operational learning, and the claims of document operations).
THEOREM ImprovementsNeverHurt == AssessSpec => ImprovingNeverHurts
  <1>1. ASSUME AssessInv, AssessInv', NoWorseRequest(request, request')
        PROVE NoWorse
    <2>1. ASSUME NEW old \in ToSet(report), NEW new \in ToSet(report')
          PROVE NoWorseReport(old, new)
      <3>1. Reports(old, request) /\ request \in Request
        BY <1>1, <2>1, ReportIsAssessment DEF AssessInv
      <3>2. Reports(new, request') /\ request' \in Request
        <4>1. report' = <<Run(request')>> /\ request' \in Request
          BY <1>1, <2>1, NoMember DEF AssessInv
        <4>2. new = Run(request')
          BY <2>1, <4>1, MemberOfPair
        <4>3. QED BY <4>1, <4>2, ReportOfRequest
      <3>3. QED BY <1>1, <3>1, <3>2, ReportMonotone
    <2>2. QED BY <2>1, Zenon DEF NoWorse, NoWorseReport, NoWorseSuitability
  <1>2. ASSUME AssessInv, [AssessNext]_assessVars
        PROVE NoWorseRequest(request, request')
    <2>1. request \in Request
      BY <1>2 DEF AssessInv
    <2>2. CASE Improve
      <3>1. request' \in Better(request)
        BY <2>2 DEF Improve
      <3>2. QED BY <2>1, <3>1, BetterRequestIsNoWorse
    <2>3. CASE Summarise \/ UNCHANGED assessVars
      <3>1. request' = request
        BY <2>3 DEF Summarise, assessVars
      <3>2. QED BY <2>1, <3>1, SameRequestIsNoWorse
    <2>4. QED BY <1>2, <2>2, <2>3 DEF AssessNext
  <1>3. AssessInv /\ [AssessNext]_assessVars => NoWorse
    BY <1>1, <1>2, AssessInvStep
  <1>4. QED
    BY <1>3, AnswersAreAssessments, PTL DEF AssessSpec, ImprovingNeverHurts
=============================================================================

----------------------------- MODULE MCScoring -----------------------------
(***************************************************************************)
(* The organisations and the requests that the model checker starts from:  *)
(* small families, each of which varies what one part of the scoring looks *)
(* at and leaves the rest at a value that cannot be better.                *)
(***************************************************************************)
EXTENDS Integers, Sequences

-----------------------------------------------------------------------------
(* Organisations *)

System(id, critical, load) ==
  [id |-> id, critical |-> critical, load |-> load, estimate |-> 100, needs |-> <<>>]

Hiring ==
  [percent |-> 20, confidence |-> 0, relative |-> TRUE, headcount |-> TRUE,
   areas |-> {"operations", "people"}]

Context(documented) ==
  [id |-> TRUE, name |-> TRUE, owner |-> TRUE, role |-> TRUE, escalation |-> documented,
   fallback |-> documented, override |-> TRUE, tolerance |-> documented, reversible |-> documented,
   systems |-> {"x"}, controls |-> IF documented THEN 2 ELSE 1,
   blast |-> IF documented THEN "medium" ELSE "high"]

\* Something falls so far that the penalties of the area add to its score.
Collapse ==
  [percent |-> -300, confidence |-> 0, relative |-> FALSE, headcount |-> FALSE,
   areas |-> {"operations"}]

\* Three systems, a vendor and a facility.
Trios ==
  {[names |-> 1, signals |-> signals, context |-> <<Context(FALSE)>>,
    systems |-> <<System("x", x, 50), System("y", TRUE, load), System("z", FALSE, -1)>>,
    vendors |-> <<[id |-> "v", critical |-> TRUE, alternatives |-> x]>>,
    facilities |-> <<[id |-> "f", load |-> 90, estimate |-> 40]>>] :
     x \in BOOLEAN, load \in {50, 80, 97}, signals \in {<<>>, <<Hiring>>, <<Collapse>>}}

\* Six systems, the first of which everything may come to depend on.
Hubs ==
  {[names |-> 1, signals |-> <<>>, context |-> <<>>, vendors |-> <<>>, facilities |-> <<>>,
    systems |-> <<System("a", critical, load), System("b", FALSE, 50), System("c", FALSE, 50),
                  System("d", FALSE, 50), System("e", critical, 50), System("g", FALSE, 85)>>] :
     critical \in BOOLEAN, load \in {50, 97}}

Unusable == {[h EXCEPT !.names = n] : h \in Hubs, n \in {0, 2}}

MCPairs == ({"x", "y", "z"} \X {"y", "v"}) \cup {<<"x", "f">>, <<"y", "x">>, <<"z", "x">>}
           \cup ({"a", "b", "c", "d", "e", "g"} \X {"a"})

-----------------------------------------------------------------------------
(* Requests *)

NoGovernance ==
  [basis |-> "none", rights |-> "none", provenance |-> "none", redaction |-> "none", risk |-> "none"]
FullGovernance ==
  [basis |-> "owner", rights |-> "complete", provenance |-> "complete", redaction |-> "complete",
   risk |-> "low"]

\* The values of the numbers on either side of where the code distinguishes them.
MCLadders ==
  [volume |-> <<0, 1, 5, 20, 50>>, reviewed |-> <<0, 1, 3, 10, 25>>, sources |-> <<0, 1>>,
   coverage |-> <<0, 500, 750, 900>>, age |-> <<181, 180, 90, 30>>]

EveryAnswer(answer) ==
  [q \in {"closed", "escalated", "signoff", "redaction", "sop", "outcome", "rules", "evidence",
          "owner", "systems", "sla"} |-> answer]

Profile(answers, governance, claims) ==
  [answers |-> answers, volume |-> 50, reviewed |-> 25, sources |-> -1, coverage |-> -1,
   age |-> 30, governance |-> governance, claims |-> claims]

Plain ==
  [endpoint |-> "report", org |-> "us", context |-> Context(TRUE), workflowRef |-> <<>>,
   controlRefs |-> <<>>, baseline |-> -1, evidence |-> <<>>, learning |-> <<>>, profile |-> <<>>,
   type |-> "workflow_readiness", texts |-> TRUE]

With(profile) == [Plain EXCEPT !.profile = <<profile>>]

\* What the answers do, where some are unknown.
Answering(answers) ==
  With(Profile([q \in DOMAIN EveryAnswer("yes") |-> IF q \in DOMAIN answers THEN answers[q] ELSE "yes"],
               FullGovernance, <<>>))

Asked ==
  {Answering(varied) :
     varied \in [{"closed", "escalated", "signoff", "sop", "outcome", "rules", "evidence"}
                   -> {"no", "unknown"}]}
  \cup {Answering([q \in {"owner", "systems", "sla", "redaction", "sop"} |-> "no"])}

\* What the numbers do.
Counted ==
  {With([Profile(EveryAnswer(answer), FullGovernance, <<>>) EXCEPT
           !.volume = 0, !.reviewed = 0, !.sources = s, !.coverage = c, !.age = 181]) :
     answer \in {"unknown", "yes"}, s \in {-1, 0}, c \in {-1, 0}}

\* What governance does.
Governed ==
  {With(Profile(EveryAnswer(answer), [basis |-> "operator", rights |-> "missing", provenance |-> "missing",
                              redaction |-> "missing", risk |-> "critical"], <<>>)) :
     answer \in {"unknown", "yes"}}
  \cup {With(Profile(EveryAnswer("yes"), NoGovernance, <<>>))}

\* What the reviews of the claims do.
Claimed ==
  {With(Profile(EveryAnswer("yes"), FullGovernance,
                <<[states |-> [source |-> "review_required", phi |-> "missing",
                               redaction |-> "missing", governance |-> "review_required",
                               approval |-> "review_required", rate |-> "review_required",
                               downstream |-> "missing", savings |-> "review_required"],
                   lacking |-> 3, core |-> 1]>>))}

\* What evidence that is given does.
Evidenced ==
  {[Plain EXCEPT !.context = Context(documented), !.baseline = baseline, !.evidence =
      <<[controls |-> [approval_gate |-> "operating", decision_logging |-> "unknown",
                       evidence_retention |-> "missing", exception_handling |-> "documented",
                       periodic_review |-> "verified"],
         posture |-> <<>>, owner |-> "no", systems |-> "no", escalation |-> "unknown",
         fallback |-> "no", override |-> "no", rollback |-> "no", approvals |-> 0, logs |-> 0]>>] :
     documented \in BOOLEAN, baseline \in {-1, 0, 1000}}

Of(org, env) == [org |-> org, workflow |-> "w", env |-> env]

Control(owner, canonical) ==
  [org |-> owner.org, workflow |-> owner.workflow, env |-> owner.env, area |-> "approval_gate",
   canonical |-> canonical, owner |-> owner, implementation |-> "planned", linkage |-> "missing"]

\* What references to controls do.
Controlled ==
  {[Plain EXCEPT !.controlRefs = <<Control(Of("us", "prod"), TRUE), other>>] :
     other \in {Control(Of("us", "prod"), FALSE),
                [Control(Of("us", "prod"), TRUE) EXCEPT !.area = "decision_logging"]}}

\* Which requests are refused, and which reports are summarised.
Wanted ==
  [outcome |-> "yes", sop |-> "yes", review |-> "yes", sopSignal |-> 700, outcomeSignal |-> -1,
   repeatability |-> -1, reviewSignal |-> -1, redactionSignal |-> -1, frequency |-> 50,
   governance |-> FullGovernance]

Addressed ==
  {[Plain EXCEPT !.endpoint = endpoint, !.org = org, !.workflowRef = workflowRef,
                 !.controlRefs = controlRefs, !.learning = learning, !.type = type,
                 !.texts = texts, !.context.id = id] :
     endpoint \in {"report", "ref"}, org \in {"us", "them"},
     workflowRef \in {<<>>, <<Of("us", "prod")>>, <<Of("them", "prod")>>,
                      <<[Of("us", "prod") EXCEPT !.workflow = "other"]>>},
     controlRefs \in {<<>>, <<[Control(Of("us", "test"), TRUE) EXCEPT !.implementation = "waived",
                                                                     !.linkage = "not_applicable"]>>,
                      <<[Control(Of("us", "prod"), FALSE) EXCEPT !.implementation = "waived",
                                                                 !.linkage = "not_applicable"]>>},
     learning \in {<<>>, <<Wanted>>, <<[Wanted EXCEPT !.governance = NoGovernance]>>},
     type \in {"workflow_readiness", "operational_learning_suitability"},
     texts \in BOOLEAN, id \in BOOLEAN}

MCRequests ==
  {r \in Addressed : r.endpoint = "report" => r.type = "workflow_readiness"}
  \cup Asked \cup Counted \cup Governed \cup Claimed \cup Evidenced \cup Controlled
=============================================================================

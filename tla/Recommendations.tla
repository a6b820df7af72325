--------------------------- MODULE Recommendations ---------------------------
(***************************************************************************)
(* The recommender (scoring/recommender.py): what is recommended for the   *)
(* constraints and the risks of an organisation, and in which order.       *)
(* The order is by impact over effort times urgency; priorities are in     *)
(* 32nds, effort and impact are left out but for that ratio, and so are    *)
(* the patterns that nothing a CSV file says can match.                    *)
(***************************************************************************)
EXTENDS Integers, Sequences, SequencesExt

\* What fits a constraint of one of the kinds, loaded up to the floor, or a
\* risk of one of the categories; ratio is impact over effort in eighths.
Pattern(type, kinds, floor, categories, ratio) ==
  [type |-> type, kinds |-> kinds, floor |-> floor, categories |-> categories, ratio |-> ratio]

Patterns == <<
  Pattern("expand_capacity", {"system"}, 0, {}, 12),
  Pattern("replace_system", {"system"}, 95, {}, 8),
  Pattern("secure_space", {"facility"}, 0, {}, 8),
  Pattern("enable_remote", {"facility"}, 0, {}, 16),
  Pattern("add_redundancy", {}, 0, {"concentration_risk", "cascade_risk"}, 8),
  Pattern("create_contingency", {}, 0, {"vendor_dependency"}, 16) >>

PerSubject == 2
Most == 15

FirstOf(n, list) == SubSeq(list, 1, IF Len(list) < n THEN Len(list) ELSE n)

\* In quarters.
UrgencyOfConstraint(c) == IF c.chance >= 16 THEN 6 ELSE 4
UrgencyOfRisk(r) == CASE r.level = "critical" -> 6 [] r.level = "high" -> 5 [] OTHER -> 4

Recommend(fitting, target, urgency) ==
  LET first == FirstOf(PerSubject, fitting)
  IN  [i \in DOMAIN first |->
         [type |-> first[i].type, target |-> target, priority |-> first[i].ratio * urgency]]

ForConstraint(c) ==
  Recommend(SelectSeq(Patterns, LAMBDA p : c.kind \in p.kinds /\ c.load >= p.floor),
            c.id, UrgencyOfConstraint(c))

ForRisk(r) ==
  Recommend(SelectSeq(Patterns, LAMBDA p : r.category \in p.categories),
            r.target, UrgencyOfRisk(r))

\* The first of a type and a target stays, whatever the priority of the others.
Distinct(list) ==
  FoldLeft(LAMBDA kept, r :
             IF \E k \in ToSet(kept) : k.type = r.type /\ k.target = r.target THEN kept
             ELSE Append(kept, r),
           <<>>, list)

\* Highest first; equals keep their order.
Prioritised(list) ==
  FoldLeft(LAMBDA sorted, r :
             SelectSeq(sorted, LAMBDA s : s.priority >= r.priority) \o <<r>>
             \o SelectSeq(sorted, LAMBDA s : s.priority < r.priority),
           <<>>, list)

Recommendations(constraints, risks) ==
  LET all == FlattenSeq([i \in DOMAIN constraints |-> ForConstraint(constraints[i])])
             \o FlattenSeq([i \in DOMAIN risks |-> ForRisk(risks[i])])
  IN  FirstOf(Most, Prioritised(Distinct(all)))

\* The three first of priority 1.5 or more.
ImmediateActions(list) == FirstOf(3, SelectSeq(list, LAMBDA r : r.priority >= 48))
=============================================================================

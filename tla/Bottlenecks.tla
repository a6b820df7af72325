---------------------------- MODULE Bottlenecks ----------------------------
(***************************************************************************)
(* The bottleneck detector (scoring/bottleneck_detector.py) on the rows    *)
(* that the CSV connector (connectors/csv_connector.py) reads.             *)
(*                                                                         *)
(* Utilisations are whole percentages.  A CSV file gives a system no       *)
(* vendor and a vendor no contract end, so the detector's code for those   *)
(* has nothing to work on here.                                            *)
(***************************************************************************)
EXTENDS Integers, Sequences, FiniteSets, SequencesExt

NotMeasured == -1  \* no capacity is given, or a maximum of nought
NoDate == -1

(* An organisation is a record of four sequences:                          *)
(*   systems    [id, critical, load, estimate, needs]                      *)
(*   vendors    [id, critical, alternatives]                               *)
(*   facilities [id, load, estimate]                                       *)
(*   signals    [percent, confidence, relative, headcount, areas]          *)
(* where estimate is what the logarithms make of the days that are left.   *)

\* A confidence that is missing, or nought, is taken to be 80 percent.
Confidence(given) == IF given \in {NotMeasured, 0} THEN 80 ELSE given

Sum(values) == FoldSeq(+, 0, values)

GrowthOfSystems(signals) ==
  Sum([i \in DOMAIN signals |->
         IF signals[i].relative THEN signals[i].percent * Confidence(signals[i].confidence) ELSE 0])
    \div 100

GrowthOfHeadcount(signals) ==
  Sum([i \in DOMAIN signals |->
         IF signals[i].relative /\ signals[i].headcount THEN signals[i].percent ELSE 0])

-----------------------------------------------------------------------------
(* Capacity *)

Projected(load, growth) == LET p == (load * (100 + growth)) \div 100 IN IF p > 150 THEN 150 ELSE p

Worst(load, growth) == IF Projected(load, growth) > load THEN Projected(load, growth) ELSE load

Constrained(load, growth) == load # NotMeasured /\ Worst(load, growth) >= 80

\* In twentieths.
BreachProbability(load, growth) ==
  IF Worst(load, growth) >= 100 THEN 20 ELSE Worst(load, growth) - 80

\* No date for a breach within a day, nor for one that is three years off.
BreachDay(load, growth, estimate) ==
  CASE growth <= 0 -> NoDate
    [] growth > 0 /\ load >= 100 -> 0
    [] growth > 0 /\ load < 100 /\ estimate > 0 /\ estimate < 3 * 365 -> estimate
    [] OTHER -> NoDate

ConstraintsOn(rows, kind, growth) ==
  LET full == SelectSeq(rows, LAMBDA r : Constrained(r.load, growth))
  IN  [i \in DOMAIN full |->
         [id |-> full[i].id, kind |-> kind, load |-> full[i].load,
          chance |-> BreachProbability(full[i].load, growth),
          day |-> BreachDay(full[i].load, growth, full[i].estimate)]]

Constraints(org) ==
  ConstraintsOn(org.systems, "system", GrowthOfSystems(org.signals))
  \o ConstraintsOn(org.facilities, "facility", GrowthOfHeadcount(org.signals))

-----------------------------------------------------------------------------
(* Dependencies *)

\* The systems in their order, then the vendors.
Nodes(org) ==
  [i \in DOMAIN org.systems |->
     [id |-> org.systems[i].id, critical |-> org.systems[i].critical, needs |-> org.systems[i].needs]]
  \o [i \in DOMAIN org.vendors |->
     [id |-> org.vendors[i].id, critical |-> org.vendors[i].critical, needs |-> <<>>]]

\* Who depends on id, once for every time it says so.
Dependents(nodes, id) ==
  UNION {{<<nodes[i].id, k>> : k \in {k \in DOMAIN nodes[i].needs : nodes[i].needs[k] = id}} :
           i \in DOMAIN nodes}

\* weight is probability * impact * severity in 400ths of a point.
Risk(category, target, others, level, weight) ==
  [category |-> category, target |-> target, affected |-> others \cup {target}, level |-> level,
   weight |-> weight]

\* Mutant: all dependencies must be constrained.
CascadesIfAll(nodes, held) ==
  LET exposed == SelectSeq(nodes, LAMBDA n :
                   n.id \notin held /\ n.needs # <<>> /\ ToSet(n.needs) \subseteq held)
  IN  [i \in DOMAIN exposed |->
         Risk("cascade_risk", exposed[i].id, ToSet(exposed[i].needs) \cap held,
              IF exposed[i].critical THEN "high" ELSE "medium",
              IF exposed[i].critical THEN 336 ELSE 140)]

Cascades(nodes, held) ==
  LET exposed == SelectSeq(nodes, LAMBDA n :
                   n.id \notin held /\ ToSet(n.needs) \cap held # {})
  IN  [i \in DOMAIN exposed |->
         Risk("cascade_risk", exposed[i].id, ToSet(exposed[i].needs) \cap held,
              IF exposed[i].critical THEN "high" ELSE "medium",
              IF exposed[i].critical THEN 336 ELSE 140)]

ConcentrationLevel(critical, size) ==
  CASE critical /\ size >= 5 -> "critical"
    [] critical # (size >= 5) -> "high"
    [] OTHER -> "medium"

Severity == [medium |-> 2, high |-> 3, critical |-> 5]  \* in halves

\* Probability 0.3, impact 0.3 and a tenth for every dependent, 1 at most.
Concentrations(nodes) ==
  LET size(n) == Cardinality(Dependents(nodes, n.id))
      crowded == SelectSeq(nodes, LAMBDA n : size(n) >= 3)
  IN  [i \in DOMAIN crowded |->
         LET n == crowded[i]
             level == ConcentrationLevel(n.critical, size(n))
             impact == IF size(n) >= 7 THEN 10 ELSE 3 + size(n)
         IN  Risk("concentration_risk", n.id, {d[1] : d \in Dependents(nodes, n.id)}, level,
                  6 * impact * Severity[level])]

VendorRisks(vendors) ==
  LET alone == SelectSeq(vendors, LAMBDA v : v.critical /\ ~v.alternatives)
  IN  [i \in DOMAIN alone |-> Risk("vendor_dependency", alone[i].id, {}, "medium", 112)]

\* The ids of the constrained entities need not be nodes: facilities count.
Risks(org) ==
  Cascades(Nodes(org), {c.id : c \in ToSet(Constraints(org))})
  \o Concentrations(Nodes(org))
  \o VendorRisks(org.vendors)
=============================================================================

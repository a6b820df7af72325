---------------------------- MODULE MCTopRisks ----------------------------
(***************************************************************************)
(* One organisation whose systems come to depend on a system that is full: *)
(* which of its risks does the report show?                                *)
(***************************************************************************)
EXTENDS OrgAssessment

System(id, load) ==
  [id |-> id, critical |-> FALSE, load |-> load, estimate |-> 100, needs |-> <<>>]

MCOrgs ==
  {[names |-> 1, context |-> <<>>, signals |-> <<>>, vendors |-> <<>>, facilities |-> <<>>,
    systems |-> <<System("hub", load), System("s1", 50), System("s2", 50), System("s3", 50),
                  System("s4", 50), System("s5", 50), System("s6", 50)>>] : load \in {50, 97}}

MCPairs == {"s1", "s2", "s3", "s4", "s5", "s6"} \X {"hub"}
=============================================================================

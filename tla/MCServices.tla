----------------------------- MODULE MCServices -----------------------------
(***************************************************************************)
(* The services around the assessments, and the assessments of             *)
(* organisations and workflows themselves: they share no state, and each   *)
(* has behaviours of its own: part says which.  The variables of the other *)
(* parts keep their initial values.                                        *)
(***************************************************************************)
EXTENDS Integers, Sequences, FiniteSets, TLC, MCScoring,
        RefreshTokens, Accounts, JwksCache, OutboundSync, EntitySync, Assessments

VARIABLES part, org, orgReport

\* Processes are interchangeable, and so are entities of one group and signing keys.
Symmetry == Permutations(Servers) \cup Permutations(Ids) \cup Permutations(Kids)

OneGroup == [i \in Ids |-> "teams"]

OrgAssessment == INSTANCE OrgAssessment WITH
  Orgs <- Trios \cup Hubs \cup Unusable, Pairs <- MCPairs, MaxNeeds <- 5, report <- orgReport

orgVars == <<org, orgReport>>
scoreVars == <<orgVars, assessVars>>

Init ==
  /\ part \in {"tokens", "accounts", "jwks", "sync", "outbound", "organization", "workflow"}
  /\ TokensInit /\ AccountsInit /\ OutInit
  /\ JwksInit /\ (part # "jwks" => published = {})
  /\ SyncInit /\ (part # "sync" => perType = 1)
  /\ IF part = "organization" THEN OrgAssessment!OrgInit ELSE org = <<>> /\ orgReport = <<>>
  /\ IF part = "workflow" THEN AssessInit
     ELSE request = <<>> /\ report = <<>> /\ refusal = "none" /\ summary = "unasked"

TokensStep ==
  /\ part = "tokens" /\ TokensNext
  /\ UNCHANGED <<part, accountVars, jwksVars, syncVars, outVars, scoreVars>>

AccountsStep ==
  /\ part = "accounts" /\ AccountsNext
  /\ UNCHANGED <<part, tokenVars, jwksVars, syncVars, outVars, scoreVars>>

JwksStep ==
  /\ part = "jwks" /\ JwksNext
  /\ UNCHANGED <<part, tokenVars, accountVars, syncVars, outVars, scoreVars>>

SyncStep ==
  /\ part = "sync" /\ SyncNext
  /\ UNCHANGED <<part, tokenVars, accountVars, jwksVars, outVars, scoreVars>>

OutboundStep ==
  /\ part = "outbound" /\ OutNext
  /\ UNCHANGED <<part, tokenVars, accountVars, jwksVars, syncVars, scoreVars>>

serviceVars == <<tokenVars, accountVars, jwksVars, syncVars, outVars>>

OrganizationStep ==
  /\ part = "organization" /\ OrgAssessment!OrgNext
  /\ UNCHANGED <<part, serviceVars, assessVars>>

WorkflowStep ==
  /\ part = "workflow" /\ AssessNext
  /\ UNCHANGED <<part, serviceVars, orgVars>>

Next ==
  \/ TokensStep \/ AccountsStep \/ JwksStep \/ SyncStep \/ OutboundStep
  \/ OrganizationStep \/ WorkflowStep

vars == <<part, serviceVars, scoreVars>>

Spec == Init /\ [][Next]_vars

(* ServicesTypeOK: the variables of each part are of their kinds.            *)
ServicesTypeOK ==
  /\ part = "tokens" => TokensTypeOK
  /\ part = "accounts" => AccountsTypeOK
  /\ part = "jwks" => JwksTypeOK
  /\ part = "sync" => SyncTypeOK
  /\ part = "outbound" => OutTypeOK
  /\ part = "organization" => OrgAssessment!OrgTypeOK
  /\ part = "workflow" => AssessTypeOK

(* DependenciesNeverHelp: one more dependency makes no assessment of an      *)
(* organisation better, where its penalties are penalties.                   *)
DependenciesNeverHelp == [][OrgAssessment!NoBetter]_orgVars
=============================================================================

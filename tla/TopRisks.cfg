SPECIFICATION OrgSpec
CONSTANTS
  Orgs <- MCOrgs
  Pairs <- MCPairs
  MaxNeeds = 6
INVARIANT GravestRisksOnTop
CHECK_DEADLOCK FALSE

SPECIFICATION FairSpec
CONSTANTS
  Routes = {r1}
  Providers <- MCProviders
  Offered <- MCOffered
  Operations <- MCOperations
  Policies <- MCPolicies
  TimeoutMs = 12000
INVARIANTS
  TypeOK
  HumanModeIsHuman
  StaleDispatchAtMostOnce
  AttemptLog
PROPERTIES
  ImplementsFallback
  RouteSettles

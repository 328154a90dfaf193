SPECIFICATION Spec
CONSTANTS
  MaxTokens = 4
  Documents <- TraceDocuments
  Specs <- MCSpecs
  Workspaces <- MCWorkspaces
  OwnNames <- MCOwnNames
  Commits <- MCCommits
  Flaws <- MCFlaws
  FirstMain <- MCFirstMain
  Builds <- MCBuilds
  Versions = {"1", "2"}
  Environments <- MCEnvironments
  MaxRuns = 2
  ScopeKey <- MCScopeKey
  Spelled <- MCSpelled
  Lockfiles <- SbomDocuments
  Stores <- SbomStores
  Damages <- SbomDamages
  Published <- MCPublished
  Flat <- MCFlat
INVARIANTS
  TraceExact
  GeneratedValidates
  OnlyCyclesAreLost
  GapsAreReported
  PublishedIsClean
  LicenseGrammarExact
CHECK_DEADLOCK FALSE

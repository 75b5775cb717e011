SPECIFICATION Spec
CONSTANTS
  Tracked = 3
  Paths <- SevenPaths
  Clean <- CleanPath
  Dotted <- WithDots
  Protected <- PathOfGit
  Nested <- PathInDir
  DefaultMaxFiles = 3
  MaxSourceFileBytes = 3
  MaxSourceTotalByte = 6
  MaxOpsPerAttempt = 2
  MaxOpSizeBytes = 2
  MaxRevisions = 1
  Environments <- ManyEnvironments
  Repositories <- FewRepositories
  Proposals <- FewProposals
CHECK_DEADLOCK FALSE
INVARIANTS
  TreeIsAnswered
  RevisionSeesWhatFits
  CostIsKnown

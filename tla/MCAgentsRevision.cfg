SPECIFICATION Spec
CONSTANTS
  Tracked = 3
  Paths <- SevenPaths
  Clean <- CleanPath
  Dotted <- WithDots
  Protected <- PathOfGit
  Nested <- PathInDir
  DefaultMaxFiles = 3
  MaxSourceFileBytes = 3
  MaxSourceTotalByte = 9
  MaxOpsPerAttempt = 2
  MaxOpSizeBytes = 2
  MaxRevisions = 1
  Environments <- OneEnvironment
  Repositories <- OneRepository
  Proposals <- OneProposal
CHECK_DEADLOCK FALSE
INVARIANT RevisionSeesItsWork

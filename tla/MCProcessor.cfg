SPECIFICATION FairSpec
CONSTANTS
  N = 2
  MaxRevisions = 1
  Setups <- MainSetups
  NoPatch = NoPatch
  Torn = Torn
INVARIANTS
  CompletedIsVerified
  PatchIsWinners
  WorktreesRemoved
  EndIsStoredAndTold
PROPERTIES
  DeadAttemptsStayDead
  ImplementsRun
  EventuallyReturns

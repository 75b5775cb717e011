SPECIFICATION FairSpec
CONSTANTS
  N = 2
  Workers = 2
  MaxCalls = 2
  Faults <- AllFaults
INVARIANTS
  TaskSuccessIsTrue
  AttributionIsExact
PROPERTY RunEnds

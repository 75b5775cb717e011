SPECIFICATION FairSpec
CONSTANTS
  Calls = {c1, c2}
  c1 = c1
  c2 = c2
  Stacks <- GoNodeAndBare
  Faults <- UsualFaults
  None = None
INVARIANTS
  PassedMeansChecked
  LeftoversAreReported
PROPERTIES
  CallsReturn
  ImplementsContract

SPECIFICATION FairSpec
CONSTANTS
  Burst = 5
  RefillTicks = 1
  PollTicks = 2
  MaxRevisions = 1
  MaxRestarts = 1
  Setups <- AllSetups
  Faults <- FaultKinds
  Absent = Absent
CHECK_DEADLOCK FALSE
INVARIANTS
  ExitCodeIsTrue
  LastPatchIsHandedOver
  LoneClientIsServed
PROPERTY ClientReturns

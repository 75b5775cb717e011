SPECIFICATION Spec
CONSTANTS
  Burst = 5
  RefillTicks = 1
  PollTicks = 2
  MaxRevisions = 0
  MaxRestarts = 0
  Setups <- Alone
  Faults <- NoFaults
  Absent = Absent
CHECK_DEADLOCK FALSE
INVARIANT GivingUpIsCancelling

SPECIFICATION Spec
CONSTANTS
  Procs = {p1, p2}
  Jobs = {j1, j2}
  MaxWrites = 5
  Faults <- AllFaults
  Nobody = Nobody
SYMMETRY Symmetry
INVARIANTS
  RecordsAreWhole
  IndexIsOnDisk
  AcknowledgedIsOnDisk

SPECIFICATION Spec
CONSTANTS
  Jobs = {j1, j2}
  Workers = {w1, w2}
  QueueBuffer = 1
  MaxRestarts = 1
  MaxRevisions = 0
  Faults <- CrashRefuseAndHurry
  NoJob = NoJob
  Nobody = Nobody
  Absent = Absent
SYMMETRY Interchangeable
INVARIANTS
  OneClaim
  RecordIsCurrent
  CancelHitsItsJob
PROPERTIES
  InterruptedAreReclaimed
  ImplementsLifecycle

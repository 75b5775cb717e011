SPECIFICATION FairSpec
CONSTANTS
  Jobs = {j1, j2}
  Workers = {w1}
  QueueBuffer = 1
  MaxRestarts = 1
  MaxRevisions = 1
  Faults <- CrashStopAndKeep
  NoJob = NoJob
  Nobody = Nobody
  Absent = Absent
INVARIANTS
  NoJobForgotten
  NoSendOnClosedQueue
PROPERTIES
  AcceptedJobsEnd
  ShutdownEnds

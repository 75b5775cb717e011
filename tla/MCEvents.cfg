SPECIFICATION FairSpec
CONSTANTS
  Clients = {c1}
  Buffer = 1
  Steps = 1
  MaxRestarts = 1
  MaxRefused = 1
  Faults <- AllFaults
  Readers <- Both
  None = None
INVARIANTS
  StreamAndHistoryAgree
  NoSendOnClosedChannel
  HistoryAgreesWithRecord
PROPERTIES
  ImplementsFeed
  NobodyWaits

SPECIFICATION SystemSpec
CONSTANTS
  w1 = w1
  w2 = w2
  None = None
  Requests = {r1}
  N = 2
  ApiFaults <- AllFaults
  MaxFaults = 1
  Workers <- TwoSlots
  Processes <- TwoProcesses
  Attempts = 2
  MaxStalled = 1
  MaxWorkerFaults <- SomeFaults
INVARIANTS
  TypeOK
  JobHasRow
  AcknowledgedIsInHand
PROPERTIES
  RowsLiveOn
  AcknowledgedIsSettled

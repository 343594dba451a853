SPECIFICATION Spec
CONSTANTS
  w1 = w1
  w2 = w2
  None = None
  Emails = {e1}
  Workers <- TwoSlots
  Processes <- TwoProcesses
  Attempts = 3
  MaxStalled = 1
  MaxFaults <- OneDbFault
INVARIANT TwiceOnlyAfterCrash

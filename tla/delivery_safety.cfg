SPECIFICATION Spec
CONSTANTS
  w1 = w1
  w2 = w2
  None = None
  Emails = {e1, e2}
  Workers <- TwoSlots
  Processes <- TwoProcesses
  Attempts = 2
  MaxStalled = 1
  MaxFaults <- NoStop
SYMMETRY Interchangeable
INVARIANTS
  TypeOK
  OneOwner
  SentMeansDelivered
  RepeatsAreLosses
PROPERTIES
  SentIsFinal
  ImplementsLifecycle

SPECIFICATION Spec
CONSTANTS
  None = None
  Callbacks = {c1, c2, c3}
  Notifications = {n1}
  MaxDisconnects = 2
  MaxLoads = 3
  MaxFaults = 2
SYMMETRY Interchangeable
INVARIANTS
  TypeOK
  DisconnectHolds
  OneActive
  DisconnectIsShown

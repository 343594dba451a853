SPECIFICATION Spec
CONSTANTS
  e1 = e1
  e2 = e2
  e3 = e3
  alice = alice
  Emails = {e1, e2, e3}
  Scopes = {alice}
  Scope <- OneSender
  Limit <- TwoLimits
  Hour = 2
  MaxLag = 2
  MaxTime = 3
SYMMETRY Interchangeable
INVARIANTS
  TypeOK
  ToldOnce
  DeferredPastWindow
PROPERTY GrantIffUnderLimit

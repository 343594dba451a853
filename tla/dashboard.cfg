SPECIFICATION Spec
CONSTANTS
  MaxFiles = 2
  MaxSubmits = 2
  MaxFetches = 3
  MaxSwitches = 1
  MaxLoads = 1
CHECK_DEADLOCK FALSE
INVARIANTS
  TypeOK
  SpinnersHaveRequests
  OneSubmitAtATime
  ScheduledIsListed

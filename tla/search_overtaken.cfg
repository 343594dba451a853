SPECIFICATION Spec
CONSTANTS
  Api = api
  worker1 = worker1
  Emails = {e1}
  Hosts <- InServer
  MaxTurns = 2
  MaxFaults <- NoFaults
INVARIANT SettledIsIndexed

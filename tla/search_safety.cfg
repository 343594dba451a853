SPECIFICATION Spec
CONSTANTS
  Api = api
  worker1 = worker1
  Emails = {e1}
  Hosts <- Both
  MaxTurns = 3
  MaxFaults <- TwoOfEach
INVARIANTS
  TypeOK
  OutcomesAreTrue
  IndexAgrees
PROPERTY OutcomesStay

--------------------------- MODULE MCSearchIndex ---------------------------
\* Small instances of SearchIndex: the API process with the worker in it, alone or
\* with one worker process beside it.
EXTENDS SearchIndex

CONSTANT worker1

InServer == {Api}
Both     == {Api, worker1}

NoFaults  == [kind \in FaultKinds |-> 0]
TwoOfEach == [kind \in FaultKinds |-> 2]
============================================================================

------------------------- MODULE MCCampaignDelivery -------------------------
\* Small instances of CampaignDelivery: two slots, each of its own process.
EXTENDS CampaignDelivery, TLC

CONSTANTS w1, w2

AllFaults    == {"db", "queue", "crash"}
TwoSlots     == {w1, w2}
TwoProcesses == {{w1}, {w2}}

\* One worker process crashes once and one is stopped once; SMTP refuses at will.
SomeFaults ==
  [kind \in {"db", "smtp", "lock"} |-> 0] @@ [kind \in {"crash", "stop"} |-> 1]
=============================================================================

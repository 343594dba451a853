-------------------------- MODULE MCEmailDelivery --------------------------
\* Small instances of EmailDelivery: two slots, each of its own process.
EXTENDS EmailDelivery, TLC

CONSTANTS w1, w2

TwoSlots     == {w1, w2}
TwoProcesses == {{w1}, {w2}}

\* Emails are interchangeable, and so are slots: Processes is closed under
\* their permutations.
Interchangeable == Permutations(Emails) \cup Permutations(Workers)

-----------------------------------------------------------------------------
(* The bounds on the faults of each kind *)

OneFault(k) == [kind \in FaultKinds |-> IF kind = k THEN 1 ELSE 0]

EachFault == [kind \in FaultKinds |-> 1]

\* A stop disturbs the limiter's callers and no others.
NoStop == [EachFault EXCEPT !["stop"] = 0]

\* SMTP answers are lost in every attempt.
LostAnswers == [EachFault EXCEPT !["smtp"] = 3]

OneDbFault == OneFault("db")
OneCrash   == OneFault("crash")
=============================================================================

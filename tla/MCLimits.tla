------------------------------ MODULE MCLimits ------------------------------
\* Small instances of Limits: sender a has more emails than an hour allows.
EXTENDS Limits, TLC

CONSTANTS a, b, a1, a2, a3, b1

Emails    == {a1, a2, a3, b1}
SenderOf  == (a1 :> a) @@ (a2 :> a) @@ (a3 :> a) @@ (b1 :> b)
OneAnHour == [s \in Scopes |-> 1]
UpToHour  == 1..Hour
=============================================================================

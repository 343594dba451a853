---------------------------- MODULE MCHourlyLimit ----------------------------
\* Small instances of HourlyLimit.
EXTENDS HourlyLimit, TLC

CONSTANTS e1, e2, e3, alice

\* One sender, two campaigns: the third email's campaign allows more.
OneSender == e1 :> alice @@ e2 :> alice @@ e3 :> alice
TwoLimits == e1 :> 1 @@ e2 :> 1 @@ e3 :> 2

Interchangeable == Permutations({e1, e2})
=============================================================================

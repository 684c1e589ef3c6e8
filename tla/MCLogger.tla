------------------------------ MODULE MCLogger ------------------------------
(* Instance of Logger for TLC.                                             *)
EXTENDS Logger

CONSTANTS p1, p2

TwoProcs == {p1, p2}
TwoFuncs == <<"f", "g">>
First == {p1}

\* Durations that differ may be printed alike.
Rounded == [n \in 1..MaxCalls |-> (n + 1) \div 2]
=============================================================================

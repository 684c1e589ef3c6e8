------------------------------ MODULE MCTimer -------------------------------
(* Instances of Timer for TLC.                                             *)
EXTENDS Timer

CONSTANTS m1, m2

TwoControllers == {m1, m2}
\* A disarmed timer and one of 1.5 s.
SomeIntervals == {0, 1500}
AllFaults == {"open", "spawn", "epoll", "write"}
=============================================================================

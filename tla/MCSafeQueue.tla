---------------------------- MODULE MCSafeQueue -----------------------------
(* Instances of SafeQueue for TLC.                                         *)
EXTENDS SafeQueue

CONSTANTS t1, t2, t3, x, y

ThreeThreads == {t1, t2, t3}
TwoItems == {x, y}
=============================================================================

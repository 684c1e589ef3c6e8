------------------------------- MODULE MCIpc --------------------------------
(* Instance of Ipc for TLC.                                                *)
EXTENDS Ipc

CONSTANTS s1, s2, r1

TwoSenders == {s1, s2}
OneReceiver == {r1}
=============================================================================

---------------------------- MODULE MCThreadPool ----------------------------
(* Instances of ThreadPool for TLC.                                        *)
EXTENDS ThreadPool, TLC

CONSTANTS w1, w2, w3, c1, c2, a, b, c, d, e

ThreeWorkers == {w1, w2, w3}
TwoWorkers == {w1, w2}
OneWorker == {w1}
OneClient == {c1}
TwoClients == {c1, c2}

\* Tasks that submit nothing.
FourTasks == {a, b, c, d}
NoChildren == [t \in FourTasks |-> NoTask]

\* The bodies of a and c submit b and d; e fills the queue.
FiveTasks == {a, b, c, d, e}
TwoParents == [t \in FiveTasks |->
                 CASE t = a -> b [] t = c -> d [] OTHER -> NoTask]

\* Threads of one kind do the same, and so do the two parents with their
\* children.  Only for runs without liveness properties.
SwapParents == [t \in FiveTasks |->
                  CASE t = a -> c [] t = b -> d [] t = c -> a [] t = d -> b
                    [] OTHER -> t]
Alike == Permutations(ThreeWorkers) \cup Permutations(TwoClients)
         \cup {SwapParents}
=============================================================================

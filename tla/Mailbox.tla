------------------------------ MODULE Mailbox -------------------------------
(***************************************************************************)
(* What the message queue of modules/ipc promises to the processes that    *)
(* share it, without the kernel's queue, identifiers and program counters: *)
(* messages are numbered in the order of their acceptance, and fate[i] is  *)
(* what has become of message i.                                           *)
(***************************************************************************)
EXTENDS Naturals, Sequences, FiniteSets

CONSTANT Capacity    \* messages that can wait at the same time

VARIABLE fate

Waiting == {i \in 1..Len(fate) : fate[i] = "queued"}
Oldest == CHOOSE i \in Waiting : \A j \in Waiting : i <= j

Init == fate = << >>

Accept ==
    /\ Cardinality(Waiting) < Capacity
    /\ fate' = Append(fate, "queued")

\* A receiver takes a message, or a draining send throws it away: the oldest.
Settle ==
    /\ Waiting # {}
    /\ \E f \in {"taken", "drained"} : fate' = [fate EXCEPT ![Oldest] = f]

\* The queue is removed with all that waits in it.
RemoveAll ==
    fate' = [i \in 1..Len(fate) |-> IF i \in Waiting THEN "removed" ELSE fate[i]]

\* A message in a receiver's hands is posted to its log, or lost with the receiver.
Finish ==
    \E i \in 1..Len(fate) :
        /\ fate[i] = "taken"
        /\ \E f \in {"posted", "lost"} : fate' = [fate EXCEPT ![i] = f]

Next == Accept \/ Settle \/ RemoveAll \/ Finish

Spec == Init /\ [][Next]_fate
=============================================================================

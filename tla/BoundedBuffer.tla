--------------------------- MODULE BoundedBuffer ----------------------------
(***************************************************************************)
(* What the users of SafeQueue (modules/common/include/common/             *)
(* safe_queue.hpp) see: a first-in first-out buffer of bounded size whose  *)
(* blocking consumers get the oldest element, or nothing once the buffer   *)
(* is stopped.  No mutex, no condition variable, no wakeups.               *)
(*                                                                         *)
(* This module models no line of the repository by itself; SafeQueue       *)
(* implements it.                                                          *)
(***************************************************************************)
EXTENDS Naturals, Sequences

CONSTANTS Threads, Items, Capacity, Unset

VARIABLES buffer,    \* oldest element first
          stopped,
          inside,    \* consumers in a blocking pop
          value      \* what each thread's last successful pop gave it

vars == <<buffer, stopped, inside, value>>

Init ==
    /\ buffer = << >>
    /\ stopped = FALSE
    /\ inside = {}
    /\ value = [p \in Threads |-> Unset]

Insert(v) ==
    /\ Len(buffer) < Capacity
    /\ buffer' = Append(buffer, v)
    /\ UNCHANGED <<stopped, inside, value>>

\* The oldest element goes to p.
Give(p) ==
    /\ buffer # << >>
    /\ value' = [value EXCEPT ![p] = Head(buffer)]
    /\ buffer' = Tail(buffer)
    /\ UNCHANGED stopped

Poll(p) ==
    /\ p \notin inside
    /\ Give(p)
    /\ UNCHANGED inside

Enter(p) ==
    /\ p \notin inside
    /\ inside' = inside \cup {p}
    /\ UNCHANGED <<buffer, stopped, value>>

\* A blocking pop gives an element only while the buffer is not stopped ...
Deliver(p) ==
    /\ p \in inside
    /\ ~stopped
    /\ Give(p)
    /\ inside' = inside \ {p}

\* ... and nothing only when it is.
Release(p) ==
    /\ p \in inside
    /\ stopped
    /\ inside' = inside \ {p}
    /\ UNCHANGED <<buffer, stopped, value>>

Stop ==
    /\ stopped' = TRUE
    /\ UNCHANGED <<buffer, inside, value>>

Discard ==
    /\ buffer' = << >>
    /\ UNCHANGED <<stopped, inside, value>>

Next ==
    \/ \E v \in Items : Insert(v)
    \/ \E p \in Threads : Poll(p) \/ Enter(p) \/ Deliver(p) \/ Release(p)
    \/ Stop
    \/ Discard

Spec == Init /\ [][Next]_vars
=============================================================================

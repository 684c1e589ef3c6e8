---------------------------- MODULE TaskExecutor ----------------------------
(***************************************************************************)
(* What the callers of ThreadPool (modules/common/include/common/          *)
(* thread_pool.hpp) may rely on, without threads, locks or condition       *)
(* variables: a task is either accepted or refused, accepted tasks are     *)
(* started in the order in which they were accepted, each one once, at     *)
(* most MaxRunning at a time, and the executor is only gone when every     *)
(* accepted task has finished.                                             *)
(*                                                                         *)
(* This module models no line of the repository by itself.  ThreadPool is  *)
(* the detailed specification and implements it (ImplementsExecutor).      *)
(***************************************************************************)
EXTENDS Naturals, Sequences, FiniteSets, SequencesExt

CONSTANTS Tasks,        \* the tasks callers may hand in
          MaxRunning,   \* number of threads
          MaxQueued     \* 0: any number of tasks may wait

VARIABLES queue,    \* accepted tasks that have not started, oldest first
          running,  \* started tasks
          done,     \* finished tasks
          refused,  \* tasks turned down
          phase     \* "open", "closing", "closed" or "terminated"

vars == <<queue, running, done, refused, phase>>

Init ==
    /\ queue = << >>
    /\ running = {}
    /\ done = {}
    /\ refused = {}
    /\ phase = "open"

Known == ToSet(queue) \cup running \cup done \cup refused

\* A task is accepted; while closing this still happens to a caller that was
\* let in before.  Never once the executor is closed.
Accept(t) ==
    /\ phase \in {"open", "closing"}
    /\ t \notin Known
    /\ MaxQueued > 0 => Len(queue) < MaxQueued
    /\ queue' = Append(queue, t)
    /\ UNCHANGED <<running, done, refused, phase>>

\* A task is only turned down after the shutdown began.
Refuse(t) ==
    /\ phase # "open"
    /\ t \notin Known
    /\ refused' = refused \cup {t}
    /\ UNCHANGED <<queue, running, done, phase>>

\* The oldest task starts; it is neither running, done nor queued again.
Start ==
    /\ queue # << >>
    /\ Cardinality(running) < MaxRunning
    /\ Head(queue) \notin running \cup done
    /\ queue' = Tail(queue)
    /\ running' = running \cup {Head(queue)}
    /\ UNCHANGED <<done, refused, phase>>

Finish(t) ==
    /\ t \in running
    /\ running' = running \ {t}
    /\ done' = done \cup {t}
    /\ UNCHANGED <<queue, refused, phase>>

Shutdown ==
    /\ phase = "open"
    /\ phase' = "closing"
    /\ UNCHANGED <<queue, running, done, refused>>

\* No task is left in the queue and none will be let in any more.
Close ==
    /\ phase = "closing"
    /\ queue = << >>
    /\ phase' = "closed"
    /\ UNCHANGED <<queue, running, done, refused>>

Terminate ==
    /\ phase = "closed"
    /\ queue = << >>
    /\ running = {}
    /\ phase' = "terminated"
    /\ UNCHANGED <<queue, running, done, refused>>

Next ==
    \/ \E t \in Tasks : Accept(t) \/ Refuse(t) \/ Finish(t)
    \/ Start
    \/ Shutdown
    \/ Close
    \/ Terminate

Spec == Init /\ [][Next]_vars
=============================================================================

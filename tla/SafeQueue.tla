----------------------------- MODULE SafeQueue ------------------------------
(***************************************************************************)
(* class SafeQueue of modules/common/include/common/safe_queue.hpp: a      *)
(* queue with a capacity, a blocking and a non-blocking pop, stop() and    *)
(* clear(), used by any number of threads.                                 *)
(*                                                                         *)
(* Every operation runs in one critical section of mutex_, except pop(),   *)
(* which lets go of the mutex while it sleeps, and stop(), which notifies  *)
(* after it has released the mutex.  pc = "waiting" is the set of threads  *)
(* asleep in cv_.                                                          *)
(***************************************************************************)
EXTENDS Naturals, Sequences, FiniteSets

CONSTANTS Threads,    \* threads that use the queue
          Items,      \* values
          capacity_,
          Unset,      \* an output parameter nothing was stored in
          NoThread

ASSUME QueueAssumption ==
    /\ IsFiniteSet(Threads)
    /\ capacity_ \in Nat
    /\ Unset \notin Items
    /\ NoThread \notin Threads

VARIABLES mutex_,    \* the thread that holds it between two steps
          queue_,
          stopped_,
          pc,
          value      \* the output parameter of each thread's pops

vars == <<mutex_, queue_, stopped_, pc, value>>

At(label) == {p \in Threads : pc[p] = label}
Free == mutex_ = NoThread

Init ==
    /\ mutex_ = NoThread
    /\ queue_ = << >>
    /\ stopped_ = FALSE
    /\ pc = [p \in Threads |-> "idle"]
    /\ value = [p \in Threads |-> Unset]

-----------------------------------------------------------------------------
\* Mutant of Full: off by one.
Full_OffByOne == Len(queue_) > capacity_

Full == Len(queue_) >= capacity_

\* Mutant of NotifyOne: nobody is notified.
NotifyOne_Silent == pc' = pc

\* cv_.notify_one()
NotifyOne ==
    \/ At("waiting") = {} /\ UNCHANGED pc
    \/ \E p \in At("waiting") : pc' = [pc EXCEPT ![p] = "pop"]

\* push(): a full queue refuses the value and nothing changes.
Push(p, v) ==
    /\ pc[p] = "idle" /\ Free
    /\ ~Full
    /\ queue_' = Append(queue_, v)
    /\ NotifyOne
    /\ UNCHANGED <<mutex_, stopped_, value>>

\* Mutant of MoveOut: the front is read after the pop, when it may be gone.
MoveOut_PopFirst(p) ==
    /\ queue_ # << >>
    /\ queue_' = Tail(queue_)
    /\ value' = [value EXCEPT ![p] = IF queue_' = << >> THEN NoThread
                                     ELSE Head(queue_')]

\* The front moves to p's output parameter.
MoveOut(p) ==
    /\ queue_ # << >>
    /\ value' = [value EXCEPT ![p] = Head(queue_)]
    /\ queue_' = Tail(queue_)

TryPop(p) ==
    /\ pc[p] = "idle" /\ Free
    /\ MoveOut(p)
    /\ UNCHANGED <<mutex_, stopped_, pc>>

Clear(p) ==
    /\ pc[p] = "idle" /\ Free
    /\ queue_' = << >>
    /\ UNCHANGED <<mutex_, stopped_, pc, value>>

-----------------------------------------------------------------------------
(* pop()                                                                   *)

PopCall(p) ==
    /\ pc[p] = "idle"
    /\ pc' = [pc EXCEPT ![p] = "pop"]
    /\ UNCHANGED <<mutex_, queue_, stopped_, value>>

\* The predicate of the wait is false; the mutex is held until the sleep.
PopMustWait(p) ==
    /\ pc[p] = "pop" /\ Free
    /\ queue_ = << >>
    /\ ~stopped_
    /\ mutex_' = p
    /\ pc' = [pc EXCEPT ![p] = "doze"]
    /\ UNCHANGED <<queue_, stopped_, value>>

PopSleep(p) ==
    /\ pc[p] = "doze"
    /\ mutex_' = NoThread
    /\ pc' = [pc EXCEPT ![p] = "waiting"]
    /\ UNCHANGED <<queue_, stopped_, value>>

\* pop() returns false, with elements left in the queue or without.
PopStopped(p) ==
    /\ pc[p] = "pop" /\ Free
    /\ stopped_
    /\ pc' = [pc EXCEPT ![p] = "idle"]
    /\ UNCHANGED <<mutex_, queue_, stopped_, value>>

\* Mutant of PopTake: stopped_ is not looked at when there is data.
PopTake_Unchecked(p) ==
    /\ pc[p] = "pop" /\ Free
    /\ MoveOut(p)
    /\ pc' = [pc EXCEPT ![p] = "idle"]
    /\ UNCHANGED <<mutex_, stopped_>>

PopTake(p) ==
    /\ pc[p] = "pop" /\ Free
    /\ ~stopped_
    /\ MoveOut(p)
    /\ pc' = [pc EXCEPT ![p] = "idle"]
    /\ UNCHANGED <<mutex_, stopped_>>

SpuriousWake(p) ==
    /\ pc[p] = "waiting"
    /\ pc' = [pc EXCEPT ![p] = "pop"]
    /\ UNCHANGED <<mutex_, queue_, stopped_, value>>

-----------------------------------------------------------------------------
(* stop(), which the destructor calls too                                  *)

\* Mutant of StopSet: stopped_ is set without the mutex.
StopSet_Unlocked(p) ==
    /\ pc[p] = "idle"
    /\ ~stopped_
    /\ stopped_' = TRUE
    /\ pc' = [pc EXCEPT ![p] = "notify"]
    /\ UNCHANGED <<mutex_, queue_, value>>

\* A second stop() changes nothing and does not notify.
StopSet(p) ==
    /\ pc[p] = "idle" /\ Free
    /\ ~stopped_
    /\ stopped_' = TRUE
    /\ pc' = [pc EXCEPT ![p] = "notify"]
    /\ UNCHANGED <<mutex_, queue_, value>>

\* Mutant of StopNotify: notify_one() instead of notify_all().
StopNotify_One(p) ==
    /\ pc[p] = "notify"
    /\ \/ At("waiting") = {} /\ pc' = [pc EXCEPT ![p] = "idle"]
       \/ \E q \in At("waiting") :
             pc' = [pc EXCEPT ![p] = "idle", ![q] = "pop"]
    /\ UNCHANGED <<mutex_, queue_, stopped_, value>>

StopNotify(p) ==
    /\ pc[p] = "notify"
    /\ pc' = [q \in Threads |-> IF q = p THEN "idle"
                                ELSE IF pc[q] = "waiting" THEN "pop"
                                ELSE pc[q]]
    /\ UNCHANGED <<mutex_, queue_, stopped_, value>>

-----------------------------------------------------------------------------
Pop(p) ==
    \/ PopCall(p)
    \/ PopMustWait(p)
    \/ PopSleep(p)
    \/ PopStopped(p)
    \/ PopTake(p)

Next ==
    \E p \in Threads :
        \/ \E v \in Items : Push(p, v)
        \/ TryPop(p)
        \/ Clear(p)
        \/ Pop(p)
        \/ SpuriousWake(p)
        \/ StopSet(p)
        \/ StopNotify(p)

Spec == Init /\ [][Next]_vars

\* A thread inside an operation runs on and gets a mutex that is free again
\* and again; no operation has to be called.
Fairness ==
    \A p \in Threads :
        /\ SF_vars(PopMustWait(p) \/ PopStopped(p) \/ PopTake(p))
        /\ WF_vars(PopSleep(p) \/ StopNotify(p))

FairSpec == Spec /\ Fairness

-----------------------------------------------------------------------------
(* Properties                                                              *)

\* Every variable keeps its type.
TypeOK ==
    /\ mutex_ \in Threads \cup {NoThread}
    /\ queue_ \in Seq(Items)
    /\ stopped_ \in BOOLEAN
    /\ pc \in [Threads -> {"idle", "pop", "doze", "waiting", "notify"}]
    /\ value \in [Threads -> Items \cup {Unset}]

\* The queue never holds more than capacity_ elements.
CapacityRespected == Len(queue_) <= capacity_

\* While a consumer sleeps in pop() on a queue that is not stopped, every
\* element has a consumer that is awake and on its way to the queue, also
\* when try_pop() and clear() compete with the consumers that were woken.
NoStrandedItem ==
    ~stopped_ /\ At("waiting") # {} => Len(queue_) <= Cardinality(At("pop"))

\* When stop() has returned no consumer sleeps or is about to: setting
\* stopped_ under the mutex and notifying without it misses nobody.
StopReachesEverybody ==
    stopped_ /\ At("notify") = {} => At("waiting") = {} /\ At("doze") = {}

\* stop() ends every blocking pop, the ones under way and the later ones.
StopEndsPops ==
    \A p \in Threads :
        (stopped_ /\ pc[p] \in {"pop", "doze", "waiting"}) ~> (pc[p] = "idle")

Buffer == INSTANCE BoundedBuffer WITH
    Capacity <- capacity_,
    buffer <- queue_,
    stopped <- stopped_,
    inside <- At("pop") \cup At("doze") \cup At("waiting")

\* The queue is a first-in first-out buffer: a blocking pop that succeeds
\* gives the oldest element and only before the stop, one that fails does so
\* only after it.
ImplementsBuffer == Buffer!Spec
=============================================================================

----------------------------- MODULE ThreadPool -----------------------------
(***************************************************************************)
(* class ThreadPool of modules/common/include/common/thread_pool.hpp: a    *)
(* fixed set of worker threads, a queue of tasks with an optional bound,   *)
(* one mutex, one condition variable for the workers (cv_) and one for the *)
(* callers of submit() that wait for room (cv_producer_), and a destructor *)
(* that runs in a thread of its own.                                       *)
(*                                                                         *)
(* A condition variable is the set of threads asleep in it: pc = "asleep"  *)
(* is a worker in cv_, pc = "blocked" a caller in cv_producer_.  Between   *)
(* the evaluation of a wait's predicate and the sleep the thread holds     *)
(* mtx_ ("doze", "hold"): the destructor never takes mtx_, so its store    *)
(* and its notification can fall into that window.                         *)
(*                                                                         *)
(* A step of a thread is what it does between two points where another     *)
(* thread could tell the difference.  Everything read under mtx_ is only   *)
(* written under mtx_, except stop_, which only ever goes from FALSE to    *)
(* TRUE: its second load in a critical section (lines 33 and 86) is part   *)
(* of the step that evaluated the predicate.                               *)
(***************************************************************************)
EXTENDS Naturals, Sequences, FiniteSets, SequencesExt

CONSTANTS Workers,       \* the threads of workers_
          Clients,       \* threads that call submit() from outside
          Tasks,         \* calls of submit(), one task each
          Child,         \* Child[t]: the task that t's body submits, or NoTask
          MaxQueueSize,  \* max_queue_size_; 0 = unlimited
          NoTask, NoThread

Threads == Workers \cup Clients

ASSUME PoolAssumption ==
    /\ IsFiniteSet(Workers) /\ IsFiniteSet(Clients)
    /\ Workers \cap Clients = {}
    /\ MaxQueueSize \in Nat
    /\ NoTask \notin Tasks
    /\ NoThread \notin Threads
    /\ Child \in [Tasks -> Tasks \cup {NoTask}]
    /\ \A s, t \in Tasks : Child[s] = Child[t] /\ Child[s] # NoTask => s = t

VARIABLES mtx_,      \* the thread that holds the mutex, or NoThread
          stop_,
          tasks_,
          pc,        \* where each thread is
          job,       \* a worker's running task, the task a client submits
          accepted,  \* tasks whose submit() enqueued them
          done,      \* tasks that ran to their end
          refused,   \* tasks whose submit() threw
          dtor       \* "alive", "notifying", "joining" or "joined"

vars == <<mtx_, stop_, tasks_, pc, job, accepted, done, refused, dtor>>
shared == <<stop_, dtor>>
ghosts == <<accepted, done, refused>>

At(label) == {p \in Threads : pc[p] = label}
Free == mtx_ = NoThread

\* Mutant of Arg: the call enqueues a task it has already moved from.
Arg_Moved(p) == NoTask

\* The task of the submit() call that thread p is in.
Arg(p) == IF p \in Workers THEN Child[job[p]] ELSE job[p]

\* Where p continues after submit() returned or threw: a worker is still in
\* the body of its task (the packaged_task keeps the exception).
Returned(p) == [pc EXCEPT ![p] = IF p \in Workers THEN "tail" ELSE "idle"]
Forgotten(p) == IF p \in Workers THEN job ELSE [job EXCEPT ![p] = NoTask]

Roots == {t \in Tasks : \A s \in Tasks : Child[s] # t}

Init ==
    /\ mtx_ = NoThread
    /\ stop_ = FALSE
    /\ tasks_ = << >>
    /\ pc = [p \in Threads |-> IF p \in Workers THEN "take" ELSE "idle"]
    /\ job = [p \in Threads |-> NoTask]
    /\ accepted = {}
    /\ done = {}
    /\ refused = {}
    /\ dtor = "alive"

-----------------------------------------------------------------------------
(* submit()                                                                *)

SubmitCall(c, t) ==
    /\ pc[c] = "idle"
    /\ dtor # "joined"
    /\ t \notin accepted \cup refused
    /\ \A p \in Clients : job[p] # t
    /\ pc' = [pc EXCEPT ![c] = "submit"]
    /\ job' = [job EXCEPT ![c] = t]
    /\ UNCHANGED <<mtx_, tasks_, shared, ghosts>>

\* Mutant of HasRoom: off by one.
HasRoom_OffByOne == MaxQueueSize = 0 \/ Len(tasks_) <= MaxQueueSize

HasRoom == MaxQueueSize = 0 \/ Len(tasks_) < MaxQueueSize

\* Both checks of stop_, the one on entry and the one after the wait.
SubmitThrow(p) ==
    /\ pc[p] = "submit" /\ Free
    /\ stop_
    /\ refused' = refused \cup {Arg(p)}
    /\ pc' = Returned(p)
    /\ job' = Forgotten(p)
    /\ UNCHANGED <<mtx_, tasks_, accepted, done, shared>>

SubmitMustWait(p) ==
    /\ pc[p] = "submit" /\ Free
    /\ ~stop_
    /\ ~HasRoom
    /\ mtx_' = p
    /\ pc' = [pc EXCEPT ![p] = "hold"]
    /\ UNCHANGED <<tasks_, job, shared, ghosts>>

\* cv_producer_.wait releases the mutex and falls asleep in one step.
SubmitSleep(p) ==
    /\ pc[p] = "hold"
    /\ mtx_' = NoThread
    /\ pc' = [pc EXCEPT ![p] = "blocked"]
    /\ UNCHANGED <<tasks_, job, shared, ghosts>>

\* Mutant of SubmitHasRoom: stop_ is not checked again after the wait.
SubmitHasRoom_Unchecked(p) ==
    /\ pc[p] = "submit" /\ Free
    /\ HasRoom
    /\ mtx_' = p
    /\ pc' = [pc EXCEPT ![p] = "push"]
    /\ UNCHANGED <<tasks_, job, shared, ghosts>>

SubmitHasRoom(p) ==
    /\ pc[p] = "submit" /\ Free
    /\ ~stop_
    /\ HasRoom
    /\ mtx_' = p
    /\ pc' = [pc EXCEPT ![p] = "push"]
    /\ UNCHANGED <<tasks_, job, shared, ghosts>>

SubmitPush(p) ==
    /\ pc[p] = "push"
    /\ tasks_' = Append(tasks_, Arg(p))
    /\ accepted' = accepted \cup {Arg(p)}
    /\ mtx_' = NoThread
    /\ pc' = [pc EXCEPT ![p] = "signal"]
    /\ UNCHANGED <<job, done, refused, shared>>

\* Mutant of SubmitNotify: nobody is notified.
SubmitNotify_Silent(p) ==
    /\ pc[p] = "signal"
    /\ job' = Forgotten(p)
    /\ pc' = Returned(p)
    /\ UNCHANGED <<mtx_, tasks_, shared, ghosts>>

\* cv_.notify_one() without the mutex, and the return.
SubmitNotify(p) ==
    /\ pc[p] = "signal"
    /\ job' = Forgotten(p)
    /\ \/ /\ At("asleep") = {}
          /\ pc' = Returned(p)
       \/ \E w \in At("asleep") : pc' = [Returned(p) EXCEPT ![w] = "take"]
    /\ UNCHANGED <<mtx_, tasks_, shared, ghosts>>

Submit(p) ==
    \/ SubmitThrow(p)
    \/ SubmitMustWait(p)
    \/ SubmitSleep(p)
    \/ SubmitHasRoom(p)
    \/ SubmitPush(p)
    \/ SubmitNotify(p)

-----------------------------------------------------------------------------
(* The loop of a worker                                                    *)

\* Mutant of WorkerMustWait: the wait's predicate forgets stop_.
WorkerMustWait_NoStop(w) ==
    /\ pc[w] = "take" /\ Free
    /\ tasks_ = << >>
    /\ mtx_' = w
    /\ pc' = [pc EXCEPT ![w] = "doze"]
    /\ UNCHANGED <<tasks_, job, shared, ghosts>>

WorkerMustWait(w) ==
    /\ pc[w] = "take" /\ Free
    /\ ~stop_
    /\ tasks_ = << >>
    /\ mtx_' = w
    /\ pc' = [pc EXCEPT ![w] = "doze"]
    /\ UNCHANGED <<tasks_, job, shared, ghosts>>

WorkerSleep(w) ==
    /\ pc[w] = "doze"
    /\ mtx_' = NoThread
    /\ pc' = [pc EXCEPT ![w] = "asleep"]
    /\ UNCHANGED <<tasks_, job, shared, ghosts>>

\* Mutant of WorkerExit: a stopped worker leaves what is queued.
WorkerExit_AtOnce(w) ==
    /\ pc[w] = "take" /\ Free
    /\ stop_
    /\ pc' = [pc EXCEPT ![w] = "exited"]
    /\ UNCHANGED <<mtx_, tasks_, job, shared, ghosts>>

WorkerExit(w) ==
    /\ pc[w] = "take" /\ Free
    /\ stop_
    /\ tasks_ = << >>
    /\ pc' = [pc EXCEPT ![w] = "exited"]
    /\ UNCHANGED <<mtx_, tasks_, job, shared, ghosts>>

\* Mutant of WorkerPop: the task is copied and stays in the queue.
WorkerPop_Copy(w) ==
    /\ pc[w] = "take" /\ Free
    /\ tasks_ # << >>
    /\ job' = [job EXCEPT ![w] = Head(tasks_)]
    /\ pc' = [pc EXCEPT ![w] = "freed"]
    /\ UNCHANGED <<mtx_, tasks_, shared, ghosts>>

\* Mutant of WorkerPop: the newest task is taken.
WorkerPop_Newest(w) ==
    /\ pc[w] = "take" /\ Free
    /\ tasks_ # << >>
    /\ job' = [job EXCEPT ![w] = Last(tasks_)]
    /\ tasks_' = Front(tasks_)
    /\ pc' = [pc EXCEPT ![w] = "freed"]
    /\ UNCHANGED <<mtx_, shared, ghosts>>

WorkerPop(w) ==
    /\ pc[w] = "take" /\ Free
    /\ tasks_ # << >>
    /\ job' = [job EXCEPT ![w] = Head(tasks_)]
    /\ tasks_' = Tail(tasks_)
    /\ pc' = [pc EXCEPT ![w] = "freed"]
    /\ UNCHANGED <<mtx_, shared, ghosts>>

\* Where a worker goes when it calls task(): into submit() if the body does.
Body(w) == IF Child[job[w]] = NoTask THEN "tail" ELSE "submit"

\* Mutant of WorkerNotify: nobody is notified.
WorkerNotify_Silent(w) ==
    /\ pc[w] = "freed"
    /\ pc' = [pc EXCEPT ![w] = Body(w)]
    /\ UNCHANGED <<mtx_, tasks_, job, shared, ghosts>>

\* cv_producer_.notify_one() without the mutex.
WorkerNotify(w) ==
    /\ pc[w] = "freed"
    /\ \/ /\ At("blocked") = {}
          /\ pc' = [pc EXCEPT ![w] = Body(w)]
       \/ \E p \in At("blocked") :
             pc' = [pc EXCEPT ![w] = Body(w), ![p] = "submit"]
    /\ UNCHANGED <<mtx_, tasks_, job, shared, ghosts>>

WorkerFinish(w) ==
    /\ pc[w] = "tail"
    /\ done' = done \cup {job[w]}
    /\ job' = [job EXCEPT ![w] = NoTask]
    /\ pc' = [pc EXCEPT ![w] = "take"]
    /\ UNCHANGED <<mtx_, tasks_, accepted, refused, shared>>

Work(w) ==
    \/ WorkerMustWait(w)
    \/ WorkerSleep(w)
    \/ WorkerExit(w)
    \/ WorkerPop(w)
    \/ WorkerNotify(w)
    \/ WorkerFinish(w)

\* A wait may return without a notification.
SpuriousWake(p) ==
    /\ pc[p] \in {"asleep", "blocked"}
    /\ pc' = [pc EXCEPT ![p] = IF @ = "asleep" THEN "take" ELSE "submit"]
    /\ UNCHANGED <<mtx_, tasks_, job, shared, ghosts>>

-----------------------------------------------------------------------------
(* ~ThreadPool(): no step of it takes mtx_                                 *)

DtorStore ==
    /\ dtor = "alive"
    /\ stop_' = TRUE
    /\ dtor' = "notifying"
    /\ UNCHANGED <<mtx_, tasks_, pc, job, ghosts>>

\* Mutant of DtorNotify: notify_one() instead of notify_all().
DtorNotify_One ==
    /\ dtor = "notifying"
    /\ \/ At("asleep") = {} /\ UNCHANGED pc
       \/ \E w \in At("asleep") : pc' = [pc EXCEPT ![w] = "take"]
    /\ dtor' = "joining"
    /\ UNCHANGED <<mtx_, stop_, tasks_, job, ghosts>>

DtorNotify ==
    /\ dtor = "notifying"
    /\ pc' = [p \in Threads |-> IF pc[p] = "asleep" THEN "take" ELSE pc[p]]
    /\ dtor' = "joining"
    /\ UNCHANGED <<mtx_, stop_, tasks_, job, ghosts>>

DtorJoin ==
    /\ dtor = "joining"
    /\ \A w \in Workers : pc[w] = "exited"
    /\ dtor' = "joined"
    /\ UNCHANGED <<mtx_, stop_, tasks_, pc, job, ghosts>>

-----------------------------------------------------------------------------
Next ==
    \/ \E c \in Clients, t \in Roots : SubmitCall(c, t)
    \/ \E p \in Threads : Submit(p) \/ SpuriousWake(p)
    \/ \E w \in Workers : Work(w)
    \/ DtorStore \/ DtorNotify \/ DtorJoin

Spec == Init /\ [][Next]_vars

\* A thread that is not waiting runs on, and one that asks for a free mutex
\* again and again gets it in the end.  Nobody has to call submit() or to
\* destroy the pool, and no wait has to return by itself.
Fairness ==
    /\ \A p \in Threads :
          /\ SF_vars(SubmitThrow(p) \/ SubmitMustWait(p) \/ SubmitHasRoom(p))
          /\ WF_vars(SubmitSleep(p) \/ SubmitPush(p) \/ SubmitNotify(p))
    /\ \A w \in Workers :
          /\ SF_vars(WorkerMustWait(w) \/ WorkerExit(w) \/ WorkerPop(w))
          /\ WF_vars(WorkerSleep(w) \/ WorkerNotify(w) \/ WorkerFinish(w))
    /\ WF_vars(DtorNotify)
    /\ WF_vars(DtorJoin)

FairSpec == Spec /\ Fairness

-----------------------------------------------------------------------------
(* Properties                                                              *)

Labels == {"take", "doze", "asleep", "freed", "tail", "exited",
           "submit", "hold", "blocked", "push", "signal", "idle"}

\* Every variable keeps its type: one owner of the mutex, a queue of tasks,
\* one program point and at most one task per thread.
TypeOK ==
    /\ mtx_ \in Threads \cup {NoThread}
    /\ stop_ \in BOOLEAN
    /\ tasks_ \in Seq(Tasks)
    /\ pc \in [Threads -> Labels]
    /\ job \in [Threads -> Tasks \cup {NoTask}]
    /\ accepted \subseteq Tasks
    /\ done \subseteq Tasks
    /\ refused \subseteq Tasks
    /\ dtor \in {"alive", "notifying", "joining", "joined"}

\* The queue never holds more than max_queue_size_ tasks, however the callers
\* that were woken for the same free place interleave.
QueueBounded == MaxQueueSize > 0 => Len(tasks_) <= MaxQueueSize

Running == {job[w] : w \in Workers} \ {NoTask}

\* Every task that was accepted is in exactly one place: once in the queue,
\* in the hands of one worker, or finished.  None is lost, run twice, or both
\* accepted and refused.
ExactlyOnce ==
    /\ accepted = ToSet(tasks_) \cup Running \cup done
    /\ IsInjective(tasks_)
    /\ Running \cap done = {}
    /\ ToSet(tasks_) \cap (Running \cup done) = {}
    /\ accepted \cap refused = {}
    /\ \A v, w \in Workers : job[v] = job[w] /\ job[v] # NoTask => v = w

\* Once a worker has left its loop nothing is in the queue and nobody is
\* about to put something there: submit() cannot accept a task that no
\* worker will see, although stop_ is set without the mutex.
NoOrphan ==
    (\E w \in Workers : pc[w] = "exited") =>
        tasks_ = << >> /\ At("push") = {}

\* While a worker sleeps in cv_, every queued task has a worker that is on
\* its way to the queue or a caller that is about to notify one: notifying
\* without the mutex loses no task.
NoStrandedTask ==
    At("asleep") # {} =>
        Len(tasks_) <= Cardinality(At("take")) + Cardinality(At("signal"))

\* While a caller sleeps in cv_producer_ (and the pool is not stopped), every
\* free place of the queue has a caller on its way to it or a worker about
\* to notify one.
NoStrandedProducer ==
    ~stop_ /\ At("blocked") # {} =>
        MaxQueueSize - Len(tasks_) <=
            Cardinality(At("submit")) + Cardinality(At("push"))
            + Cardinality(At("freed"))

\* When the destructor has notified cv_, at most one worker can have missed
\* it: the one that held mtx_ between its predicate and its sleep.
AtMostOneMissed ==
    dtor \in {"joining", "joined"} =>
        Cardinality(At("asleep") \cup At("doze")) <= 1

\* The destructor joins the workers only after every accepted task has run.
JoinedMeansDone == dtor = "joined" /\ Workers # {} => accepted = done

\* Every worker runs a task that submits, and waits for room in a queue that
\* only workers can empty.
SelfBlocked ==
    /\ ~HasRoom
    /\ \A w \in Workers : pc[w] \in {"submit", "hold", "blocked"}

\* A queued task is started, also while the pool is being destroyed: only
\* workers that all wait for room inside their own tasks can prevent it.
QueuedTasksStart ==
    \A t \in Tasks :
        (t \in ToSet(tasks_)) ~> (t \notin ToSet(tasks_) \/ SelfBlocked)

\* When the destructor has notified cv_ and no thread is in a wait or about
\* to fall asleep in one, the destructor returns: tasks that still run or are
\* still queued, and submit() calls of their bodies, do not hold it up.
DestructorReturnsIfAllAwake ==
    (/\ dtor = "joining"
     /\ \A p \in Threads : pc[p] \notin {"doze", "asleep", "hold", "blocked"})
        ~> (dtor = "joined")

Submitting == At("submit") \cup At("hold") \cup At("blocked")

\* Whenever calls of submit() are at work while the pool lives, one more task
\* is accepted in the end, however many more calls arrive, unless all workers
\* block themselves.  Which call gets in is open: notify_one() keeps no order
\* and a newcomer may take the place a woken caller was woken for.
SomeSubmitGetsIn ==
    \A n \in 0 .. Cardinality(Tasks) :
        (Submitting # {} /\ Cardinality(accepted) = n) ~>
            (Cardinality(accepted) > n \/ stop_ \/ SelfBlocked)

Executor == INSTANCE TaskExecutor WITH
    MaxRunning <- Cardinality(Workers),
    MaxQueued <- MaxQueueSize,
    queue <- tasks_,
    running <- Running,
    phase <- IF dtor = "joined" THEN "terminated"
             ELSE IF \E w \in Workers : pc[w] = "exited" THEN "closed"
             ELSE IF stop_ THEN "closing" ELSE "open"

\* The pool does what its callers rely on: tasks start in the order in which
\* they were accepted, refusals happen only after the stop, and the pool is
\* gone only when everything accepted has finished.
ImplementsExecutor == Executor!Spec

\* The join of the destructor ends.  (It does not: see the lost wakeup.)
DestructorReturns == (dtor = "notifying") ~> (dtor = "joined")

\* "throws std::runtime_error if pool is stopped or queue is full": a submit()
\* that has found the queue full is not left waiting when the pool is stopped.
\* (It does not throw on a full queue, and after the stop it may wait for
\* ever.)
StoppedSubmitReturns ==
    \A c \in Clients : (pc[c] = "blocked" /\ stop_) ~> (pc[c] = "idle")

=============================================================================

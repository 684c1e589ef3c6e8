-------------------------- MODULE ThreadPoolProofs --------------------------
(***************************************************************************)
(* Theorems about ThreadPool, for any number of workers and clients, any   *)
(* tasks, any pattern of tasks that submit tasks and any queue bound.      *)
(***************************************************************************)
EXTENDS ThreadPool, TLAPS, FiniteSetTheorems, SequenceTheorems

Calling == {"submit", "hold", "blocked", "push", "signal"}
Looking == {"take", "doze", "asleep", "exited"}

\* A client holds a task exactly while it is inside submit().
ClientInv ==
    \A c \in Clients :
        /\ pc[c] \in Calling \cup {"idle"}
        /\ pc[c] \in Calling => job[c] \in Tasks
        /\ pc[c] = "idle" => job[c] = NoTask

\* A worker holds a task exactly while it runs one, and is inside submit()
\* only for the child of that task.
WorkerInv ==
    \A w \in Workers :
        /\ pc[w] # "idle"
        /\ pc[w] \in Looking => job[w] = NoTask
        /\ pc[w] \notin Looking => job[w] \in Tasks
        /\ pc[w] \in Calling => Child[job[w]] \in Tasks

\* Between two steps of a critical section the thread holds the mutex, and
\* what it saw there still holds.
LockInv ==
    \A p \in Threads :
        /\ pc[p] \in {"doze", "hold", "push"} => mtx_ = p
        /\ pc[p] = "push" => HasRoom
        /\ pc[p] = "hold" => ~HasRoom
        /\ pc[p] = "doze" => tasks_ = << >>

\* How far the destructor is.
DtorInv ==
    /\ stop_ <=> dtor # "alive"
    /\ dtor = "joined" => \A w \in Workers : pc[w] = "exited"

\* A worker leaves a stopped pool with an empty queue and no caller that has
\* passed the check of stop_.
ExitInv ==
    (\E w \in Workers : pc[w] = "exited") =>
        /\ stop_
        /\ tasks_ = << >>
        /\ \A p \in Threads : pc[p] # "push"

\* After the notification of the destructor at most one worker is asleep or
\* falls asleep.
MissInv ==
    dtor \in {"joining", "joined"} =>
        \A p, q \in Threads :
            pc[p] \in {"asleep", "doze"} /\ pc[q] \in {"asleep", "doze"} => p = q

IInv ==
    /\ TypeOK
    /\ ClientInv
    /\ WorkerInv
    /\ LockInv
    /\ DtorInv
    /\ ExitInv
    /\ MissInv
    /\ QueueBounded

-----------------------------------------------------------------------------
\* The state the constructor leaves satisfies the invariant.
LEMMA Initially == Init => IInv
<1> SUFFICES ASSUME Init PROVE IInv
  OBVIOUS
<1> USE PoolAssumption DEF Init
<1>1. TypeOK
  <2>1. stop_ \in BOOLEAN
    OBVIOUS
  <2>2. pc \in [Threads -> Labels]
    BY DEF Labels
  <2>3. job \in [Threads -> Tasks \cup {NoTask}]
    OBVIOUS
  <2>4. tasks_ \in Seq(Tasks)
    OBVIOUS
  <2> QED
    BY <2>1, <2>2, <2>3, <2>4 DEF TypeOK
<1>2. ClientInv /\ WorkerInv
  BY DEF ClientInv, WorkerInv, Threads, Calling, Looking
<1>3. LockInv /\ DtorInv /\ ExitInv /\ MissInv
  BY DEF LockInv, DtorInv, ExitInv, MissInv, Threads
<1>4. QueueBounded
  BY DEF QueueBounded
<1> QED
  BY <1>1, <1>2, <1>3, <1>4 DEF IInv

\* The task a caller of submit() brings along.
LEMMA ArgTask ==
    ASSUME IInv, NEW p \in Threads, pc[p] \in Calling
    PROVE  Arg(p) \in Tasks
<1>1. CASE p \in Workers
  BY <1>1 DEF IInv, WorkerInv, Arg
<1>2. CASE p \in Clients
  <2>1. p \notin Workers
    BY <1>2, PoolAssumption
  <2> QED
    BY <1>2, <2>1 DEF IInv, ClientInv, Arg
<1> QED
  BY <1>1, <1>2 DEF Threads

\* Every step keeps the types and the tasks in the right hands.
LEMMA TypeStep == IInv /\ [Next]_vars => TypeOK' /\ ClientInv' /\ WorkerInv'
<1> SUFFICES ASSUME IInv, [Next]_vars PROVE TypeOK' /\ ClientInv' /\ WorkerInv'
  OBVIOUS
<1> USE PoolAssumption
    DEF IInv, TypeOK, ClientInv, WorkerInv, Threads, Calling, Looking, Labels,
        shared, ghosts
<1>1. ASSUME NEW c \in Clients, NEW t \in Roots, SubmitCall(c, t) PROVE TypeOK' /\ ClientInv' /\ WorkerInv'
  BY <1>1 DEF SubmitCall, Roots
<1>2. ASSUME NEW p \in Threads, SubmitThrow(p) PROVE TypeOK' /\ ClientInv' /\ WorkerInv'
  <2>1. Arg(p) \in Tasks
    BY <1>2, ArgTask DEF SubmitThrow
  <2>2. TypeOK'
    BY <1>2, <2>1 DEF SubmitThrow, Returned, Forgotten
  <2>3. ClientInv' /\ WorkerInv'
    BY <1>2 DEF SubmitThrow, Returned, Forgotten
  <2> QED
    BY <2>2, <2>3
<1>3. ASSUME NEW p \in Threads, SubmitMustWait(p) PROVE TypeOK' /\ ClientInv' /\ WorkerInv'
  BY <1>3 DEF SubmitMustWait, Free
<1>4. ASSUME NEW p \in Threads, SubmitSleep(p) PROVE TypeOK' /\ ClientInv' /\ WorkerInv'
  BY <1>4 DEF SubmitSleep
<1>5. ASSUME NEW p \in Threads, SubmitHasRoom(p) PROVE TypeOK' /\ ClientInv' /\ WorkerInv'
  BY <1>5 DEF SubmitHasRoom, Free
<1>6. ASSUME NEW p \in Threads, SubmitPush(p) PROVE TypeOK' /\ ClientInv' /\ WorkerInv'
  <2>1. Arg(p) \in Tasks
    BY <1>6, ArgTask DEF SubmitPush
  <2>2. tasks_' \in Seq(Tasks) /\ accepted' \subseteq Tasks
    BY <1>6, <2>1 DEF SubmitPush
  <2>3. pc' \in [Threads -> Labels]
    BY <1>6 DEF SubmitPush
  <2>4. TypeOK'
    BY <1>6, <2>2, <2>3 DEF SubmitPush
  <2>5. ClientInv' /\ WorkerInv'
    BY <1>6 DEF SubmitPush
  <2> QED
    BY <2>4, <2>5
<1>7. ASSUME NEW p \in Threads, SubmitNotify(p) PROVE TypeOK' /\ ClientInv' /\ WorkerInv'
  BY <1>7 DEF SubmitNotify, Returned, Forgotten, At
<1>8. ASSUME NEW p \in Threads, SpuriousWake(p) PROVE TypeOK' /\ ClientInv' /\ WorkerInv'
  BY <1>8 DEF SpuriousWake
<1>9. ASSUME NEW w \in Workers, WorkerMustWait(w) PROVE TypeOK' /\ ClientInv' /\ WorkerInv'
  BY <1>9 DEF WorkerMustWait, Free
<1>10. ASSUME NEW w \in Workers, WorkerSleep(w) PROVE TypeOK' /\ ClientInv' /\ WorkerInv'
  BY <1>10 DEF WorkerSleep
<1>11. ASSUME NEW w \in Workers, WorkerExit(w) PROVE TypeOK' /\ ClientInv' /\ WorkerInv'
  BY <1>11 DEF WorkerExit, Free
<1>12. ASSUME NEW w \in Workers, WorkerPop(w) PROVE TypeOK' /\ ClientInv' /\ WorkerInv'
  <2>1. Head(tasks_) \in Tasks /\ Tail(tasks_) \in Seq(Tasks)
    BY <1>12 DEF WorkerPop
  <2>2. TypeOK'
    BY <1>12, <2>1 DEF WorkerPop
  <2>3. ClientInv' /\ WorkerInv'
    BY <1>12, <2>1 DEF WorkerPop
  <2> QED
    BY <2>2, <2>3
<1>13. ASSUME NEW w \in Workers, WorkerNotify(w) PROVE TypeOK' /\ ClientInv' /\ WorkerInv'
  BY <1>13 DEF WorkerNotify, Body, At
<1>14. ASSUME NEW w \in Workers, WorkerFinish(w) PROVE TypeOK' /\ ClientInv' /\ WorkerInv'
  BY <1>14 DEF WorkerFinish
<1>15. CASE DtorStore
  BY <1>15 DEF DtorStore
<1>16. CASE DtorNotify
  BY <1>16 DEF DtorNotify
<1>17. CASE DtorJoin
  BY <1>17 DEF DtorJoin
<1>18. CASE UNCHANGED vars
  BY <1>18 DEF vars
<1> QED
  BY <1>1, <1>2, <1>3, <1>4, <1>5, <1>6, <1>7, <1>8, <1>9,
     <1>10, <1>11, <1>12, <1>13, <1>14, <1>15, <1>16, <1>17, <1>18
     DEF Next, Submit, Work

\* Every step keeps what the threads in a critical section rely on.
LEMMA LockStep == IInv /\ [Next]_vars => LockInv'
<1> SUFFICES ASSUME IInv, [Next]_vars PROVE LockInv'
  OBVIOUS
<1> USE PoolAssumption
    DEF IInv, TypeOK, LockInv, DtorInv, ExitInv, MissInv, QueueBounded,
        HasRoom, Free, Threads, shared, ghosts
<1>1. ASSUME NEW c \in Clients, NEW t \in Roots, SubmitCall(c, t) PROVE LockInv'
  BY <1>1 DEF SubmitCall, Roots
<1>2. ASSUME NEW p \in Threads, SubmitThrow(p) PROVE LockInv'
  BY <1>2 DEF SubmitThrow, Returned, Forgotten, Arg
<1>3. ASSUME NEW p \in Threads, SubmitMustWait(p) PROVE LockInv'
  BY <1>3 DEF SubmitMustWait, Free
<1>4. ASSUME NEW p \in Threads, SubmitSleep(p) PROVE LockInv'
  BY <1>4 DEF SubmitSleep
<1>5. ASSUME NEW p \in Threads, SubmitHasRoom(p) PROVE LockInv'
  BY <1>5 DEF SubmitHasRoom, Free
<1>6. ASSUME NEW p \in Threads, SubmitPush(p) PROVE LockInv'
  BY <1>6 DEF SubmitPush, Arg
<1>7. ASSUME NEW p \in Threads, SubmitNotify(p) PROVE LockInv'
  BY <1>7 DEF SubmitNotify, Returned, Forgotten, At
<1>8. ASSUME NEW p \in Threads, SpuriousWake(p) PROVE LockInv'
  BY <1>8 DEF SpuriousWake
<1>9. ASSUME NEW w \in Workers, WorkerMustWait(w) PROVE LockInv'
  BY <1>9 DEF WorkerMustWait, Free
<1>10. ASSUME NEW w \in Workers, WorkerSleep(w) PROVE LockInv'
  BY <1>10 DEF WorkerSleep
<1>11. ASSUME NEW w \in Workers, WorkerExit(w) PROVE LockInv'
  BY <1>11 DEF WorkerExit, Free
<1>12. ASSUME NEW w \in Workers, WorkerPop(w) PROVE LockInv'
  BY <1>12 DEF WorkerPop, Free
<1>13. ASSUME NEW w \in Workers, WorkerNotify(w) PROVE LockInv'
  BY <1>13 DEF WorkerNotify, Body, At
<1>14. ASSUME NEW w \in Workers, WorkerFinish(w) PROVE LockInv'
  BY <1>14 DEF WorkerFinish
<1>15. CASE DtorStore
  BY <1>15 DEF DtorStore
<1>16. CASE DtorNotify
  BY <1>16 DEF DtorNotify
<1>17. CASE DtorJoin
  BY <1>17 DEF DtorJoin
<1>18. CASE UNCHANGED vars
  BY <1>18 DEF vars
<1> QED
  BY <1>1, <1>2, <1>3, <1>4, <1>5, <1>6, <1>7, <1>8, <1>9,
     <1>10, <1>11, <1>12, <1>13, <1>14, <1>15, <1>16, <1>17, <1>18
     DEF Next, Submit, Work

\* Every step keeps what the destructor has established.
LEMMA DtorStep == IInv /\ [Next]_vars => DtorInv'
<1> SUFFICES ASSUME IInv, [Next]_vars PROVE DtorInv'
  OBVIOUS
<1> USE PoolAssumption
    DEF IInv, TypeOK, LockInv, DtorInv, ExitInv, MissInv, QueueBounded,
        HasRoom, Free, Threads, shared, ghosts
<1>1. ASSUME NEW c \in Clients, NEW t \in Roots, SubmitCall(c, t) PROVE DtorInv'
  BY <1>1 DEF SubmitCall, Roots
<1>2. ASSUME NEW p \in Threads, SubmitThrow(p) PROVE DtorInv'
  BY <1>2 DEF SubmitThrow, Returned, Forgotten, Arg
<1>3. ASSUME NEW p \in Threads, SubmitMustWait(p) PROVE DtorInv'
  BY <1>3 DEF SubmitMustWait, Free
<1>4. ASSUME NEW p \in Threads, SubmitSleep(p) PROVE DtorInv'
  BY <1>4 DEF SubmitSleep
<1>5. ASSUME NEW p \in Threads, SubmitHasRoom(p) PROVE DtorInv'
  BY <1>5 DEF SubmitHasRoom, Free
<1>6. ASSUME NEW p \in Threads, SubmitPush(p) PROVE DtorInv'
  BY <1>6 DEF SubmitPush, Arg
<1>7. ASSUME NEW p \in Threads, SubmitNotify(p) PROVE DtorInv'
  BY <1>7 DEF SubmitNotify, Returned, Forgotten, At
<1>8. ASSUME NEW p \in Threads, SpuriousWake(p) PROVE DtorInv'
  BY <1>8 DEF SpuriousWake
<1>9. ASSUME NEW w \in Workers, WorkerMustWait(w) PROVE DtorInv'
  BY <1>9 DEF WorkerMustWait, Free
<1>10. ASSUME NEW w \in Workers, WorkerSleep(w) PROVE DtorInv'
  BY <1>10 DEF WorkerSleep
<1>11. ASSUME NEW w \in Workers, WorkerExit(w) PROVE DtorInv'
  BY <1>11 DEF WorkerExit, Free
<1>12. ASSUME NEW w \in Workers, WorkerPop(w) PROVE DtorInv'
  BY <1>12 DEF WorkerPop, Free
<1>13. ASSUME NEW w \in Workers, WorkerNotify(w) PROVE DtorInv'
  BY <1>13 DEF WorkerNotify, Body, At
<1>14. ASSUME NEW w \in Workers, WorkerFinish(w) PROVE DtorInv'
  BY <1>14 DEF WorkerFinish
<1>15. CASE DtorStore
  BY <1>15 DEF DtorStore
<1>16. CASE DtorNotify
  BY <1>16 DEF DtorNotify
<1>17. CASE DtorJoin
  BY <1>17 DEF DtorJoin
<1>18. CASE UNCHANGED vars
  BY <1>18 DEF vars
<1> QED
  BY <1>1, <1>2, <1>3, <1>4, <1>5, <1>6, <1>7, <1>8, <1>9,
     <1>10, <1>11, <1>12, <1>13, <1>14, <1>15, <1>16, <1>17, <1>18
     DEF Next, Submit, Work

\* Every step keeps the queue empty once a worker has left.
LEMMA ExitStep == IInv /\ [Next]_vars => ExitInv'
<1> SUFFICES ASSUME IInv, [Next]_vars PROVE ExitInv'
  OBVIOUS
<1> USE PoolAssumption
    DEF IInv, TypeOK, LockInv, DtorInv, ExitInv, MissInv, QueueBounded,
        HasRoom, Free, Threads, shared, ghosts
<1>1. ASSUME NEW c \in Clients, NEW t \in Roots, SubmitCall(c, t) PROVE ExitInv'
  BY <1>1 DEF SubmitCall, Roots
<1>2. ASSUME NEW p \in Threads, SubmitThrow(p) PROVE ExitInv'
  BY <1>2 DEF SubmitThrow, Returned, Forgotten, Arg
<1>3. ASSUME NEW p \in Threads, SubmitMustWait(p) PROVE ExitInv'
  BY <1>3 DEF SubmitMustWait, Free
<1>4. ASSUME NEW p \in Threads, SubmitSleep(p) PROVE ExitInv'
  BY <1>4 DEF SubmitSleep
<1>5. ASSUME NEW p \in Threads, SubmitHasRoom(p) PROVE ExitInv'
  BY <1>5 DEF SubmitHasRoom, Free
<1>6. ASSUME NEW p \in Threads, SubmitPush(p) PROVE ExitInv'
  BY <1>6 DEF SubmitPush, Arg
<1>7. ASSUME NEW p \in Threads, SubmitNotify(p) PROVE ExitInv'
  BY <1>7 DEF SubmitNotify, Returned, Forgotten, At
<1>8. ASSUME NEW p \in Threads, SpuriousWake(p) PROVE ExitInv'
  BY <1>8 DEF SpuriousWake
<1>9. ASSUME NEW w \in Workers, WorkerMustWait(w) PROVE ExitInv'
  BY <1>9 DEF WorkerMustWait, Free
<1>10. ASSUME NEW w \in Workers, WorkerSleep(w) PROVE ExitInv'
  BY <1>10 DEF WorkerSleep
<1>11. ASSUME NEW w \in Workers, WorkerExit(w) PROVE ExitInv'
  BY <1>11 DEF WorkerExit, Free
<1>12. ASSUME NEW w \in Workers, WorkerPop(w) PROVE ExitInv'
  BY <1>12 DEF WorkerPop, Free
<1>13. ASSUME NEW w \in Workers, WorkerNotify(w) PROVE ExitInv'
  BY <1>13 DEF WorkerNotify, Body, At
<1>14. ASSUME NEW w \in Workers, WorkerFinish(w) PROVE ExitInv'
  BY <1>14 DEF WorkerFinish
<1>15. CASE DtorStore
  BY <1>15 DEF DtorStore
<1>16. CASE DtorNotify
  BY <1>16 DEF DtorNotify
<1>17. CASE DtorJoin
  BY <1>17 DEF DtorJoin
<1>18. CASE UNCHANGED vars
  BY <1>18 DEF vars
<1> QED
  BY <1>1, <1>2, <1>3, <1>4, <1>5, <1>6, <1>7, <1>8, <1>9,
     <1>10, <1>11, <1>12, <1>13, <1>14, <1>15, <1>16, <1>17, <1>18
     DEF Next, Submit, Work

\* Every step keeps all workers but one awake after the notification.
LEMMA MissStep == IInv /\ [Next]_vars => MissInv'
<1> SUFFICES ASSUME IInv, [Next]_vars PROVE MissInv'
  OBVIOUS
<1> USE PoolAssumption
    DEF IInv, TypeOK, LockInv, DtorInv, ExitInv, MissInv, QueueBounded,
        HasRoom, Free, Threads, shared, ghosts
<1>1. ASSUME NEW c \in Clients, NEW t \in Roots, SubmitCall(c, t) PROVE MissInv'
  BY <1>1 DEF SubmitCall, Roots
<1>2. ASSUME NEW p \in Threads, SubmitThrow(p) PROVE MissInv'
  BY <1>2 DEF SubmitThrow, Returned, Forgotten, Arg
<1>3. ASSUME NEW p \in Threads, SubmitMustWait(p) PROVE MissInv'
  BY <1>3 DEF SubmitMustWait, Free
<1>4. ASSUME NEW p \in Threads, SubmitSleep(p) PROVE MissInv'
  BY <1>4 DEF SubmitSleep
<1>5. ASSUME NEW p \in Threads, SubmitHasRoom(p) PROVE MissInv'
  BY <1>5 DEF SubmitHasRoom, Free
<1>6. ASSUME NEW p \in Threads, SubmitPush(p) PROVE MissInv'
  BY <1>6 DEF SubmitPush, Arg
<1>7. ASSUME NEW p \in Threads, SubmitNotify(p) PROVE MissInv'
  BY <1>7 DEF SubmitNotify, Returned, Forgotten, At
<1>8. ASSUME NEW p \in Threads, SpuriousWake(p) PROVE MissInv'
  BY <1>8 DEF SpuriousWake
<1>9. ASSUME NEW w \in Workers, WorkerMustWait(w) PROVE MissInv'
  BY <1>9 DEF WorkerMustWait, Free
<1>10. ASSUME NEW w \in Workers, WorkerSleep(w) PROVE MissInv'
  BY <1>10 DEF WorkerSleep
<1>11. ASSUME NEW w \in Workers, WorkerExit(w) PROVE MissInv'
  BY <1>11 DEF WorkerExit, Free
<1>12. ASSUME NEW w \in Workers, WorkerPop(w) PROVE MissInv'
  BY <1>12 DEF WorkerPop, Free
<1>13. ASSUME NEW w \in Workers, WorkerNotify(w) PROVE MissInv'
  BY <1>13 DEF WorkerNotify, Body, At
<1>14. ASSUME NEW w \in Workers, WorkerFinish(w) PROVE MissInv'
  BY <1>14 DEF WorkerFinish
<1>15. CASE DtorStore
  BY <1>15 DEF DtorStore
<1>16. CASE DtorNotify
  BY <1>16 DEF DtorNotify
<1>17. CASE DtorJoin
  BY <1>17 DEF DtorJoin
<1>18. CASE UNCHANGED vars
  BY <1>18 DEF vars
<1> QED
  BY <1>1, <1>2, <1>3, <1>4, <1>5, <1>6, <1>7, <1>8, <1>9,
     <1>10, <1>11, <1>12, <1>13, <1>14, <1>15, <1>16, <1>17, <1>18
     DEF Next, Submit, Work

\* Every step keeps the bound of the queue.
LEMMA BoundStep == IInv /\ [Next]_vars => QueueBounded'
<1> SUFFICES ASSUME IInv, [Next]_vars PROVE QueueBounded'
  OBVIOUS
<1> USE PoolAssumption
    DEF IInv, TypeOK, LockInv, DtorInv, ExitInv, MissInv, QueueBounded,
        HasRoom, Free, Threads, shared, ghosts
<1>1. ASSUME NEW c \in Clients, NEW t \in Roots, SubmitCall(c, t) PROVE QueueBounded'
  BY <1>1 DEF SubmitCall, Roots
<1>2. ASSUME NEW p \in Threads, SubmitThrow(p) PROVE QueueBounded'
  BY <1>2 DEF SubmitThrow, Returned, Forgotten, Arg
<1>3. ASSUME NEW p \in Threads, SubmitMustWait(p) PROVE QueueBounded'
  BY <1>3 DEF SubmitMustWait, Free
<1>4. ASSUME NEW p \in Threads, SubmitSleep(p) PROVE QueueBounded'
  BY <1>4 DEF SubmitSleep
<1>5. ASSUME NEW p \in Threads, SubmitHasRoom(p) PROVE QueueBounded'
  BY <1>5 DEF SubmitHasRoom, Free
<1>6. ASSUME NEW p \in Threads, SubmitPush(p) PROVE QueueBounded'
  BY <1>6 DEF SubmitPush, Arg
<1>7. ASSUME NEW p \in Threads, SubmitNotify(p) PROVE QueueBounded'
  BY <1>7 DEF SubmitNotify, Returned, Forgotten, At
<1>8. ASSUME NEW p \in Threads, SpuriousWake(p) PROVE QueueBounded'
  BY <1>8 DEF SpuriousWake
<1>9. ASSUME NEW w \in Workers, WorkerMustWait(w) PROVE QueueBounded'
  BY <1>9 DEF WorkerMustWait, Free
<1>10. ASSUME NEW w \in Workers, WorkerSleep(w) PROVE QueueBounded'
  BY <1>10 DEF WorkerSleep
<1>11. ASSUME NEW w \in Workers, WorkerExit(w) PROVE QueueBounded'
  BY <1>11 DEF WorkerExit, Free
<1>12. ASSUME NEW w \in Workers, WorkerPop(w) PROVE QueueBounded'
  BY <1>12 DEF WorkerPop, Free
<1>13. ASSUME NEW w \in Workers, WorkerNotify(w) PROVE QueueBounded'
  BY <1>13 DEF WorkerNotify, Body, At
<1>14. ASSUME NEW w \in Workers, WorkerFinish(w) PROVE QueueBounded'
  BY <1>14 DEF WorkerFinish
<1>15. CASE DtorStore
  BY <1>15 DEF DtorStore
<1>16. CASE DtorNotify
  BY <1>16 DEF DtorNotify
<1>17. CASE DtorJoin
  BY <1>17 DEF DtorJoin
<1>18. CASE UNCHANGED vars
  BY <1>18 DEF vars
<1> QED
  BY <1>1, <1>2, <1>3, <1>4, <1>5, <1>6, <1>7, <1>8, <1>9,
     <1>10, <1>11, <1>12, <1>13, <1>14, <1>15, <1>16, <1>17, <1>18
     DEF Next, Submit, Work

\* The invariant holds in every reachable state.
LEMMA Inductive == Spec => []IInv
<1>1. IInv /\ [Next]_vars => IInv'
  BY TypeStep, LockStep, DtorStep, ExitStep, MissStep, BoundStep DEF IInv
<1> QED
  BY <1>1, Initially, PTL DEF Spec

-----------------------------------------------------------------------------
\* Type correctness of the pool.
THEOREM TypeCorrect == Spec => []TypeOK
<1>1. IInv => TypeOK
  BY DEF IInv
<1> QED
  BY <1>1, Inductive, PTL

\* submit() keeps the queue within max_queue_size_.
THEOREM QueueStaysBounded == Spec => []QueueBounded
<1>1. IInv => QueueBounded
  BY DEF IInv
<1> QED
  BY <1>1, Inductive, PTL

\* submit() accepts no task that all workers have already turned away from,
\* although the destructor sets stop_ without the mutex.
THEOREM NoTaskOrphaned == Spec => []NoOrphan
<1>1. IInv => NoOrphan
  BY DEF IInv, ExitInv, NoOrphan, At
<1> QED
  BY <1>1, Inductive, PTL

-----------------------------------------------------------------------------
(* Counting the threads at a program point                                 *)

\* The threads at a program point are finitely many.
LEMMA AtFinite ==
    ASSUME NEW label
    PROVE  /\ IsFiniteSet(At(label)) /\ Cardinality(At(label)) \in Nat
           /\ IsFiniteSet(At(label)') /\ Cardinality(At(label)') \in Nat
<1>1. IsFiniteSet(Threads)
  BY PoolAssumption, FS_Union DEF Threads
<1>2. At(label) \subseteq Threads /\ At(label)' \subseteq Threads
  BY DEF At
<1> QED
  BY <1>1, <1>2, FS_Subset, FS_CardinalityType

\* A thread that arrives at a program point adds one to those there.
LEMMA AtArrive ==
    ASSUME NEW p \in Threads, NEW label, pc[p] # label,
           At(label)' = At(label) \cup {p}
    PROVE  Cardinality(At(label)') = Cardinality(At(label)) + 1
<1>1. p \notin At(label)
  BY DEF At
<1> QED
  BY <1>1, AtFinite, FS_AddElement

\* A thread that leaves a program point takes one from those there.
LEMMA AtLeave ==
    ASSUME NEW p \in Threads, NEW label, pc[p] = label,
           At(label)' = At(label) \ {p}
    PROVE  Cardinality(At(label)') = Cardinality(At(label)) - 1
<1>1. p \in At(label)
  BY DEF At
<1> QED
  BY <1>1, AtFinite, FS_RemoveElement

\* The destructor's notification misses at most one worker, however many
\* there are.
THEOREM MissesAtMostOne == Spec => []AtMostOneMissed
<1>1. ASSUME IInv PROVE AtMostOneMissed
  <2> SUFFICES ASSUME dtor \in {"joining", "joined"}
               PROVE  Cardinality(At("asleep") \cup At("doze")) <= 1
    BY DEF AtMostOneMissed
  <2> DEFINE S == At("asleep") \cup At("doze")
  <2>1. \A p, q \in S : p = q
    BY <1>1 DEF IInv, MissInv, At
  <2>2. CASE S = {}
    BY <2>2, FS_EmptySet
  <2>3. CASE S # {}
    <3>1. PICK p : S = {p}
      BY <2>1, <2>3
    <3> QED
      BY <3>1, FS_Singleton
  <2> QED
    BY <2>2, <2>3
<1> QED
  BY <1>1, Inductive, PTL

-----------------------------------------------------------------------------
\* Every step keeps a worker or a notification under way for every queued task.
LEMMA StrandedTaskStep ==
    IInv /\ NoStrandedTask /\ [Next]_vars => NoStrandedTask'
<1> SUFFICES ASSUME IInv, NoStrandedTask, [Next]_vars, At("asleep")' # {}
             PROVE  Len(tasks_') <= Cardinality(At("take")')
                                    + Cardinality(At("signal")')
  BY DEF NoStrandedTask
<1> DEFINE take == Cardinality(At("take"))
           signal == Cardinality(At("signal"))
           Goal == Len(tasks_') <= Cardinality(At("take")')
                                   + Cardinality(At("signal")')
<1>0. /\ TypeOK
      /\ take \in Nat /\ signal \in Nat
      /\ Cardinality(At("take")') \in Nat /\ Cardinality(At("signal")') \in Nat
      /\ Len(tasks_) \in Nat
      /\ At("asleep") # {} => Len(tasks_) <= take + signal
  BY AtFinite DEF IInv, TypeOK, NoStrandedTask
<1>1. ASSUME tasks_' = tasks_, At("asleep")' = At("asleep"),
             At("take")' = At("take"), At("signal")' = At("signal")
      PROVE  Goal
  BY <1>0, <1>1
<1>2. ASSUME tasks_' = << >> PROVE Goal
  BY <1>0, <1>2
<1>3. ASSUME NEW c \in Clients, NEW t \in Roots, SubmitCall(c, t) PROVE Goal
  <2>1. /\ tasks_' = tasks_ /\ At("asleep")' = At("asleep")
        /\ At("take")' = At("take") /\ At("signal")' = At("signal")
    BY <1>0, <1>3 DEF SubmitCall, At, TypeOK, Threads
  <2> QED
    BY <1>1, <2>1
<1>4. ASSUME NEW p \in Threads,
             \/ SubmitThrow(p) \/ SubmitMustWait(p) \/ SubmitSleep(p)
             \/ SubmitHasRoom(p)
      PROVE  Goal
  <2>1. pc[p] \in {"submit", "hold"}
    BY <1>4 DEF SubmitThrow, SubmitMustWait, SubmitSleep, SubmitHasRoom
  <2>2. \E l \in {"tail", "idle", "hold", "blocked", "push"} :
            pc' = [pc EXCEPT ![p] = l]
    BY <1>4 DEF SubmitThrow, SubmitMustWait, SubmitSleep, SubmitHasRoom, Returned
  <2>3. tasks_' = tasks_
    BY <1>4 DEF SubmitThrow, SubmitMustWait, SubmitSleep, SubmitHasRoom
  <2>4. /\ At("asleep")' = At("asleep")
        /\ At("take")' = At("take") /\ At("signal")' = At("signal")
    BY <1>0, <2>1, <2>2 DEF At, TypeOK
  <2> QED
    BY <1>1, <2>3, <2>4
<1>5. ASSUME NEW p \in Threads, SubmitPush(p) PROVE Goal
  <2>1. /\ At("asleep")' = At("asleep") /\ At("take")' = At("take")
        /\ At("signal")' = At("signal") \cup {p}
        /\ pc[p] # "signal"
    BY <1>0, <1>5 DEF SubmitPush, At, TypeOK
  <2>2. Cardinality(At("signal")') = signal + 1
    BY <2>1, AtArrive
  <2>3. Len(tasks_') = Len(tasks_) + 1
    BY <1>0, <1>5, ArgTask DEF SubmitPush, TypeOK, Calling
  <2> QED
    BY <1>0, <2>1, <2>2, <2>3
<1>6. ASSUME NEW p \in Threads, SubmitNotify(p) PROVE Goal
  <2>1. PICK w \in At("asleep") : pc' = [Returned(p) EXCEPT ![w] = "take"]
    <3>1. CASE At("asleep") = {} /\ pc' = Returned(p)
      BY <1>0, <3>1 DEF Returned, At, TypeOK
    <3> QED
      BY <1>6, <3>1 DEF SubmitNotify
  <2>2. w \in Threads /\ pc[w] = "asleep" /\ pc[p] = "signal" /\ w # p
    BY <1>6 DEF At, SubmitNotify
  <2>3. /\ At("take")' = At("take") \cup {w}
        /\ At("signal")' = At("signal") \ {p}
    BY <1>0, <2>1, <2>2 DEF Returned, At, TypeOK
  <2>4. /\ Cardinality(At("take")') = take + 1
        /\ Cardinality(At("signal")') = signal - 1
    BY <2>2, <2>3, AtArrive, AtLeave
  <2>5. tasks_' = tasks_
    BY <1>6 DEF SubmitNotify
  <2> QED
    BY <1>0, <2>4, <2>5
<1>7. ASSUME NEW p \in Threads, SpuriousWake(p) PROVE Goal
  <2>1. CASE pc[p] = "asleep"
    <3>1. At("take")' = At("take") \cup {p} /\ At("signal")' = At("signal")
      BY <1>0, <1>7, <2>1 DEF SpuriousWake, At, TypeOK
    <3>2. Cardinality(At("take")') = take + 1
      BY <2>1, <3>1, AtArrive
    <3>3. tasks_' = tasks_ /\ At("asleep") # {}
      BY <1>7, <2>1 DEF SpuriousWake, At
    <3> QED
      BY <1>0, <3>1, <3>2, <3>3
  <2>2. CASE pc[p] = "blocked"
    <3>1. /\ tasks_' = tasks_ /\ At("asleep")' = At("asleep")
          /\ At("take")' = At("take") /\ At("signal")' = At("signal")
      BY <1>0, <1>7, <2>2 DEF SpuriousWake, At, TypeOK
    <3> QED
      BY <1>1, <3>1
  <2> QED
    BY <1>7, <2>1, <2>2 DEF SpuriousWake
<1>8. ASSUME NEW w \in Workers,
             WorkerMustWait(w) \/ WorkerSleep(w) \/ WorkerExit(w)
      PROVE  Goal
  <2>1. tasks_' = << >>
    BY <1>8 DEF WorkerMustWait, WorkerSleep, WorkerExit, IInv, LockInv, Threads
  <2> QED
    BY <1>2, <2>1
<1>9. ASSUME NEW w \in Workers, WorkerPop(w) PROVE Goal
  <2>1. /\ At("asleep")' = At("asleep") /\ At("signal")' = At("signal")
        /\ At("take")' = At("take") \ {w}
        /\ pc[w] = "take" /\ w \in Threads
    BY <1>0, <1>9 DEF WorkerPop, At, TypeOK, Threads
  <2>2. Cardinality(At("take")') = take - 1
    BY <2>1, AtLeave
  <2>3. Len(tasks_') = Len(tasks_) - 1
    BY <1>0, <1>9 DEF WorkerPop, TypeOK
  <2> QED
    BY <1>0, <2>1, <2>2, <2>3
<1>10. ASSUME NEW w \in Workers, WorkerNotify(w) PROVE Goal
  <2>1. tasks_' = tasks_ /\ pc[w] = "freed" /\ w \in Threads
    BY <1>10 DEF WorkerNotify, Threads
  <2>2. /\ At("asleep")' = At("asleep")
        /\ At("take")' = At("take") /\ At("signal")' = At("signal")
    <3>1. Body(w) \in {"tail", "submit"}
      BY DEF Body
    <3>2. CASE pc' = [pc EXCEPT ![w] = Body(w)]
      BY <1>0, <2>1, <3>1, <3>2 DEF At, TypeOK
    <3>3. ASSUME NEW p \in At("blocked"),
                 pc' = [pc EXCEPT ![w] = Body(w), ![p] = "submit"]
          PROVE  /\ At("asleep")' = At("asleep")
                 /\ At("take")' = At("take") /\ At("signal")' = At("signal")
      <4>1. p \in Threads /\ pc[p] = "blocked"
        BY DEF At
      <4> QED
        BY <1>0, <2>1, <3>1, <3>3, <4>1 DEF At, TypeOK
    <3> QED
      BY <1>10, <3>2, <3>3 DEF WorkerNotify
  <2> QED
    BY <1>1, <2>1, <2>2
<1>11. ASSUME NEW w \in Workers, WorkerFinish(w) PROVE Goal
  <2>1. /\ tasks_' = tasks_ /\ At("asleep")' = At("asleep")
        /\ At("signal")' = At("signal")
        /\ At("take")' = At("take") \cup {w}
        /\ pc[w] # "take" /\ w \in Threads
    BY <1>0, <1>11 DEF WorkerFinish, At, TypeOK, Threads
  <2>2. Cardinality(At("take")') = take + 1
    BY <2>1, AtArrive
  <2> QED
    BY <1>0, <2>1, <2>2
<1>12. CASE DtorNotify
  BY <1>12 DEF DtorNotify, At
<1>13. CASE DtorStore \/ DtorJoin \/ UNCHANGED vars
  <2>1. tasks_' = tasks_ /\ pc' = pc
    BY <1>13 DEF DtorStore, DtorJoin, vars
  <2> QED
    BY <1>1, <2>1 DEF At
<1> QED
  BY <1>3, <1>4, <1>5, <1>6, <1>7, <1>8, <1>9, <1>10, <1>11, <1>12, <1>13
     DEF Next, Submit, Work

\* No task is left to workers that all sleep: notifying after the mutex was
\* released is enough, however submits, workers and destructor interleave.
THEOREM NoTaskStranded == Spec => []NoStrandedTask
<1>1. Init => NoStrandedTask
  BY DEF Init, NoStrandedTask, At, Threads
<1> QED
  BY <1>1, StrandedTaskStep, Inductive, PTL DEF Spec

-----------------------------------------------------------------------------
\* Every step keeps a caller or a notification under way for every free place
\* of the queue.
LEMMA StrandedProducerStep ==
    IInv /\ NoStrandedProducer /\ [Next]_vars => NoStrandedProducer'
<1> SUFFICES ASSUME IInv, NoStrandedProducer, [Next]_vars,
                    ~stop_', At("blocked")' # {}
             PROVE  MaxQueueSize - Len(tasks_') <=
                        Cardinality(At("submit")') + Cardinality(At("push")')
                        + Cardinality(At("freed")')
  BY DEF NoStrandedProducer
<1> DEFINE submit == Cardinality(At("submit"))
           push == Cardinality(At("push"))
           freed == Cardinality(At("freed"))
           Goal == MaxQueueSize - Len(tasks_') <=
                        Cardinality(At("submit")') + Cardinality(At("push")')
                        + Cardinality(At("freed")')
<1>0. /\ TypeOK
      /\ submit \in Nat /\ push \in Nat /\ freed \in Nat
      /\ Cardinality(At("submit")') \in Nat /\ Cardinality(At("push")') \in Nat
      /\ Cardinality(At("freed")') \in Nat
      /\ Len(tasks_) \in Nat /\ MaxQueueSize \in Nat
      /\ ~stop_ /\ At("blocked") # {} =>
            MaxQueueSize - Len(tasks_) <= submit + push + freed
  BY AtFinite, PoolAssumption, SMTT(30) DEF IInv, TypeOK, NoStrandedProducer
<1>1. ASSUME tasks_' = tasks_, ~stop_, At("blocked")' = At("blocked"),
             At("submit")' = At("submit"), At("push")' = At("push"),
             At("freed")' = At("freed")
      PROVE  Goal
  BY <1>0, <1>1
<1>2. ASSUME tasks_' = tasks_, ~HasRoom PROVE Goal
  BY <1>0, <1>2 DEF HasRoom
<1>3. ASSUME NEW c \in Clients, NEW t \in Roots, SubmitCall(c, t) PROVE Goal
  <2>1. /\ tasks_' = tasks_ /\ ~stop_ /\ At("blocked")' = At("blocked")
        /\ At("push")' = At("push") /\ At("freed")' = At("freed")
        /\ At("submit")' = At("submit") \cup {c}
        /\ pc[c] # "submit" /\ c \in Threads
    BY <1>0, <1>3 DEF SubmitCall, At, TypeOK, Threads, shared
  <2>2. Cardinality(At("submit")') = submit + 1
    BY <2>1, AtArrive
  <2> QED
    BY <1>0, <2>1, <2>2
<1>4. ASSUME NEW p \in Threads, SubmitThrow(p) PROVE Goal
  BY <1>4 DEF SubmitThrow, shared
<1>5. ASSUME NEW p \in Threads, SubmitMustWait(p) \/ SubmitSleep(p) PROVE Goal
  <2>1. tasks_' = tasks_ /\ ~HasRoom
    BY <1>5 DEF SubmitMustWait, SubmitSleep, IInv, LockInv
  <2> QED
    BY <1>2, <2>1
<1>6. ASSUME NEW p \in Threads, SubmitHasRoom(p) PROVE Goal
  <2>1. /\ tasks_' = tasks_ /\ ~stop_ /\ At("blocked")' = At("blocked")
        /\ At("freed")' = At("freed")
        /\ At("submit")' = At("submit") \ {p} /\ pc[p] = "submit"
        /\ At("push")' = At("push") \cup {p}
    BY <1>0, <1>6 DEF SubmitHasRoom, At, TypeOK
  <2>2. /\ Cardinality(At("submit")') = submit - 1
        /\ Cardinality(At("push")') = push + 1
    BY <2>1, AtArrive, AtLeave
  <2> QED
    BY <1>0, <2>1, <2>2, SMTT(30)
<1>7. ASSUME NEW p \in Threads, SubmitPush(p) PROVE Goal
  <2>1. /\ ~stop_ /\ At("blocked")' = At("blocked")
        /\ At("submit")' = At("submit") /\ At("freed")' = At("freed")
        /\ At("push")' = At("push") \ {p} /\ pc[p] = "push"
    BY <1>0, <1>7 DEF SubmitPush, At, TypeOK, shared
  <2>2. Cardinality(At("push")') = push - 1
    BY <2>1, AtLeave
  <2>3. Len(tasks_') = Len(tasks_) + 1
    BY <1>0, <1>7, ArgTask DEF SubmitPush, TypeOK, Calling
  <2> QED
    BY <1>0, <2>1, <2>2, <2>3
<1>8. ASSUME NEW p \in Threads, SubmitNotify(p) PROVE Goal
  <2>1. tasks_' = tasks_ /\ ~stop_ /\ pc[p] = "signal"
    BY <1>8 DEF SubmitNotify, shared
  <2>2. PICK l \in {"tail", "idle"} :
            Returned(p) = [pc EXCEPT ![p] = l]
    BY DEF Returned
  <2>3. /\ At("blocked")' = At("blocked") /\ At("submit")' = At("submit")
        /\ At("push")' = At("push") /\ At("freed")' = At("freed")
    <3>1. CASE pc' = Returned(p)
      BY <1>0, <2>1, <2>2, <3>1 DEF At, TypeOK
    <3>2. ASSUME NEW w \in At("asleep"),
                 pc' = [Returned(p) EXCEPT ![w] = "take"]
          PROVE  /\ At("blocked")' = At("blocked")
                 /\ At("submit")' = At("submit")
                 /\ At("push")' = At("push") /\ At("freed")' = At("freed")
      <4>1. w \in Threads /\ pc[w] = "asleep"
        BY DEF At
      <4> QED
        BY <1>0, <2>1, <2>2, <3>2, <4>1 DEF At, TypeOK
    <3> QED
      BY <1>8, <3>1, <3>2 DEF SubmitNotify
  <2> QED
    BY <1>1, <2>1, <2>3
<1>9. ASSUME NEW p \in Threads, SpuriousWake(p) PROVE Goal
  <2>1. tasks_' = tasks_ /\ ~stop_
    BY <1>9 DEF SpuriousWake, shared
  <2>2. CASE pc[p] = "blocked"
    <3>1. /\ At("submit")' = At("submit") \cup {p}
          /\ At("push")' = At("push") /\ At("freed")' = At("freed")
          /\ At("blocked") # {}
      BY <1>0, <1>9, <2>2 DEF SpuriousWake, At, TypeOK
    <3>2. Cardinality(At("submit")') = submit + 1
      BY <2>2, <3>1, AtArrive
    <3> QED
      BY <1>0, <2>1, <3>1, <3>2
  <2>3. CASE pc[p] = "asleep"
    <3>1. /\ At("blocked")' = At("blocked") /\ At("submit")' = At("submit")
          /\ At("push")' = At("push") /\ At("freed")' = At("freed")
      BY <1>0, <1>9, <2>3 DEF SpuriousWake, At, TypeOK
    <3> QED
      BY <1>1, <2>1, <3>1
  <2> QED
    BY <1>9, <2>2, <2>3 DEF SpuriousWake
<1>10. ASSUME NEW w \in Workers,
              \/ WorkerMustWait(w) \/ WorkerSleep(w) \/ WorkerExit(w)
              \/ WorkerFinish(w)
       PROVE  Goal
  <2>1. /\ tasks_' = tasks_ /\ ~stop_ /\ w \in Threads
        /\ pc[w] \in {"take", "doze", "tail"}
    BY <1>10 DEF WorkerMustWait, WorkerSleep, WorkerExit, WorkerFinish, shared,
                 Threads
  <2>2. \E l \in {"doze", "asleep", "exited", "take"} :
            pc' = [pc EXCEPT ![w] = l]
    BY <1>10 DEF WorkerMustWait, WorkerSleep, WorkerExit, WorkerFinish
  <2>3. /\ At("blocked")' = At("blocked") /\ At("submit")' = At("submit")
        /\ At("push")' = At("push") /\ At("freed")' = At("freed")
    BY <1>0, <2>1, <2>2 DEF At, TypeOK
  <2> QED
    BY <1>1, <2>1, <2>3
<1>11. ASSUME NEW w \in Workers, WorkerPop(w) PROVE Goal
  <2>1. /\ ~stop_ /\ At("blocked")' = At("blocked")
        /\ At("submit")' = At("submit") /\ At("push")' = At("push")
        /\ At("freed")' = At("freed") \cup {w}
        /\ pc[w] # "freed" /\ w \in Threads
    BY <1>0, <1>11 DEF WorkerPop, At, TypeOK, Threads, shared
  <2>2. Cardinality(At("freed")') = freed + 1
    BY <2>1, AtArrive
  <2>3. Len(tasks_') = Len(tasks_) - 1
    BY <1>0, <1>11 DEF WorkerPop, TypeOK
  <2> QED
    BY <1>0, <2>1, <2>2, <2>3
<1>12. ASSUME NEW w \in Workers, WorkerNotify(w) PROVE Goal
  <2>1. /\ tasks_' = tasks_ /\ ~stop_ /\ pc[w] = "freed" /\ w \in Threads
        /\ Body(w) \in {"tail", "submit"}
    BY <1>12 DEF WorkerNotify, Threads, shared, Body
  <2>2. PICK p \in At("blocked") :
            pc' = [pc EXCEPT ![w] = Body(w), ![p] = "submit"]
    <3>1. CASE At("blocked") = {} /\ pc' = [pc EXCEPT ![w] = Body(w)]
      BY <1>0, <2>1, <3>1 DEF At, TypeOK
    <3> QED
      BY <1>12, <3>1 DEF WorkerNotify
  <2>3. p \in Threads /\ pc[p] = "blocked" /\ p # w
    BY <2>1 DEF At
  <2>4. /\ At("freed")' = At("freed") \ {w}
        /\ At("push")' = At("push")
    BY <1>0, <2>1, <2>2, <2>3 DEF At, TypeOK
  <2>5. Cardinality(At("freed")') = freed - 1
    BY <2>1, <2>4, AtLeave
  <2>6. Cardinality(At("submit")') >= submit + 1
    <3>1. Cardinality(At("submit") \cup {p}) = submit + 1
      <4>1. p \notin At("submit")
        BY <2>3 DEF At
      <4> QED
        BY <4>1, AtFinite, FS_AddElement
    <3>2. At("submit") \cup {p} \subseteq At("submit")'
      BY <1>0, <2>1, <2>2, <2>3 DEF At, TypeOK
    <3>3. Cardinality(At("submit") \cup {p}) <= Cardinality(At("submit")')
      BY <3>2, AtFinite, FS_Subset
    <3> QED
      BY <1>0, <3>1, <3>3
  <2>7. At("blocked") # {}
    BY <2>2
  <2> QED
    BY <1>0, <2>1, <2>4, <2>5, <2>6, <2>7
<1>13. CASE DtorStore \/ DtorNotify \/ DtorJoin
  BY <1>13 DEF DtorStore, DtorNotify, DtorJoin, IInv, DtorInv
<1>14. CASE UNCHANGED vars
  BY <1>1, <1>14 DEF vars, At
<1> QED
  BY <1>3, <1>4, <1>5, <1>6, <1>7, <1>8, <1>9, <1>10, <1>11, <1>12, <1>13,
     <1>14 DEF Next, Submit, Work

\* No caller is left to wait beside a free place: notifying one caller after
\* the mutex was released is enough while the pool is not stopped.
THEOREM NoProducerStranded == Spec => []NoStrandedProducer
<1>1. Init => NoStrandedProducer
  BY DEF Init, NoStrandedProducer, At, Threads
<1> QED
  BY <1>1, StrandedProducerStep, Inductive, PTL DEF Spec

-----------------------------------------------------------------------------
(***************************************************************************)
(* Every accepted task runs exactly once, and the destructor joins the     *)
(* workers only after all of them: for any number of workers and clients,  *)
(* any tasks that submit others and any queue bound.                       *)
(***************************************************************************)

\* Between the call of submit(), or the start of a body that calls it, and
\* the decision to accept or to refuse.
Pending(p) ==
    \/ pc[p] \in {"submit", "hold", "blocked", "push"}
    \/ pc[p] = "freed" /\ Child[job[p]] # NoTask

\* Clients submit different tasks, and none that a task's body submits.
RootInv ==
    /\ \A c \in Clients : job[c] # NoTask => job[c] \in Roots
    /\ \A c, d \in Clients : job[c] = job[d] /\ job[c] # NoTask => c = d

\* Nothing is known yet of a task that a caller still brings along.
FreshInv == \A p \in Threads : Pending(p) => Arg(p) \notin accepted \cup refused

\* A body's task is known only when the body has called submit().
ChildInv ==
    \A t \in Tasks :
        Child[t] # NoTask /\ Child[t] \in accepted \cup refused =>
            \/ t \in done
            \/ \E w \in Workers : job[w] = t /\ pc[w] \in {"signal", "tail"}

OnceInv == RootInv /\ FreshInv /\ ChildInv /\ ExactlyOnce

-----------------------------------------------------------------------------
(* Sequences without repetition                                            *)

\* Appending adds one element to the set of a sequence.
LEMMA AppendSet ==
    ASSUME NEW S, NEW s \in Seq(S), NEW e \in S
    PROVE  /\ ToSet(Append(s, e)) = ToSet(s) \cup {e}
           /\ IsInjective(s) /\ e \notin ToSet(s) => IsInjective(Append(s, e))
<1> DEFINE a == Append(s, e)
<1>1. /\ DOMAIN a = 1 .. (Len(s) + 1) /\ DOMAIN s = 1 .. Len(s)
      /\ Len(s) \in Nat
      /\ \A i \in 1 .. Len(s) : a[i] = s[i]
      /\ a[Len(s) + 1] = e
  OBVIOUS
<1> HIDE DEF a
<1>2. ToSet(a) = ToSet(s) \cup {e}
  <2>1. \A i \in DOMAIN a : i \in DOMAIN s \/ i = Len(s) + 1
    BY <1>1
  <2>2. DOMAIN s \subseteq DOMAIN a /\ Len(s) + 1 \in DOMAIN a
    BY <1>1
  <2> QED
    BY <1>1, <2>1, <2>2 DEF ToSet
<1>3. ASSUME IsInjective(s), e \notin ToSet(s) PROVE IsInjective(a)
  <2> SUFFICES ASSUME NEW i \in DOMAIN a, NEW j \in DOMAIN a, a[i] = a[j]
               PROVE  i = j
    BY DEF IsInjective
  <2>1. \A k \in 1 .. Len(s) : a[k] # e
    BY <1>1, <1>3 DEF ToSet
  <2>2. CASE i \in 1 .. Len(s) /\ j \in 1 .. Len(s)
    BY <1>1, <1>3, <2>2 DEF IsInjective
  <2>3. CASE i = Len(s) + 1 \/ j = Len(s) + 1
    BY <1>1, <2>1, <2>3
  <2> QED
    BY <1>1, <2>2, <2>3
<1> QED
  BY <1>2, <1>3 DEF a

\* The tail of a sequence without repetition lacks exactly the head.
LEMMA TailSet ==
    ASSUME NEW S, NEW s \in Seq(S), s # << >>, IsInjective(s)
    PROVE  /\ Head(s) \in ToSet(s)
           /\ ToSet(Tail(s)) = ToSet(s) \ {Head(s)}
           /\ IsInjective(Tail(s))
<1> DEFINE r == Tail(s)
<1>1. /\ Len(s) \in Nat /\ Len(s) >= 1
      /\ DOMAIN s = 1 .. Len(s) /\ DOMAIN r = 1 .. (Len(s) - 1)
      /\ \A i \in 1 .. (Len(s) - 1) : r[i] = s[i + 1]
      /\ Head(s) = s[1]
  OBVIOUS
<1> HIDE DEF r
<1>2. Head(s) \in ToSet(s)
  BY <1>1 DEF ToSet
<1>3. IsInjective(r)
  <2> SUFFICES ASSUME NEW i \in DOMAIN r, NEW j \in DOMAIN r, r[i] = r[j]
               PROVE  i = j
    BY DEF IsInjective
  <2>1. i + 1 \in DOMAIN s /\ j + 1 \in DOMAIN s /\ s[i + 1] = s[j + 1]
    BY <1>1
  <2>2. i + 1 = j + 1
    BY <2>1 DEF IsInjective
  <2> QED
    BY <1>1, <2>2
<1>4. ToSet(r) \subseteq ToSet(s) \ {Head(s)}
  <2> SUFFICES ASSUME NEW i \in DOMAIN r
               PROVE  r[i] \in ToSet(s) /\ r[i] # Head(s)
    BY DEF ToSet
  <2>1. i + 1 \in DOMAIN s /\ 1 \in DOMAIN s /\ i + 1 # 1 /\ r[i] = s[i + 1]
    BY <1>1
  <2> QED
    BY <1>1, <2>1 DEF ToSet, IsInjective
<1>5. ToSet(s) \ {Head(s)} \subseteq ToSet(r)
  <2> SUFFICES ASSUME NEW i \in DOMAIN s, s[i] # Head(s)
               PROVE  s[i] \in ToSet(r)
    BY DEF ToSet
  <2>1. i # 1
    BY <1>1
  <2>2. i - 1 \in DOMAIN r /\ r[i - 1] = s[i]
    BY <1>1, <2>1
  <2> QED
    BY <2>2 DEF ToSet
<1> QED
  BY <1>2, <1>3, <1>4, <1>5 DEF r

-----------------------------------------------------------------------------
\* The constructor leaves nothing known and nothing under way.
LEMMA OnceInitially == Init => OnceInv
<1> SUFFICES ASSUME Init PROVE OnceInv
  OBVIOUS
<1>1. RootInv /\ FreshInv /\ ChildInv
  BY DEF Init, RootInv, FreshInv, ChildInv, Threads
<1>2. ToSet(<< >>) = {} /\ IsInjective(<< >>)
  BY DEF ToSet, IsInjective
<1>3. Running = {}
  BY DEF Init, Running, Threads
<1>4. \A v, w \in Workers : job[v] = job[w] /\ job[v] # NoTask => v = w
  BY DEF Init, Threads
<1>5. ExactlyOnce
  BY <1>2, <1>3, <1>4 DEF Init, ExactlyOnce
<1> QED
  BY <1>1, <1>5 DEF OnceInv

\* Two callers never bring along the same task.
LEMMA Distinct ==
    ASSUME IInv, OnceInv, NEW p \in Threads, NEW q \in Threads,
           Pending(p), Pending(q), Arg(p) = Arg(q)
    PROVE  p = q
<1>1. \A w \in Workers : Pending(w) =>
          /\ job[w] \in Tasks /\ Child[job[w]] # NoTask
          /\ Arg(w) = Child[job[w]]
  BY PoolAssumption DEF IInv, WorkerInv, Pending, Arg, Looking, Calling
<1>2. \A c \in Clients : Pending(c) =>
          /\ job[c] \in Roots /\ job[c] # NoTask /\ job[c] \in Tasks
          /\ Arg(c) = job[c] /\ c \notin Workers
  BY PoolAssumption DEF IInv, ClientInv, OnceInv, RootInv, Pending, Arg, Calling
<1>3. CASE p \in Workers /\ q \in Workers
  <2>1. job[p] = job[q]
    BY <1>1, <1>3, PoolAssumption
  <2> QED
    BY <1>1, <1>3, <2>1, PoolAssumption DEF OnceInv, ExactlyOnce
<1>4. CASE p \in Clients /\ q \in Clients
  BY <1>2, <1>4 DEF OnceInv, RootInv
<1>5. CASE p \in Workers /\ q \in Clients
  BY <1>1, <1>2, <1>5 DEF Roots
<1>6. CASE p \in Clients /\ q \in Workers
  BY <1>1, <1>2, <1>6 DEF Roots
<1> QED
  BY <1>3, <1>4, <1>5, <1>6 DEF Threads

\* What a step that decides nothing about a task leaves as it is.
LEMMA UndecidedStep ==
    ASSUME IInv, OnceInv,
           tasks_' = tasks_, accepted' = accepted, done' = done,
           refused' = refused,
           \A w \in Workers : job'[w] = job[w],
           \A c \in Clients : \/ job'[c] = job[c]
                              \/ job'[c] = NoTask /\ pc'[c] = "idle",
           \A p \in Threads : Pending(p)' => Pending(p),
           \A w \in Workers : pc[w] \in {"signal", "tail"} =>
                                 pc'[w] \in {"signal", "tail"}
    PROVE  OnceInv'
<1>1. RootInv'
  BY DEF OnceInv, RootInv
<1>2. FreshInv'
  <2> SUFFICES ASSUME NEW p \in Threads, Pending(p)'
               PROVE  Arg(p)' \notin accepted' \cup refused'
    BY DEF FreshInv
  <2>1. Arg(p) \notin accepted \cup refused
    BY DEF OnceInv, FreshInv
  <2>2. CASE p \in Workers
    BY <2>1, <2>2 DEF Arg
  <2>3. CASE p \in Clients /\ p \notin Workers
    <3>1. pc'[p] # "idle"
      BY DEF Pending
    <3> QED
      BY <2>1, <2>3, <3>1 DEF Arg
  <2> QED
    BY <2>2, <2>3 DEF Threads
<1>3. ChildInv'
  BY DEF OnceInv, ChildInv
<1>4. ExactlyOnce'
  <2>1. Running' = Running
    BY DEF Running
  <2> QED
    BY <2>1 DEF OnceInv, ExactlyOnce
<1> QED
  BY <1>1, <1>2, <1>3, <1>4 DEF OnceInv

-----------------------------------------------------------------------------
\* Every step keeps the invariant.
LEMMA OnceStep == IInv /\ OnceInv /\ [Next]_vars => OnceInv'
<1> SUFFICES ASSUME IInv, OnceInv, [Next]_vars PROVE OnceInv'
  OBVIOUS
<1>0. /\ TypeOK /\ RootInv /\ FreshInv /\ ChildInv /\ ExactlyOnce
      /\ ClientInv /\ WorkerInv
  BY DEF IInv, OnceInv
<1>1. ASSUME NEW c \in Clients, NEW t \in Roots, SubmitCall(c, t)
      PROVE  OnceInv'
  <2>1. /\ tasks_' = tasks_ /\ accepted' = accepted /\ done' = done
        /\ refused' = refused
        /\ job' = [job EXCEPT ![c] = t] /\ pc' = [pc EXCEPT ![c] = "submit"]
        /\ t \notin accepted \cup refused
        /\ \A d \in Clients : job[d] # t
        /\ c \in Threads /\ c \notin Workers /\ pc[c] = "idle"
    BY <1>1, PoolAssumption DEF SubmitCall, ghosts, Threads
  <2>2. RootInv'
    BY <1>0, <2>1 DEF TypeOK, RootInv, Threads
  <2>3. \A w \in Workers : job'[w] = job[w] /\ pc'[w] = pc[w]
    BY <1>0, <2>1 DEF TypeOK, Threads
  <2>4. FreshInv'
    <3> SUFFICES ASSUME NEW p \in Threads, Pending(p)'
                 PROVE  Arg(p)' \notin accepted \cup refused
      BY <2>1 DEF FreshInv
    <3>1. CASE p = c
      BY <1>0, <2>1, <3>1 DEF TypeOK, Arg
    <3>2. CASE p # c
      BY <1>0, <2>1, <3>2 DEF TypeOK, Arg, Pending, FreshInv
    <3> QED
      BY <3>1, <3>2
  <2>5. ChildInv'
    BY <1>0, <2>1, <2>3 DEF ChildInv
  <2>6. ExactlyOnce'
    <3>1. Running' = Running
      BY <2>3 DEF Running
    <3> QED
      BY <1>0, <2>1, <2>3, <3>1 DEF ExactlyOnce
  <2> QED
    BY <2>2, <2>4, <2>5, <2>6 DEF OnceInv
<1>2. ASSUME NEW p \in Threads, SubmitThrow(p) PROVE OnceInv'
  <2> DEFINE a == Arg(p)
  <2>1. /\ tasks_' = tasks_ /\ accepted' = accepted /\ done' = done
        /\ refused' = refused \cup {a}
        /\ job' = Forgotten(p) /\ pc' = Returned(p)
        /\ pc[p] = "submit" /\ Pending(p)
    BY <1>2 DEF SubmitThrow, Pending
  <2>2. a \notin accepted \cup refused
    BY <1>0, <2>1 DEF FreshInv
  <2>3. \A w \in Workers : job'[w] = job[w]
    BY <1>0, <2>1 DEF TypeOK, Forgotten, Threads
  <2>4. \A q \in Threads : q # p => job'[q] = job[q] /\ pc'[q] = pc[q]
    BY <1>0, <2>1 DEF TypeOK, Forgotten, Returned
  <2>5. /\ p \in Workers => pc'[p] = "tail"
        /\ p \notin Workers => pc'[p] = "idle" /\ job'[p] = NoTask
    BY <1>0, <2>1 DEF TypeOK, Returned, Forgotten
  <2>6. RootInv'
    BY <1>0, <2>4, <2>5, PoolAssumption DEF RootInv, Threads
  <2>7. FreshInv'
    <3> SUFFICES ASSUME NEW q \in Threads, Pending(q)'
                 PROVE  Arg(q)' \notin accepted \cup refused \cup {a}
      BY <2>1 DEF FreshInv
    <3>1. q # p
      BY <2>5 DEF Pending
    <3>2. Pending(q) /\ Arg(q)' = Arg(q)
      BY <2>4, <3>1 DEF Pending, Arg
    <3>3. Arg(q) # a
      BY <2>1, <3>1, <3>2, Distinct
    <3> QED
      BY <1>0, <3>2, <3>3 DEF FreshInv
  <2>8. ChildInv'
    <3> SUFFICES ASSUME NEW t \in Tasks, Child[t] # NoTask,
                        Child[t] \in accepted \cup refused \cup {a}
                 PROVE  t \in done' \/ \E w \in Workers :
                            job'[w] = t /\ pc'[w] \in {"signal", "tail"}
      BY <2>1 DEF ChildInv
    <3>1. CASE Child[t] = a
      <4>1. CASE p \in Workers
        <5>1. job[p] = t
          BY <1>0, <2>1, <3>1, <4>1, PoolAssumption
             DEF Arg, WorkerInv, Looking, Calling
        <5> QED
          BY <2>3, <2>5, <4>1, <5>1
      <4>2. CASE p \in Clients /\ p \notin Workers
        <5>1. a \in Roots
          BY <1>0, <2>1, <4>2, PoolAssumption
             DEF Arg, RootInv, ClientInv, Calling
        <5> QED
          BY <3>1, <5>1 DEF Roots
      <4> QED
        BY <4>1, <4>2 DEF Threads
    <3>2. CASE Child[t] \in accepted \cup refused
      <4>1. CASE t \in done
        BY <2>1, <4>1
      <4>2. ASSUME NEW w \in Workers, job[w] = t, pc[w] \in {"signal", "tail"}
            PROVE  job'[w] = t /\ pc'[w] \in {"signal", "tail"}
        BY <2>1, <2>3, <2>4, <4>2 DEF Threads
      <4> QED
        BY <1>0, <3>2, <4>1, <4>2 DEF ChildInv
    <3> QED
      BY <3>1, <3>2
  <2>9. ExactlyOnce'
    <3>1. Running' = Running
      BY <2>3 DEF Running
    <3> QED
      BY <1>0, <2>1, <2>2, <2>3, <3>1 DEF ExactlyOnce
  <2> QED
    BY <2>6, <2>7, <2>8, <2>9 DEF OnceInv
<1>3. ASSUME NEW p \in Threads, SubmitPush(p) PROVE OnceInv'
  <2> DEFINE a == Arg(p)
  <2>1. /\ tasks_' = Append(tasks_, a) /\ accepted' = accepted \cup {a}
        /\ done' = done /\ refused' = refused /\ job' = job
        /\ pc' = [pc EXCEPT ![p] = "signal"]
        /\ pc[p] = "push" /\ Pending(p)
    BY <1>3 DEF SubmitPush, Pending
  <2>2. a \in Tasks /\ a \notin accepted \cup refused
    BY <1>0, <2>1, ArgTask DEF FreshInv, Calling
  <2>3. pc'[p] = "signal" /\ \A q \in Threads : q # p => pc'[q] = pc[q]
    BY <1>0, <2>1 DEF TypeOK
  <2>4. RootInv'
    BY <1>0, <2>1 DEF RootInv
  <2>5. FreshInv'
    <3> SUFFICES ASSUME NEW q \in Threads, Pending(q)'
                 PROVE  Arg(q)' \notin accepted \cup {a} \cup refused
      BY <2>1 DEF FreshInv
    <3>1. q # p
      BY <2>3 DEF Pending
    <3>2. Pending(q) /\ Arg(q)' = Arg(q)
      BY <2>1, <2>3, <3>1 DEF Pending, Arg
    <3>3. Arg(q) # a
      BY <2>1, <3>1, <3>2, Distinct
    <3> QED
      BY <1>0, <3>2, <3>3 DEF FreshInv
  <2>6. ChildInv'
    <3> SUFFICES ASSUME NEW t \in Tasks, Child[t] # NoTask,
                        Child[t] \in accepted \cup {a} \cup refused
                 PROVE  t \in done \/ \E w \in Workers :
                            job[w] = t /\ pc'[w] \in {"signal", "tail"}
      BY <2>1 DEF ChildInv
    <3>1. CASE Child[t] = a
      <4>1. CASE p \in Workers
        <5>1. job[p] = t
          BY <1>0, <2>1, <3>1, <4>1, PoolAssumption
             DEF Arg, WorkerInv, Looking, Calling
        <5> QED
          BY <2>3, <4>1, <5>1
      <4>2. CASE p \in Clients /\ p \notin Workers
        <5>1. a \in Roots
          BY <1>0, <2>1, <4>2, PoolAssumption
             DEF Arg, RootInv, ClientInv, Calling
        <5> QED
          BY <3>1, <5>1 DEF Roots
      <4> QED
        BY <4>1, <4>2 DEF Threads
    <3>2. CASE Child[t] \in accepted \cup refused
      <4>1. ASSUME NEW w \in Workers, job[w] = t, pc[w] \in {"signal", "tail"}
            PROVE  job[w] = t /\ pc'[w] \in {"signal", "tail"}
        BY <2>1, <2>3, <4>1 DEF Threads
      <4> QED
        BY <1>0, <3>2, <4>1 DEF ChildInv
    <3> QED
      BY <3>1, <3>2
  <2>7. ExactlyOnce'
    <3>1. Running' = Running
      BY <2>1 DEF Running
    <3>2. tasks_ \in Seq(Tasks) /\ a \notin ToSet(tasks_) /\ IsInjective(tasks_)
      BY <1>0, <2>2 DEF TypeOK, ExactlyOnce
    <3>3. ToSet(tasks_') = ToSet(tasks_) \cup {a} /\ IsInjective(tasks_')
      BY <2>1, <2>2, <3>2, AppendSet
    <3> QED
      BY <1>0, <2>1, <2>2, <3>1, <3>3 DEF ExactlyOnce
  <2> QED
    BY <2>4, <2>5, <2>6, <2>7 DEF OnceInv
<1>4. ASSUME NEW p \in Threads,
             SubmitMustWait(p) \/ SubmitSleep(p) \/ SubmitHasRoom(p)
      PROVE  OnceInv'
  <2>1. /\ tasks_' = tasks_ /\ accepted' = accepted /\ done' = done
        /\ refused' = refused /\ job' = job
        /\ pc[p] \in {"submit", "hold"}
    BY <1>4 DEF SubmitMustWait, SubmitSleep, SubmitHasRoom, ghosts
  <2>2. \E l \in {"hold", "blocked", "push"} : pc' = [pc EXCEPT ![p] = l]
    BY <1>4 DEF SubmitMustWait, SubmitSleep, SubmitHasRoom
  <2>3. \A q \in Threads : Pending(q)' => Pending(q)
    BY <1>0, <2>1, <2>2 DEF TypeOK, Pending
  <2>4. \A w \in Workers : pc[w] \in {"signal", "tail"} =>
                              pc'[w] \in {"signal", "tail"}
    BY <1>0, <2>1, <2>2 DEF TypeOK, Threads
  <2> QED
    BY <2>1, <2>3, <2>4, UndecidedStep
<1>5. ASSUME NEW p \in Threads, SubmitNotify(p) PROVE OnceInv'
  <2>1. /\ tasks_' = tasks_ /\ accepted' = accepted /\ done' = done
        /\ refused' = refused /\ job' = Forgotten(p) /\ pc[p] = "signal"
    BY <1>5 DEF SubmitNotify, ghosts
  <2>2. /\ \A q \in Threads \ {p} : 
              \/ pc'[q] = pc[q]
              \/ pc[q] = "asleep" /\ pc'[q] = "take"
        /\ pc'[p] = IF p \in Workers THEN "tail" ELSE "idle"
    <3>1. CASE pc' = Returned(p)
      BY <1>0, <3>1 DEF TypeOK, Returned
    <3>2. ASSUME NEW w \in At("asleep"),
                 pc' = [Returned(p) EXCEPT ![w] = "take"]
          PROVE  /\ \A q \in Threads \ {p} :
                        \/ pc'[q] = pc[q]
                        \/ pc[q] = "asleep" /\ pc'[q] = "take"
                 /\ pc'[p] = IF p \in Workers THEN "tail" ELSE "idle"
      <4>1. w \in Threads /\ pc[w] = "asleep" /\ w # p
        BY <2>1 DEF At
      <4> QED
        BY <1>0, <3>2, <4>1 DEF TypeOK, Returned
    <3> QED
      BY <1>5, <3>1, <3>2 DEF SubmitNotify
  <2>3. /\ \A w \in Workers : job'[w] = job[w]
        /\ \A c \in Clients : \/ job'[c] = job[c]
                              \/ job'[c] = NoTask /\ pc'[c] = "idle"
    BY <1>0, <2>1, <2>2 DEF TypeOK, Forgotten, Threads
  <2>4. \A q \in Threads : Pending(q)' => Pending(q)
    <3> SUFFICES ASSUME NEW q \in Threads, Pending(q)' PROVE Pending(q)
      OBVIOUS
    <3>1. q # p /\ pc'[q] = pc[q]
      BY <2>2 DEF Pending
    <3>2. job'[q] = job[q]
      BY <1>0, <2>1, <3>1 DEF TypeOK, Forgotten
    <3> QED
      BY <3>1, <3>2 DEF Pending
  <2>5. \A w \in Workers : pc[w] \in {"signal", "tail"} =>
                              pc'[w] \in {"signal", "tail"}
    BY <2>2 DEF Threads
  <2> QED
    BY <2>1, <2>3, <2>4, <2>5, UndecidedStep
<1>6. ASSUME NEW p \in Threads, SpuriousWake(p) PROVE OnceInv'
  <2>1. /\ tasks_' = tasks_ /\ accepted' = accepted /\ done' = done
        /\ refused' = refused /\ job' = job
        /\ pc[p] \in {"asleep", "blocked"}
        /\ pc' = [pc EXCEPT ![p] = IF @ = "asleep" THEN "take" ELSE "submit"]
    BY <1>6 DEF SpuriousWake, ghosts
  <2>2. \A q \in Threads : Pending(q)' => Pending(q)
    BY <1>0, <2>1 DEF TypeOK, Pending
  <2>3. \A w \in Workers : pc[w] \in {"signal", "tail"} =>
                              pc'[w] \in {"signal", "tail"}
    BY <1>0, <2>1 DEF TypeOK, Threads
  <2> QED
    BY <2>1, <2>2, <2>3, UndecidedStep
<1>7. ASSUME NEW w \in Workers,
             WorkerMustWait(w) \/ WorkerSleep(w) \/ WorkerExit(w)
      PROVE  OnceInv'
  <2>1. /\ tasks_' = tasks_ /\ accepted' = accepted /\ done' = done
        /\ refused' = refused /\ job' = job
        /\ pc[w] \in {"take", "doze"}
    BY <1>7 DEF WorkerMustWait, WorkerSleep, WorkerExit, ghosts
  <2>2. \E l \in {"doze", "asleep", "exited"} : pc' = [pc EXCEPT ![w] = l]
    BY <1>7 DEF WorkerMustWait, WorkerSleep, WorkerExit
  <2>3. \A q \in Threads : Pending(q)' => Pending(q)
    BY <1>0, <2>1, <2>2 DEF TypeOK, Pending
  <2>4. \A v \in Workers : pc[v] \in {"signal", "tail"} =>
                              pc'[v] \in {"signal", "tail"}
    BY <1>0, <2>1, <2>2 DEF TypeOK, Threads
  <2> QED
    BY <2>1, <2>3, <2>4, UndecidedStep
<1>8. ASSUME NEW w \in Workers, WorkerPop(w) PROVE OnceInv'
  <2> DEFINE t == Head(tasks_)
  <2>1. /\ tasks_ # << >> /\ tasks_' = Tail(tasks_)
        /\ accepted' = accepted /\ done' = done /\ refused' = refused
        /\ job' = [job EXCEPT ![w] = t] /\ pc' = [pc EXCEPT ![w] = "freed"]
        /\ pc[w] = "take" /\ w \in Threads /\ w \notin Clients
        /\ job[w] = NoTask
    BY <1>0, <1>8, PoolAssumption
       DEF WorkerPop, ghosts, Threads, WorkerInv, Looking
  <2>2. /\ t \in ToSet(tasks_) /\ ToSet(tasks_') = ToSet(tasks_) \ {t}
        /\ IsInjective(tasks_')
    BY <1>0, <2>1, TailSet DEF TypeOK, ExactlyOnce
  <2>3. t \in Tasks /\ t # NoTask /\ t \notin done /\ t \notin Running
    BY <1>0, <2>1, <2>2, PoolAssumption DEF TypeOK, ExactlyOnce
  <2>4. /\ job'[w] = t /\ pc'[w] = "freed"
        /\ \A q \in Threads : q # w => job'[q] = job[q] /\ pc'[q] = pc[q]
    BY <1>0, <2>1 DEF TypeOK
  <2>5. \A v \in Workers : job[v] # t
    BY <2>3 DEF Running
  <2>6. RootInv'
    BY <1>0, <2>1, <2>4 DEF RootInv, Threads
  <2>7. FreshInv'
    <3> SUFFICES ASSUME NEW q \in Threads, Pending(q)'
                 PROVE  Arg(q)' \notin accepted \cup refused
      BY <2>1 DEF FreshInv
    <3>1. CASE q # w
      BY <1>0, <2>4, <3>1 DEF FreshInv, Pending, Arg
    <3>2. CASE q = w
      <4>1. Child[t] # NoTask
        BY <2>4, <3>2 DEF Pending
      <4>2. Child[t] \notin accepted \cup refused
        BY <1>0, <2>3, <2>5, <4>1 DEF ChildInv
      <4> QED
        BY <2>4, <3>2, <4>2 DEF Arg
    <3> QED
      BY <3>1, <3>2
  <2>8. ChildInv'
    <3> SUFFICES ASSUME NEW s \in Tasks, Child[s] # NoTask,
                        Child[s] \in accepted \cup refused
                 PROVE  s \in done \/ \E v \in Workers :
                            job'[v] = s /\ pc'[v] \in {"signal", "tail"}
      BY <2>1 DEF ChildInv
    <3>1. ASSUME NEW v \in Workers, job[v] = s, pc[v] \in {"signal", "tail"}
          PROVE  job'[v] = s /\ pc'[v] \in {"signal", "tail"}
      BY <2>1, <2>4, <3>1 DEF Threads
    <3> QED
      BY <1>0, <3>1 DEF ChildInv
  <2>9. ExactlyOnce'
    <3>1. Running' = Running \cup {t}
      <4>1. Running' \subseteq Running \cup {t}
        BY <2>4 DEF Running, Threads
      <4>2. t \in Running'
        BY <2>3, <2>4 DEF Running
      <4>3. Running \subseteq Running'
        <5> SUFFICES ASSUME NEW v \in Workers, job[v] # NoTask
                     PROVE  job[v] \in Running'
          BY DEF Running
        <5>1. v # w
          BY <2>1
        <5> QED
          BY <2>4, <5>1 DEF Running, Threads
      <4> QED
        BY <4>1, <4>2, <4>3
    <3>2. \A u, v \in Workers : job'[u] = job'[v] /\ job'[u] # NoTask => u = v
      BY <1>0, <2>4, <2>5 DEF ExactlyOnce, Threads
    <3> QED
      BY <1>0, <2>1, <2>2, <2>3, <3>1, <3>2 DEF ExactlyOnce
  <2> QED
    BY <2>6, <2>7, <2>8, <2>9 DEF OnceInv
<1>9. ASSUME NEW w \in Workers, WorkerNotify(w) PROVE OnceInv'
  <2>1. /\ tasks_' = tasks_ /\ accepted' = accepted /\ done' = done
        /\ refused' = refused /\ job' = job
        /\ pc[w] = "freed" /\ w \in Threads
    BY <1>9 DEF WorkerNotify, ghosts, Threads
  <2>2. /\ pc'[w] = Body(w)
        /\ \A q \in Threads \ {w} :
              pc'[q] = pc[q] \/ (pc[q] = "blocked" /\ pc'[q] = "submit")
    <3>1. CASE pc' = [pc EXCEPT ![w] = Body(w)]
      BY <1>0, <2>1, <3>1 DEF TypeOK
    <3>2. ASSUME NEW p \in At("blocked"),
                 pc' = [pc EXCEPT ![w] = Body(w), ![p] = "submit"]
          PROVE  /\ pc'[w] = Body(w)
                 /\ \A q \in Threads \ {w} :
                       pc'[q] = pc[q] \/ (pc[q] = "blocked" /\ pc'[q] = "submit")
      <4>1. p \in Threads /\ pc[p] = "blocked" /\ p # w
        BY <2>1 DEF At
      <4> QED
        BY <1>0, <2>1, <3>2, <4>1 DEF TypeOK
    <3> QED
      BY <1>9, <3>1, <3>2 DEF WorkerNotify
  <2>3. \A q \in Threads : Pending(q)' => Pending(q)
    <3> SUFFICES ASSUME NEW q \in Threads, Pending(q)' PROVE Pending(q)
      OBVIOUS
    <3>1. CASE q = w
      BY <2>1, <2>2, <3>1 DEF Pending, Body
    <3>2. CASE q # w
      BY <2>1, <2>2, <3>2 DEF Pending
    <3> QED
      BY <3>1, <3>2
  <2>4. \A v \in Workers : pc[v] \in {"signal", "tail"} =>
                              pc'[v] \in {"signal", "tail"}
    BY <2>1, <2>2 DEF Threads
  <2> QED
    BY <2>1, <2>3, <2>4, UndecidedStep
<1>10. ASSUME NEW w \in Workers, WorkerFinish(w) PROVE OnceInv'
  <2> DEFINE t == job[w]
  <2>1. /\ tasks_' = tasks_ /\ accepted' = accepted /\ refused' = refused
        /\ done' = done \cup {t}
        /\ job' = [job EXCEPT ![w] = NoTask] /\ pc' = [pc EXCEPT ![w] = "take"]
        /\ pc[w] = "tail" /\ w \in Threads /\ w \notin Clients
        /\ t \in Tasks /\ t # NoTask
    BY <1>0, <1>10, PoolAssumption
       DEF WorkerFinish, Threads, WorkerInv, Looking
  <2>2. /\ job'[w] = NoTask /\ pc'[w] = "take"
        /\ \A q \in Threads : q # w => job'[q] = job[q] /\ pc'[q] = pc[q]
    BY <1>0, <2>1 DEF TypeOK
  <2>3. RootInv'
    BY <1>0, <2>1, <2>2 DEF RootInv, Threads
  <2>4. FreshInv'
    <3> SUFFICES ASSUME NEW q \in Threads, Pending(q)'
                 PROVE  Arg(q)' \notin accepted \cup refused
      BY <2>1 DEF FreshInv
    <3>1. q # w
      BY <2>2 DEF Pending
    <3> QED
      BY <1>0, <2>2, <3>1 DEF FreshInv, Pending, Arg
  <2>5. ChildInv'
    <3> SUFFICES ASSUME NEW s \in Tasks, Child[s] # NoTask,
                        Child[s] \in accepted \cup refused
                 PROVE  s \in done \cup {t} \/ \E v \in Workers :
                            job'[v] = s /\ pc'[v] \in {"signal", "tail"}
      BY <2>1 DEF ChildInv
    <3>1. ASSUME NEW v \in Workers, job[v] = s, pc[v] \in {"signal", "tail"},
                 s # t
          PROVE  job'[v] = s /\ pc'[v] \in {"signal", "tail"}
      BY <2>2, <3>1 DEF Threads
    <3> QED
      BY <1>0, <3>1 DEF ChildInv
  <2>6. ExactlyOnce'
    <3>1. Running' = Running \ {t}
      <4>1. \A v \in Workers : v # w => job'[v] = job[v] /\ job[v] # t
        BY <1>0, <2>1, <2>2 DEF ExactlyOnce, Threads
      <4> QED
        BY <2>1, <2>2, <4>1 DEF Running
    <3>2. t \in Running
      BY <2>1 DEF Running
    <3>3. \A u, v \in Workers : job'[u] = job'[v] /\ job'[u] # NoTask => u = v
      BY <1>0, <2>2 DEF ExactlyOnce, Threads
    <3> QED
      BY <1>0, <2>1, <3>1, <3>2, <3>3 DEF ExactlyOnce
  <2> QED
    BY <2>3, <2>4, <2>5, <2>6 DEF OnceInv
<1>11. CASE DtorStore \/ DtorNotify \/ DtorJoin \/ UNCHANGED vars
  <2>1. /\ tasks_' = tasks_ /\ accepted' = accepted /\ done' = done
        /\ refused' = refused /\ job' = job
    BY <1>11 DEF DtorStore, DtorNotify, DtorJoin, vars, ghosts
  <2>2. \A q \in Threads :
            pc'[q] = pc[q] \/ (pc[q] = "asleep" /\ pc'[q] = "take")
    BY <1>11 DEF DtorStore, DtorNotify, DtorJoin, vars
  <2>3. \A q \in Threads : Pending(q)' => Pending(q)
    BY <2>1, <2>2 DEF Pending
  <2>4. \A w \in Workers : pc[w] \in {"signal", "tail"} =>
                              pc'[w] \in {"signal", "tail"}
    BY <2>2 DEF Threads
  <2> QED
    BY <2>1, <2>3, <2>4, UndecidedStep
<1> QED
  BY <1>1, <1>2, <1>3, <1>4, <1>5, <1>6, <1>7, <1>8, <1>9, <1>10, <1>11
     DEF Next, Submit, Work

-----------------------------------------------------------------------------
\* Every accepted task is in exactly one place, queued once, in the hands of
\* one worker, or finished: submit() and the workers lose and repeat nothing.
THEOREM EachTaskOnce == Spec => []ExactlyOnce
<1>1. OnceInv => ExactlyOnce
  BY DEF OnceInv
<1> QED
  BY <1>1, OnceInitially, OnceStep, Inductive, PTL DEF Spec

\* When ~ThreadPool() has joined its workers every accepted task has run.
THEOREM JoinWaitsForTasks == Spec => []JoinedMeansDone
<1>1. ASSUME IInv, OnceInv PROVE JoinedMeansDone
  <2> SUFFICES ASSUME dtor = "joined", Workers # {} PROVE accepted = done
    BY DEF JoinedMeansDone
  <2>1. \A w \in Workers : pc[w] = "exited"
    BY <1>1 DEF IInv, DtorInv
  <2>2. tasks_ = << >>
    BY <1>1, <2>1 DEF IInv, ExitInv
  <2>3. Running = {}
    BY <1>1, <2>1 DEF IInv, WorkerInv, Looking, Running
  <2>4. ToSet(tasks_) = {}
    BY <2>2 DEF ToSet
  <2> QED
    BY <1>1, <2>3, <2>4 DEF OnceInv, ExactlyOnce
<1> QED
  BY <1>1, OnceInitially, OnceStep, Inductive, PTL DEF Spec

-----------------------------------------------------------------------------
(***************************************************************************)
(* ThreadPool implements TaskExecutor, for every pool that has a worker.   *)
(* Without a worker (thread_num = 0) it does not: the destructor returns   *)
(* with accepted tasks still in the queue.                                 *)
(***************************************************************************)

\* Some worker has left its loop.
Left == \E w \in Workers : pc[w] = "exited"

\* The value of the executor's phase (see Executor in ThreadPool).
Phase == IF dtor = "joined" THEN "terminated"
         ELSE IF Left THEN "closed"
         ELSE IF stop_ THEN "closing" ELSE "open"

-----------------------------------------------------------------------------
\* A new pool is a new executor.
LEMMA ExecutorInit == Workers # {} /\ Init => Executor!Init
<1> SUFFICES ASSUME Init PROVE Executor!Init
  OBVIOUS
<1>1. Running = {}
  BY DEF Init, Running, Threads
<1>2. \A w \in Workers : pc[w] = "take"
  BY DEF Init, Threads
<1> QED
  BY <1>1, <1>2 DEF Init, Executor!Init

\* A worker that is not running a task leaves room for another running task.
LEMMA RoomToRun ==
    ASSUME IInv, NEW w \in Workers, job[w] = NoTask
    PROVE  Cardinality(Running) < Cardinality(Workers)
<1> DEFINE Busy == {v \in Workers : job[v] # NoTask}
           f == [v \in Busy |-> job[v]]
<1>1. f \in Surjection(Busy, Running)
  BY DEF Surjection, Running
<1>2. IsFiniteSet(Workers) /\ IsFiniteSet(Workers \ {w})
      /\ Cardinality(Workers) \in Nat
      /\ Cardinality(Workers \ {w}) = Cardinality(Workers) - 1
  BY PoolAssumption, FS_RemoveElement, FS_CardinalityType
<1>3. Busy \subseteq Workers \ {w}
  OBVIOUS
<1> HIDE DEF Busy, f
<1>4. IsFiniteSet(Busy) /\ Cardinality(Busy) <= Cardinality(Workers \ {w})
  BY <1>2, <1>3, FS_Subset
<1>5. IsFiniteSet(Running) /\ Cardinality(Running) <= Cardinality(Busy)
  BY <1>1, <1>4, FS_Surjection
<1>6. Cardinality(Running) \in Nat /\ Cardinality(Busy) \in Nat
  BY <1>4, <1>5, FS_CardinalityType
<1> QED
  BY <1>2, <1>4, <1>5, <1>6

\* The executor counts as the pool does.
LEMMA SameCardinality == \A S : Executor!Cardinality(S) = Cardinality(S)
BY Zenon DEF Executor!Cardinality, Cardinality

\* A task that a caller brings along is new to the executor.
LEMMA PendingUnknown ==
    ASSUME IInv, OnceInv, NEW p \in Threads, Pending(p),
           pc[p] \in Calling
    PROVE  Arg(p) \in Tasks /\ Arg(p) \notin Executor!Known
<1>1. Arg(p) \in Tasks
  BY ArgTask
<1>2. Arg(p) \notin accepted \cup refused
  BY DEF OnceInv, FreshInv
<1>3. Executor!Known = accepted \cup refused
  BY DEF Executor!Known, Executor!ToSet, ToSet, OnceInv, ExactlyOnce
<1> QED
  BY <1>1, <1>2, <1>3

\* Steps the executor does not see.
LEMMA Stutter ==
    ASSUME tasks_' = tasks_, done' = done, refused' = refused,
           stop_' = stop_, (dtor = "joined")' <=> (dtor = "joined"),
           \A w \in Workers : job'[w] = job[w],
           Left' <=> Left
    PROVE  UNCHANGED Executor!vars
<1>1. Running' = Running
  BY DEF Running
<1>2. Phase' = Phase
  BY DEF Phase
<1> QED
  BY <1>1, <1>2 DEF Executor!vars, Phase, Left

\* Every step of the pool is a step of the executor or invisible to it.
LEMMA ExecutorStep ==
    ASSUME Workers # {}, IInv, OnceInv, [Next]_vars
    PROVE  [Executor!Next]_(Executor!vars)
<1>0. /\ TypeOK /\ ClientInv /\ WorkerInv /\ LockInv /\ DtorInv /\ ExitInv
      /\ ExactlyOnce
  BY DEF IInv, OnceInv
<1> DEFINE Seen == Executor!Next \/ UNCHANGED Executor!vars
<1>1. ASSUME NEW c \in Clients, NEW t \in Roots, SubmitCall(c, t) PROVE Seen
  <2>1. /\ tasks_' = tasks_ /\ done' = done /\ refused' = refused
        /\ stop_' = stop_ /\ dtor' = dtor
        /\ c \in Threads /\ c \notin Workers
        /\ job' = [job EXCEPT ![c] = t] /\ pc' = [pc EXCEPT ![c] = "submit"]
    BY <1>1, PoolAssumption DEF SubmitCall, ghosts, shared, Threads
  <2>2. \A w \in Workers : job'[w] = job[w] /\ pc'[w] = pc[w]
    BY <1>0, <2>1 DEF TypeOK, Threads
  <2> QED
    BY <2>1, <2>2, Stutter DEF Left
<1>2. ASSUME NEW p \in Threads, SubmitThrow(p) PROVE Seen
  <2>1. /\ tasks_' = tasks_ /\ done' = done
        /\ refused' = refused \cup {Arg(p)}
        /\ stop_ /\ stop_' = stop_ /\ dtor' = dtor
        /\ pc[p] = "submit" /\ job' = Forgotten(p) /\ pc' = Returned(p)
    BY <1>2 DEF SubmitThrow, shared
  <2>2. Arg(p) \in Tasks /\ Arg(p) \notin Executor!Known
    BY <2>1, PendingUnknown DEF Pending, Calling
  <2>3. \A w \in Workers : /\ job'[w] = job[w]
                           /\ pc'[w] = "exited" <=> pc[w] = "exited"
    BY <1>0, <2>1 DEF TypeOK, Forgotten, Returned, Threads
  <2>4. Running' = Running /\ (Left' <=> Left)
    BY <2>3 DEF Running, Left
  <2>5. Phase # "open" /\ Phase' = Phase
    BY <2>1, <2>4 DEF Phase
  <2>6. Executor!Refuse(Arg(p))
    BY <2>1, <2>2, <2>4, <2>5 DEF Executor!Refuse, Phase, Left
  <2> QED
    BY <2>2, <2>6 DEF Executor!Next
<1>3. ASSUME NEW p \in Threads,
             SubmitMustWait(p) \/ SubmitSleep(p) \/ SubmitHasRoom(p)
      PROVE  Seen
  <2>1. /\ tasks_' = tasks_ /\ done' = done /\ refused' = refused
        /\ job' = job /\ stop_' = stop_ /\ dtor' = dtor
        /\ pc[p] \in {"submit", "hold"}
    BY <1>3 DEF SubmitMustWait, SubmitSleep, SubmitHasRoom, ghosts, shared
  <2>2. \E l \in {"hold", "blocked", "push"} : pc' = [pc EXCEPT ![p] = l]
    BY <1>3 DEF SubmitMustWait, SubmitSleep, SubmitHasRoom
  <2>3. Left' <=> Left
    BY <1>0, <2>1, <2>2 DEF TypeOK, Left, Threads
  <2> QED
    BY <2>1, <2>3, Stutter
<1>4. ASSUME NEW p \in Threads, SubmitPush(p) PROVE Seen
  <2>1. /\ tasks_' = Append(tasks_, Arg(p)) /\ done' = done
        /\ refused' = refused /\ job' = job
        /\ stop_' = stop_ /\ dtor' = dtor
        /\ pc[p] = "push" /\ pc' = [pc EXCEPT ![p] = "signal"]
    BY <1>4 DEF SubmitPush, shared
  <2>2. Arg(p) \in Tasks /\ Arg(p) \notin Executor!Known
    BY <2>1, PendingUnknown DEF Pending, Calling
  <2>3. ~Left /\ dtor # "joined"
    BY <1>0, <2>1 DEF ExitInv, DtorInv, Left
  <2>4. ~Left' /\ Running' = Running
    BY <1>0, <2>1, <2>3 DEF TypeOK, Left, Running, Threads
  <2>5. Phase \in {"open", "closing"} /\ Phase' = Phase
    BY <2>1, <2>3, <2>4 DEF Phase
  <2>6. MaxQueueSize > 0 => Len(tasks_) < MaxQueueSize
    BY <1>0, <2>1, PoolAssumption DEF LockInv, HasRoom
  <2>7. Executor!Accept(Arg(p))
    BY <2>1, <2>2, <2>4, <2>5, <2>6 DEF Executor!Accept, Phase, Left
  <2> QED
    BY <2>2, <2>7 DEF Executor!Next
<1>5. ASSUME NEW p \in Threads, SubmitNotify(p) PROVE Seen
  <2>1. /\ tasks_' = tasks_ /\ done' = done /\ refused' = refused
        /\ stop_' = stop_ /\ dtor' = dtor
        /\ job' = Forgotten(p) /\ pc[p] = "signal"
    BY <1>5 DEF SubmitNotify, ghosts, shared
  <2>2. \A w \in Workers : job'[w] = job[w]
    BY <1>0, <2>1 DEF TypeOK, Forgotten, Threads
  <2>3. PICK l \in {"tail", "idle"} : Returned(p) = [pc EXCEPT ![p] = l]
    BY DEF Returned
  <2>4. Left' <=> Left
    <3>1. CASE pc' = Returned(p)
      BY <1>0, <2>1, <2>3, <3>1 DEF TypeOK, Left, Threads
    <3>2. ASSUME NEW w \in At("asleep"),
                 pc' = [Returned(p) EXCEPT ![w] = "take"]
          PROVE  Left' <=> Left
      <4>1. w \in Threads /\ pc[w] = "asleep"
        BY DEF At
      <4> QED
        BY <1>0, <2>1, <2>3, <3>2, <4>1 DEF TypeOK, Left, Threads
    <3> QED
      BY <1>5, <3>1, <3>2 DEF SubmitNotify
  <2> QED
    BY <2>1, <2>2, <2>4, Stutter
<1>6. ASSUME NEW p \in Threads, SpuriousWake(p) PROVE Seen
  <2>1. /\ tasks_' = tasks_ /\ done' = done /\ refused' = refused
        /\ job' = job /\ stop_' = stop_ /\ dtor' = dtor
        /\ pc[p] \in {"asleep", "blocked"}
        /\ pc' = [pc EXCEPT ![p] = IF @ = "asleep" THEN "take" ELSE "submit"]
    BY <1>6 DEF SpuriousWake, ghosts, shared
  <2>2. Left' <=> Left
    BY <1>0, <2>1 DEF TypeOK, Left, Threads
  <2> QED
    BY <2>1, <2>2, Stutter
<1>7. ASSUME NEW w \in Workers, WorkerMustWait(w) \/ WorkerSleep(w) PROVE Seen
  <2>1. /\ tasks_' = tasks_ /\ done' = done /\ refused' = refused
        /\ job' = job /\ stop_' = stop_ /\ dtor' = dtor
        /\ pc[w] \in {"take", "doze"}
    BY <1>7 DEF WorkerMustWait, WorkerSleep, ghosts, shared
  <2>2. \E l \in {"doze", "asleep"} : pc' = [pc EXCEPT ![w] = l]
    BY <1>7 DEF WorkerMustWait, WorkerSleep
  <2>3. Left' <=> Left
    BY <1>0, <2>1, <2>2 DEF TypeOK, Left, Threads
  <2> QED
    BY <2>1, <2>3, Stutter
<1>8. ASSUME NEW w \in Workers, WorkerExit(w) PROVE Seen
  <2>1. /\ tasks_' = tasks_ /\ done' = done /\ refused' = refused
        /\ job' = job /\ stop_' = stop_ /\ dtor' = dtor
        /\ stop_ /\ tasks_ = << >>
        /\ pc[w] = "take" /\ pc' = [pc EXCEPT ![w] = "exited"]
    BY <1>8 DEF WorkerExit, ghosts, shared
  <2>2. Left' /\ dtor # "joined"
    BY <1>0, <2>1 DEF TypeOK, DtorInv, Left, Threads
  <2>3. CASE Left
    BY <2>1, <2>2, <2>3, Stutter
  <2>4. CASE ~Left
    <3>1. Running' = Running
      BY <2>1 DEF Running
    <3>2. Phase = "closing" /\ Phase' = "closed"
      BY <2>1, <2>2, <2>4 DEF Phase
    <3>3. Executor!Close
      BY <2>1, <3>1, <3>2 DEF Executor!Close, Phase, Left
    <3> QED
      BY <3>3 DEF Executor!Next
  <2> QED
    BY <2>3, <2>4
<1>9. ASSUME NEW w \in Workers, WorkerPop(w) PROVE Seen
  <2> DEFINE t == Head(tasks_)
  <2>1. /\ tasks_ # << >> /\ tasks_' = Tail(tasks_)
        /\ done' = done /\ refused' = refused
        /\ stop_' = stop_ /\ dtor' = dtor
        /\ job' = [job EXCEPT ![w] = t] /\ pc' = [pc EXCEPT ![w] = "freed"]
        /\ pc[w] = "take" /\ job[w] = NoTask /\ w \in Threads
    BY <1>0, <1>9 DEF WorkerPop, ghosts, shared, Threads, WorkerInv, Looking
  <2>2. t \in ToSet(tasks_)
    BY <1>0, <2>1, TailSet DEF TypeOK, ExactlyOnce
  <2>3. t \notin Running \cup done /\ t # NoTask
    BY <1>0, <2>1, <2>2, PoolAssumption DEF TypeOK, ExactlyOnce
  <2>4. /\ job'[w] = t
        /\ \A v \in Workers : v # w => job'[v] = job[v]
        /\ \A v \in Workers : pc'[v] = "exited" <=> pc[v] = "exited"
    BY <1>0, <2>1 DEF TypeOK, Threads
  <2>5. Running' = Running \cup {t}
    <3>1. Running' \subseteq Running \cup {t}
      BY <2>4 DEF Running
    <3>2. t \in Running'
      BY <2>3, <2>4 DEF Running
    <3>3. Running \subseteq Running'
      <4> SUFFICES ASSUME NEW v \in Workers, job[v] # NoTask
                   PROVE  job[v] \in Running'
        BY DEF Running
      <4>1. v # w
        BY <2>1
      <4> QED
        BY <2>4, <4>1 DEF Running
    <3> QED
      BY <3>1, <3>2, <3>3
  <2>6. Executor!Cardinality(Running) < Cardinality(Workers)
    BY <2>1, RoomToRun, SameCardinality
  <2>7. Phase' = Phase
    BY <2>1, <2>4 DEF Phase, Left
  <2>8. Executor!Start
    BY <2>1, <2>3, <2>5, <2>6, <2>7 DEF Executor!Start, Phase, Left
  <2> QED
    BY <2>8 DEF Executor!Next
<1>10. ASSUME NEW w \in Workers, WorkerNotify(w) PROVE Seen
  <2>1. /\ tasks_' = tasks_ /\ done' = done /\ refused' = refused
        /\ job' = job /\ stop_' = stop_ /\ dtor' = dtor
        /\ pc[w] = "freed" /\ w \in Threads /\ Body(w) \in {"tail", "submit"}
    BY <1>10 DEF WorkerNotify, ghosts, shared, Threads, Body
  <2>2. Left' <=> Left
    <3>1. CASE pc' = [pc EXCEPT ![w] = Body(w)]
      BY <1>0, <2>1, <3>1 DEF TypeOK, Left, Threads
    <3>2. ASSUME NEW p \in At("blocked"),
                 pc' = [pc EXCEPT ![w] = Body(w), ![p] = "submit"]
          PROVE  Left' <=> Left
      <4>1. p \in Threads /\ pc[p] = "blocked"
        BY DEF At
      <4> QED
        BY <1>0, <2>1, <3>2, <4>1 DEF TypeOK, Left, Threads
    <3> QED
      BY <1>10, <3>1, <3>2 DEF WorkerNotify
  <2> QED
    BY <2>1, <2>2, Stutter
<1>11. ASSUME NEW w \in Workers, WorkerFinish(w) PROVE Seen
  <2> DEFINE t == job[w]
  <2>1. /\ tasks_' = tasks_ /\ done' = done \cup {t} /\ refused' = refused
        /\ stop_' = stop_ /\ dtor' = dtor
        /\ job' = [job EXCEPT ![w] = NoTask] /\ pc' = [pc EXCEPT ![w] = "take"]
        /\ pc[w] = "tail" /\ t \in Tasks /\ t # NoTask
    BY <1>0, <1>11, PoolAssumption
       DEF WorkerFinish, shared, WorkerInv, Looking
  <2>2. /\ job'[w] = NoTask
        /\ \A v \in Workers : v # w => job'[v] = job[v] /\ job[v] # t
        /\ \A v \in Workers : pc'[v] = "exited" <=> pc[v] = "exited"
    BY <1>0, <2>1 DEF TypeOK, ExactlyOnce, Threads
  <2>3. t \in Running /\ Running' = Running \ {t}
    BY <2>1, <2>2 DEF Running
  <2>4. Phase' = Phase
    BY <2>1, <2>2 DEF Phase, Left
  <2>5. Executor!Finish(t)
    BY <2>1, <2>3, <2>4 DEF Executor!Finish, Phase, Left
  <2> QED
    BY <2>1, <2>5 DEF Executor!Next
<1>12. CASE DtorStore
  <2>1. /\ tasks_' = tasks_ /\ done' = done /\ refused' = refused
        /\ job' = job /\ pc' = pc /\ stop_' = TRUE
        /\ dtor = "alive" /\ dtor' = "notifying"
    BY <1>12 DEF DtorStore, ghosts
  <2>2. ~stop_ /\ ~Left /\ ~Left' /\ Running' = Running
    BY <1>0, <2>1 DEF DtorInv, ExitInv, Left, Running
  <2>3. Phase = "open" /\ Phase' = "closing"
    BY <2>1, <2>2 DEF Phase
  <2>4. Executor!Shutdown
    BY <2>1, <2>2, <2>3 DEF Executor!Shutdown, Phase, Left
  <2> QED
    BY <2>4 DEF Executor!Next
<1>13. CASE DtorNotify
  <2>1. /\ tasks_' = tasks_ /\ done' = done /\ refused' = refused
        /\ job' = job /\ stop_' = stop_
        /\ dtor = "notifying" /\ dtor' = "joining"
        /\ \A w \in Workers : pc'[w] = "exited" <=> pc[w] = "exited"
    BY <1>13 DEF DtorNotify, ghosts, Threads
  <2> QED
    BY <2>1, Stutter DEF Left
<1>14. CASE DtorJoin
  <2>1. /\ tasks_' = tasks_ /\ done' = done /\ refused' = refused
        /\ job' = job /\ dtor = "joining" /\ dtor' = "joined"
        /\ \A w \in Workers : pc[w] = "exited"
    BY <1>14 DEF DtorJoin, ghosts
  <2>2. Left /\ tasks_ = << >>
    BY <1>0, <2>1 DEF ExitInv, Left
  <2>3. Running = {} /\ Running' = {}
    BY <1>0, <2>1 DEF WorkerInv, Looking, Running
  <2>4. Phase = "closed" /\ Phase' = "terminated"
    BY <2>1, <2>2 DEF Phase
  <2>5. Executor!Terminate
    BY <2>1, <2>2, <2>3, <2>4 DEF Executor!Terminate, Phase, Left
  <2> QED
    BY <2>5 DEF Executor!Next
<1>15. CASE UNCHANGED vars
  BY <1>15, Stutter DEF vars, Left
<1> QED
  BY <1>1, <1>2, <1>3, <1>4, <1>5, <1>6, <1>7, <1>8, <1>9, <1>10, <1>11,
     <1>12, <1>13, <1>14, <1>15 DEF Next, Submit, Work

\* A pool with a worker keeps its promise to the callers: tasks start in the
\* order in which submit() accepted them, each once, refusals happen only
\* after the stop, and the destructor ends only when all have finished.
THEOREM PoolImplementsExecutor ==
    ASSUME Workers # {}
    PROVE  Spec => ImplementsExecutor
<1>1. Init => Executor!Init
  BY ExecutorInit
<1>2. IInv /\ OnceInv /\ [Next]_vars => [Executor!Next]_(Executor!vars)
  BY ExecutorStep
<1>3. OnceInv /\ IInv /\ [Next]_vars => OnceInv'
  BY OnceStep
<1> QED
  BY <1>1, <1>2, <1>3, OnceInitially, Inductive, PTL
     DEF Spec, ImplementsExecutor, Executor!Spec

=============================================================================

-------------------------- MODULE SafeQueueProofs ---------------------------
(***************************************************************************)
(* Theorems about SafeQueue, for any number of threads, any values and any *)
(* capacity.                                                               *)
(***************************************************************************)
EXTENDS SafeQueue, TLAPS, FiniteSetTheorems

\* Who is between the predicate and the sleep holds the mutex, so what the
\* predicate saw still holds: nothing was pushed and nobody stopped the queue.
DozeInv ==
    \A p \in Threads :
        pc[p] = "doze" => mutex_ = p /\ queue_ = << >> /\ ~stopped_

\* Once the queue is stopped a sleeper has a notify_all() ahead of it.
StopInv ==
    \A p \in Threads :
        pc[p] = "waiting" /\ stopped_ => \E q \in Threads : pc[q] = "notify"

\* What each of the proofs below needs to be inductive.
IInv == TypeOK /\ DozeInv /\ StopInv

-----------------------------------------------------------------------------
\* Every step keeps the types.
LEMMA TypeStep == TypeOK /\ [Next]_vars => TypeOK'
<1> SUFFICES ASSUME TypeOK, [Next]_vars PROVE TypeOK'
  OBVIOUS
<1> USE DEF TypeOK
<1>1. CASE UNCHANGED vars
  BY <1>1 DEF vars
<1>2. ASSUME NEW p \in Threads, NEW v \in Items, Push(p, v) PROVE TypeOK'
  <2>1. pc' \in [Threads -> {"idle", "pop", "doze", "waiting", "notify"}]
    BY <1>2 DEF Push, NotifyOne, At
  <2>2. queue_' \in Seq(Items)
    BY <1>2 DEF Push
  <2> QED
    BY <1>2, <2>1, <2>2 DEF Push
<1>3. ASSUME NEW p \in Threads, MoveOut(p)
      PROVE  /\ queue_' \in Seq(Items)
             /\ value' \in [Threads -> Items \cup {Unset}]
  <2>1. Head(queue_) \in Items /\ Tail(queue_) \in Seq(Items)
    BY <1>3 DEF MoveOut
  <2> QED
    BY <1>3, <2>1 DEF MoveOut
<1>4. ASSUME NEW p \in Threads, TryPop(p) PROVE TypeOK'
  BY <1>3, <1>4 DEF TryPop
<1>5. ASSUME NEW p \in Threads, PopTake(p) PROVE TypeOK'
  BY <1>3, <1>5 DEF PopTake
<1>6. ASSUME NEW p \in Threads, Clear(p) PROVE TypeOK'
  BY <1>6 DEF Clear
<1>7. ASSUME NEW p \in Threads, PopCall(p) PROVE TypeOK'
  BY <1>7 DEF PopCall
<1>8. ASSUME NEW p \in Threads, PopMustWait(p) PROVE TypeOK'
  BY <1>8 DEF PopMustWait
<1>9. ASSUME NEW p \in Threads, PopSleep(p) PROVE TypeOK'
  BY <1>9 DEF PopSleep
<1>10. ASSUME NEW p \in Threads, PopStopped(p) PROVE TypeOK'
  BY <1>10 DEF PopStopped
<1>11. ASSUME NEW p \in Threads, SpuriousWake(p) PROVE TypeOK'
  BY <1>11 DEF SpuriousWake
<1>12. ASSUME NEW p \in Threads, StopSet(p) PROVE TypeOK'
  BY <1>12 DEF StopSet
<1>13. ASSUME NEW p \in Threads, StopNotify(p) PROVE TypeOK'
  BY <1>13 DEF StopNotify
<1> QED
  BY <1>1, <1>2, <1>4, <1>5, <1>6, <1>7, <1>8, <1>9, <1>10, <1>11, <1>12,
     <1>13 DEF Next, Pop

\* Every step keeps the two facts about sleepers.
LEMMA SleepStep == IInv /\ [Next]_vars => DozeInv' /\ StopInv'
<1> SUFFICES ASSUME IInv, [Next]_vars PROVE DozeInv' /\ StopInv'
  OBVIOUS
<1> USE QueueAssumption DEF IInv, TypeOK, DozeInv, StopInv, Free
<1>1. CASE UNCHANGED vars
  BY <1>1 DEF vars
<1>2. ASSUME NEW p \in Threads, NEW v \in Items, Push(p, v)
      PROVE DozeInv' /\ StopInv'
  BY <1>2 DEF Push, NotifyOne, At
<1>3. ASSUME NEW p \in Threads, TryPop(p) \/ Clear(p)
      PROVE DozeInv' /\ StopInv'
  BY <1>3 DEF TryPop, Clear, MoveOut
<1>4. ASSUME NEW p \in Threads, PopCall(p) PROVE DozeInv' /\ StopInv'
  BY <1>4 DEF PopCall
<1>5. ASSUME NEW p \in Threads, PopMustWait(p) PROVE DozeInv' /\ StopInv'
  BY <1>5 DEF PopMustWait
<1>6. ASSUME NEW p \in Threads, PopSleep(p) PROVE DozeInv' /\ StopInv'
  BY <1>6 DEF PopSleep
<1>7. ASSUME NEW p \in Threads, PopStopped(p) PROVE DozeInv' /\ StopInv'
  BY <1>7 DEF PopStopped
<1>8. ASSUME NEW p \in Threads, PopTake(p) PROVE DozeInv' /\ StopInv'
  BY <1>8 DEF PopTake, MoveOut
<1>9. ASSUME NEW p \in Threads, SpuriousWake(p) PROVE DozeInv' /\ StopInv'
  BY <1>9 DEF SpuriousWake
<1>10. ASSUME NEW p \in Threads, StopSet(p) PROVE DozeInv' /\ StopInv'
  BY <1>10 DEF StopSet
<1>11. ASSUME NEW p \in Threads, StopNotify(p) PROVE DozeInv' /\ StopInv'
  BY <1>11 DEF StopNotify
<1> QED
  BY <1>1, <1>2, <1>3, <1>4, <1>5, <1>6, <1>7, <1>8, <1>9, <1>10, <1>11
     DEF Next, Pop

\* The invariant holds in every reachable state.
LEMMA Inductive == Spec => []IInv
<1>1. Init => IInv
  <2>1. ASSUME Init PROVE TypeOK
    <3>1. pc \in [Threads -> {"idle", "pop", "doze", "waiting", "notify"}]
      BY <2>1 DEF Init
    <3>2. value \in [Threads -> Items \cup {Unset}]
      BY <2>1 DEF Init
    <3>3. stopped_ \in BOOLEAN
      BY <2>1 DEF Init
    <3>4. queue_ \in Seq(Items)
      BY <2>1 DEF Init
    <3> QED
      BY <2>1, <3>1, <3>2, <3>3, <3>4 DEF Init, TypeOK
  <2>2. Init => DozeInv /\ StopInv
    BY DEF Init, DozeInv, StopInv
  <2> QED
    BY <2>1, <2>2 DEF IInv
<1>2. IInv /\ [Next]_vars => IInv'
  BY TypeStep, SleepStep DEF IInv
<1> QED
  BY <1>1, <1>2, PTL DEF Spec

-----------------------------------------------------------------------------
\* Type correctness of every operation.
THEOREM TypeCorrect == Spec => []TypeOK
<1>1. IInv => TypeOK
  BY DEF IInv
<1> QED
  BY <1>1, Inductive, PTL

\* No consumer misses a stop(): when a stop() has returned, nobody sleeps in
\* pop() or is about to, although the notification runs without the mutex.
THEOREM StopMissesNobody == Spec => []StopReachesEverybody
<1>1. IInv => StopReachesEverybody
  BY DEF IInv, DozeInv, StopInv, StopReachesEverybody, At
<1> QED
  BY <1>1, Inductive, PTL

\* push() keeps the queue within its capacity, whoever else uses it.
THEOREM CapacityHolds == Spec => []CapacityRespected
<1>1. Init => CapacityRespected
  BY QueueAssumption DEF Init, CapacityRespected
<1>2. IInv /\ CapacityRespected /\ [Next]_vars => CapacityRespected'
  <2> SUFFICES ASSUME IInv, CapacityRespected, [Next]_vars
               PROVE CapacityRespected'
    OBVIOUS
  <2> USE QueueAssumption DEF IInv, TypeOK, CapacityRespected
  <2>1. ASSUME NEW p \in Threads, NEW v \in Items, Push(p, v)
        PROVE CapacityRespected'
    <3>1. Len(queue_) < capacity_
      BY <2>1 DEF Push, Full
    <3>2. Len(queue_') = Len(queue_) + 1
      BY <2>1 DEF Push
    <3> QED
      BY <3>1, <3>2
  <2>2. ASSUME NEW p \in Threads, MoveOut(p) PROVE CapacityRespected'
    <3>1. Len(Tail(queue_)) = Len(queue_) - 1
      BY <2>2 DEF MoveOut
    <3> QED
      BY <2>2, <3>1 DEF MoveOut
  <2>3. ASSUME NEW p \in Threads, Clear(p) PROVE CapacityRespected'
    BY <2>3 DEF Clear
  <2>4. ASSUME queue_' = queue_ PROVE CapacityRespected'
    BY <2>4
  <2> QED
    BY <2>1, <2>2, <2>3, <2>4
       DEF Next, Pop, TryPop, PopTake, PopCall, PopMustWait, PopSleep,
           PopStopped, SpuriousWake, StopSet, StopNotify, vars
<1> QED
  BY <1>1, <1>2, Inductive, PTL DEF Spec

-----------------------------------------------------------------------------
\* The threads at a program point are finitely many.
LEMMA AtFinite ==
    ASSUME TypeOK, NEW label
    PROVE  IsFiniteSet(At(label)) /\ Cardinality(At(label)) \in Nat
<1>1. At(label) \subseteq Threads
  BY DEF At
<1> QED
  BY <1>1, QueueAssumption, FS_Subset, FS_CardinalityType

\* A thread that arrives at a program point adds one to those there.
LEMMA AtArrive ==
    ASSUME TypeOK, NEW p \in Threads, NEW label, pc[p] # label,
           At(label)' = At(label) \cup {p}
    PROVE  Cardinality(At(label)') = Cardinality(At(label)) + 1
<1>1. p \notin At(label)
  BY DEF At
<1> QED
  BY <1>1, AtFinite, FS_AddElement

\* A thread that leaves a program point takes one from those there.
LEMMA AtLeave ==
    ASSUME TypeOK, NEW p \in Threads, NEW label, pc[p] = label,
           At(label)' = At(label) \ {p}
    PROVE  Cardinality(At(label)') = Cardinality(At(label)) - 1
<1>1. p \in At(label)
  BY DEF At
<1> QED
  BY <1>1, AtFinite, FS_RemoveElement

\* notify_one() under the mutex is enough: no element is left to consumers
\* that all sleep.
THEOREM NoItemStranded == Spec => []NoStrandedItem
<1>1. Init => NoStrandedItem
  BY DEF Init, NoStrandedItem, At
<1>2. IInv /\ NoStrandedItem /\ [Next]_vars => NoStrandedItem'
  <2> SUFFICES ASSUME IInv, NoStrandedItem, [Next]_vars,
                      ~stopped_', At("waiting")' # {}
               PROVE Len(queue_') <= Cardinality(At("pop")')
    BY DEF NoStrandedItem
  <2> DEFINE Goal == Len(queue_') <= Cardinality(At("pop")')
  <2>0. /\ TypeOK
        /\ IsFiniteSet(At("pop"))
        /\ Cardinality(At("pop")) \in Nat
        /\ Len(queue_) \in Nat
    BY AtFinite DEF IInv, TypeOK
  <2>1. CASE UNCHANGED vars
    BY <2>1 DEF vars, NoStrandedItem, At
  <2>2. ASSUME NEW p \in Threads, NEW v \in Items, Push(p, v) PROVE Goal
    <3>1. PICK q \in At("waiting") : pc' = [pc EXCEPT ![q] = "pop"]
      BY <2>0, <2>2 DEF Push, NotifyOne, At
    <3>2. At("pop")' = At("pop") \cup {q} /\ pc[q] = "waiting"
      BY <2>0, <3>1 DEF At, TypeOK
    <3>3. q \in Threads /\ pc[q] # "pop"
      BY <3>2, <3>1 DEF At
    <3>4. Cardinality(At("pop")') = Cardinality(At("pop")) + 1
      BY <2>0, <3>2, <3>3, AtArrive
    <3>5. Len(queue_) <= Cardinality(At("pop"))
      BY <2>2, <3>1 DEF Push, NoStrandedItem
    <3>6. Len(queue_') = Len(queue_) + 1
      BY <2>0, <2>2 DEF Push, TypeOK
    <3> QED
      BY <2>0, <3>4, <3>5, <3>6
  <2>3. ASSUME NEW p \in Threads, TryPop(p) PROVE Goal
    <3>1. Len(queue_') = Len(queue_) - 1
      BY <2>0, <2>3 DEF TryPop, MoveOut, TypeOK
    <3>2. At("pop")' = At("pop") /\ At("waiting")' = At("waiting")
      BY <2>3 DEF TryPop, At
    <3> QED
      BY <2>0, <2>3, <3>1, <3>2 DEF TryPop, NoStrandedItem
  <2>4. ASSUME NEW p \in Threads, queue_' = << >>, TypeOK' PROVE Goal
    <3>1. Cardinality(At("pop")') \in Nat
      <4>1. At("pop")' \subseteq Threads
        BY DEF At
      <4> QED
        BY <4>1, QueueAssumption, FS_Subset, FS_CardinalityType
    <3> QED
      BY <2>4, <3>1
  <2>5. ASSUME NEW p \in Threads, PopCall(p) \/ SpuriousWake(p) PROVE Goal
    <3>1. At("pop")' = At("pop") \cup {p} /\ pc[p] # "pop"
      BY <2>0, <2>5 DEF PopCall, SpuriousWake, At, TypeOK
    <3>2. At("waiting") # {} /\ ~stopped_ /\ queue_' = queue_
      BY <2>0, <2>5 DEF PopCall, SpuriousWake, At, TypeOK
    <3>3. Cardinality(At("pop")') = Cardinality(At("pop")) + 1
      BY <2>0, <3>1, AtArrive
    <3> QED
      BY <2>0, <3>2, <3>3 DEF NoStrandedItem
  <2>6. ASSUME NEW p \in Threads, PopTake(p) PROVE Goal
    <3>1. At("pop")' = At("pop") \ {p} /\ pc[p] = "pop"
      BY <2>0, <2>6 DEF PopTake, At, TypeOK
    <3>2. At("waiting") # {}
      BY <2>0, <2>6 DEF PopTake, At, TypeOK
    <3>3. Len(queue_') = Len(queue_) - 1
      BY <2>0, <2>6 DEF PopTake, MoveOut, TypeOK
    <3>4. Cardinality(At("pop")') = Cardinality(At("pop")) - 1
      BY <2>0, <3>1, AtLeave
    <3> QED
      BY <2>0, <2>6, <3>2, <3>3, <3>4 DEF PopTake, NoStrandedItem
  <2>7. ASSUME NEW p \in Threads, PopMustWait(p) \/ PopSleep(p) PROVE Goal
    <3>1. queue_' = << >>
      BY <2>7 DEF PopMustWait, PopSleep, IInv, DozeInv
    <3>2. TypeOK'
      BY <2>0, TypeStep
    <3> QED
      BY <2>4, <3>1, <3>2
  <2>8. ASSUME NEW p \in Threads, Clear(p) PROVE Goal
    <3>1. TypeOK'
      BY <2>0, TypeStep
    <3> QED
      BY <2>4, <2>8, <3>1 DEF Clear
  <2>9. ASSUME NEW p \in Threads, PopStopped(p) \/ StopSet(p) PROVE Goal
    BY <2>9 DEF PopStopped, StopSet
  <2>10. ASSUME NEW p \in Threads, StopNotify(p) PROVE Goal
    <3>1. \A q \in Threads : pc'[q] # "waiting"
      BY <2>10 DEF StopNotify
    <3> QED
      BY <3>1 DEF At
  <2> QED
    BY <2>1, <2>2, <2>3, <2>5, <2>6, <2>7, <2>8, <2>9, <2>10 DEF Next, Pop
<1> QED
  BY <1>1, <1>2, Inductive, PTL DEF Spec

-----------------------------------------------------------------------------
(* The queue implements BoundedBuffer                                      *)

\* The consumers inside a blocking pop.
Inside == At("pop") \cup At("doze") \cup At("waiting")

\* Waking consumers, or letting them sleep, is invisible from outside.
LEMMA InsideSame ==
    ASSUME \A p \in Threads : pc'[p] \in {"pop", "doze", "waiting"}
                              <=> pc[p] \in {"pop", "doze", "waiting"}
    PROVE  Inside' = Inside
BY DEF Inside, At

\* Every step of the queue is a step of the buffer or invisible to it.
LEMMA BufferStep ==
    ASSUME TypeOK, [Next]_vars
    PROVE  [Buffer!Next]_(Buffer!vars)
<1> DEFINE Seen == Buffer!Next \/ UNCHANGED Buffer!vars
<1>1. ASSUME NEW p \in Threads, NEW v \in Items, Push(p, v) PROVE Seen
  <2>1. Inside' = Inside
    <3>1. ASSUME NEW q \in At("waiting"), pc' = [pc EXCEPT ![q] = "pop"]
          PROVE  Inside' = Inside
      <4>1. q \in Threads /\ pc[q] = "waiting"
        BY DEF At
      <4> QED
        BY <3>1, <4>1, InsideSame DEF TypeOK
    <3>2. CASE UNCHANGED pc
      BY <3>2 DEF Inside, At
    <3> QED
      BY <1>1, <3>1, <3>2 DEF Push, NotifyOne
  <2>2. Len(queue_) < capacity_
    BY <1>1, QueueAssumption DEF Push, Full, TypeOK
  <2>3. Buffer!Insert(v)
    BY <1>1, <2>1, <2>2 DEF Push, Buffer!Insert, Inside
  <2> QED
    BY <2>3 DEF Buffer!Next
<1>2. ASSUME NEW p \in Threads, TryPop(p) PROVE Seen
  <2>1. p \notin Inside /\ Inside' = Inside
    BY <1>2 DEF TryPop, Inside, At
  <2>2. Buffer!Poll(p)
    BY <1>2, <2>1 DEF TryPop, MoveOut, Buffer!Poll, Buffer!Give, Inside
  <2> QED
    BY <2>2 DEF Buffer!Next
<1>3. ASSUME NEW p \in Threads, Clear(p) PROVE Seen
  <2>1. Inside' = Inside
    BY <1>3 DEF Clear, Inside, At
  <2>2. Buffer!Discard
    BY <1>3, <2>1 DEF Clear, Buffer!Discard, Inside
  <2> QED
    BY <2>2 DEF Buffer!Next
<1>4. ASSUME NEW p \in Threads, PopCall(p) PROVE Seen
  <2>1. p \notin Inside /\ Inside' = Inside \cup {p}
    BY <1>4 DEF PopCall, Inside, At, TypeOK
  <2>2. Buffer!Enter(p)
    BY <1>4, <2>1 DEF PopCall, Buffer!Enter, Inside
  <2> QED
    BY <2>2 DEF Buffer!Next
<1>5. ASSUME NEW p \in Threads,
             PopMustWait(p) \/ PopSleep(p) \/ SpuriousWake(p) \/ StopNotify(p)
      PROVE  Seen
  <2>1. /\ UNCHANGED <<queue_, stopped_, value>>
        /\ \A q \in Threads : pc'[q] \in {"pop", "doze", "waiting"}
                              <=> pc[q] \in {"pop", "doze", "waiting"}
    BY <1>5 DEF PopMustWait, PopSleep, SpuriousWake, StopNotify, TypeOK
  <2> QED
    BY <2>1, InsideSame DEF Buffer!vars, Inside
<1>6. ASSUME NEW p \in Threads, PopStopped(p) PROVE Seen
  <2>1. p \in Inside /\ Inside' = Inside \ {p}
    BY <1>6 DEF PopStopped, Inside, At, TypeOK
  <2>2. Buffer!Release(p)
    BY <1>6, <2>1 DEF PopStopped, Buffer!Release, Inside
  <2> QED
    BY <2>2 DEF Buffer!Next
<1>7. ASSUME NEW p \in Threads, PopTake(p) PROVE Seen
  <2>1. p \in Inside /\ Inside' = Inside \ {p}
    BY <1>7 DEF PopTake, Inside, At, TypeOK
  <2>2. Buffer!Deliver(p)
    BY <1>7, <2>1 DEF PopTake, MoveOut, Buffer!Deliver, Buffer!Give, Inside
  <2> QED
    BY <2>2 DEF Buffer!Next
<1>8. ASSUME NEW p \in Threads, StopSet(p) PROVE Seen
  <2>1. Inside' = Inside
    BY <1>8 DEF StopSet, Inside, At, TypeOK
  <2>2. Buffer!Stop
    BY <1>8, <2>1 DEF StopSet, Buffer!Stop, Inside
  <2> QED
    BY <2>2 DEF Buffer!Next
<1>9. CASE UNCHANGED vars
  BY <1>9 DEF vars, Buffer!vars, At
<1> QED
  BY <1>1, <1>2, <1>3, <1>4, <1>5, <1>6, <1>7, <1>8, <1>9 DEF Next, Pop

\* The queue is a bounded first-in first-out buffer: a blocking pop gives the
\* oldest element and only before the stop, and fails only after it.
THEOREM QueueImplementsBuffer == Spec => ImplementsBuffer
<1>1. Init => Buffer!Init
  BY DEF Init, Buffer!Init, At
<1>2. TypeOK /\ [Next]_vars => [Buffer!Next]_(Buffer!vars)
  BY BufferStep
<1> QED
  BY <1>1, <1>2, TypeCorrect, PTL DEF Spec, ImplementsBuffer, Buffer!Spec

=============================================================================

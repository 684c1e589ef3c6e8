----------------------------- MODULE IpcProofs ------------------------------
(***************************************************************************)
(* Theorems about Ipc, for any number of senders and receivers and any     *)
(* limit of the kernel's queue.                                            *)
(***************************************************************************)
EXTENDS Ipc, FiniteSetTheorems, TLAPS

\* What a receiver holds was taken from the queue, by this receiver alone.
HandInv ==
    \A r \in Receivers : hand[r] # 0 =>
        /\ fate[hand[r]] = "taken"
        /\ \A q \in Receivers : hand[q] = hand[r] => q = r

\* What each of the proofs below needs to be inductive.
IInv == TypeOK /\ QueueIsTail /\ HandInv /\ LatestKept

-----------------------------------------------------------------------------
(* The four things that happen to the queue and to fate                    *)

\* The queue never holds more than was accepted.
LEMMA TailFits == TypeOK /\ QueueIsTail => Len(queue) \in 0..Len(fate)
<1> SUFFICES ASSUME TypeOK, QueueIsTail, Len(queue) # 0
             PROVE  Len(queue) \in 0..Len(fate)
  BY DEF TypeOK
<1>1. queue[1] \in 1..Len(fate) /\ queue[1] = Len(fate) - Len(queue) + 1
  BY DEF TypeOK, QueueIsTail
<1> QED
  BY <1>1 DEF TypeOK

\* Taking the first message: the queue is still the tail.
LEMMA TakeStep ==
  ASSUME NEW f \in Fates \ {"queued"}, TypeOK, QueueIsTail, TakeFirst(f)
  PROVE  /\ Head(queue) = Len(fate) - Len(queue) + 1
         /\ Head(queue) \in 1..Len(fate)
         /\ fate[Head(queue)] = "queued"
         /\ fate' \in Seq(Fates) /\ Len(fate') = Len(fate)
         /\ queue' \in Seq(1..Len(fate)) /\ Len(queue') = Len(queue) - 1
         /\ \A i \in 1..Len(queue') : queue'[i] = queue[i + 1]
         /\ QueueIsTail'
<1> USE DEF TypeOK, TakeFirst
<1>1. queue # << >> /\ Len(queue) \in 1..Len(fate)
  BY TailFits
<1>2. Head(queue) = Len(fate) - Len(queue) + 1
  BY <1>1 DEF QueueIsTail
<1>3. Head(queue) \in 1..Len(fate) /\ fate[Head(queue)] = "queued"
  BY <1>1, <1>2 DEF QueueIsTail
<1>4. fate' \in Seq(Fates) /\ Len(fate') = Len(fate)
  BY <1>3
<1>5. /\ queue' \in Seq(1..Len(fate)) /\ Len(queue') = Len(queue) - 1
      /\ \A i \in 1..Len(queue') : queue'[i] = queue[i + 1]
  BY <1>1
<1>6. \A i \in 1..Len(queue') : queue'[i] = Len(fate') - Len(queue') + i
  BY <1>1, <1>4, <1>5 DEF QueueIsTail
<1>7. \A i \in 1..Len(fate') : fate'[i] = "queued" <=> i > Len(fate') - Len(queue')
  <2> SUFFICES ASSUME NEW i \in 1..Len(fate)
               PROVE  fate'[i] = "queued" <=> i > Len(fate) - Len(queue) + 1
    BY <1>1, <1>4, <1>5
  <2> QED
    BY <1>1, <1>2, <1>3 DEF QueueIsTail
<1>8. QueueIsTail'
  BY <1>6, <1>7 DEF QueueIsTail
<1> QED
  BY <1>2, <1>3, <1>4, <1>5, <1>8

\* Accepting a message.
LEMMA AcceptStep ==
  ASSUME TypeOK, QueueIsTail,
         fate' = Append(fate, "queued"), queue' = Append(queue, Len(fate'))
  PROVE  /\ fate' \in Seq(Fates) /\ Len(fate') = Len(fate) + 1
         /\ queue' \in Seq(1..Len(fate')) /\ Len(queue') = Len(queue) + 1
         /\ \A i \in 1..Len(fate) : fate'[i] = fate[i]
         /\ \A i \in 1..Len(queue) : queue'[i] = queue[i]
         /\ queue'[Len(queue')] = Len(fate) + 1
         /\ QueueIsTail'
<1> USE DEF TypeOK
<1>1. /\ fate' \in Seq(Fates) /\ Len(fate') = Len(fate) + 1
      /\ \A i \in 1..Len(fate) : fate'[i] = fate[i]
      /\ fate'[Len(fate) + 1] = "queued"
  BY DEF Fates
<1>2. /\ queue' \in Seq(1..Len(fate')) /\ Len(queue') = Len(queue) + 1
      /\ \A i \in 1..Len(queue) : queue'[i] = queue[i]
      /\ queue'[Len(queue')] = Len(fate) + 1
  BY <1>1
<1>3. Len(queue) \in 0..Len(fate)
  BY TailFits
<1>4. \A i \in 1..Len(queue') : queue'[i] = Len(fate') - Len(queue') + i
  BY <1>1, <1>2, <1>3 DEF QueueIsTail
<1>5. \A i \in 1..Len(fate') : fate'[i] = "queued" <=> i > Len(fate') - Len(queue')
  BY <1>1, <1>2, <1>3 DEF QueueIsTail
<1> QED
  BY <1>1, <1>2, <1>4, <1>5 DEF QueueIsTail

\* A message that is not in the queue gets another fate outside of it.
LEMMA OutsideStep ==
  ASSUME TypeOK, QueueIsTail, queue' = queue,
         NEW h \in 0..Len(fate), h # 0 => fate[h] = "taken",
         NEW f \in Fates \ {"queued"},
         fate' = [i \in 1..Len(fate) |-> IF i = h THEN f ELSE fate[i]]
  PROVE  fate' \in Seq(Fates) /\ Len(fate') = Len(fate) /\ QueueIsTail'
<1>1. fate' \in Seq(Fates) /\ Len(fate') = Len(fate)
  BY DEF TypeOK
<1>2. \A i \in 1..Len(fate) : fate'[i] = "queued" <=> fate[i] = "queued"
  BY DEF TypeOK
<1> QED
  BY <1>1, <1>2 DEF QueueIsTail, TypeOK

\* Nothing new is thrown away but by a send that remembers it.
LEMMA KeptStep ==
  ASSUME TypeOK, LatestKept, Len(fate') = Len(fate),
         \A s \in Senders : thrown[s] \subseteq thrown'[s],
         \A i \in 1..Len(fate) :
            fate'[i] = "drained" => fate[i] = "drained" \/ \E s \in Senders : i \in thrown'[s]
  PROVE  LatestKept'
<1> SUFFICES ASSUME NEW i \in 1..Len(fate), fate'[i] = "drained", ~(i < Len(fate))
             PROVE  \E s \in Senders : i \in thrown'[s]
  BY DEF LatestKept
<1>1. CASE fate[i] = "drained"
  BY <1>1 DEF LatestKept
<1> QED
  BY <1>1

-----------------------------------------------------------------------------
\* A dying process: only what it held changes its fate.
LEMMA DeadStep ==
  ASSUME IInv, NEW p \in Processes, Dead(p), deaths' \in Nat
  PROVE  IInv'
<1> USE DEF IInv
<1>0. UNCHANGED <<queue, live, gen, thrown>> /\ pc' = [pc EXCEPT ![p] = "off"]
  BY DEF Dead, Goto
<1>1. CASE p \in Receivers
  <2>1. /\ fate' = [i \in 1..Len(fate) |-> IF i = hand[p] THEN "lost" ELSE fate[i]]
        /\ hand' = [hand EXCEPT ![p] = 0]
    BY <1>1 DEF Dead
  <2>2. hand[p] \in 0..Len(fate) /\ (hand[p] # 0 => fate[hand[p]] = "taken")
    BY <1>1 DEF TypeOK, HandInv
  <2>3. fate' \in Seq(Fates) /\ Len(fate') = Len(fate) /\ QueueIsTail'
    BY <1>0, <2>1, <2>2, OutsideStep DEF Fates
  <2>4. TypeOK'
    <3>1. /\ backlog' \in [Receivers -> 0..LogRoom]
          /\ handler' \in [Receivers -> Threads \cup {"none"}]
          /\ inside' \in [Receivers -> {"none", "queue", "heap"}]
          /\ step' \in [Receivers -> 0..3]
      <4>1. /\ backlog' = [backlog EXCEPT ![p] = 0] /\ handler' = [handler EXCEPT ![p] = "none"]
            /\ inside' = [inside EXCEPT ![p] = "none"] /\ step' = [step EXCEPT ![p] = 0]
        BY <1>1 DEF Dead
      <4>2. 0 \in 0..LogRoom
        BY IpcAssumption
      <4>3. backlog \in [Receivers -> 0..LogRoom]
        BY DEF TypeOK
      <4>4. backlog' \in [Receivers -> 0..LogRoom]
        BY <4>1, <4>2, <4>3, Zenon
      <4>5. handler' \in [Receivers -> Threads \cup {"none"}]
        <5>1. handler \in [Receivers -> Threads \cup {"none"}]
          BY DEF TypeOK
        <5> QED
          BY <4>1, <5>1, Zenon
      <4>6. inside' \in [Receivers -> {"none", "queue", "heap"}]
        <5>1. inside \in [Receivers -> {"none", "queue", "heap"}]
          BY DEF TypeOK
        <5> QED
          BY <4>1, <5>1, Zenon
      <4>7. step' \in [Receivers -> 0..3]
        <5>1. step \in [Receivers -> 0..3] /\ 0 \in 0..3
          BY DEF TypeOK
        <5> QED
          BY <4>1, <5>1, Zenon
      <4> QED
        BY <4>4, <4>5, <4>6, <4>7
    <3>2. hand' \in [Receivers -> 0..Len(fate')]
      <4>1. Len(fate) \in Nat /\ hand \in [Receivers -> 0..Len(fate)]
        BY DEF TypeOK
      <4>2. 0 \in 0..Len(fate)
        BY <4>1
      <4> QED
        BY <2>1, <2>3, <4>1, <4>2, Zenon
    <3>3. /\ pc' \in [Processes -> {"off", "open", "drain", "put", "recv", "got", "sleep"}]
          /\ msgid' \in [Processes -> Nat]
      BY <1>0 DEF TypeOK, Dead
    <3>4. /\ queue' \in Seq(1..Len(fate')) /\ Len(queue') <= Capacity
          /\ thrown' \in [Senders -> SUBSET (1..Len(fate'))]
      BY <1>0, <2>3 DEF TypeOK
    <3>5. \A r \in Receivers : hand'[r] # 0 <=> pc'[r] = "got"
      BY <1>0, <2>1 DEF TypeOK, Processes
    <3> QED
      BY <1>0, <2>1, <2>3, <3>1, <3>2, <3>3, <3>4, <3>5 DEF TypeOK
  <2>5. HandInv'
    <3> SUFFICES ASSUME NEW r \in Receivers, hand'[r] # 0
                 PROVE  /\ fate'[hand'[r]] = "taken"
                        /\ \A q \in Receivers : hand'[q] = hand'[r] => q = r
      BY DEF HandInv
    <3>1. r # p /\ hand'[r] = hand[r] /\ hand[r] \in 1..Len(fate)
      BY <1>1, <2>1 DEF TypeOK
    <3>2. hand[p] # hand[r] /\ fate[hand[r]] = "taken"
      BY <1>1, <3>1 DEF HandInv
    <3> QED
      BY <2>1, <3>1, <3>2 DEF HandInv, TypeOK
  <2>6. LatestKept'
    <3>1. \A i \in 1..Len(fate) : fate'[i] = "drained" => fate[i] = "drained"
      BY <2>1
    <3> QED
      BY <1>0, <2>3, <3>1, KeptStep
  <2> QED
    BY <2>3, <2>4, <2>5, <2>6
<1>2. CASE p \notin Receivers
  <2>1. UNCHANGED <<fate, hand, backlog, handler, inside, step>>
    BY <1>2 DEF Dead
  <2>2. QueueIsTail' /\ HandInv' /\ LatestKept'
    BY <1>0, <2>1 DEF QueueIsTail, HandInv, LatestKept
  <2>3. /\ pc' \in [Processes -> {"off", "open", "drain", "put", "recv", "got", "sleep"}]
        /\ msgid' \in [Processes -> Nat]
    BY <1>0 DEF TypeOK, Dead
  <2>4. \A r \in Receivers : pc'[r] = pc[r]
    BY <1>0, <1>2 DEF TypeOK, Processes
  <2>5. TypeOK'
    BY <1>0, <2>1, <2>3, <2>4 DEF TypeOK
  <2> QED
    BY <2>2, <2>5
<1> QED
  BY <1>1, <1>2

\* An item enters the queue of spdlog's pool.
LEMMA EnqueueStep ==
  ASSUME TypeOK, NEW r \in Receivers, Enqueue(r)
  PROVE  backlog' \in [Receivers -> 0..LogRoom]
BY IpcAssumption DEF TypeOK, Enqueue

\* The steps that leave the queue, fate and what was thrown away alone.
LEMMA QuietStep ==
  ASSUME IInv, NEW p \in Processes,
         \/ Open(p)
         \/ p \in Senders /\ (\/ \E queue_cache \in BOOLEAN : SendCall(p, queue_cache)
                              \/ DrainEnd(p) \/ PutFails(p) \/ Exit(p))
         \/ p \in Receivers /\ (\/ RecvFails(p) \/ Wake(p) \/ Work(p) \/ Flush(p)
                                \/ Signal(p) \/ HandlerLogs(p) \/ HandlerAllocates(p))
  PROVE  IInv'
<1> USE DEF IInv, kernel, node, sig
<1>1. UNCHANGED <<queue, fate, hand, thrown>>
  BY DEF Open, SendCall, DrainEnd, PutFails, Exit, RecvFails, Wake, Work, Flush,
         Signal, HandlerLogs, HandlerAllocates
<1>2. QueueIsTail' /\ HandInv' /\ LatestKept'
  BY <1>1 DEF QueueIsTail, HandInv, LatestKept
<1> DEFINE Pcs == {"off", "open", "drain", "put", "recv", "got", "sleep"}
           Moved == /\ pc' \in [Processes -> Pcs]
                    /\ msgid' \in [Processes -> Nat] /\ live' \in BOOLEAN /\ gen' \in Nat
                    /\ \A r \in Receivers : pc'[r] = "got" <=> pc[r] = "got"
<1>3. Moved
  <2> USE IpcAssumption DEF TypeOK, Goto, Processes
  <2>1. CASE Open(p)
    BY <2>1 DEF Open
  <2>2. ASSUME p \in Senders, NEW queue_cache \in BOOLEAN, SendCall(p, queue_cache)
        PROVE  Moved
    BY <2>2 DEF SendCall
  <2>3. CASE p \in Senders /\ (DrainEnd(p) \/ PutFails(p) \/ Exit(p))
    <3>1. PICK l \in Pcs \ {"got"} : pc' = [pc EXCEPT ![p] = l]
      BY <2>3 DEF DrainEnd, PutFails, Exit
    <3>2. UNCHANGED <<live, gen>> /\ (msgid' = msgid \/ msgid' = [msgid EXCEPT ![p] = 0])
      BY <2>3 DEF DrainEnd, PutFails, Exit
    <3>3. \A r \in Receivers : pc'[r] = pc[r]
      <4>1. \A r \in Receivers : r # p /\ r \in Processes
        BY <2>3
      <4> QED
        BY <3>1, <4>1
    <3>4. pc' \in [Processes -> Pcs]
      BY <3>1
    <3>5. msgid' \in [Processes -> Nat]
      <4>1. CASE msgid' = msgid
        BY <4>1
      <4>2. CASE msgid' = [msgid EXCEPT ![p] = 0]
        BY <4>2
      <4> QED
        BY <3>2, <4>1, <4>2
    <3> QED
      BY <3>2, <3>3, <3>4, <3>5
  <2>4. CASE p \in Receivers /\ (RecvFails(p) \/ Wake(p))
    BY <2>4 DEF RecvFails, Wake
  <2>5. CASE p \in Receivers /\ (\/ Work(p) \/ Flush(p) \/ Signal(p)
                                 \/ HandlerLogs(p) \/ HandlerAllocates(p))
    BY <2>5 DEF Work, Flush, Signal, HandlerLogs, HandlerAllocates
  <2> QED
    BY <2>1, <2>2, <2>3, <2>4, <2>5
<1>4. /\ backlog' \in [Receivers -> 0..LogRoom]
      /\ handler' \in [Receivers -> Threads \cup {"none"}]
      /\ inside' \in [Receivers -> {"none", "queue", "heap"}]
      /\ step' \in [Receivers -> 0..3] /\ deaths' \in Nat
  <2>1. CASE UNCHANGED node
    BY <2>1 DEF TypeOK
  <2>2. CASE p \in Receivers /\ Work(p)
    BY <2>2, IpcAssumption DEF TypeOK, Work
  <2>3. CASE p \in Receivers /\ Flush(p)
    BY <2>3, EnqueueStep DEF TypeOK, Flush
  <2>4. CASE p \in Receivers /\ Signal(p)
    <3>1. PICK t \in Threads : \E l \in Places(p, t) :
             /\ handler' = [handler EXCEPT ![p] = t]
             /\ inside' = [inside EXCEPT ![p] = l]
      BY <2>4 DEF Signal
    <3>2. PICK l \in Places(p, t) : inside' = [inside EXCEPT ![p] = l]
      BY <3>1
    <3>3. l \in {"none", "queue", "heap"}
      BY <3>2 DEF Places
    <3>4. handler' = [handler EXCEPT ![p] = t]
      BY <3>1
    <3>5. UNCHANGED <<backlog, step>> /\ deaths' = deaths + 1
      BY <2>4 DEF Signal
    <3>6. /\ handler' \in [Receivers -> Threads \cup {"none"}]
          /\ inside' \in [Receivers -> {"none", "queue", "heap"}]
      BY <2>4, <3>2, <3>3, <3>4 DEF TypeOK
    <3> QED
      BY <3>5, <3>6 DEF TypeOK
  <2>5. CASE p \in Receivers /\ HandlerLogs(p)
    <3>1. step' \in [Receivers -> 0..3] /\ UNCHANGED <<handler, inside, deaths>>
      BY <2>5 DEF TypeOK, HandlerLogs
    <3> QED
      BY <2>5, <3>1, EnqueueStep DEF TypeOK, HandlerLogs
  <2>6. CASE p \in Receivers /\ HandlerAllocates(p)
    BY <2>6 DEF TypeOK, HandlerAllocates
  <2> QED
    BY <2>1, <2>2, <2>3, <2>4, <2>5, <2>6
       DEF Open, SendCall, DrainEnd, PutFails, Exit, RecvFails, Wake
<1>5. TypeOK'
  BY <1>1, <1>3, <1>4 DEF TypeOK
<1> QED
  BY <1>2, <1>5

\* The removal of the queue: all identifiers are invalid from then on.
LEMMA DelStep ==
  ASSUME IInv, NEW p \in Senders, Del(p)
  PROVE  IInv'
<1> USE DEF IInv, node, sig
<1>1. fate' \in Seq(Fates) /\ Len(fate') = Len(fate) /\ queue' = << >>
  BY DEF Del, TypeOK, Fates
<1>2. \A i \in 1..Len(fate) : fate'[i] # "queued" /\ (fate[i] # "queued" => fate'[i] = fate[i])
  BY DEF Del, TypeOK
<1>3. TypeOK' /\ QueueIsTail'
  <2>1. Len(queue') = 0 /\ queue' \in Seq(1..Len(fate'))
    BY <1>1
  <2>2. Capacity \in Nat
    BY IpcAssumption
  <2>3. TypeOK'
    <3>1. UNCHANGED <<gen, pc, msgid, thrown, hand, backlog, handler, inside, step, deaths>> /\ live' = FALSE
      BY DEF Del
    <3>2. hand' \in [Receivers -> 0..Len(fate')]
      BY <1>1, <3>1 DEF TypeOK
    <3>3. live' \in BOOLEAN
      BY <3>1
    <3> QED
      BY <1>1, <2>1, <2>2, <3>1, <3>2, <3>3 DEF TypeOK
  <2>4. QueueIsTail'
    BY <1>1, <1>2, <2>1 DEF QueueIsTail
  <2> QED
    BY <2>3, <2>4
<1>4. HandInv'
  BY <1>1, <1>2 DEF Del, HandInv, TypeOK
<1>5. LatestKept'
  <2>1. thrown' = thrown /\ \A i \in 1..Len(fate) : fate'[i] = "drained" => fate[i] = "drained"
    BY DEF Del, TypeOK
  <2> QED
    BY <1>1, <2>1, KeptStep
<1> QED
  BY <1>3, <1>4, <1>5

\* A message is taken: by a draining send, or by a receiver that then holds it.
LEMMA TakingStep ==
  ASSUME IInv, NEW p \in Processes,
         (p \in Senders /\ Drain(p)) \/ (p \in Receivers /\ Recv(p))
  PROVE  IInv'
<1> USE DEF IInv
<1>1. PICK f \in Fates \ {"queued"} : TakeFirst(f)
  BY DEF Drain, Recv, Fates
<1>2. /\ Head(queue) \in 1..Len(fate) /\ fate[Head(queue)] = "queued"
      /\ fate' \in Seq(Fates) /\ Len(fate') = Len(fate)
      /\ queue' \in Seq(1..Len(fate)) /\ Len(queue') = Len(queue) - 1
      /\ \A i \in 1..Len(queue') : queue'[i] = queue[i + 1]
      /\ QueueIsTail'
  BY <1>1, TakeStep
<1>3. \A i \in 1..Len(fate) : i # Head(queue) => fate'[i] = fate[i]
  BY <1>1, <1>2 DEF TakeFirst, TypeOK
<1>4. \A i \in 1..Len(fate) : fate[i] = "taken" => fate'[i] = "taken" /\ i # Head(queue)
  BY <1>1, <1>2 DEF TakeFirst, TypeOK
<1>5. UNCHANGED <<live, gen, msgid, backlog, handler, inside, step, deaths>>
  BY DEF Drain, Recv, node, sig
<1>6. CASE p \in Senders /\ Drain(p)
  <2>1. UNCHANGED <<pc, hand>> /\ thrown' = [thrown EXCEPT ![p] = @ \cup {Head(queue)}]
    BY <1>6 DEF Drain, node
  <2>2. TypeOK'
    <3>1. hand' \in [Receivers -> 0..Len(fate')]
      BY <1>2, <2>1 DEF TypeOK
    <3>2. queue' \in Seq(1..Len(fate')) /\ Len(queue') <= Capacity
      BY <1>2, IpcAssumption DEF TypeOK
    <3>3. thrown' \in [Senders -> SUBSET (1..Len(fate'))]
      BY <1>2, <1>6, <2>1 DEF TypeOK
    <3> QED
      BY <1>2, <1>5, <2>1, <3>1, <3>2, <3>3 DEF TypeOK
  <2>3. HandInv'
    BY <1>2, <1>4, <2>1 DEF HandInv, TypeOK
  <2>4. LatestKept'
    <3>1. \A s \in Senders : thrown[s] \subseteq thrown'[s]
      BY <2>1 DEF TypeOK
    <3>2. Head(queue) \in thrown'[p]
      BY <1>6, <2>1 DEF TypeOK
    <3>3. \A i \in 1..Len(fate) :
             fate'[i] = "drained" => fate[i] = "drained" \/ \E s \in Senders : i \in thrown'[s]
      BY <1>3, <1>6, <3>2
    <3> QED
      BY <1>2, <3>1, <3>3, KeptStep
  <2> QED
    BY <1>2, <2>2, <2>3, <2>4
<1>7. CASE p \in Receivers /\ Recv(p)
  <2>1. /\ hand' = [hand EXCEPT ![p] = Head(queue)]
        /\ pc' = [pc EXCEPT ![p] = "got"]
        /\ fate' = [fate EXCEPT ![Head(queue)] = "taken"]
        /\ thrown' = thrown
    BY <1>7 DEF Recv, Goto, TakeFirst
  <2>2. TypeOK'
    <3>1. hand' \in [Receivers -> 0..Len(fate')]
      BY <1>2, <1>7, <2>1 DEF TypeOK
    <3>2. pc' \in [Processes -> {"off", "open", "drain", "put", "recv", "got", "sleep"}]
      BY <1>7, <2>1 DEF TypeOK
    <3>3. queue' \in Seq(1..Len(fate')) /\ Len(queue') <= Capacity
      BY <1>2, IpcAssumption DEF TypeOK
    <3>4. \A r \in Receivers : hand'[r] # 0 <=> pc'[r] = "got"
      BY <1>2, <1>7, <2>1 DEF TypeOK, Processes
    <3>5. thrown' \in [Senders -> SUBSET (1..Len(fate'))]
      BY <1>2, <2>1 DEF TypeOK
    <3> QED
      BY <1>2, <1>5, <3>1, <3>2, <3>3, <3>4, <3>5 DEF TypeOK
  <2>3. HandInv'
    <3> SUFFICES ASSUME NEW r \in Receivers, hand'[r] # 0
                 PROVE  /\ fate'[hand'[r]] = "taken"
                        /\ \A q \in Receivers : hand'[q] = hand'[r] => q = r
      BY DEF HandInv
    <3>1. CASE r = p
      <4>1. hand'[r] = Head(queue) /\ fate'[Head(queue)] = "taken"
        BY <1>2, <1>7, <2>1, <3>1 DEF TypeOK
      <4>2. \A q \in Receivers \ {p} : hand[q] # Head(queue)
        BY <1>2 DEF HandInv
      <4> QED
        BY <2>1, <3>1, <4>1, <4>2 DEF TypeOK
    <3>2. CASE r # p
      <4>1. hand'[r] = hand[r] /\ hand[r] \in 1..Len(fate) /\ fate[hand[r]] = "taken"
        BY <2>1, <3>2 DEF HandInv, TypeOK
      <4>2. hand[r] # Head(queue)
        BY <1>2, <4>1
      <4> QED
        BY <1>4, <2>1, <4>1, <4>2 DEF HandInv, TypeOK
    <3> QED
      BY <3>1, <3>2
  <2>4. LatestKept'
    <3>1. fate'[Head(queue)] = "taken"
      BY <1>2, <2>1 DEF TypeOK
    <3>2. \A i \in 1..Len(fate) : fate'[i] = "drained" => fate[i] = "drained"
      BY <1>3, <3>1
    <3> QED
      BY <1>2, <2>1, <3>2, KeptStep
  <2> QED
    BY <1>2, <2>2, <2>3, <2>4
<1> QED
  BY <1>6, <1>7

\* A send is accepted.
LEMMA PutStep ==
  ASSUME IInv, NEW s \in Senders, Put(s)
  PROVE  IInv'
<1> USE DEF IInv
<1>1. /\ fate' \in Seq(Fates) /\ Len(fate') = Len(fate) + 1
      /\ queue' \in Seq(1..Len(fate')) /\ Len(queue') = Len(queue) + 1
      /\ \A i \in 1..Len(fate) : fate'[i] = fate[i]
      /\ \A i \in 1..Len(queue) : queue'[i] = queue[i]
      /\ queue'[Len(queue')] = Len(fate) + 1
      /\ QueueIsTail'
  BY AcceptStep DEF Put
<1>2. /\ pc' = [pc EXCEPT ![s] = "open"] /\ thrown' = [thrown EXCEPT ![s] = {}]
      /\ UNCHANGED <<live, gen, msgid, hand, backlog, handler, inside, step, deaths>>
  BY DEF Put, Goto, node, sig
<1>3. TypeOK'
  <2>1. hand' \in [Receivers -> 0..Len(fate')]
    BY <1>1, <1>2 DEF TypeOK
  <2>2. Len(queue') <= Capacity
    BY <1>1, IpcAssumption DEF Put, TypeOK
  <2>3. thrown' \in [Senders -> SUBSET (1..Len(fate'))]
    <3>1. SUBSET (1..Len(fate)) \subseteq SUBSET (1..Len(fate'))
      BY <1>1 DEF TypeOK
    <3> QED
      BY <1>2, <3>1 DEF TypeOK
  <2>4. \A r \in Receivers : pc'[r] = pc[r]
    BY <1>2, IpcAssumption DEF TypeOK, Processes
  <2>5. pc' \in [Processes -> {"off", "open", "drain", "put", "recv", "got", "sleep"}]
    BY <1>2 DEF TypeOK
  <2> QED
    BY <1>1, <1>2, <2>1, <2>2, <2>3, <2>4, <2>5 DEF TypeOK
<1>4. HandInv'
  <2>1. \A r \in Receivers : hand[r] # 0 => fate'[hand[r]] = fate[hand[r]]
    BY <1>1 DEF TypeOK
  <2> QED
    BY <1>2, <2>1 DEF HandInv
<1>5. LatestKept'
  <2>1. fate'[Len(fate')] = "queued"
    BY <1>1 DEF Put, TypeOK
  <2>2. \A i \in 1..Len(fate') : i < Len(fate') \/ i = Len(fate')
    BY <1>1
  <2> QED
    BY <2>1, <2>2 DEF LatestKept
<1> QED
  BY <1>1, <1>3, <1>4, <1>5

\* A receiver has posted its message to its log.
LEMMA LogStep ==
  ASSUME IInv, NEW r \in Receivers, Log(r)
  PROVE  IInv'
<1> USE DEF IInv
<1>1. /\ hand' = [hand EXCEPT ![r] = 0] /\ pc' = [pc EXCEPT ![r] = "sleep"]
      /\ Enqueue(r)
      /\ fate' = [fate EXCEPT ![hand[r]] = "posted"]
      /\ UNCHANGED <<queue, live, gen, msgid, thrown, handler, inside, step, deaths>>
  BY DEF Log, Goto, sig
<1>2. hand[r] \in 0..Len(fate) /\ (hand[r] # 0 => fate[hand[r]] = "taken")
  BY DEF TypeOK, HandInv
<1>3. fate' = [i \in 1..Len(fate) |-> IF i = hand[r] THEN "posted" ELSE fate[i]]
  <2>1. DOMAIN fate = 1..Len(fate) /\ fate = [i \in 1..Len(fate) |-> fate[i]]
    BY DEF TypeOK
  <2> QED
    BY <1>1, <2>1
<1>4. fate' \in Seq(Fates) /\ Len(fate') = Len(fate) /\ QueueIsTail'
  <2>1. "posted" \in Fates \ {"queued"} /\ queue' = queue
    BY <1>1 DEF Fates
  <2> QED
    BY <1>2, <1>3, <2>1, OutsideStep
<1>5. TypeOK'
  <2>1. hand' \in [Receivers -> 0..Len(fate')]
    <3>1. Len(fate) \in Nat /\ hand \in [Receivers -> 0..Len(fate)]
      BY DEF TypeOK
    <3>2. 0 \in 0..Len(fate)
      BY <3>1
    <3> QED
      BY <1>1, <1>4, <3>1, <3>2, Zenon
  <2>2. backlog' \in [Receivers -> 0..LogRoom]
    BY <1>1, EnqueueStep
  <2>3. \A q \in Receivers : hand'[q] # 0 <=> pc'[q] = "got"
    BY <1>1 DEF TypeOK, Processes
  <2>4. pc' \in [Processes -> {"off", "open", "drain", "put", "recv", "got", "sleep"}]
    BY <1>1 DEF TypeOK
  <2>5. /\ queue' \in Seq(1..Len(fate')) /\ Len(queue') <= Capacity
        /\ thrown' \in [Senders -> SUBSET (1..Len(fate'))]
    BY <1>1, <1>4 DEF TypeOK
  <2> QED
    BY <1>1, <1>4, <2>1, <2>2, <2>3, <2>4, <2>5 DEF TypeOK
<1>6. HandInv'
  <2> SUFFICES ASSUME NEW q \in Receivers, hand'[q] # 0
               PROVE  /\ fate'[hand'[q]] = "taken"
                      /\ \A p \in Receivers : hand'[p] = hand'[q] => p = q
    BY DEF HandInv
  <2>1. q # r /\ hand'[q] = hand[q] /\ hand[q] \in 1..Len(fate)
    BY <1>1 DEF TypeOK
  <2>2. hand[r] # hand[q] /\ fate[hand[q]] = "taken"
    BY <2>1 DEF HandInv
  <2> QED
    BY <1>1, <1>3, <2>1, <2>2 DEF HandInv, TypeOK
<1>7. LatestKept'
  <2>1. thrown' = thrown /\ \A i \in 1..Len(fate) : fate'[i] = "drained" => fate[i] = "drained"
    BY <1>1, <1>3
  <2> QED
    BY <1>4, <2>1, KeptStep
<1> QED
  BY <1>4, <1>5, <1>6, <1>7

-----------------------------------------------------------------------------
\* The invariant holds in every reachable state.
LEMMA Inductive == Spec => []IInv
<1>1. Init => IInv
  <2> SUFFICES ASSUME Init PROVE IInv
    OBVIOUS
  <2>1. queue = << >> /\ Len(queue) = 0 /\ fate = << >> /\ Len(fate) = 0
    BY DEF Init
  <2>2. TypeOK
    <3>1. queue \in Seq(1..Len(fate)) /\ fate \in Seq(Fates) /\ Len(queue) <= Capacity
      BY <2>1, IpcAssumption
    <3>2. /\ pc \in [Processes -> {"off", "open", "drain", "put", "recv", "got", "sleep"}]
          /\ msgid \in [Processes -> Nat] /\ thrown \in [Senders -> SUBSET (1..Len(fate))]
          /\ backlog \in [Receivers -> 0..LogRoom]
          /\ handler \in [Receivers -> Threads \cup {"none"}]
          /\ inside \in [Receivers -> {"none", "queue", "heap"}]
          /\ step \in [Receivers -> 0..3]
          /\ \A r \in Receivers : hand[r] # 0 <=> pc[r] = "got"
      BY IpcAssumption DEF Init, Processes
    <3>3. hand \in [Receivers -> 0..Len(fate)]
      BY <2>1 DEF Init
    <3>4. live \in BOOLEAN
      BY DEF Init
    <3>5. gen \in Nat /\ deaths \in Nat
      BY DEF Init
    <3> QED
      BY <3>1, <3>2, <3>3, <3>4, <3>5 DEF TypeOK
  <2>3. QueueIsTail /\ HandInv
    BY <2>1 DEF QueueIsTail, HandInv, Init
  <2>4. LatestKept
    BY <2>1 DEF LatestKept
  <2> QED
    BY <2>2, <2>3, <2>4 DEF IInv
<1>2. IInv /\ [Next]_vars => IInv'
  <2> SUFFICES ASSUME IInv, [Next]_vars PROVE IInv'
    OBVIOUS
  <2> USE DEF Processes
  <2>1. CASE UNCHANGED vars
    BY <2>1 DEF vars, IInv, TypeOK, QueueIsTail, HandInv, LatestKept
  <2>2. ASSUME NEW p \in Processes, Open(p) PROVE IInv'
    BY <2>2, QuietStep
  <2>f. ASSUME NEW p \in Processes, OpenFails(p) PROVE IInv'
    BY <2>1, <2>f DEF OpenFails
  <2>3. ASSUME NEW p \in Processes, Kill(p) PROVE IInv'
    <3>1. deaths' \in Nat
      BY <2>3 DEF Kill, IInv, TypeOK
    <3> QED
      BY <2>3, <3>1, DeadStep DEF Kill
  <2>4. ASSUME NEW s \in Senders, Send(s) PROVE IInv'
    BY <2>4, TakingStep, QuietStep, PutStep DEF Send
  <2>5. ASSUME NEW s \in Senders, Exit(s) \/ Del(s) PROVE IInv'
    BY <2>5, QuietStep, DelStep
  <2>6. ASSUME NEW s \in Senders, NEW queue_cache \in BOOLEAN, SendCall(s, queue_cache)
        PROVE  IInv'
    BY <2>6, QuietStep
  <2>7. ASSUME NEW r \in Receivers, Loop(r) PROVE IInv'
    BY <2>7, TakingStep, QuietStep DEF Loop
  <2>8. ASSUME NEW r \in Receivers, Log(r) \/ Work(r) \/ Flush(r) \/ Signal(r)
        PROVE  IInv'
    BY <2>8, QuietStep, LogStep
  <2>h. ASSUME NEW r \in Receivers, HandlerLogs(r) \/ HandlerAllocates(r) PROVE IInv'
    BY <2>h, QuietStep
  <2>9. ASSUME NEW r \in Receivers, HandlerEnds(r) PROVE IInv'
    <3>1. deaths' \in Nat
      BY <2>9 DEF HandlerEnds, IInv, TypeOK
    <3> QED
      BY <2>9, <3>1, DeadStep DEF HandlerEnds
  <2> QED
    BY <2>1, <2>2, <2>f, <2>3, <2>4, <2>5, <2>6, <2>7, <2>8, <2>h, <2>9 DEF Next, Handler
<1> QED
  BY <1>1, <1>2, PTL DEF Spec

\* Type correctness of the message queue and of both programs; the kernel's
\* queue keeps its limit.
THEOREM TypeCorrect == Spec => []TypeOK
<1>1. IInv => TypeOK
  BY DEF IInv
<1> QED
  BY <1>1, Inductive, PTL

\* msgsnd() and msgrcv(), drains, crashes and removals keep the order: what
\* waits in the queue is always the youngest part of what was accepted.
THEOREM QueueStaysTail == Spec => []QueueIsTail
<1>1. IInv => QueueIsTail
  BY DEF IInv
<1> QED
  BY <1>1, Inductive, PTL

\* The drain of a send() with queue_cache throws nothing away that is not followed
\* by a younger message, unless that send is still at it, failed or died.
THEOREM DrainKeepsLatest == Spec => []LatestKept
<1>1. IInv => LatestKept
  BY DEF IInv
<1> QED
  BY <1>1, Inductive, PTL

-----------------------------------------------------------------------------
(* Ipc implements Mailbox                                                  *)

\* What waits is what is in the queue, and the oldest of it is in front.
LEMMA WaitingIsQueue ==
  ASSUME IInv
  PROVE  /\ MailboxSpec!Waiting = (Len(fate) - Len(queue) + 1)..Len(fate)
         /\ MailboxSpec!Cardinality(MailboxSpec!Waiting) = Len(queue)
         /\ queue # << >> => MailboxSpec!Oldest = Head(queue)
<1> USE DEF IInv, TypeOK
<1>1. Len(queue) \in 0..Len(fate)
  BY TailFits
<1>2. MailboxSpec!Waiting = (Len(fate) - Len(queue) + 1)..Len(fate)
  BY <1>1 DEF MailboxSpec!Waiting, QueueIsTail
<1>3. Cardinality((Len(fate) - Len(queue) + 1)..Len(fate)) = Len(queue)
  <2>1. /\ Len(fate) - Len(queue) + 1 \in Int /\ Len(fate) \in Int
        /\ Len(fate) - Len(queue) + 1 > Len(fate) <=> Len(queue) = 0
        /\ Len(fate) - (Len(fate) - Len(queue) + 1) + 1 = Len(queue)
    BY <1>1
  <2> QED
    BY <2>1, FS_Interval
<1>4. ASSUME queue # << >> PROVE MailboxSpec!Oldest = Head(queue)
  <2>1. Head(queue) = Len(fate) - Len(queue) + 1 /\ Len(queue) # 0
    BY <1>1, <1>4 DEF QueueIsTail
  <2>2. /\ Head(queue) \in MailboxSpec!Waiting
        /\ \A j \in MailboxSpec!Waiting : Head(queue) <= j
    BY <1>1, <1>2, <2>1
  <2>3. \A i \in MailboxSpec!Waiting :
          (\A j \in MailboxSpec!Waiting : i <= j) => i = Head(queue)
    BY <1>1, <1>2, <2>1, <2>2
  <2> QED
    BY <2>2, <2>3 DEF MailboxSpec!Oldest
<1>5. MailboxSpec!Cardinality(MailboxSpec!Waiting) = Cardinality(MailboxSpec!Waiting)
  BY Zenon DEF MailboxSpec!Cardinality, Cardinality
<1> QED
  BY <1>2, <1>3, <1>4, <1>5

\* A dying process does at most lose what it held.
LEMMA DeadIsFinish ==
  ASSUME IInv, NEW p \in Processes, Dead(p)
  PROVE  MailboxSpec!Finish \/ fate' = fate
<1>1. CASE p \in Receivers /\ hand[p] # 0
  <2>1. hand[p] \in 1..Len(fate) /\ fate[hand[p]] = "taken"
    BY <1>1 DEF IInv, TypeOK, HandInv
  <2>2. fate' = [i \in 1..Len(fate) |-> IF i = hand[p] THEN "lost" ELSE fate[i]]
    BY <1>1 DEF Dead
  <2>3. fate' = [fate EXCEPT ![hand[p]] = "lost"]
    <3>1. DOMAIN fate = 1..Len(fate)
      BY DEF IInv, TypeOK
    <3> QED
      BY <2>1, <2>2, <3>1
  <2> QED
    BY <2>1, <2>3 DEF MailboxSpec!Finish
<1>2. CASE p \in Receivers /\ hand[p] = 0
  <2>1. fate = [i \in 1..Len(fate) |-> fate[i]]
    BY DEF IInv, TypeOK
  <2>2. fate' = [i \in 1..Len(fate) |-> IF i = 0 THEN "lost" ELSE fate[i]]
    BY <1>2 DEF Dead
  <2>3. \A i \in 1..Len(fate) : i # 0
    BY DEF IInv, TypeOK
  <2> QED
    BY <2>1, <2>2, <2>3
<1>3. CASE p \notin Receivers
  BY <1>3 DEF Dead
<1> QED
  BY <1>1, <1>2, <1>3

\* Every step is one of the mailbox, or none.
LEMMA MailboxStep == IInv /\ [Next]_vars => [MailboxSpec!Next]_fate
<1> SUFFICES ASSUME IInv, [Next]_vars
             PROVE  MailboxSpec!Next \/ fate' = fate
  OBVIOUS
<1> USE DEF kernel, node
<1>1. CASE UNCHANGED vars
  BY <1>1 DEF vars
<1>2. ASSUME NEW p \in Processes, Open(p) \/ OpenFails(p) \/ Kill(p)
      PROVE  MailboxSpec!Next \/ fate' = fate
  BY <1>2, DeadIsFinish DEF Open, OpenFails, vars, Kill, MailboxSpec!Next
<1>3. ASSUME NEW s \in Senders, Put(s) PROVE MailboxSpec!Next
  <2>1. Len(queue) < Capacity /\ fate' = Append(fate, "queued")
    BY <1>3 DEF Put
  <2>2. MailboxSpec!Accept
    BY <2>1, WaitingIsQueue DEF MailboxSpec!Accept
  <2> QED
    BY <2>2 DEF MailboxSpec!Next
<1>4. ASSUME NEW f \in {"taken", "drained"}, TakeFirst(f) PROVE MailboxSpec!Next
  <2>1. queue # << >> /\ fate' = [fate EXCEPT ![Head(queue)] = f]
    BY <1>4 DEF TakeFirst
  <2>2. MailboxSpec!Waiting # {}
    <3>1. Head(queue) \in MailboxSpec!Waiting
      BY <2>1, <1>4, TakeStep DEF MailboxSpec!Waiting, IInv, Fates
    <3> QED
      BY <3>1
  <2>3. MailboxSpec!Settle
    BY <2>1, <2>2, WaitingIsQueue DEF MailboxSpec!Settle
  <2> QED
    BY <2>3 DEF MailboxSpec!Next
<1>5. ASSUME NEW s \in Senders, Send(s) PROVE MailboxSpec!Next \/ fate' = fate
  BY <1>3, <1>4, <1>5 DEF Send, Drain, DrainEnd, PutFails
<1>6. ASSUME NEW s \in Senders, Exit(s) PROVE fate' = fate
  BY <1>6 DEF Exit
<1>7. ASSUME NEW s \in Senders, Del(s) PROVE MailboxSpec!Next
  <2>1. fate' = [i \in 1..Len(fate) |-> IF fate[i] = "queued" THEN "removed" ELSE fate[i]]
    BY <1>7 DEF Del
  <2>2. MailboxSpec!RemoveAll
    BY <2>1 DEF MailboxSpec!RemoveAll, MailboxSpec!Waiting
  <2> QED
    BY <2>2 DEF MailboxSpec!Next
<1>8. ASSUME NEW s \in Senders, NEW queue_cache \in BOOLEAN, SendCall(s, queue_cache)
      PROVE  fate' = fate
  BY <1>8 DEF SendCall
<1>9. ASSUME NEW r \in Receivers, Log(r) PROVE MailboxSpec!Next \/ fate' = fate
  <2>1. fate' = [fate EXCEPT ![hand[r]] = "posted"] /\ hand[r] \in 0..Len(fate)
    BY <1>9 DEF Log, IInv, TypeOK
  <2>2. CASE hand[r] = 0
    <3>1. 0 \notin DOMAIN fate
      BY DEF IInv, TypeOK
    <3> QED
      BY <2>1, <2>2, <3>1 DEF IInv, TypeOK
  <2>3. CASE hand[r] # 0
    <3>1. hand[r] \in 1..Len(fate) /\ fate[hand[r]] = "taken"
      BY <2>1, <2>3 DEF IInv, TypeOK, HandInv
    <3>2. MailboxSpec!Finish
      BY <2>1, <3>1 DEF MailboxSpec!Finish
    <3> QED
      BY <3>2 DEF MailboxSpec!Next
  <2> QED
    BY <2>2, <2>3
<1>10. ASSUME NEW r \in Receivers, Loop(r) PROVE MailboxSpec!Next \/ fate' = fate
  BY <1>4, <1>10 DEF Loop, Recv, RecvFails, Wake
<1>11. ASSUME NEW r \in Receivers,
              Work(r) \/ Flush(r) \/ Signal(r) \/ HandlerLogs(r) \/ HandlerAllocates(r)
       PROVE  fate' = fate
  BY <1>11 DEF Work, Flush, Signal, HandlerLogs, HandlerAllocates
<1>12. ASSUME NEW r \in Receivers, HandlerEnds(r)
       PROVE  MailboxSpec!Next \/ fate' = fate
  BY <1>12, DeadIsFinish DEF HandlerEnds, Processes, MailboxSpec!Next
<1> QED
  BY <1>1, <1>2, <1>5, <1>6, <1>7, <1>8, <1>9, <1>10, <1>11, <1>12 DEF Next, Handler

\* Senders, receivers and the kernel's queue together are a mailbox: the oldest
\* message is taken first and once, and nobody loses one that nobody took.
THEOREM QueueImplementsMailbox == Spec => ImplementsMailbox
<1>1. Init => MailboxSpec!Init
  BY DEF Init, MailboxSpec!Init
<1> QED
  BY <1>1, MailboxStep, Inductive, PTL DEF Spec, ImplementsMailbox, MailboxSpec!Spec
=============================================================================

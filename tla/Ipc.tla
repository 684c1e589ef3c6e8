-------------------------------- MODULE Ipc ---------------------------------
(***************************************************************************)
(* modules/ipc: class MessageQueue on a System V queue, and the programs   *)
(* of app/ipc_app that use it.  Senders are processes that call send() with *)
(* and without queue_cache, like pub_node; receivers are processes that    *)
(* run the loop and the signal handler of sub_node.                        *)
(*                                                                         *)
(* The kernel's queue outlives the processes; after a removal the key      *)
(* names another queue, a new generation, and an _msgid of an older one    *)
(* makes every call fail.  A message is the number of its acceptance;      *)
(* fate[i] records what became of message i.                               *)
(***************************************************************************)
EXTENDS Naturals, Sequences, FiniteSets

CONSTANTS Senders, Receivers,
          Capacity,     \* messages the kernel's queue has room for
          LogRoom,      \* items spdlog's pool has room for
          MaxSends,     \* bound: sends begun
          MaxQueues,    \* bound: generations of the queue
          MaxDeaths     \* bound: signals and kills

ASSUME IpcAssumption ==
    /\ IsFiniteSet(Senders) /\ IsFiniteSet(Receivers)
    /\ Senders \cap Receivers = {}
    /\ {Capacity, LogRoom, MaxSends, MaxQueues, MaxDeaths} \subseteq Nat

VARIABLES queue,      \* the kernel's queue
          live, gen,  \* a queue exists under the key; its generation
          fate,
          pc, msgid,  \* per process; 0 is an identifier nothing was stored in
          thrown,     \* per sender: what it drained since a send of it succeeded
          hand,       \* per receiver: the message in msg; 0 if none
          backlog,    \* per receiver: the items in the queue of spdlog's pool
          handler,    \* per receiver: the thread that runs sig_handler
          inside,     \* per receiver: the lock that thread held at the signal
          step,       \* per receiver: how far sig_handler has come
          deaths

vars == <<queue, live, gen, fate, pc, msgid, thrown,
          hand, backlog, handler, inside, step, deaths>>
kernel == <<queue, live, gen, fate>>
sig == <<handler, inside, step, deaths>>
node == <<hand, backlog, sig>>

Processes == Senders \cup Receivers
Fates == {"queued", "taken", "posted", "lost", "drained", "removed"}
\* The threads of sub_node: main(), spdlog's pool, and that of flush_every().
Threads == {"main", "worker", "flusher"}

\* _msgid names a queue that exists.
Valid(p) == live /\ msgid[p] = gen
Goto(p, label) == pc' = [pc EXCEPT ![p] = label]

Init ==
    /\ queue = << >> /\ live = FALSE /\ gen = 0 /\ fate = << >>
    /\ pc = [p \in Processes |-> "off"]
    /\ msgid = [p \in Processes |-> 0]
    /\ thrown = [s \in Senders |-> {}]
    /\ hand = [r \in Receivers |-> 0]
    /\ backlog = [r \in Receivers |-> 0]
    /\ handler = [r \in Receivers |-> "none"]
    /\ inside = [r \in Receivers |-> "none"]
    /\ step = [r \in Receivers |-> 0]
    /\ deaths = 0

-----------------------------------------------------------------------------
(* MessageQueue                                                            *)

\* get_msg_queue(): the queue under the key, made if there is none.
Open(p) ==
    /\ pc[p] = "off"
    /\ live' = TRUE
    /\ gen' = IF live THEN gen ELSE gen + 1
    /\ msgid' = [msgid EXCEPT ![p] = gen']
    /\ Goto(p, IF p \in Senders THEN "open" ELSE "recv")
    /\ UNCHANGED <<queue, fate, thrown, node>>

\* msgget() fails: both programs end, and nothing has changed.
OpenFails(p) == pc[p] = "off" /\ UNCHANGED vars

\* del_msg_queue(): what waits in the queue goes with it.
Del(p) ==
    /\ pc[p] = "open" /\ Valid(p)
    /\ gen < MaxQueues
    /\ live' = FALSE
    /\ queue' = << >>
    /\ fate' = [i \in 1..Len(fate) |-> IF fate[i] = "queued" THEN "removed" ELSE fate[i]]
    /\ UNCHANGED <<gen, pc, msgid, thrown, node>>

\* send(): with queue_cache the queue is drained first.
SendCall(s, queue_cache) ==
    /\ pc[s] = "open"
    /\ Len(fate) + Cardinality({p \in Senders : pc[p] \in {"drain", "put"}}) < MaxSends
    /\ Goto(s, IF queue_cache THEN "drain" ELSE "put")
    /\ UNCHANGED <<kernel, msgid, thrown, node>>

\* msgrcv() of any type takes the first message.
TakeFirst(f) ==
    /\ queue # << >>
    /\ fate' = [fate EXCEPT ![Head(queue)] = f]
    /\ queue' = Tail(queue)

Drain(s) ==
    /\ pc[s] = "drain" /\ Valid(s)
    /\ TakeFirst("drained")
    /\ thrown' = [thrown EXCEPT ![s] = @ \cup {Head(queue)}]
    /\ UNCHANGED <<live, gen, pc, msgid, node>>

\* msgrcv() with IPC_NOWAIT fails: nothing is left, or the queue is gone.
DrainEnd(s) ==
    /\ pc[s] = "drain"
    /\ ~Valid(s) \/ queue = << >>
    /\ Goto(s, "put")
    /\ UNCHANGED <<kernel, msgid, thrown, node>>

\* Mutant of Put: the drain comes after the send.
Put_ThenDrain(s) ==
    /\ pc[s] = "put" /\ Valid(s)
    /\ Len(queue) < Capacity
    /\ fate' = [i \in 1..(Len(fate) + 1) |->
                   IF i > Len(fate) \/ fate[i] = "queued" THEN "drained" ELSE fate[i]]
    /\ queue' = << >>
    /\ thrown' = [thrown EXCEPT ![s] = {}]
    /\ Goto(s, "open")
    /\ UNCHANGED <<live, gen, msgid, node>>

\* msgsnd() waits for room and returns 0.
Put(s) ==
    /\ pc[s] = "put" /\ Valid(s)
    /\ Len(queue) < Capacity
    /\ fate' = Append(fate, "queued")
    /\ queue' = Append(queue, Len(fate'))
    /\ thrown' = [thrown EXCEPT ![s] = {}]
    /\ Goto(s, "open")
    /\ UNCHANGED <<live, gen, msgid, node>>

\* msgsnd() returns -1, also when the queue is removed while it waits.
PutFails(s) ==
    /\ pc[s] = "put" /\ ~Valid(s)
    /\ Goto(s, "open")
    /\ UNCHANGED <<kernel, msgid, thrown, node>>

\* pub_node's main() returns.
Exit(s) ==
    /\ pc[s] = "open"
    /\ Goto(s, "off")
    /\ msgid' = [msgid EXCEPT ![s] = 0]
    /\ UNCHANGED <<kernel, thrown, node>>

-----------------------------------------------------------------------------
(* sub_node.  What its threads do under the mutex of spdlog's queue or     *)
(* under the lock of the heap is one step, except where a signal falls.    *)

\* The thread does not run the handler.
Runs(r, t) == pc[r] # "off" /\ handler[r] # t

\* post_async_msg_(): an item enters the queue of spdlog's pool.  It waits for
\* the mutex and for room.
Enqueue(r) ==
    /\ inside[r] # "queue" /\ backlog[r] < LogRoom
    /\ backlog' = [backlog EXCEPT ![r] = @ + 1]

\* Mutant of Recv: the message is read and stays in the queue.
Recv_Peek(r) ==
    /\ pc[r] = "recv" /\ Runs(r, "main") /\ Valid(r)
    /\ queue # << >>
    /\ hand' = [hand EXCEPT ![r] = Head(queue)]
    /\ fate' = [fate EXCEPT ![Head(queue)] = "taken"]
    /\ Goto(r, "got")
    /\ UNCHANGED <<queue, live, gen, msgid, thrown, backlog, sig>>

Recv(r) ==
    /\ pc[r] = "recv" /\ Runs(r, "main") /\ Valid(r)
    /\ TakeFirst("taken")
    /\ hand' = [hand EXCEPT ![r] = Head(queue)]
    /\ Goto(r, "got")
    /\ UNCHANGED <<live, gen, msgid, thrown, backlog, sig>>

\* Mutant of RecvFails: the result of recv() is not looked at.
RecvFails_Unchecked(r) ==
    /\ pc[r] = "recv" /\ Runs(r, "main") /\ ~Valid(r)
    /\ Goto(r, "got")
    /\ UNCHANGED <<kernel, msgid, thrown, node>>

\* recv() returns false and the loop goes on: run_flag is never cleared.
RecvFails(r) ==
    /\ pc[r] = "recv" /\ Runs(r, "main") /\ ~Valid(r)
    /\ Goto(r, "sleep")
    /\ UNCHANGED <<kernel, msgid, thrown, node>>

\* LOGI posts the text; whether it gets to the file is the matter of Logger.tla.
Log(r) ==
    /\ pc[r] = "got" /\ Runs(r, "main")
    /\ Enqueue(r)
    /\ fate' = [fate EXCEPT ![hand[r]] = "posted"]
    /\ hand' = [hand EXCEPT ![r] = 0]
    /\ Goto(r, "sleep")
    /\ UNCHANGED <<queue, live, gen, msgid, thrown, sig>>

\* Mutant of Wake: the loop only looks at the queue while there is none.
Wake_RunOnce(r) ==
    /\ pc[r] = "sleep" /\ Runs(r, "main") /\ ~Valid(r)
    /\ Goto(r, "recv")
    /\ UNCHANGED <<kernel, msgid, thrown, node>>

\* 5 ms later.
Wake(r) ==
    /\ pc[r] = "sleep" /\ Runs(r, "main")
    /\ Goto(r, "recv")
    /\ UNCHANGED <<kernel, msgid, thrown, node>>

\* The thread of spdlog's pool takes an item.
Work(r) ==
    /\ Runs(r, "worker") /\ inside[r] # "queue" /\ backlog[r] > 0
    /\ backlog' = [backlog EXCEPT ![r] = @ - 1]
    /\ UNCHANGED <<kernel, pc, msgid, thrown, hand, sig>>

\* flush_every(): once in a second another thread posts a flush.
Flush(r) ==
    /\ Runs(r, "flusher")
    /\ Enqueue(r)
    /\ UNCHANGED <<kernel, pc, msgid, thrown, hand, sig>>

-----------------------------------------------------------------------------
(* The end of a process.  A thread that runs the handler does nothing else *)
(* and keeps the lock it held when the signal came.                        *)

\* Where a signal can find a thread: main() in the queue while it logs, the
\* others in the queue at any time; the worker allocates when it writes and
\* rotates, what the others make fits into buffers.
Places(r, t) ==
    {"none"} \cup (IF t # "main" \/ pc[r] = "got" THEN {"queue"} ELSE {})
             \cup (IF t = "worker" THEN {"heap"} ELSE {})

\* A signal that sub_node handles interrupts one of its threads.
Signal(r) ==
    /\ pc[r] # "off" /\ handler[r] = "none"
    /\ deaths < MaxDeaths
    /\ deaths' = deaths + 1
    /\ \E t \in Threads : \E l \in Places(r, t) :
          /\ handler' = [handler EXCEPT ![r] = t]
          /\ inside' = [inside EXCEPT ![r] = l]
    /\ UNCHANGED <<kernel, pc, msgid, thrown, hand, backlog, step>>

\* LOGE of the signal, and after the backtrace LOGE of its frames.
HandlerLogs(r) ==
    /\ handler[r] # "none" /\ step[r] \in {0, 2}
    /\ Enqueue(r)
    /\ step' = [step EXCEPT ![r] = @ + 1]
    /\ UNCHANGED <<kernel, pc, msgid, thrown, hand, handler, inside, deaths>>

\* backtrace_symbols() allocates the strings.
HandlerAllocates(r) ==
    /\ handler[r] # "none" /\ step[r] = 1
    /\ inside[r] # "heap"
    /\ step' = [step EXCEPT ![r] = @ + 1]
    /\ UNCHANGED <<kernel, pc, msgid, thrown, hand, backlog, handler, inside, deaths>>

\* What a dying process takes with it.
Dead(p) ==
    /\ Goto(p, "off")
    /\ msgid' = [msgid EXCEPT ![p] = 0]
    /\ IF p \in Receivers
       THEN /\ fate' = [i \in 1..Len(fate) |-> IF i = hand[p] THEN "lost" ELSE fate[i]]
            /\ hand' = [hand EXCEPT ![p] = 0]
            /\ backlog' = [backlog EXCEPT ![p] = 0]
            /\ handler' = [handler EXCEPT ![p] = "none"]
            /\ inside' = [inside EXCEPT ![p] = "none"]
            /\ step' = [step EXCEPT ![p] = 0]
       ELSE UNCHANGED <<fate, hand, backlog, handler, inside, step>>
    /\ UNCHANGED <<queue, live, gen, thrown>>

\* Mutant of HandlerEnds: the signal is not raised again.
HandlerEnds_Return(r) ==
    /\ handler[r] # "none" /\ step[r] = 3
    /\ handler' = [handler EXCEPT ![r] = "none"]
    /\ inside' = [inside EXCEPT ![r] = "none"]
    /\ step' = [step EXCEPT ![r] = 0]
    /\ UNCHANGED <<kernel, pc, msgid, thrown, hand, backlog, deaths>>

\* sig_handler frees the strings, restores the default and raises the signal.
HandlerEnds(r) ==
    /\ handler[r] # "none" /\ step[r] = 3 /\ inside[r] # "heap"
    /\ Dead(r)
    /\ UNCHANGED deaths

Kill(p) ==
    /\ pc[p] # "off"
    /\ deaths < MaxDeaths
    /\ deaths' = deaths + 1
    /\ Dead(p)

-----------------------------------------------------------------------------
Send(s) == Drain(s) \/ DrainEnd(s) \/ Put(s) \/ PutFails(s)
Loop(r) == Recv(r) \/ RecvFails(r) \/ Wake(r)

Handler(r) == HandlerLogs(r) \/ HandlerAllocates(r) \/ HandlerEnds(r)

Next ==
    \/ \E p \in Processes : Open(p) \/ OpenFails(p) \/ Kill(p)
    \/ \E s \in Senders : Send(s) \/ Exit(s) \/ Del(s)
    \/ \E s \in Senders, queue_cache \in BOOLEAN : SendCall(s, queue_cache)
    \/ \E r \in Receivers : \/ Loop(r) \/ Log(r) \/ Work(r) \/ Flush(r)
                            \/ Signal(r) \/ Handler(r)

Spec == Init /\ [][Next]_vars

\* Processes run on; a lock and a place in a queue come to a thread that goes on
\* asking; nobody has to start, call, allocate, flush, signal or die.
FairSpec ==
    /\ Spec
    /\ \A s \in Senders : WF_vars(Drain(s) \/ DrainEnd(s)) /\ SF_vars(Put(s) \/ PutFails(s))
    /\ \A r \in Receivers : /\ WF_vars(Loop(r)) /\ SF_vars(Log(r))
                            /\ WF_vars(Work(r)) /\ SF_vars(Handler(r))

-----------------------------------------------------------------------------
(* Properties                                                              *)

\* Types of the variables, and the limits of both queues; sub_node holds a
\* message exactly where its loop handles one.
TypeOK ==
    /\ live \in BOOLEAN /\ gen \in Nat /\ deaths \in Nat
    /\ fate \in Seq(Fates)
    /\ queue \in Seq(1..Len(fate)) /\ Len(queue) <= Capacity
    /\ pc \in [Processes -> {"off", "open", "drain", "put",
                             "recv", "got", "sleep"}]
    /\ msgid \in [Processes -> Nat]
    /\ thrown \in [Senders -> SUBSET (1..Len(fate))]
    /\ hand \in [Receivers -> 0..Len(fate)]
    /\ \A r \in Receivers : hand[r] # 0 <=> pc[r] = "got"
    /\ backlog \in [Receivers -> 0..LogRoom]
    /\ handler \in [Receivers -> Threads \cup {"none"}]
    /\ inside \in [Receivers -> {"none", "queue", "heap"}]
    /\ step \in [Receivers -> 0..3]

\* The queue holds the youngest accepted messages in their order, and no other
\* message counts as waiting: through drains, crashes and removals a message is
\* taken once, and only after all older ones.
QueueIsTail ==
    /\ \A i \in 1..Len(queue) : queue[i] = Len(fate) - Len(queue) + i
    /\ \A i \in 1..Len(fate) : fate[i] = "queued" <=> i > Len(fate) - Len(queue)

\* The drain of send() only throws away what is out of date: after a message
\* that a drain threw away comes a younger one, unless the send that did so is
\* still at it, has failed or has died; other drains, sends and receivers may
\* have come between the drain and the send.
LatestKept ==
    \A i \in 1..Len(fate) :
        fate[i] = "drained" => i < Len(fate) \/ \E s \in Senders : i \in thrown[s]

\* message_queue.hpp:34 documents queue_cache as "whether to cache data"; the
\* send that is asked to do so would keep what waits.
CachedDataIsKept == \A i \in 1..Len(fate) : fate[i] # "drained"

\* A receiver that stays on the queue serves it: sends are bounded, so in the
\* end no message waits in the queue and no send waits for room.
Listening(r) == pc[r] # "off" /\ Valid(r) /\ handler[r] = "none"
RunningReceiverServes ==
    <>[](\E r \in Receivers : Listening(r)) =>
        []<>(queue = << >> /\ \A s \in Senders : ~(pc[s] = "put" /\ Valid(s)))

\* sig_handler logs and allocates before it raises the signal again: a signalled
\* sub_node ends, unless the signal fell into a section of spdlog's queue or of
\* the heap, or on the worker that alone could make room for the log.
Stuck(r) ==
    \/ inside[r] # "none"
    \/ handler[r] = "worker" /\ backlog[r] = LogRoom
SignalledNodeDies ==
    \A r \in Receivers : (handler[r] # "none") ~> (pc[r] = "off" \/ Stuck(r))

\* To its users the queue is a mailbox.
MailboxSpec == INSTANCE Mailbox
ImplementsMailbox == MailboxSpec!Spec
=============================================================================

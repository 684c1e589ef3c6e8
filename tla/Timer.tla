------------------------------- MODULE Timer --------------------------------
(***************************************************************************)
(* class Timer of modules/common/include/common/timer.hpp: start() opens a *)
(* timerfd, an eventfd and an edge-triggered epoll instance and spawns a   *)
(* worker that calls the callback once per expiration; stop() clears       *)
(* is_running_, writes the eventfd to wake the worker and joins it.        *)
(*                                                                         *)
(* Callers: stop() may be called by several threads at once, start() only  *)
(* when no other call is under way (start() checks is_running_ and later   *)
(* assigns the descriptors and thread_ without any lock).  The callback    *)
(* does not call into its own timer (it would join itself).                *)
(*                                                                         *)
(* The kernel part is external: the count of unread expirations, the       *)
(* counter of the eventfd and the ready list of epoll.  With EPOLLET a     *)
(* descriptor enters the ready list when it becomes readable and leaves it *)
(* when epoll_wait returns it, read or not.                                *)
(***************************************************************************)
EXTENDS Naturals, Sequences, SequencesExt

CONSTANTS Controllers,  \* threads that call start() and stop()
          Intervals,    \* values of the constructor's ms
          MaxUnread,    \* bound of the model: expirations counted unread
          Faults        \* the failures that may happen

ASSUME TimerAssumption ==
    /\ Intervals \subseteq Nat
    /\ MaxUnread \in Nat \ {0}
    /\ Faults \subseteq {"open", "spawn", "epoll", "write"}

VARIABLES is_running_,
          interval_ms_,
          pc,       \* of the controllers: "idle", "write" or "join"
          worker,   \* "none": thread_ is not joinable; else where it is
          events,   \* what epoll_wait returned and the worker has to handle
          left,     \* callbacks left of the expirations it has read
          expired,  \* kernel: expirations not yet read from timer_fd_
          wakeup,   \* kernel: counter of wakeup_fd_
          ready,    \* kernel: ready list of epoll_fd_
          armed,    \* kernel: timer_fd_ is a running timer
          owed,     \* expirations since start() without a callback yet
          late,     \* batches of expirations read since is_running_ went off
          broken    \* the spawn or epoll_wait failed since start()

vars == <<is_running_, interval_ms_, pc, worker, events, left, expired,
          wakeup, ready, armed, owed, late, broken>>
kernel == <<expired, wakeup, ready, armed>>
counts == <<owed, late, broken>>

\* its.it_interval for an interval in milliseconds.
TimeSpec(ms) == [tv_sec |-> ms \div 1000, tv_nsec |-> (ms % 1000) * 1000000]

\* timerfd_settime with a zero it_value disarms the timer.
Disarmed(its) == its.tv_sec = 0 /\ its.tv_nsec = 0

Init ==
    /\ is_running_ = FALSE
    /\ interval_ms_ \in Intervals
    /\ pc = [c \in Controllers |-> "idle"]
    /\ worker = "none"
    /\ events = << >>
    /\ left = 0
    /\ expired = 0
    /\ wakeup = 0
    /\ ready = << >>
    /\ armed = FALSE
    /\ owed = 0
    /\ late = 0
    /\ broken = FALSE

Quiet == \A c \in Controllers : pc[c] = "idle"

-----------------------------------------------------------------------------
(* start(): one step, as nobody else is in a call and there is no worker   *)

\* Mutant of Reopen: the eventfd of the previous start() is kept.
Reopen_KeepWakeup(ok) ==
    /\ expired' = 0
    /\ UNCHANGED wakeup
    /\ ready' = IF wakeup > 0 THEN <<"wakeup">> ELSE << >>
    /\ armed' = (ok /\ ~Disarmed(TimeSpec(interval_ms_)))

\* Every start() makes new descriptors; the old ones, which stop() leaves
\* open, are closed by reset().
Reopen(ok) ==
    /\ expired' = 0
    /\ wakeup' = 0
    /\ ready' = << >>
    /\ armed' = (ok /\ ~Disarmed(TimeSpec(interval_ms_)))

Start ==
    /\ Quiet
    /\ ~is_running_
    /\ Reopen(TRUE)
    /\ is_running_' = TRUE
    /\ worker' = "loop"
    /\ owed' = 0
    /\ late' = 0
    /\ broken' = FALSE
    /\ UNCHANGED <<interval_ms_, pc, events, left>>

\* timerfd_create() fails: the timer is closed, the other descriptors are kept.
CloseTimer ==
    /\ expired' = 0
    /\ ready' = IF Contains(ready, "wakeup") THEN <<"wakeup">> ELSE << >>
    /\ armed' = FALSE
    /\ UNCHANGED wakeup

\* A system call fails, and start() throws before is_running_ is set: the first
\* one, one up to timerfd_settime(), or one after it, which leaves the timer
\* armed.
StartFails ==
    /\ "open" \in Faults
    /\ Quiet
    /\ ~is_running_
    /\ CloseTimer \/ Reopen(FALSE) \/ Reopen(TRUE)
    /\ owed' = 0
    /\ UNCHANGED <<is_running_, interval_ms_, pc, worker, events, left, late,
                   broken>>

\* std::thread throws: is_running_ stays set although there is no worker.
SpawnFails ==
    /\ "spawn" \in Faults
    /\ Quiet
    /\ ~is_running_
    /\ Reopen(TRUE)
    /\ is_running_' = TRUE
    /\ owed' = 0
    /\ late' = 0
    /\ broken' = TRUE
    /\ UNCHANGED <<interval_ms_, pc, worker, events, left>>

-----------------------------------------------------------------------------
(* stop()                                                                  *)

\* Mutant of StopExchange: is_running_ is stored, not exchanged.
StopExchange_Store(c) ==
    /\ pc[c] = "idle"
    /\ is_running_' = FALSE
    /\ pc' = [pc EXCEPT ![c] = "write"]
    /\ UNCHANGED <<interval_ms_, worker, events, left, kernel, counts>>

\* The exchange lets one caller through; the others return at once.
StopExchange(c) ==
    /\ pc[c] = "idle"
    /\ is_running_
    /\ is_running_' = FALSE
    /\ pc' = [pc EXCEPT ![c] = "write"]
    /\ UNCHANGED <<interval_ms_, worker, events, left, kernel, counts>>

\* Mutant of StopWrite: wakeup_fd_ was never added to epoll_fd_.
StopWrite_NotWatched(c) ==
    /\ pc[c] = "write"
    /\ wakeup' = wakeup + 1
    /\ pc' = [pc EXCEPT ![c] = "join"]
    /\ UNCHANGED <<is_running_, interval_ms_, worker, events, left, expired,
                   ready, armed, counts>>

StopWrite(c) ==
    /\ pc[c] = "write"
    /\ wakeup' = wakeup + 1
    /\ ready' = IF Contains(ready, "wakeup") THEN ready
                ELSE Append(ready, "wakeup")
    /\ pc' = [pc EXCEPT ![c] = "join"]
    /\ UNCHANGED <<is_running_, interval_ms_, worker, events, left, expired,
                   armed, counts>>

\* The failure of the write is only printed.
StopWriteFails(c) ==
    /\ "write" \in Faults
    /\ pc[c] = "write"
    /\ pc' = [pc EXCEPT ![c] = "join"]
    /\ UNCHANGED <<is_running_, interval_ms_, worker, events, left, kernel,
                   counts>>

\* Mutant of StopJoin: the worker is left to itself (detach, not join).
StopJoin_Detach(c) ==
    /\ pc[c] = "join"
    /\ pc' = [pc EXCEPT ![c] = "idle"]
    /\ UNCHANGED <<is_running_, interval_ms_, worker, events, left, kernel,
                   counts>>

StopJoin(c) ==
    /\ pc[c] = "join"
    /\ worker \in {"none", "exited"}
    /\ worker' = "none"
    /\ pc' = [pc EXCEPT ![c] = "idle"]
    /\ UNCHANGED <<is_running_, interval_ms_, events, left, kernel, counts>>

-----------------------------------------------------------------------------
(* The worker                                                              *)

\* Mutant of LoopCheck: for (;;) instead of while (is_running_).
LoopCheck_Forever ==
    /\ worker = "loop"
    /\ worker' = "wait"
    /\ UNCHANGED <<is_running_, interval_ms_, pc, events, left, kernel, counts>>

LoopCheck ==
    /\ worker = "loop"
    /\ worker' = IF is_running_ THEN "wait" ELSE "exited"
    /\ UNCHANGED <<is_running_, interval_ms_, pc, events, left, kernel, counts>>

EpollWait ==
    /\ worker = "wait"
    /\ ready # << >>
    /\ events' = ready
    /\ ready' = << >>
    /\ worker' = "events"
    /\ UNCHANGED <<is_running_, interval_ms_, pc, left, expired, wakeup, armed,
                   counts>>

Interrupted ==
    /\ worker = "wait"
    /\ worker' = "loop"
    /\ UNCHANGED <<is_running_, interval_ms_, pc, events, left, kernel, counts>>

\* Any other error ends the worker; is_running_ stays set.
EpollFails ==
    /\ "epoll" \in Faults
    /\ worker = "wait"
    /\ worker' = "exited"
    /\ broken' = TRUE
    /\ UNCHANGED <<is_running_, interval_ms_, pc, events, left, kernel, owed,
                   late>>

\* Mutant of Batch: one callback per event, whatever the count read.
Batch_One == 1

\* Callbacks for one read of timer_fd_.
Batch == expired

\* Mutant of HandleTimer: the descriptor is not read.
HandleTimer_NoRead ==
    /\ worker = "events" /\ left = 0
    /\ events # << >> /\ Head(events) = "timer"
    /\ left' = 1
    /\ events' = Tail(events)
    /\ late' = IF is_running_ THEN late ELSE late + 1
    /\ UNCHANGED <<is_running_, interval_ms_, pc, worker, kernel, owed, broken>>

HandleTimer ==
    /\ worker = "events" /\ left = 0
    /\ events # << >> /\ Head(events) = "timer"
    /\ left' = Batch
    /\ expired' = 0
    /\ events' = Tail(events)
    /\ late' = IF is_running_ THEN late ELSE late + 1
    /\ UNCHANGED <<is_running_, interval_ms_, pc, worker, wakeup, ready, armed,
                   owed, broken>>

\* The loop over the expirations does not look at is_running_.
Callback ==
    /\ worker = "events" /\ left > 0
    /\ left' = left - 1
    /\ owed' = owed - 1
    /\ UNCHANGED <<is_running_, interval_ms_, pc, worker, events, kernel, late,
                   broken>>

\* The worker returns; events behind this one are dropped.
HandleWakeup ==
    /\ worker = "events" /\ left = 0
    /\ events # << >> /\ Head(events) = "wakeup"
    /\ wakeup' = 0
    /\ events' = << >>
    /\ worker' = "exited"
    /\ UNCHANGED <<is_running_, interval_ms_, pc, left, expired, ready, armed,
                   counts>>

EventsDone ==
    /\ worker = "events" /\ left = 0
    /\ events = << >>
    /\ worker' = "loop"
    /\ UNCHANGED <<is_running_, interval_ms_, pc, events, left, kernel, counts>>

-----------------------------------------------------------------------------
(* The kernel's clock; it goes on after stop(), which closes nothing       *)

Expire ==
    /\ armed
    /\ expired < MaxUnread
    /\ expired' = expired + 1
    /\ ready' = IF expired = 0 THEN Append(ready, "timer") ELSE ready
    /\ owed' = owed + 1
    /\ UNCHANGED <<is_running_, interval_ms_, pc, worker, events, left, wakeup,
                   armed, late, broken>>

-----------------------------------------------------------------------------
Next ==
    \/ Start \/ StartFails \/ SpawnFails
    \/ \E c \in Controllers :
          StopExchange(c) \/ StopWrite(c) \/ StopWriteFails(c) \/ StopJoin(c)
    \/ LoopCheck \/ EpollWait \/ Interrupted \/ EpollFails
    \/ HandleTimer \/ Callback \/ HandleWakeup \/ EventsDone
    \/ Expire

Spec == Init /\ [][Next]_vars

\* The clock ticks, the worker runs, epoll_wait is not interrupted for ever
\* and a stop() that has begun goes on.  No fault has to happen.
Fairness ==
    /\ WF_vars(Expire)
    /\ WF_vars(LoopCheck \/ HandleTimer \/ Callback \/ HandleWakeup \/ EventsDone)
    /\ SF_vars(EpollWait)
    /\ \A c \in Controllers :
          /\ WF_vars(StopWrite(c) \/ StopWriteFails(c))
          /\ WF_vars(StopJoin(c))

FairSpec == Spec /\ Fairness

-----------------------------------------------------------------------------
(* Properties                                                              *)

\* The two descriptors epoll reports, each at most once.
Lists == {<< >>, <<"timer">>, <<"wakeup">>,
          <<"timer", "wakeup">>, <<"wakeup", "timer">>}

\* Every variable keeps its type; a wakeup is written at most once per
\* start(), and no descriptor is in the ready list twice.
TypeOK ==
    /\ is_running_ \in BOOLEAN
    /\ interval_ms_ \in Intervals
    /\ pc \in [Controllers -> {"idle", "write", "join"}]
    /\ worker \in {"none", "loop", "wait", "events", "exited"}
    /\ events \in Lists
    /\ left \in 0 .. MaxUnread
    /\ expired \in 0 .. MaxUnread
    /\ wakeup \in {0, 1}
    /\ ready \in Lists
    /\ armed \in BOOLEAN
    /\ owed \in Nat
    /\ late \in Nat
    /\ broken \in BOOLEAN

\* When no call is under way and the timer is not running there is no worker
\* and thread_ is not joinable: the next start() may assign thread_ and the
\* destructor may drop it, and no callback runs any more.
StoppedIsJoined == Quiet /\ ~is_running_ => worker = "none"

\* While is_running_ is set and nothing failed there is a worker that serves
\* the timer: no wakeup of an earlier stop() ends the worker of a later start().
RunningIsServed ==
    is_running_ /\ ~broken => worker \in {"loop", "wait", "events"}

\* Each expiration since start() gets exactly one callback, in its turn: what
\* has had none is still unread or in the batch the worker is working off.
OneCallbackPerExpiration == owed = expired + left

\* An unread expiration is never lost to edge triggering: as long as a worker
\* may come back to epoll_wait, it finds the timer in the ready list or has
\* the event at hand.
NoLostEdge ==
    (expired > 0 /\ worker \in {"loop", "wait", "events"}) =>
        Contains(ready, "timer") \/ Contains(events, "timer")

\* After is_running_ went off the worker reads at most one more batch.
AtMostOneLateBatch == late <= 1

\* A running timer reads its expirations.
ExpirationsAreServed == (expired > 0) ~> (expired = 0 \/ ~is_running_ \/ broken)

\* stop() returns: when the wakeup was written, and even when the write failed
\* as long as the timer itself still ticks.
StopReturns ==
    \A c \in Controllers :
        (pc[c] = "join" /\ (wakeup = 1 \/ armed)) ~> (pc[c] = "idle")

=============================================================================

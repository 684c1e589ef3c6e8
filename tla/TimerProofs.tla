---------------------------- MODULE TimerProofs -----------------------------
(***************************************************************************)
(* Theorems about Timer, for any number of controlling threads, any        *)
(* intervals, any bound of unread expirations and any set of faults.       *)
(***************************************************************************)
EXTENDS Timer, TLAPS, SequenceTheorems

\* One stop() at a time gets past the exchange, and the timer is off then.
StopInv ==
    /\ \A c \in Controllers : pc[c] # "idle" => ~is_running_
    /\ \A c, d \in Controllers : pc[c] # "idle" /\ pc[d] # "idle" => c = d
    /\ \A c \in Controllers : pc[c] = "write" => wakeup = 0

\* A running timer has no trace of a wakeup.
NoWakeup ==
    is_running_ =>
        wakeup = 0 /\ ~Contains(ready, "wakeup") /\ ~Contains(events, "wakeup")

\* Outside the handling of events nothing is left to handle.
NothingAtHand == worker # "events" => events = << >> /\ left = 0

\* The timer is in the ready list or among the events only while there is
\* something to read, and never in both.
TimerEvent ==
    /\ Contains(ready, "timer") => expired > 0
    /\ Contains(events, "timer") => expired > 0 /\ ~Contains(ready, "timer")

\* Who has read a batch after the timer went off does not return to epoll_wait
\* and has no further timer event at hand.
LateInv ==
    late > 0 => /\ late = 1
                /\ ~is_running_
                /\ worker # "wait"
                /\ ~Contains(events, "timer")

Sources == {"timer", "wakeup"}

IInv ==
    /\ TypeOK
    /\ StopInv
    /\ StoppedIsJoined
    /\ RunningIsServed
    /\ NoWakeup
    /\ NothingAtHand
    /\ TimerEvent
    /\ NoLostEdge
    /\ OneCallbackPerExpiration
    /\ LateInv

-----------------------------------------------------------------------------
\* The empty list holds nothing.
LEMMA EmptyList == << >> \in Lists /\ \A x : ~Contains(<< >>, x)
BY DEF Lists, Contains

\* Appending what is not there gives a list again.
LEMMA AppendList ==
    ASSUME NEW s \in Lists, NEW x \in {"timer", "wakeup"}, ~Contains(s, x)
    PROVE  /\ Append(s, x) \in Lists
           /\ \A y \in {"timer", "wakeup"} :
                 Contains(Append(s, x), y) <=> Contains(s, y) \/ y = x
<1>1. CASE s = << >>
  BY <1>1 DEF Lists, Contains
<1>2. CASE s = <<"timer">>
  <2>1. x = "wakeup"
    BY <1>2 DEF Contains
  <2>2. Append(s, x) = <<"timer", "wakeup">>
    <3>1. Append(<<"timer">>, "wakeup") = <<"timer", "wakeup">>
      <4> DEFINE l == Append(<<"timer">>, "wakeup")
      <4>1. l \in Seq(Sources) /\ Len(l) = 2 /\ l[1] = "timer" /\ l[2] = "wakeup"
        BY DEF Sources
      <4>2. <<"timer", "wakeup">> \in Seq(Sources)
        BY DEF Sources
      <4> HIDE DEF l
      <4>3. l = <<"timer", "wakeup">>
        BY <4>1, <4>2, SeqEqual
      <4> QED
        BY <4>3 DEF l
    <3> QED
      BY <1>2, <2>1, <3>1, Zenon
  <2>3. Contains(<<"timer", "wakeup">>, "timer") /\ Contains(<<"timer", "wakeup">>, "wakeup")
    <3> DEFINE l == <<"timer", "wakeup">>
    <3>1. Len(l) = 2 /\ l[1] = "timer" /\ l[2] = "wakeup"
      OBVIOUS
    <3>2. 1 \in 1 .. Len(l) /\ 2 \in 1 .. Len(l)
      BY <3>1
    <3> HIDE DEF l
    <3>3. Contains(l, "timer") /\ Contains(l, "wakeup")
      BY <3>1, <3>2 DEF Contains
    <3> QED
      BY <3>3 DEF l
  <2>4. Contains(s, "timer")
    BY <1>2 DEF Contains
  <2>5. Append(s, x) \in Lists
    BY <2>2 DEF Lists
  <2> QED
    BY <2>1, <2>2, <2>3, <2>4, <2>5
<1>3. CASE s = <<"wakeup">>
  <2>1. x = "timer"
    BY <1>3 DEF Contains
  <2>2. Append(s, x) = <<"wakeup", "timer">>
    <3>1. Append(<<"wakeup">>, "timer") = <<"wakeup", "timer">>
      <4> DEFINE l == Append(<<"wakeup">>, "timer")
      <4>1. l \in Seq(Sources) /\ Len(l) = 2 /\ l[1] = "wakeup" /\ l[2] = "timer"
        BY DEF Sources
      <4>2. <<"wakeup", "timer">> \in Seq(Sources)
        BY DEF Sources
      <4> HIDE DEF l
      <4>3. l = <<"wakeup", "timer">>
        BY <4>1, <4>2, SeqEqual
      <4> QED
        BY <4>3 DEF l
    <3> QED
      BY <1>3, <2>1, <3>1, Zenon
  <2>3. Contains(<<"wakeup", "timer">>, "wakeup") /\ Contains(<<"wakeup", "timer">>, "timer")
    <3> DEFINE l == <<"wakeup", "timer">>
    <3>1. Len(l) = 2 /\ l[1] = "wakeup" /\ l[2] = "timer"
      OBVIOUS
    <3>2. 1 \in 1 .. Len(l) /\ 2 \in 1 .. Len(l)
      BY <3>1
    <3> HIDE DEF l
    <3>3. Contains(l, "wakeup") /\ Contains(l, "timer")
      BY <3>1, <3>2 DEF Contains
    <3> QED
      BY <3>3 DEF l
  <2>4. Contains(s, "wakeup")
    BY <1>3 DEF Contains
  <2>5. Append(s, x) \in Lists
    BY <2>2 DEF Lists
  <2> QED
    BY <2>1, <2>2, <2>3, <2>4, <2>5
<1>4. CASE s \in {<<"timer", "wakeup">>, <<"wakeup", "timer">>}
  BY <1>4 DEF Lists, Contains
<1> QED
  BY <1>1, <1>2, <1>3, <1>4 DEF Lists

\* Without its head a list is a list again and does not hold the head.
LEMMA TailList ==
    ASSUME NEW s \in Lists, s # << >>
    PROVE  /\ Tail(s) \in Lists
           /\ Contains(s, Head(s))
           /\ ~Contains(Tail(s), Head(s))
           /\ \A y \in {"timer", "wakeup"} : Contains(Tail(s), y) => Contains(s, y)
<1>1. CASE s = <<"timer">>
  BY <1>1 DEF Lists, Contains
<1>2. CASE s = <<"wakeup">>
  BY <1>2 DEF Lists, Contains
<1>3. CASE s = <<"timer", "wakeup">>
  BY <1>3 DEF Lists, Contains
<1>4. CASE s = <<"wakeup", "timer">>
  BY <1>4 DEF Lists, Contains
<1> QED
  BY <1>1, <1>2, <1>3, <1>4 DEF Lists

-----------------------------------------------------------------------------
\* The state the constructor leaves satisfies the invariant.
LEMMA Initially == Init => IInv
<1> SUFFICES ASSUME Init PROVE IInv
  OBVIOUS
<1>1. TypeOK
  <2>1. is_running_ \in BOOLEAN /\ armed \in BOOLEAN /\ broken \in BOOLEAN
    BY DEF Init
  <2>2. pc \in [Controllers -> {"idle", "write", "join"}]
    BY DEF Init
  <2> QED
    BY <2>1, <2>2, TimerAssumption, EmptyList DEF Init, TypeOK
<1>2. StopInv /\ StoppedIsJoined /\ RunningIsServed /\ NoWakeup
  BY DEF Init, StopInv, StoppedIsJoined, RunningIsServed, NoWakeup
<1>3. NothingAtHand /\ TimerEvent /\ NoLostEdge /\ OneCallbackPerExpiration
  BY EmptyList DEF Init, NothingAtHand, TimerEvent, NoLostEdge,
                   OneCallbackPerExpiration
<1>4. LateInv
  BY DEF Init, LateInv
<1> QED
  BY <1>1, <1>2, <1>3, <1>4 DEF IInv

\* What start() needs: nothing is left over from an earlier run.
LEMMA QuietStart ==
    ASSUME IInv, Quiet, ~is_running_
    PROVE  worker = "none" /\ events = << >> /\ left = 0
BY DEF IInv, StoppedIsJoined, NothingAtHand

\* Every step keeps the inductive invariant.
LEMMA Step == IInv /\ [Next]_vars => IInv'
<1> SUFFICES ASSUME IInv, [Next]_vars PROVE IInv'
  OBVIOUS
<1> USE TimerAssumption, EmptyList
    DEF IInv, TypeOK, StopInv, StoppedIsJoined, RunningIsServed, NoWakeup,
        NothingAtHand, TimerEvent, NoLostEdge, OneCallbackPerExpiration, LateInv,
        Quiet, kernel, counts
<1>1. CASE Start
  <2>1. worker = "none" /\ events = << >> /\ left = 0
    BY <1>1, QuietStart DEF Start
  <2>2. TypeOK'
    BY <1>1, <2>1 DEF Start, Reopen
  <2>3. StopInv' /\ StoppedIsJoined' /\ RunningIsServed'
    BY <1>1, <2>1 DEF Start, Reopen
  <2>4. NoWakeup' /\ NothingAtHand' /\ TimerEvent' /\ NoLostEdge'
    BY <1>1, <2>1 DEF Start, Reopen
  <2>5. OneCallbackPerExpiration' /\ LateInv'
    BY <1>1, <2>1 DEF Start, Reopen
  <2> QED
    BY <2>2, <2>3, <2>4, <2>5
<1>2. CASE StartFails
  <2>1. worker = "none" /\ events = << >> /\ left = 0
    BY <1>2, QuietStart DEF StartFails
  <2>2. /\ expired' = 0 /\ wakeup' \in {0, wakeup} /\ armed' \in BOOLEAN
        /\ ready' \in {<< >>, <<"wakeup">>}
    BY <1>2 DEF StartFails, CloseTimer, Reopen
  <2>3. /\ is_running_' = is_running_ /\ interval_ms_' = interval_ms_ /\ pc' = pc
        /\ worker' = worker /\ events' = events /\ left' = left /\ late' = late
        /\ broken' = broken /\ owed' = 0 /\ ~is_running_ /\ Quiet
    BY <1>2 DEF StartFails
  <2>4. ready' \in Lists /\ ~Contains(ready', "timer")
    BY <2>2 DEF Lists, Contains
  <2>5. TypeOK'
    BY <2>1, <2>2, <2>3, <2>4
  <2>6. StopInv' /\ StoppedIsJoined' /\ RunningIsServed'
    BY <2>1, <2>2, <2>3
  <2>7. NoWakeup' /\ NothingAtHand' /\ TimerEvent' /\ NoLostEdge'
    BY <2>1, <2>2, <2>3, <2>4
  <2>8. OneCallbackPerExpiration' /\ LateInv'
    BY <2>1, <2>2, <2>3
  <2> QED
    BY <2>5, <2>6, <2>7, <2>8
<1>3. CASE SpawnFails
  BY <1>3, QuietStart DEF SpawnFails, Reopen
<1>4. ASSUME NEW c \in Controllers, StopExchange(c) PROVE IInv'
  BY <1>4 DEF StopExchange
<1>5. ASSUME NEW c \in Controllers, StopWrite(c) PROVE IInv'
  <2>1. ~is_running_ /\ wakeup = 0 /\ pc[c] = "write"
    BY <1>5 DEF StopWrite
  <2>2. /\ ready' \in Lists
        /\ Contains(ready', "timer") <=> Contains(ready, "timer")
    BY <1>5, AppendList DEF StopWrite
  <2>3. TypeOK'
    BY <1>5, <2>1, <2>2 DEF StopWrite
  <2>4. StopInv'
    BY <1>5, <2>1 DEF StopWrite
  <2>5. StoppedIsJoined' /\ RunningIsServed' /\ NoWakeup' /\ NothingAtHand'
    BY <1>5, <2>1 DEF StopWrite
  <2>6. TimerEvent' /\ NoLostEdge' /\ OneCallbackPerExpiration' /\ LateInv'
    BY <1>5, <2>1, <2>2 DEF StopWrite
  <2> QED
    BY <2>3, <2>4, <2>5, <2>6
<1>6. ASSUME NEW c \in Controllers, StopWriteFails(c) PROVE IInv'
  BY <1>6 DEF StopWriteFails
<1>7. ASSUME NEW c \in Controllers, StopJoin(c) PROVE IInv'
  BY <1>7 DEF StopJoin
<1>8. CASE LoopCheck
  BY <1>8 DEF LoopCheck
<1>9. CASE EpollWait
  BY <1>9 DEF EpollWait
<1>10. CASE Interrupted
  BY <1>10 DEF Interrupted
<1>11. CASE EpollFails
  BY <1>11 DEF EpollFails
<1>12. CASE HandleTimer
  <2>1. /\ events # << >> /\ Head(events) = "timer" /\ left = 0
        /\ Tail(events) \in Lists
        /\ Contains(events, "timer")
        /\ ~Contains(Tail(events), "timer")
        /\ Contains(Tail(events), "wakeup") => Contains(events, "wakeup")
    BY <1>12, TailList DEF HandleTimer
  <2>2. TypeOK'
    BY <1>12, <2>1 DEF HandleTimer, Batch
  <2>3. StopInv' /\ StoppedIsJoined' /\ RunningIsServed'
    BY <1>12, <2>1 DEF HandleTimer, Batch
  <2>4. NoWakeup' /\ NothingAtHand' /\ TimerEvent' /\ NoLostEdge'
    BY <1>12, <2>1 DEF HandleTimer, Batch
  <2>5. OneCallbackPerExpiration' /\ LateInv'
    BY <1>12, <2>1 DEF HandleTimer, Batch
  <2> QED
    BY <2>2, <2>3, <2>4, <2>5
<1>13. CASE Callback
  BY <1>13 DEF Callback
<1>14. CASE HandleWakeup
  <2>1. /\ events # << >> /\ Head(events) = "wakeup" /\ left = 0
        /\ Tail(events) \in Lists
        /\ Contains(events, "wakeup")
        /\ ~Contains(Tail(events), "wakeup")
        /\ Contains(Tail(events), "wakeup") => Contains(events, "wakeup")
    BY <1>14, TailList DEF HandleWakeup
  <2>2. TypeOK'
    BY <1>14, <2>1 DEF HandleWakeup
  <2>3. StopInv' /\ StoppedIsJoined' /\ RunningIsServed'
    BY <1>14, <2>1 DEF HandleWakeup
  <2>4. NoWakeup' /\ NothingAtHand' /\ TimerEvent' /\ NoLostEdge'
    BY <1>14, <2>1 DEF HandleWakeup
  <2>5. OneCallbackPerExpiration' /\ LateInv'
    BY <1>14, <2>1 DEF HandleWakeup
  <2> QED
    BY <2>2, <2>3, <2>4, <2>5
<1>15. CASE EventsDone
  BY <1>15 DEF EventsDone
<1>16. CASE Expire
  <2>1. CASE expired = 0
    <3>1. ~Contains(ready, "timer") /\ ~Contains(events, "timer")
      BY <2>1
    <3>2. ready' = Append(ready, "timer")
      BY <1>16, <2>1 DEF Expire
    <3>3. /\ ready' \in Lists
          /\ Contains(ready', "timer")
          /\ Contains(ready', "wakeup") <=> Contains(ready, "wakeup")
      BY <3>1, <3>2, AppendList
    <3>4. TypeOK' /\ OneCallbackPerExpiration'
      BY <1>16, <2>1, <3>3 DEF Expire
    <3>5. StopInv' /\ StoppedIsJoined' /\ RunningIsServed' /\ NoWakeup'
      BY <1>16, <2>1, <3>3 DEF Expire
    <3>6. NothingAtHand' /\ TimerEvent' /\ NoLostEdge' /\ LateInv'
      BY <1>16, <2>1, <3>1, <3>3 DEF Expire
    <3> QED
      BY <3>4, <3>5, <3>6
  <2>2. CASE expired > 0
    <3>1. ready' = ready
      BY <1>16, <2>2 DEF Expire
    <3>2. TypeOK' /\ OneCallbackPerExpiration'
      BY <1>16, <2>2, <3>1 DEF Expire
    <3>3. StopInv' /\ StoppedIsJoined' /\ RunningIsServed' /\ NoWakeup'
      BY <1>16, <2>2, <3>1 DEF Expire
    <3>4. NothingAtHand' /\ TimerEvent' /\ NoLostEdge' /\ LateInv'
      BY <1>16, <2>2, <3>1 DEF Expire
    <3> QED
      BY <3>2, <3>3, <3>4
  <2> QED
    BY <2>1, <2>2
<1>17. CASE UNCHANGED vars
  BY <1>17 DEF vars
<1> QED
  BY <1>1, <1>2, <1>3, <1>4, <1>5, <1>6, <1>7, <1>8, <1>9, <1>10, <1>11, <1>12, <1>13, <1>14, <1>15, <1>16, <1>17 DEF Next

\* The invariant holds in every reachable state.
LEMMA Inductive == Spec => []IInv
<1> QED
  BY Initially, Step, PTL DEF Spec

-----------------------------------------------------------------------------
\* Type correctness of every operation; in particular a start() sees at most
\* one write to its wakeup_fd_.
THEOREM TypeCorrect == Spec => []TypeOK
<1>1. IInv => TypeOK
  BY DEF IInv
<1> QED
  BY <1>1, Inductive, PTL

\* After the last stop() has returned the worker is gone and joined: thread_
\* can be assigned by the next start() or dropped by the destructor.
THEOREM StopJoins == Spec => []StoppedIsJoined
<1>1. IInv => StoppedIsJoined
  BY DEF IInv
<1> QED
  BY <1>1, Inductive, PTL

\* A running timer has a worker unless something failed: no wakeup survives
\* from an earlier run.
THEOREM RunningHasWorker == Spec => []RunningIsServed
<1>1. IInv => RunningIsServed
  BY DEF IInv
<1> QED
  BY <1>1, Inductive, PTL

\* Every expiration gets exactly one callback, whatever the order of events.
THEOREM CallbackCount == Spec => []OneCallbackPerExpiration
<1>1. IInv => OneCallbackPerExpiration
  BY DEF IInv
<1> QED
  BY <1>1, Inductive, PTL

\* Edge triggering loses no expiration: an unread one has its event pending.
THEOREM EdgesKept == Spec => []NoLostEdge
<1>1. IInv => NoLostEdge
  BY DEF IInv
<1> QED
  BY <1>1, Inductive, PTL

\* stop() has to wait for at most one more batch of expirations.
THEOREM StopLatency == Spec => []AtMostOneLateBatch
<1>1. IInv => AtMostOneLateBatch
  BY DEF IInv, TypeOK, LateInv, AtMostOneLateBatch
<1> QED
  BY <1>1, Inductive, PTL

\* The interval handed to the kernel is the one of the constructor, and its
\* nanoseconds are in the range timerfd_settime accepts.
THEOREM IntervalExact ==
    \A ms \in Nat :
        LET its == TimeSpec(ms)
        IN  /\ its.tv_nsec < 1000000000
            /\ its.tv_sec * 1000 + its.tv_nsec \div 1000000 = ms
<1> SUFFICES ASSUME NEW ms \in Nat
             PROVE  /\ (ms % 1000) * 1000000 < 1000000000
                    /\ (ms \div 1000) * 1000
                          + ((ms % 1000) * 1000000) \div 1000000 = ms
  BY SMT DEF TimeSpec
<1>1. ms % 1000 \in Nat /\ ms % 1000 <= 999
  BY SMT
<1>2. (ms \div 1000) * 1000 + (ms % 1000) = ms
  BY SMT
<1>3. \A r \in Nat : r <= 999 => r * 1000000 <= 999000000
  BY SMT
<1>4. \A r \in Nat : \A k \in Nat \ {0} : (r * k) \div k = r
  BY SMT
<1>5. ((ms % 1000) * 1000000) \div 1000000 = ms % 1000
  BY <1>1, <1>4, SMT
<1>6. (ms % 1000) * 1000000 <= 999000000
  BY <1>1, <1>3, SMT
<1> QED
  BY <1>1, <1>2, <1>5, <1>6, SMT
=============================================================================

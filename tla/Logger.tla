------------------------------- MODULE Logger -------------------------------
(***************************************************************************)
(* logger.cpp with LoggerManager, the log directory of file_manager.cpp    *)
(* and the time-cost utilities that log through it, for several processes  *)
(* on one disk.  spdlog is seen through what logger.cpp does with it: a    *)
(* registry of loggers, one pool with one worker and a queue that blocks,  *)
(* where an asynchronous logger keeps a weak pointer to the pool it was    *)
(* made with.  Both log files are opened for appending.                    *)
(*                                                                         *)
(* Time is counted in ticks of one second, of which TicksPerDay make a     *)
(* day.  A directory YYYYMMDD/HHMMSS is named by its tick.  Any thread of  *)
(* a process may log or flush at any time, also between two lines of a     *)
(* dump; init(), the measurements, the dumps and the end of the program    *)
(* take turns, as nothing in the code protects what they share.            *)
(***************************************************************************)
EXTENDS Integers, Sequences, SequencesExt, FiniteSets

CONSTANTS Procs, Funcs,
          DebugProcs, EvaluateProcs,  \* with debug=on, evaluate=on in their environment
          LOG_MAX_DAY, TicksPerDay,
          Printed,            \* the text of a duration: six digits of it
          MaxTime, MaxCalls   \* bounds: the clock; calls of all processes

ASSUME LoggerAssumption ==
    /\ IsFiniteSet(Procs) /\ DebugProcs \subseteq Procs /\ EvaluateProcs \subseteq Procs
    /\ Funcs \in Seq(STRING)
    /\ {LOG_MAX_DAY, TicksPerDay} \subseteq Nat \ {0}
    /\ MaxTime \in Nat \ {0, 1} /\ MaxCalls \in Nat
    /\ Printed \in [1..MaxCalls -> Nat \ {0}]

VARIABLES clock, dirs,  \* the time; the directories on disk
          nodeFile,     \* per directory, node.log: <<process, number of the record>>
          timeFile,     \* per directory, time.log: <<process, line>>
          proc,
          calls

vars == <<clock, dirs, nodeFile, timeFile, proc, calls>>
disk == <<dirs, nodeFile, timeFile>>

\* The directory of a process: none before LoggerManager exists, the root of
\* the disk when its name is empty, or a tick.
None == 0
Root == 1
Dirs == Root..MaxTime

Day(t) == t \div TicksPerDay
NoRecords == [i \in 1..Len(Funcs) |-> << >>]
Item(kind, number, line) == [kind |-> kind, number |-> number, line |-> line]

Init ==
    /\ clock = 2 /\ dirs = {} /\ calls = 0
    /\ nodeFile = [d \in Dirs |-> << >>] /\ timeFile = [d \in Dirs |-> << >>]
    /\ proc = [p \in Procs |->
                 [status |-> "up",
                  pool |-> 0,              \* init() calls; the last one's pool is in use
                  node |-> 0, time |-> 0,  \* the pools their loggers were made with
                  dir |-> None,
                  queue |-> << >>, buffer |-> << >>,
                  logged |-> 0,            \* records handed to the main logger
                  records_ |-> NoRecords, evals |-> 0,
                  dumps |-> << >>,         \* the records each dump found
                  rest |-> << >>,          \* lines the running dump has to write
                  given |-> << >>]]        \* lines handed to the evaluation logger

Tick == clock < MaxTime /\ clock' = clock + 1 /\ UNCHANGED <<disk, proc, calls>>

\* A process that runs calls something.
Call(p) ==
    /\ proc[p].status = "up"
    /\ calls < MaxCalls /\ calls' = calls + 1

\* No dump is under way.
Idle(p) == proc[p].rest = << >>

-----------------------------------------------------------------------------
(* init()                                                                  *)

\* Mutant of Expired: the last day counts as too old.
Expired_OffByOne(d) == Day(clock) - Day(d) >= LOG_MAX_DAY - 1

\* delete_directories(): days_old >= LOG_MAX_DAY.
Expired(d) == Day(clock) - Day(d) >= LOG_MAX_DAY

\* The constructor of LoggerManager: the directory of this second is created
\* and old ones go; an exception ends the removal half-way.  Without a log
\* directory nothing is created or removed, and the name stays empty.
Manage(p, d) ==
    IF d = clock /\ proc[p].dir = None
    THEN \E old \in SUBSET {e \in dirs : Expired(e)} :
            /\ dirs' = (dirs \ old) \cup {clock}
            /\ nodeFile' = [e \in Dirs |-> IF e \in old THEN << >> ELSE nodeFile[e]]
    ELSE UNCHANGED <<dirs, nodeFile>>

\* opens: the sinks, of the two, that can open their files.  The pool that was
\* in use ends after it has written its queue, and its loggers with it.
InitCall(p) ==
    LET P == proc[p] IN
    /\ Call(p) /\ Idle(p)
    /\ P.queue = << >>
    /\ \E d \in (IF P.dir = None THEN {None, Root, clock} ELSE {P.dir}),
          opens \in SUBSET {"node", "time"} :
        LET node == IF P.node # 0 \/ d = None \/ "node" \notin opens
                    THEN P.node ELSE P.pool + 1
            truncated == d # None /\ node # 0 /\ p \in EvaluateProcs /\ "time" \in opens
            time == IF truncated /\ P.time = 0 THEN P.pool + 1 ELSE P.time
        IN  /\ Manage(p, d)
            /\ timeFile' = [e \in Dirs |-> IF \/ truncated /\ e = d
                                              \/ e \in dirs \ dirs'
                                           THEN << >> ELSE timeFile[e]]
            /\ proc' = [proc EXCEPT ![p] = [P EXCEPT !.pool = @ + 1, !.dir = d,
                                                     !.node = node, !.time = time]]
    /\ UNCHANGED clock

-----------------------------------------------------------------------------
(* Logging.  A logger whose pool is gone drops what it is given.           *)

Posted(P, made, items) == IF made # 0 /\ made = P.pool THEN P.queue \o items ELSE P.queue

\* log_info() and its like n times; log_debug() in debug mode only.
Log(p, kind, n) ==
    LET P == proc[p] IN
    /\ Call(p) /\ P.node # 0
    /\ kind = "debug" => p \in DebugProcs
    /\ proc' = [proc EXCEPT ![p] =
                  [P EXCEPT !.logged = @ + n,
                            !.queue = Posted(P, P.node,
                                [i \in 1..n |-> Item(kind, P.logged + i, << >>)])]]
    /\ UNCHANGED <<clock, disk>>

\* A line for the evaluation logger: the dump it belongs to and its cells.
Evaluated(P, dump, cells) ==
    [P EXCEPT !.given = Append(@, <<dump, cells>>),
              !.queue = Posted(P, P.time, <<Item("line", 0, <<dump, cells>>)>>)]

\* log_time() of any thread: one number, of no dump.
log_time(p) ==
    LET P == proc[p] IN
    /\ Call(p) /\ P.time # 0
    /\ proc' = [proc EXCEPT ![p] = Evaluated(P, 0, <<Len(P.given) + 1>>)]
    /\ UNCHANGED <<clock, disk>>

\* flush(), and the flush of every second.
Flush(p) ==
    LET P == proc[p] IN
    /\ Call(p)
    /\ proc' = [proc EXCEPT ![p].queue = Posted(P, P.node, <<Item("flush", 0, << >>)>>)]
    /\ UNCHANGED <<clock, disk>>

\* The buffered records reach the file, if it still has a name.
WriteOut(p, buffer) ==
    nodeFile' = IF proc[p].dir \in dirs \cup {Root}
                THEN [nodeFile EXCEPT ![proc[p].dir] =
                         @ \o [i \in 1..Len(buffer) |-> <<p, buffer[i]>>]]
                ELSE nodeFile

\* The pool's thread: records of level info are flushed at once.
WorkerNode(p) ==
    LET P == proc[p]
        item == Head(P.queue)
        buffer == IF item.kind = "flush" THEN P.buffer ELSE Append(P.buffer, item.number)
    IN  /\ P.status = "up" /\ P.queue # << >> /\ item.kind # "line"
        /\ IF item.kind = "debug"
           THEN /\ proc' = [proc EXCEPT ![p].queue = Tail(@), ![p].buffer = buffer]
                /\ UNCHANGED nodeFile
           ELSE /\ proc' = [proc EXCEPT ![p].queue = Tail(@), ![p].buffer = << >>]
                /\ WriteOut(p, buffer)
        /\ UNCHANGED <<clock, dirs, timeFile, calls>>

WorkerTime(p) ==
    LET P == proc[p] IN
    /\ P.status = "up" /\ P.queue # << >> /\ Head(P.queue).kind = "line"
    /\ proc' = [proc EXCEPT ![p].queue = Tail(@)]
    /\ timeFile' = IF P.dir \in dirs \cup {Root}
                   THEN [timeFile EXCEPT ![P.dir] = Append(@, <<p, Head(P.queue).line>>)]
                   ELSE timeFile
    /\ UNCHANGED <<clock, dirs, nodeFile, calls>>

\* At the end of the program spdlog's registry, made in init(), goes before the
\* Logger: the pool writes its queue, and ~Logger finds none of its names in what
\* is left of the registry.  The files are closed.
Exit(p) ==
    /\ Call(p) /\ Idle(p) /\ proc[p].queue = << >>
    /\ WriteOut(p, proc[p].buffer)
    /\ proc' = [proc EXCEPT ![p].status = "ended", ![p].buffer = << >>]
    /\ UNCHANGED <<clock, dirs, timeFile>>

Crash(p) ==
    /\ Call(p)
    /\ proc' = [proc EXCEPT ![p].status = "crashed",
                            ![p].queue = << >>, ![p].buffer = << >>]
    /\ UNCHANGED <<clock, disk>>

-----------------------------------------------------------------------------
(* TimeCostEva.  A duration is the number of its measurement.              *)

\* Evaluate() and SetEvaluatet().
Evaluate(p, i) ==
    /\ Call(p) /\ Idle(p)
    /\ proc' = [proc EXCEPT ![p].evals = @ + 1,
                            ![p].records_[i] = Append(@, proc[p].evals + 1)]
    /\ UNCHANGED <<clock, disk>>

Clear(p) ==
    /\ Call(p) /\ Idle(p)
    /\ proc' = [proc EXCEPT ![p].records_ = NoRecords]
    /\ UNCHANGED <<clock, disk>>

\* The second parts of the pairs whose first part is the key, in their order.
UnderUpTo(pairs, key) ==
    LET upto[k \in 0..Len(pairs)] ==
            IF k = 0 THEN << >>
            ELSE IF pairs[k][1] = key THEN Append(upto[k - 1], pairs[k][2])
            ELSE upto[k - 1]
    IN  upto
Under(pairs, key) == UnderUpTo(pairs, key)[Len(pairs)]

\* The functions that have a record, in the order of the map.
Recorded(r) == Under([i \in 1..Len(Funcs) |-> <<r[i] # << >>, i>>], TRUE)

\* PrintAll(): a line for each function between two others.
PrintAll(p) == Log(p, "info", 2 + Len(Recorded(proc[p].records_)))

\* Mutant of Table: as many rows as the first function has.
Table_FirstColumn(r) ==
    LET columns == Recorded(r)
        max_length == IF columns = << >> THEN 0 ELSE Len(r[columns[1]])
    IN  <<[c \in 1..Len(columns) |-> columns[c]]>> \o
        [i \in 1..max_length |->
            [c \in 1..Len(columns) |-> IF i <= Len(r[columns[c]]) THEN Printed[r[columns[c]][i]] ELSE 0]]

\* The lines of DumpIntoFile(): the names, then a row for each place in the
\* longest record; 0 is an empty cell.
Table(r) ==
    LET columns == Recorded(r)
        max_length == Max({0} \cup {Len(r[i]) : i \in 1..Len(Funcs)})
    IN  <<columns>> \o
        [i \in 1..max_length |->
            [c \in 1..Len(columns) |-> IF i <= Len(r[columns[c]]) THEN Printed[r[columns[c]][i]] ELSE 0]]

\* Without an evaluation logger the lines go nowhere.
DumpIntoFile(p) ==
    /\ Call(p) /\ Idle(p) /\ proc[p].time # 0
    /\ proc' = [proc EXCEPT ![p].dumps = Append(@, proc[p].records_),
                            ![p].rest = Table(proc[p].records_)]
    /\ UNCHANGED <<clock, disk>>

\* The loop of DumpIntoFile(): one EVALOGTIME.
DumpLine(p) ==
    LET P == proc[p] IN
    /\ P.status = "up" /\ P.rest # << >>
    /\ proc' = [proc EXCEPT ![p] =
                  Evaluated([P EXCEPT !.rest = Tail(@)], Len(P.dumps), Head(P.rest))]
    /\ UNCHANGED <<clock, disk, calls>>

-----------------------------------------------------------------------------
Next ==
    \/ Tick
    \/ \E p \in Procs :
        \/ InitCall(p) \/ Flush(p) \/ WorkerNode(p) \/ WorkerTime(p)
        \/ Exit(p) \/ Crash(p) \/ Clear(p) \/ PrintAll(p)
        \/ log_time(p) \/ DumpIntoFile(p) \/ DumpLine(p)
        \/ \E kind \in {"info", "debug"} : Log(p, kind, 1)
        \/ \E i \in 1..Len(Funcs) : Evaluate(p, i)

Spec == Init /\ [][Next]_vars

-----------------------------------------------------------------------------
(* Properties                                                              *)

\* The records of a process in its file, then those on their way there.
ByRecord(queue) ==
    [i \in 1..Len(queue) |-> <<queue[i].kind \in {"info", "debug"}, queue[i].number>>]
Kept(p) == Under(nodeFile[proc[p].dir], p) \o proc[p].buffer
               \o Under(ByRecord(proc[p].queue), TRUE)
Young(d) == d = Root \/ Day(clock) - Day(d) < LOG_MAX_DAY

\* What a process logs arrives in its file once and in order, whatever other
\* processes share the directory, clean up, crash or start again: a crash only
\* cuts off the end, and a process that ended, or runs on with the pool its
\* logger was made with, has lost nothing.  (After a second init() the main
\* logger's pool is gone, and what is logged from then on is lost.)  Logs are
\* only safe for LOG_MAX_DAY days, also those of a process that still runs.
LoggedInOrder ==
    \A p \in Procs : LET P == proc[p] IN
        P.node # 0 /\ Young(P.dir) =>
            /\ Kept(p) = [i \in 1..Len(Kept(p)) |-> i]
            /\ Len(Kept(p)) <= P.logged
            /\ P.node = P.pool /\ P.status # "crashed" => Len(Kept(p)) = P.logged

\* The lines for the evaluation logger, likewise.
ByKind(queue) == [i \in 1..Len(queue) |-> <<queue[i].kind, queue[i].line>>]
Lines(p) == Under(timeFile[proc[p].dir], p) \o Under(ByKind(proc[p].queue), "line")

\* A table gives back what was recorded: under each name stand this function's
\* durations as they are printed, all of them and in order, then empty cells.
ReadsBack(table, r) ==
    /\ table # << >> /\ table[1] = Recorded(r)
    /\ \A c \in 1..Len(table[1]) :
        LET column == [i \in 1..Len(table) - 1 |-> table[i + 1][c]]
            durations == r[table[1][c]]
        IN  /\ Len(durations) <= Len(column)
            /\ \A i \in 1..Len(column) :
                column[i] = IF i <= Len(durations) THEN Printed[durations[i]] ELSE 0

\* Every line for the evaluation logger is in the file or on its way, once and
\* in order, and among them the lines of each finished dump are a table that
\* gives back what the dump found recorded, whatever other threads log between
\* them.  Unless the process initialised the logger again or another one that
\* evaluates was started in the same second.
TableReadsBack ==
    \A p \in Procs : LET P == proc[p] IN
        /\ P.status # "crashed"
        /\ P.time = P.pool /\ P.pool = 1 /\ Young(P.dir)
        /\ \A q \in EvaluateProcs \ {p} : proc[q].dir # P.dir
        =>
            /\ Lines(p) = P.given
            /\ \A k \in 1..Len(P.dumps) :
                k < Len(P.dumps) \/ Idle(p) =>
                    ReadsBack(Under(Lines(p), k), P.dumps[k])
=============================================================================

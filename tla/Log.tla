-------------------------------- MODULE Log --------------------------------
(***************************************************************************)
(* The log: any thread appends lines to a buffer under _bufLock; the log   *)
(* thread opens and changes files, takes the buffer under the lock and     *)
(* writes what it took outside the lock.                                   *)
(*                                                                         *)
(* A line is a number and has the length 1.  One tick of the clock is an   *)
(* hour, which stands for the second in which file names are told apart.   *)
(***************************************************************************)
EXTENDS Integers, Sequences

CONSTANTS
    BufferLines,    \* MAX_LOG_BUFFER_SIZE - 200
    FileSize,       \* _nFileSize
    Day(_),         \* getNowDay at a time of the clock
    Hour(_),        \* getNowTimeStr
    StartTime,      \* when the program starts
    LinesPerTick,   \* lines that arrive within one tick at the most
    MaxLines,       \* bound: calls of log
    MaxTicks,       \* bound: ticks of the clock
    MaxFails        \* bound: files that cannot be opened

ASSUME LogAssumption ==
    /\ BufferLines \in Nat
    /\ FileSize \in Nat \ {0}
    /\ StartTime \in Nat
    /\ LinesPerTick \in Nat
    /\ MaxLines \in Nat
    /\ MaxTicks \in Nat
    /\ MaxFails \in Nat

VARIABLES
    now,            \* the clock
    sinceTick,      \* calls of log since it last ticked
    called,         \* calls of log
    data,           \* _data up to _pLogCur
    lDropCount,     \* _lDropCount
    bRuning,        \* _bRuning
    pc,             \* where the log thread is; "new" before it is started
    nNowDay,        \* _nNowDay: the day as of the last idle turn
    nLastDay,       \* _nLastDay: the day on which the file was opened
    name,           \* openFile's local: day and time of the new file
    open,           \* _fp.is_open()
    nNowUseSize,    \* _nNowUseSize
    tmpData,        \* _tmpData
    fails,          \* files that could not be opened
    \* The disk, and history
    files,          \* files[f]: the lines in the file of that name
    accepted,       \* the lines that log took, in order
    written         \* the lines that were written, in order

clockVars == <<now, sinceTick>>
bufferVars == <<called, data, lDropCount, accepted>>
fileVars == <<nLastDay, name, open, fails>>
vars == <<clockVars, bufferVars, bRuning, pc, nNowDay, fileVars, nNowUseSize,
          tmpData, files, written>>

\* After setConfig.
Init ==
    /\ now = StartTime
    /\ sinceTick = 0
    /\ called = 0
    /\ data = <<>>
    /\ lDropCount = 0
    /\ bRuning = FALSE
    /\ pc = "new"
    /\ nNowDay = Day(now)
    /\ nLastDay = 0
    /\ name = <<0, 0>>
    /\ open = FALSE
    /\ nNowUseSize = 0
    /\ tmpData = <<>>
    /\ fails = 0
    /\ files = [f \in {} |-> <<>>]
    /\ accepted = <<>>
    /\ written = <<>>

-----------------------------------------------------------------------------
Tick ==
    /\ now < StartTime + MaxTicks
    /\ now' = now + 1
    /\ sinceTick' = 0
    /\ UNCHANGED <<bufferVars, bRuning, pc, nNowDay, fileVars, nNowUseSize,
                   tmpData, files, written>>

Calls ==
    /\ called < MaxLines
    /\ sinceTick < LinesPerTick
    /\ called' = called + 1
    /\ sinceTick' = sinceTick + 1

\* log: a line is added to the buffer.
log ==
    /\ Calls
    /\ Len(data) + 1 <= BufferLines
    /\ data' = Append(data, called')
    /\ accepted' = Append(accepted, called')
    /\ UNCHANGED <<now, lDropCount, bRuning, pc, nNowDay, fileVars, nNowUseSize,
                   tmpData, files, written>>

\* log: the buffer is full, and the line is dropped.
logDrop ==
    /\ Calls
    /\ Len(data) + 1 > BufferLines
    /\ lDropCount' = lDropCount + 1
    /\ UNCHANGED <<now, data, accepted, bRuning, pc, nNowDay, fileVars,
                   nNowUseSize, tmpData, files, written>>

\* doStart: the thread is created, and may run before ..
start ==
    /\ pc = "new"
    /\ pc' = "turn"
    /\ UNCHANGED <<clockVars, bufferVars, bRuning, nNowDay, fileVars, nNowUseSize,
                   tmpData, files, written>>

\* .. doStart has stored that it runs.
doStart ==
    /\ pc # "new"
    /\ ~bRuning
    /\ bRuning' = TRUE
    /\ UNCHANGED <<clockVars, bufferVars, pc, nNowDay, fileVars, nNowUseSize,
                   tmpData, files, written>>

-----------------------------------------------------------------------------
Goes(from, to) == pc = from /\ pc' = to

\* A file that has reached its size, or another day than the file's, asks for
\* a new file.
MustChange == nNowUseSize >= FileSize \/ nLastDay # nNowDay

\* Mutant: after a file that could not be opened no other one is tried.
TurnTriesOnce ==
    /\ Goes("turn", IF ~bRuning \/ (~open /\ nLastDay # 0) THEN "idle"
                    ELSE IF open /\ ~MustChange THEN "take" ELSE "name")
    /\ open' = (open /\ (bRuning => ~MustChange))
    /\ UNCHANGED <<clockVars, bufferVars, bRuning, nNowDay, nLastDay, name, fails,
                   nNowUseSize, tmpData, files, written>>

\* logFile before it is told to run, and openFile up to the new file's name.
Turn ==
    /\ Goes("turn", IF ~bRuning THEN "idle"
                    ELSE IF open /\ ~MustChange THEN "take" ELSE "name")
    /\ open' = (open /\ (bRuning => ~MustChange))
    /\ UNCHANGED <<clockVars, bufferVars, bRuning, nNowDay, nLastDay, name, fails,
                   nNowUseSize, tmpData, files, written>>

\* openFile: the name begins with the day.
NameDay ==
    /\ Goes("name", "open")
    /\ name' = <<Day(now), 0>>
    /\ UNCHANGED <<clockVars, bufferVars, bRuning, nNowDay, nLastDay, open, fails,
                   nNowUseSize, tmpData, files, written>>

\* openFile: the time is appended, and the file is opened, which empties a
\* file of that name (trunc).
OpenFile ==
    /\ Goes("open", "lastDay")
    /\ name' = <<name[1], Hour(now)>>
    /\ open' = TRUE
    /\ files' = [f \in DOMAIN files \cup {name'} |->
                     IF f = name' THEN <<>> ELSE files[f]]
    /\ UNCHANGED <<clockVars, bufferVars, bRuning, nNowDay, nLastDay, fails,
                   nNowUseSize, tmpData, written>>

\* openFile: the file cannot be opened.
OpenFails ==
    /\ Goes("open", "lastDay")
    /\ fails < MaxFails
    /\ fails' = fails + 1
    /\ name' = <<name[1], Hour(now)>>
    /\ UNCHANGED <<clockVars, bufferVars, bRuning, nNowDay, nLastDay, open,
                   nNowUseSize, tmpData, files, written>>

\* Mutant: the size is not reset for the new file.
LastDayOnly ==
    /\ Goes("lastDay", IF open THEN "take" ELSE "idle")
    /\ nLastDay' = Day(now)
    /\ UNCHANGED <<clockVars, bufferVars, bRuning, nNowDay, name, open, fails,
                   nNowUseSize, tmpData, files, written>>

\* openFile: _nLastDay and _nNowUseSize are set, opened or not.
LastDay ==
    /\ Goes("lastDay", IF open THEN "take" ELSE "idle")
    /\ nLastDay' = Day(now)
    /\ nNowUseSize' = 0
    /\ UNCHANGED <<clockVars, bufferVars, bRuning, nNowDay, name, open, fails,
                   tmpData, files, written>>

\* Mutant: the buffer is copied but not emptied.
TakeKeeps ==
    /\ pc = "take"
    /\ data # <<>>
    /\ pc' = "write"
    /\ tmpData' = data
    /\ nNowUseSize' = nNowUseSize + Len(data)
    /\ UNCHANGED <<clockVars, bufferVars, bRuning, nNowDay, fileVars, files, written>>

\* logFile under the lock: all that is in the buffer is taken.
Take ==
    /\ pc = "take"
    /\ data # <<>>
    /\ pc' = "write"
    /\ tmpData' = data
    /\ data' = <<>>
    /\ nNowUseSize' = nNowUseSize + Len(data)
    /\ UNCHANGED <<clockVars, called, lDropCount, accepted, bRuning, nNowDay,
                   fileVars, files, written>>

\* logFile with nothing to write.
TakeNothing ==
    /\ Goes("take", "idle")
    /\ data = <<>>
    /\ UNCHANGED <<clockVars, bufferVars, bRuning, nNowDay, fileVars, nNowUseSize,
                   tmpData, files, written>>

\* logFile after the lock, and another turn at once.
Write ==
    /\ Goes("write", "turn")
    /\ files' = [files EXCEPT ![name] = @ \o tmpData]
    /\ written' = written \o tmpData
    /\ tmpData' = <<>>
    /\ UNCHANGED <<clockVars, bufferVars, bRuning, nNowDay, fileVars, nNowUseSize>>

\* run after a turn that wrote nothing: the day is looked up, then 200 ms.
Idle ==
    /\ Goes("idle", "turn")
    /\ nNowDay' = Day(now)
    /\ UNCHANGED <<clockVars, bufferVars, bRuning, fileVars, nNowUseSize, tmpData,
                   files, written>>

LogThread ==
    \/ Turn \/ NameDay \/ OpenFile \/ OpenFails \/ LastDay
    \/ Take \/ TakeNothing \/ Write \/ Idle

Next == Tick \/ log \/ logDrop \/ start \/ doStart \/ LogThread

Spec == Init /\ [][Next]_vars

\* initLog starts the thread, and the thread keeps running.
FairSpec == Spec /\ WF_vars(start) /\ WF_vars(doStart) /\ WF_vars(LogThread)

-----------------------------------------------------------------------------
TypeOK ==
    /\ now \in Nat /\ sinceTick \in Nat
    /\ called \in 0..MaxLines
    /\ data \in Seq(1..MaxLines)
    /\ Len(data) <= BufferLines
    /\ lDropCount \in Nat
    /\ bRuning \in BOOLEAN
    /\ pc \in {"new", "turn", "name", "open", "lastDay", "take", "write", "idle"}
    /\ open \in BOOLEAN
    /\ nNowUseSize \in Nat
    /\ tmpData \in Seq(1..MaxLines)
    /\ fails \in 0..MaxFails
    /\ accepted \in Seq(1..MaxLines)
    /\ written \in Seq(1..MaxLines)

\* Whatever the threads do between the two critical sections: the lines that
\* were written, those on their way and those in the buffer are the accepted
\* ones, in order, and every other call was counted as dropped (Log::log and
\* Log::logFile).
LinesInOrder ==
    /\ accepted = written \o tmpData \o data
    /\ Len(accepted) + lDropCount = called

\* The file is cut by size (the note in Log.h): lines only go to a file that
\* has not reached its size, and _nNowUseSize is what is in the open file,
\* with what is about to be written, even after a file could not be opened.
SizeRespected ==
    /\ pc = "write" => name \in DOMAIN files /\ Len(files[name]) < FileSize
    /\ (open /\ pc \in {"turn", "take", "write", "idle"}) =>
           nNowUseSize = Len(files[name]) + Len(tmpData)

\* Every accepted line is written in the end, though files may fail to open
\* and the thread starts before it is told to run.
EveryLineIsWritten ==
    \A l \in 1..MaxLines : (Len(accepted) >= l) ~> (Len(written) >= l)

\* The comment on logFile in Log.h, "writes the content of the buffer to the
\* file": a line that was written stays in a file.
WrittenStays ==
    \A i \in DOMAIN written : \E f \in DOMAIN files :
        \E k \in DOMAIN files[f] : files[f][k] = written[i]
=============================================================================

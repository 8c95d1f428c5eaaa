---------------------------- MODULE LogHarvester ----------------------------
(***************************************************************************)
(* One file tailed by LogHarvester (internal/collector/log_harvester.go):  *)
(* tailFile with its buffered reader, against a program that writes the    *)
(* file, a log rotation that truncates or renames it, and restarts.        *)
(*                                                                         *)
(* The file is a sequence of pieces, numbered in the order in which they   *)
(* were written.  A line is two pieces, 2n-1 and 2n, and its newline is at *)
(* the end of the second; a write may end anywhere.  Positions and offsets *)
(* count pieces.  Both 64 KB buffers are large enough for all there is, no *)
(* line is blank, and readLastLines finds the file as it is at one moment. *)
(***************************************************************************)
EXTENDS Integers, Sequences, FiniteSets

CONSTANTS
    TailLines,     \* lines ingested at the start
    MaxRate,       \* lines per second
    MaxPieces,     \* bound: pieces written
    MaxRotations,  \* bound: truncations and renames
    MaxFaults,     \* bound: read errors other than the end of file
    MaxRestarts    \* bound: restarts of the process

ASSUME LimitsAssumption == TailLines \in Nat \ {0} /\ MaxRate \in Nat \ {0}

ASSUME BoundsAssumption ==
    MaxPieces \in Nat /\ MaxRotations \in Nat /\ MaxFaults \in Nat /\ MaxRestarts \in Nat

VARIABLES
    file,       \* content of the file at the path
    written,    \* number of the last piece written
    held,       \* content of the file the tailer opened, once it was renamed
    renamed,    \* the open file is no longer the one at the path
    pc,         \* where the tailer is
    todo,       \* rest of the initial lines
    pos,        \* the file descriptor's position
    buf,        \* what bufio.Reader holds
    offset,     \* the local variable of tailFile
    perSecond,  \* linesThisSecond
    stop,       \* stopChan is closed
    faults,     \* read errors so far
    rotations,  \* truncations and renames so far
    restarts,   \* restarts so far
    delivered,  \* history: entries given to onLog since the start
    dropped,    \* history: pieces the reader took and threw away
    from,       \* history: the position tailing began from
    shrunk      \* history: the open file was truncated after that

fileVars    == <<file, written, held, renamed, rotations, shrunk>>
readerVars  == <<pos, buf, offset, perSecond, todo>>
historyVars == <<delivered, dropped, from>>
controlVars == <<stop, faults, restarts>>

vars == <<fileVars, pc, readerVars, historyVars, controlVars>>

Pieces == 1..MaxPieces

\* The file descriptor's file.
Opened == IF renamed THEN held ELSE file

EndsLine(p) == p % 2 = 0

Newlines(s) == {i \in 1..Len(s) : EndsLine(s[i])}

\* The first line of s and what follows it; s itself when it has no newline.
FirstLine(s) ==
    IF Newlines(s) = {} THEN s
    ELSE SubSeq(s, 1, CHOOSE i \in Newlines(s) : \A j \in Newlines(s) : i <= j)

AfterLine(s) == SubSeq(s, Len(FirstLine(s)) + 1, Len(s))

\* readLastLines: the last TailLines lines; an unfinished one counts.
LastLines(s) ==
    LET Starts == {i \in 1..Len(s) : i = 1 \/ EndsLine(s[i - 1])}
        Kept   == {i \in Starts : Cardinality({j \in Starts : j > i}) < TailLines}
    IN  IF s = <<>> THEN <<>>
        ELSE SubSeq(s, CHOOSE i \in Kept : \A j \in Kept : i <= j, Len(s))

ItemsOf(s) == {s[i] : i \in 1..Len(s)}

-----------------------------------------------------------------------------
(* The file, as other programs treat it *)

\* One write of one or two pieces, which may begin and end within a line.
Write(n) ==
    /\ written + n <= MaxPieces
    /\ written' = written + n
    /\ file' = file \o [i \in 1..n |-> written + i]
    /\ UNCHANGED <<held, renamed, rotations, shrunk, pc, readerVars, historyVars, controlVars>>

\* logrotate's copytruncate.
Truncate ==
    /\ rotations < MaxRotations
    /\ rotations' = rotations + 1
    /\ file' = <<>>
    /\ shrunk' = (shrunk \/ ~renamed)
    /\ UNCHANGED <<written, held, renamed, pc, readerVars, historyVars, controlVars>>

\* logrotate's default: the file is renamed and an empty one created.
Rename ==
    /\ rotations < MaxRotations
    /\ rotations' = rotations + 1
    /\ file' = <<>>
    /\ held' = Opened
    /\ renamed' = TRUE
    /\ UNCHANGED <<written, shrunk, pc, readerVars, historyVars, controlVars>>

-----------------------------------------------------------------------------
(* tailFile *)

Deliver(line) == delivered' = Append(delivered, line)

\* os.Open, and the last lines as they are at this moment.
Open ==
    /\ pc = "start"
    /\ pc' = "initial"
    /\ renamed' = FALSE
    /\ held' = <<>>
    /\ todo' = LastLines(file)
    /\ UNCHANGED <<file, written, rotations, shrunk, pos, buf, offset, perSecond, historyVars, controlVars>>

OpenFails ==
    /\ pc = "start"
    /\ faults < MaxFaults
    /\ faults' = faults + 1
    /\ pc' = "ended"
    /\ UNCHANGED <<fileVars, readerVars, historyVars, stop, restarts>>

InitialLine ==
    /\ pc = "initial"
    /\ todo # <<>>
    /\ Deliver(FirstLine(todo))
    /\ todo' = AfterLine(todo)
    /\ UNCHANGED <<fileVars, pc, pos, buf, offset, perSecond, dropped, from, controlVars>>

\* Seek to the end of file, which does not fail for an open regular file.
SeekEnd ==
    /\ pc = "initial"
    /\ todo = <<>>
    /\ pc' = "loop"
    /\ pos' = Len(Opened)
    /\ offset' = Len(Opened)
    /\ from' = Len(Opened)
    /\ shrunk' = FALSE
    /\ UNCHANGED <<file, written, held, renamed, rotations, buf, perSecond, todo,
                   delivered, dropped, controlVars>>

\* The select at the top of the loop: stopChan, or nothing and the rate
\* allows another line, or the ticker of the rate limit.  A tailer over its
\* rate sleeps and comes back.
StopSeen ==
    /\ pc \in {"loop", "wait"}
    /\ stop
    /\ pc' = "ended"
    /\ UNCHANGED <<fileVars, readerVars, historyVars, controlVars>>

\* Variant of Proceed: the rate is not looked at.
ProceedUnlimited ==
    /\ pc = "loop"
    /\ ~stop
    /\ pc' = "read"
    /\ UNCHANGED <<fileVars, readerVars, historyVars, controlVars>>

Proceed ==
    /\ pc = "loop"
    /\ ~stop
    /\ perSecond < MaxRate
    /\ pc' = "read"
    /\ UNCHANGED <<fileVars, readerVars, historyVars, controlVars>>

\* Variant of NewSecond: the counter is not reset.
NewSecondNoReset ==
    /\ pc = "loop"
    /\ perSecond < MaxRate
    /\ pc' = "read"
    /\ UNCHANGED <<fileVars, readerVars, historyVars, controlVars>>

\* The ticker, which the select may prefer to stopChan.
NewSecond ==
    /\ pc = "loop"
    /\ perSecond' = 0
    /\ pc' = "read"
    /\ UNCHANGED <<fileVars, pos, buf, offset, todo, historyVars, controlVars>>

\* ReadString: a whole line is buffered, and is delivered.
ReadLine ==
    /\ pc = "read"
    /\ Newlines(buf) # {}
    /\ Deliver(FirstLine(buf))
    /\ buf' = AfterLine(buf)
    /\ offset' = offset + Len(FirstLine(buf))
    /\ perSecond' = perSecond + 1
    /\ pc' = "loop"
    /\ UNCHANGED <<fileVars, pos, todo, dropped, from, controlVars>>

\* ReadString: the reader takes what the file has.
Fill ==
    /\ pc = "read"
    /\ Newlines(buf) = {}
    /\ pos < Len(Opened)
    /\ buf' = buf \o SubSeq(Opened, pos + 1, Len(Opened))
    /\ pos' = Len(Opened)
    /\ UNCHANGED <<fileVars, pc, offset, perSecond, todo, historyVars, controlVars>>

\* ReadString returns the unfinished line with io.EOF; tailFile drops it.
EndOfFile ==
    /\ pc = "read"
    /\ Newlines(buf) = {}
    /\ pos >= Len(Opened)
    /\ buf' = <<>>
    /\ dropped' = dropped \cup ItemsOf(buf)
    /\ pc' = "stat"
    /\ UNCHANGED <<fileVars, pos, offset, perSecond, todo, delivered, from, controlVars>>

\* ReadString returns another error; the unfinished line is dropped as well.
ReadFails ==
    /\ pc = "read"
    /\ Newlines(buf) = {}
    /\ faults < MaxFaults
    /\ faults' = faults + 1
    /\ buf' = <<>>
    /\ dropped' = dropped \cup ItemsOf(buf)
    /\ pc' = "loop"
    /\ UNCHANGED <<fileVars, pos, offset, perSecond, todo, delivered, from, stop, restarts>>

\* Variant of StatShrunk: offset keeps its value.
StatShrunkNoOffset ==
    /\ pc = "stat"
    /\ Len(Opened) < offset
    /\ pos' = 0
    /\ buf' = <<>>
    /\ from' = 0
    /\ shrunk' = FALSE
    /\ pc' = "loop"
    /\ UNCHANGED <<file, written, held, renamed, rotations, offset, perSecond, todo,
                   delivered, dropped, controlVars>>

\* Variant of StatShrunk: tailing goes on at the new end of the file.
StatShrunkSeekEnd ==
    /\ pc = "stat"
    /\ Len(Opened) < offset
    /\ pos' = Len(Opened)
    /\ offset' = 0
    /\ buf' = <<>>
    /\ from' = 0
    /\ shrunk' = FALSE
    /\ pc' = "loop"
    /\ UNCHANGED <<file, written, held, renamed, rotations, perSecond, todo,
                   delivered, dropped, controlVars>>

\* The file is shorter than what was read from it: begin again.
StatShrunk ==
    /\ pc = "stat"
    /\ Len(Opened) < offset
    /\ pos' = 0
    /\ offset' = 0
    /\ buf' = <<>>
    /\ from' = 0
    /\ shrunk' = FALSE
    /\ pc' = "loop"
    /\ UNCHANGED <<file, written, held, renamed, rotations, perSecond, todo,
                   delivered, dropped, controlVars>>

\* Variant of StatSame: the read is tried again at once.
StatSameRetry ==
    /\ pc = "stat"
    /\ Len(Opened) >= offset
    /\ pc' = "read"
    /\ UNCHANGED <<fileVars, readerVars, historyVars, controlVars>>

StatSame ==
    /\ pc = "stat"
    /\ Len(Opened) >= offset
    /\ pc' = "wait"
    /\ UNCHANGED <<fileVars, readerVars, historyVars, controlVars>>

\* PollInterval has passed.
Poll ==
    /\ pc = "wait"
    /\ pc' = "loop"
    /\ UNCHANGED <<fileVars, readerVars, historyVars, controlVars>>

-----------------------------------------------------------------------------
\* LogHarvester.Stop closes stopChan.
Stop ==
    /\ ~stop
    /\ stop' = TRUE
    /\ UNCHANGED <<fileVars, pc, readerVars, historyVars, faults, restarts>>

\* The process ends and another one starts; the file is what it is.
Restart ==
    /\ restarts < MaxRestarts
    /\ restarts' = restarts + 1
    /\ pc' = "start"
    /\ todo' = <<>>
    /\ pos' = 0
    /\ buf' = <<>>
    /\ offset' = 0
    /\ perSecond' = 0
    /\ stop' = FALSE
    /\ delivered' = <<>>
    /\ dropped' = {}
    /\ from' = 0
    /\ shrunk' = FALSE
    /\ UNCHANGED <<file, written, held, renamed, rotations, faults>>

Init ==
    /\ file = <<>>
    /\ written = 0
    /\ held = <<>>
    /\ renamed = FALSE
    /\ pc = "start"
    /\ todo = <<>>
    /\ pos = 0
    /\ buf = <<>>
    /\ offset = 0
    /\ perSecond = 0
    /\ stop = FALSE
    /\ delivered = <<>>
    /\ dropped = {}
    /\ from = 0
    /\ shrunk = FALSE
    /\ faults = 0
    /\ rotations = 0
    /\ restarts = 0

ReadString == ReadLine \/ Fill \/ EndOfFile \/ ReadFails

TailerStep ==
    \/ Open \/ OpenFails \/ InitialLine \/ SeekEnd
    \/ Proceed \/ NewSecond \/ StopSeen
    \/ ReadString
    \/ StatShrunk \/ StatSame \/ Poll

Next ==
    \/ \E n \in {1, 2} : Write(n)
    \/ Truncate
    \/ Rename
    \/ TailerStep
    \/ Stop
    \/ Restart

Spec == Init /\ [][Next]_vars

(* The tailer's goroutine runs and time passes; a select that finds both    *)
(* stopChan and a timer ready chooses at random, so stopChan is taken in   *)
(* the end.  No one is obliged to write, rotate, stop or restart.          *)
FairSpec == Spec /\ WF_vars(TailerStep) /\ SF_vars(StopSeen)

-----------------------------------------------------------------------------
(* Properties *)

\* Type invariant; the rate limit bounds the lines of a second.
TypeOK ==
    /\ file \in Seq(Pieces) /\ held \in Seq(Pieces)
    /\ written \in 0..MaxPieces
    /\ renamed \in BOOLEAN /\ stop \in BOOLEAN /\ shrunk \in BOOLEAN
    /\ pc \in {"start", "initial", "loop", "read", "stat", "wait", "ended"}
    /\ todo \in Seq(Pieces) /\ buf \in Seq(Pieces)
    /\ pos \in Nat /\ offset \in Nat /\ from \in Nat
    /\ perSecond \in 0..MaxRate
    /\ faults \in 0..MaxFaults
    /\ rotations \in 0..MaxRotations
    /\ restarts \in 0..MaxRestarts
    /\ delivered \in Seq(Seq(Pieces))
    /\ dropped \subseteq Pieces

Increasing(s) == \A i, j \in 1..Len(s) : i < j => s[i] < s[j]

\* Nothing is delivered twice or out of order between two starts of the
\* process, whatever is truncated, renamed or torn: tailFile goes back to the
\* beginning of the file only when everything there is new, and a line never
\* mixes what was in the file before and after it changed out of order.
InOrder ==
    /\ \A i \in 1..Len(delivered) : Increasing(delivered[i])
    /\ \A i, j \in 1..Len(delivered) : i < j =>
          \A p \in ItemsOf(delivered[i]), q \in ItemsOf(delivered[j]) : p < q
    /\ \A i \in 1..Len(delivered) :
          \A p \in ItemsOf(delivered[i]), q \in ItemsOf(buf) : p < q

Tailing == pc \in {"loop", "read", "stat", "wait"}

Taken == (UNION {ItemsOf(delivered[i]) : i \in 1..Len(delivered)}) \cup ItemsOf(buf) \cup dropped

\* Tailing skips nothing: from where it began, which after a truncation that
\* was noticed is the beginning of the file, every piece before the read
\* position was delivered, is buffered, or was dropped with an unfinished
\* line.  offset, which lags behind when such a line is dropped, never makes
\* the tailer take a file that only grew for a truncated one.
NothingSkipped ==
    Tailing /\ ~shrunk =>
        /\ from <= pos /\ pos <= Len(Opened)
        /\ offset <= pos - Len(buf)
        /\ \A i \in (from + 1)..pos : Opened[i] \in Taken

\* The tailer catches up with its file, however low the rate limit, unless it
\* is stopped or the file shrinks.
CatchesUp ==
    \A n \in 1..MaxPieces :
        Tailing /\ Len(Opened) >= n ~> ~Tailing \/ shrunk \/ pos - Len(buf) >= n

\* After Stop the tailer ends (unless the process does), also when it is over
\* its rate or waiting for the next poll, so that Stop returns.
TailerEnds == stop ~> pc = "ended" \/ ~stop

\* "Check for file truncation / log rotation" (log_harvester.go:180) and "File
\* was truncated or rotated" (183): after the file was renamed and a new one
\* written in its place, the tailer takes what is in the new one.
RotationFollowed ==
    \A p \in Pieces :
        Tailing /\ renamed /\ p \in ItemsOf(file) ~>
            ~Tailing \/ p \in Taken \/ p \notin ItemsOf(file)
=============================================================================

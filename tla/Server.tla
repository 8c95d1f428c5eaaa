------------------------------- MODULE Server -------------------------------
(***************************************************************************)
(* The process as a whole from start to exit: Server (internal/server/     *)
(* server.go), main (cmd/sugi/main.go), the log ingestion of the HTTP API  *)
(* and of the log harvester, composed from LogWriter and SSEHub.           *)
(*                                                                         *)
(* On a signal main calls Server.Shutdown with a context of five seconds.  *)
(* Shutdown closes the SSE hub, stops the harvester, waits for the HTTP    *)
(* connections, closes the log writer and closes the database, one after   *)
(* the other; an error of one stage never stops the next.  Then main       *)
(* returns, which ends every goroutine.                                    *)
(*                                                                         *)
(* Left to the modules of their own: snapshots and heartbeats (SSEHub),    *)
(* failing transactions, pruning and restarts (LogWriter).                 *)
(***************************************************************************)
EXTENDS Integers, Sequences, FiniteSets

CONSTANTS
    Requests,    \* POST requests that ingest logs, each served once
    Tailers,     \* files the harvester tails
    Conns,       \* connections to the event stream
    MaxCalls,    \* bound: entries per request, lines per file
    BufferSize, BatchSize,     \* of the log writer
    QueueSize, ClientBuffer,   \* of the hub
    Impatient    \* TRUE: the five seconds may pass at any moment of the
                 \* shutdown; FALSE: only when nothing else would end it

ASSUME ImpatientAssumption == Impatient \in BOOLEAN

\* The sizes are positive, as in LogWriter and SSEHub; a goroutine serves a
\* request or tails a file.
ASSUME SizesAssumption ==
    /\ MaxCalls \in Nat
    /\ {BufferSize, BatchSize, QueueSize, ClientBuffer} \subseteq Nat \ {0}
    /\ IsFiniteSet(Requests \cup Tailers)
    /\ Requests \cap Tailers = {}

Callers == Requests \cup Tailers

VARIABLES
    calls, pending, ch, batch, worker, pruner, closed, done, closer,
    dbOpen, rows, nextId, accepted, lost, pruned, promised,        \* LogWriter
    logs, queue, clients, hub, stopped, stream, buffer, shut,
    gone, got,                                                     \* SSEHub
    stage,      \* where Shutdown is, and main around it
    ctxDone,    \* the context of Shutdown has expired
    drained,    \* http.Server.Shutdown returned nil
    early,      \* history: Len(accepted) when http.Server.Shutdown was called
    request,    \* request[r]: the handler of r
    tailer,     \* tailer[t]: the goroutine that tails t
    tailStop,   \* the harvester's stopChan is closed
    casting     \* callers whose entry was accepted and not yet broadcast

writerVars  == <<calls, pending, ch, batch, worker, pruner, closed, done, closer,
                 dbOpen, rows, nextId, accepted, lost, pruned, promised>>
hubVars     == <<logs, queue, clients, hub, stopped, stream, buffer, shut, gone, got>>
sourceVars  == <<request, tailer, casting>>
stageVars   == <<stage, ctxDone, drained, early, tailStop>>

vars == <<writerVars, hubVars, sourceVars, stageVars>>

W == INSTANCE LogWriter WITH
    Retention <- 1, Stamps <- {1}, MaxTime <- 1, MaxFaults <- 0, MaxRestarts <- 0,
    now <- 1, faults <- 0, restarts <- 0

H == INSTANCE SSEHub WITH
    MaxSnapshots <- 0, MaxLogs <- Cardinality(Callers) * MaxCalls, MaxBeats <- 0,
    pushed <- 0, sampler <- "tick", beats <- 0, overflow <- {},
    greeting <- [c \in Conns |-> 0], missed <- [c \in Conns |-> {}]

Stages == <<"serving", "hubClose", "tailStop", "tailWait", "http", "writerClose",
            "writerWait", "sqliteClose", "returned", "exited">>

\* Main has not returned: goroutines run.
Alive == stage # "exited"

\* Variant of Listening: the listener is closed after the connections drained.
ListeningWhileDraining == stage \in {"serving", "hubClose", "tailStop", "tailWait", "http", "writerClose"}

\* The listener is open: Shutdown has not reached http.Server.Shutdown.
Listening == stage \in {"serving", "hubClose", "tailStop", "tailWait"}

-----------------------------------------------------------------------------
(* The goroutines of the writer and of the hub *)

WriterStep ==
    /\ Alive
    /\ \/ W!Receive
       \/ W!FlushTick
       \/ W!TakeDone
       \/ W!DrainEmpty
       \/ W!WriteBatch
       \/ W!WriteFails
       \/ W!PrunerExit
    /\ UNCHANGED <<hubVars, sourceVars, stageVars>>

HubStep ==
    /\ Alive
    /\ H!FanOut \/ H!Stop \/ \E c \in Conns : H!Register(c) \/ H!Unregister(c)
    /\ UNCHANGED <<writerVars, sourceVars, stageVars>>

StreamStep(c) ==
    /\ Alive
    /\ H!HandlerStep(c)
    /\ UNCHANGED <<writerVars, sourceVars, stageVars>>

StreamOpens(c) ==
    /\ Listening
    /\ H!Connect(c)
    /\ UNCHANGED <<writerVars, sourceVars, stageVars>>

PeerLeaves(c) ==
    /\ Alive
    /\ H!Disconnect(c)
    /\ UNCHANGED <<writerVars, sourceVars, stageVars>>

-----------------------------------------------------------------------------
(* Ingestion: Enqueue, and BroadcastLog when it returned true *)

\* The caller is between two calls of Enqueue.
Free(c) == pending[c] = W!Nothing /\ c \notin casting

Check(c) == W!EnqueueCheck(c, 1) /\ UNCHANGED hubVars

Send(c) ==
    /\ Alive
    /\ W!EnqueueSend(c)
    /\ casting' = IF accepted' # accepted THEN casting \cup {c} ELSE casting
    /\ UNCHANGED <<hubVars, request, tailer, stageVars>>

Cast(c) ==
    /\ Alive
    /\ c \in casting
    /\ H!BroadcastLog
    /\ casting' = casting \ {c}
    /\ UNCHANGED <<writerVars, request, tailer, stageVars>>

(* HandleIngestLogs *)

RequestArrives(r) ==
    /\ Listening
    /\ request[r] = "none"
    /\ request' = [request EXCEPT ![r] = "active"]
    /\ UNCHANGED <<writerVars, hubVars, tailer, casting, stageVars>>

RequestEntry(r) ==
    /\ Alive
    /\ request[r] = "active"
    /\ Free(r)
    /\ Check(r)
    /\ UNCHANGED <<sourceVars, stageVars>>

\* 202 with the numbers accepted and dropped, or 429.
RequestResponds(r) ==
    /\ Alive
    /\ request[r] = "active"
    /\ Free(r)
    /\ request' = [request EXCEPT ![r] = "done"]
    /\ UNCHANGED <<writerVars, hubVars, tailer, casting, stageVars>>

(* LogHarvester *)

TailerMoves(t, from, to) ==
    /\ Alive
    /\ tailer[t] = from
    /\ Free(t)
    /\ tailer' = [tailer EXCEPT ![t] = to]
    /\ UNCHANGED <<writerVars, hubVars, request, casting, stageVars>>

\* Start runs in a goroutine of its own, unordered with Shutdown.
TailerStarts(t) == TailerMoves(t, "none", "initial")

\* The last lines of the file, ingested without a look at stopChan.
TailerInitialLine(t) ==
    /\ Alive
    /\ tailer[t] = "initial"
    /\ Free(t)
    /\ Check(t)
    /\ UNCHANGED <<sourceVars, stageVars>>

TailerSeeks(t) == TailerMoves(t, "initial", "loop")

\* The loop finds stopChan open and reads a line ...
TailerReads(t) == ~tailStop /\ calls[t] < MaxCalls /\ TailerMoves(t, "loop", "line")

\* ... which it ingests.
TailerLine(t) ==
    /\ Alive
    /\ tailer[t] = "line"
    /\ Check(t)
    /\ tailer' = [tailer EXCEPT ![t] = "loop"]
    /\ UNCHANGED <<request, casting, stageVars>>

TailerEnds(t) == tailStop /\ TailerMoves(t, "loop", "ended")

TailerStep(t) ==
    TailerInitialLine(t) \/ TailerSeeks(t) \/ TailerReads(t) \/ TailerLine(t) \/ TailerEnds(t)

-----------------------------------------------------------------------------
(* main and Shutdown *)

Signal ==
    /\ stage = "serving"
    /\ stage' = "hubClose"
    /\ UNCHANGED <<writerVars, hubVars, sourceVars, ctxDone, drained, early, tailStop>>

HubClose ==
    /\ stage = "hubClose"
    /\ H!Close
    /\ stage' = "tailStop"
    /\ UNCHANGED <<writerVars, sourceVars, ctxDone, drained, early, tailStop>>

TailStop ==
    /\ stage = "tailStop"
    /\ tailStop' = TRUE
    /\ stage' = "tailWait"
    /\ UNCHANGED <<writerVars, hubVars, sourceVars, ctxDone, drained, early>>

\* wg.Wait() of the tailers started so far; the context plays no part.
TailWait ==
    /\ stage = "tailWait"
    /\ \A t \in Tailers : tailer[t] \in {"none", "ended"}
    /\ stage' = "http"
    /\ early' = Len(accepted)
    /\ UNCHANGED <<writerVars, hubVars, sourceVars, ctxDone, drained, tailStop>>

RequestsIdle == \A r \in Requests : request[r] # "active"

StreamsIdle == \A c \in Conns : stream[c] \in {"none", "ended"}

\* Variant of HttpDrained: the listener is closed, running handlers are not
\* waited for.
HttpListenerClosed ==
    /\ stage = "http"
    /\ drained' = TRUE
    /\ stage' = "writerClose"
    /\ UNCHANGED <<writerVars, hubVars, sourceVars, ctxDone, early, tailStop>>

\* http.Server.Shutdown: no connection is active any more.
HttpDrained ==
    /\ stage = "http"
    /\ RequestsIdle
    /\ StreamsIdle
    /\ drained' = TRUE
    /\ stage' = "writerClose"
    /\ UNCHANGED <<writerVars, hubVars, sourceVars, ctxDone, early, tailStop>>

\* Variant of HttpExpired: Shutdown waits without a deadline.
HttpNeverExpires ==
    /\ stage = "http"
    /\ ctxDone
    /\ RequestsIdle
    /\ StreamsIdle
    /\ stage' = "writerClose"
    /\ UNCHANGED <<writerVars, hubVars, sourceVars, ctxDone, drained, early, tailStop>>

\* http.Server.Shutdown gives up; the error is logged.
HttpExpired ==
    /\ stage = "http"
    /\ ctxDone
    /\ stage' = "writerClose"
    /\ UNCHANGED <<writerVars, hubVars, sourceVars, ctxDone, drained, early, tailStop>>

WriterClose ==
    /\ stage = "writerClose"
    /\ W!CloseMark
    /\ stage' = "writerWait"
    /\ UNCHANGED <<hubVars, sourceVars, ctxDone, drained, early, tailStop>>

WriterSignal ==
    /\ stage = "writerWait"
    /\ W!CloseSignal
    /\ UNCHANGED <<hubVars, sourceVars, stageVars>>

WriterWait ==
    /\ stage = "writerWait"
    /\ W!CloseJoined \/ (ctxDone /\ W!CloseExpired)
    /\ stage' = "sqliteClose"
    /\ UNCHANGED <<hubVars, sourceVars, ctxDone, drained, early, tailStop>>

SqliteClose ==
    /\ stage = "sqliteClose"
    /\ W!StorageClose
    /\ stage' = "returned"
    /\ UNCHANGED <<hubVars, sourceVars, ctxDone, drained, early, tailStop>>

Exit ==
    /\ stage = "returned"
    /\ stage' = "exited"
    /\ UNCHANGED <<writerVars, hubVars, sourceVars, ctxDone, drained, early, tailStop>>

\* All that http.Server.Shutdown still waits for is streams that cannot end.
\* Five seconds are many flush intervals: what was accepted before them is
\* written.
OnlyStuckStreams ==
    /\ stage = "http"
    /\ RequestsIdle
    /\ W!Settled >= early
    /\ hub = "returned"
    /\ ~StreamsIdle
    /\ \A c \in Conns : stream[c] \in {"none", "ended", "register", "unregister"}

CtxExpires ==
    /\ stage \notin {"serving", "returned", "exited"}
    /\ ~ctxDone
    /\ Impatient \/ OnlyStuckStreams
    /\ ctxDone' = TRUE
    /\ UNCHANGED <<writerVars, hubVars, sourceVars, stage, drained, early, tailStop>>

-----------------------------------------------------------------------------
Init ==
    /\ W!Init
    /\ H!Init
    /\ stage = "serving"
    /\ ctxDone = FALSE
    /\ drained = FALSE
    /\ early = 0
    /\ request = [r \in Requests |-> "none"]
    /\ tailer = [t \in Tailers |-> "none"]
    /\ tailStop = FALSE
    /\ casting = {}

ShutdownStep ==
    \/ HubClose \/ TailStop \/ TailWait \/ HttpDrained \/ HttpExpired
    \/ WriterClose \/ WriterSignal \/ WriterWait \/ SqliteClose \/ Exit

Next ==
    \/ WriterStep
    \/ HubStep
    \/ \E c \in Conns : StreamStep(c) \/ StreamOpens(c) \/ PeerLeaves(c)
    \/ \E c \in Callers : Send(c) \/ Cast(c)
    \/ \E r \in Requests : RequestArrives(r) \/ RequestEntry(r) \/ RequestResponds(r)
    \/ \E t \in Tailers : TailerStarts(t) \/ TailerStep(t)
    \/ Signal
    \/ ShutdownStep
    \/ CtxExpires

Spec == Init /\ [][Next]_vars

(* Goroutines run and time passes.  A request may keep its body coming for *)
(* as long as it likes, a peer may stay, and no signal need ever arrive.   *)
Fairness ==
    /\ WF_vars(WriterStep)
    /\ WF_vars(HubStep)
    /\ \A c \in Callers : WF_vars(Send(c)) /\ WF_vars(Cast(c))
    /\ \A t \in Tailers : WF_vars(TailerStep(t))
    /\ WF_vars(ShutdownStep)
    /\ WF_vars(CtxExpires)

FairSpec == Spec /\ Fairness

-----------------------------------------------------------------------------
(* Properties *)

\* Type invariant of the composition's own state; once the connections have
\* drained no handler runs again.
TypeOK ==
    /\ \E i \in 1..Len(Stages) : stage = Stages[i]
    /\ ctxDone \in BOOLEAN
    /\ drained \in BOOLEAN
    /\ early \in 0..Len(accepted)
    /\ request \in [Requests -> {"none", "active", "done"}]
    /\ tailer \in [Tailers -> {"none", "initial", "loop", "line", "ended"}]
    /\ tailStop \in BOOLEAN
    /\ casting \subseteq Callers
    /\ drained => RequestsIdle /\ StreamsIdle

FromRequest == {i \in 1..Len(accepted) : accepted[i].src \in Requests}

\* If the connections drained and the writer closed within the deadline, then
\* every log a client sent and was told is accepted is in the table when the
\* process ends: no request handler can slip an entry past the drain, because
\* the HTTP server is shut down before the writer (server.go:304-312).
AcknowledgedStored ==
    stage = "exited" /\ drained /\ closer = "nil" =>
        \A i \in FromRequest : accepted[i] \in W!Stored

\* Once the signal has come the process exits, whatever requests, streams and
\* peers do: every wait of Shutdown ends by itself or with the context.
ShutdownEnds == stage # "serving" ~> stage = "exited"

\* "Shutdown gracefully shuts down HTTP server, stops sampling, flushes logs,
\* and closes SQLite" (server.go:291): when the process ends with every
\* request answered, the logs accepted from them are in the table.
ShutdownFlushes ==
    stage = "exited" /\ (\A r \in Requests : request[r] # "active") =>
        \A i \in FromRequest : accepted[i] \in W!Stored
=============================================================================

---------------------------- MODULE ServerProofs ----------------------------
(***************************************************************************)
(* Proofs about Server, for any number of requests, tailed files and       *)
(* streams, any capacities and any moment at which the context expires.    *)
(*                                                                         *)
(* The composition is a behaviour of LogWriter without faults and restarts,*)
(* and one of SSEHub without snapshots and heartbeats (WriterHolds,        *)
(* HubHolds), so what is proved of them holds of their parts in the        *)
(* process.  AcknowledgedStored takes what belongs to the composition      *)
(* alone: the order of the stages of Shutdown (CloseOrder), that only a    *)
(* request that is served sends entries of a request (ServedOnly), and     *)
(* that none is served once the connections have drained (Drained).        *)
(***************************************************************************)
EXTENDS Server, FiniteSetTheorems, TLAPS

P == INSTANCE LogWriterProofs WITH
    Retention <- 1, Stamps <- {1}, MaxTime <- 1, MaxFaults <- 0, MaxRestarts <- 0,
    now <- 1, faults <- 0, restarts <- 0

Q == INSTANCE SSEHubProofs WITH
    MaxSnapshots <- 0, MaxLogs <- Cardinality(Callers) * MaxCalls, MaxBeats <- 0,
    pushed <- 0, sampler <- "tick", beats <- 0, overflow <- {},
    greeting <- [c \in Conns |-> 0], missed <- [c \in Conns |-> {}]

LEMMA WriterSizes ==
    P!BoundsAssumption /\ P!SizeAssumption /\ P!StampAssumption /\ P!CallersAssumption
<1>1. P!BoundsAssumption /\ P!SizeAssumption /\ P!StampAssumption
  BY SizesAssumption DEF P!BoundsAssumption, P!SizeAssumption, P!StampAssumption
<1>2. P!CallersAssumption
  BY SizesAssumption, Zenon DEF P!CallersAssumption, Callers, IsFiniteSet, P!IsFiniteSet
<1> QED
  BY <1>1, <1>2

LEMMA HubSizes == Q!HubAssumption
<1>1. Cardinality(Callers) \in Nat
  BY SizesAssumption, FS_CardinalityType DEF Callers
<1>2. Cardinality(Callers) * MaxCalls \in Nat
  BY <1>1, SizesAssumption
<1> QED
  BY <1>2, SizesAssumption DEF Q!HubAssumption

-----------------------------------------------------------------------------
(* The parts of the process *)

\* Server.tla names the actions of the writer and of the hub by instances of
\* the modules; here they are instances of the modules with the proofs.
LEMMA WriterActions ==
    /\ W!Init => P!Init
    /\ \A c \in Callers : (W!EnqueueCheck(c, 1) => P!EnqueueCheck(c, 1)) /\ (W!EnqueueSend(c) => P!EnqueueSend(c))
    /\ (W!Receive => P!Receive) /\ (W!FlushTick => P!FlushTick) /\ (W!TakeDone => P!TakeDone)
    /\ (W!DrainEmpty => P!DrainEmpty) /\ (W!WriteBatch => P!WriteBatch)
    /\ (W!WriteFails => P!WriteFails) /\ (W!PrunerExit => P!PrunerExit)
    /\ (W!CloseMark => P!CloseMark) /\ (W!CloseSignal => P!CloseSignal)
    /\ (W!CloseJoined => P!CloseJoined) /\ (W!CloseExpired => P!CloseExpired)
    /\ (W!StorageClose => P!StorageClose)
<1> USE DEF W!callerVars, W!workerVars, W!closeVars, W!tableVars, W!envVars, W!historyVars,
            P!callerVars, P!workerVars, P!closeVars, P!tableVars, P!envVars, P!historyVars,
            W!Nothing, P!Nothing
<1>1. W!Init => P!Init
  BY DEF W!Init, P!Init
<1>2. ASSUME NEW c \in Callers
      PROVE  (W!EnqueueCheck(c, 1) => P!EnqueueCheck(c, 1)) /\ (W!EnqueueSend(c) => P!EnqueueSend(c))
  BY Zenon DEF W!EnqueueCheck, P!EnqueueCheck, W!EnqueueSend, P!EnqueueSend
<1>3. (W!Receive => P!Receive) /\ (W!FlushTick => P!FlushTick) /\ (W!TakeDone => P!TakeDone)
  BY DEF W!Receive, P!Receive, W!FlushTick, P!FlushTick, W!TakeDone, P!TakeDone
<1>4. (W!DrainEmpty => P!DrainEmpty) /\ (W!PrunerExit => P!PrunerExit)
  BY DEF W!DrainEmpty, P!DrainEmpty, W!PrunerExit, P!PrunerExit
<1>5. (W!WriteBatch => P!WriteBatch) /\ (W!WriteFails => P!WriteFails)
  BY Zenon DEF W!WriteBatch, P!WriteBatch, W!WriteFails, P!WriteFails, W!Flushing, P!Flushing, W!RowFor,
            P!RowFor, W!AfterFlush, P!AfterFlush, W!ElementsOf, P!ElementsOf
<1>6. /\ (W!CloseMark => P!CloseMark) /\ (W!CloseSignal => P!CloseSignal)
      /\ (W!CloseJoined => P!CloseJoined) /\ (W!CloseExpired => P!CloseExpired)
      /\ (W!StorageClose => P!StorageClose)
  BY DEF W!CloseMark, P!CloseMark, W!CloseSignal, P!CloseSignal, W!CloseJoined, P!CloseJoined,
         W!CloseExpired, P!CloseExpired, W!StorageClose, P!StorageClose
<1> QED
  BY <1>1, <1>2, <1>3, <1>4, <1>5, <1>6

LEMMA HubActions ==
    /\ H!Init => Q!Init
    /\ (H!BroadcastLog => Q!BroadcastLog) /\ (H!FanOut => Q!FanOut)
    /\ (H!Close => Q!Close) /\ (H!Stop => Q!Stop)
    /\ \A c \in Conns :
          /\ (H!Register(c) => Q!Register(c)) /\ (H!Unregister(c) => Q!Unregister(c))
          /\ (H!Connect(c) => Q!Connect(c)) /\ (H!Disconnect(c) => Q!Disconnect(c))
          /\ (H!HandlerStep(c) => Q!HandlerStep(c))
<1> USE DEF H!feedVars, H!hubVars, H!streamVars, H!lossVars, Q!feedVars, Q!hubVars, Q!streamVars,
            Q!lossVars
<1>1. H!Init => Q!Init
  BY DEF H!Init, Q!Init
<1>2. (H!BroadcastLog => Q!BroadcastLog) /\ (H!Close => Q!Close) /\ (H!Stop => Q!Stop)
  BY DEF H!BroadcastLog, Q!BroadcastLog, H!Close, Q!Close, H!Stop, Q!Stop, H!Log, Q!Log
<1>3. H!FanOut => Q!FanOut
  BY Zenon DEF H!FanOut, Q!FanOut, H!Offer, Q!Offer, H!HasRoom, Q!HasRoom, H!SnapshotOf, Q!SnapshotOf
<1>4. ASSUME NEW c \in Conns
      PROVE  /\ (H!Register(c) => Q!Register(c)) /\ (H!Unregister(c) => Q!Unregister(c))
             /\ (H!Connect(c) => Q!Connect(c)) /\ (H!Disconnect(c) => Q!Disconnect(c))
  BY DEF H!Register, Q!Register, H!Unregister, Q!Unregister, H!Forget, Q!Forget, H!Connect,
         Q!Connect, H!Move, Q!Move, H!Disconnect, Q!Disconnect
<1>5. ASSUME NEW c \in Conns PROVE H!HandlerStep(c) => Q!HandlerStep(c)
  BY DEF H!HandlerStep, Q!HandlerStep, H!Greet, Q!Greet, H!Greets, Q!Greets, H!Metrics, Q!Metrics,
         H!Deliver, Q!Deliver, H!WriteError, Q!WriteError, H!ChannelClosed, Q!ChannelClosed,
         H!ContextDone, Q!ContextDone, H!Move, Q!Move
<1> QED
  BY <1>1, <1>2, <1>3, <1>4, <1>5

\* A step of the process is a step of the writer or leaves the writer alone.
LEMMA WriterNext == ASSUME [Next]_vars PROVE [P!Next]_(P!vars)
<1>1. ASSUME UNCHANGED writerVars PROVE [P!Next]_(P!vars)
  BY <1>1 DEF writerVars, P!vars, P!callerVars, P!workerVars, P!closeVars, P!tableVars, P!envVars,
              P!historyVars
<1>2. CASE WriterStep
  BY <1>2, WriterActions DEF WriterStep, P!Next
<1>3. ASSUME NEW c \in Callers, Check(c) PROVE [P!Next]_(P!vars)
  BY <1>3, WriterActions DEF Check, P!Next
<1>4. ASSUME NEW c \in Callers, Send(c) PROVE [P!Next]_(P!vars)
  BY <1>4, WriterActions DEF Send, P!Next
<1>5. CASE WriterClose \/ WriterSignal \/ WriterWait \/ SqliteClose
  BY <1>5, WriterActions DEF WriterClose, WriterSignal, WriterWait, SqliteClose, P!Next
<1>6. ASSUME NEW r \in Requests, RequestEntry(r) PROVE [P!Next]_(P!vars)
  BY <1>3, <1>6 DEF RequestEntry, Callers
<1>7. ASSUME NEW t \in Tailers, TailerInitialLine(t) \/ TailerLine(t) PROVE [P!Next]_(P!vars)
  BY <1>3, <1>7 DEF TailerInitialLine, TailerLine, Callers
<1> QED
  BY <1>1, <1>2, <1>4, <1>5, <1>6, <1>7
     DEF Next, HubStep, StreamStep, StreamOpens, PeerLeaves, Cast, RequestArrives, RequestResponds,
         TailerStarts, TailerStep, TailerMoves, TailerSeeks, TailerReads, TailerEnds, Signal,
         ShutdownStep, HubClose, TailStop, TailWait, HttpDrained, HttpExpired, Exit, CtxExpires, vars

LEMMA HubNext == ASSUME [Next]_vars PROVE [Q!Next]_(Q!vars)
<1>1. ASSUME UNCHANGED hubVars PROVE [Q!Next]_(Q!vars)
  BY <1>1 DEF hubVars, Q!vars, Q!feedVars, Q!hubVars, Q!streamVars, Q!lossVars
<1>2. CASE HubStep
  BY <1>2, HubActions DEF HubStep, Q!Next, Q!HubStep
<1>3. ASSUME NEW c \in Conns, StreamStep(c) \/ StreamOpens(c) \/ PeerLeaves(c)
      PROVE  [Q!Next]_(Q!vars)
  BY <1>3, HubActions DEF StreamStep, StreamOpens, PeerLeaves, Q!Next
<1>4. ASSUME NEW c \in Callers, Cast(c) PROVE [Q!Next]_(Q!vars)
  BY <1>4, HubActions DEF Cast, Q!Next
<1>5. CASE HubClose
  BY <1>5, HubActions DEF HubClose, Q!Next
<1> QED
  BY <1>1, <1>2, <1>3, <1>4, <1>5
     DEF Next, WriterStep, Send, Check, RequestArrives, RequestEntry, RequestResponds, TailerStarts,
         TailerStep, TailerMoves, TailerInitialLine, TailerSeeks, TailerReads, TailerLine, TailerEnds,
         Signal, ShutdownStep, TailStop, TailWait, HttpDrained, HttpExpired, WriterClose, WriterSignal,
         WriterWait, SqliteClose, Exit, CtxExpires, vars

LEMMA ImplementsWriter == Spec => P!Spec
<1>1. Init => P!Init
  BY WriterActions DEF Init
<1> QED
  BY <1>1, WriterNext, PTL DEF Spec, P!Spec

LEMMA ImplementsHub == Spec => Q!Spec
<1>1. Init => Q!Init
  BY HubActions DEF Init
<1> QED
  BY <1>1, HubNext, PTL DEF Spec, Q!Spec

\* In the process too, whatever the stages of Shutdown and their deadline do
\* (server.go:293-321): every entry is accepted, settled and stored as the
\* journal of LogJournal says, and has exactly one fate; once Close has returned
\* nil nothing is written, and while it waits every step of the worker, and of
\* the callers still in Enqueue, leaves less to wait for.
THEOREM WriterHolds ==
    Spec => /\ P!JournalSpec
            /\ [](P!FIFO /\ P!Fate /\ P!IdOrder /\ P!CloseDrains)
            /\ P!NoWriteAfterClose
            /\ P!ClosingShrinks
<1>1. P!Spec => P!JournalSpec
  BY WriterSizes, P!ImplementsJournal
<1>2. P!Spec => [](P!FIFO /\ P!Fate /\ P!IdOrder)
  BY WriterSizes, P!FIFOHolds, P!FateHolds, P!IdOrderHolds, PTL
<1>3. P!Spec => []P!CloseDrains
  BY WriterSizes, P!CloseDrainsHolds
<1>4. P!Spec => P!NoWriteAfterClose
  BY WriterSizes, P!NoWriteAfterCloseHolds
<1>5. P!Spec => P!ClosingShrinks
  BY WriterSizes, P!ClosingShrinksHolds
<1> QED
  BY <1>1, <1>2, <1>3, <1>4, <1>5, ImplementsWriter, PTL

\* The hub of the process, which Shutdown closes first and which goes on to be
\* sent the logs that are accepted while the rest shuts down: its map stays
\* exact, so that nothing is sent on a closed channel, its channels stay
\* within their capacities, and logs arrive in order.
THEOREM HubHolds == Spec => [](Q!TypeOK /\ Q!RegistryExact /\ Q!InOrder)
<1>1. Q!Spec => []Q!TypeOK
  BY HubSizes, Q!TypeCorrect
<1>2. Q!Spec => []Q!RegistryExact
  BY HubSizes, Q!RegistryExactHolds
<1>3. Q!Spec => []Q!InOrder
  BY HubSizes, Q!InOrderHolds
<1> QED
  BY <1>1, <1>2, <1>3, ImplementsHub, PTL

\* What the proofs below take from the parts.
Parts == P!EntryInv /\ P!Lifecycle /\ P!CloseDrains /\ Q!TypeOK

LEMMA PartsHold == Spec => []Parts
<1>1. P!Spec => []P!EntryInv
  BY WriterSizes, P!EntriesInductive
<1>2. P!Spec => [](P!TypeInv /\ P!Lifecycle /\ P!Drained)
  BY WriterSizes, P!ShutdownInductive
<1>3. P!Spec => []P!CloseDrains
  BY WriterSizes, P!CloseDrainsHolds
<1>4. Q!Spec => []Q!TypeOK
  BY HubSizes, Q!TypeCorrect
<1> QED
  BY <1>1, <1>2, <1>3, <1>4, ImplementsWriter, ImplementsHub, PTL DEF Parts

-----------------------------------------------------------------------------
(* The state of the composition *)

StageNames == {Stages[i] : i \in 1..Len(Stages)}

BeforeClose == {"serving", "hubClose", "tailStop", "tailWait", "http", "writerClose"}

\* The types of the composition's own variables.
Shape ==
    /\ stage \in StageNames
    /\ ctxDone \in BOOLEAN /\ drained \in BOOLEAN /\ tailStop \in BOOLEAN
    /\ early \in 0..Len(accepted)
    /\ request \in [Requests -> {"none", "active", "done"}]
    /\ tailer \in [Tailers -> {"none", "initial", "loop", "line", "ended"}]
    /\ casting \subseteq Callers

\* Shutdown takes its stages one by one: the writer is closed when its stage
\* has come, and the database after the writer.
CloseOrder ==
    /\ stage \in BeforeClose => closer = "idle"
    /\ stage = "writerWait" => closer \in {"signal", "wait"}
    /\ stage \in {"sqliteClose", "returned", "exited"} => closer \in {"nil", "ctxErr"}
    /\ stage \notin {"returned", "exited"} => dbOpen

\* A request has an entry on its way only while it is served.
ServedOnly ==
    \A r \in Requests : P!Nothing # pending[r] \/ r \in casting => request[r] = "active"

\* Once the connections have drained the listener is closed and no handler
\* runs.
Drained ==
    drained => stage \notin {"serving", "hubClose", "tailStop", "tailWait", "http"}
               /\ RequestsIdle /\ StreamsIdle

\* The writer promises what the requests sent when Close takes the flag after
\* the connections have drained.
PromisedCovers == drained /\ closer # "idle" => \A i \in FromRequest : i <= promised

\* Nothing is lost while the database is open, nor when Close returned nil.
NothingLost == pruned = {} /\ (dbOpen \/ closer = "nil" => lost = {})

ServerInv == Shape /\ CloseOrder /\ ServedOnly /\ Drained /\ PromisedCovers /\ NothingLost

LEMMA StagesListed ==
    /\ StageNames = {"serving", "hubClose", "tailStop", "tailWait", "http", "writerClose",
                     "writerWait", "sqliteClose", "returned", "exited"}
    /\ \A s : (\E i \in 1..Len(Stages) : s = Stages[i]) <=> s \in StageNames
<1>1. Len(Stages) = 10 /\ 1..10 = {1, 2, 3, 4, 5, 6, 7, 8, 9, 10}
  BY DEF Stages
<1>2. /\ Stages[1] = "serving" /\ Stages[2] = "hubClose" /\ Stages[3] = "tailStop"
      /\ Stages[4] = "tailWait" /\ Stages[5] = "http" /\ Stages[6] = "writerClose"
      /\ Stages[7] = "writerWait" /\ Stages[8] = "sqliteClose" /\ Stages[9] = "returned"
      /\ Stages[10] = "exited"
  BY DEF Stages
<1> QED
  BY <1>1, <1>2 DEF StageNames

\* The writer's list of accepted entries only grows, by entries of the caller
\* that sends.
LEMMA AcceptedGrows ==
    ASSUME Parts, [Next]_vars
    PROVE  /\ Len(accepted) \in Nat /\ Len(accepted') \in Nat /\ Len(accepted) <= Len(accepted')
           /\ \/ accepted' = accepted
              \/ \E c \in Callers :
                    /\ Send(c) /\ pending[c] # P!Nothing
                    /\ Len(accepted') = Len(accepted) + 1
                    /\ \A i \in 1..Len(accepted) : accepted'[i] = accepted[i]
                    /\ accepted'[Len(accepted')].src = c
<1>0. accepted \in Seq(P!Entry) /\ Len(accepted) \in Nat /\ P!TypeOK /\ P!Numbered
  BY DEF Parts, P!EntryInv, P!TypeInv, P!TypeOK
<1>1. ASSUME NEW c \in Callers, Send(c), accepted' # accepted
      PROVE  /\ pending[c] # P!Nothing /\ Len(accepted') = Len(accepted) + 1
             /\ \A i \in 1..Len(accepted) : accepted'[i] = accepted[i]
             /\ accepted'[Len(accepted')].src = c
  <2>1. P!EnqueueSend(c)
    BY <1>1, WriterActions DEF Send
  <2>2. pending[c] # P!Nothing /\ accepted' = Append(accepted, pending[c])
    BY <1>1, <2>1 DEF P!EnqueueSend
  <2>3. pending[c] \in P!Entry /\ pending[c].src = c
    BY <1>0, <2>2 DEF P!TypeOK, P!Numbered
  <2>4. /\ Len(accepted') = Len(accepted) + 1
        /\ \A i \in 1..Len(accepted) : accepted'[i] = accepted[i]
        /\ accepted'[Len(accepted) + 1] = pending[c]
    BY <1>0, <2>2, <2>3
  <2> QED
    BY <2>2, <2>3, <2>4
<1>2. accepted' = accepted \/ \E c \in Callers : Send(c)
  BY DEF Next, WriterStep, W!Receive, W!FlushTick, W!TakeDone, W!DrainEmpty, W!WriteBatch,
         W!WriteFails, W!PrunerExit, W!historyVars, HubStep, StreamStep, StreamOpens, PeerLeaves, Cast,
         RequestArrives, RequestEntry, RequestResponds, Check, W!EnqueueCheck, TailerStarts, TailerStep,
         TailerMoves, TailerInitialLine, TailerSeeks, TailerReads, TailerLine, TailerEnds, Signal,
         ShutdownStep, HubClose, TailStop, TailWait, HttpDrained, HttpExpired, WriterClose,
         WriterSignal, WriterWait, SqliteClose, Exit, CtxExpires, W!CloseMark, W!CloseSignal,
         W!CloseJoined, W!CloseExpired, W!StorageClose, writerVars, vars
<1> QED
  BY <1>0, <1>1, <1>2

LEMMA ShapeStep == ASSUME Shape, Parts, [Next]_vars PROVE Shape'
<1> USE DEF Shape, sourceVars, stageVars
<1>0. early \in Nat /\ early \in 0..Len(accepted') /\ Len(accepted) \in 0..Len(accepted')
  BY AcceptedGrows
<1>1. CASE WriterStep \/ HubStep \/ \E c \in Conns : StreamStep(c) \/ StreamOpens(c) \/ PeerLeaves(c)
  BY <1>0, <1>1 DEF WriterStep, HubStep, StreamStep, StreamOpens, PeerLeaves
<1>2. ASSUME NEW c \in Callers, Send(c) \/ Cast(c) PROVE Shape'
  BY <1>0, <1>2 DEF Send, Cast
<1>3. ASSUME NEW r \in Requests, RequestArrives(r) \/ RequestEntry(r) \/ RequestResponds(r) PROVE Shape'
  BY <1>0, <1>3 DEF RequestArrives, RequestEntry, RequestResponds
<1>4. ASSUME NEW t \in Tailers, TailerStarts(t) \/ TailerStep(t) PROVE Shape'
  BY <1>0, <1>4 DEF TailerStarts, TailerStep, TailerMoves, TailerInitialLine, TailerSeeks, TailerReads,
                    TailerLine, TailerEnds
<1>5. CASE Signal \/ ShutdownStep \/ CtxExpires
  BY <1>0, <1>5, StagesListed
     DEF Signal, ShutdownStep, HubClose, TailStop, TailWait, HttpDrained, HttpExpired, WriterClose,
         WriterSignal, WriterWait, SqliteClose, Exit, CtxExpires
<1>6. CASE UNCHANGED vars
  BY <1>0, <1>6 DEF vars
<1> QED
  BY <1>1, <1>2, <1>3, <1>4, <1>5, <1>6 DEF Next

LEMMA CloseOrderStep == ASSUME Shape, CloseOrder, [Next]_vars PROVE CloseOrder'
<1> USE StagesListed DEF CloseOrder, BeforeClose, Shape
<1>1. CASE UNCHANGED <<stage, closer, dbOpen>>
  BY <1>1
<1>2. CASE WriterClose \/ WriterSignal \/ WriterWait \/ SqliteClose
  BY <1>2 DEF WriterClose, WriterSignal, WriterWait, SqliteClose, W!CloseMark, W!CloseSignal,
              W!CloseJoined, W!CloseExpired, W!StorageClose, W!tableVars, W!closeVars, stageVars
<1>3. CASE Signal \/ HubClose \/ TailStop \/ TailWait \/ HttpDrained \/ HttpExpired \/ Exit
  BY <1>3 DEF Signal, HubClose, TailStop, TailWait, HttpDrained, HttpExpired, Exit, writerVars
<1> QED
  BY <1>1, <1>2, <1>3
     DEF Next, WriterStep, W!Receive, W!FlushTick, W!TakeDone, W!DrainEmpty, W!WriteBatch,
         W!WriteFails, W!PrunerExit, W!closeVars, W!tableVars, HubStep, StreamStep, StreamOpens,
         PeerLeaves, Send, W!EnqueueSend, Cast, RequestArrives, RequestEntry, RequestResponds, Check,
         W!EnqueueCheck, TailerStarts, TailerStep, TailerMoves, TailerInitialLine, TailerSeeks,
         TailerReads, TailerLine, TailerEnds, ShutdownStep, CtxExpires, writerVars, sourceVars,
         stageVars, vars

\* An entry is checked, sent and broadcast by the goroutine that serves the
\* request, one after the other.
LEMMA ServedOnlyStep == ASSUME Parts, Shape, ServedOnly, [Next]_vars PROVE ServedOnly'
<1> USE DEF ServedOnly
<1>0. /\ DOMAIN pending = Callers /\ Requests \subseteq Callers /\ W!Nothing = P!Nothing
      /\ pending \in [Callers -> P!Entry \cup {P!Nothing}]
      /\ \A t \in Tailers : t \notin Requests
  BY SizesAssumption DEF Parts, P!EntryInv, P!TypeInv, P!TypeOK, Callers, W!Nothing, P!Nothing
<1>1. CASE UNCHANGED <<pending, casting, request>>
  BY <1>1
<1>2. ASSUME NEW c \in Callers, Send(c) PROVE ServedOnly'
  <2>1. /\ pending[c] # P!Nothing /\ pending' = [pending EXCEPT ![c] = P!Nothing]
        /\ request' = request /\ casting' \subseteq casting \cup {c}
    BY <1>0, <1>2 DEF Send, W!EnqueueSend
  <2> QED
    BY <1>0, <2>1
<1>3. ASSUME NEW c \in Callers, Cast(c) PROVE ServedOnly'
  BY <1>3 DEF Cast, writerVars
<1>4. ASSUME NEW r \in Requests, RequestArrives(r) PROVE ServedOnly'
  BY <1>4 DEF RequestArrives, writerVars, Shape
<1>5. ASSUME NEW c \in Callers, Check(c), UNCHANGED <<request, casting>>,
             c \in Requests => request[c] = "active"
      PROVE  ServedOnly'
  <2>1. \A d \in Callers : d # c => pending'[d] = pending[d]
    BY <1>0, <1>5 DEF Check, W!EnqueueCheck
  <2> QED
    BY <1>0, <1>5, <2>1
<1>6. ASSUME NEW r \in Requests, RequestEntry(r) PROVE ServedOnly'
  BY <1>0, <1>5, <1>6 DEF RequestEntry, sourceVars
<1>7. ASSUME NEW t \in Tailers, TailerInitialLine(t) \/ TailerLine(t) PROVE ServedOnly'
  BY <1>0, <1>5, <1>7 DEF TailerInitialLine, TailerLine, sourceVars, Callers
<1>8. ASSUME NEW r \in Requests, RequestResponds(r) PROVE ServedOnly'
  BY <1>0, <1>8 DEF RequestResponds, Free, writerVars, Shape
<1> QED
  BY <1>1, <1>2, <1>3, <1>4, <1>6, <1>7, <1>8
     DEF Next, WriterStep, W!Receive, W!FlushTick, W!TakeDone, W!DrainEmpty, W!WriteBatch,
         W!WriteFails, W!PrunerExit, W!callerVars, HubStep, StreamStep, StreamOpens, PeerLeaves,
         TailerStarts, TailerStep, TailerMoves, TailerSeeks, TailerReads, TailerEnds, Signal,
         ShutdownStep, HubClose, TailStop, TailWait, HttpDrained, HttpExpired, WriterClose,
         WriterSignal, WriterWait, SqliteClose, Exit, CtxExpires, W!CloseMark, W!CloseSignal,
         W!CloseJoined, W!CloseExpired, W!StorageClose, writerVars, sourceVars, vars

\* Neither a request nor a stream begins after the listener was closed.
LEMMA DrainedStep == ASSUME Parts, Shape, Drained, [Next]_vars PROVE Drained'
<1> USE DEF Drained, RequestsIdle, StreamsIdle
<1>0. /\ DOMAIN request = Requests /\ DOMAIN stream = Conns
      /\ drained => stage # "http" /\ ~Listening
  BY DEF Parts, Q!TypeOK, Shape, Listening
<1>1. CASE UNCHANGED <<drained, stage, request, stream>>
  BY <1>1
<1>2. CASE HubStep
  <2>1. drained => stream' = stream
    BY <1>0, <1>2 DEF HubStep, H!FanOut, H!Stop, H!Register, H!Unregister, H!streamVars
  <2> QED
    BY <1>2, <2>1 DEF HubStep, sourceVars, stageVars
<1>3. ASSUME NEW c \in Conns, StreamStep(c) \/ StreamOpens(c) \/ PeerLeaves(c) PROVE Drained'
  <2>1. drained => stream' = stream
    BY <1>0, <1>3 DEF StreamStep, StreamOpens, PeerLeaves, H!HandlerStep, H!Greet, H!Deliver,
                      H!WriteError, H!ChannelClosed, H!ContextDone, H!Disconnect
  <2> QED
    BY <1>3, <2>1 DEF StreamStep, StreamOpens, PeerLeaves, sourceVars, stageVars
<1>4. ASSUME NEW r \in Requests, RequestArrives(r) \/ RequestResponds(r) PROVE Drained'
  BY <1>0, <1>4 DEF RequestArrives, RequestResponds, hubVars, stageVars
<1>5. CASE HttpDrained
  BY <1>5 DEF HttpDrained, hubVars, sourceVars
<1>6. CASE Signal \/ HubClose \/ TailStop \/ TailWait \/ HttpExpired \/ WriterClose \/ WriterWait
           \/ SqliteClose \/ Exit
  BY <1>6 DEF Signal, HubClose, TailStop, TailWait, HttpExpired, WriterClose, WriterWait, SqliteClose,
              Exit, H!Close, H!streamVars, hubVars, sourceVars
<1> QED
  BY <1>1, <1>2, <1>3, <1>4, <1>5, <1>6
     DEF Next, WriterStep, Send, Cast, H!BroadcastLog, H!streamVars, RequestEntry, Check, TailerStarts,
         TailerStep, TailerMoves, TailerInitialLine, TailerSeeks, TailerReads, TailerLine, TailerEnds,
         ShutdownStep, WriterSignal, CtxExpires, hubVars, sourceVars, stageVars, vars

\* Close takes the flag after the last entry of a request was accepted.
LEMMA PromisedCoversStep ==
    ASSUME Parts, Shape, CloseOrder, ServedOnly, Drained, PromisedCovers, [Next]_vars
    PROVE  PromisedCovers'
<1>0. Len(accepted) \in Nat /\ Len(accepted') \in Nat
  BY AcceptedGrows
<1>1. CASE WriterClose
  <2>1. promised' = Len(accepted) /\ accepted' = accepted
    BY <1>1 DEF WriterClose, W!CloseMark, W!historyVars
  <2> QED
    BY <1>0, <2>1 DEF PromisedCovers, FromRequest
<1>2. CASE HttpDrained
  BY <1>2 DEF HttpDrained, CloseOrder, BeforeClose, PromisedCovers, writerVars
<1>3. ASSUME UNCHANGED <<drained, promised>>, closer = "idle" => closer' = "idle" PROVE PromisedCovers'
  <2> SUFFICES ASSUME drained, closer # "idle", NEW i \in 1..Len(accepted'), accepted'[i].src \in Requests
               PROVE  i <= promised
    BY <1>3 DEF PromisedCovers, FromRequest
  <2>1. accepted' # accepted => ~(i = Len(accepted')) /\ i \in 1..Len(accepted) /\ accepted'[i] = accepted[i]
    <3> SUFFICES ASSUME accepted' # accepted
                 PROVE  ~(i = Len(accepted')) /\ i \in 1..Len(accepted) /\ accepted'[i] = accepted[i]
      OBVIOUS
    <3>1. PICK c \in Callers : /\ pending[c] # P!Nothing /\ Len(accepted') = Len(accepted) + 1
                               /\ \A k \in 1..Len(accepted) : accepted'[k] = accepted[k]
                               /\ accepted'[Len(accepted')].src = c
      BY AcceptedGrows
    <3>2. c \notin Requests
      BY <3>1 DEF ServedOnly, Drained, RequestsIdle
    <3>3. i # Len(accepted')
      BY <3>1, <3>2
    <3> QED
      BY <1>0, <3>1, <3>3
  <2>2. i \in FromRequest
    BY <2>1 DEF FromRequest
  <2> QED
    BY <2>2 DEF PromisedCovers
<1> QED
  BY <1>1, <1>2, <1>3
     DEF Next, WriterStep, W!Receive, W!FlushTick, W!TakeDone, W!DrainEmpty, W!WriteBatch,
         W!WriteFails, W!PrunerExit, W!closeVars, HubStep, StreamStep, StreamOpens, PeerLeaves, Send,
         W!EnqueueSend, Cast, RequestArrives, RequestEntry, RequestResponds, Check, W!EnqueueCheck,
         TailerStarts, TailerStep, TailerMoves, TailerInitialLine, TailerSeeks, TailerReads, TailerLine,
         TailerEnds, Signal, ShutdownStep, HubClose, TailStop, TailWait, HttpExpired, WriterSignal,
         WriterWait, SqliteClose, Exit, CtxExpires, W!CloseSignal, W!CloseJoined, W!CloseExpired,
         W!StorageClose, writerVars, stageVars, vars

\* A write fails only on a database that Shutdown has closed, which it does
\* after Close; and when Close returned nil no write is left.
LEMMA NothingLostStep ==
    ASSUME Parts, Shape, CloseOrder, NothingLost, [Next]_vars
    PROVE  NothingLost'
<1> USE DEF NothingLost
<1>1. CASE UNCHANGED <<pruned, lost, dbOpen, closer>>
  BY <1>1
<1>2. CASE WriterStep /\ W!WriteFails
  <2>1. ~dbOpen /\ W!Flushing /\ UNCHANGED <<pruned, dbOpen, closer>>
    BY <1>2 DEF W!WriteFails, W!tableVars, W!closeVars
  <2>2. closer # "nil"
    BY <2>1 DEF W!Flushing, Parts, P!Lifecycle
  <2> QED
    BY <2>1, <2>2
<1>3. CASE WriterClose \/ WriterSignal \/ WriterWait \/ SqliteClose
  BY <1>3 DEF WriterClose, WriterSignal, WriterWait, SqliteClose, W!CloseMark, W!CloseSignal,
              W!CloseJoined, W!CloseExpired, W!StorageClose, W!tableVars, W!historyVars, W!closeVars,
              CloseOrder
<1> QED
  BY <1>1, <1>2, <1>3
     DEF Next, WriterStep, W!Receive, W!FlushTick, W!TakeDone, W!DrainEmpty, W!WriteBatch,
         W!PrunerExit, W!closeVars, W!tableVars, W!historyVars, HubStep, StreamStep, StreamOpens,
         PeerLeaves, Send, W!EnqueueSend, Cast, RequestArrives, RequestEntry, RequestResponds, Check,
         W!EnqueueCheck, TailerStarts, TailerStep, TailerMoves, TailerInitialLine, TailerSeeks,
         TailerReads, TailerLine, TailerEnds, Signal, ShutdownStep, HubClose, TailStop, TailWait,
         HttpDrained, HttpExpired, Exit, CtxExpires, writerVars, vars

LEMMA ServerInit == ASSUME Init PROVE ServerInv
<1>1. /\ accepted = <<>> /\ Len(accepted) = 0 /\ pruned = {} /\ lost = {} /\ dbOpen
      /\ closer = "idle" /\ pending = [c \in Callers |-> P!Nothing]
  BY WriterActions DEF Init, W!Init, P!Nothing, W!Nothing
<1>2. stage = "serving" /\ ~drained
  BY DEF Init
<1>3. Shape
  <2>1. stage \in StageNames
    BY <1>2, StagesListed
  <2>2. early \in 0..Len(accepted)
    BY <1>1 DEF Init
  <2> QED
    BY <2>1, <2>2 DEF Init, Shape
<1>4. CloseOrder /\ Drained /\ PromisedCovers /\ NothingLost
  BY <1>1, <1>2, StagesListed DEF CloseOrder, BeforeClose, Drained, PromisedCovers, NothingLost
<1>5. ServedOnly
  BY <1>1 DEF Init, ServedOnly, Callers
<1> QED
  BY <1>3, <1>4, <1>5 DEF ServerInv

\* The inductive invariant of the composition, with what the parts keep.
THEOREM ServerHolds == Spec => [](Parts /\ ServerInv)
<1>1. Init => ServerInv
  BY ServerInit
<1>2. Parts /\ ServerInv /\ [Next]_vars => ServerInv'
  BY ShapeStep, CloseOrderStep, ServedOnlyStep, DrainedStep, PromisedCoversStep, NothingLostStep
     DEF ServerInv
<1> QED
  BY <1>1, <1>2, PartsHold, PTL DEF Spec

\* Every variable of the composition keeps its type, and once the connections
\* have drained no handler runs again (server.go:304).
THEOREM TypeCorrect == Spec => []TypeOK
<1>1. ServerInv => TypeOK
  BY StagesListed DEF ServerInv, Shape, Drained, TypeOK
<1> QED
  BY <1>1, ServerHolds, PTL

\* A log that a client sent and was told is accepted is in the table when the
\* process ends, if the connections drained and the writer closed in time:
\* the stages of Shutdown leave no request that could slip an entry past the
\* drain (server.go:304-312).
THEOREM AcknowledgedStoredHolds == Spec => []AcknowledgedStored
<1>1. Parts /\ ServerInv => AcknowledgedStored
  <2> SUFFICES ASSUME Parts, ServerInv, drained, closer = "nil", NEW i \in FromRequest
               PROVE  accepted[i] \in W!Stored
    BY DEF AcknowledgedStored
  <2>1. worker = "exited" /\ P!Settled >= promised
    BY DEF Parts, P!Lifecycle, P!CloseDrains
  <2>2. i <= promised
    BY DEF ServerInv, PromisedCovers
  <2>3. P!Settled \in Int /\ promised \in Nat /\ i \in Nat /\ i >= 1
    BY DEF Parts, P!EntryInv, P!TypeInv, P!TypeOK, P!Settled, FromRequest
  <2>4. i \in 1..P!Settled
    BY <2>1, <2>2, <2>3
  <2>5. accepted[i] \in P!Stored \cup P!Pruned \cup lost
    BY <2>4 DEF Parts, P!EntryInv, P!Fate
  <2>6. P!Pruned = {} /\ lost = {} /\ W!Stored = P!Stored
    BY DEF ServerInv, NothingLost, P!Pruned, W!Stored, P!Stored
  <2> QED
    BY <2>5, <2>6
<1> QED
  BY <1>1, ServerHolds, PTL
=============================================================================

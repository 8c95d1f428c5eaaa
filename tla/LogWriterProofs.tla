-------------------------- MODULE LogWriterProofs --------------------------
(***************************************************************************)
(* Proofs about LogWriter, for all values of its constants.                *)
(*                                                                         *)
(* TypeOK is not inductive: that a batch never outgrows BatchSize depends  *)
(* on the worker flushing as soon as the batch is full, which is BatchRoom.*)
(* Lifecycle relates the three goroutines to the steps of Close; with it   *)
(* the drain argument of Drained goes through.                             *)
(*                                                                         *)
(* Fate and IdOrder are inductive together with FIFO, which says that a    *)
(* flush settles the oldest unsettled entries; with Numbered, which says   *)
(* that no two accepted entries are equal, so that a flush stores nothing  *)
(* that was stored before; and with OneRowEach.  The refinement of         *)
(* LogJournal follows from them.                                           *)
(***************************************************************************)
EXTENDS LogWriter, SequenceTheorems, FiniteSetTheorems, TLAPS

Constants == BoundsAssumption /\ SizeAssumption /\ StampAssumption

\* In both selects the batch has room for what is received next.
BatchRoom == worker \in {"select", "drain"} => Len(batch) < BatchSize

TypeInv == TypeOK /\ BatchRoom

-----------------------------------------------------------------------------
\* The channel element taken and the elements left behind (log_writer.go:115).
LEMMA TakeFirst ==
    ASSUME NEW S, NEW s \in Seq(S), s # <<>>
    PROVE  /\ Head(s) \in S
           /\ Head(s) = s[1]
           /\ Tail(s) \in Seq(S)
           /\ Len(s) \in Nat \ {0}
           /\ Len(Tail(s)) = Len(s) - 1
           /\ \A i \in 1..Len(Tail(s)) : Tail(s)[i] = s[i + 1]
BY HeadTailProperties, EmptySeq, LenProperties

\* A send to the channel or an append to the batch (log_writer.go:86, 121).
LEMMA AddLast ==
    ASSUME NEW S, NEW s \in Seq(S), NEW e \in S
    PROVE  /\ Append(s, e) \in Seq(S)
           /\ Len(s) \in Nat
           /\ Len(Append(s, e)) = Len(s) + 1
           /\ \A i \in 1..Len(s) : Append(s, e)[i] = s[i]
           /\ Append(s, e)[Len(s) + 1] = e
BY AppendProperties, LenProperties

\* A caller waiting to send holds an entry.
LEMMA PendingIsEntry ==
    ASSUME TypeOK, NEW c \in Callers, pending[c] # Nothing
    PROVE  pending[c] \in Entry
BY DEF TypeOK

\* flush() leads back to where it was called from.
LEMMA AfterFlushType ==
    ASSUME Flushing
    PROVE  /\ AfterFlush(worker) \in WorkerStates
           /\ AfterFlush(worker) = "select" <=> worker = "flush"
           /\ AfterFlush(worker) = "drain" <=> worker = "drainFlush"
           /\ AfterFlush(worker) = "exited" <=> worker = "lastFlush"
BY DEF Flushing, AfterFlush, WorkerStates

\* What WriteBatch inserts are rows.
LEMMA RowForType ==
    ASSUME Constants, TypeOK, NEW i \in 1..Len(batch)
    PROVE  RowFor(i) \in Row
<1>1. batch[i] \in Entry
  BY DEF TypeOK
<1>2. batch[i].ts \in Nat
  <2>1. batch[i].ts \in Stamps
    BY <1>1 DEF Entry
  <2> QED
    BY <2>1 DEF Constants, StampAssumption
<1>3. now \in Nat
  BY DEF TypeOK, Constants, BoundsAssumption
<1>4. nextId + i - 1 \in Nat \ {0}
  BY DEF TypeOK
<1> QED
  BY <1>1, <1>2, <1>3, <1>4 DEF RowFor, Row

-----------------------------------------------------------------------------
\* The inductive form of type correctness: every action of the callers, the
\* two goroutines, Close and the environment keeps the types, the two
\* capacities, and the room a select needs in the batch.
THEOREM TypeInductive == Spec => []TypeInv
<1> USE BoundsAssumption, SizeAssumption, StampAssumption
<1>1. Init => TypeInv
  <2> SUFFICES ASSUME Init PROVE TypeInv
    OBVIOUS
  <2>1. calls \in [Callers -> 0..MaxCalls] /\ pending \in [Callers -> Entry \cup {Nothing}]
    BY DEF Init, BoundsAssumption
  <2>2. /\ ch \in Seq(Entry) /\ batch \in Seq(Entry) /\ accepted \in Seq(Entry)
        /\ Len(ch) = 0 /\ Len(batch) = 0
    BY DEF Init
  <2>3. Len(ch) <= BufferSize /\ Len(batch) < BatchSize /\ Len(batch) <= BatchSize
    BY <2>2 DEF SizeAssumption
  <2>4. /\ nextId \in Nat \ {0} /\ now \in 1..MaxTime /\ promised \in Nat
        /\ faults \in 0..MaxFaults /\ restarts \in 0..MaxRestarts
    BY DEF Init, BoundsAssumption
  <2>5. closed \in BOOLEAN /\ done \in BOOLEAN /\ dbOpen \in BOOLEAN
    BY DEF Init
  <2>6. /\ worker \in WorkerStates
        /\ pruner \in {"select", "exited"}
        /\ closer \in {"idle", "signal", "wait", "nil", "ctxErr"}
    BY DEF Init, WorkerStates
  <2>7. rows \subseteq Row /\ pruned \subseteq Row /\ lost \subseteq Entry
    BY DEF Init
  <2> QED
    BY <2>1, <2>2, <2>3, <2>4, <2>5, <2>6, <2>7 DEF TypeInv, TypeOK, BatchRoom
<1>2. TypeInv /\ [Next]_vars => TypeInv'
  <2> SUFFICES ASSUME TypeInv, [Next]_vars PROVE TypeInv'
    OBVIOUS
  <2> USE DEF TypeInv, BatchRoom, WorkerStates
  <2>1. ASSUME NEW c \in Callers, NEW t \in Stamps, EnqueueCheck(c, t) PROVE TypeInv'
    <3>1. [src |-> c, seq |-> calls[c] + 1, ts |-> t] \in Entry
      BY <2>1 DEF EnqueueCheck, TypeOK, Entry, BoundsAssumption
    <3>2. calls' \in [Callers -> 0..MaxCalls]
      BY <2>1 DEF EnqueueCheck, TypeOK, BoundsAssumption
    <3>3. pending' \in [Callers -> Entry \cup {Nothing}]
      BY <2>1, <3>1 DEF EnqueueCheck, TypeOK
    <3> QED
      BY <2>1, <3>2, <3>3 DEF EnqueueCheck, TypeOK, workerVars, closeVars, tableVars, envVars, historyVars
  <2>2. ASSUME NEW c \in Callers, EnqueueSend(c) PROVE TypeInv'
    <3>1. pending[c] \in Entry
      BY <2>2, PendingIsEntry DEF EnqueueSend
    <3>2. accepted \in Seq(Entry) /\ ch \in Seq(Entry) /\ Len(ch) <= BufferSize
      BY DEF TypeOK
    <3>4. /\ Append(accepted, pending[c]) \in Seq(Entry)
          /\ Append(ch, pending[c]) \in Seq(Entry)
          /\ Len(Append(ch, pending[c])) = Len(ch) + 1
      BY <3>1, <3>2, AddLast
    <3>5. ch' \in Seq(Entry) /\ accepted' \in Seq(Entry) /\ Len(ch') <= BufferSize
      <4>1. CASE /\ Len(ch) < BufferSize
                 /\ ch' = Append(ch, pending[c])
                 /\ accepted' = Append(accepted, pending[c])
        <5>1. Len(ch) \in Nat
          BY <3>2, LenProperties
        <5> QED
          BY <3>4, <4>1, <5>1 DEF SizeAssumption
      <4>2. CASE UNCHANGED <<ch, accepted>>
        BY <3>2, <4>2
      <4> QED
        BY <2>2, <4>1, <4>2 DEF EnqueueSend
    <3>3. pending' \in [Callers -> Entry \cup {Nothing}]
      BY <2>2 DEF EnqueueSend, TypeOK
    <3> QED
      BY <2>2, <3>3, <3>5 DEF EnqueueSend, TypeOK, closeVars, tableVars, envVars
  <2>3. CASE Receive
    <3>1. ch' \in Seq(Entry) /\ Len(ch') <= BufferSize
      BY <2>3, TakeFirst DEF Receive, TypeOK, SizeAssumption
    <3>2. batch' \in Seq(Entry) /\ Len(batch') = Len(batch) + 1 /\ Len(batch) \in Nat
      BY <2>3, TakeFirst, AddLast DEF Receive, TypeOK
    <3>3. worker' \in WorkerStates /\ Len(batch') <= BatchSize /\ BatchRoom'
      BY <2>3, <3>2 DEF Receive, TypeOK, SizeAssumption
    <3> QED
      BY <2>3, <3>1, <3>2, <3>3 DEF Receive, TypeOK, callerVars, closeVars, tableVars, envVars, historyVars
  <2>4. CASE FlushTick
    BY <2>4 DEF FlushTick, TypeOK, callerVars, closeVars, tableVars, envVars, historyVars
  <2>5. CASE TakeDone
    BY <2>5 DEF TakeDone, TypeOK, callerVars, closeVars, tableVars, envVars, historyVars
  <2>6. CASE DrainEmpty
    BY <2>6 DEF DrainEmpty, TypeOK, callerVars, closeVars, tableVars, envVars, historyVars
  <2>7. CASE WriteBatch
    <3>1. rows' \subseteq Row
      BY <2>7, RowForType DEF WriteBatch, TypeOK, Constants
    <3>2. nextId' \in Nat \ {0}
      BY <2>7 DEF WriteBatch, TypeOK
    <3>3. batch' \in Seq(Entry) /\ Len(batch') = 0
      BY <2>7 DEF WriteBatch
    <3>4. worker' \in WorkerStates
      BY <2>7, AfterFlushType DEF WriteBatch
    <3> QED
      BY <2>7, <3>1, <3>2, <3>3, <3>4
      DEF WriteBatch, TypeOK, callerVars, closeVars, envVars, historyVars, SizeAssumption
  <2>8. CASE WriteFails
    <3>1. lost' \subseteq Entry
      BY <2>8 DEF WriteFails, TypeOK, ElementsOf
    <3>2. faults' \in 0..MaxFaults
      BY <2>8 DEF WriteFails, TypeOK, BoundsAssumption
    <3>3. batch' \in Seq(Entry) /\ Len(batch') = 0
      BY <2>8 DEF WriteFails
    <3>4. worker' \in WorkerStates
      BY <2>8, AfterFlushType DEF WriteFails
    <3> QED
      BY <2>8, <3>1, <3>2, <3>3, <3>4
      DEF WriteFails, TypeOK, callerVars, closeVars, tableVars, SizeAssumption
  <2>9. CASE Prune
    BY <2>9 DEF Prune, TypeOK, callerVars, workerVars, closeVars, envVars, historyVars
  <2>10. CASE PrunerExit
    BY <2>10 DEF PrunerExit, TypeOK, callerVars, workerVars, tableVars, envVars, historyVars
  <2>11. CASE CloseMark
    BY <2>11, LenProperties DEF CloseMark, TypeOK, callerVars, workerVars, tableVars, envVars, historyVars
  <2>12. CASE CloseSignal
    BY <2>12 DEF CloseSignal, TypeOK, callerVars, workerVars, tableVars, envVars, historyVars
  <2>13. CASE CloseJoined
    BY <2>13 DEF CloseJoined, TypeOK, callerVars, workerVars, tableVars, envVars, historyVars
  <2>14. CASE CloseExpired
    BY <2>14 DEF CloseExpired, TypeOK, callerVars, workerVars, tableVars, envVars, historyVars
  <2>15. CASE StorageClose
    BY <2>15 DEF StorageClose, TypeOK, callerVars, workerVars, closeVars, envVars, historyVars
  <2>16. CASE Tick
    BY <2>16 DEF Tick, TypeOK, BoundsAssumption, callerVars, workerVars, closeVars, tableVars, historyVars
  <2>17. CASE Restart
    <3>1. InFlight \in Seq(Entry)
      BY ConcatProperties DEF InFlight, TypeOK
    <3>2. lost' \subseteq Entry
      BY <2>17, <3>1 DEF Restart, TypeOK, ElementsOf
    <3>3. pending' \in [Callers -> Entry \cup {Nothing}]
      BY <2>17 DEF Restart
    <3>4. restarts' \in 0..MaxRestarts
      BY <2>17 DEF Restart, TypeOK, BoundsAssumption
    <3>5. ch' \in Seq(Entry) /\ batch' \in Seq(Entry) /\ Len(ch') = 0 /\ Len(batch') = 0
      BY <2>17 DEF Restart
    <3>6. Len(ch') <= BufferSize /\ Len(batch') < BatchSize /\ Len(batch') <= BatchSize
      BY <3>5 DEF SizeAssumption
    <3>7. closed' \in BOOLEAN /\ done' \in BOOLEAN /\ dbOpen' \in BOOLEAN
      BY <2>17 DEF Restart
    <3>8. /\ worker' \in WorkerStates
          /\ pruner' \in {"select", "exited"}
          /\ closer' \in {"idle", "signal", "wait", "nil", "ctxErr"}
          /\ promised' \in Nat
      BY <2>17 DEF Restart
    <3> QED
      BY <2>17, <3>2, <3>3, <3>4, <3>5, <3>6, <3>7, <3>8 DEF Restart, TypeOK
  <2>18. CASE UNCHANGED vars
    BY <2>18 DEF vars, TypeOK, callerVars, workerVars, closeVars, tableVars, envVars, historyVars
  <2> QED
    BY <2>1, <2>2, <2>3, <2>4, <2>5, <2>6, <2>7, <2>8, <2>9, <2>10, <2>11, <2>12,
       <2>13, <2>14, <2>15, <2>16, <2>17, <2>18 DEF Next
<1> QED
  BY <1>1, <1>2, PTL DEF Spec

\* Type correctness and the two memory bounds (log_writer.go:64, 101): for any
\* number of callers and any sizes, the channel holds at most BufferSize
\* entries and the batch at most BatchSize.
THEOREM TypeCorrect == Spec => []TypeOK
BY TypeInductive, PTL DEF TypeInv

-----------------------------------------------------------------------------
\* Order and uniqueness of what is in flight.

\* A step that touches neither queue nor the history keeps FIFO.
LEMMA QueuesUntouched ==
    ASSUME FIFO, UNCHANGED <<accepted, batch, ch>>
    PROVE  FIFO'
BY DEF FIFO, Settled

\* flush() settles the whole batch, whether it commits or fails.
LEMMA BatchSettled ==
    ASSUME TypeOK, FIFO, batch' = <<>>, UNCHANGED <<accepted, ch>>
    PROVE  FIFO'
<1>1. Len(batch) \in Nat /\ Len(ch) \in Nat /\ Len(accepted) \in Nat /\ Len(batch') = 0
  BY LenProperties DEF TypeOK
<1>2. Settled' = Settled + Len(batch) /\ Settled \in Int
  BY <1>1 DEF Settled
<1> QED
  BY <1>1, <1>2 DEF FIFO

\* FIFO is inductive, given the types.
LEMMA FIFOStep ==
    ASSUME TypeInv, FIFO, [Next]_vars
    PROVE  FIFO'
<1> TypeOK
  BY DEF TypeInv
<1>0. Len(batch) \in Nat /\ Len(ch) \in Nat /\ Len(accepted) \in Nat /\ Settled \in Int
  BY LenProperties DEF TypeOK, Settled
<1>1. ASSUME NEW c \in Callers, NEW t \in Stamps, EnqueueCheck(c, t) PROVE FIFO'
  BY <1>1, QueuesUntouched DEF EnqueueCheck, workerVars, historyVars
<1>2. ASSUME NEW c \in Callers, EnqueueSend(c) PROVE FIFO'
  <2>1. pending[c] \in Entry
    BY <1>2, PendingIsEntry DEF EnqueueSend
  <2>2. CASE UNCHANGED <<ch, accepted>>
    BY <1>2, <2>2, QueuesUntouched DEF EnqueueSend
  <2>3. CASE ch' = Append(ch, pending[c]) /\ accepted' = Append(accepted, pending[c])
    <3>1. /\ Len(ch') = Len(ch) + 1
          /\ \A i \in 1..Len(ch) : ch'[i] = ch[i]
          /\ ch'[Len(ch) + 1] = pending[c]
      BY <2>1, <2>3, AddLast DEF TypeOK
    <3>2. /\ Len(accepted') = Len(accepted) + 1
          /\ \A i \in 1..Len(accepted) : accepted'[i] = accepted[i]
          /\ accepted'[Len(accepted) + 1] = pending[c]
      BY <2>1, <2>3, AddLast DEF TypeOK
    <3>3. batch' = batch /\ Settled' = Settled
      BY <1>2, <1>0, <3>1, <3>2 DEF EnqueueSend, Settled
    <3>4. Settled >= 0 /\ Settled + Len(batch) + Len(ch) = Len(accepted)
      BY <1>0 DEF FIFO, Settled
    <3>5. \A i \in 1..Len(batch) : batch[i] = accepted'[Settled + i]
      BY <1>0, <3>2, <3>4 DEF FIFO
    <3>6. \A i \in 1..Len(ch') : ch'[i] = accepted'[Settled + Len(batch) + i]
      <4> SUFFICES ASSUME NEW i \in 1..Len(ch') PROVE ch'[i] = accepted'[Settled + Len(batch) + i]
        OBVIOUS
      <4>1. CASE i = Len(ch) + 1
        BY <1>0, <3>1, <3>2, <3>4, <4>1
      <4>2. CASE i # Len(ch) + 1
        <5>1. i \in 1..Len(ch) /\ Settled + Len(batch) + i \in 1..Len(accepted)
          BY <1>0, <3>1, <3>4, <4>2
        <5> QED
          BY <3>1, <3>2, <5>1 DEF FIFO
      <4> QED
        BY <4>1, <4>2
    <3> QED
      BY <3>3, <3>4, <3>5, <3>6 DEF FIFO
  <2> QED
    BY <1>2, <2>2, <2>3 DEF EnqueueSend
<1>3. CASE Receive
  <2>1. /\ Head(ch) \in Entry /\ Head(ch) = ch[1]
        /\ Len(ch') = Len(ch) - 1
        /\ \A i \in 1..Len(ch') : ch'[i] = ch[i + 1]
        /\ Len(ch) >= 1
    <3>1. ch \in Seq(Entry) /\ ch # <<>> /\ ch' = Tail(ch)
      BY <1>3 DEF Receive, TypeOK
    <3> QED
      BY <1>0, <3>1, TakeFirst
  <2>2. /\ Len(batch') = Len(batch) + 1
        /\ \A i \in 1..Len(batch) : batch'[i] = batch[i]
        /\ batch'[Len(batch) + 1] = ch[1]
    <3>1. batch \in Seq(Entry) /\ batch' = Append(batch, Head(ch))
      BY <1>3 DEF Receive, TypeOK
    <3> QED
      BY <2>1, <3>1, AddLast
  <2>3. accepted' = accepted /\ Settled' = Settled /\ Settled >= 0
    BY <1>3, <1>0, <2>1, <2>2 DEF Receive, Settled, historyVars, FIFO
  <2>4. \A i \in 1..Len(batch') : batch'[i] = accepted[Settled + i]
    <3> SUFFICES ASSUME NEW i \in 1..Len(batch') PROVE batch'[i] = accepted[Settled + i]
      OBVIOUS
    <3>1. CASE i = Len(batch) + 1
      <4>1. ch[1] = accepted[Settled + Len(batch) + 1]
        BY <1>0, <2>1 DEF FIFO
      <4> QED
        BY <1>0, <2>2, <2>3, <3>1, <4>1
    <3>2. CASE i # Len(batch) + 1
      <4>1. i \in 1..Len(batch)
        BY <1>0, <2>2, <3>2
      <4> QED
        BY <2>2, <4>1 DEF FIFO
    <3> QED
      BY <3>1, <3>2
  <2>5. \A i \in 1..Len(ch') : ch'[i] = accepted[Settled + Len(batch') + i]
    <3> SUFFICES ASSUME NEW i \in 1..Len(ch') PROVE ch'[i] = accepted[Settled + Len(batch') + i]
      OBVIOUS
    <3>1. i + 1 \in 1..Len(ch) /\ ch'[i] = ch[i + 1]
      BY <1>0, <2>1
    <3>2. ch[i + 1] = accepted[Settled + Len(batch) + (i + 1)]
      BY <3>1 DEF FIFO
    <3>3. Settled + Len(batch) + (i + 1) = Settled + Len(batch') + i
      BY <1>0, <2>2, <2>3
    <3> QED
      BY <3>1, <3>2, <3>3
  <2> QED
    BY <2>3, <2>4, <2>5 DEF FIFO
<1>4. CASE FlushTick \/ TakeDone \/ DrainEmpty
  BY <1>4, QueuesUntouched DEF FlushTick, TakeDone, DrainEmpty, historyVars
<1>5. CASE WriteBatch \/ WriteFails
  BY <1>5, BatchSettled DEF WriteBatch, WriteFails, historyVars
<1>6. CASE Prune \/ PrunerExit
  BY <1>6, QueuesUntouched DEF Prune, PrunerExit, workerVars, historyVars
<1>7. CASE CloseMark \/ CloseSignal \/ CloseJoined \/ CloseExpired \/ StorageClose \/ Tick
  BY <1>7, QueuesUntouched
  DEF CloseMark, CloseSignal, CloseJoined, CloseExpired, StorageClose, Tick, workerVars, historyVars
<1>8. CASE Restart
  <2>1. Len(batch') = 0 /\ Len(ch') = 0 /\ accepted' = accepted
    BY <1>8 DEF Restart
  <2> QED
    BY <1>0, <2>1 DEF FIFO, Settled
<1>9. CASE UNCHANGED vars
  BY <1>9, QueuesUntouched DEF vars, workerVars, historyVars
<1> QED
  BY <1>1, <1>2, <1>3, <1>4, <1>5, <1>6, <1>7, <1>8, <1>9 DEF Next

\* Nothing between Enqueue and the table is duplicated, skipped or reordered,
\* for any number of callers, sizes, failures and restarts.
THEOREM FIFOHolds == Spec => []FIFO
<1>1. Init => FIFO
  <2> SUFFICES ASSUME Init PROVE FIFO
    OBVIOUS
  <2>1. Len(batch) = 0 /\ Len(ch) = 0 /\ Len(accepted) = 0
    BY DEF Init
  <2> QED
    BY <2>1 DEF FIFO, Settled
<1>2. TypeInv /\ FIFO /\ [Next]_vars => FIFO'
  BY FIFOStep
<1> QED
  BY <1>1, <1>2, TypeInductive, PTL DEF Spec

-----------------------------------------------------------------------------
\* The shutdown protocol.

\* How far the worker and the pruner may be at each step of Close.
Lifecycle ==
    /\ done => closer \in {"wait", "nil", "ctxErr"}
    /\ worker \in {"drain", "drainFlush", "lastFlush", "exited"} => done
    /\ pruner = "exited" => done
    /\ closer = "nil" => worker = "exited" /\ pruner = "exited"

\* Once the worker has found the channel empty, everything promised when
\* Close took the flag has left the channel; the last flush() takes the rest.
Drained ==
    /\ promised <= Len(accepted)
    /\ worker \in {"lastFlush", "exited"} => Len(accepted) - Len(ch) >= promised
    /\ worker = "exited" => batch = <<>>

\* No goroutine gets ahead of Close, and Close returns nil after both.
LEMMA LifecycleStep ==
    ASSUME TypeInv, Lifecycle, [Next]_vars
    PROVE  Lifecycle'
<1> USE DEF Lifecycle
<1>1. ASSUME NEW c \in Callers, NEW t \in Stamps, EnqueueCheck(c, t) PROVE Lifecycle'
  BY <1>1 DEF EnqueueCheck, workerVars, closeVars
<1>2. ASSUME NEW c \in Callers, EnqueueSend(c) PROVE Lifecycle'
  BY <1>2 DEF EnqueueSend, closeVars
<1>3. CASE Receive \/ FlushTick \/ TakeDone \/ DrainEmpty
  BY <1>3 DEF Receive, FlushTick, TakeDone, DrainEmpty, closeVars
<1>4. CASE WriteBatch \/ WriteFails
  BY <1>4, AfterFlushType DEF WriteBatch, WriteFails, Flushing, closeVars
<1>5. CASE Prune \/ PrunerExit
  BY <1>5 DEF Prune, PrunerExit, workerVars, closeVars
<1>6. CASE CloseMark \/ CloseSignal \/ CloseJoined \/ CloseExpired
  BY <1>6 DEF CloseMark, CloseSignal, CloseJoined, CloseExpired, workerVars
<1>7. CASE StorageClose \/ Tick
  BY <1>7 DEF StorageClose, Tick, workerVars, closeVars
<1>8. CASE Restart
  BY <1>8 DEF Restart
<1>9. CASE UNCHANGED vars
  BY <1>9 DEF vars, workerVars, closeVars
<1> QED
  BY <1>1, <1>2, <1>3, <1>4, <1>5, <1>6, <1>7, <1>8, <1>9 DEF Next

\* The drain argument, action by action.
LEMMA DrainedStep ==
    ASSUME TypeInv, Lifecycle, Drained, [Next]_vars
    PROVE  Drained'
<1>0. /\ Len(batch) \in Nat /\ Len(ch) \in Nat /\ Len(accepted) \in Nat
      /\ promised \in Nat
  BY LenProperties DEF TypeInv, TypeOK
<1>1. ASSUME NEW c \in Callers, NEW t \in Stamps, EnqueueCheck(c, t) PROVE Drained'
  BY <1>1 DEF EnqueueCheck, workerVars, closeVars, historyVars, Drained
<1>2. ASSUME NEW c \in Callers, EnqueueSend(c) PROVE Drained'
  <2>1. pending[c] \in Entry
    BY <1>2, PendingIsEntry DEF EnqueueSend, TypeInv
  <2>2. /\ Len(Append(ch, pending[c])) = Len(ch) + 1
        /\ Len(Append(accepted, pending[c])) = Len(accepted) + 1
    <3>1. ch \in Seq(Entry) /\ accepted \in Seq(Entry)
      BY DEF TypeInv, TypeOK
    <3> QED
      BY <2>1, <3>1, AddLast
  <2>3. \/ Len(ch') = Len(ch) + 1 /\ Len(accepted') = Len(accepted) + 1
        \/ ch' = ch /\ accepted' = accepted
    BY <1>2, <2>2 DEF EnqueueSend
  <2>4. UNCHANGED <<worker, batch, promised>>
    BY <1>2 DEF EnqueueSend, closeVars
  <2> QED
    BY <1>0, <2>3, <2>4 DEF Drained
<1>3. CASE Receive
  BY <1>0, <1>3 DEF Receive, closeVars, historyVars, Drained
<1>4. CASE FlushTick \/ TakeDone
  BY <1>4 DEF FlushTick, TakeDone, closeVars, historyVars, Drained
<1>5. CASE DrainEmpty
  <2>1. Len(ch) = 0
    BY <1>5 DEF DrainEmpty
  <2> QED
    BY <1>0, <1>5, <2>1 DEF DrainEmpty, closeVars, historyVars, Drained
<1>6. CASE WriteBatch \/ WriteFails
  BY <1>6, AfterFlushType DEF WriteBatch, WriteFails, Flushing, closeVars, historyVars, Drained
<1>7. CASE CloseMark
  <2>1. worker \notin {"lastFlush", "exited"}
    BY <1>7 DEF CloseMark, Lifecycle
  <2> QED
    BY <1>0, <1>7, <2>1 DEF CloseMark, workerVars, historyVars, Drained
<1>8. CASE Prune \/ PrunerExit \/ CloseSignal \/ CloseJoined \/ CloseExpired \/ StorageClose \/ Tick
  BY <1>8 DEF Prune, PrunerExit, CloseSignal, CloseJoined, CloseExpired, StorageClose, Tick,
              workerVars, closeVars, historyVars, Drained
<1>9. CASE Restart
  BY <1>0, <1>9 DEF Restart, Drained
<1>10. CASE UNCHANGED vars
  BY <1>10 DEF vars, workerVars, closeVars, historyVars, Drained
<1> QED
  BY <1>1, <1>2, <1>3, <1>4, <1>5, <1>6, <1>7, <1>8, <1>9, <1>10 DEF Next

\* The inductive invariant of the shutdown protocol.
THEOREM ShutdownInductive == Spec => [](TypeInv /\ Lifecycle /\ Drained)
<1>1. Init => Lifecycle /\ Drained
  <2> SUFFICES ASSUME Init PROVE Lifecycle /\ Drained
    OBVIOUS
  <2>1. Len(accepted) = 0 /\ promised = 0
    BY DEF Init
  <2> QED
    BY <2>1 DEF Init, Lifecycle, Drained
<1>2. TypeInv /\ Lifecycle /\ Drained /\ [Next]_vars => (Lifecycle /\ Drained)'
  BY LifecycleStep, DrainedStep
<1> QED
  BY <1>1, <1>2, TypeInductive, PTL DEF Spec

\* Every entry whose Enqueue returned before Close took the closed flag has
\* been written, or its transaction has failed, when batchWorker returns.
THEOREM CloseDrainsHolds == Spec => []CloseDrains
<1>1. TypeInv /\ Drained => CloseDrains
  <2> SUFFICES ASSUME TypeInv, Drained, worker = "exited" PROVE Settled >= promised
    BY DEF CloseDrains
  <2>1. Len(batch) = 0 /\ Len(ch) \in Nat /\ Len(accepted) \in Nat /\ promised \in Nat
    BY LenProperties DEF TypeInv, TypeOK, Drained
  <2> QED
    BY <2>1 DEF Drained, Settled
<1> QED
  BY <1>1, ShutdownInductive, PTL

\* After Close returned nil no step but a restart changes the table, so that
\* Server.Shutdown may close the database (server.go:310-315).
THEOREM NoWriteAfterCloseHolds == Spec => NoWriteAfterClose
<1>1. TypeInv /\ Lifecycle /\ [Next]_vars
        => [closer = "nil" /\ restarts' = restarts => UNCHANGED rows]_vars
  <2> SUFFICES ASSUME Lifecycle, [Next]_vars, closer = "nil", rows' # rows PROVE FALSE
    OBVIOUS
  <2>1. worker = "exited" /\ pruner = "exited"
    BY DEF Lifecycle
  <2>2. ~WriteBatch /\ ~Prune
    BY <2>1 DEF WriteBatch, Flushing, Prune
  <2> QED
    BY <2>2 DEF Next, EnqueueCheck, EnqueueSend, Receive, FlushTick, TakeDone, DrainEmpty, WriteFails,
                PrunerExit, CloseMark, CloseSignal, CloseJoined, CloseExpired, StorageClose, Tick,
                Restart, vars, tableVars
<1> QED
  BY <1>1, ShutdownInductive, PTL DEF Spec, NoWriteAfterClose

-----------------------------------------------------------------------------
(* What is left to do once Close took the flag *)

\* The worker is in flush() only with something to write.
FlushesSomething == Flushing => batch # <<>>

LEMMA FlushesHold == Spec => []FlushesSomething
<1>1. Init => FlushesSomething
  BY DEF Init, FlushesSomething, Flushing
<1>2. TypeInv /\ FlushesSomething /\ [Next]_vars => FlushesSomething'
  <2> SUFFICES ASSUME TypeInv, FlushesSomething, [Next]_vars PROVE FlushesSomething'
    OBVIOUS
  <2>1. CASE Receive
    <3>1. batch' = Append(batch, Head(ch)) /\ Head(ch) \in Entry /\ batch \in Seq(Entry)
      BY <2>1, TakeFirst DEF Receive, TypeInv, TypeOK
    <3>2. Len(batch') = Len(batch) + 1 /\ Len(batch) \in Nat
      BY <3>1, AddLast
    <3> QED
      BY <3>2 DEF FlushesSomething
  <2>2. CASE FlushTick
    BY <2>2 DEF FlushTick, FlushesSomething
  <2>3. CASE TakeDone \/ Restart
    BY <2>3 DEF TakeDone, Restart, FlushesSomething, Flushing
  <2>4. CASE DrainEmpty
    BY <2>4 DEF DrainEmpty, FlushesSomething, Flushing
  <2>5. CASE WriteBatch \/ WriteFails
    BY <2>5, AfterFlushType DEF WriteBatch, WriteFails, FlushesSomething, Flushing, AfterFlush
  <2>6. CASE UNCHANGED <<worker, batch>>
    BY <2>6 DEF FlushesSomething, Flushing
  <2> QED
    BY <2>1, <2>2, <2>3, <2>4, <2>5, <2>6
    DEF Next, EnqueueCheck, EnqueueSend, Prune, PrunerExit, CloseMark, CloseSignal, CloseJoined,
        CloseExpired, StorageClose, Tick, vars, workerVars
<1> QED
  BY <1>1, <1>2, TypeInductive, PTL DEF Spec

Senders == {c \in Callers : pending[c] # Nothing}

OnTheWay ==
    CASE worker = "select" -> 3 [] worker = "flush" -> 2 [] worker = "drain" -> 1 [] OTHER -> 0

LeftAddsUp ==
    /\ Cardinality(Senders) \in Nat /\ Len(ch) \in Nat /\ Len(batch) \in Nat /\ OnTheWay \in Nat
    /\ Left = 4 * Cardinality(Senders) + 3 * Len(ch) + 2 * Len(batch) + OnTheWay

LEMMA LeftNumbers == TypeInv => LeftAddsUp
<1> SUFFICES ASSUME TypeInv PROVE LeftAddsUp
  OBVIOUS
<1>1. Senders \subseteq Callers
  BY DEF Senders
<1>2. Cardinality(Senders) \in Nat
  BY <1>1, CallersAssumption, FS_Subset, FS_CardinalityType DEF CallersAssumption
<1>3. Len(ch) \in Nat /\ Len(batch) \in Nat
  BY LenProperties DEF TypeInv, TypeOK
<1>4. Left = 4 * Cardinality(Senders) + 3 * Len(ch) + 2 * Len(batch) + OnTheWay
  BY DEF Left, Senders, OnTheWay
<1>5. OnTheWay \in Nat
  BY DEF OnTheWay
<1> QED
  BY <1>2, <1>3, <1>4, <1>5 DEF LeftAddsUp

\* A send is worth more than the receive it causes, a receive more than the write.
LEMMA Lighter ==
    ASSUME NEW k \in Int, NEW k1 \in Int, NEW c \in Int, NEW c1 \in Int,
           NEW b \in Int, NEW b1 \in Int, NEW o \in Int, NEW o1 \in Int,
           \/ k1 = k - 1 /\ c1 <= c + 1 /\ b1 = b /\ o1 = o
           \/ k1 = k /\ c1 = c - 1 /\ b1 = b + 1 /\ o1 <= o
    PROVE  4 * k1 + 3 * c1 + 2 * b1 + o1 < 4 * k + 3 * c + 2 * b + o
OBVIOUS

\* Once Close took the flag, the worker's work only becomes less, by every step of
\* the worker and of the callers that passed the closed check before: it returns
\* after boundedly many steps (log_writer.go: Enqueue, batchWorker, Close).
THEOREM ClosingShrinksHolds == Spec => ClosingShrinks
<1>1. TypeInv /\ LeftAddsUp /\ LeftAddsUp' /\ FlushesSomething /\ [Next]_vars
        => [closed /\ closed' => Left' < Left \/ UNCHANGED <<pending, ch, batch, worker>>]_vars
  <2> SUFFICES ASSUME TypeInv, LeftAddsUp, LeftAddsUp', FlushesSomething, [Next]_vars, closed, closed'
               PROVE  Left' < Left \/ UNCHANGED <<pending, ch, batch, worker>>
    OBVIOUS
  <2>0. /\ Cardinality(Senders) \in Nat /\ Len(ch) \in Nat /\ Len(batch) \in Nat /\ OnTheWay \in Nat
        /\ Left = 4 * Cardinality(Senders) + 3 * Len(ch) + 2 * Len(batch) + OnTheWay
    BY DEF LeftAddsUp
  <2>1. /\ Cardinality(Senders') \in Nat /\ Len(ch') \in Nat /\ Len(batch') \in Nat /\ OnTheWay' \in Nat
        /\ Left' = 4 * Cardinality(Senders') + 3 * Len(ch') + 2 * Len(batch') + OnTheWay'
    BY DEF LeftAddsUp
  <2>1a. /\ Cardinality(Senders) \in Int /\ Len(ch) \in Int /\ Len(batch) \in Int /\ OnTheWay \in Int
         /\ Cardinality(Senders') \in Int /\ Len(ch') \in Int /\ Len(batch') \in Int /\ OnTheWay' \in Int
    BY <2>0, <2>1
  <2>1b. ASSUME \/ /\ Cardinality(Senders') = Cardinality(Senders) - 1 /\ Len(ch') <= Len(ch) + 1
                   /\ Len(batch') = Len(batch) /\ OnTheWay' = OnTheWay
                \/ /\ Cardinality(Senders') = Cardinality(Senders) /\ Len(ch') = Len(ch) - 1
                   /\ Len(batch') = Len(batch) + 1 /\ OnTheWay' <= OnTheWay
         PROVE  Left' < Left
    <3>1. 4 * Cardinality(Senders') + 3 * Len(ch') + 2 * Len(batch') + OnTheWay'
            < 4 * Cardinality(Senders) + 3 * Len(ch) + 2 * Len(batch) + OnTheWay
      BY Zenon, <2>1a, <2>1b, Lighter
    <3> QED
      BY Zenon, <2>0, <2>1, <3>1
  <2>2. ASSUME pending' = pending PROVE Senders' = Senders
    BY <2>2 DEF Senders
  <2>3. ASSUME NEW c \in Callers, EnqueueSend(c) PROVE Left' < Left
    <3>1. Cardinality(Senders') = Cardinality(Senders) - 1
      <4>1. c \in Senders /\ Senders' = Senders \ {c}
        BY <2>3 DEF EnqueueSend, Senders, TypeInv, TypeOK
      <4>2. IsFiniteSet(Senders)
        BY CallersAssumption, FS_Subset DEF Senders, CallersAssumption
      <4> QED
        BY <4>1, <4>2, FS_RemoveElement
    <3>2. worker' = worker /\ Len(batch') = Len(batch)
      BY <2>3 DEF EnqueueSend
    <3>3. Len(ch') <= Len(ch) + 1
      <4>1. pending[c] \in Entry
        BY <2>3, PendingIsEntry DEF EnqueueSend, TypeInv
      <4>2. Len(Append(ch, pending[c])) = Len(ch) + 1
        BY <4>1, AddLast DEF TypeInv, TypeOK
      <4> QED
        BY <2>0, <2>3, <4>2 DEF EnqueueSend
    <3>4. OnTheWay' = OnTheWay
      BY <3>2 DEF OnTheWay
    <3>5. Len(batch') = Len(batch)
      BY <3>2
    <3> QED
      BY Zenon, <2>1b, <3>1, <3>3, <3>4, <3>5
  <2>4. CASE Receive
    <3>1. Len(ch') = Len(ch) - 1 /\ Len(batch') = Len(batch) + 1
      BY <2>4, TakeFirst, AddLast DEF Receive, TypeInv, TypeOK
    <3>2. OnTheWay' <= OnTheWay
      BY <2>4 DEF Receive, OnTheWay
    <3>3. Cardinality(Senders') = Cardinality(Senders)
      BY <2>2, <2>4 DEF Receive, callerVars
    <3> QED
      BY Zenon, <2>1b, <3>1, <3>2, <3>3
  <2>5. CASE FlushTick \/ TakeDone \/ DrainEmpty
    <3>1. pending' = pending /\ ch' = ch /\ batch' = batch
      BY <2>5 DEF FlushTick, TakeDone, DrainEmpty, callerVars
    <3>2. OnTheWay' < OnTheWay
      BY <2>5 DEF FlushTick, TakeDone, DrainEmpty, OnTheWay
    <3>3. Senders' = Senders
      BY <2>2, <3>1
    <3> QED
      BY <2>0, <2>1, <3>1, <3>2, <3>3
  <2>6. CASE WriteBatch \/ WriteFails
    <3>1. pending' = pending /\ ch' = ch /\ Len(batch') = 0
      BY <2>6 DEF WriteBatch, WriteFails, callerVars
    <3>2. Len(batch) > 0
      <4>1. batch # <<>>
        BY <2>6 DEF WriteBatch, WriteFails, FlushesSomething
      <4> QED
        BY <4>1, EmptySeq, LenProperties DEF TypeInv, TypeOK
    <3>3. OnTheWay' <= OnTheWay + 1
      <4>1. Flushing /\ worker' = AfterFlush(worker)
        BY <2>6 DEF WriteBatch, WriteFails
      <4>2. CASE worker = "flush"
        BY <4>1, <4>2 DEF OnTheWay, AfterFlush
      <4>3. CASE worker = "drainFlush"
        BY <4>1, <4>3 DEF OnTheWay, AfterFlush
      <4>4. CASE worker = "lastFlush"
        BY <4>1, <4>4 DEF OnTheWay, AfterFlush
      <4> QED
        BY <4>1, <4>2, <4>3, <4>4 DEF Flushing
    <3>4. Senders' = Senders
      BY <2>2, <3>1
    <3> QED
      BY <2>0, <2>1, <3>1, <3>2, <3>3, <3>4
  <2>7. ASSUME NEW c \in Callers, NEW t \in Stamps, EnqueueCheck(c, t)
        PROVE  UNCHANGED <<pending, ch, batch, worker>>
    BY <2>7 DEF EnqueueCheck, workerVars
  <2>8. ~Restart
    BY DEF Restart
  <2> QED
    BY <2>3, <2>4, <2>5, <2>6, <2>7, <2>8
    DEF Next, Prune, PrunerExit, CloseMark, CloseSignal, CloseJoined, CloseExpired, StorageClose,
        Tick, vars, callerVars, workerVars
<1> QED
  BY <1>1, TypeInductive, LeftNumbers, FlushesHold, PTL DEF Spec, ClosingShrinks

-----------------------------------------------------------------------------
(* What becomes of every accepted entry, and the order of row ids *)

\* A caller numbers its calls, so no two accepted entries are equal and the
\* one a caller holds is none of them.
Numbered ==
    /\ \A i \in 1..Len(accepted) : accepted[i].seq <= calls[accepted[i].src]
    /\ \A c \in Callers : pending[c] # Nothing => pending[c].src = c /\ pending[c].seq = calls[c]
    /\ \A c \in Callers, i \in 1..Len(accepted) :
          pending[c] # Nothing /\ accepted[i].src = c => accepted[i].seq < calls[c]
    /\ \A i, j \in 1..Len(accepted) : accepted[i] = accepted[j] => i = j

\* Numbered depends on the callers and the history only.
LEMMA NumberedUntouched ==
    ASSUME Numbered, UNCHANGED <<calls, pending, accepted>>
    PROVE  Numbered'
BY DEF Numbered

\* Every call of Enqueue keeps the numbering.
LEMMA NumberedStep ==
    ASSUME TypeInv, Numbered, [Next]_vars
    PROVE  Numbered'
<1>0. /\ calls \in [Callers -> 0..MaxCalls] /\ pending \in [Callers -> Entry \cup {Nothing}]
      /\ accepted \in Seq(Entry) /\ Len(accepted) \in Nat
  BY LenProperties DEF TypeInv, TypeOK
<1>00. \A i \in 1..Len(accepted) : /\ accepted[i] \in Entry
                                   /\ accepted[i].src \in Callers
                                   /\ accepted[i].seq \in Nat
  <2> SUFFICES ASSUME NEW i \in 1..Len(accepted)
               PROVE  accepted[i] \in Entry /\ accepted[i].src \in Callers /\ accepted[i].seq \in Nat
    OBVIOUS
  <2>1. accepted[i] \in Entry
    BY <1>0, ElementOfSeq
  <2> QED
    BY <2>1, BoundsAssumption DEF Entry, BoundsAssumption
<1>1. ASSUME NEW c \in Callers, NEW t \in Stamps, EnqueueCheck(c, t) PROVE Numbered'
  <2>1. /\ pending[c] = Nothing /\ accepted' = accepted
        /\ calls' = [calls EXCEPT ![c] = @ + 1]
        /\ \/ pending' = pending
           \/ pending' = [pending EXCEPT ![c] = [src |-> c, seq |-> calls[c] + 1, ts |-> t]]
    BY <1>1 DEF EnqueueCheck, historyVars
  <2>2. /\ calls'[c] = calls[c] + 1 /\ calls[c] \in Nat
        /\ \A d \in Callers : calls[d] \in Nat /\ calls'[d] >= calls[d] /\ (d # c => calls'[d] = calls[d])
    BY <1>0, <2>1, BoundsAssumption DEF BoundsAssumption
  <2>3. \A d \in Callers : d # c => pending'[d] = pending[d]
    BY <1>0, <2>1
  <2>4. pending'[c] # Nothing => pending'[c] = [src |-> c, seq |-> calls[c] + 1, ts |-> t]
    BY <1>0, <2>1
  <2>5. \A i \in 1..Len(accepted') : accepted'[i].seq <= calls'[accepted'[i].src]
    BY <1>00, <2>1, <2>2 DEF Numbered
  <2>6. \A d \in Callers : pending'[d] # Nothing => pending'[d].src = d /\ pending'[d].seq = calls'[d]
    <3> SUFFICES ASSUME NEW d \in Callers, pending'[d] # Nothing
                 PROVE  pending'[d].src = d /\ pending'[d].seq = calls'[d]
      OBVIOUS
    <3>1. CASE d = c
      BY <2>2, <2>4, <3>1
    <3>2. CASE d # c
      BY <2>2, <2>3, <3>2 DEF Numbered
    <3> QED
      BY <3>1, <3>2
  <2>7. \A d \in Callers, i \in 1..Len(accepted') :
          pending'[d] # Nothing /\ accepted'[i].src = d => accepted'[i].seq < calls'[d]
    <3> SUFFICES ASSUME NEW d \in Callers, NEW i \in 1..Len(accepted),
                        pending'[d] # Nothing, accepted[i].src = d
                 PROVE  accepted[i].seq < calls'[d]
      BY <2>1
    <3>1. CASE d = c
      <4>1. accepted[i].seq <= calls[c]
        BY <3>1 DEF Numbered
      <4> QED
        BY <1>00, <2>2, <3>1, <4>1
    <3>2. CASE d # c
      BY <2>2, <2>3, <3>2 DEF Numbered
    <3> QED
      BY <3>1, <3>2
  <2> QED
    BY <2>1, <2>5, <2>6, <2>7 DEF Numbered
<1>2. ASSUME NEW c \in Callers, EnqueueSend(c) PROVE Numbered'
  <2>1. /\ pending[c] \in Entry /\ pending[c] # Nothing /\ calls' = calls
        /\ pending' = [pending EXCEPT ![c] = Nothing]
        /\ \/ accepted' = accepted
           \/ accepted' = Append(accepted, pending[c])
    BY <1>2, PendingIsEntry DEF EnqueueSend, TypeInv
  <2>2. /\ pending'[c] = Nothing
        /\ \A d \in Callers : d # c => pending'[d] = pending[d]
    BY <1>0, <2>1
  <2>3. CASE accepted' = accepted
    BY <2>1, <2>2, <2>3 DEF Numbered
  <2>4. CASE accepted' = Append(accepted, pending[c])
    <3>1. /\ Len(accepted') = Len(accepted) + 1
          /\ \A i \in 1..Len(accepted) : accepted'[i] = accepted[i]
          /\ accepted'[Len(accepted) + 1] = pending[c]
      BY <1>0, <2>1, <2>4, AddLast
    <3>2. pending[c].src = c /\ pending[c].seq = calls[c] /\ calls[c] \in Nat
      BY <1>0, <2>1, BoundsAssumption DEF Numbered, BoundsAssumption
    <3>3. ASSUME NEW i \in 1..Len(accepted')
          PROVE  i \in 1..Len(accepted) \/ (i = Len(accepted) + 1 /\ accepted'[i] = pending[c])
      BY <1>0, <3>1
    <3>4. ASSUME NEW i \in 1..Len(accepted) PROVE accepted[i] # pending[c]
      <4>1. accepted[i].src = c => accepted[i].seq < calls[c]
        BY <2>1 DEF Numbered
      <4> QED
        BY <1>00, <3>2, <4>1
    <3>5. \A i \in 1..Len(accepted') : accepted'[i].seq <= calls'[accepted'[i].src]
      <4> SUFFICES ASSUME NEW i \in 1..Len(accepted') PROVE accepted'[i].seq <= calls[accepted'[i].src]
        BY <2>1
      <4> QED
        BY <3>1, <3>2, <3>3 DEF Numbered
    <3>6. \A d \in Callers : pending'[d] # Nothing => pending'[d].src = d /\ pending'[d].seq = calls'[d]
      BY <2>1, <2>2 DEF Numbered
    <3>7. \A d \in Callers, i \in 1..Len(accepted') :
            pending'[d] # Nothing /\ accepted'[i].src = d => accepted'[i].seq < calls'[d]
      <4> SUFFICES ASSUME NEW d \in Callers, NEW i \in 1..Len(accepted'),
                          pending'[d] # Nothing, accepted'[i].src = d
                   PROVE  accepted'[i].seq < calls[d]
        BY <2>1
      <4>1. d # c /\ pending[d] # Nothing
        BY <2>2
      <4>2. i \in 1..Len(accepted) /\ accepted'[i] = accepted[i]
        BY <3>1, <3>2, <3>3, <4>1
      <4> QED
        BY <4>1, <4>2 DEF Numbered
    <3>8. \A i, j \in 1..Len(accepted') : accepted'[i] = accepted'[j] => i = j
      <4> SUFFICES ASSUME NEW i \in 1..Len(accepted'), NEW j \in 1..Len(accepted'), accepted'[i] = accepted'[j]
                   PROVE  i = j
        OBVIOUS
      <4>1. CASE i \in 1..Len(accepted) /\ j \in 1..Len(accepted)
        BY <3>1, <4>1 DEF Numbered
      <4>2. CASE i \notin 1..Len(accepted) /\ j \in 1..Len(accepted)
        BY <3>1, <3>3, <3>4, <4>2
      <4>3. CASE i \in 1..Len(accepted) /\ j \notin 1..Len(accepted)
        BY <3>1, <3>3, <3>4, <4>3
      <4>4. CASE i \notin 1..Len(accepted) /\ j \notin 1..Len(accepted)
        BY <3>3, <4>4
      <4> QED
        BY <4>1, <4>2, <4>3, <4>4
    <3> QED
      BY <3>5, <3>6, <3>7, <3>8 DEF Numbered
  <2> QED
    BY <2>1, <2>3, <2>4
<1>3. CASE Receive \/ FlushTick \/ TakeDone \/ DrainEmpty \/ WriteBatch \/ WriteFails
  BY <1>3, NumberedUntouched
  DEF Receive, FlushTick, TakeDone, DrainEmpty, WriteBatch, WriteFails, callerVars, historyVars
<1>4. CASE \/ Prune \/ PrunerExit \/ CloseMark \/ CloseSignal \/ CloseJoined \/ CloseExpired
           \/ StorageClose \/ Tick
  BY <1>4, NumberedUntouched
  DEF Prune, PrunerExit, CloseMark, CloseSignal, CloseJoined, CloseExpired, StorageClose, Tick,
      callerVars, historyVars
<1>5. CASE Restart
  <2>1. accepted' = accepted /\ calls' = calls /\ \A c \in Callers : pending'[c] = Nothing
    BY <1>5 DEF Restart
  <2> QED
    BY <2>1 DEF Numbered
<1>6. CASE UNCHANGED vars
  BY <1>6, NumberedUntouched DEF vars, callerVars, historyVars
<1> QED
  BY <1>1, <1>2, <1>3, <1>4, <1>5, <1>6 DEF Next

-----------------------------------------------------------------------------
\* What is settled by a step.

SettledSet == {accepted[i] : i \in 1..Settled}

\* Settled splits the accepted entries; the rest is the batch, then the channel.
LEMMA Lengths ==
    ASSUME TypeInv, FIFO
    PROVE  /\ Len(batch) \in Nat /\ Len(ch) \in Nat /\ Len(accepted) \in Nat
           /\ Settled \in Nat
           /\ Settled + Len(batch) + Len(ch) = Len(accepted)
<1>1. Len(batch) \in Nat /\ Len(ch) \in Nat /\ Len(accepted) \in Nat
  BY LenProperties DEF TypeInv, TypeOK
<1> QED
  BY <1>1 DEF FIFO, Settled

\* The batch is the group of entries that comes next, and nothing in it was
\* settled before or occurs in it twice (log_writer.go:121).
LEMMA BatchIsNext ==
    ASSUME TypeInv, FIFO, Numbered
    PROVE  /\ ElementsOf(batch) = {accepted[i] : i \in (Settled + 1)..(Settled + Len(batch))}
           /\ ElementsOf(batch) \cap SettledSet = {}
           /\ \A i, j \in 1..Len(batch) : batch[i] = batch[j] => i = j
<1>1. \A i \in 1..Len(batch) : /\ batch[i] = accepted[Settled + i]
                               /\ Settled + i \in (Settled + 1)..(Settled + Len(batch))
  BY Lengths DEF FIFO
<1>2. \A k \in (Settled + 1)..(Settled + Len(batch)) :
         k - Settled \in 1..Len(batch) /\ batch[k - Settled] = accepted[k]
  <2> SUFFICES ASSUME NEW k \in (Settled + 1)..(Settled + Len(batch))
               PROVE  k - Settled \in 1..Len(batch) /\ batch[k - Settled] = accepted[k]
    OBVIOUS
  <2>1. k - Settled \in 1..Len(batch) /\ Settled + (k - Settled) = k
    BY Lengths
  <2> QED
    BY <1>1, <2>1
<1>3. ElementsOf(batch) = {accepted[i] : i \in (Settled + 1)..(Settled + Len(batch))}
  BY <1>1, <1>2 DEF ElementsOf
<1>4. ElementsOf(batch) \cap SettledSet = {}
  <2> SUFFICES ASSUME NEW i \in 1..Len(batch), NEW j \in 1..Settled, batch[i] = accepted[j]
               PROVE  FALSE
    BY DEF ElementsOf, SettledSet
  <2>1. Settled + i \in 1..Len(accepted) /\ j \in 1..Len(accepted) /\ Settled + i # j
    BY Lengths
  <2> QED
    BY <1>1, <2>1 DEF Numbered
<1>5. ASSUME NEW i \in 1..Len(batch), NEW j \in 1..Len(batch), batch[i] = batch[j] PROVE i = j
  <2>1. Settled + i \in 1..Len(accepted) /\ Settled + j \in 1..Len(accepted)
    BY Lengths
  <2>2. Settled + i = Settled + j
    BY <1>1, <1>5, <2>1 DEF Numbered
  <2> QED
    BY <2>2, Lengths
<1> QED
  BY <1>3, <1>4, <1>5

\* flush() settles the batch, whatever WriteBatch returned (log_writer.go:110).
LEMMA FlushSettles ==
    ASSUME TypeInv, FIFO, Numbered, batch' = <<>>, UNCHANGED <<accepted, ch>>
    PROVE  SettledSet' = SettledSet \cup ElementsOf(batch)
<1>1. Len(batch') = 0
  OBVIOUS
<1>2. Settled' = Settled + Len(batch)
  BY <1>1, Lengths DEF Settled
<1>3. 1..(Settled + Len(batch)) = 1..Settled \cup (Settled + 1)..(Settled + Len(batch))
  BY Lengths
<1> QED
  BY <1>2, <1>3, BatchIsNext DEF SettledSet

\* A crash settles everything in memory.
LEMMA CrashSettles ==
    ASSUME TypeInv, FIFO, Numbered, batch' = <<>>, ch' = <<>>, accepted' = accepted
    PROVE  /\ SettledSet' = SettledSet \cup ElementsOf(InFlight)
           /\ ElementsOf(InFlight) \cap SettledSet = {}
<1>1. batch \in Seq(Entry) /\ ch \in Seq(Entry)
  BY DEF TypeInv, TypeOK
<1>2. Len(InFlight) = Len(batch) + Len(ch)
  BY <1>1, ConcatProperties DEF InFlight
<1>3. \A i \in 1..Len(InFlight) : InFlight[i] = accepted[Settled + i]
  <2> SUFFICES ASSUME NEW i \in 1..Len(InFlight) PROVE InFlight[i] = accepted[Settled + i]
    OBVIOUS
  <2>1. CASE i <= Len(batch)
    <3>1. InFlight[i] = batch[i] /\ i \in 1..Len(batch)
      BY <1>1, <1>2, <2>1, ConcatProperties, Lengths DEF InFlight
    <3> QED
      BY <3>1 DEF FIFO
  <2>2. CASE i > Len(batch)
    <3>1. InFlight[i] = ch[i - Len(batch)]
      BY <1>1, <1>2, <2>2, ConcatProperties, Lengths DEF InFlight
    <3>2. i - Len(batch) \in 1..Len(ch) /\ Settled + Len(batch) + (i - Len(batch)) = Settled + i
      BY <1>2, <2>2, Lengths
    <3> QED
      BY <3>1, <3>2 DEF FIFO
  <2> QED
    BY <2>1, <2>2, <1>2, Lengths
<1>4. Len(batch') = 0 /\ Len(ch') = 0
  OBVIOUS
<1>5. Settled' = Settled + Len(InFlight) /\ Len(InFlight) \in Nat
  BY <1>2, <1>4, Lengths DEF Settled
<1>6. \A k \in 1..(Settled + Len(InFlight)) :
         k \in 1..Settled \/ (k - Settled \in 1..Len(InFlight) /\ Settled + (k - Settled) = k)
  BY <1>5, Lengths
<1>7. \A k \in 1..Settled : k \in 1..(Settled + Len(InFlight))
  BY <1>5, Lengths
<1>8. \A i \in 1..Len(InFlight) : Settled + i \in 1..(Settled + Len(InFlight))
  BY <1>5, Lengths
<1>9. SettledSet' = SettledSet \cup ElementsOf(InFlight)
  BY <1>3, <1>5, <1>6, <1>7, <1>8 DEF SettledSet, ElementsOf
<1>10. ElementsOf(InFlight) \cap SettledSet = {}
  <2> SUFFICES ASSUME NEW i \in 1..Len(InFlight), NEW j \in 1..Settled, InFlight[i] = accepted[j]
               PROVE  FALSE
    BY DEF ElementsOf, SettledSet
  <2>1. Settled + i \in 1..Len(accepted) /\ j \in 1..Len(accepted) /\ Settled + i # j
    BY <1>2, Lengths
  <2> QED
    BY <1>3, <2>1 DEF Numbered
<1> QED
  BY <1>9, <1>10

\* A send settles nothing.
LEMMA SendSettlesNothing ==
    ASSUME TypeInv, FIFO, NEW c \in Callers, EnqueueSend(c)
    PROVE  /\ Settled' = Settled
           /\ SettledSet' = SettledSet
           /\ \A i \in 1..Len(accepted) : i \in 1..Len(accepted') /\ accepted'[i] = accepted[i]
<1>1. pending[c] \in Entry /\ ch \in Seq(Entry) /\ accepted \in Seq(Entry)
  BY PendingIsEntry DEF EnqueueSend, TypeInv, TypeOK
<1>2. batch' = batch
  BY DEF EnqueueSend
<1>3. CASE UNCHANGED <<ch, accepted>>
  BY <1>2, <1>3 DEF Settled, SettledSet
<1>4. CASE ch' = Append(ch, pending[c]) /\ accepted' = Append(accepted, pending[c])
  <2>1. /\ Len(ch') = Len(ch) + 1 /\ Len(accepted') = Len(accepted) + 1
        /\ \A i \in 1..Len(accepted) : accepted'[i] = accepted[i]
    BY <1>1, <1>4, AddLast
  <2>2. Settled' = Settled
    BY <1>2, <2>1, Lengths DEF Settled
  <2>3. \A i \in 1..Settled : i \in 1..Len(accepted)
    BY Lengths
  <2>4. \A i \in 1..Len(accepted) : i \in 1..Len(accepted')
    BY <2>1, Lengths
  <2> QED
    BY <2>1, <2>2, <2>3, <2>4 DEF SettledSet
<1> QED
  BY <1>3, <1>4 DEF EnqueueSend

\* A receive moves an entry from the channel to the batch.
LEMMA ReceiveSettlesNothing ==
    ASSUME TypeInv, FIFO, Receive
    PROVE  Settled' = Settled /\ SettledSet' = SettledSet /\ accepted' = accepted
<1>1. ch \in Seq(Entry) /\ batch \in Seq(Entry) /\ ch # <<>>
  BY DEF Receive, TypeInv, TypeOK
<1>2. Head(ch) \in Entry /\ Len(Tail(ch)) = Len(ch) - 1
  BY <1>1, TakeFirst
<1>3. Len(Append(batch, Head(ch))) = Len(batch) + 1
  BY <1>1, <1>2, AddLast
<1>4. accepted' = accepted /\ Len(ch') = Len(ch) - 1 /\ Len(batch') = Len(batch) + 1
  BY <1>2, <1>3 DEF Receive, historyVars
<1>5. Settled' = Settled
  BY <1>4, Lengths DEF Settled
<1> QED
  BY <1>4, <1>5 DEF SettledSet

-----------------------------------------------------------------------------
\* The table.

\* No entry has two rows.
OneRowEach == \A r, s \in rows \cup pruned : r.entry = s.entry => r = s

\* The counter is ahead of every id ever used.
IdsBelow == \A r \in rows \cup pruned : r.id < nextId

\* Together these are inductive.
EntryInv == TypeInv /\ FIFO /\ Numbered /\ Fate /\ OneRowEach /\ IdsBelow /\ IdOrder

\* Every row belongs to a settled entry.
LEMMA RowsAreSettled ==
    ASSUME Fate, NEW r \in rows \cup pruned
    PROVE  r.entry \in SettledSet
BY DEF Fate, SettledSet, Stored, Pruned

\* A step that leaves the table and the settled entries alone.
LEMMA FateUntouched ==
    ASSUME Fate, SettledSet' = SettledSet, UNCHANGED <<rows, pruned, lost>>,
           UNCHANGED <<faults, restarts>>, dbOpen' => dbOpen
    PROVE  Fate'
BY DEF Fate, SettledSet, Stored, Pruned

\* A commit stores the batch, next to what was stored (sqlite.go:116-145).
LEMMA CommitStores ==
    ASSUME WriteBatch
    PROVE  Stored' = Stored \cup ElementsOf(batch) /\ Pruned' = Pruned
<1>1. \A i \in 1..Len(batch) : RowFor(i).entry = batch[i]
  BY DEF RowFor
<1>2. rows' = rows \cup {RowFor(i) : i \in 1..Len(batch)} /\ pruned' = pruned
  BY DEF WriteBatch
<1> QED
  BY <1>1, <1>2 DEF Stored, Pruned, ElementsOf

\* Every action keeps the account of the accepted entries.
LEMMA FateStep ==
    ASSUME EntryInv, [Next]_vars
    PROVE  Fate'
<1> USE DEF EntryInv
<1>0. faults \in Nat /\ restarts \in Nat
  BY DEF TypeInv, TypeOK
<1>1. ASSUME NEW c \in Callers, NEW t \in Stamps, EnqueueCheck(c, t) PROVE Fate'
  BY <1>1, FateUntouched
  DEF EnqueueCheck, workerVars, tableVars, envVars, historyVars, SettledSet, Settled
<1>2. ASSUME NEW c \in Callers, EnqueueSend(c) PROVE Fate'
  BY <1>2, SendSettlesNothing, FateUntouched DEF EnqueueSend, tableVars, envVars
<1>3. CASE Receive
  BY <1>3, ReceiveSettlesNothing, FateUntouched DEF Receive, tableVars, envVars, historyVars
<1>4. CASE FlushTick \/ TakeDone \/ DrainEmpty
  BY <1>4, FateUntouched
  DEF FlushTick, TakeDone, DrainEmpty, tableVars, envVars, historyVars, SettledSet, Settled
<1>5. CASE WriteBatch
  <2>1. SettledSet' = SettledSet \cup ElementsOf(batch) /\ ElementsOf(batch) \cap SettledSet = {}
    BY <1>5, FlushSettles, BatchIsNext DEF WriteBatch, historyVars
  <2>2. Stored' = Stored \cup ElementsOf(batch) /\ Pruned' = Pruned
    BY <1>5, CommitStores
  <2>3. UNCHANGED <<lost, faults, restarts, dbOpen>>
    BY <1>5 DEF WriteBatch, envVars, historyVars
  <2> QED
    BY <2>1, <2>2, <2>3 DEF Fate, SettledSet
<1>6. CASE WriteFails
  <2>1. SettledSet' = SettledSet \cup ElementsOf(batch) /\ ElementsOf(batch) \cap SettledSet = {}
    BY <1>6, FlushSettles, BatchIsNext DEF WriteFails
  <2>2. lost' = lost \cup ElementsOf(batch) /\ Stored' = Stored /\ Pruned' = Pruned
    BY <1>6 DEF WriteFails, tableVars, Stored, Pruned
  <2>3. faults' + restarts' > 0 \/ ~dbOpen'
    BY <1>0, <1>6 DEF WriteFails, tableVars
  <2> QED
    BY <2>1, <2>2, <2>3 DEF Fate, SettledSet
<1>7. CASE Prune
  <2>1. SettledSet' = SettledSet
    BY <1>7 DEF Prune, workerVars, historyVars, SettledSet, Settled
  <2>2. /\ rows' = {r \in rows : ~Expired(r)}
        /\ pruned' = pruned \cup {r \in rows : Expired(r)}
        /\ UNCHANGED <<lost, faults, restarts, dbOpen>>
    BY <1>7 DEF Prune, envVars, historyVars
  <2>3. Stored' \cup Pruned' = Stored \cup Pruned
    BY <2>2 DEF Stored, Pruned
  <2>4. Stored' \cap Pruned' = {}
    <3> SUFFICES ASSUME NEW r \in rows', NEW s \in pruned', r.entry = s.entry PROVE FALSE
      BY DEF Stored, Pruned
    <3>1. r \in rows /\ ~Expired(r) /\ s \in rows \cup pruned
      BY <2>2
    <3>2. r = s
      BY <3>1 DEF OneRowEach
    <3>3. s \in pruned
      BY <2>2, <3>1, <3>2
    <3> QED
      BY <3>1, <3>3 DEF Fate, Stored, Pruned
  <2> QED
    BY <2>1, <2>2, <2>3, <2>4 DEF Fate, SettledSet
<1>8. CASE PrunerExit \/ CloseMark \/ CloseSignal \/ CloseJoined \/ CloseExpired \/ Tick
  BY <1>8, FateUntouched
  DEF PrunerExit, CloseMark, CloseSignal, CloseJoined, CloseExpired, Tick,
      workerVars, tableVars, envVars, historyVars, SettledSet, Settled
<1>9. CASE StorageClose
  BY <1>9, FateUntouched DEF StorageClose, workerVars, envVars, historyVars, SettledSet, Settled
<1>10. CASE Restart
  <2>1. SettledSet' = SettledSet \cup ElementsOf(InFlight) /\ ElementsOf(InFlight) \cap SettledSet = {}
    BY <1>10, CrashSettles DEF Restart
  <2>2. lost' = lost \cup ElementsOf(InFlight) /\ Stored' = Stored /\ Pruned' = Pruned
    BY <1>10 DEF Restart, Stored, Pruned
  <2>3. faults' + restarts' > 0
    BY <1>0, <1>10 DEF Restart
  <2> QED
    BY <2>1, <2>2, <2>3 DEF Fate, SettledSet
<1>11. CASE UNCHANGED vars
  BY <1>11, FateUntouched
  DEF vars, workerVars, tableVars, envVars, historyVars, SettledSet, Settled
<1> QED
  BY <1>1, <1>2, <1>3, <1>4, <1>5, <1>6, <1>7, <1>8, <1>9, <1>10, <1>11 DEF Next
\* A step that leaves the table alone, or prunes it, keeps rows and ids as
\* they were; the accepted entries may have become more.
LEMMA TableUntouched ==
    ASSUME TypeInv, OneRowEach, IdsBelow, IdOrder,
           rows' \cup pruned' = rows \cup pruned, nextId' = nextId,
           \A i \in 1..Len(accepted) : i \in 1..Len(accepted') /\ accepted'[i] = accepted[i]
    PROVE  (OneRowEach /\ IdsBelow /\ IdOrder)'
<1>1. OneRowEach' /\ IdsBelow'
  BY DEF OneRowEach, IdsBelow
<1>2. IdOrder'
  <2> SUFFICES ASSUME NEW r \in rows \cup pruned, NEW s \in rows \cup pruned, r # s, r.id <= s.id
               PROVE  \E i, j \in 1..Len(accepted') :
                         i < j /\ accepted'[i] = r.entry /\ accepted'[j] = s.entry
    BY DEF IdOrder
  <2>1. PICK i \in 1..Len(accepted), j \in 1..Len(accepted) :
           i < j /\ accepted[i] = r.entry /\ accepted[j] = s.entry
    BY DEF IdOrder
  <2> QED
    BY <2>1
<1> QED
  BY <1>1, <1>2

\* A commit gives the batch fresh ids in the order of acceptance: AUTOINCREMENT
\* never looks back (sqlite.go:65), and the batch comes after all that was
\* settled.
LEMMA CommitNumbersRows ==
    ASSUME EntryInv, WriteBatch
    PROVE  (OneRowEach /\ IdsBelow /\ IdOrder)'
<1> USE DEF EntryInv
<1> DEFINE New == {RowFor(i) : i \in 1..Len(batch)}
           Old == rows \cup pruned
<1>1. /\ rows' \cup pruned' = Old \cup New
      /\ nextId' = nextId + Len(batch) /\ accepted' = accepted
  BY DEF WriteBatch, historyVars
<1>2. nextId \in Nat /\ Len(batch) \in Nat
  BY Lengths DEF TypeInv, TypeOK
<1>3. \A i \in 1..Len(batch) : RowFor(i).id = nextId + i - 1 /\ RowFor(i).entry = batch[i]
  BY DEF RowFor
<1>4. \A r \in Old : r.id \in Nat /\ r.id < nextId /\ r.entry \in SettledSet
  BY RowsAreSettled DEF TypeInv, TypeOK, Row, IdsBelow
<1>5. \A r \in Old, i \in 1..Len(batch) : r.entry # RowFor(i).entry /\ r.id < RowFor(i).id
  <2> SUFFICES ASSUME NEW r \in Old, NEW i \in 1..Len(batch)
               PROVE  r.entry # RowFor(i).entry /\ r.id < RowFor(i).id
    OBVIOUS
  <2>1. batch[i] \in ElementsOf(batch)
    BY DEF ElementsOf
  <2>2. r.entry # RowFor(i).entry
    BY <1>3, <1>4, <2>1, BatchIsNext
  <2>3. r.id < RowFor(i).id
    BY <1>2, <1>3, <1>4
  <2> QED
    BY <2>2, <2>3
<1>6. OneRowEach'
  <2> SUFFICES ASSUME NEW r \in Old \cup New, NEW s \in Old \cup New, r.entry = s.entry PROVE r = s
    BY <1>1 DEF OneRowEach
  <2>1. CASE r \in Old /\ s \in Old
    BY <2>1 DEF OneRowEach
  <2>2. CASE r \in New /\ s \in New
    <3>1. PICK i \in 1..Len(batch), j \in 1..Len(batch) : r = RowFor(i) /\ s = RowFor(j)
      BY <2>2
    <3>2. i = j
      BY <1>3, <3>1, BatchIsNext
    <3> QED
      BY <3>1, <3>2
  <2> QED
    BY <1>5, <2>1, <2>2
<1>7. IdsBelow'
  <2> SUFFICES ASSUME NEW r \in Old \cup New PROVE r.id < nextId + Len(batch)
    BY <1>1 DEF IdsBelow
  <2>1. CASE r \in Old
    BY <1>2, <1>4, <2>1
  <2>2. CASE r \in New
    <3>1. PICK i \in 1..Len(batch) : r = RowFor(i)
      BY <2>2
    <3> QED
      BY <1>2, <1>3, <3>1
  <2> QED
    BY <2>1, <2>2
<1>8. IdOrder'
  <2> SUFFICES ASSUME NEW r \in Old \cup New, NEW s \in Old \cup New, r # s, r.id <= s.id
               PROVE  \E i, j \in 1..Len(accepted) : i < j /\ accepted[i] = r.entry /\ accepted[j] = s.entry
    BY <1>1 DEF IdOrder
  <2>1. CASE r \in Old /\ s \in Old
    BY <2>1 DEF IdOrder
  <2>2. CASE r \in Old /\ s \in New
    <3>1. PICK k \in 1..Settled : accepted[k] = r.entry
      BY <1>4, <2>2 DEF SettledSet
    <3>2. PICK j \in 1..Len(batch) : s = RowFor(j)
      BY <2>2
    <3>3. s.entry = accepted[Settled + j]
      BY <1>3, <3>2 DEF FIFO
    <3>4. k \in 1..Len(accepted) /\ Settled + j \in 1..Len(accepted) /\ k < Settled + j
      BY Lengths
    <3> QED
      BY <3>1, <3>3, <3>4
  <2>3. CASE r \in New /\ s \in Old
    <3>1. s.id < r.id /\ s.id \in Nat
      BY <1>4, <1>5, <2>3
    <3>2. r.id \in Nat
      BY <1>2, <1>3, <2>3
    <3> QED
      BY <3>1, <3>2
  <2>4. CASE r \in New /\ s \in New
    <3>1. PICK i \in 1..Len(batch), j \in 1..Len(batch) : r = RowFor(i) /\ s = RowFor(j)
      BY <2>4
    <3>2. i < j
      BY <1>2, <1>3, <3>1
    <3>3. r.entry = accepted[Settled + i] /\ s.entry = accepted[Settled + j]
      BY <1>3, <3>1 DEF FIFO
    <3>4. /\ Settled + i \in 1..Len(accepted) /\ Settled + j \in 1..Len(accepted)
          /\ Settled + i < Settled + j
      BY <3>2, Lengths
    <3> QED
      BY <3>3, <3>4
  <2> QED
    BY <2>1, <2>2, <2>3, <2>4
<1> QED
  BY <1>6, <1>7, <1>8

\* Every action keeps one row per entry and the order of ids.
LEMMA TableStep ==
    ASSUME EntryInv, [Next]_vars
    PROVE  (OneRowEach /\ IdsBelow /\ IdOrder)'
<1> USE DEF EntryInv
<1>1. ASSUME NEW c \in Callers, NEW t \in Stamps, EnqueueCheck(c, t)
      PROVE  (OneRowEach /\ IdsBelow /\ IdOrder)'
  BY <1>1, TableUntouched DEF EnqueueCheck, tableVars, historyVars
<1>2. ASSUME NEW c \in Callers, EnqueueSend(c) PROVE (OneRowEach /\ IdsBelow /\ IdOrder)'
  BY <1>2, SendSettlesNothing, TableUntouched DEF EnqueueSend, tableVars
<1>3. CASE Receive \/ FlushTick \/ TakeDone \/ DrainEmpty
  BY <1>3, TableUntouched DEF Receive, FlushTick, TakeDone, DrainEmpty, tableVars, historyVars
<1>4. CASE WriteBatch
  BY <1>4, CommitNumbersRows
<1>5. CASE WriteFails
  BY <1>5, TableUntouched DEF WriteFails, tableVars
<1>6. CASE Prune
  <2>1. rows' \cup pruned' = rows \cup pruned /\ nextId' = nextId /\ accepted' = accepted
    BY <1>6 DEF Prune, historyVars
  <2> QED
    BY <2>1, TableUntouched
<1>7. CASE PrunerExit \/ CloseMark \/ CloseSignal \/ CloseJoined \/ CloseExpired \/ Tick
  BY <1>7, TableUntouched
  DEF PrunerExit, CloseMark, CloseSignal, CloseJoined, CloseExpired, Tick, tableVars, historyVars
<1>8. CASE StorageClose \/ Restart
  BY <1>8, TableUntouched DEF StorageClose, Restart, historyVars
<1>9. CASE UNCHANGED vars
  BY <1>9, TableUntouched DEF vars, tableVars, historyVars
<1> QED
  BY <1>1, <1>2, <1>3, <1>4, <1>5, <1>6, <1>7, <1>8, <1>9 DEF Next

-----------------------------------------------------------------------------
\* The inductive invariant about entries and rows.
THEOREM EntriesInductive == Spec => []EntryInv
<1>1. Init => Numbered /\ Fate /\ OneRowEach /\ IdsBelow /\ IdOrder
  <2> SUFFICES ASSUME Init PROVE Numbered /\ Fate /\ OneRowEach /\ IdsBelow /\ IdOrder
    OBVIOUS
  <2>1. Len(accepted) = 0 /\ Len(batch) = 0 /\ Len(ch) = 0
    BY DEF Init
  <2>2. Settled = 0
    BY <2>1 DEF Settled
  <2>3. /\ rows = {} /\ pruned = {} /\ lost = {}
        /\ \A c \in Callers : pending[c] = Nothing
    BY DEF Init
  <2>4. Numbered
    BY <2>1, <2>3 DEF Numbered
  <2>5. Fate
    BY <2>2, <2>3 DEF Fate, Stored, Pruned
  <2>6. OneRowEach /\ IdsBelow /\ IdOrder
    BY <2>3 DEF OneRowEach, IdsBelow, IdOrder
  <2> QED
    BY <2>4, <2>5, <2>6
<1>2. TypeInv /\ TypeInv' /\ EntryInv /\ [Next]_vars => EntryInv'
  BY FIFOStep, NumberedStep, FateStep, TableStep DEF EntryInv
<1>3. Init /\ TypeInv /\ FIFO => EntryInv
  BY <1>1 DEF EntryInv
<1> QED
  BY <1>2, <1>3, TypeInductive, FIFOHolds, PTL DEF Spec

\* Every accepted entry is in memory, in the table, pruned or lost, exactly one
\* of them, and lost only to a fault, a restart or a database closed too early
\* (log_writer.go:103-111), for any number of callers, sizes and faults.
THEOREM FateHolds == Spec => []Fate
BY EntriesInductive, PTL DEF EntryInv

\* Ids follow the order in which Enqueue accepted (sqlite.go:65), so that the
\* table reads in that order whatever failed, was pruned or restarted.
THEOREM IdOrderHolds == Spec => []IdOrder
BY EntriesInductive, PTL DEF EntryInv

-----------------------------------------------------------------------------
\* The writer implements the journal.

\* What a caller holds has not been accepted before.
LEMMA PendingIsFresh ==
    ASSUME TypeInv, Numbered, NEW c \in Callers, pending[c] # Nothing
    PROVE  \A i \in 1..Len(accepted) : accepted[i] # pending[c]
<1> SUFFICES ASSUME NEW i \in 1..Len(accepted), accepted[i] = pending[c] PROVE FALSE
  OBVIOUS
<1>1. pending[c].src = c /\ pending[c].seq = calls[c]
  BY DEF Numbered
<1>2. accepted[i].seq < calls[c]
  BY <1>1 DEF Numbered
<1>3. calls[c] \in Nat
  BY BoundsAssumption DEF BoundsAssumption, TypeInv, TypeOK
<1> QED
  BY <1>1, <1>2, <1>3

\* One send is one Accept, and a flush one Settle that keeps or forfeits the
\* whole batch; a crash forfeits what is in memory, at most BufferSize +
\* BatchSize entries; pruning is Expire; nothing else a reader of the table or
\* a caller could see ever happens.
THEOREM ImplementsJournal == Spec => JournalSpec
<1>1. Init => Journal!Init
  <2> SUFFICES ASSUME Init PROVE accepted = <<>> /\ Settled = 0 /\ Stored = {}
    BY DEF Journal!Init
  <2>1. Len(accepted) = 0 /\ Len(batch) = 0 /\ Len(ch) = 0
    BY DEF Init
  <2>2. Settled = 0
    BY <2>1 DEF Settled
  <2> QED
    BY <2>2 DEF Init, Stored
<1>2. EntryInv /\ [Next]_vars => [Journal!Next]_(Journal!vars)
  <2> SUFFICES ASSUME EntryInv, [Next]_vars PROVE Journal!Next \/ UNCHANGED Journal!vars
    OBVIOUS
  <2> USE DEF EntryInv
  <2>1. ASSUME UNCHANGED <<accepted, batch, ch, rows>> PROVE UNCHANGED Journal!vars
    BY <2>1 DEF Journal!vars, Settled, Stored
  <2>2. ASSUME NEW n \in Nat, n <= Len(accepted) - Settled, Settled' = Settled + n, accepted' = accepted,
               \/ Stored' = Stored \cup {accepted[i] : i \in (Settled + 1)..(Settled + n)}
               \/ Stored' = Stored
        PROVE  Journal!Next \/ UNCHANGED Journal!vars
    <3>1. Journal!Settle(n)
      BY <2>2 DEF Journal!Settle, Journal!Group
    <3>2. CASE n > 0
      <4>1. n \in 1..(Len(accepted) - Settled)
        BY <2>2, <3>2, Lengths
      <4> QED
        BY <3>1, <4>1 DEF Journal!Next
    <3>3. CASE n = 0
      <4>1. (Settled + 1)..(Settled + n) = {} /\ Settled + n = Settled
        BY <3>3, Lengths
      <4>2. {accepted[i] : i \in (Settled + 1)..(Settled + n)} = {}
        BY <4>1
      <4> QED
        BY <2>2, <4>1, <4>2 DEF Journal!vars
    <3> QED
      BY <3>2, <3>3
  <2>3. ASSUME NEW c \in Callers, NEW t \in Stamps, EnqueueCheck(c, t) PROVE UNCHANGED Journal!vars
    BY <2>1, <2>3 DEF EnqueueCheck, workerVars, tableVars, historyVars
  <2>4. ASSUME NEW c \in Callers, EnqueueSend(c) PROVE Journal!Next \/ UNCHANGED Journal!vars
    <3>1. Settled' = Settled /\ Stored' = Stored
      BY <2>4, SendSettlesNothing DEF EnqueueSend, tableVars, Stored
    <3>2. CASE UNCHANGED <<ch, accepted>>
      BY <3>1, <3>2 DEF Journal!vars
    <3>3. CASE Len(ch) < BufferSize /\ accepted' = Append(accepted, pending[c])
      <4>1. Len(batch) <= BatchSize /\ BufferSize \in Nat /\ BatchSize \in Nat
        BY SizeAssumption DEF SizeAssumption, TypeInv, TypeOK
      <4>2. Len(accepted) - Settled < BufferSize + BatchSize
        BY <3>3, <4>1, Lengths
      <4>3. pending[c] \in Entry /\ \A i \in 1..Len(accepted) : accepted[i] # pending[c]
        BY <2>4, PendingIsEntry, PendingIsFresh DEF EnqueueSend, TypeInv
      <4>4. Journal!Accept(pending[c])
        BY <3>1, <3>3, <4>2, <4>3 DEF Journal!Accept
      <4> QED
        BY <4>3, <4>4 DEF Journal!Next
    <3> QED
      BY <2>4, <3>2, <3>3 DEF EnqueueSend
  <2>5. CASE Receive
    BY <2>5, ReceiveSettlesNothing DEF Receive, tableVars, Journal!vars, Stored
  <2>6. CASE FlushTick \/ TakeDone \/ DrainEmpty
    BY <2>1, <2>6 DEF FlushTick, TakeDone, DrainEmpty, tableVars, historyVars
  <2>7. CASE WriteBatch
    <3>1. Stored' = Stored \cup {accepted[i] : i \in (Settled + 1)..(Settled + Len(batch))}
      BY <2>7, CommitStores, BatchIsNext
    <3>2. batch' = <<>> /\ ch' = ch /\ accepted' = accepted
      BY <2>7 DEF WriteBatch, historyVars
    <3>3. Settled' = Settled + Len(batch) /\ Len(batch) <= Len(accepted) - Settled /\ Len(batch) \in Nat
      <4>1. Len(batch') = 0
        BY <3>2
      <4> QED
        BY <3>2, <4>1, Lengths DEF Settled
    <3> QED
      BY <2>2, <3>1, <3>2, <3>3
  <2>8. CASE WriteFails
    <3>1. batch' = <<>> /\ ch' = ch /\ accepted' = accepted /\ Stored' = Stored
      BY <2>8 DEF WriteFails, tableVars, Stored
    <3>2. Settled' = Settled + Len(batch) /\ Len(batch) <= Len(accepted) - Settled /\ Len(batch) \in Nat
      <4>1. Len(batch') = 0
        BY <3>1
      <4> QED
        BY <3>1, <4>1, Lengths DEF Settled
    <3> QED
      BY <2>2, <3>1, <3>2
  <2>9. CASE Prune
    <3>1. Stored' = Stored \ (Stored \ Stored')
      BY <2>9 DEF Prune, Stored
    <3>2. Settled' = Settled /\ accepted' = accepted
      BY <2>9 DEF Prune, workerVars, historyVars, Settled
    <3>3. Journal!Expire
      BY <3>1, <3>2 DEF Journal!Expire
    <3> QED
      BY <3>3 DEF Journal!Next
  <2>10. CASE PrunerExit \/ CloseMark \/ CloseSignal \/ CloseJoined \/ CloseExpired \/ Tick
    BY <2>1, <2>10
    DEF PrunerExit, CloseMark, CloseSignal, CloseJoined, CloseExpired, Tick,
        workerVars, tableVars, historyVars
  <2>11. CASE StorageClose
    BY <2>1, <2>11 DEF StorageClose, workerVars, historyVars
  <2>12. CASE Restart
    <3>1. batch' = <<>> /\ ch' = <<>> /\ accepted' = accepted /\ Stored' = Stored
      BY <2>12 DEF Restart, Stored
    <3>2. Settled' = Len(accepted)
      <4>1. Len(batch') = 0 /\ Len(ch') = 0
        BY <3>1
      <4> QED
        BY <3>1, <4>1, Lengths DEF Settled
    <3>3. /\ Len(accepted) - Settled \in Nat
          /\ Settled' = Settled + (Len(accepted) - Settled)
      BY <3>2, Lengths
    <3> QED
      BY <2>2, <3>1, <3>3, Lengths
  <2>13. CASE UNCHANGED vars
    BY <2>1, <2>13 DEF vars, workerVars, tableVars, historyVars
  <2> QED
    BY <2>3, <2>4, <2>5, <2>6, <2>7, <2>8, <2>9, <2>10, <2>11, <2>12, <2>13 DEF Next
<1> QED
  BY <1>1, <1>2, EntriesInductive, PTL DEF Spec, JournalSpec, Journal!Spec
=============================================================================

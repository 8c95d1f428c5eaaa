----------------------------- MODULE LogWriter -----------------------------
(***************************************************************************)
(* AsyncLogWriter (internal/storage/log_writer.go) over the log table of   *)
(* SQLiteStorage (internal/storage/sqlite.go).                             *)
(*                                                                         *)
(* Any number of goroutines (HTTP handlers, log tailers, the server's own  *)
(* start-up logs) call Enqueue, which drops an entry when the buffered     *)
(* channel is full.  One worker goroutine moves entries from the channel   *)
(* into a batch and writes each batch in one transaction; a second one     *)
(* prunes rows past their retention.  Close marks the writer closed, tells *)
(* both goroutines to stop and waits for them until its context expires;   *)
(* the server then closes the database, whatever Close returned.           *)
(*                                                                         *)
(* A process crash, or a normal exit, is followed by Restart: the table    *)
(* survives, everything else is gone.                                      *)
(***************************************************************************)
EXTENDS Integers, Sequences, FiniteSets

CONSTANTS
    Callers,      \* goroutines that call Enqueue, one call at a time each
    MaxCalls,     \* bound: calls each of them makes
    BufferSize,   \* capacity of the channel
    BatchSize,    \* entries per transaction
    Retention,    \* age, in clock units, past which a row is pruned
    Stamps,       \* timestamps an entry may carry; 0 is UnixMilli() == 0
    MaxTime,      \* bound: the clock stops here
    MaxFaults,    \* bound: transactions that fail while the database is open
    MaxRestarts   \* bound: exits or crashes of the process

ASSUME BoundsAssumption ==
    /\ MaxCalls \in Nat
    /\ MaxTime \in Nat \ {0}
    /\ MaxFaults \in Nat
    /\ MaxRestarts \in Nat

\* NewAsyncLogWriter replaces sizes that are not positive by defaults.
ASSUME SizeAssumption ==
    /\ BufferSize \in Nat \ {0}
    /\ BatchSize \in Nat \ {0}
    /\ Retention \in Nat \ {0}

ASSUME StampAssumption == Stamps \subseteq Nat

ASSUME CallersAssumption == IsFiniteSet(Callers)

VARIABLES
    calls,     \* calls[c]: calls of Enqueue caller c has started
    pending,   \* pending[c]: the entry c holds between the closed-check and
               \* the send, or Nothing
    ch,        \* the buffered channel
    batch,     \* the worker's batch slice
    worker,    \* where the worker goroutine is
    pruner,    \* where the prune goroutine is
    closed,    \* the flag guarded by w.mu
    done,      \* the done channel is closed
    closer,    \* where the goroutine that calls Close is
    dbOpen,    \* the database handle is open
    rows,      \* the table system_logs
    nextId,    \* the AUTOINCREMENT counter of the table
    now,       \* wall clock
    faults,    \* failed transactions so far
    restarts,  \* restarts so far
    accepted,  \* history: entries Enqueue returned true for, in send order
    lost,      \* history: accepted entries that will never be written
    pruned,    \* history: rows deleted by retention
    promised   \* history: Len(accepted) when Close took the closed flag

callerVars  == <<calls, pending>>
workerVars  == <<ch, batch, worker>>
closeVars   == <<pruner, closed, done, closer, promised>>
tableVars   == <<rows, nextId, pruned, dbOpen>>
envVars     == <<now, faults, restarts>>
historyVars == <<accepted, lost>>

vars == <<callerVars, workerVars, closeVars, tableVars, envVars, historyVars>>

Entry   == [src : Callers, seq : 1..MaxCalls, ts : Stamps]
Nothing == [src |-> "nobody"]

Row == [id : Nat \ {0}, entry : Entry, ts : Nat]

ElementsOf(s) == {s[i] : i \in 1..Len(s)}

(* The worker's goroutine: the outer select; inside flush() called from it; *)
(* the inner select after done; flush() called from that; the last flush() *)
(* of the drain loop; returned.                                            *)
WorkerStates == {"select", "flush", "drain", "drainFlush", "lastFlush", "exited"}

\* Where the worker continues after flush().
AfterFlush(w) ==
    CASE w = "flush"      -> "select"
      [] w = "drainFlush" -> "drain"
      [] w = "lastFlush"  -> "exited"

Flushing == worker \in {"flush", "drainFlush", "lastFlush"}

\* Entries accepted but neither written nor given up yet, oldest first.
InFlight == batch \o ch

\* How many accepted entries have been written or given up.
Settled == Len(accepted) - Len(batch) - Len(ch)

Stored == {r.entry : r \in rows}
Pruned == {r.entry : r \in pruned}

-----------------------------------------------------------------------------
(* Enqueue *)

\* Variant of EnqueueCheck: the closed flag is not looked at.
EnqueueCheckOpen(c, t) ==
    /\ pending[c] = Nothing
    /\ calls[c] < MaxCalls
    /\ calls' = [calls EXCEPT ![c] = @ + 1]
    /\ pending' = [pending EXCEPT ![c] = [src |-> c, seq |-> calls[c] + 1, ts |-> t]]
    /\ UNCHANGED <<workerVars, closeVars, tableVars, envVars, historyVars>>

\* The first half: the closed flag is read under w.mu, which is released.
EnqueueCheck(c, t) ==
    /\ pending[c] = Nothing
    /\ calls[c] < MaxCalls
    /\ calls' = [calls EXCEPT ![c] = @ + 1]
    /\ IF closed
       THEN UNCHANGED pending
       ELSE pending' = [pending EXCEPT ![c] = [src |-> c, seq |-> calls[c] + 1, ts |-> t]]
    /\ UNCHANGED <<workerVars, closeVars, tableVars, envVars, historyVars>>

\* Variant of EnqueueSend: the send ignores the capacity of the channel.
EnqueueSendUnbounded(c) ==
    /\ pending[c] # Nothing
    /\ pending' = [pending EXCEPT ![c] = Nothing]
    /\ ch' = Append(ch, pending[c])
    /\ accepted' = Append(accepted, pending[c])
    /\ UNCHANGED <<calls, batch, worker, closeVars, tableVars, envVars, lost>>

\* The second half: the non-blocking send; a full channel drops the entry.
EnqueueSend(c) ==
    /\ pending[c] # Nothing
    /\ pending' = [pending EXCEPT ![c] = Nothing]
    /\ \/ /\ Len(ch) < BufferSize
          /\ ch' = Append(ch, pending[c])
          /\ accepted' = Append(accepted, pending[c])
       \/ /\ Len(ch) >= BufferSize
          /\ UNCHANGED <<ch, accepted>>
    /\ UNCHANGED <<calls, batch, worker, closeVars, tableVars, envVars, lost>>

-----------------------------------------------------------------------------
(* batchWorker *)

\* Variant of Receive: a full batch is flushed in place of the append.
ReceiveSkippingWhenFull ==
    /\ worker \in {"select", "drain"}
    /\ ch # <<>>
    /\ ch' = Tail(ch)
    /\ IF Len(batch) + 1 < BatchSize
       THEN batch' = Append(batch, Head(ch)) /\ UNCHANGED worker
       ELSE /\ UNCHANGED batch
            /\ worker' = IF worker = "select" THEN "flush" ELSE "drainFlush"
    /\ UNCHANGED <<callerVars, closeVars, tableVars, envVars, historyVars>>

\* A receive in the outer or the inner select; a full batch is flushed.
Receive ==
    /\ worker \in {"select", "drain"}
    /\ ch # <<>>
    /\ ch' = Tail(ch)
    /\ batch' = Append(batch, Head(ch))
    /\ worker' = IF Len(batch') < BatchSize THEN worker
                 ELSE IF worker = "select" THEN "flush" ELSE "drainFlush"
    /\ UNCHANGED <<callerVars, closeVars, tableVars, envVars, historyVars>>

\* Variant of FlushTick: the ticker flushes full batches only.
FlushTickFullBatch ==
    /\ worker = "select"
    /\ Len(batch) >= BatchSize
    /\ worker' = "flush"
    /\ UNCHANGED <<callerVars, ch, batch, closeVars, tableVars, envVars, historyVars>>

\* The ticker fires; flush() of an empty batch returns at once.
FlushTick ==
    /\ worker = "select"
    /\ batch # <<>>
    /\ worker' = "flush"
    /\ UNCHANGED <<callerVars, ch, batch, closeVars, tableVars, envVars, historyVars>>

\* Variant of TakeDone: the last batch is flushed without draining ch.
TakeDoneNoDrain ==
    /\ worker = "select"
    /\ done
    /\ worker' = IF batch = <<>> THEN "exited" ELSE "lastFlush"
    /\ UNCHANGED <<callerVars, ch, batch, closeVars, tableVars, envVars, historyVars>>

\* The outer select takes the closed done channel.
TakeDone ==
    /\ worker = "select"
    /\ done
    /\ worker' = "drain"
    /\ UNCHANGED <<callerVars, ch, batch, closeVars, tableVars, envVars, historyVars>>

\* Variant of DrainEmpty: the drain loop forgets the flush of a partial batch.
DrainEmptyNoFlush ==
    /\ worker = "drain"
    /\ ch = <<>>
    /\ batch = <<>>
    /\ worker' = "exited"
    /\ UNCHANGED <<callerVars, ch, batch, closeVars, tableVars, envVars, historyVars>>

\* The inner select finds the channel empty: the last flush() and return.
DrainEmpty ==
    /\ worker = "drain"
    /\ ch = <<>>
    /\ worker' = IF batch = <<>> THEN "exited" ELSE "lastFlush"
    /\ UNCHANGED <<callerVars, ch, batch, closeVars, tableVars, envVars, historyVars>>

\* The row for the i-th entry of the batch; a zero timestamp becomes the
\* time of the write.
RowFor(i) == [id    |-> nextId + i - 1,
              entry |-> batch[i],
              ts    |-> IF batch[i].ts = 0 THEN now ELSE batch[i].ts]

\* Variant of WriteBatch: batch = batch[:0] is forgotten after the commit.
WriteBatchNoReset ==
    /\ Flushing
    /\ dbOpen
    /\ rows' = rows \cup {RowFor(i) : i \in 1..Len(batch)}
    /\ nextId' = nextId + Len(batch)
    /\ worker' = AfterFlush(worker)
    /\ UNCHANGED <<callerVars, ch, batch, closeVars, pruned, dbOpen, envVars, historyVars>>

\* flush() whose WriteBatch commits: all rows of the batch, or none.
WriteBatch ==
    /\ Flushing
    /\ dbOpen
    /\ rows' = rows \cup {RowFor(i) : i \in 1..Len(batch)}
    /\ nextId' = nextId + Len(batch)
    /\ batch' = <<>>
    /\ worker' = AfterFlush(worker)
    /\ UNCHANGED <<callerVars, ch, closeVars, pruned, dbOpen, envVars, historyVars>>

\* Variant of WriteFails: without a transaction the first rows stay.
WriteFailsNoRollback ==
    /\ Flushing
    /\ dbOpen
    /\ faults < MaxFaults
    /\ faults' = faults + 1
    /\ rows' = rows \cup {RowFor(1)}
    /\ nextId' = nextId + 1
    /\ lost' = lost \cup ElementsOf(Tail(batch))
    /\ batch' = <<>>
    /\ worker' = AfterFlush(worker)
    /\ UNCHANGED <<callerVars, ch, closeVars, pruned, dbOpen, now, restarts, accepted>>

\* flush() whose WriteBatch returns an error: it is logged, the transaction
\* rolled back, and the batch is emptied all the same.
WriteFails ==
    /\ Flushing
    /\ IF dbOpen
       THEN faults < MaxFaults /\ faults' = faults + 1
       ELSE UNCHANGED faults
    /\ lost' = lost \cup ElementsOf(batch)
    /\ batch' = <<>>
    /\ worker' = AfterFlush(worker)
    /\ UNCHANGED <<callerVars, ch, closeVars, tableVars, now, restarts, accepted>>

-----------------------------------------------------------------------------
(* pruneWorker *)

Expired(r) == r.ts < now - Retention

\* Variant of Prune: a table without AUTOINCREMENT takes up ids again.
PruneFreeingIds ==
    /\ pruner = "select"
    /\ dbOpen
    /\ \E r \in rows : Expired(r)
    /\ rows' = {r \in rows : ~Expired(r)}
    /\ pruned' = pruned \cup {r \in rows : Expired(r)}
    /\ nextId' = CHOOSE n \in 1..nextId :
                    /\ \A r \in rows' : r.id < n
                    /\ n = 1 \/ \E r \in rows' : r.id = n - 1
    /\ UNCHANGED <<callerVars, workerVars, closeVars, dbOpen, envVars, historyVars>>

\* PruneOldLogs in one statement; on a closed database it only logs.
Prune ==
    /\ pruner = "select"
    /\ dbOpen
    /\ \E r \in rows : Expired(r)
    /\ rows' = {r \in rows : ~Expired(r)}
    /\ pruned' = pruned \cup {r \in rows : Expired(r)}
    /\ UNCHANGED <<callerVars, workerVars, closeVars, nextId, dbOpen, envVars, historyVars>>

PrunerExit ==
    /\ pruner = "select"
    /\ done
    /\ pruner' = "exited"
    /\ UNCHANGED <<callerVars, workerVars, closed, done, closer, promised,
                   tableVars, envVars, historyVars>>

-----------------------------------------------------------------------------
(* Close, and what the server does after it *)

\* closed = true under w.mu.
CloseMark ==
    /\ closer = "idle"
    /\ closer' = "signal"
    /\ closed' = TRUE
    /\ promised' = Len(accepted)
    /\ UNCHANGED <<callerVars, workerVars, pruner, done, tableVars, envVars, historyVars>>

\* close(w.done)
CloseSignal ==
    /\ closer = "signal"
    /\ closer' = "wait"
    /\ done' = TRUE
    /\ UNCHANGED <<callerVars, workerVars, pruner, closed, promised,
                   tableVars, envVars, historyVars>>

\* Variant of CloseJoined: wg.Add(1), which leaves the pruner out.
CloseJoinedWorkerOnly ==
    /\ closer = "wait"
    /\ worker = "exited"
    /\ closer' = "nil"
    /\ UNCHANGED <<callerVars, workerVars, pruner, closed, done, promised,
                   tableVars, envVars, historyVars>>

\* Both goroutines called wg.Done(): Close returns nil.
CloseJoined ==
    /\ closer = "wait"
    /\ worker = "exited"
    /\ pruner = "exited"
    /\ closer' = "nil"
    /\ UNCHANGED <<callerVars, workerVars, pruner, closed, done, promised,
                   tableVars, envVars, historyVars>>

\* The context ends first: Close returns ctx.Err().
CloseExpired ==
    /\ closer = "wait"
    /\ closer' = "ctxErr"
    /\ UNCHANGED <<callerVars, workerVars, pruner, closed, done, promised,
                   tableVars, envVars, historyVars>>

\* Server.Shutdown closes the database after Close, whatever it returned.
StorageClose ==
    /\ closer \in {"nil", "ctxErr"}
    /\ dbOpen
    /\ dbOpen' = FALSE
    /\ UNCHANGED <<callerVars, workerVars, closeVars, rows, nextId, pruned, envVars, historyVars>>

-----------------------------------------------------------------------------
(* Environment *)

Tick ==
    /\ now < MaxTime
    /\ now' = now + 1
    /\ UNCHANGED <<callerVars, workerVars, closeVars, tableVars, faults, restarts, historyVars>>

\* The process exits or is killed, and a new one opens the same database.
Restart ==
    /\ restarts < MaxRestarts
    /\ restarts' = restarts + 1
    /\ lost' = lost \cup ElementsOf(InFlight)
    /\ pending' = [c \in Callers |-> Nothing]
    /\ ch' = <<>>
    /\ batch' = <<>>
    /\ worker' = "select"
    /\ pruner' = "select"
    /\ closed' = FALSE
    /\ done' = FALSE
    /\ closer' = "idle"
    /\ promised' = 0
    /\ dbOpen' = TRUE
    /\ UNCHANGED <<calls, rows, nextId, pruned, now, faults, accepted>>

-----------------------------------------------------------------------------
Init ==
    /\ calls = [c \in Callers |-> 0]
    /\ pending = [c \in Callers |-> Nothing]
    /\ ch = <<>>
    /\ batch = <<>>
    /\ worker = "select"
    /\ pruner = "select"
    /\ closed = FALSE
    /\ done = FALSE
    /\ closer = "idle"
    /\ dbOpen = TRUE
    /\ rows = {}
    /\ nextId = 1
    /\ now = 1
    /\ faults = 0
    /\ restarts = 0
    /\ accepted = <<>>
    /\ lost = {}
    /\ pruned = {}
    /\ promised = 0

Next ==
    \/ \E c \in Callers, t \in Stamps : EnqueueCheck(c, t)
    \/ \E c \in Callers : EnqueueSend(c)
    \/ Receive
    \/ FlushTick
    \/ TakeDone
    \/ DrainEmpty
    \/ WriteBatch
    \/ WriteFails
    \/ Prune
    \/ PrunerExit
    \/ CloseMark
    \/ CloseSignal
    \/ CloseJoined
    \/ CloseExpired
    \/ StorageClose
    \/ Tick
    \/ Restart

Spec == Init /\ [][Next]_vars

(* A goroutine that can run is run.  Go's select picks among its ready      *)
(* cases at random, so a case that is ready again and again is taken in    *)
(* the end: strong fairness for the two cases a receive can delay.  Nobody *)
(* is obliged to call Enqueue or Close, and faults need not happen.        *)
Fairness ==
    /\ \A c \in Callers : WF_vars(EnqueueSend(c))
    /\ WF_vars(Receive)
    /\ SF_vars(FlushTick)
    /\ SF_vars(TakeDone)
    /\ WF_vars(DrainEmpty)
    /\ WF_vars(WriteBatch \/ WriteFails)
    /\ WF_vars(PrunerExit)
    /\ WF_vars(CloseSignal)
    /\ WF_vars(CloseJoined \/ CloseExpired)

FairSpec == Spec /\ Fairness

-----------------------------------------------------------------------------
(* Properties *)

\* Type invariant: the shape of every variable, and the two capacities the
\* code relies on for its memory bound: the channel never holds more than
\* BufferSize entries, the batch never more than BatchSize (log_writer.go).
TypeOK ==
    /\ calls \in [Callers -> 0..MaxCalls]
    /\ pending \in [Callers -> Entry \cup {Nothing}]
    /\ ch \in Seq(Entry) /\ Len(ch) <= BufferSize
    /\ batch \in Seq(Entry) /\ Len(batch) <= BatchSize
    /\ worker \in WorkerStates
    /\ pruner \in {"select", "exited"}
    /\ closed \in BOOLEAN
    /\ done \in BOOLEAN
    /\ closer \in {"idle", "signal", "wait", "nil", "ctxErr"}
    /\ dbOpen \in BOOLEAN
    /\ rows \subseteq Row
    /\ nextId \in Nat \ {0}
    /\ now \in 1..MaxTime
    /\ faults \in 0..MaxFaults
    /\ restarts \in 0..MaxRestarts
    /\ accepted \in Seq(Entry)
    /\ lost \subseteq Entry
    /\ pruned \subseteq Row
    /\ promised \in Nat

\* What is in flight is always exactly the newest accepted entries, in the
\* order their sends succeeded: however sends, receives, flushes, failures
\* and restarts interleave, no entry is duplicated, skipped or overtaken on
\* its way from Enqueue through the channel into a batch.
FIFO ==
    /\ Settled >= 0
    /\ \A i \in 1..Len(batch) : batch[i] = accepted[Settled + i]
    /\ \A i \in 1..Len(ch) : ch[i] = accepted[Settled + Len(batch) + i]

\* Every accepted entry has exactly one fate: it is still in flight, it is a
\* row, its row was pruned, or it was lost; and it is lost only to a failed
\* transaction, a restart, or a database closed before the worker was done.
Fate ==
    /\ Stored \cup Pruned \cup lost = {accepted[i] : i \in 1..Settled}
    /\ Stored \cap Pruned = {}
    /\ Stored \cap lost = {}
    /\ Pruned \cap lost = {}
    /\ lost # {} => faults + restarts > 0 \/ ~dbOpen

\* Row ids follow the order of acceptance, over batches, failures, pruning
\* and restarts: the tie-break QueryLogs has for equal timestamps, and what a
\* reader of the table relies on to see a caller's logs in order.
IdOrder ==
    \A r, s \in rows \cup pruned :
        r # s /\ r.id <= s.id =>
            \E i, j \in 1..Len(accepted) :
                i < j /\ accepted[i] = r.entry /\ accepted[j] = s.entry

\* An entry whose Enqueue returned before Close took the flag is no longer in
\* memory when the worker returns: the drain loop of batchWorker reached it.
CloseDrains == worker = "exited" => Settled >= promised

\* Once Close has returned nil no goroutine of the writer touches the table,
\* so the server may close the database under it (Server.Shutdown does).
NoWriteAfterClose == [][closer = "nil" /\ restarts' = restarts => UNCHANGED rows]_vars

\* What the worker may still have to do: for each caller that passed the closed
\* check a send, a receive, a write and what leads to it; less and less of that
\* for each entry in the channel and in the batch; and its own way to the return.
Left ==
    4 * Cardinality({c \in Callers : pending[c] # Nothing}) + 3 * Len(ch) + 2 * Len(batch)
    + CASE worker = "select" -> 3 [] worker = "flush" -> 2 [] worker = "drain" -> 1
        [] OTHER -> 0

\* Once Close took the flag, nothing adds to the worker's work, and whatever the
\* worker or a caller does makes it less: whichever cases the selects take and
\* however its writes end, the worker returns after at most Left more steps.
ClosingShrinks ==
    [][closed /\ closed' =>
          Left' < Left \/ UNCHANGED <<pending, ch, batch, worker>>]_vars

\* An accepted entry is settled in the end, even when fewer than a batch are
\* waiting and no other entry ever comes; the exception is an entry sent
\* after the worker returned.
EntriesSettle ==
    \A n \in 1..(Cardinality(Callers) * MaxCalls) :
        Len(accepted) >= n ~> Settled >= n \/ worker = "exited"

\* After Close signals, both goroutines return, so that Close cannot hang on
\* anything but the database.
WorkersStop == done ~> ~done \/ (worker = "exited" /\ pruner = "exited")

\* What Enqueue and Close promise together (comments at log_writer.go:75 and
\* 174): when the worker has returned, nothing accepted is left in memory.
NoOrphan == worker = "exited" => ch = <<>>

-----------------------------------------------------------------------------
(* The writer implements the journal of LogJournal.tla. *)
Journal == INSTANCE LogJournal WITH
    Entries  <- Entry,
    Capacity <- BufferSize + BatchSize,
    settled  <- Settled,
    kept     <- Stored

JournalSpec == Journal!Spec
=============================================================================

# Sugi in TLA+

Sugi is a single-binary observability server written in Go: it samples host
metrics into memory, collects logs into SQLite, and serves both over HTTP with
a live event stream. This directory holds its formal model: TLA+ modules, TLC
configurations that check them on small instances, and proofs for TLAPS.

## 1. The system

```
 collectors ──> metricSamplingLoop ──Push──> RingBuffer <──GetLatest/GetAll/GetLastN── API handlers
                      │                                            ▲
                      └─BroadcastSnapshot──┐                       │greeting
 log files ──> tailers ──┐                 ▼                       │
 POST /logs ─> handlers ─┼─BroadcastLog─> SSEHub ──client chan──> stream handlers ──> browsers
                         └─Enqueue──> AsyncLogWriter ──WriteBatch/PruneOldLogs──> SQLite <── queries
 SIGTERM ──> Server.Shutdown: hub.Close, harvester.Stop, http.Shutdown(ctx), writer.Close(ctx), sqlite.Close
```

| Component | Source | State | Operations | Hard behaviours | What makes it correct |
|---|---|---|---|---|---|
| AsyncLogWriter | `internal/storage/log_writer.go` | buffered channel, batch slice, `closed`, `done` | Enqueue, two goroutines, Close | Enqueue checks and sends in two steps; drain on close; errors swallowed; Close with a deadline | every accepted entry has exactly one fate, in order; Close leaves nothing behind |
| SQLiteStorage | `internal/storage/sqlite.go` | table `system_logs`, AUTOINCREMENT | WriteBatch, QueryLogs, CountLogs, PruneOldLogs, Close | transactions, closing under users | a batch is stored whole or not at all; ids follow acceptance |
| Backup/Restore | `internal/storage/backup.go` | the database, its log, copies | Backup, RestoreDatabase | failures and kills between any two file operations; writes of another process | a backup is one committed state; what was committed is found |
| RingBuffer | `internal/storage/ringbuffer.go` | data, head, size | Push, Clear, three reads | wrap around | reads are the newest snapshots, oldest first |
| SSE hub | `internal/api/sse.go` | client map, broadcast queue, client channels | register, unregister, fan-out, heartbeat, Close; the stream handler | slow clients, closing channels, a hub that is gone | never uses a closed channel; no gap; streams end |
| Server, main | `internal/server/server.go`, `cmd/sugi/main.go` | stopChan, shutdown stage, context | Start, two loops, Shutdown | order of stages, one shared deadline | acknowledged logs reach the table; the process exits |
| API handlers | `internal/api/handler.go` | none | ingest, queries, health | concurrent with Shutdown | acknowledged means accepted |
| Log harvester | `internal/collector/log_harvester.go` | per file: offset, reader, rate | Start, Stop, tailFile | truncation, rotation, partial lines | each line once, in order |
| Collectors | `internal/collector/{cpu,mem,disk,net}.go` | previous reading and its time | Collect | counters that wrap, restart or go back; devices that come and go; failing readings | rates and usage are exact or absent, never invented |
| Dashboard | `internal/ui/public/app.js` | chart data, log table, filter inputs, timers | fetch, event stream | overlapping requests, stale answers, lost events | settles on what the query returns |

Components call each other directly; the shared state is in channels (writer,
hub) and behind mutexes (ring buffer, storage). There are no callbacks but the
harvester's `onLog`, which is Enqueue followed by BroadcastLog.

## 2. The modules

| Module | What it is |
|---|---|
| `LogWriter` | AsyncLogWriter over the table of SQLiteStorage, with restarts |
| `LogJournal` | abstract: what the pipeline promises; `LogWriter!JournalSpec` is the refinement |
| `SSEHub` | the hub, the broadcasts and the stream handlers |
| `Server` | composition of `LogWriter` and `SSEHub` with requests, tailers, Shutdown and main |
| `RingBuffer` | the ring buffer; `MetricsWindow` is what it promises |
| `LogHarvester` | one tailed log file: `tailFile`, its buffered reader, rotation, Stop |
| `CPUCollector`, `RateCollector` | the collectors: the CPU's; and the disks', which is the network's with other names |
| `Sampling` | the baseline of NewServer and metricSamplingLoop over one CPU and two rate collectors |
| `Backup` | Backup and RestoreDatabase over the database file and its write-ahead log |
| `LogQuery` | what the table stores of an entry, filters, order and pages |
| `LogPaging`, `Dashboard` | two readers of that table: a client that pages, and the log explorer |
| `LogWriterProofs`, `SSEHubProofs`, `ServerProofs`, `HarvesterProofs`, `BackupProofs`, `RateCollectorProofs`, `SamplingProofs` | theorems about the module of that name and their proofs |
| `ReadingProofs` | theorems about what readers get: `RingBuffer`, `LogQuery`, `LogPaging` and `Dashboard` |
| `MCLogWriter`, `MCSSEHub`, `MCServer`, `MCMetrics`, `MCLogHarvester`, `MCBackup`, `MCLogView` | values of the constants for TLC |

Definitions whose comment begins with *Variant of* are not part of any
specification: each is an operation as a plausible bug would have it, and was
used to confirm that the properties notice that bug.

### LogWriter

One action per atomic step of the code. `Enqueue` is two actions, because
`w.mu` is released between the closed-check and the send: `EnqueueCheck` and
`EnqueueSend`. `pending[c]` is what goroutine `c` holds in between. The
worker's position is `worker`: in the outer select, in `flush()`, in the inner
select after `done`, in a flush called from there, in the last flush, returned.
`WriteBatch` and `WriteFails` are the two outcomes of `flush()`; the storage
mutex and the transaction make each one step. Writes to a closed database
always fail; with an open one at most `MaxFaults` transactions do. The pruner
holds the same mutex, so `Prune` is one step as well; a tick that finds nothing
to delete changes nothing and has no action. Close is `CloseMark`,
`CloseSignal` and one of `CloseJoined` and `CloseExpired`; `StorageClose` is
what `Server.Shutdown` does next. `Restart` models both a kill at any moment and a normal
exit, followed by a new process over the same table.

An entry is a caller, the number of its call and a timestamp; timestamp 0
stands for `UnixMilli() == 0`, which `WriteBatch` replaces by the clock. The
history variables `accepted`, `lost`, `pruned` and `promised` record what has
happened and are never read by a guard.

Left out: the `!ok` branches of both receives (nothing closes `w.ch`), a second
Close (the server calls it once, and it returns nil at once), the columns of a
row other than id and timestamp, and the four start-up logs (callers like any
other).

### SSEHub

`queue` is the broadcast channel, `buffer[c]` the channel of stream `c`,
`clients` the hub's map, `shut` the closed channels. The unbuffered channels
`register` and `unregister` are rendezvous: `Register(c)` and `Unregister(c)`
are joint steps of the handler and the hub and need a running hub. A fan-out
holds the lock and blocks on nothing, so it is one step. A write of a handler
can fail at any time (`WriteError`): the peer is gone, or the server's
`WriteTimeout` of ten seconds has passed. `Push` and `BroadcastSnapshot` are
the last two statements of the sampling loop. Messages are numbered, so that
order and gaps can be stated; `missed` and `overflow` record the drops the code
intends. `got[c]` is everything handler `c` has written, the snapshot it greets the
viewer with (`Greets`) included.

### Server

`W` and `H` are instances of the two modules above. The callers of the writer
are requests (`HandleIngestLogs`) and tailed files; each accepted entry is then
broadcast (`Cast`). `stage` is where `Shutdown` is. The listener is open until
`http.Server.Shutdown` is called; that call returns when no request and no
stream is active (`HttpDrained`) or when the context ends (`HttpExpired`).
`ctxDone` is the one context of five seconds all stages share; the harvester
does not look at it. A tailer may start at any time, after `Stop` too, because
`harvester.Start` runs in a goroutine of its own. `Impatient` decides whether the five seconds may pass at any moment, which is what
the safety and liveness runs assume, or only when nothing but streams that
cannot end are left to wait for, which makes the counterexample of section 4 the
strongest possible.

Snapshots and heartbeats are switched off in `H` (they are in `SSEHub`), and so
are failing transactions, pruning and restarts in `W` (they are in
`LogWriter`): `Server` is about the interplay at shutdown.

### RingBuffer

Every method holds the mutex from beginning to end, so `Push` and `Clear` are
actions and the reads are operators, with the slices and the modulo arithmetic
of the code. `NewRingBuffer` replaces a capacity that is not positive by a
default, which is `CapacityAssumption`.

### LogHarvester

The file is a sequence of numbered pieces, two to a line, so that a write can end
in the middle of a line and a piece delivered twice, out of order or not at all
can be told. `pc` is where `tailFile` is: opening, delivering the initial lines, at
the top of the loop, in `ReadString`, at the end of the file before `Stat`, waiting
for the next poll, returned. `ReadString` is one action per step a writer can get
in between: `Fill` reads from the file, `ReadLine` takes a whole line from the buffer,
`EndOfFile` and `ReadFails` return an unfinished line, which `tailFile` drops.
`pos` is the position of the descriptor and `offset` the local variable, which
differ by what is buffered and what was dropped. `Truncate` and `Rename` are the
two ways logrotate works; after `Rename` the descriptor stays with the old file,
which in the model grows no further. `NewSecond` is the ticker of the
rate limit, which the select may prefer to a closed `stopChan`.

Left out: `ParseSyslogLine`, blank lines and the cut at 4096 bytes, lines longer than
the 64 KB buffers, and the time `readLastLines` takes between `Stat` and `ReadAt`.
Seeking in a regular file that is open does not fail and is taken not to; were the
`Seek` to the end to fail (`log_harvester.go:151`), tailing would begin at the start of
the file and deliver the initial lines again.
Which files `Start` selects is not modelled; it runs one tailer per file, and they
share nothing but `onLog`, which is in `Server`. History variables: `delivered`,
`dropped`, `from`, `shrunk`.

### RateCollector, CPUCollector, Sampling

`RateCollector` is `DiskCollector`; `NetCollector` has the same steps with
interfaces for devices and everything but the loopback counted, and is the
second instance in `Sampling`. One counter stands for the four that a disk has
and the four that an interface has, since the code treats them alike. `proc` is
the file as the parser delivers it, `last` and `lastTime` the previous reading.
A rate is kept as numerator and seconds. `moved`, `restarted`, `readAt` and
`truth` are history: what really passed since the previous reading.

`CPUCollector` keeps five counters per core; the difference of the idle counters
is taken modulo `Word`, as the code's unsigned subtraction does. A usage is a part
of the ticks that passed.

`Sampling` has one action per statement of the loop that can fail or wait:
`SampleCPU`, `MemoryRead` or `MemoryFails`, `SampleDisk`, `SampleNet`, `Publish`.
The kernel may move between any two of them. `pending` and `lost` are history:
which collectors were read for the snapshot in the making, and which readings
no snapshot will show.

The clock of the model never steps. The collectors subtract wall times
(`time.Now().UTC()` drops the monotonic reading, `disk.go:206`, `net.go:161`), so with a
clock that is set between two readings a rate is off by as much, and `RatesExact` says
nothing of it. Left out: parsing, rounding to cents, bytes per sector, the gauges that are copied
unchanged, and the spelling rules of `isPrimaryDisk`, whose result is the constant
`Primary`. Names those rules do not know (`sdaa`, `dm-0`) are in no total.
The total of the network counts a bridge and what it bridges, as the code does.

### Backup

A database is its file and its write-ahead log; what they hold is told by the
number of the last commit. A log belongs to one content of the file. `Commit`
needs the mutex that the server's own Backup holds; a backup started from the
command line is another process, and nothing keeps the server from committing
meanwhile. `Backup` is `RemoveOld`, `WalCheckpoint`, `VacuumInto`, `VacuumDone`, with
`BackupFails` possible throughout; `RestoreDatabase` is `RestoreOpens`, `RemoveDb` or `RemoveDbFails`,
`RemoveWal` or `RemoveWalFails` (errors of `os.Remove` are ignored, each by itself),
`CreateFile`, `CopyPart`, `CopyDone`, with `RestoreFails` for an error or a kill in
between. A server whose database is removed under it keeps it: `server` then is its
content. `owed` is history: what whoever opens the path next has to find.

Processes are killed, the machine is not: what fsync promises is not modelled.
Also left out: the `-shm` file and a destination that is the database itself. A
server that has the file at the path open when its log is unlinked or the file is
overwritten (`Ruins`) is treated as one with torn files: it is not followed further,
and nothing is owed to whoever opens the path beside it.
Commands are given one at a time.

### LogQuery, LogPaging, Dashboard

`LogQuery` is a row per stored entry with `WriteBatch`'s normalisation of level and
service (a word with its case and padding), the filter of `QueryLogs`, `ORDER BY
timestamp DESC`, the limit with its default, and the offset. The code leaves the
order of equal timestamps to SQLite; rowid order is what an index on the
timestamp gives. `Sorted` is that order as a sequence: rowids make it unique, and
`ReadingProofs` shows that it exists.

A text is a word of `Words` with its case and padding; messages are words too.

`LogPaging` adds a client that reads page after page; `began` is history, the number of
rows written when it asked for its first page. In `Dashboard` `queued` is
what the writer has accepted and not yet stored (`MaxEntries` bounds what is accepted),
`events` the log events on their
way, `request` the fetches in flight, at most one for each of `Fetches`. Both readers
are modelled over the same table; `MCLogView` extends both and lets one of them run.
`fetchLogs` is three steps: `FetchWith` reads the
inputs and sends, `Answer` is the server's query, `Render` replaces the rows. `Poll`
is the four second timer; `SelectLevel`, `Type` with `Debounced`, and `Refresh` are the
user. `PrependLiveLog` is an event; it may come before its row exists, after a fetch
returned it, or be lost.

## 3. The runs

| Run | Configuration | Properties | What it shows |
|---|---|---|---|
| `log_writer` | `MCLogWriter.cfg` | `TypeOK` `FIFO` `Fate` `IdOrder` `CloseDrains` `NoWriteAfterClose` `ClosingShrinks` `JournalSpec` `EntriesSettle` `WorkersStop` | whatever the interleaving, failures, pruning and restarts, entries are neither duplicated nor reordered nor unaccounted for; partial batches are flushed; once Close took its flag the work left only shrinks, and both goroutines stop |
| `enqueue_races_close` | `MCLogWriterOrphan.cfg` | `NoOrphan` (violated) | section 4 |
| `sse_hub` | `MCSSEHub.cfg` | `TypeOK` `RegistryExact` `InOrder` `NoGap` `QueueServed` `StreamsEnd` | no use of a closed channel; order, but for one step back behind the greeting; no gap after it; the hub waits for no client and streams of gone peers end |
| `sse_close_leaves_streams` | `MCSSEHubClose.cfg` | `CloseDisconnects` (violated) | section 4 |
| `server` | `MCServer.cfg` | `TypeOK` `AcknowledgedStored` `ShutdownEnds` | the order of the stages of Shutdown loses no acknowledged log, and every wait of it ends |
| `shutdown_loses_logs` | `MCServerFlush.cfg` | `ShutdownFlushes` (violated) | section 4 |
| `metrics` | `MCMetrics.cfg` | `TypeOK` `ReadsAgree` `WindowSpec` of the ring buffer; `ReadingsPublished` `RatesExact` `TotalsExact` `UsageExact` | index arithmetic at every fill and position; rates, totals and usage are exact or absent through hotplug and failures, disks' and interfaces' counters that wrap or restart, and a CPU's that go back (excepted); only memory's failure costs a reading |
| `harvester` | `MCLogHarvester.cfg` | `TypeOK` `InOrder` `NothingSkipped` `CatchesUp` `TailerEnds` | nothing twice, out of order or skipped through truncation, torn lines and read errors; the tailer catches up and Stop returns |
| `rotation_not_followed` | `MCLogHarvesterRename.cfg` | `RotationFollowed` (violated) | section 4 |
| `backup` | `MCBackup.cfg` | `TypeOK` `Intact` `BackupCommitted` | a backup is one committed state; kills, failures and undisturbed restores leave what was committed or restored |
| `restore_not_safe` | `MCBackupRestore.cfg` | `RestoreSafe` (violated) | section 4 |
| `log_view` | `MCLogView.cfg` | `DashTypeOK` `LiveOnce` `FoundAsSent` `PagingMissesNothing` `PagedOnce` `BrowserSettles` | rows are found as they were sent; paging misses no row that stays and repeats none until one is written; the explorer shows a row twice at most, in a view that stays bounded, and repairs stale answers and lost or early events |

**Bounds.** `MaxCalls`, `MaxTime`, `MaxFaults`, `MaxRestarts`, `MaxSnapshots`,
`MaxLogs`, `MaxBeats`, `MaxEvents`, `MaxCommits` and `MaxChanges` end otherwise
endless behaviours, which is why those runs do not check for deadlock: a process
that is stopped or idle is a legitimate end.

* `log_writer`: one caller makes two calls and the other one (`MCOneShot`), over a
  channel of one and a batch of two: the channel fills up and drops, full and partial
  batches are flushed, entries are in both when Close or a crash comes, and one
  caller is between check and send while the other goes on. A clock of
  three units and a retention of one let rows expire between and after batches.
* `sse_hub`: two streams suffice, since the hub treats each on its own but for the
  shared queue; a client buffer of one and a queue of two are full often.
  `MCFewMessages` bounds the messages of all kinds together.
* `server`: a request, a file and a stream are the three kinds of goroutine
  Shutdown waits for; `MCTwoKinds` lets any two of them meet, because each
  interacts with the others only through the channel and the stages.
* `metrics`: the ring and the loop share no state, so a behaviour moves one of them.
  The ring of capacity four has every relation of head, size and n, with three
  snapshots to tell slots apart. In the loop, counters modulo four wrap after two
  transfers; a disk with a partition and an interface beside the loopback are
  what totals distinguish. `MCKernel` lets the kernel, the clock and Stop move between
  rounds only, and on the counters of one collector: a collector reads once in
  a round and reads nothing of the others, so a step during the round is
  seen as one before or after it.
* `harvester`: four pieces and two rotations let it meet a torn line, a truncation
  noticed, one that is hidden because the file grew past `offset` again, and a rename
  before or after either, with one read error and one restart.
* `backup`: three commits tell an old database, a backup and what came later apart.
* `log_view`: two entries that differ in level, service, message and timestamp;
  two requests in flight, one change of the filter, one failing request, a page of one
  row and a view of three make the limit and the trimming bite; the client pages
  over three rows, with a limit of one and with one out of range. `BrowserSettles` is
  `ViewSettles` where the browser is the reader that runs.

**Fairness.** Goroutines that can run are run. Go's select chooses at random among
ready cases, so a case that is ready again and again is taken: strong fairness
for the ticker and for `done` in the worker, because a receive in between
disables them for a moment, and weak fairness for the rest. The hub's cases
stay ready until taken. Transactions end, writes to a peer end within
`WriteTimeout`, and the context of Shutdown expires. A tailer runs and time passes; of `stopChan` and a timer
that are ready together `stopChan` is taken in the end. Nothing obliges a client
to connect, send, read or leave, the operating system to signal, or a fault to happen.
In the browser `setInterval` keeps firing, and every request is answered or fails, because the
server limits reading and writing to ten seconds; the stream is promised nothing.
`QueueServed` assumes the fairness of the hub's goroutine alone.

## 4. Where the code does less than it says

* **An accepted entry may never be written** (`NoOrphan`). `Enqueue` passes the
  closed-check, releases the mutex and is suspended; Close sets the flag and closes
  `done`; the worker drains an empty channel and returns; the send succeeds and
  `Enqueue` returns true. The entry stays in the channel for ever.
* **Closing the hub does not end its streams** (`CloseDisconnects`). `run()` closes the
  client channels and returns; each handler then leaves its loop and its
  deferred send on the unbuffered `unregister` waits for a receiver that no
  longer exists. The same holds for a handler that has yet to register.
* **Hence Shutdown may lose logs** (`ShutdownFlushes`). With a viewer connected,
  `http.Server.Shutdown` waits for the stuck handler until the five seconds are
  over. `logWriter.Close` gets the expired context; its select may return at
  once, and the database is closed while a batch is still in memory. A request
  answered 202 during the wait is then lost. `AcknowledgedStored` shows that,
  apart from failing transactions, this is the only way: if the connections drained and Close returned nil, nothing
  acknowledged is lost.

* **Rotation by renaming is not noticed** (`RotationFollowed`). `tailFile` compares
  the size of the file it opened with `offset`; a renamed file does not shrink, so
  the tailer polls it for ever and never opens the new file at the path.

* **Restore is not safe against failure** (`RestoreSafe`). `RestoreDatabase` removes the
  old database before it creates and fills the new one. An error of the copy, or a
  kill, leaves an absent, empty or torn database where a sound one was, on a path
  that nobody else has open. `Intact` shows that a restore which returns nil and
  was not disturbed leaves exactly the backup, because the log goes too.

Two comments are wider than the code, without a property that fails:

* **A backup blocks its own server.** `backup.go:11` calls it non-blocking; it holds the
  mutex that `WriteBatch` and `PruneOldLogs` take (`backup.go:13`), so the log writer
  waits until the copy is complete, as `TypeOK` of `Backup` states; so do `QueryLogs` and
  `CountLogs`, which want the same mutex for reading. Other processes do not wait.
* **A stream may go one step back.** A viewer registers before it is greeted from the
  ring buffer (`sse.go:151-166`); a snapshot that was queued in between follows the
  greeting although it is older, or repeats it. `InOrder` allows this for the greeting
  alone, and `NoGap` shows what the order of the two steps is for: nothing is missed.

Two more places where less holds than one may expect, which no comment denies:
`UsageExact` excepts cores whose idle time the kernel corrected downwards, for which
the unsigned difference is huge and the usage shown is 0; and the explorer's live
filter searches the service too, so that a row may appear and vanish with the
next answer, which is why `ViewSettles` (in the run, `BrowserSettles`) speaks of what it settles on.

A truncation hidden because the file grew past `offset` between two polls makes the tailer
go on in the middle of the new content; `InOrder` still holds then, and
`NothingSkipped` is stated up to that point. An unfinished line at the end of the file is
dropped, and its rest is delivered as a line of its own: `dropped` records it, and
`NothingSkipped` allows it.

## 5. What is proved

All theorems hold for any number of callers, requests, files, streams, cores, devices
and entries, any sizes and any timestamps, and for every value of the bounds. They
assume only the named assumptions of the modules they are about, all of which TLC
evaluates in the runs:

| Module | Assumptions |
|---|---|
| `LogWriter`, `SSEHub`, `Server`, `LogHarvester` | sizes are positive, bounds are numbers; the callers of a `LogWriter` and the processes of a `Server` are finitely many |
| `RingBuffer` | the capacity is positive (`NewRingBuffer`), and `Unset` is no snapshot |
| `Backup` | the tokens for what a file may hold differ from each other and from commits |
| `RateCollector`, `Sampling` | devices are finitely many; `Primary` has whole disks only, which is what `isPrimaryDisk` is for; a counter of the CPU does not go once around between two readings, which takes 64 bits of ticks |
| `LogQuery`, `LogPaging` | fields of an entry are words, with a case and a padding where the code normalises them; the defaults `INFO` and `default` are words; limits are integers |
| `Dashboard` | the empty choice is among the values of both inputs; the view keeps at least as many rows as one answer brings (100 and 50 in `app.js`) |

`HubAssumption` and `DevicesAssumption` are hypotheses of the theorems that need them,
because `SSEHub` and `RateCollector` are instantiated by other modules, which discharge
them.

| Theorem | States |
|---|---|
| `LogWriterProofs!TypeCorrect` | `[]TypeOK`: the channel never exceeds `BufferSize`, the batch never `BatchSize` |
| `LogWriterProofs!FIFOHolds` | `[]FIFO` |
| `LogWriterProofs!CloseDrainsHolds` | `[]CloseDrains` |
| `LogWriterProofs!NoWriteAfterCloseHolds` | `NoWriteAfterClose` |
| `LogWriterProofs!ClosingShrinksHolds` | `ClosingShrinks`: after Close took the flag the worker returns within a number of steps that never grows |
| `LogWriterProofs!FateHolds` | `[]Fate` |
| `LogWriterProofs!IdOrderHolds` | `[]IdOrder` |
| `LogWriterProofs!ImplementsJournal` | `Spec => JournalSpec`, the refinement |
| `SSEHubProofs!TypeCorrect` | `[]TypeOK`: queue and client channels stay within their capacities |
| `SSEHubProofs!RegistryExactHolds` | `[]RegistryExact` |
| `SSEHubProofs!InOrderHolds` | `[]InOrder`: logs in order, and snapshots but for those behind the greeting's |
| `SSEHubProofs!NoGapHolds` | `[]NoGap` |
| `ServerProofs!TypeCorrect` | `[]TypeOK` |
| `ServerProofs!WriterHolds` | the process is a behaviour of `LogWriter`: the journal, `FIFO`, `Fate`, `IdOrder`, `CloseDrains`, `NoWriteAfterClose`, `ClosingShrinks` |
| `ServerProofs!HubHolds` | the process is a behaviour of `SSEHub`: `RegistryExact`, `InOrder` |
| `ServerProofs!AcknowledgedStoredHolds` | `[]AcknowledgedStored` |
| `HarvesterProofs!TypeCorrect` | `[]TypeOK` |
| `HarvesterProofs!InOrderHolds` | `[]InOrder` |
| `HarvesterProofs!NothingSkippedHolds` | `[]NothingSkipped` |
| `BackupProofs!TypeCorrect` | `[]TypeOK` |
| `BackupProofs!IntactHolds` | `[]Intact` |
| `BackupProofs!BackupCommittedHolds` | `BackupCommitted` |
| `RateCollectorProofs!RatesTrue` | `[](NoSpike /\ Exact)` |
| `RateCollectorProofs!CountedOnceHolds` | `[]CountedOnce`, when only whole devices are counted |
| `RateCollectorProofs!TotalExactHolds` | `[]TotalExact` |
| `SamplingProofs!RatesExactHolds` | `[]RatesExact`: `NoSpike` and `Exact` of the disks and of the network |
| `SamplingProofs!TotalsExactHolds` | `[]TotalsExact`: `TotalExact` of both, and `CountedOnce` of the disks |
| `SamplingProofs!ReadingsPublishedHolds` | `[]ReadingsPublished` |
| `SamplingProofs!UsageExactHolds` | `[]UsageExact`, of cores none of whose counters went back |
| `ReadingProofs!TypeCorrect` | `[]TypeOK` of the ring buffer |
| `ReadingProofs!ImplementsWindow` | `RingSpec => WindowSpec`, the refinement |
| `ReadingProofs!ReadsAgreeHolds` | `[]ReadsAgree` |
| `ReadingProofs!FoundAsSentHolds` | `[]FoundAsSent`, for whatever writes to the table and prunes it |
| `ReadingProofs!PagingMissesNothingHolds` | `[]PagingMissesNothing` |
| `ReadingProofs!PagedOnceHolds` | `[]PagedOnce` |
| `ReadingProofs!DashTypesHold` | `[]DashTypeOK`: what is in flight and shown, and that the view never exceeds `MaxView` |
| `ReadingProofs!LiveOnceHolds` | `[]LiveOnce` |
| `ReadingProofs!ShownAsSent` | `[]FoundAsSent` for the explorer's table |

**LogWriter.** The invariants are built up in four layers, because none but the first holds
inductively alone.

1. `TypeInv` is `TypeOK` and `BatchRoom`: in both selects the batch has room for one
   more entry. Without it a receive could overfill the batch.
2. `FIFO` is inductive relative to `TypeInv`: a send extends the history and the
   channel alike, a receive moves the border between channel and batch, a flush
   moves the border between batch and settled entries.
3. `Lifecycle` (no goroutine is ahead of Close) and `Drained` give the drain
   argument: after the worker has seen the channel empty, every entry promised
   when the flag was taken has left it; what is sent later was not promised.
4. `EntryInv` adds `Numbered` (a caller numbers its calls, so accepted entries are
   distinct and the one in a caller's hands is none of them), `OneRowEach` and
   `IdsBelow`. With `FIFO` it follows that a flush settles exactly the next group and
   stores nothing stored before, which is the heart of `Fate`, of `IdOrder` and of
   the refinement: sends map to Accept, flushes and restarts to Settle, pruning to
   Expire, everything else to a stutter.

`ClosingShrinks` is the safety half of `WorkersStop`. Its measure `Left` counts what is
between a caller and the table, and more for what is further away: a send, a receive and a
write each make it smaller. A write does because `flush()` never runs with nothing to
write (`FlushesSomething`), and a measure that counts callers needs them to be finitely many.

**SSEHub.** `TypeOK` needs that a snapshot being handed over was pushed.
`RegistryExact` needs `NotYetShut`: no channel is closed before its stream is
registered, so a registration never puts a closed channel into the map.
`InOrder` is about what a viewer was given and says nothing of the queue behind it.
The greeting comes before all the hub hands over (`GreetedFirst`), so that what came
through the hub is all that was given but a first snapshot equal to the greeting, and the
order is that of `Streamed`, what is behind it. `OrderInv` adds that the queue is in
order, that everything a registered client got through the hub is older than all of the
queue, that everything anywhere has been sent (so that a new broadcast goes behind it),
and that an unregistered stream was given nothing. A fan-out then moves the oldest queued
message behind what each client has, or drops it for that client, and both keep the
order. `NoGap` is shown stream by
stream (`Gapless`): each step moves a snapshot from one of its four places to another,
and a stream that leaves its greeting has nothing to account for.

**Server.** Each step of the composition is a step of `LogWriter` and a step of `SSEHub`,
or leaves their variables alone (`ImplementsWriter`, `ImplementsHub`), so their theorems
hold of the process. `AcknowledgedStored` joins what they say to the stages of Shutdown:
the writer's Close begins in its own stage only and the database closes after it
(`CloseOrder`); a request has an entry on its way only while it is served
(`ServedOnly`), and none is served once the connections have drained (`Drained`). Hence
every entry of a request was sent when Close took the flag (`PromisedCovers`), Close
returned nil only when what was promised had left memory (`CloseDrains`), and what
leaves memory while the database is open is in the table (`NothingLost`, `Fate`).

**LogHarvester.** `InOrder` needs to know that what the tailer reads next is newer than
all it has taken. After a truncation that was not noticed the position means
something else, and the claim is about whatever is behind it; when the file is
shorter than the position, `tailFile` is about to start over, and everything in
the file is newer. `Ahead` says both. It rests on `Written` (files and buffers are in
the order of writing) and `Beginning` (nothing is taken before the initial
lines). `NothingSkipped` needs `OffsetBehind`, for which `offset` counts lines delivered
and no others: a file that only grew is therefore never taken for a truncated one.

**Backup.** `Intact` needs that nothing is owed while a restore is at work, and that an
undisturbed one has removed the old log before it writes the file (`RestoreAccount`).
For `BackupCommitted` what a backup would read must be among what it has seen since its
call and must be committed (`BackupAccount`): for the command line's that is what the
path holds, for the server's what the server has open, which may have been unlinked.
`Sound` says that a server attached to the path finds a database there.

**Collectors.** `Accounts` ties each counter to the traffic since the previous
reading: equal to it plus the old value for a counter that ran on, at most it for
one that wrapped or restarted. `TimeKept` says that the time of that reading is
the one the next rate divides by. For `CountedOnce` it must be known what the sum of
`SumOver` is. `SumsExist` and `SumsUnique` say so for every finite set of devices,
`SumStep` takes one device out of a sum, `SumMonotone` compares two; `TotalExact` takes
it from both sides, with `NoSpike` above and `Exact` below. They are inductions over
finite sets, done without the library's induction theorems: a smallest subset for
which the claim fails (`MinimalSubset`) is not empty, and without one of its elements it
would be smaller still.

`Sampling` is shown to drive the disks' and the network's collector as
`RateCollector` allows (`ImplementsDisk`, `ImplementsNet`), which carries those theorems
over. `ReadingsPublished` needs what is pending at each statement of the loop (`Rounds`).
`UsageExact` needs that a core whose counters did not go back is ahead of the previous
reading by what it spent (`CPUAccount`) and that less was spent than a word holds
(`SpentBound`), so that the subtraction modulo `Word` is a subtraction.

**Readers.** For the ring buffer `Contents` says which slot each element of `GetAll` is in, as
a function of head, size and capacity; `PushContents` shows what one push does to
it on both sides of the wrap. `ReadsAgree` follows with `Filled`: the slots below `size`
were written. For the table `StoredAsSent` ties each row to the entry that was sent.
Paging is about positions in an order that changes: `SortedAt` says that the position of a
row is the number of rows ahead of it, and `StillAhead` that a row the client still
misses has at least `offset` rows ahead. Rows written can only add to them, pruning
removes only rows behind it before it removes the row, and a page takes the rows at the next positions,
so a page that comes back short leaves nothing (`PageHolds`).
`PagedOnce` needs the converse while nothing is written (`GivenAreAhead`): the rows the
client has are those with fewer than `offset` others ahead of them, counting rows that are
gone, so that pruning does not move the ones it still has to read.

For the explorer, `Fits` says what a fetch in flight may be: it is not yet answered and
has a filter the inputs can give, or it is answered with rows of the table, each once and
at most as many as the limit. `OnceShown` then follows the one event of each entry: until it
arrives a row can have come with an answer only, and an answer replaces all
that is shown. Queued entries have the types of stored ones, so that each flush is a step of the
table (`DashIsTable`) and what is proved of the table holds of the explorer's.

## 6. What is model-checked only, and what is not modelled

The liveness properties (under fairness) are out of TLAPS's reach and stay with
TLC: `EntriesSettle`, `WorkersStop`, `QueueServed`, `StreamsEnd`, `ShutdownEnds`,
`CatchesUp`, `TailerEnds` and `BrowserSettles`. Every invariant and every action property
that a passing run checks is a theorem. The properties of section 4 are refuted by TLC
and have nothing to prove.

Not modelled, with the reasons in `PROJECT.json`: the middleware, the parsing of
request bodies and of `/proc`, flag parsing and `parseRetention`, charts, static
assets. The pooled connections of `database/sql` and the locking inside SQLite are
taken to be what the mutex of `SQLiteStorage` makes of them; the order in which
SQLite returns rows of equal timestamps is taken to be that of its index.

## 7. Plan

Every safety property of the runs is proved. What is left would extend the model first:

1. What the harvester does at its start: the lines appended between reading the last
   fifty and the seek to the end, and the fifty that a restart delivers again
   (`log_harvester.go:138`, `150`).
2. A restore under a running server (`main.go:42`): what its pooled connections write after
   the file was replaced.
3. Further measures in the manner of `Left`, for the hub's queue after Close and for the
   stages of Shutdown, which would put the core of `QueueServed` and of `ShutdownEnds` within
   reach of the prover.

------------------------------ MODULE Sampling ------------------------------
(***************************************************************************)
(* The sampling loop of the server (internal/server/server.go): the        *)
(* baseline readings of NewServer, metricSamplingLoop and the collectors   *)
(* it calls, over a kernel whose counters move between any two steps.      *)
(*                                                                         *)
(* C is CPUCollector, D is DiskCollector and N is NetCollector.  The       *)
(* memory collector remembers nothing; it succeeds or fails.  What becomes *)
(* of a published snapshot is in RingBuffer and SSEHub.                    *)
(***************************************************************************)
EXTENDS Integers

CONSTANTS
    Cores,
    Devices, Host, Primary,      \* of /proc/diskstats
    Interfaces, Loopback,        \* of /proc/net/dev
    Word,
    Sizes,                       \* what a transfer may add to a counter
    MaxEvents,                   \* bound: steps of the kernel
    MaxTime,                     \* bound: time
    MaxFaults                    \* bound: readings that fail

VARIABLES
    stat, online, spent, fell, cpuFresh, lastTicks, cpuShown, cpuTruth,
    diskstats, diskMoved, diskRestarted, diskFresh, lastDisk, lastDiskTime, diskShown, diskReadAt, diskTruth,
    netdev, netMoved, netRestarted, netFresh, lastNet, lastNetTime, netShown, netReadAt, netTruth,
    now,
    due,      \* the ticker's channel holds a tick
    stop,     \* stopChan is closed
    pc,       \* where the loop is, or NewServer before it
    events, faults,
    pending,  \* history: collectors read since the last snapshot was published
    lost      \* history: collectors with a reading that no snapshot will show

cpuVars  == <<stat, online, spent, fell, cpuFresh, lastTicks, cpuShown, cpuTruth>>
diskVars == <<diskstats, diskMoved, diskRestarted, diskFresh, lastDisk, lastDiskTime, diskShown, diskReadAt, diskTruth>>
netVars  == <<netdev, netMoved, netRestarted, netFresh, lastNet, lastNetTime, netShown, netReadAt, netTruth>>
loopVars == <<due, stop, pc, faults, pending, lost>>

vars == <<cpuVars, diskVars, netVars, now, loopVars, events>>

C == INSTANCE CPUCollector WITH
        fresh <- cpuFresh, last <- lastTicks, shown <- cpuShown, truth <- cpuTruth

D == INSTANCE RateCollector WITH
        Counted <- Primary, proc <- diskstats, moved <- diskMoved, restarted <- diskRestarted,
        fresh <- diskFresh, last <- lastDisk, lastTime <- lastDiskTime,
        shown <- diskShown, readAt <- diskReadAt, truth <- diskTruth

\* CalculateNetStats adds up all interfaces but the loopback.
NetCounted == Interfaces \ Loopback

N == INSTANCE RateCollector WITH
        Devices <- Interfaces, Host <- [i \in Interfaces |-> i], Counted <- NetCounted,
        proc <- netdev, moved <- netMoved, restarted <- netRestarted,
        fresh <- netFresh, last <- lastNet, lastTime <- lastNetTime,
        shown <- netShown, readAt <- netReadAt, truth <- netTruth

\* isPrimaryDisk accepts no partition, and no more ticks are spent than a
\* counter holds.
ASSUME SamplingAssumption ==
    /\ D!DevicesAssumption /\ N!DevicesAssumption
    /\ \A d \in Primary : Host[d] = d
    /\ Sizes \subseteq Nat
    /\ MaxEvents \in Nat /\ MaxEvents < Word
    /\ MaxFaults \in Nat

-----------------------------------------------------------------------------
(* The kernel and the ticker *)

Kernel ==
    /\ events < MaxEvents
    /\ events' = events + 1
    /\ \/ /\ \E c \in Cores : C!Offline(c) \/ C!Online(c)
                              \/ \E k \in C!Kinds : C!Spend(c, k) \/ C!Fall(c, k)
          /\ UNCHANGED <<diskVars, netVars, now>>
       \/ /\ \E d \in Devices : D!Unplug(d) \/ D!Plug(d)
                                 \/ \E n \in Sizes : D!Transfer(d, n)
          /\ UNCHANGED <<cpuVars, netVars>>
       \/ /\ \E i \in Interfaces : N!Unplug(i) \/ N!Plug(i)
                                    \/ \E n \in Sizes : N!Transfer(i, n)
          /\ UNCHANGED <<cpuVars, diskVars>>
    /\ UNCHANGED loopVars

\* A tick that finds one in the channel is dropped.
Tick ==
    /\ now < MaxTime
    /\ now' = now + 1
    /\ due' = TRUE
    /\ UNCHANGED <<cpuVars, diskVars, netVars, stop, pc, faults, pending, lost, events>>

-----------------------------------------------------------------------------
(* Reading, successfully or not *)

MayFail == faults < MaxFaults

Fault == MayFail /\ faults' = faults + 1

ReadCPU ==
    /\ C!Collect
    /\ pending' = pending \cup {"cpu"}
    /\ UNCHANGED <<diskVars, netVars, now, faults, lost>>

FailCPU ==
    /\ C!CollectFails
    /\ IF online = {} THEN UNCHANGED faults ELSE Fault
    /\ UNCHANGED <<diskVars, netVars, now, pending, lost>>

CollectDisk ==
    /\ \/ D!Collect /\ pending' = pending \cup {"disk"} /\ UNCHANGED faults
       \/ D!CollectFails /\ Fault /\ UNCHANGED pending
    /\ UNCHANGED <<cpuVars, netVars, lost>>

CollectNet ==
    /\ \/ N!Collect /\ pending' = pending \cup {"net"} /\ UNCHANGED faults
       \/ N!CollectFails /\ Fault /\ UNCHANGED pending
    /\ UNCHANGED <<cpuVars, diskVars, lost>>

\* The baseline: whatever was read is there to compare with.
Baseline ==
    /\ \/ pc = "new" /\ pc' = "new disk" /\ (ReadCPU \/ FailCPU)
       \/ pc = "new disk" /\ pc' = "new net" /\ CollectDisk
    /\ UNCHANGED <<due, stop, events>>

BaselineTaken ==
    /\ pc = "new net"
    /\ pc' = "select"
    /\ \/ N!Collect /\ UNCHANGED faults
       \/ N!CollectFails /\ Fault
    /\ pending' = {}
    /\ UNCHANGED <<cpuVars, diskVars, lost, due, stop, events>>

-----------------------------------------------------------------------------
(* metricSamplingLoop *)

\* What was read for the snapshot that is given up.
Continue ==
    /\ pc' = "select"
    /\ lost' = lost \cup pending
    /\ pending' = {}

TakeTick ==
    /\ pc = "select"
    /\ due
    /\ due' = FALSE
    /\ pc' = "cpu"
    /\ UNCHANGED <<cpuVars, diskVars, netVars, now, stop, faults, pending, lost, events>>

StopSeen ==
    /\ pc = "select"
    /\ stop
    /\ pc' = "returned"
    /\ UNCHANGED <<cpuVars, diskVars, netVars, now, due, stop, faults, pending, lost, events>>

SampleCPU ==
    /\ pc = "cpu"
    /\ \/ pc' = "memory" /\ ReadCPU
       \/ pc' = "select" /\ FailCPU
    /\ UNCHANGED <<due, stop, events>>

MemoryRead ==
    /\ pc = "memory"
    /\ pc' = "disk"
    /\ UNCHANGED <<cpuVars, diskVars, netVars, now, due, stop, faults, pending, lost, events>>

MemoryFails ==
    /\ pc = "memory"
    /\ Fault
    /\ Continue
    /\ UNCHANGED <<cpuVars, diskVars, netVars, now, due, stop, events>>

\* The errors of the disk and of the network are dropped.
SampleDisk ==
    /\ pc = "disk"
    /\ pc' = "net"
    /\ CollectDisk
    /\ UNCHANGED <<due, stop, events>>

\* Variant of SampleNet: a network that cannot be read gives the snapshot up.
SampleNetOrContinue ==
    /\ pc = "net"
    /\ \/ /\ N!Collect
          /\ pc' = "publish"
          /\ pending' = pending \cup {"net"}
          /\ UNCHANGED <<lost, faults>>
       \/ N!CollectFails /\ Fault /\ Continue
    /\ UNCHANGED <<cpuVars, diskVars, due, stop, events>>

SampleNet ==
    /\ pc = "net"
    /\ pc' = "publish"
    /\ CollectNet
    /\ UNCHANGED <<due, stop, events>>

\* Push and BroadcastSnapshot, neither of which waits or fails.
Publish ==
    /\ pc = "publish"
    /\ pc' = "select"
    /\ pending' = {}
    /\ UNCHANGED <<cpuVars, diskVars, netVars, now, due, stop, faults, lost, events>>

\* Server.Shutdown closes stopChan.
Stop ==
    /\ pc \notin {"new", "new disk", "new net"}
    /\ ~stop
    /\ stop' = TRUE
    /\ UNCHANGED <<cpuVars, diskVars, netVars, now, due, pc, faults, pending, lost, events>>

Init ==
    /\ C!Init
    /\ D!Init /\ diskstats = [d \in Devices |-> 0]
    /\ N!Init /\ netdev = [i \in Interfaces |-> 0]
    /\ due = FALSE
    /\ stop = FALSE
    /\ pc = "new"
    /\ events = 0
    /\ faults = 0
    /\ pending = {}
    /\ lost = {}

Next ==
    \/ Kernel
    \/ Tick
    \/ Baseline \/ BaselineTaken
    \/ TakeTick \/ StopSeen
    \/ SampleCPU
    \/ MemoryRead \/ MemoryFails
    \/ SampleDisk \/ SampleNet
    \/ Publish
    \/ Stop

Spec == Init /\ [][Next]_vars

-----------------------------------------------------------------------------
(* Properties *)

\* A reading takes what happened since the one before away from the next one,
\* so it must reach a snapshot.  Through failures of any collector, every
\* reading of a disk or an interface is published in its own round; the CPU's
\* alone is given up, when memory fails after it (server.go:243-249).
ReadingsPublished ==
    /\ pc = "publish" => "cpu" \in pending
    /\ lost \subseteq {"cpu"}
    /\ faults = 0 => lost = {}

\* Rates never claim more than was transferred (disk.go:128, net.go:112), and
\* for what ran on they show all of it, over the right time (disk.go:231,
\* net.go:189), which is wall time by a clock that nobody sets.
RatesExact ==
    /\ D!NoSpike /\ D!Exact
    /\ N!NoSpike /\ N!Exact

\* Both totals have all that ran on and nothing that is not counted (disk.go:148,
\* net.go:127), and that of the disks counts a transfer once (disk.go:146).
TotalsExact ==
    /\ D!TotalExact /\ D!CountedOnce
    /\ N!TotalExact

\* Usage is exact while counters only grow (cpu.go:115).
UsageExact == C!UsageExact
=============================================================================

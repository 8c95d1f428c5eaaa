--------------------------- MODULE SamplingProofs ---------------------------
(***************************************************************************)
(* Proofs about Sampling, for any cores, devices and interfaces, whatever  *)
(* the kernel does between two steps of the loop and whichever readings    *)
(* fail.                                                                   *)
(*                                                                         *)
(* The loop drives the collectors of the disks and of the network only in  *)
(* ways that RateCollector allows, so what is proved of it holds of both   *)
(* (ImplementsDisk, ImplementsNet).  UsageExact needs an account of each   *)
(* core (CPUAccount), ReadingsPublished what is pending where (Rounds).    *)
(***************************************************************************)
EXTENDS Sampling, TLAPS

DP == INSTANCE RateCollectorProofs WITH
        Counted <- Primary, proc <- diskstats, moved <- diskMoved, restarted <- diskRestarted,
        fresh <- diskFresh, last <- lastDisk, lastTime <- lastDiskTime,
        shown <- diskShown, readAt <- diskReadAt, truth <- diskTruth

NP == INSTANCE RateCollectorProofs WITH
        Devices <- Interfaces, Host <- [i \in Interfaces |-> i], Counted <- NetCounted,
        proc <- netdev, moved <- netMoved, restarted <- netRestarted,
        fresh <- netFresh, last <- lastNet, lastTime <- lastNetTime,
        shown <- netShown, readAt <- netReadAt, truth <- netTruth

-----------------------------------------------------------------------------
(* The collectors of rates *)

\* Sampling.tla names the actions of the collectors by instances of
\* RateCollector; here they are instances of the module with the proofs.
LEMMA DiskActions ==
    /\ D!Init => DP!Init
    /\ D!DevicesAssumption => DP!DevicesAssumption
    /\ \A d \in Devices : (D!Unplug(d) => DP!Unplug(d)) /\ (D!Plug(d) => DP!Plug(d))
    /\ \A d \in Devices, n \in Sizes : D!Transfer(d, n) => DP!Transfer(d, n)
    /\ (D!Collect => DP!Collect) /\ (D!CollectFails => DP!CollectFails)
<1> USE DEF D!procVars, DP!procVars
<1>1. D!Init => DP!Init
  BY Zenon DEF D!Init, DP!Init, D!Readings, DP!Readings, D!Ticks, DP!Ticks, D!NoStats, DP!NoStats
<1>2. D!DevicesAssumption => DP!DevicesAssumption
  BY DEF D!DevicesAssumption, DP!DevicesAssumption, D!IsFiniteSet, DP!IsFiniteSet
<1>3. \A d \in Devices : (D!Unplug(d) => DP!Unplug(d)) /\ (D!Plug(d) => DP!Plug(d))
  BY DEF D!Unplug, DP!Unplug, D!Plug, DP!Plug, D!Guests, DP!Guests
<1>4. \A d \in Devices, n \in Sizes : D!Transfer(d, n) => DP!Transfer(d, n)
  BY DEF D!Transfer, DP!Transfer, D!Path, DP!Path
<1>5. D!CollectFails => DP!CollectFails
  BY DEF D!CollectFails, DP!CollectFails, D!NoStats, DP!NoStats
<1>6. D!Collect => DP!Collect
  BY Zenon DEF D!Collect, DP!Collect, D!Baseline, DP!Baseline, D!Stats, DP!Stats, D!Total, DP!Total,
     D!SumOver, DP!SumOver, D!CalculateStats, DP!CalculateStats, D!Delta, DP!Delta, D!Seconds,
     DP!Seconds, D!Truth, DP!Truth,
     D!MapThenSumSet, DP!MapThenSumSet, D!MapThenFoldSet, DP!MapThenFoldSet
<1> QED
  BY <1>1, <1>2, <1>3, <1>4, <1>5, <1>6

LEMMA NetActions ==
    /\ N!Init => NP!Init
    /\ N!DevicesAssumption => NP!DevicesAssumption
    /\ \A i \in Interfaces : (N!Unplug(i) => NP!Unplug(i)) /\ (N!Plug(i) => NP!Plug(i))
    /\ \A i \in Interfaces, n \in Sizes : N!Transfer(i, n) => NP!Transfer(i, n)
    /\ (N!Collect => NP!Collect) /\ (N!CollectFails => NP!CollectFails)
<1> USE DEF N!procVars, NP!procVars
<1>1. N!Init => NP!Init
  BY Zenon DEF N!Init, NP!Init, N!Readings, NP!Readings, N!Ticks, NP!Ticks, N!NoStats, NP!NoStats
<1>2. N!DevicesAssumption => NP!DevicesAssumption
  BY DEF N!DevicesAssumption, NP!DevicesAssumption, N!IsFiniteSet, NP!IsFiniteSet
<1>3. \A i \in Interfaces : (N!Unplug(i) => NP!Unplug(i)) /\ (N!Plug(i) => NP!Plug(i))
  BY DEF N!Unplug, NP!Unplug, N!Plug, NP!Plug, N!Guests, NP!Guests
<1>4. \A i \in Interfaces, n \in Sizes : N!Transfer(i, n) => NP!Transfer(i, n)
  BY DEF N!Transfer, NP!Transfer, N!Path, NP!Path
<1>5. N!CollectFails => NP!CollectFails
  BY DEF N!CollectFails, NP!CollectFails, N!NoStats, NP!NoStats
<1>6. N!Collect => NP!Collect
  BY Zenon DEF N!Collect, NP!Collect, N!Baseline, NP!Baseline, N!Stats, NP!Stats, N!Total, NP!Total,
     N!SumOver, NP!SumOver, N!CalculateStats, NP!CalculateStats, N!Delta, NP!Delta, N!Seconds,
     NP!Seconds, N!Truth, NP!Truth,
     N!MapThenSumSet, NP!MapThenSumSet, N!MapThenFoldSet, NP!MapThenFoldSet
<1> QED
  BY <1>1, <1>2, <1>3, <1>4, <1>5, <1>6

-----------------------------------------------------------------------------
(* The loop drives both collectors *)

LEMMA ImplementsDisk == Spec => DP!Spec
<1>1. Init => DP!Init
  BY DiskActions DEF Init
<1>2. [Next]_vars => [DP!Next]_(DP!vars)
  <2> SUFFICES ASSUME [Next]_vars PROVE [DP!Next]_(DP!vars)
    OBVIOUS
  <2> USE DEF DP!vars, DP!procVars, diskVars
  <2>1. CASE Kernel
    <3>1. CASE UNCHANGED <<diskVars, now>>
      BY <3>1
    <3>2. CASE \E d \in Devices : D!Unplug(d) \/ D!Plug(d) \/ \E n \in Sizes : D!Transfer(d, n)
      BY <3>2, DiskActions, SamplingAssumption DEF DP!Next, SamplingAssumption
    <3>3. CASE /\ \E i \in Interfaces : N!Unplug(i) \/ N!Plug(i) \/ \E n \in Sizes : N!Transfer(i, n)
               /\ UNCHANGED diskVars
      <4>1. UNCHANGED now
        BY <3>3 DEF N!Unplug, N!Plug, N!Transfer
      <4> QED
        BY <3>3, <4>1
    <3> QED
      BY <2>1, <3>1, <3>2, <3>3 DEF Kernel
  <2>2. CASE Tick
    <3>1. DP!Tick
      BY <2>2 DEF Tick, DP!Tick
    <3> QED
      BY <3>1 DEF DP!Next
  <2>3. CASE D!Collect \/ D!CollectFails
    BY <2>3, DiskActions DEF DP!Next
  <2>4. CASE UNCHANGED <<diskVars, now>>
    BY <2>4
  <2>5. CASE Baseline \/ SampleCPU \/ SampleDisk
    BY <2>3, <2>4, <2>5 DEF Baseline, SampleCPU, SampleDisk, CollectDisk, ReadCPU, FailCPU
  <2>6. CASE BaselineTaken \/ SampleNet
    <3>1. UNCHANGED <<diskVars, now>>
      BY <2>6 DEF BaselineTaken, SampleNet, CollectNet, N!Collect, N!CollectFails
    <3> QED
      BY <2>4, <3>1
  <2>7. CASE TakeTick \/ StopSeen \/ MemoryRead \/ MemoryFails \/ Publish \/ Stop
    <3>1. UNCHANGED <<diskVars, now>>
      BY <2>7 DEF TakeTick, StopSeen, MemoryRead, MemoryFails, Publish, Stop
    <3> QED
      BY <2>4, <3>1
  <2>8. CASE UNCHANGED vars
    BY <2>4, <2>8 DEF vars
  <2> QED
    BY <2>1, <2>2, <2>5, <2>6, <2>7, <2>8 DEF Next
<1> QED
  BY <1>1, <1>2, PTL DEF Spec, DP!Spec

-----------------------------------------------------------------------------
(* The loop drives both collectors *)

LEMMA ImplementsNet == Spec => NP!Spec
<1>1. Init => NP!Init
  BY NetActions DEF Init
<1>2. [Next]_vars => [NP!Next]_(NP!vars)
  <2> SUFFICES ASSUME [Next]_vars PROVE [NP!Next]_(NP!vars)
    OBVIOUS
  <2> USE DEF NP!vars, NP!procVars, netVars
  <2>1. CASE Kernel
    <3>1. CASE UNCHANGED <<netVars, now>>
      BY <3>1
    <3>2. CASE \E i \in Interfaces : N!Unplug(i) \/ N!Plug(i) \/ \E n \in Sizes : N!Transfer(i, n)
      BY <3>2, NetActions, SamplingAssumption DEF NP!Next, SamplingAssumption
    <3>3. CASE /\ \E d \in Devices : D!Unplug(d) \/ D!Plug(d) \/ \E n \in Sizes : D!Transfer(d, n)
               /\ UNCHANGED netVars
      <4>1. UNCHANGED now
        BY <3>3 DEF D!Unplug, D!Plug, D!Transfer
      <4> QED
        BY <3>3, <4>1
    <3> QED
      BY <2>1, <3>1, <3>2, <3>3 DEF Kernel
  <2>2. CASE Tick
    <3>1. NP!Tick
      BY <2>2 DEF Tick, NP!Tick
    <3> QED
      BY <3>1 DEF NP!Next
  <2>3. CASE N!Collect \/ N!CollectFails
    BY <2>3, NetActions DEF NP!Next
  <2>4. CASE UNCHANGED <<netVars, now>>
    BY <2>4
  <2>5. CASE Baseline \/ SampleCPU \/ SampleDisk
    <3>1. UNCHANGED <<netVars, now>>
      BY <2>5 DEF Baseline, SampleCPU, SampleDisk, CollectDisk, ReadCPU, FailCPU, D!Collect, D!CollectFails
    <3> QED
      BY <2>4, <3>1
  <2>6. CASE BaselineTaken \/ SampleNet
    BY <2>3, <2>6 DEF BaselineTaken, SampleNet, CollectNet
  <2>7. CASE TakeTick \/ StopSeen \/ MemoryRead \/ MemoryFails \/ Publish \/ Stop
    <3>1. UNCHANGED <<netVars, now>>
      BY <2>7 DEF TakeTick, StopSeen, MemoryRead, MemoryFails, Publish, Stop
    <3> QED
      BY <2>4, <3>1
  <2>8. CASE UNCHANGED vars
    BY <2>4, <2>8 DEF vars
  <2> QED
    BY <2>1, <2>2, <2>5, <2>6, <2>7, <2>8 DEF Next
<1> QED
  BY <1>1, <1>2, PTL DEF Spec, NP!Spec

-----------------------------------------------------------------------------
\* The rates of the disks and of the network never claim more than was
\* transferred since their previous reading (disk.go:127-144, net.go:112-124), and
\* show all of it for what ran on, over the time that really passed, whichever
\* readings failed and whichever snapshots were given up in between (disk.go:231,
\* net.go:189).
THEOREM RatesExactHolds == Spec => []RatesExact
<1>1. DP!NoSpike /\ DP!Exact => D!NoSpike /\ D!Exact
  BY DEF D!NoSpike, DP!NoSpike, D!Exact, DP!Exact, D!Seconds, DP!Seconds
<1>2. NP!NoSpike /\ NP!Exact => N!NoSpike /\ N!Exact
  BY DEF N!NoSpike, NP!NoSpike, N!Exact, NP!Exact, N!Seconds, NP!Seconds
<1>3. DP!DevicesAssumption /\ NP!DevicesAssumption
  BY DiskActions, NetActions, SamplingAssumption DEF SamplingAssumption
<1>4. (DP!Spec => [](DP!NoSpike /\ DP!Exact)) /\ (NP!Spec => [](NP!NoSpike /\ NP!Exact))
  BY <1>3, DP!RatesTrue, NP!RatesTrue
<1> QED
  BY <1>1, <1>2, <1>4, ImplementsDisk, ImplementsNet, SamplingAssumption, PTL DEF RatesExact

\* Both totals have all that was transferred on what they count and ran on, and
\* nothing of what they do not count, the partitions and the loopback (disk.go:148,
\* net.go:127); that of the disks counts a transfer once, on whatever partition it
\* was (disk.go:146-153).
THEOREM TotalsExactHolds == Spec => []TotalsExact
<1>1. DP!TotalExact /\ DP!CountedOnce => D!TotalExact /\ D!CountedOnce
  BY Zenon DEF D!TotalExact, DP!TotalExact, D!CountedOnce, DP!CountedOnce, D!SumOver, DP!SumOver,
     D!MapThenSumSet, DP!MapThenSumSet, D!MapThenFoldSet, DP!MapThenFoldSet
<1>2. NP!TotalExact => N!TotalExact
  BY Zenon DEF N!TotalExact, NP!TotalExact, N!SumOver, NP!SumOver,
     N!MapThenSumSet, NP!MapThenSumSet, N!MapThenFoldSet, NP!MapThenFoldSet
<1>3. DP!DevicesAssumption /\ NP!DevicesAssumption /\ DP!OnlyWhole
  BY DiskActions, NetActions, SamplingAssumption DEF SamplingAssumption, DP!OnlyWhole
<1>4. (DP!Spec => []DP!TotalExact) /\ (DP!Spec => []DP!CountedOnce) /\ (NP!Spec => []NP!TotalExact)
  BY <1>3, DP!TotalExactHolds, DP!CountedOnceHolds, NP!TotalExactHolds
<1> QED
  BY <1>1, <1>2, <1>4, ImplementsDisk, ImplementsNet, SamplingAssumption, PTL DEF TotalsExact

-----------------------------------------------------------------------------
(* What the loop gives up *)

\* What is pending where.  A reading of the CPU is pending from its collector
\* to the publication; nothing else is when memory, whose failure gives the
\* round up, is read.
Rounds ==
    /\ pc \in {"memory", "disk", "net", "publish"} => "cpu" \in pending
    /\ pc = "memory" => pending \subseteq {"cpu"}
    /\ pc = "cpu" \/ pc = "select" => pending = {}
    /\ lost \subseteq {"cpu"}
    /\ faults \in Nat
    /\ faults = 0 => lost = {}

LEMMA RoundsHold == Spec => []Rounds
<1>1. Init => Rounds
  BY DEF Init, Rounds
<1>2. Rounds /\ [Next]_vars => Rounds'
  <2> SUFFICES ASSUME Rounds, [Next]_vars PROVE Rounds'
    OBVIOUS
  <2>0. Fault => faults' \in Nat /\ faults' # 0
    BY DEF Rounds, Fault
  <2> USE DEF Rounds, loopVars
  <2>1. CASE Kernel
    BY <2>1 DEF Kernel
  <2>2. CASE Tick
    BY <2>2 DEF Tick
  <2>3. CASE Baseline
    BY <2>0, <2>3 DEF Baseline, ReadCPU, FailCPU, CollectDisk
  <2>4. CASE BaselineTaken
    BY <2>0, <2>4 DEF BaselineTaken
  <2>5. CASE TakeTick \/ StopSeen \/ Stop
    BY <2>5 DEF TakeTick, StopSeen, Stop
  <2>6. CASE SampleCPU
    BY <2>0, <2>6 DEF SampleCPU, ReadCPU, FailCPU
  <2>7. CASE MemoryRead
    BY <2>7 DEF MemoryRead
  <2>8. CASE MemoryFails
    BY <2>0, <2>8 DEF MemoryFails, Continue
  <2>9. CASE SampleDisk \/ SampleNet
    BY <2>0, <2>9 DEF SampleDisk, SampleNet, CollectDisk, CollectNet
  <2>10. CASE Publish
    BY <2>10 DEF Publish
  <2>11. CASE UNCHANGED vars
    BY <2>11 DEF vars
  <2> QED
    BY <2>1, <2>2, <2>3, <2>4, <2>5, <2>6, <2>7, <2>8, <2>9, <2>10, <2>11 DEF Next
<1> QED
  BY <1>1, <1>2, PTL DEF Spec

\* Whatever fails and whenever, what is published has the CPU's reading, and
\* only readings of the CPU are given up (server.go:243-249).
THEOREM ReadingsPublishedHolds == Spec => []ReadingsPublished
<1>1. Rounds => ReadingsPublished
  BY DEF Rounds, ReadingsPublished
<1> QED
  BY <1>1, RoundsHold, PTL

-----------------------------------------------------------------------------
(* The CPU *)

CPUTypes ==
    /\ stat \in [Cores -> [C!Kinds -> Nat]]
    /\ spent \in [Cores -> [C!Kinds -> Nat]]
    /\ online \subseteq Cores
    /\ DOMAIN lastTicks \subseteq Cores
    /\ \A c \in DOMAIN lastTicks : lastTicks[c] \in [C!Kinds -> Nat]

\* A core of the previous reading is ahead of it by what it spent since.
CPUAccount ==
    \A c \in DOMAIN lastTicks \ fell, k \in C!Kinds : stat[c][k] = lastTicks[c][k] + spent[c][k]

\* No more ticks are spent than the kernel made steps.
SpentBound ==
    /\ events \in Nat /\ events <= MaxEvents
    /\ \A c \in Cores : C!CPUTotal(spent[c]) <= events

CPUInv == CPUTypes /\ CPUAccount /\ SpentBound

\* Of two readings that differ by what was done, calculateDelta shows what was
\* done (cpu.go:115-160).
LEMMA DeltaExact ==
    ASSUME NEW prev \in [C!Kinds -> Nat], NEW curr \in [C!Kinds -> Nat], NEW did \in [C!Kinds -> Nat],
           \A k \in C!Kinds : curr[k] = prev[k] + did[k],
           C!CPUTotal(did) < Word, Word \in Nat
    PROVE  C!CalculateDelta(prev, curr)
             = C!Usage(C!CPUTotal(did), C!CPUTotal(did) - C!IdleTotal(did),
                       did["user"], did["system"], did["iowait"])
<1>1. \A k \in C!Kinds : prev[k] \in Nat /\ curr[k] \in Nat /\ did[k] \in Nat /\ curr[k] = prev[k] + did[k]
  OBVIOUS
<1>2. C!Kinds = {"user", "system", "idle", "iowait", "other"}
  BY DEF C!Kinds
<1>3. PICK of \in Nat : of = C!CPUTotal(did)
  BY <1>1, <1>2 DEF C!CPUTotal, C!IdleTotal
<1>4. PICK idle \in Nat : idle = C!IdleTotal(did)
  BY <1>1, <1>2 DEF C!IdleTotal
<1>5. C!CPUTotal(curr) - C!CPUTotal(prev) = of
  BY <1>1, <1>2, <1>3 DEF C!CPUTotal, C!IdleTotal
<1>6. C!IdleTotal(curr) - C!IdleTotal(prev) = idle
  BY <1>1, <1>2, <1>4 DEF C!IdleTotal
<1>7. /\ idle <= of /\ of < Word
      /\ did["user"] <= of /\ did["system"] <= of /\ did["iowait"] <= of
  BY <1>1, <1>2, <1>3, <1>4 DEF C!CPUTotal, C!IdleTotal
<1>8. idle % Word = idle
  BY <1>7
<1>9. CASE of <= 0
  BY <1>1, <1>2, <1>3, <1>4, <1>5, <1>7, <1>9 DEF C!CalculateDelta, C!NoUsage
<1>10. CASE ~(of <= 0)
  <2>1. C!Clamp(of - idle, of) = of - idle
    BY <1>7 DEF C!Clamp
  <2>2. ASSUME NEW k \in {"user", "system", "iowait"} PROVE C!Part(prev, curr, k, of) = did[k]
    <3>1. curr[k] >= prev[k] /\ curr[k] - prev[k] = did[k] /\ did[k] \in Nat /\ did[k] <= of
      BY <1>1, <1>2, <1>7
    <3> QED
      BY <3>1 DEF C!Part, C!Clamp
  <2>3. C!CalculateDelta(prev, curr)
          = C!Usage(of, C!Clamp(of - idle, of), C!Part(prev, curr, "user", of),
                    C!Part(prev, curr, "system", of), C!Part(prev, curr, "iowait", of))
    BY <1>5, <1>6, <1>8, <1>10 DEF C!CalculateDelta
  <2> QED
    BY <1>3, <1>4, <2>1, <2>2, <2>3
<1> QED
  BY <1>9, <1>10

\* The kernel's steps: one tick at most, of one core.
LEMMA CoresStep ==
    ASSUME CPUInv, events < MaxEvents, events' = events + 1, NEW c \in Cores,
           C!Offline(c) \/ C!Online(c) \/ \E k \in C!Kinds : C!Spend(c, k) \/ C!Fall(c, k)
    PROVE  CPUInv'
<1> USE DEF CPUInv
<1>1. lastTicks' = lastTicks /\ events' \in Nat /\ events' <= MaxEvents
  BY SamplingAssumption DEF C!Offline, C!Online, C!Spend, C!Fall, SpentBound, SamplingAssumption
<1>2. CASE C!Offline(c) \/ C!Online(c)
  <2>1. stat' = stat /\ spent' = spent /\ fell' = fell /\ online' \subseteq Cores
    BY <1>2 DEF C!Offline, C!Online, CPUTypes
  <2>2. \A x \in Cores : C!CPUTotal(spent[x]) \in Int
    BY DEF CPUTypes, C!CPUTotal, C!IdleTotal, C!Kinds
  <2> QED
    BY <1>1, <2>1, <2>2 DEF CPUTypes, CPUAccount, SpentBound
<1>3. ASSUME NEW k \in C!Kinds, C!Spend(c, k) PROVE CPUInv'
  <2>1. /\ stat' = [stat EXCEPT ![c][k] = @ + 1] /\ spent' = [spent EXCEPT ![c][k] = @ + 1]
        /\ fell' = fell /\ online' = online
    BY <1>3 DEF C!Spend
  <2>2. CPUTypes'
    BY <1>1, <2>1 DEF CPUTypes
  <2>3. ASSUME NEW x \in Cores, NEW j \in C!Kinds
        PROVE  \/ x = c /\ j = k /\ stat'[x][j] = stat[x][j] + 1 /\ spent'[x][j] = spent[x][j] + 1
               \/ ~(x = c /\ j = k) /\ stat'[x][j] = stat[x][j] /\ spent'[x][j] = spent[x][j]
    BY <2>1 DEF CPUTypes
  <2>4. CPUAccount'
    <3> SUFFICES ASSUME NEW x \in DOMAIN lastTicks \ fell, NEW j \in C!Kinds
                 PROVE  stat'[x][j] = lastTicks[x][j] + spent'[x][j]
      BY <1>1, <2>1 DEF CPUAccount
    <3>1. /\ stat[x][j] = lastTicks[x][j] + spent[x][j]
          /\ lastTicks[x][j] \in Nat /\ spent[x][j] \in Nat /\ x \in Cores
      BY DEF CPUAccount, CPUTypes
    <3> QED
      BY <2>3, <3>1
  <2>5. ASSUME NEW x \in Cores PROVE C!CPUTotal(spent'[x]) <= events'
    <3>1. C!CPUTotal(spent[x]) <= events /\ events \in Nat
      BY DEF SpentBound
    <3>2. spent[x]["user"] \in Nat /\ spent[x]["system"] \in Nat /\ spent[x]["idle"] \in Nat
          /\ spent[x]["iowait"] \in Nat /\ spent[x]["other"] \in Nat
      BY DEF CPUTypes, C!Kinds
    <3>3. C!CPUTotal(spent'[x]) <= C!CPUTotal(spent[x]) + 1
      BY <2>3, <3>2 DEF C!CPUTotal, C!IdleTotal, C!Kinds
    <3>4. C!CPUTotal(spent[x]) \in Int /\ C!CPUTotal(spent'[x]) \in Int
      BY <2>3, <3>2 DEF C!CPUTotal, C!IdleTotal, C!Kinds
    <3> QED
      BY <3>1, <3>3, <3>4
  <2> QED
    BY <1>1, <2>2, <2>4, <2>5 DEF SpentBound
<1>4. ASSUME NEW k \in C!Kinds, C!Fall(c, k) PROVE CPUInv'
  <2>1. /\ stat' = [stat EXCEPT ![c][k] = @ - 1] /\ stat[c][k] > 0
        /\ spent' = spent /\ fell' = fell \cup {c} /\ online' = online
    BY <1>4 DEF C!Fall
  <2>2. CPUTypes'
    BY <1>1, <2>1 DEF CPUTypes
  <2>3. CPUAccount'
    <3> SUFFICES ASSUME NEW x \in DOMAIN lastTicks \ fell, x # c, NEW j \in C!Kinds
                 PROVE  stat'[x][j] = lastTicks[x][j] + spent[x][j]
      BY <1>1, <2>1 DEF CPUAccount
    <3>1. stat'[x] = stat[x]
      BY <2>1 DEF CPUTypes
    <3> QED
      BY <3>1 DEF CPUAccount
  <2>4. \A x \in Cores : C!CPUTotal(spent[x]) \in Int
    BY DEF CPUTypes, C!CPUTotal, C!IdleTotal, C!Kinds
  <2> QED
    BY <1>1, <2>1, <2>2, <2>3, <2>4 DEF SpentBound
<1> QED
  BY <1>2, <1>3, <1>4

\* A reading opens new accounts.
LEMMA CPUCollectKeeps ==
    ASSUME CPUInv, C!Collect, events' = events
    PROVE  CPUInv'
<1> USE DEF CPUInv
<1>1. /\ lastTicks' = [c \in online |-> stat[c]] /\ stat' = stat /\ online' = online
      /\ spent' = [c \in Cores |-> [k \in C!Kinds |-> 0]] /\ fell' = {}
  BY DEF C!Collect, C!Reading, C!NoTicks
<1>2. CPUTypes'
  BY <1>1 DEF CPUTypes
<1>3. CPUAccount'
  BY <1>1 DEF CPUAccount, CPUTypes
<1>4. SpentBound'
  <2>1. \A c \in Cores : C!CPUTotal(spent'[c]) = 0
    BY <1>1 DEF C!CPUTotal, C!IdleTotal, C!Kinds
  <2> QED
    BY <2>1 DEF SpentBound
<1> QED
  BY <1>2, <1>3, <1>4

LEMMA CPUStep ==
    ASSUME CPUInv, [Next]_vars
    PROVE  \/ CPUInv' /\ UNCHANGED <<cpuShown, cpuTruth>>
           \/ CPUInv' /\ C!CollectFails
           \/ CPUInv' /\ C!Collect
<1>1. CASE UNCHANGED <<cpuVars, events>>
  BY <1>1 DEF cpuVars, CPUInv, CPUTypes, CPUAccount, SpentBound
<1>2. CASE C!Collect /\ UNCHANGED events
  BY <1>2, CPUCollectKeeps
<1>3. CASE C!CollectFails /\ UNCHANGED events
  BY <1>3 DEF C!CollectFails, C!statVars, CPUInv, CPUTypes, CPUAccount, SpentBound
<1>4. CASE Kernel
  <2>1. CASE \E c \in Cores : C!Offline(c) \/ C!Online(c) \/ \E k \in C!Kinds : C!Spend(c, k) \/ C!Fall(c, k)
    <3>1. UNCHANGED <<cpuShown, cpuTruth>>
      BY <2>1 DEF C!Offline, C!Online, C!Spend, C!Fall
    <3>2. PICK c \in Cores : C!Offline(c) \/ C!Online(c) \/ \E k \in C!Kinds : C!Spend(c, k) \/ C!Fall(c, k)
      BY <2>1
    <3>3. CPUInv'
      BY <1>4, <3>2, SamplingAssumption, CoresStep DEF Kernel
    <3> QED
      BY <3>1, <3>3
  <2>2. CASE UNCHANGED cpuVars
    <3>1. events' \in Nat /\ events' <= MaxEvents /\ events <= events'
      BY <1>4, SamplingAssumption DEF Kernel, CPUInv, SpentBound, SamplingAssumption
    <3>2. \A c \in Cores : C!CPUTotal(spent[c]) \in Int
      BY DEF CPUInv, CPUTypes, C!CPUTotal, C!IdleTotal, C!Kinds
    <3>3. CPUTypes' /\ CPUAccount'
      BY <2>2 DEF cpuVars, CPUInv, CPUTypes, CPUAccount
    <3>4. SpentBound'
      BY <2>2, <3>1, <3>2 DEF cpuVars, CPUInv, SpentBound
    <3> QED
      BY <2>2, <3>3, <3>4 DEF cpuVars, CPUInv
  <2> QED
    BY <1>4, <2>1, <2>2 DEF Kernel
<1>5. CASE Baseline \/ SampleCPU
  BY <1>1, <1>2, <1>3, <1>5 DEF Baseline, SampleCPU, ReadCPU, FailCPU, CollectDisk
<1>6. CASE BaselineTaken \/ SampleDisk \/ SampleNet
  BY <1>1, <1>6 DEF BaselineTaken, SampleDisk, SampleNet, CollectDisk, CollectNet
<1>7. CASE Tick \/ TakeTick \/ StopSeen \/ MemoryRead \/ MemoryFails \/ Publish \/ Stop
  BY <1>1, <1>7 DEF Tick, TakeTick, StopSeen, MemoryRead, MemoryFails, Publish, Stop
<1>8. CASE UNCHANGED vars
  BY <1>1, <1>8 DEF vars
<1> QED
  BY <1>4, <1>5, <1>6, <1>7, <1>8 DEF Next

\* What a reading shows, from the accounts it closes.
LEMMA CPUShown ==
    ASSUME CPUInv, C!Collect
    PROVE  UsageExact'
<1> USE DEF CPUInv
<1>1. CASE cpuFresh
  <2>1. cpuTruth'.known = {}
    BY <1>1 DEF C!Collect, C!Truth
  <2> QED
    BY <2>1 DEF UsageExact, C!UsageExact
<1>2. CASE ~cpuFresh
  <2>1. /\ cpuTruth'.spent = spent /\ cpuTruth'.fell = fell /\ cpuTruth'.known = DOMAIN lastTicks
        /\ cpuShown' = [c \in online \cap DOMAIN lastTicks |-> C!CalculateDelta(lastTicks[c], stat[c])]
    BY <1>2 DEF C!Collect, C!Truth, C!CalculateCPUUsage, C!Reading
  <2>2. ASSUME NEW c \in (DOMAIN cpuShown' \cap DOMAIN lastTicks) \ fell
        PROVE  cpuShown'[c] = C!Usage(C!CPUTotal(spent[c]), C!CPUTotal(spent[c]) - C!IdleTotal(spent[c]),
                                      spent[c]["user"], spent[c]["system"], spent[c]["iowait"])
    <3>1. c \in Cores /\ c \in DOMAIN lastTicks \ fell
      BY DEF CPUTypes
    <3>2. /\ lastTicks[c] \in [C!Kinds -> Nat] /\ stat[c] \in [C!Kinds -> Nat]
          /\ spent[c] \in [C!Kinds -> Nat]
      BY <3>1 DEF CPUTypes
    <3>3. \A k \in C!Kinds : stat[c][k] = lastTicks[c][k] + spent[c][k]
      BY <3>1 DEF CPUAccount
    <3>4. Word \in Nat /\ MaxEvents \in Nat /\ MaxEvents < Word
      BY SamplingAssumption DEF SamplingAssumption, D!DevicesAssumption
    <3>5. C!CPUTotal(spent[c]) < Word
      <4>1. C!CPUTotal(spent[c]) \in Int
        BY <3>2 DEF C!CPUTotal, C!IdleTotal, C!Kinds
      <4> QED
        BY <3>1, <3>4, <4>1 DEF SpentBound
    <3>6. C!CalculateDelta(lastTicks[c], stat[c])
            = C!Usage(C!CPUTotal(spent[c]), C!CPUTotal(spent[c]) - C!IdleTotal(spent[c]),
                      spent[c]["user"], spent[c]["system"], spent[c]["iowait"])
      BY <3>2, <3>3, <3>4, <3>5, DeltaExact
    <3> QED
      BY <2>1, <3>6
  <2> QED
    BY <2>1, <2>2 DEF UsageExact, C!UsageExact
<1> QED
  BY <1>1, <1>2

\* What a core is shown to have done is what it did since the reading before,
\* through failed readings and cores that go and come back, while no counter
\* went back (calculateDelta, cpu.go:115-160).
THEOREM UsageExactHolds == Spec => [](CPUInv /\ UsageExact)
<1>1. Init => CPUInv /\ UsageExact
  <2> SUFFICES ASSUME Init PROVE CPUInv /\ UsageExact
    OBVIOUS
  <2>1. /\ stat = [c \in Cores |-> [k \in C!Kinds |-> 0]] /\ spent = stat
        /\ online = Cores /\ lastTicks = <<>> /\ cpuShown = <<>> /\ events = 0
    BY DEF Init, C!Init, C!NoTicks
  <2>2. CPUTypes /\ CPUAccount
    BY <2>1 DEF CPUTypes, CPUAccount
  <2>3. SpentBound
    <3>1. ASSUME NEW c \in Cores PROVE C!CPUTotal(spent[c]) = 0
      <4>1. \A k \in C!Kinds : spent[c][k] = 0
        BY <2>1
      <4> QED
        BY <4>1 DEF C!CPUTotal, C!IdleTotal, C!Kinds
    <3> QED
      BY <2>1, <3>1, SamplingAssumption DEF SpentBound, SamplingAssumption
  <2>4. UsageExact
    <3>1. DOMAIN cpuShown = {}
      BY <2>1
    <3> QED
      BY <3>1 DEF UsageExact, C!UsageExact
  <2> QED
    BY <2>2, <2>3, <2>4 DEF CPUInv
<1>2. CPUInv /\ UsageExact /\ [Next]_vars => (CPUInv /\ UsageExact)'
  <2> SUFFICES ASSUME CPUInv, UsageExact, [Next]_vars PROVE (CPUInv /\ UsageExact)'
    OBVIOUS
  <2>1. ASSUME UNCHANGED <<cpuShown, cpuTruth>> PROVE UsageExact'
    BY <2>1 DEF UsageExact, C!UsageExact
  <2>2. ASSUME C!CollectFails PROVE UsageExact'
    <3>1. DOMAIN cpuShown' = {}
      BY <2>2 DEF C!CollectFails
    <3> QED
      BY <3>1 DEF UsageExact, C!UsageExact
  <2>3. ASSUME C!Collect PROVE UsageExact'
    BY <2>3, SamplingAssumption, CPUShown
  <2> QED
    BY <2>1, <2>2, <2>3, SamplingAssumption, CPUStep
<1> QED
  BY <1>1, <1>2, PTL DEF Spec
=============================================================================

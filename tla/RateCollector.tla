--------------------------- MODULE RateCollector ---------------------------
(***************************************************************************)
(* DiskCollector (internal/collector/disk.go): throughput computed from    *)
(* two readings of counters that the kernel keeps by name, and that may    *)
(* disappear, restart at zero or wrap between the readings.  NetCollector  *)
(* is the same machine with other counters; module Sampling has both.      *)
(*                                                                         *)
(* There is one counter per name, in sectors for a disk and in bytes for   *)
(* an interface; the code treats reads and writes, requests and packets    *)
(* alike.  A rate is the pair of its numerator and its seconds: the        *)
(* division, the rounding to cents and the factor SectorSizeBytes, which   *)
(* overflows beyond 2^55 sectors, are left out.                            *)
(***************************************************************************)
EXTENDS Integers, FiniteSetsExt

CONSTANTS
    Devices,  \* names that may appear; loop and ram are never among them
    Host,     \* Host[d]: the device on which d lies, d itself if it is whole
    Counted,  \* the names isPrimaryDisk accepts
    Word      \* counters are kept modulo this number

\* What the constants must be; Sampling assumes it of both its instances.
DevicesAssumption ==
    /\ IsFiniteSet(Devices)
    /\ Host \in [Devices -> Devices]
    /\ Counted \subseteq Devices
    /\ Word \in Nat \ {0}

VARIABLES
    proc,      \* the file: a function on the names that it lists
    now,       \* time
    fresh,     \* lastStats is nil
    last,      \* lastStats
    lastTime,
    shown,     \* what the last call of Collect returned
    moved,     \* history: what each device transferred since lastTime
    restarted, \* history: devices whose counter restarted or wrapped since
    readAt,    \* history: when lastStats was read
    truth      \* history: what the last call of Collect should have shown

procVars == <<proc, moved, restarted>>
vars == <<procVars, now, fresh, last, lastTime, shown, readAt, truth>>

Ticks == 0..(Word - 1)

\* What a map from names to counters may be.
Readings == UNION {[S -> Ticks] : S \in SUBSET Devices}

\* Sum of f over S.
SumOver(f, S) == MapThenSumSet(LAMBDA d : f[d], S)

-----------------------------------------------------------------------------
(* The kernel *)

\* The devices whose counters a transfer on d moves.
Path(d) == {d, Host[d]}

Transfer(d, n) ==
    /\ Path(d) \subseteq DOMAIN proc
    /\ n < Word
    /\ proc' = [e \in DOMAIN proc |->
                   IF e \notin Path(d) THEN proc[e]
                   ELSE IF proc[e] + n < Word THEN proc[e] + n ELSE proc[e] + n - Word]
    /\ moved' = [e \in Devices |-> IF e \in Path(d) THEN moved[e] + n ELSE moved[e]]
    /\ restarted' = restarted \cup {e \in Path(d) : proc[e] + n >= Word}
    /\ UNCHANGED <<now, fresh, last, lastTime, shown, readAt, truth>>

Guests(d) == {e \in Devices : Host[e] = d}

\* A device is pulled, with all that lies on it.
Unplug(d) ==
    /\ Host[d] = d
    /\ d \in DOMAIN proc
    /\ proc' = [e \in DOMAIN proc \ Guests(d) |-> proc[e]]
    /\ restarted' = restarted \cup Guests(d)
    /\ UNCHANGED <<moved, now, fresh, last, lastTime, shown, readAt, truth>>

\* A device appears, perhaps under a name that was known, and counts from 0.
Plug(d) ==
    /\ Host[d] = d
    /\ d \notin DOMAIN proc
    /\ proc' = [e \in DOMAIN proc \cup Guests(d) |-> IF e \in Guests(d) THEN 0 ELSE proc[e]]
    /\ restarted' = restarted \cup Guests(d)
    /\ UNCHANGED <<moved, now, fresh, last, lastTime, shown, readAt, truth>>

-----------------------------------------------------------------------------
(* Collect *)

\* Variant of Delta: the subtraction of unsigned numbers is not guarded.
DeltaUnguarded(prev, curr, d) ==
    IF d \in DOMAIN prev THEN (curr[d] - prev[d]) % Word ELSE 0

\* A device has a rate when it was there before and did not count backwards.
Delta(prev, curr, d) ==
    IF d \in DOMAIN prev /\ curr[d] >= prev[d] THEN curr[d] - prev[d] ELSE 0

Seconds(duration) == IF duration <= 0 THEN 1 ELSE duration

\* Variant of Total: partitions are added to the disks they lie on.
TotalOfAll(rates) == SumOver(rates, DOMAIN rates)

\* Variant of Total: the total is taken before the rates are set.
TotalTooEarly(rates) == SumOver([d \in DOMAIN rates |-> 0], DOMAIN rates \cap Counted)

Total(rates) == SumOver(rates, DOMAIN rates \cap Counted)

Stats(rates, seconds) == [rates |-> rates, seconds |-> seconds, total |-> Total(rates)]

\* CalculateDiskStats
CalculateStats(prev, curr, duration) ==
    Stats([d \in DOMAIN curr |-> Delta(prev, curr, d)], Seconds(duration))

\* Nothing to compare with yet.
Baseline(curr) == Stats([d \in DOMAIN curr |-> 0], 1)

\* The zero value, returned with an error.
NoStats == [rates |-> <<>>, seconds |-> 1, total |-> 0]

\* History: what happened since the reading before, and what that reading had.
Truth == [moved |-> moved, restarted |-> restarted, elapsed |-> now - readAt,
          known |-> IF fresh THEN {} ELSE DOMAIN last]

Collect ==
    /\ shown' = IF fresh THEN Baseline(proc) ELSE CalculateStats(last, proc, now - lastTime)
    /\ truth' = Truth
    /\ fresh' = FALSE
    /\ last' = proc
    /\ lastTime' = now
    /\ readAt' = now
    /\ moved' = [d \in Devices |-> 0]
    /\ restarted' = {}
    /\ UNCHANGED <<proc, now>>

\* Variant of CollectFails: the time of the reading that failed is kept.
CollectFailsTakingTime ==
    /\ shown' = NoStats
    /\ lastTime' = now
    /\ UNCHANGED <<procVars, now, fresh, last, readAt, truth>>

\* The file cannot be opened or read; nothing is remembered.
CollectFails ==
    /\ shown' = NoStats
    /\ UNCHANGED <<procVars, now, fresh, last, lastTime, readAt, truth>>

Tick ==
    /\ now' = now + 1
    /\ UNCHANGED <<procVars, fresh, last, lastTime, shown, readAt, truth>>

Init ==
    /\ proc \in Readings
    /\ \A d \in Devices : d \in DOMAIN proc => Host[d] \in DOMAIN proc
    /\ now = 0
    /\ fresh = TRUE
    /\ last = <<>>
    /\ lastTime = 0
    /\ readAt = 0
    /\ shown = NoStats
    /\ moved = [d \in Devices |-> 0]
    /\ restarted = {}
    /\ truth = [moved |-> [d \in Devices |-> 0], restarted |-> {}, elapsed |-> 0, known |-> {}]

Next ==
    \/ \E d \in Devices : Unplug(d) \/ Plug(d) \/ \E n \in Nat : Transfer(d, n)
    \/ Collect
    \/ CollectFails
    \/ Tick

Spec == Init /\ [][Next]_vars

-----------------------------------------------------------------------------
(* Properties *)

\* Type invariant.
TypeOK ==
    /\ proc \in Readings /\ last \in Readings
    /\ now \in Nat /\ lastTime \in 0..now /\ readAt \in 0..now
    /\ fresh \in BOOLEAN
    /\ shown.rates \in Readings /\ shown.seconds \in Nat \ {0} /\ shown.total \in Nat
    /\ moved \in [Devices -> Nat]
    /\ restarted \subseteq Devices
    /\ truth \in [moved : [Devices -> Nat], restarted : SUBSET Devices,
                  elapsed : Nat, known : SUBSET Devices]

\* No spike: a rate that is shown never claims more than the device really
\* transferred since the previous reading, through restarts of counters,
\* devices that come and go under the same name, counters that wrap and
\* readings that failed (the guards of CalculateDiskStats on uint64).
NoSpike ==
    \A d \in DOMAIN shown.rates : shown.rates[d] <= truth.moved[d]

\* Nothing is lost or stretched either: a device that was in the previous
\* reading and whose counter ran on is shown with all it transferred, over the
\* time that really passed, whatever failed in between.
Exact ==
    \A d \in (DOMAIN shown.rates \cap truth.known) \ truth.restarted :
        /\ shown.rates[d] = truth.moved[d]
        /\ shown.seconds = Seconds(truth.elapsed)

\* "avoid double counting both whole disk and partition" (disk.go:146): the
\* total never exceeds what the whole devices transferred.
CountedOnce ==
    shown.total <= SumOver(truth.moved, {d \in Devices : Host[d] = d})

\* The total hides nothing: it has all that the counted devices whose counters
\* ran on have transferred, and no more than all counted devices have, whatever
\* was plugged in, pulled or wrapped beside them (the sums of
\* CalculateDiskStats and CalculateNetStats).
TotalExact ==
    LET S == DOMAIN shown.rates \cap Counted
    IN  /\ SumOver(truth.moved, (S \cap truth.known) \ truth.restarted) <= shown.total
        /\ shown.total <= SumOver(truth.moved, S)
=============================================================================

---------------------------- MODULE CPUCollector ----------------------------
(***************************************************************************)
(* CPUCollector (internal/collector/cpu.go) and the sums of CPUTicks       *)
(* (internal/model/metrics.go): usage of the cores between two readings of *)
(* /proc/stat.                                                             *)
(*                                                                         *)
(* A core has five counters: user, system, idle, iowait and all others     *)
(* together.  The kernel may let idle and iowait go back, and cores go     *)
(* offline and come back.  A percentage is a share: a part of the ticks    *)
(* that passed.  Rounding is left out.  The arithmetic is uint64: modulo   *)
(* Word, which the sum of a core's counters does not reach.                *)
(***************************************************************************)
EXTENDS Integers

CONSTANTS
    Cores,  \* labels: "cpu" for all together, "cpu0", ...
    Word    \* 2^64

VARIABLES
    stat,    \* stat[c]: the counters the kernel keeps for core c
    online,  \* the cores /proc/stat lists
    fresh,   \* lastTicks is nil
    last,    \* lastTicks
    shown,   \* the cores of the CPUStats returned last
    spent,   \* history: spent[c][k]: ticks of kind k since the last reading
    fell,    \* history: cores with a counter that went back since
    truth    \* history: spent and fell, and the cores that last had, at Collect

statVars == <<stat, online, spent, fell>>
vars == <<statVars, fresh, last, shown, truth>>

Kinds == {"user", "system", "idle", "iowait", "other"}

CPUTicks == [Kinds -> 0..(Word - 1)]

NoTicks == [k \in Kinds |-> 0]

-----------------------------------------------------------------------------
(* The kernel *)

\* A core spends a tick.
Spend(c, k) ==
    /\ c \in online
    /\ stat' = [stat EXCEPT ![c][k] = @ + 1]
    /\ spent' = [spent EXCEPT ![c][k] = @ + 1]
    /\ UNCHANGED <<online, fell, fresh, last, shown, truth>>

\* The kernel corrects its account of idle time.
Fall(c, k) ==
    /\ k \in {"idle", "iowait"}
    /\ stat[c][k] > 0
    /\ stat' = [stat EXCEPT ![c][k] = @ - 1]
    /\ fell' = fell \cup {c}
    /\ UNCHANGED <<online, spent, fresh, last, shown, truth>>

Offline(c) ==
    /\ c \in online
    /\ online' = online \ {c}
    /\ UNCHANGED <<stat, spent, fell, fresh, last, shown, truth>>

Online(c) ==
    /\ c \notin online
    /\ online' = online \cup {c}
    /\ UNCHANGED <<stat, spent, fell, fresh, last, shown, truth>>

-----------------------------------------------------------------------------
(* calculateDelta *)

IdleTotal(t) == t["idle"] + t["iowait"]

CPUTotal(t) == t["user"] + t["system"] + IdleTotal(t) + t["other"]

\* clampPercentage
Clamp(v, of) == IF v < 0 THEN 0 ELSE IF v > of THEN of ELSE v

Usage(of, total, user, system, iowait) ==
    [of |-> of, total |-> total, user |-> user, system |-> system, iowait |-> iowait]

NoUsage == Usage(0, 0, 0, 0, 0)

\* A part's share, when its counter did not go back.
Part(prev, curr, k, of) == IF curr[k] >= prev[k] THEN Clamp(curr[k] - prev[k], of) ELSE 0

\* Variant of CalculateDelta: waiting for I/O counts as work.
CalculateDeltaIOWaitBusy(prev, curr) ==
    LET of == CPUTotal(curr) - CPUTotal(prev)
        idle == (curr["idle"] - prev["idle"]) % Word
    IN  IF of <= 0 THEN NoUsage
        ELSE Usage(of, Clamp(of - idle, of), Part(prev, curr, "user", of),
                   Part(prev, curr, "system", of), Part(prev, curr, "iowait", of))

CalculateDelta(prev, curr) ==
    LET of == CPUTotal(curr) - CPUTotal(prev)
        idle == (IdleTotal(curr) - IdleTotal(prev)) % Word
    IN  IF of <= 0 THEN NoUsage
        ELSE Usage(of, Clamp(of - idle, of), Part(prev, curr, "user", of),
                   Part(prev, curr, "system", of), Part(prev, curr, "iowait", of))

Reading == [c \in online |-> stat[c]]

\* CalculateCPUUsage: only cores that both readings list are shown.
CalculateCPUUsage(prev, curr) ==
    [c \in DOMAIN curr \cap DOMAIN prev |-> CalculateDelta(prev[c], curr[c])]

Truth == [spent |-> spent, fell |-> fell, known |-> IF fresh THEN {} ELSE DOMAIN last]

Collect ==
    /\ online # {}
    /\ shown' = IF fresh THEN [c \in online |-> NoUsage] ELSE CalculateCPUUsage(last, Reading)
    /\ fresh' = FALSE
    /\ last' = Reading
    /\ truth' = Truth
    /\ spent' = [c \in Cores |-> NoTicks]
    /\ fell' = {}
    /\ UNCHANGED <<stat, online>>

\* The file cannot be opened or read, or lists no core.
CollectFails ==
    /\ shown' = <<>>
    /\ UNCHANGED <<statVars, fresh, last, truth>>

Init ==
    /\ stat = [c \in Cores |-> NoTicks]
    /\ online = Cores
    /\ fresh = TRUE
    /\ last = <<>>
    /\ shown = <<>>
    /\ spent = [c \in Cores |-> NoTicks]
    /\ fell = {}
    /\ truth = [spent |-> spent, fell |-> {}, known |-> {}]

Next ==
    \/ \E c \in Cores : Offline(c) \/ Online(c) \/ \E k \in Kinds : Spend(c, k) \/ Fall(c, k)
    \/ Collect
    \/ CollectFails

Spec == Init /\ [][Next]_vars

-----------------------------------------------------------------------------
(* Properties *)

\* What a core is shown to have done is what it did since the previous
\* reading: through failed readings, and for cores that went offline in
\* between and came back, as long as no counter went back.
UsageExact ==
    \A c \in (DOMAIN shown \cap truth.known) \ truth.fell :
        LET did == truth.spent[c] IN
        shown[c] = Usage(CPUTotal(did), CPUTotal(did) - IdleTotal(did),
                         did["user"], did["system"], did["iowait"])
=============================================================================

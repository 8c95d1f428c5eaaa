----------------------------- MODULE MCMetrics -----------------------------
(* The two halves of the metrics path for TLC: the ring buffer that is pushed *)
(* to and read, and the sampling loop that pushes.  They share no state, so   *)
(* one of them moves at a time and the other stays as it starts.  The loop    *)
(* has a disk with a partition and an interface beside the loopback.          *)
EXTENDS RingBuffer, Sampling, FiniteSets

CONSTANT sda

MCHost == [d \in Devices |-> sda]

VARIABLE half

MCInit == half \in {"ring", "loop"} /\ RingInit /\ Init

MCNext ==
    \/ half = "ring" /\ RingNext /\ UNCHANGED <<half, vars>>
    \/ half = "loop" /\ Next /\ UNCHANGED <<half, ringVars>>

MCSpec == MCInit /\ [][MCNext]_<<half, ringVars, vars>>

\* What the kernel does during a round it may as well do before, and so may the
\* clock: a collector reads once a round, and stopChan is looked at between two.
\* The counters of one collector at most have moved, since no collector reads
\* those of another.
MCKernel ==
    /\ <<events, now, stop>>' # <<events, now, stop>> => pc \in {"new", "select"}
    /\ Cardinality({x \in {<<"cpu", stat' = [n \in Cores |-> C!NoTicks] /\ online' = Cores>>,
                           <<"disk", diskstats' = [d \in Devices |-> 0]>>,
                           <<"net", netdev' = [i \in Interfaces |-> 0]>>} : ~x[2]}) <= 1
=============================================================================

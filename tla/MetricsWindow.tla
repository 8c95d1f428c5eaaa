--------------------------- MODULE MetricsWindow ---------------------------
(***************************************************************************)
(* What the ring buffer promises to the handlers that read it: the most    *)
(* recent snapshots, at most Capacity of them, oldest first.               *)
(***************************************************************************)
EXTENDS Integers, Sequences

CONSTANTS Snapshots, Capacity

VARIABLE window

Init == window = <<>>

\* The newest snapshot comes last; a full window gives up its oldest.
Add(s) ==
    window' = IF Len(window) < Capacity THEN Append(window, s)
              ELSE Append(Tail(window), s)

Empty == window' = <<>>

Next == Empty \/ \E s \in Snapshots : Add(s)

Spec == Init /\ [][Next]_window
=============================================================================

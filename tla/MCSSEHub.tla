------------------------------ MODULE MCSSEHub ------------------------------
(* Instances of SSEHub for TLC; see the cfg files. *)
EXTENDS SSEHub

CONSTANTS c1, c2

MCConns   == {c1, c2}
MCOneConn == {c1}

\* Three messages, or two when one is a heartbeat; only one of the peers leaves.
MCFewMessages ==
    /\ pushed' + logs' + 2 * beats' <= 3
    /\ c2 \notin gone'
=============================================================================

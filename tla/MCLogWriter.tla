---------------------------- MODULE MCLogWriter ----------------------------
(* Instances of LogWriter for TLC; see the cfg files. *)
EXTENDS LogWriter

CONSTANTS c1, c2

MCCallers == {c1, c2}
MCUnset   == {0}

\* One caller calls as often as MaxCalls says, the other once.
MCOneShot == calls'[c2] <= 1
=============================================================================

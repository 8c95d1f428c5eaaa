------------------------------ MODULE MCServer ------------------------------
(* Instances of Server for TLC; see the cfg files. *)
EXTENDS Server

CONSTANTS r1, t1, s1

MCRequests == {r1}
MCTailers  == {t1}
MCConns    == {s1}
MCNone     == {}

\* A request, a tailed file and a stream, two of them at most in one run.
MCTwoKinds == tailer'[t1] = "none" \/ stream'[s1] = "none" \/ request'[r1] = "none"
=============================================================================

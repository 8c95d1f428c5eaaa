--------------------------- MODULE MCLogHarvester ---------------------------
(* The bounds are in the cfg files; the constants need no definitions. *)
EXTENDS LogHarvester
=============================================================================

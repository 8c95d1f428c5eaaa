------------------------------ MODULE MCBackup ------------------------------
(* An instance of Backup for TLC; see the cfg files. *)
EXTENDS Backup
=============================================================================

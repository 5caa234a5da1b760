------------------------------ MODULE MCSpool ------------------------------
(* Spool on small directories, for TLC. *)
EXTENDS Spool
=============================================================================

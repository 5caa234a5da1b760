-------------------------- MODULE MCCommandChannel --------------------------
(* CommandChannel with two calls and two connections, for TLC: a name is   *)
(* free again when its handler has returned.  No symmetry, for liveness.   *)
EXTENDS CommandChannel, TLC
=============================================================================

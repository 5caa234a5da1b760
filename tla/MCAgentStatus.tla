--------------------------- MODULE MCAgentStatus ---------------------------
(* AgentStatus with two server processes, for TLC.  Its liveness allows no symmetry. *)
EXTENDS AgentStatus
=============================================================================

----------------------------- MODULE MCPipeline -----------------------------
(* Pipeline on a few events, for TLC. *)
EXTENDS Pipeline, TLC

CONSTANTS e1, e2, b1

\* Batches of all events.
OneBatch == [b \in Batches |-> Events]
=============================================================================

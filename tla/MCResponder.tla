---------------------------- MODULE MCResponder -----------------------------
(* Responder with one net, one drive, two files of one content, for TLC. *)
EXTENDS Responder, TLC

CONSTANTS f1, f2, c1

SameContent == [f \in {f1, f2} |-> c1]
SmallCli == [enforce |-> TRUE, interval |-> 1]
FileSymmetry == Permutations({f1, f2})
=============================================================================

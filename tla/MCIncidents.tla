---------------------------- MODULE MCIncidents -----------------------------
(* Incidents with three detections on two agents, two consumers, and one   *)
(* suppression that expires, for TLC.                                      *)
EXTENDS Incidents, TLC

CONSTANTS d1, d2, d3, a1, a2, i1, w1, w2

AgentOf == d1 :> a1 @@ d2 :> a1 @@ d3 :> a2
MatchOf == i1 :> {d1, d2}
UntilOf == i1 :> 1
Symmetry == Permutations({w1, w2}) \cup Permutations({d1, d2})
=============================================================================

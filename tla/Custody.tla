------------------------------ MODULE Custody ------------------------------
(***************************************************************************)
(* What the telemetry path promises: an event collected on an endpoint is  *)
(* always in somebody's custody - the agent's, the event bus's or the      *)
(* database's - and a holder lets go of it only when one further down the  *)
(* path has it.  Pipeline implements this specification.                   *)
(***************************************************************************)
CONSTANT Events

VARIABLE holders      \* who has custody of each event

Holders == {"agent", "bus", "db"}

\* The holders down the path from x.
After(x) == CASE x = "agent" -> {"bus", "db"}
              [] x = "bus"   -> {"db"}
              [] x = "db"    -> {}

Init == holders = [e \in Events |-> {"agent"}]

\* A copy of e reaches x from some holder of e.
Hand(e, x) ==
  /\ holders[e] # {}
  /\ holders' = [holders EXCEPT ![e] = @ \cup {x}]

\* x lets go of the events E, all of which are held further down the path.
LetGo(E, x) ==
  /\ \A e \in E : holders[e] \cap After(x) # {}
  /\ holders' = [e \in Events |->
                   IF e \in E THEN holders[e] \ {x} ELSE holders[e]]

Next ==
  \/ \E e \in Events, x \in Holders : Hand(e, x)
  \/ \E E \in SUBSET Events, x \in Holders : LetGo(E, x)

Spec == Init /\ [][Next]_holders

\* No event is ever in nobody's hands.
AlwaysHeld == \A e \in Events : holders[e] # {}
=============================================================================

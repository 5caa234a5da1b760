----------------------------- MODULE MCConsole ------------------------------
(* Console for TLC: two rows in every table, three events and two filters, *)
(* one of which the browser cannot apply itself.                           *)
EXTENDS Console, TLC

CONSTANTS
  any, text,            \* what is typed into a filter
  h1, h2, root, ann, p1, f1, d1,   \* hosts, users, a process, a file, a domain
  t1, t2, t3, t4        \* techniques

HitsOf    == any :> Ids @@ text :> {1}
MatchesOf == any :> Events @@ text :> {1, 3}

\* An event of a process of root's and one of a file and a user, on two hosts;
\* findings on either, with and without a user, or on none.
FactsOf ==
  1 :> [host |-> h1, user |-> root, pid |-> p1, path |-> None, term |-> None,
        rank |-> 1, lineage |-> TRUE, cmdline |-> TRUE] @@
  2 :> [host |-> h1, user |-> ann, pid |-> None, path |-> f1, term |-> d1,
        rank |-> 2, lineage |-> TRUE, cmdline |-> FALSE] @@
  3 :> [host |-> h2, user |-> None, pid |-> None, path |-> None, term |-> d1,
        rank |-> 1, lineage |-> FALSE, cmdline |-> FALSE]
SubjectOf ==
  1 :> [host |-> h1, user |-> root, events |-> {1}] @@
  2 :> [host |-> h2, user |-> ann, events |-> {}] @@
  3 :> [host |-> None, user |-> None, events |-> {3}]

Flow(to, v, inbound, internal) ==
  [domain |-> None, remote |-> [host |-> to, port |-> v], out |-> v,
   inbound |-> inbound, internal |-> internal]
FlowsOf ==
  {Flow(d1, 1, FALSE, FALSE), Flow(d1, 2, FALSE, FALSE), Flow(h1, 1, TRUE, FALSE),
   [domain |-> d1, remote |-> None, out |-> 0, inbound |-> FALSE, internal |-> FALSE]}
TacticOf == t1 :> 2 @@ t2 :> 4
ParentOf == t1 :> t1 @@ t2 :> t2 @@ t3 :> t1 @@ t4 :> t4

Acting == [detections |-> 3, cases |-> 3, endpoints |-> 3, rules |-> 3,
           hunt |-> 5, story |-> 4, figures |-> 5]
Following == [events |-> 1, detections |-> 2, channel |-> 4]
Entering == [access |-> 4]
Two == [p \in DOMAIN Acting \cup DOMAIN Following \cup DOMAIN Entering |->
         IF p \in {"detections", "story"} THEN 2 ELSE 1]

\* No run of Entering states liveness, so browsers and calls may be taken as alike.
Alike == Permutations(Browsers) \cup Permutations(Calls)
=============================================================================

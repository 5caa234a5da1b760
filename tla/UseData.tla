------------------------------- MODULE UseData -------------------------------
(***************************************************************************)
(* useData of dashboard/lib/use-data.ts: one resource of the server that a *)
(* page of the dashboard polls, and reads again when a push announces a    *)
(* change.  Several reads may be under way at once and their answers come  *)
(* in any order; the effect that sent them is closed when the path changes *)
(* or the page goes, and what it still had under way is thrown away (its   *)
(* flag `on`).  Pages take this module by INSTANCE.                        *)
(*                                                                         *)
(* An answer equal to the last one changes nothing, and neither does one   *)
(* that cannot be parsed.  The typed error and the lamp are left out.      *)
(***************************************************************************)
EXTENDS Naturals, FiniteSets

CONSTANTS None, MaxReads   \* reads that may be under way at once

VARIABLES
  answer,   \* what the server would answer to the path now
  data,     \* what the page has
  asked,    \* how many reads the server has not answered yet
  replies   \* answers on their way

reads == <<asked, replies>>

\* Mutant: what the old effect asked for still counts.
RestartKeeps == asked' = 1 /\ UNCHANGED replies

\* The effect opens with a tick, and without what an earlier one asked for.
Restart == asked' = 1 /\ replies' = {}

\* Mutant: it reads until it has something.
TickOnce ==
  /\ data = None /\ asked + Cardinality(replies) < MaxReads
  /\ asked' = asked + 1 /\ UNCHANGED <<data, replies>>

\* The interval, the tab coming back, a push, or refetch.
Tick ==
  /\ asked + Cardinality(replies) < MaxReads
  /\ asked' = asked + 1 /\ UNCHANGED <<data, replies>>

Reply ==
  /\ asked > 0 /\ asked' = asked - 1
  /\ replies' = replies \cup {answer} /\ UNCHANGED data

\* No answer, or an error: the page keeps what it has.
Fail == asked > 0 /\ asked' = asked - 1 /\ UNCHANGED <<data, replies>>

Receive(r) ==
  /\ r \in replies /\ replies' = replies \ {r}
  /\ data' = r /\ UNCHANGED asked
=============================================================================

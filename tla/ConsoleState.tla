----------------------------- MODULE ConsoleState ------------------------------
(***************************************************************************)
(* What Console and WebConsole declare alike: the rows of tables, a limit, *)
(* the events, and the state that goes by one name in both, though it is   *)
(* never shared.  Each declares the rest itself and has its own initial    *)
(* states and steps.                                                       *)
(***************************************************************************)

CONSTANTS
  Ids,        \* the rows of the tables: detections, cases, endpoints, rules
  Events, Cap, None

VARIABLES
  part,       \* the part of a console that a behaviour shows
  moves,      \* bound: what others and the operator did so far
  srv, asked, posts, pushes, ws,             \* the server, and what is under way
  sel, filter, detail, note, busy, triage,   \* pages and drawers
  stored, at, timers, cookie, token
=============================================================================

---------------------------- MODULE MCWebConsole -----------------------------
(* The older console for TLC: two rows on every page, two detections, and of  *)
(* five events some with the pid of another, on one host or two.              *)
EXTENDS WebConsole, TLC

CONSTANTS h1, h2, process, file, open, other

ClicksOf == [store |-> 4, cases |-> 5, actions |-> 4, hunt |-> 4, tables |-> 3]

Seen(host, pid, ppid, cmdline) ==
  [category |-> process, host |-> host, pid |-> pid, ppid |-> ppid, cmdline |-> cmdline]
MarksOf ==
  << Seen(h1, 1, None, FALSE), Seen(h1, 2, 1, TRUE), Seen(h1, 1, 2, TRUE), Seen(h2, 2, 1, FALSE),
     [category |-> file, host |-> h1, pid |-> None, ppid |-> None, cmdline |-> FALSE] >>
CitedBy == << <<5, 2>>, <<4, 3>> >>

Pages   == {"endpoints", "detections", "responses", "dlp", "internet", "rules"}
KindsOf == [p \in Pages |-> IF p = "rules" THEN {other} ELSE {open, other}]
WordsOf == [i \in {1, 2} |-> IF i = 1 THEN {open} ELSE {}]
=============================================================================

------------------------------- MODULE Stream --------------------------------
(***************************************************************************)
(* The push channel of the dashboard: the one EventSource its components   *)
(* share (dashboard/lib/use-stream.ts), the relay behind it                *)
(* (app/api/stream/route.ts) and the WebSocket from there to the server.   *)
(*                                                                         *)
(* Components come and go; the last to go closes the channel, but only in  *)
(* a timeout, so that one mounted meanwhile finds it open.  The browser    *)
(* connects again by itself after a drop, yet never after an answer other  *)
(* than 200.  Messages are left out: they are handed on as they come, and  *)
(* are lost while there is no WebSocket.                                   *)
(***************************************************************************)
EXTENDS Naturals, FiniteSets

CONSTANTS Components, None, MaxMoves, MaxTimers   \* drops and timers are bounded

VARIABLES
  mounted,    \* the components that subscribe, or show the lamp
  refs, es,   \* of use-stream: the count, and the EventSource
  timers,     \* timeouts of teardown that have not fired
  connected,  \* what the lamp shows
  ws,         \* the relay's WebSocket: None when there is no relay
  moves       \* bound: drops and refusals so far

vars == <<mounted, refs, es, timers, connected, ws, moves>>

\* "failed": the browser has given up, though the object is still there.
TypeOK ==
  /\ mounted \subseteq Components /\ refs \in Nat /\ timers \in 0..MaxTimers
  /\ es \in {None, "connecting", "open", "failed"} /\ connected \in BOOLEAN
  /\ ws \in {None, "connecting", "open"} /\ moves \in 0..MaxMoves

Init ==
  /\ mounted = {} /\ refs = 0 /\ es = None /\ timers = 0
  /\ connected = FALSE /\ ws = None /\ moves = 0

Move == moves < MaxMoves /\ moves' = moves + 1

-----------------------------------------------------------------------------
(* The components *)

ensure == es' = IF es = None THEN "connecting" ELSE es

\* subscribe, useStreamStatus
Mount(c) ==
  /\ c \notin mounted /\ mounted' = mounted \cup {c}
  /\ refs' = refs + 1 /\ ensure
  /\ UNCHANGED <<timers, connected, ws, moves>>

Unmount(c) ==
  /\ c \in mounted /\ mounted' = mounted \ {c}
  /\ refs' = refs - 1
  /\ timers < MaxTimers /\ timers' = timers + 1
  /\ UNCHANGED <<es, connected, ws, moves>>

\* Mutant: a component mounted since the timeout was set is not looked for.
teardownBlind ==
  /\ timers > 0 /\ timers' = timers - 1
  /\ IF es = None THEN UNCHANGED <<es, connected, ws>>
     ELSE es' = None /\ connected' = FALSE /\ ws' = None
  /\ UNCHANGED <<mounted, refs, moves>>

\* Closing the channel cancels the relay.
teardown ==
  /\ timers > 0 /\ timers' = timers - 1
  /\ IF refs > 0 \/ es = None THEN UNCHANGED <<es, connected, ws>>
     ELSE es' = None /\ connected' = FALSE /\ ws' = None
  /\ UNCHANGED <<mounted, refs, moves>>

-----------------------------------------------------------------------------
(* The relay *)

\* GET with a session and a token: the answer starts, and with it the WebSocket.
\* onopen lights the lamp, whatever becomes of the WebSocket.
Opened ==
  /\ es = "connecting" /\ es' = "open" /\ connected' = TRUE /\ ws' = "connecting"
  /\ UNCHANGED <<mounted, refs, timers, moves>>

\* Without a session it answers 401; when goToken throws, 500.
Refused ==
  /\ es = "connecting" /\ Move /\ es' = "failed" /\ connected' = FALSE
  /\ UNCHANGED <<mounted, refs, timers, ws>>

WsOpened ==
  /\ ws = "connecting" /\ ws' = "open"
  /\ UNCHANGED <<mounted, refs, es, timers, connected, moves>>

\* Mutant: the relay does not end its answer with the WebSocket.
DroppedHalf ==
  /\ ws # None /\ Move /\ ws' = None
  /\ UNCHANGED <<mounted, refs, es, connected, timers>>

\* The WebSocket closes, or the connection to the browser does: one ends the
\* other, and the browser connects again.
Dropped ==
  /\ ws # None /\ Move
  /\ ws' = None /\ es' = "connecting" /\ connected' = FALSE
  /\ UNCHANGED <<mounted, refs, timers>>

-----------------------------------------------------------------------------
Next ==
  \/ teardown \/ Opened \/ Refused \/ WsOpened \/ Dropped
  \/ \E c \in Components : Mount(c) \/ Unmount(c)

\* The browser connects and fires its timeouts; the server accepts.
Fairness == WF_vars(Opened) /\ WF_vars(WsOpened) /\ WF_vars(teardown)

Spec == Init /\ [][Next]_vars /\ Fairness

-----------------------------------------------------------------------------
(* Properties *)

\* Whatever the order of mounts, unmounts and timeouts, there is a channel while a
\* component wants one, and once the timeouts have fired none that nobody wants.
OneChannel ==
  /\ mounted # {} => es # None
  /\ mounted = {} /\ timers = 0 => es = None
  /\ ws # None => es = "open"

\* What the timeout relies on: the count is that of the components.  It is inductive
\* with OneChannel.
Counted == IsFiniteSet(mounted) /\ refs = Cardinality(mounted)
IInv    == TypeOK /\ Counted /\ OneChannel

\* While components want a channel they get one, through to the server and after
\* every drop, unless the browser was refused: after that there is none until all
\* components are gone.
Wanted == mounted # {}
Served == ws = "open" \/ es = "failed"
ChannelReturns == Wanted ~> (Served \/ ~Wanted)
=============================================================================

-------------------------- MODULE AgentStatusProofs --------------------------
(***************************************************************************)
(* Theorems about AgentStatus, for any number of server processes, any     *)
(* window and any number of faults.                                        *)
(***************************************************************************)
EXTENDS AgentStatus, TLAPS

\* The initial states satisfy the inductive invariant.
LEMMA InitIInv == Init => IInv
<1> SUFFICES ASSUME Init PROVE IInv
  OBVIOUS
<1>1. ws \in BOOLEAN /\ silent \in BOOLEAN
  BY Zenon DEF Init
<1>2. /\ up \in [Servers -> BOOLEAN] /\ due \in [Servers -> BOOLEAN]
      /\ todo \in [Servers -> BOOLEAN]
  BY DEF Init
<1>3. /\ grace \in [Servers -> 0..Window] /\ quiet \in 0..Every
      /\ age \in 0..(Window + 1) /\ faults \in 0..Faults
      /\ lives \in Nat /\ alarms \in Nat
  BY NumbersAssumption DEF Init
<1>4. OneAlarmPerLife /\ LivesLeft
  BY DEF Init, OneAlarmPerLife, LivesLeft
<1>5. QED
  BY <1>1, <1>2, <1>3, <1>4 DEF Init, IInv, TypeOK, Live

\* SetAgentStatus counts a life exactly when the row becomes live.
LEMMA SetStatusIInv ==
  ASSUME IInv, NEW x \in Live, SetStatus(x), alarms' = alarms
  PROVE  /\ status' \in Live \cup {"offline"} /\ lives' \in Nat
         /\ OneAlarmPerLife' /\ LivesLeft'
BY DEF IInv, TypeOK, OneAlarmPerLife, LivesLeft, Live, SetStatus

\* Every step preserves it.
LEMMA NextIInv == IInv /\ [Next]_vars => IInv'
<1> SUFFICES ASSUME IInv, [Next]_vars PROVE IInv'
  OBVIOUS
<1> USE ServersAssumption, NumbersAssumption DEF IInv, TypeOK
<1>1. CASE Upload
  <2>1. silent' \in BOOLEAN
    BY <1>1, Zenon DEF Upload
  <2>2. QED
    BY <1>1, <2>1 DEF Upload, OneAlarmPerLife, LivesLeft, srv
<1>16. CASE UploadFails
  BY <1>16 DEF UploadFails, OneAlarmPerLife, LivesLeft, srv, past
<1>2. CASE Connect
  <2>1. "online" \in Live /\ SetStatus("online") /\ alarms' = alarms
    BY <1>2 DEF Connect, Live
  <2>2. OneAlarmPerLife' /\ LivesLeft' /\ lives' \in Nat
        /\ status' \in Live \cup {"offline"}
    BY <2>1, SetStatusIInv
  <2>3. QED
    BY <1>2, <2>2 DEF Connect, srv
<1>3. CASE Disconnect
  <2>1. ws' \in BOOLEAN
    BY <1>3, Zenon DEF Disconnect
  <2>2. faults' \in 0..Faults
    BY <1>3 DEF Disconnect, Fault
  <2>3. QED
    BY <1>3, <2>1, <2>2
       DEF Disconnect, OneAlarmPerLife, LivesLeft, srv, past
<1>4. CASE Kill
  <2>1. silent' \in BOOLEAN /\ ws' \in BOOLEAN
    BY <1>4, Zenon DEF Kill
  <2>2. faults' \in 0..Faults
    BY <1>4 DEF Kill, Fault
  <2>3. QED
    BY <1>4, <2>1, <2>2 DEF Kill, OneAlarmPerLife, LivesLeft, srv
<1>5. CASE Revive
  BY <1>5 DEF Revive, OneAlarmPerLife, LivesLeft, srv, past
<1>6. ASSUME NEW o \in Orders, Obey(o) PROVE IInv'
  BY <1>6 DEF Obey, OneAlarmPerLife, LivesLeft, srv, past
<1>7. CASE Record
  <2>1. PICK x \in Live : SetStatus(x)
    BY <1>7 DEF Record, Live
  <2>2. OneAlarmPerLife' /\ LivesLeft' /\ lives' \in Nat
        /\ status' \in Live \cup {"offline"}
    BY <1>7, <2>1, SetStatusIInv DEF Record
  <2>3. QED
    BY <1>7, <2>2 DEF Record, srv
<1>8. ASSUME NEW s \in Servers, Sweep(s) PROVE IInv'
  <2>1. CASE Stale /\ status \in Live
    <3>1. status' = "offline" /\ alarms' = alarms + 1
          /\ todo' = [todo EXCEPT ![s] = TRUE] /\ lives' = lives
      BY <1>8, <2>1 DEF Sweep, Flip
    <3>2. OneAlarmPerLife' /\ LivesLeft'
      BY <2>1, <3>1 DEF OneAlarmPerLife, LivesLeft, Live
    <3>3. QED
      BY <1>8, <3>1, <3>2 DEF Sweep
  <2>2. CASE ~(Stale /\ status \in Live)
    BY <1>8, <2>2 DEF Sweep, OneAlarmPerLife, LivesLeft
  <2>3. QED
    BY <2>1, <2>2
<1>9. ASSUME NEW s \in Servers, Emit(s) PROVE IInv'
  BY <1>9 DEF Emit, OneAlarmPerLife, LivesLeft
<1>10. ASSUME NEW s \in Servers, EmitFails(s) PROVE IInv'
  BY <1>10 DEF EmitFails, Fault, OneAlarmPerLife, LivesLeft, past
<1>11. ASSUME NEW s \in Servers, Crash(s) PROVE IInv'
  <2>1. ws' \in BOOLEAN
    BY <1>11, Zenon DEF Crash
  <2>4. order' \in Orders \cup {"none"} /\ faults' \in 0..Faults
    BY <1>11 DEF Crash, Fault
  <2>2. /\ up' \in [Servers -> BOOLEAN] /\ due' \in [Servers -> BOOLEAN]
        /\ todo' \in [Servers -> BOOLEAN]
    BY <1>11 DEF Crash
  <2>3. QED
    BY <1>11, <2>1, <2>2, <2>4 DEF Crash, OneAlarmPerLife, LivesLeft, past
<1>12. ASSUME NEW s \in Servers, Start(s) PROVE IInv'
  BY <1>12 DEF Start, OneAlarmPerLife, LivesLeft, past
<1>13. CASE Tick
  <2>1. age' \in 0..(Window + 1)
    BY <1>13 DEF Tick
  <2>2. quiet' \in 0..Every
    BY <1>13 DEF Tick
  <2>3. grace' \in [Servers -> 0..Window]
    BY <1>13 DEF Tick
  <2>4. due' \in [Servers -> BOOLEAN]
    BY <1>13 DEF Tick
  <2>5. QED
    BY <1>13, <2>1, <2>2, <2>3, <2>4 DEF Tick, OneAlarmPerLife, LivesLeft, past
<1>14. CASE UNCHANGED vars
  BY <1>14 DEF vars, srv, past, OneAlarmPerLife, LivesLeft
<1>15. QED
  BY <1>1, <1>2, <1>3, <1>4, <1>5, <1>6, <1>7, <1>8, <1>9, <1>10, <1>11, <1>12,
     <1>13, <1>14, <1>16 DEF Next

\* The inductive invariant holds in every reachable state.
THEOREM Invariance == Spec => []IInv
BY InitIInv, NextIInv, PTL DEF Spec

\* Types, for any servers, window, interval and faults.
THEOREM TypeCorrect == Spec => []TypeOK
<1>1. IInv => TypeOK
  BY DEF IInv
<1>2. QED
  BY <1>1, Invariance, PTL

\* MarkStaleOfflineReturning's atomic flip: any number of sweeping servers
\* raises at most one alarm for each time the row became live.
THEOREM OneAlarmPerLifeHolds == Spec => []OneAlarmPerLife
<1>1. IInv => OneAlarmPerLife
  BY DEF IInv
<1>2. QED
  BY <1>1, Invariance, PTL

-----------------------------------------------------------------------------
(* No false alarm, when every server that sweeps also takes uploads and the *)
(* collection interval does not exceed the window.                          *)

\* All-in-one servers, and a collection interval the window covers.
Deployment == Ingest = Servers /\ Every <= Window

\* The initial states satisfy GraceCovers.
LEMMA InitGrace == Init => GraceCovers
BY NumbersAssumption DEF Init, GraceCovers

\* Every step preserves it.
LEMMA NextGrace ==
  ASSUME Deployment, TypeOK, GraceCovers, [Next]_vars
  PROVE  GraceCovers'
<1> USE NumbersAssumption DEF GraceCovers, TypeOK, Deployment
<1>1. CASE Upload
  BY <1>1 DEF Upload, srv
<1>2. CASE UploadFails
  BY <1>2 DEF UploadFails, Reachable, srv, past
<1>3. CASE Connect
  BY <1>3 DEF Connect, srv
<1>4. CASE Disconnect \/ \E o \in Orders : Obey(o)
  BY <1>4 DEF Disconnect, Obey, srv, past
<1>5. CASE Record
  BY <1>5 DEF Record, srv
<1>6. CASE Kill
  BY <1>6 DEF Kill, srv
<1>7. CASE Revive
  BY <1>7 DEF Revive, srv, past
<1>8. ASSUME NEW s \in Servers, Sweep(s) PROVE GraceCovers'
  BY <1>8 DEF Sweep
<1>9. ASSUME NEW s \in Servers, Emit(s) \/ EmitFails(s) PROVE GraceCovers'
  BY <1>9 DEF Emit, EmitFails, past
<1>10. ASSUME NEW s \in Servers, Crash(s) PROVE GraceCovers'
  BY <1>10 DEF Crash, past
<1>11. ASSUME NEW s \in Servers, Start(s) PROVE GraceCovers'
  BY <1>11 DEF Start, past
<1>12. CASE Tick
  <2>1. \A s \in Servers : due'[s] => up'[s]
    BY <1>12 DEF Tick
  <2>2. ASSUME ~silent'
        PROVE  host' = "up" /\ ~silent /\ quiet < Every /\ quiet' = quiet + 1
    BY <1>12, <2>2 DEF Tick, past
  <2>3. ASSUME ~silent', NEW s \in Servers, up'[s]
        PROVE  /\ age' = quiet' \/ quiet' + grace'[s] >= Window
               /\ due'[s] => age' = quiet' /\ age' <= Window
    <3>1. /\ up[s] /\ (age = quiet \/ quiet + grace[s] >= Window)
          /\ due[s] => age = quiet /\ age <= Window
      BY <1>12, <2>2, <2>3 DEF Tick
    <3>2. CASE age = quiet
      BY <1>12, <2>2, <2>3, <3>2 DEF Tick
    <3>3. CASE age # quiet
      <4>1. quiet + grace[s] >= Window /\ grace[s] > 0 /\ ~due[s]
        BY <2>2, <2>3, <3>1, <3>3
      <4>2. grace'[s] = grace[s] - 1 /\ ~due'[s]
        BY <1>12, <3>1, <4>1 DEF Tick
      <4>3. QED
        BY <2>2, <2>3, <4>1, <4>2
    <3>4. QED
      BY <3>2, <3>3
  <2>4. QED
    BY <2>1, <2>2, <2>3
<1>13. CASE UNCHANGED vars
  BY <1>13 DEF vars, srv, past
<1>14. QED
  BY <1>1, <1>2, <1>3, <1>4, <1>5, <1>6, <1>7, <1>8, <1>9, <1>10, <1>11, <1>12,
     <1>13 DEF Next

\* Only a sweep takes a live row offline.
LEMMA OnlySweeps ==
  ASSUME TypeOK, GraceCovers, [Next]_vars, status \in Live, status' = "offline"
  PROVE  silent
<1>1. \E s \in Servers : Sweep(s) /\ age > Window
  <2>1. CASE Connect
    BY <2>1 DEF Connect, SetStatus
  <2>2. CASE Record
    BY <2>2 DEF Record, SetStatus
  <2>3. CASE \E s \in Servers : Sweep(s)
    BY <2>3 DEF Sweep, Stale, Live
  <2>4. QED
    BY <2>1, <2>2, <2>3
    DEF Next, Live, Upload, UploadFails, Disconnect, Kill, Revive, Obey, Emit,
        EmitFails, Crash, Start, Tick, vars
<1>2. QED
  BY <1>1, NumbersAssumption DEF GraceCovers, TypeOK, Sweep, Sweeping

\* Server restarts and outages raise no alarm on an agent that stays up: the
\* startup grace of StartLivenessMonitor covers them.
THEOREM NoFalseAlarmHolds ==
  ASSUME Deployment
  PROVE  Spec => NoFalseAlarm
<1>1. Init => GraceCovers
  BY InitGrace
<1>2. TypeOK /\ GraceCovers /\ [Next]_vars => GraceCovers'
  BY NextGrace
<1>3. TypeOK /\ GraceCovers /\ [Next]_vars =>
        [(status \in Live /\ status' = "offline") => silent]_vars
  BY OnlySweeps
<1>4. QED
  BY <1>1, <1>2, <1>3, TypeCorrect, PTL DEF Spec, NoFalseAlarm
=============================================================================

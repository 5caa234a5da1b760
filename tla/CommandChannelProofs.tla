------------------------- MODULE CommandChannelProofs ------------------------
(***************************************************************************)
(* Theorems about CommandChannel, for any calls, connections, faults and   *)
(* number of them: what a response records of its command is so.           *)
(***************************************************************************)
EXTENDS CommandChannel, SequenceTheorems, TLAPS

\* What is in flight, after more was sent.
LEMMA Sent ==
  ASSUME NEW S, NEW s \in Seq(S), NEW x \in S
  PROVE  /\ Append(s, x) \in Seq(S)
         /\ \A i \in DOMAIN Append(s, x) :
              \/ i \in DOMAIN s /\ Append(s, x)[i] = s[i]
              \/ i = Len(s) + 1 /\ Append(s, x)[i] = x
         /\ Len(s) + 1 \notin DOMAIN s
OBVIOUS

\* And after the first was taken.
LEMMA Taken ==
  ASSUME NEW S, NEW s \in Seq(S), s # <<>>
  PROVE  /\ Head(s) \in S /\ Head(s) = s[1] /\ 1 \in DOMAIN s /\ Tail(s) \in Seq(S)
         /\ \A i \in DOMAIN Tail(s) :
              i \in Nat /\ i + 1 # 1 /\ i + 1 \in DOMAIN s /\ Tail(s)[i] = s[i + 1]
OBVIOUS

-----------------------------------------------------------------------------
(* Types *)

\* A fault is counted and remembered.
LEMMA FaultTyped ==
  ASSUME TypeOK, NEW kind, Fault(kind)
  PROVE  met' \subseteq FaultKinds \cup {"slow"} /\ faults' \in 0..Faults
BY ConstantsAssumption DEF TypeOK, Fault

\* A link that is cut at one end is still a link.
LEMMA CutTyped ==
  ASSUME TypeOK, NEW c \in Conns
  PROVE  Cut(c) \in [Conns -> {"up", "cut", "silent"}]
BY DEF TypeOK, Cut

\* Every step keeps the types; a call that waits has something to return.
LEMMA NextTypeOK == TypeOK /\ Waiting /\ [Next]_vars => TypeOK'
<1> SUFFICES ASSUME TypeOK, Waiting, [Next]_vars PROVE TypeOK'
  OBVIOUS
<1> USE DEF TypeOK, conn, call, past, fate
<1>1. ASSUME NEW k \in Calls, Issue(k) PROVE TypeOK'
  BY <1>1 DEF Issue
<1>2. ASSUME NEW k \in Calls, IssueFails(k) PROVE TypeOK'
  BY <1>2, FaultTyped DEF IssueFails
<1>3. ASSUME NEW k \in Calls, Lookup(k) PROVE TypeOK'
  <2>1. CASE holder # None
    <3>1. /\ pc' = [pc EXCEPT ![k] = "write"] /\ via' = [via EXCEPT ![k] = holder]
          /\ pending' = [pending EXCEPT ![k] = "empty"] /\ holder \in Conns
          /\ UNCHANGED <<conn, ans, row, past, fate>>
      BY <1>3, <2>1 DEF Lookup
    <3>2. \A x \in Calls : pc'[x] \in {"write", "wait"} => via'[x] \in Conns
      BY <3>1
    <3>3. via' \in [Calls -> Conns \cup {None}]
      BY <3>1
    <3>4. QED
      BY <3>1, <3>2, <3>3
  <2>2. CASE holder = None
    <3>1. /\ pc' = [pc EXCEPT ![k] = "save"] /\ via' = [via EXCEPT ![k] = None]
          /\ ans' = [ans EXCEPT ![k] = "offline"]
          /\ UNCHANGED <<conn, pending, row, past, fate>>
      BY <1>3, <2>2 DEF Lookup
    <3>2. \A x \in Calls : pc'[x] \in {"write", "wait"} => via'[x] \in Conns
      BY <3>1
    <3>3. QED
      BY <3>1, <3>2
  <2>3. QED
    BY <2>1, <2>2
<1>4. ASSUME NEW k \in Calls, Write(k) PROVE TypeOK'
  <2>1. down' \in [Conns -> Seq(Calls)]
    BY <1>4, Sent DEF Write
  <2>2. QED
    BY <1>4, <2>1 DEF Write
<1>5. ASSUME NEW k \in Calls, WriteError(k) PROVE TypeOK'
  BY <1>5 DEF WriteError, Return
<1>6. ASSUME NEW k \in Calls, Receive(k) PROVE TypeOK'
  <2>1. pending[k] \in {"ok", "ko"}
    BY <1>6 DEF Receive, Waiting
  <2>2. QED
    BY <1>6, <2>1 DEF Receive, Return
<1>7. ASSUME NEW k \in Calls, Timeout(k) PROVE TypeOK'
  BY <1>7 DEF Timeout, Return
<1>8. ASSUME NEW k \in Calls, Save(k) PROVE TypeOK'
  BY <1>8 DEF Save
<1>9. ASSUME NEW k \in Calls, SaveFails(k) PROVE TypeOK'
  BY <1>9, FaultTyped DEF SaveFails
<1>10. ASSUME NEW c \in Conns, AddAgent(c) PROVE TypeOK'
  BY <1>10 DEF AddAgent
<1>11. ASSUME NEW c \in Conns, DeliverResult(c) PROVE TypeOK'
  <2>1. Head(up[c]) \in Result /\ Tail(up[c]) \in Seq(Result)
    BY <1>11, Taken DEF DeliverResult
  <2>2. Head(up[c]).id \in Calls
    BY <2>1 DEF Result
  <2>3. QED
    BY <1>11, <2>1, <2>2 DEF DeliverResult
<1>12. ASSUME NEW c \in Conns, HandlerEnds(c) PROVE TypeOK'
  <2>1. closed' \in [Conns -> BOOLEAN]
    BY <1>12 DEF HandlerEnds
  <2>2. hs' \in [Conns -> {"free", "new", "serving"}] /\ holder' = None
    BY <1>12 DEF HandlerEnds
  <2>3. link' \in [Conns -> {"up", "cut", "silent"}]
    BY <1>12, CutTyped DEF HandlerEnds
  <2>4. UNCHANGED <<down, up, mine, call, past, fate>>
    BY <1>12 DEF HandlerEnds
  <2>5. QED
    BY <2>1, <2>2, <2>3, <2>4
<1>13. ASSUME NEW c \in Conns, Connect(c) PROVE TypeOK'
  <2>1. closed' \in [Conns -> BOOLEAN]
    BY <1>13 DEF Connect
  <2>2. <<>> \in Seq(Calls) /\ <<>> \in Seq(Result)
    OBVIOUS
  <2>3. QED
    BY <1>13, <2>1, <2>2 DEF Connect
<1>14. ASSUME NEW c \in Conns, LinkBreaks(c) PROVE TypeOK'
  <2>1. PICK lost \in {"cut", "silent"} :
          /\ Fault(IF lost = "cut" THEN "link" ELSE "silent")
          /\ link' = [link EXCEPT ![c] = lost]
    BY <1>14 DEF LinkBreaks
  <2>2. QED
    BY <1>14, <2>1, FaultTyped DEF LinkBreaks
<1>15. CASE Execute
  <2>1. PICK ok \in BOOLEAN :
          /\ ran' = [ran EXCEPT ![Head(down[mine])] = IF @ < 2 THEN @ + 1 ELSE @]
          /\ good' = IF ok THEN good \cup {Head(down[mine])} ELSE good
          /\ up' = IF link[mine] = "up"
                   THEN [up EXCEPT ![mine] = Append(@, [id |-> Head(down[mine]), ok |-> ok])]
                   ELSE up
    BY <1>15 DEF Execute
  <2>2. mine \in Conns /\ Head(down[mine]) \in Calls /\ Tail(down[mine]) \in Seq(Calls)
    BY <1>15, Taken DEF Execute
  <2>3. [id |-> Head(down[mine]), ok |-> ok] \in Result
    BY <2>2 DEF Result
  <2>4. up' \in [Conns -> Seq(Result)]
    BY <2>1, <2>2, <2>3, Sent
  <2>5. ran' \in [Calls -> 0..2]
    BY <2>1, <2>2
  <2>6. good' \subseteq Calls
    BY <2>1, <2>2
  <2>7. QED
    BY <1>15, <2>2, <2>4, <2>5, <2>6 DEF Execute
<1>16. CASE AgentNotices
  BY <1>16 DEF AgentNotices
<1>17. CASE AgentCrash
  BY <1>17, FaultTyped, CutTyped DEF AgentCrash
<1>18. CASE ServerCrash
  <2>1. closed' \in [Conns -> BOOLEAN]
    BY <1>18 DEF ServerCrash
  <2>2. QED
    BY <1>18, <2>1, FaultTyped DEF ServerCrash
<1>19. CASE UNCHANGED vars
  BY <1>19 DEF vars
<1>20. QED
  BY <1>1, <1>2, <1>3, <1>4, <1>5, <1>6, <1>7, <1>8, <1>9, <1>10, <1>11, <1>12, <1>13,
     <1>14, <1>15, <1>16, <1>17, <1>18, <1>19 DEF Next, CallStep

-----------------------------------------------------------------------------
(* What follows the commands *)

\* The initial states satisfy the invariant: nothing was issued.
LEMMA InitIInv == Init => IInv
<1> SUFFICES ASSUME Init PROVE IInv
  OBVIOUS
<1>1. closed \in [Conns -> BOOLEAN]
  BY DEF Init
<1>2. <<>> \in Seq(Calls) /\ <<>> \in Seq(Result)
  OBVIOUS
<1>3. TypeOK
  BY <1>1, <1>2, ConstantsAssumption DEF Init, TypeOK
<1>4. QED
  BY <1>3 DEF Init, IInv, Waiting, InFlight, News, Told, OutcomesHonest

\* A call that goes on or ends without touching a queue or a history, and is answered
\* only with what it was sent.
LEMMA CallMoves ==
  ASSUME IInv, NEW k \in Calls, UNCHANGED <<down, up, past>>, TypeOK',
         \A x \in Calls \ {k} : /\ pc'[x] = pc[x] /\ pending'[x] = pending[x]
                                /\ ans'[x] = ans[x] /\ row'[x] = row[x],
         pc'[k] \in {"lookup", "write", "wait", "save"} => row'[k] = "pending",
         pc'[k] = "new" => row'[k] = "none",
         pc'[k] \in {"write", "wait"} => pending'[k] # "absent",
         pc'[k] \in {"new", "lookup", "write", "wait"} => ans'[k] = "none",
         pc'[k] \in {"new", "lookup", "write"} => ran[k] = 0,
         \/ pc[k] \in {"new", "lookup", "write"}
         \/ pc'[k] \in {"wait", "save", "end"} /\ ans'[k] \notin {"offline", "unsent"}
         \/ pc[k] = "save" /\ pc'[k] \in {"save", "end"} /\ ans'[k] = ans[k],
         row'[k] # row[k] => row'[k] # "none",
         pending'[k] \in {pending[k], "absent", "empty"},
         ans'[k] \in {"ok", "ko"} => Told(k, ans'[k] = "ok"),
         row'[k] = "done" => k \in good,
         ans'[k] \in {"offline", "unsent"} => ran[k] = 0
  PROVE  Waiting' /\ InFlight' /\ News' /\ OutcomesHonest'
<1> USE DEF IInv, past
<1>1. Waiting'
  BY DEF Waiting
<1>2. OutcomesHonest'
  <2>1. ASSUME NEW x \in Calls
        PROVE  /\ row'[x] = "done" => x \in good
               /\ ans'[x] = "ko" => ran[x] = 1 /\ x \notin good
               /\ ans'[x] \in {"offline", "unsent"} => ran[x] = 0
               /\ ran[x] = 0 \/ (ran[x] = 1 /\ row'[x] # "none")
    <3>1. CASE x = k
      BY <3>1 DEF OutcomesHonest, Told
    <3>2. CASE x # k
      BY <3>2 DEF OutcomesHonest
    <3>3. QED
      BY <3>1, <3>2
  <2>2. QED
    BY <2>1 DEF OutcomesHonest
<1>3. News'
  <2>1. \A c \in Conns : \A i \in DOMAIN up[c] : Told(up[c][i].id, up[c][i].ok)
    BY DEF News
  <2>2. ASSUME NEW x \in Calls, pending'[x] \in {"ok", "ko"} PROVE Told(x, pending'[x] = "ok")
    <3>1. pending'[x] = pending[x]
      BY <2>2
    <3>2. QED
      BY <2>2, <3>1 DEF News
  <2>3. ASSUME NEW x \in Calls, ans'[x] \in {"ok", "ko"} PROVE Told(x, ans'[x] = "ok")
    <3>1. CASE x = k
      BY <2>3, <3>1
    <3>2. CASE x # k
      BY <2>3, <3>2 DEF News
    <3>3. QED
      BY <3>1, <3>2
  <2>4. \A x \in good : ran[x] = 1
    BY DEF News
  <2>5. QED
    BY <2>1, <2>2, <2>3, <2>4 DEF News, Told
<1>4. InFlight'
  <2>1. ASSUME NEW c \in Conns, NEW i \in DOMAIN down[c]
        PROVE  /\ pc'[down[c][i]] \in {"wait", "save", "end"}
               /\ ans'[down[c][i]] \notin {"offline", "unsent"}
               /\ row'[down[c][i]] # "none"
    <3>1. down[c][i] \in Calls
      BY DEF TypeOK
    <3>2. /\ pc[down[c][i]] \in {"wait", "save", "end"}
          /\ ans[down[c][i]] \notin {"offline", "unsent"}
          /\ row[down[c][i]] # "none"
      BY DEF InFlight
    <3>3. QED
      BY <3>1, <3>2
  <2>2. QED
    BY <2>1 DEF InFlight
<1>5. QED
  BY <1>1, <1>2, <1>3, <1>4

\* A step that leaves calls and histories alone and only takes from the queues.
LEMMA QueuesShrink ==
  ASSUME IInv, UNCHANGED <<pc, ans, row, past>>,
         \A c \in Conns : down'[c] = down[c] \/ down'[c] = <<>>,
         \A c \in Conns : up'[c] = up[c] \/ up'[c] = <<>>,
         UNCHANGED pending
  PROVE  Waiting' /\ InFlight' /\ News' /\ OutcomesHonest'
BY DEF IInv, Waiting, InFlight, News, Told, OutcomesHonest, past

\* Writing puts a command in flight that was not.
LEMMA WriteKeeps ==
  ASSUME IInv, NEW k \in Calls, Write(k)
  PROVE  Waiting' /\ InFlight' /\ News' /\ OutcomesHonest'
<1> USE DEF IInv
<1>1. Waiting' /\ News' /\ OutcomesHonest'
  BY DEF Write, TypeOK, Waiting, News, Told, OutcomesHonest, past
<1>2. /\ ran[k] = 0 /\ ans[k] = "none" /\ row[k] = "pending" /\ pc[k] = "write"
      /\ via[k] \in Conns
  BY DEF Write, Waiting, TypeOK
<1>3. pc'[k] = "wait" /\ \A x \in Calls \ {k} : pc'[x] = pc[x]
  BY DEF Write, TypeOK
<1>4. \A c \in Conns : \A i \in DOMAIN down[c] : down[c][i] \in Calls \ {k}
  <2> SUFFICES ASSUME NEW c \in Conns, NEW i \in DOMAIN down[c]
               PROVE  down[c][i] \in Calls \ {k}
    OBVIOUS
  <2>1. down[c][i] \in Calls
    BY DEF TypeOK
  <2>2. pc[down[c][i]] \in {"wait", "save", "end"}
    BY DEF InFlight
  <2>3. QED
    BY <1>2, <2>1, <2>2
<1>5. \A c \in Conns : \A i \in DOMAIN down'[c] :
        \/ i \in DOMAIN down[c] /\ down'[c][i] = down[c][i]
        \/ c = via[k] /\ i = Len(down[c]) + 1 /\ down'[c][i] = k
  BY <1>2, Sent DEF Write, TypeOK
<1>6. InFlight'
  <2> SUFFICES ASSUME NEW c \in Conns, NEW i \in DOMAIN down'[c]
               PROVE  /\ ran'[down'[c][i]] = 0 /\ ans'[down'[c][i]] \notin {"offline", "unsent"}
                      /\ row'[down'[c][i]] # "none"
                      /\ pc'[down'[c][i]] \in {"wait", "save", "end"}
                      /\ \A d \in Conns : \A j \in DOMAIN down'[d] :
                           down'[d][j] = down'[c][i] => d = c /\ j = i
    BY DEF InFlight
  <2>1. ran' = ran /\ ans' = ans /\ row' = row
    BY DEF Write, past
  <2>2. CASE i \in DOMAIN down[c] /\ down'[c][i] = down[c][i]
    <3>1. down[c][i] \in Calls \ {k}
      BY <2>2, <1>4
    <3>2. ASSUME NEW d \in Conns, NEW j \in DOMAIN down'[d], down'[d][j] = down'[c][i]
          PROVE  d = c /\ j = i
      <4>1. j \in DOMAIN down[d] /\ down[d][j] = down[c][i]
        BY <1>5, <2>2, <3>1, <3>2
      <4>2. QED
        BY <2>2, <4>1 DEF InFlight
    <3>3. QED
      BY <1>3, <2>1, <2>2, <3>1, <3>2 DEF InFlight
  <2>3. CASE c = via[k] /\ i = Len(down[c]) + 1 /\ down'[c][i] = k
    <3>1. ASSUME NEW d \in Conns, NEW j \in DOMAIN down'[d], down'[d][j] = down'[c][i]
          PROVE  d = c /\ j = i
      BY <1>4, <1>5, <2>3, <3>1
    <3>2. QED
      BY <1>2, <1>3, <2>1, <2>3, <3>1
  <2>4. QED
    BY <1>5, <2>2, <2>3
<1>7. QED
  BY <1>1, <1>6

\* Delivering fills the channel of the command the result names.
LEMMA DeliverKeeps ==
  ASSUME IInv, NEW c \in Conns, DeliverResult(c)
  PROVE  Waiting' /\ InFlight' /\ News' /\ OutcomesHonest'
<1> USE DEF IInv
<1> DEFINE res == Head(up[c])
<1>1. /\ res \in Result /\ res.id \in Calls
      /\ Told(res.id, res.ok)
  <2>1. up[c] \in Seq(Result) /\ up[c] # <<>>
    BY DEF DeliverResult, TypeOK
  <2>2. res \in Result /\ 1 \in DOMAIN up[c] /\ res = up[c][1]
    BY <2>1, Taken
  <2>3. res.id \in Calls
    BY <2>2 DEF Result
  <2>4. Told(res.id, res.ok)
    BY <2>2 DEF News
  <2>5. QED
    BY <2>2, <2>3, <2>4
<1>2. \A d \in Conns : \A i \in DOMAIN up'[d] : Told(up'[d][i].id, up'[d][i].ok)
  <2> SUFFICES ASSUME NEW d \in Conns, NEW i \in DOMAIN up'[d]
               PROVE  Told(up'[d][i].id, up'[d][i].ok)
    OBVIOUS
  <2>1. PICK j \in DOMAIN up[d] : up'[d][i] = up[d][j]
    BY Taken DEF DeliverResult, TypeOK
  <2>2. QED
    BY <2>1 DEF News
<1>3. pending' = [pending EXCEPT ![res.id] =
                    IF @ # "empty" THEN @ ELSE IF res.ok THEN "ok" ELSE "ko"]
  BY DEF DeliverResult
<1>4. UNCHANGED <<down, pc, ans, row, ran, good>>
  BY DEF DeliverResult, past
<1> HIDE DEF res
<1>5. \A k \in Calls : pending[k] # "absent" => pending'[k] # "absent"
  BY <1>1, <1>3 DEF TypeOK
<1>6. ASSUME NEW k \in Calls, pending'[k] \in {"ok", "ko"} PROVE Told(k, pending'[k] = "ok")
  <2>1. CASE pending'[k] = pending[k]
    BY <1>6, <2>1 DEF News
  <2>2. CASE pending'[k] # pending[k]
    <3>1. k = res.id /\ (res.ok <=> pending'[k] = "ok")
      BY <1>1, <1>3, <2>2 DEF TypeOK
    <3>2. QED
      BY <1>1, <3>1 DEF Told
  <2>3. QED
    BY <2>1, <2>2
<1>7. News'
  BY <1>2, <1>4, <1>6 DEF News, Told
<1>8. QED
  BY <1>4, <1>5, <1>7 DEF Waiting, InFlight, OutcomesHonest

\* Executing takes the command out of flight: it will not be executed again.
LEMMA ExecuteKeeps ==
  ASSUME IInv, Execute
  PROVE  Waiting' /\ InFlight' /\ News' /\ OutcomesHonest'
<1> USE DEF IInv
<1> DEFINE k == Head(down[mine])
<1>1. PICK ok \in BOOLEAN :
        /\ ran' = [ran EXCEPT ![k] = IF @ < 2 THEN @ + 1 ELSE @]
        /\ good' = IF ok THEN good \cup {k} ELSE good
        /\ up' = IF link[mine] = "up"
                 THEN [up EXCEPT ![mine] = Append(@, [id |-> k, ok |-> ok])]
                 ELSE up
  BY DEF Execute
<1>2. mine \in Conns /\ 1 \in DOMAIN down[mine] /\ k = down[mine][1] /\ k \in Calls
  BY Taken DEF Execute, TypeOK
<1>3. /\ ran[k] = 0 /\ ans[k] \notin {"offline", "unsent"} /\ row[k] # "none"
      /\ pc[k] \in {"wait", "save", "end"}
      /\ \A d \in Conns : \A j \in DOMAIN down[d] : down[d][j] = k => d = mine /\ j = 1
  BY <1>2 DEF InFlight
<1>4. ran'[k] = 1 /\ \A x \in Calls \ {k} : ran'[x] = ran[x]
  BY <1>1, <1>2, <1>3 DEF TypeOK
<1> HIDE DEF k
<1>5. /\ \A x \in Calls \ {k} : x \in good' <=> x \in good
      /\ k \notin good /\ (k \in good' <=> ok)
  <2>1. k \notin good
    BY <1>3 DEF News
  <2>2. QED
    BY <1>1, <2>1
<1>6. UNCHANGED <<pc, ans, row, pending>>
  BY DEF Execute, call
<1> DEFINE ToldNow(x, b) == ran'[x] = 1 /\ (b <=> x \in good')
<1>7. \A x \in Calls, b \in BOOLEAN : Told(x, b) => ToldNow(x, b)
  BY <1>3, <1>4, <1>5 DEF Told
<1>8. News'
  <2>1. ASSUME NEW d \in Conns, NEW i \in DOMAIN up'[d]
        PROVE  ToldNow(up'[d][i].id, up'[d][i].ok)
    <3>1. [id |-> k, ok |-> ok] \in Result
      BY <1>2 DEF Result
    <3>2. \/ i \in DOMAIN up[d] /\ up'[d][i] = up[d][i]
          \/ up'[d][i] = [id |-> k, ok |-> ok]
      BY <1>1, <1>2, <3>1, Sent DEF TypeOK
    <3>3. CASE i \in DOMAIN up[d] /\ up'[d][i] = up[d][i]
      <4>1. Told(up[d][i].id, up[d][i].ok)
        BY <3>3 DEF News
      <4>2. up[d][i] \in Result
        BY <3>3 DEF TypeOK
      <4>3. up[d][i].id \in Calls /\ up[d][i].ok \in BOOLEAN
        BY <4>2 DEF Result
      <4>4. QED
        BY <1>7, <3>3, <4>1, <4>3
    <3>4. CASE up'[d][i] = [id |-> k, ok |-> ok]
      BY <1>4, <1>5, <3>4
    <3>5. QED
      BY <3>2, <3>3, <3>4
  <2>2. ASSUME NEW x \in Calls, pending[x] \in {"ok", "ko"} PROVE ToldNow(x, pending[x] = "ok")
    <3>1. Told(x, pending[x] = "ok")
      BY <2>2 DEF News
    <3>2. QED
      BY <1>3, <1>4, <1>5, <1>6, <3>1 DEF Told
  <2>3. ASSUME NEW x \in Calls, ans[x] \in {"ok", "ko"} PROVE ToldNow(x, ans[x] = "ok")
    <3>1. Told(x, ans[x] = "ok")
      BY <2>3 DEF News
    <3>2. QED
      BY <1>3, <1>4, <1>5, <1>6, <3>1 DEF Told
  <2>4. \A x \in good' : ran'[x] = 1
    <3>1. good' \subseteq good \cup {k} /\ good \subseteq Calls
      BY <1>1 DEF TypeOK
    <3>2. QED
      <4> SUFFICES ASSUME NEW x \in good' PROVE ran'[x] = 1
        OBVIOUS
      <4>1. CASE x = k
        BY <1>4, <4>1
      <4>2. CASE x # k
        <5>1. x \in good /\ x \in Calls \ {k}
          BY <3>1, <4>2
        <5>2. QED
          BY <1>4, <5>1 DEF News
      <4>3. QED
        BY <4>1, <4>2
  <2>5. QED
    BY <1>6, <2>1, <2>2, <2>3, <2>4 DEF News, Told
<1>10. ans[k] \notin {"ok", "ko"}
  BY <1>2, <1>3 DEF News, Told
<1>11. Waiting' /\ OutcomesHonest'
  <2>1. Waiting'
    BY <1>3, <1>4, <1>6 DEF Waiting
  <2>2. ASSUME NEW x \in Calls
        PROVE  /\ row[x] = "done" => x \in good'
               /\ ans[x] = "ko" => ran'[x] = 1 /\ x \notin good'
               /\ ans[x] \in {"offline", "unsent"} => ran'[x] = 0
               /\ ran'[x] = 0 \/ (ran'[x] = 1 /\ row[x] # "none")
    <3>1. CASE x = k
      BY <1>2, <1>3, <1>4, <1>5, <1>10, <3>1 DEF OutcomesHonest
    <3>2. CASE x # k
      BY <1>4, <1>5, <3>2 DEF OutcomesHonest
    <3>3. QED
      BY <3>1, <3>2
  <2>3. QED
    BY <1>6, <2>1, <2>2 DEF OutcomesHonest
<1>9. InFlight'
  <2>1. ASSUME NEW c \in Conns, NEW i \in DOMAIN down'[c]
        PROVE  \E j \in DOMAIN down[c] :
                 /\ down'[c][i] = down[c][j] /\ down[c][j] \in Calls \ {k}
                 /\ j = IF c = mine THEN i + 1 ELSE i
    <3>1. CASE c = mine
      <4>1. i \in Nat /\ i + 1 # 1 /\ i + 1 \in DOMAIN down[c] /\ down'[c][i] = down[c][i + 1]
        BY <1>2, <3>1, Taken DEF Execute, TypeOK
      <4>2. down[c][i + 1] \in Calls \ {k}
        BY <1>3, <4>1, <3>1 DEF TypeOK
      <4>3. QED
        BY <3>1, <4>1, <4>2
    <3>2. CASE c # mine
      <4>1. down'[c] = down[c]
        BY <1>2, <3>2 DEF Execute, TypeOK
      <4>2. down[c][i] \in Calls \ {k}
        BY <1>3, <4>1, <3>2 DEF TypeOK
      <4>3. QED
        BY <3>2, <4>1, <4>2
    <3>3. QED
      BY <3>1, <3>2
  <2> SUFFICES ASSUME NEW c \in Conns, NEW i \in DOMAIN down'[c]
               PROVE  /\ ran'[down'[c][i]] = 0 /\ ans'[down'[c][i]] \notin {"offline", "unsent"}
                      /\ row'[down'[c][i]] # "none"
                      /\ pc'[down'[c][i]] \in {"wait", "save", "end"}
                      /\ \A d \in Conns : \A j \in DOMAIN down'[d] :
                           down'[d][j] = down'[c][i] => d = c /\ j = i
    BY DEF InFlight
  <2>2. PICK n \in DOMAIN down[c] :
          /\ down'[c][i] = down[c][n] /\ down[c][n] \in Calls \ {k}
          /\ n = IF c = mine THEN i + 1 ELSE i
    BY <2>1
  <2>3. ASSUME NEW d \in Conns, NEW j \in DOMAIN down'[d], down'[d][j] = down'[c][i]
        PROVE  d = c /\ j = i
    <3>1. PICK m \in DOMAIN down[d] :
            /\ down'[d][j] = down[d][m] /\ m = IF d = mine THEN j + 1 ELSE j
      BY <2>1
    <3>2. d = c /\ m = n
      BY <2>2, <2>3, <3>1 DEF InFlight
    <3>3. i \in Int /\ j \in Int
      BY <1>2, Taken DEF Execute, TypeOK
    <3>4. QED
      BY <2>2, <3>1, <3>2, <3>3
  <2>4. QED
    BY <1>4, <1>6, <2>2, <2>3 DEF InFlight
<1>12. QED
  BY <1>8, <1>9, <1>11

\* Every step preserves the invariant.
LEMMA NextIInv == IInv /\ [Next]_vars => IInv'
<1> SUFFICES ASSUME IInv, [Next]_vars PROVE IInv'
  OBVIOUS
<1>0. TypeOK'
  BY NextTypeOK DEF IInv
<1> SUFFICES Waiting' /\ InFlight' /\ News' /\ OutcomesHonest'
  BY <1>0 DEF IInv
<1> DEFINE Kept == Waiting' /\ InFlight' /\ News' /\ OutcomesHonest'
<1> USE DEF conn, call, past
<1>1. ASSUME NEW k \in Calls, Issue(k) \/ IssueFails(k) \/ Lookup(k) \/ WriteError(k)
      PROVE  Kept
  <2>1. /\ pc[k] \in {"new", "lookup", "write"} /\ ans[k] = "none" /\ ran[k] = 0
        /\ pc[k] = "new" => row[k] = "none"
        /\ pc[k] # "new" => row[k] = "pending"
        /\ UNCHANGED <<down, up, past>>
    BY <1>1 DEF Issue, IssueFails, Lookup, WriteError, IInv, Waiting
  <2>2. /\ pc'[k] \in {"lookup", "write", "save", "end"}
        /\ pc'[k] \in {"lookup", "write"} => ans'[k] = "none"
        /\ pc'[k] = "write" => pending'[k] # "absent"
        /\ ans'[k] \in {"none", "offline", "unsent"}
        /\ pending'[k] \in {pending[k], "absent", "empty"}
        /\ row'[k] = row[k] \/ row'[k] = "pending"
        /\ pc'[k] \in {"lookup", "write", "save"} => row'[k] = "pending"
        /\ \A x \in Calls \ {k} : /\ pc'[x] = pc[x] /\ pending'[x] = pending[x]
                                  /\ ans'[x] = ans[x] /\ row'[x] = row[x]
    BY <1>1, <2>1 DEF Issue, IssueFails, Lookup, WriteError, Return, IInv, TypeOK
  <2>3. QED
    BY <1>0, <2>1, <2>2, CallMoves
<1>2. ASSUME NEW k \in Calls, Receive(k) \/ Timeout(k) PROVE Kept
  <2>1. /\ pc[k] = "wait" /\ pc'[k] = "save" /\ UNCHANGED <<down, up, past, row>>
        /\ ans'[k] \in {"timeout", pending[k]} /\ pending'[k] = "absent"
        /\ \A x \in Calls \ {k} : /\ pc'[x] = pc[x] /\ pending'[x] = pending[x]
                                  /\ ans'[x] = ans[x] /\ row'[x] = row[x]
    BY <1>2 DEF Receive, Timeout, Return, IInv, TypeOK
  <2>2. ans'[k] \notin {"offline", "unsent"}
    BY <2>1 DEF IInv, TypeOK
  <2>3. row[k] = "pending"
    BY <2>1 DEF IInv, Waiting
  <2>4. ASSUME ans'[k] \in {"ok", "ko"} PROVE Told(k, ans'[k] = "ok")
    <3>1. ans'[k] = pending[k]
      BY <2>1, <2>4
    <3>2. QED
      BY <2>4, <3>1 DEF IInv, News
  <2>5. QED
    BY <1>0, <2>1, <2>2, <2>3, <2>4, CallMoves
<1>3. ASSUME NEW k \in Calls, Save(k) \/ SaveFails(k) PROVE Kept
  <2>1. /\ pc[k] = "save" /\ pc'[k] = "end" /\ UNCHANGED <<down, up, past, pending, ans>>
        /\ row'[k] \in {row[k], "done", "failed"}
        /\ row'[k] = "done" => row[k] = "done" \/ ans[k] = "ok"
        /\ \A x \in Calls \ {k} : pc'[x] = pc[x] /\ row'[x] = row[x]
    BY <1>3 DEF Save, SaveFails, IInv, TypeOK
  <2>2. ans[k] \in {"ok", "ko"} => Told(k, ans[k] = "ok")
    BY DEF IInv, News
  <2>3. row'[k] = "done" => k \in good
    BY <2>1, <2>2 DEF IInv, OutcomesHonest, Told
  <2>4. ans[k] \in {"offline", "unsent"} => ran[k] = 0
    BY DEF IInv, OutcomesHonest
  <2>5. QED
    BY <1>0, <2>1, <2>2, <2>3, <2>4, CallMoves
<1>4. ASSUME NEW c \in Conns, AddAgent(c) \/ HandlerEnds(c) \/ LinkBreaks(c) PROVE Kept
  BY <1>4, QueuesShrink DEF AddAgent, HandlerEnds, LinkBreaks
<1>5. ASSUME NEW c \in Conns, Connect(c) PROVE Kept
  <2>1. \A d \in Conns : /\ down'[d] = down[d] \/ down'[d] = <<>>
                         /\ up'[d] = up[d] \/ up'[d] = <<>>
    BY <1>5 DEF Connect, IInv, TypeOK
  <2>2. QED
    BY <1>5, <2>1, QueuesShrink DEF Connect
<1>6. CASE AgentNotices \/ AgentCrash \/ UNCHANGED vars
  BY <1>6, QueuesShrink DEF AgentNotices, AgentCrash, vars
<1>7. CASE ServerCrash
  <2>1. /\ UNCHANGED <<down, ans, row, ran, good>>
        /\ \A c \in Conns : up'[c] = <<>>
        /\ \A k \in Calls : /\ pending'[k] = "absent"
                            /\ pc'[k] = pc[k] \/ pc'[k] = "end"
                            /\ pc'[k] \in {"new", "end"}
                            /\ pc'[k] = "new" => pc[k] = "new"
    BY <1>7 DEF ServerCrash
  <2>2. InFlight'
    <3>1. \A c \in Conns : \A i \in DOMAIN down[c] : down[c][i] \in Calls
      BY DEF IInv, TypeOK
    <3>2. QED
      BY <2>1, <3>1 DEF IInv, InFlight
  <2>3. Waiting'
    BY <2>1 DEF IInv, Waiting
  <2>4. QED
    BY <2>1, <2>2, <2>3 DEF IInv, News, Told, OutcomesHonest
<1>8. QED
  BY <1>1, <1>2, <1>3, <1>4, <1>5, <1>6, <1>7, WriteKeeps, DeliverKeeps, ExecuteKeeps
     DEF Next, CallStep

-----------------------------------------------------------------------------
(* What holds *)

\* The invariant: a command is in flight at most once, between being written and being
\* executed, every result on its way is that of the command it names, and only commands
\* with a response row are executed.
THEOREM Invariance == Spec => []IInv
<1>1. Init => IInv
  BY InitIInv
<1>2. IInv /\ [Next]_vars => IInv'
  BY NextIInv
<1>3. QED
  BY <1>1, <1>2, PTL DEF Spec

\* Every reachable state of the command channel is well typed.
THEOREM TypeCorrect == Spec => []TypeOK
<1>1. IInv => TypeOK
  BY DEF IInv
<1>2. QED
  BY <1>1, Invariance, PTL

\* "done" is only recorded of a command that was executed and succeeded, a failure only
\* reported of one that was executed and failed, "offline" and "send failed" only of one
\* that never ran; none runs twice, nor without a row: SendCommand's channel per command
\* id keeps late, lost and concurrent results apart.
THEOREM OutcomesHonestHolds == Spec => []OutcomesHonest
<1>1. IInv => OutcomesHonest
  BY DEF IInv
<1>2. QED
  BY <1>1, Invariance, PTL
=============================================================================

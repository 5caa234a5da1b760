------------------------------- MODULE Access --------------------------------
(***************************************************************************)
(* Who may do what from the dashboard: signing in with a password and a    *)
(* code (app/login/page.tsx), the second factor, the password and signing  *)
(* out on the Settings page, the proxy that checks every call against the  *)
(* operator's role (app/api/proxy/[...path]/route.ts) and the token under  *)
(* which it then calls the server (lib/go.ts).                             *)
(*                                                                         *)
(* One operator uses several browsers.  The sessions and the cookie that   *)
(* caches one are the authentication library's, configured in lib/auth.ts; *)
(* they are modelled as they are used.  Time is a clock of coarse ticks.   *)
(* What is typed, right or wrong, is left out: a wrong password or code    *)
(* changes nothing but a message.                                          *)
(***************************************************************************)
EXTENDS Integers, FiniteSets

CONSTANTS
  Browsers,
  SessionTTL, CacheAge,   \* lib/auth.ts: session.expiresIn, cookieCache.maxAge
  Keep, TokenTTL,         \* lib/go.ts keeps a token; the server accepts it
  Slack,                  \* how long the answer to a login may take
  Calls,                  \* places for calls under way
  None, Ready, Asked,
  Horizon, MaxMoves       \* bounds: time, and what the operator does

VARIABLES
  now,
  role, tfa,   \* the operator's row: role, and whether a code is needed
  sess,        \* per browser: when its session ends, None without one
  cookie,      \* per browser: the session as last sent to it, with the role
  ui,          \* per browser: the sign-in page's step, or the card of the second factor
  token,       \* the token go.ts keeps
  calls,       \* calls the proxy let through: waiting for a token, or for a login
  last,        \* history: when a browser's session last had a role
  moves

who  == <<role, tfa, sess, last>>
vars == <<now, who, cookie, ui, token, calls, moves>>

Roles == {"viewer", "analyst", "admin"}
RANK  == [viewer |-> 1, analyst |-> 2, admin |-> 3]
Times == 0..Horizon
Steps == {"email", "code", "idle", "password", "verify", "disable"}

\* A call and the role the server's own routes ask for it.
Verb     == [agents |-> "GET", siem |-> "GET", respond |-> "POST", policy |-> "POST",
             toggle |-> "POST", suppression |-> "DELETE"]
Required == [agents |-> "viewer", siem |-> "analyst", respond |-> "analyst",
             policy |-> "admin", toggle |-> "admin", suppression |-> "analyst"]
Ops == DOMAIN Verb

At(step, on) == [step |-> step, enabled |-> on]

TypeOK ==
  /\ now \in Times /\ role \in Roles /\ tfa \in BOOLEAN
  /\ sess \in [Browsers -> Nat \cup {None}]
  /\ cookie \in [Browsers -> [role : Roles, at : Times] \cup {None}]
  /\ ui \in [Browsers -> [step : Steps, enabled : BOOLEAN]]
  /\ token \in [minted : Times, exp : Nat] \cup {None}
  /\ calls \in [Calls -> Times \cup {None, Ready, Asked}]
  /\ last \in [Browsers -> [Roles -> Times \cup {None}]] /\ moves \in 0..MaxMoves

Init ==
  /\ now = 0 /\ role \in Roles /\ tfa \in BOOLEAN
  /\ sess = [b \in Browsers |-> None] /\ cookie = sess
  /\ ui = [b \in Browsers |-> At("email", FALSE)]
  /\ token = None /\ calls = [c \in Calls |-> None]
  /\ last = [b \in Browsers |-> [r \in Roles |-> None]] /\ moves = 0

Move == moves < MaxMoves /\ moves' = moves + 1

Alive(b) == sess[b] # None /\ now < sess[b]
Has(b, r) == Alive(b) /\ role = r

\* History, kept whenever a role or a session may end.
Remember ==
  last' = [b \in Browsers |-> [r \in Roles |-> IF Has(b, r) THEN now ELSE last[b][r]]]

\* No answer to a login takes longer than Slack.
Advance ==
  /\ now < Horizon /\ now' = now + 1 /\ Remember
  /\ \A c \in Calls : calls[c] \in Times => now - calls[c] < Slack
  /\ UNCHANGED <<role, tfa, sess, cookie, ui, token, calls, moves>>

-----------------------------------------------------------------------------
(* Signing in and out *)

InApp(b) == ui[b].step \notin {"email", "code"}

\* A session starts, and the browser gets it with its role.
Enter(b) ==
  /\ sess' = [sess EXCEPT ![b] = now + SessionTTL]
  /\ cookie' = [cookie EXCEPT ![b] = [role |-> role, at |-> now]]
  /\ ui' = [ui EXCEPT ![b] = At("idle", tfa)]

\* submit: with a second factor there is no session yet.
SignIn(b) ==
  /\ ui[b].step = "email" /\ Move
  /\ IF tfa THEN ui' = [ui EXCEPT ![b] = At("code", FALSE)] /\ UNCHANGED <<sess, cookie>>
     ELSE Enter(b)
  /\ UNCHANGED <<now, role, tfa, last, token, calls>>

verify2fa(b) ==
  /\ ui[b].step = "code" /\ Enter(b)
  /\ UNCHANGED <<now, role, tfa, last, token, calls, moves>>

Back(b) ==
  /\ ui[b].step = "code" /\ ui' = [ui EXCEPT ![b] = At("email", FALSE)]
  /\ UNCHANGED <<now, who, cookie, token, calls, moves>>

signOut(b) ==
  /\ InApp(b) /\ Move /\ Remember
  /\ sess' = [sess EXCEPT ![b] = None] /\ cookie' = [cookie EXCEPT ![b] = None]
  /\ ui' = [ui EXCEPT ![b] = At("email", FALSE)]
  /\ UNCHANGED <<now, role, tfa, token, calls>>

\* seed-operator sets the role of an operator.
SetRole(r) ==
  /\ r # role /\ Move /\ Remember /\ role' = r
  /\ UNCHANGED <<now, tfa, sess, cookie, ui, token, calls>>

\* Changing the password revokes the sessions of the other browsers.
ChangePassword(b) ==
  /\ InApp(b) /\ Alive(b) /\ Move /\ Remember
  /\ sess' = [x \in Browsers |-> IF x = b THEN sess[x] ELSE None]
  /\ UNCHANGED <<now, role, tfa, cookie, ui, token, calls>>

-----------------------------------------------------------------------------
(* The card of the second factor *)

Goto(b, from, on, to) ==
  /\ ui[b] = At(from, on)
  /\ ui' = [ui EXCEPT ![b].step = to]

\* Each control is offered in one step of one state; startEnable brings the secret.
Card(b) ==
  /\ \/ Goto(b, "idle", FALSE, "password") \/ Goto(b, "idle", TRUE, "disable")
     \/ Alive(b) /\ Goto(b, "password", FALSE, "verify")
     \/ \E s \in {"password", "verify"} : Goto(b, s, FALSE, "idle")
     \/ Goto(b, "disable", TRUE, "idle")
  /\ Move
  /\ UNCHANGED <<now, who, cookie, token, calls>>

\* verify and disable; the card learns of it by the refetch they send.
SwitchTfa(b) ==
  /\ Alive(b) /\ Move
  /\ \/ Goto(b, "verify", FALSE, "idle") /\ tfa' = TRUE
     \/ Goto(b, "disable", TRUE, "idle") /\ tfa' = FALSE
  /\ UNCHANGED <<now, role, sess, last, cookie, token, calls>>

-----------------------------------------------------------------------------
(* The session as the dashboard's server sees it *)

\* Mutant: a cached session never ages.
LookCached(b) ==
  IF cookie[b] = None THEN None ELSE cookie[b].role

\* getSession: the cookie while it is fresh, then the database.
Look(b) ==
  CASE cookie[b] = None                   -> None
    [] cookie[b] # None /\ now - cookie[b].at < CacheAge -> cookie[b].role
    [] OTHER -> IF Alive(b) THEN role ELSE None

\* useSession asks anew, which is what renews the cookie.
Refetch(b) ==
  /\ InApp(b)
  /\ IF Alive(b)
     THEN /\ cookie' = [cookie EXCEPT ![b] = [role |-> role, at |-> now]]
          /\ ui' = [ui EXCEPT ![b].enabled = tfa]
     ELSE cookie' = [cookie EXCEPT ![b] = None] /\ ui' = [ui EXCEPT ![b].enabled = FALSE]
  /\ UNCHANGED <<now, who, token, calls, moves>>

\* The layout of every page sends a browser without a session to sign in.
Redirect(b) ==
  /\ InApp(b) /\ Look(b) = None /\ ui' = [ui EXCEPT ![b] = At("email", FALSE)]
  /\ UNCHANGED <<now, who, cookie, token, calls, moves>>

-----------------------------------------------------------------------------
(* The proxy *)

getMinRole(op) == IF op = "siem" THEN "analyst" ELSE "viewer"
writeMinRole(op) == IF op \in {"policy", "toggle"} THEN "admin" ELSE "analyst"

MinRole(op) ==
  CASE Verb[op] = "GET"    -> getMinRole(op)
    [] Verb[op] = "POST"   -> writeMinRole(op)
    [] Verb[op] = "DELETE" -> "analyst"

allowed(r, min) == r # None /\ RANK[r] >= RANK[min]

\* GET, POST and DELETE, up to the call to the server.
Call(b, op, c) ==
  /\ calls[c] = None /\ allowed(Look(b), MinRole(op))
  /\ Move /\ calls' = [calls EXCEPT ![c] = Ready]
  /\ UNCHANGED <<now, who, cookie, ui, token>>

-----------------------------------------------------------------------------
(* goToken and goFetch *)

Kept == token # None /\ token.exp > now

UseKept(c) ==
  /\ calls[c] = Ready /\ Kept /\ calls' = [calls EXCEPT ![c] = None]
  /\ UNCHANGED <<now, who, cookie, ui, token, moves>>

Login(c) ==
  /\ calls[c] = Ready /\ ~Kept /\ calls' = [calls EXCEPT ![c] = Asked]
  /\ UNCHANGED <<now, who, cookie, ui, token, moves>>

\* The server mints a token, or the login fails and the call with it.
LoginAnswered(c) ==
  /\ calls[c] = Asked /\ calls' \in {[calls EXCEPT ![c] = now], [calls EXCEPT ![c] = None]}
  /\ UNCHANGED <<now, who, cookie, ui, token, moves>>

\* Logins may have crossed: the last answer is kept, from when it arrived.
Keeping(t) == [minted |-> t, exp |-> now + Keep]

LoginArrives(c) ==
  /\ calls[c] \in Times /\ token' = Keeping(calls[c])
  /\ calls' = [calls EXCEPT ![c] = None]
  /\ UNCHANGED <<now, who, cookie, ui, moves>>

-----------------------------------------------------------------------------
Next ==
  \/ Advance \/ \E r \in Roles : SetRole(r)
  \/ \E b \in Browsers :
       \/ SignIn(b) \/ verify2fa(b) \/ Back(b) \/ signOut(b) \/ ChangePassword(b)
       \/ Card(b) \/ SwitchTfa(b) \/ Refetch(b) \/ Redirect(b)
       \/ \E op \in Ops, c \in Calls : Call(b, op, c)
  \/ \E c \in Calls : UseKept(c) \/ Login(c) \/ LoginAnswered(c) \/ LoginArrives(c)

-----------------------------------------------------------------------------
(* Properties *)

\* A browser's session has, or had no longer ago than a cookie lives, a role the
\* server's own routes accept for a call.
Entitled(b, op) ==
  \E r \in Roles :
    /\ RANK[r] >= RANK[Required[op]]
    /\ Has(b, r) \/ (last[b][r] # None /\ now - last[b][r] < CacheAge)

\* Behind the proxy every call carries the service's own rights; what it lets through
\* is what the operator's session entitles to, also after a role was taken away, a
\* password changed or a session ended.  And however logins crossed and lingered, a
\* call goes out only with a token the server still accepts.
CallsEntitled ==
  /\ \A b \in Browsers, op \in Ops, c \in Calls : Call(b, op, c) => Entitled(b, op)
  /\ \A c \in Calls : UseKept(c) => now < token.minted + TokenTTL

\* Why it holds: whatever a cookie says of the role was so when it was sent, and is so
\* still or was when the session or the role ended.
CookieTold ==
  \A b \in Browsers : cookie[b] # None =>
    LET r == cookie[b].role
    IN  /\ cookie[b].at <= now
        /\ Has(b, r) \/ (last[b][r] # None /\ cookie[b].at <= last[b][r])

\* And: a login is young when it is answered, so its token is not kept for longer than
\* the server accepts it.
TokenYoung ==
  /\ token # None => token.exp <= token.minted + Slack + Keep
  /\ \A c \in Calls : calls[c] \in Times => calls[c] <= now /\ now - calls[c] <= Slack

\* Inductive, with the types of what each is about.
Rights ==
  /\ now \in Times /\ role \in Roles
  /\ sess \in [Browsers -> Nat \cup {None}]
  /\ cookie \in [Browsers -> [role : Roles, at : Times] \cup {None}]
  /\ last \in [Browsers -> [Roles -> Times \cup {None}]]
  /\ CookieTold
Tokens ==
  /\ now \in Times /\ token \in [minted : Times, exp : Nat] \cup {None}
  /\ calls \in [Calls -> Times \cup {None, Ready, Asked}]
  /\ TokenYoung
IInv == Rights /\ Tokens
=============================================================================

------------------------------ MODULE Console -------------------------------
(***************************************************************************)
(* The dashboard as one state machine: the five pages that act on the      *)
(* server or follow it, the push channel below them, the way from page to  *)
(* page on the trail of something, the story a drawer tells, the figures   *)
(* pages compute, and who may do what.  A page keeps its state in its      *)
(* components, so leaving it forgets everything and no two pages share     *)
(* any; the session and the proxy know no page: a behaviour shows one part *)
(* of the dashboard, chosen at the start, and holds the variables of the   *)
(* others at None.                                                         *)
(*                                                                         *)
(* What a page does is in a module of its own, taken by INSTANCE; state of *)
(* one name is the same hook in each (useData, DataTable, a confirmation). *)
(***************************************************************************)
EXTENDS ConsoleState, Integers, FiniteSets, Sequences

CONSTANTS
  Moves,      \* the parts there are, and the bound of each
  Reads,      \* how many reads of a list may be under way at once, likewise
  Hits, PageSize, RulePage,                 \* the tables
  Severe, Limit, Links,                     \* Triage
  Supps, Columns,                           \* Tuning
  Late, Filters, Matches, Local,            \* LiveList
  FeedPage, TailLimit, Slots,
  Components, MaxTimers,                    \* Stream
  Facts, Subject, Root, Categories, StoryLimit, Sources,      \* Hunt and Story
  Flows, Techniques, Tactic, Parent, Stages, Ranks,     \* Figures
  Window, Buckets, Top, Around,
  Browsers, SessionTTL, CacheAge, Keep, TokenTTL, Slack, Calls, Horizon,   \* Access
  Asked, Gone, Ready

ASSUME ConsoleAssumption ==
  /\ DOMAIN Moves \subseteq {"events", "detections", "cases", "endpoints", "rules", "channel",
                        "hunt", "story", "figures", "access"}
  /\ \A p \in DOMAIN Moves : Moves[p] \in Nat /\ Reads[p] \in Nat \ {0}
  /\ Ids \subseteq Nat \ {0} /\ Severe \subseteq Ids /\ Links \subseteq Ids \cup {None}
  /\ \A h \in DOMAIN Hits : Hits[h] \subseteq Ids
  /\ Events \subseteq Nat \ {0} /\ Late \subseteq Events
  /\ Matches \in [Filters -> SUBSET Events] /\ Local \subseteq Filters
  /\ {PageSize, RulePage, Limit, FeedPage, TailLimit, Cap} \subseteq Nat \ {0}
  /\ DOMAIN Facts \subseteq Nat \ {0} /\ DOMAIN Subject = DOMAIN Facts
  /\ {StoryLimit, Sources, Stages, Ranks, Top, Around} \subseteq Nat \ {0}
  /\ {Window, Buckets} \subseteq Nat \ {0, 1} /\ \A f \in Flows : f.out \in Nat
  /\ Tactic \in [DOMAIN Tactic -> 1..Stages]
  /\ MaxTimers \in Nat /\ None \notin {"connecting", "open", "failed"}
  /\ SessionTTL \in Nat \ {0} /\ {CacheAge, Keep, TokenTTL, Slack, Horizon} \subseteq Nat
  /\ Keep + Slack <= TokenTTL /\ {None, Ready, Asked} \cap Nat = {}

VARIABLES
  data, replies, status, pending, dialog, bulks, page, selection, view, ticked,
  deep, sev, asks,                               \* Triage
  load,                                          \* CaseDesk
  failed,                                        \* Fleet
  supps, sasked, sreplies, told,                 \* Tuning
  db, live, items, seen, newest, hasMore, first, tails, older,   \* LiveList
  mounted, refs, es, connected,                  \* Stream
  address, typed, scope, palette, picked,        \* Hunt and Story
  calm, shown, from, frame,                      \* Figures
  now, role, tfa, sess, last, ui, calls          \* Access

common  == <<srv, data, asked, replies, posts>>
table   == <<page, selection, view, stored, ticked>>   \* and filter
triaged == <<deep, sev, asks, triage>>
cased   == <<detail, load, note>>
tuned   == <<supps, sasked, sreplies, told>>
fed     == <<db, pushes, live, items, seen, newest, hasMore, first, tails, older>>
pushed  == <<mounted, refs, es, timers, connected, ws>>
hunted  == <<address, typed, scope, palette>>
counted == <<calm, shown, from, frame>>
entered == <<now, role, tfa, sess, last, cookie, ui, token, calls>>
later   == <<at, hunted, picked, counted, entered>>
vars    == <<part, common, table, triaged, cased, failed, tuned, fed, pushed, later,
             filter, status, sel, pending, dialog, busy, bulks, moves>>

Feed  == INSTANCE LiveList WITH PageSize <- FeedPage, MaxMoves <- Moves["events"]
Dets  == INSTANCE Triage   WITH Dets <- Ids,
           MaxReads <- Reads["detections"], MaxMoves <- Moves["detections"]
Cases == INSTANCE CaseDesk WITH Cases <- Ids,
           MaxReads <- Reads["cases"], MaxMoves <- Moves["cases"]
Hosts == INSTANCE Fleet    WITH Agents <- Ids,
           MaxReads <- Reads["endpoints"], MaxMoves <- Moves["endpoints"]
Rules == INSTANCE Tuning   WITH Rules <- Ids, PageSize <- RulePage,
           MaxReads <- Reads["rules"], MaxMoves <- Moves["rules"]
Push  == INSTANCE Stream   WITH MaxMoves <- Moves["channel"]
Trail == INSTANCE Hunt     WITH Ids <- DOMAIN Facts, MaxMoves <- Moves["hunt"]
Tale  == INSTANCE Story    WITH Ids <- DOMAIN Facts,
           MaxReads <- Reads["story"], MaxMoves <- Moves["story"]
Count == INSTANCE Figures  WITH MaxMoves <- Moves["figures"]
Gate  == INSTANCE Access   WITH MaxMoves <- Moves["access"]

feedVars == Feed!vars
detsVars == Dets!vars
pushVars == Push!vars

-----------------------------------------------------------------------------
NoTable == page = None /\ selection = None /\ view = None /\ stored = None /\ ticked = None
NoRead  == srv = None /\ data = None /\ asked = None /\ replies = None /\ posts = None
NoDets  == deep = None /\ sev = None /\ asks = None /\ triage = None
NoCases == detail = None /\ load = None /\ note = None
NoRules == supps = None /\ sasked = None /\ sreplies = None /\ told = None
NoFeed  ==
  /\ db = None /\ pushes = None /\ live = None /\ items = None /\ seen = None
  /\ newest = None /\ hasMore = None /\ first = None /\ tails = None /\ older = None
NoPush  ==
  /\ mounted = None /\ refs = None /\ es = None /\ timers = None
  /\ connected = None /\ ws = None
NoHunt  == address = None /\ typed = None /\ scope = None /\ palette = None
NoCount == calm = None /\ shown = None /\ from = None /\ frame = None
NoEntry ==
  /\ now = None /\ role = None /\ tfa = None /\ sess = None /\ last = None
  /\ cookie = None /\ ui = None /\ token = None /\ calls = None
NoTrail == at = None /\ NoHunt /\ picked = None /\ NoCount
NoLater == NoTrail /\ NoEntry
NoPage  ==
  /\ NoTable /\ NoDets /\ NoCases /\ NoRules /\ NoFeed /\ NoPush /\ failed = None
  /\ filter = None /\ status = None /\ dialog = None /\ busy = None /\ bulks = None

Init ==
  /\ part \in DOMAIN Moves
  /\ \/ /\ part = "events" /\ Feed!Init /\ NoLater
        /\ NoTable /\ NoRead /\ NoDets /\ NoCases /\ NoRules /\ NoPush /\ failed = None
        /\ status = None /\ sel = None /\ pending = None /\ dialog = None /\ busy = None
        /\ bulks = None
     \/ /\ part = "detections" /\ Dets!Init /\ NoLater
        /\ NoCases /\ NoRules /\ NoFeed /\ NoPush /\ failed = None /\ dialog = None /\ busy = None
     \/ /\ part = "cases" /\ Cases!Init /\ NoLater
        /\ NoTable /\ NoDets /\ NoRules /\ NoFeed /\ NoPush /\ failed = None
        /\ filter = None /\ pending = None /\ bulks = None
     \/ /\ part = "endpoints" /\ Hosts!Init /\ NoLater
        /\ NoDets /\ NoCases /\ NoRules /\ NoFeed /\ NoPush /\ status = None /\ dialog = None
     \/ /\ part = "rules" /\ Rules!Init /\ NoLater
        /\ NoDets /\ NoCases /\ NoFeed /\ NoPush /\ failed = None /\ status = None
        /\ sel = None /\ pending = None
     \/ /\ part = "channel" /\ Push!Init /\ NoLater
        /\ NoTable /\ NoRead /\ NoDets /\ NoCases /\ NoRules /\ NoFeed /\ failed = None
        /\ filter = None /\ status = None /\ sel = None /\ pending = None /\ dialog = None
        /\ busy = None /\ bulks = None
     \/ /\ part = "hunt" /\ Trail!Init
        /\ NoPage /\ NoCount /\ picked = None /\ NoEntry
        /\ srv = None /\ data = None /\ asked = None /\ replies = None
     \/ /\ part = "story" /\ Tale!Init /\ NoPage /\ NoHunt /\ NoCount /\ NoEntry
     \/ /\ part = "figures" /\ Count!Init
        /\ NoPage /\ NoHunt /\ picked = None /\ sel = None /\ pending = None
        /\ srv = None /\ asked = None /\ replies = None /\ posts = None /\ NoEntry
     \/ /\ part = "access" /\ Gate!Init
        /\ NoPage /\ NoRead /\ NoTrail /\ sel = None /\ pending = None

Next ==
  \/ /\ part = "events" /\ Feed!Next
     /\ UNCHANGED <<part, later, common, table, triaged, cased, failed, tuned, pushed,
                    status, sel, pending, dialog, busy, bulks>>
  \/ /\ part = "detections" /\ Dets!Next
     /\ UNCHANGED <<part, later, cased, failed, tuned, fed, pushed, dialog, busy>>
  \/ /\ part = "cases" /\ Cases!Next
     /\ UNCHANGED <<part, later, table, triaged, failed, tuned, fed, pushed, filter, pending, bulks>>
  \/ /\ part = "endpoints" /\ Hosts!Next
     /\ UNCHANGED <<part, later, triaged, cased, tuned, fed, pushed, status, dialog>>
  \/ /\ part = "rules" /\ Rules!Next
     /\ UNCHANGED <<part, later, triaged, cased, failed, fed, pushed, status, sel, pending>>
  \/ /\ part = "channel" /\ Push!Next
     /\ UNCHANGED <<part, later, common, table, triaged, cased, failed, tuned, fed,
                    filter, status, sel, pending, dialog, busy, bulks>>
  \/ /\ part = "hunt" /\ Trail!Next
     /\ UNCHANGED <<part, srv, data, asked, replies, table, triaged, cased, failed, tuned, fed,
                    pushed, picked, counted, entered, filter, status, dialog, busy, bulks>>
  \/ /\ part = "story" /\ Tale!Next
     /\ UNCHANGED <<part, table, triaged, cased, failed, tuned, fed, pushed, hunted, counted,
                    entered, filter, status, dialog, busy, bulks>>
  \/ /\ part = "figures" /\ Count!Next
     /\ UNCHANGED <<part, srv, asked, replies, posts, table, triaged, cased, failed, tuned, fed,
                    pushed, hunted, picked, entered, filter, status, sel, pending, dialog, busy,
                    bulks>>
  \/ /\ part = "access" /\ Gate!Next
     /\ UNCHANGED <<part, common, table, triaged, cased, failed, tuned, fed, pushed, at, hunted,
                    picked, counted, filter, status, sel, pending, dialog, busy, bulks>>

\* Timers fire, requests are answered and answers handled, as the modules say.
Fairness ==
  /\ \A t \in Slots :
       /\ WF_feedVars(part = "events" /\ Feed!Tick(t))
       /\ WF_feedVars(part = "events" /\ Feed!AnswerTail(t))
       /\ WF_feedVars(part = "events" /\ Feed!TickArrives(t))
  /\ WF_detsVars(part = "detections" /\ Dets!Tick)
  /\ WF_detsVars(part = "detections" /\ Dets!Reply)
  /\ WF_detsVars(part = "detections" /\ \E r \in replies : Dets!Receive(r))
  /\ WF_pushVars(part = "channel" /\ Push!Opened)
  /\ WF_pushVars(part = "channel" /\ Push!WsOpened)
  /\ WF_pushVars(part = "channel" /\ Push!teardown)

Spec == Init /\ [][Next]_vars /\ Fairness

-----------------------------------------------------------------------------
(* Properties *)

\* However rows come, go and move under the ticks, a bulk action on detections,
\* endpoints or rules reaches only those the operator ticked.
BulkHitsTicked ==
  /\ part = "detections" => Dets!BulkHitsTicked
  /\ part = "endpoints"  => Hosts!BulkHitsTicked
  /\ part = "rules"      => Rules!BulkHitsTicked

\* Containment of a host goes out as the operator confirmed it, for a host ticked,
\* or as a retry of what failed, wherever polls have moved the drawer or the list
\* since; from a detection, an event or a recommendation there is only the first
\* way, and it hits the process, file or account of just that one, never root's.
ContainmentHasCause ==
  [][/\ part = "detections" => Dets!ContainmentConfirmed
     /\ part = "endpoints"  => Hosts!ContainmentHasCause
     /\ part = "hunt"       => Trail!ActsOnShown
     /\ part = "story"      => Tale!RecommendedFor]_vars

\* What was asked for before the question changed is dropped: the detections never
\* show rows of another filter, the drawer of a case no load of another case, a
\* story takes no events of another host than its finding's, and the rules nothing
\* read before a change the page was told of.
DropsStale ==
  [][/\ part = "detections" => Dets!NoStaleRows
     /\ part = "cases"      => Cases!LoadsShowSelection
     /\ part = "story"      => Tale!StoryOfSubject
     /\ part = "rules"      => Rules!ReadYourWrites]_vars

\* Whatever rows come and go, the figures a page computes from them agree with each
\* other, and a metric at rest shows its value, unless that is back where it rested.
FiguresAgree == part = "figures" => Count!FiguresAgree

\* Whatever the order of pages, polls and broadcasts, an event is listed once, and
\* one that does not match the filters comes from an older page asked for before.
RowsOnceAndMatching ==
  [][part = "events" => Feed!NoDuplicates' /\ Feed!OnlyOlderPageStrays]_vars

\* An event stored above the newest row gets on the page, or the operator looks
\* elsewhere; polling alone is enough.
TailShows ==
  \A f \in Filters \ Local, e \in Events :
    (part = "events" /\ Feed!Missed(f, e)) ~> (part = "events" /\ Feed!ShownOrLeft(f, e))

\* Answers may overtake each other and be lost, but in the end the list of
\* detections is what the server holds.
ListCatchesUp == <>[](part = "detections" => data = Dets!Query)

\* Whatever the order of mounts, unmounts and timeouts, there is one channel while a
\* component wants it, and in the end none that nobody wants.
OneChannel == part = "channel" => Push!OneChannel

\* Behind the proxy every call carries the service's own rights; what it lets through
\* is what the operator's session entitles to, also after a role was taken away, a
\* password changed or a session ended.  And however logins crossed and lingered, a
\* call goes out only with a token the server still accepts.
CallsEntitled == [][part = "access" => Gate!CallsEntitled]_vars

\* While components want the channel they get it, through to the server and after
\* every drop, unless the browser was refused.
ChannelReturns ==
  (part = "channel" /\ Push!Wanted) ~> (part = "channel" /\ (Push!Served \/ ~Push!Wanted))

\* What makes it so, part by part.
IInv ==
  /\ part \in DOMAIN Moves
  /\ part = "events"     => Feed!IInv
  /\ part = "detections" => Dets!IInv
  /\ part = "cases"      => Cases!IInv
  /\ part = "endpoints"  => Hosts!IInv
  /\ part = "rules"      => Rules!IInv
  /\ part = "channel"    => Push!IInv
  /\ part = "hunt"       => Trail!IInv
  /\ part = "story"      => Tale!IInv
  /\ part = "figures"    => Count!IInv
  /\ part = "access"     => Gate!IInv
=============================================================================

# A verification project for Sentinel EDR

Sentinel EDR is an endpoint detection and response system: an agent (Rust,
`agent/`) collects telemetry on every endpoint and obeys response commands, a
control plane (Go, `server/`) ingests the telemetry, detects, alerts, correlates
and responds, and a console (the dashboard in `dashboard/`, and the older one in
`web/`) shows it and acts on it. This directory holds TLA+ models of the parts whose correctness depends on the order
of events - several processes, retries, crashes, timeouts, caches - together
with the TLC configurations that check them and TLAPS proofs about them.

    tlc -workers 2 -config MCSpool.cfg MCSpool.tla    # check one model
    tlapm SpoolProofs.tla                             # check one module's proofs

`PROJECT.json` lists the components, the runs, the mutants, the map from
definitions to source lines, the findings, the hazards and the theorems.

## 1. The system

### 1.1 Components, state, operations

| component | source | state | operations |
|---|---|---|---|
| Offline spool | `agent/src/spool.rs` | a directory of encrypted batch files | `store` (evict, write .tmp, rename), `take_oldest`, `ack` |
| Telemetry loop | `agent/src/main.rs` | batch in hand, enforcement flags | `flush_and_send`, `drain_spool`, `heartbeat`, `annotate_enforcement` |
| Uplink and command channel | `agent/src/transport.rs` | one WebSocket | `send`, `command_channel`, `serve_commands` |
| Responder | `agent/src/respond.rs` | enforcement flags, policy snapshot, firewall tables, account locks, modules | `execute` and one function per response |
| Collectors | `agent/src/collectors.rs`, `bpf.rs`, `ebpf.rs`, `dns*.rs` | per-collector "already seen" sets | polling and kernel events |
| Ingest and REST API | `server/internal/api/api.go` | none of its own | `enroll`, `ingestEvents`, `agentWS`, console handlers |
| Event bus | `server/internal/bus/` | a JetStream stream, or an in-process fan-out | `Publish`, `Subscribe` |
| Stateless processors | `server/internal/pipeline/pipeline.go`, `detect/`, `dlp/`, `intel/`, `baseline/` | rules, indicators, per-host baselines | `processStateless`, `runDLP`, `emit` |
| Correlator tier | `server/internal/behavior/behavior.go` | per-agent sliding windows, `fired` | `Observe`, `gc` |
| Tuning | `server/internal/tune/tune.go` and the console's handlers | disabled rules, suppressions, hit counters, each cached per process | `Load`, `SetRuleEnabled`, `AddSuppression`, `RemoveSuppression`, `Allowed` |
| Cases | `server/internal/cases/cases.go` and the console's handlers | table `cases`, the open case per endpoint cached per process | `Seed`, `Add`, `createCase`, `updateCase`, `addCaseNote` |
| Response orchestrator and hub | `server/internal/respond/`, `hub/`, `mesh/` | pending results, registered connections | `Issue`, `SendCommand`, `DeliverResult`, `AddAgent`, `RemoveAgent` |
| Liveness monitor | `server/internal/pipeline/pipeline.go` | `agents.status`, `agents.last_seen` | `StartLivenessMonitor`, `sweepLiveness` |
| Store | `server/internal/store/postgres.go` | the tables | one statement per operation |
| Notifier | `server/internal/notify/` | throttle per rule and host | `Notify` and its sinks |
| Auth | `server/internal/auth/` | rate-limiter buckets | `Login`, `Verify`, `Allow` |
| Dashboard, data | `dashboard/lib/use-data.ts`, `use-stream.ts`, `components/data-table.tsx` | polled resources, live lists with cursor and seen set, one shared push channel, ticks and views of tables | timers, pushes, older pages, filters, ticks |
| Dashboard, pages | `dashboard/app/(app)/*/page.tsx` and their panels | drawers, questions awaiting confirmation, dialogs, drafts | statuses, containment, cases, tuning, policy, pivots, figures |
| Dashboard, access | `dashboard/app/api/proxy/`, `lib/go.ts`, `lib/auth.ts`, `app/login/` | operators' sessions and cookies, the service token | sign-in, second factor, role check, calls |
| Older console | `web/src/` | session in three places, one store, drawers, armed buttons, process tree | sign-in, reads, pushes, two-step actions, notes |

### 1.2 Interaction

The agent's loop collects a batch and posts it; on failure the batch goes to the
spool, on success the spool is replayed. The ingest handler publishes each event
of a batch on the bus and answers 202 or 503. Two durable consumers read the
stream: the *processors* (stateless detection, storage) and the *correlators*
(stateful detection). Either calls `emit`, which consults the tuning, stores the
detection, broadcasts and notifies, issues automatic responses through the
orchestrator, and folds the detection into a case. The orchestrator writes a
response row, sends the command over the hub (directly, or over the NATS mesh
when the roles are split) to the agent's WebSocket, waits at most 8 s for the
result and updates the row. The agent executes commands one by one and reports.
Independently, every server process sweeps the agents table each 30 s and alarms
on rows that are live and have been silent for two minutes.

The consoles read lists over the REST API on timers and are told of changes by
broadcasts of the hub. The older console opens a WebSocket itself and patches one
store; the dashboard's pages each poll what they show, behind a proxy that checks
the operator's role and calls the server under one service token, and share an
EventSource that the proxy feeds from a WebSocket. What an operator does is a POST
that reaches the same handlers as everything else, some time after the click.

### 1.3 What is hard

* a batch, a message, a command may be lost, repeated or answered late, and each
  stage has its own retry rule;
* several processes share the consumers and the tables, each with caches;
* any process may be killed between any two of its steps;
* wall clocks name the spool's files, expire windows and judge agents dead;
* a console shows what was so when some answer was written: answers overtake each
  other, pushes and the operator, and what is clicked may have moved since;
* limits (file and byte caps, delivery counts, windows) are met exactly when the
  system is in trouble.

The hazards are listed line by line in `PROJECT.json`, with the properties that
cover them.

### 1.4 What makes each part correct

| component | correctness | where |
|---|---|---|
| Offline spool | stays within its caps; sheds bulk before critical telemetry; a stored batch leaves only by eviction, corruption or acceptance; replays oldest first; drains once the world has settled | `Spool` |
| Upload, ingest, bus, processors | an event is always in somebody's custody; acknowledged means stored and detected; one row per event; with few enough failures everything is stored | `Pipeline`, `Custody` |
| Correlator tier | fires exactly when a window over everything it was shown is full and refire has passed; never counts what did not arrive; memory bounded by what is active | `Correlator` |
| Command channel | done means executed with success, a failure reported that it ran and failed, "offline" that it never ran; nothing is executed twice, nor without a response row; every response is resolved; the channel recovers | `CommandChannel` |
| Liveness monitor | one alarm per silence; no live agent judged dead; a dead one ends up offline; silence is alarmed | `AgentStatus` |
| Responder | flags never claim a block that is not there; a held USB block has no bound drive; acknowledged policies survive a restart; quarantine never loses content; only approved binaries are installed | `Responder` |
| Tuning | the gate decides as the database says, but while an edit is in progress | `Incidents` |
| Notifier | alerts of one key are a throttle apart, and no key goes unalerted for longer | `Incidents` |
| Cases | consumers never lose each other's detections; a closed case absorbs nothing; an incident stays one case across restarts | `Incidents` |
| Dashboard, data | answers to an earlier question are dropped; rows are listed once and match; what is stored gets on the page; a list ends up as the server's; one push channel exactly while wanted | `UseData`, `LiveList`, `Stream` |
| Dashboard, pages | a bulk action reaches what was ticked; containment goes where it was confirmed; the figures of a page agree | `DataTable`, `Triage`, `CaseDesk`, `Fleet`, `Tuning`, `Hunt`, `Story`, `Figures`, composed by `Console` |
| Dashboard, access | what the proxy lets through is what the session entitles to; calls go out under a valid token | `Access` |
| Older console | a refused session ends at sign-in; nothing is listed or announced twice; notes are kept; dangerous actions take two clicks; the process tree is about its focus | `WebStore`, `WebCases`, `WebActions`, `WebHunt`, `WebTables`, composed by `WebConsole` |
| Baseline | a value is reported once as new, after the learning period, within bounded memory | planned |
| Mesh | what a response records is so although several gateways, or none, may answer and the first answer wins | planned |
| Threat intelligence | a refresh is seen as a whole or not at all, and a failed feed loses nothing that was loaded | planned |
| Rate limiter | no key exceeds its burst and rate, within bounded memory | planned |

## 2. Plan

The order is that of the damage a mistake would do: first that telemetry is not
lost on its way (1-3), then that commands and the alarm about silent agents work
(4-5), then what is made of the telemetry (6, 8) and what commands do to the host
(7), then what operators see and do (9-11), then the parts with little concurrency.

| # | module | state | composes |
|---|---|---|---|
| 1 | `Spool` | done: model, run, proofs | the telemetry loop with its directory |
| 2 | `Custody` | done | abstract specification of the telemetry path |
| 3 | `Pipeline` | done: model, runs, proofs, refinement of `Custody` | agent, ingest handler, JetStream consumer, processors |
| 4 | `CommandChannel` | done: model, run, proofs of its safety | orchestrator, hub, connection handlers, agent |
| 5 | `AgentStatus` | done: model, run, proofs of its safety | every writer of the status column |
| 6 | `Correlator` | done: model, run, proofs | the engine and its caller |
| 7 | `Responder` | done: model, run, proofs | commands and the host they act on |
| 8 | `Incidents` | done: model, run, proofs | tuning gate, notifier, case folding, the API's handlers |
| 9 | `Console` | done: model, runs, proofs of its safety | `LiveList`, `Triage`, `CaseDesk`, `Fleet`, `Tuning`, `Stream`, `Hunt`, `Story`, `Figures`, over `UseData` and `DataTable` |
| 10 | `Access` | done: model, run, proofs, as a part of `Console` | sessions, proxy, service token |
| 11 | `WebConsole` | done: model, run, proofs of its safety | `WebStore`, `WebCases`, `WebActions`, `WebHunt`, `WebTables` |
| 12 | `Baseline` | left | learning period, bounded sets, refire |
| 13 | `Mesh` | left | several gateways and the reply that wins; an abstract command channel that both `CommandChannel` and `Mesh` implement |
| 14 | `MemoryBus` | left | the single-node bus; how far it implements `Custody` |
| 15 | `Intel`, `Limiter` | left | refresh beside the live maps; token buckets with a bounded map |
| 16 | operators for rule conditions, verdict order, log tails | left | pure algorithms against reference definitions |

Of the properties the runs check, every one that does not say what eventually happens
is proved (6), except the one that the code violates (8). A theorem left: that
`Incidents` implements an abstract case store where no analyst's edit overlaps, which
now is part of `CasesAsAtomic`.

## 3. The modules and the code

Every module describes its state and the correspondence in its header and at its
variables, and `PROJECT.json` maps each definition to lines. In outline:

* **`Spool`** - the directory is the sequence of files `list()` returns; a file is
  its identity, tier, length and whether it decodes. The loop's program counter
  goes through `flush_and_send` (send, enforce_limits one removal at a time, write,
  rename) and `drain_spool` (take_oldest, replay, ack). Outside it: the network, the
  disk's space and mode, bit rot, crashes, the clock.
* **`Pipeline`** - held batches; requests with what they have yet to publish;
  messages with state and delivery count; workers with the stage of
  `processStateless` they are in; row, detection and anomaly counts. `Custody` says
  who holds an event; the mapping is `Holding`.
* **`CommandChannel`** - per call of `Issue` a program counter, the response row and
  the pending entry of the hub; connections with both ends; the agent's command in
  progress.
* **`AgentStatus`** - the row (`status`, age of `last_seen`), the endpoint, and per
  server the grace of the dead-man's switch, the sweep due and the alert in hand.
* **`Correlator`** - the maps of `behavior.Engine`, entry for entry; one action,
  `Observe`, since the engine holds its mutex throughout. History variables keep
  everything it was shown, so that properties can compare its windows with the truth.
* **`Responder`** - the enforcement flags and the live policy in memory, and on the
  host the nft tables, the USB stack, `policy.json`, files and their quarantine, and
  the agent's binary. A command is a chain of steps, one for each time the code
  touches the host; each step has its failures.
* **`Incidents`** - per consumer the progress of `emit` (gate, store and alert, fold,
  write); the tuning in the database and in memory; the throttle; the cases in the
  database, the index of active ones in memory, the correlator's mutex; per analyst
  the request in progress. `ideal` is what the cases would be if every change were
  atomic.

* **`UseData`**, **`DataTable`** - the two hooks all pages are built from: reads sent,
  answered and handled in three steps with the effect they belong to; rows, text
  filter, page and ticks. Page modules take them by `INSTANCE`.
* **`LiveList`** - the events page: the list, its cursor and seen set, the three kinds
  of request that fill it, and the server's table and broadcast. Timestamps are
  numbers; the server's ORDER BY is `Ordered`, which puts each row of a set at its
  rank. Answers keep that order, so what `Fresh` leaves of one is the order of what is
  new in it.
* **`Triage`**, **`CaseDesk`**, **`Fleet`**, **`Tuning`** - the pages that write: list,
  table, drawer, question awaiting confirmation, dialog, and the requests that have
  left the browser and not yet reached the server, beside others who write there.
* **`Stream`** - components that come and go, their count, the EventSource, the timers
  that may close it, and the WebSocket behind the proxy.
* **`Hunt`**, **`Story`**, **`Figures`** - where links lead and what is offered there;
  the drawer's reconstruction of an incident; what is computed from rows on the page.
* **`Access`** - sessions, cached cookies, roles and second factor as the
  authentication library keeps them, the proxy's table of roles, and the token with
  the logins that renew it.
* **`Console`** - the union of these: one part of the dashboard per behaviour, with the
  variables of the others at `None`, since pages share no state. `Moves` names the
  parts an instance has and how many moves each may make.
* **`Lists`** - what both consoles do with lists, as functions without recursion: the
  members of a set in an order, each at the place that those before it leave it
  (`Arranged`), the items of a list at some of its places (`Pick`), its first items
  (`Prefix`), the sum of a column.
* **`WebStore`** - token, storage and cookie; reads and strays of an ended session;
  the lists; the socket. **`WebCases`**, **`WebActions`**, **`WebHunt`**,
  **`WebTables`** - the pages over that store, each with its drawer; **`WebConsole`**
  is their union, made like `Console`. **`ConsoleState`** declares what the two unions
  call by the same names, so that one module can prove about both; no state is shared.

Several modules carry *variants* of a definition, named for the mistake they make
(`OverLimitsOffByOne`, `FillIgnored`, `AddUnlocked`). Nothing refers to them: each is
what the definition would be if the code had that bug, and `PROJECT.json`
(`mutants`) names the property that TLC then finds violated.

## 4. The runs

| run | what it asks | bounds | why they are enough |
|---|---|---|---|
| `spool` | caps, shedding, causes, replay, draining under every mix of failures | 2 files, 3 bytes, lengths 1-2, one of which the server refuses | eviction needs two files of different tiers; the byte cap binds before and after the file cap; the disk and clock fail any number of times |
| `pipeline` | custody, acknowledgement, everything stored in the end | 1 batch of 2 events, 1 request at a time, 3 messages, 2 workers, 3 deliveries, 2 faults | a batch is uploaded again after a lost answer, a message is with two workers at once, and one failure fewer than the limit; an event that finds no room among the 3 messages is excused |
| `pipeline_anomaly` | violation, see 8 | 1 event | the shortest path |
| `command` | outcomes, resolution, recovery | 2 calls, 2 connections, 1 fault of 5 kinds | two calls in flight on one connection, an old handler and a new one |
| `status` | one alarm, no false ones, silence told | 2 servers, window and interval of 2 ticks, 4 faults | the sweeps of two servers race; interval = window is the boundary |
| `correlator` | exactness, soundness, volumes | 5 events, 2 counting keys of 2 kinds, 2 agents with volumes, 6 instants, 1 late event | windows, refire and gc interval are ordered as in the code (in units of about 75 s), so that each expires before the next; five events fill, prune, fire, suppress and collect |
| `responder` | honesty of flags, policy and files | 4 commands, 2 failures or restarts, 2 plug-ins, 1 table, 1 drive, 2 files of equal content, 2 binaries, 2 values of each knob | the tables and drives are independent, so one of each; four commands allow block, failed release, block again and release; two files share a copy |
| `incidents` | gate, throttle, folding | 3 detections on 2 endpoints, 2 consumers, 1 analyst, 1 editor, 1 suppression that expires, 2 edits, 1 fault, 3 instants, 2 cases | two consumers meet on one endpoint while the analyst edits its case; an edit, an expiry and a restart meet at the gate; window = throttle = 2 instants may be met and missed; a restart fails to read at most one of the tuning and the case index |
| `console` | who is acted on, what is dropped, figures | 2 rows a page, 2 reads under way (1 where a page has two lists), 3-5 moves of operators and others, by part (`Acting`) | ticking, a poll that moves the rows, and the click are three moves; a question, a change under it and its answer are as many; reads and answers are not moves |
| `follow` | lists and channel over time | 3 events, one of them stored late, 2 filters, tail and cap of 2; 2 components, 3 timers; 1-4 moves (`Following`) | the cap cuts off, the tail's limit binds, a poll races a push and an older page; one component leaves as another comes |
| `access` | rights and tokens, by the part of `Console` that is `Access` | 2 browsers, 2 calls, sessions and tokens of 2 ticks, 4 moves, 3 ticks | a role or password changes in one browser under the cookie of the other; two logins cross and the earlier is handled last |
| `web` | sign-in, lists, tree, notes, two clicks | 2 rows a page, 5 events on 2 hosts with shared pids and a cycle of parents, limit of 3, 3-5 moves by part (`Clicks`) | a 401, a new sign-in and the stray answer of the old session are three; arming, a row opened by keyboard and confirming are three; the tree meets a repeated, a reused and a dropped event |

A run checks what only it can show. Type invariants (`TypeOK` of every module) and
`OneRow` and `BoundedByActive` hold in the same instances and have no run of their
own; those of `Spool`, `Pipeline`, `AgentStatus` and `Correlator` are proved (6).

Constants are given in the `.cfg` files; functions over model values are in the
`MC` modules. Symmetry is used in `responder`, `incidents` and `access`, over values that the
specification treats alike; runs that check liveness use none. Bounds named
`Max...`, `Moves`, `Horizon` and `Faults` end a behaviour early, so the runs with
them set `CHECK_DEADLOCK FALSE`; `spool`, which has none, checks for deadlock.

## 5. Fairness

* `Spool`: weak fairness of the loop, a single task that nothing blocks for ever.
  The outside world is not fair: it settles only if it does (`Recovered`).
* `Pipeline`: weak fairness of handlers and workers; strong fairness of an upload of
  a held batch (the loop returns to it after any number of other requests) and of the
  delivery of a ready message (JetStream redelivers as long as there is a
  subscriber). Failures are not fair and limited by a budget.
* `CommandChannel`: weak fairness of each call, of each handler and of the agent's
  loops. A timer that may always fire is weakly fair. `met` remembers which faults
  a behaviour met, and whether a handler returned later than the three seconds the
  agent waits before reconnecting: the liveness properties name those they excuse.
* `AgentStatus`: weak fairness of time, the agent's uploads and reconnections, the
  orchestrator's last write, and each server's sweep, alert and restart.
* `Console`: weak fairness of timers, of the server's answers and of their handling:
  `setInterval` and a server that is up. Answers that are lost are moves and
  limited. The operator is never fair. A push may be lost without a word, so what
  must get on the page does so by the poll.
* `WebConsole`: weak fairness of the store's interval and of its reads.
* `Correlator`, `Responder`, `Incidents`, the part `access` of `Console`: safety only, no fairness.

## 6. What is proved

All proofs are checked by TLAPS for all values of the constants that satisfy the
named assumptions; these only say that bounds are natural numbers and functions
have their domains, unless noted.

Four models add numbers up: bytes in the spool, bytes sent in a window, bytes and
hits on a page of either console; and the older console's process tree goes up from
child to parent. These are recursive functions over 0..n, and what is true of them
for every n is proved by a lemma, `Induction`: a set of numbers with 0 and with the
successor of each of its members has them all, since a smallest one left out would have
a predecessor (`WFMin`, of the library, for < on the naturals).

* `SpoolProofs` - `IInv` adds to the types and the caps what store() relies on
  between its steps (`RoomMade`: the room for the batch in hand is still there,
  because the loop ends with room for it or with an empty directory: each of the at
  most `MaxFiles` iterations removed a file, or the write will fail as well), what
  makes `ack` safe (`HeldIsFirst`), and what the order of names is worth: no two files
  are of one batch (`OneFileEach`, `HeldIsNew`), and as long as the clock was not set
  back they stand in the order of storing (`NamedByAge`). From it: type correctness,
  both caps, bulk before critical, replay of the oldest first, and that batches leave
  for cause. For the byte cap, `Total` of a directory is shown to fall by a file's
  length when the file is removed and to rise by it when one is added.
* `PipelineProofs` - `IInv` follows an event through the path: what the agent
  released is in the stream, what a handler has yet to publish is the rest of a batch
  it holds, and how far a worker is says what it has stored. From it: type
  correctness, acknowledged means processed, one row, and that every step implements
  `Custody`, hence that no event is ever in nobody's hands.
* `AgentStatusProofs` - a live row has an alarm left (`LivesLeft`), by which sweeping
  servers alarm once per life; and a server that may sweep has waited a whole window
  since the last upload that failed (`GraceCovers`), by which no uploading agent is
  judged dead. The latter assumes that every server runs the ingest role and that
  the interval is within the window.
* `CorrelatorProofs` - what was observed and can still count is in its window, the
  last firing is remembered as long as it suppresses, and what was left at the last
  collection was of use then (`KeepsWhatCounts`, `RemembersFirings`, `Swept`); no two
  transfers of an agent are one, and while events come in order a volume window holds
  no more bytes than were sent since its start (`SentIsNumbered`, `VolumeIsSent`). From
  it: type correctness, that rules fire exactly when they should, that detections count
  real arrivals in whatever order, that a volume detection rests on enough bytes sent
  within its window, and that memory is bounded by activity.

* `CommandChannelProofs` - a command is in flight at most once, and only between
  being written and being executed (`InFlight`); a call under way has its response row,
  and one that has not written has no answer and nothing executed (`Waiting`); and
  results, good or bad, on their way, in a channel or returned, are those of the
  commands they name, which ran (`News`). From it: type correctness and
  `OutcomesHonest`.
* `ResponderProofs` - a part of the invariant for each thing commands work on, saying
  what holds between its steps: flag and table differ only for the net in hand
  (`NetsInv`), a bound drive has its driver and the look at the driver outlasts
  everything but a plug (`UsbInv`), memory and disk part only from a push to its save
  (`PolicyInv`), a file is in place until its copy is whole (`FilesInv`). A command of
  one kind leaves the other parts alone, which `Kinds` and the frame lemmas say once.
  Type correctness is proved beside it, from parts of its own: what a command has in
  hand is of the kind its step works on.
* `IncidentsProofs` - eight parts. `Locked`: who is between read and write holds the
  correlator's mutex, so there is one. `CacheFollows`: between the two steps of an edit
  the database is ahead of the cache by what its one editor is about to write, which
  is why an item that two edit at once has to be excused. `Spaced`: what the throttle
  no longer remembers is a throttle old, so that gc never lets an early alert through.
  `Current`: a copy of a case that nobody marked old is the case, and what a consumer
  is about to write is that case with its detection. `Once`: a detection is in the
  queue, with one consumer, or in cases, and only the copy about to be written has it
  early; without this, folding would not be adding. `Lines`: the index knows the last
  case of every agent that is not excused, after a restart by the time it was touched.
  From them, with the types and `Shape`: `TypeOK`, `GateFollowsStore`, `AlertsSpaced`
  and `CasesAsAtomic`, for any number of consumers, analysts, editors and cases.
* `ConsoleProofs` - since a behaviour stays with its part (`StepOfPart`), the invariant
  is one for each part, and a property one for each part it speaks of:
  - *events*: every row listed is marked as seen and none is there twice (`Listed`),
    what is under way is an answer to its own question (`Asking`), and the table is
    finite (`Stored`). What a query returns rests on `OrderedIs`: in a finite set the
    ranks are an injection into 0..n-1, hence onto, so `Ordered` is a sequence of
    exactly those rows without repetition. From it: `RowsOnceAndMatching`.
  - *detections, endpoints, rules*: the keys held by the table are those of the ticks
    (`TicksKept`), whatever moves underneath: `BulkHitsTicked`. Reads and the
    confirmation answer to the status and the row they were asked for
    (`AnswersToStatus`, `FailedPlain`, `ReadSinceTold`).
  - *cases, hunt, story*: a load is of the selection, a pending confirmation is one that
    was offered for what it names (`AnswersOfHost`, `AsksForFinding`). With the former:
    `DropsStale` and `ContainmentHasCause`.
  - *channel*: the count is that of the components in use (`Counted`), so a timer tears
    the channel down exactly when nobody is left to use it: `OneChannel`.
  - *access*: two halves. What a cookie says is so, or was when the session or the
    role ended (`CookieTold`), and a token was minted no longer ago than a login takes
    when it is kept (`TokenYoung`): `CallsEntitled`. It assumes that a token is kept for
    less than the server accepts it by at least that time: 11 of 12 hours.
  - *figures*: the invariant is the types and `Rested`, the rest holds of any rows.
    `SumByClass`: numbers summed up class by class, each number in one of m classes,
    are summed up. Rows fall into points of the curve by division (`PointsFit`: all of
    them, into no more points than there is room for), and outward connections into
    peers by the first row of the same name (`HeadOf`, `HeadsDiffer`). What ranks above
    a graver detection ranks above a lesser one, so what is left out is no graver; the
    strip reaches from the first stage observed to the last. Together: `FiguresAgree`.
    Assumed: bytes are natural numbers, and the table of techniques names stages.

  The same module proves the safety of the older console, again part by part
  (`StepOfWebPart`, `WebInv`), from `WebSpec`:
  - *lists in order*: an order in which of any two members one is before the other puts
    a different number of members before each, so `Arranged` has every member once and
    each before those it is before (`ArrangedIs`, an injection of a finite set into as
    many places). `PickIs` and `PrefixIs` follow: what is filtered out of a list is
    exactly the rows that pass, in their order.
  - *store*: no answer on its way and no list on the page has a row twice
    (`AnswersListed`), and a detection that was announced is remembered as long as the
    store. What is put in front was taken out first (`ToFrontIs`).
  - *tables*: the same of every list that is patched; `Above` is an order although the
    unknown sink in either direction (`AboveOrders`), so the table has the rows asked
    for, in order (`TableShows`). The destinations are the kinds of the rows, each
    once, the most bytes first (`TopIs`), and by `SumByClass` their counts and bytes
    add up to the list's (`TopAddsUp`). With the store: `ListedOnce`.
  - *tree*: there is a focus only while the drawer is about an event, and both are of a
    process. Whatever stands for a process is held, the drawer's or the focus, and of
    its host (`StandsFor`). Going up keeps a chain from child to parent that has each
    process once and ends in the focus (`ChainExtends`), by `Induction` for any number
    of steps (`AncestryIs`), also where pids form a cycle. A chain has no more nodes
    than there are pids (`ChainBounded`), so within as many steps the walk stops by
    itself, with nothing left to add: `TreeAboutFocus`.
  - *notes*: a note under way is still in its field, and there is none without a drawer
    (`NoteInField`): `NoteKept`.
  - *buttons*: one that is armed has the timer that will disarm it: `SecondClick`.

  Assumed of the older console: rows and events are natural numbers, by which lists are
  ordered, there are finitely many, and limits are not zero.

  Proved for any number of rows, filters, rules, hosts, components, browsers, requests
  under way and moves.

The arguments are laid out alike: a lemma for the initial states, one for the steps
with a case for each action, a theorem `Invariance`, and corollaries from it.

## 7. What is only model-checked

* Liveness and fairness, everywhere.
* `OneRow` is proved of `Pipeline` in the course of its invariant; the properties of
  behaviours in `PROJECT.json` that say what eventually happens are TLC's alone.

Every inductive invariant was given to TLC on the instances of the runs before it was
proved; it is not among their properties, since it is stronger than what they ask.

## 8. Where code and text part ways

One disagreement is demonstrated by a run that TLC finds violated:

* **A lost anomaly is acknowledged** (`pipeline_anomaly`). The baseline engine notes a
  value before the detection is stored. When storing fails, the message is delivered
  again, the value is no longer new, and the message is acknowledged without its
  detection, although `docs/THREAT_MODEL.md:17` says that messages are acknowledged
  only after successful processing.

Others were met while modelling. The models contain the behaviour, and where a
property would be disturbed by it, the property says so:

* *Spool.* Under the free-space floor the whole backlog is evicted and the new batch
  written all the same (`spool.rs:116`). A batch the server refuses for its size stays
  first and blocks the replay (`main.rs:271`). A `.tmp` left by a crash is never
  removed. A clock set back puts a batch before older ones.
* *Telemetry path.* After `MaxDeliver` attempts a message is left in the stream
  (`nats.go:63`). A redelivered event raises its detection, alert and automatic
  response again under new ids (`pipeline.go:285`).
* *Command channel.* The agent answers pings and sends nothing unasked: when its peer
  disappears without a word it waits for ever (`transport.rs:128`), although
  `transport.rs:90` says it reconnects forever; only the server notices. A response
  whose last write fails, or whose server dies, stays pending (`respond.go:75`).
* *Status.* A live agent is shown offline until it opens a new command channel
  (`postgres.go:156`); killed in that state it raises no alarm, although
  `pipeline.go:182` says that the silence itself is the alarm. An accepted collection
  interval may exceed the liveness window (`respond.rs:341`). With split roles the
  grace of a sweeping server says nothing about the ingest tier.
* *Correlator.* `fired` is set before the detection is stored: after a failed store the
  event is delivered again, is counted twice and fires nothing for five minutes
  (`pipeline.go:90`). The exfiltration window tumbles although the type is said to hold
  sliding windows (`behavior.go:3`, `:86`): traffic across its edge may stay below the
  limit on both sides. An event stamped ahead of its time makes `gc` evict the live
  windows of other agents, and then rest (`behavior.go:134`). "N within 90 s" may count
  entries from the future of the event in hand.
* *Responder.* `unisolate` and `unblock_upload` take a failed attempt to run `nft` for a
  table that is gone and answer Ok (`respond.rs:499`). A restarted agent has forgotten
  the blocks that are still loaded. A `block_usb` that fails leaves the flag of an earlier
  one set although a drive is bound; one that succeeds without its override lets a
  drive bind that is plugged in later. A driver built into the kernel is never in
  `/proc/modules`, so it counts as gone (`respond.rs:847`). A push that is refused
  halfway has already changed the live policy (`respond.rs:341`). `policy.json` is
  truncated before it is written, so that a kill in between also loses the policies
  pushed before. Quarantining a second file of equal content rewrites the copy of the
  first and the path recorded for it. The events of a batch are labelled with the flags
  at the time of the flush (`main.rs:285`).
* *Tuning.* Overlapping edits of one item may leave the cache different from the
  database until the next start. With split roles only the API's process learns of an
  edit. When suppressions cannot be read at start they are taken for none.
* *Notifier.* The throttle is charged before delivery: a sink that fails silences its key
  for five minutes (`notify.go:166`). A restart forgets the throttle.
* *Cases.* `updateCase` and `addCaseNote` read a case, then the request, then write the
  whole row (`api.go:658`, `:698`): what was folded in or noted in between is lost, and a
  closed case may be reopened. `Seed` looks at open cases only, though cases under
  investigation absorb detections before a restart, and by the time they were last
  touched, so that an analyst's edit of an older case redirects the incident
  (`cases.go:45`).

In the dashboard (paths below `dashboard/`):

* *Live list* (`lib/use-data.ts`). A row pushed before the first page is marked as seen
  and then overwritten by the page, so it is never shown. A push raises the cursor of
  the poll past one that was missed, although the poll is the "safety net" (`:24`,
  `:109`). A page of older rows asked for under an earlier filter is appended to the
  new list. After a first page that failed or was empty the tail does not poll, whatever
  `events/page.tsx:61` says. More than a page of new rows between two polls is skipped.
* *Push channel.* An EventSource gives up after any answer but 200, though
  `lib/use-stream.ts:26` says it retries automatically; the lamp is lit before there is
  a WebSocket to the server.
* *Detections.* A triage that is answered late is shown under the detection opened
  meanwhile by a link (`components/ai-triage.tsx:19`). A drawer whose detection leaves
  the filtered list is not kept fresh (`page.tsx:59`).
* *Cases.* A load that failed is not tried again until the list changes; an answer to a
  POST overwrites the drawer, also with another case's; a draft note goes along into
  another case's drawer, and a note's answer wipes what was typed since.
* *Endpoints, policy, responses.* Bulk isolation, its lifting and a retry ask nothing,
  though `components/confirm-dialog.tsx` is meant for destructive actions. The drawer is
  a snapshot. The policy panel starts from defaults and pushes every field. A failed
  response keeps offering its retry.
* *Rules.* A network error in the dialog leaves it busy, and in a bulk toggle it neither
  clears the ticks nor reloads; the dialog offers a field the server refuses.
* *Access.* Revoked sessions are honoured as long as a cookie caches them. A server
  restarted with a new secret leaves the kept token unusable for up to eleven hours
  (`lib/go.ts:21`). The form for a new password
  asks for 8 characters (`settings/page.tsx:284`), the library for 12
  (`lib/auth.ts:14`).
* *Story, figures, announcements.* A story shows the events of the host before until the
  new ones come, under "scoped to this host" (`components/attack-story.tsx:122`). The
  upload curve of a single connection is flat at zero (`internet/page.tsx:45`). A number
  that counts up may stop in between (`components/metric.tsx:8`). The overview's
  loudest detections are those of the newest forty.

In the older console (paths below `web/src/`):

* An event that is in the first read and is pushed is listed twice (`store.tsx:75`).
  Events and responses are read once, and nothing is read again when the WebSocket comes
  back. The answer of a read overwrites a newer push. A late 401 or sign-out of an
  earlier session ends a new one.
* Rows under an open drawer can be reached by keyboard. Then an armed button stays
  armed for the new target (`components.tsx:32`), a case's drawer keeps note and busy,
  and the process tree keeps its focus, even one on another host (`ProcessTree.tsx:37`,
  while `:39` speaks of "the same host"). A triage or a status answered late goes into
  whichever drawer is open (`pages/Detections.tsx:27`, `:69`).
* A failed load is swallowed, yet "case updated" is shown. Lifting an isolation asks for
  no second click. Cyclic parents are drawn twice, and pids are reused across processes.

## 9. What is not modelled, and why

* Commands that leave nothing in the agent (`kill_process`, `kill_tree`, `freeze`,
  `disable_account`, `live_triage`) and the audit log: each is one call to the host.
* Matching and scanning of text - rules, indicators, DLP on both sides: pure functions
  of one event. Of these the condition parser and the order of verdicts are planned.
* Passwords, certificates, encryption and compression: libraries. Sessions and tokens
  are modelled as `Access` and `WebStore` see them.
* Collectors, kernel programs, DNS sniffing, user warnings: they read the host, and the
  state they keep is what they have already reported.
* What the consoles merely draw: charts, the vendored UI kit, the shell, read-only lists
  on the settings pages, spoken announcements, toasts but those of new detections.
* SIEM export and AI triage on the server: formatting, and calls to outside services.
* Several gateways (`mesh`), the single-node bus, the baseline engine, the refresh of
  indicators and the rate limiter have state worth modelling and are in the plan (2).

`PROJECT.json` lists every component with what of it is modelled.

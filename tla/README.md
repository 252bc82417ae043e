# A verification project for agent-conn

TLA+ models of agent-conn (AgentComm), the TLC runs that check them on small
instances, and TLAPS proofs about them for every instance. Paths below are
relative to the repository; `AC/` stands for `packages/agent-comm/src/`.

## 1. The system

AgentComm lets agent runtimes (Claude Code, Codex, processes) exchange messages
over *channels*. Every channel has one *home* that orders its messages: a SQLite
hub file on the same machine (local home) or an HTTP relay. Every agent has a
*profile*, a directory with an identity, key files and a SQLite store, which
several processes (session, daemon, CLI) open at once. On top of the messages
*applications* keep a state per conversation, and a daemon hands what needs a
decision to a *harness*.

| component | state it keeps | operations |
|---|---|---|
| local home `AC/engine/local-home.ts`, `AC/store/hub-repos.ts` | hub file: channels (mode), members with their cards, messages by seq with status held/delivered/dropped, acknowledged cursors, invites | create, join, leave, mint invite, publish card, append, pullAfter, ackCursor, listHeld, resolveHeld, setMode; one SQLite transaction each |
| relay `packages/relay/src/store.ts`, with `app.ts`, `auth.ts` | the same tables in the relay's database, and `head_seq` per channel | create, both join doors, invites, append (paused, icebreak and duplicate tests) over the channel route and the A2A gateway, pull, ack, retention after every write, clean-up at start |
| engine `AC/engine/engine.ts`, `AC/store/store-repos.ts` | profile store: sync cursor per channel, mirror of sent and pulled messages, inbox with consumed marks, mirror of memberships and cards, key files | send, syncOnce, readInbox, ack, deliverHeld/dropHeld/editHeld, setChannelMode, createChannel, joinChannel, connect, createInvite, leaveChannel, listPeers, publishCard; every SQL statement commits on its own and calls await in between |
| application runtime `packages/client-sdk/src/runtime.ts`, `AC/store/application-repos.ts` | profile store: what became of every event, state per context, effect journal, runtime instances | process, resume, executePendingEffects, start-up recovery |
| applications `applications/*/src/index.ts` | the state they make of a conversation | reduce, resume |
| registry and negotiation `packages/application-spec`, `packages/client-sdk/src/index.ts` | per process: registered consumers | resolve, supportedExtensions, negotiate |
| catalog `packages/application-catalog` | `catalog.json` and package directories | install, update, remove, enable, disable, load |
| channel bridge `AC/mcp/channel.ts`, `AC/runtime/ingress-runtime.ts`, `AC/a2a/` | per process: active channels, pending and announced events, announced holds; profile store: task authorizations | the pump (inbox to application runtime to ingress), the agent_comm tool (reply, complete, respond, approvals, publish, activate), outcomes |
| ingress adapters `packages/runtime-ingress`, `ingress-*`, `harness-*` | in memory: the polling queue with leases, running processes, threads and turns of an app server | deliver, poll, ack, nack, outcome |
| supervisor and daemon `packages/runtime-supervisor`, `AC/runtime/daemon.ts` | `runtimes.json`, and per daemon a map of running runtimes | register, remove, start, stop, heartbeat |
| without protocol state | | core types and wire schemas, cryptography, pages of the relay, service files, argument parsing, benchmark |

How they interact: the engine calls its home (in process or over HTTP) and
writes the answers into the profile store; the bridge's pump reads the inbox,
hands application events to the application runtime, executes its effects
through the engine, and offers the rest to the ingress; the harness answers
through the bridge, which calls the engine again. No component calls back into
the home. Processes of one profile meet only in the SQLite files, processes of
one installation also in `catalog.json` and `runtimes.json`.

### What is hard about it, and what makes each part correct

* **Delivery.** Cursors that move past messages; a human gate in the middle of
  the log; processes that sync one profile; statements that commit one by one;
  retries. Correct means: nothing skipped, nothing shown before its release,
  one order for everybody, and every released message arrives.
* **Relay.** Lost answers, retention that deletes rows others still need, a
  limit for members nobody has answered, joins that compete. Correct means:
  redelivery and rejoining are harmless, nothing unread is deleted early, and
  no door leads around the limit.
* **Membership.** The home decides, the profile mirrors, and in between the answer may
  be lost or another process of the profile may join, leave or invite. Correct means: a
  profile sends under an alias that is its own, only who leaves is forgotten, a
  sealed channel's key is at hand.
* **Application runtime and applications.** Read, await, commit, with calls that
  overlap, and effects whose outcome a crash leaves unknown. Correct means: one
  decision per input, state and journal in one transaction, no blind retry,
  both ends of a conversation see one ending.
* **Interoperation.** Cards are mirrored, belong to a membership and not to the
  session that published them, go with a leave, and are read before an await; the
  mirror keeps the rows of members that left. Correct means: what the gate lets
  through on a card is taken by whoever published that card, and goes to the node
  whose card was read.
* **Bridge and harnesses.** Snapshots used across awaits, tool calls that meet
  on one event, an inbox ACK given to an in-memory queue, turns answered twice.
  Correct means: requests are answered before they are acknowledged, parked work
  stays, outcomes belong to their events, refused events come back.
* **Installation.** Two files that several processes read, change and rewrite.
  Correct means: a registration stays, a status is the truth, and no version of
  an application is activated but by an operator.

`PROJECT.json` lists every hazard at its line with the properties that cover it,
and every component with what is and is not modelled of it.

## 2. The modules

| module | models |
|---|---|
| `LocalHomeLog` | the log of one channel at a local home: append, pull, ack, gate, mode; each operation is one transaction and one step |
| `LocalDelivery` | the engines of all nodes on that log, composed with it; an `async` call is a *job* whose steps are the statements between which another process may run |
| `OrderedMailbox` | what a channel promises, with no engine, cursor or store; `LocalDelivery` implements it (`MailboxPromise`) |
| `RelayHome` | a channel at a relay together with its engines: lost answers, retention, restarts, both join doors, departures and returns, the A2A gateway |
| `Membership` | channels of one name at a hub file and at relays, with invites, key files and the profiles' mirrors |
| `AppRuntime` | the application runtime over its store: calls that overlap, crashes, effects |
| `Collaboration` | both reference applications, each participant with a runtime of its own |
| `Extensions` | versions, supports, negotiation and the choice of a consumer, as operators |
| `Interop` | cards: published, mirrored, tested before a send, and what becomes of the event; composes `Extensions` |
| `ChannelPump` | the bridge of one process: the pump from the inbox to the ingress, the polling queue, the harness's answers, crashes |
| `TaskDecisions` | what a person and a harness decide: task authorizations, updates to the requester, held messages |
| `HarnessTurns` | the Codex app server behind the dispatcher, with runs of a command to fall back on |
| `ApplicationCatalog` | the installed versions of an application and their channels |
| `RuntimeHost` | registry file, daemons and command lines; composes `ApplicationCatalog` |
| `AppRuntimeSafety`, `ChannelPumpSafety`, `InteropSafety`, `LocalDeliverySafety`, `MembershipSafety`, `RelayHomeSafety` | theorems and proofs about the module of that name |
| `TaskSafety` | theorems and proofs about `TaskDecisions` and `Collaboration` |
| `HostSafety` | theorems and proofs about `ApplicationCatalog`, `RuntimeHost` and `HarnessTurns` |
| `MC*` | instances for TLC |

A constant or an assumption is named in the module that declares it. Modules proved
about together share no name, hence `TurnsSpec` in `HarnessTurns` and
`CollaborationSpec` in `Collaboration`. Variables
marked `history` in their declaration are read by no action; properties use them
to name exactly the situations in which the code does not keep a promise.

### LocalHomeLog and LocalDelivery

`log` is the table `hub_messages` in seq order: the local home never deletes a
row and takes `MAX(seq) + 1` in the inserting transaction, so the seq is the
position. `mode` and `acked` are `hub_channels.mode` and `hub_cursors`. A
profile store is `cursor[n]` (`sync_state`), `mirror[n]` (`messages`) and
`inbox[n]` with SQLite's rowids, which eviction orders by. `job[t]` is what task
`t` is in the middle of: `syncOnce` is `SyncBegin` (read the cursor), `SyncPull`,
then per message in order `SyncOwn`, `SyncSkip`, `SyncExpire` or
`SyncTake`-`SyncMirror`-`SyncInbox`, then `SyncAck` and `SyncAdvance`; `send` is
`SendAppend`-`SendMirror`; the gate is `GateResolve`-`GateMirror`. `Crash` ends a
job anywhere and leaves what was committed. `arrived` and `expired` record what
was ever put in an inbox or expired there; no action reads them.

`replyBy` is abstracted to a set of messages that may have expired by the time
they are pulled. One channel is modelled: cursors, modes and logs are per
channel, and the inbox cap, which counts across channels, is exercised by a cap
of one row.

### RelayHome

The relay's SQLite calls are synchronous, so each request is one step: the
handler's membership test, the store's operation, the clean-up that follows a
write. Two things differ from the local home and shape the module: seqs come
from `head_seq` and rows are deleted, so `rows` is a set; and the caller may never
see the answer. What an engine does between two requests touches only its own
store and is part of the step of the answer (`Answer`: recorded, or lost against
the bound on faults). `PostA2A` is the gateway, whose clients keep no mirror and
may send a message again at any time. `SyncAbort` is a process that dies, or a
relay that cannot be reached, between pull and ack. `LeaveChannel` forgets the
channel at the node only, since a relay is not told; the cursor goes with the
channel's row, the mirrored messages stay. Time in retention is left open: any
prefix of the log may be older than the soft or the hard limit, and what is older
stays older (`expired`). `cut` notes the nodes whose pull was cut off by the limit.

### Membership

`channel`, `member` and `uses` are the homes' tables, `row` and `keyFile` the
profile's. Nothing keeps the processes of one profile apart, so `op` is per process
(`NodeOf` is the profile it has open) and holds what the operation read or was answered
across its awaits, where every other process goes on. A join or a creation is the home's
step (`CreateChannel`, `JoinByInvite`, `JoinOpen`), the key file (`SaveKey`) and the row
(`RecordMembership`); an invite is the row and the mint (`CreateInvite`), then the key file
as it is by then (`LinkInvite`); a leave is the row (`LeaveChannel`), the home
(`LeaveAtHome`, by the alias that was read) and the row again (`ForgetChannel`). `CutOff` ends
any of them in between, by a crash or a lost answer. Ids matter: the first channel of a name
takes the name as its id at every home, and rows and key files are kept by id alone. A key is
written as the home whose channel it opens.

`astray` notes that one of these has happened, after which a mirror may name an alias that is
not its own, or a leave may take the membership of somebody else:

* a hub file answered a join under an alias the node did not get (it was a member already);
* a leave was cut off after the hub file had deleted the member;
* a leave at a hub file crossed another operation of the same profile on that channel: it
  deleted while a join or creation was answered and not recorded, or while another leave had
  read the same row, or it began while another was about to forget the row. The second of two
  leaves deletes by alias, whoever has the alias by then.

`rekeyed` notes that a profile had two keys of one id in use at a time: a key was saved while
another process was about to use a different one, an invite was begun while a process was keyed
for another home, or a process died between key file and row. The link then carries a key
that does not open its channel, for `createInvite` reads the file after the mint
(`engine.ts:499-510`).

### AppRuntime and Collaboration

In `AppRuntime` the consumer is application code, so a reduction may answer any
task state and any effects, or throw. The state is abstracted to the set of
inputs it was computed from (`reflects`): a lost update is then an input that was
reduced and is missing. An outcome is an input of its own, `<<e, "outcome">>`, as
the code's `messageId:harness-outcome` is. The two waiting task states behave as
`active` does and the three other terminal ones as `completed`.
`executePendingEffects` is a call that may start at any time. Only `publish` is
executed; `complete` does nothing, the other kinds wait for the harness.
`overlapped` notes that some call has begun while another one was in flight,
`shared` that a runtime was started while another process had one.

Two processes of one profile (a session and the CLI, say) may well have a runtime each,
and then an effect whose outcome is unknown can be executed again:

1. Process A calls `executePendingEffects`, which lists the effects `x` and `y`
   (`runtime.ts:409`), and awaits the execution of `x`.
2. Process B starts a runtime. Its start takes the `x` of the living A for interrupted and
   marks it `needs-reconciliation` (`runtime.ts:194`).
3. B executes `y`, which is still pending, and crashes before its outcome is known.
4. A third runtime starts and marks `y` `needs-reconciliation`, as it should.
5. A is done with `x` and comes to `y` in its list. `markEffect` updates by `effect_id`
   alone (`application-repos.ts:213`), so `y` is executing again.

`DECISIONS.md:242` and `DESIGN.md:349` say that an effect whose outcome is unknown waits
for reconciliation and is not blindly repeated. `NoBlindRetry` is therefore
stated, checked and proved up to the moment two processes have a runtime at once.

`Collaboration` takes the runtime as given and models what the reducers of
`manager-workers` and `request-response` do with it: one action per event type and
per outcome, effects published in the journal's order (`Publish`) or lost for good
(`PublishFails`). `task.suspended` stands for the three event types that only set a
task's status; `team.started` and `worker.registered` change nothing another
event reads and are left out.

### Extensions and Interop

A version is a major number, a rank that orders what the code compares below it,
and build metadata, which the order ignores and string equality does not.
`Candidates`, `Negotiated`, `Agreed`, `Supports`, `Takers` and `Resolved` are
`negotiateApplicationExtension`, `requireApplicationSupport` and the registry's
`resolve`. Of several candidates that differ in the build the first is agreed on, in the order
of the two lists (`place`), since the sort is stable.

`Interop` puts them to work. `member` is the home's table with its cards, `own` and `mirror`
the profile's `channels` and `peers`, `call` what each process of a profile is waiting for:
`PublishCard`-`CardAnswered`-`Activate`, `List`-`Gate`-`Send`, `Join`-`Joined`,
`Leave`-`Leaves`-`Left`. A hub file drops the row of a member that leaves and finds a row by
its alias, a relay is not told and finds it by the node; no profile ever deletes a row of its
`peers`. Servers of the MCP tools leave channels and publish cards made by hand
(`PublishByHand`); both kinds of process join. A card is written as the session that published
it, whose registry says what is on it. `Addressee` and `Picked` are the two ways in which the
publish tool and an effect find whom they mean. `Process` is `ApplicationRuntime.process`: no
consumer, a consumer, or, once its conversation has ended, acknowledged and ignored; a
conversation is abstracted to the channel and the URI, and may or may not have ended with any of
its events.

`overtaken` notes `<<s, c>>` once the row of `s` in `c` has another card, is given up by a leave, or is
not what `s` published its card into. `loose` notes an alias that a member gave up, or that a
node recorded as its own while it has another one at the home.

### ChannelPump

One process, one active channel, one ingress. Events are numbered by their seq in
the channel, which is the order `listJoined` reads them in. What an event is
(`kind`) and which adapter serves the process are chosen at the start from
`Settings`; a kind stands for all events the pump treats alike, `work` also for
input requests and for application events whose reducer failed. `inbox` and
`consumed` are the unread and the acknowledged rows, `recorded` the application
events on record; they survive a crash, `pending` (`pendingEvents`), `announced`
(`announcedEvents`), the polling `queue` and the calls in progress do not.

`pump` is where `pushInbox` is: it holds the snapshot (`rest`) and stops at the two
awaits that matter, after `process` (`processed`) and in `deliver` (`offering`). The
harness may start to answer before `deliver` returns, so an event counts as
offered when `deliver` begins. An answer (`reply`, `respond`, `complete`,
`request_input`) is `AnswerBegin` (look the id up), `AnswerSend` or `AnswerFail`,
`AnswerAck`, `AnswerFinish`; where it sends twice, `AnswerSend` is the point after
both. A process adapter answers through its outcome while `deliver` waits, and the
answer is always a `reply`. Every event may be evicted from the inbox by later
ones, as `Arrive` does with the oldest unread row once no read one is left.

### TaskDecisions

The same bridge, seen by those who decide. `call` holds the tool calls in
progress: `complete`, `request_input` and `request_task_authorization` begin with
a registered event, send their update, and then change inbox, records and maps in
steps of their own; a rejected authorization sends its rejection only while the
event is registered. `pump` has its own snapshot, so that work answered meanwhile
is registered again. Held messages are shown after the inbox in each round, and a
refused notification drops the rest of the round. `late` and `disturbed` record
that a requester heard more after the end, and on which events calls met, a
fault struck or a stale snapshot was used.

### HarnessTurns

`offer` is the delivery the dispatcher awaits; `turn`, `stdout` and `known` belong to
the child process, which may die at any time, and the rest to the adapter:
`cached` (`#threadByChannel`), `byThread`, `byTurn`, `handling` (completed turns
whose outcome handler is awaited). A delivery asks for a thread (`ThreadAsked`) and then for
its turn (`TurnAsked`); the child may refuse either, and a refusal is deferred. Lines of
the child are read one by one (`ReadReply`, `ReadStale`, `ReadRequest`, `ReadCompleted`).
Where the child names its turns the adapter finds an event by turn, otherwise by thread.
`RunEnds` is one run of a command, with the exit codes each adapter tells apart.

`child` is what this process knows of it. A child that died is `dead` until `ExitSeen`, which
rejects the request that waits, so that an answer still to be read is `stale` and finds no
request; then it is `exited`, and only `startThread` starts another. A spawn that fails rejects
what waits then but leaves `#started` set (`harness-codex/src/index.ts:114-118`): the child is `stuck`,
later requests are never settled, and the pump waits for ever. Three failures have no
handler and end this process (`ProcessEnds`, `offer = Crashed`): a request of the child that is
answered after its exit, a write to the pipe of a child that is `dead`, and an outcome handler that
throws (`HandlerFails`: the event is not pending any more or the home is down) in the promise
that line 244 does not wait for.

### ApplicationCatalog and RuntimeHost

A command that reads, changes and rewrites `catalog.json` without an await is one
step. `install` and `update` fetch, replace the package directory, write the record
and, for `update`, hand on the bindings read at the beginning; `remove` deletes
directories before it rewrites the file. Another process that writes in the middle of a
single rewrite is left out there, since the await of a download is the wider
window; for `runtimes.json`, which every heartbeat rewrites, it is modelled: a change
is two steps (`Read`, `Write`) with other processes in between. A daemon starts the
trusted registrations one after the other, with an adapter its machine has and the
consumers the catalog binds (`Loaded`), beats, and closes them on SIGTERM. A binding is a
channel or `AnyChannel`, the `*` of the command line. Of the versions enabled for any channel
of a runtime only the latest is loaded, with its own bindings (`EnabledFor`, `Loaded`): with version 1
on one channel and version 2 on another, a runtime on both leaves the first without a
consumer (`Eclipsed`). History:
`crossed` (catalog commands ran side by side), `torn` (one died with a directory
gone), `raced` (two processes wrote the registry at once), `doubled` (two daemons).

## 3. The runs

| run | question | bounds |
|---|---|---|
| `delivery` | safety of delivery with two concurrent syncs of one profile, a sender, a gate, mode changes and a crash | 2 nodes, 2 messages, inbox cap 1, 1 crash |
| `delivery_live` | does every released message arrive, and do engines and hub implement the mailbox | 2 messages in both directions, 2 clients, pull limit 1 |
| `delivery_crash` | finding: a crash between mirror and inbox insert | 1 message |
| `relay` | icebreak, redelivery, skipping and retention with lost answers, dead syncs, departures, returns, the gateway and restarts | 2 nodes, 3 messages (one over the gateway), all modes, a public channel, 1 invite with 1 use, limit 1 before a reply, pull limit 2, head_seq to 3, 2 faults |
| `membership` | do profiles and homes agree who a member is, who may leave, and which key opens what, whatever the processes of a profile do at once | 2 nodes, one with 2 processes, 2 aliases, a hub and 2 relays, 2 ids, 1 invite with 1 use, 2 channels, 5 operations begun |
| `app_runtime` | the runtime with calls that overlap or do not, a crash and a restart | 2 processes with 2 calls each, 3 events (one unsupported) of one context, 1 effect each, 2 starts |
| `collaboration` | do the ends of a conversation see one ending, truthfully, and does whoever asked learn it | a manager, 2 workers (one automatic), 1 team and 1 request conversation, 2 tasks, 2 asks, 1 notice |
| `interop` | is what the gate lets through taken, are cards what they seem, is the checked peer addressed | 2 nodes (one joins late), 3 sessions with different registries and a tool server, 1 channel at a hub or a relay, 5 intents, 2 messages, 2 joins, leaves or cards made by hand, 1 fault |
| `pump` | does the bridge answer before it acknowledges, lose nothing, keep the order and drain the inbox | 3 events in 7 mixes of kinds and adapters, caps 2, queue 1, 1 crash |
| `decisions` | does parked work stay and come back, is the end the last word, are held messages shown | 1 event, 2 calls, 2 authorizations, 1 held message, 1 fault |
| `harness` | do outcomes fit, do accepted events get them, is every event taken | 2 channels, 3 events, 1 death, 1 refusal, 1 request of the child, failing spawns, pipes and handlers, with and without named turns and a fallback |
| `runtime_host` | registrations, statuses and bindings with commands, daemons and crashes | 2 versions, 2 channels and `*`, 2 command lines, 2 daemons, 1 registration, 4 commands (2 once both daemons exist) |

Why the bounds are enough to be interesting:

* One crash or fault reaches every point between two steps of every operation; two
  faults in `relay` give a lost answer followed by a departure.
* Two syncers of one profile reach every interleaving of the two cursors; two
  calls, two sessions, two command lines or two daemons every one of theirs.
* Two messages give order, duplicates and a gap in the log; a pull limit of one with
  two messages, or of two with three, gives the cut batch; a limit of one before a
  reply gives both sides of the limit.
* Three homes and two ids give channels of one id at two relays, which is where key
  files meet; one use of an invite gives the last use two nodes compete for. Five operations
  are a creation, an invite, a join and two leaves; two processes of one
  profile reach every crossing of two of its operations.
* Two starts give an interrupted effect and its recovery; two asks give a task asked
  for twice, by one worker or by two.
* In `interop` the sessions of one profile differ in what they take: one is older, one
  newer but bound to a channel; the name on one node's card is the other's alias. Two
  operations are a leave and a rejoin under the other alias, or a leave whose alias the other
  node takes.
* In `pump` three events against a cap of two evict a row and a pending event, two
  events against a queue of one fill it.
* In `harness` two events of one channel overlap in its thread while the other
  channel goes on.

In `delivery` the crash is kept from the one point where `delivery_crash` shows the
code to fail (`CrashBeforeInbox = FALSE`). In `pump` an artifact update under a process
adapter is left out, because there its outcome can never be sent (`reply` refuses
it, `AC/a2a/channel-adapter.ts:338`). Five runs cut
combinations of rare cases with a state constraint: in `delivery` neither a pause nor an
expired message is followed after a crash, in `relay` what follows two faults is
followed for two messages, in `interop` two processes at
most wait at once, one call fails or one process ends, and what follows that or the second
operation is followed for one event, in
`app_runtime` the unsupported event in the first runtime only, and two processes at once as
long as each makes one call at a time and no harness reports, and in `runtime_host` two
daemons together for half of the commands.

**Deadlock** is not checked: every one of these systems may stop, with all messages
posted, all commands given, no fault left and nothing to do.

**Fairness**, in the five runs with liveness properties:

* `delivery_live`: weak fairness of each syncer's steps, because the pump re-arms its
  timer after every round (`AC/mcp/channel.ts`) and a started call runs to its end, and
  of the second half of `send` and of the gate calls. Nothing is assumed of senders,
  the human or mode changes: a message behind a held one need not arrive, and the
  property says so.
* `pump`: weak fairness of the pump, of the harness's reading of its queue and of the
  steps of a started answer. Strong fairness of an offer being shown, accepted and
  answered says that an ingress, a harness or a home that is tried again and again
  does not fail every time; without it nothing can drain. It is assumed of the
  attempts as a whole, not per event: that one refused event does not keep the others
  out for ever is for the property to show.
* `collaboration`: weak fairness of each participant's pump, of its publishing and of
  a harness reporting on what it accepted. A publish may fail any time.
* `harness`: weak fairness of the delivery in progress, of a living child's answers and
  turns, of reading its lines and seeing its exit and of the outcome handlers; strong fairness of
  the offers of each channel, since the pump visits every channel in turn. That the child
  refuses finitely often is an assumption about the environment. Nothing is assumed of a child
  that could not be spawned.
* `decisions`: weak fairness of the pump and of a started tool call. Nobody has to
  decide, to call a tool or to keep the session alive.

**Symmetry**: the two syncers in `delivery`; processes, calls and supported events in
`app_runtime`; the two processes of one profile and the aliases in `membership`; channels,
command lines and daemons in `runtime_host`. No liveness property is checked under symmetry.

## 4. What the runs show

Every property of the passing runs holds. One run shows code that does not do what
its documents say:

* `delivery_crash`: the mirror insert and the inbox insert of one message are two
  commits (`AC/engine/engine.ts:761`). A crash between them loses the message for good,
  since the id is then known. `DESIGN.md:211` promises at-least-once delivery with the
  `messageId` as the idempotency key.

Other promises hold only outside certain situations. Each is named in its property
by a history variable, so that the property also says that nothing else breaks the
promise:

| property | holds unless |
|---|---|
| `RelayNothingSkipped` | a pull was cut off by its limit (`cut`): the relay answers the channel's head whatever it left out, and the cursor jumps there |
| `MirrorAgrees`, `OnlyLeaverLeaves` | a hub file answered a join under an alias it did not take, or a leave there was cut off or crossed another operation of the same profile on the channel (`astray`, see *Membership*) |
| `KeysOpen` | a profile had two keys of one id in use at a time, or a process died between key file and row (`rekeyed`) |
| `ReductionsKept`, `ExecutedOnce`, `SerialAbsorbing` | calls overlapped (`overlapped`): the state and the terminal test are not read again after the await, and an effect is not looked at again before it is executed |
| `NoBlindRetry` | two processes had a runtime at once (`shared`): see *AppRuntime* above |
| `AskedEnds` | a publish failed (`lost`): it is never repeated |
| `TerminalLast` | calls met on the event, a fault cut one short or a stale snapshot registered it again (`disturbed`) |
| `OutcomeFits` | the child does not name its turns and two of one thread overlapped (`overlapped`) |
| `AcceptedAnswered` | the turn died with the child, this process ended (`Crashed`), or turns of one thread overlapped and are not named, or one was completed before its reply was acted on (`chased`) |
| `EventsTaken` | this process ended, the child could not be spawned (`stuck`), or it died and there is no fallback |
| `VouchedIsTaken` | every consumer of that session that offers the version is bound to other channels only, or supports a version that differs in the build alone |
| `CardsStand` | another session or a card made by hand took the row, or the row was given up (`overtaken`); for mirrors, the alias was given up or recorded by a node that has another (`loose`) |
| `CheckedIsAddressed` | the alias of the row was given up, or recorded by a node that has another (`loose`): it may be somebody else's, or nobody's, by the time of the send |
| `BoundByChoice`, `ChosenLoads` | catalog commands ran side by side (`crossed`), or one died with a package directory gone (`torn`); `ChosenLoads` also excepts a binding that a newer version enabled beside it eclipses |
| `RegistrationKept`, `StatusTruthful` | two processes wrote the registry at once (`raced`), or two daemons ran (`doubled`) |

Known weaknesses that no property speaks of: the retry of a stored message is refused
by the relay when the icebreak limit or a pause meets it before the duplicate lookup;
an application event is forgotten before the `respond` its notification asks for; the
polling queue is lost in a crash; one event that the ingress refuses for ever keeps out all
later ones and the held messages; a session is not told that its card was replaced or went
with a leave; `publish` to `*` asks no card; the name on a card may be another peer's
alias, and then the wrong peer is checked and addressed; a member that left blocks the soft
clean-up of a relay for ever.

## 5. The proofs

`tlapm` checks every theorem to its leaves. All are for every value of the
constants that satisfies the modules' named assumptions. Each proof module states
an inductive invariant, with one lemma per action or group of actions.

**Delivery** (`LocalDeliverySafety`). The invariant has two
parts. `SafeInv` holds whatever crashes. Besides the properties it says what a job
holds at each of its steps (`JobShape`), that a pulled row is still what the home
has (`PulledFaithful`: released rows never change again, which is why a stale
batch is safe), that the answers of `send` and the gate are (`AnswerFaithful`), that
heads are bounded by the log and, before the cursor is set, by what was
acknowledged (`HeadBounded`). `HeldBarrier` is inductive only for cursors, acks and
heads together, since each is copied into the next. `CoverInv` needs
`~CrashBeforeInbox`: a job in flight vouches for everything up to its head
(`Covered`), and a mirrored message has arrived, expired or is being inserted
(`KnownSettled`); from these follow `NothingSkipped` and `InOrder`. `Refinement`
shows that each step of the system is a step of the mailbox or a stutter, using
`SafeInv` alone: the mailbox survives any crash, only completeness does not.

**Application runtime** (`AppRuntimeSafety`). `SafeInv` adds to the types that a call
which awaits a consumer handles an input whose context it read, and that an
outcome in flight belongs to a reduced event; it gives `DecidedOnce`, `JournalMatches`
and `OutcomeAfterEvent`. `Serial` is invariant until calls overlap: one call at most is
in flight, it still holds the stored state, and what may still be executed never
was. That is exactly what overlap destroys, and from it follow `ReductionsKept`,
`ExecutedOnce` and `SerialAbsorbing`. `AloneInv` is invariant until two processes have a
runtime at once: whatever a call still has in its list has a known outcome, since only a
start makes one unknown and a start finds no call in flight. From it follows
`NoBlindRetry`, overlapping calls or not.

**Relay** (`RelayHomeSafety`). All four properties of `RelayHome`. `IcebreakHolds` needs
that a row stems from the member that has its alias now, and from the time since
that member joined (`Signed`, with `OwnAlias`: the relay removes no member, so that an
alias never changes hands and `join_seq` never moves), and that whoever could be
shown a peer's row is on record as answered (`Heard`); then the rows the relay counts
are all the rows there are. `RelayNothingSkipped` and `InboxOnce` need that the mirror
is exactly what the inbox was given (`Mirrored`) and that a pull vouches for all it has
passed before it is acknowledged, even when the channel is left and joined again in
between (`Vouched`, `NoCursor`). `RetentionCorrect` follows `Cleanup` through every
request that runs it.

**Bridge** (`ChannelPumpSafety`). `PumpInv` gives `OffersInOrder`, `WorkAnswered` and
`NothingLost` for any number of events, any setting and any number of crashes.
`OffersInOrder` alone is not inductive: it needs that the pump skips only what was
shown (`Shown`), that before what is left of a snapshot every unread event was
shown (`Swept`, which an event read into an older snapshot cannot break because
seqs only grow), and that nothing is known of an event before it arrives
(`Arrivals`). `WorkAnswered` needs that a call past sending has sent (`Answers`).

**Membership** (`MembershipSafety`), for any number of nodes and processes of each. The
invariant says until a profile goes astray that every row it has, every answer it is about to
record and every leave about to reach a hub file names an alias that is its own (`Owned`: `RowOwned`,
`EntryOwned`, `LeaveOwned`), a row being forgotten excepted, and that what does not exist has no
members (`Vacant`). Whoever enters finds the alias free, so no such claim is broken by a join;
what a leave could break is exactly what `astray` names. `KeysOpen` needs that every link, answer
and mint under way carries the key its founder made (`KeyTravels`), without which it would not
survive a chain of invites, and that whoever is between two steps with a key finds it in the
file (`KeyHeld`, `RowKeyed`).

**Decisions** (`TaskSafety`). `ParkedKept` and `TerminalLast` need what each step
of a call knows: its update was sent (`SentFirst`), an acknowledged event is no longer
unread (`AckedGone`); and of an undisturbed event that one call at most works on it
(`OneCall`), that a call which does not end the task, or has not sent yet, finds it not ended
(`NotYet`), and that once ended it is in the hands of a call or neither unread nor registered
(`InHand`). `DecisionsStand` proves of every step that a decision on record stands.

**Applications** (`TaskSafety`). None of `ApprovedWasDone`, `EndsAgree` and
`CancelledUnanswered` is inductive, since a participant's state follows what an event
says long after it was said. `MailJustified` says of every event in a mailbox or an outbox that
it is true of the worker it is about (a `task.completed` was done, a `review.approved` finds that
worker's context completed, a `task.failed` finds it failed); `Later`, that no step takes
such a fact back: what was asked stays asked, what was done stays done, a phase that ended
stays ended. `Asking` says that only who was asked works, `Ending` that a conversation
ended at the manager as it ended at a worker asked in it, and that who has answered a
request with a harness has completed it. All of it for any number of workers,
prompt or not, conversations and tasks.

**Catalog** (`HostSafety`). `BoundByChoice` and `ChosenLoads` rest on `Uncrossed` and
`Packaged`: while no two commands have crossed one command line at most is in flight,
what it has read is what the catalog still says, and what `update` keeps of the old
bindings is what was chosen; an installed version has its package unless it is in a
command's hands. That `enable` binds one version and that an update inherits from the
version installed last before it take a largest element of a finite set of times
(`LatestIsOne`, `PredecessorIsOne`). Its existence is proved by a least counterexample
(`FiniteHasLargest`, with `WFMin` of the library), which needs no induction theorem.

**Daemon** (`HostSafety`). `StatusTruthful` is not inductive, because a write puts back
the whole file its process has read. Until processes race, what is read is what is there
(`Current`); until there are two daemons, `Told` says of every runtime how the file's row, the
status about to be written and what the daemon runs go together (`RowFits`,
`EditFits`), with `Launching` for the runtime being started, which is on no list.
`RegistrationKept` says of every step that a registration leaves by its own `remove`
alone, and follows from `Current` by what an edit does to the file (`EditedRows`).

**Harness turns** (`HostSafety`). `OutcomeFits` depends on lines nobody has read yet.
`TurnsInv` follows each turn from the request to the completion that is read: an event
gets one turn (`OneTurn`), one answer and one completion of it can be read (`Readable`), the
events of a channel have their turns in its order (`InOrder`), and a completion that is awaited finds
its event by turn, or finds by thread that event or none (`Found`). Where turns are named and
overlap, one that is not known by its name yet is still in the adapter's hands, or its channel
waits for it (`Unnamed`, with `Reports`). Between the completion and the end of its handler the
pair is kept (`HandedFits`). Once the process has ended nothing of it moves (`TurnsOver`).

**Interoperation** (`InteropSafety`). `GateMeaning` says what the negotiation amounts to
for all versions: the gate accepts exactly the versions between the floor and the
version of an advertised support of that URI. The invariant says of every row at the home, in
a mirror or in an answer, and of every alias a profile or a call has, that it is the node's whose
it is said to be unless the alias is loose (`RowsSound`), that a session that polls or is about to
stands by its card (`ActiveStand`), that what is about to be sent passed the gate and names whom it
was checked for (`AllPassed`, `AllNamed`), and that who has an event in its inbox goes by the alias
it names (`Reached`). It gives `VouchedIsTaken`, `CardsStand` and `CheckedIsAddressed` for any
registries, processes and founders, however members leave and rejoin.

**Assumptions on the constants** are few. `CatalogAssumption` and `HostAssumption` say that
the marks for *no entry*, *no runtime* and *nobody* are no entry, no runtime and no daemon
(the code's `undefined` is no record and no id), that `*` is no channel, and that daemons and
command lines are different processes. `MembershipAssumption` and `InteropAssumption` say that
every process has one profile open, that such marks are no nodes, aliases or consumers, that a
node starts with one alias in a channel at most and an alias with one node, and that the supports
of a registry are well-formed, which the schema refuses otherwise. `InboxAssumption` says that an event is in one
channel and there once, which is the primary key of the inbox, and
`CollaborationAssumption` that the manager is no worker and that a conversation belongs to
one of the two applications. TLC evaluates all of them in the runs.

**Only model-checked**: liveness (`ReleasedArrives`, `InboxDrains`, `AskedEnds`,
`AcceptedAnswered`, `EventsTaken`, `ApprovedResumes`, `HoldsShown`), which is out of the
prover's reach. Every other property of the passing runs is a theorem. `TypeOK` of
`ChannelPump` is the one type invariant that is none: its proof needs facts about
`SelectSeq` that are inductive over the sequence, and the theorems about the bridge do
without it.

## 6. Not modelled

* **Pages of the relay** (`public-pages.ts`, `public-page-i18n.ts`, `join-page.ts`,
  `bootstrap-scripts.ts` in `packages/relay/src/`): about 4000 lines of HTML, CSS, translations, scripts and JSON
  rendering without state at the relay. The polling script of a public channel has
  a race of its own, listed as a hazard.
* **Wire formats, schemas and link formats** (`packages/core`, the encodings of A2A
  messages, manifests): no state; the properties see a message as a value.
* **Cryptography, signatures, file permissions**: payloads are opaque to every
  property. Which key file and which key in a link belong to which channel is in
  `Membership`.
* **The rest of the CLI and the MCP tools that only send or read**: they parse arguments
  and call the engine; the client tasks of `LocalDelivery` stand for them.
* **Presence, audit log, scopes, configuration**: written and shown, read by no
  decision of the modelled operations.
* **Fetching of applications, the public registry's search, scaffolding, conformance
  runs**: network and file work around the catalog's steps.
* **Services and launcher**: they write launchd and systemd files and call the
  platform's tools.
* **`NativeFirstIngressRouter`**, which nothing uses, and the **benchmark**.

Two things the models leave to their neighbours: `RelayHome` runs one sync per node at a
time, because several processes on one store are `LocalDelivery`'s subject, and
`Collaboration` has no crashes, because what they do to a reduction is `AppRuntime`'s.

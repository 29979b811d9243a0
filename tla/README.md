# A verification model of durable-acp-rs

durable-acp-rs is a *conductor*: it sits between an ACP client and an agent,
appends every JSON-RPC message it sees to a durable stream, and keeps a
read model (connections, prompt turns, chunks) that the API, remote subscribers
and webhooks read. These modules model the part that must be right for those
readers: how observed messages become rows, what survives a crash, which events
reach a webhook, what a remote subscriber shows, and how the agents of one
machine find each other and are driven from the dashboard.

## Inventory

| Part | State it keeps | Operations | How it interacts |
|---|---|---|---|
| Read model, `src/state.rs` | `Collections` behind an RwLock, `TraceCorrelation` behind a Mutex, a broadcast channel of changes | `apply_json_message`, three trace handlers, `set_connection_id`, `snapshot`, `subscribe_changes` | called by every tracer; read by the API, webhooks and subscribers |
| Durable log, `src/stream_server.rs` | one stream on disk, with a size limit | `append_json`, `rebuild_state`, HTTP reads and writes of the stream | appends, then applies to the read model |
| Boot, `src/main.rs` | connection id | open the log, rebuild, announce the connection, start the servers | one process per conductor |
| Tracer, `src/durable_stream_tracer.rs` | an unbounded queue and one task | `write_event` | one per conversation; ignores append errors |
| ACP endpoint, `src/acp_server.rs` | one task per WebSocket | accept, run a conductor | a tracer per connection, all into one read model |
| Webhook forwarder, `src/webhook.rs` | states last seen, a batch of deliveries | wait, snapshot, detect, post, retry, resync | one receiver of the change channel |
| Remote subscriber, `src/stream_subscriber.rs` | a read model of its own, an offset | connect, preload, consume, reconnect | reads the stream over HTTP |
| Product API, `src/api.rs` | none | snapshots, registry, files, `kill_terminal` | reads the read model and the registry file |
| Peer registry, `src/registry.rs` | a JSON file shared by processes | register, unregister, read | written by conductors and dashboards, read by the API and the peer proxy |
| Peer proxy, `src/peer_mcp.rs` | none | list agents, prompt a peer over HTTP | looks peers up in the registry |
| Agents launcher, `src/bin/agents.rs` | `agents.toml` | add, pick, remove, clear | its file is what the dashboard runs |
| Dashboard, `src/bin/dashboard.rs` | a pane for each agent, a selection | launch, type, switch, quit | registers its agents, runs an ACP client for each |
| ACP client, `src/client.rs` | one session, a queue of prompts | prompt loop, permission callback | used by the dashboard |
| Transports, agent registry client, other binaries, `ts/` | adapters, downloads, user interfaces | | |

What makes it hard: the runtime is multi-threaded, so the critical sections of
two conversations interleave; the correlation of requests and responses is
shared by all of them; append and apply are two steps; the correlation is in
memory only and rebuilt from the log; changes carry no data and are lost when a
receiver is slow; webhook delivery retries for most of an hour while everything
behind it waits; a subscriber is aborted between two critical sections; and two
files, the registry and the configuration, are read, changed and written by
several processes without a lock.

What would make each part correct:

- *Read model*: an unanswered prompt is tracked until it is answered; its
  updates reach its turn in order; an outcome never changes; nothing is kept of
  an answered request.
- *Log and boot*: what was shown before a crash is shown after it; a turn id
  always names the same prompt; a replay gives the state the process had.
- *Webhooks*: a turn is reported at most once, with its final outcome, and none
  is forgotten while the forwarder keeps up.
- *Subscriber*: the copy is what the stream amounts to, up to where it was read,
  and `preload` returns when there is nothing more to read.
- *Registry*: a name has one entry; a conductor that is up is found under its
  name, with its own connection id.
- *Launcher*: the agents it adds do not share ports.
- *Dashboard and client*: a prompt goes to the agent it was typed for, once and
  in order, and its answer is shown where it was typed.

## Modules

| Module | Models | Builds on |
|---|---|---|
| `TurnLedger` | the abstract promise of the read model: a turn is opened once and closed at most once | |
| `StreamDb` | `state.rs` under any number of tracer tasks, and the conversations they observe | instantiates `TurnLedger` |
| `StreamDbProofs` | types, outcomes and the refinement of `StreamDb`, and what a message does to the read model, proved | `StreamDb`, TLAPS |
| `StreamDbTrackingProofs` | which prompts are tracked and which turns can be ended, proved | `StreamDbProofs` |
| `StreamDbRoutingProofs` | residue, chunk numbers and the routing of updates, proved | `StreamDbTrackingProofs` |
| `StreamServer` | the log, the boot sequence, crashes and other writers of the stream around `StreamDb` | `StreamDb` |
| `StreamServerProofs` | the theorems about `StreamServer` | `StreamServer`, `StreamDbProofs` |
| `WebhookForwarder` | `webhook.rs` beside `StreamDb` | `StreamDb` |
| `WebhookForwarderProofs` | the theorems about `WebhookForwarder` | `WebhookForwarder`, `StreamDbProofs` |
| `StreamSubscriber` | `stream_subscriber.rs`: a `StreamDb` filled from a remote stream | `StreamDb` |
| `StreamSubscriberProofs` | the theorems about `StreamSubscriber` | `StreamSubscriber`, `StreamDbTrackingProofs` |
| `SharedFile` | `std::fs::write` on a file that others write too | |
| `PeerRegistry` | `registry.rs`, the processes that register, and the lookups | `SharedFile` |
| `PeerRegistryProofs` | the theorems about `PeerRegistry` | `PeerRegistry`, TLAPS |
| `AgentsConfig` | `agents.rs` and `agents.toml` | `SharedFile` |
| `Dashboard` | `dashboard.rs` and `client.rs`, launched from what `AgentsConfig` left | `AgentsConfig` |
| `DashboardProofs` | the theorems about `AgentsConfig` and `Dashboard` | `Dashboard`, TLAPS |
| `MC...` | values of the constants for TLC | the module of that name |

### StreamDb

Each action is one critical section of a handler: the code takes the
correlation mutex or the collections lock, changes state and releases it, and
any other task may run before the next one. `task[w].pc` is the section task `w`
enters next, and the other fields of `task[w]` are the local variables it has
read. The correspondence is

| Code | Actions |
|---|---|
| `rx.next()` of a tracer, `append_json` | `Take`, `Deliver` |
| `session/new` request | `BeginSessionNew`, `UpdateCwd`, `Notify` |
| `session/prompt` request | `BeginPrompt`, `InsertTurn`, `Notify` |
| response | `EndSessionNew`, `Attach`, `Notify`, or `EndPrompt`, `FinishTurn`, `Notify`, or `IgnoreResponse` |
| `session/update` | `FindTurn`, `NumberChunk`, `InsertChunk`, `Notify` |
| anything else | `IgnoreRequest`, `IgnoreNotification`, `IgnoreLegacy` |
| connection envelope | `ApplyConnection`, `Notify` |

Maps are partial functions. Prompt text, chunk payloads, time stamps and stop
reasons are left out; the working directory of a connection is present or
absent (the protocol demands one in `session/new`, so a request always sets it).
A chunk has no position in the code; the model keeps chunks in the order they
were inserted so that a property can speak of it.

The conversation is external: `Observe...` actions say what the protocol lets a
tracer see next. A response answers an outstanding request, an id is not reused
while its sender waits, the agent invents new session ids, and the updates of a
session come on the connection that opened it. Which ids the parties choose is
the constant `ClientIds` and `AgentIds`: a JSON-RPC id is unique per sender, so
the runs take both distinct and coinciding ids. `Serialized` says that a client
does not overlap the prompts of one session, the contract that
`docs/conductor-redesign/implementation.md` puts on clients.

A tracer's queue is unbounded and nothing in the read model answers back to the
conversation. So the next event is chosen when the task takes it, which gives
the behaviours of a queue filled earlier.

### StreamServer

The tasks are the tracers and `Main`, which boots. `AppendJson` is the append;
the task applies the message afterwards with the sections of `StreamDb`. `Boot`
and `Replay` are `start_with_dir` and `rebuild_state`: message by message, and
the boot fails at the first one it does not know. `AnnounceConnection` and
`Serve` are the steps of `main` up to `set_connection_id`; tracers run only after
`Serve`. `Crash` may come at any time and clears everything but the log. The
stream has room for `MaxLog` messages; then `append` fails, which a tracer
ignores and `main` does not. The limits of the storage count bytes, and those of
the other streams too, so `Storage` may also refuse a message while there is room
for a shorter one, and it refuses everything while the stream is deleted
(`MayBeGone`).

The stream is not the process's own. It can be appended to and deleted over HTTP
(`/streams/{name}`), from before the rebuild on, and conductors that are started
on the same directory, which is the default, share it: "Multiple conductors write
to the same stream". Nothing of this goes through the read model of the process.
`ForeignAppend` appends any message of the set `Foreign`, prompts and responses
included, and `DeleteStream` empties the log. The process does not see what others
write before its next boot replays it; until then its turns and those a boot would
show differ, and the code does nothing about it. The history variable `apart` says
so, and the properties say what holds otherwise: the numbers of turns and a
replay are compared while the process is not `apart`, and an outcome that was shown
while it was not is shown again whatever others append later (`OutcomesSurvive`).

A replay is the live state up to connection ids. The rebuild runs before
`set_connection_id`, so every replayed turn and chunk has the connection id
"unknown", and `ReplayMatchesLive` says exactly that of the turns (the model keeps
no connection id in a chunk). `known` and `before` are read by properties only.

### WebhookForwarder

`Subscribe`, `Recv` or `RecvLagged`, `Detect` or `Resync`, then `Accepted` or
`Failed` for each delivery, are the steps of `run_forwarder`; the receive and the
snapshot are separate, so writers run in between. `reports` (for each turn, the
outcomes reported of it) and `excused` (what ended before the subscription or
across a lag, which the code deliberately does not report) are history.

### StreamSubscriber

The variables of `StreamDb` are the subscriber's copy here. `Task` holds the
tracers of the remote conductor, which only append to `log` (`Publish`), and the
consumers, one for each `connect` of a behaviour, which apply what they read with
the sections of `StreamDb` (`ApplyStep`).

| Code | Actions |
|---|---|
| `connect`, `preload`, `disconnect`, a dropped `preload` | `Connect`, `Preload`, `Disconnect`, `CancelPreload` |
| the reader is built, or not | `Build` |
| `next_chunk`, and a chunk that is parsed or not | `ReadChunk`, `ReadError` |
| the loop over the events of a chunk | `ApplyEvent`, `ApplyStep` |
| `notify_waiters` | `FinishChunk` |
| the abort takes effect | `Aborted` |

The client library is external: it hands out the messages once and in order, in
chunks of any size, empty ones included, and says when it has reached the end.
A chunk that is not a JSON array is skipped with all its events, and the end it
may announce is announced all the same. `whole` says of a consumer that this did
not happen; what a copy with a hole shows is nowhere said, and the properties of
the copy speak of those without one.
An abort takes effect where the task yields, and the model lets that be any
point between two critical sections or two events, so an aborted consumer and
its successor may both be at work on the copy.

`CopyIsReplay` does not compare the copy with another run of the handlers. It
says what the stream amounts to from the messages alone (`ReplayedTurns`,
`ReplayedChunks`): the n-th prompt is turn n, its outcome is that of the first
response with its id, its chunks are the updates of its session up to there.

### SharedFile and PeerRegistry

`std::fs::write` truncates the file and then writes it, and nobody locks. A file
is the set of the documents whose bytes it holds: none while a writer has
truncated it, one when all is well, and several when writers overlapped and the
result is no document at all. A shorter document over a longer one keeps the tail
of the longer one. In JSON, the format of the registry, the result does not parse
(`AfterWrite`); in TOML it may: `add cc` over the beginning of `add bb cc` leaves
two entries of the name `cc`. `AfterSplice` adds these files: the entries of the
document written last, followed by any last entries of the other.

A conductor registers its name when it boots and unregisters it when its
conversation ends; a dashboard registers all of its agents before any client
runs, because the loop that spawns them has no await, and unregisters all when
it closes. Each call is `Read` (with `unwrap_or_default`: what does not parse is
empty), `Open`, `Write`; other processes run in between, and `Crash` may come
anywhere. `Peers` and `FindPeer` are what the API and the tools of the peer
proxy read. `directory` is what the file would say if every call were one step,
and `disturbed` records that two calls overlapped or one died in the middle.

### AgentsConfig and Dashboard

Each invocation of `agents` is an editor with steps of its own: it loads the
file, or, in the interactive picker, loads it twice with its user in between,
and saves. An empty file is a valid empty configuration, unlike the registry.
`spliced` records that a save left entries of two documents in the file; what such
a file holds was decided by no command, and the properties of the entries do not
speak of it. Ports are 0 to `Width` - 1. The ids of the public registry are assumed
to be distinct.

Three things the code permits are stated as exceptions of the properties. A
numbering that has passed 65535 wraps in a release build and hands out the ports 0
and 1, which may belong to an earlier entry (`AutoPortsDisjoint`). A picker that
is confirmed after others added agents marks what was configured when it opened,
and adds an agent again ("late picker"). And a picker may add the name of an entry
with another agent. `NothingAddedTwice` says the rest: `add` adds no name, and the
picker no agent, that the file has.

`Launch` reads the file once and gives every entry a pane and a client. From
there the dashboard is one thread: an action is what happens between two yields
of a client or of the terminal's event loop. Panes are looked up by name
(`PaneOf`), clients by index. `Taken` is what client `i` has answered, is
answering and has queued. A line is a sequence of the pieces run together in
it. The dashboard's part in the registry is in `PeerRegistry`.

## What the runs check

| Run | Checks | Shows |
|---|---|---|
| `two_tracers` | `TypeOK`, `PromptsTracked`, `ActiveTurnsAnswerable`, `ChunksNumberedInOrder`, `UpdatesRouted`, `NoResidue` | with distinct ids, no interleaving of two conversations loses a prompt, an update or an answer, and the maps do not grow |
| `shared_ids` | `OutcomeInv`, `TerminalIsFinal`, `ImplementsLedger` | even when ids coincide and prompts overlap, a turn is opened once, closed once, and then final |
| `crash_and_replay` | `ServerTypeOK`, `TurnsNameLogPrompts`, `OutcomesSurvive`, `ReplayMatchesLive` | with one tracer, no outcome shown is lost or changed by a crash, a refused append or what others append; turns are renamed, and a replay differs, only where others changed the stream under the process; a replayed turn loses its connection id |
| `webhooks` | `ForwarderTypeOK`, `ReportedOnce`, `NoEventMissed` | no double report, no lost wake-up |
| `progress` | `EventuallyReported`, `ResponseEndsTurn` | answers end turns and ended turns are reported |
| `subscriber` | `SubscriberTypeOK`, `CopyIsReplay`, `CopyShowsNothingElse`, `PreloadIsComplete`, `PreloadReturns` | however the stream is cut, and wherever the consumer is aborted, a copy that skipped no chunk shows the stream and nothing else; `preload` returns, complete |
| `peer_registry` | `RegistryTypeOK`, `UniqueNames`, `UndisturbedIsExact`, `ConductorFound` | names stay unique whatever happens; without overlapping calls the file is exact and a conductor is found with its own id |
| `dashboard` | `DashboardTypeOK`, `AutoPortsDisjoint`, `NothingAddedTwice`, `LinesWhole`, `OwnPane`, `PromptsKept`, `PromptSettles` | stale copies written over newer files make no ports clash and add nothing twice; no prompt is lost, repeated or shown elsewhere; each is answered or fails visibly |
| `colliding_ids` | `PromptsTracked` is violated | see below |
| `two_tracers_replayed` | `LiveTurnsAreReplayTurns` is violated | see below |
| `connection_rows_replayed` | `ReplayKeepsConnections` is violated | see below |
| `subscriber_reconnect` | `ReplaysToSameState` is violated | see below |

Four runs refute what the repository's documents say.

- `colliding_ids`. The correlation map is keyed by the request id alone, for all
  connections and both directions. Two clients that use the same id, or an agent
  whose request has the id of the client's prompt, end each other's turns. The
  model assumes that the ids in the trace are those the parties chose. The
  documents demand that a prompt "maps to the correct updates and terminal
  response".
- `two_tracers_replayed`. Append and apply are not one step, so two tracers may
  apply in the opposite order of the log. The live turns are then numbered
  differently from a replay, which is said to produce the same state.
- `connection_rows_replayed`. The rebuild runs before a connection id is set.
  What `session/new` did to a connection row is replayed against the connection
  "unknown": after a restart no row has its session or working directory. The
  turns and chunks of the replay are those of "unknown" too, so the
  `logical_connection_id` that "partitions each agent's state" in a shared stream
  does not survive a restart. The repository's own replay test sets the
  connection id first.
- `subscriber_reconnect`. After `disconnect`, `connect` reads the stream from the
  beginning into the copy that is already filled: the prompts are numbered on,
  and every turn is shown twice. A state subscriber is asked to replay "to the
  same state". The run asks it only of one that caught up both times, between two
  events.

Two further divergences are visible without a run.
`docs/conductor-redesign/implementation.md` lists permission and terminal rows
among what trace events materialize; the handlers of `state.rs` write neither.
And `call_peer_http` (`peer_mcp.rs`) prompts a peer over REST routes that
`README.md` lists and `api.rs` does not serve, so `prompt_agent` fails once it has
found its peer.

`PeerRegistry` has no run in which a lost registration counts as a violation:
nothing in the repository promises that overlapping calls are safe. The model
shows it (a `disturbed` state in which a conductor is up and not listed), and
`UndisturbedIsExact` and `ConductorFound` say what holds otherwise.

## Bounds

Two tracers give every interleaving of two handlers; no property relates more
than two tasks. Two sessions and two prompts let a second prompt follow the
first in the same session, run beside it in another, and reuse its id. Two
session updates are enough to number a chunk wrongly. The change channel has 1
or 2 slots where the code has 256, so that it overflows. `MaxLog = 7` lets a
whole prompt, a crash and a second boot fit, and a second prompt not. Two
attempts stand for six, and two hooks with different filters for any number.
`Chatter = FALSE` leaves out messages the read model ignores where ids do not
collide with theirs. `MaxTurns`, `MaxChunks`, `MaxMishaps` and `MaxBoots` bound the
environment, never the code. `MaxMishaps` is 1: in `crash_and_replay` one change of
the stream by others or one append refused before the stream is full, at any
moment of two lives of the process, and in `subscriber` one message that is no
trace event or one skipped chunk. What others may append there (`SomeForeign`) is a
prompt and a response that use an id of the process's own client, a connection
row, a legacy row and a row of an unknown type. The proofs have no such bound.

A stream of 5 messages holds a session, two prompts, an update or an answer of
each and a message of a stranger, or one prompt with both of its chunks; the
reconnect needs 3, and no chunks. Every cut of the stream into chunks is tried. `peer_registry`
has a dashboard of two agents, the conductor of one of them, a conductor with
the same name that somebody else started and one with a name of its own: four
processes make every overlap of two calls, a third one behind them, and both
kinds of rival. In `dashboard` ports wrap after 11 rather than 65535, numbering
starts at 5, two entries are enough to clash in name or port, and two prompts
for one client are queued behind each other; a pane of four lines overflows. Two
editors overlap in every way.

`QuietLaunch` keeps the dashboard of `dashboard` from being launched while an
editor is at work. That leaves no state of the running dashboard out: the editor
may quit instead at any moment, which leaves the file as it is, and the launch then
reads the same. The edits after a launch are left out by the model itself, because
the dashboard never reads the file again.

Symmetry is taken over session ids, and over the two consumers of
`subscriber_reconnect`, in runs without liveness only.

## Fairness

`ResponseEndsTurn` and `EventuallyReported` assume weak fairness of each tracer's
own steps after it has taken a message and of the forwarder: the tokio runtime
polls every ready task, the locks are held for a few statements and are fair,
and every wait of the forwarder is bounded (10 s per request, the retry delays)
or ends with the next change. Nothing is assumed of clients, agents and hooks: a
prompt need not be answered, a delivery need not be accepted.

`PreloadReturns` assumes that the stream server hands out what it has, errors
ending after finitely many, that the consumer is polled and that the reader can
be built. `PromptSettles` assumes that the agent of every client answers in the
end or the connection fails: without that a client waits for ever, since
`client.rs` has no timeout. The user need not do anything in either.

`crash_and_replay`, `two_tracers_replayed` and `connection_rows_replayed` do not
check deadlock: a process that is down, after its last boot, stays down.
`subscriber`, `subscriber_reconnect`, `peer_registry` and `dashboard` do not
either: the stream, the connects, the lives of the processes and the prompts are
bounded, and the system stops when they are used up.

## What is proved

Every theorem holds for all values of the constants that the named assumptions
of the modules allow: any number of tasks, sessions, ids, messages, processes,
entries or lines. Some have a hypothesis on the environment besides:

| Hypothesis | Says | Why it is needed |
|---|---|---|
| `UniqueIds` | no two parties choose the same request id | `colliding_ids` is the counterexample without it |
| `Serialized` | a client does not overlap the prompts of one session | the code takes the last prompt of a session for the open one |
| `OneTracer` | one conversation at a time | `two_tracers_replayed` is the counterexample without it |
| `OneConnect` | the subscriber connects once | `subscriber_reconnect` shows what a second connect does |

**`StreamDbProofs`**, under `StreamDbAssumption` (which says what the constants
are) and no hypothesis:

- `TypeCorrect`: `TypeOK` is invariant. It is inductive by itself because
  `Message` and `TaskState` say which fields are present in which section.
- `OutcomesOwned`: `OutcomeInv` is an inductive invariant (relative to `TypeOK`).
  A turn has at most one holder of each kind: one entry of the correlation map,
  one task about to insert its row, one task about to finish it; and a turn that
  can still be finished has no outcome. `TerminalIsFinal` alone is not inductive:
  a late insert or a second finisher would break it, and the ownership says
  that there is none.
- `OutcomesFinal`: `TerminalIsFinal`, from `OutcomeInv`. No assumption on request
  ids is needed.
- `LedgerImplemented`: `StreamDb` implements `TurnLedger` under the refinement
  mapping that keeps the state of each row.

Its last section is used by the two modules that follow a stream of messages: a
message has an effect on the read model (`Effect`) that does not depend on how
its handler is cut into sections. `Rest` is the model as it will be when the task
has finished the message it applies, and each section leaves it as it is
(`RestStep`): what one section has done, the next ones no longer do.

**`StreamDbTrackingProofs`** and **`StreamDbRoutingProofs`**, under `UniqueIds`:

- `PromptsStayTracked` (`PromptsTracked`) and `ActiveTurnsStayAnswerable`
  (`ActiveTurnsAnswerable`). The properties speak of requests that wait for an
  answer. What keeps them true is where a request is between its first and its
  last section: in the task that has read it, in a map, in the task that has
  read its answer, and in one of these places only. `TrackingInv` says so for
  each request a party has outstanding.
- `NoResidueRemains` (`NoResidue`). `Routing` adds the reverse direction: an entry
  of a map is held by an outstanding request or by a task that is about to
  remove it.
- `ChunksStayInOrder` (`ChunksNumberedInOrder`). A number is taken in one section
  and inserted in a later one; all updates of a turn come on one connection, so
  the task between the two sections is the only one that numbers that turn.
- `UpdatesStayRouted` (`UpdatesRouted`), with `Serialized`: a session has at most
  one prompt that waits, and its turn is the active one.

**`StreamServerProofs`**, under `StreamServerAssumption`:

- `ServerTypeCorrect`: `ServerTypeOK`, with any number of tracers.
- `TurnsKeepTheirPrompts` (`TurnsNameLogPrompts`), `OutcomesSurviveCrashes`
  (`OutcomesSurvive`), `ReplayRebuildsLive` (`ReplayMatchesLive`) and
  `LiveTurnsFollowLog` (`LiveTurnsAreReplayTurns`), for one tracer and any messages
  of others. Because of `RestStep` the log alone determines a sequence of models,
  `Run(h, log)`: `h[k]` is the model after its first k messages, whoever wrote them.
  Along the run no turn is lost, renamed or given another outcome (`Keeps`), which
  needs that each entry of the correlation map leads to an active turn of its own
  (`Sound`): this is an invariant of the run, not of the process, since a message
  of others may carry the id of a prompt that waits. `ServerInv` ties the process
  to the run. `Current` says that the one task that applies messages is on its way
  from one member to the next, in a replay, and in live operation while the process
  is not `apart`; `Known` and `Recalled` say of the history variables which member
  they were taken from; `Recorded` says that the outcomes earlier processes
  showed are in the part of the log that the boot has read, whatever others append
  meanwhile, so that they are shown when it serves. `Anonymous` says that up to then every turn is of
  the connection "unknown". A crash moves back to the first member, and what is
  appended, by anybody, only lengthens the run. A deletion starts it again.

**`WebhookForwarderProofs`**, for any number of hooks and attempts, any capacity
of the change channel and under `StreamDbAssumption` and `WebhookAssumption`:

- `ForwarderTypeCorrect`: `ForwarderTypeOK` is invariant, on top of `TypeCorrect`.
- `NothingReportedTwice`: `ReportedOnce`. The inductive form (`SeenAsReported`)
  adds that a reported turn is among the states seen, as ended, so that no
  snapshot reports it again, and that it has ended in the read model; that it
  keeps this outcome is `OutcomesFinal`.
- `NoWakeUpLost`: `NoEventMissed`. `SeenIsSettled` says that what the forwarder
  has seen ended is reported or excused, so that a snapshot settles everything;
  `Underway` is the part of `WillLook` that tracers disturb: whoever ends a turn
  is about to send a change, and a change sent stays in the channel or leaves
  its mark as a lag.

**`StreamSubscriberProofs`**, under `SubscriberAssumption`:

- `SubscriberTypeCorrect`: `SubscriberTypeOK`. `Room` says that the messages on
  their way to the stream fit into it, which its bound needs.
- `PreloadWaitsForConsumer`: when `preload` has returned, some consumer has got
  through everything that was in the stream when it was spawned, with any number
  of connections. `PreloadInv` says that a consumer that has told the end has
  applied or skipped what was there, and that a waiter returns only by being told.
- `PreloadWaitsForTheEnd` (`PreloadIsComplete`), for one connection. With more of
  them it is not true: `disconnect` does not wait for the consumer it aborts,
  which may still announce an end of its own to the `preload` of the next one.
- The theorems about the copy and its completeness are for a consumer that has
  skipped no chunk (`whole`). Once it has, it never is again (`WholeBefore`), so
  that the invariant `CopyInv` may be assumed of every earlier state (`WholeCopy`).
- `CopyIsTheReplay` (`CopyIsReplay`), for one connection, with `UniqueIds` and
  `Serialized`, and `CopyIsOfTheStream` (`CopyShowsNothingElse`), for one connection
  with `UniqueIds`, for any number of conversations that write the stream. The
  properties read the stream by counting: the n-th prompt, the first answer, the
  updates up to there. The handlers remember instead. `ReplayOf(s, M)` relates the
  two: it says of a model M that its turns are the prompts of the stream s by rank
  and outcome (`TurnsOf`), that its correlation maps hold exactly the requests of
  s that wait for an answer (`RequestsOf`), and, if prompts do not overlap, that
  the open turns and their counters are those of the waiting prompts
  (`SessionsOf`) and the chunks those of the definition (`ChunksOf`). `ReplayStep`
  is the core of the proof: one more message, applied as `Effect`, keeps the
  relation, if the message may enter (`Enters`): a request under an id, or a
  prompt in a session, for which no earlier one waits. `StreamInv` proves that
  every message of the stream may: a request that waits in the stream is owed an
  answer by the one conversation that has its id (`Owed`), which is on the wire or
  in the task that is about to publish it. `CopyOf` then ties the consumer to the
  stream: what is left of its chunk is the stream's, and `Rest` is the model of
  what it has applied. `RowsShown` is the part that survives an abort in the
  middle of an event, and a stream that grows behind the reader.

**`PeerRegistryProofs`**, for any processes and names, under
`RegistryAssumption`:

- `RegistryTypeCorrect`: `RegistryTypeOK`.
- `NamesStayUnique`: `UniqueNames`, also when calls overlap and processes die,
  because an entry of the same name is dropped before one is added and a mixture
  of two documents does not parse.
- `UndisturbedRegistryExact`: `UndisturbedIsExact`. While no two calls overlap,
  the one that is under way holds what the others amount to.
- `ConductorsFound`: `ConductorFound`. The inductive part (`NamesInv`) speaks of
  the names a process has still to call for: a name that a conductor has worked
  off is its own in the directory as long as its rivals are quiet, and none of
  them can have come up after the conductor began, because its launchers were up
  before (`LaunchersFirst`).

**`DashboardProofs`**, under `ConfigAssumption` and `DashboardAssumption`:

- `PortsStayApart` (`AutoPortsDisjoint`) and `NoneAddedTwice`
  (`NothingAddedTwice`), for any number of editors, entries and ports, up to a save
  that leaves entries of two documents (`spliced`). The properties speak of the
  file; `ConfigInv` says the same of what each editor holds (`GoodEditor`), since a
  stale copy may be written over a newer file at any time, and of a picker, that it
  marks the agents of what it loaded. The lemmas `AddedGood`, `PickedGood` and
  `WithoutGood` say that each command turns a book without clashes into another,
  `NextPortFree` that the next port is above the two ports of every entry or is 0
  or 1, because the sum has wrapped.
- `DashboardTypeCorrect`, `LinesStayWhole`, `PanesStayOwn`, `PromptsStayKept`
  (`DashboardTypeOK`, `LinesWhole`, `OwnPane`, `PromptsKept`), from one inductive
  invariant, `DashboardInv`. `PaneInv` says that the lines of every pane are
  closed between two actions, which is why a text always starts a line of its
  own; `StateInv` ties the state of a pane to its client; `Keeps` says that a
  client has a prompt exactly while it waits, and that what it has answered, is
  answering and has queued is what was typed for it.

Most inductive invariants were model-checked before they were proved, on the
instances of the runs or larger ones: `TrackingInv` and `Routing` (3.5 million
states with serialized prompts, 2.3 million without), `PreloadInv` (1.1 million with
one consumer, 3.1 million with two), `CopyInv` without skipped chunks (1.1 million,
0.5 million with two conversations, 1.5 million with overlapping prompts) and
`DashboardInv` without spliced files (0.9 million, without `QuietLaunch`).

The recursive functions of `AgentsConfig` (`Picked`, `Without`) are reasoned about
by a least counterexample: `Least` (a set of numbers has a least one, from the
library's well-foundedness of < on the natural numbers), `Along` and `Recursion`
in `DashboardProofs`. An induction theorem that takes a predicate as a parameter is
not needed.

Every invariant and every action property of a passing run is proved, as is the
refinement. Model-checked only: liveness (`EventuallyReported`,
`ResponseEndsTurn`, `PreloadReturns`, `PromptSettles`), which is outside the
prover's reach.

## Not modelled

- Envelopes of prompt turns, permissions, terminals and chunks, and the update
  and delete operations: no part of the repository writes them, and a client that
  posted one over HTTP could change any row, which no property here excludes. So `kill_terminal` never finds a terminal, and the permission events of
  the webhooks never occur.
- The call a peer proxy makes once it has found its peer (`call_peer_http`):
  `api.rs` does not serve the routes it uses.
- Two clients in one session (`session/load`): the updates of a session come on
  one connection here.
- The restart of a process with a webhook forwarder: the forwarder and the
  reboot are in different modules, and no state of the forwarder outlives the
  process.
- PUT of the stream over HTTP, which creates it if it was deleted (an append of
  others after `DeleteStream` stands for both), and a deletion under a subscriber.
- What two processes on one storage directory do to each other inside the storage
  library: an append is atomic here. Another conductor is seen as what it appends.
- A mixture of two TOML documents that begins in the middle of an entry, and the
  changes it may make to the fields of that entry: a file that mixes documents is
  one the properties do not speak of, whatever it holds.
- The transports and the client of the public agent registry: adapters with no
  state of their own.
- The conductor itself, HTTP, file storage, WebSocket framing: external crates.
- Payloads, HMAC signatures, time stamps, drawing and scrolling of the terminal
  user interface, process launching, and the TypeScript packages.

## Plan

1. `WebhookForwarder` with `StreamServer`: reports repeated after a restart.
2. `session/load`: the updates of a session on two connections
   (`state.rs` takes the first turn it finds).

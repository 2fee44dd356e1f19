# Formal models of OpenCode's daemon core and its clients

TLA+ specifications of the coding agent in this repository: a Rust daemon
(`crates/*`) that runs agent sessions, and the clients that drive it (a Tauri
desktop application, a terminal interface, HTTP, WebSocket and SSE clients). The
modules are translated from the source; TLC checks them on small instances, and
TLAPS proves, for every instance, nearly all of the safety properties that the runs
check. `PROJECT.json` maps each definition to the lines it models.

Source paths below leave out the leading `src/`; `coordinator.rs` and the other
bare names are in `crates/core/src`.

## 1. The system

### Components, their state and their operations

| Component | State | Operations |
|---|---|---|
| **SessionCoordinator** (`coordinator.rs`) | `sessions` map of `ActiveSession`: event channel and broadcast, `history`, `pending_permission`, `active_turn_cancel` (the slot), `queued`; `shutdown_token`, task tracker | `get_or_create_session`, `run_turn`, `abort_turn`, `reply_permission`, `evict_session`, `set_model`, reaper, `remove_session`, `shutdown`, `compact_session`, `revert_session`, `unrevert_session` |
| **Orchestrator** (`orchestrator.rs`) | the local state of a running turn, its cancellation token, the activity's round count | `admit_input`, `promote_pending_steers`, `run_session_turn`, `recover_interrupted_tools`, `perform_compaction`, `run_orchestrated_turn` |
| **Providers** (`crates/providers`) | the state of a stream's decoder | lower a request, open it, parse chunks, finalize |
| **Tools and permissions** (`crates/tools`, `permissions.rs`) | files, the activity's read cache, saved rules | `read_file`, `write_file`, `edit`, `patch`, `bash`, `evaluate` |
| **Durable store** (`db.rs`, SQLite) | `session`, `session_message`, `session_input`, `checkpoint`, `context_epoch`, `usage`, index and permission rows | one transaction each |
| **Event delivery** (router task, `daemon/src/ws.rs`, `daemon/src/routes.rs` SSE, `apps/desktop/src-tauri/src/commands.rs`) | bounded event channel, history of 1000, broadcast ring, per client a receiver and a watermark | send, `try_send`, route, subscribe, replay, forward, lag recovery, close |
| **Desktop store** (`apps/desktop/src/stores/*.ts`) | active session, shown `model_config`, streaming flag, `pendingModelChange`, `subscriptionSeq` | `setActiveSession`, `setActiveModel`, `flushPendingModelChange` |
| **Terminal interface** (`crates/tui`) | socket, `latest_seq`, the rows it shows, stream buffer, dialog | `ws_manager`, `handle_event`, keys and commands |
| **Checkpoints** (`checkpoint.rs`) | shadow git directory, snapshot references, the session's revert pointer | `track`, `restore`, revert and unrevert |
| **Context epoch** (`context.rs`) | baseline, snapshot and revision of a session's context | load, `reconcile`, insert, advance |
| **Workspace index** (`indexer.rs`, `watcher.rs`, `symbols.rs`, `repomap.rs`) | symbol rows, a bounded channel, watcher events | scan, reindex, remove, render the map |
| **Fan-out and roles** (`orchestration.rs`, `run_orchestrated_turn`, `candidates.ts`) | concurrent streams with timeouts, outcomes, the comparison panes | resolve, run, cancel, collect, synthesise, persist, show |
| **MCP and LSP clients** (`crates/mcp`, `crates/lsp`) | pending requests, child processes, document versions | request, response, timeout, end of stream, notify |
| **Daemon life cycle** (`daemon/src/lib.rs`, `ecosystem.rs`) | tool registry lock, ecosystem slot | bootstrap, shutdown |

Catalogs and keys, configuration, export, authentication and the components of
the desktop window complete the list in `PROJECT.json`, each with the reason why it is
not modelled.

### How they interact

A client's prompt reaches `run_turn`. That call finds or builds the session's
live entry, checks the backlog cap, admits the input durably, and then either
queues it or starts a *drain*: a spawned task that runs one input after another
through `run_session_turn` and gives up the slot when the queue is empty. The
`sessions` Mutex is released between these phases and is never held across an
await, so calls of several clients, the drain, the router tasks, the reaper,
aborts and deletions interleave at every await.

A turn loads the context sources and reconciles them with the session's epoch,
builds a request from the rows, lowers it for its provider, gathers the stream into
blocks, stores the row, and executes the calls in it: each is judged by the rules,
asks the user where a rule says so, and runs while it holds the tool registry for
reading. The bootstrap, a task of the daemon, holds that registry for writing while
it starts the MCP servers. A tool that wrote a file tells the language server.

A turn sends events into a bounded channel. A router task takes each from there,
files durable ones in the entry's history and broadcasts all of them, under one
lock. Connections subscribe to the broadcast first and read the history
afterwards, and deduplicate by a watermark on the sequence. Permission prompts
go through a second router into `pending_permission`, where `reply_permission`
finds the oneshot the turn is waiting on.

The desktop store calls the coordinator through Tauri commands. Every one is
answered by its own task, so two commands of one window interleave as well; the
same holds for the requests on one socket. The terminal reads rows from the shared
database and takes events as the sign to read them again.

### What is hard here

- **The inbox**: three phases with the lock released in between, a queue in
  memory beside rows in the database, a steer that can be folded into a running
  activity while its copy is still queued, and entries that are evicted and
  rebuilt meanwhile.
- **Abort, deletion, shutdown** against a turn that waits for a human's answer, and a
  tool that panics in the task that has the slot.
- **Exactly-once delivery** over subscription, replay, an overflowing ring, lag
  recovery, reconnection and a rebuilt entry.
- **Late answers** in the desktop: a `set_model` that resolves after the user has
  switched, and a deferred provider switch that is re-applied later.
- **A terminal that reconnects** in the middle of a stream, a tool call or a prompt.
- **Crash and interruption** between the row with tool calls and the row with
  their results, and compaction that folds or deletes rows in the middle.
- **Streams that break off** between any two chunks, in three wire formats that cut
  arguments, ids and usage differently.
- **Files that others change** between the read a model saw and its write.
- **File snapshots** taken and restored by engines that share a directory and no
  lock, while tools and the user edit the same files.
- **Concurrent models** that finish, fail, hang and are aborted in any order, of
  which one answer has to be made.
- **Servers** that answer late, out of order or never, or ask something themselves, over
  pipes that fill up, and a fair lock held over a start and over a human's answer.
- **Two writers of the symbol index**, and two processes with turns of one session.

### What makes each component correct

| Component | Properties |
|---|---|
| Coordinator | at most one drain per session; nothing stranded in the queue; prompts answered in accepted order; an input promoted once; an abort or removal ends the turn; accepted prompts run (what is queued behind a panic excepted) |
| Event delivery | no event twice, durable events in order, no silent gap, everything filed arrives |
| Desktop store | a switch is written only to the session it was picked for; the window shows what the user selected last |
| Terminal | what it shows is what was stored when it could last read it, after any broken connection; the dialog is the request the turn waits for; an answer counts for that request alone |
| Turn loop | every request pairs each tool call with exactly one later result; nothing in between; compaction keeps the pairs and the newest prompt; every provider accepts the request |
| Providers | the row holds the answer, or a beginning of it; each call runs with its own arguments; all tokens are charged |
| Tools, permissions | nothing reserved for the user runs unasked; edits and patches change what they say and nothing else; what others wrote is not overwritten unseen |
| Checkpoints | an undisturbed snapshot is of one moment; a backup precedes the first file replaced; unrevert brings back what revert replaced; an undisturbed restore writes its tree, removes what the tree lacks and spares large files |
| Context epoch | the model was told what the snapshot says it was; the baseline never changes; every change is told in the end |
| Workspace index | the table converges to the files; the map keeps its budget |
| Fan-out and roles | synthesis sees exactly the candidates that finished; an abort leaves no answer and no error; a stored answer is charged with the usage of every model that ran; no model can hold the turn; the panes show each model's end |
| MCP, LSP, registry | each response goes to its own request, once, if ids are not used twice; what a server learns of a file comes in order; neither a server nor the lock holds a turn for good |

`PROJECT.json` lists the hazards, each at the line where it bites, with the
properties that cover it or the reason why none does.

## 2. Modules

```
SessionInbox            what a session promises about prompts (abstract)
   ^ implemented by
SessionCoordinator      one session of the coordinator
   ^ MCSessionCoordinator, SessionCoordinatorProofs
EventDelivery           events of one session to its clients     ^ MCEventDelivery, EventDeliveryProofs
DesktopSession          the desktop store against set_model      ^ MCDesktopSession, ClientProofs
TerminalClient          the terminal against a session's turn    ^ MCTerminalClient, ClientProofs
RequestLowering         the transcript as each provider gets it
   ^ extended by
TurnLoop                the transcript and the turn loop         ^ MCTurnLoop, TurnLoopProofs
ProviderStream          one answer, from chunks to a row         ^ MCProviderStream, CheckpointsProofs
TextEdits, Permissions  what tools do to a text; the rules
   ^ extended by
FileTools               tool calls, their permission, the files  ^ MCFileTools, FileToolsProofs
Checkpoints             snapshots of the workspace, revert       ^ MCCheckpoints, CheckpointsProofs
FanOut                  multi-model turns and their panes        ^ MCFanOut, FanOutProofs
ToolServers             MCP, LSP, bootstrap, the registry lock   ^ MCToolServers, ToolServersProofs
WorkspaceIndex          the symbol index and the map
   ^ extended by
ContextEpoch            what a model is told of its surroundings ^ MCWorkspace, TurnLoopProofs
```

The order of importance: the coordinator decides whether prompts run at all; events
decide whether clients see it; the turn loop, with the streams and the lowering,
decides whether a provider accepts what the session sends and whether its answer is
kept; the tools and checkpoints decide what becomes of the user's files.

### SessionCoordinator, SessionInbox

One session. Input identities serve the `run_turn` call, the inbox row, the turn
it opens and that turn's token, since an input is submitted by one call and
popped at most once. `live`, `life`, `queued`, `active` and `pending` are the
map entry; `life` numbers the entries built, so that the router of an old entry
is told from that of the new. `admitted`, `promoted` and `seq` are rows. `call`
and `turn` are program counters: an action is the code between two awaits, or
one transaction.

- `Lookup`, `Build`, `CheckCap`, `Admit`, `Enqueue`: `get_or_create_session` with
  its unlocked row lookup, and the three phases of `run_turn`.
- `Begin` to `Settle`: `run_session_turn` as far as the coordinator can tell its
  steps apart, and the drain's hand-over. `Panics` is a tool that panics, which ends the
  drain's task on the spot.
- `Abort`, `Reply`, `Evict`, `DeleteRows`, `RemoveSession`, `DeleteRoute`,
  `Shutdown`: the other handlers. The desktop's delete command cancels the turn;
  the daemon's route only takes the entry out of the map.

The router's `recv` and its lock are one step: the router is the only
reader of its channel, and nothing another task does between the two tells the
states apart except a removal, which drops the prompt either way.
Histories (`opener`, `dropped`, `failed`, `orphaned`, `before`) are read by
properties only. `SessionInbox` states the promise with a queue, one open activity
and each input's place among the messages; the refinement maps the queue to
the inbox, the slot to the open activity, and the order of `promoted_seq` to
places. An input that is deleted or torn out is no part of that promise, so the
refinement is checked with `MayForce = FALSE`.

### EventDelivery

A broadcast channel is the log of what was sent on it, a receiver is a position
in that log, and it lags when more than `RingCap` entries lie ahead. Each entry
built for the session has its own log. `Allocate` and `AllocateFails` are
`next_event_seq` (with its fallback to 0), `SendDurable` waits for room in the
channel, `SendEphemeral` is the `try_send` of deltas, `Route` the router under
its lock. A connection runs either the WebSocket's and desktop's forwarder
(`Subscribe`, `Replay`, `Forward`, `Lag`, `Recover`, `Closed`) or the SSE stream
(`SseNext`, which keeps no watermark, with its own idea of which events are
durable). `Disconnect` loses a suffix of what was written to the connection; the
client comes back with an empty store or with the cursor of what it has.

### DesktopSession

The store's functions cut at each `await`, against the coordinator's halves they
interleave with. `gen` is `subscriptionSeq` and names an attempt to attach;
`view[g]` says how far that attempt has come. `Resolve` is the continuation of
`setActiveModel`, with the check that the session is still the active one before
it attaches again, and `Flush` the effect on `isStreaming` that re-applies a
deferred change. Only the provider of a `model_config` is kept: a change of model
within a provider never evicts.

### TurnLoop

The `session_message` rows of one session and the turn that reads and extends
them. A row keeps its kind, its sequence, the tool calls it makes or answers and,
for a compaction marker, the sequence through which it folds. Token counts are
abstracted: whether a request is too long, and which clean cuts fit, is left open,
so the model compacts wherever the code might. `Fails` is an error from anywhere
and the end of the process: what is not in a row is gone. A call is told apart by its
message and its place in it; its id (`Id`) is that, or, if a Gemini stream made it up, its
place alone, so that calls of two streams may bear one id. `Recover` compares ids. Manual
compaction (`Prune`) and a revert's note come at any moment.

### Checkpoints

A tree is a function from files to contents, and contents are small or large:
`should_skip_snapshot` leaves out what exceeds 2 MB, so `Staged` keeps the entry
the index has for such a file. `GitSnapshotEngine::open` makes a mutex per engine,
and every caller opens an engine of its own; hence no lock joins two operations,
and each visits its files one by one in `TrackFile`, `CheckoutFile` and
`RemoveFile` with an in-memory index that replaces the file's at the end. The
actors are the session's turn, whose `turn_start`, `pre_step` and `post_step`
checkpoints are one pair of actions (`Checkpoint`, `Record`), and the calls of
`revert_session` and `unrevert_session`. `Revert` chooses its target before it
takes the backup; `TrackFails` and the second disjunct of `Backup` are the errors
it goes on after; `Fails` is an error anywhere else, an abort, and the end of the
process. `Edit` is a tool, the user or another session. `before`, `alone` and
`truth` are histories: what an operation found, whether anything has interfered
since, and which workspace a row is known to show.

A restore's look at a file and its removal are two steps (`LooksAt`, `RemoveFile`), between
which anything may happen to it. A snapshot's look at a file's size and the reading of its
contents are one. Ignored files are neither staged, restored nor
removed, and are left out. Restoring one file, diffs and garbage collection have no
caller in the repository.

### FanOut

A turn whose session asks for several models: `run_fan_out` and
`run_role_pipeline` with the streams they start. Models 0 to N-1 are candidates or
stages, `Final` is the stream that becomes the answer. `run[m]` is how far a
stream has come. A biased `select!` looks at the token once per poll, so `Poll` and
`Expires` (a poll that the timer causes) are steps of their own, and a stream that is
being polled may still finish after an abort. Polls that find nothing change
nothing and are left out. `join_all` polls in order and the channel serves its
senders in order, so candidates announce themselves in the order of their
indices. What follows `fan_out` up to the next await is one step: `Collect`,
`BeginStage` and `EndStage` look at the token and decide. Text is abstracted to
whether there is any, usage to which models reported some, and an invalid
configuration to one value.

`wire` is the way of the candidate events to the desktop: what does not fit pushes
the oldest out, as the broadcast ring does, and nothing of it is replayed.
`PanesAfter` is `handleCandidateEvent`. Initially panes of an earlier turn may be shown.

### RequestLowering

Pure operators: a session's rows and context updates to the messages of each of the
three protocols. A message keeps its role and its kind of content; the calls and results
in it keep their identity, be their ids the provider's or made up. `PushOrMerge` is
where Anthropic's lowering joins neighbours of a role, `CanUseNative` the test whether
an update may be sent as a system message within the conversation. `TurnLoop` evaluates
`Accepted` on every request it reaches, with what each provider's interface requires
(alternation, the results of one message's calls in the next message, and so on).

### ProviderStream

One answer. The provider has an arbitrary message of up to `MaxItems` blocks (text,
thought, call) and sends it in any fragmentation its protocol has; `ParseAnthropic`,
`ParseOpenAi` and `ParseGemini` are the chunk parsers with their state (open blocks,
call slots, minted ids, usage), `Receive` the pump around them, `FinalizeOpenAi` and
`FinalizeGemini` what follows the last chunk. `Take`, `TakeError`, `TakeEnd` and
`SeeAbort` are the loop of `run_session_turn` that gathers events into blocks and
settles what is stored, run and charged. Text and arguments are lengths: what counts
is how much of them has come, and whether it was garbled. `Request` is the opening of
a request with its refusals, and the fold that follows an overflow.

### TextEdits, Permissions, FileTools

`TextEdits` has the replacement of `edit`, and of `patch` the search for a chunk
(`seek_sequence` with its four degrees of looseness, end-of-file chunks, the dropped
empty line) and the replacements. A text is a short sequence of characters.
`Permissions` has the default rules of an agent, the pattern match and the last match.
`Matches` states what `match_resource` searches for, how the tokens of the pattern can
take those of the resource one after the other. `FileTools` is a session's tool calls
one after the other: `Request` judges and asks, where the resource is the tokens of the
path, the command or the patch (`said`), `Answer` and `SaveRule` are the two halves of
`reply_permission` between which the turn goes on, `Look` and `Put` are a file tool's
read and write, between which others may change the file. `cache` is `file_read_cache`,
keyed by the file, while rules go by the spelling. A command that has been aborted may
still end (`CommandEnds`). `hunks` is what is left of a patch; a failing hunk leaves the
earlier ones applied.

### ToolServers

Tasks (two turns and the bootstrap), one MCP server and one language server.
`queue`, `readers` and `writer` are Tokio's fair `RwLock`. A request to the MCP
server is cut into its registration, the write (which blocks on a full pipe), the
wait, and the time-out or the abort. `Route` is the reader, which takes any line with an
id for the answer to the request of that id; `ReaderEnds` and `ReaderFails` are its end,
with its server or before it, after which requests are still written and wait out their
time. The server answers in any order, errs, asks something itself (`ServerAsks`, with an
id of `OwnIds`), or dies. The turn after a file was written is
`ReadBack`, `TakeVersion`, `Send` of `notify_file`, with the manager's and the
client's locks where they are taken.

### TerminalClient

`ws_manager` and the interface's main loop against one session's turn on the daemon.
`wire` holds what the socket has been sent and not read, `ctl` the terminal's event
channel, `out` its requests; `rpcs` are requests read by the daemon, each a task of its
own, so any may be processed next. `Break` loses both directions at once, `Connect`
and `Replay` are the new socket's subscription and history. `Handle` is
`handle_event` with the reloads of rows, which may fail (`Reload`). `OtherCompacts` is a
compaction that no event announces. `behind` says that since the list was last read a
command emptied it, a reading failed, or rows were dropped that way.

### WorkspaceIndex, ContextEpoch

A file is what its symbols are. The scan walks, reads in parallel (`ScanReads`),
sends batches through a bounded channel, and one writer stores them; the watcher's
consumer handles one path at a time, a directory by a walk. `errors` bounds failing
statements. `orphaned` collects the rows the code leaves behind, each at the step
that does so. A situation whose scan is over starts with the rows of every file that has
symbols (`ScannedAssumption`). `RepoMap` renders the table under its budget: `Ranked`
is the sorted list of the files that have rows, and the rendering and the cost of a map
are recursive functions of a list's front and last element, so that they can be proved
about.

`ContextEpoch` adds a turn's loading of the four sources (the map among them), the
comparison with the epoch's snapshot, and the insert or the conditional advance that is
one transaction with the update row. `told` are those rows, `Fold` their compaction, and
`lost` what a fold may have cut. Two runners are two processes on one database.

## 3. Runs

| Run | Question and result |
|---|---|
| `coordinator_safety` | Three concurrent prompts, one a steer: one drain at a time, nothing stranded but behind a panic (`Inv`), messages in the order of acceptance and, within an activity, of admission (`PromptOrder`), no double promotion, and the coordinator implements `SessionInbox` |
| `coordinator_live` | Two prompts, fair tasks, deletion and shutdown at any point: aborted and torn-out turns end (`StoppedTurnsEnd`), accepted prompts run (`AcceptedRuns`) unless a panic has ended the drain before them |
| `events` | Nothing twice and in order (`OnceInOrder`), nothing skipped by socket or SSE (`NoGap`), everything filed arrives (`Delivered`) |
| `desktop_safety` | Overlapping and deferred model switches: none reaches a session it was not picked for, and the window follows the user |
| `turn` | Activities with steers, tool rounds, compaction, crashes, manual compaction and revert notes: calls and results pair up and stand together (`Paired`), save calls that recovery overlooks because their made-up id is not new, the prompt is in the request (`HoldsPrompt`), every provider accepts it as lowered (`Lowerable`) |
| `provider_stream` | Every answer of up to three blocks, in every fragmentation of three protocols, cut off, failing, garbled or aborted anywhere: what is stored and run is the answer or a beginning of it (`Kept`), and its tokens are charged |
| `tools` | Every pair of tool calls, with rules saved late, aborts, failures and one change by someone else: consent, a truthful read cache, exact edits, nothing overwritten unseen |
| `checkpoints` | Snapshots of one moment, a backup before the first file replaced and an unrevert that brings it back (`Undoable`), a restore that does to each file what it should (`RestoreExact`) |
| `fan_out` | Fan-outs and role pipelines whose models are missing, fail, hang or are aborted: synthesis of the survivors, quiet aborts, a stored answer with the whole bill, faithful panes, an end |
| `tool_servers` | Late, swapped and missing answers, a request of the server's own, full pipes, dying and silent servers, the bootstrap and two turns at one lock: answers pair up (`Matched`), what is announced of a file is in order, every turn ends |
| `terminal` | A socket that breaks at any point of a turn, reads that fail, another client: the screen is what is stored (`ScreenTrue`), the dialog is the request the turn waits for, consent counts for what was shown, answers are shown in the end |
| `workspace` | Scan, watcher, failing statements and two turns on one epoch: a settled index is current, the map keeps its budget, the model was told what the record says (`RecordTrue`), the baseline is stable, every change is told in the end |

An invariant of a run is a conjunction of named parts, the module's type invariant
`TypeOK` among them. `CHECK_DEADLOCK FALSE` everywhere: a session with nothing to do,
and a client that never calls again, is a legal end.

### Bounds, and why they are enough

- **Inputs** (3 for safety: two "queue", one steer; 2 for liveness). An order
  between two prompts needs two and the turn they wait behind; a fold needs a
  steer and the activity it joins. Three also reach the backlog cap.
- **MaxBacklog = 1** for 32. One waiting input fills it, so the rejection and the
  push that overtakes the check both happen.
- **MaxTurns** 1 or 2 for the provider rounds of an activity: one fold per round;
  a second round adds a fold after a tool result, which liveness and `TurnLoop`
  take.
- **MaxLives = 2** bounds the entries built per session: an old entry's tasks beside
  the new entry's is the case, and a third entry adds none. The
  bound stops evictions, never a build.
- **MayForce, MayFail** say whether a session may be deleted or shut down and
  whether a turn may fail before its promotion. Both are on for liveness. In the
  safety run `MayForce` is off because `SessionInbox` makes no promise about a
  deleted session; the proofs need neither bound.
- **RingCap 1, HistoryCap 2, ChanCap 1** with `MaxEvents = 3`: the second event not
  read overflows the ring, the third durable one trims the history, the second
  unrouted one blocks the turn. `MaxBatch = 2`: two tool outputs share a sequence.
- **Sessions 2, Providers 2, Calls 2, MaxGens 3** in the desktop: two switches
  overlap, each over a change of session, and the third generation is the
  re-attachment of the first. `MaxLives = 1` there: an evicted entry is not rebuilt.
- **MaxCalls 2, KeepSeqs 2** (for 10), **MaxRows 7, MaxSeq 9** in `TurnLoop`: an
  activity with a tool round and two calls is cut after the first result, repaired,
  compacted, and opened again. `KeepSeqs = 2` lets a prune cut inside a transcript
  this short. **Minted = {2, 4, 6, 8}**: a message at an even sequence is a Gemini
  stream's, whose ids start again. Rows come at any parity, so transcripts with made-up
  ids only, with none, and with both occur.
- **MaxItems = 3** in `ProviderStream`: a block between two others, two calls beside a
  text, a call between thoughts. Each block comes whole or in two parts.
- **Eleven calls, MaxCalls 2, MaxEdits 1** in `FileTools`, over two files with
  five spellings: each call is one of the tools or a patch with one of the shapes that
  differ (two chunks, end of file, a loose match, a move, an addition), and every
  ordered pair of them runs, under two agents. The second call is the one that meets
  the first one's cache, rule or command; the edit is the one change by others.
- **Files 2, Small 2, Large 1, Calls 1, MaxRows 3, MaxEdits 1** in the checkpoints:
  a tree is torn between two files; a turn's row, a backup and a further snapshot,
  and one edit that may fall anywhere and make a file grow, shrink, appear or go.
  The initial workspace is arbitrary. A call that wants a row when `MaxRows` are
  written stays where it is, which is the effect of the bound alone. The
  turn beside one call gives two engines at work at once.
- **N 2, RingCap 3, MaxTurns 1** in `FanOut`: two candidates give every pair of
  outcomes and every order of their steps; two stages give a first, a last and
  what is between them. Three events in the buffer hold a candidate's whole life,
  and a fourth pushes one out. A turn begins with everything but the panes reset,
  and the panes before it are any of an earlier turn's, so one turn is enough.
  `Leave` only happens while nothing is lost yet: a second loss adds nothing.
- **Room 1, MaxPrompts 2** in `ToolServers`: one message fills a pipe, so a second
  writer blocks, and the two turns meet each other, the bootstrap and the servers.
  **OwnIds = {3}**, the first id the daemon gives to a tool's call: the server's own request
  may meet that call, come before it, or after. It asks only while it serves a request, once
  per id; at other times, too, would only add lines whose id nobody waits for.
- **MaxPrompts 1, MaxMessages 2, MaxBreaks 1, MaxActs 1, Keep 1** in `TerminalClient`:
  a tool round has two messages; one break may fall at any point of them; one act is
  an Esc, a command, an answer or a compaction from another client, or a read that fails.
- **Two directories, one file the scan sees and one it ignores, MaxSymbols 2,
  ChannelSize 1** in the index: a rename needs two, a full channel one. With a budget
  of 4 the richest file is cut and a second one omitted. Three initial situations
  divide the work: a scan over an old table, one process whose scan is over, and two
  processes whose turns overlap; two or three changes and one failing statement each.

Symmetry is used for prompts of one delivery mode and for sessions, providers,
calls, files and small contents, in runs of safety properties only. `ImplementsInbox`
is a property of `coordinator_safety`, whose specification states no fairness; the
refinement mapping is symmetric in the permuted prompts.

### Fairness

Weak fairness of each call's next step, of each turn's next step and of the two routers:
a spawned Tokio task that is ready runs, and a database transaction ends. `TurnStep`
being fair includes that a provider's stream ends, that it answers a request
(`orchestrator.rs:612` waits for that without looking at the token), and that the lock
of the tool registry is got (1014): `StoppedTurnsEnd` and `AcceptedRuns` have these
three premises. `ToolServers` shows when the third holds: once other sessions'
permission prompts are answered. A panic of a tool is a step that may, and need not, be
taken. In `EventDelivery`, the forwarder of a connected client is fair: it runs as long
as the socket takes its writes. Nothing is assumed of clients: no reply, abort, prompt,
eviction or reconnection ever has to happen, and turns in `EventDelivery` and
`DesktopSession` need not go on. `AcceptedRuns` therefore has the premise that no
permission prompt stays unanswered for ever; it is a premise about users, and traces
that satisfy it reach every promotion. In `FanOut` a turn's steps, a poll that has begun
and a timer are fair; a provider is not: `Poll` never has to happen, which is a model
that hangs.

`ToolServers` takes the daemon's tasks, the time-outs, the servers' reading of their
pipes and, as the premise of `TurnsEnd`, the user's replies as fair; a server's answer
is not. In `TerminalClient` the announcement of a row that has been stored, both ends of
the socket, reconnecting and the interface's loop are fair; the rest of a turn and keys
are not. In `ContextEpoch` the scan, the watcher's consumer and a turn that has begun
are; `EventuallyTold` speaks of sessions that are prompted again and again.

## 4. Proofs

`SessionCoordinatorProofs` proves, for every set of inputs and steers, every
backlog cap and every value of the bounds:

| Theorem | Statement |
|---|---|
| `TypeCorrect` | `Spec => []TypeOK` |
| `DrainInvariant` | `Spec => []DrainInv` |
| `NoParallelDrains` | `Spec => []OneDrain` |
| `NothingStranded` | `Spec => []NoStrandedInput` |
| `CoordinatorInvariant` | `Spec => []Inv`, all of the above |
| `NeverPromotedTwice` | `Spec => PromotedOnce` |
| `PromptsInOrder` | `Spec => []PromptOrder` |
| `InboxImplemented` | `Spec /\ []Kept => ImplementsInbox` |
| `InboxKept` | `MayForce = FALSE => (Spec => ImplementsInbox)` |

They rest on `InputsAssumption` (finitely many inputs, none of them `None`),
`SteersAssumption` and `BoundsAssumption`, which TLC evaluates in each run.

**The argument.** `OneDrain` alone is not inductive: a state in which the queue
holds an input whose turn already runs satisfies it, and the next hand-over breaks
it. `DrainInv` adds what the code maintains around it:

- `SlotHasDrain`: a taken slot of a live entry names a turn that runs, or one that a
  tool's panic has ended (`IsDead`): nothing hands that slot over any more;
- `FreeSlotNoWork`: a free slot has an empty queue;
- `QueuedWaits`: whatever is queued has been accepted and has no turn yet;
- `QueuedOnce`: nothing is queued twice;
- `CallBeforeTurn`: no turn exists before its `run_turn` has returned.

`Enqueue` and `Settle` are the two steps in which all the parts depend on each
other: a push starts a drain exactly when the slot is free, and then the queue was
empty (`FreeSlotNoWork`), so the input popped is the one pushed; a hand-over pops
an input that waits (`QueuedWaits`) and leaves no copy (`QueuedOnce`). Eviction
needs `Idle`, so with `OneDrain` no turn runs. A removal voids the premise of
`OneDrain` if a turn was running, and empties the queue. Steps that only move a
turn or a call on share the lemmas `TurnMovesOn` and `CallMovesOn`. Because
`DrainInv` is proved with `MayForce` arbitrary, the theorems cover deletion and
shutdown, which the safety run leaves out. `NoStrandedInput` follows from
`SlotHasDrain` and `FreeSlotNoWork`, and with them a panic is the only way in which a
queued input is left without a turn to pop it. `PromotedOnce` is proved step by step from the
type invariant: the two actions that write `promoted` ask for `promoted[i] = 0`.

**Order and refinement.** `PromptOrder` has a part about rows and one about waiting.
`RowOrder` strengthens the first: admission and promotion numbers are given out once
and never run backwards (`Numbered`, `Distinct`), an activity belongs to the input that
opened it (`Opened`), and a fold leaves no pending steer behind that was admitted before
one it took (`Folded`), which is what a later fold of the same activity relies on.
`WaitOrder` strengthens the second: an input that has seen another accepted stands behind
it in the queue until that one is settled (`Behind`), and whatever is accepted and not
settled waits in the queue or in the slot (`Accounted`), so the hand-over cannot pass it.

The refinement maps rows to places in the abstract line: a row's place is its rank among
the numbers given out. `RanksOf` and `PlacesAdded` say how ranks change when a number
beyond all others is added (`Admit`, `Promote`, `Fold`), and each action is then shown to
be a step of `SessionInbox` or a stutter. A forced deletion removes rows and a shutdown
settles inputs whose turn never ran, which the abstract inbox does not promise to bear;
`InboxImplemented` therefore has the hypothesis that the row is kept and the daemon up
(`Kept`), and `InboxKept` shows that this hypothesis holds by itself where no one forces
anything, which is the case the safety run checks.

`FanOutProofs` proves, for every number of models, every size of the buffer and
every number of turns, from `ModelsAssumption` and `BoundsAssumption`:

| Theorem | Statement |
|---|---|
| `QuietAbort` | `Spec => []AbortIsQuiet` |
| `SynthesisComplete` | `Spec => []SynthesisOfSurvivors` |
| `BillComplete` | `Spec => []Billed` |
| `PanesFaithful` | `Spec => []ComparisonFaithful` |

`AbortIsQuiet` says something of an aborted turn only once it has ended. Its
strengthening `Quiet` says how such a turn still runs: in a phase whose next step
looks at the token, which stays cancelled, and, if the final stream has been
opened, with that stream not polled since, so that its next poll can only end it
as cancelled. `Accounts` ties answers and errors to turns that have ended. Every
way out of such a phase then either stops (`StopsQuietly`) or goes on to another
of them.

`SynthesisOfSurvivors` looks at the turn after the answers were handed over, so
its strengthening `Pipeline` says what a role pipeline has on reaching a stage:
an answer from every stage before it, nothing from those after it, and, in the
last stage with a synthesizer of its own, that synthesizer. A fan-out needs no
such history: all streams have ended when `Collect` reads them. Both modes hand
over in `SynthesisBegins`. A step of a stream cannot undo any of it, since what
has ended stays ended (`OneStreamMoves`).

`Billed` and `ComparisonFaithful` need the types (`TurnTypes`, `ViewTypes`) and `Begun`:
before the first turn nothing has run, what has text or usage has run, and candidates run
only while they are gathered, the final stream only in its phase. So when an answer is
stored nothing reports usage any more (`BillStep`).

The comparison relates three things a turn writes at different times, the streams, the
events on their way and the panes. `Queue` says that events come in the order of their
turns and that a pane of this turn is never in front of an event of an older one.
`Following`, which holds while nothing of the turn was lost, has two parts. `Opening`: a
candidate that has still to start has neither event nor pane of this turn, candidate 0
starts before any other, and once someone has started, the panes of the turn before are
wiped or the start that wipes them is on its way. `Followed(i)`, for a candidate that has
started: its start is its first event and no start of candidate 0 comes behind it (that
one would wipe its pane); its text and its end are in its pane or will be, and its end is
the end its stream had. Without the order of starts that `join_all` gives
(`AnnounceInAnyOrder` is the mutant) `Opening` is not kept. Each step of a stream adds at
most one event behind all others (`Adds`), and a delivery takes the first.

`ClientProofs` is about the two clients. Of `TerminalClient`, whose variables it
extends, it proves for any number of prompts, messages, lost connections and commands,
from `BoundsAssumption`:

| Theorem | Statement |
|---|---|
| `ConsentOwn` | `Spec => []ConsentIsOwn` |
| `ScreenAlwaysTrue` | `Spec => []ScreenTrue` |
| `DialogAlwaysCurrent` | `Spec => []DialogCurrent` |

`ConsentIsOwn` needs that an answer under way was given to the dialog of its request,
and that a dialog is of a request that was made. The other two are statements about an
interface that has caught up, `ScreenTrue` of one that is not `behind` either, so
`TerminalInv` says what is still going to be read. `SocketInv`: the history's numbers go
up, what is in the socket is later than what was read from it, and a turn's open request
is the last event of the history. An event is `Ahead` if it is in the socket or among
those the daemon sends again. `ShownInv`: for some n, the screen shows the first n rows,
and the announcement of every later row is `Ahead` or in the terminal's channel; a
reload makes n the length of the rows. `AskInv`: an open request is shown, answered,
`Ahead`, or in the channel, with no older request behind it. `BufferInv`: a delta that
comes behind its message's completion, in the channel or in the socket, was caught in
the ring between subscription and replay. When the socket and the channel are empty, the
three are the properties.

Of `DesktopSession`, which it extends too (that is why this module's definitions are
called `DesktopInit`, `DesktopNext` and so on), it proves for any sessions and providers,
any number of overlapping `set_model` calls and attempts to attach, from `NoneAssumption`
and `DesktopBounds`:

| Theorem | Statement |
|---|---|
| `SwitchesStay` | `DesktopSpec => []SwitchStays` |
| `DisplayFollows` | `DesktopSpec => []DisplayFollowsUser` |

A row is written from a call, and a call is issued from the pending change or a
click, so `NoForeignWrite` needs `Keyed`: every call under way and the pending change
carry a provider the user picked for their own session. `Places` keeps the views and
the entries being built in their types. The invariant is proved in four parts
(`Parts`, `Rejoined`), since most steps leave three of them alone. `DisplayFollowsUser`
is inductive as it stands: `Attach` runs for the session just selected, or for the
active one.

`CheckpointsProofs` proves, for any files and contents, any number of operations at
once and any failures of them, from `ContentsAssumption` and `BoundsAssumption`:

| Theorem | Statement |
|---|---|
| `RestoresExact` | `Spec => []RestoreExact` |
| `SnapshotsFaithful` | `Spec => []SnapshotFaithful` |
| `RevertsUndoable` | `Spec => []Undoable` |

All three need to know what an operation still has of its beginning at each stage.
`Total` says that the workspace gives every file, and nothing else, a content. `Stages`
ties the stage to the kind of operation; `Solo` says that an operation nothing has
disturbed is the only one under way, so that no other can be half-way through the index;
`Tracking` that such an operation has staged, of every file it has visited, what was
there when it began; `BackedUp` that a revert past its backup has a row that holds the
workspace it began with; `Restored` that a restore has made of every file it has passed
what it should (`RestoredAs`), and has left those it has yet to come to, and the one it
is about to remove, as they were. `RestoreExact` is that with no file left, and
`RoundTrip` then follows from `Restored` and `SnapshotFaithful` of the backup.

The same module proves what else a turn leaves behind, the row of `ProviderStream`, for
any set of wire protocols and answers of any length, from `DialectsAssumption` and
`ItemsAssumption` (the definitions are called `StreamInit`, `StreamNext` and so on
because the two modules meet here):

| Theorem | Statement |
|---|---|
| `KeptHolds` | `StreamSpec => []Kept` |
| `ChargedInFullHolds` | `StreamSpec => []ChargedInFull` |

The properties speak of a turn that is over, so `StreamInv` says of every turn under way
how the three places that hold a part of the answer fit together. `Stands`: the provider
is at a position it can come to. `DecodedTo`: the decoder's slots, and the ids it has
minted, are those of the answer up to that position. `Gathering`: the blocks, once the
turn has taken the events that wait, are what was sent up to that position (`Held`: one
block for each item passed, and of the current one as much as has come), and when two
events wait the blocks between them are too; after OpenAI's `finalize`, which yields one
event for each call, they are so with the calls before the next completion in their final
form and the others unfinished (`Finals`, `Completed`). `Told`: what usage the decoder
has counted, and that the last event that waits, or the turn, has all of it once the
stream is over. A Gemini answer goes on after a garbled chunk, with a gap: of that one only
`Bounds` holds, which keeps its blocks in their type. `AnthropicSteps`, `OpenAiSteps` and
`GeminiSteps` reduce what a provider may send to a few cases by position;
`ReceivesAnthropic`, `ReceivesOpenAi` and `ReceivesGemini` show for each that the
decoder's state and its events follow (`Follows`), from lemmas about the blocks alone:
an event puts one block at one place (`Puts`), and that keeps `Held` (`Grows`, `Passes`,
`Replaces`). `finalize` names its calls by rank (`Ranked`), not with `SetToSortSeq`,
and the blocks are an argument of `Gathered`, so that two events can be composed.

`EventDeliveryProofs` proves, for any number of clients, events and retained events,
from `CapsAssumption`:

| Theorem | Statement |
|---|---|
| `DeliveredOnceInOrder` | `Spec => []OnceInOrder` |
| `DeliveredWithoutGap` | `Spec => []NoGap` |

The invariant has a part for the entry (`EntryInv`: the channel, the logs of all entries
in one line, the history against the live entry's log) and two for each client:
`ClientInv` says that it follows the log its receiver reads and has applied nothing that
was not logged, `Caught` that whatever a live connection has passed beyond the client's
cursor is covered: delivered, trimmed, or lost with a lag the client is told of. Logs
only grow, so the parts of a client survive every step that is not its own.
`DurableAfter` names the elements of the history past a watermark by their rank (`Nth`),
not with `SelectSeq`, of which nothing could be proved. (`Only` of `TerminalClient` is a
recursive function for the same reason.)

`ToolServersProofs` proves, for any tasks, files and bounds, from `TasksAssumption`,
`BoundsAssumption` and `OwnIdsAssumption`:

| Theorem | Statement |
|---|---|
| `RequestsMatched` | `Spec => []Matched` |
| `LspToldInOrder` | `Spec => []LspInOrder` |

The invariant `Served` has seven parts. `Pairing` is about the table of pending requests:
an identifier is given out once (`Fresh`), an entry that is not one of an aborted call has
a task that waits with its identifier, and the other way round (`Exact`), and an answer has the
identifier of its request, or of one the server has used itself (`Right`). `Honest` says
what the server knows: it answers requests it has heard, and lines of its own bear ids it
has asked with. `LockInv` says that a turn is in the queue of the
registry's lock once and holds it where it must, `Owned` who may have a request, `Piped`
that the pipe holds at most `Room` lines of identifiers given out, and `Tally` counts the
prompts and turns still to come, which bounds the identifiers. `Telling` is about the
language server: what it has been told stands in the order of the versions and of the
texts (`Ordered`), as long as no two turns have written one file at the same time; for
that, the turn that is telling must be the only one (`Alone`) and have the newest version
and text (`Newest`).

`TurnLoopProofs` proves, for any bounds of rows, sequences, turns and calls, from
`BoundsAssumption` and `MintedAssumption`:

| Theorem | Statement |
|---|---|
| `RequestsPaired` | `Spec => []Paired` |
| `PromptHeld` | `Spec => []HoldsPrompt` |
| `RequestsLowerable` | `Spec => []Lowerable` |

A request is what is left of the transcript, so the invariant `TurnInv` speaks of the
transcript, as a set of messages told apart by their sequences. What holds of it
whatever interrupts a turn is `Story`: a call bears the sequence of its message
(`Numbered`), is answered at most once (`OnceIn`), with nothing but results and notes
before its result (`Together`), and if it is not answered, nothing but results and notes
stands behind it (`OpenLast`), which is why recovery, which looks at the last assistant
message only, misses none but those whose id it finds among the answered ones
(`missed`); the parts that speak of calls leave these out, and `OverlooksRepeated` says
where they come from. `Uncut` says that no marker's boundary separates a call from its
result or folds the last prompt, and `Unfolded`, that as long as nothing was pruned the
first message that is not folded is a prompt; both use that a boundary lies directly
before a live prompt (`LiveNeighbours`). `Phased` adds what depends on the phase: before
a message that is no result is written, all calls are answered (`AllAnswered`), or the
turn was aborted and writes nothing more; in the tool loop, the calls under way are
those of the last message (`Running`). `Sent` says what a request keeps of all this. The
lemmas `Said`, `FoldedBefore`, `Answered`, `Pruned` and `Assembling` are about sets of
messages alone: a message is added, a boundary is set, results are added, rows are
deleted, a request is made. Each action is then an instance of one of them. `Live` and
`Prune` name the rows they keep by their rank, as above.

`RequestsLowerable` needs no further invariant of the transcript. As long as nothing was
pruned and neither a note nor an overlooked call stands in the request, `TurnInv` gives
it a `Shape` (`ShapeOf`): results are those of the calls of the assistant message right
before them, each call is answered in exactly one message, and a prompt comes first. The
rest is about the operators of `RequestLowering`, which put a request on the wire
message by message. For each provider there is a state of what has been sent after `k`
messages: `AnthropicState` (the roles alternate, and the last calls are answered as far
as the messages behind them go, ahead of everything else), `OpenAiState` (a tool message
for each result so far, right behind its calls) and `InlineState`; one more message
keeps it (`AnthropicStep`, `OpenAiStep`, `InlineStep`, with a case for each kind of
message), and where the request ends no call is open (`Expected`, `EveryAnswered`). The
induction is by a least counterexample (`StepByStep`, `FromBefore`). Gemini's lowering
keeps one message for each that is no system message, so there it is enough that the
places kept are in order (`GeminiSends`). That Anthropic finds all results ahead, and
OpenAI one message per call, is a matter of counting: `CallsInOrder` and `OneToolEach`
show that a message's blocks are as many as its calls. The part about inline messages
(`InlineInPlaceOf`) holds for every list of rows without such thoughts and with calls in
every message of results.

The same module proves, of `ContextEpoch` and the `WorkspaceIndex` below it, which
`run_session_turn` reconciles before it assembles a request, for any tree of files, any
budget and costs of the map, any number of runners, changes and failing statements, from
`IndexAssumption`, `ScannedAssumption` and `ContextAssumption` (the definitions are called
`ContextInit`, `ContextNext` and so on because the two modules meet here):

| Theorem | Statement |
|---|---|
| `IndexStaysCurrent` | `ContextSpec => []IndexCurrent` |
| `MapStaysBounded` | `ContextSpec => []MapBounded` |
| `RecordStaysTrue` | `ContextSpec => []RecordTrue` |
| `BaselineStays` | `ContextSpec => BaselineStable` |

`IndexCurrent` says nothing while work is under way, so `IndexInv` says what that work
will put right. A file whose rows are not its symbols, and that is not orphaned, is `Due`:
an event of it or of its directory is coming, the consumer has it to do, the scan has yet
to come to it, or a batch of it is in flight. What the consumer is about to write is right,
or another event of the file is coming (`WriteRight`); a batch in flight is right or its
file orphaned (`BatchRight`). `MapBounded` is an induction over the list of ranked files.
The library's induction theorems cannot be used, so the induction is by a least
counterexample in length (`Least`): `Recursion` shows that a function of sequences may be
defined by the front and the last element, `SortedExists` that the listed files have a
sorted list, and `AddBlockFair` is the step. `Told` needs that a turn whose revision is
still the epoch's has the epoch's snapshot (`TurnRight`), and, for the first baseline,
that facts which do not know a source have nothing of it (`Unknown`). `BeliefAfterRow` and
`BeliefAfterFold` say what a row more and a fold do to what the model was last told.

`FileToolsProofs` proves, for any files, spellings, texts, calls and agents, from
`NamesAssumption`, `CallsAssumption` and `BoundsAssumption`, which say that paths, commands
and patches are not empty and calls name known paths:

| Theorem | Statement |
|---|---|
| `ConsentGiven` | `Spec => []RunsByConsent` |
| `CallsConsented` | `PlainCalls => (Spec => []Consented)` |
| `CacheFaithful` | `Spec => []CacheTruthful` |
| `OthersNotLost` | `Spec => OthersKept` |
| `EditReplacesOnce` | the contract of `Once` and `Edited`, for every text |

A saved rule's resource is a pattern, so what the user granted with a path or a command
that has a `*` or `?` in it speaks of others too. `RunsByConsent` allows for that and is
proved without a condition; `Consented` names the rule of the very same call and needs
`PlainCalls`, which the instance of the run satisfies. Both come from `ConsentInv`: once a
call runs, it was permitted, every rule saved or yet to be saved was granted, and every
grant was the answer to a call. The lemmas below it are about lists of rules alone: a later
list that speaks decides (`LaterDecides`), one that does not makes no difference
(`SilentLater`), and so the agents' lists are judged part by part (`OwnWrites`,
`OwnSecrets`). `CacheInv` is `CacheTruthful` at every step, and that the target of a move
counts as touched until the old file is gone. `GuardInv` says that what the guard saw of a
file holds until the write. `EditReplacesOnce` is about the operators; that a run's texts
are sequences rests on the folds of the patch, so `Exact` stays with the checker.

**Only model-checked**: `Exact` of `FileTools`, which speaks of the patch's folds, and
every property of the modules not named above. Liveness under fairness and ENABLED are
out of the prover's reach, and so are the folds of the community modules, which are
recursive, on which the patch search rests.

## 5. What the models show of the code

The properties above hold; where the code departs from a comment, a document or what
one would expect, the property excepts that case and names it, or the case has none.
These are the departures met while modelling. Most are behaviours of the models; those
that no model shows, because it leaves that part of the code out, are marked (*).

**Coordinator and events.** `abort_turn` leaves `pending_permission`, and the session
then counts as busy for `evict_session` and the reaper for good (`coordinator.rs:560`
against "retry the eviction once the turn settles", 866). The backlog cap is checked two
awaits before the push (463 against the comment on line 13). An eviction between
admission and push leaves an inbox row that never runs (499 against 454). An input
admitted before an abandoned steer folds it into its activity (`orchestrator.rs:252`
against 233). Inputs dropped by an abort are not queued again (`coordinator.rs:564`
against 556). The tool outputs of one message share a sequence, and the watermark (`seq
> last`) drops all but the first on sockets and desktop (`orchestrator.rs:1329` against
924). A receiver reports `Lagged` after its session was evicted (`coordinator.rs:132`).
Replay comes from the history in memory, not from the database (344 against
`specs/api_protocol.md:84`), and a socket that stays open over an eviction has no
forwarder (`ws.rs:180`). SSE may repeat an event (`routes.rs:396` against
`api_protocol.md:130`). An answer that cannot be stored is only logged, and the clients
hear nothing (520). A tool that panics ends the drain with the slot of its entry taken
(512 against 45, "makes parallel drains and stranded queue items impossible"): what is
queued, and whatever is accepted later, never runs, and the session takes no turn until
the daemon restarts. `Panics` is that step, and `NoStrandedInput`, `SlotHasDrain` and
`AcceptedRuns` except the dead turn by name.

**Desktop.** `set_model` compares the new provider with a row it has already written, so
the retry of a deferred switch never evicts (`coordinator.rs:885`, `session.ts:405`). A
session being built from a row read before a `set_model` is inserted with the old
provider (840). The second of two overlapping switches evicts without attaching again
(`session.ts:371`, 382). Of two interleaved `subscribe_session` commands the older may
arm last (`coordinator.rs:173`).

**Transcript.** Manual compaction deletes by sequence, which cuts pairs and may delete
the marker (`coordinator.rs:685` against 677). A revert's note may stand between a call
and its repair (760 against `orchestrator.rs:1293`). Gemini's minted ids start again at
`call_0`, so recovery may take an interrupted call for an answered one
(`orchestrator.rs:1945`, `google.rs:227` against "mint a unique one", 226), and the
request then has a call without a result: `Overlooked` are those calls, `missed`
collects them. Gemini's lowering drops system messages within the conversation; partial
results and a recovery give it two user contents in a row. A native system update
followed by a dropped assistant message of thoughts ends up between two user messages.
Compaction keeps at most 300 characters of a context update, manual compaction nothing,
while the epoch stays (`context_engine.md:135` starts a new one).

**Streams.** An error that a provider reports within the stream, and a clean early end,
count as a completion. A call cut off by the limit of tokens runs with `null` or `{}`
(`openai.rs:254`). Gemini's decoder passes over a garbled chunk. Usage is not charged
when no row is stored. An abort is not seen while the provider has not yet answered the
request (`orchestrator.rs:612`), nor while the registry, the ecosystem or the language
server is waited for (1014, 1197).

**Tools.** The search for a chunk panics when a chunk has more lines than the file
(`file_tools.rs:1013`; `FileTools` leaves such patches out, `Panics` of the coordinator
is what follows). "*** End of File" is never reached by the parser (*), and lines after
it are lost (*). A pure addition goes to the file's end whatever its context says. Mixed
line ends all become CRLF. A patch that fails half-way leaves its first hunks applied
(`plan.md:1056`). A rule saved for a command or a path is a pattern: `*` and `?` in it
speak of other commands, and a call without the argument that names its resource is
asked for as `*`, so that "always" allows all of its class (`coordinator.rs:612`,
`orchestrator.rs:1028`). A move onto itself deletes the file. Add and move replace a
file changed by others (`file_tools.rs:634`, 690 against 654). The agents' rules for
"edit" and "patch" never match: both ask as "write_file". A command goes on after its
time-out or abort.

**Servers.** An aborted call leaves its pending entry (`client.rs:181` against "on every
exit path", 164), which `PendingExact` excepts; a server's own request is taken for the
answer to the request with its id (233), which `RightAnswer` excepts, and is never
answered; the write is outside the 30 s; a write cut by an abort garbles the next
message; a request made after the reader has ended, its server still alive, waits its
whole time-out. `apply_patch` does not tell the language server of what it wrote. The
bootstrap holds the lock while it starts servers, so turns wait for it, and a turn
aborted while it is queued behind another session's permission prompt does not end
before that is answered. Two turns that write one file at the same time may reach the
language server inverted.

**Terminal.** "Re-trigger history load" only empties the list (`tui/src/lib.rs:487`,
501). An answer that outran the routing task, or was lost with the socket, leaves the
turn waiting and the dialog closed. A first connection replays prompts that were
answered long ago. Error events are not shown. A completion replayed between subscription
and history comes before deltas still in the ring. A prompt lost with the socket stays
displayed until the next reload. A read of the database that fails leaves the old list
without a sign (187), and a compaction by another client is announced by no event, so its
rows stay displayed until the next reload.

**Context and index.** The scan, the watcher and the map are library code that the
daemon does not start. Environment updates name only the working directory, so a change
of `.git` is recorded and never told. One unavailable source holds up all updates of the
turn. The watcher indexes ignored files (against `watcher.rs:44`). A directory created
again keeps rows of its old files; rows of files that vanished unwatched stay; a file
that changes during the scan may get the older rows. The map may exceed its budget by
two omission markers.

**Checkpoints and fan-out.** A restore looks at a file's size and removes it afterwards
(`checkpoint.rs:215`, 223), so a file that grows beyond 2 MB in between is removed (against
"restore must NEVER delete", 494); `RestoreExact` is for restores that nothing disturbs. What a
snapshot stores of a file that outgrows the limit between its look and its reading is
left out (*). A tracked file that has grown beyond 2 MB is backed up by
its old contents and overwritten by the revert, so unrevert cannot bring it back
(`checkpoint.rs:126`, `coordinator.rs:696`). A revert whose snapshot fails replaces the
files without a backup (720). The newest checkpoint is the one after the last step,
so a revert that follows a successful step undoes only what came after it (703). An
unrevert takes no backup of what was edited since (772). The engines' lock is per
engine, not per shadow directory (`checkpoint.rs:52` against `checkpointing.md:180`).
A fan-out or pipeline that fails or is aborted charges nothing for the models that ran. A
fan-out whose synthesizer is unset uses the first candidate also where that one's
provider is missing (`orchestrator.rs:1606`). An unregistered candidate is announced
before the others, so candidate 0 wipes its pane (1550, `candidates.ts:59`).

## 6. Plan

All modules of the plan are written and every question above has its run. What is left
is a proof, which first needs a formulation without the folds, which are recursive: the
half of `Exact` of `FileTools` that is about patches. `RequestLowering` and `RepoMap` show
the way: a recursive function of the elements so far, and an induction by a least
counterexample.

## 7. Not modelled

Catalogs, keys, configuration, authentication and rendering are lookups or views.
Symbol extraction from syntax trees, fuzzy and floating point ranking, the text of
prompts, the output store's trimming and exports are functions of text whose result no
property of a protocol depends on. The WASM host runs one plugin's hooks synchronously.
Axum's graceful shutdown is library code. The desktop's permission dialog
(`permissions.ts:52` clears a prompt that arrived meanwhile) and the assembly of
message text in its store are left out; the terminal's dialog has the same daemon
behind it and is modelled. Restoring a single file, diffs and garbage collection of the
snapshot engine have no caller.

Several sessions at once are modelled where they share more than the map's lock and the
database: in `ToolServers` (the registry and the servers) and in `ContextEpoch` (two
processes). In the other modules one session stands alone: entries share only the map's
lock, which no code holds over an await, and the database, whose transactions are atomic.

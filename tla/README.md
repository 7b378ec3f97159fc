# A TLA+ verification of yach

yach is a terminal coding agent written in Rust: a TUI, a headless and an RPC
front end over one backend event loop that talks to model providers, runs
shell commands and edits under the user's authority, hosts extensions as child
processes, and keeps every session as an append-only log. This directory models
the parts of it in which steps of several actors interleave, checks them with
TLC on small instances, and proves with TLAPS, for every instance, what matters
most about thirteen of them: model activation, turns and their session files, the
attempts of a provider turn and the transcript they leave, the session log, the
authority store, host sessions, the extensions' lifecycle, shell authority, edits
of files, stored connections, model lists, the replay chain and the TUI's screens.

Paths are relative to `crates/yach-backend/src/` unless they say otherwise.

## 1. Inventory

### 1.1 Actors

| Actor | Where | Runs |
|---|---|---|
| event loop | `runner.rs`, `run_native_loop_with_requester_factory` | one task; one handler at a time; `select!` over client events, activation outcomes and connection updates (1481-1502) |
| turn task | `runner.rs`, `handle_started_native_provider_prompt` | one spawned task per prompt, on another thread than the loop's in the TUI (multi-thread runtime, `yach-cli/src/main.rs:4140`), on the same one in the headless and RPC front ends |
| activation and mutation tasks | `runner.rs`, `provider_connections.rs`, `yach-cli/src/provider_connections.rs` | spawned; their outcomes come back on channels, in any order |
| lifecycle tasks | `runner/extension_state.rs` | threads of the blocking pool that wait for the activation snapshot's mutex |
| background activation | `runner/extension_state.rs`, `extension.rs` | a thread that starts every extension host after the first paint, then replaces the snapshot |
| extension hosts | child processes | speak JSON lines over pipes; external |
| provider | HTTP | external: answers, stops or fails at any point |
| client | `yach-ui/src/app.rs`, headless, RPC | receives events over an unbounded channel |
| other processes | `yach extension ...`, a second yach | share files with the session |

### 1.2 Components, their state and operations

| Component | State | Operations | What makes it correct |
|---|---|---|---|
| Model activation | generation, in-flight record, provider, setup error, per-session target, reducer's active target, pending mutation | first render, session selection, explicit activation, outcome, mutation start and completion, prompt | the in-flight record never orphaned; a request answered once and truthfully; reducer and runner agree; the prompt gate reopens |
| Turn lifecycle | the active turn's handle and token, session log copy of task and of loop, files, previews | start, refuse, step, finish, panic, cancel, grace, abort, shutdown, crash, resume, switch, compaction, local edit | a turn ends exactly once in its file; nothing forgotten; indices unique; cancel returns |
| Provider turn | attempt, retry budget, settled sequence numbers, streamed text, tool calls; the client's transcript and stream state | stream, break, refuse, retry, resume, reset, nudge, tools, compaction, cancel, abort | shown text is recorded text; retracted text never stays above its replacement; attempts settled once |
| Session store | file, pending events, in-memory log | append batch, append event, durable flush, load | a torn write costs at most one event; what is dropped after a failed append was never reported as written |
| Shell authority | mode, allowlist, restrictions, grants, review rows, decisions, evidence | select mode, switch, start round, decide, review, answer, run, cancel | no command runs without a recorded authority |
| Extension host session | handshake phase, staged tools, registry clone, pipe contents, call | initialize, register, invoke, review, resource request, time out, drop | the right answer for every call; registered = declared; every call ends |
| Extension lifecycle | manifest index, snapshot (diagnostics, registry, executor, reviewer, counter), turns' clones | scan, background activation, stop, reload, trust, revoke | parts of the snapshot agree; what is stopped stays down; revoked means down |
| Authority store | document, sidecar lock, temporary file | load, grant, revoke | decisions are whole, durable when reported, never lost to a concurrent one |
| Edits | pending previews, the files and their temporary and backup links, the agent's waiting request, decisions | prepare, review, decide, reject, stage, recheck, publish, roll back, record | all files or none; nothing without authority and a record of its start; no text replaced unseen |
| Connection store | registry rows and retired keys, credential file and its temporary file, a lock file per connection, the ChatGPT token file | create, repair, replace, assign key, remove, sign in, adopt, sign out | a ready row has its credential and an unambiguous name; a removed one leaves no secret; one connection's write leaves the others' credentials alone |
| Model lists | availability snapshot and generations, discovery cache, Codex version and catalog; the runner's refresh in flight and pending | open picker, refresh, discover, publish, invalidate, mutate, release check, catalog fetch | what is offered is not older than the last change; a forced request is not lost; every change is followed by a refresh |
| Headless run | stage, outcomes, deadline and drain, text received; the backend's turn, log and channel | prepare model, wait for extensions, select mode, drive turns, cancel, drain, report, exit | the document and exit status say what the turns and the log say; the run ends |
| TUI screens | screen, stream state, dialog, local edit request and preview, model shown and deferred | submit, cancel, select model, connect, compose, decide; every backend event that moves them | one edit at a time, decided once; busy exactly while a turn runs; the model shown is the one in force, while there is one |
| Compaction and replay | the log's checkpoints and masks, the replay chain with the log position it has reached, the request of the round under way | assemble, compact at the threshold, on overflow or on request, commit a round, nudge, finish, abort, switch model, reopen | every request tells the whole session, in order and once; the chain in use begins with the window a restart would begin with |

The hard behaviours are listed one by one, each at its line, in `PROJECT.json`
under `hazards`.

## 2. Modules

| Module | Models | Composes with |
|---|---|---|
| `ModelActivation` | `runner.rs` (activation handlers), `provider_connections.rs` (reducer), `yach-cli/src/provider_connections.rs` | includes the two spawned-task pools and the connection store as one step each |
| `TurnLifecycle` | the loop and one turn task over the session files | takes an append as all-or-nothing; `SessionStore` shows what a torn one leaves |
| `ProviderTurn` | the task's inside: requests and attempts, and the TUI's live transcript | composes backend and client over a FIFO channel |
| `SessionStore` | `session_store.rs`, loader and encoder of `session.rs` | |
| `ShellAuthority` | `runner.rs` (tool rounds), `permission.rs`, `review/` | composes the loop, a turn, the reviewer and the client |
| `HostSession` | `ExtensionHostSession`, its transport, request ids of the runner | composes the session with an external host |
| `ExtensionHost` | `runner/extension_state.rs`, activation manager of `extension.rs` | uses the gate whose store is `AuthorityStore`; its turns' reviews are `HostSession` calls |
| `EditAccess` | `edit_access.rs`, `edit.rs`, `agent_edit_tools.rs`, `runner/local_edit.rs`, edits in `runner.rs` | composes the loop, a turn, the reviewer, the apply and other programs; takes the log as `SessionStore` |
| `ConnectionStore` | `yach-connections/src/{lib,registry,credential}.rs`, `chatgpt_auth.rs` | several processes over shared files; `ModelActivation` and `ModelRefresh` take an operation of it as one step |
| `ModelRefresh` | refresh handlers of `runner.rs`, `yach-cli/src/{provider_connections,model_discovery_cache,codex_release,catalog_refresh}.rs` | composes the runner, the refresh task, a mutation task and the Codex catalog tasks |
| `HeadlessRun` | `yach-cli/src/headless.rs` | composes the driver with the backend as far as the driver can tell (`TurnLifecycle`, `ProviderTurn` have its inside) |
| `TuiScreens` | `yach-ui/src/app.rs` | composes the App with the backend as far as the App can tell, over two FIFO channels |
| `ContextReplay` | `compaction.rs`, `responses_replay.rs`, rounds, compaction and replay in `runner.rs` | composes the loop, a turn's task and the provider; takes an append as all-or-nothing (`SessionStore` has its inside) and a tool call as one step (`ShellAuthority`, `EditAccess`) |
| `AuthorityStore` | `extension_capability/store.rs` | implements `AuthorityLog` |
| `AuthorityLog` | what the store promises: a list of whole decisions | abstract |
| `ProviderTurnProofs`, `ShellAuthorityProofs`, `EditAccessProofs`, `ExtensionHostProofs` | theorems about the module each is named after (section 4) | extends it |
| `RunnerLoopProofs`, `ExtensionPartsProofs`, `ConnectionsProofs`, `SessionClientsProofs` | theorems about two or three modules each that share no name: `TurnLifecycle` and `ModelActivation`; `AuthorityStore` and `HostSession`; `ConnectionStore` and `ModelRefresh`; `SessionStore`, `ContextReplay` and `TuiScreens` | extends them |

`MC` modules instantiate them for TLC. Five of them, `MCRunnerLoop`,
`MCSessionLog`, `MCExtensionParts`, `MCConnections` and `MCClients`, hold two
modules with disjoint variables each: a variable `part`, chosen at the start, says
which of the two moves, and the other stays in its initial state. Their state
spaces add instead of multiplying, so one run asks the questions of both. Every definition that stands for code
has its lines in `PROJECT.json` under `map`. Definitions whose comment begins
with "Mutant" are wrong variants, used only to check that each property notices
the bug it is about; nothing else refers to them.

### 2.1 State and actions against the code

- **ModelActivation.** `inFlight` is `activation_in_flight`, `actGen`
  `activation_generation`, `provider` the runner's provider, `flowActive` and
  `pending` the reducer's `active` and its accepted mutation, `logTarget` the
  target the log of each session restores. An `Option` is a set of at most one
  element. A handler is one action, with everything it calls: `DeliverActivation`
  is the whole `Outcome` arm with the log record, the reducer update and the
  answer. A task is two steps: it reads or commits the store, then its outcome is
  delivered.
- **TurnLifecycle.** A turn's task runs on another thread, so it may return
  between the loop's look at finished turns and a handler's own look
  (`TaskReturnsLate`; `loop = "handling"`). `mem` is the loop's log, `task.log` the task's copy, `disk`
  the files. `GraceExpires` is the abort and the record the loop then writes;
  `CloseClient` the shutdown path (1505). A restart reads its log, or cannot and
  starts with an empty one over the same file (`AdoptUnread`, a fault;
  `runner/session_state.rs:505-535`); the ghost `blind` remembers that it did.
- **ProviderTurn.** Text is a sequence of chunks, each the number of the attempt
  that produced it, 0 the blank line between rounds; a chunk counts as one byte
  of a reset, none is blank. The turn's recorded end and `PromptFinished` are one
  step; the placeholder for an empty answer is not text; compaction's attempts
  are one step; the top of the request loop is a step of its own. A row of other
  origin below the text makes a reset impossible; by design the client then
  cancels the prompt. `dropped` and `late` are ghosts: the attempts given up, and
  those whose text is left standing because their request was found too long after
  it had shown text and is made again (`runner.rs:5506`).
- **SessionStore.** The file is a sequence of whole events, newlines and
  fragments. Pending events belong to a turn or a handler: a batch whose write
  failed is written again by the next append of the same turn, or dropped with it
  (`Unwritten`, `Abandon`; `runner.rs:3865-3870`, `10999-11007`); the ghosts
  `written` and `givenUp` say what was reported and what was dropped.
- **ShellAuthority.** A command is a class of commands. The loop's block of up
  to 250 ms during a cancel is not modelled, so the model allows more
  interleavings than the code there.
- **HostSession.** An id is the number of `tool-request-R-I`; `ref` is the
  ghost identity of a call. The 64 messages one call reads are `MaxMessages`. The
  pipe to the host holds `PipeLines` lines; a write to a full one blocks the
  session, past every deadline, until the host reads or exits (`Stuck`;
  `extension.rs:573-584`).
- **ExtensionHost.** A lifecycle task holds the mutex for all it does and is one
  step. The background activation holds nothing and is a step per check and per
  host. The turn's clone shares the reviewer and its generation counter, which is
  a cell, because the background activation brings a counter of its own. Records
  match by package (`Package`) or by `Source`, the source_ref, which several
  extensions may share (`extension.rs:1336-1352`, `yach-cli/src/main.rs:4704`); any
  number of extensions may be reviewers.
- **EditAccess.** A transaction's number stands for its transaction, preview and
  decision ids and for the text it writes. `held` is membership in the pending
  map; the agent's map lives as long as its turn, the user's as long as the
  program. The loop's apply and the turn task's run in parallel on two threads,
  so `engine` holds one for each, and they and `OutsideEdit` interleave between
  the steps, one per file and system call. A
  program that stops is any prefix of a behaviour, so what must hold after a
  crash is stated as an invariant. Failures of a removal while cleaning up are
  ignored by the code and left out.
- **ConnectionStore.** `rows` and `retired` are the registry file, whose every
  mutation is a load, a change, a validation and a rename under one lock, and so
  one step; `creds` is the credential file, whose rewriting is three steps because
  no lock covers it. Reading it may fail, and then gives an empty document
  (`Reads`, a fault; `credential.rs:75-87`): a put writes that with its own entry, a
  remove finds nothing to do and succeeds. `written`, `leaving`, `astray` and
  `adopted` are ghosts; `astray` becomes true when two processes rewrite the file at
  once, or one acts on what it could not read.
- **ModelRefresh.** A model list is the version of the registry it was resolved
  from, a Codex listing the client version it was asked with. `credCache` holds, per
  connection, the version of the secret that was read, or that none was there; it is
  cleared before the write of repair, replace and remove, and every resolve or list
  may fill it (`read_credential`). `Outdated` are the connections whose cached secret
  is not the stored one. `owed`, `floorVer`, `invVer` and `owesForced` are ghosts. Times (is a check due, is a row fresh) are
  a choice.
- **HeadlessRun.** Events carry, as a ghost, the prompt of the run they belong to;
  the code has no such field, which is what the properties are about. The time of a
  turn is counted in units of `TurnTimeout` and `CancelDrain`. The run starts in the
  mode the project has stored (`plan.stored`). Driver, loop and turn share one
  thread, which stands still while the turn writes to an extension host that does
  not read (`HostBlocks`, `HostReads`, `Moves`); the background activation's write
  blocks a thread of its own, and the end of the runtime. `logRead` is whether the
  log could be read back.
- **TuiScreens.** `ui` is the App's fields, and every key or event is one step that
  ends, as in the code, with the pending thinking hand-off. Only keys that a screen
  accepts are steps. The backend's turn, activation, connection flow and previews
  are reduced to what they send. `inForce` is the backend's model, 0 when the
  connection of the active one was removed (`runner.rs:1778-1803`). The ghost `kept`
  holds the previews whose decision could not be recorded, which the backend keeps
  (`edit_access.rs:429`); `Held` are the others.
- **ContextReplay.** `slog` is the loop's `session_log`, `job.log` the task's copy,
  `stored` the file, `chain` the `NativeReplayStore`. Text is reduced to facts (a
  prompt, a call with its result, an answer, a nudge); a message is the set of
  facts it stands for, a summary or an opaque window the set of all it folds.
  Sizes are not counted: wherever the code compares one with a budget, both
  branches are possible. A turn that failed and one that was cancelled are both
  "stopped", because the projection treats them alike. `skewed` is a ghost.
- **AuthorityStore.** A step per system call that another process or a power
  loss can come between. Documents that do not load for any reason are
  "damaged". Temporary files are never read. A directory sync succeeds, fails or is
  unsupported, which the code reports as success (`DirectorySynced`;
  `store.rs:617-631`); the ghost `unsynced` holds the decisions reported so.

## 3. Runs

| Run | Result | What it shows |
|---|---|---|
| `runner_loop` | pass | models: `InFlightIsLive`, `AnsweredAtMostOnce`, `FlowTracksUnlessMixed`, `ActivatedIsInstalled`, `GateReopens` over every interleaving of activations, restorations, session switches and connection mutations; turns: `TurnsStayApart` (a turn ends once, no index is used twice, while every process could read its log), `LoopKeepsTurns`, `ShutdownEndsTurn`, `CancelReturns` |
| `provider_turn` | pass | `ShownIsRecorded` (unless a request was found too long after it had shown text), `TranscriptIsClean` (no retracted text above its replacement, every reset applies), `SettledOnce`, `CancelSettlesClient` |
| `session_log` | pass | file: `LogSurvives` (a tear costs one event, turns stay distinct, no event is missing that was reported as written or is still pending); context: `RequestIsWhole` (a request that is answered tells every prompt, answer and result, in order and once), `ReplayIsBacked` (the chain in use begins with the window of the newest checkpoint of the log) |
| `shell_authority` | pass | `RunsOnAuthority` (authority for every command, full access only in its session, no stale review, nothing after a cancel), `AuthorityIsRecorded`, `CancelEndsTurn` |
| `extension_parts` | pass | authority store: `DecisionsStick` (reported decisions survive, those of an unsupported sync until the power fails, refused ones are nowhere, the origin is kept), `Settles`, `ImplementsLog` (refinement of `AuthorityLog`); host session: `RightAnswerInTurn`, `HostSettles` (while what is written is taken) |
| `extension_host` | pass | `SnapshotAgrees`, `StaysDown`, `ReviewUndisturbed` (with one reviewer), where two of the extensions share a source_ref |
| `edit_access` | pass | `AllOrNothing`, `WriteAhead`, `Authorised`, `NoBlindOverwrite` |
| `connections` | pass | store: `RowsAreSound`, `CredentialKept` (what is said of the credential file: while it was not rewritten by two at once, or on a failed reading), `AdoptIsWhatWasSeen`; lists: `RefreshIsHonest`, `RefreshCatchesUp` (unless an old secret was cached during the mutation) |
| `clients` | pass | headless: `DocumentIsTrue` (outcomes, facts and exit status agree with the turns and with a log nobody writes any more), `RunEnds` (unless a write to an extension host never returns); TUI: `EditsOneByOne`, `UiSettles` (busy exactly while a turn runs, the model shown is the one in force, while there is one) |
| `activation_lost` | violation | a stale outcome takes the record of the newer activation; a prompt is accepted while that one resolves |
| `extension_revoke` | violation | a revocation during the background activation does not stop the host it has started |
| `replay_switch` | violation | after a native compaction a model of another provider is sent the replay chain, which its adapter refuses |

Every module also states a type invariant, and `ProviderTurn` `WithinBudget` and
`ToolsAreWhole`; they hold in the same instances when added to the
configurations, and are not listed because the properties above depend on them.
Three further properties hold: `CancelStartsNothing` (after a cancel no request is
sent) in the instance of `provider_turn`, `RegistersDeclared` (an active extension
has registered its manifest's tools, each once) in that of `extension_parts`, and
`KeyIsForever` (a key once given is never given to another connection) in that of
`connections`.

### 3.1 Bounds

- `runner_loop`, models: a stored and an environment connection, one model, two
  sessions, one explicit request, three generations, two mutations of any kind.
  Three generations are one in flight, one superseded and one that supersedes;
  two mutations let one start while the other's outcome waits.
- `runner_loop`, turns: two sessions, indices up to 2, one fault (a failed write, a panic, a
  log that cannot be read or a task that returns late), one stop. A race of a
  turn's end needs one turn and one reaction; the second session and index show
  switches and reuse.
- `provider_turn`: one delta and one tool call per attempt, two failures (three
  attempts), one compaction, one foreign row, delays of the code's table with a
  `Retry-After` of 0 or 2 against a budget of 3: two waits of the table fit, a wait
  of 2 leaves too little for the next. `MaxWire = 1` makes the client lag by one event; more only
  delays it, as it does not talk back except to cancel.
- `session_log`, file: four events, batches of two, two torn writes, so that a torn
  line can be glued twice. `MultiByte = FALSE` leaves out cuts inside a
  character (section 5).
- `session_log`, context: three turns of at most one tool round; two upsets, each a
  compaction, a model choice, an event of the loop's own, an abort, a reopened
  session, a failed append, a malformed round, a round without raw output or a log
  that is not adopted; two
  models that can compact. `ContextReplay_switch` has a model of another provider
  instead of the second, and both properties hold there as well. A stale chain takes a
  compaction that makes it, one thing that puts it out of step and a later
  request: two upsets and three turns.
- `shell_authority`: a plain command, one to ask about first and one reserved
  for the user, the last two also allowlisted, so that restrictions and
  allowlist conflict; batches of two, one decision in the channel, one failed
  write. A switch leads to a session, possibly the same one: the authority to
  reset is per switch.
- `extension_parts`, host: two declared tools and an undeclared name, two turns, three
  calls, two messages per call, two resource ids, three lines from the host unread,
  one line to it: a second one blocks.
- `extension_host`: a tool extension and a reviewer that share a source_ref, the
  reviewer needing authority, and an extension of project scope, each in a package
  of its own; three commands, one decision of another process, one turn. A reload
  of one of the pair that removes the diagnostic of the other, a command for the
  other and a third to bring one back take three.
- `edit_access`: one file that is edited alone, a proposal over three files and
  one that begins with a file reserved for the user; two transactions, so that a
  decision for the first can meet the second, or both be applied at once; one
  change from outside, one failing call, one decision
  in the channel. `Executes = TRUE` follows an "execute" route, which this build
  turns into a question to the user: the model allows more than the build.
- `extension_parts`, store: two writers, one capability, three decisions, one power
  loss; a lost update needs two, the third shows the chain.

- `connections`, store: two processes, two ids, two kinds of provider, one key, two
  accounts, room for two rows and one retired key, three operations, one fault.
  Three operations are one that leaves a connection and two that meet on it, and the
  fault may be a credential file that cannot be read. The
  lists: two connections, one of them ChatGPT, two picker requests and one mutation
  (the mutation's refresh is the third that can be merged or overtaken), two Codex
  versions, one event outside, three of these in all (`MaxEvents`).
- `clients`, headless: two prompts, one turn of history, one fault, a timeout and a
  drain of one unit each, so that a second prompt can meet what the first left
  behind; each flag with one stored mode, and both stored modes without a flag
  (`ModePairs`). The TUI: two models, two prompts, two edits, one model choice, one dialog,
  two messages under way, one fault, four user events in all (`MaxUiEvents`): one of
  each kind can be in flight when another begins.

`CHECK_DEADLOCK FALSE` is used where the actors may simply stop: the user asks
for nothing more, or a bound is exhausted. `provider_turn`,
`shell_authority` and `edit_access` check for deadlock.

### 3.2 Fairness

Only what the code makes happen is fair, and only weakly:

- spawned activation and mutation tasks finish and the loop drains its channels
  (`GateReopens`);
- the 250 ms timer of the grace period fires, a task that has finished is
  joined (`CancelReturns`);
- a cancelled token wakes the turn that waits on it (`CancelEndsTurn`);
- the task's own steps, the loop's handling of a cancel and the client's reading
  of its channel (`CancelSettlesClient`); the provider, and the loop's abort,
  owe nothing;
- a read that finds a message returns it and a read without one ends at its
  deadline (`HostSettles`); the host owes nothing, and a session whose write to it
  is stuck does nothing either: the property assumes that it is not for ever;
- system calls return and `flock` wakes a waiter once the lock is free
  (`Settles`); the bounded number of decisions keeps a
  writer from being overtaken forever, which `flock` itself does not promise.

- the refresh and mutation tasks run and end, because listings, the release check
  and the catalog request have timeouts, and the loop drains its channels
  (`RefreshCatchesUp`);
- the driver's clock runs, its loop and the backend's loop take what has arrived,
  the grace period ends (`RunEnds`), all of it whenever the thread is free; the
  turn's task and the extension hosts owe nothing.

No user action is fair.

## 4. Proofs

The theorems hold for every value of the constants: any sets of connections,
sessions, files, commands, writers or processes, and any bounds. Each module
assumes only its named assumption (`ConstantsAssumption`, `LifecycleAssumption`,
`StoreAssumption` and `NoOneAssumption`, `HostAssumption`, `ShellAssumption`,
`ConnectionAssumption`, `RefreshAssumption`, `EditAssumption`, `TurnAssumption`,
`SessionStoreAssumption`, `ReplayAssumption`, `ScreensAssumption`,
`ExtensionAssumption`): bounds are
naturals, subsets are subsets, the ids of an index are distinct, and where the
code has at least one of something, there is one. TLC evaluates them in every run.
No theorem but `AlwaysTracksWithoutLogin` has a hypothesis besides; the exceptions a
property makes are in the property. The inductive invariants were checked with TLC on
small instances before they were proved; the proofs have a lemma per action, and
the lemmas end in one that says every step keeps the invariant.

**RunnerLoopProofs, of ModelActivation**

- `TypeCorrect`: `Spec => []TypeOK`;
- `InFlightLive`: `Spec => []InFlightIsLive`;
- `AnsweredOnce`: `Spec => []AnsweredAtMostOnce`;
- `RepliesAreTrue`: `Spec => ActivatedIsInstalled`;
- `ReducerFollowsRunner`: `Spec => FlowTracksProvider /\ FlowTracksUnlessMixed`;
- `AlwaysTracksWithoutLogin`: without logins, `Spec => []FlowTracksProvider`.

`TypeOK` is inductive, on small lemmas about options and the helpers several
actions share. `InFlightIsLive` is inductive relative to it: a record is written
only by `Schedule`, with the new generation and together with its task;
`DeliverActivation`, the one action that removes a task, takes the record with
it; and starting a mutation retires an explicit record, which is why its second
conjunct is there. `AnsweredAtMostOnce` is inductive relative to both: that a
request in flight is asked and unanswered makes "answered twice" impossible, and
that no explicit request is in flight during a mutation keeps the mutation's own
answer from being a second one. `RepliesAreTrue` needs that every request in
flight has been asked (`InFlightIsAsked`). That reducer and runner name the same
connection is kept by every step but the mixed outcome of section 5. That
outcome takes two mutations under way at once, which only a login allows: without
logins there is at most one (`OneAtATime`), and the two never part.

**RunnerLoopProofs, of TurnLifecycle**

- `TurnsAreApart`: `TurnsSpec => []TurnsStayApart`;
- `NoTurnIsForgotten`: `TurnsSpec => []LoopKeepsTurns`;
- `ExitLeavesNoneOpen`: `TurnsSpec => []ShutdownEndsTurn`.

None of them is inductive. `TurnsInv` adds: every index the current session has
used lies below the counter (`IndicesBelow`), which a restart or a switch reads
back from the file (`NextIsAbove`: the maximum a log is scanned for exists and
bounds it); only edits lie in another session's file (`OwnFile`); a pending
preview has left its evidence in its file, so that a decision much later, in the
same session again, reuses no prompt's index (`PreviewsAreEvident`); an end has
one beginning before it (`EndsAfterStart`); the turn the loop holds has begun in
the current file (`TaskIsOurs`) and, while it runs, has ended neither there nor
in the loop's log (`RunningIsOpen`), so that an abort writes the only end; and,
while nothing failed, where the events of a turn are (`NothingFailed`,
`OthersAreKept`). All of it holds until a process could not read its log; after that
nothing is promised (`TurnsKnown`: `TurnsInv`, or the ghost `blind` with a fault to
its account). The actions that append to a file share one lemma (`FilesKeep`),
which asks of what they append that it fits (`Fits`).

**ExtensionPartsProofs, of AuthorityStore**

- `TypeCorrect`: `Spec => []TypeOK`;
- `DecisionsAreKept`: `Spec => []DecisionsStick`;
- `StoreImplementsLog`: `Spec => ImplementsLog`, the refinement of `AuthorityLog`.

`StoreInv`: the lock excludes (`LockHeld`), an operation under way has an id no
document knows (`JobsFresh`), what a writer is about to rename into place is the
visible document with one decision more (`NextCurrent`), and what a power loss
leaves is an earlier visible document with all that was reported after a sync
(`DurableIsEarlier`); what was reported without one is in the visible document as
long as no power was lost (`AckedSurvives`). Under the mapping a rename is `Decide`, a sync that
succeeds `Report`, a power loss `Forget`; every other step is a stutter, also the
sync that is unsupported: the caller is told, and the abstract list promises nothing.

**ExtensionPartsProofs, of HostSession**

- `SessionTypeCorrect`: `HostSpec => []HostTypeOK`;
- `AnswersBelong`: `HostSpec => []RightAnswerInTurn`;
- `DeclaredIsRegistered`: `HostSpec => []RegistersDeclared`.

Within a turn one numbering of its calls binds the call that waits, the one the
host serves and every line in both pipes, so equal ids are equal calls. That the
registered tools are the declared ones is a counting argument: names are
declared, distinct and as many (this is why `Declared` is assumed finite).

**ShellAuthorityProofs**

- `CommandsRunOnAuthority`: `Spec => []RunsOnAuthority`;
- `EvidenceOutlivesAuthority`: `Spec => []AuthorityIsRecorded`.

`ShellInv`: invocation ids do not run ahead of the counter (`SlotsAreIssued`); an
approval in the channel is of a row the client was shown (`DecisionsAreTheUsers`);
a grant was given by the user in some session and recorded first
(`GrantsAreTheUsers`); what waits for reviewer or user is nothing the policy
reserves, and the reviewer is asked only in its own mode
(`WaitingIsUnreserved`); and a command that started after the cancel is the last
of its turn (`LateIsLast`).

**ConnectionsProofs, of ConnectionStore**

- `ReadyRowsAreSound`: `ConSpec => []RowsAreSound`;
- `CredentialsAreKept`: `ConSpec => []CredentialKept`;
- `AdoptedIsShown`: `ConSpec => []AdoptIsWhatWasSeen`;
- `KeysAreForever`: `ConSpec => KeyIsForever`, an action property.

`ConInv`: a process's step fits its operation (`OperationsMakeSense`); who works
under the lock of a connection is alone there, its row exists, and what it did to
the credential is still so (`LocksHold`); a row that is absent has no key
(`AbsentIsEmpty`); what was last put for a connection fits its row, whatever the file
holds (`WrittenInOrder`); until the file goes astray, the process that rewrites the
credential file changes its own connection only and finds its own document under
the temporary name (`OneRewrites`); and the token file a question was asked about
has the account that was shown, as long as it is that file (`ShownIsThere`).

**ConnectionsProofs, of ModelRefresh**

- `OffersAreHonest`: `RefreshSpec => []RefreshIsHonest`.

The strengthening, `ViewIsCurrent`, is about the refresh under way: once it has
resolved its connections it has seen the last invalidation, unless the caches
were invalidated since, and the last mutation the runner has heard of, unless
the runner has given up its report. With it, what is published under the current
generation is not older than the last change. `StampsAreTrue` says that rows and
catalogs carry the version they were listed with.

**EditAccessProofs**

- `EditsAreSound`: `Spec => []EditInv`, the inductive invariant, types included;
- `EditsAreWhole`: `Spec => []AllOrNothing`;
- `LogIsAhead`: `Spec => []WriteAhead`;
- `AppliesAreAuthorised`: `Spec => Authorised`, an action property;
- `ApplyLooksFirst`: `Spec => NoBlindOverwrite`, an action property.

`EditInv` follows an edit from its preview to its end. `Traces` says where in its
apply a transaction has to be whose text is in a file or in a kept link: a failed
one leaves a text only after a second failure. Alone it is not inductive, since a
roll-back writes what the links hold, so `Links` says what they are at each step
of the agent's apply: never the transaction's own text, made for every file
before the first is published, and no longer the file itself once it is replaced.
That a roll-back follows a failure, and only an apply of several files has one, is
`Staged`. `Looks` is what each apply may rely on after its last look at a file:
the previewed text before it publishes, its own afterwards, or someone came
later. `EngineSound` and `AgentSound` tie an apply to an open transaction of its own
side, with authority and with its evidence; from them follows `Authorised`, and
that two applies never have the same transaction, without which the text of one
could be taken for that of the other. The steps that touch no file share one
lemma (`QuietInv`), the system calls of an apply another (`FileInv`). With three
files, two transactions, one outside change and one failure TLC checked `EditInv`
over all 5.2 million states before it was proved.

**ProviderTurnProofs**

- `SettledExactlyOnce`: `Spec => []SettledOnce`;
- `TurnInvariant`: `Spec => []TurnInv`;
- `TranscriptStaysClean`: `Spec => []TranscriptIsClean`.

`SettledOnce` needs that whatever is settled was started, and that the attempt in
flight is younger than all that is settled (`AttemptsSettle`). That the transcript
is clean rests on what is still in the channel. `TurnInv` follows every chunk of an
abandoned attempt to the reset that takes it back: one behind it in the channel
that counts far enough (`SentRetracted`, `RowsRetracted`), or the one the task
still owes (`SentDue`, `RowsDue`); and it says that a reset finds as many trailing
text rows as it counts (`Findable`), so that the client never loses its place
unless a row of other origin came between. The channel's steps, a message that
joins it and a message the client handles, have lemmas of their own, which every
action cites. An attempt whose request is found too long only after it has shown
text is not abandoned: the code asks again without a reset, and its text stands
above the new one (`late`; section 5).

**SessionClientsProofs, of SessionStore**

- `StoreInvariant`: `StoreSpec => []StoreInv`, types included;
- `LogAlwaysSurvives`: `StoreSpec => []LogSurvives`.

What a write cut short costs is a debt: `Debt` counts the events that are glued to
a torn line, and a torn last line as one more, against the writes that were cut
short; `Reported` keeps every event reported durable at a line of its own that was
ended, or among the glued. That indices stay apart needs the events still to be
written (`ApartFrom`), since a batch that failed halfway is written again, and that
the counter is above every line that is closed (`Below`). What is still to be
written has been neither reported nor given up (`GivenUpApart`), so a batch that is
dropped takes nothing back. A write of any length,
whole or cut short, is described once (`Buffer`), by its objects and newlines,
and each property is shown to survive appending such a text. Both facts about what
loads hold while no text is cut inside a character; otherwise the whole file fails
to load (section 5).

**SessionClientsProofs, of ContextReplay**

- `ReplayInvariant`: `ReplaySpec => []ReplayInv`;
- `ChainIsBacked`: `ReplaySpec => []ReplayIsBacked`.

`ReplayIsBacked` is not inductive, because a task whose compaction was not applied
publishes the replay it took when its request was assembled. `ChainsBacked` therefore
says of that replay, as of the chain, that the log the task works on has a
checkpoint of its model with neither a checkpoint nor a mask after it (`BackedAt`),
and that it begins with the window of that checkpoint (`BackedBy`, `Leads`); and of
the native request under way, from which a committed round makes the next chain,
that it begins so too (`Goes`). Of the rest of a log it speaks by places only: a compaction that leaves a replay ends its log
with such a checkpoint, whatever masks come before it (`EndsInCheckpoint`), and every
other event appended is plain (`PlainKeeps`). Nothing is assumed about what a
summary or a window folds. `ReplayInv` adds that logs are sequences (`ReplayShape`);
TLC checked `ChainsBacked`, the rest is not bounded.

**SessionClientsProofs, of TuiScreens**

- `ScreensInvariant`: `TuiSpec => []ScreensInv`;
- `ScreensTyped`: `TuiSpec => []ScreensTypeOK`;
- `EditsGoOneByOne`: `TuiSpec => []EditsOneByOne`;
- `ScreenSettles`: `TuiSpec => []UiSettles`.

Both properties are about what two sides say of each other over two channels, so
the invariant reads the screen through them: what the last message under way that
says anything about the model or the turn will leave on the screen (`FinalModel`,
`FinalBusy`), and of a local edit where its one message is, in which channel, and
what it will find when it arrives (`EditAt`), among the previews that can still be
decided (`Held`).

**ExtensionHostProofs**

- `HostInvariant`: `Spec => []HostInv`, types included;
- `SnapshotsAgree`: `Spec => []SnapshotAgrees`;
- `StoppedStaysDown`: `Spec => []StaysDown`;
- `ReviewsAreUndisturbed`: `Spec => []ReviewUndisturbed`.

`SnapshotAgrees` needs that an extension has one diagnostic at most (`OneEach`),
which the background activation keeps because the records it has left are distinct
and not yet mentioned (`LeftOk`). A reload removes the diagnostics of every
extension of the record, and the handlers with them, but the tools of one: the
tools left over are of extensions without a diagnostic that share a record
(`Agrees`). `ReviewUndisturbed` needs that the counter of a seat only grows. It never
exceeds the generation of the reviewer's diagnostic, from which a reload takes the
next one; and when that diagnostic was removed by a reload of another extension of
its record, the other's took over its generation (`Counts`, `Kin`). The background
activation brings a counter of its own that no clone shares (`Background`), so that
an unchanged counter is an unchanged seat (`Reviewing`). With two reviewers, each of
which counts by itself into the one counter, TLC finds `SeatKept` violated
(section 5).

**Only model-checked.** Liveness (`GateReopens`, `CancelReturns`,
`CancelEndsTurn`, `CancelSettlesClient`, `Settles`, `HostSettles`,
`RefreshCatchesUp`, `RunEnds`), because it needs fairness and `ENABLED`, which
this prover does not handle. Three
invariants are not proved: `ShownIsRecorded` of `ProviderTurn`, `DocumentIsTrue` of
`HeadlessRun` and `RequestIsWhole` of `ContextReplay` say what is left of a whole
sequence when some of its elements are taken out or replayed. What such a filter
(`SelectSeq`, defined by recursion) yields on every input is an induction over data,
which the prover does not do; each would first have to be restated over sets of
indices, as `ChainsBacked` is.

## 5. Where code and documents disagree

Listed with a run: `activation_lost`, `extension_revoke` and `replay_switch` (see
`PROJECT.json`, findings). The revocation has two more
ways to leave the host in place: a selector that is a manifest path finds the
record but not the diagnostic (`extension.rs:1336` against
`runner/extension_state.rs:699`), and a reload of the reviewer that fails leaves
it in its seat with a diagnostic that is not active, so that `stop_extension`
refuses (`extension.rs:1012-1127`).

Further ones, each with a configuration that reproduces it but is not among the
runs (a configuration that lists several properties is checked once for each, with
the others left out):

| Configuration | Property violated | Code |
|---|---|---|
| `MCModelActivation_open` | `RemovedNeverActive` (comment `runner.rs:1773`) | a session switch schedules an activation during a pending removal, `runner.rs:2600` |
| `MCModelActivation_open` | `PromptNeverEchoed` (`runner.rs:3732`) | a restoration clears provider and setup error, and a mutation or a failure then ends it, `runner.rs:2004`, `2587`, `1663` |
| `MCModelActivation_open` | `SessionAgrees` (model-defaults design, line 81) | a switch to an unresolved session leaves the earlier activation in flight, `runner.rs:2556`; with two models, replacing a credential activates the model chosen before it, `provider_connections.rs:1258` |
| `MCModelActivation_open` | `MutationIsPending` (`provider_connections.rs:1014`) | a completion carries no identity, `yach-cli/src/provider_connections.rs:802` |
| `MCModelActivation_open` | `FlowTracksProvider` (`provider_connections.rs:811`: "the runner drops its cached provider when the flow's active target disappears") | a completion carries no identity, so the outcome of a replacement can settle a removal: the reducer drops its target and the runner keeps the provider (the `Replacement` arm, `runner.rs:1808-1826`). `FlowTracksUnlessMixed` says that nothing else does |
| `SessionStore_open` | `EarlierEventsLoad` (audit remediation plan of 2026-06-11, line 190) | a last line cut inside a multi-byte character fails the whole load, `session.rs:870` |
| `SessionStore_open` | `DurableIsRead` (`session_store.rs:138`) | an append continues a torn line, `session_store.rs:109` |
| `MCTurnLifecycle_open` | `PreviewsAreSessionScoped` (local-access design, line 273) | the preview store outlives a session switch, `runner.rs:1323` |
| `MCShellAuthority_open` | `GrantsAreSessionScoped` (`runner.rs:1316`) | grants are created once per process, `runner.rs:1318` |
| `MCShellAuthority_open` | `AutoReviewIsSessionScoped` (`README.md:114`) | a switch resets full access only, `runner.rs:3120` |
| `MCShellAuthority_open` | `ReservedNeverOffered` (`review/coordinator.rs:422`) | a failed evidence write turns every route into an approvable row, `review/coordinator.rs:390` |
| `MCEditAccess_open` | `ReservedUntouched` (`README.md:111`) | the permission request of a proposal names its first file only, `edit_access.rs:543` |
| `MCEditAccess_open` | `NoLeftovers` (cleaned up on the other error paths, `edit.rs:1052`) | a file deleted, or a target created, after the temporary file was written returns through `?` and leaves it, `edit.rs:1051`, `923` |
| `ProviderTurn_overflow` | `ShownAnyway` (`runner.rs:10834`) | overflow recovery requests again without a reset, `runner.rs:5506` |
| `HostSession_late` | `RightAnswer` (`extension.rs:2362`: "return the matching `review.result` assessment") | request ids start again with every turn while the session and its queued lines outlive it; the late answer of a call that timed out answers the same-numbered call of the next turn, `runner.rs:9940`, `extension.rs:2304`, `2390` |
| `MCTurnLifecycle_open` | `LogIsAdopted` (`collect_finished_provider_turn`) | a task that returns between the two looks is dropped with its log, `runner.rs:2261` |
| `MCTurnLifecycle_open` | `FinishedMeansFree` | `PromptFinished` is sent before the task has returned; a prompt that follows at once is refused with a status only, `runner.rs:2263` |
| `ConnectionStore_credential` | `CredentialAlwaysKept` (`yach-connections/src/lib.rs:255`: "Metadata and the system credential have both been written.") | the credential file is rewritten without a lock and through one temporary name, `yach-connections/src/credential.rs:96` |
| `ModelRefresh_stale` | `NothingStaleIsSelectable` (`runner.rs:707`: "no cached row is selectable until the required fresh discovery wins") | the picker re-reads the runtime's snapshot, which a refresh that resolved its connections before the mutation may have published after it, `runner.rs:2070` |
| `ModelRefresh_stale` | `SecretsAreCurrent` (`yach-cli/src/provider_connections.rs:192`: the cached secret is "cleared by every successful mutation") | repair, replace and remove clear it before they write, and a resolve or a list in between caches the old one again, `provider_connections.rs:445` |
| `HeadlessRun_open` | `FactsAreOwn` (`yach-cli/src/headless.rs:995`: "The driver's turns are the newest N in the log") | a prompt that left no turn takes one of the earlier history, `headless.rs:997` |
| `HeadlessRun_open` | `DrainIsBounded` (`yach-cli/src/headless.rs:33`: "After cancelling a turn (timeout or approval refusal), wait this long") | the window ends `CANCEL_DRAIN` after the turn's deadline, so a refused approval may wait for up to the whole timeout, `headless.rs:829` |
| `TuiScreens_decide` | `EditCanBeDecided` (`yach-ui/src/app.rs:2503`: "wait for current local edit") | a dialog replaces the review and nothing brings it back, `app.rs:1958` |
| `ContextReplay_lost` | `RequestAlwaysWhole` (native-compactor design, the chain as the session's context) | the chain counts events of the log of the turn's task; when the loop does not take up that log (a panic, or a task that returns late), later events stand where the count has already been and are left out, `runner.rs:2261`, `7385`; after an abort the loop's own events of that turn shift the file against the count, and with larger bounds a committed result is told twice |
| `MCExtensionHost_review` | `ReviewFresh` (`extension.rs:735`) | a turn's clone keeps the previous reviewer and reads the counter only when it sends, `review/coordinator.rs:396` |
| `MCExtensionHost_review` | `SeatKept` (`review/coordinator.rs:358`) | two reviewers are installed, each counts its generations from its own diagnostic, and the second, reloaded during a review of the first, comes to the same number, `extension.rs:1090`, `2701-2735` |

Some of what the code does is modelled, and excepted by name in the property it
would break, because nothing in the repository promises otherwise:

| Exception | What the code does |
|---|---|
| `blind` in `TurnsStayApart` | a session log that cannot be read counts as empty, so turn indices start again at 0 in a file that has them already, `runner/session_state.rs:530` |
| `givenUp` in `LogSurvives` | events of a batch whose write failed are dropped with the turn that kept them, and stay in the in-memory log only, `runner.rs:10999-11007` |
| `astray` in `RowsAreSound`, `CredentialKept` | a credential document that cannot be read or parsed counts as empty: a put loses the other credentials, a remove leaves the secret, `yach-connections/src/credential.rs:75-87` |
| `unsynced` in `DecisionsStick` | a decision is reported as recorded where the directory cannot be synced, `extension_capability/store.rs:617-631` |
| `[]<>~Stuck` in `HostSettles`, `blocked` in `RunEnds` | a write to a host that does not read has no deadline, and holds the only thread of a headless run, `extension.rs:573-584`, `yach-cli/src/headless.rs:345` |
| `Alone` in `SnapshotAgrees` | a reload removes the diagnostics and handlers of every extension of its package or source_ref, and the tools of one, so tools without a handler stay registered, `extension.rs:1033`, `1043`, `1344` |
| `Outdated` in `RefreshCatchesUp` | as `SecretsAreCurrent` above |
| `logRead` in `DocumentIsTrue` | a log that cannot be read back gives every turn default facts, without a word in the document, `yach-cli/src/headless.rs:462` |
| `kept` in `EditsOneByOne` | a local edit whose decision cannot be recorded is reported as finished and its preview kept, `edit_access.rs:429` |
| `inForce # 0` in `UiSettles` | after the connection of the active model is removed the screen goes on showing the model, `runner.rs:1778-1803`, `yach-ui/src/app.rs:1509` |
| `uiFaults` in `UiSettles` | a prompt answered for want of a provider while a turn of the removed one still runs ends the screen's wait, `runner.rs:2324` |
| `late` in `ShownIsRecorded` | as `ShownAnyway` above |

Read but not modelled: the counter of reviewer generations is not bumped by a
failed reload although the comment at `extension.rs:769` says every reload bumps
it; stopping any extension reports the reviewer as unavailable
(`runner/extension_state.rs:424`), revoking it does not; a batch reads the
approval mode once per round although the full-access design (lines 185-186)
has it take effect at once (`runner.rs:5757`); the headless design
(`docs/project/specs/2026-07-26-headless-driver-design.md:145-150`) says that with
exit status 2 no session was run and no document is emitted, while a failed
extension activation exits with 2 after the document was written
(`yach-cli/src/headless.rs:435`, `524`); a blank prompt, or a first append that fails,
gets no `PromptFinished`, so that a headless turn waits for its whole timeout and
the TUI stays busy (`runner.rs:2238`, `3862`).

## 6. Not modelled

- Rendering, text input, themes and layout of the TUI; argument parsing and the
  listing commands; tracing and benchmarks: presentation or sequential code with
  little state.
- The encoding of provider requests and the vendored client: data, not control.
- Of compaction: sizes and budgets (every outcome of a comparison is possible),
  the wording of summaries, attempts, metrics and progress events. Manual
  compaction blocks the loop with a token nobody cancels (`runner.rs:2185`); it is one
  step of `TurnLifecycle` and of `ContextReplay`.
- The RPC front end, which forwards lines; the refresh of access tokens, which is
  the vendored client's; the models.dev catalog, which is read once per process.
- Session forks, thinking levels, labels and base URLs of connections.
- In-file unit tests, about half of the lines of the larger source files.

## 7. Plan

The order is by how much of the program's behaviour depends on it. Done so far
are the modules above.

1. Proofs: `DocumentIsTrue` of `HeadlessRun` and `ShownIsRecorded` of
   `ProviderTurn`, each from an invariant that describes the sequences by their
   elements instead of by the operator that computes them.
2. The edit algorithm (`apply_hunks`, unique matches, no overlap) as an operator
   against a reference definition, and the hashline edits of the bundled
   extension.
3. The `/connect` screens as a protocol of their own (`ConnectionFlow`).

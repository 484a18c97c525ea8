# TLA+ models of the ZZH desktop assistant

The assistant is a Windows desktop program in Rust. It keeps a conversation with an
"agent" (a CLI process or an OpenAI-compatible HTTP service), shows hardware metrics,
and lives in a small floating window with a tray icon. This directory holds TLA+ modules
translated from its source, TLC configurations that check them on small instances, and
TLAPS proofs of the properties that hold for every instance.

    tlc -workers 2 -config <name>.cfg <module>     (one line per run in "What the runs check")
    tlapm <name>.tla                               (one line per module in "What is proved")

## 1. Inventory

Paths are relative to `src/`. `main.rs` is `apps/desktop/src/main.rs`.

| Component | State | Operations | Interacts through |
|---|---|---|---|
| **Agent contract** `crates/agent-core` | `RunTranscript`: phase, text, error; `CancellationToken`; `ConnectorCatalog` | `apply_event`, `cancel`, `register`, `connector` | events on an `mpsc` channel, a shared atomic flag |
| **Conversation controller** `apps/desktop/src/conversation.rs` | message history, active request, retry seed, `can_retry`, next id | `begin`, `retry`, `clear_retry`, `request_stop`, `fail_to_start`, `channel_closed`, `apply_event`, `view` | a mutex shared by the event loop and the consumer threads |
| **Conversation runtime** `main.rs` | profiles, catalogue, selected profile, `active_cancel` slot, window contents, event-loop queue | send, stop, retry, select, reload, exit; `consume_agent_run` | callbacks, two mutexes, channel, `upgrade_in_event_loop` |
| **CLI connector** `crates/agent-cli` | child process, pipes, two reader threads, output adapter | spawn, write stdin, poll, forward, terminate | channel, token, operating system |
| **HTTP connector** `crates/agent-http` | async request, SSE decoder | start, stream, cancel | channel, token, network |
| **Configuration worker and store** `main.rs`, `crates/app-core/src/config.rs` | pending configuration, temporary file, file, backup | `request`, `save_immediately`, flush on drop, `load`, `save`, migration | channel with a reply channel, file system |
| **AI management** `apps/desktop/src/ai_management.rs`, `app-core` profiles and credentials | profiles in the configuration, secrets in the credential store | `save_profile`, `delete_profile`, rollback | credential store, configuration worker, runtime reload |
| **Window shell** `crates/app-core/src/lib.rs`, `main.rs` | `WindowState`, `DragGesture`, remembered positions | expand, collapse, hide, restore, drag, lock, clamp to the work areas | callbacks, native events, single-shot timers, saved configuration |
| **Monitor worker** `main.rs`, `crates/system-monitor` | activity, interval, delay, `MetricHistory` | commands, sample, push, trends | channel, posted updates |
| **Sensor service** `system-monitor/src/sensor_service.rs`, `services/sensor-service` | cached snapshot, pipe | query, timeout, refresh | named pipe |
| **Network and graphics sensors** `system-monitor/src/lib.rs` | previous counters, enumerated cards, the selected one | `sample_network`, temperature sources in their order, `select_video_adapter` | system calls, native libraries, the sensor service |
| **Single instance** `apps/desktop/src/single_instance.rs` | named mutex, wake event, listener thread | acquire, notify, stop | kernel objects of several processes |
| CPU, memory, disk and GPU percentages, startup entry, Slint layout, installer, assets | - | - | foreign functions and data; no control of their own |

What is hard in it, component by component, is the list `hazards` of `PROJECT.json`, each
entry at its line. In short:

* *Conversation.* Three kinds of threads (event loop, connector worker, consumer) share the
  controller and the `active_cancel` slot under two different locks and exchange events,
  tokens and views. A consumer finishes its run in several critical sections, during which
  the user can already start the next one. The history is trimmed by count and by bytes,
  with a different reserve at each place, while an index into it is kept.
  Correct means: one open request at a time with exactly one outcome; events, tokens and
  stops reach the request they are meant for; the history stays bounded and meaningful; a
  retry that is offered can be taken, on a connector that exists, with the question it is about.
* *Connectors.* A child that reads nothing, dies, or prints after it was cancelled; a
  provider that answers while it is being cancelled. Correct means: the events form a legal
  sequence with one terminal event, and a cancelled run ends.
* *Configuration.* Debounced and acknowledged saves in one queue, crashes between writing and
  renaming. Correct means: the file is always some configuration that was asked for, an
  acknowledged one is never lost, a later one is never overwritten by an earlier one.
* *AI management.* Two stores without a transaction. Correct means: after a reported failure
  the old secret is back, and no secret is left that no profile names.
* *Window shell.* Timers of 50 and 200 ms that race with the user and with the native resize they
  wait for; window, tray and monitor worker are updated one by one. Correct means: the mascot comes
  back to its place, what is saved is where it is, nothing ends off the screens.
* *Monitoring.* Commands that postpone a sample, counters of interfaces that come, go and reset, a
  history limited twice. Correct means: the worker follows the window, a rate is never more than
  was carried, the history is the newest samples.
* *Sensor service.* A read that times out may still complete; the service stops itself when nobody
  asks, while somebody is about to; its cached reading may be old. Correct means: what is shown was
  measured and is fresh, a sample ends, temperatures come back.
* *Single instance.* One event carries both wakes and the stop. Correct means: one primary process, a
  shutdown that ends, a second launch that is shown.

## 2. Plan

The modules, in the order of their importance. All of them exist.

1. `RunTranscript` - the reducer of agent-core.
2. `ConversationController`.
3. `ConversationRuntime`, composed of the controller and the threads around it, refines
   `RequestLifecycle`. Both are proved about in `ConversationProofs`.
4. `ConnectorRun`, what any connector promises, with `CliConnector` and `HttpConnector` that
   implement it; `ConnectorsProofs`: legal runs, nothing left behind, and whole answers.
5. `ConfigPersistence` and `SingleInstance`; `ProcessesProofs`.
6. `AiManagement`; `AiManagementProofs`.
7. `WindowGeometry` and `WindowShell`; `WindowShellProofs`: on several work areas too, where
   clamping settles at once and where it only comes to an end.
8. `MonitorWorker`, `MetricHistory`, `NetworkSampler`; `MonitoringProofs`.
9. `SensorService` and `GpuSensors`; `SensorServiceProofs` and `SensorsProofs`.

Components that share no state are checked side by side in one run: `MCProcesses`, `MCConnectors`,
`MCMonitoring`, `MCSensors`, `MCWindowShell` (see section 3). Modules to be proved about use
recursive functions, folds or nothing.

## 3. The modules

### RunTranscript

Constant operators only. A text is its length in bytes, an error is its code and the length of
its message: the controller's decisions use nothing else. `Accepts` collects the accepting arms
of `RunTranscript::apply_event`, `AfterEvent` is their effect. Rejected events leave the
transcript as it was, so they are no step of it.

### ConversationController

One variable for each field of the struct (`lastError` keeps the whole error where the code
keeps its message), one action for each method. A call that returns an error
changes nothing and is not a step; its guard is that of the successful path. Points where the
translation is not literal:

* `trim_history` is two loops. `Trim` is the suffix they arrive at: drop the least number of
  oldest messages such that count, bytes and first role are all right. `MCConversationController`
  has the two loops as recursive functions and compares; `TrimAlwaysAgrees` proves them equal.
* `HistoryBytes` counts the set of byte positions of the history. The sum is the same as the
  fold of the code, and cardinalities can be reasoned about in TLAPS.
* `fail_to_start` and `channel_closed` feed `Started` and then `Failed` to the reducer under one
  lock; `FinishFailed` is their joint effect.
* `apply_event` has three outcomes, three actions: `ApplyOversizeDelta`, `ApplyTerminal`,
  `ApplyProgress`. `EventAccepted` is when it returns `Ok`.
* Authors and texts are not kept. `PlaceholderBytes` stands for the length of the fixed strings
  shown for an empty answer or as the controller's own error messages.

### ConversationRuntime

Extends the controller with the threads. Every action is what one thread does between two
points at which another can interfere - a lock, a send, a receive, a return to the event loop.

| State | In the code |
|---|---|
| `ui`, `uiQueue`, `uiPc` | properties of the window, closures queued by `upgrade_in_event_loop`, position inside a callback |
| `slot` | `active_cancel`; the token in it is `cancelled[slot]` |
| `catalog`, `selected` | connectors that could be built, `selected_index` |
| `worker`, `channel`, `sent`, `cancelled` | per request: connector thread, event channel, token |
| `consumer`, `final` | per request: position in `consume_agent_run`, whether the next post is its last |
| `outcome` | history variable: what became of each request, as the refinement needs it |

The callbacks of the event loop are not interrupted by other callbacks, so `UiReady` guards all
of them, but a consumer can act between their critical sections (`StopClicked`, `CancelToken`,
`RefreshView`; `Send`, `StartRequest`). Button conditions are those of
`apps/desktop/ui/app-window.slint`: they read the window's copy of the state (`ui`), not the
controller, and the callbacks' own tests are in addition to them. The selection menu and the confirmation
of a deletion are not gated on the window's busy flag; their callbacks ask the controller.
`dispatch_conversation_view(&ui_weak, lock(&controller).view())` holds the guard of the lock, a
temporary of the statement, until the view is posted, so `PostView` takes and posts in one step;
it is the *application* of a posted view that comes later (`ApplyPostedView`).

A view can be overtaken by one that the event loop takes itself, so the window may go back. Where it
catches up is `WindowCatchesUp`: when all consumers have returned with a last view and nothing is
posted. `final` excludes a request that could not be started: what the consumer of the request before
it posts meanwhile can leave the window busy until stop is clicked.

`WorkerStep` is what both connectors can do as `ConnectorRun` states it: start, fail before starting
(`agent-cli` when the process cannot be spawned), send deltas, end, notice the token, or just return. The drop of
`AgentRun` cancels the token and closes the channel (`PostView` with `final`).

### ConfigPersistence

A process from its start to its end, its configuration worker, and the disk. A configuration is the
set of changes that have gone into it (`Managed` is the one of `initialize_managed_models`): what the
properties ask is whether a change is lost.

| State | In the code |
|---|---|
| `owner`, `stage` | the named mutex; how far the main thread of a process is |
| `memory`, `queue`, `job` | the `AppConfig` of the event loop; the worker's channel; `pending` or the configuration being saved, with what follows the save |
| `temp`, `file`, `backup` | the temporary file, `settings.json`, its corrupt copy (`Missing`, `Torn`, or a configuration) |
| `made`, `acknowledged`, `gaveUp` | history: changes made, changes reported as saved, whether the last delayed save failed (it is only logged) |

`ConfigStore::save` is three steps - create, write and sync, replace - and `SaveFails` may take the
place of any. The save of `main` before there is a worker uses the same steps (`job` is `"boot"`).
`Exit` is the release of the mutex, `StopWorker` comes after the monitor worker has been dropped, in
the order of the last lines of `main`. `Crash` is the end of the process at any point, by an error of
`main` or from outside. Which failures happen is the constant `Faults`.
The migration of the earlier product's file writes under another name and renames, so it is one step.
`UnsavedIsPending` is stated of a running process: what is in memory and not in the file is in a save
in the queue (`SavesQueued`) or in hand (`SaveInHand`). `DistinctAssumption` says that a missing file, a
torn one and a configuration are told apart.

### RequestLifecycle

What the runtime promises without any of its mechanism: a function from request ids to outcomes,
at most one open, at most one being stopped, `Cancelled` only if asked to stop or halted; and a
stopped request is closed. `ConversationRuntime` implements it under

    stopping <- the active request's id if its stop flag is set
    halted   <- exited

### ConnectorRun, CliConnector, HttpConnector

`ConnectorRun` is a run without mechanism: the kinds of the events sent, the token, the receiver, and
whether the thread has returned. `Started` first (or one `Failed`), deltas, one terminal event,
nothing behind it; a run that is cancelled or dropped is over some day. Both connectors map their
last place to `over` and their events to their kinds.

*CliConnector* has the worker of `run_cli_process`, its two readers, the child, what the child may
have started (`helper`), and three pipes.

| State | In the code |
|---|---|
| `worker`, `ending` | the statement of `run_cli_process` it is at; the outcome it carries through the teardown |
| `unwritten`, `stdin` | what `write_all` still has; the pipe |
| `outReader`, `errReader`, `stdout`, `stderr`, `collected` | the two threads it spawns for stdout and stderr (`read_bounded_stderr`), their pipes, how much of stderr has been read |
| `lines`, `snapshots`, `turnCompleted` | the channel between reader and worker; `CodexJsonOutput` |
| `printed` | history: what the child has printed |

A line is a kind, an item and a text, a text a sequence of numbers, so that "a snapshot that
continues the one before" is a prefix. The poll loop forwards what is in the channel, looks at the
token, then at the child, in that order, and joins both readers before it reads the exit code.
`PromptFails` is what follows a failed `write_all`, whether the child has exited (`WriteFails`) or has
closed its stdin and runs on (`ChildClosesStdin`, a step of the child's choice). That a pipe of the child is
missing (agent-cli:344-368) cannot be: all three are asked for (`Stdio::piped`, agent-cli:322).

*HttpConnector* has the awaits of `run_openai_request` as places of `worker`; `wait_until_cancelled`
wins or loses at each. A chunk of the server is its size and the events that end in it (`Chunks`),
so an event may be split over chunks and a chunk may hold several. `served` remembers the events of all
chunks, for the question whether an answer is whole.

### AiManagement

Two stores and the list between them. A commit is the calls of `commit_with_credentials`
one by one: read the old secret, write the new, delete the old, save the configuration, and roll back when
the save fails; each may fail (`faults`), and the process may end between any two (`Crash`), which starts
the next from what is stored. `memory` changes with the reply of the configuration worker. `spoiled` says that a crash, or a
rollback that failed itself, left a commit half done: the code cannot promise anything then.
`editor`, which holds the delete dialog too, is state, since the list stays in use behind them.
A profile's endpoint, model and executable stand behind its name; of the draft's rules the one
about names that are taken is kept.

### WindowGeometry, WindowShell

*WindowGeometry* is the arithmetic of `crates/app-core/src/lib.rs` on integers of a width (`MaxInt`):
positions saturate, sizes are unsigned, `i32::clamp` panics when its bounds cross.

*WindowShell* has `WindowState`, `DragGesture` and `collapsed_position`, one action for each callback
of window and tray, for each native event, and for the timers.

| State | In the code |
|---|---|
| `phase`, `mode`, `flags`, `remembered`, `gesture` | `WindowState`, `DragGesture`, the position before an expansion |
| `ui`, `tray`, `activity` | what was last told the window, the tray, the monitor worker |
| `position`, `size`, `events`, `dispatching` | external: the native window, the Moved and Resized events it owes; whether some of them have been handled |
| `launch`, `soon`, `late` | the timers of 150 and 400 ms after the launch, of 50 and 200 ms after a collapse |
| `stored`, `mascotPlace` | the position handed to the saver; history: where the mascot belongs |

What the code asks of the native window is answered by events, later; timers that are due in the
same turn of the loop may run before those (`Batched`).

### MonitorWorker, MetricHistory, NetworkSampler

*MonitorWorker* is the loop of the thread `system-monitor` with time (`Tick`), its channel, and the
closures it posts: a command sets what it sets and either samples at once or begins the wait anew.
`age` and `postponed` are history.

*MetricHistory* is `push` with its retention (`Recent` is where the `pop_front` loop stops: everything
before it is too old and the sample at the front is not), and the three functions that draw trends: the indices of the
points and the common scale of the two network curves. A rate is an integer, `Missing`, or `Infinite`.

*NetworkSampler* is `sample_network`: the sum over the interfaces that are up, their set as the
signature, the baseline that is moved or kept on each way out. A sum of octets is the number of octets counted
(`Counted`), so that no sum over a set has to be defined. A rate is kept as its two
numerators and the time they are divided by; `traffic` is what the interfaces have really carried.

In `MCMonitoring` the readings of the history are the constant `Readings`; the run has three of them, the
proofs any set.

### SensorService, GpuSensors

*SensorService* joins three programs: the client of `sensor_service.rs` (one or two of them), the C#
service, and of Windows the pipe and the service manager as far as they are used. A
snapshot is its error, what it measured and its age. `pc` follows `read`, `retry_transient` and
`read_exact_with_timeout` with the overlapped read: `ReadTimesOut` asks for its end, the read ends when
Windows has ended it, cancelled or completed after all (`ReadEnds`), and only then the attempt is given up
and the handle closed (`AwaitCancelled`). `server` follows `RunAsync`: `OnStart` hands it to the thread
pool, the service manager is told that the service runs however far it is (`StartEnds`), and whatever
is thrown outside of the try around the answer ends it (`RunFails`). Time is in units of ten seconds:
whatever a client does at one sample takes none.
`Prompt` is the assumption that a service with open sensors answers within 250 ms. An
initialisation error persists until the service starts again, as in the code.

*GpuSensors* is the choice of cards: the target of the temperature, which source answers for it at a
sample (Level Zero, NVML, the service), and the adapter whose memory is shown. A temperature is
kept as the card it was measured on, with the source it comes from. Level Zero opens the sensors of all
Intel cards of the class of the target (`MatchesTarget`), NVML all devices, and the service sends one
reading per vendor. `max_by_key` is the card that all others precede; the keys end
with the index, so there is one.

### SingleInstance

The mutex and the auto-reset event by their handles and by who has set the event since it was taken
(`signal`); `stage` is the main thread, `listener` the thread `single-instance-wake`. The message that
stops the listener is sent before the event is set, and the listener looks for it after each wait.

### The MC modules that show several parts

`MCProcesses`, `MCConnectors`, `MCMonitoring` and `MCSensors` hold components that share no
variable, or the same one under several constants, and a variable (`part`, `connector`) chosen in
the initial state says which of them moves; the others rest in an initial state. Each property names
the part it is promised in, each fairness condition the part it belongs to. So the distinct states
of such a run are the sum of its parts', not a product, and nothing is claimed of an
interaction between them. In `MCWindowShell` `waits` tells the two kinds of users apart in the same
way, and `question` is a question to the clamping arithmetic, one in each of as many initial states.
`MCConnectors` shares the variables of `ConnectorRun`: all three connectors implement it in the same run.

### Operators named ...Faulty

Plausible mistakes (a dropped guard, an id that is not compared, a missing cancel) written next to
the definition they are a mistake in, and used by no specification. Substituted for that
definition, each makes TLC find its property violated; `mutants` in `PROJECT.json` pairs them.

## 4. What the runs check

| Run | Configuration, module | Distinct states | Shows |
|---|---|---|---|
| controller | `MCConversationController.cfg`, `MCConversationController` | 8,425 | `TypeOK`, `HistoryBounded`, `PendingIsActive`, `RetryIsUsable`, `IdleHistoryStartsWithUser`, `TrimAgreesWithLoops`; steps: `SettledMessagesAreFrozen` |
| runtime | `MCConversationRuntime.cfg`, `MCConversationRuntime` | 2,006,207 | `RuntimeTypeOK`, `TokensReachWorkers`, `ConsumerOwnsActive`, `RetryGoesToCatalog`, `WindowCatchesUp`, `ImplementsLifecycleSafety` |
| lifecycle | `RequestLifecycle.cfg`, `MCConversationRuntime` | 86,291 | liveness: `ImplementsLifecycle`, `EndedWorkerClosesRequest` |
| processes | `Processes.cfg`, `MCProcesses` | 105,903 | `SettingsAreKept`, `OnePrimary`; steps: `FileSurvives`; liveness: `NobodyWaitsForEver`, `NotifiedIsShown` |
| connectors | `Connectors.cfg`, `MCConnectors` | 410,790 | `AnswersAreWhole`, `NothingLeftBehind`; refinement with liveness: `ImplementsRun`; liveness: `HttpRunEnds` |
| ai_management | `AiManagement.cfg`, `MCAiManagement` | 1,387,160 | `StoresAgree`; steps: `FailureRestores`, `AcknowledgedIsStored`, `OthersKeepTheirSecrets` |
| window | `WindowShell.cfg`, `MCWindowShell` | 583,090 | `SurfacesFollow`, `RestsWhereStored`, `MascotComesBackInTime`, `ClampIsSound` |
| monitoring | `Monitoring.cfg`, `MCMonitoring` | 496,819 | `WorkerKeepsPace`, `HistoryIsTrue`, `NeverOverReports`; liveness: `MonitoringGoesOn` |
| sensors | `Sensors.cfg`, `MCSensors` | 1,231,778 | `ReadingsAreTrue`, `CardsAreTrue`; steps: `UsedStaysUp`; liveness: `TemperaturesComeBack` |
| retry_prompt | `RetryPrompt.cfg`, `MCConversationController` | - | `RequestEndsWithPrompt` is violated |
| wrong_model | `WrongModel.cfg`, `MCAiManagement` | - | `DeletesWhatWasChosen` is violated |
| held_pipe | `HeldPipe.cfg`, `MCCliConnector` | - | `ThreadsEnd` is violated |

Most of these properties are conjunctions of named parts, each with its own comment: for example
`SettingsAreKept` is the types of `ConfigPersistence`, `AcknowledgedIsSaved` where files can be read and
`UnsavedIsPending` where saving works.

### Bounds, and why they are enough

* *Controller.* Five messages and seven bytes, prompts up to two, answers up to two: count and
  bytes each become the limit that trims first, a prompt alone or an answer alone can make trimming
  necessary, and every reserve (limit, limit - 1, limit - 2) differs from the others. Two request ids
  make the counter wrap in the second request and an id be used again. Prompts of 0 and
  `MaxPromptBytes + 1` bytes, and deltas beyond `MaxResponseBytes`, are tried. Nothing else is
  bounded: the state space is finite by itself. For all other sizes there are the proofs.
  *Trimming* is compared on every history the controller reaches, followed by up to two messages of any
  role and of sizes 0, 2, 5 and 8, with message limits 0 and 2 to 5: below, at and above the limit of
  seven bytes, alone and added.
* *Runtime.* Two requests in sequence, since the hazards are between a request and the next one:
  `RequestBound` keeps ids from being used again while state of their first run is kept. One delta
  for each run that fits or does not (sizes 1 and 2 against a response limit of 1), a queue of two
  posted views, two connectors and the catalogues in which one is lost and regained. `DeltaBound` only
  limits repetition of the same step; `QueueBound` lets a consumer wait where the code would queue,
  which takes no behaviour of shorter queues away. Since the model stops after its bounded number of
  requests, deadlock is not checked there; that no request hangs is `ImplementsLifecycle` and
  `EndedWorkerClosesRequest`.
* *Lifecycle.* As runtime, with one connector, the oversize delta only and a queue of one, for the
  size of the liveness graph.
* *Processes.* Three changes and one that an earlier version left behind, each made once: two saves in
  the queue while a third is in hand, of both kinds in every order, in as many starts of the program
  as there are crashes. The file is first missing, torn, old, or managed. One part has crashes and
  failing saves, the other crashes, failing loads and failing backups: with both, the code knowingly
  goes on with defaults that it may then fail to save, and little is promised (see the disagreements).
  Three launches, of which each may fail to start its listener or crash: one that is primary, one that
  meets it, and one that comes during the shutdown.
* *Connectors.* A pipe, a prompt and the part of stderr that is kept are one unit, so each pipe is
  full after one item. The prompt fits the pipe, as it does in the code (`MAX_PROMPT_BYTES` is 16 KiB,
  a pipe of the Rust library on Windows holds 64 KiB): a child that does not read would otherwise hold the worker in `write_all`, where no token is polled.
  Two lines of text or three of Codex, among a growing message, one that takes back, the end of
  the turn and a line that is no UTF-8; two complaints on stderr. The server writes four
  events in chunks of one or two units against a stream limit of four and a text limit of three, two
  chunks on their way. `Helpers` is off: a child that hands its pipes on is the run held_pipe.
* *AI management.* Two profiles with two names, keys and ids, one target written by hand, three
  initial files; two failing calls (the second is the one in the rollback) and a crash at every point.
* *Window.* One work area of 8 by 5, a mascot of 3 by 3 and a panel of 5 by 4: in the corner the
  mascot stands where the panel does not fit. One place beyond the screen to drop at, a saved
  position off the screen or none, two pairs of timers pending (one for the user who waits). The lock
  is the option that matters to a drag; always-on-top changes nothing else. The arithmetic is asked
  10 by 10 positions, 25 sizes, 7 arrangements of up to two areas and both modes, up to both ends of
  integers of six bits: every comparison and saturation has both outcomes.
* *Monitoring.* Periods 2 and 3, background 4, hidden 5, a first delay of 1, and a usable gap of 8: in
  the order of the source's 2 to 10, 10, 20, 0.25 and 30 s. Two commands on their way and two snapshots posted: the second
  command changes what the first set. Five samples at times 0 to 5 against four samples and three
  units of time, three points of trend: both limits bind first, at different samples. Two interfaces
  with counters of one octet and two changes - a reset and an arrival are the shortest way to a
  wrong difference.
* *Sensors.* Two clients with two attempts, who meet at the one pipe of a service that may be slow, stop
  for want of clients and be started again, but does not fail, for the size of the graph (of failures with
  several clients there is the proof). One client with three attempts, one fault and a service that may
  never answer; one with three attempts, two faults and all initialisation errors against a prompt service,
  which samples within two units of time; the service stops after three idle ones. Eleven machines with up to three cards, three of them with two cards of one
  vendor (Intel, NVIDIA, AMD), memory use of 1, 4 or no counter, two replugs.

### Fairness

Nothing is ever assumed of users, children, servers or of the time a provider takes.

* *Runtime*, until the process exits and not after it: the event loop finishes a callback it has begun
  (`WF UiStep`); a posted view is applied however many clicks there are - the loop's queue is first
  in, first out, so it is strong fairness (`SF ApplyPostedView`); a consumer thread is scheduled
  (`WF ConsumerStep`); a worker reaches its first event, and notices a token that is cancelled
  (`WF WorkerReacts`), which is what `ImplementsRun` shows of both connectors.
* *Processes.* Main thread and configuration worker of a process go on when they can, which a crash
  may end; main thread and listener of a launch likewise.
* *Connectors.* The worker and the two readers are scheduled. A thread that waits at a pipe, at an
  await or at `join` is not enabled. `HttpRunEnds` assumes in addition that the timeout of
  the request elapses (`WF TimesOut`); `ImplementsRun` does not.
* *Monitoring.* The worker is scheduled, posted closures are run, time passes; for the rates, that the sampler
  samples and time passes.
* *Sensors.* Of a silent service only the client's thread is assumed to go on; of a prompt one also the
  service, its updates, time, and that the client samples again.
* *AI management, window.* None: their properties are safety.

### Disagreements found

Three of them are runs.

* **A retry can lose its question** (`retry_prompt`). Each failed attempt leaves its partial answer
  in the history. Four retryable failures with 64 KiB each exceed `MAX_HISTORY_BYTES` (256 KiB): when
  the fourth ends, the trim of `finish_active` (conversation.rs:325) removes the oldest message, the
  user's prompt, and then the answers that lead. Retry is still offered and returns a request with no
  message, which `validate_request` rejects. The configuration has the limits of the source in units of 16 KiB.
  `docs/plans/2026-07-31-p4-agent-interaction-design.md:24` says a retry reuses the last user request.
* **Another model than the confirmed one is deleted** (`wrong_model`). The confirmation does not cover
  what lies behind it. A second delete button changes what is confirmed under the same dialog,
  and a save or deletion shifts the positions; the confirmation passes a position, looked up in the
  list as it is then. `docs/plans/2026-08-02-ai-model-management-design.md:18` asks for a
  confirmation of the model.
* **A process of the child keeps the worker** (`held_pipe`). When the child has exited the worker joins its
  readers, which end with the pipe; a process that inherited the pipe keeps it open, and the
  token is not polled again. `docs/plans/2026-07-30-agent-connector-prototype-design.md:55` says all
  threads exit after completion, failure or cancellation.

The others are stated as properties in the modules, and TLC refutes them under the constants given
(paths in brackets are those of section 1).

| Property, module | With | What the code does | What is said |
|---|---|---|---|
| `ShownRetryIsOpen`, `ConversationRuntime` | the runtime's constants | A view posted by the consumer is applied after a profile selection has cleared the retry: the button comes back, does nothing, and stays until the next view (main.rs:1083). | `docs/reports/2026-07-31-p4-agent-interaction-batch-6.md:14`: selecting removes it |
| `UnsavedIsPending`, `ConfigPersistence` | `Faults = {"save"}` | An immediate save that fails drops the delayed configuration that was waiting (main.rs:1223). | `docs/reports/2026-08-02-ai-model-management.md:21`: both kinds are serialised |
| `CorruptFileIsKept`, `ConfigPersistence` | `Faults = {"load", "backup"}` | The corrupt file cannot be renamed, defaults are used, the next save replaces it (main.rs:316). | `docs/plans/2026-07-30-p2-desktop-shell-design.md:23`: the copy is kept |
| `OneMonitorAtATime`, `ConfigPersistence` | two processes, no faults | The mutex goes before the monitor worker is joined and before the settings are flushed (main.rs:251). | `docs/plans/2026-07-30-p2-desktop-shell-design.md:27`: no second set of monitor threads |
| `LaunchIsServed`, `SingleInstance` | `Faults = {}` | A launch during the shutdown sets an event nobody acts on (single_instance.rs:64). | the same line: a second instance wakes the first |
| `StartedFirst`, `CliConnector` | the connectors' constants | A process that cannot be spawned is reported by `Failed` without `Started`, which the reducer rejects (agent-cli:331). | `docs/plans/2026-07-31-p4-agent-interaction-design.md:12`: only Started, TextDelta, terminal |
| `ExitCodeIsKept`, `CliConnector` | the same | A CLI that exits before it has read the prompt ends the run by the failed write; its exit code and stderr are not read (agent-cli:353). | `docs/reports/2026-07-31-p4-agent-interaction-batch-4.md:15`: the exit code is kept |
| `NoOrphan`, `CliConnector` | the same | The token is set at exit, but nobody joins the worker that would see it (main.rs:251). | `docs/reports/2026-07-31-p4-agent-interaction-final.md:41`: no child remains |
| `OthersKeepTheirSecrets`, `AiManagement` | `InitialConfigs <- SharedTarget` | Deleting a profile deletes a credential another one names too (ai_management.rs:264). | `apps/desktop/ui/app-window.slint:1056`: this model and its key |
| `MascotComesBack`, `WindowShell` | `Patient = FALSE` | The timers of a collapse move the panel the user has expanded again; it is that place which is remembered (main.rs:2153). | `README.md:12`: the position before the expansion is restored |
| `ComesToRest`, `WindowShell` | `FairSpec`, the window's constants | A Moved event is answered with the place it names. When a timer runs before the event of the user's drag is handled, two events that name different places are under way, each answer raises the next, and the window jumps between both (main.rs:2091). | `docs/reports/2026-07-31-p2-desktop-shell-batch-6.md:9`: the position is restored |
| `GapIsUsable`, `MonitorWorker` | the monitoring constants | Commands that keep coming postpone the sample beyond the limit of the counters (main.rs:1464). | `docs/plans/2026-07-31-p3-task5-performance-design.md:12`: periods stay below 30 s |
| `TemperatureRests`, `MonitorWorker` | the same | Opening the page samples at once, however short ago the last one was (main.rs:1469). | `docs/plans/2026-08-02-accurate-temperature-engine-design.md:40`: at least 2 s apart |
| `NeverTooLong`, `MetricHistory` | the same | `push` returns before it looks at the count when there is no cutoff yet (lib.rs:163). | `docs/reports/2026-07-31-p3-monitoring-core-batch-2.md:9`: at most 301 samples |
| `ThreeReads`, `SensorService` | the silent service | When the service is found starting, the reads are tried once more: six (sensor_service.rs:220). | `docs/plans/2026-08-03-temperature-pipe-stability-design.md:11`: at most three |
| `OneTimeout`, `SensorService` | the same, `MaxTimeouts = 2` | Length and payload of each attempt wait 250 ms each (sensor_service.rs:249). | `docs/plans/2026-08-02-accurate-temperature-engine-design.md:42`: 250 ms in all |
| `DedicatedIsShown`, `GpuSensors` | the sensors' constants: an integrated and a dedicated card of AMD, or of Intel where Level Zero does not answer | The service sends one reading per vendor, of the hottest card with the best sensor (SensorSelection.cs:38); it is shown as the dedicated card's (lib.rs:777). | `docs/plans/2026-08-02-gpu-temperature-selection-design.md:15`: integrated ones are ignored |
| `NoCounterIsUnavailable`, `GpuSensors` | the sensors' constants | A card without a counter instance, or under another LUID than the enumerated one, uses nothing (lib.rs:1442). | `docs/plans/2026-07-30-gpu-metrics-design.md:61`: no instance is unavailable |

Level Zero is asked for the class of the target, so what it answers is of that class (`NativeIsOfClass`); of
two NVIDIA cards the hotter one is shown (lib.rs:1290), though
`docs/plans/2026-08-02-accurate-temperature-engine-design.md:9` names the target only. `ShownIsTarget`
therefore promises the target's own temperature where its vendor has no other card.

## 5. What is proved

Every theorem holds for all values of the constants under the assumptions its module names; the
runs show the same on the instances of section 4. One module of proofs for each component:

| Module (`tlapm`) | Theorem | Statement |
|---|---|---|
| `ConversationProofs` (4 min) | `Invariance` | `Spec => []IInv` |
| | `TypeCorrect` | `Spec => []TypeOK` |
| | `HistoryStaysBounded` | `Spec => []HistoryBounded` |
| | `IndexNamesPendingAnswer` | `Spec => []PendingIsActive` |
| | `RetryStaysUsable` | `Spec => []RetryIsUsable` |
| | `TrimAlwaysAgrees` | `Spec => []TrimAgreesWithLoops` |
| | `HistoryStartsWithUser` | `Spec => []IdleHistoryStartsWithUser` |
| | `SettledMessagesStay` | `Spec => SettledMessagesAreFrozen` |
| | `RuntimeInvariance` | `RuntimeSafety => []RuntimeIInv` |
| | `RuntimeTypeCorrect` | `RuntimeSafety => []RuntimeTypeOK` |
| | `TokensAlwaysReachWorkers` | `RuntimeSafety => []TokensReachWorkers` |
| | `ConsumersOwnActive` | `RuntimeSafety => []ConsumerOwnsActive` |
| | `RetryStaysInCatalog` | `RuntimeSafety => []RetryGoesToCatalog` |
| | `WindowAlwaysCatchesUp` | `RuntimeSafety => []WindowCatchesUp` |
| | `RuntimeImplementsController` | `RuntimeSafety => Spec` |
| | `RuntimeImplementsLifecycle` | `RuntimeSafety => ImplementsLifecycleSafety` |
| `ProcessesProofs` (2 min) | `LaunchesHaveOnePrimary`, `ProcessesHaveOnePrimary` | `Instances!Spec => []OnePrimary`, `ProcessesSpec => []OnePrimary` |
| | `SettingsTypeCorrect` | `Safety => []TypeOK` |
| | `ReadableDiskKeepsSettings` | no failing load or backup: `Safety /\ []Alone => []AcknowledgedIsSaved /\ FileKeepsChanges /\ CorruptFileIsKept` |
| | `WritableDiskForgetsNothing` | no failing save: `Safety /\ []Alone => []UnsavedIsPending` |
| | `ProcessesKeepSettings` | `ProcessesSpec => []SettingsAreKept` |
| | `ProcessesKeepTheFile` | `ProcessesSpec => FileSurvives` |
| `ConnectorsProofs` (9 min) | `NothingIsLeftBehind` | `ConnectorsSpec => []NothingLeftBehind` |
| | `AnswersAreAlwaysWhole` | `ConnectorsSpec => []AnswersAreWhole` |
| | `ConnectorsSendLegalRuns` | `ConnectorsSpec => Run!Init /\ [][Run!Next]_(Run!vars)` |
| `AiManagementProofs` (3 min) | `StoresAlwaysAgree` | separate keys: `Spec => []StoresAgree` |
| | `FailedCommitsRestore` | separate keys: `Spec => FailureRestores` |
| | `AcknowledgedSavesAreStored` | separate keys: `Spec => AcknowledgedIsStored` |
| | `OtherProfilesKeepTheirSecrets` | separate keys: `Spec => OthersKeepTheirSecrets` |
| `WindowShellProofs` (2 min) | `RecoveryShowsTheWindow` | any window, any work areas: `BoundsDoNotCross(q) /\ ShowsEnough(q)` |
| | `AnswersShowTheWindow` | the same of the questions of the run |
| | `ClampIsSoundOnOneArea` | `UsersSpec => [](one work area => ClampIsSound)` |
| | `PanelSettlesAtOnce` | work areas apart that hold the panel: `Answer(AskAgain(q)) = Answer(q) /\ Settles(q)` |
| | `ClampIsSoundForThePanel` | the same of the questions of the run: `UsersSpec => [](... => ClampIsSound)` |
| | `RecoveryComesToAnEnd` | any window, any work areas: answering each answer again comes to a fixed point |
| | `SurfacesAlwaysFollow` | showing succeeds: `UsersSpec => []SurfacesFollow` |
| | `AlwaysRestsWhereStored` | `UsersSpec => []RestsWhereStored` |
| | `MascotAlwaysComesBack` | one work area: `UsersSpec => []MascotComesBackInTime` |
| `MonitoringProofs` (2 min) | `WorkerAlwaysKeepsPace` | `MonitoringSpec => []WorkerKeepsPace` |
| | `HistoryIsAlwaysTrue` | `MonitoringSpec => []HistoryIsTrue` |
| | `RatesNeverOverReport` | `MonitoringSpec => []NeverOverReports` |
| `SensorServiceProofs` (40 s) | `ReadingsStayTrue` | `Served => [](TypeOK /\ ShownWasMeasured /\ BuffersOutliveReads)` |
| | `UsedServiceStays` | prompt, sampled often enough: `Served => NotIdleWhileUsed` |
| `SensorsProofs` (2 min) | `ReadingsAreAlwaysTrue` | `SensorsSpec => []ReadingsAreTrue` |
| | `UsedAlwaysStaysUp` | `2 < IdleTimeout`: `SensorsSpec => UsedStaysUp` |
| | `CardsAreAlwaysTrue` | `SensorsSpec => []CardsAreTrue` |

### The assumptions

Those on constants say that limits are naturals, that inputs have their types, and that a value which
stands for "none" is none of the values it stands apart from. The others, and why they hold:

* *Conversation.* Room for a question and its answer (`MaxHistoryMessages >= 2`; the code has 24), and
  at least one request id.
* *Connectors.* The lines a CLI may print have the kinds of its format, and there are finitely many
  ids of Codex messages (`LinesAssumption`): the connector keeps one text for each id it has met. A
  server's event has a text only if it is a text (`LimitsAssumption`). `FormatsAssumption` says which
  of the two instances of `CliConnector` reads which format. Texts are sequences of naturals of any length.
* *Processes.* The two promises of `SettingsAreKept` are made of different disks, as in the run
  (`DisksAssumption`): with failing loads *and* failing saves neither holds. `Alone` - a process
  starts only when the one before it has written its settings - is what the code does not
  guarantee (hazard single_instance.rs:64): two processes that overlap can each save what the other
  did not load. `DisksAssumption` has it by one process for each disk, so it hides this hazard
  and no other; the mutex itself is proved for any number of launches.
* *AI management.* `KeysAreSeparate`: the first configuration names no credential twice. The
  program keeps this once it holds, since it names keys after ids (part of `AiIInv`), but does not check it in a
  file written by hand; without it `OthersKeepTheirSecrets` is false (see the disagreements).
  `AiAssumption` has that no id is itself the name of a credential written by hand.
* *Window.* `ShowFails` is off where window and tray are to agree (a failed `show` leaves them apart,
  see section 6). `OpensOnScreen` is what the window manager does with a new window, `Mascot # Panel` is true of the
  layout: between equal sizes no Resized event would follow an expansion. Work areas have a width and a
  height. For the return of the mascot there is one work area: with several the position that is
  recovered may lie nearest to another one. `PanelSettlesAtOnce` asks for work areas that do not overlap
  (`AreasApart`, true of monitors) and are at least as large as the panel, which is 2 pixels or more
  in each direction (`FitsEverywhere`); `RecoveryComesToAnEnd` asks for nothing.
* *Monitoring.* There are finitely many interfaces.
* *Sensors.* `SampleGap < IdleTimeout`, in the run `2 < IdleTimeout`: a client samples every 2 to 20 s and the
  service waits for 30 s. Commands that postpone its samples can break this (`GapIsUsable` among the
  disagreements); the service then stops, and is started again. Of the cards nothing is assumed.

### The invariants

* *Controller.* `IInv` joins the five invariants with `ActiveRunIsFresh`: a run that awaits its start
  has received no text. They need each other - bounds on the history need the index (the answer being
  written is the last message), the index needs the role and the types, and the action property
  needs that no step of an active request trims. The lemmas below it say that the size of a history
  is finite and adds up when a message is appended, and that `Trim` yields a suffix within both
  limits that does not begin with an answer and keeps settled messages settled. That `Trim` is the
  two loops needs no invariant but the types: `LoopArrives` says where a loop over positions stops,
  `SumIsBytes` that the sum of the code is the size counted, `SuffixIsSmaller` that the second loop
  cannot spoil what the first has reached.
* *Runtime.* `RuntimeIInv` adds to `IInv` where each thread stands and what that says of the shared state:
  a channel holds what was sent and not received; a consumer that has not closed its run owns the active request; the slot
  holds its token; a stop that is requested has cancelled it or is at the statement that will; the request
  without an outcome is the active one. For `WindowCatchesUp` it has that the window shows the controller's view but for
  what is posted, what a consumer has still to post, or what the callback in progress will refresh.
  The refinement of the controller comes first, so that `IInv` is
  preserved by one lemma, and the refinement of `RequestLifecycle` reads the outcomes off the invariant.
* *Processes.* On a readable disk everything a process has loaded, queued or in hand contains the file
  (`FileIsKnownTo`); on a writable one what is in memory is the last in the queue, or in hand, or
  the file (`MemoryIsPendingOf`).
* *Connectors.* By the place of the worker: what has been sent ends the run or does not (`Speaks`), which
  threads run, and that a run without a decided ending that is torn down has no listener.
  For whole answers `AnswersIInv` adds what has been read to where the worker is. Of a CLI (`CliWhole`):
  what the child has printed is what the worker has taken, then the channel, then the pipe (`InPipes`);
  a reader that is done has left nothing (`ReadsAll`); what has been sent is what the taken lines say,
  for Codex with the last text of every message as it was last taken (`SaidIsTaken`); and a run that completes
  has taken everything (`CompletedIsAll`). Of a server (`HttpWhole`): what was served is what was taken and a
  rest, the rest is in the wire and the decoder while the worker reads, and a completed run has taken the
  end mark (`HttpFlow`).
* *AI management.* `CommitFits` relates the task in hand to the configuration before and after it and to
  the store as it was read; `AiIInv` says of a commit that the store is at one of the points of its sequence of calls.
* *Window.* `WaitingIInv` follows a collapse: until the timers have run and the events are handled, each
  position in a timer, an event or the memory of the panel recovers to the place of the mascot.
  The arithmetic rests on lemmas about `ClampToScreen` and the nearest work area. On several areas
  each further recovery goes to one that is nearer, or as near and earlier in the list
  (`NextIsNearerOrLast`), since clamping never takes the centre away from the area it clamps to
  (`ClampComesNearer`); such a descent has an end. Two recoveries, as `Settles` has it on the arrangements of
  the run, are not always enough: with areas of 1 by 14 at (17, -9) and of 6 by 1 at (9, -1), a window
  of 5 by 14 that is asked to stand at (0, -14) moves three times.
* *Monitoring.* What the worker knows is what the posted commands will make of it; the history is the window of the
  accepted samples at the last push; what the interfaces of the last reading count now is at most
  what they counted then and the network has carried since, which a difference never exceeds.
* *Sensors.* `PipeFits` says what a client may find in its pipe, by the place of the service, also while it
  waits for the end of a read it has given up; `UsedIInv`
  bounds the idle time of the service by the rest of each client. `CardsIInv` adds to the properties
  that the target is still the selected one, since the enumeration is never repeated.

The library's induction theorems take an operator as a parameter, which these provers cannot
instantiate. The greatest of a finite set of indices, the nearest work area, the windows of a history,
what `FlattenSeq` and `FoldFunction` say of sequences of any length, and what the recursive functions of
the two loops compute are therefore proved through a set of numbers that has a least element: of the
counterexamples, or of the lengths for which the claim is known. That a recursive function satisfies its
equation is shown by a function that does.

### Only model-checked

* *Liveness* (`ImplementsLifecycle`, `EndedWorkerClosesRequest`, `NobodyWaitsForEver`,
  `NotifiedIsShown`, `ImplementsRun` beyond its steps, `HttpRunEnds`, `MonitoringGoesOn`,
  `TemperaturesComeBack`): fairness and ENABLED are out of reach of these provers.
* `ClampIsSound` beyond the theorems of section 5, on several work areas, of the mascot or of a panel that is larger than an
  area: that *two* recoveries are enough. It holds on the arrangements of the run and not on all (see
  "The invariants"); that there is an end is proved for all.

Every other property of a passing run is stated by a theorem.

## 6. What is not modelled

* *Conversation and connectors.* The content of texts, authors, the status line and layout;
  attachments and capabilities, which the desktop never sends; poisoned mutexes, which the code
  recovers from (`lock_unpoisoned`); the 50 ms throttle of the consumer, which delays a delta's view (it has no
  property); how a CLI is found, the URL rules and the mock server of agent-http, the check of a
  connector's configuration.
* *Configuration.* The format of the file and its version upgrade; a loss of power that undoes writes
  the system call had confirmed.
* *AI management.* The rules of a draft except that names are unique.
* *Window.* A `set_window_position` or a query of the work areas that fails; the choice of the
  mascot and its repaint timer; monitors that change while the program runs; the startup entry. That window, tray and
  state machine agree is checked where the window can be shown: when showing fails the code leaves them apart.
* *Monitoring and sensors.* CPU, memory, disk and GPU percentages, the enumeration of cards and the
  foreign calls of the sensors; a clock that is set back; an administrator who stops the service; what
  `ServiceBase` makes of a stop that `RunAsync` asks for before `OnStart` has returned (here the stop follows
  when the service runs).
* Packaging, installer, assets, generated layout: data, and input and output without control of their own.

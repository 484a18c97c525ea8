-------------------------- MODULE ConfigPersistence --------------------------
(***************************************************************************)
(* How settings reach the disk: the configuration worker of                *)
(* apps/desktop/src/main.rs, which delays ordinary saves and acknowledges  *)
(* immediate ones, the store of crates/app-core/src/config.rs, which       *)
(* replaces the file atomically, and the start and the end of a process    *)
(* around them.  A configuration is the set of changes that have gone into *)
(* it, which is what can be lost.                                          *)
(***************************************************************************)
EXTENDS Naturals, Sequences

CONSTANTS
  Process,   \* processes of the program that the user may start
  Changes,   \* bound: the changes users make
  Managed,   \* the change initialize_managed_models makes
  Legacy,    \* the settings file of the earlier product name, or Missing
  Earlier,   \* contents of the settings file before the first start
  Faults,    \* which of "crash", "save", "load", "backup" happen
  Missing,   \* no file
  Torn,      \* a file that does not parse
  None

ASSUME ContentsAssumption ==
  /\ Managed \notin Changes
  /\ Earlier \cup {Legacy} \subseteq (SUBSET (Changes \cup {Managed})) \cup {Missing, Torn}

Config == SUBSET (Changes \cup {Managed})

FileContent == {Missing, Torn} \cup Config

Parses(content) == content \notin {Missing, Torn}

\* No file and a file that does not parse are told apart from every whole one.
ASSUME DistinctAssumption ==
  /\ Missing # Torn
  /\ \A config \in Config : Parses(config)

VARIABLES
  owner,         \* who holds the named mutex
  stage,         \* per process: where its main thread is
  memory,        \* per process: its AppConfig
  queue,         \* per process: commands sent to its worker
  job,           \* per process: what its worker has in hand
  temp,          \* per process: its temporary file
  file,          \* settings.json
  backup,        \* settings.json.corrupt exists
  made,          \* the changes made so far
  acknowledged,  \* history variable: changes a user was told are saved
  gaveUp         \* history variable: per process, its last delayed save failed

vars == <<owner, stage, memory, queue, job, temp, file, backup, made,
          acknowledged, gaveUp>>

Job(then, config) == [then |-> then, config |-> config]
NoThread == Job("off", {})
Idle == Job("idle", {})

Command(kind, config) == [kind |-> kind, config |-> config]
Commands == [kind : {"Save", "SaveImmediately", "Stop"}, config : Config]

Saving == {"boot", "reply", "next", "stop"}

Init ==
  /\ owner = None
  /\ stage = [p \in Process |-> "off"]
  /\ memory = [p \in Process |-> {}]
  /\ queue = [p \in Process |-> <<>>]
  /\ job = [p \in Process |-> NoThread]
  /\ temp = [p \in Process |-> Missing]
  /\ file \in Earlier
  /\ backup = FALSE
  /\ made = Changes \cap UNION ((Earlier \cup {Legacy}) \ {Missing, Torn})
  /\ acknowledged = {}
  /\ gaveUp = [p \in Process |-> FALSE]

MoveTo(p, place) == stage' = [stage EXCEPT ![p] = place]

-----------------------------------------------------------------------------
(* The start of a process.                                                 *)

\* single_instance::acquire succeeds only without another holder.
Launch(p) ==
  /\ stage[p] = "off"
  /\ owner = None
  /\ owner' = p
  /\ MoveTo(p, "starting")
  /\ gaveUp' = [gaveUp EXCEPT ![p] = FALSE]
  /\ UNCHANGED <<memory, queue, job, temp, file, backup, made, acknowledged>>

\* A file of the earlier product is copied when there is no file of this one.
MigrateLegacyConfig(p) ==
  /\ stage[p] = "starting"
  /\ file' = IF file = Missing THEN Legacy ELSE file
  /\ MoveTo(p, "loading")
  /\ UNCHANGED <<owner, memory, queue, job, temp, backup, made, acknowledged, gaveUp>>

\* A file that does not parse stays where it is.
LoadConfigFaulty(p) ==
  /\ stage[p] = "loading"
  /\ memory' = [memory EXCEPT ![p] = IF Parses(file) THEN file ELSE {}]
  /\ MoveTo(p, "loaded")
  /\ UNCHANGED <<owner, queue, job, temp, file, backup, made, acknowledged, gaveUp>>

\* A missing file, and every error of the store, gives the defaults.
LoadConfig(p) ==
  /\ stage[p] = "loading"
  /\ memory' = [memory EXCEPT ![p] = IF Parses(file) THEN file ELSE {}]
  /\ IF file = Torn
       THEN file' = Missing /\ backup' = TRUE
       ELSE UNCHANGED <<file, backup>>
  /\ MoveTo(p, "loaded")
  /\ UNCHANGED <<owner, queue, job, temp, made, acknowledged, gaveUp>>

\* The file cannot be opened, or cannot be renamed once it did not parse.
LoadFails(p) ==
  /\ stage[p] = "loading"
  /\ \/ "load" \in Faults /\ file # Missing
     \/ "backup" \in Faults /\ file = Torn
  /\ memory' = [memory EXCEPT ![p] = {}]
  /\ MoveTo(p, "loaded")
  /\ UNCHANGED <<owner, queue, job, temp, file, backup, made, acknowledged, gaveUp>>

\* main saves what initialize_managed_models changed before there is a worker.
InitializeManagedModels(p) ==
  /\ stage[p] = "loaded"
  /\ memory' = [memory EXCEPT ![p] = @ \cup {Managed}]
  /\ IF Managed \in memory[p]
       THEN MoveTo(p, "running") /\ job' = [job EXCEPT ![p] = Idle]
       ELSE MoveTo(p, "booting") /\ job' = [job EXCEPT ![p] = Job("boot", memory'[p])]
  /\ UNCHANGED <<owner, queue, temp, file, backup, made, acknowledged, gaveUp>>

-----------------------------------------------------------------------------
(* The event loop.                                                         *)

Post(p, command) == queue' = [queue EXCEPT ![p] = Append(@, command)]

\* A setting changes at once, and its save is requested.
RequestSave(p, c) ==
  /\ stage[p] = "running"
  /\ c \notin made
  /\ made' = made \cup {c}
  /\ memory' = [memory EXCEPT ![p] = @ \cup {c}]
  /\ Post(p, Command("Save", memory'[p]))
  /\ UNCHANGED <<owner, stage, job, temp, file, backup, acknowledged, gaveUp>>

\* AI management waits for the reply, and changes the memory only after it.
SaveImmediately(p, c) ==
  /\ stage[p] = "running"
  /\ c \notin made
  /\ made' = made \cup {c}
  /\ Post(p, Command("SaveImmediately", memory[p] \cup {c}))
  /\ MoveTo(p, "waiting")
  /\ UNCHANGED <<owner, memory, job, temp, file, backup, acknowledged, gaveUp>>

\* The event loop returns and main drops its values in order: first the single
\* instance and its mutex, then the monitor worker ...
Exit(p) ==
  /\ stage[p] = "running"
  /\ owner' = None
  /\ MoveTo(p, "released")
  /\ UNCHANGED <<memory, queue, job, temp, file, backup, made, acknowledged, gaveUp>>

\* ... then the configuration worker, which it stops ...
StopWorker(p) ==
  /\ stage[p] = "released"
  /\ Post(p, Command("Stop", {}))
  /\ MoveTo(p, "stopping")
  /\ UNCHANGED <<owner, memory, job, temp, file, backup, made, acknowledged, gaveUp>>

\* ... and joins.
JoinWorker(p) ==
  /\ stage[p] = "stopping"
  /\ job[p] = NoThread
  /\ MoveTo(p, "off")
  /\ UNCHANGED <<owner, memory, queue, job, temp, file, backup, made, acknowledged, gaveUp>>

\* The process ends anywhere, with an error of main or killed: the mutex goes
\* with it, a temporary file stays behind under a name nobody uses again.
Crash(p) ==
  /\ "crash" \in Faults
  /\ stage[p] # "off"
  /\ owner' = IF owner = p THEN None ELSE owner
  /\ MoveTo(p, "off")
  /\ queue' = [queue EXCEPT ![p] = <<>>]
  /\ job' = [job EXCEPT ![p] = NoThread]
  /\ temp' = [temp EXCEPT ![p] = Missing]
  /\ UNCHANGED <<memory, file, backup, made, acknowledged, gaveUp>>

-----------------------------------------------------------------------------
(* The worker thread.                                                      *)

\* recv and recv_timeout: the worker takes the next command of a kind.
Takes(p, kind) ==
  /\ job[p].then \in {"idle", "delay"}
  /\ queue[p] # <<>> /\ Head(queue[p]).kind = kind
  /\ queue' = [queue EXCEPT ![p] = Tail(@)]

WorkerUnchanged == UNCHANGED <<owner, stage, memory, temp, file, backup, made, acknowledged, gaveUp>>

\* A later configuration is ignored while one is waiting.
TakeSaveFaulty(p) ==
  /\ Takes(p, "Save")
  /\ job' = [job EXCEPT ![p] = IF @.then = "delay" THEN @ ELSE Job("delay", Head(queue[p]).config)]
  /\ WorkerUnchanged

\* A later configuration replaces the one that waits.
TakeSave(p) ==
  /\ Takes(p, "Save")
  /\ job' = [job EXCEPT ![p] = Job("delay", Head(queue[p]).config)]
  /\ WorkerUnchanged

\* An immediate save is done at once; what waited is forgotten.
TakeImmediateSave(p) ==
  /\ Takes(p, "SaveImmediately")
  /\ job' = [job EXCEPT ![p] = Job("reply", Head(queue[p]).config)]
  /\ WorkerUnchanged

\* Only an idle worker stops.
TakeStopFaulty(p) ==
  /\ Takes(p, "Stop")
  /\ job' = [job EXCEPT ![p] = IF @.then = "delay" THEN Job("next", @.config) ELSE NoThread]
  /\ WorkerUnchanged

TakeStop(p) ==
  /\ Takes(p, "Stop")
  /\ job' = [job EXCEPT ![p] = IF @.then = "delay" THEN Job("stop", @.config) ELSE NoThread]
  /\ WorkerUnchanged

SaveDelayEnds(p) ==
  /\ job[p].then = "delay"
  /\ queue[p] = <<>>
  /\ job' = [job EXCEPT ![p].then = "next"]
  /\ UNCHANGED queue
  /\ WorkerUnchanged

-----------------------------------------------------------------------------
(* ConfigStore::save.                                                      *)

SaveUnchanged == UNCHANGED <<owner, stage, memory, queue, job, backup, made, acknowledged, gaveUp>>

WriteTemporaryFile(p) ==
  /\ job[p].then \in Saving
  /\ temp[p] = Missing
  /\ temp' = [temp EXCEPT ![p] = Torn]
  /\ UNCHANGED file
  /\ SaveUnchanged

SyncTemporaryFile(p) ==
  /\ job[p].then \in Saving
  /\ temp[p] = Torn
  /\ temp' = [temp EXCEPT ![p] = job[p].config]
  /\ UNCHANGED file
  /\ SaveUnchanged

\* An error is not replied: the caller waits on.
SaveEndsFaulty(p, ok) ==
  /\ temp' = [temp EXCEPT ![p] = Missing]
  /\ stage' = [stage EXCEPT ![p] = IF job[p].then = "boot" \/ (ok /\ job[p].then = "reply")
                                     THEN "running" ELSE @]
  /\ memory' = [memory EXCEPT ![p] = IF ok /\ job[p].then = "reply" THEN job[p].config ELSE @]
  /\ acknowledged' = acknowledged \cup (IF ok /\ job[p].then = "reply" THEN job[p].config ELSE {})
  /\ gaveUp' = [gaveUp EXCEPT ![p] = ~ok]
  /\ job' = [job EXCEPT ![p] = IF @.then = "stop" THEN NoThread ELSE Idle]
  /\ UNCHANGED <<owner, queue, backup, made>>

\* What follows a save: main goes on, the caller gets its reply, or the worker
\* takes the next command or returns.
SaveEnds(p, ok) ==
  /\ temp' = [temp EXCEPT ![p] = Missing]
  /\ stage' = [stage EXCEPT ![p] = IF job[p].then \in {"boot", "reply"} THEN "running" ELSE @]
  /\ memory' = [memory EXCEPT ![p] = IF ok /\ job[p].then = "reply" THEN job[p].config ELSE @]
  /\ acknowledged' = acknowledged \cup (IF ok /\ job[p].then = "reply" THEN job[p].config ELSE {})
  /\ gaveUp' = [gaveUp EXCEPT ![p] = ~ok /\ (job[p].then = "reply" => @)]
  /\ job' = [job EXCEPT ![p] = IF @.then = "stop" THEN NoThread ELSE Idle]
  /\ UNCHANGED <<owner, queue, backup, made>>

\* The file is written in place: there is nothing to wait for.
ReplaceFileFaulty(p) ==
  /\ job[p].then \in Saving
  /\ temp[p] # Missing
  /\ file' = temp[p]
  /\ IF temp[p] = Torn
       THEN temp' = [temp EXCEPT ![p] = job[p].config] /\ SaveUnchanged
       ELSE SaveEnds(p, TRUE)

ReplaceFile(p) ==
  /\ job[p].then \in Saving
  /\ Parses(temp[p])
  /\ file' = temp[p]
  /\ SaveEnds(p, TRUE)

\* The caller is not told.
SaveFailsFaulty(p) ==
  /\ "save" \in Faults
  /\ job[p].then \in Saving
  /\ UNCHANGED file
  /\ SaveEnds(p, TRUE)

\* Any step fails: the temporary file is removed, the error logged or replied.
SaveFails(p) ==
  /\ "save" \in Faults
  /\ job[p].then \in Saving
  /\ UNCHANGED file
  /\ SaveEnds(p, FALSE)

-----------------------------------------------------------------------------
MainStep(p) ==
  \/ MigrateLegacyConfig(p) \/ LoadConfig(p) \/ LoadFails(p) \/ InitializeManagedModels(p)
  \/ StopWorker(p) \/ JoinWorker(p)

WorkerStep(p) ==
  \/ TakeSave(p) \/ TakeImmediateSave(p) \/ TakeStop(p) \/ SaveDelayEnds(p)
  \/ WriteTemporaryFile(p) \/ SyncTemporaryFile(p) \/ ReplaceFile(p) \/ SaveFails(p)

UserStep(p) ==
  \/ Launch(p) \/ Exit(p)
  \/ \E c \in Changes : RequestSave(p, c) \/ SaveImmediately(p, c)

Next == \E p \in Process : MainStep(p) \/ WorkerStep(p) \/ UserStep(p) \/ Crash(p)

\* Threads that can go on do; users and crashes are free.
Fairness == \A p \in Process : WF_vars(MainStep(p)) /\ WF_vars(WorkerStep(p))

Safety == Init /\ [][Next]_vars

Spec == Safety /\ Fairness

-----------------------------------------------------------------------------
(* Properties.                                                             *)

\* The types; in memory is always a configuration, whatever load found on disk.
TypeOK ==
  /\ owner \in Process \cup {None}
  /\ stage \in [Process -> {"off", "starting", "loading", "loaded", "booting", "running",
                            "waiting", "released", "stopping"}]
  /\ memory \in [Process -> FileContent] /\ \A p \in Process : Parses(memory[p])
  /\ queue \in [Process -> Seq(Commands)]
  /\ job \in [Process -> [then : Saving \cup {"off", "idle", "delay"}, config : Config]]
  /\ temp \in [Process -> FileContent]
  /\ file \in FileContent
  /\ backup \in BOOLEAN
  /\ made \subseteq Changes
  /\ acknowledged \in Config
  /\ gaveUp \in [Process -> BOOLEAN]

\* Settings that have reached the file stay in it through every later save,
\* failed save, crash and restart: it is only ever replaced by a whole file
\* that contains them (the order of delayed and immediate saves in the worker,
\* the temporary file and the replacement of the store).
KeepsChanges == Parses(file) => (Parses(file') /\ file \subseteq file')

\* No step of a process loses what the file holds, unless it could not be read.
FileKeepsChanges == [][KeepsChanges]_vars

\* What AI management reports as saved is in the file, whatever happens later.
AcknowledgedIsSaved == acknowledged # {} => Parses(file) /\ acknowledged \subseteq file

\* What a process still has to write: its queued saves, and what its worker has
\* in hand.
SavesQueued(p) == {i \in DOMAIN queue[p] : queue[p][i].kind # "Stop"}

SaveInHand(p) == job[p].then \in Saving \cup {"delay"}

\* No setting is forgotten: between calls and up to the end of an orderly exit
\* the settings in memory are the last that are queued to be saved, or, when
\* nothing is queued, what the worker is about to write, or, when it has nothing
\* in hand, in the file; or their delayed save has failed and was logged
\* (the test config_worker_flushes_the_latest_pending_save_when_dropped).
UnsavedIsPending ==
  \A p \in Process :
    stage[p] \in {"running", "released", "stopping"} /\ ~gaveUp[p] =>
      /\ \A i \in SavesQueued(p) :
           (\A j \in SavesQueued(p) : j <= i) => queue[p][i].config = memory[p]
      /\ SavesQueued(p) = {} /\ SaveInHand(p) => job[p].config = memory[p]
      /\ SavesQueued(p) = {} /\ ~SaveInHand(p) => file = memory[p]

\* A settings file that does not parse disappears only into its backup.
KeepsCorruptFile == file = Torn /\ file' # Torn => file' = Missing /\ backup' = TRUE

\* A corrupt file is never lost, unless its backup cannot be written.
CorruptFileIsKept == [][KeepsCorruptFile]_vars

\* The event loop, which waits for the reply of an immediate save, goes on.
ImmediateSaveReturns == \A p \in Process : stage[p] = "waiting" ~> stage[p] # "waiting"

\* An exit comes to its end: the worker can be joined.
ExitReturns == \A p \in Process : stage[p] \in {"released", "stopping"} ~> stage[p] = "off"

\* The second instance only wakes the first one: no two processes sample the
\* hardware at the same time (a process does until it drops its monitor worker).
OneMonitorAtATime ==
  \A p, q \in Process :
    {stage[p], stage[q]} \subseteq {"running", "waiting", "released"} => p = q

==============================================================================

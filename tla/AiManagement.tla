----------------------------- MODULE AiManagement -----------------------------
(***************************************************************************)
(* The AI manager of the desktop: its editor and delete dialog, and the    *)
(* commit of a changed profile over two stores, the Windows credential     *)
(* vault and the configuration file, with the rollback when a call fails.  *)
(* The event loop is busy for the whole of a commit; the process may end   *)
(* between any two of its calls.  A profile's endpoint, model, executable  *)
(* and arguments stand behind its name; a secret is a value of its own.    *)
(***************************************************************************)
EXTENDS Naturals, SequencesExt, FiniteSetsExt

CONSTANTS
  Ids,             \* profile ids that can be allocated
  Names,           \* display names
  Secrets,         \* API keys
  CustomTargets,   \* credential targets of configurations written by hand
  InitialConfigs,  \* what the configuration file may hold at the first start
  MaxProfiles,     \* bound: profiles
  FaultBound,      \* bound: calls to the two stores that fail
  Crashes          \* whether the process may end at any time

VARIABLES
  memory,   \* Rc<RefCell<AppConfig>>
  file,     \* the configuration file
  vault,    \* the credential store: target -> secret
  runtime,  \* profiles, connector catalogue and selected index
  editor,   \* the manager's editor and delete dialog
  busy,     \* a request is active
  task,     \* the commit that is running
  faults,   \* failed calls so far
  spoiled   \* history variable: a crash or a failed rollback left a commit half done

vars == <<memory, file, vault, runtime, editor, busy, task, faults, spoiled>>

None == "none"

Targets == Ids \cup CustomTargets

\* One target for all profiles.
OwnTargetFaulty(id) == CHOOSE t \in Ids : TRUE

\* credential_target: one target per profile id.
OwnTarget(id) == id

ASSUME AiAssumption ==
  /\ None \notin Targets \cup Secrets \cup Names
  /\ Ids \cap CustomTargets = {}
  /\ {MaxProfiles, FaultBound} \subseteq Nat
  /\ Crashes \in BOOLEAN

Profile == [id : Ids, name : Names, http : BOOLEAN, target : Targets \cup {None}]

IdsOf(config) == {config.profiles[i].id : i \in DOMAIN config.profiles}

\* A settings file in which every profile has a key of its own: under its own
\* target, or under one that was written by hand and that no other profile names.
SeparateKeys(config) ==
  /\ config \in [profiles : Seq(Profile), selected : Ids \cup {None}]
  /\ Len(config.profiles) <= MaxProfiles
  /\ \A i \in DOMAIN config.profiles :
       LET profile == config.profiles[i]
       IN  /\ profile.target \in {None, OwnTarget(profile.id)} \cup CustomTargets
           /\ \A j \in DOMAIN config.profiles \ {i} :
                /\ config.profiles[j].id # profile.id
                /\ profile.target # None => config.profiles[j].target # profile.target

Position(config, id) == Min({i \in DOMAIN config.profiles : config.profiles[i].id = id})

\* AppConfig::migrate: a selection that names no profile is dropped.
Migrate(config) ==
  [config EXCEPT !.selected = IF @ \in IdsOf(config) THEN @ ELSE None]

-----------------------------------------------------------------------------
(* The runtime's view of a configuration.                                  *)

\* build_configured_connector and ConnectorCatalog::register: an HTTP profile
\* needs the secret it refers to, a CLI profile its executable, and an id is
\* registered once.
Connector(config, store, i, installed) ==
  LET profile == config.profiles[i]
      first   == Position(config, profile.id) = i
      token   == IF profile.target = None THEN None ELSE store[profile.target]
  IN [id |-> profile.id,
      token |-> IF profile.http THEN token ELSE None,
      available |-> /\ first
                    /\ IF profile.http THEN profile.target # None => token # None
                                       ELSE installed]

\* build_runtime_profiles: the selected profile, else the first available one,
\* else the first.
BuildRuntime(config, store, installed) ==
  LET list == [i \in DOMAIN config.profiles |-> Connector(config, store, i, installed)]
      usable == {i \in DOMAIN list : list[i].available}
  IN [profiles |-> list,
      selected |-> IF config.selected \in IdsOf(config) THEN Position(config, config.selected)
                   ELSE IF usable # {} THEN Min(usable) ELSE 1]

-----------------------------------------------------------------------------
NoTask == [step |-> "idle", deletes |-> FALSE, id |-> None, next |-> [profiles |-> <<>>, selected |-> None],
           old |-> None, new |-> None, secret |-> None, oldSecret |-> None,
           before |-> [t \in Targets |-> None]]

Idle == task.step = "idle"

\* confirm is the dialog's flag; here it holds the id of the profile whose
\* "delete" opened it, which the code does not keep.
ClosedEditor == [open |-> FALSE, index |-> 0, confirm |-> None]

Init ==
  /\ \E config \in InitialConfigs, installed \in BOOLEAN :
       /\ file = config
       /\ memory = Migrate(config)
       /\ vault \in [Targets -> Secrets \cup {None}]
       /\ \A t \in Targets :
            vault[t] # None <=> \E i \in DOMAIN config.profiles : config.profiles[i].target = t
       /\ runtime = BuildRuntime(memory, vault, installed)
  /\ editor = ClosedEditor
  /\ busy = FALSE
  /\ task = NoTask
  /\ faults = 0
  /\ spoiled = FALSE

-----------------------------------------------------------------------------
(* The manager's callbacks.  Its dialog is drawn over the list and lets    *)
(* clicks through to it: only buttons take them.                           *)

storeVars == <<memory, file, vault, runtime, task, faults, spoiled>>

\* The list and its buttons are there, and enabled.
ListUsable == Idle /\ ~busy /\ ~editor.open

CloseManager ==
  /\ Idle
  /\ editor' = ClosedEditor
  /\ UNCHANGED <<storeVars, busy>>

NewModel ==
  /\ ListUsable
  /\ editor' = [ClosedEditor EXCEPT !.open = TRUE]
  /\ UNCHANGED <<storeVars, busy>>

EditModel(i) ==
  /\ ListUsable
  /\ editor' = [editor EXCEPT !.open = TRUE, !.index = i]
  /\ UNCHANGED <<storeVars, busy>>

CancelEdit ==
  /\ Idle /\ editor.open
  /\ editor' = [editor EXCEPT !.open = FALSE]
  /\ UNCHANGED <<storeVars, busy>>

RequestDelete(i) ==
  /\ ListUsable
  /\ editor' = [editor EXCEPT !.index = i, !.confirm = memory.profiles[i].id]
  /\ UNCHANGED <<storeVars, busy>>

CancelDelete ==
  /\ Idle /\ editor.confirm # None
  /\ editor' = [editor EXCEPT !.confirm = None]
  /\ UNCHANGED <<storeVars, busy>>

-----------------------------------------------------------------------------
(* The start of a commit.                                                  *)

\* commit_with_credentials goes to the vault only when something changes there.
Commit(id, next, old, new, secret) ==
  task' = [NoTask EXCEPT !.step = IF secret # None \/ old # new THEN "readOld" ELSE "save",
                         !.deletes = Len(next.profiles) < Len(memory.profiles), !.id = id, !.next = next, !.old = old, !.new = new,
                         !.secret = secret, !.before = vault]

FreshIds == Ids \ IdsOf(memory)

\* The references and the secret a credential edit asks for.
Edits(id, target, http) ==
  IF ~http THEN {[target |-> None, secret |-> None]}
  ELSE {[target |-> target, secret |-> None]}
       \cup {[target |-> OwnTarget(id), secret |-> secret] : secret \in Secrets}
       \cup (IF target # None THEN {[target |-> None, secret |-> None]} ELSE {})

\* validate_agent_profile_draft: no other profile has the name.
NameIsFree(name, i) == \A j \in DOMAIN memory.profiles : j # i => memory.profiles[j].name # name

WithSelection(config, id) == [config EXCEPT !.selected = IF @ = None THEN id ELSE @]

SaveNew(id, name, http) ==
  /\ Idle /\ ~busy /\ editor.open /\ editor.index = 0
  /\ Len(memory.profiles) < MaxProfiles
  /\ NameIsFree(name, 0)
  /\ \E edit \in Edits(id, None, http) :
       LET profile == [id |-> id, name |-> name, http |-> http, target |-> edit.target]
           next    == [memory EXCEPT !.profiles = Append(@, profile)]
       IN Commit(id, WithSelection(next, id), None, edit.target, edit.secret)
  /\ UNCHANGED <<memory, file, vault, runtime, editor, busy, faults, spoiled>>

\* The kind of an existing profile cannot be changed.
SaveExisting(name) ==
  /\ Idle /\ ~busy /\ editor.open /\ editor.index # 0
  /\ LET i == editor.index
         old == memory.profiles[i]
     IN /\ NameIsFree(name, i)
        /\ \E edit \in Edits(old.id, old.target, old.http) :
             LET profile == [old EXCEPT !.name = name, !.target = edit.target]
                 next    == [memory EXCEPT !.profiles[i] = profile]
             IN Commit(old.id, WithSelection(next, old.id), old.target, edit.target, edit.secret)
  /\ UNCHANGED <<memory, file, vault, runtime, editor, busy, faults, spoiled>>

\* The deleted profile stays the selected one.
WithoutProfileFaulty(config, i) == [config EXCEPT !.profiles = RemoveAt(@, i)]

WithoutProfile(config, i) ==
  [config EXCEPT !.profiles = RemoveAt(@, i),
                 !.selected = IF @ = config.profiles[i].id THEN None ELSE @]

ConfirmDelete ==
  /\ Idle /\ ~busy /\ editor.confirm # None /\ editor.index # 0
  /\ LET i == editor.index
         old == memory.profiles[i]
     IN Commit(old.id, WithoutProfile(memory, i), old.target, None, None)
  /\ UNCHANGED <<memory, file, vault, runtime, editor, busy, faults, spoiled>>

-----------------------------------------------------------------------------
(* The calls of a commit, in their order.  Each may fail.                  *)

GoTo(step) == task' = [task EXCEPT !.step = step]

CallFails == faults < FaultBound /\ faults' = faults + 1

EndCommit == task' = NoTask

unchangedByCalls == <<memory, runtime, editor, busy>>

\* A key that has just been replaced in its place is deleted.
DeletesFaulty == task.old # None

Deletes == task.old # None /\ task.old # task.new
Writes  == task.new # None /\ task.secret # None

AfterRead  == IF Writes THEN "writeNew" ELSE IF Deletes THEN "deleteOld" ELSE "save"
AfterWrite == IF Deletes THEN "deleteOld" ELSE "save"

\* The old secret is not kept for a rollback.
ReadOldFaulty ==
  /\ task.step = "readOld"
  /\ task' = [task EXCEPT !.step = AfterRead]
  /\ UNCHANGED <<unchangedByCalls, file, vault, faults, spoiled>>

ReadOld ==
  /\ task.step = "readOld"
  /\ task' = [task EXCEPT !.step = AfterRead,
                          !.oldSecret = IF task.old = None THEN None ELSE vault[task.old]]
  /\ UNCHANGED <<unchangedByCalls, file, vault, faults, spoiled>>

ReadOldFails ==
  /\ task.step = "readOld" /\ task.old # None
  /\ CallFails
  /\ EndCommit
  /\ UNCHANGED <<unchangedByCalls, file, vault, spoiled>>

WriteNew ==
  /\ task.step = "writeNew"
  /\ vault' = [vault EXCEPT ![task.new] = task.secret]
  /\ GoTo(AfterWrite)
  /\ UNCHANGED <<unchangedByCalls, file, faults, spoiled>>

WriteNewFails ==
  /\ task.step = "writeNew"
  /\ CallFails
  /\ EndCommit
  /\ UNCHANGED <<unchangedByCalls, file, vault, spoiled>>

\* The old secret stays in the vault.
DeleteOldFaulty ==
  /\ task.step = "deleteOld"
  /\ GoTo("save")
  /\ UNCHANGED <<unchangedByCalls, file, vault, faults, spoiled>>

DeleteOld ==
  /\ task.step = "deleteOld"
  /\ vault' = [vault EXCEPT ![task.old] = None]
  /\ GoTo("save")
  /\ UNCHANGED <<unchangedByCalls, file, faults, spoiled>>

\* A new secret that has been written is taken back.
DeleteOldFails ==
  /\ task.step = "deleteOld"
  /\ CallFails
  /\ IF Writes THEN GoTo("takeBackNew") ELSE EndCommit
  /\ UNCHANGED <<unchangedByCalls, file, vault, spoiled>>

TakeBackNew ==
  /\ task.step = "takeBackNew"
  /\ vault' = [vault EXCEPT ![task.new] = None]
  /\ EndCommit
  /\ UNCHANGED <<unchangedByCalls, file, faults, spoiled>>

TakeBackNewFails ==
  /\ task.step = "takeBackNew"
  /\ CallFails
  /\ EndCommit
  /\ spoiled' = TRUE
  /\ UNCHANGED <<unchangedByCalls, file, vault>>

\* The callback's own end: memory, runtime and window follow the file.
SaveSucceeds ==
  /\ task.step = "save"
  /\ file' = task.next
  /\ memory' = task.next
  /\ \E installed \in BOOLEAN : runtime' = BuildRuntime(task.next, vault, installed)
  /\ editor' = IF task.deletes THEN [editor EXCEPT !.confirm = None, !.index = 0]
                               ELSE [editor EXCEPT !.open = FALSE]
  /\ EndCommit
  /\ UNCHANGED <<vault, busy, faults, spoiled>>

\* The credentials are not rolled back.
SaveFailsFaulty ==
  /\ task.step = "save"
  /\ CallFails
  /\ EndCommit
  /\ UNCHANGED <<unchangedByCalls, file, vault, spoiled>>

SaveFails ==
  /\ task.step = "save"
  /\ CallFails
  /\ IF task.secret = None /\ task.old = task.new THEN EndCommit
     ELSE IF task.new \notin {None, task.old}      THEN GoTo("rollbackNew")
     ELSE IF task.old # None                       THEN GoTo("rollbackOld")
     ELSE EndCommit
  /\ UNCHANGED <<unchangedByCalls, file, vault, spoiled>>

RollbackNew ==
  /\ task.step = "rollbackNew"
  /\ vault' = [vault EXCEPT ![task.new] = None]
  /\ IF task.old # None THEN GoTo("rollbackOld") ELSE EndCommit
  /\ UNCHANGED <<unchangedByCalls, file, faults, spoiled>>

\* Written back, or deleted when there was none.
RollbackOld ==
  /\ task.step = "rollbackOld"
  /\ vault' = [vault EXCEPT ![task.old] = task.oldSecret]
  /\ EndCommit
  /\ UNCHANGED <<unchangedByCalls, file, faults, spoiled>>

RollbackFails ==
  /\ task.step \in {"rollbackNew", "rollbackOld"}
  /\ CallFails
  /\ EndCommit
  /\ spoiled' = TRUE
  /\ UNCHANGED <<unchangedByCalls, file, vault>>

CommitStep ==
  \/ ReadOld \/ ReadOldFails \/ WriteNew \/ WriteNewFails
  \/ DeleteOld \/ DeleteOldFails \/ TakeBackNew \/ TakeBackNewFails
  \/ SaveSucceeds \/ SaveFails \/ RollbackNew \/ RollbackOld \/ RollbackFails

-----------------------------------------------------------------------------
(* What happens around a commit.                                           *)

\* on_agent_selection_requested; its configuration is saved later.
SelectProfile(i) ==
  /\ Idle /\ ~busy
  /\ memory' = [memory EXCEPT !.selected = memory.profiles[i].id]
  /\ runtime' = [runtime EXCEPT !.selected = i]
  /\ UNCHANGED <<file, vault, editor, busy, task, faults, spoiled>>

\* The delayed save of the configuration worker; memory does not change while
\* a commit runs.
DelayedSave ==
  /\ task.step # "save" /\ file # memory
  /\ file' = memory
  /\ UNCHANGED <<memory, vault, runtime, editor, busy, task, faults, spoiled>>

\* A request begins on the event loop and ends on another thread.
AnswerBegins == Idle /\ ~busy /\ busy' = TRUE /\ UNCHANGED <<storeVars, editor>>
AnswerEnds   == busy /\ busy' = FALSE /\ UNCHANGED <<storeVars, editor>>

\* The process ends, wherever it is, and is started again.
Restart ==
  /\ Crashes
  /\ memory' = Migrate(file)
  /\ \E installed \in BOOLEAN : runtime' = BuildRuntime(Migrate(file), vault, installed)
  /\ editor' = ClosedEditor
  /\ busy' = FALSE
  /\ task' = NoTask
  /\ spoiled' = (spoiled \/ ~Idle)
  /\ UNCHANGED <<file, vault, faults>>

UserStep ==
  \/ CloseManager \/ NewModel \/ CancelEdit \/ CancelDelete \/ ConfirmDelete
  \/ \E i \in DOMAIN memory.profiles : EditModel(i) \/ RequestDelete(i) \/ SelectProfile(i)
  \/ \E name \in Names : SaveExisting(name)
  \/ \E id \in FreshIds, name \in Names, http \in BOOLEAN : SaveNew(id, name, http)

Next == UserStep \/ CommitStep \/ DelayedSave \/ AnswerBegins \/ AnswerEnds \/ Restart

Spec == Init /\ [][Next]_vars

-----------------------------------------------------------------------------
(* Properties.                                                             *)

Steps == {"idle", "readOld", "writeNew", "deleteOld", "takeBackNew", "save", "rollbackNew", "rollbackOld"}

IsConfig(config) ==
  /\ Len(config.profiles) <= MaxProfiles
  /\ \A i \in DOMAIN config.profiles : config.profiles[i] \in Profile
  /\ Cardinality(IdsOf(config)) = Len(config.profiles)
  /\ config.selected \in Ids \cup {None}

\* The types, with every profile's id its own.
TypeOK ==
  /\ IsConfig(memory) /\ IsConfig(file) /\ IsConfig(task.next)
  /\ vault \in [Targets -> Secrets \cup {None}]
  /\ editor.index \in 0..Len(memory.profiles) /\ editor.confirm \in Ids \cup {None}
  /\ {editor.open, busy, spoiled} \subseteq BOOLEAN
  /\ task.step \in Steps
  /\ {task.old, task.new} \subseteq Targets \cup {None}
  /\ {task.secret, task.oldSecret} \subseteq Secrets \cup {None}
  /\ faults \in 0..FaultBound
  /\ Len(runtime.profiles) = Len(memory.profiles)

\* A commit that fails leaves every secret that a profile refers to as it was,
\* unless the rollback itself failed.
FailureRestores ==
  [][~Idle /\ Idle' /\ ~SaveSucceeds /\ ~spoiled' =>
       \A i \in DOMAIN memory.profiles :
         LET t == memory.profiles[i].target IN t # None => vault'[t] = task.before[t]]_vars

\* What a save acknowledges is stored: the file is what is in memory, and the
\* key that was entered is where the profile looks for it.
AcknowledgedIsStored ==
  [][SaveSucceeds =>
       /\ file' = memory'
       /\ task.secret # None =>
            \E i \in DOMAIN memory'.profiles :
              /\ memory'.profiles[i].id = task.id
              /\ vault'[memory'.profiles[i].target] = task.secret]_vars

\* Whatever happens to a commit, even a crash in its middle, no other profile
\* loses its key or gets another one.
OthersKeepTheirSecrets ==
  [][\A i \in DOMAIN memory.profiles :
       LET q == memory.profiles[i]
       IN q.id # task.id /\ q.target # None => vault'[q.target] = vault[q.target]]_vars

\* Between commits the vault holds no key that no profile refers to.
NoOrphanSecrets ==
  Idle /\ ~spoiled =>
    \A t \in Targets : vault[t] # None => \E i \in DOMAIN memory.profiles : memory.profiles[i].target = t

\* Between commits the connectors use the keys that are stored.
ConnectorsUseStoredSecrets ==
  Idle /\ ~spoiled =>
    \A i \in DOMAIN memory.profiles :
      LET profile == memory.profiles[i]
      IN /\ runtime.profiles[i].id = profile.id
         /\ profile.http /\ profile.target # None => runtime.profiles[i].token = vault[profile.target]

\* The profile that is selected in the configuration is the one that is shown,
\* through saving, deleting, selecting and restarting.
SelectionIsShown ==
  /\ memory.selected # None => /\ memory.selected \in IdsOf(memory)
                               /\ runtime.selected = Position(memory, memory.selected)
  /\ memory.profiles # <<>> => runtime.selected \in DOMAIN memory.profiles

\* Configuration, credential store and runtime agree between commits: every key
\* has its profile, every connector its key, and the selection is one.
StoresAgree == TypeOK /\ NoOrphanSecrets /\ ConnectorsUseStoredSecrets /\ SelectionIsShown

\* Nothing is deleted but the profile whose deletion was asked for.
DeletesWhatWasChosen ==
  [][Len(memory'.profiles) < Len(memory.profiles) /\ ~Idle => task.id = editor.confirm]_vars

==============================================================================

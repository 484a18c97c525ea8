-------------------------- MODULE AiManagementProofs --------------------------
(***************************************************************************)
(* Proofs about the AI manager, for every set of profiles, keys and        *)
(* faults: whatever call of a commit fails and wherever the process ends,  *)
(* the configuration, the credential store and the runtime agree, as long  *)
(* as the settings file gave every profile a key of its own.               *)
(***************************************************************************)
EXTENDS AiManagement, FiniteSetTheorems, SequenceTheorems, WellFoundedInduction, TLAPS

Configs == [profiles : Seq(Profile), selected : Ids \cup {None}]

Stored == Secrets \cup {None}

Tasks == [step : Steps, deletes : BOOLEAN, id : Ids \cup {None}, next : Configs,
          old : Targets \cup {None}, new : Targets \cup {None}, secret : Stored,
          oldSecret : Stored, before : [Targets -> Stored]]

Connectors == [id : Ids, token : Stored, available : BOOLEAN]

Runtimes == [profiles : Seq(Connectors), selected : Nat]

Editors == [open : BOOLEAN, index : Nat, confirm : Ids \cup {None}]

Types ==
  /\ memory \in Configs /\ file \in Configs
  /\ vault \in [Targets -> Stored]
  /\ runtime \in Runtimes
  /\ editor \in Editors
  /\ busy \in BOOLEAN /\ spoiled \in BOOLEAN
  /\ task \in Tasks
  /\ faults \in 0 .. FaultBound

SelectsOne(config) == config.selected \in IdsOf(config) \cup {None}

\* Between saves the file differs from the memory only in the selection.
ConfigsFit ==
  /\ SeparateKeys(memory) /\ SelectsOne(memory)
  /\ file.profiles = memory.profiles
  /\ editor.index <= Len(memory.profiles)

\* The runtime shows the profiles of the memory, and the one that is selected.
RuntimeFits ==
  /\ Len(runtime.profiles) = Len(memory.profiles)
  /\ \A i \in DOMAIN memory.profiles : runtime.profiles[i].id = memory.profiles[i].id
  /\ SelectionIsShown

Owned(config, id, target) ==
  \E i \in DOMAIN config.profiles :
    config.profiles[i].id = id /\ config.profiles[i].target = target

\* A commit changes one profile: it takes its target from old to new, and leaves
\* the others alone.
CommitFits ==
  /\ SeparateKeys(task.next) /\ SelectsOne(task.next)
  /\ task.id \in Ids
  /\ task.deletes = (Len(task.next.profiles) < Len(memory.profiles))
  /\ \A i \in DOMAIN memory.profiles :
       LET profile == memory.profiles[i]
       IN  IF profile.id = task.id THEN profile.target = task.old
                                   ELSE Owned(task.next, profile.id, profile.target)
  /\ task.old # None => Owned(memory, task.id, task.old)
  /\ task.new # None => Owned(task.next, task.id, task.new)
  /\ task.new \in {None, task.old, OwnTarget(task.id)}
  /\ task.secret # None => task.new = OwnTarget(task.id)

\* The vault once the new secret is written, and once the old one is deleted.
Written == IF Writes THEN [task.before EXCEPT ![task.new] = task.secret] ELSE task.before
Changed == IF Deletes THEN [Written EXCEPT ![task.old] = None] ELSE Written

MovesKey == task.new \notin {None, task.old}

\* How far the commit has come with the vault, and what it keeps to go back.
VaultFits ==
  /\ task.step \in {"readOld", "writeNew"} => vault = task.before
  /\ task.step \in {"deleteOld", "takeBackNew"} => vault = Written /\ Deletes
  /\ task.step \in {"writeNew", "takeBackNew"} => Writes
  /\ task.step \in {"save", "rollbackNew"} => vault = Changed
  /\ task.step = "rollbackNew" => MovesKey
  /\ task.step = "rollbackOld" =>
       /\ task.old # None
       /\ vault = IF MovesKey THEN [Changed EXCEPT ![task.new] = None] ELSE Changed
  /\ task.step \in {"readOld", "writeNew", "deleteOld", "takeBackNew", "rollbackNew", "rollbackOld"}
       => task.secret # None \/ task.old # task.new
  /\ task.step \notin {"idle", "readOld"} /\ task.old # None =>
       \/ task.secret = None /\ task.old = task.new
       \/ task.oldSecret = task.before[task.old]

\* The vault as it was before the commit, if there is one.
Kept == IF Idle THEN vault ELSE task.before

NoOrphanIn(store) ==
  \A t \in Targets : store[t] # None => \E i \in DOMAIN memory.profiles : memory.profiles[i].target = t

UsedFrom(store) ==
  \A i \in DOMAIN memory.profiles :
    LET profile == memory.profiles[i]
    IN  profile.http /\ profile.target # None => runtime.profiles[i].token = store[profile.target]

AiIInv ==
  /\ Types /\ ConfigsFit /\ RuntimeFits
  /\ IF Idle THEN task = NoTask ELSE CommitFits /\ VaultFits
  /\ ~spoiled => NoOrphanIn(Kept) /\ UsedFrom(Kept)

-----------------------------------------------------------------------------
(* Configurations.                                                         *)

LEMMA ProfilesOf ==
  ASSUME NEW config \in Configs
  PROVE  /\ config.profiles \in Seq(Profile) /\ Len(config.profiles) \in Nat
         /\ DOMAIN config.profiles = 1 .. Len(config.profiles)
         /\ \A i \in DOMAIN config.profiles : config.profiles[i] \in Profile
         /\ config.selected \in Ids \cup {None}
<1>1. config.profiles \in Seq(Profile) /\ config.selected \in Ids \cup {None}
  BY DEF Configs
<1> QED  BY <1>1, LenProperties, ElementOfSeq

\* A set of numbers has a smallest one.
LEMMA MinIsInSet ==
  ASSUME NEW S \in SUBSET Nat, S # {}
  PROVE  Min(S) \in S
<1> DEFINE R == OpToRel(<, Nat)
<1>1. IsWellFoundedOn(R, Nat)
  BY NatLessThanWellFounded
<1>2. \A x, y \in Nat : y < x => <<y, x>> \in R
  BY DEF OpToRel
<1> HIDE DEF R
<1>3. PICK x \in S : \A y \in S : ~(<<y, x>> \in R)
  BY <1>1, WFMin
<1>4. ASSUME NEW y \in S PROVE x <= y
  <2>1. x \in Nat /\ y \in Nat
    OBVIOUS
  <2>2. ~(y < x)
    BY <1>2, <1>3, <2>1
  <2> QED  BY <2>1, <2>2
<1> QED  BY <1>4 DEF Min

LEMMA PositionOfProfile ==
  ASSUME NEW config \in Configs, SeparateKeys(config), NEW i \in DOMAIN config.profiles
  PROVE  Position(config, config.profiles[i].id) = i
<1> DEFINE S == {j \in DOMAIN config.profiles : config.profiles[j].id = config.profiles[i].id}
<1>1. S = {i}
  BY DEF SeparateKeys
<1>2. i \in Nat
  BY ProfilesOf
<1>3. Min({i}) = i
  BY <1>2 DEF Min
<1> QED  BY <1>1, <1>3 DEF Position

LEMMA IdsAreCounted ==
  ASSUME NEW config \in Configs, SeparateKeys(config)
  PROVE  Cardinality(IdsOf(config)) = Len(config.profiles)
<1> DEFINE n == Len(config.profiles)
           f == [i \in 1 .. n |-> config.profiles[i].id]
<1>1. n \in Nat /\ DOMAIN config.profiles = 1 .. n
  BY ProfilesOf
<1>2. f \in Bijection(1 .. n, IdsOf(config))
  BY <1>1 DEF Bijection, Injection, Surjection, IsInjective, IdsOf, SeparateKeys
<1>3. IsFiniteSet(1 .. n) /\ Cardinality(1 .. n) = n
  BY <1>1, FS_Interval
<1>4. ExistsBijection(1 .. n, IdsOf(config))
  BY <1>2 DEF ExistsBijection
<1> QED  BY <1>3, <1>4, FS_Bijection

LEMMA SeparateIsConfig ==
  ASSUME NEW config \in Configs, SeparateKeys(config)
  PROVE  IsConfig(config)
BY ProfilesOf, IdsAreCounted DEF IsConfig, SeparateKeys

\* Nothing but the profiles of a configuration makes its keys separate.
LEMMA SelectionKeepsSeparate ==
  ASSUME NEW config \in Configs, SeparateKeys(config), NEW other \in Configs,
         other.profiles = config.profiles
  PROVE  SeparateKeys(other) /\ IdsOf(other) = IdsOf(config)
BY DEF SeparateKeys, IdsOf, Configs

LEMMA MigrateFits ==
  ASSUME NEW config \in Configs, SeparateKeys(config)
  PROVE  /\ Migrate(config) \in Configs /\ Migrate(config).profiles = config.profiles
         /\ SeparateKeys(Migrate(config)) /\ SelectsOne(Migrate(config))
<1>1. Migrate(config) \in Configs /\ Migrate(config).profiles = config.profiles
  BY DEF Migrate, Configs
<1>2. Migrate(config).selected \in IdsOf(config) \cup {None}
  BY DEF Migrate, Configs
<1> QED  BY <1>1, <1>2, SelectionKeepsSeparate DEF SelectsOne

-----------------------------------------------------------------------------
(* The runtime.                                                            *)

LEMMA ConnectorFits ==
  ASSUME NEW config \in Configs, SeparateKeys(config), NEW store \in [Targets -> Stored],
         NEW i \in DOMAIN config.profiles, NEW installed \in BOOLEAN
  PROVE  LET profile   == config.profiles[i]
             connector == Connector(config, store, i, installed)
         IN  /\ connector \in Connectors /\ connector.id = profile.id
             /\ profile.http /\ profile.target # None => connector.token = store[profile.target]
<1>1. config.profiles[i] \in Profile
  BY ProfilesOf
<1>2. None \in Stored /\ \A t \in Targets : store[t] \in Stored
  BY DEF Stored
<1> QED  BY <1>1, <1>2 DEF Connector, Connectors, Profile

\* What a runtime that is built from a configuration shows of it.
Shows(built, config, store) ==
  /\ Len(built.profiles) = Len(config.profiles)
  /\ \A i \in DOMAIN config.profiles :
       LET profile == config.profiles[i]
       IN  /\ built.profiles[i].id = profile.id
           /\ profile.http /\ profile.target # None =>
                built.profiles[i].token = store[profile.target]
  /\ config.selected \in IdsOf(config) => built.selected = Position(config, config.selected)
  /\ config.profiles # <<>> => built.selected \in DOMAIN config.profiles

LEMMA BuildRuntimeFits ==
  ASSUME NEW config \in Configs, SeparateKeys(config), NEW store \in [Targets -> Stored],
         NEW installed \in BOOLEAN
  PROVE  /\ BuildRuntime(config, store, installed) \in Runtimes
         /\ Shows(BuildRuntime(config, store, installed), config, store)
<1> DEFINE n == Len(config.profiles)
           list == [i \in DOMAIN config.profiles |-> Connector(config, store, i, installed)]
           usable == {i \in DOMAIN list : list[i].available}
           built == BuildRuntime(config, store, installed)
<1>1. n \in Nat /\ DOMAIN config.profiles = 1 .. n /\ config.profiles \in Seq(Profile)
  BY ProfilesOf
<1>2. \A i \in 1 .. n : Connector(config, store, i, installed) \in Connectors
  BY <1>1, ConnectorFits
<1>3. list \in Seq(Connectors) /\ Len(list) = n /\ DOMAIN list = 1 .. n
  BY <1>1, <1>2
<1>4. /\ built.profiles = list
      /\ built.selected = IF config.selected \in IdsOf(config)
                            THEN Position(config, config.selected)
                            ELSE IF usable # {} THEN Min(usable) ELSE 1
      /\ built = [profiles |-> built.profiles, selected |-> built.selected]
  BY DEF BuildRuntime
<1>5. config.selected \in IdsOf(config) => Position(config, config.selected) \in 1 .. n
  BY <1>1, PositionOfProfile DEF IdsOf
<1>6. usable # {} => Min(usable) \in 1 .. n
  <2>1. usable \in SUBSET (1 .. n) /\ 1 .. n \subseteq Nat
    BY <1>3
  <2> QED  BY <2>1, MinIsInSet
<1>7. built.selected \in Nat /\ (config.profiles # <<>> => built.selected \in 1 .. n)
  <2>1. config.profiles # <<>> => 1 \in 1 .. n
    BY <1>1, EmptySeq
  <2> HIDE DEF built, usable, n
  <2> QED  BY <1>1, <1>4, <1>5, <1>6, <2>1
<1>8. ASSUME NEW i \in DOMAIN config.profiles
      PROVE  LET profile == config.profiles[i]
             IN  /\ built.profiles[i].id = profile.id
                 /\ profile.http /\ profile.target # None =>
                      built.profiles[i].token = store[profile.target]
  BY <1>4, ConnectorFits
<1> HIDE DEF built, list, usable
<1>9. built \in Runtimes /\ Shows(built, config, store)
  BY <1>1, <1>3, <1>4, <1>7, <1>8 DEF Runtimes, Shows
<1> QED  BY <1>9 DEF built

LEMMA ShownRuntimeFits ==
  ASSUME Shows(runtime, memory, vault), SelectsOne(memory)
  PROVE  RuntimeFits /\ UsedFrom(vault)
BY DEF Shows, RuntimeFits, SelectionIsShown, SelectsOne, UsedFrom

-----------------------------------------------------------------------------
(* The start, and the steps around a commit.                               *)

\* Every profile of a settings file has a key of its own.
KeysAreSeparate == \A config \in InitialConfigs : SeparateKeys(config)

LEMMA InitEstablishesIInv == KeysAreSeparate /\ Init => AiIInv
<1> SUFFICES ASSUME KeysAreSeparate, Init PROVE AiIInv
  OBVIOUS
<1>1. PICK config \in InitialConfigs, installed \in BOOLEAN :
        /\ file = config
        /\ memory = Migrate(config)
        /\ vault \in [Targets -> Secrets \cup {None}]
        /\ \A t \in Targets :
             vault[t] # None <=> \E i \in DOMAIN config.profiles : config.profiles[i].target = t
        /\ runtime = BuildRuntime(memory, vault, installed)
  BY DEF Init
<1>2. config \in Configs /\ SeparateKeys(config)
  BY DEF KeysAreSeparate, SeparateKeys, Configs
<1>3. /\ memory \in Configs /\ SeparateKeys(memory) /\ SelectsOne(memory)
      /\ memory.profiles = file.profiles
  BY <1>1, <1>2, MigrateFits
<1>4. vault \in [Targets -> Stored]
  BY <1>1 DEF Stored
<1>5. runtime \in Runtimes /\ RuntimeFits /\ UsedFrom(vault)
  BY <1>1, <1>3, <1>4, BuildRuntimeFits, ShownRuntimeFits
<1>6. NoOrphanIn(vault)
  BY <1>1, <1>3 DEF NoOrphanIn
<1>7. Types
  <2>1. task \in Tasks
    <3>1. [profiles |-> <<>>, selected |-> None] \in Configs
      BY EmptySeq DEF Configs
    <3> QED  BY <3>1 DEF Init, NoTask, Tasks, Steps, Stored
  <2>2. editor \in Editors
    BY DEF Init, ClosedEditor, Editors
  <2>3. faults \in 0 .. FaultBound
    BY AiAssumption DEF Init
  <2>4. memory \in Configs /\ file \in Configs
    BY <1>1, <1>2, <1>3
  <2> QED  BY <1>4, <1>5, <2>1, <2>2, <2>3, <2>4 DEF Init, Types
<1>8. ConfigsFit
  BY <1>3, ProfilesOf DEF Init, ConfigsFit, ClosedEditor
<1> QED
  BY <1>5, <1>6, <1>7, <1>8 DEF Init, AiIInv, Idle, NoTask, Kept

\* A step that leaves the stores, the runtime and the commit alone.
LEMMA UntouchedKeepsIInv ==
  ASSUME AiIInv, UNCHANGED <<memory, file, vault, runtime, task, spoiled>>,
         faults' \in 0 .. FaultBound, busy' \in BOOLEAN,
         editor' \in Editors,
         editor'.index <= Len(memory.profiles)
  PROVE  AiIInv'
<1>1. Types' /\ ConfigsFit' /\ RuntimeFits'
  BY DEF AiIInv, Types, ConfigsFit, RuntimeFits, SelectionIsShown, SelectsOne, SeparateKeys,
         IdsOf, Position
<1>2. IF Idle' THEN task' = NoTask ELSE CommitFits' /\ VaultFits'
  <2>1. Idle' = Idle /\ NoTask' = NoTask
    BY DEF Idle, NoTask
  <2>2. CommitFits => CommitFits'
    BY DEF CommitFits, SeparateKeys, SelectsOne, IdsOf, Owned
  <2>3. VaultFits => VaultFits'
    BY DEF VaultFits, Written, Changed, Writes, Deletes, MovesKey
  <2> QED  BY <2>1, <2>2, <2>3 DEF AiIInv
<1>3. ~spoiled' => NoOrphanIn(Kept)' /\ UsedFrom(Kept)'
  BY DEF AiIInv, Idle, Kept, NoOrphanIn, UsedFrom
<1> QED  BY <1>1, <1>2, <1>3 DEF AiIInv

\* The editor's index is that of a profile, or none.
LEMMA IndexIsInList ==
  ASSUME AiIInv, editor.index # 0
  PROVE  editor.index \in DOMAIN memory.profiles
<1>1. Len(memory.profiles) \in Nat /\ DOMAIN memory.profiles = 1 .. Len(memory.profiles)
  BY ProfilesOf DEF AiIInv, Types
<1> QED  BY <1>1 DEF AiIInv, Types, ConfigsFit, Editors

LEMMA EditorKeepsIInv ==
  ASSUME AiIInv,
         \/ CloseManager \/ NewModel \/ CancelEdit \/ CancelDelete
         \/ \E i \in DOMAIN memory.profiles : EditModel(i) \/ RequestDelete(i)
         \/ AnswerBegins \/ AnswerEnds
  PROVE  AiIInv'
<1>1. /\ Len(memory.profiles) \in Nat /\ DOMAIN memory.profiles = 1 .. Len(memory.profiles)
      /\ \A i \in DOMAIN memory.profiles : memory.profiles[i].id \in Ids
  BY ProfilesOf DEF AiIInv, Types, Profile
<1>2. /\ UNCHANGED <<memory, file, vault, runtime, task, spoiled>>
      /\ faults' \in 0 .. FaultBound /\ busy' \in BOOLEAN
  BY DEF CloseManager, NewModel, CancelEdit, CancelDelete, EditModel, RequestDelete,
         AnswerBegins, AnswerEnds, storeVars, AiIInv, Types
<1>3. editor \in Editors /\ editor.index <= Len(memory.profiles)
  BY DEF AiIInv, Types, ConfigsFit
<1>4. editor' \in Editors /\ editor'.index <= Len(memory.profiles)
  <2>1. CASE CloseManager \/ NewModel
    <3>1. editor' = ClosedEditor \/ editor' = [ClosedEditor EXCEPT !.open = TRUE]
      BY <2>1 DEF CloseManager, NewModel
    <3>2. ClosedEditor \in Editors /\ ClosedEditor.index = 0
      BY DEF ClosedEditor, Editors
    <3>3. editor' \in Editors /\ editor'.index = 0
      BY <3>1, <3>2 DEF Editors
    <3> QED  BY <1>1, <3>3
  <2>2. CASE CancelEdit \/ CancelDelete \/ AnswerBegins \/ AnswerEnds
    <3>1. \/ editor' = [editor EXCEPT !.open = FALSE] \/ editor' = [editor EXCEPT !.confirm = None]
          \/ editor' = editor
      BY <2>2 DEF CancelEdit, CancelDelete, AnswerBegins, AnswerEnds
    <3>2. editor' \in Editors /\ editor'.index = editor.index
      BY <1>3, <3>1 DEF Editors
    <3> QED  BY <1>3, <3>2
  <2>3. ASSUME NEW i \in DOMAIN memory.profiles, EditModel(i) \/ RequestDelete(i)
        PROVE  editor' \in Editors /\ editor'.index <= Len(memory.profiles)
    <3>1. \/ editor' = [editor EXCEPT !.open = TRUE, !.index = i]
          \/ editor' = [editor EXCEPT !.index = i, !.confirm = memory.profiles[i].id]
      BY <2>3 DEF EditModel, RequestDelete
    <3>2. i \in Nat /\ i <= Len(memory.profiles) /\ memory.profiles[i].id \in Ids
      BY <1>1
    <3>3. editor' \in Editors /\ editor'.index = i
      BY <1>3, <3>1, <3>2 DEF Editors
    <3> QED  BY <3>2, <3>3
  <2> QED  BY <2>1, <2>2, <2>3
<1> QED  BY <1>2, <1>4, UntouchedKeepsIInv

LEMMA SelectProfileKeepsIInv ==
  ASSUME AiIInv, NEW i \in DOMAIN memory.profiles, SelectProfile(i)
  PROVE  AiIInv'
<1> USE DEF SelectProfile
<1>1. /\ memory \in Configs /\ SeparateKeys(memory) /\ i \in Nat
      /\ memory.profiles[i].id \in Ids
  BY ProfilesOf DEF AiIInv, Types, ConfigsFit, Profile
<1>2. memory' \in Configs /\ memory'.profiles = memory.profiles
      /\ memory'.selected = memory.profiles[i].id
  BY <1>1 DEF Configs
<1>3. SeparateKeys(memory') /\ SelectsOne(memory')
  BY <1>1, <1>2, SelectionKeepsSeparate DEF SelectsOne, IdsOf
<1>4. runtime' \in Runtimes /\ runtime'.profiles = runtime.profiles
      /\ runtime'.selected = i
  BY <1>1 DEF AiIInv, Types, Runtimes
<1>5. Position(memory', memory'.selected) = i
  BY <1>2, <1>3, PositionOfProfile
<1>6. RuntimeFits'
  BY <1>2, <1>3, <1>4, <1>5 DEF AiIInv, RuntimeFits, SelectionIsShown, IdsOf
<1>7. Types' /\ ConfigsFit'
  BY <1>2, <1>3, <1>4 DEF AiIInv, Types, ConfigsFit
<1>8. ~spoiled' => NoOrphanIn(Kept)' /\ UsedFrom(Kept)'
  BY <1>2, <1>4 DEF AiIInv, Idle, Kept, NoOrphanIn, UsedFrom
<1> QED  BY <1>6, <1>7, <1>8 DEF AiIInv, Idle

LEMMA DelayedSaveKeepsIInv ==
  ASSUME AiIInv, DelayedSave
  PROVE  AiIInv'
<1> USE DEF DelayedSave
<1>1. Types' /\ ConfigsFit' /\ RuntimeFits'
  BY DEF AiIInv, Types, ConfigsFit, RuntimeFits, SelectionIsShown, SelectsOne, SeparateKeys,
         IdsOf, Position
<1>2. IF Idle' THEN task' = NoTask ELSE CommitFits' /\ VaultFits'
  <2>1. Idle' = Idle /\ NoTask' = NoTask
    BY DEF Idle, NoTask
  <2>2. CommitFits => CommitFits'
    BY DEF CommitFits, SeparateKeys, SelectsOne, IdsOf, Owned
  <2>3. VaultFits => VaultFits'
    BY DEF VaultFits, Written, Changed, Writes, Deletes, MovesKey
  <2> QED  BY <2>1, <2>2, <2>3 DEF AiIInv
<1>3. ~spoiled' => NoOrphanIn(Kept)' /\ UsedFrom(Kept)'
  BY DEF AiIInv, Idle, Kept, NoOrphanIn, UsedFrom
<1> QED  BY <1>1, <1>2, <1>3 DEF AiIInv

LEMMA RestartKeepsIInv ==
  ASSUME AiIInv, Restart
  PROVE  AiIInv'
<1> USE DEF Restart
<1>1. file \in Configs /\ SeparateKeys(file) /\ vault \in [Targets -> Stored]
  BY SelectionKeepsSeparate DEF AiIInv, Types, ConfigsFit
<1>2. /\ memory' \in Configs /\ memory'.profiles = memory.profiles
      /\ SeparateKeys(memory') /\ SelectsOne(memory')
  BY <1>1, MigrateFits DEF AiIInv, ConfigsFit
<1>3. PICK installed \in BOOLEAN : runtime' = BuildRuntime(Migrate(file), vault, installed)
  OBVIOUS
<1>4. runtime' \in Runtimes /\ RuntimeFits' /\ UsedFrom(vault)'
  <2>1. Migrate(file) \in Configs /\ SeparateKeys(Migrate(file)) /\ SelectsOne(Migrate(file))
    BY <1>1, MigrateFits
  <2> DEFINE built == BuildRuntime(Migrate(file), vault, installed)
  <2>2. built \in Runtimes /\ Shows(built, Migrate(file), vault)
    BY <1>1, <2>1, BuildRuntimeFits
  <2> HIDE DEF built
  <2>3. runtime' = built /\ memory' = Migrate(file)
    BY <1>3 DEF built
  <2> QED
    BY <1>2, <2>2, <2>3 DEF Shows, RuntimeFits, SelectionIsShown, SelectsOne, UsedFrom, IdsOf, Position
<1>5. task' \in Tasks
  <2>1. [profiles |-> <<>>, selected |-> None] \in Configs
    BY EmptySeq DEF Configs
  <2> QED  BY <2>1 DEF NoTask, Tasks, Steps, Stored
<1>6. editor' \in Editors /\ editor'.index = 0
  BY DEF ClosedEditor, Editors
<1>7. Types'
  BY <1>1, <1>2, <1>4, <1>5, <1>6 DEF AiIInv, Types
<1>8. ConfigsFit'
  BY <1>2, <1>6, ProfilesOf DEF AiIInv, ConfigsFit
<1>9. ~spoiled' => NoOrphanIn(vault)'
  <2>1. ~spoiled' => Idle /\ ~spoiled
    BY DEF AiIInv, Types
  <2> QED  BY <1>2, <2>1 DEF AiIInv, Kept, NoOrphanIn
<1> QED
  BY <1>4, <1>7, <1>8, <1>9 DEF AiIInv, Idle, NoTask, Kept, NoOrphanIn, UsedFrom

-----------------------------------------------------------------------------
(* The start of a commit.                                                  *)

LEMMA CommitKeepsIInv ==
  ASSUME AiIInv, Idle,
         NEW id \in Ids, NEW next \in Configs, NEW old \in Targets \cup {None},
         NEW new \in Targets \cup {None, old}, NEW secret \in Stored,
         Commit(id, next, old, new, secret),
         UNCHANGED <<memory, file, vault, runtime, editor, busy, faults, spoiled>>,
         SeparateKeys(next), SelectsOne(next),
         \A i \in DOMAIN memory.profiles :
           LET profile == memory.profiles[i]
           IN  IF profile.id = id THEN profile.target = old
                                  ELSE Owned(next, profile.id, profile.target),
         old # None => Owned(memory, id, old),
         new # None => Owned(next, id, new),
         new \in {None, old, OwnTarget(id)},
         secret # None => new = OwnTarget(id)
  PROVE  AiIInv'
<1> DEFINE moves == secret # None \/ old # new
<1>1. /\ task' \in Tasks
      /\ task'.step = IF moves THEN "readOld" ELSE "save"
      /\ task'.deletes = (Len(next.profiles) < Len(memory.profiles)) /\ task'.id = id
      /\ task'.next = next /\ task'.old = old /\ task'.new = new /\ task'.secret = secret
      /\ task'.before = vault
  <2>1. vault \in [Targets -> Stored] /\ None \in Stored
    BY DEF AiIInv, Types, Stored
  <2>2. task' = [step |-> IF moves THEN "readOld" ELSE "save",
                 deletes |-> Len(next.profiles) < Len(memory.profiles), id |-> id, next |-> next,
                 old |-> old, new |-> new, secret |-> secret, oldSecret |-> None,
                 before |-> vault]
    BY DEF Commit, NoTask
  <2> QED  BY <2>1, <2>2 DEF Tasks, Steps
<1>2. Types' /\ ConfigsFit' /\ RuntimeFits'
  BY <1>1 DEF AiIInv, Types, ConfigsFit, RuntimeFits, SelectionIsShown, SelectsOne, SeparateKeys,
         IdsOf, Position
<1>3. ~Idle'
  BY <1>1 DEF Idle
<1>4. CommitFits'
  BY <1>1 DEF CommitFits, SeparateKeys, SelectsOne, IdsOf, Owned
<1>5. VaultFits'
  BY <1>1 DEF VaultFits, Written, Changed, Writes, Deletes
<1>6. Kept' = Kept
  BY <1>1, <1>3 DEF Kept
<1>7. ~spoiled' => NoOrphanIn(Kept)' /\ UsedFrom(Kept)'
  BY <1>6 DEF AiIInv, NoOrphanIn, UsedFrom
<1> QED  BY <1>2, <1>3, <1>4, <1>5, <1>7 DEF AiIInv

LEMMA EditFits ==
  ASSUME NEW id \in Ids, NEW target \in Targets \cup {None}, NEW http \in BOOLEAN,
         NEW edit \in Edits(id, target, http)
  PROVE  /\ edit.target \in {None, target, OwnTarget(id)} /\ edit.secret \in Stored
         /\ edit.secret # None => edit.target = OwnTarget(id)
BY DEF Edits, Stored

\* A target of one profile is no other's own.
LEMMA TargetsFit ==
  ASSUME NEW config \in Configs, SeparateKeys(config), NEW i \in DOMAIN config.profiles,
         NEW id \in Ids, id # config.profiles[i].id
  PROVE  /\ config.profiles[i].target # OwnTarget(id)
         /\ OwnTarget(id) \in Targets /\ OwnTarget(id) # None
<1>1. config.profiles[i] \in Profile
  BY ProfilesOf
<1> QED  BY <1>1, AiAssumption DEF SeparateKeys, Profile, OwnTarget, Targets

LEMMA WithSelectionFits ==
  ASSUME NEW config \in Configs, SeparateKeys(config), SelectsOne(config),
         NEW id \in IdsOf(config), id \in Ids
  PROVE  LET next == WithSelection(config, id)
         IN  /\ next \in Configs /\ next.profiles = config.profiles
             /\ SeparateKeys(next) /\ SelectsOne(next)
<1> DEFINE next == WithSelection(config, id)
<1>1. next \in Configs /\ next.profiles = config.profiles
  BY DEF WithSelection, Configs
<1>2. next.selected \in IdsOf(config) \cup {None}
  BY DEF WithSelection, SelectsOne, Configs
<1> HIDE DEF next
<1>3. SeparateKeys(next) /\ SelectsOne(next)
  BY <1>1, <1>2, SelectionKeepsSeparate DEF SelectsOne
<1> QED  BY <1>1, <1>3 DEF next

LEMMA SaveNewKeepsIInv ==
  ASSUME AiIInv, NEW id \in FreshIds, NEW name \in Names, NEW http \in BOOLEAN,
         SaveNew(id, name, http)
  PROVE  AiIInv'
<1> DEFINE n == Len(memory.profiles)
<1>1. PICK edit \in Edits(id, None, http) :
        LET profile == [id |-> id, name |-> name, http |-> http, target |-> edit.target]
        IN  Commit(id, WithSelection([memory EXCEPT !.profiles = Append(@, profile)], id),
                   None, edit.target, edit.secret)
  BY DEF SaveNew
<1> DEFINE profile == [id |-> id, name |-> name, http |-> http, target |-> edit.target]
           longer  == [memory EXCEPT !.profiles = Append(@, profile)]
           next    == WithSelection(longer, id)
<1>2. /\ memory \in Configs /\ SeparateKeys(memory) /\ SelectsOne(memory)
      /\ memory.profiles \in Seq(Profile) /\ n \in Nat /\ DOMAIN memory.profiles = 1 .. n
  BY ProfilesOf DEF AiIInv, Types, ConfigsFit
<1>3. id \in Ids /\ \A i \in 1 .. n : memory.profiles[i].id # id
  BY <1>2 DEF FreshIds, IdsOf
<1>4. /\ edit.target \in {None, OwnTarget(id)} /\ edit.secret \in Stored
      /\ edit.secret # None => edit.target = OwnTarget(id)
      /\ OwnTarget(id) \in Targets
  BY <1>3, EditFits DEF OwnTarget, Targets
<1>5. profile \in Profile /\ profile.id = id /\ profile.target = edit.target
  BY <1>3, <1>4 DEF Profile
<1> HIDE DEF profile
<1>6. /\ longer \in Configs /\ longer.selected = memory.selected
      /\ Len(longer.profiles) = n + 1 /\ DOMAIN longer.profiles = 1 .. n + 1
      /\ \A i \in 1 .. n : longer.profiles[i] = memory.profiles[i]
      /\ longer.profiles[n + 1] = profile
  BY <1>2, <1>5, AppendProperties DEF Configs
<1> HIDE DEF longer
<1>7. SeparateKeys(longer)
  <2>1. n + 1 <= MaxProfiles
    BY <1>2, AiAssumption DEF SaveNew
  <2>2. \A i \in 1 .. n : memory.profiles[i].target # OwnTarget(id)
    BY <1>2, <1>3, TargetsFit
  <2>3. ASSUME NEW i \in 1 .. n + 1
        PROVE  /\ longer.profiles[i].target \in {None, OwnTarget(longer.profiles[i].id)} \cup CustomTargets
               /\ \A j \in (1 .. n + 1) \ {i} :
                    /\ longer.profiles[j].id # longer.profiles[i].id
                    /\ longer.profiles[i].target # None =>
                         longer.profiles[j].target # longer.profiles[i].target
    <3>1. \A j \in 1 .. n + 1 : j \in 1 .. n \/ j = n + 1
      BY <1>2
    <3>2. CASE i = n + 1
      BY <1>3, <1>4, <1>5, <1>6, <2>2, <3>1, <3>2
    <3>3. CASE i \in 1 .. n
      BY <1>2, <1>3, <1>4, <1>5, <1>6, <2>2, <3>1, <3>3 DEF SeparateKeys
    <3> QED  BY <3>1, <3>2, <3>3
  <2> QED  BY <1>6, <2>1, <2>3 DEF SeparateKeys, Configs
<1>8. n + 1 \in 1 .. n + 1 /\ IdsOf(longer) = IdsOf(memory) \cup {id}
  BY <1>2, <1>5, <1>6 DEF IdsOf
<1>9. /\ next \in Configs /\ next.profiles = longer.profiles
      /\ SeparateKeys(next) /\ SelectsOne(next)
  BY <1>2, <1>3, <1>6, <1>7, <1>8, WithSelectionFits DEF SelectsOne
<1>10. Commit(id, next, None, edit.target, edit.secret)
  BY <1>1 DEF longer, profile
<1> HIDE DEF next
<1>11. \A i \in DOMAIN memory.profiles :
         /\ memory.profiles[i].id # id
         /\ Owned(next, memory.profiles[i].id, memory.profiles[i].target)
  BY <1>2, <1>3, <1>6, <1>9 DEF Owned
<1>12. Owned(next, id, edit.target)
  BY <1>5, <1>6, <1>8, <1>9 DEF Owned
<1>13. UNCHANGED <<memory, file, vault, runtime, editor, busy, faults, spoiled>> /\ Idle
  BY DEF SaveNew
<1> QED  BY <1>3, <1>4, <1>9, <1>10, <1>11, <1>12, <1>13, CommitKeepsIInv

LEMMA SaveExistingKeepsIInv ==
  ASSUME AiIInv, NEW name \in Names, SaveExisting(name)
  PROVE  AiIInv'
<1> DEFINE n == Len(memory.profiles)
           i == editor.index
           old == memory.profiles[i]
<1>1. PICK edit \in Edits(old.id, old.target, old.http) :
        Commit(old.id,
               WithSelection([memory EXCEPT !.profiles[i] =
                                [old EXCEPT !.name = name, !.target = edit.target]], old.id),
               old.target, edit.target, edit.secret)
  BY DEF SaveExisting
<1> DEFINE profile == [old EXCEPT !.name = name, !.target = edit.target]
           edited  == [memory EXCEPT !.profiles[i] = profile]
           next    == WithSelection(edited, old.id)
<1>2. /\ memory \in Configs /\ SeparateKeys(memory) /\ SelectsOne(memory)
      /\ memory.profiles \in Seq(Profile) /\ n \in Nat /\ DOMAIN memory.profiles = 1 .. n
  BY ProfilesOf DEF AiIInv, Types, ConfigsFit
<1>3. i \in 1 .. n /\ old \in Profile
  BY <1>2, IndexIsInList, ProfilesOf DEF SaveExisting
<1> HIDE DEF i
<1>4. /\ edit.target \in {None, old.target, OwnTarget(old.id)} /\ edit.secret \in Stored
      /\ edit.secret # None => edit.target = OwnTarget(old.id)
      /\ OwnTarget(old.id) \in Targets
  BY <1>3, EditFits DEF OwnTarget, Targets, Profile
<1>5. profile \in Profile /\ profile.id = old.id /\ profile.target = edit.target
  BY <1>3, <1>4 DEF Profile
<1> HIDE DEF profile
<1>6. /\ edited \in Configs /\ edited.selected = memory.selected
      /\ Len(edited.profiles) = n /\ DOMAIN edited.profiles = 1 .. n
      /\ \A j \in 1 .. n : edited.profiles[j] = IF j = i THEN profile ELSE memory.profiles[j]
  <2>1. /\ edited \in Configs /\ edited.selected = memory.selected
        /\ edited.profiles = [memory.profiles EXCEPT ![i] = profile]
    BY <1>2, <1>3, <1>5 DEF Configs
  <2> QED  BY <1>2, <1>3, <1>5, <2>1, ExceptSeq
<1> HIDE DEF edited
<1>7. SeparateKeys(edited)
  <2>1. \A j \in (1 .. n) \ {i} :
          /\ memory.profiles[j].id # old.id
          /\ memory.profiles[j].target # OwnTarget(old.id)
          /\ old.target # None => memory.profiles[j].target # old.target
    <3>1. \A j \in (1 .. n) \ {i} : memory.profiles[j].id # old.id
      BY <1>2, <1>3 DEF SeparateKeys
    <3>2. \A j \in (1 .. n) \ {i} : memory.profiles[j].target # OwnTarget(old.id)
      BY <1>2, <1>3, <3>1, TargetsFit DEF Profile
    <3> QED  BY <1>2, <1>3, <3>1, <3>2 DEF SeparateKeys
  <2>2. old.target \in {None, OwnTarget(old.id)} \cup CustomTargets
    BY <1>2, <1>3 DEF SeparateKeys
  <2>3. ASSUME NEW k \in 1 .. n
        PROVE  /\ edited.profiles[k].target \in {None, OwnTarget(edited.profiles[k].id)} \cup CustomTargets
               /\ \A j \in (1 .. n) \ {k} :
                    /\ edited.profiles[j].id # edited.profiles[k].id
                    /\ edited.profiles[k].target # None =>
                         edited.profiles[j].target # edited.profiles[k].target
    <3>1. CASE k = i
      BY <1>4, <1>5, <1>6, <2>1, <2>2, <3>1
    <3>2. CASE k # i
      BY <1>2, <1>4, <1>5, <1>6, <2>1, <2>2, <3>2 DEF SeparateKeys
    <3> QED  BY <3>1, <3>2
  <2> QED  BY <1>2, <1>6, <2>3 DEF SeparateKeys, Configs
<1>8. IdsOf(edited) = IdsOf(memory) /\ old.id \in IdsOf(edited) /\ old.id \in Ids
  BY <1>2, <1>3, <1>5, <1>6 DEF IdsOf, Profile
<1>9. /\ next \in Configs /\ next.profiles = edited.profiles
      /\ SeparateKeys(next) /\ SelectsOne(next)
  BY <1>2, <1>6, <1>7, <1>8, WithSelectionFits DEF SelectsOne
<1>10. Commit(old.id, next, old.target, edit.target, edit.secret)
  BY <1>1 DEF edited, profile
<1> HIDE DEF next
<1>11. \A j \in DOMAIN memory.profiles :
         IF memory.profiles[j].id = old.id THEN memory.profiles[j].target = old.target
           ELSE Owned(next, memory.profiles[j].id, memory.profiles[j].target)
  <2>1. \A j \in 1 .. n : memory.profiles[j].id = old.id => j = i
    BY <1>2, <1>3 DEF SeparateKeys
  <2> QED  BY <1>2, <1>6, <1>9, <2>1 DEF Owned
<1>12. Owned(next, old.id, edit.target) /\ Owned(memory, old.id, old.target)
  BY <1>2, <1>3, <1>5, <1>6, <1>9 DEF Owned
<1>13. UNCHANGED <<memory, file, vault, runtime, editor, busy, faults, spoiled>> /\ Idle
  BY DEF SaveExisting
<1>14. old.target \in Targets \cup {None}
  BY <1>3 DEF Profile
<1> QED
  BY <1>4, <1>8, <1>9, <1>10, <1>11, <1>12, <1>13, <1>14, CommitKeepsIInv

LEMMA RemoveAtFacts ==
  ASSUME NEW S, NEW s \in Seq(S), NEW i \in 1 .. Len(s)
  PROVE  /\ RemoveAt(s, i) \in Seq(S) /\ Len(RemoveAt(s, i)) = Len(s) - 1
         /\ \A j \in 1 .. Len(s) - 1 : RemoveAt(s, i)[j] = IF j < i THEN s[j] ELSE s[j + 1]
<1> DEFINE n == Len(s)
           a == SubSeq(s, 1, i - 1)
           b == SubSeq(s, i + 1, n)
<1>1. n \in Nat /\ \A j \in 1 .. n : s[j] \in S
  BY LenProperties, ElementOfSeq
<1>2. /\ a \in Seq(S) /\ Len(a) = i - 1
      /\ \A j \in 1 .. i - 1 : a[j] = s[j]
  BY <1>1, SubSeqProperties
<1>3. /\ b \in Seq(S) /\ Len(b) = n - i
      /\ \A j \in 1 .. n - i : b[j] = s[i + j]
  BY <1>1, SubSeqProperties
<1> HIDE DEF a, b
<1>4. /\ a \o b \in Seq(S) /\ Len(a \o b) = n - 1
      /\ \A j \in 1 .. n - 1 : (a \o b)[j] = IF j <= i - 1 THEN a[j] ELSE b[j - (i - 1)]
  <2>1. Len(a) = i - 1 /\ Len(a) + Len(b) = n - 1
    BY <1>1, <1>2, <1>3
  <2>2. /\ a \o b \in Seq(S) /\ Len(a \o b) = Len(a) + Len(b)
        /\ \A j \in 1 .. Len(a) + Len(b) : (a \o b)[j] = IF j <= Len(a) THEN a[j] ELSE b[j - Len(a)]
    BY <1>2, <1>3, ConcatProperties
  <2> QED  BY ONLY <2>1, <2>2
<1>5. ASSUME NEW j \in 1 .. n - 1
      PROVE  (a \o b)[j] = IF j < i THEN s[j] ELSE s[j + 1]
  <2>1. CASE j < i
    <3>1. j \in 1 .. i - 1 /\ j <= i - 1
      BY <1>1, <2>1
    <3> QED  BY <1>2, <1>4, <2>1, <3>1
  <2>2. CASE ~(j < i)
    <3>1. /\ j - (i - 1) \in 1 .. n - i /\ i + (j - (i - 1)) = j + 1 /\ ~(j <= i - 1)
      BY <1>1, <2>2
    <3>2. (a \o b)[j] = b[j - (i - 1)] /\ b[j - (i - 1)] = s[i + (j - (i - 1))]
      BY <1>3, <1>4, <3>1
    <3> QED  BY <2>2, <3>1, <3>2
  <2> QED  BY <2>1, <2>2
<1> QED  BY <1>4, <1>5 DEF a, b, RemoveAt

LEMMA ConfirmDeleteKeepsIInv ==
  ASSUME AiIInv, ConfirmDelete
  PROVE  AiIInv'
<1> DEFINE n == Len(memory.profiles)
           i == editor.index
           old == memory.profiles[i]
           next == WithoutProfile(memory, i)
<1>1. Commit(old.id, next, old.target, None, None)
  BY DEF ConfirmDelete
<1>2. /\ memory \in Configs /\ SeparateKeys(memory) /\ SelectsOne(memory)
      /\ memory.profiles \in Seq(Profile) /\ n \in Nat /\ DOMAIN memory.profiles = 1 .. n
  BY ProfilesOf DEF AiIInv, Types, ConfigsFit
<1>3. i \in 1 .. n /\ old \in Profile
  BY <1>2, IndexIsInList, ProfilesOf DEF ConfirmDelete
<1> HIDE DEF i
<1> DEFINE From(j) == IF j < i THEN j ELSE j + 1
<1>4. /\ next \in Configs
      /\ next.selected = IF memory.selected = old.id THEN None ELSE memory.selected
      /\ Len(next.profiles) = n - 1 /\ DOMAIN next.profiles = 1 .. n - 1
      /\ \A j \in 1 .. n - 1 : next.profiles[j] = memory.profiles[From(j)]
  <2>1. /\ next.profiles = RemoveAt(memory.profiles, i)
        /\ next.selected = IF memory.selected = old.id THEN None ELSE memory.selected
        /\ next = [memory EXCEPT !.profiles = next.profiles, !.selected = next.selected]
    BY <1>2 DEF WithoutProfile, Configs
  <2>2. /\ RemoveAt(memory.profiles, i) \in Seq(Profile)
        /\ Len(RemoveAt(memory.profiles, i)) = n - 1
        /\ \A j \in 1 .. n - 1 :
             RemoveAt(memory.profiles, i)[j] = IF j < i THEN memory.profiles[j]
                                                        ELSE memory.profiles[j + 1]
    BY <1>2, <1>3, RemoveAtFacts
  <2>3. next \in Configs
    BY <1>2, <2>1, <2>2 DEF Configs
  <2> HIDE DEF next
  <2> QED  BY <1>2, <1>3, <2>1, <2>2, <2>3, ProfilesOf
<1> HIDE DEF next
<1>5. /\ \A j \in 1 .. n - 1 : From(j) \in (1 .. n) \ {i}
      /\ \A j, k \in 1 .. n - 1 : From(j) = From(k) => j = k
  BY <1>2, <1>3
<1>6. \A k \in (1 .. n) \ {i} : \E j \in 1 .. n - 1 : From(j) = k
  <2> SUFFICES ASSUME NEW k \in (1 .. n) \ {i} PROVE \E j \in 1 .. n - 1 : From(j) = k
    OBVIOUS
  <2>1. CASE k < i
    <3>1. k \in 1 .. n - 1
      BY <1>2, <1>3, <2>1
    <3> QED  BY <2>1, <3>1
  <2>2. CASE ~(k < i)
    <3>1. k - 1 \in 1 .. n - 1 /\ ~(k - 1 < i) /\ (k - 1) + 1 = k
      BY <1>2, <1>3, <2>2
    <3> QED  BY <3>1
  <2> QED  BY <2>1, <2>2
<1> HIDE DEF From
<1>7. SeparateKeys(next)
  <2>1. n - 1 <= MaxProfiles
    BY <1>2, AiAssumption DEF SeparateKeys
  <2>2. ASSUME NEW j \in 1 .. n - 1
        PROVE  LET profile == next.profiles[j]
               IN  /\ profile.target \in {None, OwnTarget(profile.id)} \cup CustomTargets
                   /\ \A k \in (1 .. n - 1) \ {j} :
                        /\ next.profiles[k].id # profile.id
                        /\ profile.target # None => next.profiles[k].target # profile.target
    <3>1. next.profiles[j] = memory.profiles[From(j)] /\ From(j) \in 1 .. n
      BY <1>4, <1>5
    <3>2. \A k \in (1 .. n - 1) \ {j} :
            next.profiles[k] = memory.profiles[From(k)] /\ From(k) \in (1 .. n) \ {From(j)}
      BY <1>4, <1>5
    <3> QED  BY <1>2, <3>1, <3>2 DEF SeparateKeys
  <2>3. next \in [profiles : Seq(Profile), selected : Ids \cup {None}]
    BY <1>4 DEF Configs
  <2> QED  BY <1>4, <2>1, <2>2, <2>3 DEF SeparateKeys
<1>8. ASSUME NEW j \in (1 .. n) \ {i}
      PROVE  /\ memory.profiles[j].id # old.id
             /\ \E k \in 1 .. n - 1 : next.profiles[k] = memory.profiles[j]
  <2>1. memory.profiles[j].id # old.id
    BY <1>2, <1>3 DEF SeparateKeys
  <2>2. PICK k \in 1 .. n - 1 : From(k) = j
    BY <1>6
  <2>3. next.profiles[k] = memory.profiles[j]
    BY <1>4, <2>2
  <2> QED  BY <2>1, <2>3
<1>9. SelectsOne(next)
  <2>1. ASSUME memory.selected \in IdsOf(memory), memory.selected # old.id
        PROVE  memory.selected \in IdsOf(next)
    <3>1. PICK j \in 1 .. n : memory.profiles[j].id = memory.selected
      BY <1>2, <2>1 DEF IdsOf
    <3>2. PICK k \in 1 .. n - 1 : next.profiles[k] = memory.profiles[j]
      BY <1>8, <2>1, <3>1
    <3> QED  BY <1>4, <3>1, <3>2 DEF IdsOf
  <2> QED  BY <1>2, <1>4, <2>1 DEF SelectsOne
<1>10. \A j \in DOMAIN memory.profiles :
         IF memory.profiles[j].id = old.id THEN memory.profiles[j].target = old.target
           ELSE Owned(next, memory.profiles[j].id, memory.profiles[j].target)
  BY <1>2, <1>4, <1>8 DEF Owned
<1>11. Owned(memory, old.id, old.target)
  BY <1>2, <1>3 DEF Owned
<1>12. UNCHANGED <<memory, file, vault, runtime, editor, busy, faults, spoiled>> /\ Idle
  BY DEF ConfirmDelete
<1>13. old.id \in Ids /\ old.target \in Targets \cup {None} /\ None \in Stored
  BY <1>3 DEF Profile, Stored
<1> QED
  BY <1>1, <1>4, <1>7, <1>9, <1>10, <1>11, <1>12, <1>13, CommitKeepsIInv

-----------------------------------------------------------------------------
(* The calls of a commit.                                                  *)

LEMMA CommitFacts ==
  ASSUME AiIInv, ~Idle
  PROVE  /\ CommitFits /\ VaultFits /\ ConfigsFit
         /\ task \in Tasks /\ task.id \in Ids /\ task.next \in Configs
         /\ task.old \in Targets \cup {None} /\ task.new \in Targets \cup {None}
         /\ task.secret \in Stored /\ task.oldSecret \in Stored
         /\ task.before \in [Targets -> Stored] /\ vault \in [Targets -> Stored]
         /\ None \notin Targets /\ None \in Stored
BY AiAssumption DEF AiIInv, Types, Tasks, CommitFits, Stored

\* The profile of the commit is where its old target is; no other profile has
\* the old target or the new one.
LEMMA OtherTargets ==
  ASSUME AiIInv, ~Idle, NEW i \in DOMAIN memory.profiles, memory.profiles[i].target # None
  PROVE  IF memory.profiles[i].id = task.id
           THEN memory.profiles[i].target = task.old
           ELSE memory.profiles[i].target \notin {task.old, task.new}
<1> DEFINE profile == memory.profiles[i]
<1>1. /\ CommitFits /\ SeparateKeys(memory) /\ SeparateKeys(task.next)
  BY CommitFacts DEF CommitFits, ConfigsFit
<1>2. CASE profile.id = task.id
  BY <1>1, <1>2 DEF CommitFits
<1>3. CASE profile.id # task.id
  <2>1. PICK k \in DOMAIN task.next.profiles :
          task.next.profiles[k].id = profile.id /\ task.next.profiles[k].target = profile.target
    BY <1>1, <1>3 DEF CommitFits, Owned
  <2>2. profile.target # task.old
    <3>1. SUFFICES ASSUME task.old # None PROVE profile.target # task.old
      OBVIOUS
    <3>2. PICK j \in DOMAIN memory.profiles :
            memory.profiles[j].id = task.id /\ memory.profiles[j].target = task.old
      BY <1>1, <3>1 DEF CommitFits, Owned
    <3> QED  BY <1>1, <1>3, <3>2 DEF SeparateKeys
  <2>3. profile.target # task.new
    <3>1. SUFFICES ASSUME task.new # None PROVE profile.target # task.new
      OBVIOUS
    <3>2. PICK j \in DOMAIN task.next.profiles :
            task.next.profiles[j].id = task.id /\ task.next.profiles[j].target = task.new
      BY <1>1, <3>1 DEF CommitFits, Owned
    <3> QED  BY <1>1, <1>3, <2>1, <3>2 DEF SeparateKeys
  <2> QED  BY <1>3, <2>2, <2>3
<1> QED  BY <1>2, <1>3

\* A key that moves had nothing at its new place.
LEMMA NewPlaceWasEmpty ==
  ASSUME AiIInv, ~Idle, MovesKey, ~spoiled
  PROVE  task.before[task.new] = None
<1>1. task.new \in Targets /\ task.new # task.old /\ task.new # None
  BY CommitFacts DEF MovesKey
<1>2. NoOrphanIn(task.before)
  BY DEF AiIInv, Kept
<1>3. SUFFICES ASSUME task.before[task.new] # None PROVE FALSE
  OBVIOUS
<1>4. PICK i \in DOMAIN memory.profiles : memory.profiles[i].target = task.new
  BY <1>1, <1>2, <1>3 DEF NoOrphanIn
<1> QED  BY <1>1, <1>4, OtherTargets

\* A commit that ends without having saved has put the vault back.
Restored == Idle' /\ ~spoiled' => vault' = task.before

LEMMA EndKeepsIInv ==
  ASSUME AiIInv, ~Idle, EndCommit, UNCHANGED <<unchangedByCalls, file>>,
         vault' \in [Targets -> Stored], faults' \in 0 .. FaultBound, spoiled' \in BOOLEAN,
         ~spoiled' => ~spoiled /\ vault' = task.before
  PROVE  AiIInv' /\ Restored
<1> USE DEF unchangedByCalls
<1>1. task' \in Tasks /\ Idle'
  <2>1. [profiles |-> <<>>, selected |-> None] \in Configs
    BY EmptySeq DEF Configs
  <2> QED  BY <2>1 DEF EndCommit, NoTask, Idle, Tasks, Steps, Stored
<1>2. Types' /\ ConfigsFit' /\ RuntimeFits'
  BY <1>1 DEF AiIInv, Types, ConfigsFit, RuntimeFits, SelectionIsShown, SelectsOne, SeparateKeys,
         IdsOf, Position
<1>3. ~spoiled' => NoOrphanIn(Kept)' /\ UsedFrom(Kept)'
  <2>1. ~spoiled' => Kept' = Kept /\ ~spoiled
    BY <1>1 DEF Kept
  <2> QED  BY <2>1 DEF AiIInv, NoOrphanIn, UsedFrom
<1> QED  BY <1>1, <1>2, <1>3 DEF AiIInv, EndCommit, Restored, NoTask

LEMMA StepKeepsIInv ==
  ASSUME AiIInv, ~Idle, NEW step \in Steps \ {"idle"}, NEW oldSecret \in Stored,
         task' = [task EXCEPT !.step = step, !.oldSecret = oldSecret],
         UNCHANGED <<unchangedByCalls, file, spoiled>>,
         vault' \in [Targets -> Stored], faults' \in 0 .. FaultBound, VaultFits'
  PROVE  AiIInv' /\ Restored
<1> USE DEF unchangedByCalls
<1>1. /\ task' \in Tasks /\ task'.deletes = task.deletes /\ task'.id = task.id
      /\ task'.next = task.next /\ task'.old = task.old /\ task'.new = task.new
      /\ task'.secret = task.secret /\ task'.before = task.before /\ task'.step = step
  BY CommitFacts DEF Tasks
<1>2. ~Idle'
  BY <1>1 DEF Idle
<1>3. Types' /\ ConfigsFit' /\ RuntimeFits'
  BY <1>1 DEF AiIInv, Types, ConfigsFit, RuntimeFits, SelectionIsShown, SelectsOne, SeparateKeys,
         IdsOf, Position
<1>4. CommitFits'
  BY <1>1, CommitFacts DEF CommitFits, SeparateKeys, SelectsOne, IdsOf, Owned
<1>5. ~spoiled' => NoOrphanIn(Kept)' /\ UsedFrom(Kept)'
  <2>1. Kept' = Kept
    BY <1>1, <1>2 DEF Kept
  <2> QED  BY <2>1 DEF AiIInv, NoOrphanIn, UsedFrom
<1> QED  BY <1>2, <1>3, <1>4, <1>5 DEF AiIInv, Restored

\* A step that only goes on, with the same secret to go back to.
LEMMA GoToKeepsIInv ==
  ASSUME AiIInv, ~Idle, NEW step \in Steps \ {"idle"}, GoTo(step),
         UNCHANGED <<unchangedByCalls, file, spoiled>>,
         vault' \in [Targets -> Stored], faults' \in 0 .. FaultBound, VaultFits'
  PROVE  AiIInv' /\ Restored
<1>1. task \in Tasks /\ task.oldSecret \in Stored
  BY CommitFacts
<1>2. task' = [task EXCEPT !.step = step, !.oldSecret = task.oldSecret]
  BY <1>1 DEF GoTo, Tasks
<1> QED  BY <1>1, <1>2, StepKeepsIInv

LEMMA CallFailsWithin ==
  ASSUME AiIInv, CallFails
  PROVE  faults' \in 0 .. FaultBound
BY AiAssumption DEF AiIInv, Types, CallFails

\* What a commit's task keeps while it goes on.
LEMMA GoToKeepsTask ==
  ASSUME AiIInv, ~Idle, NEW step, GoTo(step)
  PROVE  /\ task'.step = step /\ task'.old = task.old /\ task'.new = task.new
         /\ task'.secret = task.secret /\ task'.oldSecret = task.oldSecret
         /\ task'.before = task.before
         /\ Writes' = Writes /\ Deletes' = Deletes /\ MovesKey' = MovesKey
         /\ Written' = Written /\ Changed' = Changed
<1>1. /\ task'.step = step /\ task'.old = task.old /\ task'.new = task.new
      /\ task'.secret = task.secret /\ task'.oldSecret = task.oldSecret
      /\ task'.before = task.before
  BY CommitFacts DEF GoTo, Tasks
<1> QED  BY <1>1 DEF Writes, Deletes, MovesKey, Written, Changed

\* The vault on the way of a commit.
LEMMA ChangedFits ==
  ASSUME AiIInv, ~Idle
  PROVE  Written \in [Targets -> Stored] /\ Changed \in [Targets -> Stored]
<1>1. Written \in [Targets -> Stored]
  BY CommitFacts DEF Written
<1> QED  BY <1>1, CommitFacts DEF Changed

LEMMA ReadOldKeepsIInv ==
  ASSUME AiIInv, ReadOld
  PROVE  AiIInv' /\ Restored
<1>1. ~Idle /\ task.step = "readOld" /\ vault = task.before
  BY CommitFacts DEF ReadOld, Idle, VaultFits
<1> DEFINE oldSecret == IF task.old = None THEN None ELSE vault[task.old]
<1>2. oldSecret \in Stored /\ AfterRead \in Steps \ {"idle", "readOld"}
  BY <1>1, CommitFacts DEF AfterRead, Steps
<1>3. task' = [task EXCEPT !.step = AfterRead, !.oldSecret = oldSecret] /\ vault' = vault
  BY DEF ReadOld
<1>4. /\ task'.step = AfterRead /\ task'.old = task.old /\ task'.new = task.new
      /\ task'.secret = task.secret /\ task'.oldSecret = oldSecret /\ task'.before = task.before
  BY <1>1, <1>3, CommitFacts DEF Tasks
<1>5. /\ Writes' = Writes /\ Deletes' = Deletes /\ Written' = Written /\ Changed' = Changed
  BY <1>4 DEF Writes, Deletes, Written, Changed
<1>6. VaultFits'
  <2>1. ~Writes => Written = vault
    BY <1>1 DEF Written
  <2>2. ~Writes /\ ~Deletes => Changed = vault
    BY <2>1 DEF Changed
  <2>3. task.secret # None \/ task.old # task.new
    BY <1>1, CommitFacts DEF VaultFits
  <2>4. task.old # None => oldSecret = task.before[task.old]
    BY <1>1
  <2>5. AfterRead \in {"writeNew", "deleteOld", "save"}
    BY DEF AfterRead
  <2>6. /\ AfterRead = "writeNew" => Writes
        /\ AfterRead = "deleteOld" => vault' = Written' /\ Deletes'
        /\ AfterRead = "save" => vault' = Changed'
    BY <1>3, <1>5, <2>1, <2>2 DEF AfterRead
  <2> HIDE DEF oldSecret
  <2> QED  BY <1>1, <1>3, <1>4, <1>5, <2>3, <2>4, <2>5, <2>6 DEF VaultFits
<1>7. UNCHANGED <<unchangedByCalls, file, spoiled>> /\ vault' \in [Targets -> Stored]
  BY <1>1, CommitFacts DEF ReadOld
<1>8. faults' \in 0 .. FaultBound
  BY DEF ReadOld, AiIInv, Types
<1> HIDE DEF oldSecret
<1> QED  BY <1>1, <1>2, <1>3, <1>6, <1>7, <1>8, StepKeepsIInv

LEMMA FailedReadOrWriteKeepsIInv ==
  ASSUME AiIInv, ReadOldFails \/ WriteNewFails
  PROVE  AiIInv' /\ Restored
<1>1. ~Idle /\ task.step \in {"readOld", "writeNew"}
  BY DEF ReadOldFails, WriteNewFails, Idle
<1>2. vault = task.before
  BY <1>1, CommitFacts DEF VaultFits
<1>3. /\ EndCommit /\ UNCHANGED <<unchangedByCalls, file, vault, spoiled>> /\ CallFails
  BY DEF ReadOldFails, WriteNewFails
<1>4. spoiled \in BOOLEAN
  BY DEF AiIInv, Types
<1> QED  BY <1>1, <1>2, <1>3, <1>4, CommitFacts, CallFailsWithin, EndKeepsIInv

LEMMA WriteNewKeepsIInv ==
  ASSUME AiIInv, WriteNew
  PROVE  AiIInv' /\ Restored
<1>1. ~Idle /\ task.step = "writeNew"
  BY DEF WriteNew, Idle
<1>2. vault = task.before /\ Writes /\ vault' = [vault EXCEPT ![task.new] = task.secret]
  BY <1>1, CommitFacts DEF WriteNew, VaultFits
<1>3. vault' = Written
  BY <1>2 DEF Written
<1>4. GoTo(AfterWrite) /\ AfterWrite \in Steps \ {"idle"}
  BY DEF WriteNew, AfterWrite, Steps
<1>5. VaultFits'
  <2>1. ~Deletes => Changed = Written
    BY DEF Changed
  <2>2. /\ task.secret # None \/ task.old # task.new
        /\ task.old # None => \/ task.secret = None /\ task.old = task.new
                              \/ task.oldSecret = task.before[task.old]
    BY <1>1, CommitFacts DEF VaultFits
  <2> QED  BY <1>1, <1>3, <1>4, <2>1, <2>2, GoToKeepsTask DEF VaultFits, AfterWrite
<1>6. vault' \in [Targets -> Stored]
  BY <1>1, <1>3, ChangedFits
<1>7. UNCHANGED <<unchangedByCalls, file, spoiled>> /\ faults' \in 0 .. FaultBound
  BY DEF WriteNew, AiIInv, Types
<1> QED  BY <1>1, <1>4, <1>5, <1>6, <1>7, GoToKeepsIInv

LEMMA DeleteOldKeepsIInv ==
  ASSUME AiIInv, DeleteOld
  PROVE  AiIInv' /\ Restored
<1>1. ~Idle /\ task.step = "deleteOld"
  BY DEF DeleteOld, Idle
<1>2. vault = Written /\ Deletes /\ vault' = [vault EXCEPT ![task.old] = None]
  BY <1>1, CommitFacts DEF DeleteOld, VaultFits
<1>3. vault' = Changed
  BY <1>2 DEF Changed
<1>4. GoTo("save") /\ "save" \in Steps \ {"idle"}
  BY DEF DeleteOld, Steps
<1>5. VaultFits'
  <2>1. /\ task.secret # None \/ task.old # task.new
        /\ task.old # None => \/ task.secret = None /\ task.old = task.new
                              \/ task.oldSecret = task.before[task.old]
    BY <1>1, CommitFacts DEF VaultFits
  <2> QED  BY <1>1, <1>3, <1>4, <2>1, GoToKeepsTask DEF VaultFits
<1>6. vault' \in [Targets -> Stored]
  BY <1>1, <1>3, ChangedFits
<1>7. UNCHANGED <<unchangedByCalls, file, spoiled>> /\ faults' \in 0 .. FaultBound
  BY DEF DeleteOld, AiIInv, Types
<1> QED  BY <1>1, <1>4, <1>5, <1>6, <1>7, GoToKeepsIInv

LEMMA DeleteOldFailsKeepsIInv ==
  ASSUME AiIInv, DeleteOldFails
  PROVE  AiIInv' /\ Restored
<1>1. ~Idle /\ task.step = "deleteOld"
  BY DEF DeleteOldFails, Idle
<1>2. vault = Written /\ Deletes /\ vault' = vault
  BY <1>1, CommitFacts DEF DeleteOldFails, VaultFits
<1>3. /\ UNCHANGED <<unchangedByCalls, file, spoiled>> /\ faults' \in 0 .. FaultBound
      /\ vault' \in [Targets -> Stored] /\ spoiled \in BOOLEAN
  BY <1>1, <1>2, CallFailsWithin, CommitFacts DEF DeleteOldFails, AiIInv, Types
<1>4. CASE Writes
  <2>1. GoTo("takeBackNew") /\ "takeBackNew" \in Steps \ {"idle"}
    BY <1>4 DEF DeleteOldFails, Steps
  <2>2. /\ task.secret # None \/ task.old # task.new
        /\ task.old # None => \/ task.secret = None /\ task.old = task.new
                              \/ task.oldSecret = task.before[task.old]
    BY <1>1, CommitFacts DEF VaultFits
  <2>3. VaultFits'
    <3>1. /\ task'.step = "takeBackNew" /\ task'.old = task.old /\ task'.new = task.new
          /\ task'.secret = task.secret /\ task'.oldSecret = task.oldSecret
          /\ task'.before = task.before /\ Writes' = Writes /\ Deletes' = Deletes
          /\ MovesKey' = MovesKey /\ Written' = Written /\ Changed' = Changed
      BY <1>1, <2>1, GoToKeepsTask
    <3> QED  BY <1>2, <1>4, <2>2, <3>1 DEF VaultFits
  <2> QED  BY <1>1, <1>3, <2>1, <2>3, GoToKeepsIInv
<1>5. CASE ~Writes
  <2>1. EndCommit /\ vault' = task.before
    BY <1>2, <1>5 DEF DeleteOldFails, Written
  <2> QED  BY <1>1, <1>3, <2>1, EndKeepsIInv
<1> QED  BY <1>4, <1>5

LEMMA TakeBackNewKeepsIInv ==
  ASSUME AiIInv, TakeBackNew
  PROVE  AiIInv' /\ Restored
<1>1. ~Idle /\ task.step = "takeBackNew"
  BY DEF TakeBackNew, Idle
<1>2. /\ vault = Written /\ Deletes /\ Writes /\ vault' = [vault EXCEPT ![task.new] = None]
  BY <1>1, CommitFacts DEF TakeBackNew, VaultFits
<1>3. MovesKey
  BY <1>2 DEF MovesKey, Deletes, Writes
<1>4. task.new \in Targets /\ vault \in [Targets -> Stored] /\ task.before \in [Targets -> Stored]
  BY <1>1, <1>2, CommitFacts DEF Writes
<1>5. vault' \in [Targets -> Stored]
  BY <1>2, <1>4 DEF Stored
<1>6. ~spoiled => vault' = task.before
  BY <1>1, <1>2, <1>3, <1>4, NewPlaceWasEmpty DEF Written
<1>7. /\ EndCommit /\ UNCHANGED <<unchangedByCalls, file, spoiled>> /\ faults' \in 0 .. FaultBound
      /\ spoiled \in BOOLEAN
  BY DEF TakeBackNew, AiIInv, Types
<1> QED  BY <1>1, <1>5, <1>6, <1>7, EndKeepsIInv

\* A rollback that fails leaves the commit half done.
LEMMA FailedRollbackKeepsIInv ==
  ASSUME AiIInv, TakeBackNewFails \/ RollbackFails
  PROVE  AiIInv' /\ Restored
<1>1. ~Idle /\ EndCommit /\ UNCHANGED <<unchangedByCalls, file, vault>> /\ spoiled' = TRUE
  BY DEF TakeBackNewFails, RollbackFails, Idle
<1>2. faults' \in 0 .. FaultBound
  BY CallFailsWithin DEF TakeBackNewFails, RollbackFails
<1>3. vault' \in [Targets -> Stored]
  BY <1>1, CommitFacts
<1> QED  BY <1>1, <1>2, <1>3, EndKeepsIInv

LEMMA SaveFailsKeepsIInv ==
  ASSUME AiIInv, SaveFails
  PROVE  AiIInv' /\ Restored
<1>1. ~Idle /\ task.step = "save"
  BY DEF SaveFails, Idle
<1>2. vault = Changed /\ vault' = vault /\ vault' \in [Targets -> Stored]
  BY <1>1, CommitFacts DEF SaveFails, VaultFits
<1>3. /\ UNCHANGED <<unchangedByCalls, file, spoiled>> /\ faults' \in 0 .. FaultBound
      /\ spoiled \in BOOLEAN
  BY CallFailsWithin DEF SaveFails, AiIInv, Types
<1>4. task.old # None => \/ task.secret = None /\ task.old = task.new
                         \/ task.oldSecret = task.before[task.old]
  BY <1>1, CommitFacts DEF VaultFits
<1>5. CASE task.secret = None /\ task.old = task.new
  <2>1. EndCommit /\ ~Writes /\ ~Deletes
    BY <1>5 DEF SaveFails, Writes, Deletes
  <2>2. vault' = task.before
    BY <1>2, <2>1 DEF Written, Changed
  <2> QED  BY <1>1, <1>2, <1>3, <2>1, <2>2, EndKeepsIInv
<1>6. CASE ~(task.secret = None /\ task.old = task.new) /\ MovesKey
  <2>1. GoTo("rollbackNew") /\ "rollbackNew" \in Steps \ {"idle"}
    BY <1>6 DEF SaveFails, MovesKey, Steps
  <2>2. VaultFits'
    <3>1. /\ task'.step = "rollbackNew" /\ task'.old = task.old /\ task'.new = task.new
          /\ task'.secret = task.secret /\ task'.oldSecret = task.oldSecret
          /\ task'.before = task.before /\ Writes' = Writes /\ Deletes' = Deletes
          /\ MovesKey' = MovesKey /\ Written' = Written /\ Changed' = Changed
      BY <1>1, <2>1, GoToKeepsTask
    <3> QED  BY <1>2, <1>4, <1>6, <3>1 DEF VaultFits
  <2> QED  BY <1>1, <1>2, <1>3, <2>1, <2>2, GoToKeepsIInv
<1>7. CASE ~(task.secret = None /\ task.old = task.new) /\ ~MovesKey /\ task.old # None
  <2>1. GoTo("rollbackOld") /\ "rollbackOld" \in Steps \ {"idle"}
    BY <1>7 DEF SaveFails, MovesKey, Steps
  <2>2. VaultFits'
    BY <1>2, <1>4, <1>7, <2>1, <1>1, GoToKeepsTask DEF VaultFits
  <2> QED  BY <1>1, <1>2, <1>3, <2>1, <2>2, GoToKeepsIInv
<1>8. CASE ~(task.secret = None /\ task.old = task.new) /\ ~MovesKey /\ task.old = None
  <2>1. EndCommit /\ ~Writes /\ ~Deletes
    BY <1>8 DEF SaveFails, MovesKey, Writes, Deletes
  <2>2. vault' = task.before
    BY <1>2, <2>1 DEF Written, Changed
  <2> QED  BY <1>1, <1>2, <1>3, <2>1, <2>2, EndKeepsIInv
<1> QED  BY <1>5, <1>6, <1>7, <1>8

LEMMA RollbackNewKeepsIInv ==
  ASSUME AiIInv, RollbackNew
  PROVE  AiIInv' /\ Restored
<1>1. ~Idle /\ task.step = "rollbackNew"
  BY DEF RollbackNew, Idle
<1>2. /\ vault = Changed /\ MovesKey /\ vault' = [vault EXCEPT ![task.new] = None]
  BY <1>1, CommitFacts DEF RollbackNew, VaultFits
<1>3. task.new \in Targets /\ vault \in [Targets -> Stored] /\ task.before \in [Targets -> Stored]
  BY <1>1, <1>2, CommitFacts DEF MovesKey
<1>4. vault' \in [Targets -> Stored]
  BY <1>2, <1>3 DEF Stored
<1>5. /\ UNCHANGED <<unchangedByCalls, file, spoiled>> /\ faults' \in 0 .. FaultBound
      /\ spoiled \in BOOLEAN
  BY DEF RollbackNew, AiIInv, Types
<1>6. CASE task.old # None
  <2>1. GoTo("rollbackOld") /\ "rollbackOld" \in Steps \ {"idle"}
    BY <1>6 DEF RollbackNew, Steps
  <2>2. /\ task.secret # None \/ task.old # task.new
        /\ task.old # None => \/ task.secret = None /\ task.old = task.new
                              \/ task.oldSecret = task.before[task.old]
    BY <1>1, CommitFacts DEF VaultFits
  <2>3. VaultFits'
    <3>1. /\ task'.step = "rollbackOld" /\ task'.old = task.old /\ task'.new = task.new
          /\ task'.secret = task.secret /\ task'.oldSecret = task.oldSecret
          /\ task'.before = task.before /\ Writes' = Writes /\ Deletes' = Deletes
          /\ MovesKey' = MovesKey /\ Written' = Written /\ Changed' = Changed
      BY <1>1, <2>1, GoToKeepsTask
    <3> QED  BY <1>2, <1>6, <2>2, <3>1 DEF VaultFits
  <2> QED  BY <1>1, <1>4, <1>5, <2>1, <2>3, GoToKeepsIInv
<1>7. CASE task.old = None
  <2>1. EndCommit /\ ~Deletes
    BY <1>7 DEF RollbackNew, Deletes
  <2>2. ~spoiled => vault' = task.before
    BY <1>1, <1>2, <1>3, <2>1, NewPlaceWasEmpty DEF Written, Changed
  <2> QED  BY <1>1, <1>4, <1>5, <2>1, <2>2, EndKeepsIInv
<1> QED  BY <1>6, <1>7

LEMMA RollbackOldKeepsIInv ==
  ASSUME AiIInv, RollbackOld
  PROVE  AiIInv' /\ Restored
<1>1. ~Idle /\ task.step = "rollbackOld"
  BY DEF RollbackOld, Idle
<1>2. /\ task.old # None /\ vault' = [vault EXCEPT ![task.old] = task.oldSecret]
      /\ vault = IF MovesKey THEN [Changed EXCEPT ![task.new] = None] ELSE Changed
      /\ task.oldSecret = task.before[task.old]
  BY <1>1, CommitFacts DEF RollbackOld, VaultFits
<1>3. /\ task.old \in Targets /\ task.new \in Targets \cup {None} /\ task.oldSecret \in Stored
      /\ vault \in [Targets -> Stored] /\ task.before \in [Targets -> Stored]
  BY <1>1, <1>2, CommitFacts
<1>4. vault' \in [Targets -> Stored]
  BY <1>2, <1>3
<1>5. ~spoiled => vault' = task.before
  <2>1. SUFFICES ASSUME ~spoiled, NEW t \in Targets PROVE vault'[t] = task.before[t]
    BY <1>3, <1>4
  <2>2. /\ Written \in [Targets -> Stored] /\ Changed \in [Targets -> Stored]
        /\ MovesKey => task.before[task.new] = None
    BY <1>1, <2>1, ChangedFits, NewPlaceWasEmpty
  <2>3. CASE t = task.old
    BY <1>2, <1>3, <2>3
  <2>4. CASE t # task.old /\ t = task.new
    <3>1. MovesKey
      BY <1>2, <1>3, <2>4, <1>1, CommitFacts DEF MovesKey
    <3> QED  BY <1>2, <1>3, <2>2, <2>4, <3>1
  <2>5. CASE t # task.old /\ t # task.new
    <3>1. Written[t] = task.before[t]
      BY <1>3, <2>5 DEF Written
    <3>2. Changed[t] = task.before[t]
      BY <2>2, <2>5, <3>1 DEF Changed
    <3> QED  BY <1>2, <1>3, <2>2, <2>5, <3>2
  <2> QED  BY <2>3, <2>4, <2>5
<1>6. /\ EndCommit /\ UNCHANGED <<unchangedByCalls, file, spoiled>> /\ faults' \in 0 .. FaultBound
      /\ spoiled \in BOOLEAN
  BY DEF RollbackOld, AiIInv, Types
<1> QED  BY <1>1, <1>4, <1>5, <1>6, EndKeepsIInv

\* What is saved is what the vault then holds the keys of.
LEMMA SaveSucceedsKeepsIInv ==
  ASSUME AiIInv, SaveSucceeds
  PROVE  AiIInv'
<1>1. ~Idle /\ task.step = "save"
  BY DEF SaveSucceeds, Idle
<1>2. vault = Changed /\ vault' = vault
  BY <1>1, CommitFacts DEF SaveSucceeds, VaultFits
<1>3. /\ task.next \in Configs /\ SeparateKeys(task.next) /\ SelectsOne(task.next)
      /\ vault \in [Targets -> Stored]
  BY <1>1, CommitFacts DEF CommitFits
<1>4. PICK installed \in BOOLEAN : runtime' = BuildRuntime(task.next, vault, installed)
  BY DEF SaveSucceeds
<1>5. memory' = task.next /\ file' = task.next
  BY DEF SaveSucceeds
<1>6. runtime' \in Runtimes /\ RuntimeFits' /\ UsedFrom(vault)'
  <2> DEFINE built == BuildRuntime(task.next, vault, installed)
  <2>1. built \in Runtimes /\ Shows(built, task.next, vault)
    BY <1>3, BuildRuntimeFits
  <2> HIDE DEF built
  <2>2. runtime' = built
    BY <1>4 DEF built
  <2> QED
    BY <1>2, <1>3, <1>5, <2>1, <2>2
       DEF Shows, RuntimeFits, SelectionIsShown, SelectsOne, UsedFrom, IdsOf, Position
<1>7. editor' \in Editors /\ editor'.index <= Len(memory'.profiles)
  <2>1. /\ Len(task.next.profiles) \in Nat /\ Len(memory.profiles) \in Nat
        /\ editor \in Editors /\ editor.index <= Len(memory.profiles)
    BY <1>3, ProfilesOf DEF AiIInv, Types, ConfigsFit
  <2>2. task.deletes = (Len(task.next.profiles) < Len(memory.profiles))
    BY <1>1, CommitFacts DEF CommitFits
  <2>3. /\ editor' \in Editors
        /\ editor'.index = IF task.deletes THEN 0 ELSE editor.index
    BY <2>1 DEF SaveSucceeds, Editors
  <2>4. editor.index \in Nat
    BY <2>1 DEF Editors
  <2>5. memory'.profiles = task.next.profiles
    BY <1>5
  <2>6. editor'.index <= Len(task.next.profiles)
    <3>1. CASE task.deletes
      BY <2>1, <2>3, <3>1
    <3>2. CASE ~task.deletes
      <4>1. ~(Len(task.next.profiles) < Len(memory.profiles)) /\ editor'.index = editor.index
        BY <2>2, <2>3, <3>2
      <4>2. \A a, b, c \in Nat : ~(a < b) /\ c <= b => c <= a
        OBVIOUS
      <4> QED  BY <2>1, <2>4, <4>1, <4>2
    <3> QED  BY <3>1, <3>2
  <2> QED  BY <2>3, <2>5, <2>6
<1>8. task' \in Tasks /\ Idle' /\ task' = NoTask
  <2>1. [profiles |-> <<>>, selected |-> None] \in Configs
    BY EmptySeq DEF Configs
  <2> QED  BY <2>1 DEF SaveSucceeds, EndCommit, NoTask, Idle, Tasks, Steps, Stored
<1>9. Types'
  BY <1>2, <1>3, <1>5, <1>6, <1>7, <1>8 DEF AiIInv, Types, SaveSucceeds
<1>10. ConfigsFit'
  BY <1>3, <1>5, <1>7 DEF ConfigsFit, SelectsOne, SeparateKeys, IdsOf
<1>11. ~spoiled => NoOrphanIn(vault)'
  <2>1. SUFFICES ASSUME ~spoiled, NEW t \in Targets, Changed[t] # None
                 PROVE \E i \in DOMAIN task.next.profiles : task.next.profiles[i].target = t
    BY <1>2, <1>5 DEF NoOrphanIn
  <2>2. /\ task.before \in [Targets -> Stored] /\ Written \in [Targets -> Stored] /\ t # None
        /\ CommitFits /\ NoOrphanIn(task.before)
    BY <1>1, <2>1, CommitFacts, ChangedFits DEF AiIInv, Kept
  <2>3. Written[t] # None /\ (Deletes => t # task.old)
    BY <2>1, <2>2 DEF Changed
  <2>4. CASE t = task.new
    BY <2>2, <2>4 DEF CommitFits, Owned
  <2>5. CASE t # task.new
    <3>1. task.before[t] # None
      BY <2>2, <2>3, <2>5 DEF Written
    <3>2. PICK i \in DOMAIN memory.profiles : memory.profiles[i].target = t
      BY <2>2, <3>1 DEF NoOrphanIn
    <3>3. t # task.old
      BY <2>2, <2>3, <2>5 DEF Deletes
    <3>4. memory.profiles[i].id # task.id
      BY <1>1, <2>2, <3>2, <3>3, OtherTargets
    <3> QED  BY <2>2, <3>2, <3>4 DEF CommitFits, Owned
  <2> QED  BY <2>4, <2>5
<1>12. spoiled' = spoiled
  BY DEF SaveSucceeds
<1> QED
  BY <1>2, <1>6, <1>8, <1>9, <1>10, <1>11, <1>12 DEF AiIInv, Kept, NoOrphanIn, UsedFrom

\* Every call but the one that saves.
LEMMA CallKeepsIInv ==
  ASSUME AiIInv, CommitStep, ~SaveSucceeds
  PROVE  AiIInv' /\ Restored
BY ReadOldKeepsIInv, FailedReadOrWriteKeepsIInv, WriteNewKeepsIInv, DeleteOldKeepsIInv,
   DeleteOldFailsKeepsIInv, TakeBackNewKeepsIInv, FailedRollbackKeepsIInv, SaveFailsKeepsIInv,
   RollbackNewKeepsIInv, RollbackOldKeepsIInv DEF CommitStep

LEMMA NextKeepsIInv == AiIInv /\ [Next]_vars => AiIInv'
<1> SUFFICES ASSUME AiIInv, [Next]_vars PROVE AiIInv'
  OBVIOUS
<1>1. CASE UserStep
  BY <1>1, EditorKeepsIInv, SelectProfileKeepsIInv, ConfirmDeleteKeepsIInv,
     SaveExistingKeepsIInv, SaveNewKeepsIInv DEF UserStep
<1>2. CASE CommitStep
  BY <1>2, CallKeepsIInv, SaveSucceedsKeepsIInv
<1>3. CASE DelayedSave
  BY <1>3, DelayedSaveKeepsIInv
<1>4. CASE AnswerBegins \/ AnswerEnds
  BY <1>4, EditorKeepsIInv
<1>5. CASE Restart
  BY <1>5, RestartKeepsIInv
<1>6. CASE UNCHANGED vars
  BY <1>6, UntouchedKeepsIInv DEF vars, AiIInv, Types, ConfigsFit
<1> QED  BY <1>1, <1>2, <1>3, <1>4, <1>5, <1>6 DEF Next

-----------------------------------------------------------------------------
(* The results.                                                            *)

LEMMA NoTaskIsConfig == IsConfig(NoTask.next)
<1> DEFINE config == [profiles |-> <<>>, selected |-> None]
<1>1. IdsOf(config) = {} /\ Len(config.profiles) = 0
  BY EmptySeq DEF IdsOf
<1>2. Cardinality({}) = 0
  BY FS_EmptySet
<1>3. config.profiles = <<>> /\ config.selected = None
  OBVIOUS
<1>4. DOMAIN config.profiles = {}
  BY <1>3
<1>5. 0 <= MaxProfiles
  BY AiAssumption
<1> HIDE DEF config
<1>6. IsConfig(config)
  BY <1>1, <1>2, <1>3, <1>4, <1>5 DEF IsConfig
<1> QED  BY <1>6 DEF config, NoTask

LEMMA IInvImpliesStoresAgree == AiIInv => StoresAgree
<1> SUFFICES ASSUME AiIInv PROVE StoresAgree
  OBVIOUS
<1> USE DEF AiIInv
<1>1. IsConfig(memory) /\ IsConfig(file)
  BY SelectionKeepsSeparate, SeparateIsConfig DEF Types, ConfigsFit
<1>2. IsConfig(task.next)
  <2>1. CASE Idle
    BY <2>1, NoTaskIsConfig
  <2>2. CASE ~Idle
    BY <2>2, CommitFacts, SeparateIsConfig DEF CommitFits
  <2> QED  BY <2>1, <2>2
<1>3. TypeOK
  <2>1. Len(memory.profiles) \in Nat
    BY ProfilesOf DEF Types
  <2>2. editor.index \in 0 .. Len(memory.profiles) /\ editor.confirm \in Ids \cup {None}
    BY <2>1 DEF Types, ConfigsFit, Editors
  <2>3. {editor.open, busy, spoiled} \subseteq BOOLEAN
    BY DEF Types, Editors
  <2>4. /\ task.step \in Steps /\ {task.old, task.new} \subseteq Targets \cup {None}
        /\ {task.secret, task.oldSecret} \subseteq Secrets \cup {None}
    BY DEF Types, Tasks, Stored
  <2> QED  BY <1>1, <1>2, <2>2, <2>3, <2>4 DEF TypeOK, Types, Stored, RuntimeFits
<1>4. NoOrphanSecrets /\ ConnectorsUseStoredSecrets
  BY DEF NoOrphanSecrets, ConnectorsUseStoredSecrets, Kept, NoOrphanIn, UsedFrom, RuntimeFits
<1> QED  BY <1>3, <1>4 DEF StoresAgree, RuntimeFits

LEMMA AiInvariance ==
  ASSUME KeysAreSeparate
  PROVE  Spec => []AiIInv
<1>1. Init => AiIInv
  BY InitEstablishesIInv
<1> QED  BY <1>1, NextKeepsIInv, PTL DEF Spec

\* Between commits the configuration, the credential store and the runtime agree:
\* no key without its profile, every connector with the key that is stored, and
\* the selected profile is the one that is shown.
THEOREM StoresAlwaysAgree ==
  ASSUME KeysAreSeparate
  PROVE  Spec => []StoresAgree
BY AiInvariance, IInvImpliesStoresAgree, PTL

\* A commit whose call fails, at whatever point, leaves the keys of the profiles
\* as they were, unless the rollback itself fails (commit_with_credentials).
THEOREM FailedCommitsRestore ==
  ASSUME KeysAreSeparate
  PROVE  Spec => FailureRestores
<1>1. ASSUME AiIInv, [Next]_vars, ~Idle, Idle', ~SaveSucceeds, ~spoiled',
             NEW i \in DOMAIN memory.profiles, memory.profiles[i].target # None
      PROVE  vault'[memory.profiles[i].target] = task.before[memory.profiles[i].target]
  <2>1. CommitStep
    <3>1. ~UserStep
      BY <1>1 DEF UserStep, CloseManager, NewModel, CancelEdit, CancelDelete, ConfirmDelete,
                  EditModel, RequestDelete, SelectProfile, SaveExisting, SaveNew, ListUsable
    <3>2. ~DelayedSave /\ ~AnswerBegins /\ ~AnswerEnds /\ ~Restart /\ ~UNCHANGED vars
      BY <1>1 DEF DelayedSave, AnswerBegins, AnswerEnds, storeVars, Restart, vars, Idle
    <3> QED  BY <1>1, <3>1, <3>2 DEF Next
  <2> QED  BY <1>1, <2>1, CallKeepsIInv DEF Restored
<1>2. AiIInv /\ [Next]_vars =>
        [~Idle /\ Idle' /\ ~SaveSucceeds /\ ~spoiled' =>
           \A i \in DOMAIN memory.profiles :
             LET t == memory.profiles[i].target IN t # None => vault'[t] = task.before[t]]_vars
  BY <1>1
<1> QED  BY <1>2, AiInvariance, PTL DEF Spec, FailureRestores

\* A save that is acknowledged is stored, and the key that was entered is where
\* the profile looks for it.
THEOREM AcknowledgedSavesAreStored ==
  ASSUME KeysAreSeparate
  PROVE  Spec => AcknowledgedIsStored
<1>1. ASSUME AiIInv, SaveSucceeds, task.secret # None
      PROVE  \E i \in DOMAIN memory'.profiles :
               /\ memory'.profiles[i].id = task.id
               /\ vault'[memory'.profiles[i].target] = task.secret
  <2>1. ~Idle /\ task.step = "save"
    BY <1>1 DEF SaveSucceeds, Idle
  <2>2. /\ CommitFits /\ vault' = Changed /\ memory' = task.next
        /\ task.before \in [Targets -> Stored] /\ Written \in [Targets -> Stored]
    BY <1>1, <2>1, CommitFacts, ChangedFits DEF SaveSucceeds, VaultFits
  <2>3. task.new \in Targets /\ task.new # None
    BY <1>1, <2>1, <2>2, CommitFacts DEF CommitFits, OwnTarget, Targets
  <2>4. Written[task.new] = task.secret
    BY <1>1, <2>2, <2>3 DEF Written, Writes
  <2>5. Changed[task.new] = task.secret
    BY <2>2, <2>3, <2>4 DEF Changed, Deletes
  <2> QED  BY <2>2, <2>3, <2>5 DEF CommitFits, Owned
<1>2. ASSUME SaveSucceeds PROVE file' = memory'
  BY <1>2 DEF SaveSucceeds
<1>3. AiIInv /\ [Next]_vars =>
        [SaveSucceeds =>
          /\ file' = memory'
          /\ task.secret # None =>
               \E i \in DOMAIN memory'.profiles :
                 /\ memory'.profiles[i].id = task.id
                 /\ vault'[memory'.profiles[i].target] = task.secret]_vars
  BY <1>1, <1>2
<1> QED  BY <1>3, AiInvariance, PTL DEF Spec, AcknowledgedIsStored

\* No step of a commit, of its rollback or of a restart touches the key of
\* another profile.
THEOREM OtherProfilesKeepTheirSecrets ==
  ASSUME KeysAreSeparate
  PROVE  Spec => OthersKeepTheirSecrets
<1>1. ASSUME AiIInv, [Next]_vars, NEW i \in DOMAIN memory.profiles,
             memory.profiles[i].id # task.id, memory.profiles[i].target # None
      PROVE  vault'[memory.profiles[i].target] = vault[memory.profiles[i].target]
  <2> DEFINE t == memory.profiles[i].target
  <2>1. vault' = vault \/ WriteNew \/ DeleteOld \/ TakeBackNew \/ RollbackNew \/ RollbackOld
    BY <1>1 DEF Next, UserStep, CloseManager, NewModel, CancelEdit, CancelDelete, ConfirmDelete,
                EditModel, RequestDelete, SelectProfile, SaveExisting, SaveNew, storeVars,
                CommitStep, ReadOld, ReadOldFails, WriteNewFails, DeleteOldFails, TakeBackNewFails,
                SaveSucceeds, SaveFails, RollbackFails, DelayedSave, AnswerBegins, AnswerEnds,
                Restart, vars
  <2>2. CASE WriteNew \/ DeleteOld \/ TakeBackNew \/ RollbackNew \/ RollbackOld
    <3>1. ~Idle
      BY <2>2 DEF WriteNew, DeleteOld, TakeBackNew, RollbackNew, RollbackOld, Idle
    <3>2. t \notin {task.old, task.new} /\ vault \in [Targets -> Stored]
      BY <1>1, <3>1, OtherTargets, CommitFacts
    <3>3. \E u \in {task.old, task.new} : \E secret : vault' = [vault EXCEPT ![u] = secret]
      BY <2>2 DEF WriteNew, DeleteOld, TakeBackNew, RollbackNew, RollbackOld
    <3> QED  BY <3>2, <3>3
  <2> QED  BY <2>1, <2>2
<1>2. AiIInv /\ [Next]_vars =>
        [\A i \in DOMAIN memory.profiles :
           LET q == memory.profiles[i]
           IN  q.id # task.id /\ q.target # None => vault'[q.target] = vault[q.target]]_vars
  BY <1>1
<1> QED  BY <1>2, AiInvariance, PTL DEF Spec, OthersKeepTheirSecrets
====

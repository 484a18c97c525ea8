---------------------------- MODULE ProcessesProofs ----------------------------
(***************************************************************************)
(* Proofs about the processes of the program, for every number of them and *)
(* every set of changes: the mutex makes at most one of them the primary   *)
(* instance, and no step takes a saved setting out of the file again.      *)
(***************************************************************************)
EXTENDS MCProcesses, FiniteSetTheorems, SequenceTheorems, TLAPS

-----------------------------------------------------------------------------
(* The single instance.                                                    *)

\* A launch holds the event from its first call, and a process that is primary
\* or runs the event loop holds the mutex: it closes it only when its listener
\* has found the message that the event loop has ended.
LaunchesFit ==
  \A p \in Launched :
    /\ place[p] \in {"off", "event", "primary", "secondary", "notified"}
         => listener[p] = "none"
    /\ place[p] \in {"event", "primary", "secondary", "notified"} => p \in eventHandles
    /\ place[p] = "primary" => p \in mutexHandles
    /\ place[p] = "running" => listener[p] \in {"waiting", "woken"}
    /\ place[p] \in {"off", "event", "primary", "secondary", "notified", "running", "quit"}
         => ~stopSent[p]

OneHost == \A p, q \in Instances!Hosts : p = q

InstancesIInv == Instances!TypeOK /\ LaunchesFit /\ OneHost

LEMMA InstancesInitEstablishesIInv == Instances!Init => InstancesIInv
BY DEF Instances!Init, InstancesIInv, Instances!TypeOK, LaunchesFit, OneHost, Instances!Hosts

\* A host holds the mutex.
LEMMA HostHoldsMutex == InstancesIInv => Instances!Hosts \subseteq mutexHandles
BY DEF InstancesIInv, Instances!TypeOK, LaunchesFit, Instances!Hosts

LEMMA InstancesNextKeepsIInv ==
  InstancesIInv /\ [Instances!Next]_instancesVars => InstancesIInv'
<1> SUFFICES ASSUME InstancesIInv, [Instances!Next]_instancesVars PROVE InstancesIInv'
  OBVIOUS
<1> USE DEF InstancesIInv, Instances!TypeOK, LaunchesFit, OneHost, Instances!Hosts
<1>1. ASSUME NEW p \in Launched, Instances!Launch(p) PROVE InstancesIInv'
  BY <1>1 DEF Instances!Launch
<1>2. ASSUME NEW p \in Launched, Instances!CreateMutex(p) PROVE InstancesIInv'
  BY <1>2, HostHoldsMutex DEF Instances!CreateMutex
<1>3. ASSUME NEW p \in Launched, Instances!Notify(p) PROVE InstancesIInv'
  BY <1>3 DEF Instances!Notify
<1>4. ASSUME NEW p \in Launched, Instances!Leave(p) PROVE InstancesIInv'
  BY <1>4 DEF Instances!Leave, Instances!CloseEvent, Instances!CloseMutex
<1>5. ASSUME NEW p \in Launched, Instances!StartFails(p) PROVE InstancesIInv'
  BY <1>5 DEF Instances!StartFails, Instances!CloseEvent, Instances!CloseMutex
<1>6. ASSUME NEW p \in Launched, Instances!StartListener(p) PROVE InstancesIInv'
  BY <1>6 DEF Instances!StartListener, Instances!kernel
<1>7. ASSUME NEW p \in Launched, Instances!WaitReturns(p) PROVE InstancesIInv'
  BY <1>7 DEF Instances!WaitReturns
<1>8. ASSUME NEW p \in Launched, Instances!OnWake(p) PROVE InstancesIInv'
  BY <1>8 DEF Instances!OnWake, Instances!kernel
<1>9. ASSUME NEW p \in Launched, Instances!Break(p) PROVE InstancesIInv'
  BY <1>9 DEF Instances!Break, Instances!CloseMutex
<1>10. ASSUME NEW p \in Launched, Instances!ListenerEnds(p) PROVE InstancesIInv'
  BY <1>10 DEF Instances!ListenerEnds, Instances!CloseEvent
<1>11. ASSUME NEW p \in Launched, Instances!Restore(p) PROVE InstancesIInv'
  BY <1>11 DEF Instances!Restore, Instances!kernel, Instances!threads
<1>12. ASSUME NEW p \in Launched, Instances!Quit(p) PROVE InstancesIInv'
  BY <1>12 DEF Instances!Quit, Instances!kernel
<1>13. ASSUME NEW p \in Launched, Instances!Drop(p) PROVE InstancesIInv'
  <2>1. CASE Instances!SendStop(p)
    BY <2>1 DEF Instances!SendStop, Instances!kernel
  <2>2. CASE Instances!SetStop(p)
    BY <2>2 DEF Instances!SetStop
  <2> QED  BY <1>13, <2>1, <2>2 DEF Instances!Drop
<1>14. ASSUME NEW p \in Launched, Instances!Join(p) PROVE InstancesIInv'
  BY <1>14 DEF Instances!Join, Instances!kernel
<1>15. ASSUME NEW p \in Launched, Instances!Crash(p) PROVE InstancesIInv'
  BY <1>15 DEF Instances!Crash, Instances!CloseEvent, Instances!CloseMutex
<1>16. CASE UNCHANGED instancesVars
  BY <1>16 DEF instancesVars
<1> QED
  BY <1>1, <1>2, <1>3, <1>4, <1>5, <1>6, <1>7, <1>8, <1>9, <1>10, <1>11, <1>12, <1>13,
     <1>14, <1>15, <1>16
     DEF Instances!Next, Instances!Step, Instances!Listen

LEMMA IInvImpliesOnePrimary == InstancesIInv => OnePrimary
<1> SUFFICES ASSUME InstancesIInv PROVE OnePrimary
  OBVIOUS
<1> DEFINE H == Instances!Hosts
<1>1. H = {} \/ \E h : H = {h}
  BY DEF InstancesIInv, OneHost
<1>2. Cardinality(H) <= 1
  BY <1>1, FS_EmptySet, FS_Singleton
<1>3. Instances!OnePrimary
  BY <1>2 DEF Instances!OnePrimary, Instances!Cardinality, Cardinality
<1> QED  BY <1>3 DEF InstancesIInv, OnePrimary

\* However many launches, shutdowns and crashes there are and however they
\* interleave, at most one process is the primary instance.
THEOREM LaunchesHaveOnePrimary == Instances!Spec => []OnePrimary
<1>1. InstancesIInv /\ [Instances!Next]_(Instances!vars) => InstancesIInv'
  BY InstancesNextKeepsIInv
     DEF Instances!vars, Instances!threads, Instances!kernel, instancesVars
<1> QED
  BY <1>1, InstancesInitEstablishesIInv, IInvImpliesOnePrimary, PTL
     DEF Instances!Spec

\* The same for processes that also load and save settings.
THEOREM ProcessesHaveOnePrimary == ProcessesSpec => []OnePrimary
<1>1. ProcessesInit => InstancesIInv
  BY InstancesInitEstablishesIInv DEF ProcessesInit
<1>2. InstancesIInv /\ [ProcessesNext]_processesVars => InstancesIInv'
  BY InstancesNextKeepsIInv DEF ProcessesNext, processesVars
<1> QED  BY <1>1, <1>2, IInvImpliesOnePrimary, PTL DEF ProcessesSpec

-----------------------------------------------------------------------------
(* The steps of a process, without asking which faults its disk has.       *)

LoadFailure(p) ==
  /\ stage[p] = "loading"
  /\ memory' = [memory EXCEPT ![p] = {}]
  /\ MoveTo(p, "loaded")
  /\ UNCHANGED <<owner, queue, job, temp, file, backup, made, acknowledged, gaveUp>>

SaveFailure(p) == job[p].then \in Saving /\ UNCHANGED file /\ SaveEnds(p, FALSE)

Kill(p) ==
  /\ stage[p] # "off"
  /\ owner' = IF owner = p THEN None ELSE owner
  /\ MoveTo(p, "off")
  /\ queue' = [queue EXCEPT ![p] = <<>>]
  /\ job' = [job EXCEPT ![p] = NoThread]
  /\ temp' = [temp EXCEPT ![p] = Missing]
  /\ UNCHANGED <<memory, file, backup, made, acknowledged, gaveUp>>

\* The steps that no fault has a part in.
FaultlessStep(p) ==
  \/ MigrateLegacyConfig(p) \/ LoadConfig(p) \/ InitializeManagedModels(p)
  \/ StopWorker(p) \/ JoinWorker(p)
  \/ TakeSave(p) \/ TakeImmediateSave(p) \/ TakeStop(p) \/ SaveDelayEnds(p)
  \/ WriteTemporaryFile(p) \/ SyncTemporaryFile(p) \/ ReplaceFile(p)
  \/ UserStep(p)

\* What can happen on a disk that can be read, and on one that can be written.
ReadableStep(p) == FaultlessStep(p) \/ SaveFailure(p) \/ Kill(p)
WritableStep(p) == FaultlessStep(p) \/ LoadFailure(p) \/ Kill(p)

LEMMA NextIsAStep ==
  ASSUME NEW p \in Process, MainStep(p) \/ WorkerStep(p) \/ UserStep(p) \/ Crash(p)
  PROVE  ReadableStep(p) \/ LoadFailure(p)
BY DEF ReadableStep, FaultlessStep, MainStep, WorkerStep, LoadFails, SaveFails, Crash,
       LoadFailure, SaveFailure, Kill

\* A disk without these faults can be read.
LEMMA NextIsReadableStep ==
  Next /\ Faults \cap {"load", "backup"} = {} => \E p \in Process : ReadableStep(p)
BY DEF Next, ReadableStep, FaultlessStep, MainStep, WorkerStep, LoadFails, SaveFails, Crash,
       SaveFailure, Kill

LEMMA NextIsWritableStep ==
  Next /\ "save" \notin Faults => \E p \in Process : WritableStep(p)
BY DEF Next, WritableStep, FaultlessStep, MainStep, WorkerStep, LoadFails, SaveFails, Crash,
       LoadFailure, Kill

\* The other disk: its steps are the same but for its faults.
LEMMA UnreadableIsWritableStep ==
  Unreadable!Next /\ "save" \notin UnreadableFaults => \E p \in Process : WritableStep(p)
<1> SUFFICES ASSUME "save" \notin UnreadableFaults, NEW p \in Process,
                    \/ Unreadable!MainStep(p) \/ Unreadable!WorkerStep(p)
                    \/ Unreadable!UserStep(p) \/ Unreadable!Crash(p)
             PROVE  WritableStep(p)
  BY DEF Unreadable!Next
<1>1. ASSUME Unreadable!MainStep(p) PROVE WritableStep(p)
  <2>1. Unreadable!MigrateLegacyConfig(p) => MigrateLegacyConfig(p)
    BY DEF Unreadable!MigrateLegacyConfig, Unreadable!MoveTo, MigrateLegacyConfig, MoveTo
  <2>2. Unreadable!LoadConfig(p) => LoadConfig(p)
    BY DEF Unreadable!LoadConfig, Unreadable!MoveTo, Unreadable!Parses,
           LoadConfig, MoveTo, Parses
  <2>3. Unreadable!LoadFails(p) => LoadFailure(p)
    BY DEF Unreadable!LoadFails, Unreadable!MoveTo, LoadFailure, MoveTo
  <2>4. Unreadable!InitializeManagedModels(p) => InitializeManagedModels(p)
    BY DEF Unreadable!InitializeManagedModels, Unreadable!MoveTo, Unreadable!Job,
           Unreadable!Idle, InitializeManagedModels, MoveTo, Job, Idle
  <2>5. /\ Unreadable!StopWorker(p) => StopWorker(p)
        /\ Unreadable!JoinWorker(p) => JoinWorker(p)
    BY DEF Unreadable!StopWorker, Unreadable!JoinWorker, Unreadable!MoveTo, Unreadable!Post,
           Unreadable!Command, Unreadable!NoThread, Unreadable!Job,
           StopWorker, JoinWorker, MoveTo, Post, Command, NoThread, Job
  <2> QED
    BY <1>1, <2>1, <2>2, <2>3, <2>4, <2>5
       DEF Unreadable!MainStep, WritableStep, FaultlessStep
<1>2. ASSUME Unreadable!WorkerStep(p) PROVE WritableStep(p)
  <2>1. /\ Unreadable!TakeSave(p) => TakeSave(p)
        /\ Unreadable!TakeImmediateSave(p) => TakeImmediateSave(p)
        /\ Unreadable!TakeStop(p) => TakeStop(p)
    BY DEF Unreadable!TakeSave, Unreadable!TakeImmediateSave, Unreadable!TakeStop,
           Unreadable!Takes, Unreadable!Job, Unreadable!NoThread, Unreadable!WorkerUnchanged,
           TakeSave, TakeImmediateSave, TakeStop, Takes, Job, NoThread, WorkerUnchanged
  <2>2. Unreadable!SaveDelayEnds(p) => SaveDelayEnds(p)
    BY DEF Unreadable!SaveDelayEnds, Unreadable!WorkerUnchanged, SaveDelayEnds, WorkerUnchanged
  <2>3. /\ Unreadable!WriteTemporaryFile(p) => WriteTemporaryFile(p)
        /\ Unreadable!SyncTemporaryFile(p) => SyncTemporaryFile(p)
    BY DEF Unreadable!WriteTemporaryFile, Unreadable!SyncTemporaryFile, Unreadable!Saving,
           Unreadable!SaveUnchanged, WriteTemporaryFile, SyncTemporaryFile, Saving,
           SaveUnchanged
  <2>4. Unreadable!ReplaceFile(p) => ReplaceFile(p)
    BY DEF Unreadable!ReplaceFile, Unreadable!Saving, Unreadable!Parses, Unreadable!SaveEnds,
           Unreadable!NoThread, Unreadable!Idle, Unreadable!Job,
           ReplaceFile, Saving, Parses, SaveEnds, NoThread, Idle, Job
  <2>5. ~Unreadable!SaveFails(p)
    BY DEF Unreadable!SaveFails
  <2> QED
    BY <1>2, <2>1, <2>2, <2>3, <2>4, <2>5
       DEF Unreadable!WorkerStep, WritableStep, FaultlessStep
<1>3. ASSUME Unreadable!UserStep(p) PROVE WritableStep(p)
  <2>1. UserStep(p)
    BY <1>3
       DEF Unreadable!UserStep, Unreadable!Launch, Unreadable!Exit, Unreadable!RequestSave,
           Unreadable!SaveImmediately, Unreadable!MoveTo, Unreadable!Post, Unreadable!Command,
           UserStep, Launch, Exit, RequestSave, SaveImmediately, MoveTo, Post, Command
  <2> QED  BY <2>1 DEF WritableStep, FaultlessStep
<1>4. ASSUME Unreadable!Crash(p) PROVE WritableStep(p)
  BY <1>4 DEF Unreadable!Crash, Unreadable!MoveTo, Unreadable!NoThread, Unreadable!Job,
              WritableStep, Kill, MoveTo, NoThread, Job
<1> QED  BY <1>1, <1>2, <1>3, <1>4

-----------------------------------------------------------------------------
(* The inductive invariants of the settings.                               *)

\* What the main thread of a process, its worker and their queue have to do with
\* each other.
StagesFit(p) ==
  /\ job[p].then = "boot" <=> stage[p] = "booting"
  /\ stage[p] \in {"off", "starting", "loading", "loaded"} => job[p].then = "off"
  /\ stage[p] \in {"running", "waiting", "released"} => job[p].then \notin {"off", "stop"}
  /\ stage[p] \in {"off", "starting", "loading", "loaded", "booting"} => queue[p] = <<>>
  /\ job[p].then \in {"reply", "stop", "off"} => queue[p] = <<>>
  /\ job[p].then = "reply" => stage[p] = "waiting"
  /\ stage[p] = "waiting" /\ job[p].then # "reply" =>
       queue[p] # <<>> /\ queue[p][Len(queue[p])].kind = "SaveImmediately"
  /\ stage[p] = "stopping" /\ job[p].then \notin {"stop", "off"} =>
       queue[p] # <<>> /\ queue[p][Len(queue[p])].kind = "Stop"
  /\ \A i \in 1 .. Len(queue[p]) :
       /\ queue[p][i].kind = "SaveImmediately" => stage[p] = "waiting" /\ i = Len(queue[p])
       /\ queue[p][i].kind = "Stop" => stage[p] = "stopping" /\ i = Len(queue[p])

\* Settings only grow on their way from the file through the worker and the
\* queue to the memory of the process.
SettingsGrow(p) ==
  /\ \A i \in 1 .. Len(queue[p]) :
       /\ queue[p][i].kind = "Save" => queue[p][i].config \subseteq memory[p]
       /\ queue[p][i].kind = "SaveImmediately" => memory[p] \subseteq queue[p][i].config
       /\ queue[p][i].kind # "Stop" => /\ SaveInHand(p) => job[p].config \subseteq queue[p][i].config
                                       /\ \A j \in 1 .. i : queue[p][j].config \subseteq queue[p][i].config
  /\ job[p].then \in {"boot", "delay", "next", "stop"} => job[p].config \subseteq memory[p]
  /\ job[p].then = "reply" => memory[p] \subseteq job[p].config

\* The temporary file is whole only when it holds what is being saved.
TempFits(p) ==
  IF job[p].then \in Saving THEN Parses(temp[p]) => temp[p] = job[p].config
                            ELSE temp[p] = Missing

ThreadsIInv == TypeOK /\ \A p \in Process : StagesFit(p) /\ SettingsGrow(p) /\ TempFits(p)

\* Another process runs only when this one has ended.
Alone == \A p, q \in Process : stage[p] # "off" /\ stage[q] # "off" => p = q

HasLoaded(p) == stage[p] \notin {"off", "starting", "loading"}

\* Where the file can be read: whatever a process has loaded, has in hand or
\* has queued contains the file.
FileIsKnownTo(p) ==
  HasLoaded(p) =>
    /\ file # Torn
    /\ Parses(file) =>
         /\ file \subseteq memory[p]
         /\ SaveInHand(p) => file \subseteq job[p].config
         /\ \A i \in 1 .. Len(queue[p]) :
              queue[p][i].kind # "Stop" => file \subseteq queue[p][i].config

ReadableIInv == ThreadsIInv /\ AcknowledgedIsSaved /\ \A p \in Process : FileIsKnownTo(p)

\* Where saving does not fail: what is in memory is in the file, in the hand of
\* the worker, or the last in the queue.
MemoryIsPendingOf(p) ==
  /\ stage[p] = "loaded" /\ Managed \in memory[p] => file = memory[p]
  /\ stage[p] \in {"booting", "running", "released", "stopping"} =>
       /\ \A i \in 1 .. Len(queue[p]) :
            /\ queue[p][i].kind # "Stop"
            /\ i = Len(queue[p]) \/ queue[p][i + 1].kind = "Stop"
            => queue[p][i].config = memory[p]
       /\ (\A i \in 1 .. Len(queue[p]) : queue[p][i].kind = "Stop") =>
            IF SaveInHand(p) THEN job[p].config = memory[p] ELSE file = memory[p]

WritableIInv == ThreadsIInv /\ \A p \in Process : MemoryIsPendingOf(p)

-----------------------------------------------------------------------------
(* The threads.                                                            *)

Fits(p) == StagesFit(p) /\ SettingsGrow(p) /\ TempFits(p)

\* What a step leaves alone of a process still fits.
LEMMA OthersStillFit ==
  ASSUME NEW q \in Process, Fits(q),
         UNCHANGED <<stage[q], memory[q], queue[q], job[q], temp[q]>>
  PROVE  Fits(q)'
BY DEF Fits, StagesFit, SettingsGrow, TempFits, SaveInHand, Saving, Parses

\* A command that is posted is the last in the queue.
LEMMA PostFacts ==
  ASSUME TypeOK, NEW p \in Process, NEW command \in Commands, Post(p, command)
  PROVE  /\ queue' \in [Process -> Seq(Commands)]
         /\ Len(queue[p]) \in Nat /\ Len(queue'[p]) = Len(queue[p]) + 1 /\ queue'[p] # <<>>
         /\ \A i \in 1 .. Len(queue[p]) : queue'[p][i] = queue[p][i]
         /\ queue'[p][Len(queue[p]) + 1] = command
         /\ \A q \in Process \ {p} : queue'[q] = queue[q]
<1>1. queue \in [Process -> Seq(Commands)] /\ queue[p] \in Seq(Commands)
  BY DEF TypeOK
<1>2. queue' = [queue EXCEPT ![p] = Append(queue[p], command)]
  BY DEF Post
<1>3. Append(queue[p], command) \in Seq(Commands)
  BY <1>1
<1> QED  BY <1>1, <1>2, <1>3, AppendProperties

\* A command that is taken is the first; the others move up.
LEMMA TakeFacts ==
  ASSUME TypeOK, NEW p \in Process, NEW kind, Takes(p, kind)
  PROVE  /\ queue' \in [Process -> Seq(Commands)]
         /\ Len(queue[p]) \in Nat /\ 1 \in 1 .. Len(queue[p])
         /\ Head(queue[p]) = queue[p][1]
         /\ queue[p][1] \in Commands /\ queue[p][1].kind = kind
         /\ Len(queue'[p]) = Len(queue[p]) - 1
         /\ \A i \in 1 .. Len(queue'[p]) :
              i + 1 \in 1 .. Len(queue[p]) /\ queue'[p][i] = queue[p][i + 1]
         /\ queue[p] # <<>>
         /\ Len(queue[p]) = 1 => queue'[p] = <<>>
         /\ Len(queue[p]) # 1 =>
              queue'[p] # <<>> /\ queue'[p][Len(queue'[p])] = queue[p][Len(queue[p])]
         /\ \A q \in Process \ {p} : queue'[q] = queue[q]
<1> DEFINE s == queue[p]
<1>1. queue \in [Process -> Seq(Commands)] /\ s \in Seq(Commands) /\ s # <<>>
  BY DEF TypeOK, Takes
<1>2. queue' = [queue EXCEPT ![p] = Tail(s)] /\ Head(s).kind = kind
  BY DEF Takes
<1> HIDE DEF s
<1>3. /\ Len(s) \in Nat /\ Len(s) # 0 /\ Head(s) = s[1] /\ Head(s) \in Commands
      /\ Tail(s) \in Seq(Commands) /\ Len(Tail(s)) = Len(s) - 1
      /\ \A i \in 1 .. Len(Tail(s)) : Tail(s)[i] = s[i + 1]
  BY <1>1
<1>4. (Len(s) = 1 => Tail(s) = <<>>) /\ (Len(s) # 1 => Tail(s) # <<>>)
  <2>1. (Tail(s) = <<>>) <=> (Len(Tail(s)) = 0)
    <3> DEFINE t == Tail(s)
    <3>1. t \in Seq(Commands)
      BY <1>3
    <3> HIDE DEF t
    <3>2. (t = <<>>) <=> (Len(t) = 0)
      BY <3>1, EmptySeq
    <3> QED  BY <3>2 DEF t
  <2> QED  BY <1>3, <2>1
<1>5. Len(s) # 1 => Tail(s)[Len(Tail(s))] = s[Len(s)]
  <2> SUFFICES ASSUME Len(s) # 1 PROVE Tail(s)[Len(s) - 1] = s[(Len(s) - 1) + 1]
    BY <1>3
  <2>1. Len(s) - 1 \in 1 .. Len(Tail(s))
    BY <1>3
  <2> QED  BY <1>3, <2>1
<1> QED  BY <1>1, <1>2, <1>3, <1>4, <1>5 DEF s

LEMMA MigrateLegacyConfigFits ==
  ASSUME ThreadsIInv, NEW p \in Process, MigrateLegacyConfig(p)
  PROVE  ThreadsIInv'
<1> USE DEF ThreadsIInv, MigrateLegacyConfig, MoveTo
<1>1. TypeOK'
  <2>1. Legacy \in (SUBSET (Changes \cup {Managed})) \cup {Missing, Torn}
    BY ContentsAssumption
  <2>2. Legacy \in FileContent
    BY <2>1 DEF FileContent, Config
  <2> QED  BY <2>2 DEF TypeOK
<1>2. StagesFit(p)'
  BY <1>1 DEF StagesFit, TypeOK, Saving
<1>3. SettingsGrow(p)'
  BY <1>1 DEF StagesFit, SettingsGrow, SaveInHand, TypeOK, Saving
<1>4. TempFits(p)'
  BY <1>1 DEF StagesFit, TempFits, TypeOK, Saving
<1>5. \A q \in Process \ {p} : UNCHANGED <<stage[q], memory[q], queue[q], job[q], temp[q]>>
  BY DEF TypeOK
<1> QED  BY <1>1, <1>2, <1>3, <1>4, <1>5, OthersStillFit DEF Fits

LEMMA LoadConfigFits ==
  ASSUME ThreadsIInv, NEW p \in Process, LoadConfig(p)
  PROVE  ThreadsIInv'
<1> USE DEF ThreadsIInv, LoadConfig, MoveTo, Parses
<1>1. TypeOK'
  BY DistinctAssumption DEF TypeOK, Config, FileContent, Saving
<1>2. StagesFit(p)'
  BY <1>1 DEF StagesFit, TypeOK, Saving
<1>3. SettingsGrow(p)'
  BY <1>1 DEF StagesFit, SettingsGrow, SaveInHand, TypeOK, Saving
<1>4. TempFits(p)'
  BY <1>1 DEF StagesFit, TempFits, TypeOK, Saving
<1>5. \A q \in Process \ {p} : UNCHANGED <<stage[q], memory[q], queue[q], job[q], temp[q]>>
  BY DEF TypeOK
<1> QED  BY <1>1, <1>2, <1>3, <1>4, <1>5, OthersStillFit DEF Fits

LEMMA LoadFailureFits ==
  ASSUME ThreadsIInv, NEW p \in Process, LoadFailure(p)
  PROVE  ThreadsIInv'
<1> USE DEF ThreadsIInv, LoadFailure, MoveTo, Parses
<1>1. TypeOK'
  BY DistinctAssumption DEF TypeOK, Config, FileContent, Saving
<1>2. StagesFit(p)'
  BY <1>1 DEF StagesFit, TypeOK, Saving
<1>3. SettingsGrow(p)'
  BY <1>1 DEF StagesFit, SettingsGrow, SaveInHand, TypeOK, Saving
<1>4. TempFits(p)'
  BY <1>1 DEF StagesFit, TempFits, TypeOK, Saving
<1>5. \A q \in Process \ {p} : UNCHANGED <<stage[q], memory[q], queue[q], job[q], temp[q]>>
  BY DEF TypeOK
<1> QED  BY <1>1, <1>2, <1>3, <1>4, <1>5, OthersStillFit DEF Fits

LEMMA InitializeManagedModelsFits ==
  ASSUME ThreadsIInv, NEW p \in Process, InitializeManagedModels(p)
  PROVE  ThreadsIInv'
<1> USE DEF ThreadsIInv, InitializeManagedModels, MoveTo, Job, Idle, Parses
<1>1. TypeOK'
  <2>1. /\ memory[p] \in Config /\ memory[p] \cup {Managed} \in Config /\ {} \in Config
        /\ memory'[p] = memory[p] \cup {Managed} /\ memory' \in [Process -> FileContent]
    BY DEF TypeOK, Config, FileContent
  <2>2. /\ stage' \in [Process -> {"off", "starting", "loading", "loaded", "booting", "running",
                                   "waiting", "released", "stopping"}]
        /\ job' \in [Process -> [then : Saving \cup {"off", "idle", "delay"}, config : Config]]
    <3>1. CASE Managed \in memory[p]
      <4>1. job' = [job EXCEPT ![p] = [then |-> "idle", config |-> {}]]
        BY <3>1
      <4> QED  BY <2>1, <3>1, <4>1 DEF TypeOK, Saving
    <3>2. CASE Managed \notin memory[p]
      <4>1. job' = [job EXCEPT ![p] = [then |-> "boot", config |-> memory[p] \cup {Managed}]]
        BY <2>1, <3>2
      <4> QED  BY <2>1, <3>2, <4>1 DEF TypeOK, Saving
    <3> QED  BY <3>1, <3>2
  <2>3. \A q \in Process : Parses(memory'[q])
    BY <2>1, DistinctAssumption DEF TypeOK
  <2> QED  BY <2>1, <2>2, <2>3 DEF TypeOK
<1>2. StagesFit(p)'
  BY <1>1 DEF StagesFit, TypeOK, Saving
<1>3. SettingsGrow(p)'
  BY <1>1 DEF StagesFit, SettingsGrow, SaveInHand, TypeOK, Saving
<1>4. TempFits(p)'
  BY <1>1 DEF StagesFit, TempFits, TypeOK, Saving
<1>5. \A q \in Process \ {p} : UNCHANGED <<stage[q], memory[q], queue[q], job[q], temp[q]>>
  BY DEF TypeOK
<1> QED  BY <1>1, <1>2, <1>3, <1>4, <1>5, OthersStillFit DEF Fits

LEMMA StopWorkerFits ==
  ASSUME ThreadsIInv, NEW p \in Process, StopWorker(p)
  PROVE  ThreadsIInv'
<1> USE DEF ThreadsIInv, StopWorker, Post, Command, MoveTo
<1>1. TypeOK'
  <2>1. Command("Stop", {}) \in Commands
    BY DEF Commands, Config
  <2> QED  BY <2>1, PostFacts DEF TypeOK
<1>2. StagesFit(p)'
  <2>1. Command("Stop", {}) \in Commands
    BY DEF Commands, Config
  <2> QED  BY <1>1, <2>1, PostFacts DEF StagesFit, TypeOK
<1>3. SettingsGrow(p)'
  BY <1>1 DEF StagesFit, SettingsGrow, SaveInHand, TypeOK, Saving
<1>4. TempFits(p)'
  BY <1>1 DEF StagesFit, TempFits, TypeOK, Saving
<1>5. \A q \in Process \ {p} : UNCHANGED <<stage[q], memory[q], queue[q], job[q], temp[q]>>
  BY DEF TypeOK
<1> QED  BY <1>1, <1>2, <1>3, <1>4, <1>5, OthersStillFit DEF Fits

LEMMA JoinWorkerFits ==
  ASSUME ThreadsIInv, NEW p \in Process, JoinWorker(p)
  PROVE  ThreadsIInv'
<1> USE DEF ThreadsIInv, JoinWorker, NoThread, Job, MoveTo
<1>1. TypeOK'
  BY DEF TypeOK, Config, FileContent, Saving
<1>2. StagesFit(p)'
  BY <1>1 DEF StagesFit, TypeOK, Saving
<1>3. SettingsGrow(p)'
  BY <1>1 DEF StagesFit, SettingsGrow, SaveInHand, TypeOK, Saving
<1>4. TempFits(p)'
  BY <1>1 DEF StagesFit, TempFits, TypeOK, Saving
<1>5. \A q \in Process \ {p} : UNCHANGED <<stage[q], memory[q], queue[q], job[q], temp[q]>>
  BY DEF TypeOK
<1> QED  BY <1>1, <1>2, <1>3, <1>4, <1>5, OthersStillFit DEF Fits

LEMMA TakeSaveFits ==
  ASSUME ThreadsIInv, NEW p \in Process, TakeSave(p)
  PROVE  ThreadsIInv'
<1> USE DEF ThreadsIInv, TakeSave, Job, WorkerUnchanged
<1> DEFINE n == Len(queue[p])
<1>0. Takes(p, "Save")
  OBVIOUS
<1>s. queue' \in [Process -> Seq(Commands)] /\ queue[p] # <<>>
  BY <1>0, TakeFacts
<1>t. /\ n \in Nat /\ n # 0 /\ Len(queue'[p]) = n - 1
      /\ Head(queue[p]) = queue[p][1] /\ queue[p][1] \in Commands /\ queue[p][1].kind = "Save"
      /\ \A i \in 1 .. n - 1 : queue'[p][i] = queue[p][i + 1]
      /\ n = 1 => queue'[p] = <<>>
      /\ n # 1 => queue'[p] # <<>> /\ queue'[p][n - 1] = queue[p][n]
  BY <1>0, TakeFacts
<1>u. \A q \in Process \ {p} : queue'[q] = queue[q]
  BY <1>0, TakeFacts
<1>v. job[p].then \in {"idle", "delay"}
  BY DEF Takes
<1>1. TypeOK'
  <2>1. queue[p][1].config \in Config /\ {} \in Config
    BY <1>s, <1>t DEF Commands, Config
  <2> QED  BY <1>s, <1>t, <2>1 DEF TypeOK, Saving
<1>2. StagesFit(p)'
  <2>1. job'[p] = [then |-> "delay", config |-> queue[p][1].config] /\ stage' = stage
    BY <1>s, <1>t DEF TypeOK
  <2>2. ASSUME NEW i \in 1 .. n - 1
        PROVE  /\ queue'[p][i].kind = "SaveImmediately" => stage[p] = "waiting" /\ i = n - 1
               /\ queue'[p][i].kind = "Stop" => stage[p] = "stopping" /\ i = n - 1
    <3>1. i + 1 \in 1 .. n /\ queue'[p][i] = queue[p][i + 1]
      BY <1>t
    <3> QED  BY <1>t, <3>1 DEF StagesFit
  <2>3. stage[p] \notin {"off", "starting", "loading", "loaded", "booting"}
    BY <1>s DEF StagesFit
  <2>4. stage[p] \in {"waiting", "stopping"} => n # 1 /\ queue[p][n].kind = queue'[p][n - 1].kind
    BY <1>s, <1>t, <1>v DEF StagesFit
  <2> QED  BY <1>s, <1>t, <1>v, <2>1, <2>2, <2>3, <2>4 DEF StagesFit
<1>3. SettingsGrow(p)'
  <2>1. job'[p] = [then |-> "delay", config |-> queue[p][1].config] /\ memory' = memory
    BY <1>s, <1>t DEF TypeOK
  <2>2. ASSUME NEW i \in 1 .. n - 1
        PROVE  /\ queue'[p][i].kind = "Save" => queue'[p][i].config \subseteq memory[p]
               /\ queue'[p][i].kind = "SaveImmediately" => memory[p] \subseteq queue'[p][i].config
               /\ queue'[p][i].kind # "Stop" =>
                    /\ queue[p][1].config \subseteq queue'[p][i].config
                    /\ \A j \in 1 .. i : queue'[p][j].config \subseteq queue'[p][i].config
    <3>1. i + 1 \in 1 .. n /\ queue'[p][i] = queue[p][i + 1] /\ 1 \in 1 .. i + 1
      BY <1>s, <1>t
    <3>2. \A j \in 1 .. i : j + 1 \in 1 .. i + 1 /\ queue'[p][j] = queue[p][j + 1]
      BY <1>s, <1>t
    <3> QED  BY <3>1, <3>2 DEF SettingsGrow
  <2>3. queue[p][1].config \subseteq memory[p]
    BY <1>s, <1>t DEF SettingsGrow
  <2> QED  BY <1>s, <1>t, <2>1, <2>2, <2>3 DEF SettingsGrow
<1>4. TempFits(p)'
  BY <1>1, <1>v DEF StagesFit, TempFits, TypeOK, Saving, Parses
<1>5. \A q \in Process \ {p} : UNCHANGED <<stage[q], memory[q], queue[q], job[q], temp[q]>>
  BY <1>u DEF TypeOK
<1> QED  BY <1>1, <1>2, <1>3, <1>4, <1>5, OthersStillFit DEF Fits

LEMMA TakeImmediateSaveFits ==
  ASSUME ThreadsIInv, NEW p \in Process, TakeImmediateSave(p)
  PROVE  ThreadsIInv'
<1> USE DEF ThreadsIInv, TakeImmediateSave, Job, WorkerUnchanged
<1> DEFINE n == Len(queue[p])
<1>0. Takes(p, "SaveImmediately")
  OBVIOUS
<1>s. queue' \in [Process -> Seq(Commands)] /\ queue[p] # <<>>
  BY <1>0, TakeFacts
<1>t. /\ n \in Nat /\ n # 0 /\ Len(queue'[p]) = n - 1
      /\ Head(queue[p]) = queue[p][1] /\ queue[p][1] \in Commands /\ queue[p][1].kind = "SaveImmediately"
      /\ \A i \in 1 .. n - 1 : queue'[p][i] = queue[p][i + 1]
      /\ n = 1 => queue'[p] = <<>>
      /\ n # 1 => queue'[p] # <<>> /\ queue'[p][n - 1] = queue[p][n]
  BY <1>0, TakeFacts
<1>u. \A q \in Process \ {p} : queue'[q] = queue[q]
  BY <1>0, TakeFacts
<1>v. job[p].then \in {"idle", "delay"}
  BY DEF Takes
<1>1. TypeOK'
  <2>1. queue[p][1].config \in Config /\ {} \in Config
    BY <1>s, <1>t DEF Commands, Config
  <2> QED  BY <1>s, <1>t, <2>1 DEF TypeOK, Saving
<1>2. StagesFit(p)'
  BY <1>1, <1>s, <1>t, <1>v DEF StagesFit, TypeOK, Saving
<1>3. SettingsGrow(p)'
  BY <1>1, <1>s, <1>t, <1>v DEF StagesFit, SettingsGrow, SaveInHand, TypeOK, Saving
<1>4. TempFits(p)'
  BY <1>1, <1>v DEF StagesFit, TempFits, TypeOK, Saving, Parses
<1>5. \A q \in Process \ {p} : UNCHANGED <<stage[q], memory[q], queue[q], job[q], temp[q]>>
  BY <1>u DEF TypeOK
<1> QED  BY <1>1, <1>2, <1>3, <1>4, <1>5, OthersStillFit DEF Fits

LEMMA TakeStopFits ==
  ASSUME ThreadsIInv, NEW p \in Process, TakeStop(p)
  PROVE  ThreadsIInv'
<1> USE DEF ThreadsIInv, TakeStop, Job, NoThread, WorkerUnchanged
<1> DEFINE n == Len(queue[p])
<1>0. Takes(p, "Stop")
  OBVIOUS
<1>s. queue' \in [Process -> Seq(Commands)] /\ queue[p] # <<>>
  BY <1>0, TakeFacts
<1>t. /\ n \in Nat /\ n # 0 /\ Len(queue'[p]) = n - 1
      /\ Head(queue[p]) = queue[p][1] /\ queue[p][1] \in Commands /\ queue[p][1].kind = "Stop"
      /\ \A i \in 1 .. n - 1 : queue'[p][i] = queue[p][i + 1]
      /\ n = 1 => queue'[p] = <<>>
      /\ n # 1 => queue'[p] # <<>> /\ queue'[p][n - 1] = queue[p][n]
  BY <1>0, TakeFacts
<1>u. \A q \in Process \ {p} : queue'[q] = queue[q]
  BY <1>0, TakeFacts
<1>v. job[p].then \in {"idle", "delay"}
  BY DEF Takes
<1>1. TypeOK'
  <2>1. queue[p][1].config \in Config /\ {} \in Config
    BY <1>s, <1>t DEF Commands, Config
  <2> QED  BY <1>s, <1>t, <2>1 DEF TypeOK, Saving
<1>2. StagesFit(p)'
  BY <1>1, <1>s, <1>t, <1>v DEF StagesFit, TypeOK, Saving
<1>3. SettingsGrow(p)'
  BY <1>1, <1>s, <1>t, <1>v DEF StagesFit, SettingsGrow, SaveInHand, TypeOK, Saving
<1>4. TempFits(p)'
  BY <1>1, <1>v DEF StagesFit, TempFits, TypeOK, Saving, Parses
<1>5. \A q \in Process \ {p} : UNCHANGED <<stage[q], memory[q], queue[q], job[q], temp[q]>>
  BY <1>u DEF TypeOK
<1> QED  BY <1>1, <1>2, <1>3, <1>4, <1>5, OthersStillFit DEF Fits

LEMMA SaveDelayEndsFits ==
  ASSUME ThreadsIInv, NEW p \in Process, SaveDelayEnds(p)
  PROVE  ThreadsIInv'
<1> USE DEF ThreadsIInv, SaveDelayEnds, WorkerUnchanged
<1>1. TypeOK'
  BY DEF TypeOK, Config, FileContent, Saving
<1>2. StagesFit(p)'
  BY <1>1 DEF StagesFit, TypeOK, Saving
<1>3. SettingsGrow(p)'
  BY <1>1 DEF StagesFit, SettingsGrow, SaveInHand, TypeOK, Saving
<1>4. TempFits(p)'
  BY <1>1 DEF StagesFit, TempFits, TypeOK, Saving, Parses
<1>5. \A q \in Process \ {p} : UNCHANGED <<stage[q], memory[q], queue[q], job[q], temp[q]>>
  BY DEF TypeOK
<1> QED  BY <1>1, <1>2, <1>3, <1>4, <1>5, OthersStillFit DEF Fits

LEMMA WriteTemporaryFileFits ==
  ASSUME ThreadsIInv, NEW p \in Process, WriteTemporaryFile(p)
  PROVE  ThreadsIInv'
<1> USE DEF ThreadsIInv, WriteTemporaryFile, SaveUnchanged, Parses
<1>1. TypeOK'
  BY DEF TypeOK, Config, FileContent, Saving
<1>2. StagesFit(p)'
  BY <1>1 DEF StagesFit, TypeOK, Saving
<1>3. SettingsGrow(p)'
  BY <1>1 DEF StagesFit, SettingsGrow, SaveInHand, TypeOK, Saving
<1>4. TempFits(p)'
  BY <1>1 DEF StagesFit, TempFits, TypeOK, Saving
<1>5. \A q \in Process \ {p} : UNCHANGED <<stage[q], memory[q], queue[q], job[q], temp[q]>>
  BY DEF TypeOK
<1> QED  BY <1>1, <1>2, <1>3, <1>4, <1>5, OthersStillFit DEF Fits

LEMMA SyncTemporaryFileFits ==
  ASSUME ThreadsIInv, NEW p \in Process, SyncTemporaryFile(p)
  PROVE  ThreadsIInv'
<1> USE DEF ThreadsIInv, SyncTemporaryFile, SaveUnchanged, Parses
<1>1. TypeOK'
  BY DEF TypeOK, Config, FileContent, Saving
<1>2. StagesFit(p)'
  BY <1>1 DEF StagesFit, TypeOK, Saving
<1>3. SettingsGrow(p)'
  BY <1>1 DEF StagesFit, SettingsGrow, SaveInHand, TypeOK, Saving
<1>4. TempFits(p)'
  BY <1>1 DEF StagesFit, TempFits, TypeOK, Saving
<1>5. \A q \in Process \ {p} : UNCHANGED <<stage[q], memory[q], queue[q], job[q], temp[q]>>
  BY DEF TypeOK
<1> QED  BY <1>1, <1>2, <1>3, <1>4, <1>5, OthersStillFit DEF Fits

LEMMA ReplaceFileFits ==
  ASSUME ThreadsIInv, NEW p \in Process, ReplaceFile(p)
  PROVE  ThreadsIInv'
<1> USE DEF ThreadsIInv, ReplaceFile, SaveEnds, NoThread, Idle, Job, Parses
<1>1. TypeOK'
  BY DistinctAssumption DEF TypeOK, Config, FileContent, Saving
<1>2. StagesFit(p)'
  BY <1>1 DEF StagesFit, TypeOK, Saving
<1>3. SettingsGrow(p)'
  BY <1>1 DEF StagesFit, SettingsGrow, SaveInHand, TypeOK, Saving
<1>4. TempFits(p)'
  BY <1>1 DEF StagesFit, TempFits, TypeOK, Saving
<1>5. \A q \in Process \ {p} : UNCHANGED <<stage[q], memory[q], queue[q], job[q], temp[q]>>
  BY DEF TypeOK
<1> QED  BY <1>1, <1>2, <1>3, <1>4, <1>5, OthersStillFit DEF Fits

LEMMA SaveFailureFits ==
  ASSUME ThreadsIInv, NEW p \in Process, SaveFailure(p)
  PROVE  ThreadsIInv'
<1> USE DEF ThreadsIInv, SaveFailure, SaveEnds, NoThread, Idle, Job, Parses
<1>1. TypeOK'
  BY DistinctAssumption DEF TypeOK, Config, FileContent, Saving
<1>2. StagesFit(p)'
  BY <1>1 DEF StagesFit, TypeOK, Saving
<1>3. SettingsGrow(p)'
  BY <1>1 DEF StagesFit, SettingsGrow, SaveInHand, TypeOK, Saving
<1>4. TempFits(p)'
  BY <1>1 DEF StagesFit, TempFits, TypeOK, Saving
<1>5. \A q \in Process \ {p} : UNCHANGED <<stage[q], memory[q], queue[q], job[q], temp[q]>>
  BY DEF TypeOK
<1> QED  BY <1>1, <1>2, <1>3, <1>4, <1>5, OthersStillFit DEF Fits

LEMMA LaunchFits ==
  ASSUME ThreadsIInv, NEW p \in Process, Launch(p)
  PROVE  ThreadsIInv'
<1> USE DEF ThreadsIInv, Launch, MoveTo
<1>1. TypeOK'
  BY DEF TypeOK, Config, FileContent, Saving
<1>2. StagesFit(p)'
  BY <1>1 DEF StagesFit, TypeOK, Saving
<1>3. SettingsGrow(p)'
  BY <1>1 DEF StagesFit, SettingsGrow, SaveInHand, TypeOK, Saving
<1>4. TempFits(p)'
  BY <1>1 DEF StagesFit, TempFits, TypeOK, Saving
<1>5. \A q \in Process \ {p} : UNCHANGED <<stage[q], memory[q], queue[q], job[q], temp[q]>>
  BY DEF TypeOK
<1> QED  BY <1>1, <1>2, <1>3, <1>4, <1>5, OthersStillFit DEF Fits

LEMMA ExitFits ==
  ASSUME ThreadsIInv, NEW p \in Process, Exit(p)
  PROVE  ThreadsIInv'
<1> USE DEF ThreadsIInv, Exit, MoveTo
<1>1. TypeOK'
  BY DEF TypeOK, Config, FileContent, Saving
<1>2. StagesFit(p)'
  BY <1>1 DEF StagesFit, TypeOK, Saving
<1>3. SettingsGrow(p)'
  BY <1>1 DEF StagesFit, SettingsGrow, SaveInHand, TypeOK, Saving
<1>4. TempFits(p)'
  BY <1>1 DEF StagesFit, TempFits, TypeOK, Saving
<1>5. \A q \in Process \ {p} : UNCHANGED <<stage[q], memory[q], queue[q], job[q], temp[q]>>
  BY DEF TypeOK
<1> QED  BY <1>1, <1>2, <1>3, <1>4, <1>5, OthersStillFit DEF Fits

LEMMA RequestSaveFits ==
  ASSUME ThreadsIInv, NEW p \in Process, NEW c \in Changes, RequestSave(p, c)
  PROVE  ThreadsIInv'
<1> USE DEF ThreadsIInv, RequestSave, Post, Command, Parses
<1>1. TypeOK'
  <2>1. /\ memory'[p] = memory[p] \cup {c} /\ memory'[p] \in Config
        /\ memory' \in [Process -> FileContent] /\ Command("Save", memory'[p]) \in Commands
    BY DEF TypeOK, Config, FileContent, Commands
  <2>2. \A q \in Process : Parses(memory'[q])
    BY <2>1, DistinctAssumption DEF TypeOK
  <2> QED  BY <2>1, <2>2, PostFacts DEF TypeOK
<1>2. StagesFit(p)'
  BY <1>1 DEF StagesFit, TypeOK, Saving
<1>3. SettingsGrow(p)'
  <2> DEFINE n == Len(queue[p])
  <2>1. Command("Save", memory'[p]) \in Commands /\ memory'[p] = memory[p] \cup {c}
    BY DEF TypeOK, Config, FileContent, Commands
  <2>2. /\ n \in Nat /\ Len(queue'[p]) = n + 1 /\ \A i \in 1 .. n : queue'[p][i] = queue[p][i]
        /\ queue'[p][n + 1] = [kind |-> "Save", config |-> memory'[p]]
    BY <2>1, PostFacts
  <2>3. \A i \in 1 .. n : queue[p][i].kind = "Save" /\ queue[p][i].config \subseteq memory[p]
    <3>1. \A i \in 1 .. n : queue[p][i] \in Commands
      BY <2>2 DEF TypeOK
    <3> QED  BY <3>1 DEF StagesFit, SettingsGrow, Commands
  <2>4. SaveInHand(p) => job[p].config \subseteq memory[p]
    BY DEF StagesFit, SettingsGrow, SaveInHand, Saving
  <2>5. ASSUME NEW i \in 1 .. n + 1
        PROVE  /\ queue'[p][i].kind = "Save" /\ queue'[p][i].config \subseteq memory'[p]
               /\ SaveInHand(p) => job[p].config \subseteq queue'[p][i].config
               /\ \A j \in 1 .. i : queue'[p][j].config \subseteq queue'[p][i].config
    <3>1. CASE i = n + 1
      BY <2>1, <2>2, <2>3, <2>4, <3>1
    <3>2. CASE i # n + 1
      <4>1. i \in 1 .. n /\ \A j \in 1 .. i : j \in 1 .. n
        BY <2>2, <3>2
      <4> QED  BY <2>1, <2>2, <2>3, <4>1 DEF SettingsGrow
    <3> QED  BY <3>1, <3>2
  <2> QED  BY <2>1, <2>2, <2>4, <2>5 DEF StagesFit, SettingsGrow, SaveInHand
<1>4. TempFits(p)'
  BY <1>1 DEF StagesFit, TempFits, TypeOK, Saving
<1>5. \A q \in Process \ {p} : UNCHANGED <<stage[q], memory[q], queue[q], job[q], temp[q]>>
  BY DEF TypeOK
<1> QED  BY <1>1, <1>2, <1>3, <1>4, <1>5, OthersStillFit DEF Fits

LEMMA SaveImmediatelyFits ==
  ASSUME ThreadsIInv, NEW p \in Process, NEW c \in Changes, SaveImmediately(p, c)
  PROVE  ThreadsIInv'
<1> USE DEF ThreadsIInv, SaveImmediately, Post, Command, MoveTo, Parses
<1>1. TypeOK'
  <2>1. memory[p] \cup {c} \in Config /\ Command("SaveImmediately", memory[p] \cup {c}) \in Commands
    BY DEF TypeOK, Config, FileContent, Commands
  <2> QED  BY <2>1, PostFacts DEF TypeOK
<1> DEFINE n == Len(queue[p])
<1>p. /\ n \in Nat /\ Len(queue'[p]) = n + 1 /\ \A i \in 1 .. n : queue'[p][i] = queue[p][i]
      /\ queue'[p][n + 1] = [kind |-> "SaveImmediately", config |-> memory[p] \cup {c}]
      /\ queue'[p] # <<>>
  <2>1. Command("SaveImmediately", memory[p] \cup {c}) \in Commands
    BY DEF TypeOK, Config, FileContent, Commands
  <2> QED  BY <2>1, PostFacts
<1>q. \A i \in 1 .. n : queue[p][i].kind = "Save" /\ queue[p][i].config \subseteq memory[p]
  <2>1. \A i \in 1 .. n : queue[p][i] \in Commands
    BY <1>p DEF TypeOK
  <2> QED  BY <2>1 DEF StagesFit, SettingsGrow, Commands
<1>2. StagesFit(p)'
  <2>1. stage'[p] = "waiting" /\ job' = job /\ job[p].then \notin {"boot", "off", "stop", "reply"}
    BY DEF StagesFit, TypeOK
  <2>2. \A i \in 1 .. n + 1 : queue'[p][i].kind # "Stop"
          /\ (queue'[p][i].kind = "SaveImmediately" => i = n + 1)
    BY <1>p, <1>q
  <2> QED  BY <1>p, <2>1, <2>2 DEF StagesFit
<1>3. SettingsGrow(p)'
  <2>1. SaveInHand(p) => job[p].config \subseteq memory[p]
    BY DEF StagesFit, SettingsGrow, SaveInHand, Saving
  <2>2. ASSUME NEW i \in 1 .. n + 1
        PROVE  /\ queue'[p][i].kind = "Save" => queue'[p][i].config \subseteq memory[p]
               /\ queue'[p][i].kind = "SaveImmediately" => memory[p] \subseteq queue'[p][i].config
               /\ SaveInHand(p) => job[p].config \subseteq queue'[p][i].config
               /\ \A j \in 1 .. i : queue'[p][j].config \subseteq queue'[p][i].config
    <3>1. CASE i = n + 1
      BY <1>p, <1>q, <2>1, <3>1
    <3>2. CASE i # n + 1
      <4>1. i \in 1 .. n /\ \A j \in 1 .. i : j \in 1 .. n
        BY <1>p, <3>2
      <4> QED  BY <1>p, <1>q, <4>1 DEF SettingsGrow
    <3> QED  BY <3>1, <3>2
  <2> QED  BY <1>p, <2>2 DEF StagesFit, SettingsGrow, SaveInHand
<1>4. TempFits(p)'
  BY <1>1 DEF StagesFit, TempFits, TypeOK, Saving
<1>5. \A q \in Process \ {p} : UNCHANGED <<stage[q], memory[q], queue[q], job[q], temp[q]>>
  BY DEF TypeOK
<1> QED  BY <1>1, <1>2, <1>3, <1>4, <1>5, OthersStillFit DEF Fits

LEMMA KillFits ==
  ASSUME ThreadsIInv, NEW p \in Process, Kill(p)
  PROVE  ThreadsIInv'
<1> USE DEF ThreadsIInv, Kill, MoveTo, NoThread, Job
<1>1. TypeOK'
  <2>1. /\ queue' \in [Process -> Seq(Commands)] /\ temp' \in [Process -> FileContent]
        /\ owner' \in Process \cup {None}
    BY DEF TypeOK, FileContent
  <2>2. job' \in [Process -> [then : Saving \cup {"off", "idle", "delay"}, config : Config]]
    BY DEF TypeOK, Config
  <2> QED  BY <2>1, <2>2 DEF TypeOK
<1>2. StagesFit(p)'
  BY <1>1 DEF StagesFit, TypeOK, Saving
<1>3. SettingsGrow(p)'
  BY <1>1 DEF StagesFit, SettingsGrow, SaveInHand, TypeOK, Saving
<1>4. TempFits(p)'
  BY <1>1 DEF StagesFit, TempFits, TypeOK, Saving
<1>5. \A q \in Process \ {p} : UNCHANGED <<stage[q], memory[q], queue[q], job[q], temp[q]>>
  BY DEF TypeOK
<1> QED  BY <1>1, <1>2, <1>3, <1>4, <1>5, OthersStillFit DEF Fits

-----------------------------------------------------------------------------

LEMMA InitFits == Init => ThreadsIInv
<1> SUFFICES ASSUME Init PROVE ThreadsIInv
  OBVIOUS
<1>1. file \in FileContent /\ made \subseteq Changes
  <2>1. file \in (SUBSET (Changes \cup {Managed})) \cup {Missing, Torn}
    BY ContentsAssumption DEF Init
  <2> QED  BY <2>1 DEF Init, FileContent, Config
<1>2. {} \in Config /\ \A p \in Process : memory[p] = {}
  BY DEF Init, Config
<1>3. \A p \in Process : Parses(memory[p])
  BY <1>2, DistinctAssumption DEF Parses
<1>4. <<>> \in Seq(Commands) /\ Len(<<>>) = 0
  OBVIOUS
<1>5. TypeOK
  <2>1. /\ job \in [Process -> [then : Saving \cup {"off", "idle", "delay"}, config : Config]]
        /\ queue \in [Process -> Seq(Commands)]
    BY <1>2, <1>4 DEF Init, NoThread, Job
  <2>2. memory \in [Process -> FileContent] /\ temp \in [Process -> FileContent]
    BY <1>2 DEF Init, FileContent
  <2> QED  BY <1>1, <1>2, <1>3, <2>1, <2>2 DEF Init, TypeOK
<1>6. ASSUME NEW p \in Process PROVE Fits(p)
  <2>1. /\ stage[p] = "off" /\ job[p].then = "off" /\ queue[p] = <<>> /\ temp[p] = Missing
        /\ Len(queue[p]) = 0
    BY <1>4 DEF Init, NoThread, Job
  <2>2. StagesFit(p) /\ TempFits(p)
    BY <2>1 DEF StagesFit, TempFits, Saving
  <2>3. SettingsGrow(p)
    BY <2>1 DEF SettingsGrow
  <2> QED  BY <2>2, <2>3 DEF Fits
<1> QED  BY <1>5, <1>6 DEF ThreadsIInv, Fits

LEMMA StepFits ==
  ASSUME ThreadsIInv, NEW p \in Process, ReadableStep(p) \/ LoadFailure(p)
  PROVE  ThreadsIInv'
BY MigrateLegacyConfigFits, LoadConfigFits, LoadFailureFits, InitializeManagedModelsFits,
   StopWorkerFits, JoinWorkerFits, TakeSaveFits, TakeImmediateSaveFits, TakeStopFits,
   SaveDelayEndsFits, WriteTemporaryFileFits, SyncTemporaryFileFits, ReplaceFileFits,
   SaveFailureFits, LaunchFits, ExitFits, RequestSaveFits, SaveImmediatelyFits, KillFits
   DEF ReadableStep, FaultlessStep, UserStep

LEMMA StutterFits == ThreadsIInv /\ UNCHANGED vars => ThreadsIInv'
<1> SUFFICES ASSUME ThreadsIInv, UNCHANGED vars PROVE ThreadsIInv'
  OBVIOUS
<1>1. TypeOK'
  BY DEF ThreadsIInv, TypeOK, vars, Parses
<1>2. \A q \in Process : UNCHANGED <<stage[q], memory[q], queue[q], job[q], temp[q]>>
  BY DEF vars
<1> QED  BY <1>1, <1>2, OthersStillFit DEF ThreadsIInv, Fits

\* The types of the settings, of the queue and of the files are right whatever
\* fails and however many processes there are: in memory is a configuration
\* also where the file does not parse.
THEOREM SettingsTypeCorrect == Safety => []TypeOK
<1>1. ThreadsIInv /\ [Next]_vars => ThreadsIInv'
  BY NextIsAStep, StepFits, StutterFits DEF Next
<1>2. ThreadsIInv => TypeOK
  BY DEF ThreadsIInv
<1> QED  BY <1>1, <1>2, InitFits, PTL DEF Safety

-----------------------------------------------------------------------------
(* A disk that can be read.                                                *)

LEMMA OthersStillKnow ==
  ASSUME NEW q \in Process, FileIsKnownTo(q),
         UNCHANGED <<stage[q], memory[q], queue[q], job[q], file>>
  PROVE  FileIsKnownTo(q)'
BY DEF FileIsKnownTo, HasLoaded, SaveInHand, Parses

\* What a step of a process does to the file and to what users were told, and
\* that the process still knows the file.
ReadableEffect(p) ==
  /\ AcknowledgedIsSaved' /\ FileIsKnownTo(p)'
  /\ KeepsChanges /\ KeepsCorruptFile
  /\ \A q \in Process \ {p} : UNCHANGED <<stage[q], memory[q], queue[q], job[q]>>

LEMMA MigrateLegacyConfigKeepsFile ==
  ASSUME ReadableIInv, NEW p \in Process, MigrateLegacyConfig(p)
  PROVE  ReadableEffect(p)
BY DistinctAssumption
   DEF ReadableEffect, ReadableIInv, ThreadsIInv, TypeOK, MigrateLegacyConfig, MoveTo,
       AcknowledgedIsSaved, FileIsKnownTo, HasLoaded, KeepsChanges, KeepsCorruptFile, Parses

LEMMA LoadConfigKeepsFile ==
  ASSUME ReadableIInv, NEW p \in Process, LoadConfig(p)
  PROVE  ReadableEffect(p)
<1> USE DEF ReadableIInv, ThreadsIInv, TypeOK, LoadConfig, MoveTo
<1>1. job[p].then = "off" /\ queue[p] = <<>>
  BY DEF StagesFit
<1>2. FileIsKnownTo(p)'
  BY <1>1, DistinctAssumption DEF FileIsKnownTo, SaveInHand, Saving, Parses
<1>3. AcknowledgedIsSaved' /\ KeepsChanges /\ KeepsCorruptFile
  BY DistinctAssumption DEF AcknowledgedIsSaved, KeepsChanges, KeepsCorruptFile, Parses
<1> QED  BY <1>2, <1>3 DEF ReadableEffect

LEMMA ReplaceFileKeepsFile ==
  ASSUME ReadableIInv, NEW p \in Process, ReplaceFile(p)
  PROVE  ReadableEffect(p)
<1> USE DEF ReadableIInv, ThreadsIInv, TypeOK, ReplaceFile, SaveEnds
<1>1. file' = job[p].config /\ Parses(file')
  BY DEF TempFits
<1>2. HasLoaded(p) /\ SaveInHand(p)
  BY DEF StagesFit, HasLoaded, SaveInHand, Saving
<1>3. file # Torn /\ (Parses(file) => file \subseteq file')
  BY <1>1, <1>2 DEF FileIsKnownTo
<1>4. file' \subseteq memory'[p]
  BY <1>1 DEF SettingsGrow, Saving
<1>5. \A i \in 1 .. Len(queue[p]) :
        queue[p][i].kind # "Stop" => file' \subseteq queue[p][i].config
  BY <1>1, <1>2 DEF SettingsGrow
<1>6. job'[p].then \in {"idle", "off"}
  BY DEF NoThread, Idle, Job
<1>7. FileIsKnownTo(p)'
  BY <1>1, <1>4, <1>5, <1>6 DEF FileIsKnownTo, SaveInHand, Saving, Parses
<1>8. AcknowledgedIsSaved'
  BY <1>1, <1>3 DEF AcknowledgedIsSaved, Parses
<1>9. KeepsChanges /\ KeepsCorruptFile
  BY <1>1, <1>3 DEF KeepsChanges, KeepsCorruptFile
<1> QED  BY <1>7, <1>8, <1>9 DEF ReadableEffect

\* The other steps leave the file alone.
LEMMA OtherStepsKeepFile ==
  ASSUME ReadableIInv, NEW p \in Process, ReadableStep(p),
         ~MigrateLegacyConfig(p), ~LoadConfig(p), ~ReplaceFile(p)
  PROVE  file' = file /\ ReadableEffect(p)
<1> USE DEF ReadableIInv, ThreadsIInv, TypeOK
<1>0. (file' = file /\ acknowledged' = acknowledged) =>
        AcknowledgedIsSaved' /\ KeepsChanges /\ KeepsCorruptFile
  BY DEF AcknowledgedIsSaved, KeepsChanges, KeepsCorruptFile, Parses
<1>1. CASE InitializeManagedModels(p)
  <2>1. queue[p] = <<>> /\ HasLoaded(p) /\ memory'[p] = memory[p] \cup {Managed}
    BY <1>1 DEF InitializeManagedModels, StagesFit, HasLoaded
  <2>2. job'[p].then = "idle" \/ job'[p].config = memory'[p]
    BY <1>1 DEF InitializeManagedModels, Idle, Job
  <2>3. FileIsKnownTo(p)'
    BY <1>1, <2>1, <2>2 DEF InitializeManagedModels, FileIsKnownTo, SaveInHand, Saving, Parses
  <2> QED
    BY <1>0, <1>1, <2>3 DEF InitializeManagedModels, MoveTo, ReadableEffect
<1>2. CASE StopWorker(p)
  <2>1. FileIsKnownTo(p)'
    <3> DEFINE n == Len(queue[p])
    <3>1. Command("Stop", {}) \in Commands
      BY DEF Command, Commands, Config
    <3>2. /\ n \in Nat /\ Len(queue'[p]) = n + 1 /\ \A i \in 1 .. n : queue'[p][i] = queue[p][i]
          /\ queue'[p][n + 1].kind = "Stop"
      BY <1>2, <3>1, PostFacts DEF StopWorker, Command
    <3>3. \A i \in 1 .. n + 1 : queue'[p][i].kind # "Stop" =>
            i \in 1 .. n /\ queue'[p][i] = queue[p][i]
      BY <3>2
    <3> QED
      BY <1>2, <3>2, <3>3 DEF StopWorker, FileIsKnownTo, HasLoaded, SaveInHand, Parses
  <2> QED  BY <1>0, <1>2, <2>1 DEF StopWorker, Post, MoveTo, ReadableEffect
<1>3. CASE JoinWorker(p)
  BY <1>0, <1>3 DEF JoinWorker, MoveTo, ReadableEffect, FileIsKnownTo, HasLoaded
<1>4. CASE TakeSave(p) \/ TakeImmediateSave(p) \/ TakeStop(p)
  <2> DEFINE n == Len(queue[p])
  <2>1. PICK kind \in {"Save", "SaveImmediately", "Stop"} : Takes(p, kind)
    BY <1>4 DEF TakeSave, TakeImmediateSave, TakeStop
  <2>2. /\ n \in Nat /\ n # 0 /\ Len(queue'[p]) = n - 1 /\ Head(queue[p]) = queue[p][1]
        /\ \A i \in 1 .. n - 1 : queue'[p][i] = queue[p][i + 1]
        /\ \A q \in Process \ {p} : queue'[q] = queue[q]
    BY <2>1, TakeFacts
  <2>3. queue[p][1].kind = kind
    BY <2>1, TakeFacts
  <2>4. SaveInHand(p)' =>
          \/ SaveInHand(p) /\ job'[p].config = job[p].config
          \/ queue[p][1].kind # "Stop" /\ job'[p].config = queue[p][1].config
    BY <1>4, <2>2, <2>3, <2>1
       DEF TakeSave, TakeImmediateSave, TakeStop, Takes, SaveInHand, Saving, NoThread, Job
  <2>5. UNCHANGED <<stage, memory, file, acknowledged>>
    BY <1>4 DEF TakeSave, TakeImmediateSave, TakeStop, WorkerUnchanged
  <2>6. ASSUME NEW i \in 1 .. n - 1 PROVE i + 1 \in 1 .. n /\ queue'[p][i] = queue[p][i + 1]
    BY <2>2
  <2>7. FileIsKnownTo(p)'
    <3> SUFFICES ASSUME HasLoaded(p) PROVE FileIsKnownTo(p)'
      BY <2>5 DEF FileIsKnownTo, HasLoaded
    <3>1. file # Torn
      BY DEF FileIsKnownTo
    <3>2. ASSUME Parses(file) PROVE SaveInHand(p)' => file \subseteq job'[p].config
      <4>1. 1 \in 1 .. n
        BY <2>2
      <4> QED  BY <2>4, <3>2, <4>1 DEF FileIsKnownTo
    <3>3. ASSUME Parses(file), NEW i \in 1 .. n - 1, queue'[p][i].kind # "Stop"
          PROVE  file \subseteq queue'[p][i].config
      BY <2>6, <3>3 DEF FileIsKnownTo
    <3>4. Parses(file) => file \subseteq memory[p]
      BY DEF FileIsKnownTo
    <3> QED  BY <2>2, <2>5, <3>1, <3>2, <3>3, <3>4 DEF FileIsKnownTo, Parses
  <2>8. \A q \in Process \ {p} : job'[q] = job[q]
    BY <1>4 DEF TakeSave, TakeImmediateSave, TakeStop
  <2> QED  BY <1>0, <2>2, <2>5, <2>7, <2>8 DEF ReadableEffect
<1>5. CASE SaveDelayEnds(p)
  BY <1>0, <1>5
     DEF SaveDelayEnds, WorkerUnchanged, ReadableEffect, FileIsKnownTo, HasLoaded, SaveInHand,
         Saving, Parses
<1>6. CASE WriteTemporaryFile(p) \/ SyncTemporaryFile(p)
  <2>1. UNCHANGED <<stage, memory, queue, job, file, acknowledged>>
    BY <1>6 DEF WriteTemporaryFile, SyncTemporaryFile, SaveUnchanged
  <2> QED  BY <1>0, <2>1, OthersStillKnow DEF ReadableEffect
<1>7. CASE SaveFailure(p)
  <2>1. UNCHANGED <<memory, queue, file, acknowledged>> /\ (HasLoaded(p)' => HasLoaded(p))
    BY <1>7 DEF SaveFailure, SaveEnds, StagesFit, HasLoaded, Saving
  <2>2. ~SaveInHand(p)'
    BY <1>7 DEF SaveFailure, SaveEnds, SaveInHand, Saving, NoThread, Idle, Job
  <2>3. FileIsKnownTo(p)'
    BY <2>1, <2>2 DEF FileIsKnownTo, Parses
  <2> QED  BY <1>0, <1>7, <2>1, <2>3 DEF SaveFailure, SaveEnds, ReadableEffect
<1>8. CASE Launch(p)
  BY <1>0, <1>8 DEF Launch, MoveTo, ReadableEffect, FileIsKnownTo, HasLoaded
<1>9. CASE Exit(p)
  BY <1>0, <1>9
     DEF Exit, MoveTo, ReadableEffect, FileIsKnownTo, HasLoaded, SaveInHand, Parses
<1>10. ASSUME NEW c \in Changes, RequestSave(p, c) \/ SaveImmediately(p, c)
       PROVE  file' = file /\ ReadableEffect(p)
  <2> DEFINE n == Len(queue[p])
             s == memory[p] \cup {c}
  <2>1. PICK kind \in {"Save", "SaveImmediately"} : Post(p, Command(kind, s))
    BY <1>10 DEF RequestSave, SaveImmediately
  <2>2. Command(kind, s) \in Commands /\ Command(kind, s).config = s
    BY DEF Command, Commands, Config, FileContent, Parses
  <2>3. /\ n \in Nat /\ Len(queue'[p]) = n + 1 /\ \A i \in 1 .. n : queue'[p][i] = queue[p][i]
        /\ queue'[p][n + 1].config = s
        /\ \A q \in Process \ {p} : queue'[q] = queue[q]
    BY <2>1, <2>2, PostFacts
  <2>4. /\ UNCHANGED <<job, file, acknowledged>>
        /\ HasLoaded(p) /\ memory[p] \subseteq memory'[p]
        /\ \A q \in Process \ {p} : UNCHANGED <<stage[q], memory[q]>>
    BY <1>10 DEF RequestSave, SaveImmediately, MoveTo, HasLoaded
  <2>5. FileIsKnownTo(p)'
    <3>1. file # Torn /\ SaveInHand(p)' = SaveInHand(p)
      BY <2>4 DEF FileIsKnownTo, SaveInHand
    <3>2. ASSUME Parses(file), NEW i \in 1 .. n + 1, queue'[p][i].kind # "Stop"
          PROVE  file \subseteq queue'[p][i].config
      <4>1. CASE i = n + 1
        BY <2>3, <2>4, <3>2, <4>1 DEF FileIsKnownTo
      <4>2. CASE i # n + 1
        <5>1. i \in 1 .. n
          BY <2>3, <4>2
        <5> QED  BY <2>3, <2>4, <3>2, <5>1 DEF FileIsKnownTo
      <4> QED  BY <4>1, <4>2
    <3>3. Parses(file) => file \subseteq memory'[p] /\ (SaveInHand(p) => file \subseteq job[p].config)
      BY <2>4 DEF FileIsKnownTo
    <3> QED  BY <2>3, <2>4, <3>1, <3>2, <3>3 DEF FileIsKnownTo, Parses
  <2> QED  BY <1>0, <2>3, <2>4, <2>5 DEF ReadableEffect
<1>11. CASE Kill(p)
  BY <1>0, <1>11 DEF Kill, MoveTo, ReadableEffect, FileIsKnownTo, HasLoaded
<1> QED
  BY <1>1, <1>2, <1>3, <1>4, <1>5, <1>6, <1>7, <1>8, <1>9, <1>10, <1>11
     DEF ReadableStep, FaultlessStep, UserStep

\* A step of the only process that runs, on a disk that can be read.
LEMMA ReadableStepKeepsIInv ==
  ASSUME ReadableIInv, Alone, NEW p \in Process, ReadableStep(p)
  PROVE  ReadableIInv' /\ KeepsChanges /\ KeepsCorruptFile
<1>1. ThreadsIInv'
  BY StepFits DEF ReadableIInv
<1>2. ReadableEffect(p)
  BY MigrateLegacyConfigKeepsFile, LoadConfigKeepsFile, ReplaceFileKeepsFile, OtherStepsKeepFile
<1>3. ASSUME NEW q \in Process \ {p} PROVE FileIsKnownTo(q)'
  <2>1. CASE file' = file
    BY <1>2, <2>1, <1>3, OthersStillKnow DEF ReadableIInv, ReadableEffect
  <2>2. CASE stage[p] # "off"
    BY <1>2, <1>3, <2>2 DEF Alone, ReadableEffect, FileIsKnownTo, HasLoaded
  <2>3. file' = file \/ stage[p] # "off"
    BY OtherStepsKeepFile
       DEF ReadableIInv, ThreadsIInv, MigrateLegacyConfig, LoadConfig, ReplaceFile, StagesFit, Saving
  <2> QED  BY <2>1, <2>2, <2>3
<1> QED  BY <1>1, <1>2, <1>3 DEF ReadableIInv, ReadableEffect

-----------------------------------------------------------------------------
(* A disk that can be written.                                             *)

LEMMA OthersStillPending ==
  ASSUME NEW q \in Process, MemoryIsPendingOf(q),
         UNCHANGED <<stage[q], memory[q], queue[q], job[q], file>>
  PROVE  MemoryIsPendingOf(q)'
BY DEF MemoryIsPendingOf, SaveInHand, Saving

\* What a step of a process does to its own settings; those of the others stay.
WritableEffect(p) ==
  /\ MemoryIsPendingOf(p)'
  /\ \A q \in Process \ {p} : UNCHANGED <<stage[q], memory[q], queue[q], job[q]>>

LEMMA StartIsPending ==
  ASSUME WritableIInv, NEW p \in Process,
         MigrateLegacyConfig(p) \/ LoadConfig(p) \/ LoadFailure(p) \/ Launch(p)
  PROVE  WritableEffect(p)
<1> USE DEF WritableIInv, ThreadsIInv, TypeOK
<1>1. CASE MigrateLegacyConfig(p)
  BY <1>1 DEF MigrateLegacyConfig, MoveTo, WritableEffect, MemoryIsPendingOf
<1>2. CASE LoadConfig(p)
  BY <1>2 DEF LoadConfig, MoveTo, WritableEffect, MemoryIsPendingOf, Parses
<1>3. CASE LoadFailure(p)
  BY <1>3 DEF LoadFailure, MoveTo, WritableEffect, MemoryIsPendingOf
<1>4. CASE Launch(p)
  BY <1>4 DEF Launch, MoveTo, WritableEffect, MemoryIsPendingOf
<1> QED  BY <1>1, <1>2, <1>3, <1>4

LEMMA InitializeManagedModelsIsPending ==
  ASSUME WritableIInv, NEW p \in Process, InitializeManagedModels(p)
  PROVE  WritableEffect(p)
<1> USE DEF WritableIInv, ThreadsIInv, TypeOK, InitializeManagedModels, MoveTo
<1>1. queue[p] = <<>> /\ queue' = queue /\ memory'[p] = memory[p] \cup {Managed}
  BY DEF StagesFit
<1>2. MemoryIsPendingOf(p)'
  <2>1. CASE Managed \in memory[p]
    BY <1>1, <2>1 DEF MemoryIsPendingOf, SaveInHand, Saving, Idle, Job
  <2>2. CASE Managed \notin memory[p]
    BY <1>1, <2>2 DEF MemoryIsPendingOf, SaveInHand, Saving, Job
  <2> QED  BY <2>1, <2>2
<1> QED  BY <1>2 DEF WritableEffect

LEMMA StopIsPending ==
  ASSUME WritableIInv, NEW p \in Process, StopWorker(p)
  PROVE  WritableEffect(p)
<1> USE DEF WritableIInv, ThreadsIInv, TypeOK
<1> DEFINE n == Len(queue[p])
<1>1. Command("Stop", {}) \in Commands
  BY DEF Command, Commands, Config
<1>2. /\ n \in Nat /\ Len(queue'[p]) = n + 1 /\ \A i \in 1 .. n : queue'[p][i] = queue[p][i]
      /\ queue'[p][n + 1].kind = "Stop"
      /\ \A q \in Process \ {p} : queue'[q] = queue[q]
  BY <1>1, PostFacts DEF StopWorker, Command
<1>3. ASSUME NEW i \in 1 .. n + 1, queue'[p][i].kind # "Stop",
             i = n + 1 \/ queue'[p][i + 1].kind = "Stop"
      PROVE  queue'[p][i].config = memory[p]
  <2>1. i \in 1 .. n /\ queue'[p][i] = queue[p][i]
    BY <1>2, <1>3
  <2>2. i = n \/ queue[p][i + 1].kind = "Stop"
    <3>1. i # n => i + 1 \in 1 .. n
      BY <1>2, <2>1
    <3> QED  BY <1>2, <1>3, <2>1, <3>1
  <2> QED  BY <1>3, <2>1, <2>2 DEF StopWorker, MemoryIsPendingOf
<1>4. (\A i \in 1 .. n + 1 : queue'[p][i].kind = "Stop") =>
        \A i \in 1 .. n : queue[p][i].kind = "Stop"
  BY <1>2
<1>5. stage'[p] = "stopping" /\ stage[p] = "released" /\ UNCHANGED <<memory, job, file>>
  BY DEF StopWorker, MoveTo
<1>6. MemoryIsPendingOf(p)'
  BY <1>2, <1>3, <1>4, <1>5 DEF MemoryIsPendingOf, SaveInHand
<1> QED  BY <1>2, <1>6 DEF StopWorker, MoveTo, WritableEffect

LEMMA ChangeIsPending ==
  ASSUME WritableIInv, NEW p \in Process, NEW c \in Changes,
         RequestSave(p, c) \/ SaveImmediately(p, c)
  PROVE  WritableEffect(p)
<1> USE DEF WritableIInv, ThreadsIInv, TypeOK
<1> DEFINE n == Len(queue[p])
<1>1. CASE RequestSave(p, c)
  <2>1. memory'[p] = memory[p] \cup {c} /\ Command("Save", memory'[p]) \in Commands
    BY <1>1 DEF RequestSave, Command, Commands, Config, FileContent, Parses
  <2>2. /\ n \in Nat /\ Len(queue'[p]) = n + 1 /\ \A i \in 1 .. n : queue'[p][i] = queue[p][i]
        /\ queue'[p][n + 1] = [kind |-> "Save", config |-> memory'[p]]
        /\ \A q \in Process \ {p} : queue'[q] = queue[q]
    BY <1>1, <2>1, PostFacts DEF RequestSave, Command
  <2>3. \A i \in 1 .. n + 1 : queue'[p][i].kind # "Stop"
    <3>1. \A i \in 1 .. n : queue[p][i].kind # "Stop"
      BY <1>1 DEF RequestSave, StagesFit
    <3>2. \A i \in 1 .. n + 1 : i \in 1 .. n \/ i = n + 1
      BY <2>2
    <3> QED  BY <2>2, <3>1, <3>2
  <2>4. ASSUME NEW i \in 1 .. n + 1, i = n + 1 \/ queue'[p][i + 1].kind = "Stop"
        PROVE  queue'[p][i].config = memory'[p]
    <3>1. i # n + 1 => i + 1 \in 1 .. n + 1
      BY <2>2
    <3> QED  BY <2>2, <2>3, <2>4, <3>1
  <2>5. n + 1 \in 1 .. n + 1
    BY <2>2
  <2>6. MemoryIsPendingOf(p)'
    BY <1>1, <2>2, <2>3, <2>4, <2>5 DEF RequestSave, MemoryIsPendingOf
  <2> QED  BY <1>1, <2>2, <2>6 DEF RequestSave, WritableEffect
<1>2. CASE SaveImmediately(p, c)
  BY <1>2 DEF SaveImmediately, Post, MoveTo, WritableEffect, MemoryIsPendingOf
<1> QED  BY <1>1, <1>2

LEMMA TakeIsPending ==
  ASSUME WritableIInv, NEW p \in Process, TakeSave(p) \/ TakeImmediateSave(p) \/ TakeStop(p)
  PROVE  WritableEffect(p)
<1> USE DEF WritableIInv, ThreadsIInv, TypeOK
<1> DEFINE n == Len(queue[p])
<1>1. PICK kind \in {"Save", "SaveImmediately", "Stop"} : Takes(p, kind)
  BY DEF TakeSave, TakeImmediateSave, TakeStop
<1>2. /\ n \in Nat /\ n # 0 /\ Len(queue'[p]) = n - 1 /\ Head(queue[p]) = queue[p][1]
      /\ \A i \in 1 .. n - 1 : queue'[p][i] = queue[p][i + 1]
      /\ \A q \in Process \ {p} : queue'[q] = queue[q]
  BY <1>1, TakeFacts
<1>3. queue[p][1].kind = kind /\ 1 \in 1 .. n
  BY <1>1, TakeFacts
<1>4. UNCHANGED <<stage, memory, file>> /\ \A q \in Process \ {p} : job'[q] = job[q]
  BY DEF TakeSave, TakeImmediateSave, TakeStop, WorkerUnchanged
<1>5. ASSUME NEW i \in 1 .. n - 1
      PROVE  /\ i + 1 \in 1 .. n /\ queue'[p][i] = queue[p][i + 1]
             /\ i # n - 1 => queue'[p][i + 1] = queue[p][(i + 1) + 1]
  BY <1>2
<1>6. stage[p] # "loaded" /\ stage[p] # "booting"
  BY <1>1 DEF Takes, StagesFit
<1>7. ASSUME stage[p] \in {"running", "released", "stopping"},
             NEW i \in 1 .. n - 1, queue'[p][i].kind # "Stop",
             i = n - 1 \/ queue'[p][i + 1].kind = "Stop"
      PROVE  queue'[p][i].config = memory[p]
  <2>1. i + 1 = n \/ queue[p][(i + 1) + 1].kind = "Stop"
    BY <1>2, <1>5, <1>7
  <2> QED  BY <1>2, <1>5, <1>7, <2>1 DEF MemoryIsPendingOf
<1>8. ASSUME stage[p] \in {"running", "released", "stopping"},
             \A i \in 1 .. n - 1 : queue'[p][i].kind = "Stop"
      PROVE  IF SaveInHand(p)' THEN job'[p].config = memory[p] ELSE file = memory[p]
  <2>1. \A i \in 1 .. n : i = 1 \/ queue[p][i].kind = "Stop"
    <3> SUFFICES ASSUME NEW i \in 1 .. n, i # 1 PROVE queue[p][i].kind = "Stop"
      OBVIOUS
    <3> DEFINE j == i - 1
    <3>1. j \in 1 .. n - 1 /\ j + 1 = i
      BY <1>2
    <3>2. queue'[p][j] = queue[p][j + 1] /\ queue'[p][j].kind = "Stop"
      BY <1>5, <1>8, <3>1
    <3> QED  BY <3>1, <3>2
  <2>2. 1 = n \/ queue[p][1 + 1].kind = "Stop"
    <3> SUFFICES ASSUME n # 1 PROVE queue[p][2].kind = "Stop"
      OBVIOUS
    <3>1. n \in Nat /\ n # 0
      BY <1>2
    <3> HIDE DEF n
    <3>2. 2 \in 1 .. n
      BY <3>1
    <3> QED  BY <2>1, <3>2
  <2>3. CASE TakeSave(p)
    <3>1. queue[p][1].kind = "Save" /\ job'[p] = Job("delay", queue[p][1].config)
      BY <1>2, <2>3, TakeFacts DEF TakeSave
    <3>2. queue[p][1].config = memory[p]
      BY <1>3, <1>8, <2>2, <3>1 DEF MemoryIsPendingOf
    <3> QED  BY <3>1, <3>2 DEF SaveInHand, Saving, Job
  <2>4. CASE TakeImmediateSave(p)
    <3>1. queue[p][1].kind = "SaveImmediately"
      BY <2>4, TakeFacts DEF TakeImmediateSave
    <3> QED  BY <1>3, <1>8, <3>1 DEF StagesFit
  <2>5. CASE TakeStop(p)
    <3>1. queue[p][1].kind = "Stop"
      BY <2>5, TakeFacts DEF TakeStop
    <3>2. IF SaveInHand(p) THEN job[p].config = memory[p] ELSE file = memory[p]
      BY <1>8, <2>1, <3>1 DEF MemoryIsPendingOf
    <3>3. IF job[p].then = "delay"
            THEN job'[p].then = "stop" /\ job'[p].config = job[p].config
            ELSE job[p].then = "idle" /\ job'[p].then = "off"
      BY <2>5 DEF TakeStop, Takes, NoThread, Job
    <3> QED  BY <3>2, <3>3 DEF SaveInHand, Saving
  <2> QED  BY <2>3, <2>4, <2>5
<1>9. MemoryIsPendingOf(p)'
  BY <1>2, <1>4, <1>6, <1>7, <1>8 DEF MemoryIsPendingOf
<1> QED  BY <1>2, <1>4, <1>9 DEF WritableEffect

LEMMA SavingIsPending ==
  ASSUME WritableIInv, NEW p \in Process,
         SaveDelayEnds(p) \/ WriteTemporaryFile(p) \/ SyncTemporaryFile(p) \/ ReplaceFile(p)
  PROVE  WritableEffect(p)
<1> USE DEF WritableIInv, ThreadsIInv, TypeOK
<1>1. CASE SaveDelayEnds(p)
  BY <1>1 DEF SaveDelayEnds, WorkerUnchanged, WritableEffect, MemoryIsPendingOf, SaveInHand, Saving
<1>2. CASE WriteTemporaryFile(p) \/ SyncTemporaryFile(p)
  <2>1. UNCHANGED <<stage, memory, queue, job, file>>
    BY <1>2 DEF WriteTemporaryFile, SyncTemporaryFile, SaveUnchanged
  <2> QED  BY <2>1, OthersStillPending DEF WritableEffect
<1>3. CASE ReplaceFile(p)
  <2>1. file' = job[p].config /\ SaveInHand(p) /\ queue' = queue
    BY <1>3 DEF ReplaceFile, SaveEnds, TempFits, SaveInHand
  <2>2. ~SaveInHand(p)' /\ stage'[p] # "loaded"
    BY <1>3 DEF ReplaceFile, SaveEnds, SaveInHand, Saving, NoThread, Idle, Job, StagesFit
  <2>3. stage[p] \in {"booting", "running", "released", "stopping"} => memory'[p] = memory[p]
    BY <1>3 DEF ReplaceFile, SaveEnds, StagesFit
  <2>4. stage'[p] \in {"booting", "running", "released", "stopping"} =>
          \/ stage[p] \in {"booting", "running", "released", "stopping"}
          \/ job[p].then = "reply" /\ queue[p] = <<>> /\ memory'[p] = job[p].config
    BY <1>3 DEF ReplaceFile, SaveEnds, StagesFit
  <2>5. MemoryIsPendingOf(p)'
    BY <2>1, <2>2, <2>3, <2>4 DEF MemoryIsPendingOf
  <2> QED  BY <1>3, <2>5 DEF ReplaceFile, SaveEnds, WritableEffect
<1> QED  BY <1>1, <1>2, <1>3

LEMMA EndIsPending ==
  ASSUME WritableIInv, NEW p \in Process, JoinWorker(p) \/ Exit(p) \/ Kill(p)
  PROVE  WritableEffect(p)
<1> USE DEF WritableIInv, ThreadsIInv, TypeOK, MoveTo
<1>1. CASE JoinWorker(p)
  BY <1>1 DEF JoinWorker, WritableEffect, MemoryIsPendingOf
<1>2. CASE Exit(p)
  BY <1>2 DEF Exit, WritableEffect, MemoryIsPendingOf, SaveInHand
<1>3. CASE Kill(p)
  BY <1>3 DEF Kill, WritableEffect, MemoryIsPendingOf
<1> QED  BY <1>1, <1>2, <1>3

\* A step of the only process that runs, on a disk that can be written.
LEMMA WritableStepKeepsIInv ==
  ASSUME WritableIInv, Alone, NEW p \in Process, WritableStep(p)
  PROVE  WritableIInv'
<1>1. ThreadsIInv'
  BY StepFits DEF WritableIInv, WritableStep, ReadableStep
<1>2. WritableEffect(p)
  BY StartIsPending, InitializeManagedModelsIsPending, StopIsPending, ChangeIsPending,
     TakeIsPending, SavingIsPending, EndIsPending
     DEF WritableStep, FaultlessStep, UserStep
<1>3. ASSUME NEW q \in Process \ {p} PROVE MemoryIsPendingOf(q)'
  <2>1. CASE file' = file
    BY <1>2, <2>1, <1>3, OthersStillPending DEF WritableIInv, WritableEffect
  <2>2. CASE stage[p] # "off"
    BY <1>2, <1>3, <2>2 DEF Alone, WritableEffect, MemoryIsPendingOf
  <2>3. file' = file \/ stage[p] # "off"
    <3>1. ReplaceFile(p) => stage[p] # "off"
      BY DEF WritableIInv, ThreadsIInv, ReplaceFile, StagesFit, Saving
    <3> QED
      BY <3>1
         DEF WritableStep, FaultlessStep, UserStep, MigrateLegacyConfig, LoadConfig,
             InitializeManagedModels, StopWorker, JoinWorker, TakeSave, TakeImmediateSave,
             TakeStop, SaveDelayEnds, WorkerUnchanged, WriteTemporaryFile, SyncTemporaryFile,
             SaveUnchanged, Launch, Exit, RequestSave, SaveImmediately, LoadFailure, Kill
  <2> QED  BY <2>1, <2>2, <2>3
<1> QED  BY <1>1, <1>2, <1>3 DEF WritableIInv, WritableEffect

LEMMA WritableIInvImpliesPending == WritableIInv => UnsavedIsPending
<1> SUFFICES ASSUME WritableIInv, NEW p \in Process, stage[p] \in {"running", "released", "stopping"}
             PROVE  /\ \A i \in SavesQueued(p) :
                         (\A j \in SavesQueued(p) : j <= i) => queue[p][i].config = memory[p]
                    /\ SavesQueued(p) = {} /\ SaveInHand(p) => job[p].config = memory[p]
                    /\ SavesQueued(p) = {} /\ ~SaveInHand(p) => file = memory[p]
  BY DEF UnsavedIsPending
<1> DEFINE n == Len(queue[p])
<1>1. n \in Nat /\ DOMAIN queue[p] = 1 .. n
  <2>1. queue[p] \in Seq(Commands)
    BY DEF WritableIInv, ThreadsIInv, TypeOK
  <2> QED  BY <2>1
<1>2. ASSUME NEW i \in SavesQueued(p), \A j \in SavesQueued(p) : j <= i
      PROVE  queue[p][i].config = memory[p]
  <2>1. i \in 1 .. n /\ queue[p][i].kind # "Stop"
    BY <1>1 DEF SavesQueued
  <2>2. i = n \/ queue[p][i + 1].kind = "Stop"
    <3> SUFFICES ASSUME i # n, queue[p][i + 1].kind # "Stop" PROVE FALSE
      OBVIOUS
    <3>1. i + 1 \in SavesQueued(p)
      BY <1>1, <2>1 DEF SavesQueued
    <3>2. i + 1 <= i
      BY <1>2, <3>1
    <3> QED  BY <2>1, <3>2
  <2> QED  BY <2>1, <2>2 DEF WritableIInv, MemoryIsPendingOf
<1>3. ASSUME SavesQueued(p) = {}
      PROVE  IF SaveInHand(p) THEN job[p].config = memory[p] ELSE file = memory[p]
  <2>1. \A i \in 1 .. n : queue[p][i].kind = "Stop"
    BY <1>1, <1>3 DEF SavesQueued
  <2> QED  BY <2>1 DEF WritableIInv, MemoryIsPendingOf
<1> QED  BY <1>2, <1>3

-----------------------------------------------------------------------------
(* The theorems.                                                           *)

LEMMA InitIsReadableAndWritable == Init => ReadableIInv /\ WritableIInv
<1> SUFFICES ASSUME Init PROVE ReadableIInv /\ WritableIInv
  OBVIOUS
<1>1. AcknowledgedIsSaved /\ \A p \in Process : stage[p] = "off"
  BY DEF Init, AcknowledgedIsSaved
<1>2. \A p \in Process : FileIsKnownTo(p) /\ MemoryIsPendingOf(p)
  BY <1>1 DEF FileIsKnownTo, HasLoaded, MemoryIsPendingOf
<1> QED  BY <1>1, <1>2, InitFits DEF ReadableIInv, WritableIInv

LEMMA StutterIsReadable ==
  ReadableIInv /\ UNCHANGED vars => ReadableIInv' /\ KeepsChanges /\ KeepsCorruptFile
<1> SUFFICES ASSUME ReadableIInv, UNCHANGED vars
             PROVE  ReadableIInv' /\ KeepsChanges /\ KeepsCorruptFile
  OBVIOUS
<1>1. ThreadsIInv' /\ AcknowledgedIsSaved' /\ \A q \in Process : FileIsKnownTo(q)'
  BY StutterFits, OthersStillKnow DEF ReadableIInv, vars, AcknowledgedIsSaved, Parses
<1>2. KeepsChanges /\ KeepsCorruptFile
  BY DEF vars, KeepsChanges, KeepsCorruptFile, Parses
<1> QED  BY <1>1, <1>2 DEF ReadableIInv

LEMMA StutterIsWritable == WritableIInv /\ UNCHANGED vars => WritableIInv'
BY StutterFits, OthersStillPending DEF WritableIInv, vars

\* On a disk that can be read, however many changes are made, whatever saves
\* fail and wherever processes are killed: what was reported as saved is in the
\* file for ever, the file never loses a change, and one that does not parse
\* goes only into its backup, as long as a process starts only when the one
\* before it has written its settings.
THEOREM ReadableDiskKeepsSettings ==
  ASSUME Faults \cap {"load", "backup"} = {}
  PROVE  Safety /\ []Alone => []AcknowledgedIsSaved /\ FileKeepsChanges /\ CorruptFileIsKept
<1>1. ReadableIInv /\ Alone /\ [Next]_vars => ReadableIInv' /\ KeepsChanges /\ KeepsCorruptFile
  BY NextIsReadableStep, ReadableStepKeepsIInv, StutterIsReadable
<1>2. ReadableIInv => AcknowledgedIsSaved
  BY DEF ReadableIInv
<1>3. Init => ReadableIInv
  BY InitIsReadableAndWritable
<1> QED  BY <1>1, <1>2, <1>3, PTL DEF Safety, FileKeepsChanges, CorruptFileIsKept

\* On a disk that can be written, whatever load has made of the file: under the
\* same condition no setting in memory is forgotten up to the end of an exit.
THEOREM WritableDiskForgetsNothing ==
  ASSUME "save" \notin Faults
  PROVE  Safety /\ []Alone => []UnsavedIsPending
<1>1. WritableIInv /\ Alone /\ [Next]_vars => WritableIInv'
  BY NextIsWritableStep, WritableStepKeepsIInv, StutterIsWritable
<1>2. Init => WritableIInv
  BY InitIsReadableAndWritable
<1> QED  BY <1>1, <1>2, WritableIInvImpliesPending, PTL DEF Safety

\* The same for the settings of one process, started again and again on one
\* disk or the other.
SettingsIInv ==
  /\ ThreadsIInv
  /\ ~Reads => ReadableIInv
  /\ ~Saves => WritableIInv

LEMMA OneIsAlone == Alone
BY DisksAssumption DEF Alone

LEMMA ProcessesStepKeepsSettings ==
  SettingsIInv /\ [ProcessesNext]_processesVars =>
    SettingsIInv' /\ (~Reads => KeepsChanges /\ KeepsCorruptFile)
<1> SUFFICES ASSUME SettingsIInv, [ProcessesNext]_processesVars
             PROVE  SettingsIInv' /\ (~Reads => KeepsChanges /\ KeepsCorruptFile)
  OBVIOUS
<1> USE DEF SettingsIInv
<1>1. CASE Saves /\ Next /\ UNCHANGED <<part, instancesVars>>
  <2>1. PICK p \in Process : ReadableStep(p)
    BY <1>1, NextIsReadableStep, DisksAssumption
  <2>2. ~Reads
    BY <1>1 DEF Saves, Reads
  <2> QED
    BY <1>1, <2>1, <2>2, StepFits, OneIsAlone, ReadableStepKeepsIInv DEF Saves, Reads
<1>2. CASE Reads /\ Unreadable!Next /\ UNCHANGED <<part, instancesVars>>
  <2>1. PICK p \in Process : WritableStep(p)
    BY <1>2, UnreadableIsWritableStep, DisksAssumption
  <2>2. ~Saves
    BY <1>2 DEF Saves, Reads
  <2>3. ReadableStep(p) \/ LoadFailure(p)
    BY <2>1 DEF WritableStep, ReadableStep
  <2> QED
    BY <1>2, <2>1, <2>2, <2>3, StepFits, OneIsAlone, WritableStepKeepsIInv DEF Saves, Reads
<1>3. CASE UNCHANGED <<part, vars>>
  BY <1>3, StutterFits, StutterIsReadable, StutterIsWritable DEF Saves, Reads
<1> QED  BY <1>1, <1>2, <1>3 DEF ProcessesNext, processesVars

LEMMA ProcessesInitEstablishesSettings == ProcessesInit => SettingsIInv
BY InitIsReadableAndWritable DEF ProcessesInit, SettingsIInv, ReadableIInv

\* What was reported as saved stays saved where the file can be read, and where
\* saving does not fail no setting is forgotten.
THEOREM ProcessesKeepSettings == ProcessesSpec => []SettingsAreKept
<1>1. SettingsIInv => SettingsAreKept
  BY WritableIInvImpliesPending DEF SettingsIInv, SettingsAreKept, ThreadsIInv, ReadableIInv
<1> QED
  BY <1>1, ProcessesInitEstablishesSettings, ProcessesStepKeepsSettings, PTL DEF ProcessesSpec

\* No step of a process takes a change out of a file that can be read, or loses
\* one that does not parse.
THEOREM ProcessesKeepTheFile == ProcessesSpec => FileSurvives
<1>1. SettingsIInv /\ [ProcessesNext]_processesVars =>
        [~Reads => KeepsChanges /\ KeepsCorruptFile]_vars
  BY ProcessesStepKeepsSettings
<1> QED
  BY <1>1, ProcessesInitEstablishesSettings, ProcessesStepKeepsSettings, PTL
     DEF ProcessesSpec, FileSurvives
====

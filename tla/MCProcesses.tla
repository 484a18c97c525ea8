----------------------------- MODULE MCProcesses -----------------------------
(***************************************************************************)
(* The life of processes of the program, in three parts: their settings on *)
(* a disk where saving may fail, on one where reading may fail, and the    *)
(* mutex and the event between them.  A behaviour shows one part; the      *)
(* others rest in an initial state.                                        *)
(***************************************************************************)
EXTENDS ConfigPersistence

CONSTANTS
  UnreadableFaults,  \* what fails in place of Faults where reading may
  Launched,          \* launches, for SingleInstance
  LaunchFaults

VARIABLES
  part,
  \* SingleInstance; place is its stage
  place, listener, stopSent, eventHandles, mutexHandles, signal, inHand, posted,
  shown, left, late

Unreadable == INSTANCE ConfigPersistence WITH Faults <- UnreadableFaults

Instances == INSTANCE SingleInstance
  WITH Process <- Launched, Faults <- LaunchFaults, stage <- place

ASSUME LaunchFaultsAssumption == Instances!FaultsAssumption

\* One disk can be read and the other can be written, and on each of them one
\* process, started again and again, keeps its settings.
ASSUME DisksAssumption ==
  /\ Faults \cap {"load", "backup"} = {}
  /\ "save" \notin UnreadableFaults
  /\ \A p, q \in Process : p = q

Saves    == part = "saves"
Reads    == part = "reads"
Launches == part = "launches"

instancesVars == <<place, listener, stopSent, eventHandles, mutexHandles, signal, inHand,
                   posted, shown, left, late>>

processesVars == <<part, vars, instancesVars>>

ProcessesInit ==
  /\ part \in {"saves", "reads", "launches"}
  /\ Init /\ (Launches => file = Missing)
  /\ Instances!Init

ProcessesNext ==
  \/ Saves    /\ Next            /\ UNCHANGED <<part, instancesVars>>
  \/ Reads    /\ Unreadable!Next /\ UNCHANGED <<part, instancesVars>>
  \/ Launches /\ Instances!Next  /\ UNCHANGED <<part, vars>>

MainGoesOn(p)   == (Saves /\ MainStep(p)) \/ (Reads /\ Unreadable!MainStep(p))
WorkerGoesOn(p) == (Saves /\ WorkerStep(p)) \/ (Reads /\ Unreadable!WorkerStep(p))

\* The fairness of the two specifications, each for its own part.
ProcessesSpec ==
  /\ ProcessesInit /\ [][ProcessesNext]_processesVars
  /\ \A p \in Process : WF_vars(MainGoesOn(p)) /\ WF_vars(WorkerGoesOn(p))
  /\ \A p \in Launched :
       /\ WF_instancesVars(Launches /\ Instances!Step(p))
       /\ WF_instancesVars(Launches /\ Instances!Listen(p))

-----------------------------------------------------------------------------
(* Properties: those of the two modules, where they are promised.          *)

\* Where the file can be read, what was reported as saved is in it for ever; where
\* saving does not fail, no setting in memory is forgotten, whatever load has
\* made of the file.
SettingsAreKept ==
  /\ TypeOK
  /\ ~Reads => AcknowledgedIsSaved
  /\ ~Saves => UnsavedIsPending

\* Where the file can be read, no save, failed save, crash or restart takes a
\* change out of it again, and a corrupt file disappears only into its backup.
FileSurvives == [][~Reads => KeepsChanges /\ KeepsCorruptFile]_vars

\* At most one process is the primary instance, and the handles, the event and
\* the threads of every launch fit together.
OnePrimary == Instances!TypeOK /\ Instances!OnePrimary

\* A caller of an immediate save gets its answer, main comes to the end of an
\* exit, and the listener sees the request to stop.
NobodyWaitsForEver == ImmediateSaveReturns /\ ExitReturns /\ Instances!ShutdownEnds

\* A second launch has the window of the primary instance restored.
NotifiedIsShown == Instances!NotifiedIsShown

==============================================================================

--------------------------- MODULE SingleInstance ---------------------------
(***************************************************************************)
(* Processes of one user that meet at a named mutex and a named auto-reset *)
(* event: the first one becomes the primary instance and listens, the      *)
(* others set the event and leave (apps/desktop/src/single_instance.rs).   *)
(* The event is the set of those who have set it since it was last taken:  *)
(* it is signalled when that set is not empty.                             *)
(***************************************************************************)
EXTENDS FiniteSets, Naturals

CONSTANTS
  Process,      \* the launches of the program, each happens at most once
  Faults        \* what may go wrong, a subset of {"start", "crash"}

FaultsAssumption == Faults \subseteq {"start", "crash"}

VARIABLES
  stage,         \* how far the main thread of a process is
  listener,      \* its thread single-instance-wake
  stopSent,      \* a message is in its stop channel
  eventHandles,  \* external: processes with an open handle of the event
  mutexHandles,  \* external: processes with an open handle of the mutex
  signal,        \* external: who has set the event since it was last reset
  inHand,        \* what the return of the wait of a listener stands for
  posted,        \* wake closures in the event loop of a process
  shown,         \* history: launches for which a window has been restored
  left,          \* history: primary instances that are not any more
  late           \* history: launches after which no primary was left

kernel == <<eventHandles, mutexHandles, signal>>
threads == <<stage, listener, stopSent>>
vars == <<threads, kernel, inHand, posted, shown, left, late>>

Init ==
  /\ stage = [p \in Process |-> "off"] /\ listener = [p \in Process |-> "none"]
  /\ stopSent = [p \in Process |-> FALSE]
  /\ eventHandles = {} /\ mutexHandles = {} /\ signal = {}
  /\ inHand = [p \in Process |-> {}] /\ posted = [p \in Process |-> {}]
  /\ shown = {} /\ left = {} /\ late = {}

Hosts == {p \in Process : stage[p] \in {"primary", "running"}}

\* The last handle takes the object with it.
CloseEvent(p) ==
  /\ eventHandles' = eventHandles \ {p}
  /\ signal' = IF eventHandles' = {} THEN {} ELSE signal

CloseMutex(p) == mutexHandles' = mutexHandles \ {p}

-----------------------------------------------------------------------------
(* acquire_named *)

\* CreateEventW
Launch(p) ==
  /\ stage[p] = "off" /\ stage' = [stage EXCEPT ![p] = "event"]
  /\ eventHandles' = eventHandles \cup {p}
  /\ late' = IF left # {} /\ Hosts = {} THEN late \cup {p} ELSE late
  /\ UNCHANGED <<listener, stopSent, mutexHandles, signal, inHand, posted, shown, left>>

\* CreateMutexW and GetLastError
CreateMutex(p) ==
  /\ stage[p] = "event"
  /\ stage' = [stage EXCEPT ![p] = IF mutexHandles = {} THEN "primary" ELSE "secondary"]
  /\ mutexHandles' = mutexHandles \cup {p}
  /\ UNCHANGED <<listener, stopSent, eventHandles, signal, inHand, posted, shown, left, late>>

\* SetEvent of a secondary instance, as if only a waiting thread could see it
NotifyFaulty(p) ==
  /\ stage[p] = "secondary" /\ stage' = [stage EXCEPT ![p] = "notified"]
  /\ signal' = IF \E q \in Process : listener[q] = "waiting" THEN signal \cup {p} ELSE signal
  /\ UNCHANGED <<listener, stopSent, eventHandles, mutexHandles, inHand, posted, shown, left, late>>

Notify(p) ==
  /\ stage[p] = "secondary" /\ stage' = [stage EXCEPT ![p] = "notified"]
  /\ signal' = signal \cup {p}
  /\ UNCHANGED <<listener, stopSent, eventHandles, mutexHandles, inHand, posted, shown, left, late>>

\* acquire_named returns and drops its handles, main returns.
Leave(p) ==
  /\ stage[p] = "notified" /\ stage' = [stage EXCEPT ![p] = "gone"]
  /\ CloseEvent(p) /\ CloseMutex(p)
  /\ UNCHANGED <<listener, stopSent, inHand, posted, shown, left, late>>

-----------------------------------------------------------------------------
(* The primary instance *)

\* An error of main before the listener is started drops PrimaryInstance.
StartFails(p) ==
  /\ "start" \in Faults
  /\ stage[p] = "primary" /\ stage' = [stage EXCEPT ![p] = "gone"]
  /\ CloseEvent(p) /\ CloseMutex(p)
  /\ left' = left \cup {p}
  /\ UNCHANGED <<listener, stopSent, inHand, posted, shown, late>>

\* start_wake_listener without drop(self.mutex) in the closure, which is all
\* that moves the mutex into it
StartListenerFaulty(p) ==
  /\ stage[p] = "primary" /\ stage' = [stage EXCEPT ![p] = "running"]
  /\ listener' = [listener EXCEPT ![p] = "waiting"]
  /\ CloseMutex(p)
  /\ UNCHANGED <<stopSent, eventHandles, signal, inHand, posted, shown, left, late>>

\* start_wake_listener; the event loop follows.
StartListener(p) ==
  /\ stage[p] = "primary" /\ stage' = [stage EXCEPT ![p] = "running"]
  /\ listener' = [listener EXCEPT ![p] = "waiting"]
  /\ UNCHANGED <<stopSent, kernel, inHand, posted, shown, left, late>>

\* WaitForSingleObject returns and resets the event.
WaitReturns(p) ==
  /\ listener[p] = "waiting" /\ signal # {}
  /\ listener' = [listener EXCEPT ![p] = "woken"]
  /\ inHand' = [inHand EXCEPT ![p] = signal] /\ signal' = {}
  /\ UNCHANGED <<stage, stopSent, eventHandles, mutexHandles, posted, shown, left, late>>

\* try_recv finds nothing: on_wake posts a closure to the event loop.
OnWake(p) ==
  /\ listener[p] = "woken" /\ ~stopSent[p]
  /\ listener' = [listener EXCEPT ![p] = "waiting"]
  /\ posted' = [posted EXCEPT ![p] = @ \cup inHand[p]]
  /\ inHand' = [inHand EXCEPT ![p] = {}]
  /\ UNCHANGED <<stage, stopSent, kernel, shown, left, late>>

\* try_recv finds the message: the loop ends and the mutex is dropped.
Break(p) ==
  /\ listener[p] = "woken" /\ stopSent[p]
  /\ listener' = [listener EXCEPT ![p] = "released"]
  /\ inHand' = [inHand EXCEPT ![p] = {}]
  /\ CloseMutex(p)
  /\ UNCHANGED <<stage, stopSent, eventHandles, signal, posted, shown, left, late>>

\* The end of the closure drops the event.
ListenerEnds(p) ==
  /\ listener[p] = "released" /\ listener' = [listener EXCEPT ![p] = "ended"]
  /\ CloseEvent(p)
  /\ UNCHANGED <<stage, stopSent, mutexHandles, inHand, posted, shown, left, late>>

\* The event loop runs wake_requested: restore_window.
Restore(p) ==
  /\ stage[p] = "running" /\ posted[p] # {}
  /\ shown' = shown \cup posted[p] /\ posted' = [posted EXCEPT ![p] = {}]
  /\ UNCHANGED <<threads, kernel, inHand, left, late>>

\* run_event_loop returns; closures that are still posted never run.
Quit(p) ==
  /\ stage[p] = "running" /\ stage' = [stage EXCEPT ![p] = "quit"]
  /\ left' = left \cup {p}
  /\ UNCHANGED <<listener, stopSent, kernel, inHand, posted, shown, late>>

\* SingleInstanceRuntime::drop, with the message after the event
DropFaulty(p) ==
  /\ \/ /\ stage[p] = "quit" /\ stage' = [stage EXCEPT ![p] = "sent"]
        /\ signal' = signal \cup {p} /\ UNCHANGED stopSent
     \/ /\ stage[p] = "sent" /\ stage' = [stage EXCEPT ![p] = "joining"]
        /\ stopSent' = [stopSent EXCEPT ![p] = TRUE] /\ UNCHANGED signal
  /\ UNCHANGED <<listener, eventHandles, mutexHandles, inHand, posted, shown, left, late>>

\* SingleInstanceRuntime::drop: the message and then the event.  The handle
\* may already be closed, when another process has woken the listener between
\* the two; SetEvent then has no effect.
SendStop(p) ==
  /\ stage[p] = "quit" /\ stage' = [stage EXCEPT ![p] = "sent"]
  /\ stopSent' = [stopSent EXCEPT ![p] = TRUE]
  /\ UNCHANGED <<listener, kernel, inHand, posted, shown, left, late>>

SetStop(p) ==
  /\ stage[p] = "sent" /\ stage' = [stage EXCEPT ![p] = "joining"]
  /\ signal' = IF p \in eventHandles THEN signal \cup {p} ELSE signal
  /\ UNCHANGED <<listener, stopSent, eventHandles, mutexHandles, inHand, posted, shown, left, late>>

Drop(p) == SendStop(p) \/ SetStop(p)

\* join; the other workers are stopped and main returns.
Join(p) ==
  /\ stage[p] = "joining" /\ listener[p] = "ended"
  /\ stage' = [stage EXCEPT ![p] = "gone"]
  /\ UNCHANGED <<listener, stopSent, kernel, inHand, posted, shown, left, late>>

\* The end of a process at any point closes its handles.
Crash(p) ==
  /\ "crash" \in Faults /\ stage[p] \notin {"off", "gone"}
  /\ stage' = [stage EXCEPT ![p] = "gone"] /\ listener' = [listener EXCEPT ![p] = "none"]
  /\ CloseEvent(p) /\ CloseMutex(p)
  /\ left' = IF p \in Hosts THEN left \cup {p} ELSE left
  /\ UNCHANGED <<stopSent, inHand, posted, shown, late>>

-----------------------------------------------------------------------------

Step(p) ==
  \/ CreateMutex(p) \/ Notify(p) \/ Leave(p) \/ StartListener(p) \/ Restore(p)
  \/ Drop(p) \/ Join(p)

Listen(p) == WaitReturns(p) \/ OnWake(p) \/ Break(p) \/ ListenerEnds(p)

Next ==
  \E p \in Process :
    Launch(p) \/ Step(p) \/ Listen(p) \/ StartFails(p) \/ Quit(p) \/ Crash(p)

Spec == Init /\ [][Next]_vars

\* Threads run; nothing is assumed of users and failures.
FairSpec == Spec /\ \A p \in Process : WF_vars(Step(p)) /\ WF_vars(Listen(p))

-----------------------------------------------------------------------------
(* Properties. *)

\* A process that listens keeps both objects alive under their names, and only
\* an open event is signalled.
TypeOK ==
  /\ stage \in [Process -> {"off", "event", "primary", "secondary", "notified", "running",
                            "quit", "sent", "joining", "gone"}]
  /\ listener \in [Process -> {"none", "waiting", "woken", "released", "ended"}]
  /\ stopSent \in [Process -> BOOLEAN]
  /\ eventHandles \subseteq Process /\ mutexHandles \subseteq Process
  /\ signal \subseteq Process /\ (signal # {} => eventHandles # {})
  /\ inHand \in [Process -> SUBSET Process] /\ posted \in [Process -> SUBSET Process]
  /\ \A p \in Process : listener[p] \in {"waiting", "woken"} => p \in eventHandles \cap mutexHandles

\* However launches, shutdowns and crashes follow each other, at most one
\* process is the primary instance.
OnePrimary == Cardinality(Hosts) <= 1

\* The listener sees the stop request, whoever else sets the event meanwhile,
\* and the program can end.
ShutdownEnds == \A p \in Process : (stage[p] = "quit") ~> (stage[p] = "gone")

\* A second launch has the window of the primary instance restored, also when
\* it comes before the listener or together with others, unless that one ends.
NotifiedIsShown ==
  \A p \in Process : \A q \in Process \ {p} :
    (stage[p] = "notified" /\ q \in Hosts) ~> (p \in shown \/ q \in left)

\* docs/plans/2026-07-30-p2-desktop-shell-design.md:27: a second instance only
\* wakes the first one.  So a launch after the first has quit has a window: it
\* finds a primary instance that can be woken, or is one itself.
LaunchIsServed ==
  \A p \in Process : (p \in late) ~> (p \in shown \/ stage[p] = "running")

=============================================================================

----------------------------- MODULE WindowShell -----------------------------
(***************************************************************************)
(* The window of the assistant: the life cycle kept by WindowState, the    *)
(* callbacks of the window, the tray and the second instance, the native   *)
(* events they provoke, and the timers that put the window back.           *)
(* Everything runs on the event loop, one callback at a time; what the     *)
(* native window is told is answered by Moved and Resized events later.    *)
(***************************************************************************)
EXTENDS WindowGeometry

CONSTANTS
  None,
  Screens,      \* the work areas, as display::work_areas reports them
  Mascot,       \* outer size of the collapsed window
  Panel,        \* outer size of the expanded window
  Places,       \* bound: where the user drops the window
  SavedPlaces,  \* positions the configuration may hold at launch; None for none
  OpenedAt,     \* where Windows opens the window
  Flag,         \* bound: the options the user toggles
  Tabs,         \* bound: the tabs the user visits; tab 0 is the monitor
  MaxTimers,    \* bound: pending pairs of timers
  Patient,      \* TRUE: the user waits until the timers have run
  Batched,      \* TRUE: timers due together run before their events are handled
  ShowFails     \* TRUE: ui.show may report an error

ASSUME ShellAssumption ==
  /\ Screens \in Seq(RectScreen) \ {<<>>}
  /\ Mascot \in Size /\ Panel \in Size
  /\ Places \subseteq Position /\ OpenedAt \in Position
  /\ SavedPlaces \subseteq Position \cup {None} /\ None \notin Position
  /\ {"positionLocked"} \subseteq Flag /\ Flag \subseteq {"positionLocked", "alwaysOnTop"}
  /\ Tabs \subseteq 0..2 /\ 0 \in Tabs
  /\ MaxTimers \in Nat
  /\ {Patient, Batched, ShowFails} \subseteq BOOLEAN

Phase == {"Collapsed", "Expanded", "Hidden", "Exiting"}
Mode  == {"Collapsed", "Expanded"}

VARIABLES
  phase, mode,  \* WindowState: phase and last_visible_mode
  flags,        \* WindowState: always_on_top, position_locked
  remembered,   \* WindowState: collapsed_position
  ui,           \* properties of AppWindow: visible, expanded, flags, tab
  tray,         \* properties of AssistantTray: visible, expanded, flags
  activity,     \* the last MonitorActivity sent to the monitor worker
  gesture,      \* DragGesture, and the native drag it began
  position,     \* of the native window
  size,         \* of the native window, which follows ui.expanded
  events,       \* native events not handled yet
  dispatching,  \* some of them are handled, the others wait for their turn
  launch,       \* the timers of 150 and 400 ms: position and how many are left
  soon, late,   \* the timers of 50 and 200 ms, oldest first
  stored,       \* config.window_position, as last given to the saver
  mascotPlace   \* history: where the mascot belongs

stateVars  == <<phase, mode, flags, remembered>>
nativeVars == <<position, size, events, dispatching>>
timerVars  == <<launch, soon, late>>
vars == <<stateVars, ui, tray, activity, gesture, nativeVars, timerVars, stored, mascotPlace>>

Activity == {"Interactive", "Background", "Hidden"}
Moved(p) == [kind |-> "Moved", position |-> p]
Resized  == [kind |-> "Resized"]

TypeOK ==
  /\ phase \in Phase /\ mode \in Mode
  /\ flags \in [Flag -> BOOLEAN]
  /\ remembered \in Position \cup {None}
  /\ ui \in [visible : BOOLEAN, expanded : BOOLEAN, flags : [Flag -> BOOLEAN], tab : Tabs]
  /\ tray \in [visible : BOOLEAN, expanded : BOOLEAN, flags : [Flag -> BOOLEAN]]
  /\ activity \in Activity
  /\ gesture \in {"None", "Pressed", "Dragging"}
  /\ position \in Position /\ size \in {Mascot, Panel}
  /\ events \in Seq([kind : {"Moved"}, position : Position] \cup {Resized})
  /\ dispatching \in BOOLEAN
  /\ launch \in [position : Position \cup {None}, left : 0..2]
  /\ soon \in Seq(Position) /\ late \in Seq(Position)
  /\ Len(soon) <= Len(late) /\ Len(late) <= MaxTimers
  /\ stored \in Position \cup {None}
  /\ mascotPlace \in Position

-----------------------------------------------------------------------------
(* Helpers of main.rs. *)

LayoutOf(expanded) == IF expanded THEN Panel ELSE Mascot

MonitorActivity(visible, expanded, tab) ==
  IF ~visible THEN "Hidden"
  ELSE IF expanded /\ tab = 0 THEN "Interactive" ELSE "Background"

VisiblePhases == {"Collapsed", "Expanded"}

\* sync_tray_state
SyncTray ==
  tray' = [visible  |-> phase' \in VisiblePhases,
           expanded |-> phase' = "Expanded",
           flags    |-> flags]

\* notify_monitor_activity
Notify == activity' = MonitorActivity(ui'.visible, ui'.expanded, ui'.tab)

TimersIdle == late = <<>> /\ launch.left = 0
NoEvents   == events = <<>>

LaidOut    == size = LayoutOf(ui.expanded)

\* Before the next input is taken, the window gets its size (a timer of no
\* length in the toolkit) and the native events that are buffered are handled.
UserActs ==
  /\ NoEvents /\ LaidOut
  /\ phase # "Exiting"
  /\ Patient => TimersIdle

\* Faulty: saves what was asked for.
RecoverFaulty(p, m, rest) ==
  \E target \in {ClampForMode(p, size, Screens, m)} :
    /\ position' = target
    /\ events' = rest \o IF target # position THEN <<Moved(target)>> ELSE <<>>
    /\ stored' = p

\* recover_and_store_window_position: the window is moved unless it already
\* stands there, and Windows answers a move with an event.
Recover(p, m, rest) ==
  \E target \in {ClampForMode(p, size, Screens, m)} :
    /\ position' = target
    /\ events' = rest \o IF target # position THEN <<Moved(target)>> ELSE <<>>
    /\ stored' = target

-----------------------------------------------------------------------------
(* Launch: WindowState::start, ui.show, restore_saved_window_position_later *)

Init ==
  /\ phase = "Collapsed" /\ mode = "Collapsed"
  /\ \E f \in [Flag -> BOOLEAN] :
       /\ flags = f
       /\ ui = [visible |-> TRUE, expanded |-> FALSE, flags |-> f, tab |-> 0]
       /\ tray = [visible |-> TRUE, expanded |-> FALSE, flags |-> f]
  /\ remembered = None
  /\ activity = "Background"
  /\ gesture = "None"
  /\ position = OpenedAt /\ size = Mascot /\ events = <<>> /\ dispatching = FALSE
  /\ \E p \in SavedPlaces :
       /\ stored = p
       /\ launch = [position |-> p, left |-> IF p = None THEN 0 ELSE 2]
       /\ mascotPlace = IF p = None THEN OpenedAt
                        ELSE ClampForMode(p, Mascot, Screens, "Collapsed")
  /\ soon = <<>> /\ late = <<>>

-----------------------------------------------------------------------------
(* Expanding, collapsing, hiding, restoring. *)

\* toggle_window and open_settings: remember_collapsed_position, then toggle.
Expand(tab) ==
  /\ remembered' = position
  /\ phase' = "Expanded" /\ mode' = "Expanded"
  /\ ui' = [ui EXCEPT !.expanded = TRUE, !.tab = tab]
  /\ Notify /\ SyncTray
  /\ UNCHANGED <<flags, timerVars>>

\* collapse_window
Collapse ==
  /\ phase' = "Collapsed" /\ mode' = "Collapsed"
  /\ ui' = [ui EXCEPT !.expanded = FALSE]
  /\ Notify /\ SyncTray
  /\ remembered' = None
  /\ IF remembered = None
       THEN UNCHANGED <<soon, late>>
       ELSE /\ Len(late) < MaxTimers
            /\ soon' = Append(soon, remembered) /\ late' = Append(late, remembered)
  /\ UNCHANGED <<flags, launch>>

\* toggle_window
Toggle ==
  \/ phase = "Expanded" /\ Collapse
  \/ phase = "Collapsed" /\ Expand(ui.tab)

\* The close button of the panel, or the tray's menu item, which is enabled
\* while the window is visible.
ToggleRequested ==
  /\ UserActs
  /\ ui.expanded \/ tray.visible
  /\ Toggle
  /\ UNCHANGED <<gesture, nativeVars, stored, mascotPlace>>

\* mascot_clicked: take_click refuses the end of a drag, and forgets the press.
MascotClicked ==
  /\ UserActs /\ ui.visible /\ ~ui.expanded
  /\ gesture' = "None"
  /\ IF gesture = "Pressed" /\ phase \in VisiblePhases
       THEN Toggle
       ELSE UNCHANGED <<stateVars, ui, tray, activity, timerVars>>
  /\ UNCHANGED <<nativeVars, stored, mascotPlace>>

\* Escape, in register_window_events
EscapePressed ==
  /\ UserActs /\ ui.visible
  /\ phase = "Expanded" /\ Collapse
  /\ UNCHANGED <<gesture, nativeVars, stored, mascotPlace>>

\* Faulty: the monitor worker is not told.
HideFaulty ==
  /\ UserActs
  /\ phase \in VisiblePhases
  /\ phase' = "Hidden"
  /\ ui' = [ui EXCEPT !.visible = FALSE]
  /\ SyncTray
  /\ UNCHANGED <<mode, flags, remembered, activity, gesture, nativeVars, timerVars, stored,
                 mascotPlace>>

\* hide_window
Hide ==
  /\ UserActs
  /\ phase \in VisiblePhases
  /\ phase' = "Hidden"
  /\ ui' = [ui EXCEPT !.visible = FALSE]
  /\ SyncTray /\ Notify
  /\ UNCHANGED <<mode, flags, remembered, gesture, nativeVars, timerVars, stored, mascotPlace>>

\* restore_window, up to ui.show.
Restored(tab) ==
  LET next == IF phase = "Hidden" THEN mode ELSE phase
  IN  [phase |-> next,
       ui |-> [ui EXCEPT !.expanded = IF phase = "Hidden" THEN mode = "Expanded" ELSE @,
                         !.tab = tab]]

\* restore_window: the tray icon, its menu item, or a second instance.
Restore ==
  /\ UserActs
  /\ \E shown \in {TRUE} \cup IF ShowFails THEN {FALSE} ELSE {} :
       /\ phase' = Restored(ui.tab).phase
       /\ ui' = [Restored(ui.tab).ui EXCEPT !.visible = @ \/ shown]
       /\ SyncTray
       /\ IF shown THEN Notify ELSE UNCHANGED activity
  /\ UNCHANGED <<mode, flags, remembered, gesture, nativeVars, timerVars, stored, mascotPlace>>

\* Faulty: the tray keeps what restore_window showed.
OpenSettingsFaulty ==
  /\ UserActs /\ 2 \in Tabs
  /\ phase' = "Expanded" /\ mode' = "Expanded"
  /\ remembered' = IF Restored(2).phase = "Collapsed" THEN position ELSE remembered
  /\ ui' = [ui EXCEPT !.expanded = TRUE, !.tab = 2, !.visible = TRUE]
  /\ tray' = [tray EXCEPT !.visible = TRUE, !.expanded = Restored(2).phase = "Expanded"]
  /\ Notify
  /\ UNCHANGED <<flags, gesture, nativeVars, timerVars, stored, mascotPlace>>

\* Faulty: the place of the mascot is not remembered.
OpenSettingsForgets ==
  /\ UserActs /\ 2 \in Tabs
  /\ phase' = "Expanded" /\ mode' = "Expanded"
  /\ ui' = [ui EXCEPT !.expanded = TRUE, !.tab = 2, !.visible = TRUE]
  /\ Notify /\ SyncTray
  /\ UNCHANGED <<flags, remembered, gesture, nativeVars, timerVars, stored, mascotPlace>>

\* open_settings: restore_window, and the panel if the mascot is what shows.
OpenSettings ==
  /\ UserActs /\ 2 \in Tabs
  /\ \E shown \in {TRUE} \cup IF ShowFails THEN {FALSE} ELSE {} :
       /\ phase' = "Expanded" /\ mode' = "Expanded"
       /\ remembered' = IF Restored(2).phase = "Collapsed" THEN position ELSE remembered
       /\ ui' = [ui EXCEPT !.expanded = TRUE, !.tab = 2, !.visible = @ \/ shown]
       /\ Notify /\ SyncTray
  /\ UNCHANGED <<flags, gesture, nativeVars, timerVars, stored, mascotPlace>>

\* A tab button of the panel.
SelectTab ==
  /\ UserActs /\ ui.visible /\ ui.expanded
  /\ \E t \in Tabs : ui' = [ui EXCEPT !.tab = t]
  /\ Notify
  /\ UNCHANGED <<stateVars, tray, gesture, nativeVars, timerVars, stored, mascotPlace>>

\* exit_requested, and the end of the event loop.
Exit ==
  /\ UserActs
  /\ phase' = "Exiting"
  /\ UNCHANGED <<mode, flags, remembered, ui, tray, activity, gesture, nativeVars, timerVars,
                 stored, mascotPlace>>

\* toggle_always_on_top and toggle_position_lock, which also ends a gesture.
ToggleFlag(f) ==
  /\ UserActs
  /\ flags' = [flags EXCEPT ![f] = ~@]
  /\ ui'   = [ui EXCEPT !.flags[f] = flags'[f]]
  /\ tray' = [tray EXCEPT !.flags[f] = flags'[f]]
  /\ gesture' = IF f = "positionLocked" /\ flags'[f] THEN "None" ELSE gesture
  /\ UNCHANGED <<phase, mode, remembered, activity, nativeVars, timerVars, stored, mascotPlace>>

-----------------------------------------------------------------------------
(* Dragging. *)

\* drag_pointer_pressed, on the mascot or on the header of the panel.
Press ==
  /\ UserActs /\ ui.visible
  /\ gesture' = "Pressed"
  /\ UNCHANGED <<stateVars, ui, tray, activity, nativeVars, timerVars, stored, mascotPlace>>

\* drag_pointer_moved beyond the threshold, and the drag the system runs from
\* there: each position of it arrives as a Moved event.
CanDrag == ~flags["positionLocked"] /\ phase \in VisiblePhases

DragTo(p) ==
  /\ UserActs /\ CanDrag
  /\ gesture \in {"Pressed", "Dragging"}
  /\ gesture' = "Dragging"
  /\ p # position
  /\ position' = p
  /\ events' = <<Moved(p)>>
  /\ mascotPlace' = IF phase = "Collapsed"
                      THEN ClampForMode(p, Mascot, Screens, "Collapsed") ELSE mascotPlace
  /\ UNCHANGED <<stateVars, ui, tray, activity, size, dispatching, timerVars, stored>>

-----------------------------------------------------------------------------
(* What comes back from the native window, and the timers. *)

\* The window takes the size its expanded property asks for.
ApplyLayout ==
  /\ NoEvents /\ ~LaidOut
  /\ phase # "Exiting"
  /\ size' = LayoutOf(ui.expanded)
  /\ events' = <<Resized>>
  /\ UNCHANGED <<stateVars, ui, tray, activity, gesture, position, dispatching, timerVars,
                 stored, mascotPlace>>

\* Faulty: recovers every window as if it were the mascot.
HandleEventFaulty ==
  /\ ~NoEvents
  /\ LET e == Head(events)
     IN  Recover(IF e.kind = "Moved" THEN e.position ELSE position, "Collapsed", Tail(events))
  /\ dispatching' = (events' # <<>>)
  /\ UNCHANGED <<stateVars, ui, tray, activity, gesture, size, timerVars, mascotPlace>>

\* The handler of register_window_events: a Moved event says where the window
\* stood when it was sent, any other event where it stands now.
HandleEvent ==
  /\ ~NoEvents
  /\ LET e == Head(events)
     IN  Recover(IF e.kind = "Moved" THEN e.position ELSE position, mode, Tail(events))
  /\ dispatching' = (events' # <<>>)
  /\ UNCHANGED <<stateVars, ui, tray, activity, gesture, size, timerVars, mascotPlace>>

TimerRuns ==
  /\ phase # "Exiting" /\ LaidOut
  /\ IF Batched THEN ~dispatching ELSE NoEvents
  /\ UNCHANGED <<stateVars, ui, tray, activity, gesture, size, dispatching, mascotPlace>>

\* restore_saved_window_position_later
LaunchTimer ==
  /\ TimerRuns
  /\ launch.left > 0
  /\ launch' = [launch EXCEPT !.left = @ - 1]
  /\ Recover(launch.position, "Collapsed", events)
  /\ UNCHANGED <<soon, late>>

\* Faulty: does not wait for the timer of 50 ms.
LateTimerFaulty ==
  /\ TimerRuns
  /\ late # <<>>
  /\ late' = Tail(late)
  /\ Recover(Head(late), "Collapsed", events)
  /\ UNCHANGED <<launch, soon>>

\* restore_collapsed_position_later: the timer of 50 ms of a collapse runs
\* before its timer of 200 ms, and each kind in the order it was set.
SoonTimer ==
  /\ TimerRuns
  /\ soon # <<>>
  /\ soon' = Tail(soon)
  /\ Recover(Head(soon), "Collapsed", events)
  /\ UNCHANGED <<launch, late>>

LateTimer ==
  /\ TimerRuns
  /\ Len(late) > Len(soon)
  /\ late' = Tail(late)
  /\ Recover(Head(late), "Collapsed", events)
  /\ UNCHANGED <<launch, soon>>

-----------------------------------------------------------------------------

Gesture == Press \/ \E p \in Places : DragTo(p)

User ==
  \/ ToggleRequested \/ MascotClicked \/ EscapePressed
  \/ Hide \/ Restore \/ OpenSettings \/ SelectTab \/ Exit
  \/ \E f \in Flag : ToggleFlag(f)
  \/ Gesture

Timers == LaunchTimer \/ SoonTimer \/ LateTimer

Next == User \/ ApplyLayout \/ HandleEvent \/ Timers

Spec == Init /\ [][Next]_vars

\* The event loop goes on: what is buffered is handled, what is due runs.  Nothing
\* obliges the user.
FairSpec == Spec /\ WF_vars(ApplyLayout \/ HandleEvent \/ Timers)

-----------------------------------------------------------------------------
(* Properties. *)

\* The tray and the window say what the state machine says, whichever callback
\* changed it: the menu offers to hide what is visible, to collapse what is
\* expanded, and ticks the options that hold.
SurfacesAgree ==
  phase # "Exiting" =>
    /\ tray = [visible |-> phase \in VisiblePhases, expanded |-> phase = "Expanded",
               flags |-> flags]
    /\ ui.visible = tray.visible
    /\ ui.expanded = (mode = "Expanded")
    /\ ui.flags = flags

\* No change of visibility, mode or tab leaves the monitor worker with the
\* sampling rate of another state of the window.
MonitorFollowsWindow ==
  phase # "Exiting" => activity = MonitorActivity(ui.visible, ui.expanded, ui.tab)

\* The window is at rest: its events are handled and it has its size.
AtRest == NoEvents /\ LaidOut

FitsSomewhere(w, m) ==
  \E i \in DOMAIN Screens :
     ClampToScreen(position, w, Screens[i], MinimumVisible(m)) = position

\* At rest, and once it has been moved at all, the panel stands wholly on a work
\* area and the mascot shows at least CollapsedVisible of itself, although the
\* timers place the panel as if it were the mascot.
RestsOnScreen ==
  AtRest => FitsSomewhere(size, mode)

\* At rest, the position that will be saved is the one the window has.
StoredIsPosition ==
  AtRest /\ launch.left = 0 /\ stored # None => stored = position

\* The mascot comes back to where the user left it, however the panel was moved
\* or pushed onto the screen in the meantime.
MascotComesBack ==
  AtRest /\ TimersIdle /\ phase = "Collapsed" => position = mascotPlace

\* Whatever the timers and the user do, the native window comes to rest, under
\* FairSpec.  It does not where timers are batched: the events of two moves chase
\* each other.
ComesToRest == []<>(NoEvents \/ phase = "Exiting")

=============================================================================

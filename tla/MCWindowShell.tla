---------------------------- MODULE MCWindowShell ----------------------------
(***************************************************************************)
(* The window with two kinds of users: one who does anything at any time,  *)
(* and one who waits for the timers of a collapse, whose window may fail   *)
(* to show.  One work area of 8 by 5, a mascot of 3 by 3 and a panel of    *)
(* 5 by 4: in the corner, the mascot stands where the panel does not fit.  *)
(* Apart from them, the clamping arithmetic is asked every question of     *)
(* MCWindowGeometry, one in each of as many initial states.                *)
(***************************************************************************)
EXTENDS WindowShell, MCWindowGeometry

Waiting == INSTANCE WindowShell
  WITH Patient <- TRUE, ShowFails <- TRUE, MaxTimers <- 1

VARIABLES
  waits,    \* the user is the one who waits
  question  \* what the arithmetic is asked, or None: there is a user

MCScreens == <<[position |-> [x |-> 0, y |-> 0], size |-> [width |-> 8, height |-> 5]]>>
MCMascot  == [width |-> 3, height |-> 3]
MCPanel   == [width |-> 5, height |-> 4]

At(x, y) == [x |-> x, y |-> y]
MCPlaces == {At(10, 4)}
MCOpenedAt == At(6, 3)
MCSaved == {None, At(-6, 0)}

-----------------------------------------------------------------------------
UsersInit ==
  /\ Init
  /\ \/ waits \in BOOLEAN /\ question = None
     \/ /\ waits = TRUE /\ question \in Questions
        /\ stored = None /\ \A f \in Flag : ~flags[f]

UsersNext ==
  /\ question = None /\ UNCHANGED <<waits, question>>
  /\ (~waits /\ Next) \/ (waits /\ Waiting!Next)

UsersSpec == UsersInit /\ [][UsersNext]_<<vars, waits, question>>

\* Window, tray and state machine agree as long as the window can be shown, and
\* the monitor worker knows what shows in any case.
SurfacesFollow == TypeOK /\ (~waits => SurfacesAgree) /\ MonitorFollowsWindow

\* At rest the window is on a screen, and the position that is saved is its own.
RestsWhereStored == RestsOnScreen /\ StoredIsPosition

\* For a user who waits, the mascot comes back to where it was left.
MascotComesBackInTime == waits => MascotComesBack

\* No arrangement of work areas makes the clamping of a position panic, every
\* recovered window stays visible on its nearest work area, and recovering the
\* recovered position comes to an end.
ClampIsSound ==
  question # None => BoundsDoNotCross(question) /\ ShowsEnough(question) /\ Settles(question)

==============================================================================

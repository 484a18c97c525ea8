-------------------------- MODULE MCWindowGeometry --------------------------
(***************************************************************************)
(* The clamping arithmetic over a grid of positions, window sizes and      *)
(* arrangements of work areas, up to the ends of integers with MaxInt = 31. *)
(***************************************************************************)
EXTENDS WindowGeometry

\* bound: the coordinates a window is asked to stand at
Coordinates == {-32, -17, -9, -1, 0, 2, 7, 12, 28, 31}
Asked == [x : Coordinates, y : Coordinates]

\* bound: the windows
Sizes == {[width |-> w, height |-> h] : w, h \in {0, 3, 5, 30, 63}}

Area(x, y, w, h) == [position |-> [x |-> x, y |-> y], size |-> [width |-> w, height |-> h]]

\* bound: the sequences of work areas Windows may report
Arrangements ==
  {<<Area(0, 0, 8, 6)>>, <<Area(-32, -32, 31, 31)>>, <<Area(30, 30, 1, 1)>>,
   <<Area(0, 0, 8, 6), Area(8, 0, 7, 6)>>,
   <<Area(0, 0, 8, 6), Area(-8, 2, 8, 3)>>,
   <<Area(0, 0, 8, 6), Area(10, 8, 4, 4)>>,
   <<Area(-9, -5, 4, 5), Area(3, -5, 5, 10)>>}

Questions ==
  [at : Asked, size : Sizes, screens : Arrangements, mode : {"Collapsed", "Expanded"}]

\* Ord::clamp is never called with a lower bound above the upper one, which
\* would panic on the event loop, whatever the size of the window.
BoundsDoNotCross(q) ==
  LET m == MinimumVisible(q.mode)
  IN  \A i \in DOMAIN q.screens :
        LET from == q.screens[i].position
            area == q.screens[i].size
        IN  /\ LowestOf(q.size.width, from.x, area.width, m)
                 <= HighestOf(q.size.width, from.x, area.width, m)
            /\ LowestOf(q.size.height, from.y, area.height, m)
                 <= HighestOf(q.size.height, from.y, area.height, m)

\* What the window shows on the screen, along one axis.
Overlap(v, w, s, l) == Lesser(v + w, s + l) - (IF v > s THEN v ELSE s)

Answer(q)   == ClampForMode(q.at, q.size, q.screens, q.mode)
AskAgain(q) == [q EXCEPT !.at = Answer(q)]

\* After recovery the mascot shows at least the minimum, and the panel all of
\* itself or as much as the screen holds, on the screen that was nearest.
ShowsEnough(q) ==
  LET screen == NearestScreen(Centre(q.at, q.size), q.screens)
      to     == Answer(q)
      m      == MinimumVisible(q.mode)
  IN  /\ Overlap(to.x, q.size.width, screen.position.x, screen.size.width)
           >= Lesser(Lesser(m, q.size.width), screen.size.width)
      /\ Overlap(to.y, q.size.height, screen.position.y, screen.size.height)
           >= Lesser(Lesser(m, q.size.height), screen.size.height)

\* The Moved event that answers set_window_position is recovered again, and on
\* work areas of different heights it may go to the other screen the second
\* time.  On these arrangements it stays there: the window never wanders between
\* its screens.  Others may take more answers, but always come to an end.
Settles(q) == Answer(AskAgain(AskAgain(q))) = Answer(AskAgain(q))

=============================================================================

--------------------------- MODULE WindowGeometry ---------------------------
(***************************************************************************)
(* Where a window may stand: the arithmetic of crates/app-core/src/lib.rs  *)
(* that pulls a requested position back onto a work area, on i32 positions *)
(* that saturate and u32 sizes.                                            *)
(***************************************************************************)
EXTENDS Integers, Sequences

CONSTANTS
  MaxInt,           \* i32::MAX
  CollapsedVisible  \* pixels of the mascot that stay visible: 32

ASSUME GeometryAssumption ==
  /\ MaxInt \in Nat \ {0}
  /\ CollapsedVisible \in 1..MaxInt

Int32  == (-MaxInt - 1)..MaxInt
UInt32 == 0..(2 * MaxInt + 1)

Position == [x : Int32, y : Int32]
Size     == [width : UInt32, height : UInt32]
Screen   == [position : Position, size : Size]

\* bounds_from_rect: left <= right <= i32::MAX, so a screen that Windows reports
\* is not empty and its far edges are i32 values too.
RectScreen ==
  {s \in Screen : /\ s.size.width  \in 1..MaxInt /\ s.position.x + s.size.width  <= MaxInt
                  /\ s.size.height \in 1..MaxInt /\ s.position.y + s.size.height <= MaxInt}

Lesser(a, b) == IF a <= b THEN a ELSE b
Saturate(n)  == IF n > MaxInt THEN MaxInt ELSE IF n < -MaxInt - 1 THEN -MaxInt - 1 ELSE n
ToInt32(n)   == Lesser(n, MaxInt)

-----------------------------------------------------------------------------
(* clamp_window_position, one axis at a time: a window of length w on a     *)
(* screen that starts at s and is l long, of which m must stay visible.     *)

\* Faulty: forgets that the screen may be smaller than the window.
VisibleLengthFaulty(w, l, m) == ToInt32(Lesser(m, w))

VisibleLength(w, l, m) == ToInt32(Lesser(Lesser(m, w), l))

LowestOf(w, s, l, m) ==
  Saturate(s - Saturate(ToInt32(w) - VisibleLength(w, l, m)))

\* Faulty: stops at the far edge of the screen, where nothing is visible any more.
HighestOfFaulty(w, s, l, m) == Saturate(s + ToInt32(l))

HighestOf(w, s, l, m) ==
  Saturate(Saturate(s + ToInt32(l)) - VisibleLength(w, l, m))

\* Ord::clamp, which panics when the bounds are crossed.
Clamp(v, low, high) == IF v < low THEN low ELSE IF v > high THEN high ELSE v

ClampAxis(v, w, s, l, m) == Clamp(v, LowestOf(w, s, l, m), HighestOf(w, s, l, m))

ClampToScreen(p, size, screen, m) ==
  [x |-> ClampAxis(p.x, size.width, screen.position.x, screen.size.width, m),
   y |-> ClampAxis(p.y, size.height, screen.position.y, screen.size.height, m)]

-----------------------------------------------------------------------------
(* The work area nearest to the centre of the window.                       *)

Centre(p, size) ==
  [x |-> Saturate(p.x + ToInt32(size.width) \div 2),
   y |-> Saturate(p.y + ToInt32(size.height) \div 2)]

AxisDistance(v, low, high) == IF v < low THEN low - v ELSE IF v > high THEN v - high ELSE 0

DistanceTo(point, screen) ==
  LET dx == AxisDistance(point.x, screen.position.x,
                         Saturate(screen.position.x + ToInt32(screen.size.width)))
      dy == AxisDistance(point.y, screen.position.y,
                         Saturate(screen.position.y + ToInt32(screen.size.height)))
  IN  dx * dx + dy * dy

\* Faulty: max_by_key, the farthest screen.
IsNearestFaulty(i, point, screens) ==
  \A j \in DOMAIN screens :
     /\ DistanceTo(point, screens[i]) >= DistanceTo(point, screens[j])
     /\ DistanceTo(point, screens[i]) = DistanceTo(point, screens[j]) => i <= j

\* min_by_key returns the first of the nearest ones.
IsNearest(i, point, screens) ==
  \A j \in DOMAIN screens :
     /\ DistanceTo(point, screens[i]) <= DistanceTo(point, screens[j])
     /\ DistanceTo(point, screens[i]) = DistanceTo(point, screens[j]) => i <= j

NearestScreen(point, screens) ==
  screens[CHOOSE i \in DOMAIN screens : IsNearest(i, point, screens)]

\* The mode says how much of the window must stay on the screen; u32::MAX for
\* the panel means all of it.
MinimumVisible(mode) == IF mode = "Collapsed" THEN CollapsedVisible ELSE 2 * MaxInt + 1

ClampForMode(p, size, screens, mode) ==
  ClampToScreen(p, size, NearestScreen(Centre(p, size), screens), MinimumVisible(mode))

=============================================================================

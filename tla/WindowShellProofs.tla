-------------------------- MODULE WindowShellProofs --------------------------
(***************************************************************************)
(* Proofs about the window: the clamping arithmetic for every size of      *)
(* integers, every window and every arrangement of work areas, with the    *)
(* end of its repetition on several of them; and for every user, that the  *)
(* surfaces follow the state of the window, that it rests on a screen and  *)
(* where it is stored, and, on one work area, that the mascot comes back   *)
(* to where a patient user left it.                                        *)
(***************************************************************************)
EXTENDS MCWindowShell, SequenceTheorems, NaturalsInduction, WellFoundedInduction, TLAPS

-----------------------------------------------------------------------------
(* The clamping arithmetic.                                                *)

\* The bounds of one axis never cross, what is clamped between them is an i32
\* that shows as much of the window as asked for, and clamping it again leaves
\* it alone.
LEMMA ClampAxisIsSound ==
  ASSUME NEW v \in Int32, NEW w \in UInt32, NEW s \in Int32, NEW l \in 1..MaxInt,
         s + l <= MaxInt, NEW m \in 1..(2 * MaxInt + 1)
  PROVE  /\ LowestOf(w, s, l, m) <= HighestOf(w, s, l, m)
         /\ ClampAxis(v, w, s, l, m) \in Int32
         /\ ClampAxis(ClampAxis(v, w, s, l, m), w, s, l, m) = ClampAxis(v, w, s, l, m)
         /\ Overlap(ClampAxis(v, w, s, l, m), w, s, l) >= Lesser(Lesser(m, w), l)
<1> DEFINE visible == VisibleLength(w, l, m)
           low == LowestOf(w, s, l, m)
           high == HighestOf(w, s, l, m)
<1>0. /\ MaxInt \in Nat /\ MaxInt >= 1
      /\ v \in Int /\ -MaxInt - 1 <= v /\ v <= MaxInt
      /\ w \in Nat /\ w <= 2 * MaxInt + 1
      /\ s \in Int /\ -MaxInt - 1 <= s /\ s <= MaxInt
      /\ l \in Nat /\ 1 <= l /\ l <= MaxInt
      /\ m \in Nat /\ 1 <= m /\ m <= 2 * MaxInt + 1
  BY GeometryAssumption DEF Int32, UInt32
<1>1. /\ visible \in Nat /\ visible <= l /\ visible <= w
      /\ visible = Lesser(Lesser(m, w), l)
  BY <1>0 DEF VisibleLength, ToInt32, Lesser
<1>2. /\ low \in Int /\ -MaxInt - 1 <= low /\ low <= s
      /\ low = -MaxInt - 1 \/ low = s - ((IF w > MaxInt THEN MaxInt ELSE w) - visible)
  BY <1>0, <1>1 DEF LowestOf, Saturate, ToInt32, Lesser
<1>3. high \in Int /\ high = s + l - visible /\ s <= high /\ high <= MaxInt
  BY <1>0, <1>1 DEF HighestOf, Saturate, ToInt32, Lesser
<1>4. low + w >= s + visible
  <2>1. CASE low = s - ((IF w > MaxInt THEN MaxInt ELSE w) - visible)
    BY <2>1, <1>0, <1>1
  <2>2. CASE low = -MaxInt - 1
    BY <2>2, <1>0, <1>1, <1>2 DEF LowestOf, Saturate, ToInt32, Lesser
  <2> QED  BY <2>1, <2>2, <1>2
<1>5. LowestOf(w, s, l, m) <= HighestOf(w, s, l, m)
  BY <1>0, <1>2, <1>3
<1> DEFINE c == Clamp(v, low, high)
<1>6. c = ClampAxis(v, w, s, l, m)
  BY DEF ClampAxis
<1> HIDE DEF visible, low, high
<1>7. c \in Int /\ low <= c /\ c <= high /\ Clamp(c, low, high) = c
  BY <1>0, <1>2, <1>3 DEF Clamp
<1>8. c \in Int32
  BY <1>0, <1>7, <1>2, <1>3 DEF Int32
<1>9. Overlap(c, w, s, l) >= visible
  <2> HIDE DEF c
  <2>1. c + w >= s + visible /\ c + w >= c + visible
    BY <1>0, <1>1, <1>2, <1>4, <1>7
  <2>2. s + l >= s + visible /\ s + l >= c + visible
    BY <1>0, <1>1, <1>3, <1>7
  <2> QED  BY <2>1, <2>2, <1>0, <1>1, <1>7 DEF Overlap, Lesser
<1>10. ClampAxis(c, w, s, l, m) = c
  BY <1>7 DEF ClampAxis, low, high
<1> QED  BY <1>1, <1>5, <1>6, <1>8, <1>9, <1>10

LEMMA MinimumIsPositive == \A how : MinimumVisible(how) \in 1..(2 * MaxInt + 1)
  BY GeometryAssumption DEF MinimumVisible

\* Clamping to a work area gives a position, and clamping that leaves it alone.
LEMMA ClampIsStable ==
  ASSUME NEW p \in Position, NEW window \in Size, NEW screen \in RectScreen,
         NEW m \in 1..(2 * MaxInt + 1)
  PROVE  /\ ClampToScreen(p, window, screen, m) \in Position
         /\ ClampToScreen(ClampToScreen(p, window, screen, m), window, screen, m)
              = ClampToScreen(p, window, screen, m)
<1>1. /\ p.x \in Int32 /\ p.y \in Int32
      /\ window.width \in UInt32 /\ window.height \in UInt32
      /\ screen.position.x \in Int32 /\ screen.position.y \in Int32
      /\ screen.size.width \in 1..MaxInt /\ screen.size.height \in 1..MaxInt
      /\ screen.position.x + screen.size.width <= MaxInt
      /\ screen.position.y + screen.size.height <= MaxInt
  BY DEF Position, Size, RectScreen, Screen
<1> DEFINE x == ClampAxis(p.x, window.width, screen.position.x, screen.size.width, m)
           y == ClampAxis(p.y, window.height, screen.position.y, screen.size.height, m)
<1>2. /\ x \in Int32
      /\ ClampAxis(x, window.width, screen.position.x, screen.size.width, m) = x
  BY <1>1, ClampAxisIsSound
<1>3. /\ y \in Int32
      /\ ClampAxis(y, window.height, screen.position.y, screen.size.height, m) = y
  BY <1>1, ClampAxisIsSound
<1>4. ClampToScreen(p, window, screen, m) = [x |-> x, y |-> y]
  BY DEF ClampToScreen
<1> HIDE DEF x, y
<1>5. ClampToScreen([x |-> x, y |-> y], window, screen, m) = [x |-> x, y |-> y]
  BY <1>2, <1>3 DEF ClampToScreen
<1> QED  BY <1>2, <1>3, <1>4, <1>5 DEF Position

-----------------------------------------------------------------------------
(* The nearest work area.                                                  *)

\* Every set of natural numbers that is not empty has a least element.
LEMMA LeastNatural ==
  ASSUME NEW S \in SUBSET Nat, S # {}
  PROVE  \E n \in S : \A k \in S : n <= k
<1>1. IsWellFoundedOn(OpToRel(<, Nat), Nat)
  BY NatLessThanWellFounded
<1>2. PICK n \in S : \A k \in S : ~(<<k, n>> \in OpToRel(<, Nat))
  BY <1>1, WFMin
<1>3. \A k \in S : ~(k < n)
  BY <1>2 DEF OpToRel
<1> QED  BY <1>3

LEMMA DistanceIsNatural ==
  ASSUME NEW point \in Position, NEW screen \in RectScreen
  PROVE  DistanceTo(point, screen) \in Nat
<1>0. MaxInt \in Nat
  BY GeometryAssumption
<1>1. /\ point.x \in Int /\ point.y \in Int
      /\ screen.position.x \in Int /\ screen.position.y \in Int
      /\ screen.size.width \in Nat /\ screen.size.height \in Nat
  BY <1>0 DEF Position, Int32, RectScreen, Screen
<1>2. \A n \in Int : Saturate(n) \in Int
  BY <1>0 DEF Saturate
<1>3. \A n \in Nat : ToInt32(n) \in Nat
  BY <1>0 DEF ToInt32, Lesser
<1>4. \A a, low, high \in Int : AxisDistance(a, low, high) \in Nat
  BY DEF AxisDistance
<1> DEFINE right == Saturate(screen.position.x + ToInt32(screen.size.width))
           bottom == Saturate(screen.position.y + ToInt32(screen.size.height))
           dx == AxisDistance(point.x, screen.position.x, right)
           dy == AxisDistance(point.y, screen.position.y, bottom)
<1>5. right \in Int /\ bottom \in Int
  BY <1>1, <1>2, <1>3
<1>6. dx \in Nat /\ dy \in Nat
  <2> HIDE DEF right, bottom
  <2> QED  BY <1>1, <1>4, <1>5
<1>7. DistanceTo(point, screen) = dx * dx + dy * dy
  BY DEF DistanceTo
<1>8. \A a, b \in Nat : a * a + b * b \in Nat
  OBVIOUS
<1> HIDE DEF dx, dy
<1> QED  BY <1>6, <1>7, <1>8

\* Where there is a work area at all, one of them is the nearest.
LEMMA NearestIsOne ==
  ASSUME NEW point \in Position, NEW screens \in Seq(RectScreen), screens # <<>>
  PROVE  \E i \in DOMAIN screens :
            IsNearest(i, point, screens) /\ NearestScreen(point, screens) = screens[i]
<1> DEFINE D == DOMAIN screens
           distance(i) == DistanceTo(point, screens[i])
<1>1. D = 1..Len(screens) /\ Len(screens) \in Nat \ {0}
  BY EmptySeq
<1>2. \A i \in D : distance(i) \in Nat
  BY DistanceIsNatural
<1>3. PICK least \in {distance(i) : i \in D} : \A k \in {distance(i) : i \in D} : least <= k
  <2> HIDE DEF distance
  <2>1. {distance(i) : i \in D} \in SUBSET Nat /\ {distance(i) : i \in D} # {}
    BY <1>1, <1>2
  <2> QED  BY <2>1, LeastNatural
<1>4. PICK first \in {i \in D : distance(i) = least} :
        \A j \in {i \in D : distance(i) = least} : first <= j
  <2> HIDE DEF distance
  <2>1. {i \in D : distance(i) = least} \in SUBSET Nat
    BY <1>1
  <2>2. {i \in D : distance(i) = least} # {}
    BY <1>3
  <2> QED  BY <2>1, <2>2, LeastNatural
<1>5. \A j \in D : distance(first) <= distance(j) /\ (distance(first) = distance(j) => first <= j)
  <2> HIDE DEF distance
  <2> QED  BY <1>3, <1>4
<1>6. first \in DOMAIN screens /\ IsNearest(first, point, screens)
  BY <1>4, <1>5 DEF IsNearest
<1> QED  BY <1>6 DEF NearestScreen

\* So it is a work area.
LEMMA NearestIsScreen ==
  ASSUME NEW point \in Position, NEW screens \in Seq(RectScreen), screens # <<>>
  PROVE  NearestScreen(point, screens) \in RectScreen
  BY NearestIsOne

LEMMA CentreIsPosition ==
  ASSUME NEW p \in Position, NEW window \in Size
  PROVE  Centre(p, window) \in Position
<1>0. MaxInt \in Nat
  BY GeometryAssumption
<1>1. p.x \in Int /\ p.y \in Int /\ window.width \in Nat /\ window.height \in Nat
  BY <1>0 DEF Position, Int32, Size, UInt32
<1>2. \A n \in Int : Saturate(n) \in Int32
  BY <1>0 DEF Saturate, Int32
<1>3. \A n \in Nat : ToInt32(n) \div 2 \in Int
  BY <1>0 DEF ToInt32, Lesser
<1>4. /\ p.x + ToInt32(window.width) \div 2 \in Int
      /\ p.y + ToInt32(window.height) \div 2 \in Int
  BY <1>1, <1>3
<1> QED  BY <1>2, <1>4 DEF Centre, Position

\* What a window is asked, with any work areas.
AnyQuestion == [at : Position, size : Size, screens : Seq(RectScreen) \ {<<>>}, mode : Mode]

LEMMA RecoveryIsPosition ==
  ASSUME NEW p \in Position, NEW window \in Size,
         NEW screens \in Seq(RectScreen) \ {<<>>}, NEW how
  PROVE  ClampForMode(p, window, screens, how) \in Position
<1>1. NearestScreen(Centre(p, window), screens) \in RectScreen
  BY CentreIsPosition, NearestIsScreen
<1>2. MinimumVisible(how) \in 1..(2 * MaxInt + 1)
  BY MinimumIsPositive
<1> QED  BY <1>1, <1>2, ClampIsStable DEF ClampForMode

\* clamp_window_position and its callers, for integers of every size, every
\* window and every arrangement of work areas: Ord::clamp never panics, and the
\* recovered window shows what it must on the work area that was nearest.
THEOREM RecoveryShowsTheWindow ==
  ASSUME NEW q \in AnyQuestion
  PROVE  BoundsDoNotCross(q) /\ ShowsEnough(q)
<1> DEFINE m == MinimumVisible(q.mode)
           screen == NearestScreen(Centre(q.at, q.size), q.screens)
<1>0. q.at \in Position /\ q.size \in Size /\ q.screens \in Seq(RectScreen) \ {<<>>}
  BY DEF AnyQuestion
<1>1. m \in 1..(2 * MaxInt + 1)
  BY MinimumIsPositive
<1>2. screen \in RectScreen
  BY <1>0, CentreIsPosition, NearestIsScreen
<1> HIDE DEF m, screen
<1>3. /\ q.at.x \in Int32 /\ q.at.y \in Int32
      /\ q.size.width \in UInt32 /\ q.size.height \in UInt32
  BY <1>0 DEF Position, Size
<1>4. \A s \in RectScreen :
        /\ s.position.x \in Int32 /\ s.position.y \in Int32
        /\ s.size.width \in 1..MaxInt /\ s.size.height \in 1..MaxInt
        /\ s.position.x + s.size.width <= MaxInt
        /\ s.position.y + s.size.height <= MaxInt
  BY DEF Position, RectScreen, Screen
<1>5. ASSUME NEW i \in DOMAIN q.screens
      PROVE  LET from == q.screens[i].position
                 area == q.screens[i].size
             IN  /\ LowestOf(q.size.width, from.x, area.width, m)
                      <= HighestOf(q.size.width, from.x, area.width, m)
                 /\ LowestOf(q.size.height, from.y, area.height, m)
                      <= HighestOf(q.size.height, from.y, area.height, m)
  <2>1. q.screens[i] \in RectScreen
    BY <1>0
  <2> QED  BY <2>1, <1>1, <1>3, <1>4, ClampAxisIsSound
<1>6. BoundsDoNotCross(q)
  BY <1>5 DEF BoundsDoNotCross, m
<1>7. Answer(q) = ClampToScreen(q.at, q.size, screen, m)
  BY DEF Answer, ClampForMode, screen, m
<1>8. /\ Overlap(Answer(q).x, q.size.width, screen.position.x, screen.size.width)
           >= Lesser(Lesser(m, q.size.width), screen.size.width)
      /\ Overlap(Answer(q).y, q.size.height, screen.position.y, screen.size.height)
           >= Lesser(Lesser(m, q.size.height), screen.size.height)
  BY <1>1, <1>2, <1>3, <1>4, <1>7, ClampAxisIsSound DEF ClampToScreen
<1>9. ShowsEnough(q)
  BY <1>8 DEF ShowsEnough, m, screen
<1> QED  BY <1>6, <1>9

\* On one work area the recovered position is recovered to itself, so that the
\* Moved event that answers the move asks for no other.
LEMMA OneAreaIsStable ==
  ASSUME NEW p \in Position, NEW window \in Size,
         NEW screens \in Seq(RectScreen), Len(screens) = 1, NEW how
  PROVE  LET c == ClampForMode(p, window, screens, how)
         IN  /\ c \in Position
             /\ ClampForMode(c, window, screens, how) = c
<1> DEFINE c == ClampForMode(p, window, screens, how)
           m == MinimumVisible(how)
<1>1. screens # <<>> /\ DOMAIN screens = {1} /\ screens[1] \in RectScreen
  BY EmptySeq
<1>2. \A point \in Position : NearestScreen(point, screens) = screens[1]
  BY <1>1, NearestIsOne
<1>3. m \in 1..(2 * MaxInt + 1)
  BY MinimumIsPositive
<1>4. \A at \in Position : ClampForMode(at, window, screens, how)
                             = ClampToScreen(at, window, screens[1], m)
  BY <1>2, CentreIsPosition DEF ClampForMode
<1>5. c \in Position
  BY <1>1, RecoveryIsPosition
<1>6. c = ClampToScreen(p, window, screens[1], m)
  BY <1>4
<1>7. ClampToScreen(c, window, screens[1], m) = c
  BY <1>1, <1>3, <1>6, ClampIsStable
<1> HIDE DEF c
<1>8. ClampForMode(c, window, screens, how) = c
  BY <1>4, <1>5, <1>7
<1> QED  BY <1>5, <1>8 DEF c

\* What is recovered to itself at once has settled.
LEMMA StableSettles ==
  ASSUME NEW q \in AnyQuestion, Answer(AskAgain(q)) = Answer(q)
  PROVE  Settles(q)
<1> DEFINE c == Answer(q)
           again == [q EXCEPT !.at = c]
<1>1. q \in [at : Position, size : Size, screens : Seq(RectScreen) \ {<<>>}, mode : Mode]
  BY DEF AnyQuestion
<1> HIDE DEF c
<1>2. AskAgain(q) = again
  BY DEF AskAgain, c
<1>3. [again EXCEPT !.at = c] = again
  BY <1>1
<1> HIDE DEF again
<1>4. Answer(again) = c
  BY <1>2 DEF c
<1>5. AskAgain(again) = again
  BY <1>3, <1>4 DEF AskAgain
<1> QED  BY <1>2, <1>4, <1>5 DEF Settles

LEMMA AnswerAgain ==
  ASSUME NEW q \in AnyQuestion, NEW c, c = ClampForMode(q.at, q.size, q.screens, q.mode)
  PROVE  /\ Answer(q) = c
         /\ Answer(AskAgain(q)) = ClampForMode(c, q.size, q.screens, q.mode)
<1>1. q \in [at : Position, size : Size, screens : Seq(RectScreen) \ {<<>>}, mode : Mode]
  BY DEF AnyQuestion
<1>2. Answer(q) = c
  BY DEF Answer
<1>3. AskAgain(q) = [q EXCEPT !.at = c]
  BY <1>2 DEF AskAgain
<1>4. /\ AskAgain(q).at = c /\ AskAgain(q).size = q.size
      /\ AskAgain(q).screens = q.screens /\ AskAgain(q).mode = q.mode
  BY <1>1, <1>3
<1> QED  BY <1>2, <1>4 DEF Answer

LEMMA OneAreaSettles ==
  ASSUME NEW q \in AnyQuestion, Len(q.screens) = 1
  PROVE  Settles(q)
<1> DEFINE c == ClampForMode(q.at, q.size, q.screens, q.mode)
<1>1. q.at \in Position /\ q.size \in Size /\ q.screens \in Seq(RectScreen)
  BY DEF AnyQuestion
<1>2. ClampForMode(c, q.size, q.screens, q.mode) = c
  BY <1>1, OneAreaIsStable
<1> HIDE DEF c
<1>3. Answer(q) = c /\ Answer(AskAgain(q)) = ClampForMode(c, q.size, q.screens, q.mode)
  BY AnswerAgain DEF c
<1> QED  BY <1>2, <1>3, StableSettles

-----------------------------------------------------------------------------
(* Several work areas.  The recovered position may be recovered to another *)
(* work area, and how often depends on how the areas lie to each other.    *)
(* But no recovery takes the window away from the area it is pulled to, so *)
(* each further one goes to a nearer area, or to one as near that is       *)
(* earlier in the list: there is an end.                                   *)

\* Along one axis, clamping never takes the centre away from the screen.
LEMMA ClampComesNearer ==
  ASSUME NEW v \in Int32, NEW w \in UInt32, NEW s \in Int32, NEW l \in 1..MaxInt,
         s + l <= MaxInt, NEW m \in 1..(2 * MaxInt + 1)
  PROVE  LET half == ToInt32(w) \div 2
             far  == Saturate(s + ToInt32(l))
             c    == ClampAxis(v, w, s, l, m)
         IN  /\ AxisDistance(Saturate(c + half), s, far) \in Nat
             /\ AxisDistance(Saturate(v + half), s, far) \in Nat
             /\ AxisDistance(Saturate(c + half), s, far)
                  <= AxisDistance(Saturate(v + half), s, far)
<1> DEFINE W == ToInt32(w)
           half == W \div 2
           visible == VisibleLength(w, l, m)
           low == LowestOf(w, s, l, m)
           high == HighestOf(w, s, l, m)
           far == Saturate(s + ToInt32(l))
           c == Clamp(v, low, high)
<1>0. /\ MaxInt \in Nat /\ MaxInt >= 1
      /\ v \in Int /\ -MaxInt - 1 <= v /\ v <= MaxInt
      /\ w \in Nat /\ w <= 2 * MaxInt + 1
      /\ s \in Int /\ -MaxInt - 1 <= s /\ s <= MaxInt
      /\ l \in Nat /\ 1 <= l /\ l <= MaxInt
      /\ m \in Nat /\ 1 <= m /\ m <= 2 * MaxInt + 1
  BY GeometryAssumption DEF Int32, UInt32
<1>1. W \in Nat /\ W <= MaxInt
  BY <1>0 DEF ToInt32, Lesser
<1>2. half \in Nat /\ 2 * half <= W /\ W <= 2 * half + 1
  <2> HIDE DEF W
  <2> QED  BY <1>1
<1>3. far = s + l
  BY <1>0 DEF Saturate, ToInt32, Lesser
<1>4. visible \in Nat /\ visible <= l /\ visible <= W
  BY <1>0 DEF VisibleLength, ToInt32, Lesser
<1>5. /\ low \in Int /\ -MaxInt - 1 <= low /\ low <= s
      /\ low = -MaxInt - 1 \/ low = s - (W - visible)
  BY <1>0, <1>1, <1>4 DEF LowestOf, Saturate
<1>6. high \in Int /\ high = s + l - visible /\ s <= high /\ high <= MaxInt
  BY <1>0, <1>3, <1>4 DEF HighestOf, Saturate
<1>7. c = ClampAxis(v, w, s, l, m)
  BY DEF ClampAxis
<1> HIDE DEF W, half, visible, low, high, far
<1>8. c \in Int /\ low <= c /\ c <= high /\ -MaxInt - 1 <= c /\ c <= MaxInt
  BY <1>0, <1>5, <1>6 DEF Clamp
<1>9. CASE c = v
  <2>1. Saturate(v + half) \in Int
    BY <1>0, <1>2 DEF Saturate
  <2>2. AxisDistance(Saturate(v + half), s, far) \in Nat
    BY <1>0, <1>3, <2>1 DEF AxisDistance
  <2> HIDE DEF c
  <2> QED  BY <1>7, <1>9, <2>2 DEF half, W, far
<1> DEFINE a == Saturate(v + half)
           b == Saturate(c + half)
<1>10. /\ a \in Int /\ b \in Int
       /\ a = (IF v + half > MaxInt THEN MaxInt ELSE v + half)
       /\ b = (IF c + half > MaxInt THEN MaxInt ELSE c + half)
  <2> HIDE DEF c
  <2> QED  BY <1>0, <1>2, <1>8 DEF Saturate
<1>11. CASE v < low
  <2>1. c = low /\ low = s - (W - visible)
    BY <1>0, <1>5, <1>11 DEF Clamp
  <2>2. low + half <= s + l
    BY <1>0, <1>1, <1>2, <1>4, <2>1
  <2> HIDE DEF c
  <2>3. a <= b /\ b <= far
    <3> HIDE DEF a, b
    <3> QED  BY <1>0, <1>2, <1>3, <1>5, <1>10, <1>11, <2>1, <2>2
  <2> HIDE DEF a, b
  <2>4. /\ AxisDistance(b, s, far) \in Nat /\ AxisDistance(a, s, far) \in Nat
        /\ AxisDistance(b, s, far) <= AxisDistance(a, s, far)
    BY <1>0, <1>3, <1>10, <2>3 DEF AxisDistance
  <2> QED  BY <1>7, <2>4 DEF a, b, half, W, far
<1>12. CASE v > high
  <2>1. c = high
    BY <1>0, <1>5, <1>6, <1>12 DEF Clamp
  <2>2. high + half >= s
    BY <1>0, <1>2, <1>6
  <2> HIDE DEF c
  <2>3. b <= a /\ s <= b
    <3> HIDE DEF a, b
    <3> QED  BY <1>0, <1>2, <1>6, <1>10, <1>12, <2>1, <2>2
  <2> HIDE DEF a, b
  <2>4. /\ AxisDistance(b, s, far) \in Nat /\ AxisDistance(a, s, far) \in Nat
        /\ AxisDistance(b, s, far) <= AxisDistance(a, s, far)
    BY <1>0, <1>3, <1>10, <2>3 DEF AxisDistance
  <2> QED  BY <1>7, <2>4 DEF a, b, half, W, far
<1>13. v < low \/ v > high \/ c = v
  BY <1>0, <1>5, <1>6 DEF Clamp
<1> QED  BY <1>9, <1>11, <1>12, <1>13

\* The members of a list of work areas are work areas.
LEMMA ScreensAreListed ==
  ASSUME NEW screens \in Seq(RectScreen)
  PROVE  DOMAIN screens \subseteq Nat /\ \A i \in DOMAIN screens : screens[i] \in RectScreen
<1>1. DOMAIN screens = 1 .. Len(screens) /\ Len(screens) \in Nat
  BY LenProperties
<1>2. \A i \in 1 .. Len(screens) : screens[i] \in RectScreen
  BY ElementOfSeq
<1> QED  BY ONLY <1>1, <1>2

LEMMA SquaresGrow ==
  \A a, b, c, d \in Nat : a <= b /\ c <= d => a * a + c * c <= b * b + d * d
<1>1. \A a, b \in Nat : a <= b => a * a <= b * b
  <2> SUFFICES ASSUME NEW a \in Nat, NEW b \in Nat, a <= b
               PROVE  a * a <= b * b
    OBVIOUS
  <2>1. PICK n \in Nat : b = a + n
    <3>1. b - a \in Nat /\ b = a + (b - a)
      OBVIOUS
    <3> QED  BY <3>1
  <2>2. b * b = a * a + 2 * a * n + n * n
    BY <2>1
  <2>3. a * a \in Nat /\ 2 * a * n \in Nat /\ n * n \in Nat
    BY <2>1
  <2> QED  BY <2>2, <2>3
<1>2. \A a \in Nat : a * a \in Nat
  OBVIOUS
<1> SUFFICES ASSUME NEW a \in Nat, NEW b \in Nat, NEW c \in Nat, NEW d \in Nat, a <= b, c <= d
             PROVE  a * a + c * c <= b * b + d * d
  OBVIOUS
<1>3. a * a <= b * b /\ c * c <= d * d
  BY <1>1
<1>4. a * a \in Nat /\ b * b \in Nat /\ c * c \in Nat /\ d * d \in Nat
  BY <1>2
<1> QED  BY <1>3, <1>4

\* So it never takes the window away from the screen.
LEMMA RecoveryComesNearer ==
  ASSUME NEW p \in Position, NEW window \in Size, NEW screen \in RectScreen,
         NEW m \in 1..(2 * MaxInt + 1)
  PROVE  DistanceTo(Centre(ClampToScreen(p, window, screen, m), window), screen)
           <= DistanceTo(Centre(p, window), screen)
<1>1. /\ p.x \in Int32 /\ p.y \in Int32
      /\ window.width \in UInt32 /\ window.height \in UInt32
      /\ screen.position.x \in Int32 /\ screen.position.y \in Int32
      /\ screen.size.width \in 1..MaxInt /\ screen.size.height \in 1..MaxInt
      /\ screen.position.x + screen.size.width <= MaxInt
      /\ screen.position.y + screen.size.height <= MaxInt
  BY DEF Position, Size, RectScreen, Screen
<1> DEFINE c == ClampToScreen(p, window, screen, m)
           Dx(v) == AxisDistance(Saturate(v + ToInt32(window.width) \div 2), screen.position.x,
                      Saturate(screen.position.x + ToInt32(screen.size.width)))
           Dy(v) == AxisDistance(Saturate(v + ToInt32(window.height) \div 2), screen.position.y,
                      Saturate(screen.position.y + ToInt32(screen.size.height)))
<1>2. Dx(c.x) \in Nat /\ Dx(p.x) \in Nat /\ Dx(c.x) <= Dx(p.x)
  <2>1. c.x = ClampAxis(p.x, window.width, screen.position.x, screen.size.width, m)
    BY DEF ClampToScreen
  <2> HIDE DEF c
  <2> QED  BY <1>1, <2>1, ClampComesNearer
<1>3. Dy(c.y) \in Nat /\ Dy(p.y) \in Nat /\ Dy(c.y) <= Dy(p.y)
  <2>1. c.y = ClampAxis(p.y, window.height, screen.position.y, screen.size.height, m)
    BY DEF ClampToScreen
  <2> HIDE DEF c
  <2> QED  BY <1>1, <2>1, ClampComesNearer
<1>4. \A at : DistanceTo(Centre(at, window), screen) = Dx(at.x) * Dx(at.x) + Dy(at.y) * Dy(at.y)
  BY DEF DistanceTo, Centre
<1> HIDE DEF Dx, Dy, c
<1>5. Dx(c.x) * Dx(c.x) + Dy(c.y) * Dy(c.y) <= Dx(p.x) * Dx(p.x) + Dy(p.y) * Dy(p.y)
  BY <1>2, <1>3, SquaresGrow
<1> QED  BY <1>4, <1>5 DEF c

\* After one recovery, the next leaves the window where it is, or goes to a work
\* area that is nearer, or as near and earlier in the list.
LEMMA NextIsNearerOrLast ==
  ASSUME NEW p \in Position, NEW window \in Size,
         NEW screens \in Seq(RectScreen) \ {<<>>}, NEW how,
         NEW i \in DOMAIN screens, IsNearest(i, Centre(p, window), screens),
         NearestScreen(Centre(p, window), screens) = screens[i],
         NEW c, c = ClampForMode(p, window, screens, how)
  PROVE  \/ ClampForMode(c, window, screens, how) = c
         \/ \E j \in DOMAIN screens :
              /\ IsNearest(j, Centre(c, window), screens)
              /\ NearestScreen(Centre(c, window), screens) = screens[j]
              /\ \/ DistanceTo(Centre(c, window), screens[j])
                      < DistanceTo(Centre(p, window), screens[i])
                 \/ /\ DistanceTo(Centre(c, window), screens[j])
                          = DistanceTo(Centre(p, window), screens[i])
                    /\ j < i
<1> DEFINE m == MinimumVisible(how)
           point == Centre(p, window)
           next == Centre(c, window)
<1>1. m \in 1..(2 * MaxInt + 1)
  BY MinimumIsPositive
<1>2. screens \in Seq(RectScreen) /\ screens # <<>> /\ screens[i] \in RectScreen /\ i \in Int
  <2>1. DOMAIN screens = 1..Len(screens)
    OBVIOUS
  <2> QED  BY <2>1
<1>3. c = ClampToScreen(p, window, screens[i], m)
  BY DEF ClampForMode
<1>4. c \in Position
  BY RecoveryIsPosition
<1>5. ClampToScreen(c, window, screens[i], m) = c
  BY <1>1, <1>2, <1>3, ClampIsStable
<1>6. DistanceTo(next, screens[i]) <= DistanceTo(point, screens[i])
  BY <1>1, <1>2, <1>3, RecoveryComesNearer
<1> HIDE DEF m
<1>7. next \in Position /\ point \in Position
  BY <1>4, CentreIsPosition
<1> HIDE DEF next, point
<1>8. PICK j \in DOMAIN screens :
        IsNearest(j, next, screens) /\ NearestScreen(next, screens) = screens[j]
  BY <1>2, <1>7, NearestIsOne
<1>9. screens[j] \in RectScreen /\ j \in Int
  <2>1. DOMAIN screens = 1..Len(screens)
    OBVIOUS
  <2> QED  BY <1>2, <1>8, <2>1
<1>10. CASE j = i
  <2>1. ClampForMode(c, window, screens, how) = c
    BY <1>5, <1>8, <1>10 DEF ClampForMode, next, m
  <2> QED  BY <2>1
<1>11. CASE j # i
  <2>1. /\ DistanceTo(next, screens[j]) <= DistanceTo(next, screens[i])
        /\ DistanceTo(next, screens[j]) = DistanceTo(next, screens[i]) => j <= i
    BY <1>8 DEF IsNearest
  <2>2. /\ DistanceTo(next, screens[j]) \in Nat /\ DistanceTo(next, screens[i]) \in Nat
        /\ DistanceTo(point, screens[i]) \in Nat
    BY <1>2, <1>7, <1>9, DistanceIsNatural
  <2>3. \/ DistanceTo(next, screens[j]) < DistanceTo(point, screens[i])
        \/ DistanceTo(next, screens[j]) = DistanceTo(point, screens[i]) /\ j < i
    BY <1>2, <1>6, <1>9, <1>11, <2>1, <2>2
  <2> QED  BY <1>8, <2>3 DEF next, point
<1> QED  BY <1>10, <1>11

\* However the work areas lie, the window does not wander between them for ever:
\* when each Moved event is answered with the recovered position, the answers
\* come to a position that is recovered to itself, for integers of every size
\* and every window.
THEOREM RecoveryComesToAnEnd ==
  ASSUME NEW q \in AnyQuestion, NEW path \in [Nat -> Position], path[0] = q.at,
         \A n \in Nat : path[n + 1] = ClampForMode(path[n], q.size, q.screens, q.mode)
  PROVE  \E n \in Nat : \A k \in Nat : path[n + k] = path[n]
<1> DEFINE point(n) == Centre(path[n], q.size)
           Rests(n) == path[n + 1] = path[n]
           At1(n, i) == /\ IsNearest(i, point(n), q.screens)
                        /\ NearestScreen(point(n), q.screens) = q.screens[i]
           D == DOMAIN q.screens
           far(n, i) == DistanceTo(point(n), q.screens[i])
<1>1. q.size \in Size /\ q.screens \in Seq(RectScreen) \ {<<>>}
  BY DEF AnyQuestion
<1>2. D \subseteq Nat /\ \A i \in D : q.screens[i] \in RectScreen
  BY <1>1, ScreensAreListed
<1>3. ASSUME NEW n \in Nat
      PROVE  /\ \E i \in D : At1(n, i)
             /\ \A i \in D : far(n, i) \in Nat
  <2>1. point(n) \in Position
    BY <1>1, CentreIsPosition
  <2> HIDE DEF point
  <2>2. \E i \in D : At1(n, i)
    BY <1>1, <2>1, NearestIsOne
  <2>3. \A i \in D : far(n, i) \in Nat
    BY <1>2, <2>1, DistanceIsNatural
  <2> QED  BY <2>2, <2>3
<1>4. ASSUME NEW n \in Nat, NEW i \in D, At1(n, i), ~Rests(n + 1)
      PROVE  \E j \in D : At1(n + 1, j) /\ (far(n + 1, j) < far(n, i) \/ (far(n + 1, j) = far(n, i) /\ j < i))
  <2>1. /\ path[n] \in Position
        /\ path[n + 1] = ClampForMode(path[n], q.size, q.screens, q.mode)
        /\ path[n + 1 + 1] = ClampForMode(path[n + 1], q.size, q.screens, q.mode)
    OBVIOUS
  <2>2. /\ IsNearest(i, Centre(path[n], q.size), q.screens)
        /\ NearestScreen(Centre(path[n], q.size), q.screens) = q.screens[i]
    BY <1>4
  <2>3. \/ ClampForMode(path[n + 1], q.size, q.screens, q.mode) = path[n + 1]
        \/ \E j \in D :
             /\ IsNearest(j, Centre(path[n + 1], q.size), q.screens)
             /\ NearestScreen(Centre(path[n + 1], q.size), q.screens) = q.screens[j]
             /\ \/ DistanceTo(Centre(path[n + 1], q.size), q.screens[j])
                     < DistanceTo(Centre(path[n], q.size), q.screens[i])
                \/ /\ DistanceTo(Centre(path[n + 1], q.size), q.screens[j])
                         = DistanceTo(Centre(path[n], q.size), q.screens[i])
                   /\ j < i
    <3> DEFINE p == path[n]
               c == path[n + 1]
               window == q.size
               screens == q.screens
               how == q.mode
    <3>1. /\ p \in Position /\ window \in Size /\ screens \in Seq(RectScreen) \ {<<>>}
          /\ i \in DOMAIN screens /\ c = ClampForMode(p, window, screens, how)
          /\ IsNearest(i, Centre(p, window), screens)
          /\ NearestScreen(Centre(p, window), screens) = screens[i]
      BY <1>1, <2>1, <2>2
    <3> HIDE DEF p, c, window, screens, how
    <3>2. \/ ClampForMode(c, window, screens, how) = c
          \/ \E j \in DOMAIN screens :
               /\ IsNearest(j, Centre(c, window), screens)
               /\ NearestScreen(Centre(c, window), screens) = screens[j]
               /\ \/ DistanceTo(Centre(c, window), screens[j])
                       < DistanceTo(Centre(p, window), screens[i])
                  \/ /\ DistanceTo(Centre(c, window), screens[j])
                           = DistanceTo(Centre(p, window), screens[i])
                     /\ j < i
      BY ONLY <3>1, NextIsNearerOrLast
    <3> QED  BY <3>2 DEF p, c, window, screens, how
  <2> QED  BY <1>4, <2>1, <2>3
<1>5. \E n \in Nat : Rests(n)
  <2> SUFFICES ASSUME \A n \in Nat : ~Rests(n)
               PROVE  FALSE
    OBVIOUS
  <2> HIDE DEF Rests, At1, far, D
  <2> DEFINE Reached(d, i) == \E n \in Nat : At1(n, i) /\ far(n, i) = d
             Distances == {d \in Nat : \E i \in D : Reached(d, i)}
  <2>1. Distances \in SUBSET Nat /\ Distances # {}
    <3>1. PICK i \in D : At1(0, i)
      BY <1>3
    <3>2. far(0, i) \in Distances
      BY <1>3, <3>1
    <3> QED  BY <3>2
  <2>2. PICK d \in Distances : \A k \in Distances : d <= k
    BY <2>1, LeastNatural
  <2> DEFINE Indices == {i \in D : Reached(d, i)}
  <2>3. Indices \in SUBSET Nat /\ Indices # {}
    BY <1>2, <2>2
  <2>4. PICK i \in Indices : \A k \in Indices : i <= k
    BY <2>3, LeastNatural
  <2>5. PICK n \in Nat : At1(n, i) /\ far(n, i) = d
    BY <2>4
  <2>6. PICK j \in D : At1(n + 1, j) /\ (far(n + 1, j) < d \/ (far(n + 1, j) = d /\ j < i))
    BY <1>4, <2>4, <2>5
  <2>7. far(n + 1, j) \in Distances
    BY <1>3, <2>6
  <2>8. far(n + 1, j) = d /\ j < i
    BY <2>2, <2>6, <2>7
  <2>9. j \in Indices
    BY <2>6, <2>8
  <2> QED  BY <1>2, <2>3, <2>4, <2>8, <2>9
<1>6. PICK n \in Nat : Rests(n)
  BY <1>5
<1>7. ASSUME NEW k \in Nat, path[n + k] # path[n]
      PROVE  FALSE
  <2> DEFINE Away == {j \in Nat : path[n + j] # path[n]}
  <2>1. Away \in SUBSET Nat /\ Away # {}
    BY <1>7
  <2>2. PICK j \in Away : \A a \in Away : j <= a
    BY <2>1, LeastNatural
  <2>3. j # 0
    BY <2>2
  <2>4. j - 1 \in Nat /\ j - 1 \notin Away
    BY <2>2, <2>3
  <2>5. path[n + (j - 1)] = path[n] /\ n + (j - 1) \in Nat /\ n + (j - 1) + 1 = n + j
    BY <2>2, <2>4
  <2>6. path[n + j] = ClampForMode(path[n], q.size, q.screens, q.mode)
    BY <2>5
  <2>7. path[n + j] = path[n]
    BY <1>6, <2>6
  <2> QED  BY <2>2, <2>7
<1> QED  BY <1>7

-----------------------------------------------------------------------------
(* The panel on several work areas.                                        *)

\* The work areas of different monitors do not overlap.
AreasApart(screens) ==
  \A i, j \in DOMAIN screens : i # j =>
    \/ screens[i].position.x + screens[i].size.width <= screens[j].position.x
    \/ screens[j].position.x + screens[j].size.width <= screens[i].position.x
    \/ screens[i].position.y + screens[i].size.height <= screens[j].position.y
    \/ screens[j].position.y + screens[j].size.height <= screens[i].position.y

\* The window is not larger than any of them.
FitsEverywhere(window, screens) ==
  \A i \in DOMAIN screens : /\ window.width \in 2 .. screens[i].size.width
                            /\ window.height \in 2 .. screens[i].size.height

\* All of the window is pulled onto the screen, and its centre off the edges.
LEMMA CentreIsInside ==
  ASSUME NEW v \in Int32, NEW s \in Int32, NEW l \in 1..MaxInt, s + l <= MaxInt,
         NEW w \in 2..l,
         NEW c, c = ClampAxis(v, w, s, l, 2 * MaxInt + 1),
         NEW centre, centre = Saturate(c + ToInt32(w) \div 2)
  PROVE  centre \in Int /\ s < centre /\ centre < s + l
<1> DEFINE m == 2 * MaxInt + 1
           half == w \div 2
<1>0. /\ MaxInt \in Nat /\ MaxInt >= 1
      /\ v \in Int /\ -MaxInt - 1 <= v /\ v <= MaxInt
      /\ s \in Int /\ -MaxInt - 1 <= s /\ s <= MaxInt
      /\ l \in Nat /\ 1 <= l /\ l <= MaxInt
      /\ w \in Nat /\ 2 <= w /\ w <= l
  BY GeometryAssumption DEF Int32
<1>1. ToInt32(w) = w /\ ToInt32(l) = l
  BY <1>0 DEF ToInt32, Lesser
<1>2. VisibleLength(w, l, m) = w
  BY <1>0 DEF VisibleLength, ToInt32, Lesser
<1>3. LowestOf(w, s, l, m) = s
  <2>1. Saturate(w - w) = 0 /\ Saturate(s) = s
    BY <1>0 DEF Saturate
  <2> QED  BY <1>0, <1>1, <1>2, <2>1 DEF LowestOf
<1>4. HighestOf(w, s, l, m) = s + l - w
  BY <1>0, <1>1, <1>2 DEF HighestOf, Saturate
<1>5. c \in Int /\ s <= c /\ c <= s + l - w
  BY <1>0, <1>3, <1>4 DEF ClampAxis, Clamp
<1>6. half \in Nat /\ 1 <= half /\ half < w
  BY <1>0
<1> HIDE DEF half
<1>7. s < c + half /\ c + half < s + l /\ c + half \in Int
  BY <1>0, <1>5, <1>6
<1>8. Saturate(c + half) = c + half
  BY <1>0, <1>7 DEF Saturate
<1> QED  BY <1>1, <1>7, <1>8 DEF half

\* So no other work area is as near, and the window stays where it is.
LEMMA PanelIsStable ==
  ASSUME NEW p \in Position, NEW window \in Size,
         NEW screens \in Seq(RectScreen) \ {<<>>}, NEW how, how # "Collapsed",
         AreasApart(screens), FitsEverywhere(window, screens),
         NEW c, c = ClampForMode(p, window, screens, how)
  PROVE  ClampForMode(c, window, screens, how) = c
<1> DEFINE m == MinimumVisible(how)
           next == Centre(c, window)
           D == DOMAIN screens
           Left(i)   == screens[i].position.x
           Top(i)    == screens[i].position.y
           Right(i)  == screens[i].position.x + screens[i].size.width
           Bottom(i) == screens[i].position.y + screens[i].size.height
<1>0. MaxInt \in Nat /\ m = 2 * MaxInt + 1 /\ m \in 1..(2 * MaxInt + 1)
  BY MinimumIsPositive, GeometryAssumption DEF MinimumVisible
<1>1. \A i \in D : screens[i] \in RectScreen
  BY ScreensAreListed
<1>2. ASSUME NEW i \in D
      PROVE  /\ Left(i) \in Int32 /\ Top(i) \in Int32
             /\ screens[i].size.width \in 1..MaxInt /\ screens[i].size.height \in 1..MaxInt
             /\ Left(i) + screens[i].size.width <= MaxInt
             /\ Top(i) + screens[i].size.height <= MaxInt
             /\ Left(i) \in Int /\ Top(i) \in Int /\ Right(i) \in Int /\ Bottom(i) \in Int
             /\ Left(i) < Right(i) /\ Top(i) < Bottom(i)
  <2>1. /\ Left(i) \in Int32 /\ Top(i) \in Int32
        /\ screens[i].size.width \in 1..MaxInt /\ screens[i].size.height \in 1..MaxInt
        /\ Left(i) + screens[i].size.width <= MaxInt
        /\ Top(i) + screens[i].size.height <= MaxInt
    BY <1>1 DEF RectScreen, Screen, Position
  <2>2. Left(i) \in Int /\ Top(i) \in Int
    BY <1>0, <2>1 DEF Int32
  <2>3. Left(i) < Right(i) /\ Top(i) < Bottom(i) /\ Right(i) \in Int /\ Bottom(i) \in Int
    BY ONLY <1>0, <2>1, <2>2
  <2> QED  BY ONLY <2>1, <2>2, <2>3
<1>3. PICK i \in D : NearestScreen(Centre(p, window), screens) = screens[i]
  BY CentreIsPosition, NearestIsOne
<1>4. c = ClampToScreen(p, window, screens[i], m)
  BY <1>3 DEF ClampForMode
<1>5. ClampToScreen(c, window, screens[i], m) = c /\ c \in Position
  BY <1>0, <1>1, <1>4, ClampIsStable
<1>6. p.x \in Int32 /\ p.y \in Int32
  BY DEF Position
<1>7. /\ next.x \in Int /\ Left(i) < next.x /\ next.x < Right(i)
      /\ next.y \in Int /\ Top(i) < next.y /\ next.y < Bottom(i)
  <2>1. /\ c.x = ClampAxis(p.x, window.width, Left(i), screens[i].size.width, 2 * MaxInt + 1)
        /\ c.y = ClampAxis(p.y, window.height, Top(i), screens[i].size.height, 2 * MaxInt + 1)
    BY <1>0, <1>4 DEF ClampToScreen
  <2>2. /\ next.x = Saturate(c.x + ToInt32(window.width) \div 2)
        /\ next.y = Saturate(c.y + ToInt32(window.height) \div 2)
    BY DEF Centre
  <2>3. /\ window.width \in 2 .. screens[i].size.width
        /\ window.height \in 2 .. screens[i].size.height
    BY DEF FitsEverywhere
  <2> HIDE DEF next
  <2>4. next.x \in Int /\ Left(i) < next.x /\ next.x < Right(i)
    BY <1>2, <1>6, <2>1, <2>2, <2>3, CentreIsInside
  <2>5. next.y \in Int /\ Top(i) < next.y /\ next.y < Bottom(i)
    BY <1>2, <1>6, <2>1, <2>2, <2>3, CentreIsInside
  <2> QED  BY <2>4, <2>5
<1> HIDE DEF m
<1>8. next \in Position
  BY <1>5, CentreIsPosition
<1> HIDE DEF next
<1>9. ASSUME NEW j \in D
      PROVE  DistanceTo(next, screens[j]) =
               AxisDistance(next.x, Left(j), Right(j)) * AxisDistance(next.x, Left(j), Right(j))
               + AxisDistance(next.y, Top(j), Bottom(j)) * AxisDistance(next.y, Top(j), Bottom(j))
  <2>1. /\ Saturate(Left(j) + ToInt32(screens[j].size.width)) = Right(j)
        /\ Saturate(Top(j) + ToInt32(screens[j].size.height)) = Bottom(j)
    <3>1. \A s \in Int32 : \A l \in 1..MaxInt : s + l <= MaxInt => Saturate(s + ToInt32(l)) = s + l
      BY <1>0 DEF Saturate, ToInt32, Lesser, Int32
    <3> QED  BY <1>2, <3>1
  <2> QED  BY <2>1 DEF DistanceTo
<1> HIDE DEF Left, Top, Right, Bottom
<1>10. DistanceTo(next, screens[i]) = 0
  <2>1. /\ AxisDistance(next.x, Left(i), Right(i)) = 0
        /\ AxisDistance(next.y, Top(i), Bottom(i)) = 0
    BY <1>2, <1>7 DEF AxisDistance
  <2> QED  BY <1>9, <2>1
<1>11. ASSUME NEW j \in D, j # i
       PROVE  DistanceTo(next, screens[j]) # 0
  <2> DEFINE dx == AxisDistance(next.x, Left(j), Right(j))
             dy == AxisDistance(next.y, Top(j), Bottom(j))
  <2>0. /\ \A v, low, high \in Int : AxisDistance(v, low, high) \in Nat
        /\ \A v, low, high \in Int : v < low \/ high < v => AxisDistance(v, low, high) # 0
    BY DEF AxisDistance
  <2>1. dx \in Nat /\ dy \in Nat
    BY <1>2, <1>7, <2>0
  <2>2. Right(i) <= Left(j) \/ Right(j) <= Left(i) \/ Bottom(i) <= Top(j) \/ Bottom(j) <= Top(i)
    BY <1>11 DEF AreasApart, Left, Right, Top, Bottom
  <2>3. dx # 0 \/ dy # 0
    <3>1. /\ Left(j) \in Int /\ Right(j) \in Int /\ Top(j) \in Int /\ Bottom(j) \in Int
          /\ Left(i) \in Int /\ Right(i) \in Int /\ Top(i) \in Int /\ Bottom(i) \in Int
      BY <1>2
    <3>2. \/ next.x < Left(j) \/ Right(j) < next.x
          \/ next.y < Top(j) \/ Bottom(j) < next.y
      <4>1. Right(i) <= Left(j) => next.x < Left(j)
        BY ONLY <1>7, <3>1
      <4>2. Right(j) <= Left(i) => Right(j) < next.x
        BY ONLY <1>7, <3>1
      <4>3. Bottom(i) <= Top(j) => next.y < Top(j)
        BY ONLY <1>7, <3>1
      <4>4. Bottom(j) <= Top(i) => Bottom(j) < next.y
        BY ONLY <1>7, <3>1
      <4> QED  BY <2>2, <4>1, <4>2, <4>3, <4>4, Zenon
    <3> QED  BY <1>7, <2>0, <3>1, <3>2
  <2> HIDE DEF dx, dy
  <2>4. DistanceTo(next, screens[j]) = dx * dx + dy * dy
    BY <1>9 DEF dx, dy
  <2>5. \A a, b \in Nat : a # 0 \/ b # 0 => a * a + b * b # 0
    <3> SUFFICES ASSUME NEW a \in Nat, NEW b \in Nat, a # 0 \/ b # 0
                 PROVE  a * a + b * b # 0
      OBVIOUS
    <3>1. a * a \in Nat /\ b * b \in Nat
      OBVIOUS
    <3>2. a # 0 => a * a # 0
      OBVIOUS
    <3>3. b # 0 => b * b # 0
      OBVIOUS
    <3> QED  BY <3>1, <3>2, <3>3
  <2> QED  BY <2>1, <2>3, <2>4, <2>5
<1>12. PICK j \in D : IsNearest(j, next, screens) /\ NearestScreen(next, screens) = screens[j]
  BY <1>8, NearestIsOne
<1>13. j = i
  <2>1. DistanceTo(next, screens[j]) <= 0
    BY <1>10, <1>12 DEF IsNearest
  <2>2. DistanceTo(next, screens[j]) \in Nat
    BY <1>1, <1>8, <1>12, DistanceIsNatural
  <2>3. DistanceTo(next, screens[j]) = 0
    BY <2>1, <2>2
  <2> QED  BY <1>11, <1>12, <2>3
<1> QED  BY <1>5, <1>12, <1>13 DEF ClampForMode, next, m

\* Where the work areas do not overlap and are large enough for the panel, it is
\* recovered to its place at once, for integers of every size: the Moved event
\* that answers the move of an expansion asks for no other.
THEOREM PanelSettlesAtOnce ==
  ASSUME NEW q \in AnyQuestion, q.mode = "Expanded",
         AreasApart(q.screens), FitsEverywhere(q.size, q.screens)
  PROVE  Answer(AskAgain(q)) = Answer(q) /\ Settles(q)
<1> DEFINE c == ClampForMode(q.at, q.size, q.screens, q.mode)
<1>1. /\ q.at \in Position /\ q.size \in Size /\ q.screens \in Seq(RectScreen) \ {<<>>}
      /\ q.mode # "Collapsed"
  BY DEF AnyQuestion
<1>2. ClampForMode(c, q.size, q.screens, q.mode) = c
  BY <1>1, PanelIsStable
<1> HIDE DEF c
<1>3. Answer(q) = c /\ Answer(AskAgain(q)) = ClampForMode(c, q.size, q.screens, q.mode)
  BY AnswerAgain DEF c
<1> QED  BY <1>2, <1>3, StableSettles

-----------------------------------------------------------------------------
(* The questions of the runs, in their own state.                          *)

LEMMA QuestionsAreAny ==
  ASSUME MaxInt >= 31 PROVE Questions \subseteq AnyQuestion
<1>0. MaxInt \in Nat /\ MaxInt >= 31
  BY GeometryAssumption
<1>1. Asked \subseteq Position
  BY <1>0 DEF Asked, Coordinates, Position, Int32
<1>2. Sizes \subseteq Size
  BY <1>0 DEF Sizes, Size, UInt32
<1>3. \A x, y \in -32..30 : \A w, h \in 1..31 :
        x + w <= 31 /\ y + h <= 31 => Area(x, y, w, h) \in RectScreen
  BY <1>0 DEF Area, RectScreen, Screen, Position, Size, Int32, UInt32
<1>4. /\ \A a \in RectScreen : <<a>> \in Seq(RectScreen) \ {<<>>}
      /\ \A a, b \in RectScreen : <<a, b>> \in Seq(RectScreen) \ {<<>>}
  OBVIOUS
<1>5. /\ Area(0, 0, 8, 6) \in RectScreen /\ Area(-32, -32, 31, 31) \in RectScreen
      /\ Area(30, 30, 1, 1) \in RectScreen /\ Area(8, 0, 7, 6) \in RectScreen
      /\ Area(-8, 2, 8, 3) \in RectScreen /\ Area(10, 8, 4, 4) \in RectScreen
      /\ Area(-9, -5, 4, 5) \in RectScreen /\ Area(3, -5, 5, 10) \in RectScreen
  <2> DEFINE Fits(x, y, w, h) == /\ x \in -32..30 /\ y \in -32..30 /\ w \in 1..31 /\ h \in 1..31
                                 /\ x + w <= 31 /\ y + h <= 31
  <2>1. \A x, y, w, h : Fits(x, y, w, h) => Area(x, y, w, h) \in RectScreen
    BY <1>3
  <2>2. /\ Fits(0, 0, 8, 6) /\ Fits(-32, -32, 31, 31) /\ Fits(30, 30, 1, 1) /\ Fits(8, 0, 7, 6)
        /\ Fits(-8, 2, 8, 3) /\ Fits(10, 8, 4, 4) /\ Fits(-9, -5, 4, 5) /\ Fits(3, -5, 5, 10)
    OBVIOUS
  <2> HIDE DEF Fits
  <2> QED  BY <2>1, <2>2
<1>6. Arrangements \subseteq Seq(RectScreen) \ {<<>>}
  BY <1>4, <1>5 DEF Arrangements
<1> QED  BY <1>1, <1>2, <1>6 DEF Questions, AnyQuestion, Mode

\* One asks of the arithmetic from the beginning, or never.
QuestionIsAsked == question # None => question \in Questions

LEMMA QuestionInvariance == UsersSpec => []QuestionIsAsked
<1>1. UsersInit => QuestionIsAsked
  BY DEF UsersInit, QuestionIsAsked
<1>2. QuestionIsAsked /\ [UsersNext]_<<vars, waits, question>> => QuestionIsAsked'
  BY DEF QuestionIsAsked, UsersNext
<1> QED  BY <1>1, <1>2, PTL DEF UsersSpec

\* The same where the questions of MCWindowGeometry fit the integers: whatever is
\* asked, the clamping does not panic and the answer shows enough of the window.
THEOREM AnswersShowTheWindow ==
  ASSUME MaxInt >= 31
  PROVE  UsersSpec => [](question # None => BoundsDoNotCross(question) /\ ShowsEnough(question))
<1>1. QuestionIsAsked => (question # None => BoundsDoNotCross(question) /\ ShowsEnough(question))
  BY QuestionsAreAny, RecoveryShowsTheWindow DEF QuestionIsAsked
<1> QED  BY <1>1, QuestionInvariance, PTL

\* On one work area all of ClampIsSound holds: the window that is moved to the
\* recovered position stays there when the Moved event is handled.
THEOREM ClampIsSoundOnOneArea ==
  ASSUME MaxInt >= 31
  PROVE  UsersSpec => []((question # None => Len(question.screens) = 1) => ClampIsSound)
<1>1. QuestionIsAsked => ((question # None => Len(question.screens) = 1) => ClampIsSound)
  BY QuestionsAreAny, RecoveryShowsTheWindow, OneAreaSettles DEF QuestionIsAsked, ClampIsSound
<1> QED  BY <1>1, QuestionInvariance, PTL

\* It holds for the panel on any work areas that hold it and do not overlap, as
\* those of several monitors.
THEOREM ClampIsSoundForThePanel ==
  ASSUME MaxInt >= 31
  PROVE  UsersSpec =>
           []((question # None => /\ question.mode = "Expanded"
                                  /\ AreasApart(question.screens)
                                  /\ FitsEverywhere(question.size, question.screens))
              => ClampIsSound)
<1>1. QuestionIsAsked =>
        ((question # None => /\ question.mode = "Expanded"
                             /\ AreasApart(question.screens)
                             /\ FitsEverywhere(question.size, question.screens))
         => ClampIsSound)
  BY QuestionsAreAny, RecoveryShowsTheWindow, PanelSettlesAtOnce DEF QuestionIsAsked, ClampIsSound
<1> QED  BY <1>1, QuestionInvariance, PTL

-----------------------------------------------------------------------------
(* The steps of both users.                                                *)

LEMMA ScreensAreSequence == Screens \in Seq(RectScreen) \ {<<>>}
  BY ShellAssumption

LEMMA SameGeometry ==
  \A p \in Position, window \in Size : \A how :
    Waiting!ClampForMode(p, window, Screens, how) = ClampForMode(p, window, Screens, how)
<1>1. \A n : Waiting!Saturate(n) = Saturate(n)
  BY DEF Waiting!Saturate, Saturate
<1>2. \A a, b : Waiting!Lesser(a, b) = Lesser(a, b)
  BY DEF Waiting!Lesser, Lesser
<1>3. \A n : Waiting!ToInt32(n) = ToInt32(n)
  BY <1>2 DEF Waiting!ToInt32, ToInt32
<1>4. \A w, l, m : Waiting!VisibleLength(w, l, m) = VisibleLength(w, l, m)
  BY <1>2, <1>3 DEF Waiting!VisibleLength, VisibleLength
<1>5. \A w, s, l, m : Waiting!LowestOf(w, s, l, m) = LowestOf(w, s, l, m)
  BY <1>1, <1>3, <1>4 DEF Waiting!LowestOf, LowestOf
<1>6. \A w, s, l, m : Waiting!HighestOf(w, s, l, m) = HighestOf(w, s, l, m)
  BY <1>1, <1>3, <1>4 DEF Waiting!HighestOf, HighestOf
<1>7. \A v, low, high : Waiting!Clamp(v, low, high) = Clamp(v, low, high)
  BY DEF Waiting!Clamp, Clamp
<1>8. \A v, w, s, l, m : Waiting!ClampAxis(v, w, s, l, m) = ClampAxis(v, w, s, l, m)
  BY <1>5, <1>6, <1>7 DEF Waiting!ClampAxis, ClampAxis
<1>9. \A p, window, screen, m :
        Waiting!ClampToScreen(p, window, screen, m) = ClampToScreen(p, window, screen, m)
  BY <1>8 DEF Waiting!ClampToScreen, ClampToScreen
<1>10. \A v, low, high : Waiting!AxisDistance(v, low, high) = AxisDistance(v, low, high)
  BY DEF Waiting!AxisDistance, AxisDistance
<1>11. \A point, screen : Waiting!DistanceTo(point, screen) = DistanceTo(point, screen)
  BY <1>1, <1>3, <1>10 DEF Waiting!DistanceTo, DistanceTo
<1>12. \A i, point, screens : Waiting!IsNearest(i, point, screens) <=> IsNearest(i, point, screens)
  BY <1>11 DEF Waiting!IsNearest, IsNearest
<1>13. \A p, window : Waiting!Centre(p, window) = Centre(p, window)
  BY <1>1, <1>3 DEF Waiting!Centre, Centre
<1>14. \A how : Waiting!MinimumVisible(how) = MinimumVisible(how)
  BY DEF Waiting!MinimumVisible, MinimumVisible
<1>15. ASSUME NEW point \in Position
       PROVE  Waiting!NearestScreen(point, Screens) = NearestScreen(point, Screens)
  <2>1. Screens \in Seq(RectScreen) /\ Screens # <<>>
    BY ScreensAreSequence
  <2>2. PICK i \in DOMAIN Screens :
          IsNearest(i, point, Screens) /\ NearestScreen(point, Screens) = Screens[i]
    BY <2>1, NearestIsOne
  <2>3. PICK j \in DOMAIN Screens :
          IsNearest(j, point, Screens) /\ Waiting!NearestScreen(point, Screens) = Screens[j]
    BY <2>2, <1>12 DEF Waiting!NearestScreen
  <2>4. DistanceTo(point, Screens[i]) = DistanceTo(point, Screens[j])
    <3>1. /\ DistanceTo(point, Screens[i]) \in Nat
          /\ DistanceTo(point, Screens[j]) \in Nat
      BY <2>1, DistanceIsNatural
    <3>2. /\ DistanceTo(point, Screens[i]) <= DistanceTo(point, Screens[j])
          /\ DistanceTo(point, Screens[j]) <= DistanceTo(point, Screens[i])
      BY <2>2, <2>3 DEF IsNearest
    <3> QED  BY <3>1, <3>2
  <2>5. i = j
    <3>1. i <= j /\ j <= i
      BY <2>2, <2>3, <2>4 DEF IsNearest
    <3> QED  BY <3>1, <2>1
  <2> QED  BY <2>2, <2>3, <2>5
<1> QED  BY <1>9, <1>13, <1>14, <1>15, CentreIsPosition DEF Waiting!ClampForMode, ClampForMode

\* Everything has its type, and there is a position while a timer of the launch
\* is to run.
ShellTypes == TypeOK /\ (launch.left > 0 => launch.position # None)

\* The steps of the two users of MCWindowShell, of which only one knows of a
\* window that cannot be shown.
ShellUser == User \/ Waiting!Restore \/ Waiting!OpenSettings
ShellNext == ShellUser \/ ApplyLayout \/ HandleEvent \/ Timers

\* The user who waits takes the steps of the other one, in his own time.
LEMMA WaitingSteps ==
  ASSUME ShellTypes, MaxTimers >= 1, Waiting!Next
  PROVE  (TimersIdle /\ ShellUser) \/ ApplyLayout \/ HandleEvent \/ Timers
<1>0. TypeOK /\ MaxTimers \in Nat
  BY ShellAssumption DEF ShellTypes
<1>1. Waiting!UserActs => UserActs /\ TimersIdle
  BY DEF UserActs, Waiting!UserActs, TimersIdle, Waiting!TimersIdle, NoEvents,
         Waiting!NoEvents, LaidOut, Waiting!LaidOut, LayoutOf, Waiting!LayoutOf
<1>2. Waiting!Toggle => Toggle
  <2>1. Len(late) < 1 => Len(late) < MaxTimers
    BY <1>0 DEF TypeOK
  <2>2. Waiting!Collapse => Collapse
    BY <2>1 DEF Collapse, Waiting!Collapse, Notify, Waiting!Notify, SyncTray,
           Waiting!SyncTray, MonitorActivity, Waiting!MonitorActivity, VisiblePhases,
           Waiting!VisiblePhases
  <2>3. Waiting!Expand(ui.tab) => Expand(ui.tab)
    BY DEF Expand, Waiting!Expand, Notify, Waiting!Notify, SyncTray, Waiting!SyncTray,
           MonitorActivity, Waiting!MonitorActivity, VisiblePhases,
           Waiting!VisiblePhases, timerVars, Waiting!timerVars
  <2> QED  BY <2>2, <2>3 DEF Toggle, Waiting!Toggle
<1>3. \A p \in Position : \A how, rest : Waiting!Recover(p, how, rest) => Recover(p, how, rest)
  <2>1. size \in Size
    BY <1>0, ShellAssumption DEF TypeOK
  <2> QED  BY <2>1, SameGeometry DEF Recover, Waiting!Recover, Moved, Waiting!Moved
<1>4. Waiting!TimerRuns => TimerRuns
  BY DEF TimerRuns, Waiting!TimerRuns, NoEvents, Waiting!NoEvents, LaidOut,
         Waiting!LaidOut, LayoutOf, Waiting!LayoutOf, stateVars, Waiting!stateVars
<1>5. Waiting!User => TimersIdle /\ ShellUser
  <2>1. Waiting!ToggleRequested => TimersIdle /\ ToggleRequested
    BY <1>1, <1>2 DEF ToggleRequested, Waiting!ToggleRequested, nativeVars,
           Waiting!nativeVars
  <2>2. Waiting!MascotClicked => TimersIdle /\ MascotClicked
    BY <1>1, <1>2 DEF MascotClicked, Waiting!MascotClicked, VisiblePhases,
           Waiting!VisiblePhases, nativeVars, Waiting!nativeVars, stateVars,
           Waiting!stateVars, timerVars, Waiting!timerVars
  <2>3. Waiting!EscapePressed => TimersIdle /\ EscapePressed
    <3>1. phase = "Expanded" /\ Waiting!Collapse => Collapse
      BY <1>2 DEF Waiting!Toggle, Toggle
    <3> QED  BY <1>1, <3>1 DEF EscapePressed, Waiting!EscapePressed, nativeVars, Waiting!nativeVars
  <2>4. Waiting!Hide => TimersIdle /\ Hide
    BY <1>1 DEF Hide, Waiting!Hide, MonitorActivity, Waiting!MonitorActivity, Notify,
           Waiting!Notify, SyncTray, Waiting!SyncTray, VisiblePhases,
           Waiting!VisiblePhases, nativeVars, Waiting!nativeVars, timerVars,
           Waiting!timerVars
  <2>5. Waiting!SelectTab => TimersIdle /\ SelectTab
    BY <1>1 DEF MonitorActivity, Waiting!MonitorActivity, Notify, Waiting!Notify,
           SelectTab, Waiting!SelectTab, nativeVars, Waiting!nativeVars, stateVars,
           Waiting!stateVars, timerVars, Waiting!timerVars
  <2>6. Waiting!Exit => TimersIdle /\ Exit
    BY <1>1 DEF Exit, Waiting!Exit, nativeVars, Waiting!nativeVars, timerVars,
           Waiting!timerVars
  <2>7. \A f \in Flag : Waiting!ToggleFlag(f) => TimersIdle /\ ToggleFlag(f)
    BY <1>1 DEF ToggleFlag, Waiting!ToggleFlag, nativeVars, Waiting!nativeVars,
           timerVars, Waiting!timerVars
  <2>8. Waiting!Restore => TimersIdle
    BY <1>1 DEF Waiting!Restore
  <2>9. Waiting!OpenSettings => TimersIdle
    BY <1>1 DEF Waiting!OpenSettings
  <2>10. Waiting!Press => TimersIdle /\ Press
    BY <1>1 DEF Press, Waiting!Press, nativeVars, Waiting!nativeVars, stateVars,
           Waiting!stateVars, timerVars, Waiting!timerVars
  <2>11. \A p \in Places : Waiting!DragTo(p) => TimersIdle /\ DragTo(p)
    <3>1. \A p \in Places : Waiting!ClampForMode(p, Mascot, Screens, "Collapsed")
                            = ClampForMode(p, Mascot, Screens, "Collapsed")
      BY SameGeometry, ShellAssumption
    <3> QED  BY <1>1, <3>1 DEF DragTo, Waiting!DragTo, CanDrag, Waiting!CanDrag, VisiblePhases,
           Waiting!VisiblePhases, Moved, Waiting!Moved, stateVars, Waiting!stateVars,
           timerVars, Waiting!timerVars
  <2> QED  BY <2>1, <2>2, <2>3, <2>4, <2>5, <2>6, <2>7, <2>8, <2>9, <2>10, <2>11
           DEF User, Waiting!User, Gesture, Waiting!Gesture, ShellUser
<1>6. Waiting!ApplyLayout => ApplyLayout
  BY DEF ApplyLayout, Waiting!ApplyLayout, NoEvents, Waiting!NoEvents, LaidOut,
         Waiting!LaidOut, LayoutOf, Waiting!LayoutOf, Resized, Waiting!Resized,
         stateVars, Waiting!stateVars, timerVars, Waiting!timerVars
<1>7. Waiting!HandleEvent => HandleEvent
  <2> SUFFICES ASSUME Waiting!HandleEvent PROVE HandleEvent
    OBVIOUS
  <2> DEFINE at == IF Head(events).kind = "Moved" THEN Head(events).position ELSE position
  <2>1. events # <<>> /\ Waiting!Recover(at, mode, Tail(events))
    BY DEF Waiting!HandleEvent, Waiting!NoEvents
  <2>2. Head(events) \in [kind : {"Moved"}, position : Position] \cup {Resized}
    BY <1>0, <2>1, HeadTailProperties DEF TypeOK
  <2>3. at \in Position
    BY <1>0, <2>2 DEF TypeOK, Resized
  <2>4. Recover(at, mode, Tail(events))
    BY <1>3, <2>1, <2>3
  <2> QED  BY <2>1, <2>4
           DEF HandleEvent, Waiting!HandleEvent, NoEvents, stateVars, Waiting!stateVars,
               timerVars, Waiting!timerVars
<1>8. Waiting!Timers => Timers
  <2>1. launch.left > 0 => launch.position \in Position
    BY DEF ShellTypes, TypeOK
  <2>2. Waiting!LaunchTimer => LaunchTimer
    BY <1>3, <1>4, <2>1 DEF LaunchTimer, Waiting!LaunchTimer
  <2>3. Waiting!SoonTimer => SoonTimer
    BY <1>0, <1>3, <1>4, HeadTailProperties DEF SoonTimer, Waiting!SoonTimer, TypeOK
  <2>4. Waiting!LateTimer => LateTimer
    <3>1. Len(late) > Len(soon) => Head(late) \in Position
      BY <1>0, HeadTailProperties, EmptySeq DEF TypeOK
    <3> QED  BY <1>3, <1>4, <3>1 DEF LateTimer, Waiting!LateTimer
  <2> QED  BY <2>2, <2>3, <2>4 DEF Timers, Waiting!Timers
<1> QED  BY <1>5, <1>6, <1>7, <1>8 DEF Waiting!Next

-----------------------------------------------------------------------------
(* Types, phases and the monitor worker.                                   *)

Event == [kind : {"Moved"}, position : Position] \cup {Resized}

LEMMA RecoverMoves ==
  ASSUME ShellTypes, NEW p \in Position, NEW how, NEW rest \in Seq(Event),
         Recover(p, how, rest)
  PROVE  /\ position' \in Position /\ position' = ClampForMode(p, size, Screens, how)
         /\ stored' = position'
         /\ events' = IF position' # position THEN Append(rest, Moved(position')) ELSE rest
         /\ events' \in Seq(Event)
<1>1. position' = ClampForMode(p, size, Screens, how) /\ stored' = position'
  BY DEF Recover
<1>2. size \in Size
  BY ShellAssumption DEF ShellTypes, TypeOK
<1>3. position' \in Position
  BY <1>1, <1>2, ScreensAreSequence, RecoveryIsPosition
<1>4. events' = rest \o IF position' # position THEN <<Moved(position')>> ELSE <<>>
  BY <1>1 DEF Recover
<1>5. Moved(position') \in Event
  BY <1>3 DEF Event, Moved
<1>6. events' = IF position' # position THEN Append(rest, Moved(position')) ELSE rest
  BY <1>4, <1>5, AppendIsConcat, ConcatEmptySeq
<1> QED  BY <1>1, <1>3, <1>5, <1>6

\* Phase, mode, surfaces and what the monitor worker was told belong together.
ControlIInv ==
  /\ ShellTypes
  /\ phase \in VisiblePhases => mode = phase
  /\ ui.expanded <=> mode = "Expanded"
  /\ MonitorFollowsWindow

LEMMA ControlInit == Init => ControlIInv
<1> SUFFICES ASSUME Init PROVE ControlIInv
  OBVIOUS
<1>1. PICK f \in [Flag -> BOOLEAN] :
        /\ flags = f
        /\ ui = [visible |-> TRUE, expanded |-> FALSE, flags |-> f, tab |-> 0]
        /\ tray = [visible |-> TRUE, expanded |-> FALSE, flags |-> f]
  BY DEF Init
<1>2. PICK p \in SavedPlaces :
        /\ stored = p
        /\ launch = [position |-> p, left |-> IF p = None THEN 0 ELSE 2]
        /\ mascotPlace = IF p = None THEN OpenedAt
                         ELSE ClampForMode(p, Mascot, Screens, "Collapsed")
  BY DEF Init
<1>3. stored \in Position \cup {None} /\ (p # None => p \in Position)
  BY <1>2, ShellAssumption
<1>4. mascotPlace \in Position
  BY <1>2, <1>3, ShellAssumption, RecoveryIsPosition
<1>5. launch \in [position : Position \cup {None}, left : 0..2]
  BY <1>2, <1>3
<1>6. /\ ui \in [visible : BOOLEAN, expanded : BOOLEAN, flags : [Flag -> BOOLEAN], tab : Tabs]
      /\ tray \in [visible : BOOLEAN, expanded : BOOLEAN, flags : [Flag -> BOOLEAN]]
  BY <1>1, ShellAssumption
<1>7. soon = <<>> /\ late = <<>> /\ events = <<>> /\ Len(<<>>) = 0
  BY DEF Init
<1>8. TypeOK
  <2>1. <<>> \in Seq(Position) /\ events \in Seq(Event)
    BY <1>7
  <2>2. MaxTimers >= 0
    BY ShellAssumption
  <2>3. /\ phase \in Phase /\ mode \in Mode /\ flags \in [Flag -> BOOLEAN]
        /\ remembered \in Position \cup {None} /\ activity \in Activity
        /\ gesture \in {"None", "Pressed", "Dragging"} /\ dispatching \in BOOLEAN
        /\ position \in Position /\ size \in {Mascot, Panel}
    BY <1>1, ShellAssumption DEF Init, Phase, Mode, Activity
  <2> QED  BY <1>3, <1>4, <1>5, <1>6, <1>7, <2>1, <2>2, <2>3 DEF TypeOK, Event
<1>9. launch.left > 0 => launch.position # None
  BY <1>2
<1>10. MonitorFollowsWindow
  BY <1>1 DEF Init, MonitorFollowsWindow, MonitorActivity
<1> QED  BY <1>1, <1>8, <1>9, <1>10 DEF Init, ControlIInv, ShellTypes, VisiblePhases

\* A toggle, without what it leaves to its callers.
LEMMA ToggleKeepsControl ==
  ASSUME ControlIInv, phase # "Exiting", Toggle,
         UNCHANGED <<position, size, events, dispatching, stored, mascotPlace>>,
         gesture' \in {"None", "Pressed", "Dragging"}
  PROVE  ControlIInv'
<1>0. TypeOK
  BY DEF ControlIInv, ShellTypes
<1>1. CASE phase = "Expanded" /\ Collapse
  <2>1. soon' \in Seq(Position) /\ late' \in Seq(Position)
        /\ Len(soon') <= Len(late') /\ Len(late') <= MaxTimers
    <3>1. CASE remembered = None
      BY <3>1, <1>0, <1>1 DEF Collapse, TypeOK
    <3>2. CASE remembered # None
      <4>1. /\ Len(late) < MaxTimers /\ remembered \in Position
            /\ soon' = Append(soon, remembered) /\ late' = Append(late, remembered)
        BY <3>2, <1>0, <1>1 DEF Collapse, TypeOK
      <4> QED  BY <4>1, <1>0, ShellAssumption, AppendProperties DEF TypeOK
    <3> QED  BY <3>1, <3>2
  <2>2. TypeOK'
    BY <2>1, <1>0, <1>1 DEF Collapse, TypeOK, SyncTray, Notify, MonitorActivity, Activity,
                            Phase, Mode, VisiblePhases
  <2> QED  BY <2>2, <1>0, <1>1 DEF Collapse, ControlIInv, ShellTypes, TypeOK, Notify,
                                  MonitorFollowsWindow, VisiblePhases
<1>2. CASE phase = "Collapsed" /\ Expand(ui.tab)
  <2>1. TypeOK'
    BY <1>0, <1>2 DEF Expand, TypeOK, SyncTray, Notify, MonitorActivity, Activity,
                      Phase, Mode, VisiblePhases, timerVars
  <2> QED  BY <2>1, <1>0, <1>2 DEF Expand, ControlIInv, ShellTypes, TypeOK, Notify,
                                  MonitorFollowsWindow, VisiblePhases, timerVars
<1> QED  BY <1>1, <1>2 DEF Toggle

\* What restore_window and open_settings do, whether or not the window is shown.
RestoreOutcome(done) ==
  /\ NoEvents /\ LaidOut /\ phase # "Exiting"
  /\ phase' = IF phase = "Hidden" THEN mode ELSE phase
  /\ ui' = [visible |-> ui.visible \/ done,
            expanded |-> IF phase = "Hidden" THEN mode = "Expanded" ELSE ui.expanded,
            flags |-> ui.flags, tab |-> ui.tab]
  /\ SyncTray
  /\ done => Notify
  /\ ~done => UNCHANGED activity
  /\ UNCHANGED <<mode, flags, remembered, gesture, nativeVars, timerVars, stored, mascotPlace>>

OpenSettingsOutcome(done) ==
  /\ NoEvents /\ LaidOut /\ phase # "Exiting" /\ 2 \in Tabs
  /\ phase' = "Expanded" /\ mode' = "Expanded"
  /\ remembered' = IF phase = "Collapsed" \/ (phase = "Hidden" /\ mode = "Collapsed")
                     THEN position ELSE remembered
  /\ ui' = [visible |-> ui.visible \/ done, expanded |-> TRUE, flags |-> ui.flags, tab |-> 2]
  /\ Notify /\ SyncTray
  /\ UNCHANGED <<flags, gesture, nativeVars, timerVars, stored, mascotPlace>>

LEMMA UiUpdates ==
  ASSUME TypeOK, NEW t, NEW b, NEW done
  PROVE  LET n == [ui EXCEPT !.expanded = b, !.tab = t]
         IN  /\ n = [visible |-> ui.visible, expanded |-> b, flags |-> ui.flags, tab |-> t]
             /\ n.visible = ui.visible
             /\ [n EXCEPT !.visible = done]
                  = [visible |-> done, expanded |-> b, flags |-> ui.flags, tab |-> t]
             /\ [ui EXCEPT !.expanded = b, !.tab = t, !.visible = done]
                  = [visible |-> done, expanded |-> b, flags |-> ui.flags, tab |-> t]
<1> DEFINE n == [ui EXCEPT !.expanded = b, !.tab = t]
<1>1. ui \in [visible : BOOLEAN, expanded : BOOLEAN, flags : [Flag -> BOOLEAN], tab : Tabs]
  BY DEF TypeOK
<1>2. [ui EXCEPT !.expanded = b]
        = [visible |-> ui.visible, expanded |-> b, flags |-> ui.flags, tab |-> ui.tab]
  BY <1>1
<1>3. [[visible |-> ui.visible, expanded |-> b, flags |-> ui.flags, tab |-> ui.tab]
         EXCEPT !.tab = t]
        = [visible |-> ui.visible, expanded |-> b, flags |-> ui.flags, tab |-> t]
  OBVIOUS
<1>4. n = [[ui EXCEPT !.expanded = b] EXCEPT !.tab = t]
  OBVIOUS
<1>5. n = [visible |-> ui.visible, expanded |-> b, flags |-> ui.flags, tab |-> t]
  BY <1>2, <1>3, <1>4
<1>6. [ui EXCEPT !.expanded = b, !.tab = t, !.visible = done] = [n EXCEPT !.visible = done]
  OBVIOUS
<1> HIDE DEF n
<1>7. /\ n.visible = ui.visible
      /\ [n EXCEPT !.visible = done]
           = [visible |-> done, expanded |-> b, flags |-> ui.flags, tab |-> t]
  BY <1>5
<1> QED  BY <1>5, <1>6, <1>7 DEF n

LEMMA RestoreHasOutcome ==
  ASSUME TypeOK
  PROVE  /\ Restore => \E done \in BOOLEAN : RestoreOutcome(done) /\ (~done => ShowFails)
         /\ Waiting!Restore => \E done \in BOOLEAN : RestoreOutcome(done)
<1>1. ASSUME NEW t, NEW b, NEW done
      PROVE  LET n == [ui EXCEPT !.expanded = b, !.tab = t]
             IN  /\ n.visible = ui.visible
                 /\ [n EXCEPT !.visible = done]
                      = [visible |-> done, expanded |-> b, flags |-> ui.flags, tab |-> t]
  BY UiUpdates
<1>2. ui \in [visible : BOOLEAN, expanded : BOOLEAN, flags : [Flag -> BOOLEAN], tab : Tabs]
  BY DEF TypeOK
<1>3. Restore => \E done \in BOOLEAN : RestoreOutcome(done) /\ (~done => ShowFails)
  <2> SUFFICES ASSUME Restore PROVE \E done \in BOOLEAN : RestoreOutcome(done) /\ (~done => ShowFails)
    OBVIOUS
  <2>1. PICK done \in {TRUE} \cup IF ShowFails THEN {FALSE} ELSE {} :
       /\ phase' = Restored(ui.tab).phase
       /\ ui' = [Restored(ui.tab).ui EXCEPT !.visible = @ \/ done]
       /\ SyncTray
       /\ IF done THEN Notify ELSE UNCHANGED activity
    BY DEF Restore
  <2>2. done \in BOOLEAN /\ (~done => ShowFails)
    OBVIOUS
  <2>3. RestoreOutcome(done)
    BY <2>1, <2>2, <1>1, <1>2 DEF RestoreOutcome, Restore, Restored, UserActs
  <2> QED  BY <2>2, <2>3
<1>4. Waiting!Restore => \E done \in BOOLEAN : RestoreOutcome(done)
  <2> SUFFICES ASSUME Waiting!Restore PROVE \E done \in BOOLEAN : RestoreOutcome(done)
    OBVIOUS
  <2>1. PICK done \in BOOLEAN :
       /\ phase' = Waiting!Restored(ui.tab).phase
       /\ ui' = [Waiting!Restored(ui.tab).ui EXCEPT !.visible = @ \/ done]
       /\ Waiting!SyncTray
       /\ IF done THEN Waiting!Notify ELSE UNCHANGED activity
    BY DEF Waiting!Restore
  <2>2. RestoreOutcome(done)
    BY <2>1, <1>1, <1>2
       DEF RestoreOutcome, Waiting!Restore, Waiting!Restored, Waiting!UserActs,
           NoEvents, Waiting!NoEvents, LaidOut, Waiting!LaidOut, LayoutOf, Waiting!LayoutOf,
           SyncTray, Waiting!SyncTray, VisiblePhases, Waiting!VisiblePhases,
           Notify, Waiting!Notify, MonitorActivity, Waiting!MonitorActivity,
           nativeVars, Waiting!nativeVars, timerVars, Waiting!timerVars
  <2> QED  BY <2>2
<1> QED  BY <1>3, <1>4

LEMMA OpenSettingsHasOutcome ==
  ASSUME TypeOK
  PROVE  /\ OpenSettings => \E done \in BOOLEAN : OpenSettingsOutcome(done) /\ (~done => ShowFails)
         /\ Waiting!OpenSettings => \E done \in BOOLEAN : OpenSettingsOutcome(done)
<1>1. ASSUME NEW t, NEW b, NEW done
      PROVE  [ui EXCEPT !.expanded = b, !.tab = t, !.visible = done]
               = [visible |-> done, expanded |-> b, flags |-> ui.flags, tab |-> t]
  BY UiUpdates
<1>2. ui \in [visible : BOOLEAN, expanded : BOOLEAN, flags : [Flag -> BOOLEAN], tab : Tabs]
  BY DEF TypeOK
<1>3. OpenSettings => \E done \in BOOLEAN : OpenSettingsOutcome(done) /\ (~done => ShowFails)
  <2> SUFFICES ASSUME OpenSettings
               PROVE \E done \in BOOLEAN : OpenSettingsOutcome(done) /\ (~done => ShowFails)
    OBVIOUS
  <2>1. PICK done \in {TRUE} \cup IF ShowFails THEN {FALSE} ELSE {} :
       /\ phase' = "Expanded" /\ mode' = "Expanded"
       /\ remembered' = IF Restored(2).phase = "Collapsed" THEN position ELSE remembered
       /\ ui' = [ui EXCEPT !.expanded = TRUE, !.tab = 2, !.visible = @ \/ done]
       /\ Notify /\ SyncTray
    BY DEF OpenSettings
  <2>2. done \in BOOLEAN /\ (~done => ShowFails)
    OBVIOUS
  <2>3. OpenSettingsOutcome(done)
    BY <2>1, <2>2, <1>1, <1>2 DEF OpenSettingsOutcome, OpenSettings, Restored, UserActs
  <2> QED  BY <2>2, <2>3
<1>4. Waiting!OpenSettings => \E done \in BOOLEAN : OpenSettingsOutcome(done)
  <2> SUFFICES ASSUME Waiting!OpenSettings PROVE \E done \in BOOLEAN : OpenSettingsOutcome(done)
    OBVIOUS
  <2>1. PICK done \in BOOLEAN :
       /\ phase' = "Expanded" /\ mode' = "Expanded"
       /\ remembered' = IF Waiting!Restored(2).phase = "Collapsed" THEN position ELSE remembered
       /\ ui' = [ui EXCEPT !.expanded = TRUE, !.tab = 2, !.visible = @ \/ done]
       /\ Waiting!Notify /\ Waiting!SyncTray
    BY DEF Waiting!OpenSettings
  <2>2. OpenSettingsOutcome(done)
    BY <2>1, <1>1, <1>2
       DEF OpenSettingsOutcome, Waiting!OpenSettings, Waiting!Restored, Waiting!UserActs,
           NoEvents, Waiting!NoEvents, LaidOut, Waiting!LaidOut, LayoutOf, Waiting!LayoutOf,
           SyncTray, Waiting!SyncTray, VisiblePhases, Waiting!VisiblePhases,
           Notify, Waiting!Notify, MonitorActivity, Waiting!MonitorActivity,
           nativeVars, Waiting!nativeVars, timerVars, Waiting!timerVars
  <2> QED  BY <2>2
<1> QED  BY <1>3, <1>4

UiStates == [visible : BOOLEAN, expanded : BOOLEAN, flags : [Flag -> BOOLEAN], tab : Tabs]
TrayStates == [visible : BOOLEAN, expanded : BOOLEAN, flags : [Flag -> BOOLEAN]]

LEMMA ControlStep ==
  ASSUME ControlIInv, [ShellNext]_vars
  PROVE  ControlIInv'
<1> USE DEF ControlIInv, ShellTypes
<1>0. TypeOK
  OBVIOUS
<1>1. CASE ToggleRequested
  BY <1>1, <1>0, ToggleKeepsControl DEF ToggleRequested, UserActs, TypeOK, nativeVars
<1>2. CASE MascotClicked
  <2>1. CASE gesture = "Pressed" /\ phase \in VisiblePhases
    BY <2>1, <1>2, <1>0, ToggleKeepsControl DEF MascotClicked, UserActs, TypeOK, nativeVars
  <2>2. CASE ~(gesture = "Pressed" /\ phase \in VisiblePhases)
    <3>1. UNCHANGED <<stateVars, ui, tray, activity, timerVars, nativeVars, stored, mascotPlace>>
          /\ gesture' = "None"
      BY <2>2, <1>2 DEF MascotClicked
    <3>2. TypeOK'
      BY <3>1, <1>0 DEF TypeOK, stateVars, nativeVars, timerVars
    <3> QED  BY <3>1, <3>2 DEF MonitorFollowsWindow, stateVars, timerVars
  <2> QED  BY <2>1, <2>2
<1>3. CASE EscapePressed
  BY <1>3, <1>0, ToggleKeepsControl DEF EscapePressed, Toggle, UserActs, TypeOK, nativeVars
<1>4. CASE Hide
  <2>1. TypeOK'
    <3>1. phase' \in Phase /\ mode' \in Mode /\ activity' \in Activity /\ remembered' \in Position \cup {None}
      BY <1>4, <1>0 DEF Hide, TypeOK, Phase, Mode, VisiblePhases, Activity, SyncTray,
             Notify, MonitorActivity, nativeVars, timerVars
    <3>2. ui' \in UiStates
      BY <1>4, <1>0, ShellAssumption DEF Hide, UiStates, TypeOK, Phase, Mode,
             VisiblePhases, Activity, SyncTray, Notify, MonitorActivity, nativeVars,
             timerVars
    <3>3. tray' \in TrayStates
      BY <1>4, <1>0, <3>1 DEF Hide, TrayStates, TypeOK, VisiblePhases, SyncTray, Notify,
             MonitorActivity, nativeVars, timerVars
    <3> QED
      BY <3>1, <3>2, <3>3, <1>4, <1>0 DEF Hide, TypeOK, UiStates, TrayStates, nativeVars,
             timerVars
  <2> QED
    BY <2>1, <1>4, <1>0 DEF Hide, TypeOK, MonitorFollowsWindow, VisiblePhases, SyncTray,
           Notify, MonitorActivity, nativeVars, timerVars
<1>5. CASE Restore \/ Waiting!Restore
  <2>1. PICK done \in BOOLEAN : RestoreOutcome(done)
    BY <1>5, <1>0, RestoreHasOutcome
  <2>2. /\ phase' \in Phase /\ mode' \in Mode
        /\ activity' \in Activity /\ remembered' \in Position \cup {None}
    BY <2>1, <1>0 DEF RestoreOutcome, TypeOK, Phase, Mode, Activity, Notify, MonitorActivity
  <2>3. (ui.visible \/ done) \in BOOLEAN /\ (mode = "Expanded") \in BOOLEAN
    OBVIOUS
  <2>4. ui' \in UiStates
    BY <2>1, <2>3, <1>0 DEF RestoreOutcome, UiStates, TypeOK
  <2>5. tray' \in TrayStates
    BY <2>1, <1>0 DEF RestoreOutcome, TrayStates, TypeOK, SyncTray, VisiblePhases
  <2>6. TypeOK'
    BY <2>1, <2>2, <2>4, <2>5, <1>0
       DEF RestoreOutcome, TypeOK, UiStates, TrayStates, nativeVars, timerVars
  <2>7. MonitorFollowsWindow'
    BY <2>1, <1>0 DEF RestoreOutcome, TypeOK, Notify, MonitorFollowsWindow, VisiblePhases
  <2> QED  BY <2>1, <2>6, <2>7, <1>0 DEF RestoreOutcome, TypeOK, VisiblePhases, timerVars
<1>6. CASE OpenSettings \/ Waiting!OpenSettings
  <2>1. PICK done \in BOOLEAN : OpenSettingsOutcome(done)
    BY <1>6, <1>0, OpenSettingsHasOutcome
  <2>2. /\ phase' \in Phase /\ mode' \in Mode
        /\ activity' \in Activity /\ remembered' \in Position \cup {None}
    BY <2>1, <1>0 DEF OpenSettingsOutcome, TypeOK, Phase, Mode, Activity, Notify, MonitorActivity
  <2>3. (ui.visible \/ done) \in BOOLEAN /\ (mode = "Expanded") \in BOOLEAN
    OBVIOUS
  <2>4. ui' \in UiStates
    BY <2>1, <2>3, <1>0 DEF OpenSettingsOutcome, UiStates, TypeOK
  <2>5. tray' \in TrayStates
    BY <2>1, <1>0 DEF OpenSettingsOutcome, TrayStates, TypeOK, SyncTray, VisiblePhases
  <2>6. TypeOK'
    BY <2>1, <2>2, <2>4, <2>5, <1>0
       DEF OpenSettingsOutcome, TypeOK, UiStates, TrayStates, nativeVars, timerVars
  <2>7. MonitorFollowsWindow'
    BY <2>1, <1>0 DEF OpenSettingsOutcome, TypeOK, Notify, MonitorFollowsWindow, VisiblePhases
  <2> QED  BY <2>1, <2>6, <2>7, <1>0 DEF OpenSettingsOutcome, TypeOK, VisiblePhases, timerVars
<1>7. CASE SelectTab
  <2>1. TypeOK'
    BY <1>7, <1>0, ShellAssumption DEF SelectTab, TypeOK, Phase, Mode, VisiblePhases,
           Activity, UserActs, Notify, MonitorActivity, stateVars, nativeVars, timerVars
  <2> QED
    BY <2>1, <1>7, <1>0 DEF SelectTab, TypeOK, MonitorFollowsWindow, VisiblePhases,
           UserActs, Notify, MonitorActivity, stateVars, nativeVars, timerVars
<1>8. CASE Exit
  <2>1. TypeOK'
    BY <1>8, <1>0, ShellAssumption DEF Exit, TypeOK, Phase, Mode, VisiblePhases,
           Activity, nativeVars, timerVars
  <2> QED
    BY <2>1, <1>8, <1>0 DEF Exit, TypeOK, MonitorFollowsWindow, VisiblePhases,
           nativeVars, timerVars
<1>9. ASSUME NEW f \in Flag, ToggleFlag(f) PROVE ControlIInv'
  <2>1. TypeOK'
    BY <1>9, <1>0, ShellAssumption DEF ToggleFlag, TypeOK, nativeVars, timerVars
  <2> QED
    BY <2>1, <1>9, <1>0 DEF ToggleFlag, TypeOK, MonitorFollowsWindow, timerVars
<1>10. CASE Press
  <2>1. TypeOK'
    BY <1>10, <1>0, ShellAssumption DEF Press, TypeOK, Phase, Mode, VisiblePhases,
           Activity, stateVars, nativeVars, timerVars
  <2> QED
    BY <2>1, <1>10, <1>0 DEF Press, TypeOK, MonitorFollowsWindow, VisiblePhases,
           stateVars, nativeVars, timerVars
<1>11. ASSUME NEW p \in Places, DragTo(p) PROVE ControlIInv'
  <2>1. p \in Position /\ Moved(p) \in Event
    BY ShellAssumption DEF Moved, Event
  <2>2. <<Moved(p)>> \in Seq(Event)
    BY <2>1
  <2>3. mascotPlace' \in Position
    BY <2>1, <1>11, <1>0, ShellAssumption, ScreensAreSequence, RecoveryIsPosition
       DEF DragTo, TypeOK
  <2>4. TypeOK'
    BY <2>1, <2>2, <2>3, <1>11, <1>0 DEF DragTo, TypeOK, Event, stateVars, timerVars
  <2> QED  BY <2>4, <1>11 DEF DragTo, MonitorFollowsWindow, stateVars, timerVars
<1>12. CASE ApplyLayout
  <2>1. <<Resized>> \in Seq(Event) /\ size' \in {Mascot, Panel}
    BY <1>12 DEF Event, ApplyLayout, LayoutOf
  <2>2. TypeOK'
    BY <2>1, <1>12, <1>0 DEF ApplyLayout, TypeOK, Event, stateVars, timerVars
  <2> QED  BY <2>2, <1>12 DEF ApplyLayout, MonitorFollowsWindow, stateVars, timerVars
<1>13. CASE HandleEvent
  <2> DEFINE at == IF Head(events).kind = "Moved" THEN Head(events).position ELSE position
  <2>1. events # <<>> /\ Recover(at, mode, Tail(events))
    BY <1>13 DEF HandleEvent, NoEvents
  <2>2. Head(events) \in Event /\ Tail(events) \in Seq(Event)
    BY <1>0, <2>1, HeadTailProperties DEF TypeOK, Event
  <2>3. at \in Position
    BY <1>0, <2>2 DEF TypeOK, Resized, Event
  <2>4. position' \in Position /\ stored' \in Position /\ events' \in Seq(Event)
    BY <2>1, <2>2, <2>3, RecoverMoves
  <2>5. TypeOK'
    BY <2>4, <1>13, <1>0 DEF HandleEvent, TypeOK, Event, stateVars, timerVars
  <2> QED  BY <2>5, <1>13 DEF HandleEvent, MonitorFollowsWindow, stateVars, timerVars
<1>14. CASE Timers
  <2>0. events \in Seq(Event) /\ MaxTimers \in Nat
    BY <1>0, ShellAssumption DEF TypeOK, Event
  <2>1. ASSUME NEW p \in Position, Recover(p, "Collapsed", events), TimerRuns,
               launch' \in [position : Position \cup {None}, left : 0..2],
               launch'.left > 0 => launch'.position # None,
               soon' \in Seq(Position), late' \in Seq(Position),
               Len(soon') <= Len(late'), Len(late') <= MaxTimers
        PROVE  ControlIInv'
    <3>1. position' \in Position /\ stored' \in Position /\ events' \in Seq(Event)
      BY <2>0, <2>1, RecoverMoves
    <3>2. TypeOK'
      BY <3>1, <2>1, <1>0 DEF TimerRuns, TypeOK, Event, stateVars
    <3> QED  BY <3>2, <2>1 DEF TimerRuns, MonitorFollowsWindow, stateVars
  <2>2. CASE LaunchTimer
    <3>1. launch.left > 0 /\ launch' = [launch EXCEPT !.left = @ - 1]
      BY <2>2 DEF LaunchTimer
    <3>2. launch.position \in Position /\ launch.left - 1 \in 0..2 /\ launch.position # None
      BY <3>1, <1>0, ShellAssumption DEF TypeOK
    <3>3. /\ launch' = [position |-> launch.position, left |-> launch.left - 1]
          /\ launch'.position # None
      BY <3>1, <3>2, <1>0 DEF TypeOK
    <3>4. launch' \in [position : Position \cup {None}, left : 0..2]
      BY <3>2, <3>3
    <3> QED  BY <3>2, <3>3, <3>4, <2>1, <2>2, <1>0 DEF LaunchTimer, TypeOK
  <2>3. CASE SoonTimer
    <3>1. /\ Head(soon) \in Position /\ soon' \in Seq(Position)
          /\ Len(soon') = Len(soon) - 1 /\ Len(soon) \in Nat /\ Len(late) \in Nat
      BY <2>3, <1>0, HeadTailProperties DEF SoonTimer, TypeOK
    <3> QED  BY <3>1, <2>1, <2>3, <1>0 DEF SoonTimer, TypeOK
  <2>4. CASE LateTimer
    <3>1. late # <<>> /\ Len(soon) \in Nat /\ Len(late) \in Nat
      BY <2>4, <1>0, EmptySeq DEF LateTimer, TypeOK
    <3>2. /\ Head(late) \in Position /\ late' \in Seq(Position)
          /\ Len(late') = Len(late) - 1
      BY <3>1, <2>4, <1>0, HeadTailProperties DEF LateTimer, TypeOK
    <3> QED  BY <3>1, <3>2, <2>0, <2>1, <2>4, <1>0 DEF LateTimer, TypeOK
  <2> QED  BY <1>14, <2>2, <2>3, <2>4 DEF Timers
<1>15. CASE UNCHANGED vars
  <2>1. TypeOK'
    BY <1>15, <1>0 DEF vars, stateVars, nativeVars, timerVars, TypeOK
  <2> QED  BY <2>1, <1>15 DEF vars, stateVars, timerVars, MonitorFollowsWindow
<1> QED  BY <1>1, <1>2, <1>3, <1>4, <1>5, <1>6, <1>7, <1>8, <1>9, <1>10, <1>11, <1>12,
            <1>13, <1>14, <1>15
         DEF ShellNext, ShellUser, User, Gesture

-----------------------------------------------------------------------------
(* What shows in the window and in the tray.                               *)

LEMMA SurfacesStep ==
  ASSUME ~ShowFails, ControlIInv, SurfacesAgree, [Next]_vars
  PROVE  SurfacesAgree'
<1>0. /\ TypeOK /\ (phase \in VisiblePhases => mode = phase)
      /\ ui.expanded = (mode = "Expanded")
      /\ ui.visible \in BOOLEAN /\ tray.visible \in BOOLEAN
  BY DEF ControlIInv, ShellTypes, TypeOK
<1>t. ASSUME Toggle, phase # "Exiting" PROVE SurfacesAgree'
  <2>1. phase \in VisiblePhases /\ phase' \in VisiblePhases /\ mode' = phase' /\ UNCHANGED flags
    BY <1>t DEF Toggle, Collapse, Expand, VisiblePhases
  <2>2. /\ ui'.expanded = (phase' = "Expanded")
        /\ ui'.visible = ui.visible /\ ui'.flags = ui.flags
    BY <1>t, <1>0 DEF Toggle, Collapse, Expand, TypeOK
  <2>3. tray' = [visible |-> phase' \in VisiblePhases, expanded |-> phase' = "Expanded",
                 flags |-> flags]
    BY <1>t DEF Toggle, Collapse, Expand, SyncTray
  <2>4. ui.visible = TRUE
    <3>1. (phase \in VisiblePhases) = TRUE
      BY <2>1
    <3>2. tray.visible = (phase \in VisiblePhases) /\ ui.visible = tray.visible
      BY <1>t DEF SurfacesAgree
    <3> QED  BY <3>1, <3>2
  <2>5. (phase' \in VisiblePhases) = TRUE
    BY <2>1
  <2>6. tray' = [visible |-> TRUE, expanded |-> phase' = "Expanded", flags |-> flags]
    BY <2>3, <2>5
  <2>7. tray'.visible = TRUE /\ ui.flags = flags
    BY <2>6, <1>t DEF SurfacesAgree
  <2> QED  BY <2>1, <2>2, <2>3, <2>4, <2>7 DEF SurfacesAgree
<1>1. CASE ToggleRequested
  BY <1>1, <1>t DEF ToggleRequested, UserActs
<1>2. CASE MascotClicked
  <2>1. CASE gesture = "Pressed" /\ phase \in VisiblePhases
    BY <2>1, <1>2, <1>t DEF MascotClicked, UserActs
  <2>2. CASE ~(gesture = "Pressed" /\ phase \in VisiblePhases)
    BY <2>2, <1>2 DEF MascotClicked, SurfacesAgree, stateVars
  <2> QED  BY <2>1, <2>2
<1>3. CASE EscapePressed
  BY <1>3, <1>t DEF EscapePressed, Toggle, UserActs
<1>4. CASE Hide
  <2>1. /\ phase' = "Hidden" /\ UNCHANGED <<mode, flags>>
        /\ ui'.visible = FALSE /\ ui'.expanded = ui.expanded /\ ui'.flags = ui.flags
    BY <1>4, <1>0 DEF Hide, TypeOK
  <2>2. tray' = [visible |-> FALSE, expanded |-> FALSE, flags |-> flags]
    <3>1. (phase' \in VisiblePhases) = FALSE /\ (phase' = "Expanded") = FALSE
      BY <2>1 DEF VisiblePhases
    <3> QED  BY <3>1, <1>4 DEF Hide, SyncTray
  <2>3. (phase' \in VisiblePhases) = FALSE /\ (phase' = "Expanded") = FALSE
    BY <2>1 DEF VisiblePhases
  <2>4. ui.flags = flags
    BY <1>4 DEF Hide, UserActs, SurfacesAgree
  <2>5. tray' = [visible |-> phase' \in VisiblePhases, expanded |-> phase' = "Expanded",
                 flags |-> flags']
    BY <2>1, <2>2, <2>3
  <2>6. tray'.visible = FALSE
    BY <2>2
  <2> QED  BY <2>1, <2>4, <2>5, <2>6, <1>0 DEF SurfacesAgree
<1>5. CASE Restore
  <2>1. PICK done \in BOOLEAN : RestoreOutcome(done) /\ (~done => ShowFails)
    BY <1>5, <1>0, RestoreHasOutcome
  <2>2. done = TRUE
    BY <2>1
  <2>3. RestoreOutcome(TRUE)
    BY <2>1, <2>2
  <2>4. phase' \in VisiblePhases /\ (mode' = "Expanded") = (phase' = "Expanded")
    BY <2>3, <1>0 DEF RestoreOutcome, VisiblePhases, TypeOK, Phase, Mode
  <2>5. ui'.visible = TRUE /\ ui'.flags = ui.flags /\ ui'.expanded = (mode' = "Expanded")
    BY <2>3, <1>0 DEF RestoreOutcome
  <2>6. tray' = [visible |-> TRUE, expanded |-> phase' = "Expanded", flags |-> flags]
    BY <2>3, <2>4 DEF RestoreOutcome, SyncTray
  <2> QED  BY <2>3, <2>4, <2>5, <2>6 DEF RestoreOutcome, SurfacesAgree
<1>6. CASE OpenSettings
  <2>1. PICK done \in BOOLEAN : OpenSettingsOutcome(done) /\ (~done => ShowFails)
    BY <1>6, <1>0, OpenSettingsHasOutcome
  <2>2. done = TRUE
    BY <2>1
  <2>3. OpenSettingsOutcome(TRUE)
    BY <2>1, <2>2
  <2>4. phase' \in VisiblePhases /\ (mode' = "Expanded") = (phase' = "Expanded")
    BY <2>3, <1>0 DEF OpenSettingsOutcome, VisiblePhases, TypeOK, Phase, Mode
  <2>5. ui'.visible = TRUE /\ ui'.flags = ui.flags /\ ui'.expanded = (mode' = "Expanded")
    BY <2>3, <1>0 DEF OpenSettingsOutcome
  <2>6. tray' = [visible |-> TRUE, expanded |-> phase' = "Expanded", flags |-> flags]
    BY <2>3, <2>4 DEF OpenSettingsOutcome, SyncTray
  <2> QED  BY <2>3, <2>4, <2>5, <2>6 DEF OpenSettingsOutcome, SurfacesAgree
<1>7. CASE SelectTab
  BY <1>7, <1>0 DEF SelectTab, UserActs, SurfacesAgree, stateVars, TypeOK
<1>8. CASE Exit
  BY <1>8 DEF Exit, SurfacesAgree
<1>9. ASSUME NEW f \in Flag, ToggleFlag(f) PROVE SurfacesAgree'
  <2>1. /\ flags' = [flags EXCEPT ![f] = ~@] /\ flags \in [Flag -> BOOLEAN]
        /\ phase # "Exiting" /\ UNCHANGED <<phase, mode>>
    BY <1>9, <1>0 DEF ToggleFlag, TypeOK, UserActs
  <2>2. ui' = [ui EXCEPT !.flags = [ui.flags EXCEPT ![f] = flags'[f]]]
    BY <1>9 DEF ToggleFlag
  <2>3. tray' = [tray EXCEPT !.flags = [tray.flags EXCEPT ![f] = flags'[f]]]
    BY <1>9 DEF ToggleFlag
  <2>4. ui.flags = flags /\ tray.flags = flags
    BY <2>1 DEF SurfacesAgree
  <2>5. [flags EXCEPT ![f] = flags'[f]] = flags'
    BY <2>1
  <2>6. ui'.flags = flags' /\ ui'.visible = ui.visible /\ ui'.expanded = ui.expanded
    BY <2>2, <2>4, <2>5, <1>0 DEF TypeOK
  <2>7. tray' = [tray EXCEPT !.flags = flags']
    BY <2>3, <2>4, <2>5
  <2>8. tray' = [visible |-> phase \in VisiblePhases, expanded |-> phase = "Expanded",
                 flags |-> flags']
    BY <2>1, <2>7 DEF SurfacesAgree
  <2> QED  BY <2>1, <2>6, <2>8 DEF SurfacesAgree
<1>10. CASE Press
  BY <1>10 DEF Press, SurfacesAgree, stateVars
<1>11. ASSUME NEW p \in Places, DragTo(p) PROVE SurfacesAgree'
  BY <1>11 DEF DragTo, SurfacesAgree, stateVars
<1>12. CASE ApplyLayout
  BY <1>12 DEF ApplyLayout, SurfacesAgree, stateVars
<1>13. CASE HandleEvent
  BY <1>13 DEF HandleEvent, SurfacesAgree, stateVars
<1>14. CASE Timers
  BY <1>14 DEF Timers, LaunchTimer, SoonTimer, LateTimer, TimerRuns, SurfacesAgree, stateVars
<1>15. CASE UNCHANGED vars
  BY <1>15 DEF vars, SurfacesAgree, stateVars
<1> QED  BY <1>1, <1>2, <1>3, <1>4, <1>5, <1>6, <1>7, <1>8, <1>9, <1>10, <1>11, <1>12,
            <1>13, <1>14, <1>15
         DEF Next, User, Gesture

\* The two users of MCWindowShell, together.
UsersIInv == ControlIInv /\ (~waits => SurfacesAgree)

usersVars == <<vars, waits, question>>

LEMMA UsersStep ==
  ASSUME ControlIInv, MaxTimers >= 1, [UsersNext]_usersVars
  PROVE  /\ [ShellNext]_vars
         /\ ~waits => [Next]_vars
         /\ waits => \/ (TimersIdle /\ ShellUser) \/ ApplyLayout \/ HandleEvent \/ Timers
                     \/ UNCHANGED vars
         /\ UNCHANGED waits
<1>1. CASE UNCHANGED usersVars
  BY <1>1 DEF usersVars
<1>2. CASE UsersNext /\ ~waits
  BY <1>2 DEF UsersNext, Next, ShellNext, ShellUser
<1>3. CASE UsersNext /\ waits
  BY <1>3, WaitingSteps DEF UsersNext, ShellNext, ControlIInv
<1> QED  BY <1>1, <1>2, <1>3

LEMMA UsersInvariance ==
  ASSUME MaxTimers >= 1, ~ShowFails PROVE UsersSpec => []UsersIInv
<1>1. UsersInit => UsersIInv
  <2>1. Init => SurfacesAgree
    <3> SUFFICES ASSUME Init PROVE SurfacesAgree
      OBVIOUS
    <3>1. PICK f \in [Flag -> BOOLEAN] :
            /\ flags = f
            /\ ui = [visible |-> TRUE, expanded |-> FALSE, flags |-> f, tab |-> 0]
            /\ tray = [visible |-> TRUE, expanded |-> FALSE, flags |-> f]
      BY DEF Init
    <3>2. /\ (phase \in VisiblePhases) = TRUE /\ (phase = "Expanded") = FALSE
          /\ (mode = "Expanded") = FALSE
      BY DEF Init, VisiblePhases
    <3>3. tray = [visible |-> phase \in VisiblePhases, expanded |-> phase = "Expanded",
                  flags |-> flags]
      BY <3>1, <3>2
    <3>4. /\ ui.visible = tray.visible /\ ui.expanded = (mode = "Expanded")
          /\ ui.flags = flags
      BY <3>1, <3>2
    <3> QED  BY <3>3, <3>4 DEF SurfacesAgree
  <2> QED  BY <2>1, ControlInit DEF UsersInit, UsersIInv
<1>2. UsersIInv /\ [UsersNext]_usersVars => UsersIInv'
  BY UsersStep, ControlStep, SurfacesStep DEF UsersIInv
<1> QED  BY <1>1, <1>2, PTL DEF UsersSpec, usersVars

\* The callbacks of the window, the tray and the second instance, in any order:
\* the tray and the window say what WindowState says as long as ui.show reports no
\* error, and the monitor worker knows what shows even when it does.
THEOREM SurfacesAlwaysFollow ==
  ASSUME MaxTimers >= 1, ~ShowFails PROVE UsersSpec => []SurfacesFollow
<1>1. UsersIInv => SurfacesFollow
  BY DEF UsersIInv, ControlIInv, ShellTypes, SurfacesFollow
<1> QED  BY <1>1, UsersInvariance, PTL

-----------------------------------------------------------------------------
(* Where the window rests.                                                 *)

\* At rest on a screen, and stored where it stands.
RestIInv ==
  /\ RestsOnScreen
  /\ NoEvents /\ launch.left = 0 /\ stored # None => stored = position

\* A position that has been recovered fits the work area it was recovered to.
LEMMA RecoveredFits ==
  ASSUME NEW p \in Position, NEW window \in Size, NEW how
  PROVE  LET c == ClampForMode(p, window, Screens, how)
         IN  \E i \in DOMAIN Screens :
                ClampToScreen(c, window, Screens[i], MinimumVisible(how)) = c
<1>1. PICK i \in DOMAIN Screens : NearestScreen(Centre(p, window), Screens) = Screens[i]
  BY ScreensAreSequence, CentreIsPosition, NearestIsOne
<1>2. Screens[i] \in RectScreen /\ MinimumVisible(how) \in 1..(2 * MaxInt + 1)
  BY ScreensAreSequence, MinimumIsPositive
<1>3. ClampForMode(p, window, Screens, how)
        = ClampToScreen(p, window, Screens[i], MinimumVisible(how))
  BY <1>1 DEF ClampForMode
<1> QED  BY <1>2, <1>3, ClampIsStable

\* A step that leaves the native window and the timers alone: what is at rest
\* after it was at rest before.
LEMMA QuietKeepsRest ==
  ASSUME RestIInv, UNCHANGED <<position, size, events, launch, stored>>,
         LaidOut' => LaidOut /\ mode' = mode
  PROVE  RestIInv'
  BY DEF RestIInv, RestsOnScreen, AtRest, NoEvents, FitsSomewhere

LEMMA RestStep ==
  ASSUME Mascot # Panel, ControlIInv, RestIInv, [ShellNext]_vars
  PROVE  RestIInv'
<1>0. /\ TypeOK /\ (phase \in VisiblePhases => mode = phase) /\ ui.expanded \in BOOLEAN
      /\ ui.expanded = (mode = "Expanded") /\ size \in Size
  BY ShellAssumption DEF ControlIInv, ShellTypes, TypeOK
<1>t. ASSUME Toggle, LaidOut, UNCHANGED <<nativeVars, stored>> PROVE RestIInv'
  <2>1. (phase = "Expanded" /\ ~ui'.expanded) \/ (phase = "Collapsed" /\ ui'.expanded)
    BY <1>t, <1>0 DEF Toggle, Collapse, Expand, TypeOK
  <2>2. (ui.expanded /\ ~ui'.expanded) \/ (~ui.expanded /\ ui'.expanded)
    BY <2>1, <1>0 DEF VisiblePhases
  <2>3. ~LaidOut'
    BY <2>2, <1>t DEF LaidOut, LayoutOf, nativeVars
  <2> QED  BY <2>3, <1>t, QuietKeepsRest DEF Toggle, Collapse, Expand, nativeVars, timerVars
<1>1. CASE ToggleRequested
  BY <1>1, <1>t DEF ToggleRequested, UserActs
<1>2. CASE MascotClicked
  <2>1. CASE gesture = "Pressed" /\ phase \in VisiblePhases
    BY <2>1, <1>2, <1>t DEF MascotClicked, UserActs
  <2>2. CASE ~(gesture = "Pressed" /\ phase \in VisiblePhases)
    BY <2>2, <1>2, QuietKeepsRest DEF MascotClicked, stateVars, nativeVars, timerVars, LaidOut
  <2> QED  BY <2>1, <2>2
<1>3. CASE EscapePressed
  BY <1>3, <1>t DEF EscapePressed, Toggle, UserActs
<1>4. CASE Hide
  <2>1. ui'.expanded = ui.expanded
    BY <1>4, <1>0 DEF Hide, TypeOK
  <2> QED  BY <2>1, <1>4, QuietKeepsRest DEF Hide, nativeVars, timerVars, LaidOut
<1>5. CASE Restore \/ Waiting!Restore
  <2>1. PICK done \in BOOLEAN : RestoreOutcome(done)
    BY <1>5, <1>0, RestoreHasOutcome
  <2>2. ui'.expanded = ui.expanded
    BY <2>1, <1>0 DEF RestoreOutcome
  <2> QED  BY <2>1, <2>2, QuietKeepsRest DEF RestoreOutcome, nativeVars, timerVars, LaidOut
<1>6. CASE OpenSettings \/ Waiting!OpenSettings
  <2>1. PICK done \in BOOLEAN : OpenSettingsOutcome(done)
    BY <1>6, <1>0, OpenSettingsHasOutcome
  <2>2. ui'.expanded = TRUE /\ UNCHANGED <<nativeVars, launch, stored>> /\ LaidOut
    BY <2>1 DEF OpenSettingsOutcome, timerVars
  <2>3. CASE mode = "Expanded"
    BY <2>1, <2>2, <2>3, QuietKeepsRest DEF OpenSettingsOutcome, nativeVars
  <2>4. CASE mode # "Expanded"
    <3>1. ~ui.expanded
      BY <2>4, <1>0
    <3>2. ~LaidOut'
      BY <3>1, <2>2 DEF LaidOut, LayoutOf, nativeVars
    <3> QED  BY <3>2, <2>2, QuietKeepsRest DEF nativeVars
  <2> QED  BY <2>3, <2>4
<1>7. CASE SelectTab
  <2>1. ui'.expanded = ui.expanded
    BY <1>7, <1>0 DEF SelectTab, TypeOK
  <2> QED  BY <2>1, <1>7, QuietKeepsRest DEF SelectTab, stateVars, nativeVars, timerVars, LaidOut
<1>8. CASE Exit
  BY <1>8, QuietKeepsRest DEF Exit, nativeVars, timerVars, LaidOut
<1>9. ASSUME NEW f \in Flag, ToggleFlag(f) PROVE RestIInv'
  <2>1. ui'.expanded = ui.expanded
    BY <1>9, <1>0 DEF ToggleFlag, TypeOK
  <2> QED  BY <2>1, <1>9, QuietKeepsRest DEF ToggleFlag, nativeVars, timerVars, LaidOut
<1>10. CASE Press
  BY <1>10, QuietKeepsRest DEF Press, stateVars, nativeVars, timerVars, LaidOut
<1>11. ASSUME NEW p \in Places, DragTo(p) PROVE RestIInv'
  <2>1. events' # <<>>
    BY <1>11 DEF DragTo
  <2> QED  BY <2>1 DEF RestIInv, RestsOnScreen, AtRest, NoEvents
<1>12. CASE ApplyLayout
  <2>1. events' # <<>>
    BY <1>12 DEF ApplyLayout
  <2> QED  BY <2>1 DEF RestIInv, RestsOnScreen, AtRest, NoEvents
\* The window is moved to where it was to be recovered; an event is buffered
\* unless it already stood there.
<1>r. ASSUME NEW p \in Position, NEW how, NEW rest \in Seq(Event), Recover(p, how, rest),
             rest = events \/ how = mode,
             UNCHANGED <<mode, size, ui>>
      PROVE  RestIInv'
  <2> DEFINE c == ClampForMode(p, size, Screens, how)
  <2>1. /\ position' = c /\ stored' = c /\ Moved(c) \in Event
        /\ events' = IF c # position THEN Append(rest, Moved(c)) ELSE rest
    BY <1>r, RecoverMoves DEF ControlIInv, Moved, Event
  <2> HIDE DEF c
  <2>2. events' = <<>> => c = position /\ rest = <<>>
    BY <2>1, <1>r, AppendProperties
  <2>3. AtRest' => FitsSomewhere(size, mode)'
    <3>1. CASE how = mode
      BY <3>1, <2>1, <1>0, <1>r, RecoveredFits DEF FitsSomewhere, c
    <3>2. CASE rest = events
      <4>1. AtRest' => AtRest /\ position' = position
        BY <3>2, <2>1, <2>2, <1>r DEF AtRest, NoEvents, LaidOut
      <4> QED  BY <4>1, <1>r DEF RestIInv, RestsOnScreen, FitsSomewhere
    <3> QED  BY <3>1, <3>2, <1>r
  <2> QED  BY <2>1, <2>3 DEF RestIInv, RestsOnScreen
<1>13. CASE HandleEvent
  <2> DEFINE at == IF Head(events).kind = "Moved" THEN Head(events).position ELSE position
  <2>1. events # <<>> /\ Recover(at, mode, Tail(events))
    BY <1>13 DEF HandleEvent, NoEvents
  <2>2. Head(events) \in Event /\ Tail(events) \in Seq(Event)
    BY <1>0, <2>1, HeadTailProperties DEF TypeOK, Event
  <2>3. at \in Position
    BY <1>0, <2>2 DEF TypeOK, Resized, Event
  <2> HIDE DEF at
  <2> QED  BY <2>1, <2>2, <2>3, <1>13, <1>r DEF HandleEvent, stateVars
<1>14. CASE Timers
  <2>1. events \in Seq(Event)
    BY <1>0 DEF TypeOK, Event
  <2>2. UNCHANGED <<mode, size, ui>>
    BY <1>14 DEF Timers, LaunchTimer, SoonTimer, LateTimer, TimerRuns, stateVars
  <2>3. \E p \in Position : Recover(p, "Collapsed", events)
    <3>1. CASE LaunchTimer
      BY <3>1, <1>0 DEF LaunchTimer, ControlIInv, ShellTypes, TypeOK
    <3>2. CASE SoonTimer
      BY <3>2, <1>0, HeadTailProperties DEF SoonTimer, TypeOK
    <3>3. CASE LateTimer
      <4>1. late # <<>>
        BY <3>3, <1>0, EmptySeq DEF LateTimer, TypeOK
      <4> QED  BY <4>1, <3>3, <1>0, HeadTailProperties DEF LateTimer, TypeOK
    <3> QED  BY <1>14, <3>1, <3>2, <3>3 DEF Timers
  <2> QED  BY <2>1, <2>2, <2>3, <1>r
<1>15. CASE UNCHANGED vars
  BY <1>15, QuietKeepsRest DEF vars, stateVars, nativeVars, timerVars, LaidOut
<1> QED  BY <1>1, <1>2, <1>3, <1>4, <1>5, <1>6, <1>7, <1>8, <1>9, <1>10, <1>11, <1>12,
            <1>13, <1>14, <1>15
         DEF ShellNext, ShellUser, User, Gesture

\* The window opens on a work area, as the mascot.
OpensOnScreen ==
  \E i \in DOMAIN Screens :
     ClampToScreen(OpenedAt, Mascot, Screens[i], MinimumVisible("Collapsed")) = OpenedAt

\* Whatever is asked of the window, in any order with its events and timers: at
\* rest it fits a work area, and the position that is stored is the one it has.
THEOREM AlwaysRestsWhereStored ==
  ASSUME MaxTimers >= 1, Mascot # Panel, OpensOnScreen
  PROVE  UsersSpec => []RestsWhereStored
<1> DEFINE IInv == ControlIInv /\ RestIInv
<1>1. UsersInit => IInv
  <2>1. Init => RestIInv
    <3> SUFFICES ASSUME Init PROVE RestIInv
      OBVIOUS
    <3>1. launch.left = 0 => stored = None
      BY DEF Init
    <3>2. position = OpenedAt /\ size = Mascot /\ mode = "Collapsed"
      BY DEF Init
    <3> QED  BY <3>1, <3>2 DEF RestIInv, RestsOnScreen, FitsSomewhere, OpensOnScreen
  <2> QED  BY <2>1, ControlInit DEF UsersInit
<1>2. IInv /\ [UsersNext]_usersVars => IInv'
  BY UsersStep, ControlStep, RestStep
<1>3. IInv => RestsWhereStored
  BY DEF RestIInv, RestsWhereStored, StoredIsPosition, AtRest
<1> QED  BY <1>1, <1>2, <1>3, PTL DEF UsersSpec, usersVars

-----------------------------------------------------------------------------
(* Where the mascot comes back to.                                         *)

\* Where the mascot is put when it is to stand at p.
Recovered(p) == ClampForMode(p, Mascot, Screens, "Collapsed")

\* No event that is buffered sends the mascot elsewhere.
EventsAgree ==
  \A i \in DOMAIN events :
    events[i].kind = "Moved" => Recovered(events[i].position) = mascotPlace

\* For the user who waits: the timers bring the mascot back, the panel remembers
\* its place, and when the timers have run nothing leads it away any more.
WaitingIInv ==
  /\ Recovered(mascotPlace) = mascotPlace
  /\ \A i \in DOMAIN soon : soon[i] = mascotPlace
  /\ \A i \in DOMAIN late : late[i] = mascotPlace
  /\ launch.left > 0 => Recovered(launch.position) = mascotPlace
  /\ mode = "Expanded" => remembered = mascotPlace /\ TimersIdle
  /\ dispatching => ~NoEvents
  /\ ~LaidOut => NoEvents
  /\ mode = "Collapsed" /\ ~LaidOut => ~TimersIdle
  /\ mode = "Collapsed" /\ LaidOut =>
       /\ ~TimersIdle /\ ~dispatching => EventsAgree
       /\ TimersIdle => /\ EventsAgree /\ Recovered(position) = mascotPlace
                        /\ NoEvents => position = mascotPlace

LEMMA RecoveredIsStable ==
  ASSUME Len(Screens) = 1, NEW p \in Position
  PROVE  Recovered(p) \in Position /\ Recovered(Recovered(p)) = Recovered(p)
  BY ScreensAreSequence, ShellAssumption, OneAreaIsStable DEF Recovered

\* A step of the user that leaves the window, its events and the mascot's place
\* alone, in his own time.
LEMMA QuietKeepsWaiting ==
  ASSUME WaitingIInv, TimersIdle,
         UNCHANGED <<position, size, events, dispatching, timerVars, mascotPlace>>,
         UNCHANGED <<mode, remembered>>, ui'.expanded = ui.expanded
  PROVE  WaitingIInv'
  BY DEF WaitingIInv, EventsAgree, TimersIdle, NoEvents, LaidOut, timerVars

LEMMA WaitingStep ==
  ASSUME Len(Screens) = 1, ControlIInv, WaitingIInv,
         \/ (TimersIdle /\ ShellUser) \/ ApplyLayout \/ HandleEvent \/ Timers
         \/ UNCHANGED vars
  PROVE  WaitingIInv'
<1>0. /\ TypeOK /\ (phase \in VisiblePhases => mode = phase) /\ ui.expanded \in BOOLEAN
      /\ ui.expanded = (mode = "Expanded") /\ mode \in {"Collapsed", "Expanded"}
      /\ mascotPlace \in Position /\ position \in Position /\ size \in Size
      /\ events \in Seq(Event)
  BY ShellAssumption DEF ControlIInv, ShellTypes, TypeOK, Mode, Event
\* The panel opens.
<1>e. ASSUME TimersIdle, NoEvents, LaidOut, mode = "Collapsed", mode' = "Expanded",
             remembered' = position,
             UNCHANGED <<position, size, events, dispatching, timerVars, mascotPlace>>
      PROVE  WaitingIInv'
  <2>1. position = mascotPlace
    BY <1>e DEF WaitingIInv
  <2>2. TimersIdle' /\ NoEvents'
    BY <1>e DEF TimersIdle, timerVars, NoEvents
  <2> QED  BY <2>1, <2>2, <1>e DEF WaitingIInv, timerVars, NoEvents
\* The panel closes: the timers are to bring the mascot to where it was.
<1>c. ASSUME TimersIdle, NoEvents, phase = "Expanded", Collapse,
             UNCHANGED <<position, size, events, dispatching, mascotPlace>>
      PROVE  WaitingIInv'
  <2>1. mode = "Expanded" /\ remembered = mascotPlace /\ mascotPlace # None
    BY <1>0, <1>c, ShellAssumption DEF WaitingIInv, VisiblePhases
  <2>2. soon' = Append(soon, mascotPlace) /\ late' = Append(late, mascotPlace)
        /\ launch' = launch /\ mode' = "Collapsed"
    BY <1>c, <2>1 DEF Collapse
  <2>3. late = <<>> /\ soon = <<>> /\ launch.left = 0
    <3>1. late = <<>> /\ launch.left = 0
      BY <1>c DEF TimersIdle
    <3>2. soon \in Seq(Position) /\ Len(soon) <= 0
      BY <3>1, <1>0 DEF TypeOK
    <3> QED  BY <3>1, <3>2, EmptySeq
  <2>4. soon' = <<mascotPlace>> /\ late' = <<mascotPlace>>
    BY <2>2, <2>3
  <2>5. ~TimersIdle'
    BY <2>4 DEF TimersIdle
  <2>6. NoEvents' /\ ~dispatching' /\ EventsAgree'
    BY <1>c DEF WaitingIInv, NoEvents, EventsAgree
  <2> QED  BY <2>2, <2>3, <2>4, <2>5, <2>6, <1>c DEF WaitingIInv
<1>t. ASSUME TimersIdle, UserActs, Toggle, UNCHANGED <<nativeVars, mascotPlace>>
      PROVE  WaitingIInv'
  <2>1. CASE phase = "Expanded" /\ Collapse
    BY <2>1, <1>t, <1>c DEF UserActs, nativeVars
  <2>2. CASE phase = "Collapsed" /\ Expand(ui.tab)
    BY <2>2, <1>0, <1>t, <1>e DEF Expand, UserActs, VisiblePhases, nativeVars
  <2> QED  BY <1>t, <2>1, <2>2 DEF Toggle
<1>1. CASE TimersIdle /\ ToggleRequested
  BY <1>1, <1>t DEF ToggleRequested
<1>2. CASE TimersIdle /\ MascotClicked
  <2>1. CASE gesture = "Pressed" /\ phase \in VisiblePhases
    BY <2>1, <1>2, <1>t DEF MascotClicked
  <2>2. CASE ~(gesture = "Pressed" /\ phase \in VisiblePhases)
    BY <2>2, <1>2, QuietKeepsWaiting DEF MascotClicked, stateVars, nativeVars
  <2> QED  BY <2>1, <2>2
<1>3. CASE TimersIdle /\ EscapePressed
  BY <1>3, <1>t DEF EscapePressed, Toggle
<1>4. CASE TimersIdle /\ Hide
  <2>1. ui'.expanded = ui.expanded
    BY <1>4, <1>0 DEF Hide, TypeOK
  <2> QED  BY <2>1, <1>4, QuietKeepsWaiting DEF Hide, nativeVars
<1>5. CASE TimersIdle /\ (Restore \/ Waiting!Restore)
  <2>1. PICK done \in BOOLEAN : RestoreOutcome(done)
    BY <1>5, <1>0, RestoreHasOutcome
  <2>2. ui'.expanded = ui.expanded
    BY <2>1, <1>0 DEF RestoreOutcome
  <2> QED  BY <1>5, <2>1, <2>2, QuietKeepsWaiting DEF RestoreOutcome, nativeVars
<1>6. CASE TimersIdle /\ (OpenSettings \/ Waiting!OpenSettings)
  <2>1. PICK done \in BOOLEAN : OpenSettingsOutcome(done)
    BY <1>6, <1>0, OpenSettingsHasOutcome
  <2>2. CASE mode = "Collapsed"
    <3>1. phase \in {"Collapsed", "Hidden"}
      BY <2>1, <2>2, <1>0 DEF OpenSettingsOutcome, TypeOK, Phase, VisiblePhases
    <3> QED  BY <2>1, <2>2, <3>1, <1>6, <1>e DEF OpenSettingsOutcome, nativeVars
  <2>3. CASE mode = "Expanded"
    <3>1. phase # "Collapsed" /\ ui.expanded = TRUE
      BY <2>3, <1>0 DEF VisiblePhases
    <3> QED  BY <2>1, <2>3, <3>1, <1>6, QuietKeepsWaiting DEF OpenSettingsOutcome, nativeVars
  <2> QED  BY <1>0, <2>2, <2>3
<1>7. CASE TimersIdle /\ SelectTab
  <2>1. ui'.expanded = ui.expanded
    BY <1>7, <1>0 DEF SelectTab, TypeOK
  <2> QED  BY <2>1, <1>7, QuietKeepsWaiting DEF SelectTab, stateVars, nativeVars
<1>8. CASE TimersIdle /\ Exit
  BY <1>8, QuietKeepsWaiting DEF Exit, nativeVars
<1>9. ASSUME TimersIdle, NEW f \in Flag, ToggleFlag(f) PROVE WaitingIInv'
  <2>1. ui'.expanded = ui.expanded
    BY <1>9, <1>0 DEF ToggleFlag, TypeOK
  <2> QED  BY <2>1, <1>9, QuietKeepsWaiting DEF ToggleFlag, nativeVars
<1>10. CASE TimersIdle /\ Press
  BY <1>10, QuietKeepsWaiting DEF Press, stateVars, nativeVars
<1>11. ASSUME TimersIdle, NEW p \in Places, DragTo(p) PROVE WaitingIInv'
  <2>1. /\ p \in Position /\ position' = p /\ events' = <<Moved(p)>> /\ phase \in VisiblePhases
        /\ LaidOut /\ NoEvents /\ UNCHANGED <<mode, remembered, ui, size, dispatching, timerVars>>
    BY <1>11, ShellAssumption DEF DragTo, UserActs, CanDrag, stateVars
  <2>2. TimersIdle' /\ LaidOut' /\ ~NoEvents' /\ ~dispatching
    BY <2>1, <1>11 DEF TimersIdle, timerVars, LaidOut, NoEvents, WaitingIInv
  <2>3. soon = <<>> /\ late = <<>> /\ launch.left = 0
    <3>1. late = <<>> /\ launch.left = 0
      BY <1>11 DEF TimersIdle
    <3>2. soon \in Seq(Position) /\ Len(soon) <= 0
      BY <3>1, <1>0 DEF TypeOK
    <3> QED  BY <3>1, <3>2, EmptySeq
  <2>4. CASE phase = "Collapsed"
    <3>1. mascotPlace' = Recovered(p) /\ mode = "Collapsed"
      BY <2>4, <1>11, <1>0 DEF DragTo, Recovered, VisiblePhases
    <3>2. EventsAgree'
      BY <2>1, <3>1 DEF EventsAgree, Moved, Recovered
    <3>3. Recovered(mascotPlace') = mascotPlace' /\ Recovered(position') = mascotPlace'
      BY <2>1, <3>1, RecoveredIsStable
    <3>4. (Recovered(mascotPlace) = mascotPlace)' /\ (Recovered(position) = mascotPlace)'
      BY <3>3 DEF Recovered
    <3> QED  BY <2>1, <2>2, <2>3, <3>1, <3>2, <3>4 DEF WaitingIInv, timerVars
  <2>5. CASE phase # "Collapsed"
    <3>1. mode = "Expanded" /\ mascotPlace' = mascotPlace
      BY <2>1, <2>5, <1>11, <1>0 DEF DragTo, VisiblePhases
    <3> QED  BY <2>1, <2>2, <2>3, <3>1 DEF WaitingIInv, timerVars, Recovered
  <2> QED  BY <2>4, <2>5
<1>12. CASE ApplyLayout
  <2>1. /\ events' = <<Resized>> /\ NoEvents /\ ~LaidOut
        /\ UNCHANGED <<stateVars, ui, position, dispatching, timerVars, mascotPlace>>
    BY <1>12 DEF ApplyLayout
  <2>2. EventsAgree' /\ ~NoEvents' /\ LaidOut'
    BY <2>1, <1>12 DEF EventsAgree, Resized, NoEvents, LaidOut, ApplyLayout
  <2>3. mode = "Collapsed" => ~TimersIdle
    BY <2>1 DEF WaitingIInv
  <2>4. TimersIdle' = TimersIdle /\ mode' = mode /\ remembered' = remembered
    BY <2>1 DEF TimersIdle, timerVars, stateVars
  <2> QED  BY <2>1, <2>2, <2>3, <2>4 DEF WaitingIInv, timerVars, Recovered
\* What the window is moved to, and what is buffered then.
<1>r. ASSUME NEW p \in Position, NEW how, NEW rest \in Seq(Event), Recover(p, how, rest)
      PROVE  /\ position' = ClampForMode(p, size, Screens, how)
             /\ events' = IF position' # position THEN Append(rest, Moved(position')) ELSE rest
  BY <1>r, RecoverMoves DEF ControlIInv
\* The mascot is moved to its place.
<1>m. ASSUME NEW rest \in Seq(Event), position' = mascotPlace, mascotPlace' = mascotPlace,
             events' = IF position' # position THEN Append(rest, Moved(position')) ELSE rest,
             \A i \in DOMAIN rest :
               rest[i].kind = "Moved" => Recovered(rest[i].position) = mascotPlace
      PROVE  EventsAgree' /\ (Recovered(position) = mascotPlace)'
  <2>1. Recovered(mascotPlace) = mascotPlace
    BY DEF WaitingIInv
  <2>2. Moved(mascotPlace) \in Event
    BY <1>0 DEF Moved, Event
  <2>3. \A i \in DOMAIN events' :
          events'[i].kind = "Moved" => Recovered(events'[i].position) = mascotPlace
    <3>1. CASE position' = position
      BY <3>1, <1>m
    <3>2. CASE position' # position
      <4>1. events' = Append(rest, Moved(mascotPlace))
        BY <3>2, <1>m
      <4>2. /\ DOMAIN events' = 1..(Len(rest) + 1) /\ DOMAIN rest = 1..Len(rest)
            /\ Len(rest) \in Nat
            /\ \A i \in 1..Len(rest) : events'[i] = rest[i]
            /\ events'[Len(rest) + 1] = Moved(mascotPlace)
        <5>1. /\ DOMAIN rest = 1..Len(rest) /\ Len(rest) \in Nat
              /\ DOMAIN Append(rest, Moved(mascotPlace)) = 1..(Len(rest) + 1)
          BY <2>2, <1>m
        <5>2. /\ \A i \in 1..Len(rest) : Append(rest, Moved(mascotPlace))[i] = rest[i]
              /\ Append(rest, Moved(mascotPlace))[Len(rest) + 1] = Moved(mascotPlace)
          BY <2>2, <1>m, AppendProperties
        <5> QED  BY <4>1, <5>1, <5>2
      <4>3. Moved(mascotPlace).position = mascotPlace
        BY DEF Moved
      <4> QED  BY <4>2, <4>3, <2>1, <1>m
    <3> QED  BY <3>1, <3>2
  <2>4. EventsAgree'
    BY <2>3, <1>m DEF EventsAgree, Recovered
  <2> QED  BY <2>1, <2>4, <1>m DEF Recovered
<1>13. CASE HandleEvent
  <2> DEFINE e == Head(events)
             at == IF e.kind = "Moved" THEN e.position ELSE position
  <2>1. /\ events # <<>> /\ Recover(at, mode, Tail(events)) /\ dispatching' = (events' # <<>>)
        /\ UNCHANGED <<stateVars, ui, size, timerVars, mascotPlace>>
    BY <1>13 DEF HandleEvent, NoEvents
  <2>2. /\ e \in Event /\ Tail(events) \in Seq(Event) /\ e = events[1] /\ 1 \in DOMAIN events
        /\ Len(Tail(events)) = Len(events) - 1 /\ Len(events) \in Nat
        /\ \A i \in 1..Len(Tail(events)) : Tail(events)[i] = events[i + 1]
    BY <1>0, <2>1, HeadTailProperties, EmptySeq
  <2>3. at \in Position
    BY <1>0, <2>2 DEF Resized, Event
  <2>4. /\ position' = ClampForMode(at, size, Screens, mode)
        /\ events' = IF position' # position THEN Append(Tail(events), Moved(position'))
                     ELSE Tail(events)
    BY <2>1, <2>2, <2>3, <1>r
  <2>5. /\ dispatching' => ~NoEvents'
        /\ ~dispatching' => NoEvents'
        /\ LaidOut' = LaidOut /\ LaidOut
        /\ TimersIdle' = TimersIdle /\ mode' = mode /\ remembered' = remembered
    BY <2>1 DEF NoEvents, LaidOut, TimersIdle, timerVars, stateVars, WaitingIInv
  <2>6. NoEvents' => EventsAgree'
    BY DEF NoEvents, EventsAgree
  <2>7. CASE mode = "Collapsed" /\ TimersIdle
    <3>1. EventsAgree /\ Recovered(position) = mascotPlace
      BY <2>7, <2>5 DEF WaitingIInv
    <3>2. size = Mascot
      BY <2>5, <2>7, <1>0 DEF LaidOut, LayoutOf
    <3>3. Recovered(at) = mascotPlace
      BY <3>1, <2>2 DEF EventsAgree
    <3>4. position' = mascotPlace
      BY <2>4, <2>7, <3>2, <3>3 DEF Recovered
    <3>5. \A i \in DOMAIN Tail(events) :
            Tail(events)[i].kind = "Moved" => Recovered(Tail(events)[i].position) = mascotPlace
      <4>1. DOMAIN Tail(events) = 1..Len(Tail(events)) /\ DOMAIN events = 1..Len(events)
        BY <2>2, <1>0
      <4>2. \A i \in DOMAIN Tail(events) : i + 1 \in DOMAIN events
        BY <4>1, <2>2
      <4> QED  BY <4>1, <4>2, <2>2, <3>1 DEF EventsAgree
    <3>6. EventsAgree' /\ (Recovered(position) = mascotPlace)'
      BY <2>1, <2>2, <2>4, <3>4, <3>5, <1>m
    <3>7. (position = mascotPlace)'
      BY <2>1, <3>4
    <3> HIDE DEF e, at
    <3> QED  BY <2>1, <2>5, <2>7, <3>6, <3>7 DEF WaitingIInv, timerVars, Recovered
  <2>8. CASE ~(mode = "Collapsed" /\ TimersIdle)
    <3> HIDE DEF e, at
    <3> QED  BY <2>1, <2>5, <2>6, <2>8 DEF WaitingIInv, timerVars, Recovered
  <2> QED  BY <2>7, <2>8
<1>14. CASE Timers
  <2>1. /\ TimerRuns
        /\ UNCHANGED <<stateVars, ui, size, dispatching, mascotPlace>>
    BY <1>14 DEF Timers, LaunchTimer, SoonTimer, LateTimer, TimerRuns
  <2>2. ~dispatching /\ LaidOut
    BY <2>1 DEF TimerRuns, WaitingIInv
  <2>3. ~TimersIdle
    <3>1. Len(late) > Len(soon) => late # <<>>
      BY <1>0, EmptySeq DEF TypeOK
    <3>2. soon # <<>> => late # <<>>
      BY <1>0, EmptySeq DEF TypeOK
    <3>3. launch.left > 0 => launch.left # 0
      OBVIOUS
    <3> QED  BY <1>14, <3>1, <3>2, <3>3 DEF Timers, LaunchTimer, SoonTimer, LateTimer, TimersIdle
  <2>4. mode = "Collapsed" /\ size = Mascot /\ EventsAgree
    BY <2>2, <2>3, <1>0 DEF WaitingIInv, LaidOut, LayoutOf
  <2>5. \E p \in Position : Recovered(p) = mascotPlace /\ Recover(p, "Collapsed", events)
    <3>1. CASE LaunchTimer
      BY <3>1, <1>0 DEF LaunchTimer, ControlIInv, ShellTypes, TypeOK, WaitingIInv
    <3>2. CASE SoonTimer
      <4>1. soon # <<>> /\ soon \in Seq(Position)
        BY <3>2, <1>0 DEF SoonTimer, TypeOK
      <4>2. Head(soon) = soon[1] /\ 1 \in DOMAIN soon
        BY <4>1, EmptySeq
      <4> QED  BY <4>1, <4>2, <3>2, <1>0 DEF SoonTimer, WaitingIInv
    <3>3. CASE LateTimer
      <4>1. late # <<>> /\ late \in Seq(Position)
        BY <3>3, <1>0, EmptySeq DEF LateTimer, TypeOK
      <4>2. Head(late) = late[1] /\ 1 \in DOMAIN late
        BY <4>1, EmptySeq
      <4> QED  BY <4>1, <4>2, <3>3, <1>0 DEF LateTimer, WaitingIInv
    <3> QED  BY <1>14, <3>1, <3>2, <3>3 DEF Timers
  <2>6. /\ position' = mascotPlace
        /\ events' = IF position' # position THEN Append(events, Moved(position')) ELSE events
    BY <2>4, <2>5, <1>0, <1>r DEF Recovered
  <2>7. EventsAgree' /\ (Recovered(position) = mascotPlace)' /\ (position = mascotPlace)'
    BY <2>1, <2>4, <2>6, <1>0, <1>m DEF EventsAgree
  <2>8. \A i \in DOMAIN soon' : soon'[i] = mascotPlace
    <3>1. CASE soon' = soon
      BY <3>1 DEF WaitingIInv
    <3>2. CASE soon # <<>> /\ soon' = Tail(soon)
      BY <3>2, <1>0, HeadTailProperties DEF WaitingIInv, TypeOK
    <3> QED  BY <1>14, <3>1, <3>2 DEF Timers, LaunchTimer, SoonTimer, LateTimer
  <2>9. \A i \in DOMAIN late' : late'[i] = mascotPlace
    <3>1. CASE late' = late
      BY <3>1 DEF WaitingIInv
    <3>2. CASE LateTimer
      <4>1. late # <<>> /\ late \in Seq(Position)
        BY <3>2, <1>0, EmptySeq DEF LateTimer, TypeOK
      <4> QED  BY <4>1, <3>2, HeadTailProperties DEF WaitingIInv, LateTimer
    <3> QED  BY <1>14, <3>1, <3>2 DEF Timers, LaunchTimer, SoonTimer
  <2>10. launch'.left > 0 => Recovered(launch'.position) = mascotPlace
    <3>1. CASE launch' = launch
      BY <3>1 DEF WaitingIInv
    <3>2. CASE LaunchTimer
      <4>1. launch.left > 0 /\ launch'.position = launch.position
        BY <3>2, <1>0 DEF LaunchTimer, TypeOK
      <4> QED  BY <4>1 DEF WaitingIInv
    <3> QED  BY <1>14, <3>1, <3>2 DEF Timers, SoonTimer, LateTimer
  <2>11. LaidOut' /\ (dispatching => ~NoEvents)' /\ mode' = mode
    BY <2>1, <2>2 DEF LaidOut, stateVars
  <2>12. /\ (\A i \in DOMAIN soon : soon[i] = mascotPlace)'
         /\ (\A i \in DOMAIN late : late[i] = mascotPlace)'
         /\ (launch.left > 0 => Recovered(launch.position) = mascotPlace)'
         /\ (Recovered(mascotPlace) = mascotPlace)'
    BY <2>1, <2>8, <2>9, <2>10 DEF Recovered, WaitingIInv
  <2> QED  BY <2>4, <2>7, <2>11, <2>12 DEF WaitingIInv
<1>15. CASE UNCHANGED vars
  <2>1. (Recovered(mascotPlace) = mascotPlace)' = (Recovered(mascotPlace) = mascotPlace)
    BY <1>15 DEF vars, Recovered
  <2> QED  BY <2>1, <1>15 DEF vars, stateVars, nativeVars, timerVars, WaitingIInv, EventsAgree,
                         TimersIdle, NoEvents, LaidOut, Recovered
<1> QED  BY <1>1, <1>2, <1>3, <1>4, <1>5, <1>6, <1>7, <1>8, <1>9, <1>10, <1>11, <1>12,
            <1>13, <1>14, <1>15
         DEF ShellUser, User, Gesture

\* For a user who waits for the timers, on one work area: however the panel was
\* moved or pushed onto the screen, and however the timers and the events of the
\* collapse follow each other, the mascot is at rest where it was left.
THEOREM MascotAlwaysComesBack ==
  ASSUME MaxTimers >= 1, Len(Screens) = 1, OpensOnScreen
  PROVE  UsersSpec => []MascotComesBackInTime
<1> DEFINE IInv == ControlIInv /\ (waits => WaitingIInv)
<1>1. UsersInit => IInv
  <2>1. Init => WaitingIInv
    <3> SUFFICES ASSUME Init PROVE WaitingIInv
      OBVIOUS
    <3>1. PICK p \in SavedPlaces :
            /\ stored = p
            /\ launch = [position |-> p, left |-> IF p = None THEN 0 ELSE 2]
            /\ mascotPlace = IF p = None THEN OpenedAt ELSE Recovered(p)
      BY DEF Init, Recovered
    <3>2. /\ events = <<>> /\ ~dispatching /\ soon = <<>> /\ late = <<>>
          /\ position = OpenedAt /\ size = Mascot /\ mode = "Collapsed" /\ ~ui.expanded
      BY DEF Init
    <3>3. NoEvents /\ EventsAgree /\ LaidOut
      BY <3>2 DEF NoEvents, EventsAgree, LaidOut, LayoutOf
    <3>4. Recovered(OpenedAt) = OpenedAt
      <4>1. PICK i \in DOMAIN Screens :
              ClampToScreen(OpenedAt, Mascot, Screens[i], MinimumVisible("Collapsed")) = OpenedAt
        BY DEF OpensOnScreen
      <4>2. DOMAIN Screens = {1}
        BY ScreensAreSequence
      <4>3. NearestScreen(Centre(OpenedAt, Mascot), Screens) = Screens[i]
        BY <4>2, ScreensAreSequence, ShellAssumption, CentreIsPosition, NearestIsOne
      <4> QED  BY <4>1, <4>3 DEF Recovered, ClampForMode
    <3>5. CASE p = None
      BY <3>1, <3>2, <3>3, <3>4, <3>5 DEF WaitingIInv
    <3>6. CASE p # None
      <4>1. p \in Position
        BY <3>6, ShellAssumption
      <4>2. mascotPlace = Recovered(p) /\ Recovered(mascotPlace) = mascotPlace
        BY <3>1, <3>6, <4>1, RecoveredIsStable
      <4>3. launch.left = 2 /\ launch.position = p
        BY <3>1, <3>6
      <4>4. ~TimersIdle
        BY <4>3 DEF TimersIdle
      <4> QED  BY <3>2, <3>3, <4>2, <4>3, <4>4 DEF WaitingIInv
    <3> QED  BY <3>5, <3>6
  <2> QED  BY <2>1, ControlInit DEF UsersInit
<1>2. IInv /\ [UsersNext]_usersVars => IInv'
  BY UsersStep, ControlStep, WaitingStep
<1>3. IInv => MascotComesBackInTime
  <2> SUFFICES ASSUME IInv, waits, AtRest, TimersIdle, phase = "Collapsed"
               PROVE  position = mascotPlace
    BY DEF MascotComesBackInTime, MascotComesBack
  <2>1. mode = "Collapsed"
    BY DEF ControlIInv, VisiblePhases
  <2> QED  BY <2>1 DEF WaitingIInv, AtRest
<1> QED  BY <1>1, <1>2, <1>3, PTL DEF UsersSpec, usersVars

=============================================================================

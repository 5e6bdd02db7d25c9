--------------------------- MODULE CrossingProofs ---------------------------
(***************************************************************************)
(* Repeated crossings of the shared edge do not drift, for every geometry: *)
(* after the first one the pointer is at Bounce of where it started, and   *)
(* bouncing once more changes nothing (BounceSettles).                     *)
(***************************************************************************)
EXTENDS Crossing, OperatorProofs

-----------------------------------------------------------------------------
\* Where the pointer is, as a function of where it started: the inductive
\* invariant behind NoDrift.
WhereParked ==
  /\ TypeOK
  /\ settled  => y = Bounce(g, y0)
  /\ ~settled => y = y0 /\ ~remote
  /\ remote   => y = AsPixel(MapBackY(g, virtY))

LEMMA WhereParkedInvariant == Spec => []WhereParked
<1>1. Init => WhereParked
  <2> SUFFICES ASSUME Init PROVE WhereParked
    OBVIOUS
  <2>1. g.peer.height \in Dim /\ 0 # NaN
    BY ScreensAssumption, NaNAssumption DEF Init, Geometries, ScreenSize
  <2>2. 0 \in Pixels(g.peer.height)
    BY <2>1, LastIndexOfDim DEF Pixels
  <2>3. QED
    BY <2>1, <2>2 DEF Init, WhereParked, TypeOK
<1>2. WhereParked /\ [Next]_vars => WhereParked'
  <2> SUFFICES ASSUME WhereParked, [Next]_vars PROVE WhereParked'
    OBVIOUS
  <2>1. /\ g \in Geometries /\ y \in Pixels(g.local.height)
        /\ y0 \in Pixels(g.local.height)
    BY ScreensAssumption DEF WhereParked, TypeOK
  <2>2. CASE Leave
    <3>1. g' = g /\ y0' = y0 /\ remote' /\ settled' /\ y' = Bounce(g, y)
      BY <2>2 DEF Leave, Bounce
    <3>2. y' = Bounce(g, y0)
      BY <2>1, <3>1, BounceSettles DEF WhereParked
    <3>3. y' \in Pixels(g.local.height)
      BY <2>1, <3>1, BounceSettles
    <3>4. /\ virtY' \in Pixels(g.peer.height) \cup {NaN}
          /\ virtY' = NaN => g.local.height = 1
      BY <2>1, <2>2, MapOutOnScreen DEF Leave
    <3>5. QED
      BY <2>2, <3>1, <3>2, <3>3, <3>4 DEF WhereParked, TypeOK, Leave
  <2>3. CASE Return
    <3> USE <2>3 DEF Return
    <3>1. remote /\ ~remote' /\ UNCHANGED <<g, y0, settled>> /\ virtY' = 0
      OBVIOUS
    <3>2. settled /\ y' = y
      BY <3>1 DEF WhereParked
    <3>3. 0 \in Pixels(g.peer.height) /\ 0 # NaN
      BY <2>1, LastIndexOfDim, NaNAssumption DEF Pixels, Geometries, ScreenSize
    <3>4. QED
      BY <3>1, <3>2, <3>3 DEF WhereParked, TypeOK
  <2>4. CASE UNCHANGED vars
    BY <2>4 DEF vars, WhereParked, TypeOK
  <2>5. QED
    BY <2>2, <2>3, <2>4 DEF Next
<1>3. QED
  BY <1>1, <1>2, PTL DEF Spec

-----------------------------------------------------------------------------
\* Both pointers stay on their screens, whatever their sizes.
THEOREM CrossingTypeOK == Spec => []TypeOK
<1>1. WhereParked => TypeOK
  BY DEF WhereParked
<1>2. QED
  BY <1>1, WhereParkedInvariant, PTL

\* Crossing the edge any number of times moves the pointer at most once
\* (map_out_y and map_back_y of src/geometry.rs, docs/ACCEPTANCE.md:18).
THEOREM CrossingNoDrift == Spec => NoDrift
<1>1. WhereParked /\ [Next]_vars => [settled => y' = y]_vars
  <2> SUFFICES ASSUME WhereParked, Next, settled PROVE y' = y
    BY DEF vars
  <2>1. g \in Geometries /\ y0 \in Pixels(g.local.height) /\ y = Bounce(g, y0)
    BY ScreensAssumption DEF WhereParked, TypeOK
  <2>2. CASE Leave
    <3>1. y' = Bounce(g, y)
      BY <2>2 DEF Leave, Bounce
    <3>2. QED
      BY <2>1, <3>1, BounceSettles
  <2>3. CASE Return
    BY <2>3 DEF Return, WhereParked
  <2>4. QED
    BY <2>2, <2>3 DEF Next
<1>2. QED
  BY <1>1, WhereParkedInvariant, PTL DEF Spec, NoDrift

\* A client screen at least as high as the controller's gives the pointer
\* back on the pixel it left from.
THEOREM CrossingExactReturn == Spec => []ExactReturn
<1>1. WhereParked => ExactReturn
  <2> SUFFICES ASSUME WhereParked, g.local.height <= g.peer.height PROVE y = y0
    BY DEF ExactReturn
  <2>1. g \in Geometries /\ y0 \in Pixels(g.local.height)
    BY ScreensAssumption DEF WhereParked, TypeOK
  <2>2. Bounce(g, y0) = y0
    BY <2>1, BounceSettles
  <2>3. QED
    BY <2>2 DEF WhereParked
<1>2. QED
  BY <1>1, WhereParkedInvariant, PTL

\* The two roundings of a round trip cost at most half a pixel of each screen.
THEOREM CrossingNearReturn == Spec => []NearReturn
<1>1. WhereParked => NearReturn
  <2> DEFINE a == g.local.height - 1
             b == g.peer.height - 1
  <2> SUFFICES ASSUME WhereParked, g.peer.height > 1
               PROVE  2 * b * (IF y >= y0 THEN y - y0 ELSE y0 - y) <= a + b
    BY DEF NearReturn
  <2>1. g \in Geometries /\ y0 \in Pixels(g.local.height)
    BY ScreensAssumption DEF WhereParked, TypeOK
  <2>2. y = y0 \/ y = Bounce(g, y0)
    BY DEF WhereParked, TypeOK
  <2>3. /\ Bounce(g, y0) \in Int /\ y0 \in Int /\ a \in Int /\ b \in Int
        /\ b > 0 /\ a >= 0
        /\ 2 * (Bounce(g, y0) * b) <= 2 * (y0 * b) + a + b
        /\ 2 * (y0 * b) <= 2 * (Bounce(g, y0) * b) + a + b
    BY <2>1, BounceNear
  <2> HIDE DEF a, b
  <2>4. y \in Int /\ 2 * (y * b) <= 2 * (y0 * b) + a + b
                 /\ 2 * (y0 * b) <= 2 * (y * b) + a + b
    <3>1. CASE y = y0
      BY <2>3, <3>1, SMT
    <3>2. CASE y = Bounce(g, y0)
      BY <2>3, <3>2
    <3>3. QED
      BY <2>2, <3>1, <3>2
  <2>5. CASE y >= y0
    <3>1. 2 * b * (y - y0) = 2 * (y * b) - 2 * (y0 * b)
      BY <2>3, <2>4, SMT
    <3>2. QED
      BY <2>3, <2>4, <2>5, <3>1, SMT
  <2>6. CASE ~(y >= y0)
    <3>1. 2 * b * (y0 - y) = 2 * (y0 * b) - 2 * (y * b)
      BY <2>3, <2>4, SMT
    <3>2. QED
      BY <2>3, <2>4, <2>6, <3>1, SMT
  <2>7. QED
    BY <2>5, <2>6
<1>2. QED
  BY <1>1, WhereParkedInvariant, PTL
=============================================================================

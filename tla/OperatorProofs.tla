--------------------------- MODULE OperatorProofs ---------------------------
(***************************************************************************)
(* What the operators of the model do, whatever they are given.            *)
(*                                                                         *)
(* Geometry: what the two proportional mappings of src/geometry.rs do, for *)
(* every pair of screen sizes.  They stay on the screen, and on the way    *)
(* there and back the larger screen loses nothing.  The arithmetic is      *)
(* about one fact: rounding k * b / a to a grid at least as fine and back  *)
(* is the identity (RoundTrip).                                            *)
(*                                                                         *)
(* Folds: a fold over a sequence is the last of its partial results, each  *)
(* of which follows from the one before it.  Of the folds that collect     *)
(* what each element contributes (Collect): the contributions of two       *)
(* queues, one behind the other, are those of the one and then those of    *)
(* the other.  Of the folds that go from one place to the next (Walk):     *)
(* what the first element, the last element or one more does.              *)
(***************************************************************************)
EXTENDS Geometry, SequencesExt, SequenceTheorems, FiniteSetTheorems,
        WellFoundedInduction, TLAPS

-----------------------------------------------------------------------------
\* Integer division by its defining inequalities.

LEMMA Quotient ==
  ASSUME NEW n \in Nat, NEW d \in Nat \ {0}
  PROVE  /\ n \div d \in Nat
         /\ (n \div d) * d <= n
         /\ n < (n \div d) * d + d
  BY SMT

\* (n / d).round() is a natural number within half of d of n.
LEMMA RoundedBounds ==
  ASSUME NEW n \in Nat, NEW d \in Nat \ {0}
  PROVE  /\ RoundedQuotient(n, d) \in Nat
         /\ 2 * (RoundedQuotient(n, d) * d) <= 2 * n + d
         /\ 2 * n < 2 * (RoundedQuotient(n, d) * d) + d
<1> DEFINE q == (2 * n + d) \div (2 * d)
<1>1. /\ q \in Nat
      /\ q * (2 * d) <= 2 * n + d
      /\ 2 * n + d < q * (2 * d) + 2 * d
  <2>1. 2 * n + d \in Nat /\ 2 * d \in Nat \ {0}
    OBVIOUS
  <2>2. QED
    BY <2>1, Quotient
<1>2. q * (2 * d) = 2 * (q * d)
  BY <1>1, SMT
<1>3. RoundedQuotient(n, d) = q
  BY DEF RoundedQuotient
<1> HIDE DEF q
<1>4. q * d \in Nat
  BY <1>1, SMT
<1>5. QED
  BY <1>1, <1>2, <1>3, <1>4, SMT

\* The only integer within half of d of n (the upper half open) is the
\* rounded quotient.
LEMMA RoundedUnique ==
  ASSUME NEW n \in Nat, NEW d \in Nat \ {0}, NEW q \in Nat,
         2 * (q * d) <= 2 * n + d,
         2 * n < 2 * (q * d) + d
  PROVE  RoundedQuotient(n, d) = q
<1> DEFINE r == RoundedQuotient(n, d)
<1>1. /\ r \in Nat
      /\ 2 * (r * d) <= 2 * n + d
      /\ 2 * n < 2 * (r * d) + d
  BY RoundedBounds
<1> HIDE DEF r
<1>2. CASE r < q
  <2>1. (r + 1) * d <= q * d
    BY <1>1, <1>2, SMT
  <2>2. (r + 1) * d = r * d + d
    BY <1>1, SMT
  <2>3. r * d \in Nat /\ q * d \in Nat
    BY <1>1, SMT
  <2>4. QED
    BY <1>1, <2>1, <2>2, <2>3, SMT
<1>3. CASE q < r
  <2>1. (q + 1) * d <= r * d
    BY <1>1, <1>3, SMT
  <2>2. (q + 1) * d = q * d + d
    BY SMT
  <2>3. r * d \in Nat /\ q * d \in Nat
    BY <1>1, SMT
  <2>4. QED
    BY <1>1, <2>1, <2>2, <2>3, SMT
<1>4. r = q
  BY <1>1, <1>2, <1>3, SMT
<1>5. QED
  BY <1>4 DEF r

\* y |-> round(y * b / a) maps 0 .. a into 0 .. b.
LEMMA RoundedRange ==
  ASSUME NEW a \in Nat \ {0}, NEW b \in Nat, NEW k \in 0 .. a
  PROVE  RoundedQuotient(k * b, a) \in 0 .. b
<1> DEFINE z == RoundedQuotient(k * b, a)
<1>1. k * b \in Nat
  BY SMT
<1>2. z \in Nat /\ 2 * (z * a) <= 2 * (k * b) + a
  BY <1>1, RoundedBounds
<1> HIDE DEF z
<1>3. k * b <= a * b /\ a * b \in Nat
  BY SMT
<1>4. SUFFICES ASSUME z >= b + 1 PROVE FALSE
  BY <1>2, <1>4, SMT DEF z
<1>5. (b + 1) * a <= z * a /\ (b + 1) * a = a * b + a
  BY <1>2, <1>4, SMT
<1>6. QED
  BY <1>1, <1>2, <1>3, <1>5, SMT

\* A grid at least as fine loses nothing.
LEMMA RoundTrip ==
  ASSUME NEW a \in Nat \ {0}, NEW b \in Nat \ {0}, a <= b, NEW k \in 0 .. a
  PROVE  RoundedQuotient(RoundedQuotient(k * b, a) * a, b) = k
<1> DEFINE z == RoundedQuotient(k * b, a)
<1>1. k * b \in Nat /\ k \in Nat
  BY SMT
<1>2. /\ z \in Nat
      /\ 2 * (z * a) <= 2 * (k * b) + a
      /\ 2 * (k * b) < 2 * (z * a) + a
  BY <1>1, RoundedBounds
<1>3. a = b => z = k
  <2>1. ASSUME a = b PROVE 2 * (k * a) <= 2 * (k * b) + a /\ 2 * (k * b) < 2 * (k * a) + a
    BY <1>1, <2>1, SMT
  <2>2. QED
    BY <1>1, <2>1, RoundedUnique DEF z
<1> HIDE DEF z
<1>4. z * a \in Nat
  BY <1>2, SMT
<1>5. 2 * (k * b) <= 2 * (z * a) + b
  BY <1>1, <1>2, <1>4, SMT
<1>6. 2 * (z * a) < 2 * (k * b) + b
  <2>1. CASE a = b
    BY <1>1, <1>3, <2>1, SMT
  <2>2. CASE a < b
    BY <1>1, <1>2, <1>4, <2>2, SMT
  <2>3. QED
    BY <2>1, <2>2, SMT
<1>7. RoundedQuotient(z * a, b) = k
  BY <1>1, <1>4, <1>5, <1>6, RoundedUnique
<1>8. QED
  BY <1>7 DEF z

-----------------------------------------------------------------------------
\* The height the pointer of the controller is parked at by a crossing.
Bounce(h, k) == AsPixel(MapBackY(h, MapOutY(h, k)))

LEMMA DimNumber ==
  ASSUME NEW n \in Dim
  PROVE  n \in Int /\ n >= 1
<1>1. U16Max \in Int
  BY DEF U16Max
<1> QED
  BY <1>1 DEF Dim

LEMMA LastIndexOfDim ==
  ASSUME NEW n \in Dim
  PROVE  n # 0 /\ n - 1 \in Nat /\ LastIndex(n) = n - 1
  BY DimNumber DEF LastIndex

LEMMA DimArithmetic ==
  ASSUME NEW n \in Dim, NEW m \in Dim
  PROVE  /\ n - 1 = 0 => n = 1
         /\ n - 1 = 0 \/ n - 1 > 0
         /\ n <= m => n - 1 <= m - 1
<1>1. n \in Int /\ n >= 1 /\ m \in Int /\ m >= 1
  BY DimNumber
<1>2. n - 1 = 0 => n = 1
  BY <1>1, SMT
<1>3. n - 1 = 0 \/ n - 1 > 0
  BY <1>1, SMT
<1>4. n <= m => n - 1 <= m - 1
  BY <1>1, SMT
<1>5. QED
  BY <1>2, <1>3, <1>4

\* The three shapes of a pair of heights, and what the mappings are in each.
LEMMA Mappings ==
  ASSUME NEW h \in Geometries, NEW k \in Pixels(h.local.height)
  PROVE  LET a == h.local.height - 1
             b == h.peer.height - 1
         IN /\ a \in Nat /\ b \in Nat /\ k \in 0 .. a
            /\ a = 0 => k = 0 /\ MapOutY(h, k) = NaN /\ Bounce(h, k) = 0
            /\ a > 0 => MapOutY(h, k) = RoundedQuotient(k * b, a)
            /\ a > 0 => MapOutY(h, k) \in 0 .. b
            /\ a > 0 /\ b = 0 => Bounce(h, k) = 0
            /\ a > 0 /\ b > 0 =>
                 Bounce(h, k) = RoundedQuotient(RoundedQuotient(k * b, a) * a, b)
<1> DEFINE a == h.local.height - 1
           b == h.peer.height - 1
<1>1. h.local.height \in Dim /\ h.peer.height \in Dim
  BY DEF Geometries, ScreenSize
<1>2. /\ a \in Nat /\ b \in Nat
      /\ LastIndex(h.local.height) = a /\ LastIndex(h.peer.height) = b
  BY <1>1, LastIndexOfDim
<1>3. k \in 0 .. a
  BY <1>2 DEF Pixels
<1>4. k # NaN
  BY <1>2, <1>3, NaNAssumption, SMT
<1>5. h.local.height # 0 /\ h.peer.height # 0
  BY <1>1, LastIndexOfDim
<1>6. a = 0 => k = 0 /\ MapOutY(h, k) = NaN /\ Bounce(h, k) = 0
  BY <1>2, <1>3, <1>4, <1>5 DEF MapOutY, MapBackY, MapY, Bounce, AsPixel
<1>7. a > 0 => MapOutY(h, k) = RoundedQuotient(k * b, a)
  BY <1>2, <1>4, <1>5 DEF MapOutY, MapY
<1>8. a > 0 => MapOutY(h, k) \in 0 .. b
  <2>1. ASSUME a > 0 PROVE a \in Nat \ {0}
    BY <1>2, <2>1, SMT
  <2> HIDE DEF a, b
  <2>2. QED
    BY <1>2, <1>3, <1>7, <2>1, RoundedRange
<1>9. a > 0 /\ b = 0 => Bounce(h, k) = 0
  BY <1>2, <1>5 DEF MapBackY, MapY, Bounce, AsPixel
<1>10. ASSUME a > 0, b > 0
       PROVE  Bounce(h, k) = RoundedQuotient(RoundedQuotient(k * b, a) * a, b)
  <2> DEFINE z == MapOutY(h, k)
  <2>1. z \in 0 .. b /\ z # NaN
    BY <1>2, <1>8, <1>10, NaNAssumption, SMT
  <2>2. MapBackY(h, z) = RoundedQuotient(z * a, b)
    BY <1>2, <1>5, <1>10, <2>1 DEF MapBackY, MapY
  <2>3. RoundedQuotient(z * a, b) \in 0 .. a
    BY <1>2, <1>10, <2>1, RoundedRange
  <2>4. RoundedQuotient(z * a, b) # NaN
    BY <1>2, <2>3, NaNAssumption, SMT
  <2>5. QED
    BY <1>7, <1>10, <2>2, <2>4 DEF Bounce, AsPixel
<1>11. QED
  BY <1>2, <1>3, <1>6, <1>7, <1>8, <1>9, <1>10

\* Parking twice parks where the first one did.
LEMMA BounceSettles ==
  ASSUME NEW h \in Geometries, NEW k \in Pixels(h.local.height)
  PROVE  /\ Bounce(h, k) \in Pixels(h.local.height)
         /\ Bounce(h, Bounce(h, k)) = Bounce(h, k)
         /\ h.local.height <= h.peer.height => Bounce(h, k) = k
<1> DEFINE a == h.local.height - 1
           b == h.peer.height - 1
           z == RoundedQuotient(k * b, a)
           j == Bounce(h, k)
<1>1. /\ h.local.height \in Dim /\ h.peer.height \in Dim
      /\ LastIndex(h.local.height) = a
  BY LastIndexOfDim DEF Geometries, ScreenSize
<1>2. h.local.height <= h.peer.height => a <= b
  BY <1>1, DimArithmetic
<1>3. a \in Nat /\ b \in Nat /\ k \in 0 .. a
  BY Mappings
<1>4. CASE a = 0
  BY <1>1, <1>3, <1>4, Mappings DEF Pixels
<1>5. CASE a > 0 /\ b = 0
  <2>1. j = 0
    BY <1>5, Mappings
  <2>2. j \in Pixels(h.local.height)
    BY <1>1, <1>3, <2>1 DEF Pixels
  <2>3. Bounce(h, j) = 0
    BY <1>5, <2>2, Mappings
  <2>4. QED
    BY <1>2, <1>3, <1>5, <2>1, <2>2, <2>3
<1>6. CASE a > 0 /\ b > 0
  <2>1. z \in 0 .. b /\ j = RoundedQuotient(z * a, b)
    BY <1>6, Mappings
  <2>2. a \in Nat \ {0} /\ b \in Nat \ {0}
    BY <1>3, <1>6, SMT
  <2>3. j \in 0 .. a
    <3> HIDE DEF a, b, z, j
    <3>1. QED
      BY <2>1, <2>2, RoundedRange
  <2>4. j \in Pixels(h.local.height)
    BY <1>1, <2>3 DEF Pixels
  <2>5. Bounce(h, j) = RoundedQuotient(RoundedQuotient(j * b, a) * a, b)
    BY <1>6, <2>4, Mappings
  <2>6. a <= b => j = k
    <3> HIDE DEF a, b, j
    <3>1. QED
      BY <1>3, <2>1, <2>2, RoundTrip DEF z
  <2>7. b <= a => RoundedQuotient(j * b, a) = z
    <3> HIDE DEF a, b, z, j
    <3>1. QED
      BY <2>1, <2>2, RoundTrip
  <2>8. a <= b \/ b <= a
    BY <1>3, SMT
  <2>9. Bounce(h, j) = j
    BY <2>1, <2>5, <2>6, <2>7, <2>8
  <2>10. QED
    BY <1>2, <2>4, <2>6, <2>9
<1>7. a = 0 \/ a > 0
  BY <1>1, DimArithmetic
<1>8. b = 0 \/ b > 0
  BY <1>1, DimArithmetic
<1> HIDE DEF a, b
<1>9. QED
  BY <1>4, <1>5, <1>6, <1>7, <1>8

\* Two roundings: half a pixel of each screen.
LEMMA BounceNear ==
  ASSUME NEW h \in Geometries, NEW k \in Pixels(h.local.height), h.peer.height > 1
  PROVE  LET a == h.local.height - 1
             b == h.peer.height - 1
             j == Bounce(h, k)
         IN /\ j \in Int /\ k \in Int /\ a \in Int /\ b \in Int /\ b > 0 /\ a >= 0
            /\ 2 * (j * b) <= 2 * (k * b) + a + b
            /\ 2 * (k * b) <= 2 * (j * b) + a + b
<1> DEFINE a == h.local.height - 1
           b == h.peer.height - 1
           z == RoundedQuotient(k * b, a)
           j == Bounce(h, k)
<1>1. h.local.height \in Dim /\ h.peer.height \in Dim
  BY DEF Geometries, ScreenSize
<1>2. a \in Nat /\ b \in Nat /\ k \in 0 .. a
  BY Mappings
<1>3. (b = 0 => h.peer.height = 1) /\ (b = 0 \/ b > 0)
  BY <1>1, DimArithmetic
<1>4. h.peer.height # 1
  BY <1>1, DimNumber
<1>5. b > 0
  BY <1>3, <1>4
<1>6. a = 0 \/ a > 0
  BY <1>1, DimArithmetic
<1>7. a = 0 => k = 0 /\ j = 0
  BY Mappings
<1>8. a > 0 => j = RoundedQuotient(z * a, b)
  BY <1>5, Mappings
<1> HIDE DEF a, b, z, j
<1>9. CASE a = 0
  <2>1. j = 0 /\ k = 0 /\ a = 0 /\ b \in Nat
    BY <1>2, <1>7, <1>9
  <2>2. QED
    BY <1>5, <2>1, SMT DEF a, b, j
<1>10. CASE a > 0
  <2>1. a \in Nat \ {0} /\ b \in Nat \ {0} /\ k \in Nat /\ k * b \in Nat
    BY <1>2, <1>5, <1>10, SMT
  <2>2. /\ z \in Nat
        /\ 2 * (z * a) <= 2 * (k * b) + a
        /\ 2 * (k * b) < 2 * (z * a) + a
    BY <2>1, RoundedBounds DEF z
  <2>3. z * a \in Nat
    BY <2>1, <2>2, SMT
  <2>4. /\ j \in Nat
        /\ 2 * (j * b) <= 2 * (z * a) + b
        /\ 2 * (z * a) < 2 * (j * b) + b
    BY <1>8, <1>10, <2>1, <2>3, RoundedBounds
  <2>5. j * b \in Nat
    BY <2>1, <2>4, SMT
  <2>6. /\ 2 * (j * b) <= 2 * (k * b) + a + b
        /\ 2 * (k * b) <= 2 * (j * b) + a + b
    BY <2>1, <2>2, <2>3, <2>4, <2>5, SMT
  <2>7. j \in Int /\ k \in Int /\ a \in Int /\ b \in Int /\ b > 0 /\ a >= 0
    BY <2>1, <2>4, SMT
  <2>8. QED
    BY <2>6, <2>7 DEF a, b, j
<1>11. QED
  BY <1>6, <1>9, <1>10

\* The entry point is on the client's screen, or of unknown height.
LEMMA MapOutOnScreen ==
  ASSUME NEW h \in Geometries, NEW k \in Pixels(h.local.height)
  PROVE  /\ MapOutY(h, k) \in Pixels(h.peer.height) \cup {NaN}
         /\ MapOutY(h, k) = NaN => h.local.height = 1
<1> DEFINE a == h.local.height - 1
           b == h.peer.height - 1
<1>1. h.local.height \in Dim /\ h.peer.height \in Dim
  BY DEF Geometries, ScreenSize
<1>2. /\ a = 0 => h.local.height = 1
      /\ a = 0 \/ a > 0
      /\ LastIndex(h.peer.height) = b
  BY <1>1, DimArithmetic, LastIndexOfDim
<1>3. /\ a = 0 => MapOutY(h, k) = NaN
      /\ a > 0 => MapOutY(h, k) \in 0 .. b
      /\ b \in Nat
  BY Mappings
<1> HIDE DEF a, b
<1>4. 0 .. b = Pixels(h.peer.height) /\ NaN \notin 0 .. b
  BY <1>2, <1>3, NaNAssumption, SMT DEF Pixels
<1>5. QED
  BY <1>2, <1>3, <1>4

\* The parking position is on the controller's screen.
LEMMA MapBackOnScreen ==
  ASSUME NEW h \in Geometries, NEW k \in Pixels(h.peer.height) \cup {NaN}
  PROVE  AsPixel(MapBackY(h, k)) \in Pixels(h.local.height)
<1> DEFINE m == [local |-> h.peer, peer |-> h.local, side |-> h.side]
<1>1. m \in Geometries /\ m.local.height = h.peer.height /\ m.peer.height = h.local.height
  BY DEF Geometries
<1>2. MapBackY(h, k) = MapOutY(m, k)
  BY DEF MapBackY, MapOutY
<1>3. h.local.height \in Dim /\ h.peer.height \in Dim
  BY DEF Geometries, ScreenSize
<1>4. 0 \in Pixels(h.local.height)
  BY <1>3, LastIndexOfDim DEF Pixels
<1>5. CASE k = NaN
  <2>1. MapBackY(h, k) = NaN
    BY <1>3, <1>5, LastIndexOfDim DEF MapBackY, MapY
  <2>2. QED
    BY <1>4, <2>1 DEF AsPixel
<1>6. CASE k \in Pixels(h.peer.height)
  <2>1. MapOutY(m, k) \in Pixels(m.peer.height) \cup {NaN}
    <3>1. k \in Pixels(m.local.height)
      BY <1>1, <1>6
    <3> HIDE DEF m
    <3>2. QED
      BY <1>1, <3>1, MapOutOnScreen
  <2>2. QED
    BY <1>1, <1>2, <1>4, <2>1 DEF AsPixel
<1>7. QED
  BY <1>5, <1>6

\* The two ends of the shared edge are on their screens.
LEMMA EdgesOnScreen ==
  ASSUME NEW h \in Geometries
  PROVE  /\ EntryX(h) \in Pixels(h.peer.width)
         /\ BackX(h) \in Pixels(h.local.width)
         /\ LastIndex(h.peer.width) \in Nat /\ LastIndex(h.peer.height) \in Nat
         /\ h.side \in {"Right", "Left"}
<1>1. /\ h.local.width \in Dim /\ h.peer.width \in Dim /\ h.peer.height \in Dim
      /\ h.side \in {"Right", "Left"}
  BY DEF Geometries, ScreenSize, Side
<1>2. /\ LastIndex(h.peer.width) \in Nat /\ LastIndex(h.local.width) \in Nat
      /\ LastIndex(h.peer.height) \in Nat
  BY <1>1, LastIndexOfDim
<1>3. QED
  BY <1>1, <1>2 DEF EntryX, BackX, Pixels

-----------------------------------------------------------------------------
(***************************************************************************)
(* Induction over the naturals, without an operator parameter: a non-empty *)
(* set of them has a least element, because the strict inclusion of the    *)
(* intervals 0 .. m is well-founded.                                       *)
(***************************************************************************)

LEMMA LeastElement ==
  ASSUME NEW T, T \subseteq Nat, T # {}
  PROVE  \E n \in T : \A m \in T : n <= m
<1> PICK k \in T : TRUE
  OBVIOUS
<1> DEFINE S == 0 .. k
           Below == {0 .. m : m \in {j \in T : j <= k}}
<1>1. IsFiniteSet(S)
  BY FS_Interval
<1>2. IsWellFoundedOn(StrictSubsetOrdering(S), FiniteSubsetsOf(S))
  BY <1>1, FS_StrictSubsetOrderingWellFounded
<1>3. Below \subseteq FiniteSubsetsOf(S) /\ Below # {}
  <2>1. \A m \in {j \in T : j <= k} : IsFiniteSet(0 .. m) /\ 0 .. m \subseteq S
    BY FS_Interval
  <2> QED
    BY <2>1 DEF FiniteSubsetsOf
<1> HIDE DEF Below
<1>4. PICK x \in Below : \A y \in Below : <<y, x>> \notin StrictSubsetOrdering(S)
  BY <1>2, <1>3, WFMin
<1>5. PICK n \in {j \in T : j <= k} : x = 0 .. n
  BY DEF Below
<1>6. ASSUME NEW m \in T, m < n PROVE FALSE
  <2>1. 0 .. m \in Below
    BY <1>6 DEF Below
  <2>2. <<0 .. m, x>> \notin StrictSubsetOrdering(S)
    BY <1>4, <2>1
  <2>3. 0 .. m \subseteq 0 .. n /\ 0 .. m # 0 .. n
    BY <1>6
  <2> QED
    BY <1>3, <1>5, <2>1, <2>2, <2>3 DEF StrictSubsetOrdering, FiniteSubsetsOf
<1> QED
  BY <1>5, <1>6

LEMMA InductionTo ==
  ASSUME NEW n \in Nat, NEW P, 0 \in P, \A i \in 1 .. n : i - 1 \in P => i \in P
  PROVE  \A i \in 0 .. n : i \in P
<1> SUFFICES ASSUME {i \in 0 .. n : i \notin P} # {} PROVE FALSE
  OBVIOUS
<1>1. {i \in 0 .. n : i \notin P} \subseteq Nat
  OBVIOUS
<1>2. PICK k \in {i \in 0 .. n : i \notin P} :
        \A m \in {i \in 0 .. n : i \notin P} : k <= m
  BY <1>1, LeastElement
<1>3. k \in 1 .. n /\ k - 1 \in 0 .. n
  BY <1>2
<1>4. k - 1 \in P
  BY <1>2, <1>3
<1> QED
  BY <1>2, <1>3, <1>4

-----------------------------------------------------------------------------
\* Folds over a sequence.

LEMMA MaxOfPlaces ==
  ASSUME NEW n \in Nat, NEW d \in SUBSET (1 .. n), d # {}
  PROVE  Max(d) \in d /\ \A i \in d : i <= Max(d)
<1> DEFINE Above == {k \in 0 .. n : \A i \in d : i <= k}
<1>1. Above \subseteq Nat /\ n \in Above
  OBVIOUS
<1>2. PICK k \in Above : \A m \in Above : k <= m
  BY <1>1, LeastElement
<1>3. k \in d
  <2> SUFFICES ASSUME k \notin d PROVE FALSE
    OBVIOUS
  <2>0. PICK j \in d : j \in 1 .. n
    OBVIOUS
  <2>1. k \in Nat /\ k > 0
    BY <1>2, <2>0
  <2>2. ASSUME NEW i \in d PROVE i <= k - 1
    BY <1>2, <2>1
  <2>3. k - 1 \in Above
    BY <1>2, <2>1, <2>2
  <2> QED
    BY <1>2, <2>1, <2>3
<1>4. \E k_ \in d : \A i \in d : k_ >= i
  BY <1>2, <1>3
<1>5. Max(d) \in d /\ \A i \in d : Max(d) >= i
  BY <1>4 DEF Max
<1> QED
  BY <1>5

LEMMA MaxOfPrefix ==
  ASSUME NEW n \in Nat, NEW i \in 1 .. n
  PROVE  /\ 1 .. i \in SUBSET (1 .. n) /\ 1 .. i # {}
         /\ Max(1 .. i) = i /\ (1 .. i) \ {i} = 1 .. (i - 1)
<1>1. 1 .. i \in SUBSET (1 .. n) /\ i \in 1 .. i
  OBVIOUS
<1>2. Max(1 .. i) \in 1 .. i /\ i <= Max(1 .. i)
  BY <1>1, MaxOfPlaces
<1> QED
  BY <1>1, <1>2

\* The values of a fold, one for each beginning of the sequence.
Steps(X, n) == [X \X (1 .. n) -> X]
IsPath(X, n, base, G, h) ==
  /\ h \in [0 .. n -> X] /\ h[0] = base
  /\ \A i \in 1 .. n : h[i] = G[<<h[i - 1], i>>]

IsFold(X, n, base, G, it) ==
  /\ it \in [SUBSET (1 .. n) -> X]
  /\ \A d \in SUBSET (1 .. n) :
       it[d] = IF d = {} THEN base ELSE G[<<it[d \ {Max(d)}], Max(d)>>]

LEMMA PathExists ==
  ASSUME NEW X, NEW n \in Nat, NEW base \in X, NEW G \in Steps(X, n)
  PROVE  \E h : IsPath(X, n, base, G, h)
<1> USE DEF Steps, IsPath
<1> DEFINE P == {m \in 0 .. n : \E h \in [0 .. m -> X] :
                    h[0] = base /\ \A i \in 1 .. m : h[i] = G[<<h[i - 1], i>>]}
<1>1. 0 \in P
  <2> DEFINE h == [i \in 0 .. 0 |-> base]
  <2>1. h \in [0 .. 0 -> X] /\ h[0] = base
    OBVIOUS
  <2>2. 1 .. 0 = {}
    OBVIOUS
  <2> HIDE DEF h
  <2>3. \E g \in [0 .. 0 -> X] : g[0] = base /\ \A i \in 1 .. 0 : g[i] = G[<<g[i - 1], i>>]
    BY <2>1, <2>2
  <2> QED
    BY <2>3
<1>2. ASSUME NEW m \in 1 .. n, m - 1 \in P PROVE m \in P
  <2>1. PICK g \in [0 .. m - 1 -> X] :
          g[0] = base /\ \A i \in 1 .. m - 1 : g[i] = G[<<g[i - 1], i>>]
    BY <1>2
  <2> DEFINE v == G[<<g[m - 1], m>>]
             h == [i \in 0 .. m |-> IF i = m THEN v ELSE g[i]]
  <2>2. g[m - 1] \in X /\ v \in X
    BY <2>1
  <2>3. h \in [0 .. m -> X] /\ h[0] = base
    BY <2>1, <2>2
  <2>4. ASSUME NEW i \in 1 .. m PROVE h[i] = G[<<h[i - 1], i>>]
    <3>1. h[i - 1] = g[i - 1]
      BY <2>4
    <3>2. CASE i = m
      <4>1. h[i] = v
        BY <3>2
      <4> QED
        BY <3>1, <3>2, <4>1
    <3>3. CASE i # m
      <4>1. i \in 1 .. m - 1 /\ h[i] = g[i]
        BY <3>3
      <4> QED
        BY <2>1, <3>1, <4>1
    <3> QED
      BY <3>2, <3>3
  <2> HIDE DEF h
  <2>5. \E f \in [0 .. m -> X] : f[0] = base /\ \A i \in 1 .. m : f[i] = G[<<f[i - 1], i>>]
    BY <2>3, <2>4
  <2> QED
    BY <2>5
<1> HIDE DEF P
<1>3. n \in P
  BY <1>1, <1>2, InductionTo
<1> QED
  BY <1>3 DEF P

\* A fold of the community modules is a function on sets of places, which
\* takes the places of a set one by one; it exists.
LEMMA FoldDefined ==
  ASSUME NEW X, NEW n \in Nat, NEW base \in X, NEW G \in Steps(X, n)
  PROVE  \E it : IsFold(X, n, base, G, it)
<1>g. G \in [X \X (1 .. n) -> X]
  BY DEF Steps
<1>0. \A F \in Steps(X, n) : \E h : IsPath(X, n, base, F, h)
  BY PathExists
<1> DEFINE PathIn(d, h) ==
             /\ h[0] = base
             /\ \A i \in 1 .. n : h[i] = IF i \in d THEN G[<<h[i - 1], i>>] ELSE h[i - 1]
           K(d) == CHOOSE h \in [0 .. n -> X] : PathIn(d, h)
<1>1. ASSUME NEW d \in SUBSET (1 .. n)
      PROVE  K(d) \in [0 .. n -> X] /\ PathIn(d, K(d))
  <2> DEFINE F == [p \in X \X (1 .. n) |-> IF p[2] \in d THEN G[p] ELSE p[1]]
  <2>1. F \in [X \X (1 .. n) -> X]
    BY <1>g
  <2>2. PICK h \in [0 .. n -> X] : h[0] = base /\ \A i \in 1 .. n : h[i] = F[<<h[i - 1], i>>]
    <3> HIDE DEF F
    <3> QED
      BY <1>0, <2>1 DEF Steps, IsPath
  <2>3. ASSUME NEW i \in 1 .. n
        PROVE  h[i] = IF i \in d THEN G[<<h[i - 1], i>>] ELSE h[i - 1]
    <3>1. h[i - 1] \in X /\ <<h[i - 1], i>> \in X \X (1 .. n)
      OBVIOUS
    <3>2. F[<<h[i - 1], i>>] = IF i \in d THEN G[<<h[i - 1], i>>] ELSE h[i - 1]
      BY <3>1
    <3> QED
      BY <2>2, <3>2
  <2> QED
    BY <2>2, <2>3, ZenonT(60)
<1> HIDE DEF K
<1> DEFINE it == [d \in SUBSET (1 .. n) |-> K(d)[n]]
<1>2. it \in [SUBSET (1 .. n) -> X]
  BY <1>1
<1>3. ASSUME NEW d \in SUBSET (1 .. n), NEW e \in SUBSET (1 .. n), NEW m \in 0 .. n,
             d \cap (1 .. m) = e \cap (1 .. m)
      PROVE  K(d)[m] = K(e)[m]
  <2> DEFINE P == {i \in 0 .. m : K(d)[i] = K(e)[i]}
  <2>1. 0 \in P
    BY <1>1
  <2>2. ASSUME NEW i \in 1 .. m, i - 1 \in P PROVE i \in P
    <3>1. i \in 1 .. n /\ (i \in d <=> i \in e)
      BY <1>3
    <3>2. K(d)[i - 1] = K(e)[i - 1]
      BY <2>2
    <3>3. /\ K(d)[i] = IF i \in d THEN G[<<K(d)[i - 1], i>>] ELSE K(d)[i - 1]
          /\ K(e)[i] = IF i \in e THEN G[<<K(e)[i - 1], i>>] ELSE K(e)[i - 1]
      BY <1>1, <3>1
    <3> QED
      BY <3>1, <3>2, <3>3
  <2> HIDE DEF P
  <2>3. m \in P
    BY <2>1, <2>2, InductionTo
  <2> QED
    BY <2>3 DEF P
<1>4. ASSUME NEW d \in SUBSET (1 .. n), NEW m \in 0 .. n, \A i \in d : i <= m
      PROVE  K(d)[n] = K(d)[m]
  <2> DEFINE P == {i \in 0 .. n : i >= m => K(d)[i] = K(d)[m]}
  <2>1. 0 \in P
    OBVIOUS
  <2>2. ASSUME NEW i \in 1 .. n, i - 1 \in P PROVE i \in P
    <3>1. CASE i > m
      <4>1. i \notin d
        BY <1>4, <3>1
      <4>2. K(d)[i] = K(d)[i - 1]
        BY <1>1, <4>1
      <4>3. K(d)[i - 1] = K(d)[m]
        BY <2>2, <3>1
      <4> QED
        BY <4>2, <4>3
    <3>2. CASE i <= m
      BY <3>2
    <3> QED
      BY <3>1, <3>2
  <2> HIDE DEF P
  <2>3. n \in P
    BY <2>1, <2>2, InductionTo
  <2> QED
    BY <2>3 DEF P
<1>5. ASSUME NEW d \in SUBSET (1 .. n)
      PROVE  it[d] = IF d = {} THEN base ELSE G[<<it[d \ {Max(d)}], Max(d)>>]
  <2>1. CASE d = {}
    <3>1. K(d)[n] = K(d)[0]
      BY <1>4, <2>1
    <3> QED
      BY <1>1, <2>1, <3>1
  <2>2. CASE d # {}
    <3> DEFINE m == Max(d)
               e == d \ {m}
    <3>0. m \in d /\ \A i \in d : i <= m
      BY <2>2, MaxOfPlaces
    <3> HIDE DEF m
    <3>1. m \in d /\ m \in 1 .. n /\ m - 1 \in 0 .. n /\ \A i \in d : i <= m
      BY <3>0
    <3>2. e \in SUBSET (1 .. n) /\ \A i \in e : i <= m - 1
      BY <3>1
    <3>3. K(d)[n] = K(d)[m]
      BY <1>4, <3>1
    <3>4. K(d)[m] = G[<<K(d)[m - 1], m>>]
      BY <1>1, <3>1
    <3>5. K(e)[n] = K(e)[m - 1]
      BY <1>4, <3>1, <3>2
    <3>6. d \cap (1 .. m - 1) = e \cap (1 .. m - 1)
      BY <3>1
    <3>7. K(e)[m - 1] = K(d)[m - 1]
      BY <1>3, <3>1, <3>2, <3>6
    <3>8. it[d] = K(d)[n] /\ it[e] = K(e)[n]
      BY <3>2
    <3> QED
      BY <2>2, <3>3, <3>4, <3>5, <3>7, <3>8 DEF m
  <2> QED
    BY <2>1, <2>2
<1> HIDE DEF it
<1> QED
  BY <1>2, <1>5 DEF IsFold

\* Along the beginnings of the sequence.
LEMMA FoldAlong ==
  ASSUME NEW n \in Nat, NEW it, NEW h, it[{}] = h[0],
         \A i \in 1 .. n : it[1 .. (i - 1)] = h[i - 1] => it[1 .. i] = h[i]
  PROVE  it[1 .. n] = h[n]
<1> DEFINE P == {i \in 0 .. n : it[1 .. i] = h[i]}
<1>1. 0 \in P
  <2>1. 1 .. 0 = {}
    OBVIOUS
  <2> QED
    BY <2>1
<1>2. \A i \in 1 .. n : i - 1 \in P => i \in P
  OBVIOUS
<1> HIDE DEF P
<1>3. n \in P
  BY <1>1, <1>2, InductionTo, SMTT(40)
<1> QED
  BY <1>3 DEF P

\* The contributions of the elements of s, one after the other.
Collect(g, s) == FoldLeft(LAMBDA acc, e : acc \o g[e], <<>>, s)

Parts(S, T) == [S -> Seq(T)]
IsCollected(T, g, s, h) ==
  /\ h \in [0 .. Len(s) -> Seq(T)] /\ h[0] = <<>>
  /\ \A i \in 1 .. Len(s) : h[i] = h[i - 1] \o g[s[i]]

LEMMA CollectPath ==
  ASSUME NEW S, NEW T, NEW g \in Parts(S, T), NEW s \in Seq(S)
  PROVE  \E h : IsCollected(T, g, s, h)
<1> USE DEF Parts, IsCollected
<1>n. PICK n \in Nat : n = Len(s)
  BY LenProperties
<1>1. \A i \in 1 .. n : s[i] \in S
  BY <1>n, ElementOfSeq
<1> DEFINE X == Seq(T)
           G == [p \in X \X (1 .. n) |-> p[1] \o g[s[p[2]]]]
<1>2. G \in Steps(X, n)
  BY <1>1, ConcatProperties DEF Steps
<1>3. <<>> \in X
  BY EmptySeq
<1> HIDE DEF X, G
<1>4. PICK h : IsPath(X, n, <<>>, G, h)
  BY <1>2, <1>3, PathExists
<1>5. h \in [0 .. n -> X] /\ h[0] = <<>> /\ \A i \in 1 .. n : h[i] = G[<<h[i - 1], i>>]
  BY <1>4 DEF IsPath
<1>6. ASSUME NEW i \in 1 .. n PROVE h[i] = h[i - 1] \o g[s[i]]
  <2>1. i - 1 \in 0 .. n
    OBVIOUS
  <2>2. h[i - 1] \in X
    BY <1>5, <2>1
  <2>3. h[i] = G[<<h[i - 1], i>>]
    BY <1>5
  <2> QED
    BY <2>2, <2>3 DEF G
<1> QED
  BY <1>n, <1>5, <1>6 DEF X

LEMMA CollectIs ==
  ASSUME NEW S, NEW T, NEW g \in Parts(S, T), NEW s \in Seq(S),
         NEW h, IsCollected(T, g, s, h)
  PROVE  Collect(g, s) = h[Len(s)]
<1> USE DEF Parts, IsCollected
<1>n. PICK n \in Nat : n = Len(s)
  BY LenProperties
<1> DEFINE X == Seq(T)
           G == [p \in X \X (1 .. n) |-> p[1] \o g[s[p[2]]]]
           IsIt(it) == it = [d \in SUBSET (1 .. n) |->
                               IF d = {} THEN <<>> ELSE it[d \ {Max(d)}] \o g[s[Max(d)]]]
           chosen == CHOOSE it : IsIt(it)
<1>1. (\A i \in 1 .. n : s[i] \in S) /\ DOMAIN s = 1 .. n
  BY <1>n, LenProperties, ElementOfSeq
<1>2. G \in Steps(X, n)
  BY <1>1, ConcatProperties DEF Steps
<1>3. <<>> \in X
  BY EmptySeq
<1>4. Collect(g, s) = chosen[1 .. n]
  <2>1. Collect(g, s) = (CHOOSE it : it = [d \in SUBSET DOMAIN s |->
                IF d = {} THEN <<>> ELSE it[d \ {Max(d)}] \o g[s[Max(d)]]])[DOMAIN s]
    BY DEF Collect, FoldLeft, MapThenFoldSet
  <2> QED
    BY <1>1, <2>1
<1>5. \E it : IsIt(it)
  <2> HIDE DEF X, G
  <2>1. PICK it : IsFold(X, n, <<>>, G, it)
    BY <1>2, <1>3, FoldDefined
  <2>2. ASSUME NEW d \in SUBSET (1 .. n)
        PROVE  it[d] = IF d = {} THEN <<>> ELSE it[d \ {Max(d)}] \o g[s[Max(d)]]
    <3>1. CASE d = {}
      BY <2>1, <3>1 DEF IsFold
    <3>2. CASE d # {}
      <4>1. Max(d) \in 1 .. n
        BY <3>2, MaxOfPlaces
      <4>2. it[d \ {Max(d)}] \in X /\ it[d] = G[<<it[d \ {Max(d)}], Max(d)>>]
        BY <2>1, <3>2 DEF IsFold
      <4> QED
        BY <3>2, <4>1, <4>2 DEF G
    <3> QED
      BY <3>1, <3>2
  <2>3. it = [d \in SUBSET (1 .. n) |-> it[d]]
    BY <2>1 DEF IsFold
  <2> QED
    BY <2>2, <2>3
<1>6. \A d \in SUBSET (1 .. n) : chosen[d] =
        IF d = {} THEN <<>> ELSE chosen[d \ {Max(d)}] \o g[s[Max(d)]]
  <2>1. IsIt(chosen)
    BY <1>5
  <2> HIDE DEF chosen
  <2> QED
    BY <2>1
<1> HIDE DEF chosen
<1>7. chosen[{}] = h[0]
  BY <1>6
<1>8. ASSUME NEW i \in 1 .. n, chosen[1 .. (i - 1)] = h[i - 1] PROVE chosen[1 .. i] = h[i]
  <2>1. /\ 1 .. i \in SUBSET (1 .. n) /\ 1 .. i # {}
        /\ Max(1 .. i) = i /\ (1 .. i) \ {i} = 1 .. (i - 1)
    BY MaxOfPrefix
  <2>2. chosen[1 .. i] = chosen[1 .. (i - 1)] \o g[s[i]]
    BY <1>6, <2>1
  <2>3. h[i] = h[i - 1] \o g[s[i]]
    BY <1>n
  <2> QED
    BY <1>8, <2>2, <2>3
<1>9. chosen[1 .. n] = h[n]
  BY <1>7, <1>8, FoldAlong, ZenonT(60)
<1> QED
  BY <1>n, <1>4, <1>9

LEMMA CollectType ==
  ASSUME NEW S, NEW T, NEW g \in Parts(S, T), NEW s \in Seq(S)
  PROVE  Collect(g, s) \in Seq(T)
<1>1. PICK h : IsCollected(T, g, s, h)
  BY CollectPath
<1>2. Collect(g, s) = h[Len(s)]
  BY <1>1, CollectIs
<1>3. Len(s) \in 0 .. Len(s)
  BY LenProperties
<1> QED
  BY <1>1, <1>2, <1>3 DEF IsCollected

LEMMA CollectEmpty ==
  ASSUME NEW S, NEW T, NEW g \in Parts(S, T)
  PROVE  Collect(g, <<>>) = <<>>
<1>0. <<>> \in Seq(T)
  BY EmptySeq
<1> DEFINE h == [i \in 0 .. 0 |-> <<>>]
<1>1. <<>> \in Seq(S) /\ Len(<<>>) = 0 /\ h[0] = <<>> /\ h \in [0 .. 0 -> Seq(T)]
  BY <1>0, EmptySeq
<1> HIDE DEF h
<1>2. 1 .. 0 = {}
  OBVIOUS
<1>3. IsCollected(T, g, <<>>, h)
  BY <1>1, <1>2 DEF IsCollected
<1>4. Collect(g, <<>>) = h[Len(<<>>)]
  BY <1>1, <1>3, CollectIs
<1> QED
  BY <1>1, <1>4

LEMMA CollectOne ==
  ASSUME NEW S, NEW T, NEW g \in Parts(S, T), NEW e \in S
  PROVE  Collect(g, <<e>>) = g[e]
<1>0. g[e] \in Seq(T) /\ <<>> \in Seq(T)
  BY EmptySeq DEF Parts
<1>2. Collect(g, <<e>>) = g[e]
  <2> DEFINE h == [i \in 0 .. 1 |-> IF i = 0 THEN <<>> ELSE g[e]]
  <2>1. <<e>> \in Seq(S) /\ Len(<<e>>) = 1 /\ <<e>>[1] = e
    OBVIOUS
  <2>2. <<>> \o g[e] = g[e]
    BY <1>0, ConcatEmptySeq
  <2>3. h[0] = <<>> /\ h[1] = g[e] /\ h \in [0 .. 1 -> Seq(T)]
    BY <1>0
  <2> HIDE DEF h
  <2>4. \A i \in 1 .. Len(<<e>>) : h[i] = h[i - 1] \o g[<<e>>[i]]
    <3> SUFFICES ASSUME NEW i \in 1 .. Len(<<e>>) PROVE h[i] = h[i - 1] \o g[<<e>>[i]]
      OBVIOUS
    <3>1. i = 1 /\ i - 1 = 0
      BY <2>1
    <3> QED
      BY <2>1, <2>2, <2>3, <3>1
  <2>5. IsCollected(T, g, <<e>>, h)
    BY <2>1, <2>3, <2>4 DEF IsCollected
  <2>6. Collect(g, <<e>>) = h[Len(<<e>>)]
    BY <2>1, <2>5, CollectIs, ZenonT(60)
  <2> QED
    BY <2>1, <2>3, <2>6
<1> QED
  BY <1>2

\* One queue behind another: a filter does not see where the one ends.
LEMMA CollectConcat ==
  ASSUME NEW S, NEW T, NEW g \in Parts(S, T), NEW s \in Seq(S), NEW t \in Seq(S)
  PROVE  Collect(g, s \o t) = Collect(g, s) \o Collect(g, t)
<1>1. PICK m \in Nat : m = Len(s)
  BY LenProperties
<1>2. PICK n \in Nat : n = Len(t)
  BY LenProperties
<1>a. PICK h : IsCollected(T, g, s, h)
  BY CollectPath
<1>b. PICK k : IsCollected(T, g, t, k)
  BY CollectPath
<1>c. Collect(g, s) = h[Len(s)] /\ Collect(g, t) = k[Len(t)]
  BY <1>a, <1>b, CollectIs
<1>3. /\ h \in [0 .. m -> Seq(T)] /\ h[0] = <<>>
      /\ \A i \in 1 .. m : h[i] = h[i - 1] \o g[s[i]]
  BY <1>1, <1>a DEF IsCollected
<1>4. /\ k \in [0 .. n -> Seq(T)] /\ k[0] = <<>>
      /\ \A i \in 1 .. n : k[i] = k[i - 1] \o g[t[i]]
  BY <1>2, <1>b DEF IsCollected
<1>5. Collect(g, s) = h[m] /\ Collect(g, t) = k[n] /\ h[m] \in Seq(T)
  BY <1>1, <1>2, <1>3, <1>c
<1>6. /\ s \o t \in Seq(S) /\ Len(s \o t) = m + n
      /\ \A i \in 1 .. m : (s \o t)[i] = s[i]
      /\ \A i \in 1 .. n : (s \o t)[m + i] = t[i]
  BY <1>1, <1>2, ConcatProperties
<1> DEFINE both == [i \in 0 .. m + n |-> IF i <= m THEN h[i] ELSE h[m] \o k[i - m]]
<1>d. \A i \in 0 .. n : h[m] \o k[i] \in Seq(T)
  BY <1>4, <1>5, ConcatProperties
<1>e. both \in [0 .. m + n -> Seq(T)]
  <2>1. ASSUME NEW i \in 0 .. m + n
        PROVE  (IF i <= m THEN h[i] ELSE h[m] \o k[i - m]) \in Seq(T)
    <3>1. CASE i <= m
      BY <1>3, <3>1
    <3>2. CASE ~(i <= m)
      BY <1>d, <3>2
    <3> QED
      BY <3>1, <3>2
  <2> QED
    BY <2>1
<1>7. /\ \A i \in 0 .. m : both[i] = h[i]
      /\ \A i \in 0 .. n : both[m + i] = h[m] \o k[i]
  <2>1. \A i \in 0 .. m : both[i] = h[i]
    OBVIOUS
  <2>2. h[m] \o k[0] = h[m]
    BY <1>4, <1>5, ConcatEmptySeq
  <2>3. ASSUME NEW i \in 0 .. n PROVE both[m + i] = h[m] \o k[i]
    <3>1. CASE i = 0
      <4>1. m + i = m /\ m \in 0 .. m
        BY <3>1
      <4>2. both[m + i] = h[m]
        BY <2>1, <4>1
      <4> QED
        BY <2>2, <3>1, <4>2
    <3>2. CASE i # 0
      <4>1. PICK j \in 0 .. m + n : j = m + i
        OBVIOUS
      <4>2. ~(j <= m) /\ j - m = i
        BY <3>2, <4>1
      <4>3. both[j] = IF j <= m THEN h[j] ELSE h[m] \o k[j - m]
        OBVIOUS
      <4> HIDE DEF both
      <4>4. both[j] = h[m] \o k[i]
        BY <4>2, <4>3
      <4> QED
        BY <4>1, <4>4
    <3> QED
      BY <3>1, <3>2
  <2> QED
    BY <2>1, <2>3
<1> HIDE DEF both
<1>f. \A a, b, c \in Seq(T) : a \o (b \o c) = (a \o b) \o c
  BY ConcatAssociative, SMTT(40)
<1>8. ASSUME NEW i \in 1 .. m + n PROVE both[i] = both[i - 1] \o g[(s \o t)[i]]
  <2>1. CASE i <= m
    <3>1. i \in 1 .. m /\ i \in 0 .. m /\ i - 1 \in 0 .. m
      BY <2>1
    <3>2. both[i] = h[i] /\ both[i - 1] = h[i - 1] /\ (s \o t)[i] = s[i]
      BY <1>6, <1>7, <3>1
    <3>3. h[i] = h[i - 1] \o g[s[i]]
      BY <1>3, <3>1
    <3> QED
      BY <3>2, <3>3
  <2>2. CASE i > m
    <3>1. PICK j \in 1 .. n : i = m + j
      <4>1. i - m \in 1 .. n /\ i = m + (i - m)
        BY <2>2
      <4> QED
        BY <4>1
    <3>2. j \in 0 .. n /\ j - 1 \in 0 .. n /\ i - 1 = m + (j - 1)
      BY <3>1
    <3>3. both[i] = h[m] \o k[j] /\ both[i - 1] = h[m] \o k[j - 1] /\ (s \o t)[i] = t[j]
      BY <1>6, <1>7, <3>1, <3>2
    <3>4. k[j] = k[j - 1] \o g[t[j]]
      BY <1>4
    <3>5. k[j - 1] \in Seq(T) /\ t[j] \in S
      BY <1>2, <1>4, <3>1, <3>2, ElementOfSeq
    <3>6. g[t[j]] \in Seq(T)
      BY <3>5 DEF Parts
    <3>7. h[m] \o (k[j - 1] \o g[t[j]]) = (h[m] \o k[j - 1]) \o g[t[j]]
      BY <1>5, <1>f, <3>5, <3>6
    <3> QED
      BY <3>3, <3>4, <3>7
  <2>3. i <= m \/ i > m
    OBVIOUS
  <2> QED
    BY <2>1, <2>2, <2>3
<1>9. both[0] = <<>> /\ both[m + n] = h[m] \o k[n]
  <2>1. 0 \in 0 .. m /\ n \in 0 .. n
    OBVIOUS
  <2> QED
    BY <1>3, <1>7, <2>1
<1>10. IsCollected(T, g, s \o t, both)
  BY <1>6, <1>8, <1>9, <1>e DEF IsCollected
<1>11. Collect(g, s \o t) = both[Len(s \o t)]
  <2>1. PICK w \in Seq(S) : w = s \o t
    BY <1>6
  <2>2. IsCollected(T, g, w, both)
    BY <1>10, <2>1
  <2>3. Collect(g, w) = both[Len(w)]
    BY <2>2, CollectIs
  <2> QED
    BY <2>1, <2>3
<1> QED
  BY <1>5, <1>6, <1>9, <1>11

LEMMA CollectAppend ==
  ASSUME NEW S, NEW T, NEW g \in Parts(S, T), NEW s \in Seq(S), NEW e \in S
  PROVE  Collect(g, Append(s, e)) = Collect(g, s) \o g[e]
<1>1. Append(s, e) = s \o <<e>> /\ <<e>> \in Seq(S)
  BY AppendIsConcat
<1>2. Collect(g, s \o <<e>>) = Collect(g, s) \o Collect(g, <<e>>)
  BY <1>1, CollectConcat, ZenonT(60)
<1>3. Collect(g, <<e>>) = g[e]
  BY CollectOne
<1> QED
  BY <1>1, <1>2, <1>3

LEMMA HeadThenTail ==
  ASSUME NEW S, NEW s \in Seq(S), s # <<>>
  PROVE  s = <<Head(s)>> \o Tail(s)
<1>1. Len(s) \in Nat \ {0}
  BY EmptySeq
<1>2. SubSeq(s, 1, Len(s)) = <<s[1]>> \o SubSeq(s, 1 + 1, Len(s))
  BY <1>1, SubSeqRecursiveFirst
<1>3. Head(s) = s[1]
  BY HeadTailProperties
<1> QED
  BY <1>1, <1>2, <1>3, SubSeqFull, TailIsSubSeq

LEMMA CollectHead ==
  ASSUME NEW S, NEW T, NEW g \in Parts(S, T), NEW s \in Seq(S), s # <<>>
  PROVE  Collect(g, s) = g[Head(s)] \o Collect(g, Tail(s))
<1>1. s = <<Head(s)>> \o Tail(s) /\ Head(s) \in S /\ Tail(s) \in Seq(S) /\ <<Head(s)>> \in Seq(S)
  BY HeadThenTail, HeadTailProperties
<1>2. Collect(g, <<Head(s)>> \o Tail(s)) = Collect(g, <<Head(s)>>) \o Collect(g, Tail(s))
  <2>1. \A u, v \in Seq(S) : Collect(g, u \o v) = Collect(g, u) \o Collect(g, v)
    BY CollectConcat
  <2> QED
    BY <1>1, <2>1
<1>3. Collect(g, <<Head(s)>>) = g[Head(s)]
  BY <1>1, CollectOne
<1> QED
  BY <1>1, <1>2, <1>3

\* A beginning of a queue, and what follows it.
LEMMA PrefixAndRest ==
  ASSUME NEW S, NEW s \in Seq(S), NEW t \in Prefixes(s)
  PROVE  t \in Seq(S) /\ \E u \in Seq(S) : s = t \o u
<1>1. PICK n \in 0 .. Len(s) : t = SubSeq(s, 1, n)
  BY DEF Prefixes
<1>2. Len(s) \in Nat /\ \A i \in 1 .. Len(s) : s[i] \in S
  BY LenProperties, ElementOfSeq
<1>3. t \in Seq(S) /\ SubSeq(s, n + 1, Len(s)) \in Seq(S)
  BY <1>1, <1>2, SubSeqProperties
<1>4. SubSeq(s, 1, n) \o SubSeq(s, n + 1, Len(s)) = SubSeq(s, 1, Len(s))
  <2>1. 1 \in 1 .. Len(s) + 1 /\ n \in 1 - 1 .. Len(s) /\ Len(s) \in n .. Len(s)
    BY <1>2
  <2> QED
    BY <2>1, ConcatAdjacentSubSeq
<1> QED
  BY <1>1, <1>3, <1>4, SubSeqFull

LEMMA CutOfConcat ==
  ASSUME NEW S, NEW t \in Seq(S), NEW u \in Seq(S)
  PROVE  Len(t) \in 0 .. Len(t \o u) /\ SubSeq(t \o u, 1, Len(t)) = t
<1>1. Len(t) \in Nat /\ Len(u) \in Nat /\ Len(t \o u) = Len(t) + Len(u)
  BY LenProperties, ConcatProperties
<1>2. CASE Len(t) = 0
  <2>1. t = <<>>
    BY <1>2, EmptySeq
  <2>2. SubSeq(t \o u, 1, 0) = <<>>
    BY SubSeqEmpty
  <2> QED
    BY <1>1, <1>2, <2>1, <2>2
<1>3. CASE Len(t) # 0
  <2>1. 1 \in 1 .. Len(t) /\ Len(t) \in 1 .. Len(t)
    BY <1>1, <1>3
  <2>2. SubSeq(t \o u, 1, Len(t)) = SubSeq(t, 1, Len(t))
    BY <2>1, SubSeqOfConcat1
  <2> QED
    BY <1>1, <2>2, SubSeqFull
<1> QED
  BY <1>2, <1>3

-----------------------------------------------------------------------------
(***************************************************************************)
(* Three queues in a row: what a reader has handed over, what is on the    *)
(* wire, what waits for the writer.                                        *)
(***************************************************************************)

\* s followed by t, kept closed for the provers, which the sequence operators
\* themselves would send astray.
Cat(s, t) == s \o t

LEMMA CatType ==
  ASSUME NEW S, NEW s \in Seq(S), NEW t \in Seq(S)
  PROVE  Cat(s, t) \in Seq(S)
BY ConcatProperties DEF Cat

LEMMA CatAssociative ==
  ASSUME NEW S, NEW s \in Seq(S), NEW t \in Seq(S), NEW u \in Seq(S)
  PROVE  Cat(Cat(s, t), u) = Cat(s, Cat(t, u))
BY ConcatAssociative DEF Cat

LEMMA CatAppend ==
  ASSUME NEW S, NEW s \in Seq(S), NEW e \in S
  PROVE  <<e>> \in Seq(S) /\ Append(s, e) = Cat(s, <<e>>)
<1>1. <<e>> \in Seq(S)
  OBVIOUS
<1>2. Append(s, e) = s \o <<e>>
  BY AppendIsConcat
<1> QED
  BY <1>1, <1>2 DEF Cat

LEMMA CatHead ==
  ASSUME NEW S, NEW s \in Seq(S), s # <<>>
  PROVE  /\ Head(s) \in S /\ Tail(s) \in Seq(S)
         /\ \E h \in Seq(S) : h = <<Head(s)>> /\ s = Cat(h, Tail(s))
<1>1. Head(s) \in S /\ Tail(s) \in Seq(S)
  BY HeadTailProperties
<1>2. <<Head(s)>> \in Seq(S)
  BY <1>1
<1>3. s = <<Head(s)>> \o Tail(s)
  BY HeadThenTail
<1> QED
  BY <1>1, <1>2, <1>3 DEF Cat

LEMMA CollectCat ==
  ASSUME NEW S, NEW T, NEW g \in Parts(S, T), NEW s \in Seq(S), NEW t \in Seq(S)
  PROVE  Collect(g, Cat(s, t)) = Cat(Collect(g, s), Collect(g, t))
BY CollectConcat DEF Cat

Row(a, b, c) == Cat(Cat(a, b), c)

LEMMA RowType ==
  ASSUME NEW S, NEW a \in Seq(S), NEW b \in Seq(S), NEW c \in Seq(S)
  PROVE  Row(a, b, c) \in Seq(S)
BY CatType DEF Row

\* The first of one queue becomes the last of the queue before it.
LEMMA Moves ==
  ASSUME NEW S, NEW a \in Seq(S), NEW b \in Seq(S), b # <<>>
  PROVE  Cat(Append(a, Head(b)), Tail(b)) = Cat(a, b)
<1>1. PICK h \in Seq(S) : h = <<Head(b)>> /\ b = Cat(h, Tail(b))
  BY CatHead
<1>2. PICK t \in Seq(S) : t = Tail(b)
  BY CatHead
<1>3. Append(a, Head(b)) = Cat(a, h)
  BY <1>1, CatHead, CatAppend
<1>4. Cat(Cat(a, h), t) = Cat(a, Cat(h, t))
  BY CatAssociative
<1> QED
  BY <1>1, <1>2, <1>3, <1>4

\* The reader hands the next frame over.
LEMMA RowReads ==
  ASSUME NEW S, NEW a \in Seq(S), NEW b \in Seq(S), NEW c, b # <<>>
  PROVE  Row(Append(a, Head(b)), Tail(b), c) = Row(a, b, c)
BY Moves DEF Row

\* The writer writes the next one.
LEMMA RowWrites ==
  ASSUME NEW S, NEW a \in Seq(S), NEW b \in Seq(S), NEW c \in Seq(S), c # <<>>
  PROVE  Row(a, Append(b, Head(c)), Tail(c)) = Row(a, b, c)
<1>1. Head(c) \in S /\ Append(b, Head(c)) \in Seq(S)
  BY HeadTailProperties, AppendProperties
<1>2. PICK d \in Seq(S) : d = Append(b, Head(c))
  BY <1>1
<1>3. PICK t \in Seq(S) : t = Tail(c)
  BY HeadTailProperties
<1>4. Cat(d, t) = Cat(b, c)
  BY <1>2, <1>3, Moves
<1>5. Cat(Cat(a, d), t) = Cat(a, Cat(d, t))
  BY CatAssociative
<1>6. Cat(Cat(a, b), c) = Cat(a, Cat(b, c))
  BY CatAssociative
<1> QED
  BY <1>2, <1>3, <1>4, <1>5, <1>6 DEF Row

\* A message is posted behind all others.
LEMMA RowPosts ==
  ASSUME NEW S, NEW a \in Seq(S), NEW b \in Seq(S), NEW c \in Seq(S), NEW m \in S
  PROVE  Row(a, b, Append(c, m)) = Append(Row(a, b, c), m)
<1>1. PICK w \in Seq(S) : w = Cat(a, b)
  BY CatType
<1>2. PICK y \in Seq(S) : y = <<m>>
  BY CatAppend
<1>3. Append(c, m) = Cat(c, y)
  BY <1>2, CatAppend
<1>4. PICK x \in Seq(S) : x = Cat(w, c)
  BY CatType
<1>5. Append(x, m) = Cat(x, y)
  BY <1>2, CatAppend
<1>6. Cat(Cat(w, c), y) = Cat(w, Cat(c, y))
  BY CatAssociative
<1> QED
  BY <1>1, <1>3, <1>4, <1>5, <1>6 DEF Row

\* The loop takes the first.
LEMMA RowTakes ==
  ASSUME NEW S, NEW a \in Seq(S), NEW b \in Seq(S), NEW c \in Seq(S), a # <<>>
  PROVE  Row(a, b, c) = Cat(<<Head(a)>>, Row(Tail(a), b, c))
<1>1. PICK h \in Seq(S) : h = <<Head(a)>> /\ a = Cat(h, Tail(a))
  BY CatHead
<1>2. PICK t \in Seq(S) : t = Tail(a)
  BY CatHead
<1>3. Cat(Cat(h, t), b) = Cat(h, Cat(t, b))
  BY CatAssociative
<1>4. PICK w \in Seq(S) : w = Cat(t, b)
  BY CatType
<1>5. Cat(Cat(h, w), c) = Cat(h, Cat(w, c))
  BY CatAssociative
<1> QED
  BY <1>1, <1>2, <1>3, <1>4, <1>5 DEF Row

LEMMA CollectRow ==
  ASSUME NEW S, NEW T, NEW g \in Parts(S, T),
         NEW a \in Seq(S), NEW b \in Seq(S), NEW c \in Seq(S)
  PROVE  Collect(g, Row(a, b, c)) = Row(Collect(g, a), Collect(g, b), Collect(g, c))
<1>1. Cat(a, b) \in Seq(S)
  BY CatType
<1>2. Collect(g, Cat(Cat(a, b), c)) = Cat(Collect(g, Cat(a, b)), Collect(g, c))
  BY <1>1, CollectCat
<1>3. Collect(g, Cat(a, b)) = Cat(Collect(g, a), Collect(g, b))
  BY CollectCat
<1> QED
  BY <1>2, <1>3 DEF Row

\* What g does not tell may go anywhere.
LEMMA CollectIgnores ==
  ASSUME NEW S, NEW T, NEW g \in Parts(S, T), NEW s \in Seq(S), NEW m \in S, g[m] = <<>>
  PROVE  Collect(g, Append(s, m)) = Collect(g, s)
<1>1. Collect(g, Append(s, m)) = Collect(g, s) \o g[m]
  BY CollectAppend
<1>2. PICK h \in Seq(T) : h = Collect(g, s)
  BY CollectType
<1>3. h \o <<>> = h
  BY ConcatEmptySeq
<1> QED
  BY <1>1, <1>2, <1>3

LEMMA RowIgnores ==
  ASSUME NEW S, NEW T, NEW g \in Parts(S, T), NEW m \in S, g[m] = <<>>,
         NEW a \in Seq(S), NEW b \in Seq(S), NEW c \in Seq(S)
  PROVE  /\ Collect(g, Row(Append(a, m), b, c)) = Collect(g, Row(a, b, c))
         /\ Collect(g, Row(a, Append(b, m), c)) = Collect(g, Row(a, b, c))
         /\ Collect(g, Row(a, b, Append(c, m))) = Collect(g, Row(a, b, c))
<1>1. PICK p \in Seq(S) : p = Append(a, m)
  BY AppendProperties
<1>2. PICK q \in Seq(S) : q = Append(b, m)
  BY AppendProperties
<1>3. PICK r \in Seq(S) : r = Append(c, m)
  BY AppendProperties
<1>4. /\ Collect(g, Append(a, m)) = Collect(g, a)
      /\ Collect(g, Append(b, m)) = Collect(g, b)
      /\ Collect(g, Append(c, m)) = Collect(g, c)
  BY CollectIgnores
<1>5. Collect(g, Row(a, b, c)) = Row(Collect(g, a), Collect(g, b), Collect(g, c))
  BY CollectRow
<1>6. Collect(g, Row(p, b, c)) = Row(Collect(g, p), Collect(g, b), Collect(g, c))
  BY CollectRow
<1>7. Collect(g, Row(a, q, c)) = Row(Collect(g, a), Collect(g, q), Collect(g, c))
  BY CollectRow
<1>8. Collect(g, Row(a, b, r)) = Row(Collect(g, a), Collect(g, b), Collect(g, r))
  BY CollectRow
<1> QED
  BY <1>1, <1>2, <1>3, <1>4, <1>5, <1>6, <1>7, <1>8

\* What is posted is told last.
LEMMA CollectPosts ==
  ASSUME NEW S, NEW T, NEW g \in Parts(S, T), NEW m \in S,
         NEW a \in Seq(S), NEW b \in Seq(S), NEW c \in Seq(S)
  PROVE  Collect(g, Row(a, b, Append(c, m))) = Collect(g, Row(a, b, c)) \o g[m]
<1>1. Row(a, b, Append(c, m)) = Append(Row(a, b, c), m)
  BY RowPosts
<1>2. PICK s \in Seq(S) : s = Row(a, b, c)
  BY RowType
<1>3. Collect(g, Append(s, m)) = Collect(g, s) \o g[m]
  BY CollectAppend
<1> QED
  BY <1>1, <1>2, <1>3

\* The same without \o, which the SMT solver would expand where this is cited.
LEMMA CollectsPosted ==
  ASSUME NEW S, NEW T, NEW g \in Parts(S, T), NEW m \in S,
         NEW a \in Seq(S), NEW b \in Seq(S), NEW c \in Seq(S)
  PROVE  Collect(g, Row(a, b, Append(c, m))) = Cat(Collect(g, Row(a, b, c)), g[m])
BY CollectPosts DEF Cat

LEMMA HeadOfQueue ==
  ASSUME NEW S, NEW e \in S, NEW q \in Seq(S)
  PROVE  <<e>> \o q # <<>> /\ Tail(<<e>> \o q) = q
<1>1. <<e>> \in Seq(S) /\ Len(<<e>>) = 1 /\ <<e>>[1] = e
  OBVIOUS
<1>2. PICK p \in Seq(S) : p = <<e>> /\ Len(p) = 1
  BY <1>1
<1>3. /\ p \o q \in Seq(S) /\ Len(p \o q) = 1 + Len(q) /\ Len(q) \in Nat
      /\ \A i \in 1 .. Len(q) : (p \o q)[i + 1] = q[i]
  BY <1>2, ConcatProperties, LenProperties
<1>4. p \o q # <<>>
  BY <1>3, EmptySeq
<1>5. /\ Tail(p \o q) \in Seq(S) /\ Len(Tail(p \o q)) = Len(q)
      /\ \A i \in 1 .. Len(q) : Tail(p \o q)[i] = (p \o q)[i + 1]
  BY <1>3, <1>4, HeadTailProperties
<1>6. Tail(p \o q) = q
  BY <1>3, <1>5, SeqEqual
<1> QED
  BY <1>2, <1>4, <1>6

LEMMA CollectRowHead ==
  ASSUME NEW S, NEW T, NEW g \in Parts(S, T),
         NEW a \in Seq(S), NEW b \in Seq(S), NEW c \in Seq(S), a # <<>>
  PROVE  Collect(g, Row(a, b, c)) = g[Head(a)] \o Collect(g, Row(Tail(a), b, c))
<1>1. PICK t \in Seq(S) : t = Tail(a)
  BY HeadTailProperties
<1>2. PICK r \in Seq(S) : r = Row(t, b, c)
  BY RowType
<1>3. PICK e \in S : e = Head(a)
  BY HeadTailProperties
<1>4. PICK h \in Seq(S) : h = <<e>>
  BY CatAppend
<1>5. Row(a, b, c) = Cat(h, r)
  BY <1>1, <1>2, <1>3, <1>4, RowTakes
<1>6. Collect(g, Cat(h, r)) = Cat(Collect(g, h), Collect(g, r))
  BY CollectCat
<1>7. Collect(g, h) = g[e]
  BY <1>4, CollectOne
<1> QED
  BY <1>1, <1>2, <1>3, <1>5, <1>6, <1>7 DEF Cat

\* The first of a queue is told as one message, or as none.
LEMMA CollectTakes ==
  ASSUME NEW S, NEW T, NEW g \in Parts(S, T),
         NEW a \in Seq(S), NEW b \in Seq(S), NEW c \in Seq(S), a # <<>>,
         g[Head(a)] = <<>> \/ \E x \in T : g[Head(a)] = <<x>>
  PROVE  \/ Collect(g, Row(Tail(a), b, c)) = Collect(g, Row(a, b, c))
         \/ /\ Collect(g, Row(a, b, c)) # <<>>
            /\ Collect(g, Row(Tail(a), b, c)) = Tail(Collect(g, Row(a, b, c)))
<1>1. Collect(g, Row(a, b, c)) = g[Head(a)] \o Collect(g, Row(Tail(a), b, c))
  BY CollectRowHead
<1>2. PICK t \in Seq(S) : t = Tail(a)
  BY HeadTailProperties
<1>3. PICK r \in Seq(S) : r = Row(t, b, c)
  BY RowType
<1>4. PICK q \in Seq(T) : q = Collect(g, r)
  BY CollectType
<1>5. CASE g[Head(a)] = <<>>
  <2>1. <<>> \o q = q
    BY ConcatEmptySeq
  <2> QED
    BY <1>1, <1>2, <1>3, <1>4, <1>5, <2>1
<1>6. ASSUME NEW x \in T, g[Head(a)] = <<x>>
      PROVE  /\ Collect(g, Row(a, b, c)) # <<>>
             /\ Collect(g, Row(Tail(a), b, c)) = Tail(Collect(g, Row(a, b, c)))
  <2>1. <<x>> \o q # <<>> /\ Tail(<<x>> \o q) = q
    BY HeadOfQueue
  <2> QED
    BY <1>1, <1>2, <1>3, <1>4, <1>6, <2>1
<1> QED
  BY <1>5, <1>6

\* A row that loses its newest elements.
LEMMA RowCutType ==
  ASSUME NEW S, NEW a \in Seq(S), NEW b \in Seq(S), NEW p \in Prefixes(b)
  PROVE  Row(a, p, <<>>) \in Seq(S)
<1>1. PICK q \in Seq(S) : q = p
  BY PrefixAndRest
<1>2. PICK e \in Seq(S) : e = <<>>
  BY EmptySeq
<1>3. Row(a, q, e) \in Seq(S)
  BY RowType
<1> QED
  BY <1>1, <1>2, <1>3

LEMMA RowCut ==
  ASSUME NEW S, NEW a \in Seq(S), NEW b \in Seq(S), NEW c \in Seq(S),
         NEW p \in Prefixes(b)
  PROVE  \E u \in Seq(S) : Row(a, b, c) = Cat(Row(a, p, <<>>), u)
<1>1. p \in Seq(S)
  BY PrefixAndRest
<1>2. PICK v \in Seq(S) : b = p \o v
  BY PrefixAndRest, ZenonT(60)
<1>3. PICK u \in Seq(S) : u = Cat(v, c)
  BY CatType
<1>4. PICK w \in Seq(S) : w = Cat(a, p)
  BY <1>1, CatType
<1>5. Cat(a, Cat(p, v)) = Cat(Cat(a, p), v)
  BY <1>1, CatAssociative
<1>6. Cat(Cat(w, v), c) = Cat(w, Cat(v, c))
  BY CatAssociative
<1>7. Row(a, p, <<>>) = w
  BY <1>4, ConcatEmptySeq DEF Row, Cat
<1>8. Row(a, b, c) = Cat(w, u)
  BY <1>2, <1>3, <1>4, <1>5, <1>6 DEF Row, Cat
<1> QED
  BY <1>7, <1>8

LEMMA EmptyIsPrefix ==
  ASSUME NEW S, NEW b \in Seq(S)
  PROVE  <<>> \in Prefixes(b) /\ b \in Prefixes(b)
<1>1. Len(b) \in Nat /\ 0 \in 0 .. Len(b) /\ Len(b) \in 0 .. Len(b)
  BY LenProperties
<1>2. SubSeq(b, 1, 0) = <<>> /\ SubSeq(b, 1, Len(b)) = b
  BY SubSeqEmpty, SubSeqFull
<1> QED
  BY <1>1, <1>2 DEF Prefixes

\* The newest messages of a queue are lost: what is left is a beginning of it.
LEMMA CollectCut ==
  ASSUME NEW S, NEW T, NEW g \in Parts(S, T), NEW t \in Seq(S), NEW u \in Seq(S)
  PROVE  \E k \in 0 .. Len(Collect(g, t \o u)) :
           Collect(g, t) = SubSeq(Collect(g, t \o u), 1, k)
<1>1. PICK x \in Seq(T) : x = Collect(g, t)
  BY CollectType
<1>2. PICK y \in Seq(T) : y = Collect(g, u)
  BY CollectType
<1>3. Collect(g, t \o u) = x \o y
  <2>1. Collect(g, t \o u) = Collect(g, t) \o Collect(g, u)
    BY CollectConcat
  <2> QED
    BY <1>1, <1>2, <2>1
<1>4. Len(x) \in 0 .. Len(x \o y) /\ SubSeq(x \o y, 1, Len(x)) = x
  BY CutOfConcat
<1> QED
  BY <1>1, <1>3, <1>4

\* Where a walk that starts at `at' has got to after the elements of s, one
\* after the other: an element e takes it from a to g[<<a, e>>].
Ways(X, S) == [X \X S -> X]
IsWalk(X, g, at, s, h) ==
  /\ h \in [0 .. Len(s) -> X] /\ h[0] = at
  /\ \A i \in 1 .. Len(s) : h[i] = g[<<h[i - 1], s[i]>>]
Walk(X, g, at, s) == (CHOOSE h : IsWalk(X, g, at, s, h))[Len(s)]

LEMMA WalkExists ==
  ASSUME NEW X, NEW S, NEW g \in Ways(X, S), NEW at \in X, NEW s \in Seq(S)
  PROVE  \E h : IsWalk(X, g, at, s, h) /\ Walk(X, g, at, s) = h[Len(s)]
<1>n. PICK n \in Nat : n = Len(s)
  BY LenProperties
<1>1. \A i \in 1 .. n : s[i] \in S
  BY <1>n, ElementOfSeq
<1> DEFINE G == [p \in X \X (1 .. n) |-> g[<<p[1], s[p[2]]>>]]
<1>2. G \in Steps(X, n)
  BY <1>1 DEF Steps, Ways
<1> HIDE DEF G
<1>3. PICK h : IsPath(X, n, at, G, h)
  BY <1>2, PathExists
<1>4. h \in [0 .. n -> X] /\ h[0] = at /\ \A i \in 1 .. n : h[i] = G[<<h[i - 1], i>>]
  BY <1>3 DEF IsPath
<1>5. ASSUME NEW i \in 1 .. n PROVE h[i] = g[<<h[i - 1], s[i]>>]
  <2>1. i - 1 \in 0 .. n
    OBVIOUS
  <2>2. h[i - 1] \in X
    BY <1>4, <2>1
  <2> QED
    BY <1>4, <2>2 DEF G
<1>6. IsWalk(X, g, at, s, h)
  BY <1>n, <1>4, <1>5 DEF IsWalk
<1>7. IsWalk(X, g, at, s, CHOOSE k : IsWalk(X, g, at, s, k))
  BY <1>6
<1> QED
  BY <1>7 DEF Walk

\* There is only one.
LEMMA WalkIs ==
  ASSUME NEW X, NEW S, NEW g \in Ways(X, S), NEW at \in X, NEW s \in Seq(S),
         NEW h, IsWalk(X, g, at, s, h)
  PROVE  Walk(X, g, at, s) = h[Len(s)]
<1>n. PICK n \in Nat : n = Len(s)
  BY LenProperties
<1>1. PICK k : IsWalk(X, g, at, s, k) /\ Walk(X, g, at, s) = k[Len(s)]
  BY WalkExists
<1> DEFINE P == {i \in 0 .. n : k[i] = h[i]}
<1>2. 0 \in P
  BY <1>1 DEF IsWalk
<1>3. ASSUME NEW i \in 1 .. n, i - 1 \in P PROVE i \in P
  <2>1. k[i - 1] = h[i - 1]
    BY <1>3
  <2>2. k[i] = g[<<k[i - 1], s[i]>>] /\ h[i] = g[<<h[i - 1], s[i]>>]
    BY <1>n, <1>1 DEF IsWalk
  <2> QED
    BY <2>1, <2>2
<1>4. \A i \in 1 .. n : i - 1 \in P => i \in P
  BY <1>3
<1> HIDE DEF P
<1>5. \A i \in 0 .. n : i \in P
  BY <1>2, <1>4, InductionTo
<1>6. n \in P
  BY <1>5
<1> QED
  BY <1>n, <1>1, <1>6 DEF P

LEMMA WalkType ==
  ASSUME NEW X, NEW S, NEW g \in Ways(X, S), NEW at \in X, NEW s \in Seq(S)
  PROVE  Walk(X, g, at, s) \in X
<1>1. PICK h : IsWalk(X, g, at, s, h) /\ Walk(X, g, at, s) = h[Len(s)]
  BY WalkExists
<1>2. Len(s) \in 0 .. Len(s)
  BY LenProperties
<1> QED
  BY <1>1, <1>2 DEF IsWalk

LEMMA WalkNowhere ==
  ASSUME NEW X, NEW S, NEW g \in Ways(X, S), NEW at \in X
  PROVE  Walk(X, g, at, <<>>) = at
<1>1. PICK s \in Seq(S) : s = <<>>
  BY EmptySeq
<1>2. PICK h : IsWalk(X, g, at, s, h) /\ Walk(X, g, at, s) = h[Len(s)]
  BY WalkExists
<1>3. Len(s) = 0
  BY <1>1, EmptySeq
<1>4. h[0] = at
  BY <1>2 DEF IsWalk
<1>5. Walk(X, g, at, s) = at
  BY <1>2, <1>3, <1>4
<1> QED
  BY <1>1, <1>5

LEMMA WalkOne ==
  ASSUME NEW X, NEW S, NEW g \in Ways(X, S), NEW at \in X, NEW e \in S
  PROVE  Walk(X, g, at, <<e>>) = g[<<at, e>>]
<1>1. <<e>> \in Seq(S) /\ Len(<<e>>) = 1 /\ <<e>>[1] = e
  OBVIOUS
<1>2. PICK s \in Seq(S) : s = <<e>>
  BY <1>1
<1>3. PICK h : IsWalk(X, g, at, s, h) /\ Walk(X, g, at, s) = h[Len(s)]
  BY WalkExists
<1>4. Len(s) = 1 /\ s[1] = e /\ 1 \in 1 .. Len(s) /\ 1 - 1 = 0
  BY <1>1, <1>2
<1>5. h[0] = at /\ h[1] = g[<<h[1 - 1], s[1]>>]
  BY <1>3, <1>4 DEF IsWalk
<1> QED
  BY <1>2, <1>3, <1>4, <1>5

\* One queue behind another.
LEMMA WalkOn ==
  ASSUME NEW X, NEW S, NEW g \in Ways(X, S), NEW at \in X, NEW s \in Seq(S), NEW t \in Seq(S)
  PROVE  Walk(X, g, at, s \o t) = Walk(X, g, Walk(X, g, at, s), t)
<1>1. PICK m \in Nat : m = Len(s)
  BY LenProperties
<1>2. PICK n \in Nat : n = Len(t)
  BY LenProperties
<1>a. PICK h : IsWalk(X, g, at, s, h) /\ Walk(X, g, at, s) = h[Len(s)]
  BY WalkExists
<1>b. PICK mid \in X : mid = Walk(X, g, at, s)
  BY WalkType
<1>c. PICK k : IsWalk(X, g, mid, t, k) /\ Walk(X, g, mid, t) = k[Len(t)]
  BY WalkExists
<1>3. h \in [0 .. m -> X] /\ h[0] = at /\ \A i \in 1 .. m : h[i] = g[<<h[i - 1], s[i]>>]
  BY <1>1, <1>a DEF IsWalk
<1>4. k \in [0 .. n -> X] /\ k[0] = h[m] /\ \A i \in 1 .. n : k[i] = g[<<k[i - 1], t[i]>>]
  BY <1>1, <1>2, <1>a, <1>b, <1>c DEF IsWalk
<1>6. PICK w \in Seq(S) : w = s \o t
  BY ConcatProperties
<1>7. /\ Len(w) = m + n
      /\ \A i \in 1 .. m : w[i] = s[i]
      /\ \A i \in 1 .. n : w[m + i] = t[i]
  BY <1>1, <1>2, <1>6, ConcatProperties
<1> DEFINE both == [i \in 0 .. m + n |-> IF i <= m THEN h[i] ELSE k[i - m]]
<1>e. both \in [0 .. m + n -> X]
  BY <1>3, <1>4
<1>8. \A i \in 0 .. m : both[i] = h[i]
  OBVIOUS
<1>9. ASSUME NEW i \in 0 .. n PROVE both[m + i] = k[i]
  <2>1. CASE i = 0
    BY <1>4, <2>1
  <2>2. CASE i # 0
    BY <2>2
  <2> QED
    BY <2>1, <2>2
<1> HIDE DEF both
<1>10. ASSUME NEW i \in 1 .. m + n PROVE both[i] = g[<<both[i - 1], w[i]>>]
  <2>1. CASE i <= m
    <3>1. i \in 1 .. m /\ i \in 0 .. m /\ i - 1 \in 0 .. m
      BY <2>1
    <3> QED
      BY <1>3, <1>7, <1>8, <3>1
  <2>2. CASE i > m
    <3>1. PICK j \in 1 .. n : i = m + j
      <4>1. i - m \in 1 .. n /\ i = m + (i - m)
        BY <2>2
      <4> QED
        BY <4>1
    <3>2. j \in 0 .. n /\ j - 1 \in 0 .. n /\ i - 1 = m + (j - 1)
      BY <3>1
    <3>3. both[i] = k[j] /\ both[i - 1] = k[j - 1] /\ w[i] = t[j]
      BY <1>7, <1>9, <3>1, <3>2
    <3> QED
      BY <1>4, <3>3
  <2>3. i <= m \/ i > m
    OBVIOUS
  <2> QED
    BY <2>1, <2>2, <2>3
<1>11. both[0] = at /\ both[m + n] = k[n]
  <2>1. 0 \in 0 .. m /\ n \in 0 .. n
    OBVIOUS
  <2> QED
    BY <1>3, <1>8, <1>9, <2>1
<1>12. IsWalk(X, g, at, w, both)
  BY <1>7, <1>10, <1>11, <1>e DEF IsWalk
<1>13. Walk(X, g, at, w) = both[Len(w)]
  BY <1>12, WalkIs
<1> QED
  BY <1>2, <1>6, <1>7, <1>11, <1>13, <1>b, <1>c

LEMMA WalkAppend ==
  ASSUME NEW X, NEW S, NEW g \in Ways(X, S), NEW at \in X, NEW s \in Seq(S), NEW e \in S
  PROVE  Walk(X, g, at, Append(s, e)) = g[<<Walk(X, g, at, s), e>>]
<1>0. <<e>> \in Seq(S)
  OBVIOUS
<1>1. PICK t \in Seq(S) : t = <<e>>
  BY <1>0
<1>2. PICK mid \in X : mid = Walk(X, g, at, s)
  BY WalkType
<1>3. PICK w : w = Append(s, e)
  OBVIOUS
<1>4. w = s \o t
  BY <1>1, <1>3, AppendIsConcat
<1>5. Walk(X, g, mid, t) = g[<<mid, e>>]
  BY <1>1, WalkOne
<1>6. Walk(X, g, at, s \o t) = Walk(X, g, mid, t)
  BY <1>2, WalkOn
<1>7. Walk(X, g, at, w) = g[<<mid, e>>]
  BY <1>4, <1>5, <1>6
<1> QED
  BY <1>2, <1>3, <1>7

LEMMA WalkHead ==
  ASSUME NEW X, NEW S, NEW g \in Ways(X, S), NEW at \in X, NEW s \in Seq(S), s # <<>>
  PROVE  Walk(X, g, at, s) = Walk(X, g, g[<<at, Head(s)>>], Tail(s))
<1>1. s = <<Head(s)>> \o Tail(s)
  BY HeadThenTail
<1>2. PICK e \in S : e = Head(s)
  BY HeadTailProperties
<1>3. PICK t \in Seq(S) : t = Tail(s)
  BY HeadTailProperties
<1>0. <<e>> \in Seq(S)
  OBVIOUS
<1>4. PICK one \in Seq(S) : one = <<e>>
  BY <1>0
<1>5. Walk(X, g, at, one \o t) = Walk(X, g, Walk(X, g, at, one), t)
  BY WalkOn
<1>6. PICK mid : mid = g[<<at, e>>]
  OBVIOUS
<1>7. Walk(X, g, at, one) = mid
  BY <1>4, <1>6, WalkOne
<1>8. s = one \o t
  BY <1>1, <1>2, <1>3, <1>4
<1>9. Walk(X, g, at, s) = Walk(X, g, mid, t)
  BY <1>5, <1>7, <1>8
<1> QED
  BY <1>2, <1>3, <1>6, <1>9

\* A function to the integers is greatest somewhere on a finite set.
LEMMA GreatestExists ==
  ASSUME NEW S, IsFiniteSet(S), S # {}, NEW f \in [S -> Int]
  PROVE  \E s \in S : \A t \in S : f[t] <= f[s]
<1> DEFINE HasBest(T) == \E s \in T : \A t \in T : f[t] <= f[s]
           Bad == {T \in SUBSET S : T # {} /\ ~HasBest(T)}
<1> SUFFICES ASSUME Bad # {} PROVE FALSE
  <2>1. S \notin Bad => HasBest(S)
    OBVIOUS
  <2> QED
    BY <2>1
<1>1. Bad \subseteq FiniteSubsetsOf(S)
  <2>1. \A T \in SUBSET S : IsFiniteSet(T)
    BY FS_Subset
  <2> QED
    BY <2>1 DEF FiniteSubsetsOf
<1>2. IsWellFoundedOn(StrictSubsetOrdering(S), FiniteSubsetsOf(S))
  BY FS_StrictSubsetOrderingWellFounded
<1>3. PICK T \in Bad : \A U \in Bad : <<U, T>> \notin StrictSubsetOrdering(S)
  <2> HIDE DEF Bad
  <2> QED
    BY <1>1, <1>2, WFMin
<1>4. PICK x \in T : TRUE
  BY <1>3
<1> DEFINE U == T \ {x}
<1>5. U \notin Bad
  <2> SUFFICES ASSUME U \in Bad PROVE FALSE
    OBVIOUS
  <2>1. U \in FiniteSubsetsOf(S) /\ T \in FiniteSubsetsOf(S)
    BY <1>1, <1>3
  <2>2. <<U, T>> \in StrictSubsetOrdering(S)
    BY <1>4, <2>1 DEF StrictSubsetOrdering, FiniteSubsetsOf
  <2> QED
    BY <1>3, <2>2
<1>6. T \subseteq S /\ ~HasBest(T)
  BY <1>3
<1>7. CASE U = {}
  <2>1. \A t \in T : t = x
    BY <1>7
  <2>2. f[x] \in Int
    BY <1>6
  <2>3. HasBest(T)
    BY <1>4, <2>1, <2>2
  <2> QED
    BY <1>6, <2>3
<1>8. CASE U # {}
  <2>1. HasBest(U)
    BY <1>5, <1>6, <1>8
  <2>2. PICK m \in U : \A t \in U : f[t] <= f[m]
    BY <2>1
  <2>3. \A t \in T : t = x \/ t \in U
    OBVIOUS
  <2>4. f[m] \in Int /\ f[x] \in Int /\ m \in T
    BY <1>6
  <2>5. \A t \in T : f[t] \in Int
    BY <1>6
  <2>6. CASE f[x] <= f[m]
    <3>1. \A t \in T : f[t] <= f[m]
      BY <2>2, <2>3, <2>6
    <3> QED
      BY <1>6, <2>4, <3>1
  <2>7. CASE ~(f[x] <= f[m])
    <3>1. \A t \in U : f[t] <= f[x]
      BY <2>2, <2>4, <2>5, <2>7
    <3>2. \A t \in T : f[t] <= f[x]
      BY <2>3, <2>4, <3>1
    <3> QED
      BY <1>4, <1>6, <3>2
  <2> QED
    BY <2>6, <2>7
<1> QED
  BY <1>7, <1>8

=============================================================================

------------------------------ MODULE Geometry ------------------------------
(***************************************************************************)
(* The two screens and the shared edge: src/geometry.rs.                   *)
(*                                                                         *)
(* A geometry is a value, as the Rust struct is: every operator takes it   *)
(* as its first argument.  Coordinates are whole pixels: the position the  *)
(* OS reports and the displacements of the capture are integers carried in *)
(* an f64, far below the 2^53 where an f64 stops being exact.              *)
(***************************************************************************)
EXTENDS Integers

CONSTANT NaN    \* the f64 that is not a number, the result of 0.0 / 0.0

ASSUME NaNAssumption == NaN \notin Int

\* A u16 dimension that Config::validate lets through: it rejects only 0.
U16Max == 65535
Dim == 1 .. U16Max

ScreenSize == [width : Dim, height : Dim]

Side == {"Right", "Left"}

Geometries == [local : ScreenSize, peer : ScreenSize, side : Side]

-----------------------------------------------------------------------------

\* dim.saturating_sub(1)
LastIndex(dim) == IF dim = 0 THEN 0 ELSE dim - 1

QuotientDown(n, d) == n \div d    \* mutant: `as` truncates

\* (n / d).round() for n >= 0: halves go away from zero.
RoundedQuotient(n, d) == (2 * n + d) \div (2 * d)

\* mutant: the heights for their last indices
MapYByHeights(y, fromH, toH) ==
  IF y = NaN THEN NaN ELSE RoundedQuotient(y * toH, fromH)

\* mutant: the same height if there is one
MapYUnscaled(y, fromH, toH) ==
  IF y # NaN /\ y > LastIndex(toH) THEN LastIndex(toH) ELSE y

\* A screen one pixel high divides 0.0 by 0.0; NaN absorbs the arithmetic.
MapY(y, fromH, toH) ==
  IF fromH = 0 \/ toH = 0 THEN 0
  ELSE IF y = NaN \/ LastIndex(fromH) = 0 THEN NaN
  ELSE RoundedQuotient(y * LastIndex(toH), LastIndex(fromH))

EntryX(g) == IF g.side = "Right" THEN 0 ELSE LastIndex(g.peer.width)

\* mutant: the first column outside the screen
BackXOutside(g) == IF g.side = "Right" THEN g.local.width ELSE 0
BackX(g) == IF g.side = "Right" THEN LastIndex(g.local.width) ELSE 0

MapOutY(g, y) == MapY(y, g.local.height, g.peer.height)

MapBackY(g, y) == MapY(y, g.peer.height, g.local.height)

\* The edge AND the direction: touching the edge is not enough.
IsExitingLocal(g, x, dx) ==
  \/ g.side = "Right" /\ x >= LastIndex(g.local.width) /\ dx > 0
  \/ g.side = "Left"  /\ x <= 0 /\ dx < 0

IsReenteringAtZero(g, virtX, dx) == virtX <= 0 /\ dx < 0    \* mutant: one side only
IsReentering(g, virtX, dx) ==
  \/ g.side = "Right" /\ virtX <= 0 /\ dx < 0
  \/ g.side = "Left"  /\ virtX >= LastIndex(g.peer.width) /\ dx > 0

-----------------------------------------------------------------------------
\* What the OS backends make of an f64 (`as i32`, saturating): NaN is 0.
AsPixel(c) == IF c = NaN THEN 0 ELSE c

\* The pixels of one row or column of n pixels.
Pixels(n) == 0 .. LastIndex(n)
=============================================================================

------------------------------ MODULE Crossing ------------------------------
(***************************************************************************)
(* Repeated round trips over the shared edge with no vertical movement of  *)
(* the mouse: what the two proportional mappings of src/geometry.rs do to  *)
(* the height of the pointer.                                              *)
(*                                                                         *)
(* Every crossing parks the pointer of the controller: on the way out at   *)
(* the mapped-back height of the entry point, on the way back at the       *)
(* mapped-back height of the virtual pointer.                              *)
(***************************************************************************)
EXTENDS Geometry

CONSTANT Screens    \* the geometries to try, a set of elements of Geometries

ASSUME ScreensAssumption == Screens \subseteq Geometries

VARIABLES
  g,        \* the geometry of the configuration; never changes
  y,        \* height of the pointer on the controller's screen
  virtY,    \* height of the virtual pointer on the client's screen
  remote,   \* is the focus on the client?
  y0,       \* height of the pointer when the run started
  settled   \* has a crossing already happened?

vars == <<g, y, virtY, remote, y0, settled>>

Init ==
  /\ g \in Screens
  /\ y0 \in Pixels(g.local.height)
  /\ y = y0
  /\ virtY = 0
  /\ remote = FALSE
  /\ settled = FALSE

\* Local -> Remote: virt_y = map_out_y(y), then park at map_back_y(virt_y).
Leave ==
  /\ ~remote
  /\ remote' = TRUE
  /\ virtY' = MapOutY(g, y)
  /\ y' = AsPixel(MapBackY(g, virtY'))
  /\ settled' = TRUE
  /\ UNCHANGED <<g, y0>>

\* Remote -> Local: park at map_back_y(virt_y), virt_y = 0.
Return ==
  /\ remote
  /\ remote' = FALSE
  /\ y' = AsPixel(MapBackY(g, virtY))
  /\ virtY' = 0
  /\ UNCHANGED <<g, y0, settled>>

Next == Leave \/ Return

Spec == Init /\ [][Next]_vars

-----------------------------------------------------------------------------

\* Both pointers stay on their screens; a client pointer of unknown height
\* (NaN) occurs only when the controller's screen is one pixel high.
TypeOK ==
  /\ g \in Screens
  /\ y \in Pixels(g.local.height) /\ y0 \in Pixels(g.local.height)
  /\ remote \in BOOLEAN /\ settled \in BOOLEAN
  /\ virtY \in Pixels(g.peer.height) \cup {NaN}
  /\ virtY = NaN => g.local.height = 1

\* docs/ACCEPTANCE.md:18, repeated round trips do not drift: the rounding of
\* the first crossing is the last one, however many crossings follow.
NoDrift == [][settled => y' = y]_vars

\* A client screen at least as high as the controller's loses nothing: the
\* pointer comes back to the very pixel it left from (docs/ACCEPTANCE.md:13).
ExactReturn == g.local.height <= g.peer.height => y = y0

\* The rounding of a smaller client screen moves the pointer by at most half
\* a client pixel, measured in controller pixels, and half a pixel for the
\* second rounding: a proportional mapping and not merely a monotone one.
NearReturn ==
  g.peer.height > 1 =>
    2 * (g.peer.height - 1) * (IF y >= y0 THEN y - y0 ELSE y0 - y)
      <= (g.local.height - 1) + (g.peer.height - 1)
=============================================================================

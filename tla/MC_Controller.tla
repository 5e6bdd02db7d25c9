--------------------------- MODULE MC_Controller ---------------------------
EXTENDS Controller

CONSTANTS Ctrl, F10, Left, Text    \* model values

\* The client's screen is higher than the controller's and two pixels wide:
\* the virtual pointer can overshoot the far edge and come back.
MCRight ==
  [local |-> [width |-> 2, height |-> 2],
   peer  |-> [width |-> 2, height |-> 3], side |-> "Right"]

MCDeltas == (-1 .. 1) \X (-1 .. 1)

MCSize == [c \in Contents |-> 1]
=============================================================================

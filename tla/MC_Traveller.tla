---------------------------- MODULE MC_Traveller ----------------------------
EXTENDS Traveller

CONSTANTS T1, T2    \* model values

\* Ctrl+F10, as ParseEmergencyCombo has it
MCCombo == {44, 59}

\* Two pixels wide, so that the virtual pointer can overshoot the far edge.
MCRight ==
  [local |-> [width |-> 1, height |-> 2],
   peer  |-> [width |-> 2, height |-> 2], side |-> "Right"]

\* One line, so that what matters is when things happen and not where.
MCLeft ==
  [local |-> [width |-> 1, height |-> 1],
   peer  |-> [width |-> 1, height |-> 1], side |-> "Left"]

\* One pixel at a time, in both directions of both axes.
MCSteps == {<<1, 0>>, <<-1, 1>>, <<0, -1>>}

MCSize == [c \in Contents |-> 1]
=============================================================================

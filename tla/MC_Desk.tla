------------------------------ MODULE MC_Desk -------------------------------
EXTENDS Desk

\* Heights differ, and a park moves the pointer in both directions.
MCRight ==
  [local |-> [width |-> 2, height |-> 2],
   peer  |-> [width |-> 2, height |-> 3], side |-> "Right"]

\* The hand goes out, in and down, and up: each direction of each axis.
MCSteps == {<<1, 0>>, <<-1, 1>>, <<0, -1>>}

\* Twice as long where the OS told of a position out of the screen, and what a
\* park taken for a movement would add.
MCDeltas == (-3 .. 3) \X (-3 .. 3)

MCKeys == {CodeOfKey(k) : k \in HandKeys}

\* ctrl+f10
MCCombo == {Code(c) : c \in ParseEmergencyCombo(<<Word("ctrl"), Function(10)>>)}

MCSize == [c \in Contents |-> 1]
=============================================================================

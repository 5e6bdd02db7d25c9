---------------------------- MODULE MC_Crossing ----------------------------
EXTENDS Crossing

\* Every pair of heights up to this bound, the one-pixel screens included.
MaxHeight == 9

MCScreens ==
  {[local |-> [width |-> 1, height |-> lh],
    peer  |-> [width |-> 1, height |-> ph], side |-> "Right"] :
      lh \in 1 .. MaxHeight, ph \in 1 .. MaxHeight}
=============================================================================

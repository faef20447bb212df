------------------------------- MODULE MCGame -------------------------------
(* Instances of Game for TLC.                                              *)
EXTENDS GameProperties, TLC

CONSTANTS l1, l2

MCNames2 == 1 .. 2
MCNames3 == 1 .. 3
MCDirections == {0, 1}
MCLoop1 == {l1}
MCSeeds == {1}
MCLoops == {l1, l2}
LoopSymmetry == Permutations(MCLoops)
=============================================================================

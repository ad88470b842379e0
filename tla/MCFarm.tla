-------------------------------- MODULE MCFarm --------------------------------
(* Farm: two legs, two contents, one failure.                              *)
EXTENDS Farm, TLC
Symmetry == Permutations(Rids) \cup Permutations(Contents)
=============================================================================

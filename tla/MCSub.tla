-------------------------------- MODULE MCSub --------------------------------
(* Sub, with its history, on a chain with two possible blocks per parent. *)
EXTENDS SubHistory, TLC

CONSTANTS left, right

MCBranches == {left, right}
MCSymmetry == Permutations(MCBranches)
=============================================================================

-------------------------- MODULE MCDynamicBatcher --------------------------
(* Small instances of DynamicBatcher for TLC.                              *)
EXTENDS DynamicBatcher, TLC

CallSymmetry == Permutations(Items)
=============================================================================

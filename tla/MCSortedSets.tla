---------------------------- MODULE MCSortedSets ----------------------------
(***************************************************************************)
(* SortedSets with two keys.                                               *)
(***************************************************************************)
EXTENDS SortedSets, TLC

KeySymmetry == Permutations(Keys)
=============================================================================

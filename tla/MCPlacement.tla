---------------------------- MODULE MCPlacement ----------------------------
(***************************************************************************)
(* Placement with a small pool.                                            *)
(***************************************************************************)
EXTENDS Placement, TLC

CONSTANTS r1, r2, i1, i2, i3

PlacementSymmetry == Permutations({r1, r2}) \cup Permutations(Items)
============================================================================

----------------------------- MODULE MCAttempts -----------------------------
(***************************************************************************)
(* Attempts on small tables, and its refinement of ReviewLedger when the   *)
(* requests of a pair do not overlap.                                      *)
(***************************************************************************)
EXTENDS AttemptsLedger, TLC

CONSTANTS r1, r2

RequestSymmetry == Permutations({r1, r2})
=============================================================================

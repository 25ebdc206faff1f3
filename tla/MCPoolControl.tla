---------------------------- MODULE MCPoolControl ----------------------------
(* Small instances of PoolControl.                                           *)
EXTENDS PoolControl, TLC

\* The pools are interchangeable (no liveness property is checked with it).
PoolSymmetry == Permutations(Pool)
=============================================================================

-------------------------- MODULE MCPoolConnection --------------------------
(* Two or three pools, in order of priority.                                *)
EXTENDS PoolConnection

Order == [p \in Pool |-> p]
=============================================================================

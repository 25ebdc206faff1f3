--------------------------- MODULE MCStratumShares ---------------------------
(* Small instances of StratumShares.                                         *)
EXTENDS StratumShares, TLC

CONSTANTS p1, p2, s1, s2, r1, r2

\* One pool for each share, and for each request.
OnePoolEach == [m \in Message |-> IF m \in {s1, r1} THEN p1 ELSE p2]
Distinct    == [s \in Share |-> s]

\* Pools can be exchanged together with their shares and requests, and ids.
PoolSymmetry ==
    {f \in Permutations(Pool \cup Message \cup Id) :
        /\ \A i \in Id : f[i] \in Id
        /\ \A s \in Share : f[s] \in Share
        /\ \A m \in Message : f[m] \in Message /\ f[PoolOf[m]] = PoolOf[f[m]]}

\* All of one pool.
OnePool     == [m \in Message |-> p1]
=============================================================================

------------------------------- MODULE RWLock -------------------------------
(***************************************************************************)
(* What a cglock promises to the threads that use it (cgminer.h): a        *)
(* readers/writer lock whose write hold can be exchanged for a read hold   *)
(* in one indivisible step, with no other writer in between.               *)
(***************************************************************************)
CONSTANT Thread

VARIABLE mode       \* mode[t]: the hold thread t has on the lock

Mode == {"none", "read", "write"}

TypeOK == mode \in [Thread -> Mode]

Init == mode = [t \in Thread |-> "none"]

AcquireRead(t) ==
    /\ mode[t] = "none"
    /\ \A u \in Thread : mode[u] # "write"
    /\ mode' = [mode EXCEPT ![t] = "read"]

AcquireWrite(t) ==
    /\ \A u \in Thread : mode[u] = "none"
    /\ mode' = [mode EXCEPT ![t] = "write"]

Downgrade(t) ==
    /\ mode[t] = "write"
    /\ mode' = [mode EXCEPT ![t] = "read"]

Release(t) ==
    /\ mode[t] # "none"
    /\ mode' = [mode EXCEPT ![t] = "none"]

Next == \E t \in Thread : \/ AcquireRead(t)
                          \/ AcquireWrite(t)
                          \/ Downgrade(t)
                          \/ Release(t)

Spec == Init /\ [][Next]_mode
=============================================================================

------------------------------- MODULE WorkCycle -------------------------------
(***************************************************************************)
(* What the program promises of the works it stages: each goes round one   *)
(* cycle.  It is made, one at a time; staged, if no more than max_queue    *)
(* are; taken from the queue once; and freed by whoever has taken it.      *)
(* Only what is in the queue can be discarded by others.                   *)
(***************************************************************************)
EXTENDS Naturals, FiniteSets

CONSTANTS Work, MaxQueue

VARIABLE place      \* place[w]: where in the cycle work w is

At(p) == {w \in Work : place[w] = p}

Init == place = [w \in Work |-> "free"]

Move(w, from, to) == place[w] = from /\ place' = [place EXCEPT ![w] = to]

Make(w) == At("made") = {} /\ Move(w, "free", "made")

Stage(w) == Cardinality(At("staged")) <= MaxQueue /\ Move(w, "made", "staged")

Take(w) == Move(w, "staged", "taken")

Use(w) == Move(w, "taken", "free")

Discard(ws) == place' = [w \in Work |-> IF w \in ws THEN "free" ELSE place[w]]

Next ==
    \/ \E w \in Work : Make(w) \/ Stage(w) \/ Take(w) \/ Use(w)
    \/ \E ws \in SUBSET At("staged") : Discard(ws)

Spec == Init /\ [][Next]_place
=============================================================================

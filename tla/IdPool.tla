------------------------------- MODULE IdPool -------------------------------
(* What the id generator promises its callers: an id is in the hands of     *)
(* one caller or left in the pool; one that is left can be had, and comes   *)
(* back when its caller gives it back.                                      *)
CONSTANT Ids

VARIABLES
    held,  \* the ids in the hands of callers
    left   \* the ids that can be had

vars == <<held, left>>

Init == held = {} /\ left = Ids

Take(id) == id \in left /\ held' = held \cup {id} /\ left' = left \ {id}

Give(id) == id \in held /\ held' = held \ {id} /\ left' = left \cup {id}

Next == \E id \in Ids : Take(id) \/ Give(id)

Spec == Init /\ [][Next]_vars
=============================================================================

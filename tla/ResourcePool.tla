---------------------------- MODULE ResourcePool ----------------------------
(***************************************************************************)
(* What a pool of interchangeable resources promises its users: a resource *)
(* that is free is taken by one user at a time, who gives it back.         *)
(***************************************************************************)
CONSTANTS User, Resource

VARIABLES
    free,   \* the resources nobody has
    held    \* the resources each user has: none or one

TypeOK == free \in SUBSET Resource /\ held \in [User -> SUBSET Resource]

Init == free = Resource /\ held = [u \in User |-> {}]

Take(u) ==
    /\ held[u] = {}
    /\ \E r \in free :
        /\ free' = free \ {r}
        /\ held' = [held EXCEPT ![u] = {r}]

Give(u) ==
    /\ held[u] # {}
    /\ free' = free \cup held[u]
    /\ held' = [held EXCEPT ![u] = {}]

Next == \E u \in User : Take(u) \/ Give(u)

Spec == Init /\ [][Next]_<<free, held>>
=============================================================================

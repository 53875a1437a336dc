----------------------------- MODULE ObjectPool -----------------------------
(***************************************************************************)
(* What the memory pools promise: each is created with objects of its own  *)
(* which from then on are free or in use, and an allocation fails only     *)
(* when none is free.                                                      *)
(***************************************************************************)
EXTENDS Naturals, Sequences

CONSTANT NULL

VARIABLES
    objects,    \* the objects of every pool
    free,       \* those that can be allocated
    result      \* what the last allocation returned

vars == <<objects, free, result>>

Init == objects = << >> /\ free = << >> /\ result = NULL

Create ==
    LET p == Len(objects) + 1
    IN  /\ DOMAIN objects' = 1 .. p
        /\ objects'[p] # {}
        /\ \A q \in DOMAIN objects :
               objects'[q] = objects[q] /\ objects'[p] \cap objects[q] = {}
        /\ free' = Append(free, objects'[p])
        /\ UNCHANGED result

Alloc(p) ==
    /\ \/ result' \in free[p] /\ free' = [free EXCEPT ![p] = @ \ {result'}]
       \/ result' = NULL /\ free[p] = {} /\ UNCHANGED free
    /\ UNCHANGED objects

Free(p, o) ==
    /\ UNCHANGED result
    /\ free' = [free EXCEPT ![p] = @ \cup {o}]
    /\ UNCHANGED objects

Next ==
    \/ Create
    \/ \E p \in DOMAIN objects :
        Alloc(p) \/ \E o \in objects[p] \ free[p] : Free(p, o)

Spec == Init /\ [][Next]_vars
=============================================================================

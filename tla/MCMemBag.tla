------------------------------ MODULE MCMemBag ------------------------------
(* Two bags, sorted by size as in the applications: three blocks of four   *)
(* bytes and two of eight, in a pool that ends unaligned.                  *)
EXTENDS MemBag

MCKinds == <<[objsize |-> 4, nr_objects |-> 3, align_order |-> 2],
             [objsize |-> 7, nr_objects |-> 2, align_order |-> 2]>>
MCAsked == {2, 4, 5, 8}
MCInvalid == {0, 60}
MCWritten == {20}

ASSUME MCNoOverflow == NoOverflow
=============================================================================

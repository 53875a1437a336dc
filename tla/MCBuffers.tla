----------------------------- MODULE MCBuffers -----------------------------
(* A large and a small DMA object and two buffer structs, in an            *)
(* unaligned stretch of a 6 bit address space that they and malloc can     *)
(* exhaust.                                                                *)
EXTENDS Buffers

MCKinds == <<[nr_objects |-> 1, objsize |-> 7, align_order |-> 2],
             [nr_objects |-> 1, objsize |-> 4, align_order |-> 2],
             [nr_objects |-> 2, objsize |-> 3, align_order |-> 1]>>
MCMallocSize == {4, 9}
MCWritten == {24}
MCSize == {4, 5, 9}

ASSUME MCPools == NoOverflow /\ ThreePools
=============================================================================

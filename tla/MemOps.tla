------------------------------- MODULE MemOps -------------------------------
(***************************************************************************)
(* The allocators of util/physmem.c and util/mempool.c as operators on     *)
(* addresses of AddrBits bits.  A physmem pool is the record of its bounds *)
(* [start, end); mem is the pointer at every address, which in a free      *)
(* object is the link of its pool's free list.                             *)
(***************************************************************************)
EXTENDS Naturals, FiniteSets

CONSTANTS
    AddrBits,   \* width of phys_addr_t
    NULL

\* The second conjunct is arithmetic: proofs know no powers.
ASSUME MemOpsAssumption ==
    /\ AddrBits \in Nat \ {0}
    /\ \A n \in 0 .. AddrBits : 2 ^ n \in Nat \ {0}
    /\ NULL \notin 0 .. (2 ^ AddrBits) - 1

Addr == 0 .. (2 ^ AddrBits) - 1

\* Unsigned arithmetic wraps.
Wrap(x) == x % (2 ^ AddrBits)

Minus(x, y) == Wrap((2 ^ AddrBits + x) - y)

Aligned(x, order) == x % (2 ^ order) = 0

round_down(x, order) == x - (x % (2 ^ order))

round_up(x, order) == round_down(Wrap((x + 2 ^ order) - 1), order)

PHYSMEM_ALLOC_ERR == (2 ^ AddrBits) - 1

-----------------------------------------------------------------------------
(* util/physmem.c: what is returned, and the pool left behind.             *)

\* Variant: the last bytes of the pool are never given out.
physmem_alloc_Strict(p, size, order) ==
    LET addr == round_down(Minus(p.end, size), order)
    IN  IF addr > p.start
        THEN [addr |-> addr, pool |-> [start |-> p.start, end |-> addr]]
        ELSE [addr |-> PHYSMEM_ALLOC_ERR, pool |-> p]

physmem_alloc(p, size, order) ==
    LET addr == round_down(Minus(p.end, size), order)
    IN  IF addr >= p.start
        THEN [addr |-> addr, pool |-> [start |-> p.start, end |-> addr]]
        ELSE [addr |-> PHYSMEM_ALLOC_ERR, pool |-> p]

\* Variant: the address is compared with the end, not the end of the region.
physmem_alloc_low_NoSize(p, size, order) ==
    LET addr == round_up(p.start, order)
    IN  IF addr <= p.end
        THEN [addr |-> addr, pool |-> [start |-> Wrap(addr + size), end |-> p.end]]
        ELSE [addr |-> PHYSMEM_ALLOC_ERR, pool |-> p]

physmem_alloc_low(p, size, order) ==
    LET addr == round_up(p.start, order)
    IN  IF Wrap(addr + size) <= p.end
        THEN [addr |-> addr, pool |-> [start |-> Wrap(addr + size), end |-> p.end]]
        ELSE [addr |-> PHYSMEM_ALLOC_ERR, pool |-> p]

-----------------------------------------------------------------------------
(* util/mempool.c                                                          *)

\* The objects mem_pool_init makes of size bytes from start, of which there is
\* at least one.
mem_pool_objects(start, size, objsize, order) ==
    LET first == round_up(start, order)
        step  == round_up(objsize, order)
    IN  {first} \cup {first + k * step : k \in 1 .. ((size - (first - start)) \div step) - 1}

\* Links the objects in address order behind the first.
mem_pool_init(mem, start, size, objsize, order) ==
    LET objs == mem_pool_objects(start, size, objsize, order)
        step == round_up(objsize, order)
    IN  [a \in DOMAIN mem |->
            IF a \notin objs THEN mem[a] ELSE IF a + step \in objs THEN a + step ELSE NULL]

\* Variant: the head is read again after it was given away.
mem_pool_alloc_KeepsHead(mem, freelist) == freelist

\* The free list after its head has been taken: the head's link.
mem_pool_alloc(mem, freelist) == IF freelist = NULL THEN NULL ELSE mem[freelist]

\* The memory after obj has been put in front of a free list.
mem_pool_free(mem, freelist, obj) == [mem EXCEPT ![obj] = freelist]

\* The objects on a free list: the least set of objects with its head and with what
\* their links lead to.
OnFreeList(mem, freelist, objs) ==
    LET Closed(S) == /\ freelist \in objs => freelist \in S
                     /\ \A a \in S : mem[a] \in objs => mem[a] \in S
    IN  {a \in objs : \A S \in SUBSET objs : Closed(S) => a \in S}
=============================================================================

------------------------------ MODULE MemPool ------------------------------
(***************************************************************************)
(* Memory pools (util/mempool.c) in a physical memory pool (util/physmem.c)*)
(* that malloc takes from at the other end, and the users of both.  The    *)
(* free list of a pool runs through the first word of its free objects;    *)
(* the users write whatever they like to the objects they hold.            *)
(* mem_pool_alloc and mem_pool_free run with interrupts disabled, so each  *)
(* is one action.  Buffers composes the actions.                           *)
(***************************************************************************)
EXTENDS MemOps, Sequences

CONSTANTS
    Start, End,     \* the physical pool, e.g. cpu_sram_pool
    Kinds,          \* the pools, as created: a sequence of [nr_objects, objsize, align_order]
    MallocSize,     \* sizes asked of malloc
    PtrSize,        \* sizeof(struct mem_pool_object)
    Written         \* what users write to the first word of an object

ASSUME MemPoolAssumption ==
    /\ Start \in Addr /\ End \in Addr /\ Start < End
    /\ PtrSize \in Nat \ {0}
    /\ MallocSize \subseteq 1 .. End
    /\ Kinds \in Seq([nr_objects : Nat \ {0}, objsize : Nat, align_order : 0 .. AddrBits])
    /\ \A i \in DOMAIN Kinds :
        round_up(Kinds[i].objsize, Kinds[i].align_order) >= PtrSize

\* The alignment malloc asks for.
malloc_order == 2

\* No address and no size that is asked for wraps around when it is rounded up: the pool
\* ends below the end of the address space, and sizes are far smaller than that.
NoOverflow ==
    /\ malloc_order <= AddrBits
    /\ \A size \in MallocSize : End + 2 ^ malloc_order + size <= 2 ^ AddrBits
    /\ \A i \in DOMAIN Kinds :
        LET align == 2 ^ Kinds[i].align_order
        IN  End + align <= 2 ^ AddrBits /\ Kinds[i].objsize + align <= 2 ^ AddrBits

VARIABLES
    phys,       \* what is left of the physical pool
    malloced,   \* what malloc returned: [addr, size] (history)
    pools,      \* the pools created: kind, physical address and pool->freelist
    mem,        \* the pointer at every address
    used,       \* the objects in use (history)
    result      \* what the last mem_pool_alloc returned

poolVars == <<phys, malloced, pools, mem, used, result>>

pool_size(k) == k.nr_objects * round_up(k.objsize, k.align_order)

Objects(p) == mem_pool_objects(p.start, pool_size(p.kind), p.kind.objsize, p.kind.align_order)

PoolsInit ==
    /\ phys = [start |-> Start, end |-> End]
    /\ malloced = {}
    /\ pools = << >>
    /\ mem = [a \in Addr |-> NULL]
    /\ used = {}
    /\ result = NULL

\* mem_pool_init_physmem, which asserts that there is enough memory.
InitPool ==
    LET k == Kinds[Len(pools) + 1]
        r == physmem_alloc(phys, pool_size(k), k.align_order)
    IN  /\ Len(pools) < Len(Kinds)
        /\ pool_size(k) <= phys.end
        /\ r.addr # PHYSMEM_ALLOC_ERR
        /\ phys' = r.pool
        /\ pools' = Append(pools, [kind |-> k, start |-> r.addr,
                                   freelist |-> round_up(r.addr, k.align_order)])
        /\ mem' = mem_pool_init(mem, r.addr, pool_size(k), k.objsize, k.align_order)
        /\ UNCHANGED <<malloced, used, result>>

\* malloc (util/malloc_simple.c).  What it returned is never freed.
malloc(size) ==
    LET r == physmem_alloc_low(phys, size, malloc_order)
    IN  /\ phys' = r.pool
        /\ malloced' = IF r.addr = PHYSMEM_ALLOC_ERR THEN malloced
                       ELSE malloced \cup {[addr |-> r.addr, size |-> size]}
        /\ UNCHANGED <<pools, mem, used, result>>

Alloc(i) ==
    LET head == pools[i].freelist
    IN  /\ result' = head
        /\ pools' = [pools EXCEPT ![i].freelist = mem_pool_alloc(mem, head)]
        /\ used' = used \cup ({head} \ {NULL})
        /\ UNCHANGED <<phys, malloced, mem>>

\* The holder of an object frees it to the pool it believes it came from.
Free(i, obj) ==
    /\ obj \in used
    /\ mem' = mem_pool_free(mem, pools[i].freelist, obj)
    /\ pools' = [pools EXCEPT ![i].freelist = obj]
    /\ used' = used \ {obj}
    /\ UNCHANGED <<phys, malloced, result>>

\* The holder of an object writes to it.
Write(obj, word) ==
    /\ mem' = [mem EXCEPT ![obj] = word]
    /\ UNCHANGED <<phys, malloced, pools, used, result>>

-----------------------------------------------------------------------------
(* Properties.                                                             *)

\* What was given out, to malloc's callers and to the pools.
Regions ==
    malloced \cup {[addr |-> p.start, size |-> pool_size(p.kind)] : p \in {pools[i] : i \in DOMAIN pools}}

\* What is given out from the top and from the bottom lies in the physical pool, and
\* no byte of it is given out twice or still free.
RegionsApart ==
    LET Bytes(r) == r.addr .. (r.addr + r.size) - 1
    IN  /\ Cardinality(Regions) = Cardinality(malloced) + Len(pools)
        /\ \A r \in Regions :
            /\ Bytes(r) \subseteq (Start .. End - 1) \ (phys.start .. phys.end - 1)
            /\ \A q \in Regions \ {r} : Bytes(r) \cap Bytes(q) = {}

\* malloc fails only when no aligned place in what is left can hold the request, and
\* so does the creation of a pool.
FailsOnlyWhenFull ==
    LET Full(size, order) ==
            ~ \E a \in phys.start .. phys.end : Aligned(a, order) /\ a + size <= phys.end
    IN  /\ \A size \in MallocSize :
            physmem_alloc_low(phys, size, malloc_order).addr = PHYSMEM_ALLOC_ERR
                => Full(size, malloc_order)
        /\ \A i \in DOMAIN Kinds :
            LET size == pool_size(Kinds[i])
                order == Kinds[i].align_order
            IN  size <= phys.end /\ physmem_alloc(phys, size, order).addr = PHYSMEM_ALLOC_ERR
                    => Full(size, order)

OP == INSTANCE ObjectPool
        WITH objects <- [i \in DOMAIN pools |-> Objects(pools[i])],
             free <- [i \in DOMAIN pools |-> Objects(pools[i]) \ used]

\* No object belongs to two pools, none is returned twice, and a pool returns NULL
\* only when all its objects are in use.
ImplementsObjectPool == OP!Spec
=============================================================================

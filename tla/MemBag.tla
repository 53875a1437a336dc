------------------------------- MODULE MemBag -------------------------------
(***************************************************************************)
(* util/membag.c with CONFIG_MEMBAG_USE_TUNING: an array of bags, each a   *)
(* memory pool with its bounds and its count of free blocks.  The other    *)
(* statistics are only written.  Kinds are the bags of                     *)
(* APP_MEMBAG_INITIALIZER, in its order.  Names say MemBag where Buffers,  *)
(* the other user of MemPool, has the same: theorems extend both.          *)
(***************************************************************************)
EXTENDS MemPool

CONSTANTS
    Asked,          \* the sizes asked for
    Invalid         \* pointers passed to membag_free from outside of the physical pool

ASSUME MemBagAssumption ==
    /\ Asked \subseteq Nat
    /\ Invalid \subseteq Nat /\ Invalid \cap (Start .. End) = {}

VARIABLE num_free_blocks    \* stats.num_free_blocks of every bag

bagVars == <<poolVars, num_free_blocks>>

MemBagInit ==
    /\ PoolsInit
    /\ num_free_blocks = << >>

\* membag_init takes the bags in turn, each as mem_pool_init_physmem would.
membag_init ==
    /\ InitPool
    /\ num_free_blocks' = Append(num_free_blocks, Kinds[Len(pools) + 1].nr_objects)

Initialized == Len(pools) = Len(Kinds)

\* The bags a request may be served from.
Usable(size) == {i \in DOMAIN pools : pools[i].kind.objsize >= size /\ pools[i].freelist # NULL}

\* membag_alloc takes the first bag that has a block large enough ...
membag_alloc(size) ==
    /\ Initialized
    /\ \E i \in Usable(size) :
        /\ \A j \in Usable(size) : i <= j
        /\ Alloc(i)
        /\ num_free_blocks' = [num_free_blocks EXCEPT ![i] = @ - 1]

\* ... or returns NULL.
membag_alloc_fails(size) ==
    /\ Initialized
    /\ Usable(size) = {}
    /\ result' = NULL
    /\ UNCHANGED <<phys, malloced, pools, mem, used, num_free_blocks>>

\* mb->end: the first byte that is not the bag's.
end(i) == pools[i].start + pool_size(pools[i].kind)

\* Variant: the start of a bag is left out.
Around_NotStart(ptr) == {i \in DOMAIN pools : pools[i].start < ptr /\ ptr <= end(i)}

\* The bags whose range, end included, ptr is in.
Around(ptr) == {i \in DOMAIN pools : pools[i].start <= ptr /\ ptr <= end(i)}

\* Variant: the free block is not counted.
membag_free_Uncounted(ptr) ==
    /\ Initialized
    /\ IF Around(ptr) = {} THEN UNCHANGED <<mem, pools>>
       ELSE \E i \in Around(ptr) :
            /\ \A j \in Around(ptr) : i <= j
            /\ mem' = mem_pool_free(mem, pools[i].freelist, ptr)
            /\ pools' = [pools EXCEPT ![i].freelist = ptr]
    /\ used' = used \ {ptr}
    /\ UNCHANGED <<phys, malloced, result, num_free_blocks>>

\* membag_free gives the block to the first bag it is in, if any.
membag_free(ptr) ==
    /\ Initialized
    /\ IF Around(ptr) = {} THEN UNCHANGED <<mem, pools, num_free_blocks>>
       ELSE \E i \in Around(ptr) :
            /\ \A j \in Around(ptr) : i <= j
            /\ mem' = mem_pool_free(mem, pools[i].freelist, ptr)
            /\ pools' = [pools EXCEPT ![i].freelist = ptr]
            /\ num_free_blocks' = [num_free_blocks EXCEPT ![i] = @ + 1]
    /\ used' = used \ {ptr}
    /\ UNCHANGED <<phys, malloced, result>>

\* The holder of a block writes to it.
WriteBlock ==
    /\ \E obj \in used, word \in Written : Write(obj, word)
    /\ UNCHANGED num_free_blocks

\* The holder of a block gives it back, or somebody a pointer that is no block.
MemBagNext ==
    \/ membag_init \/ WriteBlock
    \/ \E size \in Asked : membag_alloc(size) \/ membag_alloc_fails(size)
    \/ \E ptr \in used \cup Invalid : membag_free(ptr)

MemBagSpec == MemBagInit /\ [][MemBagNext]_bagVars

-----------------------------------------------------------------------------
(* Properties.                                                             *)

AllBlocks == UNION {Objects(pools[i]) : i \in DOMAIN pools}

OnList(i) == OnFreeList(mem, pools[i].freelist, AllBlocks)

\* Every block is on its own bag's free list or in use, never both, and the list leads
\* to nothing else: blocks do not wander to another bag or get lost.
BlocksStayInTheirBag ==
    \A i \in DOMAIN pools :
        /\ OnList(i) = Objects(pools[i]) \ used
        /\ {pools[i].freelist} \cup {mem[a] : a \in OnList(i)} \subseteq OnList(i) \cup {NULL}

\* The free-block count is that of the free list, which membag_get_free relies on.
FreeCountExact == \A i \in DOMAIN pools : num_free_blocks[i] = Cardinality(OnList(i))
=============================================================================

------------------------------ MODULE Buffers ------------------------------
(***************************************************************************)
(* Buffers (util/buffer.c) and the generic DMA pools (include/dmapool.h)   *)
(* on the memory pools of MemPool, next to malloc and direct users.        *)
(*                                                                         *)
(* buffer_dma_alloc and buffer_dma_free take a buffer struct and DMA       *)
(* memory in two calls, between which an interrupt handler may come in and *)
(* use the same pools.                                                     *)
(***************************************************************************)
EXTENDS MemPool, Functions

CONSTANTS
    SmallSize, LargeSize,   \* CONFIG_DMAPOOL_{SMALL,LARGE}_OBJ_SIZE
    Size                    \* sizes asked for

LARGE == 1      \* dmapool_size_large
SMALL == 2      \* dmapool_size_small
STRUCT == 3     \* buffer_pool
NONE == 0

ASSUME BuffersAssumption ==
    /\ SmallSize \in Nat /\ LargeSize \in Nat /\ SmallSize < LargeSize
    /\ Size \subseteq Nat

\* The pools for DMA and the one for the structs.
ThreePools == Len(Kinds) = 3

VARIABLES
    buf,        \* addr, len and (history) the size asked for of every buffer in use
    calls       \* the interrupted and the present call: [op, buf, size]

vars == <<poolVars, buf, calls>>

Init ==
    /\ PoolsInit
    /\ buf = << >>
    /\ calls = << >>

-----------------------------------------------------------------------------
(* Calls: of the program, and of an interrupt handler in the middle of one *)
(* of the program's.                                                       *)

MayCall == Len(pools) = Len(Kinds) /\ Len(calls) < 2

Enter(op, b, n) == calls' = <<[op |-> op, buf |-> b, size |-> n]>> \o calls

Returns == calls' = Tail(calls)

\* The present call has come to op.
At(op) == calls # << >> /\ Head(calls).op = op

Acquire(b, a, n) == buf' = [c \in DOMAIN buf \cup {b} |->
                               IF c = b THEN [addr |-> a, len |-> n, asked |-> n] ELSE buf[c]]

Abandon(b) == buf' = Restrict(buf, DOMAIN buf \ {b})

\* The pool that requests and releases of a size go to.
dmapool_find_pool(n) ==
    IF n <= SmallSize THEN SMALL ELSE IF n <= LargeSize THEN LARGE ELSE NONE

\* buffer_alloc also sets dma_desc of what the pool returns, before it is tested.
buffer_alloc == Alloc(STRUCT)

AllocBuffer ==
    /\ MayCall
    /\ buffer_alloc
    /\ IF result' = NULL THEN UNCHANGED buf ELSE Acquire(result', NULL, 0)
    /\ UNCHANGED calls

\* A buffer without DMA memory, whose data is its user's.
FreeBuffer(b) ==
    /\ MayCall
    /\ b \in DOMAIN buf /\ buf[b].addr = NULL
    /\ Free(STRUCT, b)
    /\ Abandon(b)
    /\ UNCHANGED calls

\* buffer_dma_alloc: the struct ...
buffer_dma_alloc(n) ==
    /\ MayCall
    /\ buffer_alloc
    /\ IF result' = NULL THEN UNCHANGED calls ELSE Enter("dma_alloc", result', n)
    /\ UNCHANGED buf

\* ... its memory ...
dma_alloc ==
    /\ At("dma_alloc")
    /\ LET c == Head(calls)
       IN  /\ dmapool_find_pool(c.size) # NONE
           /\ Alloc(dmapool_find_pool(c.size))
           /\ result' # NULL
           /\ Acquire(c.buf, result', c.size)
    /\ Returns

\* ... or, when there is none, ...
dma_alloc_fails ==
    /\ At("dma_alloc")
    /\ LET pool == dmapool_find_pool(Head(calls).size)
       IN  IF pool = NONE THEN UNCHANGED poolVars ELSE Alloc(pool) /\ result' = NULL
    /\ calls' = [calls EXCEPT ![1].op = "buffer_free"]
    /\ UNCHANGED buf

\* ... the struct is freed again.
buffer_free ==
    /\ At("buffer_free")
    /\ Free(STRUCT, Head(calls).buf)
    /\ Returns
    /\ UNCHANGED buf

\* Variant: the memory is freed by the buffer's present length.
buffer_dma_free_ByLen(b) ==
    /\ MayCall
    /\ b \in DOMAIN buf /\ buf[b].addr # NULL
    /\ Free(dmapool_find_pool(buf[b].len), buf[b].addr)
    /\ Enter("buffer_free", b, 0)
    /\ Abandon(b)

\* buffer_dma_free: the memory, by the size its user asked for, and then the struct.
buffer_dma_free(b) ==
    /\ MayCall
    /\ b \in DOMAIN buf /\ buf[b].addr # NULL
    /\ Free(dmapool_find_pool(buf[b].asked), buf[b].addr)
    /\ Enter("buffer_free", b, 0)
    /\ Abandon(b)

\* The user of a buffer changes its length, within its memory.
buffer_resize(b, n) ==
    /\ MayCall
    /\ b \in DOMAIN buf /\ n <= buf[b].asked
    /\ buf' = [buf EXCEPT ![b].len = n]
    /\ UNCHANGED <<poolVars, calls>>

\* malloc and the pools' initialisation do not expect interrupt handlers to call them.
Start_up ==
    /\ calls = << >>
    /\ InitPool \/ \E size \in MallocSize : malloc(size)
    /\ UNCHANGED <<buf, calls>>

WriteObject ==
    /\ \E obj \in used, word \in Written : Write(obj, word)
    /\ UNCHANGED <<buf, calls>>

Next ==
    \/ Start_up \/ WriteObject \/ AllocBuffer
    \/ \E b \in DOMAIN buf : FreeBuffer(b) \/ buffer_dma_free(b)
    \/ \E n \in Size :
        buffer_dma_alloc(n) \/ \E b \in DOMAIN buf : buffer_resize(b, n)
    \/ dma_alloc \/ dma_alloc_fails \/ buffer_free

Spec == Init /\ [][Next]_vars

-----------------------------------------------------------------------------
(* Properties.                                                             *)

\* Every struct that is not free belongs to one buffer or to one call in progress,
\* and so does every DMA object, which came from the pool it will go back to: calls
\* that fail half way lose nothing, and no two buffers share memory, whatever
\* interrupt handlers allocate and free in between.
NothingLost ==
    Len(pools) = Len(Kinds) =>
        LET inUse(i) == used \cap Objects(pools[i])
            dma == {b \in DOMAIN buf : buf[b].addr # NULL}
        IN  /\ inUse(STRUCT) = DOMAIN buf \cup {calls[i].buf : i \in DOMAIN calls}
            /\ Cardinality(inUse(STRUCT)) = Cardinality(DOMAIN buf) + Len(calls)
            /\ inUse(SMALL) \cup inUse(LARGE) = {buf[b].addr : b \in dma}
            /\ \A b, c \in dma : buf[b].addr = buf[c].addr => b = c
            /\ \A b \in dma : buf[b].addr \in inUse(dmapool_find_pool(buf[b].asked))
=============================================================================

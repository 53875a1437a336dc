---------------------------- MODULE MemoryProofs ----------------------------
(***************************************************************************)
(* What the allocators give out is apart, no buffer is lost or shared, and *)
(* blocks stay in their bags, for any pools, sizes and number of objects,  *)
(* as long as no address wraps around.                                     *)
(***************************************************************************)
EXTENDS Buffers, MemBag, WellFoundedInduction, FunctionTheorems, FiniteSetTheorems, SequenceTheorems, TLAPS

Kind == [nr_objects : Nat \ {0}, objsize : Nat, align_order : 0 .. AddrBits]

Pointer == Addr \cup {NULL}

Pool == [kind : Kind, start : Nat, freelist : Pointer]

Place == {"dma_alloc", "buffer_free"}

PoolsTypeOK ==
    /\ phys \in [start : Nat, end : Nat]
    /\ malloced \in SUBSET [addr : Nat, size : Nat] /\ IsFiniteSet(malloced)
    /\ pools \in Seq(Pool)
    /\ mem \in [Addr -> Pointer \cup Written]
    /\ used \in SUBSET Addr /\ result \in Pointer

TypeOK ==
    /\ PoolsTypeOK
    /\ DOMAIN buf \in SUBSET Addr /\ IsFiniteSet(DOMAIN buf)
    /\ buf \in [DOMAIN buf -> [addr : Pointer, len : Nat, asked : Nat]]
    /\ calls \in Seq([op : Place, buf : Addr, size : Nat]) /\ Len(calls) <= 2

-----------------------------------------------------------------------------
(* The inductive invariant.                                                *)

Above(p) == p.start + pool_size(p.kind)

\* The pools lie one below the other at the top of the physical pool, each where its
\* objects are aligned, and what malloc has given out at the bottom.
Layout ==
    /\ Start <= phys.start /\ phys.start <= phys.end /\ phys.end <= End
    /\ Len(pools) <= Len(Kinds)
    /\ \A i \in DOMAIN pools :
        /\ pools[i].kind = Kinds[i]
        /\ Aligned(pools[i].start, Kinds[i].align_order)
        /\ phys.end <= pools[i].start /\ Above(pools[i]) <= End
    /\ \A i, j \in DOMAIN pools : i < j => Above(pools[j]) <= pools[i].start
    /\ \A r \in malloced :
        r.size \in Nat \ {0} /\ Start <= r.addr /\ r.addr + r.size <= phys.start
    /\ \A r, q \in malloced :
        r # q => r.addr + r.size <= q.addr \/ q.addr + q.size <= r.addr

\* A free list of a set of objects: its head, unless there are none, and the links of the
\* objects are among them, no two links are the same, none leads to the head or in a circle.
Linked(objs, head, links) ==
    /\ IF objs = {} THEN head = NULL ELSE head \in objs
    /\ \A a \in objs : links[a] \in (objs \cup {NULL}) \ {head}
    /\ \A a, b \in objs : links[a] = links[b] => a = b
    /\ \E rank \in [objs -> Nat] :
        \A a \in objs : links[a] # NULL => rank[links[a]] < rank[a]

\* What is not in use of a pool is linked.
FreeListsLinked ==
    \A i \in DOMAIN pools : Linked(Objects(pools[i]) \ used, pools[i].freelist, mem)

\* The part about the allocators.
Allocators == PoolsTypeOK /\ Layout /\ FreeListsLinked

Calling == {calls[i].buf : i \in DOMAIN calls}

WithMemory == {b \in DOMAIN buf : buf[b].addr # NULL}

\* Every object in use has one holder.
Held ==
    /\ Len(pools) # Len(Kinds) => used = {} /\ calls = << >>
    /\ used = DOMAIN buf \cup Calling \cup {buf[b].addr : b \in WithMemory}
    /\ Len(pools) = Len(Kinds) => DOMAIN buf \cup Calling \subseteq Objects(pools[STRUCT])
    /\ DOMAIN buf \cap Calling = {}
    /\ \A i, j \in DOMAIN calls : calls[i].buf = calls[j].buf => i = j
    /\ \A b \in WithMemory :
        /\ dmapool_find_pool(buf[b].asked) \in {LARGE, SMALL}
        /\ buf[b].addr \in Objects(pools[dmapool_find_pool(buf[b].asked)])
    /\ \A b, c \in WithMemory : buf[b].addr = buf[c].addr => b = c

IInv == TypeOK /\ Layout /\ FreeListsLinked /\ Held

-----------------------------------------------------------------------------
(* Addresses.                                                              *)

Multiple(x, m) == x % m = 0

LEMMA Multiples ==
    ASSUME NEW x \in Nat, NEW y \in Nat, NEW m \in Nat, m > 0,
           Multiple(x, m), Multiple(y, m), x < y
    PROVE  x + m <= y
<1> DEFINE p == x \div m
           q == y \div m
<1>1. p \in Int /\ q \in Int /\ x = m * p /\ y = m * q
  BY DEF Multiple
<1> HIDE DEF p, q
<1>2. p < q
  BY <1>1
<1>3. m * (q - p) >= m
  BY <1>1, <1>2
<1>4. m * (q - p) = m * q - m * p
  BY <1>1
<1>5. QED
  BY <1>1, <1>3, <1>4

\* What is left when a remainder is taken away.
LEMMA Remainder ==
    ASSUME NEW x \in Nat, NEW m \in Nat, m > 0, NEW r, r = x - (x % m)
    PROVE  /\ r \in Nat /\ r <= x /\ x < r + m /\ Multiple(r, m)
           /\ \A a \in Nat : Multiple(a, m) /\ a <= x => a <= r
<1>1. x % m \in 0 .. m - 1 /\ x % m <= x
  OBVIOUS
<1>2. (x - (x % m)) % m = 0
  OBVIOUS
<1>3. r \in Nat /\ r <= x /\ x < r + m /\ Multiple(r, m)
  BY <1>1, <1>2 DEF Multiple
<1>4. ASSUME NEW a \in Nat, Multiple(a, m), a <= x
      PROVE  a <= r
  <2>1. ASSUME r < a PROVE FALSE
    <3>1. r + m <= a
      BY <1>3, <1>4, <2>1, Multiples
    <3>2. QED
      BY <1>3, <1>4, <3>1
  <2>2. QED
    BY <1>3, <1>4, <2>1
<1>5. QED
  BY <1>3, <1>4

LEMMA Small == ASSUME NEW x \in Nat, NEW m \in Nat, x < m PROVE x % m = x
OBVIOUS

LEMMA Powers ==
    /\ 2 ^ AddrBits \in Nat \ {0}
    /\ \A n \in 0 .. AddrBits : 2 ^ n \in Nat \ {0}
<1>1. \A n \in 0 .. AddrBits : 2 ^ n \in Nat \ {0}
  BY MemOpsAssumption
<1>2. AddrBits \in 0 .. AddrBits
  BY MemOpsAssumption
<1>3. QED
  BY <1>1, <1>2

\* round_down: the last aligned address that is not above x.
LEMMA RoundDown ==
    ASSUME NEW x \in Nat, NEW order \in 0 .. AddrBits
    PROVE  /\ round_down(x, order) \in Nat /\ round_down(x, order) <= x
           /\ x < round_down(x, order) + 2 ^ order
           /\ Aligned(round_down(x, order), order)
           /\ \A a \in Nat : Aligned(a, order) /\ a <= x => a <= round_down(x, order)
<1> DEFINE m == 2 ^ order
           r == round_down(x, order)
<1>1. m \in Nat /\ m > 0
  BY Powers
<1>2. r = x - (x % m)
  BY DEF round_down
<1>3. \A a : Aligned(a, order) <=> Multiple(a, m)
  BY DEF Aligned, Multiple
<1> HIDE DEF m, r
<1>4. /\ r \in Nat /\ r <= x /\ x < r + m /\ Multiple(r, m)
      /\ \A a \in Nat : Multiple(a, m) /\ a <= x => a <= r
  BY <1>1, <1>2, Remainder
<1>5. QED
  BY <1>3, <1>4 DEF m, r

\* round_up: the first aligned address that is not below x, when nothing wraps.
LEMMA RoundUp ==
    ASSUME NEW x \in Nat, NEW order \in 0 .. AddrBits, x + 2 ^ order <= 2 ^ AddrBits
    PROVE  /\ round_up(x, order) \in Nat /\ x <= round_up(x, order)
           /\ round_up(x, order) < x + 2 ^ order
           /\ Aligned(round_up(x, order), order)
           /\ \A a \in Nat : Aligned(a, order) /\ x <= a => round_up(x, order) <= a
           /\ Aligned(x, order) => round_up(x, order) = x
<1> DEFINE m == 2 ^ order
           n == 2 ^ AddrBits
           y == (x + m) - 1
           r == round_up(x, order)
<1>1. m \in Nat /\ m > 0 /\ n \in Nat
  BY Powers
<1>2. r = round_down(y % n, order)
  BY DEF round_up, Wrap
<1>3. \A a : Aligned(a, order) <=> Multiple(a, m)
  BY DEF Aligned, Multiple
<1>4. \A z : round_down(z, order) = z - (z % m)
  BY DEF round_down
<1>5. y \in Nat /\ y < n /\ y = (x + m) - 1
  BY <1>1
<1> HIDE DEF m, n, y, r
<1>6. r = y - (y % m)
  BY <1>1, <1>2, <1>4, <1>5, Small
<1>7. /\ r \in Nat /\ r <= y /\ y < r + m /\ Multiple(r, m)
  BY ZenonT(60), <1>1, <1>5, <1>6, Remainder
<1>8. x <= r /\ r < x + m
  BY <1>1, <1>5, <1>7
<1>9. ASSUME NEW a \in Nat, Multiple(a, m), x <= a PROVE r <= a
  <2>1. ASSUME a < r PROVE FALSE
    <3>1. a + m <= r
      BY <1>1, <1>7, <1>9, <2>1, Multiples
    <3>2. QED
      BY <1>1, <1>7, <1>8, <1>9, <3>1
  <2>2. QED
    BY <1>7, <1>9, <2>1
<1>10. Multiple(x, m) => r = x
  BY <1>7, <1>8, <1>9
<1>11. QED
  BY <1>3, <1>7, <1>8, <1>9, <1>10 DEF m, r

LEMMA Subtract ==
    ASSUME NEW x \in Nat, NEW y \in Nat, y <= x, x < 2 ^ AddrBits
    PROVE  Minus(x, y) = x - y
<1> DEFINE n == 2 ^ AddrBits
<1>1. n \in Nat \ {0}
  BY Powers
<1>2. Minus(x, y) = ((n + x) - y) % n
  BY DEF Minus, Wrap
<1>3. x < n
  OBVIOUS
<1> HIDE DEF n
<1>4. ((n + x) - y) % n = x - y
  BY <1>1, <1>3
<1>5. QED
  BY <1>2, <1>4

-----------------------------------------------------------------------------
(* The objects of a pool and what the physical pool gives.                 *)

Stride(k) == round_up(k.objsize, k.align_order)

LEMMA KindFacts ==
    ASSUME NoOverflow, NEW i \in DOMAIN Kinds, NEW k, k = Kinds[i]
    PROVE  /\ k \in Kind
           /\ Stride(k) \in Nat /\ Stride(k) > 0
           /\ pool_size(k) \in Nat /\ pool_size(k) > 0
           /\ End + 2 ^ k.align_order <= 2 ^ AddrBits
<1>0. Kinds \in Seq(Kind)
  BY MemPoolAssumption DEF Kind
<1>1. k \in Kind
  BY <1>0
<1>2. k.objsize \in Nat /\ k.align_order \in 0 .. AddrBits /\ k.nr_objects \in Nat \ {0}
  BY <1>1 DEF Kind
<1>3. /\ End + 2 ^ k.align_order <= 2 ^ AddrBits
      /\ k.objsize + 2 ^ k.align_order <= 2 ^ AddrBits
  BY DEF NoOverflow
<1>4. Stride(k) \in Nat
  BY <1>2, <1>3, RoundUp DEF Stride
<1>5. Stride(k) > 0
  BY <1>4, MemPoolAssumption DEF Stride
<1>6. pool_size(k) = k.nr_objects * Stride(k)
  BY DEF pool_size, Stride
<1>7. \A n \in Nat \ {0}, s \in Nat : s > 0 => n * s \in Nat /\ n * s > 0
  OBVIOUS
<1>8. pool_size(k) \in Nat /\ pool_size(k) > 0
  BY <1>2, <1>4, <1>5, <1>6, <1>7
<1>9. QED
  BY <1>1, <1>3, <1>4, <1>5, <1>8

\* Whole strides that begin in what they divide end in it.
LEMMA Strides ==
    ASSUME NEW size \in Nat, NEW s \in Nat, s > 0, NEW n \in 1 .. (size \div s) - 1
    PROVE  n * s \in Nat /\ n * s + s <= size
<1> DEFINE q == size \div s
<1>1. q \in Int /\ q * s <= size /\ n + 1 <= q
  OBVIOUS
<1> HIDE DEF q
<1>2. (q - (n + 1)) * s >= 0
  BY <1>1
<1>3. (q - (n + 1)) * s = q * s - (n * s + s)
  BY <1>1
<1>4. QED
  BY <1>1, <1>2, <1>3

\* mem_pool_init's objects: the first is at the start, and all lie in the pool.
LEMMA ObjectsInside ==
    ASSUME NEW start \in Nat, NEW k \in Kind, Aligned(start, k.align_order),
           start + 2 ^ k.align_order <= 2 ^ AddrBits,
           Stride(k) \in Nat, Stride(k) > 0, NEW size \in Nat, size > 0,
           NEW objs, objs = mem_pool_objects(start, size, k.objsize, k.align_order)
    PROVE  /\ round_up(start, k.align_order) = start
           /\ start \in objs
           /\ objs \subseteq start .. (start + size) - 1
<1>1. k.align_order \in 0 .. AddrBits
  BY DEF Kind
<1>2. round_up(start, k.align_order) = start
  BY <1>1, RoundUp
<1> DEFINE s == Stride(k)
<1>3. objs = {start} \cup {start + n * s : n \in 1 .. ((size - (start - start)) \div s) - 1}
  BY <1>2 DEF mem_pool_objects, Stride
<1>4. start - start = 0 /\ size - 0 = size
  OBVIOUS
<1>5. s \in Nat /\ s > 0
  OBVIOUS
<1> HIDE DEF s
<1>6. ASSUME NEW n \in 1 .. (size \div s) - 1 PROVE start + n * s \in start .. (start + size) - 1
  BY <1>5, Strides
<1>7. QED
  BY <1>2, <1>3, <1>4, <1>6

\* All objects but one have another a stride further.
LEMMA LastObject ==
    ASSUME NEW start \in Nat, NEW k \in Kind, Aligned(start, k.align_order),
           start + 2 ^ k.align_order <= 2 ^ AddrBits,
           NEW s \in Nat, s = Stride(k), s > 0, NEW size \in Nat,
           NEW objs, objs = mem_pool_objects(start, size, k.objsize, k.align_order)
    PROVE  \A a, b \in objs : a + s \notin objs /\ b + s \notin objs => a = b
<1>1. k.align_order \in 0 .. AddrBits
  BY DEF Kind
<1>2. round_up(start, k.align_order) = start
  BY <1>1, RoundUp
<1> DEFINE q == size \div s
<1>3. objs = {start} \cup {start + n * s : n \in 1 .. ((size - (start - start)) \div s) - 1}
  BY <1>2 DEF mem_pool_objects, Stride
<1>4. start - start = 0 /\ size - 0 = size /\ q \in Nat
  OBVIOUS
<1>5. objs = {start} \cup {start + n * s : n \in 1 .. q - 1}
  BY <1>3, <1>4
<1> HIDE DEF q
<1>6. ASSUME NEW a \in objs, a + s \notin objs
      PROVE  a = IF q = 0 THEN start ELSE start + (q - 1) * s
  <2>1. CASE a = start
    <3>1. a + s = start + 1 * s /\ 0 * s = 0 /\ start + 0 = start
      BY <2>1
    <3>2. 1 \notin 1 .. q - 1
      BY <1>5, <1>6, <3>1
    <3>3. q = 0 \/ q = 1
      BY <1>4, <3>2
    <3>4. QED
      BY <2>1, <3>1, <3>3
  <2>2. ASSUME NEW n \in 1 .. q - 1, a = start + n * s
        PROVE  a = IF q = 0 THEN start ELSE start + (q - 1) * s
    <3>1. a + s = start + (n + 1) * s
      BY <1>4, <2>2
    <3>2. n + 1 \notin 1 .. q - 1
      BY <1>5, <1>6, <3>1
    <3>3. n = q - 1 /\ q # 0
      BY <1>4, <3>2
    <3>4. QED
      BY <2>2, <3>3
  <2>3. QED
    BY <1>5, <2>1, <2>2
<1>7. QED
  BY <1>6

\* physmem_alloc: the highest aligned place.
LEMMA AllocHigh ==
    ASSUME NEW p \in [start : Nat, end : Nat], p.start <= p.end, p.end < 2 ^ AddrBits,
           NEW size \in Nat, size > 0, size <= p.end, NEW order \in 0 .. AddrBits,
           NEW r, r = physmem_alloc(p, size, order)
    PROVE  \/ /\ r.addr # PHYSMEM_ALLOC_ERR
              /\ r.addr \in Nat /\ p.start <= r.addr /\ r.addr + size <= p.end
              /\ Aligned(r.addr, order)
              /\ r.pool = [start |-> p.start, end |-> r.addr]
           \/ /\ r.addr = PHYSMEM_ALLOC_ERR
              /\ \A a \in Nat : Aligned(a, order) /\ p.start <= a => a + size > p.end
<1> DEFINE b == Minus(p.end, size)
           a == round_down(b, order)
<1>1. b = p.end - size /\ p.end - size \in Nat
  BY Subtract
<1>2. /\ a \in Nat /\ a <= p.end - size /\ Aligned(a, order)
      /\ \A c \in Nat : Aligned(c, order) /\ c <= p.end - size => c <= a
  BY <1>1, RoundDown
<1>3. r = IF a >= p.start THEN [addr |-> a, pool |-> [start |-> p.start, end |-> a]]
          ELSE [addr |-> PHYSMEM_ALLOC_ERR, pool |-> p]
  BY DEF physmem_alloc
<1>4. 2 ^ AddrBits \in Nat
  BY Powers
<1> HIDE DEF a, b
<1>5. CASE a >= p.start
  <2>1. r.addr = a /\ r.pool = [start |-> p.start, end |-> a]
    BY <1>3, <1>5
  <2>2. a # PHYSMEM_ALLOC_ERR
    BY <1>2, <1>4 DEF PHYSMEM_ALLOC_ERR
  <2>3. QED
    BY <1>2, <1>5, <2>1, <2>2
<1>6. CASE ~ (a >= p.start)
  <2>1. r.addr = PHYSMEM_ALLOC_ERR
    BY <1>3, <1>6
  <2>2. ASSUME NEW c \in Nat, Aligned(c, order), p.start <= c PROVE c + size > p.end
    BY <1>2, <1>6, <2>2
  <2>3. QED
    BY <2>1, <2>2
<1>7. QED
  BY <1>5, <1>6

\* physmem_alloc_low: the lowest aligned place.
LEMMA AllocLow ==
    ASSUME NEW p \in [start : Nat, end : Nat], p.start <= p.end,
           NEW size \in Nat, size > 0, NEW order \in 0 .. AddrBits,
           p.end + 2 ^ order + size <= 2 ^ AddrBits,
           NEW r, r = physmem_alloc_low(p, size, order)
    PROVE  \/ /\ r.addr # PHYSMEM_ALLOC_ERR
              /\ r.addr \in Nat /\ p.start <= r.addr /\ r.addr + size <= p.end
              /\ Aligned(r.addr, order)
              /\ r.pool = [start |-> r.addr + size, end |-> p.end]
           \/ /\ r.addr = PHYSMEM_ALLOC_ERR /\ r.pool = p
              /\ \A a \in Nat : Aligned(a, order) /\ p.start <= a => a + size > p.end
<1> DEFINE a == round_up(p.start, order)
<1>0. 2 ^ AddrBits \in Nat /\ 2 ^ order \in Nat /\ 2 ^ order > 0
  BY Powers
<1>1. p.start + 2 ^ order <= 2 ^ AddrBits
  BY <1>0
<1>2. /\ a \in Nat /\ p.start <= a /\ a < p.start + 2 ^ order /\ Aligned(a, order)
      /\ \A c \in Nat : Aligned(c, order) /\ p.start <= c => a <= c
  BY <1>1, RoundUp
<1>3. r = IF Wrap(a + size) <= p.end
          THEN [addr |-> a, pool |-> [start |-> Wrap(a + size), end |-> p.end]]
          ELSE [addr |-> PHYSMEM_ALLOC_ERR, pool |-> p]
  BY DEF physmem_alloc_low
<1> HIDE DEF a
<1>4. Wrap(a + size) = a + size
  <2>1. a + size \in Nat /\ a + size < 2 ^ AddrBits
    BY <1>0, <1>2
  <2>2. QED
    BY <1>0, <2>1, Small DEF Wrap
<1>5. CASE a + size <= p.end
  <2>1. r.addr = a /\ r.pool = [start |-> a + size, end |-> p.end]
    BY <1>3, <1>4, <1>5
  <2>2. a # PHYSMEM_ALLOC_ERR
    BY <1>0, <1>2, <1>5 DEF PHYSMEM_ALLOC_ERR
  <2>3. QED
    BY <1>2, <1>5, <2>1, <2>2
<1>6. CASE ~ (a + size <= p.end)
  <2>1. r.addr = PHYSMEM_ALLOC_ERR /\ r.pool = p
    BY <1>3, <1>4, <1>6
  <2>2. ASSUME NEW c \in Nat, Aligned(c, order), p.start <= c PROVE c + size > p.end
    BY <1>2, <1>6, <2>2
  <2>3. QED
    BY <2>1, <2>2
<1>7. QED
  BY <1>5, <1>6

-----------------------------------------------------------------------------
(* Free lists: what taking the head, putting an object in front, writing   *)
(* elsewhere and linking in address order make of them.                    *)

\* Not every object of a set is linked to another one of the set: the links of the lowest
\* rank lead out of it.
LEMMA LinksEnd ==
    ASSUME NEW S, S # {}, NEW rank \in [S -> Nat], NEW links
    PROVE  \E a \in S : links[a] \notin S \/ ~ (rank[links[a]] < rank[a])
<1> DEFINE ranks == {rank[a] : a \in S}
<1>1. ranks \in SUBSET Nat /\ ranks # {}
  OBVIOUS
<1>2. PICK n \in ranks : \A m \in ranks : n <= m
  <2> HIDE DEF ranks
  <2> DEFINE R == OpToRel(<, Nat)
  <2>1. IsWellFoundedOn(R, Nat)
    BY NatLessThanWellFounded
  <2>2. \A m, n \in Nat : m < n => <<m, n>> \in R
    BY DEF OpToRel
  <2> HIDE DEF R
  <2>3. PICK n \in ranks : \A m \in ranks : ~ (<<m, n>> \in R)
    BY <1>1, <2>1, WFMin
  <2>4. ASSUME NEW m \in ranks PROVE n <= m
    <3>1. m \in Nat /\ n \in Nat
      BY <1>1
    <3>2. ~ (m < n)
      BY <2>2, <2>3, <3>1, Zenon
    <3>3. QED
      BY <3>1, <3>2
  <2>5. QED
    BY <2>4
<1>3. PICK a \in S : rank[a] = n
  BY <1>2
<1>4. links[a] \in S => rank[links[a]] \in ranks /\ rank[links[a]] \in Nat
  OBVIOUS
<1>5. n \in Nat
  BY <1>1, <1>2
<1> HIDE DEF ranks
<1>6. links[a] \notin S \/ ~ (rank[links[a]] < rank[a])
  BY <1>2, <1>3, <1>4, <1>5
<1>7. QED
  BY <1>6

LEMMA LinkedAlloc ==
    ASSUME NEW objs, NEW head, NEW links, Linked(objs, head, links), NULL \notin objs,
           head # NULL
    PROVE  Linked(objs \ {head}, links[head], links)
<1> DEFINE S == objs \ {head}
           next == links[head]
<1>1. /\ head \in objs
      /\ \A a \in objs : links[a] \in (objs \cup {NULL}) \ {head}
      /\ \A a, b \in objs : links[a] = links[b] => a = b
  BY DEF Linked
<1>2. PICK rank \in [objs -> Nat] : \A a \in objs : links[a] # NULL => rank[links[a]] < rank[a]
  BY DEF Linked
<1>3. \A a \in S : links[a] \in (S \cup {NULL}) \ {next}
  BY <1>1
<1>4. \A a, b \in S : links[a] = links[b] => a = b
  BY <1>1
<1>5. \E r \in [S -> Nat] : \A a \in S : links[a] # NULL => r[links[a]] < r[a]
  <2>1. [a \in S |-> rank[a]] \in [S -> Nat]
    OBVIOUS
  <2>2. \A a \in S : links[a] # NULL => links[a] \in S
    BY <1>3
  <2>3. QED
    BY <1>2, <2>1, <2>2
<1>6. S = {} => next = NULL
  BY <1>1
<1>7. ASSUME S # {} PROVE next \in S
  <2>1. PICK r \in [S -> Nat] : \A a \in S : links[a] # NULL => r[links[a]] < r[a]
    BY <1>5
  <2>2. PICK a \in S : links[a] \notin S \/ ~ (r[links[a]] < r[a])
    BY <1>7, LinksEnd
  <2>3. links[a] = NULL
    BY <1>3, <2>1, <2>2
  <2>4. next # NULL
    BY <1>3, <2>3
  <2>5. QED
    BY <1>1, <2>4
<1>8. QED
  BY <1>3, <1>4, <1>5, <1>6, <1>7 DEF Linked

LEMMA LinkedFree ==
    ASSUME NEW objs \in SUBSET Addr, NEW head, NEW links, Addr \subseteq DOMAIN links,
           Linked(objs, head, links), NULL \notin Addr,
           NEW obj \in Addr \ objs, NEW after, after = [links EXCEPT ![obj] = head]
    PROVE  Linked(objs \cup {obj}, obj, after)
<1> DEFINE S == objs \cup {obj}
<1>1. after[obj] = head /\ \A a \in objs : after[a] = links[a]
  OBVIOUS
<1>2. /\ head \in objs \cup {NULL}
      /\ \A a \in objs : links[a] \in (objs \cup {NULL}) \ {head}
      /\ \A a, b \in objs : links[a] = links[b] => a = b
  BY DEF Linked
<1>3. \A a \in S : after[a] \in (S \cup {NULL}) \ {obj}
  BY <1>1, <1>2
<1>4. \A a, b \in S : after[a] = after[b] => a = b
  BY <1>1, <1>2
<1>5. PICK rank \in [objs -> Nat] : \A a \in objs : links[a] # NULL => rank[links[a]] < rank[a]
  BY DEF Linked
<1> DEFINE top == IF head = NULL THEN 0 ELSE rank[head] + 1
           r == [a \in S |-> IF a = obj THEN top ELSE rank[a]]
<1>6. top \in Nat /\ (head # NULL => rank[head] < top)
  BY <1>2
<1> HIDE DEF top
<1>7. r \in [S -> Nat] /\ r[obj] = top /\ \A a \in objs : r[a] = rank[a]
  BY <1>6
<1> HIDE DEF r
<1>8. ASSUME NEW a \in S, after[a] # NULL PROVE r[after[a]] < r[a]
  <2>1. CASE a = obj
    BY <1>1, <1>2, <1>6, <1>7, <1>8, <2>1
  <2>2. CASE a \in objs
    BY <1>1, <1>2, <1>5, <1>7, <1>8, <2>2
  <2>3. QED
    BY <2>1, <2>2
<1>9. QED
  BY <1>3, <1>4, <1>7, <1>8 DEF Linked

LEMMA LinkedElsewhere ==
    ASSUME NEW objs, NEW head, NEW links, NEW after, Linked(objs, head, links),
           \A a \in objs : after[a] = links[a]
    PROVE  Linked(objs, head, after)
BY DEF Linked

LEMMA LinkedInit ==
    ASSUME NEW objs \in SUBSET Nat, NEW links, NEW start \in objs, NEW step \in Nat,
           step > 0, NULL \notin objs, NEW top \in Nat,
           \A a \in objs : start <= a /\ a < top,
           \A a, b \in objs : a + step \notin objs /\ b + step \notin objs => a = b,
           \A a \in objs : links[a] = IF a + step \in objs THEN a + step ELSE NULL
    PROVE  Linked(objs, start, links)
<1>1. \A a \in objs : links[a] \in (objs \cup {NULL}) \ {start}
  OBVIOUS
<1>2. ASSUME NEW a \in objs, NEW b \in objs, links[a] = links[b]
      PROVE  a = b
  <2>1. CASE a + step \in objs
    <3>1. a + step = b + step
      BY <1>2, <2>1
    <3>2. QED
      BY <3>1
  <2>2. CASE a + step \notin objs
    BY <1>2, <2>2
  <2>3. QED
    BY <2>1, <2>2
<1> DEFINE rank == [a \in objs |-> top - a]
<1>3. rank \in [objs -> Nat]
  OBVIOUS
<1>4. \A a \in objs : links[a] # NULL => rank[links[a]] < rank[a]
  OBVIOUS
<1>5. QED
  BY <1>1, <1>2, <1>3, <1>4 DEF Linked

LEMMA AddressFacts ==
    /\ Addr \subseteq Nat /\ NULL \notin Addr
    /\ Start \in Nat /\ End \in Nat /\ Start < End /\ End < 2 ^ AddrBits
    /\ \A a \in Nat : a < End => a \in Addr
<1>1. 2 ^ AddrBits \in Nat \ {0}
  BY Powers
<1>2. QED
  BY <1>1, MemOpsAssumption, MemPoolAssumption DEF Addr

\* A pool that was created, and its objects.
LEMMA PoolFacts ==
    ASSUME NoOverflow, PoolsTypeOK, Layout, NEW i \in DOMAIN pools
    PROVE  /\ pools[i] \in Pool /\ i \in DOMAIN Kinds /\ pools[i].kind = Kinds[i]
           /\ pool_size(pools[i].kind) \in Nat /\ pool_size(pools[i].kind) > 0
           /\ pools[i].start \in Nat /\ Above(pools[i]) \in Nat
           /\ phys.end <= pools[i].start /\ Above(pools[i]) <= End
           /\ Objects(pools[i]) \subseteq pools[i].start .. Above(pools[i]) - 1
           /\ Objects(pools[i]) \subseteq Addr
<1> DEFINE k == Kinds[i]
           a == pools[i].start
           size == pool_size(k)
<1>1. pools[i] \in Pool /\ i \in DOMAIN Kinds /\ pools[i].kind = k /\ a \in Nat
  <2>0. pools[i] \in Pool
    BY DEF PoolsTypeOK
  <2>1. a \in Nat
    BY <2>0 DEF Pool
  <2>2. Len(pools) <= Len(Kinds) /\ pools[i].kind = k
    BY DEF Layout
  <2>3. Kinds \in Seq(Kind) /\ pools \in Seq(Pool)
    BY MemPoolAssumption DEF PoolsTypeOK, Kind
  <2>4. i \in DOMAIN Kinds
    BY <2>2, <2>3
  <2>5. QED
    BY <2>0, <2>1, <2>2, <2>4
<1>2. /\ k \in Kind /\ Stride(k) \in Nat /\ Stride(k) > 0 /\ size \in Nat /\ size > 0
      /\ End + 2 ^ k.align_order <= 2 ^ AddrBits
  BY <1>1, KindFacts
<1>3. /\ Above(pools[i]) = a + size /\ phys.end <= a /\ a + size <= End
      /\ Aligned(a, k.align_order)
  BY <1>1 DEF Layout, Above
<1>4. Objects(pools[i]) = mem_pool_objects(a, size, k.objsize, k.align_order)
  BY <1>1 DEF Objects
<1>5. a + 2 ^ k.align_order <= 2 ^ AddrBits
  <2>1. k.align_order \in 0 .. AddrBits
    BY <1>2 DEF Kind
  <2>2. 2 ^ k.align_order \in Nat /\ 2 ^ AddrBits \in Nat
    BY <2>1, Powers
  <2>3. QED
    BY <1>1, <1>2, <1>3, <2>2, AddressFacts
<1> HIDE DEF k, a, size
<1>6. Objects(pools[i]) \subseteq a .. (a + size) - 1
  BY <1>1, <1>2, <1>3, <1>4, <1>5, ObjectsInside
<1>7. Objects(pools[i]) \subseteq Addr
  BY <1>1, <1>2, <1>3, <1>6, AddressFacts
<1>8. QED
  BY <1>1, <1>2, <1>3, <1>6, <1>7 DEF k, a, size

\* No object belongs to two pools.
LEMMA ObjectsApart ==
    ASSUME NoOverflow, PoolsTypeOK, Layout
    PROVE  \A i, j \in DOMAIN pools : i # j => Objects(pools[i]) \cap Objects(pools[j]) = {}
<1>1. ASSUME NEW i \in DOMAIN pools, NEW j \in DOMAIN pools, i < j
      PROVE  Objects(pools[i]) \cap Objects(pools[j]) = {}
  <2>1. Above(pools[j]) <= pools[i].start
    BY <1>1 DEF Layout
  <2>2. /\ pools[i].start \in Nat /\ Above(pools[j]) \in Nat
        /\ Objects(pools[i]) \subseteq pools[i].start .. Above(pools[i]) - 1
        /\ Objects(pools[j]) \subseteq pools[j].start .. Above(pools[j]) - 1
        /\ Above(pools[i]) \in Nat /\ pools[j].start \in Nat
    BY PoolFacts
  <2>3. QED
    BY <2>1, <2>2
<1>2. DOMAIN pools \subseteq Nat
  BY DEF PoolsTypeOK
<1>3. ASSUME NEW i \in DOMAIN pools, NEW j \in DOMAIN pools, i # j
      PROVE  Objects(pools[i]) \cap Objects(pools[j]) = {}
  <2>1. i < j \/ j < i
    BY <1>2, <1>3
  <2>2. QED
    BY <1>1, <2>1
<1>4. QED
  BY <1>3

-----------------------------------------------------------------------------
(* The operations of the allocators.                                       *)

\* Only the free list of a pool is replaced.
LEMMA NewFreelist ==
    ASSUME NEW p \in Seq(Pool), NEW i \in DOMAIN p, NEW head \in Pointer,
           NEW q, q = [p EXCEPT ![i].freelist = head]
    PROVE  /\ q \in Seq(Pool) /\ Len(q) = Len(p) /\ DOMAIN q = DOMAIN p
           /\ q[i].freelist = head
           /\ \A j \in DOMAIN p : j # i => q[j] = p[j]
           /\ \A j \in DOMAIN p : q[j].kind = p[j].kind /\ q[j].start = p[j].start
<1>1. p[i] \in Pool
  OBVIOUS
<1> DEFINE e == [p[i] EXCEPT !.freelist = head]
<1>2. e \in Pool /\ e.freelist = head /\ e.kind = p[i].kind /\ e.start = p[i].start
  BY <1>1 DEF Pool
<1>3. q = [p EXCEPT ![i] = e]
  OBVIOUS
<1> HIDE DEF e
<1>4. q \in Seq(Pool) /\ Len(q) = Len(p) /\ DOMAIN q = DOMAIN p
  BY <1>2, <1>3
<1>5. q[i] = e /\ \A j \in DOMAIN p : j # i => q[j] = p[j]
  BY <1>3
<1>6. QED
  BY <1>2, <1>4, <1>5

SamePools ==
    /\ Len(pools') = Len(pools) /\ DOMAIN pools' = DOMAIN pools
    /\ \A j \in DOMAIN pools : /\ pools'[j].kind = pools[j].kind
                               /\ pools'[j].start = pools[j].start

LEMMA LayoutKept ==
    ASSUME Layout, SamePools, phys' = phys, malloced' = malloced
    PROVE  Layout' /\ \A j \in DOMAIN pools : Objects(pools'[j]) = Objects(pools[j])
<1>1. \A j \in DOMAIN pools : Above(pools'[j]) = Above(pools[j])
  BY DEF SamePools, Above
<1>2. \A j \in DOMAIN pools : Objects(pools'[j]) = Objects(pools[j])
  BY DEF SamePools, Objects
<1>3. Layout'
  BY <1>1 DEF Layout, SamePools
<1>4. QED
  BY <1>2, <1>3

LEMMA AllocKeeps ==
    ASSUME NoOverflow, Allocators, NEW i \in DOMAIN pools, Alloc(i)
    PROVE  /\ Allocators' /\ SamePools
           /\ \/ result' = NULL /\ used' = used /\ Objects(pools[i]) \subseteq used
              \/ /\ result' # NULL /\ result' \in Objects(pools[i]) \ used
                 /\ used' = used \cup {result'}
<1> DEFINE head == pools[i].freelist
           next == mem_pool_alloc(mem, head)
           F(j) == Objects(pools[j]) \ used
<1>0. PoolsTypeOK /\ Layout /\ FreeListsLinked
  BY DEF Allocators
<1>1. /\ result' = head /\ pools' = [pools EXCEPT ![i].freelist = next]
      /\ used' = used \cup ({head} \ {NULL})
      /\ phys' = phys /\ malloced' = malloced /\ mem' = mem
  BY DEF Alloc
<1>2. \A j \in DOMAIN pools : Objects(pools[j]) \subseteq Addr
  BY <1>0, PoolFacts
<1>3. \A j \in DOMAIN pools : Linked(F(j), pools[j].freelist, mem)
  BY <1>0 DEF FreeListsLinked
<1>4. next = IF head = NULL THEN NULL ELSE mem[head]
  BY DEF mem_pool_alloc
<1>5. /\ head \in F(i) \cup {NULL} /\ next \in F(i) \cup {NULL}
      /\ head = NULL => F(i) = {}
  <2>1. Linked(F(i), head, mem) /\ NULL \notin F(i)
    BY <1>2, <1>3, AddressFacts
  <2>2. head \in F(i) \cup {NULL} /\ (head # NULL => head \in F(i))
    BY <2>1 DEF Linked
  <2>3. head = NULL => F(i) = {}
    BY <2>1 DEF Linked
  <2>4. head # NULL => mem[head] \in F(i) \cup {NULL}
    BY <2>1, <2>2 DEF Linked
  <2>5. QED
    BY <1>4, <2>2, <2>3, <2>4
<1>6. NULL \notin Addr /\ Addr \cup {NULL} = Pointer
  BY AddressFacts DEF Pointer
<1>7. pools \in Seq(Pool) /\ used \in SUBSET Addr
  BY <1>0 DEF PoolsTypeOK
<1>8. next \in Pointer /\ head \in Pointer
  BY <1>2, <1>5, <1>6
<1> HIDE DEF next, head
<1>9. /\ pools' \in Seq(Pool) /\ SamePools /\ pools'[i].freelist = next
      /\ \A j \in DOMAIN pools : j # i => pools'[j] = pools[j]
  BY <1>1, <1>7, <1>8, NewFreelist DEF SamePools
<1>10. Layout' /\ \A j \in DOMAIN pools : Objects(pools'[j]) = Objects(pools[j])
  BY <1>0, <1>1, <1>9, LayoutKept
<1>11. used' \in SUBSET Addr
  BY <1>1, <1>6, <1>7, <1>8
<1>12. PoolsTypeOK'
  BY <1>0, <1>1, <1>8, <1>9, <1>11 DEF PoolsTypeOK
<1>13. ASSUME NEW j \in DOMAIN pools
       PROVE  Linked(Objects(pools'[j]) \ used', pools'[j].freelist, mem')
  <2>1. CASE head = NULL
    <3>1. used' = used /\ next = NULL
      BY <1>1, <1>4, <2>1
    <3>2. pools'[j].freelist = pools[j].freelist
      BY <1>9, <2>1, <3>1 DEF head
    <3>3. QED
      BY <1>1, <1>3, <1>10, <3>1, <3>2
  <2>2. CASE head # NULL /\ j = i
    <3>1. Linked(F(i) \ {head}, mem[head], mem)
      <4>1. NULL \notin F(i)
        BY <1>2, <1>6
      <4>2. Linked(F(i), head, mem)
        BY <1>3 DEF head
      <4>3. QED
        BY <2>2, <4>1, <4>2, LinkedAlloc
    <3>2. Objects(pools'[i]) \ used' = F(i) \ {head}
      BY <1>1, <1>10, <2>2
    <3>3. QED
      BY <1>1, <1>4, <1>9, <2>2, <3>1, <3>2
  <2>3. CASE head # NULL /\ j # i
    <3>1. head \in Objects(pools[i])
      BY <1>5, <2>3
    <3>2. head \notin Objects(pools[j])
      BY <1>0, <2>3, <3>1, ObjectsApart
    <3>3. Objects(pools'[j]) \ used' = F(j)
      BY <1>1, <1>10, <3>2
    <3>4. QED
      BY <1>1, <1>3, <1>9, <2>3, <3>3
  <2>4. QED
    BY <2>1, <2>2, <2>3
<1>14. FreeListsLinked'
  BY <1>9, <1>13 DEF FreeListsLinked, SamePools
<1>15. \/ result' = NULL /\ used' = used /\ Objects(pools[i]) \subseteq used
       \/ /\ result' # NULL /\ result' \in Objects(pools[i]) \ used
          /\ used' = used \cup {result'}
  BY <1>1, <1>5
<1>16. QED
  BY <1>9, <1>10, <1>12, <1>14, <1>15 DEF Allocators

\* What is freed to a pool has to be one of its objects.
LEMMA FreeKeeps ==
    ASSUME NoOverflow, Allocators, NEW i \in DOMAIN pools, NEW obj \in Objects(pools[i]),
           Free(i, obj)
    PROVE  Allocators' /\ SamePools /\ used' = used \ {obj}
<1> DEFINE head == pools[i].freelist
           F(j) == Objects(pools[j]) \ used
<1>0. PoolsTypeOK /\ Layout /\ FreeListsLinked
  BY DEF Allocators
<1>1. /\ obj \in used /\ pools' = [pools EXCEPT ![i].freelist = obj]
      /\ used' = used \ {obj} /\ mem' = [mem EXCEPT ![obj] = head]
      /\ phys' = phys /\ malloced' = malloced /\ result' = result
  BY DEF Free, mem_pool_free
<1>2. \A j \in DOMAIN pools : Objects(pools[j]) \subseteq Addr
  BY <1>0, PoolFacts
<1>3. \A j \in DOMAIN pools : Linked(F(j), pools[j].freelist, mem)
  BY <1>0 DEF FreeListsLinked
<1>4. head \in F(i) \cup {NULL}
  BY <1>3 DEF Linked
<1>5. NULL \notin Addr /\ Addr \cup {NULL} = Pointer
  BY AddressFacts DEF Pointer
<1>6. /\ pools \in Seq(Pool) /\ used \in SUBSET Addr
      /\ mem \in [Addr -> Pointer \cup Written]
  BY <1>0 DEF PoolsTypeOK
<1>7. obj \in Addr /\ obj \in Pointer /\ head \in Pointer
  BY <1>2, <1>4, <1>5
<1>8. Linked(F(i), head, mem)
  BY <1>3
<1> HIDE DEF head
<1>9. /\ pools' \in Seq(Pool) /\ SamePools /\ pools'[i].freelist = obj
      /\ \A j \in DOMAIN pools : j # i => pools'[j] = pools[j]
  <2>1. /\ pools \in Seq(Pool) /\ i \in DOMAIN pools /\ obj \in Pointer
        /\ pools' = [pools EXCEPT ![i].freelist = obj]
    BY <1>1, <1>6, <1>7
  <2>2. QED
    BY ONLY SMTT(60), <2>1, NewFreelist DEF SamePools
<1>10. Layout' /\ \A j \in DOMAIN pools : Objects(pools'[j]) = Objects(pools[j])
  BY <1>0, <1>1, <1>9, LayoutKept
<1>11. mem' \in [Addr -> Pointer \cup Written]
  BY <1>1, <1>6, <1>7
<1>12. PoolsTypeOK'
  BY <1>0, <1>1, <1>9, <1>11 DEF PoolsTypeOK
<1>13. ASSUME NEW j \in DOMAIN pools
       PROVE  Linked(Objects(pools'[j]) \ used', pools'[j].freelist, mem')
  <2>1. CASE j = i
    <3>1. Linked(F(i) \cup {obj}, obj, mem')
      <4>1. F(i) \in SUBSET Addr /\ Addr \subseteq DOMAIN mem /\ obj \in Addr \ F(i)
        BY <1>1, <1>2, <1>6, <1>7
      <4>2. QED
        BY <1>1, <1>5, <1>8, <4>1, LinkedFree
    <3>2. Objects(pools'[i]) \ used' = F(i) \cup {obj}
      BY <1>1, <1>10
    <3>3. QED
      BY <1>9, <2>1, <3>1, <3>2
  <2>2. CASE j # i
    <3>1. obj \notin Objects(pools[j])
      BY <1>0, <2>2, ObjectsApart
    <3>2. Objects(pools'[j]) \ used' = F(j)
      BY <1>1, <1>10, <3>1
    <3>3. \A a \in F(j) : mem'[a] = mem[a]
      BY <1>1, <1>2, <1>6, <3>1
    <3>4. Linked(F(j), pools[j].freelist, mem')
      BY <1>3, <3>3, LinkedElsewhere
    <3>5. QED
      BY <1>9, <2>2, <3>2, <3>4
  <2>3. QED
    BY <2>1, <2>2
<1>14. FreeListsLinked'
  BY <1>9, <1>13 DEF FreeListsLinked, SamePools
<1>15. QED
  BY <1>1, <1>9, <1>10, <1>12, <1>14 DEF Allocators

LEMMA WriteKeeps ==
    ASSUME NoOverflow, Allocators, NEW obj \in used, NEW word \in Written, Write(obj, word)
    PROVE  Allocators' /\ SamePools /\ used' = used
<1>0. PoolsTypeOK /\ Layout /\ FreeListsLinked
  BY DEF Allocators
<1>1. /\ mem' = [mem EXCEPT ![obj] = word]
      /\ phys' = phys /\ malloced' = malloced /\ pools' = pools /\ used' = used
      /\ result' = result
  BY DEF Write
<1>2. SamePools
  BY <1>1 DEF SamePools
<1>3. Layout'
  BY <1>0, <1>1, <1>2, LayoutKept
<1>4. mem' \in [Addr -> Pointer \cup Written] /\ DOMAIN mem = Addr
  BY <1>0, <1>1 DEF PoolsTypeOK
<1>5. PoolsTypeOK'
  BY <1>0, <1>1, <1>4 DEF PoolsTypeOK
<1>6. ASSUME NEW j \in DOMAIN pools
      PROVE  Linked(Objects(pools[j]) \ used, pools[j].freelist, mem')
  <2>1. Linked(Objects(pools[j]) \ used, pools[j].freelist, mem)
    BY <1>0 DEF FreeListsLinked
  <2>2. Objects(pools[j]) \subseteq Addr
    BY <1>0, PoolFacts
  <2>3. \A a \in Objects(pools[j]) \ used : mem'[a] = mem[a]
    BY <1>1, <1>4, <2>2
  <2>4. QED
    BY <2>1, <2>3, LinkedElsewhere
<1>7. FreeListsLinked'
  BY <1>1, <1>6 DEF FreeListsLinked
<1>8. QED
  BY <1>1, <1>2, <1>3, <1>5, <1>7 DEF Allocators

LEMMA MallocKeeps ==
    ASSUME NoOverflow, Allocators, NEW size \in MallocSize, malloc(size)
    PROVE  Allocators' /\ pools' = pools /\ used' = used
<1> DEFINE r == physmem_alloc_low(phys, size, malloc_order)
<1>0. PoolsTypeOK /\ Layout /\ FreeListsLinked
  BY DEF Allocators
<1>1. /\ phys' = r.pool
      /\ malloced' = IF r.addr = PHYSMEM_ALLOC_ERR THEN malloced
                     ELSE malloced \cup {[addr |-> r.addr, size |-> size]}
      /\ pools' = pools /\ mem' = mem /\ used' = used /\ result' = result
  BY DEF malloc
<1>2. /\ phys \in [start : Nat, end : Nat] /\ Start <= phys.start /\ phys.start <= phys.end
      /\ phys.end <= End /\ Start \in Nat /\ End \in Nat /\ phys.start \in Nat /\ phys.end \in Nat
  BY <1>0, AddressFacts DEF PoolsTypeOK, Layout
<1>3. size \in Nat \ {0}
  BY <1>2, MemPoolAssumption
<1>4. malloc_order \in 0 .. AddrBits
  BY MemOpsAssumption DEF NoOverflow, malloc_order
<1>5. phys.end + 2 ^ malloc_order + size <= 2 ^ AddrBits
  <2>1. End + 2 ^ malloc_order + size <= 2 ^ AddrBits
    BY DEF NoOverflow
  <2>2. 2 ^ malloc_order \in Nat /\ 2 ^ AddrBits \in Nat
    BY <1>4, Powers
  <2>3. QED
    BY <1>2, <1>3, <2>1, <2>2
<1> HIDE DEF r
<1>6. \/ /\ r.addr # PHYSMEM_ALLOC_ERR
         /\ r.addr \in Nat /\ phys.start <= r.addr /\ r.addr + size <= phys.end
         /\ r.pool = [start |-> r.addr + size, end |-> phys.end]
      \/ r.addr = PHYSMEM_ALLOC_ERR /\ r.pool = phys
  BY <1>2, <1>3, <1>4, <1>5, AllocLow DEF r
<1>7. SamePools
  BY <1>1 DEF SamePools
<1>8. CASE r.addr = PHYSMEM_ALLOC_ERR
  <2>1. phys' = phys /\ malloced' = malloced
    BY <1>1, <1>6, <1>8
  <2>2. Layout'
    BY <1>0, <1>7, <2>1, LayoutKept
  <2>3. PoolsTypeOK' /\ FreeListsLinked'
    BY <1>0, <1>1, <2>1 DEF PoolsTypeOK, FreeListsLinked
  <2>4. QED
    BY <1>1, <2>2, <2>3 DEF Allocators
<1>9. CASE r.addr # PHYSMEM_ALLOC_ERR
  <2> DEFINE new == [addr |-> r.addr, size |-> size]
  <2>1. /\ r.addr \in Nat /\ phys.start <= r.addr /\ r.addr + size <= phys.end
        /\ phys' = [start |-> r.addr + size, end |-> phys.end]
        /\ malloced' = malloced \cup {new}
    BY <1>1, <1>6, <1>9
  <2>2. /\ phys' \in [start : Nat, end : Nat]
        /\ phys'.start = r.addr + size /\ phys'.end = phys.end
    BY <1>2, <1>3, <2>1
  <2>3. new \in [addr : Nat, size : Nat] /\ new.addr = r.addr /\ new.size = size
    BY <1>3, <2>1
  <2> HIDE DEF new
  <2>4. malloced \in SUBSET [addr : Nat, size : Nat] /\ IsFiniteSet(malloced)
    BY <1>0 DEF PoolsTypeOK
  <2>5. malloced' \in SUBSET [addr : Nat, size : Nat] /\ IsFiniteSet(malloced')
    BY <2>1, <2>3, <2>4, FS_AddElement
  <2>6. PoolsTypeOK'
    BY <1>0, <1>1, <2>2, <2>5 DEF PoolsTypeOK
  <2>7. ASSUME NEW s \in malloced
        PROVE  /\ s.addr \in Nat /\ s.size \in Nat \ {0} /\ Start <= s.addr
               /\ s.addr + s.size <= phys.start
    BY <1>0, <2>4 DEF Layout
  <2>8. Layout'
    <3>1. Start <= phys'.start /\ phys'.start <= phys'.end /\ phys'.end <= End
      BY <1>2, <1>3, <2>1, <2>2
    <3>2. /\ Len(pools') <= Len(Kinds)
          /\ \A i \in DOMAIN pools' :
                /\ pools'[i].kind = Kinds[i]
                /\ Aligned(pools'[i].start, Kinds[i].align_order)
                /\ phys'.end <= pools'[i].start /\ Above(pools'[i]) <= End
          /\ \A i, j \in DOMAIN pools' : i < j => Above(pools'[j]) <= pools'[i].start
      BY <1>0, <1>1, <2>2 DEF Layout
    <3>3. \A s \in malloced' :
            s.size \in Nat \ {0} /\ Start <= s.addr /\ s.addr + s.size <= phys'.start
      BY <1>2, <1>3, <2>1, <2>2, <2>3, <2>7
    <3>4. \A s, q \in malloced' :
            s # q => s.addr + s.size <= q.addr \/ q.addr + q.size <= s.addr
      <4>1. \A s, q \in malloced :
              s # q => s.addr + s.size <= q.addr \/ q.addr + q.size <= s.addr
        BY <1>0 DEF Layout
      <4>2. \A s \in malloced : s.addr + s.size <= new.addr
        BY <1>2, <2>1, <2>3, <2>7
      <4>3. QED
        BY <2>1, <4>1, <4>2
    <3>5. QED
      BY <3>1, <3>2, <3>3, <3>4 DEF Layout
  <2>9. FreeListsLinked'
    BY <1>0, <1>1 DEF FreeListsLinked
  <2>10. QED
    BY <1>1, <2>6, <2>8, <2>9 DEF Allocators
<1>10. QED
  BY <1>8, <1>9

LEMMA InitPoolKeeps ==
    ASSUME NoOverflow, Allocators, used = {}, InitPool
    PROVE  /\ Allocators' /\ used' = {} /\ result' = result
           /\ Len(pools') = Len(pools) + 1
           /\ \A i \in DOMAIN pools : pools'[i] = pools[i]
           /\ Objects(pools'[Len(pools) + 1]) # {}
           /\ Objects(pools'[Len(pools) + 1]) \subseteq Addr
           /\ \A i \in DOMAIN pools :
                Objects(pools'[Len(pools) + 1]) \cap Objects(pools[i]) = {}
<1> DEFINE n == Len(pools) + 1
           k == Kinds[n]
           size == pool_size(k)
           r == physmem_alloc(phys, size, k.align_order)
           new == [kind |-> k, start |-> r.addr, freelist |-> round_up(r.addr, k.align_order)]
           objs == mem_pool_objects(r.addr, size, k.objsize, k.align_order)
<1>0. PoolsTypeOK /\ Layout /\ FreeListsLinked
  BY DEF Allocators
<1>1. /\ Len(pools) < Len(Kinds) /\ size <= phys.end /\ r.addr # PHYSMEM_ALLOC_ERR
      /\ phys' = r.pool /\ pools' = Append(pools, new)
      /\ mem' = mem_pool_init(mem, r.addr, size, k.objsize, k.align_order)
      /\ malloced' = malloced /\ used' = used /\ result' = result
  BY DEF InitPool
<1>2. /\ phys \in [start : Nat, end : Nat] /\ Start <= phys.start /\ phys.start <= phys.end
      /\ phys.end <= End /\ Start \in Nat /\ End \in Nat /\ phys.start \in Nat /\ phys.end \in Nat
      /\ End < 2 ^ AddrBits
  BY <1>0, AddressFacts DEF PoolsTypeOK, Layout
<1>3. pools \in Seq(Pool) /\ Kinds \in Seq(Kind) /\ mem \in [Addr -> Pointer \cup Written]
  BY <1>0, MemPoolAssumption DEF PoolsTypeOK, Kind
<1>4. n \in DOMAIN Kinds /\ n \in Nat
  BY <1>1, <1>3
<1>5. /\ k \in Kind /\ Stride(k) \in Nat /\ Stride(k) > 0 /\ size \in Nat /\ size > 0
      /\ End + 2 ^ k.align_order <= 2 ^ AddrBits
  BY <1>4, KindFacts
<1>6. k.align_order \in 0 .. AddrBits
  BY <1>5 DEF Kind
<1>7. 2 ^ k.align_order \in Nat /\ 2 ^ AddrBits \in Nat
  BY <1>6, Powers
<1>8. phys.end < 2 ^ AddrBits
  BY <1>2, <1>7
<1>9. mem' = [a \in Addr |-> IF a \notin objs THEN mem[a]
                             ELSE IF a + Stride(k) \in objs THEN a + Stride(k) ELSE NULL]
  BY <1>1, <1>3 DEF mem_pool_init, Stride
<1>10. new.kind = k /\ new.start = r.addr /\ new.freelist = round_up(r.addr, k.align_order)
  OBVIOUS
<1>11. Above(new) = r.addr + size
  BY DEF Above
<1>12. Objects(new) = objs
  BY DEF Objects
<1>13. new \in Pool <=> /\ k \in Kind /\ r.addr \in Nat
                        /\ round_up(r.addr, k.align_order) \in Pointer
  BY DEF Pool
<1> HIDE DEF k, size, r, new, objs
<1>14. /\ r.addr \in Nat /\ phys.start <= r.addr /\ r.addr + size <= phys.end
       /\ Aligned(r.addr, k.align_order)
       /\ r.pool = [start |-> phys.start, end |-> r.addr]
  BY <1>1, <1>2, <1>5, <1>6, <1>8, AllocHigh DEF r
<1>15. r.addr + 2 ^ k.align_order <= 2 ^ AddrBits
  BY <1>2, <1>5, <1>7, <1>14
<1>16. /\ round_up(r.addr, k.align_order) = r.addr /\ r.addr \in objs
       /\ objs \subseteq r.addr .. (r.addr + size) - 1
  BY <1>5, <1>14, <1>15, ObjectsInside DEF objs
<1>17. objs \subseteq Addr /\ NULL \notin objs /\ Addr \subseteq Nat
  <2>1. \A a \in objs : a \in Nat /\ a < End
    BY <1>2, <1>5, <1>14, <1>16
  <2>2. /\ Addr \subseteq Nat /\ NULL \notin Addr
        /\ \A a \in Nat : a < End => a \in Addr
    BY AddressFacts
  <2>3. QED
    BY ONLY <2>1, <2>2
<1>18. new \in Pool /\ new.freelist = r.addr
  BY <1>5, <1>10, <1>13, <1>14, <1>16, <1>17 DEF Pointer
<1>19. /\ pools' \in Seq(Pool) /\ Len(pools') = n /\ DOMAIN pools' = 1 .. n
       /\ pools'[n] = new /\ \A i \in DOMAIN pools : pools'[i] = pools[i]
       /\ DOMAIN pools = 1 .. Len(pools) /\ Len(pools) \in Nat
  BY <1>1, <1>3, <1>18
<1>20. \A i \in 1 .. n : i = n \/ i \in DOMAIN pools
  BY <1>19
<1> HIDE DEF n
<1>21. /\ phys' \in [start : Nat, end : Nat] /\ phys'.start = phys.start
       /\ phys'.end = r.addr
  BY <1>1, <1>2, <1>14
<1>22. mem' \in [Addr -> Pointer \cup Written]
  BY <1>3, <1>9, <1>17 DEF Pointer
<1>23. PoolsTypeOK'
  BY <1>0, <1>1, <1>19, <1>21, <1>22 DEF PoolsTypeOK
<1>24. ASSUME NEW i \in DOMAIN pools
       PROVE  /\ pools[i].start \in Nat /\ Above(pools[i]) \in Nat
              /\ phys.end <= pools[i].start /\ Above(pools[i]) <= End
              /\ Objects(pools[i]) \subseteq pools[i].start .. Above(pools[i]) - 1
              /\ Objects(pools[i]) \subseteq Addr
  BY <1>0, PoolFacts
<1>25. Layout'
  <2>1. Start <= phys'.start /\ phys'.start <= phys'.end /\ phys'.end <= End
    BY <1>2, <1>5, <1>14, <1>21
  <2>2. Len(pools') <= Len(Kinds)
    BY <1>1, <1>3, <1>19 DEF n
  <2>3. ASSUME NEW i \in DOMAIN pools'
        PROVE  /\ pools'[i].kind = Kinds[i]
               /\ Aligned(pools'[i].start, Kinds[i].align_order)
               /\ phys'.end <= pools'[i].start /\ Above(pools'[i]) <= End
    <3>1. CASE i = n
      <4>1. k = Kinds[n]
        BY DEF k, n
      <4>2. r.addr + size <= End
        BY <1>2, <1>5, <1>14
      <4>3. QED
        BY <1>10, <1>11, <1>14, <1>19, <1>21, <3>1, <4>1, <4>2
    <3>2. CASE i \in DOMAIN pools
      <4>1. /\ pools[i].kind = Kinds[i]
            /\ Aligned(pools[i].start, Kinds[i].align_order)
        BY <1>0, <3>2 DEF Layout
      <4>2. phys'.end <= pools[i].start
        BY <1>2, <1>5, <1>14, <1>21, <1>24, <3>2
      <4>3. QED
        BY <1>19, <1>24, <3>2, <4>1, <4>2
    <3>3. QED
      BY <1>19, <1>20, <3>1, <3>2
  <2>4. ASSUME NEW i \in DOMAIN pools', NEW j \in DOMAIN pools', i < j
        PROVE  Above(pools'[j]) <= pools'[i].start
    <3>1. i \in DOMAIN pools
      BY <1>4, <1>19, <1>20, <2>4
    <3>2. CASE j = n
      <4>1. r.addr + size <= pools[i].start
        BY <1>2, <1>5, <1>14, <1>24, <3>1
      <4>2. QED
        BY <1>11, <1>19, <3>1, <3>2, <4>1
    <3>3. CASE j \in DOMAIN pools
      BY <1>0, <1>19, <2>4, <3>1, <3>3 DEF Layout
    <3>4. QED
      BY <1>19, <1>20, <3>2, <3>3
  <2>5. /\ \A s \in malloced' :
            s.size \in Nat \ {0} /\ Start <= s.addr /\ s.addr + s.size <= phys'.start
        /\ \A s, q \in malloced' :
            s # q => s.addr + s.size <= q.addr \/ q.addr + q.size <= s.addr
    BY <1>0, <1>1, <1>21 DEF Layout
  <2>6. QED
    BY <2>1, <2>2, <2>3, <2>4, <2>5 DEF Layout
<1>26. ASSUME NEW i \in DOMAIN pools'
       PROVE  Linked(Objects(pools'[i]) \ used', pools'[i].freelist, mem')
  <2>1. CASE i = n
    <3>1. \A a \in objs :
            mem'[a] = IF a + Stride(k) \in objs THEN a + Stride(k) ELSE NULL
      BY <1>9, <1>17
    <3>2. \A a \in objs : r.addr <= a /\ a < phys.end
      BY <1>2, <1>5, <1>14, <1>16
    <3>3. objs \in SUBSET Nat
      BY <1>17
    <3>4. \A a, b \in objs :
            a + Stride(k) \notin objs /\ b + Stride(k) \notin objs => a = b
      BY <1>5, <1>14, <1>15, LastObject DEF objs
    <3>5. Linked(objs, r.addr, mem')
      BY <1>2, <1>5, <1>16, <1>17, <3>1, <3>2, <3>3, <3>4, LinkedInit
    <3>6. QED
      BY <1>1, <1>12, <1>18, <1>19, <2>1, <3>5
  <2>2. CASE i \in DOMAIN pools
    <3>1. Linked(Objects(pools[i]) \ used, pools[i].freelist, mem)
      BY <1>0, <2>2 DEF FreeListsLinked
    <3>2. ASSUME NEW a \in Objects(pools[i]) PROVE mem'[a] = mem[a]
      <4>1. a \in Nat /\ phys.end <= a /\ a \in Addr
        BY <1>2, <1>17, <1>24, <2>2
      <4>2. a \notin objs
        BY <1>2, <1>5, <1>14, <1>16, <4>1
      <4>3. QED
        BY <1>9, <4>1, <4>2
    <3>3. QED
      BY <1>1, <1>19, <2>2, <3>1, <3>2, LinkedElsewhere
  <2>3. QED
    BY <1>19, <1>20, <2>1, <2>2
<1>27. FreeListsLinked'
  BY <1>26 DEF FreeListsLinked
<1>28. \A i \in DOMAIN pools : objs \cap Objects(pools[i]) = {}
  BY <1>2, <1>5, <1>14, <1>16, <1>24
<1>29. Allocators' /\ used' = {} /\ result' = result
  BY <1>1, <1>23, <1>25, <1>27 DEF Allocators
<1>30. Objects(pools'[n]) = objs /\ objs # {}
  BY <1>12, <1>16, <1>19
<1>31. QED
  BY <1>17, <1>19, <1>28, <1>29, <1>30 DEF n

-----------------------------------------------------------------------------
(* The holders of the objects.                                             *)

Call == [op : Place, buf : Addr, size : Nat]

Entry == [addr : Pointer, len : Nat, asked : Nat]

BuffersTypeOK ==
    /\ DOMAIN buf \in SUBSET Addr /\ IsFiniteSet(DOMAIN buf)
    /\ buf \in [DOMAIN buf -> Entry]
    /\ calls \in Seq(Call) /\ Len(calls) <= 2

CallsDiffer == \A i, j \in DOMAIN calls : calls[i].buf = calls[j].buf => i = j

LEMMA Types == TypeOK <=> PoolsTypeOK /\ BuffersTypeOK
BY DEF TypeOK, BuffersTypeOK, Entry, Call

LEMMA EnterFacts ==
    ASSUME calls \in Seq(Call), Len(calls) < 2, CallsDiffer,
           NEW op \in Place, NEW b \in Addr \ Calling, NEW n \in Nat, Enter(op, b, n)
    PROVE  /\ calls' \in Seq(Call) /\ Len(calls') <= 2 /\ CallsDiffer'
           /\ Calling' = Calling \cup {b}
<1> DEFINE c == [op |-> op, buf |-> b, size |-> n]
<1>1. c \in Call /\ c.buf = b
  BY DEF Call
<1>2. calls' = <<c>> \o calls
  BY DEF Enter
<1> HIDE DEF c
<1>3. <<c>> \in Seq(Call) /\ Len(<<c>>) = 1 /\ <<c>>[1] = c
  BY <1>1
<1>4. /\ calls' \in Seq(Call) /\ Len(calls') = 1 + Len(calls)
      /\ calls'[1] = c /\ \A i \in 1 .. Len(calls) : calls'[i + 1] = calls[i]
  BY <1>2, <1>3
<1>5. DOMAIN calls = 1 .. Len(calls) /\ DOMAIN calls' = 1 .. 1 + Len(calls) /\ Len(calls) \in Nat
  BY <1>4
<1>6. \A i \in DOMAIN calls' :
        \/ i = 1 /\ calls'[i].buf = b
        \/ i - 1 \in DOMAIN calls /\ calls'[i].buf = calls[i - 1].buf
  BY <1>1, <1>4, <1>5
<1>7. CallsDiffer'
  BY <1>5, <1>6 DEF CallsDiffer, Calling
<1>8. Calling' = Calling \cup {b}
  <2>1. Calling' \subseteq Calling \cup {b}
    BY <1>6 DEF Calling
  <2>2. ASSUME NEW i \in DOMAIN calls PROVE calls[i].buf \in Calling'
    <3>1. i + 1 \in DOMAIN calls' /\ calls'[i + 1] = calls[i]
      BY <1>4, <1>5
    <3>2. QED
      BY <3>1 DEF Calling
  <2>3. b \in Calling'
    <3>1. 1 \in DOMAIN calls'
      BY <1>5
    <3>2. QED
      BY <1>1, <1>4, <3>1 DEF Calling
  <2>4. QED
    BY <2>1, <2>2, <2>3 DEF Calling
<1>9. QED
  BY <1>4, <1>7, <1>8

LEMMA ReturnsFacts ==
    ASSUME calls \in Seq(Call), Len(calls) <= 2, CallsDiffer, calls # << >>, Returns
    PROVE  /\ calls' \in Seq(Call) /\ Len(calls') <= 2 /\ CallsDiffer'
           /\ Head(calls) \in Call /\ Head(calls).buf \in Calling
           /\ Calling' = Calling \ {Head(calls).buf}
<1>1. /\ DOMAIN calls = 1 .. Len(calls) /\ Len(calls) \in Nat /\ Len(calls) > 0
      /\ Head(calls) = calls[1] /\ calls[1] \in Call
  OBVIOUS
<1>2. calls' = Tail(calls)
  BY DEF Returns
<1>3. /\ calls' \in Seq(Call) /\ Len(calls') = Len(calls) - 1
      /\ \A i \in 1 .. Len(calls) - 1 : calls'[i] = calls[i + 1]
  BY <1>1, <1>2
<1>4. DOMAIN calls' = 1 .. Len(calls) - 1
  BY <1>3
<1>5. \A i \in DOMAIN calls' : i + 1 \in DOMAIN calls /\ i \in Nat /\ calls'[i] = calls[i + 1]
  BY <1>1, <1>3, <1>4
<1>6. \A i, j \in DOMAIN calls' : calls'[i].buf = calls'[j].buf => i + 1 = j + 1
  BY <1>5 DEF CallsDiffer
<1>7. CallsDiffer'
  BY <1>5, <1>6 DEF CallsDiffer
<1>8. 1 \in DOMAIN calls /\ Head(calls).buf \in Calling
  BY <1>1 DEF Calling
<1>9. \A i \in DOMAIN calls' : calls'[i].buf \in Calling \ {Head(calls).buf}
  <2>1. \A i \in DOMAIN calls' : i + 1 # 1
    BY <1>5
  <2>2. QED
    BY <1>1, <1>5, <1>8, <2>1 DEF Calling, CallsDiffer
<1>10. ASSUME NEW i \in DOMAIN calls, calls[i].buf # Head(calls).buf
       PROVE  calls[i].buf \in Calling'
  <2>1. i # 1
    BY <1>1, <1>10
  <2>2. i - 1 \in DOMAIN calls' /\ (i - 1) + 1 = i
    BY <1>1, <1>4, <2>1
  <2>3. calls'[i - 1] = calls[i]
    BY <1>5, <2>2
  <2>4. QED
    BY <2>2, <2>3 DEF Calling
<1>11. Calling' = Calling \ {Head(calls).buf}
  BY <1>9, <1>10 DEF Calling
<1>12. QED
  BY <1>1, <1>3, <1>7, <1>8, <1>11

LEMMA AcquireFacts ==
    ASSUME BuffersTypeOK, NEW b \in Addr \ DOMAIN buf, NEW a \in Pointer, NEW n \in Nat,
           Acquire(b, a, n)
    PROVE  /\ DOMAIN buf' = DOMAIN buf \cup {b} /\ DOMAIN buf' \in SUBSET Addr
           /\ IsFiniteSet(DOMAIN buf') /\ buf' \in [DOMAIN buf' -> Entry]
           /\ buf'[b].addr = a /\ buf'[b].asked = n
           /\ \A c \in DOMAIN buf : buf'[c] = buf[c]
<1> DEFINE e == [addr |-> a, len |-> n, asked |-> n]
<1>1. e \in Entry /\ e.addr = a /\ e.asked = n
  BY DEF Entry
<1>2. buf' = [c \in DOMAIN buf \cup {b} |-> IF c = b THEN e ELSE buf[c]]
  BY DEF Acquire
<1> HIDE DEF e
<1>3. /\ DOMAIN buf \in SUBSET Addr /\ IsFiniteSet(DOMAIN buf)
      /\ \A c \in DOMAIN buf : buf[c] \in Entry
  BY DEF BuffersTypeOK
<1>4. DOMAIN buf' = DOMAIN buf \cup {b} /\ DOMAIN buf' \in SUBSET Addr
  BY <1>2, <1>3
<1>5. IsFiniteSet(DOMAIN buf')
  BY <1>3, <1>4, FS_AddElement
<1>6. buf' \in [DOMAIN buf' -> Entry]
  BY <1>1, <1>2, <1>3, <1>4
<1>7. buf'[b] = e /\ \A c \in DOMAIN buf : buf'[c] = buf[c]
  BY <1>2
<1>8. QED
  BY <1>1, <1>4, <1>5, <1>6, <1>7

LEMMA AbandonFacts ==
    ASSUME BuffersTypeOK, NEW b \in DOMAIN buf, Abandon(b)
    PROVE  /\ DOMAIN buf' = DOMAIN buf \ {b} /\ DOMAIN buf' \in SUBSET Addr
           /\ IsFiniteSet(DOMAIN buf') /\ buf' \in [DOMAIN buf' -> Entry]
           /\ \A c \in DOMAIN buf' : buf'[c] = buf[c]
<1>1. buf' = [c \in DOMAIN buf \ {b} |-> buf[c]]
  BY DEF Abandon, Restrict
<1>2. /\ DOMAIN buf \in SUBSET Addr /\ IsFiniteSet(DOMAIN buf)
      /\ \A c \in DOMAIN buf : buf[c] \in Entry
  BY DEF BuffersTypeOK
<1>3. DOMAIN buf' = DOMAIN buf \ {b} /\ DOMAIN buf' \in SUBSET Addr
  BY <1>1, <1>2
<1>4. IsFiniteSet(DOMAIN buf')
  BY <1>2, <1>3, FS_Subset
<1>5. buf' \in [DOMAIN buf' -> Entry] /\ \A c \in DOMAIN buf' : buf'[c] = buf[c]
  BY <1>1, <1>2
<1>6. QED
  BY <1>3, <1>4, <1>5

LEMMA SameObjects ==
    ASSUME SamePools
    PROVE  \A j \in DOMAIN pools : Objects(pools'[j]) = Objects(pools[j])
BY DEF SamePools, Objects

Ready == Len(pools) = Len(Kinds)

LEMMA ReadyFacts ==
    ASSUME NoOverflow, ThreePools, IInv, Ready
    PROVE  /\ {STRUCT, LARGE, SMALL} \subseteq DOMAIN pools
           /\ DOMAIN buf \cup Calling \subseteq Objects(pools[STRUCT])
           /\ DOMAIN buf \cup Calling \subseteq used
           /\ \A b \in WithMemory :
                /\ dmapool_find_pool(buf[b].asked) \in DOMAIN pools
                /\ buf[b].addr \in used /\ buf[b].addr \notin DOMAIN buf \cup Calling
           /\ \A i \in DOMAIN pools : Objects(pools[i]) \subseteq Addr
           /\ NULL \notin Addr
<1>1. PoolsTypeOK /\ Layout /\ Held
  BY DEF IInv, TypeOK
<1>2. pools \in Seq(Pool) /\ Len(pools) = 3
  BY <1>1 DEF PoolsTypeOK, Ready, ThreePools
<1>3. {STRUCT, LARGE, SMALL} \subseteq DOMAIN pools
  BY <1>2 DEF STRUCT, LARGE, SMALL
<1>4. /\ DOMAIN buf \cup Calling \subseteq Objects(pools[STRUCT])
      /\ DOMAIN buf \cup Calling \subseteq used
  BY <1>1 DEF Held, Ready
<1>5. ASSUME NEW b \in WithMemory
      PROVE  /\ dmapool_find_pool(buf[b].asked) \in DOMAIN pools
             /\ buf[b].addr \in used /\ buf[b].addr \notin DOMAIN buf \cup Calling
  <2> DEFINE i == dmapool_find_pool(buf[b].asked)
  <2>1. i \in {LARGE, SMALL} /\ buf[b].addr \in Objects(pools[i])
    BY <1>1 DEF Held
  <2>2. buf[b].addr \in used
    BY <1>1 DEF Held
  <2>3. Objects(pools[i]) \cap Objects(pools[STRUCT]) = {}
    <3>1. i # STRUCT /\ i \in DOMAIN pools /\ STRUCT \in DOMAIN pools
      BY <1>3, <2>1 DEF STRUCT, LARGE, SMALL
    <3>2. QED
      BY <1>1, <3>1, ObjectsApart
  <2>4. QED
    BY <1>3, <1>4, <2>1, <2>2, <2>3
<1>6. \A i \in DOMAIN pools : Objects(pools[i]) \subseteq Addr
  BY <1>1, PoolFacts
<1>7. QED
  BY <1>3, <1>4, <1>5, <1>6, AddressFacts

\* Neither the objects in use nor their holders change.
LEMMA HeldKept ==
    ASSUME NoOverflow, ThreePools, IInv, SamePools, used' = used, Calling' = Calling, CallsDiffer',
           calls = << >> => calls' = << >>,
           DOMAIN buf' = DOMAIN buf,
           \A b \in DOMAIN buf : buf'[b].addr = buf[b].addr /\ buf'[b].asked = buf[b].asked
    PROVE  Held'
<1>1. Held
  BY DEF IInv
<1>2. WithMemory' = WithMemory /\ \A b \in WithMemory : b \in DOMAIN buf
  BY DEF WithMemory
<1>3. Len(pools') = Len(pools)
  BY DEF SamePools
<1>4. {buf'[b].addr : b \in WithMemory} = {buf[b].addr : b \in WithMemory}
  BY <1>2
<1>5. CASE Ready
  <2>1. /\ {STRUCT, LARGE, SMALL} \subseteq DOMAIN pools
        /\ \A b \in WithMemory : dmapool_find_pool(buf[b].asked) \in DOMAIN pools
    BY <1>5, ReadyFacts
  <2>2. \A j \in DOMAIN pools : Objects(pools'[j]) = Objects(pools[j])
    BY SameObjects
  <2>3. ASSUME NEW b \in WithMemory
        PROVE  /\ dmapool_find_pool(buf'[b].asked) \in {LARGE, SMALL}
               /\ buf'[b].addr \in Objects(pools'[dmapool_find_pool(buf'[b].asked)])
    BY <1>1, <1>2, <2>1, <2>2 DEF Held
  <2>4. \A b, c \in WithMemory : buf'[b].addr = buf'[c].addr => b = c
    BY <1>1, <1>2 DEF Held
  <2>5. DOMAIN buf \cup Calling \subseteq Objects(pools'[STRUCT])
    BY <1>1, <1>5, <2>1, <2>2 DEF Held, Ready
  <2>6. used = DOMAIN buf \cup Calling \cup {buf'[b].addr : b \in WithMemory}
    BY <1>1, <1>4 DEF Held
  <2>7. DOMAIN buf \cap Calling = {}
    BY <1>1 DEF Held
  <2>8. QED
    BY <1>2, <1>3, <1>5, <2>3, <2>4, <2>5, <2>6, <2>7 DEF Held, CallsDiffer, Ready
<1>6. CASE ~ Ready
  <2>1. used = {} /\ calls = << >> /\ DOMAIN buf = {} /\ Calling = {} /\ WithMemory = {}
    BY <1>1, <1>6 DEF Held, Ready, WithMemory
  <2>2. QED
    BY <1>2, <1>3, <1>6, <2>1 DEF Held, CallsDiffer, Ready
<1>7. QED
  BY <1>5, <1>6

-----------------------------------------------------------------------------
(* One lemma per action of Buffers.                                        *)

LEMMA IInvParts ==
    ASSUME IInv
    PROVE  Allocators /\ BuffersTypeOK /\ Held /\ CallsDiffer
BY Types DEF IInv, Allocators, Held, CallsDiffer

LEMMA IInvFrom ==
    ASSUME Allocators', BuffersTypeOK', Held'
    PROVE  IInv'
BY DEF IInv, Allocators, TypeOK, BuffersTypeOK, Entry, Call

\* A call leaves the buffers and the calls alone and changes at most free lists.
LEMMA Unheld ==
    ASSUME NoOverflow, ThreePools, IInv, Allocators', SamePools, used' = used, buf' = buf, calls' = calls
    PROVE  IInv'
<1>1. BuffersTypeOK /\ CallsDiffer
  BY IInvParts
<1>2. BuffersTypeOK' /\ CallsDiffer' /\ Calling' = Calling
  BY <1>1 DEF BuffersTypeOK, CallsDiffer, Calling
<1>3. Held'
  BY <1>2, HeldKept
<1>4. QED
  BY <1>2, <1>3, IInvFrom

LEMMA StepStart ==
    ASSUME NoOverflow, ThreePools, IInv, Start_up
    PROVE  IInv'
<1>1. Allocators /\ Held /\ BuffersTypeOK /\ CallsDiffer
  BY IInvParts
<1>2. buf' = buf /\ calls' = calls
  BY DEF Start_up
<1>3. CASE InitPool
  <2>1. used = {}
    <3>1. Len(pools) < Len(Kinds)
      BY <1>3 DEF InitPool
    <3>2. Len(pools) \in Nat /\ Len(Kinds) \in Nat
      BY <1>1, MemPoolAssumption DEF Allocators, PoolsTypeOK
    <3>3. QED
      BY <1>1, <3>1, <3>2 DEF Held
  <2>2. Allocators' /\ used' = {}
    BY <1>1, <1>3, <2>1, InitPoolKeeps
  <2>3. DOMAIN buf = {} /\ Calling = {} /\ WithMemory = {} /\ calls = << >>
    BY <1>1, <2>1 DEF Held, WithMemory, Start_up
  <2>4. Calling' = {} /\ WithMemory' = {} /\ DOMAIN buf' = {} /\ DOMAIN calls' = {}
    BY <1>2, <2>3 DEF Calling, WithMemory
  <2>5. Held'
    BY <1>2, <2>2, <2>3, <2>4 DEF Held
  <2>6. BuffersTypeOK'
    BY <1>1, <1>2 DEF BuffersTypeOK
  <2>7. QED
    BY <2>2, <2>5, <2>6, IInvFrom
<1>4. ASSUME NEW size \in MallocSize, malloc(size) PROVE IInv'
  <2>1. Allocators' /\ pools' = pools /\ used' = used
    BY <1>1, <1>4, MallocKeeps
  <2>2. SamePools
    BY <2>1 DEF SamePools
  <2>3. QED
    BY <1>2, <2>1, <2>2, Unheld
<1>5. QED
  BY <1>3, <1>4 DEF Start_up

LEMMA StepWrite ==
    ASSUME NoOverflow, ThreePools, IInv, WriteObject
    PROVE  IInv'
<1>1. PICK obj \in used, word \in Written : Write(obj, word)
  BY DEF WriteObject
<1>2. Allocators' /\ SamePools /\ used' = used
  BY <1>1, IInvParts, WriteKeeps
<1>3. QED
  BY <1>2, Unheld DEF WriteObject

LEMMA StepAllocBuffer ==
    ASSUME NoOverflow, ThreePools, IInv, AllocBuffer
    PROVE  IInv'
<1>1. Allocators /\ Held /\ BuffersTypeOK /\ CallsDiffer
  BY IInvParts
<1>2. Ready /\ Alloc(STRUCT) /\ calls' = calls
  BY DEF AllocBuffer, MayCall, buffer_alloc, Ready
<1>3. /\ STRUCT \in DOMAIN pools
      /\ DOMAIN buf \cup Calling \subseteq used
      /\ \A b \in WithMemory : dmapool_find_pool(buf[b].asked) \in DOMAIN pools
      /\ \A i \in DOMAIN pools : Objects(pools[i]) \subseteq Addr
  BY <1>2, ReadyFacts
<1>4. /\ Allocators' /\ SamePools
      /\ \/ result' = NULL /\ used' = used
         \/ /\ result' # NULL /\ result' \in Objects(pools[STRUCT]) \ used
            /\ used' = used \cup {result'}
  BY <1>1, <1>2, <1>3, AllocKeeps
<1>5. CASE result' = NULL
  <2>1. used' = used /\ buf' = buf
    BY <1>4, <1>5 DEF AllocBuffer
  <2>2. QED
    BY <1>2, <1>4, <2>1, Unheld
<1>6. CASE result' # NULL
  <2> DEFINE b == result'
  <2>1. b \in Objects(pools[STRUCT]) \ used /\ used' = used \cup {b} /\ Acquire(b, NULL, 0)
    BY <1>4, <1>6 DEF AllocBuffer
  <2>2. b \in Addr \ DOMAIN buf /\ NULL \in Pointer
    BY <1>3, <2>1 DEF Pointer
  <2> HIDE DEF b
  <2>3. /\ DOMAIN buf' = DOMAIN buf \cup {b} /\ DOMAIN buf' \in SUBSET Addr
        /\ IsFiniteSet(DOMAIN buf') /\ buf' \in [DOMAIN buf' -> Entry]
        /\ buf'[b].addr = NULL /\ \A c \in DOMAIN buf : buf'[c] = buf[c]
    BY <1>1, <2>1, <2>2, AcquireFacts
  <2>4. BuffersTypeOK'
    BY <1>1, <1>2, <2>3 DEF BuffersTypeOK
  <2>5. WithMemory' = WithMemory /\ \A c \in WithMemory : buf'[c] = buf[c]
    BY <2>3 DEF WithMemory
  <2>6. \A j \in DOMAIN pools : Objects(pools'[j]) = Objects(pools[j])
    BY <1>4, SameObjects
  <2>7. Calling' = Calling /\ CallsDiffer' /\ Len(pools') = Len(pools)
    BY <1>1, <1>2, <1>4 DEF Calling, CallsDiffer, SamePools
  <2>8. {buf'[c].addr : c \in WithMemory'} = {buf[c].addr : c \in WithMemory}
    BY <2>5
  <2>9. used' = DOMAIN buf' \cup Calling' \cup {buf'[c].addr : c \in WithMemory'}
    BY <1>1, <2>1, <2>3, <2>7, <2>8 DEF Held
  <2>10. DOMAIN buf' \cup Calling' \subseteq Objects(pools'[STRUCT])
    BY <1>1, <1>2, <1>3, <2>1, <2>3, <2>6, <2>7 DEF Held, Ready
  <2>11. DOMAIN buf' \cap Calling' = {}
    BY <1>1, <1>3, <2>1, <2>3, <2>7 DEF Held
  <2>12. ASSUME NEW c \in WithMemory'
         PROVE  /\ dmapool_find_pool(buf'[c].asked) \in {LARGE, SMALL}
                /\ buf'[c].addr \in Objects(pools'[dmapool_find_pool(buf'[c].asked)])
    BY <1>1, <1>3, <2>5, <2>6 DEF Held
  <2>13. \A c, d \in WithMemory' : buf'[c].addr = buf'[d].addr => c = d
    BY <1>1, <2>5 DEF Held
  <2>14. Held'
    BY <1>2, <2>7, <2>9, <2>10, <2>11, <2>12, <2>13 DEF Held, CallsDiffer, Ready
  <2>15. QED
    BY <1>4, <2>4, <2>14, IInvFrom
<1>7. QED
  BY <1>5, <1>6

LEMMA StepFreeBuffer ==
    ASSUME NoOverflow, ThreePools, IInv, NEW b \in DOMAIN buf, FreeBuffer(b)
    PROVE  IInv'
<1>1. Allocators /\ Held /\ BuffersTypeOK /\ CallsDiffer
  BY IInvParts
<1>2. /\ Ready /\ Free(STRUCT, b) /\ calls' = calls /\ Abandon(b)
      /\ b \in DOMAIN buf /\ buf[b].addr = NULL
  BY DEF FreeBuffer, MayCall, Ready
<1>3. /\ STRUCT \in DOMAIN pools
      /\ DOMAIN buf \cup Calling \subseteq Objects(pools[STRUCT])
      /\ \A c \in WithMemory :
            /\ dmapool_find_pool(buf[c].asked) \in DOMAIN pools
            /\ buf[c].addr \notin DOMAIN buf \cup Calling
  BY <1>2, ReadyFacts
<1>4. Allocators' /\ SamePools /\ used' = used \ {b}
  BY <1>1, <1>2, <1>3, FreeKeeps
<1>5. /\ DOMAIN buf' = DOMAIN buf \ {b} /\ DOMAIN buf' \in SUBSET Addr
      /\ IsFiniteSet(DOMAIN buf') /\ buf' \in [DOMAIN buf' -> Entry]
      /\ \A c \in DOMAIN buf' : buf'[c] = buf[c]
  BY <1>1, <1>2, AbandonFacts
<1>6. BuffersTypeOK'
  BY <1>1, <1>2, <1>5 DEF BuffersTypeOK
<1>7. WithMemory' = WithMemory /\ \A c \in WithMemory : buf'[c] = buf[c]
  BY <1>2, <1>5 DEF WithMemory
<1>8. \A j \in DOMAIN pools : Objects(pools'[j]) = Objects(pools[j])
  BY <1>4, SameObjects
<1>9. Calling' = Calling /\ CallsDiffer' /\ Len(pools') = Len(pools)
  BY <1>1, <1>2, <1>4 DEF Calling, CallsDiffer, SamePools
<1>10. {buf'[c].addr : c \in WithMemory'} = {buf[c].addr : c \in WithMemory}
  BY <1>7
<1>11. b \notin Calling /\ b \notin {buf[c].addr : c \in WithMemory}
  BY <1>1, <1>2, <1>3 DEF Held
<1>12. used' = DOMAIN buf' \cup Calling' \cup {buf'[c].addr : c \in WithMemory'}
  BY <1>1, <1>4, <1>5, <1>9, <1>10, <1>11 DEF Held
<1>13. DOMAIN buf' \cup Calling' \subseteq Objects(pools'[STRUCT])
  BY <1>3, <1>5, <1>8, <1>9
<1>14. DOMAIN buf' \cap Calling' = {}
  BY <1>1, <1>5, <1>9 DEF Held
<1>15. ASSUME NEW c \in WithMemory'
       PROVE  /\ dmapool_find_pool(buf'[c].asked) \in {LARGE, SMALL}
              /\ buf'[c].addr \in Objects(pools'[dmapool_find_pool(buf'[c].asked)])
  BY <1>1, <1>3, <1>7, <1>8 DEF Held
<1>16. \A c, d \in WithMemory' : buf'[c].addr = buf'[d].addr => c = d
  BY <1>1, <1>7 DEF Held
<1>17. Held'
  BY <1>2, <1>9, <1>12, <1>13, <1>14, <1>15, <1>16 DEF Held, CallsDiffer, Ready
<1>18. QED
  BY <1>4, <1>6, <1>17, IInvFrom

LEMMA StepDmaAlloc ==
    ASSUME NoOverflow, ThreePools, IInv, NEW n \in Nat, buffer_dma_alloc(n)
    PROVE  IInv'
<1>1. Allocators /\ Held /\ BuffersTypeOK /\ CallsDiffer
  BY IInvParts
<1>2. Ready /\ Alloc(STRUCT) /\ buf' = buf /\ Len(calls) < 2
  BY DEF buffer_dma_alloc, MayCall, buffer_alloc, Ready
<1>3. /\ STRUCT \in DOMAIN pools
      /\ DOMAIN buf \cup Calling \subseteq used
      /\ \A c \in WithMemory : dmapool_find_pool(buf[c].asked) \in DOMAIN pools
      /\ \A i \in DOMAIN pools : Objects(pools[i]) \subseteq Addr
  BY <1>2, ReadyFacts
<1>4. /\ Allocators' /\ SamePools
      /\ \/ result' = NULL /\ used' = used
         \/ /\ result' # NULL /\ result' \in Objects(pools[STRUCT]) \ used
            /\ used' = used \cup {result'}
  BY <1>1, <1>2, <1>3, AllocKeeps
<1>5. CASE result' = NULL
  <2>1. used' = used /\ calls' = calls
    BY <1>4, <1>5 DEF buffer_dma_alloc
  <2>2. QED
    BY <1>2, <1>4, <2>1, Unheld
<1>6. CASE result' # NULL
  <2> DEFINE b == result'
  <2>1. /\ b \in Objects(pools[STRUCT]) \ used /\ used' = used \cup {b}
        /\ Enter("dma_alloc", b, n)
    BY <1>4, <1>6 DEF buffer_dma_alloc
  <2>2. b \in Addr \ Calling /\ "dma_alloc" \in Place /\ calls \in Seq(Call)
    BY <1>1, <1>3, <2>1 DEF Place, BuffersTypeOK
  <2> HIDE DEF b
  <2>3. /\ calls' \in Seq(Call) /\ Len(calls') <= 2 /\ CallsDiffer'
        /\ Calling' = Calling \cup {b}
    BY <1>1, <1>2, <2>1, <2>2, EnterFacts
  <2>4. BuffersTypeOK'
    BY <1>1, <1>2, <2>3 DEF BuffersTypeOK
  <2>5. WithMemory' = WithMemory
    BY <1>2 DEF WithMemory
  <2>6. \A j \in DOMAIN pools : Objects(pools'[j]) = Objects(pools[j])
    BY <1>4, SameObjects
  <2>7. Len(pools') = Len(pools)
    BY <1>4 DEF SamePools
  <2>8. used' = DOMAIN buf \cup Calling' \cup {buf[c].addr : c \in WithMemory}
    BY <1>1, <2>1, <2>3 DEF Held
  <2>9. DOMAIN buf \cup Calling' \subseteq Objects(pools'[STRUCT])
    BY <1>1, <1>2, <1>3, <2>1, <2>3, <2>6 DEF Held, Ready
  <2>10. DOMAIN buf \cap Calling' = {}
    BY <1>1, <1>3, <2>1, <2>3 DEF Held
  <2>11. ASSUME NEW c \in WithMemory
         PROVE  /\ dmapool_find_pool(buf[c].asked) \in {LARGE, SMALL}
                /\ buf[c].addr \in Objects(pools'[dmapool_find_pool(buf[c].asked)])
    BY <1>1, <1>3, <2>6 DEF Held
  <2>12. \A c, d \in WithMemory : buf[c].addr = buf[d].addr => c = d
    BY <1>1 DEF Held
  <2>13. Held'
    BY <1>2, <2>3, <2>5, <2>7, <2>8, <2>9, <2>10, <2>11, <2>12
    DEF Held, CallsDiffer, Ready
  <2>14. QED
    BY <1>4, <2>4, <2>13, IInvFrom
<1>7. QED
  BY <1>5, <1>6

\* Where a call goes on, all pools exist.
LEMMA CallsWhenReady ==
    ASSUME IInv, calls # << >>
    PROVE  Ready
BY IInvParts DEF Held, Ready

LEMMA PoolOfSize ==
    ASSUME NEW n, dmapool_find_pool(n) # NONE
    PROVE  dmapool_find_pool(n) \in {LARGE, SMALL}
BY DEF dmapool_find_pool

LEMMA StepMemory ==
    ASSUME NoOverflow, ThreePools, IInv, dma_alloc
    PROVE  IInv'
<1> DEFINE b == Head(calls).buf
           n == Head(calls).size
           i == dmapool_find_pool(n)
           a == result'
<1>1. Allocators /\ Held /\ BuffersTypeOK /\ CallsDiffer
  BY IInvParts
<1>2. /\ calls # << >> /\ i # NONE /\ Alloc(i) /\ a # NULL
      /\ Acquire(b, a, n) /\ Returns
  BY DEF dma_alloc, At
<1>3. Ready /\ i \in {LARGE, SMALL}
  BY <1>2, CallsWhenReady, PoolOfSize
<1>4. /\ {STRUCT, LARGE, SMALL} \subseteq DOMAIN pools
      /\ DOMAIN buf \cup Calling \subseteq Objects(pools[STRUCT])
      /\ DOMAIN buf \cup Calling \subseteq used
      /\ \A c \in WithMemory :
           /\ dmapool_find_pool(buf[c].asked) \in DOMAIN pools
           /\ buf[c].addr \in used
      /\ \A j \in DOMAIN pools : Objects(pools[j]) \subseteq Addr
      /\ NULL \notin Addr
  BY <1>3, ReadyFacts
<1>5. calls \in Seq(Call) /\ Len(calls) <= 2
  BY <1>1 DEF BuffersTypeOK
<1>6. /\ calls' \in Seq(Call) /\ Len(calls') <= 2 /\ CallsDiffer'
      /\ Head(calls) \in Call /\ b \in Calling /\ Calling' = Calling \ {b}
  BY <1>1, <1>2, <1>5, ReturnsFacts
<1>7. b \in Addr /\ n \in Nat /\ b \notin DOMAIN buf
  BY <1>1, <1>6 DEF Call, Held
<1> HIDE DEF b, n, i
<1>8. /\ Allocators' /\ SamePools /\ a \in Objects(pools[i]) \ used
      /\ used' = used \cup {a}
  BY <1>1, <1>2, <1>3, <1>4, AllocKeeps
<1> HIDE DEF a
<1>9. a \in Pointer
  BY <1>3, <1>4, <1>8 DEF Pointer
<1>10. /\ DOMAIN buf' = DOMAIN buf \cup {b} /\ DOMAIN buf' \in SUBSET Addr
       /\ IsFiniteSet(DOMAIN buf') /\ buf' \in [DOMAIN buf' -> Entry]
       /\ buf'[b].addr = a /\ buf'[b].asked = n
       /\ \A c \in DOMAIN buf : buf'[c] = buf[c]
  BY <1>1, <1>2, <1>7, <1>9, AcquireFacts
<1>11. BuffersTypeOK'
  BY <1>6, <1>10 DEF BuffersTypeOK
<1>12. WithMemory' = WithMemory \cup {b} /\ \A c \in WithMemory : c # b /\ buf'[c] = buf[c]
  BY <1>2, <1>7, <1>10 DEF WithMemory
<1>13. \A j \in DOMAIN pools : Objects(pools'[j]) = Objects(pools[j])
  BY <1>8, SameObjects
<1>14. Len(pools') = Len(pools)
  BY <1>8 DEF SamePools
<1>15. {buf'[c].addr : c \in WithMemory'} = {buf[c].addr : c \in WithMemory} \cup {a}
  BY <1>10, <1>12
<1>16. used' = DOMAIN buf' \cup Calling' \cup {buf'[c].addr : c \in WithMemory'}
  <2> DEFINE addrs == {buf[c].addr : c \in WithMemory}
             after == {buf'[c].addr : c \in WithMemory'}
  <2>1. used = DOMAIN buf \cup Calling \cup addrs /\ after = addrs \cup {a}
    BY <1>1, <1>15 DEF Held
  <2> HIDE DEF addrs, after
  <2>2. used' = DOMAIN buf' \cup Calling' \cup after
    BY <1>6, <1>8, <1>10, <2>1
  <2>3. QED
    BY <2>2 DEF after
<1>17. DOMAIN buf' \cup Calling' \subseteq Objects(pools'[STRUCT])
  BY <1>4, <1>6, <1>10, <1>13
<1>18. DOMAIN buf' \cap Calling' = {}
  BY <1>1, <1>6, <1>10 DEF Held
<1>19. ASSUME NEW c \in WithMemory'
       PROVE  /\ dmapool_find_pool(buf'[c].asked) \in {LARGE, SMALL}
              /\ buf'[c].addr \in Objects(pools'[dmapool_find_pool(buf'[c].asked)])
  <2>1. CASE c = b
    BY <1>3, <1>4, <1>8, <1>10, <1>13, <2>1 DEF i
  <2>2. CASE c \in WithMemory
    BY <1>1, <1>4, <1>12, <1>13, <2>2 DEF Held
  <2>3. QED
    BY <1>12, <2>1, <2>2
<1>20. \A c, d \in WithMemory' : buf'[c].addr = buf'[d].addr => c = d
  <2>1. \A c \in WithMemory : buf[c].addr # a
    BY <1>4, <1>8
  <2>2. \A c, d \in WithMemory : buf[c].addr = buf[d].addr => c = d
    BY <1>1 DEF Held
  <2>3. QED
    BY <1>10, <1>12, <2>1, <2>2
<1>21. Held'
  BY <1>3, <1>6, <1>14, <1>16, <1>17, <1>18, <1>19, <1>20 DEF Held, CallsDiffer, Ready
<1>22. QED
  BY <1>8, <1>11, <1>21, IInvFrom

LEMMA StepMemoryFails ==
    ASSUME NoOverflow, ThreePools, IInv, dma_alloc_fails
    PROVE  IInv'
<1> DEFINE i == dmapool_find_pool(Head(calls).size)
<1>1. Allocators /\ Held /\ BuffersTypeOK /\ CallsDiffer
  BY IInvParts
<1>2. /\ calls # << >> /\ calls' = [calls EXCEPT ![1].op = "buffer_free"] /\ buf' = buf
      /\ \/ UNCHANGED poolVars
         \/ i # NONE /\ Alloc(i) /\ result' = NULL
  BY DEF dma_alloc_fails, At
<1> HIDE DEF i
<1>3. Allocators' /\ SamePools /\ used' = used
  <2>1. CASE UNCHANGED poolVars
    BY <1>1, <2>1
    DEF poolVars, Allocators, PoolsTypeOK, Layout, FreeListsLinked, SamePools
  <2>2. CASE i # NONE /\ Alloc(i) /\ result' = NULL
    <3>1. i \in DOMAIN pools
      <4>1. i \in {LARGE, SMALL}
        BY <2>2, PoolOfSize DEF i
      <4>2. {STRUCT, LARGE, SMALL} \subseteq DOMAIN pools
        BY <1>2, CallsWhenReady, ReadyFacts
      <4>3. QED
        BY <4>1, <4>2
    <3>2. QED
      BY <1>1, <2>2, <3>1, AllocKeeps
  <2>3. QED
    BY <1>2, <2>1, <2>2
<1>4. /\ calls \in Seq(Call) /\ Len(calls) <= 2 /\ 1 \in DOMAIN calls
      /\ calls[1] \in Call
  BY <1>1, <1>2 DEF BuffersTypeOK
<1> DEFINE e == [calls[1] EXCEPT !.op = "buffer_free"]
<1>5. e \in Call /\ e.buf = calls[1].buf
  BY <1>4 DEF Call, Place
<1>6. calls' = [calls EXCEPT ![1] = e]
  BY <1>2, <1>4
<1> HIDE DEF e
<1>7. /\ calls' \in Seq(Call) /\ Len(calls') = Len(calls) /\ DOMAIN calls' = DOMAIN calls
      /\ \A j \in DOMAIN calls : calls'[j].buf = calls[j].buf
  <2>1. calls' \in Seq(Call) /\ Len(calls') = Len(calls) /\ DOMAIN calls' = DOMAIN calls
    BY <1>4, <1>5, <1>6
  <2>2. calls'[1] = e /\ \A j \in DOMAIN calls : j # 1 => calls'[j] = calls[j]
    BY <1>4, <1>6
  <2>3. QED
    BY <1>5, <2>1, <2>2
<1>8. Calling' = Calling /\ CallsDiffer'
  BY <1>1, <1>7 DEF Calling, CallsDiffer
<1>9. BuffersTypeOK'
  BY <1>1, <1>2, <1>4, <1>7 DEF BuffersTypeOK
<1>10. Held'
  BY <1>2, <1>3, <1>8, HeldKept
<1>11. QED
  BY <1>3, <1>9, <1>10, IInvFrom

LEMMA StepStructFreed ==
    ASSUME NoOverflow, ThreePools, IInv, buffer_free
    PROVE  IInv'
<1> DEFINE b == Head(calls).buf
<1>1. Allocators /\ Held /\ BuffersTypeOK /\ CallsDiffer
  BY IInvParts
<1>2. calls # << >> /\ Free(STRUCT, b) /\ Returns /\ buf' = buf
  BY DEF buffer_free, At
<1>3. Ready
  BY <1>2, CallsWhenReady
<1>4. /\ STRUCT \in DOMAIN pools
      /\ DOMAIN buf \cup Calling \subseteq Objects(pools[STRUCT])
      /\ \A c \in WithMemory :
           /\ dmapool_find_pool(buf[c].asked) \in DOMAIN pools
           /\ buf[c].addr \notin DOMAIN buf \cup Calling
  BY <1>3, ReadyFacts
<1>5. calls \in Seq(Call) /\ Len(calls) <= 2
  BY <1>1 DEF BuffersTypeOK
<1>6. /\ calls' \in Seq(Call) /\ Len(calls') <= 2 /\ CallsDiffer'
      /\ b \in Calling /\ Calling' = Calling \ {b}
  BY <1>1, <1>2, <1>5, ReturnsFacts
<1> HIDE DEF b
<1>7. Allocators' /\ SamePools /\ used' = used \ {b}
  BY <1>1, <1>2, <1>4, <1>6, FreeKeeps
<1>8. BuffersTypeOK'
  BY <1>1, <1>2, <1>6 DEF BuffersTypeOK
<1>9. WithMemory' = WithMemory
  BY <1>2 DEF WithMemory
<1>10. \A j \in DOMAIN pools : Objects(pools'[j]) = Objects(pools[j])
  BY <1>7, SameObjects
<1>11. Len(pools') = Len(pools)
  BY <1>7 DEF SamePools
<1>12. used' = DOMAIN buf \cup Calling' \cup {buf[c].addr : c \in WithMemory}
  <2> DEFINE addrs == {buf[c].addr : c \in WithMemory}
  <2>1. used = DOMAIN buf \cup Calling \cup addrs /\ b \notin DOMAIN buf
    BY <1>1, <1>6 DEF Held
  <2>2. b \notin addrs
    BY <1>4, <1>6
  <2> HIDE DEF addrs
  <2>3. used' = DOMAIN buf \cup Calling' \cup addrs
    BY <1>6, <1>7, <2>1, <2>2
  <2>4. QED
    BY <2>3 DEF addrs
<1>13. DOMAIN buf \cup Calling' \subseteq Objects(pools'[STRUCT])
  BY <1>4, <1>6, <1>10
<1>14. DOMAIN buf \cap Calling' = {}
  BY <1>1, <1>6 DEF Held
<1>15. ASSUME NEW c \in WithMemory
       PROVE  /\ dmapool_find_pool(buf[c].asked) \in {LARGE, SMALL}
              /\ buf[c].addr \in Objects(pools'[dmapool_find_pool(buf[c].asked)])
  BY <1>1, <1>4, <1>10 DEF Held
<1>16. \A c, d \in WithMemory : buf[c].addr = buf[d].addr => c = d
  BY <1>1 DEF Held
<1>17. Held'
  BY <1>2, <1>3, <1>6, <1>9, <1>11, <1>12, <1>13, <1>14, <1>15, <1>16
  DEF Held, CallsDiffer, Ready
<1>18. QED
  BY <1>7, <1>8, <1>17, IInvFrom

LEMMA StepMemoryFreed ==
    ASSUME NoOverflow, ThreePools, IInv, NEW b \in DOMAIN buf, buffer_dma_free(b)
    PROVE  IInv'
<1> DEFINE a == buf[b].addr
           i == dmapool_find_pool(buf[b].asked)
<1>1. Allocators /\ Held /\ BuffersTypeOK /\ CallsDiffer
  BY IInvParts
<1>2. /\ Ready /\ Len(calls) < 2 /\ a # NULL /\ Free(i, a)
      /\ Enter("buffer_free", b, 0) /\ Abandon(b)
  BY DEF buffer_dma_free, MayCall, Ready
<1>3. b \in WithMemory /\ a = buf[b].addr
  BY <1>2 DEF WithMemory
<1>4. /\ {STRUCT, LARGE, SMALL} \subseteq DOMAIN pools
      /\ DOMAIN buf \cup Calling \subseteq Objects(pools[STRUCT])
      /\ \A c \in WithMemory :
           /\ dmapool_find_pool(buf[c].asked) \in DOMAIN pools
           /\ buf[c].addr \notin DOMAIN buf \cup Calling
  BY <1>2, ReadyFacts
<1>5. i \in DOMAIN pools /\ a \in Objects(pools[i]) /\ a \notin DOMAIN buf \cup Calling
  BY <1>1, <1>3, <1>4 DEF Held
<1> HIDE DEF a, i
<1>6. Allocators' /\ SamePools /\ used' = used \ {a}
  BY <1>1, <1>2, <1>5, FreeKeeps
<1>7. b \in Addr \ Calling /\ "buffer_free" \in Place /\ calls \in Seq(Call) /\ 0 \in Nat
  BY <1>1 DEF BuffersTypeOK, Held, Place
<1>8. /\ calls' \in Seq(Call) /\ Len(calls') <= 2 /\ CallsDiffer'
      /\ Calling' = Calling \cup {b}
  BY <1>1, <1>2, <1>7, EnterFacts
<1>9. /\ DOMAIN buf' = DOMAIN buf \ {b} /\ DOMAIN buf' \in SUBSET Addr
      /\ IsFiniteSet(DOMAIN buf') /\ buf' \in [DOMAIN buf' -> Entry]
      /\ \A c \in DOMAIN buf' : buf'[c] = buf[c]
  BY <1>1, <1>2, AbandonFacts
<1>10. BuffersTypeOK'
  BY <1>8, <1>9 DEF BuffersTypeOK
<1>11. WithMemory' = WithMemory \ {b} /\ \A c \in WithMemory' : buf'[c] = buf[c]
  BY <1>9 DEF WithMemory
<1>12. \A j \in DOMAIN pools : Objects(pools'[j]) = Objects(pools[j])
  BY <1>6, SameObjects
<1>13. Len(pools') = Len(pools)
  BY <1>6 DEF SamePools
<1>14. \A c, d \in WithMemory : buf[c].addr = buf[d].addr => c = d
  BY <1>1 DEF Held
<1>15. used' = DOMAIN buf' \cup Calling' \cup {buf'[c].addr : c \in WithMemory'}
  <2> DEFINE addrs == {buf[c].addr : c \in WithMemory}
             after == {buf'[c].addr : c \in WithMemory'}
  <2>1. used = DOMAIN buf \cup Calling \cup addrs
    BY <1>1 DEF Held
  <2>2. after = addrs \ {a}
    BY <1>3, <1>11, <1>14
  <2> HIDE DEF addrs, after
  <2>3. used' = DOMAIN buf' \cup Calling' \cup after
    BY <1>5, <1>6, <1>8, <1>9, <2>1, <2>2
  <2>4. QED
    BY <2>3 DEF after
<1>16. DOMAIN buf' \cup Calling' \subseteq Objects(pools'[STRUCT])
  BY <1>4, <1>8, <1>9, <1>12
<1>17. DOMAIN buf' \cap Calling' = {}
  BY <1>1, <1>8, <1>9 DEF Held
<1>18. ASSUME NEW c \in WithMemory'
       PROVE  /\ dmapool_find_pool(buf'[c].asked) \in {LARGE, SMALL}
              /\ buf'[c].addr \in Objects(pools'[dmapool_find_pool(buf'[c].asked)])
  BY <1>1, <1>4, <1>11, <1>12 DEF Held
<1>19. \A c, d \in WithMemory' : buf'[c].addr = buf'[d].addr => c = d
  BY <1>11, <1>14
<1>20. Held'
  BY <1>2, <1>8, <1>13, <1>15, <1>16, <1>17, <1>18, <1>19 DEF Held, CallsDiffer, Ready
<1>21. QED
  BY <1>6, <1>10, <1>20, IInvFrom

LEMMA StepResize ==
    ASSUME NoOverflow, ThreePools, IInv, NEW n \in Nat, NEW b \in DOMAIN buf, buffer_resize(b, n)
    PROVE  IInv'
<1>1. Allocators /\ Held /\ BuffersTypeOK /\ CallsDiffer
  BY IInvParts
<1>2. UNCHANGED poolVars /\ calls' = calls /\ buf' = [buf EXCEPT ![b].len = n]
  BY DEF buffer_resize
<1>3. Allocators' /\ SamePools /\ used' = used
  BY <1>1, <1>2
  DEF poolVars, Allocators, PoolsTypeOK, Layout, FreeListsLinked, SamePools
<1> DEFINE e == [buf[b] EXCEPT !.len = n]
<1>4. buf \in [DOMAIN buf -> Entry] /\ buf[b] \in Entry
  BY <1>1 DEF BuffersTypeOK
<1>5. e \in Entry /\ e.addr = buf[b].addr /\ e.asked = buf[b].asked
  BY <1>4 DEF Entry
<1>6. buf' = [buf EXCEPT ![b] = e]
  BY <1>2
<1> HIDE DEF e
<1>7. /\ DOMAIN buf' = DOMAIN buf /\ buf' \in [DOMAIN buf -> Entry]
      /\ \A c \in DOMAIN buf : buf'[c].addr = buf[c].addr /\ buf'[c].asked = buf[c].asked
  BY <1>4, <1>5, <1>6
<1>8. Calling' = Calling /\ CallsDiffer'
  BY <1>1, <1>2 DEF Calling, CallsDiffer
<1>9. BuffersTypeOK'
  BY <1>1, <1>2, <1>7 DEF BuffersTypeOK
<1>10. Held'
  BY <1>2, <1>3, <1>7, <1>8, HeldKept
<1>11. QED
  BY <1>3, <1>9, <1>10, IInvFrom

LEMMA Initially ==
    ASSUME ThreePools, Init
    PROVE  IInv
<1>1. /\ phys = [start |-> Start, end |-> End] /\ malloced = {} /\ pools = << >>
      /\ mem = [a \in Addr |-> NULL] /\ used = {} /\ result = NULL
      /\ buf = << >> /\ calls = << >>
  BY DEF Init, PoolsInit
<1>2. DOMAIN buf = {} /\ DOMAIN calls = {} /\ DOMAIN pools = {} /\ Len(pools) = 0 /\ Len(calls) = 0
  BY <1>1
<1>3. phys \in [start : Nat, end : Nat] /\ phys.start = Start /\ phys.end = End
  BY <1>1, AddressFacts
<1>4. IsFiniteSet(malloced) /\ IsFiniteSet(DOMAIN buf)
  BY <1>1, <1>2, FS_EmptySet
<1>5. pools \in Seq(Pool) /\ calls \in Seq(Call)
  BY <1>1
<1>6. mem \in [Addr -> Pointer \cup Written] /\ result \in Pointer
  BY <1>1 DEF Pointer
<1>7. PoolsTypeOK
  BY <1>1, <1>3, <1>4, <1>5, <1>6 DEF PoolsTypeOK
<1>8. buf \in [DOMAIN buf -> Entry]
  BY <1>1, <1>2
<1>9. BuffersTypeOK
  BY <1>2, <1>4, <1>5, <1>8 DEF BuffersTypeOK
<1>10. Layout
  <2>1. Start <= End /\ Start \in Nat /\ End \in Nat /\ Len(Kinds) \in Nat /\ Len(Kinds) = 3
    BY AddressFacts DEF ThreePools
  <2>2. QED
    BY <1>1, <1>2, <1>3, <2>1 DEF Layout
<1>11. FreeListsLinked
  BY <1>2 DEF FreeListsLinked
<1>12. Held
  <2>1. WithMemory = {} /\ Calling = {}
    BY <1>2 DEF WithMemory, Calling
  <2>2. Len(pools) # Len(Kinds)
    BY <1>2 DEF ThreePools
  <2>3. QED
    BY <1>1, <1>2, <2>1, <2>2 DEF Held
<1>13. QED
  BY <1>7, <1>9, <1>10, <1>11, <1>12, Types DEF IInv

LEMMA Stutter ==
    ASSUME NoOverflow, ThreePools, IInv, UNCHANGED vars
    PROVE  IInv'
<1>1. Allocators /\ UNCHANGED poolVars /\ buf' = buf /\ calls' = calls
  BY IInvParts DEF vars
<1>2. Allocators' /\ SamePools /\ used' = used
  BY <1>1
  DEF poolVars, Allocators, PoolsTypeOK, Layout, FreeListsLinked, SamePools
<1>3. QED
  BY <1>1, <1>2, Unheld

LEMMA Step ==
    ASSUME NoOverflow, ThreePools, IInv, [Next]_vars
    PROVE  IInv'
<1>1. Size \subseteq Nat
  BY BuffersAssumption
<1>2. CASE Start_up \/ WriteObject \/ AllocBuffer
  BY <1>2, StepStart, StepWrite, StepAllocBuffer
<1>3. ASSUME NEW b \in DOMAIN buf, FreeBuffer(b) \/ buffer_dma_free(b) PROVE IInv'
  BY <1>3, StepFreeBuffer, StepMemoryFreed
<1>4. ASSUME NEW n \in Size,
             buffer_dma_alloc(n) \/ \E b \in DOMAIN buf : buffer_resize(b, n)
      PROVE  IInv'
  BY <1>1, <1>4, StepDmaAlloc, StepResize
<1>5. CASE dma_alloc \/ dma_alloc_fails \/ buffer_free
  BY <1>5, StepMemory, StepMemoryFails, StepStructFreed
<1>6. CASE UNCHANGED vars
  BY <1>6, Stutter
<1>7. QED
  BY <1>2, <1>3, <1>4, <1>5, <1>6 DEF Next

-----------------------------------------------------------------------------
(* What the invariant says of every reachable state.                       *)

\* The types, the order of pools and malloc's memory in the physical pool, the free lists
\* and the holders of objects are as the invariant says in every reachable state.
THEOREM AllocatorsAgree ==
    ASSUME NoOverflow, ThreePools
    PROVE  Spec => []IInv
<1>1. Init => IInv
  BY Initially
<1>2. IInv /\ [Next]_vars => IInv'
  BY Step
<1>3. QED
  BY <1>1, <1>2, PTL DEF Spec

PoolRegion(i) == [addr |-> pools[i].start, size |-> pool_size(pools[i].kind)]

\* As many regions as were given out: no two pools are the same region, and none is
\* one of malloc's.
LEMMA RegionsCounted ==
    ASSUME NoOverflow, PoolsTypeOK, Layout
    PROVE  Cardinality(Regions) = Cardinality(malloced) + Len(pools)
<1> DEFINE R == {PoolRegion(i) : i \in DOMAIN pools}
           n == Len(pools)
<1>1. Regions = malloced \cup R
  BY DEF Regions, PoolRegion
<1>2. n \in Nat /\ DOMAIN pools = 1 .. n
  BY DEF PoolsTypeOK
<1>3. ASSUME NEW i \in DOMAIN pools
      PROVE  /\ pools[i].start \in Nat /\ pool_size(pools[i].kind) \in Nat
             /\ pool_size(pools[i].kind) > 0
             /\ Above(pools[i]) = pools[i].start + pool_size(pools[i].kind)
             /\ phys.end <= pools[i].start
             /\ PoolRegion(i).addr = pools[i].start
  BY PoolFacts DEF Above, PoolRegion
<1>4. \A i, j \in DOMAIN pools : PoolRegion(i) = PoolRegion(j) => i = j
  <2>1. ASSUME NEW i \in DOMAIN pools, NEW j \in DOMAIN pools, i < j
        PROVE  pools[j].start < pools[i].start
    <3>1. Above(pools[j]) <= pools[i].start
      BY <2>1 DEF Layout
    <3>2. QED
      BY <1>3, <3>1
  <2>2. ASSUME NEW i \in DOMAIN pools, NEW j \in DOMAIN pools, PoolRegion(i) = PoolRegion(j)
        PROVE  i = j
    <3>1. pools[i].start = pools[j].start
      BY <1>3, <2>2
    <3>2. ~ (i < j) /\ ~ (j < i)
      BY <1>3, <2>1, <3>1
    <3>3. QED
      BY <1>2, <3>2
  <2>3. QED
    BY <2>2
<1>5. malloced \cap R = {}
  <2>1. phys.start \in Nat /\ phys.end \in Nat /\ phys.start <= phys.end
    BY DEF PoolsTypeOK, Layout
  <2>2. ASSUME NEW r \in malloced PROVE r.addr < phys.end
    <3>1. r.addr \in Nat /\ r.size \in Nat \ {0} /\ r.addr + r.size <= phys.start
      BY DEF PoolsTypeOK, Layout
    <3>2. QED
      BY <2>1, <3>1
  <2>3. ASSUME NEW i \in DOMAIN pools, PoolRegion(i) \in malloced PROVE FALSE
    BY <1>3, <2>1, <2>2, <2>3
  <2>4. QED
    BY <2>3
<1>6. IsFiniteSet(R) /\ Cardinality(R) = n
  <2> DEFINE f == [i \in 1 .. n |-> PoolRegion(i)]
  <2>1. f \in Bijection(1 .. n, R)
    <3>1. f \in [1 .. n -> R]
      BY <1>2
    <3>2. \A i, j \in 1 .. n : f[i] = f[j] => i = j
      BY <1>2, <1>4
    <3>3. \A r \in R : \E i \in 1 .. n : f[i] = r
      BY <1>2
    <3>4. QED
      BY <3>1, <3>2, <3>3, Fun_IsBij
  <2>2. IsFiniteSet(1 .. n) /\ Cardinality(1 .. n) = n
    <3>1. ASSUME NEW m \in Nat PROVE IsFiniteSet(1 .. m) /\ Cardinality(1 .. m) = m
      <4>1. m \in Int /\ 1 \in Int
        OBVIOUS
      <4>2. IsFiniteSet(1 .. m) /\ Cardinality(1 .. m) = IF 1 > m THEN 0 ELSE m - 1 + 1
        BY ONLY <4>1, FS_Interval
      <4>3. QED
        BY <4>2
    <3>2. QED
      BY <1>2, <3>1
  <2> HIDE DEF f
  <2>3. ExistsBijection(1 .. n, R)
    BY <2>1 DEF ExistsBijection
  <2>4. QED
    BY <1>2, <2>2, <2>3, FS_Bijection
<1>7. IsFiniteSet(malloced)
  BY DEF PoolsTypeOK
<1> HIDE DEF R, n
<1>8. Cardinality(malloced \cup R)
        = Cardinality(malloced) + Cardinality(R) - Cardinality(malloced \cap R)
  BY <1>6, <1>7, FS_Union
<1>9. Cardinality(malloced \cap R) = 0
  BY <1>5, FS_EmptySet
<1>10. Cardinality(malloced) \in Nat
  BY <1>7, FS_CardinalityType
<1>11. QED
  BY <1>1, <1>2, <1>6, <1>8, <1>9, <1>10 DEF n

\* RegionsApart: pools are stacked downwards, malloc's memory upwards, what is free lies
\* between, and so no byte is in two of them.
THEOREM NothingGivenOutTwice ==
    ASSUME NoOverflow, ThreePools
    PROVE  Spec => []RegionsApart
<1>1. ASSUME IInv PROVE RegionsApart
  <2> DEFINE Bytes(r) == r.addr .. (r.addr + r.size) - 1
  <2>0. PoolsTypeOK /\ Layout
    BY <1>1, IInvParts DEF Allocators
  <2>1. Cardinality(Regions) = Cardinality(malloced) + Len(pools)
    BY <2>0, RegionsCounted
  <2>2. /\ Start \in Nat /\ End \in Nat /\ phys.start \in Nat /\ phys.end \in Nat
        /\ Start <= phys.start /\ phys.start <= phys.end /\ phys.end <= End
    BY <2>0, AddressFacts DEF PoolsTypeOK, Layout
  <2>3. ASSUME NEW r \in malloced
        PROVE  /\ r.addr \in Nat /\ r.size \in Nat \ {0}
               /\ Start <= r.addr /\ r.addr + r.size <= phys.start
    BY <2>0 DEF PoolsTypeOK, Layout
  <2>4. ASSUME NEW i \in DOMAIN pools
        PROVE  /\ PoolRegion(i).addr \in Nat /\ PoolRegion(i).size \in Nat
               /\ phys.end <= PoolRegion(i).addr
               /\ PoolRegion(i).addr + PoolRegion(i).size <= End
    BY <2>0, PoolFacts DEF Above, PoolRegion
  <2>5. \A r : r \in Regions <=> r \in malloced \/ \E i \in DOMAIN pools : r = PoolRegion(i)
    BY DEF Regions, PoolRegion
  <2>6. ASSUME NEW r \in Regions
        PROVE  Bytes(r) \subseteq (Start .. End - 1) \ (phys.start .. phys.end - 1)
    <3>1. CASE r \in malloced
      BY <2>2, <2>3, <3>1
    <3>2. ASSUME NEW i \in DOMAIN pools, r = PoolRegion(i)
          PROVE  Bytes(r) \subseteq (Start .. End - 1) \ (phys.start .. phys.end - 1)
      BY <2>2, <2>4, <3>2
    <3>3. QED
      BY <2>5, <3>1, <3>2
  <2>7. ASSUME NEW r \in Regions, NEW q \in Regions \ {r}
        PROVE  Bytes(r) \cap Bytes(q) = {}
    <3>1. CASE r \in malloced /\ q \in malloced
      <4>1. r.addr + r.size <= q.addr \/ q.addr + q.size <= r.addr
        BY <2>0, <2>7, <3>1 DEF Layout
      <4>2. QED
        BY <2>3, <3>1, <4>1
    <3>2. ASSUME NEW s \in malloced, NEW i \in DOMAIN pools
          PROVE  Bytes(s) \cap Bytes(PoolRegion(i)) = {}
      BY <2>2, <2>3, <2>4
    <3>3. ASSUME NEW i \in DOMAIN pools, NEW j \in DOMAIN pools, i < j
          PROVE  Bytes(PoolRegion(i)) \cap Bytes(PoolRegion(j)) = {}
      <4>1. Above(pools[j]) <= pools[i].start
        BY <2>0, <3>3 DEF Layout
      <4>2. PoolRegion(j).addr + PoolRegion(j).size <= PoolRegion(i).addr
        BY <4>1 DEF Above, PoolRegion
      <4>3. QED
        BY <2>4, <4>2
    <3>4. ASSUME NEW i \in DOMAIN pools, NEW j \in DOMAIN pools, i # j
          PROVE  Bytes(PoolRegion(i)) \cap Bytes(PoolRegion(j)) = {}
      <4>1. i < j \/ j < i
        BY <2>0, <3>4 DEF PoolsTypeOK
      <4>2. QED
        BY <3>3, <4>1
    <3>5. QED
      BY <2>5, <2>7, <3>1, <3>2, <3>4
  <2>8. QED
    BY <2>1, <2>6, <2>7 DEF RegionsApart
<1>2. Spec => []IInv
  BY AllocatorsAgree
<1>3. QED
  BY <1>1, <1>2, PTL

\* FailsOnlyWhenFull: what the physical pool does not give would not have fitted.
THEOREM FailureMeansFull ==
    ASSUME NoOverflow, ThreePools
    PROVE  Spec => []FailsOnlyWhenFull
<1>1. ASSUME IInv PROVE FailsOnlyWhenFull
  <2>1. /\ phys \in [start : Nat, end : Nat] /\ phys.start \in Nat /\ phys.end \in Nat
        /\ phys.start <= phys.end /\ phys.end <= End /\ End \in Nat /\ End < 2 ^ AddrBits
        /\ 2 ^ AddrBits \in Nat
    BY <1>1, IInvParts, AddressFacts, Powers DEF Allocators, PoolsTypeOK, Layout
  <2> DEFINE Fits(size, order) ==
                \E a \in phys.start .. phys.end : Aligned(a, order) /\ a + size <= phys.end
  <2>2. ASSUME NEW size \in MallocSize,
               physmem_alloc_low(phys, size, malloc_order).addr = PHYSMEM_ALLOC_ERR
        PROVE  ~ Fits(size, malloc_order)
    <3>1. size \in Nat /\ size > 0
      BY <2>1, MemPoolAssumption
    <3>2. malloc_order \in 0 .. AddrBits
      BY MemOpsAssumption DEF NoOverflow, malloc_order
    <3>3. phys.end + 2 ^ malloc_order + size <= 2 ^ AddrBits
      <4>1. End + 2 ^ malloc_order + size <= 2 ^ AddrBits
        BY DEF NoOverflow
      <4>2. 2 ^ malloc_order \in Nat
        BY <3>2, Powers
      <4>3. QED
        BY <2>1, <3>1, <4>1, <4>2
    <3>4. \A a \in Nat : Aligned(a, malloc_order) /\ phys.start <= a => a + size > phys.end
      BY <2>1, <2>2, <3>1, <3>2, <3>3, AllocLow
    <3>5. QED
      BY <2>1, <3>1, <3>4
  <2>3. ASSUME NEW i \in DOMAIN Kinds, NEW size, NEW order,
               size = pool_size(Kinds[i]), order = Kinds[i].align_order,
               size <= phys.end, physmem_alloc(phys, size, order).addr = PHYSMEM_ALLOC_ERR
        PROVE  ~ Fits(size, order)
    <3>1. Kinds[i] \in Kind /\ size \in Nat /\ size > 0
      BY <2>3, KindFacts
    <3>2. order \in 0 .. AddrBits
      BY <2>3, <3>1 DEF Kind
    <3>3. phys.end < 2 ^ AddrBits
      BY <2>1
    <3>4. \A a \in Nat : Aligned(a, order) /\ phys.start <= a => a + size > phys.end
      BY <2>1, <2>3, <3>1, <3>2, <3>3, AllocHigh
    <3>5. QED
      BY <2>1, <3>1, <3>4
  <2>4. QED
    BY <2>2, <2>3 DEF FailsOnlyWhenFull
<1>2. Spec => []IInv
  BY AllocatorsAgree
<1>3. QED
  BY <1>1, <1>2, PTL

\* With at most two calls that take different structs, there are as many structs in calls
\* as calls.
LEMMA CallsCounted ==
    ASSUME calls \in Seq(Call), Len(calls) <= 2, CallsDiffer
    PROVE  IsFiniteSet(Calling) /\ Cardinality(Calling) = Len(calls)
<1> DEFINE n == Len(calls)
<1>1. n \in Nat /\ DOMAIN calls = 1 .. n
  OBVIOUS
<1>2. CASE n = 0
  <2>1. Calling = {}
    BY <1>1, <1>2 DEF Calling
  <2>2. QED
    BY <1>2, <2>1, FS_EmptySet
<1>3. CASE n = 1
  <2>1. Calling = {calls[1].buf}
    BY <1>1, <1>3 DEF Calling
  <2>2. QED
    BY <1>3, <2>1, FS_Singleton
<1>4. CASE n = 2
  <2>1. Calling = {calls[1].buf} \cup {calls[2].buf} /\ calls[2].buf \notin {calls[1].buf}
    <3>1. DOMAIN calls = {1, 2}
      BY <1>1, <1>4
    <3>2. QED
      BY <3>1 DEF Calling, CallsDiffer
  <2>2. IsFiniteSet({calls[1].buf}) /\ Cardinality({calls[1].buf}) = 1
    BY FS_Singleton
  <2>3. /\ IsFiniteSet({calls[1].buf} \cup {calls[2].buf})
        /\ Cardinality({calls[1].buf} \cup {calls[2].buf}) = 1 + 1
    BY <2>1, <2>2, FS_AddElement
  <2>4. QED
    BY <1>4, <2>1, <2>3
<1>5. QED
  BY <1>1, <1>2, <1>3, <1>4

\* NothingLost: every struct and every DMA object in use has one holder.
THEOREM EveryObjectHasOneHolder ==
    ASSUME NoOverflow, ThreePools
    PROVE  Spec => []NothingLost
<1>1. ASSUME IInv, Ready PROVE NothingLost
  <2> DEFINE inUse(i) == used \cap Objects(pools[i])
             Addrs == {buf[b].addr : b \in WithMemory}
  <2>1. PoolsTypeOK /\ Layout /\ BuffersTypeOK /\ Held /\ CallsDiffer
    BY <1>1, IInvParts DEF Allocators
  <2>2. /\ {STRUCT, LARGE, SMALL} \subseteq DOMAIN pools
        /\ DOMAIN buf \cup Calling \subseteq Objects(pools[STRUCT])
        /\ \A b \in WithMemory : buf[b].addr \in used
    BY <1>1, ReadyFacts
  <2>3. /\ used = DOMAIN buf \cup Calling \cup Addrs
        /\ DOMAIN buf \cap Calling = {}
        /\ \A b \in WithMemory :
             /\ dmapool_find_pool(buf[b].asked) \in {LARGE, SMALL}
             /\ buf[b].addr \in Objects(pools[dmapool_find_pool(buf[b].asked)])
        /\ \A b, c \in WithMemory : buf[b].addr = buf[c].addr => b = c
    BY <2>1 DEF Held
  <2>4. /\ Objects(pools[STRUCT]) \cap Objects(pools[LARGE]) = {}
        /\ Objects(pools[STRUCT]) \cap Objects(pools[SMALL]) = {}
    BY <2>1, <2>2, ObjectsApart DEF STRUCT, LARGE, SMALL
  <2>5. Addrs \subseteq Objects(pools[LARGE]) \cup Objects(pools[SMALL])
    BY <2>3
  <2>6. inUse(STRUCT) = DOMAIN buf \cup Calling
    BY <2>2, <2>3, <2>4, <2>5
  <2>7. inUse(SMALL) \cup inUse(LARGE) = Addrs
    BY <2>2, <2>3, <2>4, <2>5
  <2>8. Cardinality(inUse(STRUCT)) = Cardinality(DOMAIN buf) + Len(calls)
    <3>1. IsFiniteSet(DOMAIN buf) /\ IsFiniteSet(Calling) /\ Cardinality(Calling) = Len(calls)
      BY <2>1, CallsCounted DEF BuffersTypeOK
    <3>2. Cardinality(DOMAIN buf \cup Calling)
            = Cardinality(DOMAIN buf) + Cardinality(Calling) - Cardinality(DOMAIN buf \cap Calling)
      BY <3>1, FS_Union
    <3>3. Cardinality(DOMAIN buf \cap Calling) = 0
      BY <2>3, FS_EmptySet
    <3>4. Cardinality(DOMAIN buf) \in Nat /\ Len(calls) \in Nat
      BY <2>1, <3>1, FS_CardinalityType DEF BuffersTypeOK
    <3>5. Cardinality(DOMAIN buf \cup Calling) = Cardinality(DOMAIN buf) + Len(calls)
      BY ONLY <3>1, <3>2, <3>3, <3>4
    <3>6. QED
      BY <2>6, <3>5
  <2>9. \A b \in WithMemory : buf[b].addr \in inUse(dmapool_find_pool(buf[b].asked))
    BY <2>2, <2>3
  <2>10. QED
    BY <2>3, <2>6, <2>7, <2>8, <2>9 DEF NothingLost, WithMemory, Calling
<1>2. ASSUME IInv, ~ Ready PROVE NothingLost
  BY <1>2 DEF NothingLost, Ready
<1>3. IInv => NothingLost
  BY <1>1, <1>2
<1>4. Spec => []IInv
  BY AllocatorsAgree
<1>5. QED
  BY <1>3, <1>4, PTL

-----------------------------------------------------------------------------
(* The memory pools implement ObjectPool: what can be allocated is what is *)
(* not in use.                                                             *)

ObjectsOf == [i \in DOMAIN pools |-> Objects(pools[i])]

FreeOf == [i \in DOMAIN pools |-> Objects(pools[i]) \ used]

\* The steps of ObjectPool, of ObjectsOf and FreeOf.
APool ==
    LET p == Len(ObjectsOf) + 1
    IN  /\ DOMAIN ObjectsOf' = 1 .. p
        /\ ObjectsOf'[p] # {}
        /\ \A q \in DOMAIN ObjectsOf :
               ObjectsOf'[q] = ObjectsOf[q] /\ ObjectsOf'[p] \cap ObjectsOf[q] = {}
        /\ FreeOf' = Append(FreeOf, ObjectsOf'[p])
        /\ UNCHANGED result

AnAlloc(p) ==
    /\ \/ result' \in FreeOf[p] /\ FreeOf' = [FreeOf EXCEPT ![p] = @ \ {result'}]
       \/ result' = NULL /\ FreeOf[p] = {} /\ UNCHANGED FreeOf
    /\ UNCHANGED ObjectsOf

AFree(p, o) ==
    /\ UNCHANGED result
    /\ FreeOf' = [FreeOf EXCEPT ![p] = @ \cup {o}]
    /\ UNCHANGED ObjectsOf

AStep ==
    \/ APool
    \/ \E p \in DOMAIN ObjectsOf :
        AnAlloc(p) \/ \E o \in ObjectsOf[p] \ FreeOf[p] : AFree(p, o)
    \/ UNCHANGED <<ObjectsOf, FreeOf, result>>

LEMMA SameOwners ==
    ASSUME SamePools
    PROVE  /\ UNCHANGED ObjectsOf
           /\ used' = used => UNCHANGED FreeOf
<1>1. \A j \in DOMAIN pools : Objects(pools'[j]) = Objects(pools[j])
  BY SameObjects
<1>2. DOMAIN pools' = DOMAIN pools
  BY DEF SamePools
<1>3. QED
  BY <1>1, <1>2 DEF ObjectsOf, FreeOf

LEMMA AllocImplements ==
    ASSUME NoOverflow, Allocators, NEW i \in DOMAIN pools, Alloc(i)
    PROVE  AnAlloc(i)
<1>1. /\ SamePools
      /\ \/ result' = NULL /\ used' = used /\ Objects(pools[i]) \subseteq used
         \/ /\ result' # NULL /\ result' \in Objects(pools[i]) \ used
            /\ used' = used \cup {result'}
  BY AllocKeeps
<1>2. UNCHANGED ObjectsOf /\ (used' = used => UNCHANGED FreeOf)
  BY <1>1, SameOwners
<1>3. FreeOf[i] = Objects(pools[i]) \ used
  BY DEF FreeOf
<1>4. CASE used' = used /\ result' = NULL /\ Objects(pools[i]) \subseteq used
  BY <1>2, <1>3, <1>4 DEF AnAlloc
<1>5. CASE result' \in Objects(pools[i]) \ used /\ used' = used \cup {result'}
  <2>1. \A j \in DOMAIN pools : Objects(pools'[j]) = Objects(pools[j])
    BY <1>1, SameObjects
  <2>2. DOMAIN pools' = DOMAIN pools
    BY <1>1 DEF SamePools
  <2>3. \A j \in DOMAIN pools : j # i => result' \notin Objects(pools[j])
    BY <1>5, ObjectsApart DEF Allocators
  <2>4. \A j \in DOMAIN pools :
          Objects(pools'[j]) \ used'
            = IF j = i THEN FreeOf[j] \ {result'} ELSE FreeOf[j]
    BY <1>5, <2>1, <2>3 DEF FreeOf
  <2>5. FreeOf' = [j \in DOMAIN pools |->
                    IF j = i THEN FreeOf[j] \ {result'} ELSE FreeOf[j]]
    BY <2>2, <2>4 DEF FreeOf
  <2>6. DOMAIN FreeOf = DOMAIN pools
    BY DEF FreeOf
  <2>7. FreeOf' = [FreeOf EXCEPT ![i] = FreeOf[i] \ {result'}]
    BY <2>5, <2>6
  <2>8. QED
    BY <1>2, <1>3, <1>5, <2>7 DEF AnAlloc
<1>6. QED
  BY <1>1, <1>4, <1>5

LEMMA FreeImplements ==
    ASSUME NoOverflow, Allocators, NEW i \in DOMAIN pools, NEW obj \in Objects(pools[i]),
           Free(i, obj)
    PROVE  obj \in ObjectsOf[i] \ FreeOf[i] /\ AFree(i, obj)
<1>1. SamePools /\ used' = used \ {obj} /\ obj \in used /\ result' = result
  BY FreeKeeps DEF Free
<1>2. UNCHANGED ObjectsOf
  BY <1>1, SameOwners
<1>3. obj \in ObjectsOf[i] \ FreeOf[i]
  BY <1>1 DEF ObjectsOf, FreeOf
<1>4. \A j \in DOMAIN pools : Objects(pools'[j]) = Objects(pools[j])
  BY <1>1, SameObjects
<1>5. DOMAIN pools' = DOMAIN pools
  BY <1>1 DEF SamePools
<1>6. \A j \in DOMAIN pools : j # i => obj \notin Objects(pools[j])
  BY ObjectsApart DEF Allocators
<1>7. \A j \in DOMAIN pools :
        Objects(pools'[j]) \ used' = IF j = i THEN FreeOf[j] \cup {obj} ELSE FreeOf[j]
  BY <1>1, <1>4, <1>6 DEF FreeOf
<1>8. FreeOf' = [j \in DOMAIN pools |-> IF j = i THEN FreeOf[j] \cup {obj} ELSE FreeOf[j]]
  BY <1>5, <1>7 DEF FreeOf
<1>9. DOMAIN FreeOf = DOMAIN pools
  BY DEF FreeOf
<1>10. FreeOf' = [FreeOf EXCEPT ![i] = FreeOf[i] \cup {obj}]
  BY <1>8, <1>9
<1>11. QED
  BY <1>1, <1>2, <1>3, <1>10 DEF AFree

LEMMA InitPoolImplements ==
    ASSUME NoOverflow, Allocators, used = {}, InitPool
    PROVE  APool
<1> DEFINE n == Len(pools) + 1
           new == Objects(pools'[n])
<1>1. /\ used' = {} /\ result' = result /\ Len(pools') = n
      /\ \A i \in DOMAIN pools : pools'[i] = pools[i]
      /\ new # {} /\ \A i \in DOMAIN pools : new \cap Objects(pools[i]) = {}
      /\ new \subseteq Addr /\ PoolsTypeOK'
  BY InitPoolKeeps DEF Allocators
<1>2. /\ DOMAIN pools = 1 .. Len(pools) /\ Len(pools) \in Nat
      /\ pools' \in Seq(Pool)
  BY <1>1 DEF Allocators, PoolsTypeOK
<1>3. DOMAIN pools' = 1 .. n
  BY <1>1, <1>2
<1>4. \A i \in DOMAIN pools : Objects(pools[i]) \subseteq Addr
  BY PoolFacts DEF Allocators
<1>5. /\ ObjectsOf \in Seq(SUBSET Addr) /\ FreeOf \in Seq(SUBSET Addr)
      /\ Len(ObjectsOf) = Len(pools) /\ Len(FreeOf) = Len(pools)
  <2>1. /\ ObjectsOf = [i \in 1 .. Len(pools) |-> Objects(pools[i])]
        /\ FreeOf = [i \in 1 .. Len(pools) |-> Objects(pools[i]) \ used]
    BY <1>2 DEF ObjectsOf, FreeOf
  <2>2. ObjectsOf \in [1 .. Len(pools) -> SUBSET Addr]
    BY <1>2, <1>4, <2>1
  <2>3. FreeOf \in [1 .. Len(pools) -> SUBSET Addr]
    BY <1>2, <1>4, <2>1
  <2>4. QED
    BY SMTT(60), <1>2, <2>2, <2>3
<1>6. ObjectsOf' = [i \in 1 .. n |-> Objects(pools'[i])]
  BY <1>3 DEF ObjectsOf
<1>7. FreeOf' = [i \in 1 .. n |-> Objects(pools'[i])]
  BY <1>1, <1>3 DEF FreeOf
<1>8. n \in 1 .. n /\ \A i \in 1 .. n : i = n \/ i \in DOMAIN pools
  BY <1>2
<1>9. \A i \in DOMAIN pools : i \in 1 .. n /\ i # n
  BY <1>2
<1> HIDE DEF new
<1>10. ObjectsOf'[n] = new
  BY <1>6, <1>8 DEF new
<1>11. FreeOf' = Append(FreeOf, new)
  <2> DEFINE longer == Append(FreeOf, new)
  <2>1. new \in SUBSET Addr
    BY <1>1
  <2>2. /\ longer \in Seq(SUBSET Addr) /\ Len(longer) = n /\ longer[n] = new
        /\ \A i \in DOMAIN pools : longer[i] = FreeOf[i]
    BY <1>2, <1>5, <2>1, AppendProperties
  <2> HIDE DEF longer
  <2>3. DOMAIN longer = 1 .. n /\ longer = [i \in 1 .. n |-> longer[i]]
    BY <2>2
  <2>4. \A i \in 1 .. n : Objects(pools'[i]) = longer[i]
    BY <1>1, <1>8, <2>2 DEF new, FreeOf
  <2>5. QED
    BY <1>7, <2>3, <2>4 DEF longer
<1>12. \A q \in DOMAIN pools : ObjectsOf'[q] = ObjectsOf[q] /\ new \cap ObjectsOf[q] = {}
  BY <1>1, <1>6, <1>9 DEF ObjectsOf
<1>13. DOMAIN ObjectsOf = DOMAIN pools /\ DOMAIN ObjectsOf' = 1 .. n
  BY <1>3 DEF ObjectsOf
<1>14. QED
  BY <1>1, <1>5, <1>10, <1>11, <1>12, <1>13 DEF APool

LEMMA SameOutside ==
    ASSUME UNCHANGED poolVars
    PROVE  AStep
<1>1. SamePools /\ used' = used /\ result' = result
  BY DEF poolVars, SamePools
<1>2. QED
  BY <1>1, SameOwners DEF AStep

LEMMA AllocIsAStep ==
    ASSUME NoOverflow, Allocators, NEW i \in DOMAIN pools, Alloc(i)
    PROVE  AStep
<1>1. AnAlloc(i) /\ i \in DOMAIN ObjectsOf
  BY AllocImplements DEF ObjectsOf
<1>2. QED
  BY <1>1 DEF AStep

LEMMA FreeIsAStep ==
    ASSUME NoOverflow, Allocators, NEW i \in DOMAIN pools, NEW obj \in Objects(pools[i]),
           Free(i, obj)
    PROVE  AStep
<1>1. obj \in ObjectsOf[i] \ FreeOf[i] /\ AFree(i, obj) /\ i \in DOMAIN ObjectsOf
  BY FreeImplements DEF ObjectsOf
<1>2. QED
  BY <1>1 DEF AStep

\* Every step of Buffers is a step of the pools' specification or leaves them alone.
LEMMA StepImplements ==
    ASSUME NoOverflow, ThreePools, IInv, [Next]_vars
    PROVE  AStep
<1>1. Allocators /\ Held
  BY IInvParts
<1>2. CASE Start_up
  <2>1. CASE InitPool
    <3>1. used = {}
      <4>1. Len(pools) < Len(Kinds)
        BY <2>1 DEF InitPool
      <4>2. Len(pools) \in Nat /\ Len(Kinds) \in Nat
        BY <1>1, MemPoolAssumption DEF Allocators, PoolsTypeOK
      <4>3. QED
        BY <1>1, <4>1, <4>2 DEF Held
    <3>2. QED
      BY <1>1, <2>1, <3>1, InitPoolImplements DEF AStep
  <2>2. ASSUME NEW size \in MallocSize, malloc(size) PROVE AStep
    <3>1. SamePools /\ used' = used /\ result' = result
      BY <2>2 DEF malloc, SamePools
    <3>2. QED
      BY <3>1, SameOwners DEF AStep
  <2>3. QED
    BY <1>2, <2>1, <2>2 DEF Start_up
<1>3. CASE WriteObject
  <2>1. SamePools /\ used' = used /\ result' = result
    BY <1>3 DEF WriteObject, Write, SamePools
  <2>2. QED
    BY <2>1, SameOwners DEF AStep
<1>4. ASSUME Ready, Alloc(STRUCT) PROVE AStep
  BY <1>1, <1>4, ReadyFacts, AllocIsAStep
<1>5. CASE AllocBuffer \/ \E n \in Size : buffer_dma_alloc(n)
  BY <1>4, <1>5 DEF AllocBuffer, buffer_dma_alloc, MayCall, buffer_alloc, Ready
<1>6. ASSUME NEW b \in DOMAIN buf, FreeBuffer(b) PROVE AStep
  <2>1. Ready /\ Free(STRUCT, b)
    BY <1>6 DEF FreeBuffer, MayCall, Ready
  <2>2. STRUCT \in DOMAIN pools /\ b \in Objects(pools[STRUCT])
    BY <2>1, ReadyFacts
  <2>3. QED
    BY <1>1, <2>1, <2>2, FreeIsAStep
<1>7. ASSUME NEW b \in DOMAIN buf, buffer_dma_free(b) PROVE AStep
  <2> DEFINE i == dmapool_find_pool(buf[b].asked)
  <2>1. Ready /\ Free(i, buf[b].addr) /\ b \in WithMemory
    BY <1>7 DEF buffer_dma_free, MayCall, Ready, WithMemory
  <2>2. i \in DOMAIN pools /\ buf[b].addr \in Objects(pools[i])
    BY <1>1, <2>1, ReadyFacts DEF Held
  <2> HIDE DEF i
  <2>3. QED
    BY <1>1, <2>1, <2>2, FreeIsAStep
<1>8. CASE \E n \in Size, b \in DOMAIN buf : buffer_resize(b, n)
  BY <1>8, SameOutside DEF buffer_resize
<1>9. CASE dma_alloc
  <2> DEFINE i == dmapool_find_pool(Head(calls).size)
  <2>1. calls # << >> /\ i # NONE /\ Alloc(i)
    BY <1>9 DEF dma_alloc, At
  <2>2. i \in DOMAIN pools
    BY <2>1, CallsWhenReady, ReadyFacts, PoolOfSize
  <2> HIDE DEF i
  <2>3. QED
    BY <1>1, <2>1, <2>2, AllocIsAStep
<1>10. CASE dma_alloc_fails
  <2> DEFINE i == dmapool_find_pool(Head(calls).size)
  <2>1. calls # << >> /\ (UNCHANGED poolVars \/ (i # NONE /\ Alloc(i)))
    BY <1>10 DEF dma_alloc_fails, At
  <2>2. i # NONE => i \in DOMAIN pools
    BY <2>1, CallsWhenReady, ReadyFacts, PoolOfSize
  <2> HIDE DEF i
  <2>3. QED
    BY <1>1, <2>1, <2>2, AllocIsAStep, SameOutside
<1>11. CASE buffer_free
  <2> DEFINE b == Head(calls).buf
  <2>1. calls # << >> /\ Free(STRUCT, b)
    BY <1>11 DEF buffer_free, At
  <2>2. b \in Calling
    <3>1. 1 \in DOMAIN calls /\ Head(calls) = calls[1]
      BY <2>1, IInvParts DEF BuffersTypeOK
    <3>2. QED
      BY <3>1 DEF Calling
  <2>3. STRUCT \in DOMAIN pools /\ b \in Objects(pools[STRUCT])
    BY <2>1, <2>2, CallsWhenReady, ReadyFacts
  <2> HIDE DEF b
  <2>4. QED
    BY <1>1, <2>1, <2>3, FreeIsAStep
<1>12. CASE UNCHANGED vars
  BY <1>12, SameOutside DEF vars
<1>13. QED
  BY <1>2, <1>3, <1>5, <1>6, <1>7, <1>8, <1>9, <1>10, <1>11, <1>12 DEF Next

LEMMA InitImplements ==
    ASSUME Init
    PROVE  OP!Init
<1>1. pools = << >> /\ result = NULL /\ DOMAIN pools = {}
  BY DEF Init, PoolsInit
<1>2. [i \in DOMAIN pools |-> Objects(pools[i])] = << >>
  BY <1>1
<1>3. [i \in DOMAIN pools |-> Objects(pools[i]) \ used] = << >>
  BY <1>1
<1>4. QED
  BY <1>1, <1>2, <1>3 DEF OP!Init

\* ImplementsObjectPool: a pool's allocation returns an object of that pool that is not in
\* use, or nothing when all are, and freeing puts the object back, for malloc, direct users
\* and buffers together.
THEOREM PoolsKeepTheirPromise ==
    ASSUME NoOverflow, ThreePools
    PROVE  Spec => ImplementsObjectPool
<1>1. Init => OP!Init
  BY InitImplements
<1>2. IInv /\ [Next]_vars => [OP!Next]_(OP!vars)
  <2>1. AStep => [OP!Next]_(OP!vars)
    BY DEF AStep, APool, AnAlloc, AFree, ObjectsOf, FreeOf,
           OP!Next, OP!Create, OP!Alloc, OP!Free, OP!vars
  <2>2. QED
    BY <2>1, StepImplements
<1>3. Spec => []IInv
  BY AllocatorsAgree
<1>4. QED
  BY <1>1, <1>2, <1>3, PTL DEF Spec, ImplementsObjectPool, OP!Spec

-----------------------------------------------------------------------------
(* Bags: what their lists lead to, and what they count.                    *)

\* A free list of some of the objects leads to exactly these: they are closed under the
\* links, and a closed set without one of them would have two links out of it, or more
\* links into it than objects.
LEMMA ListOfLinked ==
    ASSUME NEW objs, NULL \notin objs, NEW F \in SUBSET objs, IsFiniteSet(F),
           NEW head, NEW links, Linked(F, head, links)
    PROVE  OnFreeList(links, head, objs) = F
<1> DEFINE Closed(S) == /\ head \in objs => head \in S
                        /\ \A a \in S : links[a] \in objs => links[a] \in S
<1>1. OnFreeList(links, head, objs) = {a \in objs : \A S \in SUBSET objs : Closed(S) => a \in S}
  BY DEF OnFreeList
<1>2. /\ IF F = {} THEN head = NULL ELSE head \in F
      /\ \A a \in F : links[a] \in (F \cup {NULL}) \ {head}
      /\ \A a, b \in F : links[a] = links[b] => a = b
  BY DEF Linked
<1>3. PICK rank \in [F -> Nat] : \A a \in F : links[a] # NULL => rank[links[a]] < rank[a]
  BY DEF Linked
<1>4. Closed(F)
  BY <1>2
<1>5. ASSUME NEW S \in SUBSET objs, Closed(S) PROVE F \subseteq S
  <2> SUFFICES ASSUME F \ S # {} PROVE FALSE
    OBVIOUS
  <2> DEFINE T == F \ S
             U == F \cap S
  <2>1. head \in U
    BY <1>2, <1>5
  <2>2. \A a \in U : links[a] \in U \/ links[a] = NULL
    BY <1>2, <1>5
  <2>3. /\ \A a \in T : links[a] = NULL \/ rank[links[a]] < rank[a]
        /\ \A a \in U : links[a] = NULL \/ rank[links[a]] < rank[a]
    BY <1>3
  <2>4. PICK t \in T : links[t] \in U \/ links[t] = NULL
    <3>1. [a \in T |-> rank[a]] \in [T -> Nat]
      OBVIOUS
    <3>2. PICK t \in T : links[t] \notin T \/ ~ ([a \in T |-> rank[a]][links[t]] < [a \in T |-> rank[a]][t])
      BY <3>1, LinksEnd
    <3>3. QED
      BY <1>2, <2>3, <3>2
  <2>5. PICK s \in U : links[s] = NULL
    <3>1. [a \in U |-> rank[a]] \in [U -> Nat] /\ U # {}
      BY <2>1
    <3>2. PICK s \in U : links[s] \notin U \/ ~ ([a \in U |-> rank[a]][links[s]] < [a \in U |-> rank[a]][s])
      BY <3>1, LinksEnd
    <3>3. QED
      BY <2>2, <2>3, <3>2
  <2>6. links[t] \in U \ {head}
    BY <1>2, <2>4, <2>5
  <2> DEFINE V == (U \ {s}) \cup {t}
             W == U \ {head}
             f == [a \in V |-> links[a]]
  <2>7. f \in [V -> W]
    BY <1>2, <2>2, <2>5, <2>6
  <2>8. \A a, b \in V : f[a] = f[b] => a = b
    BY <1>2
  <2>9. /\ IsFiniteSet(V) /\ IsFiniteSet(W) /\ Cardinality(W) < Cardinality(V)
    <3>0. U \subseteq F
      OBVIOUS
    <3> HIDE DEF U
    <3>1. IsFiniteSet(U) /\ Cardinality(U) \in Nat
      BY <3>0, FS_Subset, FS_CardinalityType
    <3>2. IsFiniteSet(U \ {s}) /\ Cardinality(U \ {s}) = Cardinality(U) - 1
      BY <3>1, FS_RemoveElement
    <3>3. IsFiniteSet(W) /\ Cardinality(W) = Cardinality(U) - 1
      BY <2>1, <3>1, FS_RemoveElement
    <3>4. t \notin U \ {s}
      BY DEF U
    <3>5. IsFiniteSet(V) /\ Cardinality(V) = Cardinality(U \ {s}) + 1
      BY <3>2, <3>4, FS_AddElement
    <3>6. QED
      BY <3>1, <3>2, <3>3, <3>5
  <2> HIDE DEF V, W, f
  <2>10. QED
    BY <2>7, <2>8, <2>9, FS_PigeonHole
<1> HIDE DEF Closed
<1>6. QED
  BY <1>1, <1>4, <1>5

\* A pool of nr_objects has that many objects.
LEMMA ObjectsCounted ==
    ASSUME NEW k \in Kind, NEW start \in Nat, Aligned(start, k.align_order),
           start + 2 ^ k.align_order <= 2 ^ AddrBits,
           Stride(k) \in Nat, Stride(k) > 0,
           NEW objs, objs = mem_pool_objects(start, pool_size(k), k.objsize, k.align_order)
    PROVE  IsFiniteSet(objs) /\ Cardinality(objs) = k.nr_objects
<1> DEFINE s == Stride(k)
           n == k.nr_objects
           f == [i \in 0 .. n - 1 |-> start + i * s]
<1>0. k.align_order \in 0 .. AddrBits /\ n \in Nat \ {0} /\ s \in Nat \ {0}
  BY DEF Kind
<1>1. round_up(start, k.align_order) = start
  BY <1>0, RoundUp
<1>2. objs = {start} \cup {start + i * s : i \in 1 .. (((n * s) - (start - start)) \div s) - 1}
  BY <1>1 DEF mem_pool_objects, pool_size, Stride
<1> HIDE DEF s, n
<1>3. ((n * s) - (start - start)) \div s = n
  <2>1. (n * s) - (start - start) = s * n
    BY <1>0
  <2>2. (s * n) \div s = n
    BY <1>0
  <2>3. QED
    BY <2>1, <2>2
<1>4. objs = {start} \cup {start + i * s : i \in 1 .. n - 1}
  BY <1>2, <1>3
<1>5. f \in [0 .. n - 1 -> objs]
  <2>1. ASSUME NEW i \in 0 .. n - 1 PROVE start + i * s \in objs
    <3>1. CASE i = 0
      BY <1>0, <1>4, <3>1
    <3>2. CASE i \in 1 .. n - 1
      BY <1>4, <3>2
    <3>3. QED
      BY <1>0, <3>1, <3>2
  <2>2. QED
    BY <2>1
<1>6. \A i, j \in 0 .. n - 1 : f[i] = f[j] => i = j
  <2>1. ASSUME NEW i \in 0 .. n - 1, NEW j \in 0 .. n - 1, i < j
        PROVE  i * s < j * s /\ i * s \in Nat /\ j * s \in Nat
    <3>1. (j - i) * s > 0
      BY <1>0, <2>1
    <3>2. (j - i) * s = j * s - i * s
      BY <1>0
    <3>3. i * s \in Nat /\ j * s \in Nat
      BY <1>0
    <3>4. QED
      BY <3>1, <3>2, <3>3
  <2>2. ASSUME NEW i \in 0 .. n - 1, NEW j \in 0 .. n - 1, f[i] = f[j]
        PROVE  i = j
    <3>1. f[i] = start + i * s /\ f[j] = start + j * s
      OBVIOUS
    <3>2. i * s \in Nat /\ j * s \in Nat
      BY <1>0
    <3>3. i * s = j * s
      BY <2>2, <3>1, <3>2
    <3>4. ~ (i < j) /\ ~ (j < i)
      BY <2>1, <3>2, <3>3
    <3>5. QED
      BY <3>4
  <2>3. QED
    BY <2>2
<1>7. \A a \in objs : \E i \in 0 .. n - 1 : f[i] = a
  <2>1. f[0] = start /\ 0 \in 0 .. n - 1
    BY <1>0
  <2>2. QED
    BY <1>4, <2>1
<1>8. IsFiniteSet(0 .. n - 1) /\ Cardinality(0 .. n - 1) = n
  <2>1. 0 \in Int /\ n - 1 \in Int
    BY <1>0
  <2>2. /\ IsFiniteSet(0 .. n - 1)
        /\ Cardinality(0 .. n - 1) = IF 0 > n - 1 THEN 0 ELSE (n - 1) - 0 + 1
    BY ONLY <2>1, FS_Interval
  <2>3. QED
    BY <1>0, <2>2
<1> HIDE DEF f
<1>9. ExistsBijection(0 .. n - 1, objs)
  BY <1>5, <1>6, <1>7, Fun_IsBij DEF ExistsBijection
<1>10. QED
  BY <1>8, <1>9, FS_Bijection DEF n

FreeBlocks(i) == Objects(pools[i]) \ used

Bags == DOMAIN pools

\* Blocks are in use of bags that are all there; the counts are those of the blocks that
\* are not.
BagsInv ==
    /\ Allocators
    /\ ~ Initialized => used = {}
    /\ used \subseteq AllBlocks
    /\ num_free_blocks \in Seq(Int) /\ Len(num_free_blocks) = Len(pools)
    /\ \A i \in Bags : num_free_blocks[i] = Cardinality(FreeBlocks(i))

LEMMA BagFacts ==
    ASSUME NoOverflow, Allocators
    PROVE  /\ Bags = 1 .. Len(pools) /\ Len(pools) \in Nat
           /\ \A i \in Bags : /\ Objects(pools[i]) \subseteq Addr
                              /\ IsFiniteSet(Objects(pools[i]))
                              /\ IsFiniteSet(FreeBlocks(i))
           /\ \A i, j \in Bags : i # j => Objects(pools[i]) \cap Objects(pools[j]) = {}
           /\ AllBlocks \subseteq Addr /\ NULL \notin Addr
<1>1. PoolsTypeOK /\ Layout
  BY DEF Allocators
<1>2. \A i \in Bags : Objects(pools[i]) \subseteq Addr
  BY <1>1, PoolFacts DEF Bags
<1>3. IsFiniteSet(Addr)
  <2>1. 0 \in Int /\ (2 ^ AddrBits) - 1 \in Int
    BY Powers
  <2>2. QED
    BY <2>1, FS_Interval DEF Addr
<1>4. \A i \in Bags : IsFiniteSet(Objects(pools[i])) /\ IsFiniteSet(FreeBlocks(i))
  <2>1. \A S \in SUBSET Addr : IsFiniteSet(S)
    BY <1>3, FS_Subset
  <2>2. QED
    BY <1>2, <2>1 DEF FreeBlocks
<1>5. Bags = 1 .. Len(pools) /\ Len(pools) \in Nat
  BY <1>1 DEF PoolsTypeOK, Bags
<1>6. \A i, j \in Bags : i # j => Objects(pools[i]) \cap Objects(pools[j]) = {}
  BY <1>1, ObjectsApart DEF Bags
<1>7. QED
  BY <1>2, <1>4, <1>5, <1>6, AddressFacts DEF AllBlocks, Bags

\* The bag that the loop of membag_free stops at is the block's: the range of a later bag
\* may end where the block begins, but it is looked at later.
LEMMA FreeFindsTheBag ==
    ASSUME NoOverflow, Allocators, NEW i \in Bags, NEW ptr \in Objects(pools[i])
    PROVE  /\ i \in Around(ptr)
           /\ \A j \in Around(ptr) : i <= j
<1>1. PoolsTypeOK /\ Layout
  BY DEF Allocators
<1>2. \A j \in Bags : /\ pools[j].start \in Nat /\ Above(pools[j]) \in Nat
                      /\ end(j) = Above(pools[j])
                      /\ Objects(pools[j]) \subseteq pools[j].start .. Above(pools[j]) - 1
  BY <1>1, PoolFacts DEF Bags, end, Above
<1>3. ptr \in Nat /\ pools[i].start <= ptr /\ ptr < Above(pools[i])
  BY <1>2
<1>4. i \in Around(ptr)
  BY <1>2, <1>3 DEF Around, Bags
<1>5. ASSUME NEW j \in Around(ptr), j < i PROVE FALSE
  <2>1. j \in Bags /\ pools[j].start <= ptr
    BY DEF Around, Bags
  <2>2. Above(pools[i]) <= pools[j].start
    BY <1>1, <1>5, <2>1 DEF Layout, Bags
  <2>3. QED
    BY <1>2, <1>3, <2>1, <2>2
<1>6. Bags \subseteq Nat /\ Around(ptr) \subseteq Bags
  BY BagFacts DEF Around, Bags
<1>7. QED
  BY <1>4, <1>5, <1>6

LEMMA NoBagAround ==
    ASSUME NoOverflow, Allocators, NEW ptr \in Invalid
    PROVE  Around(ptr) = {} /\ ptr \notin AllBlocks
<1>1. PoolsTypeOK /\ Layout
  BY DEF Allocators
<1>2. /\ phys.end \in Nat /\ phys.start \in Nat /\ Start \in Nat /\ End \in Nat
      /\ Start <= phys.start /\ phys.start <= phys.end
  BY <1>1, AddressFacts DEF PoolsTypeOK, Layout
<1>3. ASSUME NEW j \in Bags
      PROVE  /\ pools[j].start \in Nat /\ end(j) \in Nat
             /\ Start <= pools[j].start /\ end(j) <= End
             /\ Objects(pools[j]) \subseteq pools[j].start .. end(j)
  <2>1. /\ pools[j].start \in Nat /\ Above(pools[j]) \in Nat
        /\ phys.end <= pools[j].start /\ Above(pools[j]) <= End
        /\ Objects(pools[j]) \subseteq pools[j].start .. Above(pools[j]) - 1
        /\ end(j) = Above(pools[j])
    BY <1>1, PoolFacts DEF Bags, end, Above
  <2>2. QED
    BY <1>2, <2>1
<1>4. ptr \in Nat /\ ~ (Start <= ptr /\ ptr <= End)
  BY <1>2, MemBagAssumption
<1>5. \A j \in Bags : ~ (pools[j].start <= ptr /\ ptr <= end(j))
  BY <1>2, <1>3, <1>4
<1>6. \A j \in Bags : ptr \notin Objects(pools[j])
  <2>1. ASSUME NEW j \in Bags, ptr \in Objects(pools[j]) PROVE FALSE
    <3>1. pools[j].start <= ptr /\ ptr <= end(j)
      BY <1>3, <2>1
    <3>2. QED
      BY <1>5, <3>1
  <2>2. QED
    BY <2>1
<1>7. QED
  BY <1>5, <1>6 DEF Around, AllBlocks, Bags

\* What steps that keep the pools must show.
LEMMA CountsKept ==
    ASSUME NoOverflow, BagsInv, Allocators', SamePools, Initialized,
           used' \subseteq AllBlocks,
           num_free_blocks' \in Seq(Int), Len(num_free_blocks') = Len(num_free_blocks),
           \A i \in Bags : num_free_blocks'[i] = Cardinality(Objects(pools[i]) \ used')
    PROVE  BagsInv'
<1>1. \A i \in Bags : Objects(pools'[i]) = Objects(pools[i])
  BY SameObjects DEF Bags
<1>2. Bags' = Bags /\ AllBlocks' = AllBlocks
  BY <1>1 DEF Bags, AllBlocks, SamePools
<1>3. Initialized'
  BY DEF Initialized, SamePools
<1>4. \A i \in Bags : FreeBlocks(i)' = Objects(pools[i]) \ used'
  BY <1>1 DEF FreeBlocks
<1>5. QED
  BY <1>2, <1>3, <1>4 DEF BagsInv, SamePools

LEMMA BagsStart == MemBagInit => BagsInv
<1> SUFFICES ASSUME MemBagInit PROVE BagsInv
  OBVIOUS
<1>1. /\ phys = [start |-> Start, end |-> End] /\ malloced = {} /\ pools = << >>
      /\ mem = [a \in Addr |-> NULL] /\ used = {} /\ result = NULL
      /\ num_free_blocks = << >>
  BY DEF MemBagInit, PoolsInit
<1>2. Len(pools) = 0 /\ DOMAIN pools = {} /\ pools \in Seq(Pool)
  BY <1>1
<1>3. phys \in [start : Nat, end : Nat] /\ phys.start = Start /\ phys.end = End
  BY <1>1, AddressFacts
<1>4. PoolsTypeOK
  <2>1. IsFiniteSet(malloced)
    BY <1>1, FS_EmptySet
  <2>2. mem \in [Addr -> Pointer \cup Written] /\ result \in Pointer
    BY <1>1 DEF Pointer
  <2>3. QED
    BY <1>1, <1>2, <1>3, <2>1, <2>2 DEF PoolsTypeOK
<1>5. Layout
  <2>1. Start <= End /\ Start \in Nat /\ End \in Nat /\ Len(Kinds) \in Nat
    BY AddressFacts, MemPoolAssumption
  <2>2. QED
    BY <1>1, <1>2, <1>3, <2>1 DEF Layout
<1>6. FreeListsLinked
  BY <1>2 DEF FreeListsLinked
<1>7. num_free_blocks \in Seq(Int) /\ Len(num_free_blocks) = 0
  BY <1>1
<1>8. QED
  BY <1>1, <1>2, <1>4, <1>5, <1>6, <1>7 DEF BagsInv, Bags, Allocators

LEMMA BagCreated ==
    ASSUME NoOverflow, BagsInv, membag_init
    PROVE  BagsInv'
<1> DEFINE n == Len(pools) + 1
           k == Kinds[n]
<1>1. /\ Allocators /\ InitPool /\ Len(pools) < Len(Kinds) /\ used = {}
      /\ num_free_blocks' = Append(num_free_blocks, k.nr_objects)
      /\ num_free_blocks \in Seq(Int) /\ Len(num_free_blocks) = Len(pools)
      /\ \A i \in Bags : num_free_blocks[i] = Cardinality(FreeBlocks(i))
  <2>1. InitPool /\ num_free_blocks' = Append(num_free_blocks, k.nr_objects)
    BY DEF membag_init
  <2>2. Len(pools) < Len(Kinds)
    BY <2>1 DEF InitPool
  <2>3. Len(Kinds) \in Nat /\ Len(pools) \in Nat
    BY BagFacts, MemPoolAssumption DEF BagsInv
  <2>4. ~ Initialized
    BY <2>2, <2>3 DEF Initialized
  <2>5. QED
    BY <2>1, <2>2, <2>4 DEF BagsInv
<1>2. /\ Allocators' /\ used' = {} /\ Len(pools') = n
      /\ \A i \in Bags : pools'[i] = pools[i]
  BY <1>1, InitPoolKeeps DEF Bags
<1>3. Bags = 1 .. Len(pools) /\ Len(pools) \in Nat
  BY <1>1, BagFacts
<1>4. PoolsTypeOK' /\ Layout'
  BY <1>2 DEF Allocators
<1>5. Bags' = 1 .. n /\ n \in Bags'
  BY <1>2, <1>3, <1>4 DEF PoolsTypeOK, Bags
<1>6. n \in DOMAIN Kinds
  <2>1. Len(Kinds) \in Nat /\ DOMAIN Kinds = 1 .. Len(Kinds)
    BY MemPoolAssumption
  <2>2. QED
    BY <1>1, <1>3, <2>1
<1>7. /\ k \in Kind /\ Stride(k) \in Nat /\ Stride(k) > 0 /\ k.nr_objects \in Nat
      /\ pool_size(k) \in Nat /\ End + 2 ^ k.align_order <= 2 ^ AddrBits
      /\ 2 ^ k.align_order \in Nat /\ 2 ^ AddrBits \in Nat
  <2>1. /\ k \in Kind /\ Stride(k) \in Nat /\ Stride(k) > 0 /\ pool_size(k) \in Nat
        /\ End + 2 ^ k.align_order <= 2 ^ AddrBits
    BY <1>6, KindFacts
  <2>2. k.nr_objects \in Nat /\ k.align_order \in 0 .. AddrBits
    BY <2>1 DEF Kind
  <2>3. QED
    BY <2>1, <2>2, Powers
<1> DEFINE p == pools'[n]
<1>8. /\ p \in Pool /\ p.kind = k /\ Aligned(p.start, k.align_order)
      /\ p.start + pool_size(p.kind) <= End
  BY <1>4, <1>5 DEF PoolsTypeOK, Layout, Bags, Above
<1>9. p.start \in Nat /\ p.start + 2 ^ k.align_order <= 2 ^ AddrBits
  <2>1. p.start \in Nat
    BY <1>8 DEF Pool
  <2>2. End \in Nat
    BY AddressFacts
  <2>3. p.start + pool_size(k) <= End
    BY <1>8
  <2> HIDE DEF p, k
  <2>4. QED
    BY <1>7, <2>1, <2>2, <2>3
<1>10. Cardinality(Objects(p)) = k.nr_objects
  <2>1. Objects(p) = mem_pool_objects(p.start, pool_size(k), k.objsize, k.align_order)
    BY <1>8 DEF Objects
  <2> HIDE DEF p, k
  <2>2. QED
    BY <1>7, <1>8, <1>9, <2>1, ObjectsCounted
<1>11. \A i \in Bags' : FreeBlocks(i)' = Objects(pools'[i])
  BY <1>2 DEF FreeBlocks
<1>12. \A i \in Bags : FreeBlocks(i) = Objects(pools[i])
  BY <1>1 DEF FreeBlocks
<1>13. /\ num_free_blocks' \in Seq(Int) /\ Len(num_free_blocks') = n
       /\ num_free_blocks'[n] = k.nr_objects
       /\ \A i \in 1 .. Len(pools) : num_free_blocks'[i] = num_free_blocks[i]
  BY <1>1, <1>3, <1>7, AppendProperties
<1>14. ASSUME NEW i \in Bags' PROVE num_free_blocks'[i] = Cardinality(FreeBlocks(i)')
  <2>1. CASE i = n
    BY <1>10, <1>11, <1>13, <2>1
  <2>2. CASE i \in Bags
    BY <1>1, <1>2, <1>3, <1>11, <1>12, <1>13, <2>2
  <2>3. QED
    BY <1>3, <1>5, <2>1, <2>2
<1>15. QED
  BY <1>2, <1>13, <1>14 DEF BagsInv

LEMMA BlockAllocated ==
    ASSUME NoOverflow, BagsInv, NEW size \in Asked, membag_alloc(size)
    PROVE  BagsInv'
<1>1. PICK i \in Usable(size) :
         /\ Alloc(i) /\ Initialized
         /\ num_free_blocks' = [num_free_blocks EXCEPT ![i] = @ - 1]
  BY DEF membag_alloc
<1>2. i \in Bags /\ pools[i].freelist # NULL
  BY DEF Usable, Bags
<1>3. Allocators
  BY DEF BagsInv
<1>4. /\ Allocators' /\ SamePools
      /\ result' \in Objects(pools[i]) \ used /\ used' = used \cup {result'}
  <2>1. result' # NULL
    BY <1>1, <1>2 DEF Alloc
  <2>2. QED
    BY <1>1, <1>2, <1>3, <2>1, AllocKeeps DEF Bags
<1>5. used' \subseteq AllBlocks
  BY <1>2, <1>4 DEF BagsInv, AllBlocks, Bags
<1>6. /\ num_free_blocks \in Seq(Int) /\ Len(num_free_blocks) = Len(pools)
      /\ \A j \in Bags : num_free_blocks[j] = Cardinality(FreeBlocks(j))
  BY DEF BagsInv
<1>7. Bags = DOMAIN num_free_blocks /\ Bags = 1 .. Len(pools)
  BY <1>3, <1>6, BagFacts
<1>8. /\ num_free_blocks' \in Seq(Int) /\ Len(num_free_blocks') = Len(num_free_blocks)
      /\ num_free_blocks'[i] = num_free_blocks[i] - 1
      /\ \A j \in Bags : j # i => num_free_blocks'[j] = num_free_blocks[j]
  BY <1>1, <1>2, <1>6, <1>7
<1>9. ASSUME NEW j \in Bags
      PROVE  num_free_blocks'[j] = Cardinality(Objects(pools[j]) \ used')
  <2>1. CASE j = i
    <3>1. Objects(pools[i]) \ used' = FreeBlocks(i) \ {result'} /\ result' \in FreeBlocks(i)
      BY <1>4 DEF FreeBlocks
    <3>2. IsFiniteSet(FreeBlocks(i))
      BY <1>2, <1>3, BagFacts
    <3>3. Cardinality(FreeBlocks(i) \ {result'}) = Cardinality(FreeBlocks(i)) - 1
      BY <3>1, <3>2, FS_RemoveElement
    <3>4. QED
      BY <1>6, <1>8, <2>1, <3>1, <3>3
  <2>2. CASE j # i
    <3>1. result' \notin Objects(pools[j])
      BY <1>2, <1>3, <1>4, <2>2, BagFacts
    <3>2. Objects(pools[j]) \ used' = FreeBlocks(j)
      BY <1>4, <3>1 DEF FreeBlocks
    <3>3. QED
      BY <1>6, <1>8, <2>2, <3>2
  <2>3. QED
    BY <2>1, <2>2
<1>10. QED
  BY <1>1, <1>4, <1>5, <1>8, <1>9, CountsKept

LEMMA NoBlock ==
    ASSUME NoOverflow, BagsInv, NEW size \in Asked, membag_alloc_fails(size)
    PROVE  BagsInv'
<1>1. /\ result' = NULL /\ Initialized /\ phys' = phys /\ malloced' = malloced
      /\ pools' = pools /\ mem' = mem /\ used' = used /\ num_free_blocks' = num_free_blocks
  BY DEF membag_alloc_fails
<1>2. Allocators' /\ SamePools
  BY <1>1 DEF BagsInv, Allocators, PoolsTypeOK, Layout, FreeListsLinked, SamePools, Pointer
<1>3. QED
  BY <1>1, <1>2, CountsKept DEF BagsInv, FreeBlocks

LEMMA BlockWritten ==
    ASSUME NoOverflow, BagsInv, WriteBlock
    PROVE  BagsInv'
<1>1. PICK obj \in used, word \in Written : Write(obj, word)
  BY DEF WriteBlock
<1>2. num_free_blocks' = num_free_blocks
  BY DEF WriteBlock
<1>3. Allocators' /\ SamePools /\ used' = used
  BY <1>1, WriteKeeps DEF BagsInv
<1>4. Initialized
  BY DEF BagsInv
<1>5. QED
  BY <1>2, <1>3, <1>4, CountsKept DEF BagsInv, FreeBlocks

LEMMA BlockFreed ==
    ASSUME NoOverflow, BagsInv, NEW ptr \in used, membag_free(ptr)
    PROVE  BagsInv'
<1>1. Allocators /\ Initialized
  BY DEF BagsInv, membag_free
<1>2. PICK i \in Bags : ptr \in Objects(pools[i])
  BY DEF BagsInv, AllBlocks, Bags
<1>3. i \in Around(ptr) /\ \A j \in Around(ptr) : i <= j
  BY <1>1, <1>2, FreeFindsTheBag
<1>4. Around(ptr) \subseteq Nat
  BY <1>1, BagFacts DEF Around, Bags
<1>5. Free(i, ptr) /\ num_free_blocks' = [num_free_blocks EXCEPT ![i] = @ + 1]
  <2>1. PICK m \in Around(ptr) :
           /\ \A j \in Around(ptr) : m <= j
           /\ mem' = mem_pool_free(mem, pools[m].freelist, ptr)
           /\ pools' = [pools EXCEPT ![m].freelist = ptr]
           /\ num_free_blocks' = [num_free_blocks EXCEPT ![m] = @ + 1]
    BY <1>3 DEF membag_free
  <2>2. m = i
    BY <1>3, <1>4, <2>1
  <2>3. used' = used \ {ptr} /\ UNCHANGED <<phys, malloced, result>>
    BY DEF membag_free
  <2>4. QED
    BY <2>1, <2>2, <2>3 DEF Free
<1>6. Allocators' /\ SamePools /\ used' = used \ {ptr}
  BY <1>1, <1>2, <1>5, FreeKeeps DEF Bags
<1>7. used' \subseteq AllBlocks
  BY <1>6 DEF BagsInv
<1>8. /\ num_free_blocks \in Seq(Int) /\ Len(num_free_blocks) = Len(pools)
      /\ \A j \in Bags : num_free_blocks[j] = Cardinality(FreeBlocks(j))
  BY DEF BagsInv
<1>9. Bags = DOMAIN num_free_blocks /\ Bags = 1 .. Len(pools)
  BY <1>1, <1>8, BagFacts
<1>10. /\ num_free_blocks' \in Seq(Int) /\ Len(num_free_blocks') = Len(num_free_blocks)
       /\ num_free_blocks'[i] = num_free_blocks[i] + 1
       /\ \A j \in Bags : j # i => num_free_blocks'[j] = num_free_blocks[j]
  BY <1>2, <1>5, <1>8, <1>9
<1>11. ASSUME NEW j \in Bags
       PROVE  num_free_blocks'[j] = Cardinality(Objects(pools[j]) \ used')
  <2>1. CASE j = i
    <3>1. Objects(pools[i]) \ used' = FreeBlocks(i) \cup {ptr} /\ ptr \notin FreeBlocks(i)
      BY <1>2, <1>6 DEF FreeBlocks
    <3>2. IsFiniteSet(FreeBlocks(i))
      BY <1>1, <1>2, BagFacts
    <3>3. Cardinality(FreeBlocks(i) \cup {ptr}) = Cardinality(FreeBlocks(i)) + 1
      BY <3>1, <3>2, FS_AddElement
    <3>4. QED
      BY <1>8, <1>10, <2>1, <3>1, <3>3
  <2>2. CASE j # i
    <3>1. ptr \notin Objects(pools[j])
      BY <1>1, <1>2, <2>2, BagFacts
    <3>2. Objects(pools[j]) \ used' = FreeBlocks(j)
      BY <1>6, <3>1 DEF FreeBlocks
    <3>3. QED
      BY <1>8, <1>10, <2>2, <3>2
  <2>3. QED
    BY <2>1, <2>2
<1>12. QED
  BY <1>1, <1>6, <1>7, <1>10, <1>11, CountsKept

LEMMA BagsUnchanged ==
    ASSUME NoOverflow, BagsInv, UNCHANGED bagVars
    PROVE  BagsInv'
<1>1. UNCHANGED <<phys, pools, mem, used, malloced, result, num_free_blocks>>
  BY DEF bagVars, poolVars
<1>2. Allocators'
  BY <1>1 DEF BagsInv, Allocators, PoolsTypeOK, Layout, FreeListsLinked
<1>3. Bags' = Bags /\ AllBlocks' = AllBlocks /\ (Initialized <=> Initialized')
  BY <1>1 DEF Bags, AllBlocks, Initialized
<1>4. \A i \in Bags : FreeBlocks(i)' = FreeBlocks(i)
  BY <1>1 DEF FreeBlocks
<1>5. QED
  BY <1>1, <1>2, <1>3, <1>4 DEF BagsInv

LEMMA OtherPointer ==
    ASSUME NoOverflow, BagsInv, NEW ptr \in Invalid, membag_free(ptr)
    PROVE  BagsInv'
<1>1. Around(ptr) = {} /\ ptr \notin AllBlocks
  BY NoBagAround DEF BagsInv
<1>2. used' = used /\ UNCHANGED <<mem, pools, num_free_blocks, phys, malloced, result>>
  BY <1>1 DEF membag_free, BagsInv
<1>3. QED
  BY <1>2, BagsUnchanged DEF bagVars, poolVars

LEMMA BagsStep ==
    ASSUME NoOverflow, BagsInv, [MemBagNext]_bagVars
    PROVE  BagsInv'
<1>1. CASE membag_init \/ WriteBlock
  BY <1>1, BagCreated, BlockWritten
<1>2. ASSUME NEW size \in Asked, membag_alloc(size) \/ membag_alloc_fails(size)
      PROVE  BagsInv'
  BY <1>2, BlockAllocated, NoBlock
<1>3. ASSUME NEW ptr \in used \cup Invalid, membag_free(ptr) PROVE BagsInv'
  BY <1>3, BlockFreed, OtherPointer
<1>4. QED
  BY <1>1, <1>2, <1>3, BagsUnchanged DEF MemBagNext

LEMMA ListsOfBags ==
    ASSUME NoOverflow, BagsInv, NEW i \in Bags
    PROVE  OnList(i) = FreeBlocks(i)
<1>1. Allocators /\ Linked(FreeBlocks(i), pools[i].freelist, mem)
  BY DEF BagsInv, Allocators, FreeListsLinked, FreeBlocks, Bags
<1>2. FreeBlocks(i) \subseteq AllBlocks
  BY DEF FreeBlocks, AllBlocks, Bags
<1>3. NULL \notin AllBlocks /\ IsFiniteSet(FreeBlocks(i))
  BY <1>1, BagFacts
<1>4. QED
  BY <1>1, <1>2, <1>3, ListOfLinked DEF OnList

\* membag_free finds for every block the bag it was allocated from, although the bounds it
\* compares with touch the next bag's, so that every list holds the blocks of its bag that
\* are not in use, whatever the holders of blocks wrote to them.
THEOREM BlocksReturnToTheirBag ==
    ASSUME NoOverflow
    PROVE  MemBagSpec => []BlocksStayInTheirBag
<1>1. ASSUME BagsInv PROVE BlocksStayInTheirBag
  <2>1. ASSUME NEW i \in Bags
        PROVE  /\ OnList(i) = Objects(pools[i]) \ used
               /\ {pools[i].freelist} \cup {mem[a] : a \in OnList(i)} \subseteq OnList(i) \cup {NULL}
    <3>1. Linked(FreeBlocks(i), pools[i].freelist, mem)
      BY <1>1 DEF BagsInv, Allocators, FreeListsLinked, FreeBlocks, Bags
    <3>2. OnList(i) = FreeBlocks(i)
      BY <1>1, ListsOfBags
    <3>3. /\ pools[i].freelist \in FreeBlocks(i) \cup {NULL}
          /\ \A a \in FreeBlocks(i) : mem[a] \in FreeBlocks(i) \cup {NULL}
      BY <3>1 DEF Linked
    <3>4. QED
      BY <3>2, <3>3 DEF FreeBlocks
  <2>2. QED
    BY <2>1 DEF BlocksStayInTheirBag, Bags
<1>2. BagsInv /\ [MemBagNext]_bagVars => BagsInv'
  BY BagsStep
<1>3. QED
  BY <1>1, <1>2, BagsStart, PTL DEF MemBagSpec

\* The statistics that membag_get_free sums up count the blocks on the lists.
THEOREM FreeBlocksAreCounted ==
    ASSUME NoOverflow
    PROVE  MemBagSpec => []FreeCountExact
<1>1. ASSUME BagsInv PROVE FreeCountExact
  BY <1>1, ListsOfBags DEF BagsInv, FreeCountExact, Bags
<1>2. BagsInv /\ [MemBagNext]_bagVars => BagsInv'
  BY BagsStep
<1>3. QED
  BY <1>1, <1>2, BagsStart, PTL DEF MemBagSpec
=============================================================================

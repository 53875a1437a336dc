---------------------------- MODULE SListProofs ----------------------------
(***************************************************************************)
(* What the operators of SList do to the sequences their lists represent,  *)
(* for every heap, every set of nodes and every set of lists.              *)
(***************************************************************************)
EXTENDS SList, TLAPS, SequenceTheorems, FiniteSetTheorems, FunctionTheorems,
        WellFoundedInduction

(***************************************************************************)
(* NodeSeqs bounds its sequences by the number of nodes, so that it can be *)
(* enumerated; the bound excludes nothing.                                 *)
(***************************************************************************)
LEMMA NodeSeqsAreSeqs ==
    ASSUME NEW s
    PROVE  s \in NodeSeqs <=> s \in Seq(Node) /\ IsInjective(s)
<1>1. ASSUME s \in NodeSeqs
      PROVE  s \in Seq(Node) /\ IsInjective(s)
  <2>1. PICK m \in 0 .. Cardinality(Node) : s \in [1 .. m -> Node]
    BY <1>1 DEF NodeSeqs, SeqOf
  <2>2. m \in Nat
    BY <2>1, FS_CardinalityType, SListAssumption
  <2>3. s \in Seq(Node)
    BY <2>1, <2>2
  <2>4. QED
    BY <2>3, <1>1 DEF NodeSeqs
<1>2. ASSUME s \in Seq(Node), IsInjective(s)
      PROVE  s \in NodeSeqs
  <2>1. /\ Len(s) \in Nat
        /\ s \in [1 .. Len(s) -> Node]
        /\ DOMAIN s = 1 .. Len(s)
    BY <1>2, LenProperties
  <2>2. s \in Injection(1 .. Len(s), Node)
    BY <1>2, <2>1 DEF Injection, IsInjective
  <2>3. Cardinality(1 .. Len(s)) <= Cardinality(Node)
    BY <2>2, FS_Injection, SListAssumption
  <2>4. Cardinality(1 .. Len(s)) = Len(s)
    BY <2>1, FS_Interval
  <2>5. Cardinality(Node) \in Nat
    BY FS_CardinalityType, SListAssumption
  <2>6. Len(s) \in 0 .. Cardinality(Node)
    BY <2>1, <2>3, <2>4, <2>5
  <2>7. QED
    BY <1>2, <2>1, <2>6 DEF NodeSeqs, SeqOf
<1>3. QED
  BY <1>1, <1>2

(***************************************************************************)
(* A heap has at most one chain for a list.  The chains s and t agree at   *)
(* their first stop, and wherever they agree they agree at the next one.   *)
(***************************************************************************)
LEMMA RepresentsUnique ==
    ASSUME NEW h, NEW l \in List,
           NEW s \in NodeSeqs, NEW t \in NodeSeqs,
           Represents(h, l, s), Represents(h, l, t)
    PROVE  s = t
<1> DEFINE Differ == {i \in Nat : i >= 1 /\ i <= Len(s) + 1 /\ Stop(l, s, i) # Stop(l, t, i)}
<1>1. /\ s \in Seq(Node) /\ t \in Seq(Node)
      /\ Len(s) \in Nat /\ Len(t) \in Nat
      /\ \A i \in 1 .. Len(s) : s[i] \in Node
      /\ \A i \in 1 .. Len(t) : t[i] \in Node
  BY NodeSeqsAreSeqs, ElementOfSeq, LenProperties
<1>2. l \notin Node
  BY SListAssumption
<1>3. Differ = {}
  <2> SUFFICES ASSUME Differ # {} PROVE FALSE
    OBVIOUS
  <2>1. PICK i \in Differ : \A j \in Differ : ~ (<<j, i>> \in OpToRel(<, Nat))
    BY WFMin, NatLessThanWellFounded, Differ \subseteq Nat
  <2>2. i \in Nat /\ i >= 1 /\ i <= Len(s) + 1 /\ Stop(l, s, i) # Stop(l, t, i)
    BY <2>1
  <2>3. \A j \in Differ : ~ (j < i)
    BY <2>1, <2>2 DEF OpToRel
  <2>4. i # 1
    BY <2>2 DEF Represents
  <2>5. i - 1 \in Nat /\ i - 1 >= 1 /\ i - 1 <= Len(s)
    BY <2>2, <2>4, <1>1
  <2>6. Stop(l, s, i - 1) = Stop(l, t, i - 1)
    <3>1. i - 1 \notin Differ
      BY <2>3, <2>5
    <3>2. QED
      BY <3>1, <2>5, <1>1
  <2>7. Stop(l, s, i - 1) = s[i - 1] /\ s[i - 1] \in Node
    BY <2>5, <1>1 DEF Stop
  <2>8. i - 1 \in 1 .. Len(t) /\ t[i - 1] = s[i - 1]
    BY <2>5, <2>6, <2>7, <1>2 DEF Stop
  <2>9. h.next[s[i - 1]] = Stop(l, s, i) /\ h.next[t[i - 1]] = Stop(l, t, i)
    BY <2>5, <2>8, <2>2 DEF Represents
  <2>10. QED
    BY <2>2, <2>8, <2>9
<1>4. \A i \in 1 .. Len(s) + 1 : Stop(l, s, i) = Stop(l, t, i)
  BY <1>3, <1>1
<1>5. \A i \in 1 .. Len(s) : i \in 1 .. Len(t) /\ s[i] = t[i]
  BY <1>4, <1>1, <1>2 DEF Stop
<1>6. Len(s) <= Len(t)
  BY <1>5, <1>1
<1>7. Len(t) < Len(s) + 1
  <2>1. Stop(l, s, Len(s) + 1) = l
    BY <1>1 DEF Stop
  <2>2. Len(s) + 1 \notin 1 .. Len(t)
    BY <2>1, <1>4, <1>1, <1>2 DEF Stop
  <2>3. QED
    BY <2>2, <1>1
<1>8. QED
  BY <1>1, <1>5, <1>6, <1>7, SeqEqual

(***************************************************************************)
(* When a heap's lists hold q, Items reads q back.                         *)
(***************************************************************************)
LEMMA ItemsOfHolds ==
    ASSUME NEW h, NEW q, Holds(h, q), NEW l \in List
    PROVE  Items(h, l) = q[l]
<1>1. q[l] \in NodeSeqs /\ Represents(h, l, q[l])
  BY DEF Holds
<1>2. Items(h, l) \in NodeSeqs /\ Represents(h, l, Items(h, l))
  BY <1>1 DEF Items
<1>3. QED
  BY <1>1, <1>2, RepresentsUnique

(***************************************************************************)
(* What the head, the last pointer and the emptiness test of a list show.  *)
(***************************************************************************)
LEMMA HoldsEnds ==
    ASSUME NEW h, NEW q, Holds(h, q), NEW l \in List
    PROVE  /\ q[l] \in Seq(Node)
           /\ slist_is_empty(h, l) <=> q[l] = << >>
           /\ q[l] # << >> => /\ h.next[l] = Head(q[l])
                              /\ Head(q[l]) = q[l][1]
                              /\ Head(q[l]) \in Node
                              /\ Len(q[l]) \in Nat \ {0}
                              /\ h.last[l] = q[l][Len(q[l])]
<1>1. q[l] \in Seq(Node) /\ Represents(h, l, q[l])
  BY NodeSeqsAreSeqs DEF Holds
<1>2. Len(q[l]) \in Nat /\ (q[l] # << >> => Len(q[l]) \in Nat \ {0})
  BY <1>1, EmptySeq, LenProperties
<1>3. CASE q[l] = << >>
  <2>1. Len(q[l]) = 0
    BY <1>3, EmptySeq
  <2>2. QED
    BY <1>1, <1>3, <2>1 DEF Represents, Stop, slist_is_empty
<1>4. CASE q[l] # << >>
  <2>1. 1 \in 1 .. Len(q[l]) /\ Len(q[l]) \in 1 .. Len(q[l])
    BY <1>2, <1>4
  <2>2. h.next[l] = q[l][1] /\ h.last[l] = q[l][Len(q[l])]
    BY <1>1, <2>1 DEF Represents, Stop
  <2>3. q[l][1] \in Node
    BY <1>1, <2>1, ElementOfSeq
  <2>4. Head(q[l]) = q[l][1]
    BY <1>1
  <2>5. h.next[l] # l
    BY <2>2, <2>3, SListAssumption
  <2>6. QED
    BY <1>1, <1>2, <1>4, <2>2, <2>3, <2>4, <2>5 DEF slist_is_empty
<1>5. QED
  BY <1>3, <1>4

(***************************************************************************)
(* Appending a node no list holds appends it to the represented sequence   *)
(* and leaves every other list alone.                                      *)
(***************************************************************************)
LEMMA InsertTailHolds ==
    ASSUME NEW h \in Heap, NEW q \in [List -> Seq(Node)], Holds(h, q),
           NEW l \in List, NEW n \in Node,
           \A m \in List : n \notin Range(q[m])
    PROVE  /\ slist_insert_tail(h, l, n) \in Heap
           /\ Holds(slist_insert_tail(h, l, n), [q EXCEPT ![l] = Append(@, n)])
<1> DEFINE g == slist_insert_tail(h, l, n)
           r == [q EXCEPT ![l] = Append(@, n)]
<1>1. /\ h.next \in [Addr -> Addr \cup {NULL}]
      /\ h.last \in [List -> Addr]
      /\ l \in Addr /\ n \in Addr /\ l \notin Node /\ n \notin List
  BY SListAssumption DEF Heap, Addr
<1>2. /\ g.next = [h.next EXCEPT ![n] = l, ![h.last[l]] = n]
      /\ g.last = [h.last EXCEPT ![l] = n]
  BY DEF slist_insert_tail
<1>3. g \in Heap
  BY <1>1 DEF slist_insert_tail, Heap
<1>4. \A m \in List : /\ q[m] \in Seq(Node) /\ IsInjective(q[m])
                      /\ Len(q[m]) \in Nat
                      /\ DOMAIN q[m] = 1 .. Len(q[m])
                      /\ \A i \in 1 .. Len(q[m]) : q[m][i] \in Node /\ q[m][i] # n
  <2> TAKE m \in List
  <2>1. q[m] \in Seq(Node) /\ IsInjective(q[m])
    BY NodeSeqsAreSeqs DEF Holds
  <2>2. Len(q[m]) \in Nat /\ DOMAIN q[m] = 1 .. Len(q[m])
    BY <2>1, LenProperties
  <2>3. \A i \in 1 .. Len(q[m]) : q[m][i] \in Node
    BY <2>1, ElementOfSeq
  <2>4. \A i \in 1 .. Len(q[m]) : q[m][i] # n
    BY <2>2 DEF Range
  <2>5. QED
    BY <2>1, <2>2, <2>3, <2>4
<1>5. ASSUME NEW m \in List, m # l
      PROVE  Represents(g, m, q[m])
  <2>1. /\ h.next[m] = Stop(m, q[m], 1)
        /\ h.last[m] = Stop(m, q[m], Len(q[m]))
        /\ \A i \in 1 .. Len(q[m]) : h.next[q[m][i]] = Stop(m, q[m], i + 1)
    BY DEF Holds, Represents
  <2>2. h.last[l] = Stop(l, q[l], Len(q[l]))
    BY DEF Holds, Represents
  <2>3. m # h.last[l]
    BY <2>2, <1>4, <1>5, SListAssumption DEF Stop
  <2>4. \A i \in 1 .. Len(q[m]) : q[m][i] # h.last[l]
    <3> TAKE i \in 1 .. Len(q[m])
    <3>1. q[m][i] \in Range(q[m]) /\ q[m][i] \in Node
      BY <1>4 DEF Range
    <3>2. \A j \in 1 .. Len(q[l]) : q[l][j] \in Range(q[l])
      BY <1>4 DEF Range
    <3>3. Range(q[l]) \cap Range(q[m]) = {}
      BY <1>5 DEF Holds
    <3>4. QED
      BY <3>1, <3>2, <3>3, <2>2, <1>1 DEF Stop
  <2>5. g.next[m] = h.next[m] /\ g.last[m] = h.last[m]
    BY <1>1, <1>2, <1>5, <2>3 DEF Addr
  <2>6. \A i \in 1 .. Len(q[m]) : g.next[q[m][i]] = h.next[q[m][i]]
    BY <1>1, <1>2, <1>4, <2>4 DEF Addr
  <2>7. QED
    BY <2>1, <2>5, <2>6 DEF Represents
<1>6. /\ r[l] \in Seq(Node)
      /\ Len(r[l]) = Len(q[l]) + 1
      /\ \A i \in 1 .. Len(q[l]) : r[l][i] = q[l][i]
      /\ r[l][Len(q[l]) + 1] = n
  BY <1>4
<1>7. Represents(g, l, r[l])
  <2>1. /\ h.next[l] = Stop(l, q[l], 1)
        /\ h.last[l] = Stop(l, q[l], Len(q[l]))
        /\ \A i \in 1 .. Len(q[l]) : h.next[q[l][i]] = Stop(l, q[l], i + 1)
    BY DEF Holds, Represents
  <2>2. Len(q[l]) \in Nat
    BY <1>4
  <2>3. g.last[l] = Stop(l, r[l], Len(r[l]))
    BY <1>1, <1>2, <1>6, <2>2 DEF Stop
  <2>4. g.next[l] = Stop(l, r[l], 1)
    <3>1. CASE Len(q[l]) = 0
      <4>1. h.last[l] = l
        BY <3>1, <2>1 DEF Stop
      <4>2. g.next[l] = n
        BY <4>1, <1>1, <1>2
      <4>3. QED
        BY <4>2, <3>1, <1>6 DEF Stop
    <3>2. CASE Len(q[l]) # 0
      <4>1. h.last[l] = q[l][Len(q[l])] /\ h.last[l] \in Node
        BY <3>2, <2>1, <2>2, <1>4 DEF Stop
      <4>2. g.next[l] = h.next[l]
        BY <4>1, <1>1, <1>2
      <4>3. QED
        BY <4>2, <3>2, <2>1, <2>2, <1>6 DEF Stop
    <3>3. QED
      BY <3>1, <3>2
  <2>5. \A i \in 1 .. Len(r[l]) : g.next[r[l][i]] = Stop(l, r[l], i + 1)
    <3> TAKE i \in 1 .. Len(r[l])
    <3>1. CASE i = Len(q[l]) + 1
      <4>1. n # h.last[l]
        BY <2>1, <1>4, <1>1 DEF Stop
      <4>2. g.next[n] = l
        BY <4>1, <1>1, <1>2
      <4>3. QED
        BY <4>2, <3>1, <1>6, <2>2 DEF Stop
    <3>2. CASE i \in 1 .. Len(q[l]) /\ i = Len(q[l])
      <4>1. h.last[l] = q[l][i] /\ q[l][i] \in Node
        BY <3>2, <2>1, <1>4 DEF Stop
      <4>2. g.next[q[l][i]] = n
        BY <4>1, <1>1, <1>2 DEF Addr
      <4>3. QED
        BY <4>2, <3>2, <1>6, <2>2 DEF Stop
    <3>3. CASE i \in 1 .. Len(q[l]) /\ i # Len(q[l])
      <4>1. h.last[l] = q[l][Len(q[l])]
        BY <3>3, <2>1, <2>2 DEF Stop
      <4>2. q[l][i] # q[l][Len(q[l])]
        BY <3>3, <1>4, <2>2 DEF IsInjective
      <4>3. g.next[q[l][i]] = h.next[q[l][i]]
        BY <4>1, <4>2, <3>3, <1>4, <1>1, <1>2 DEF Addr
      <4>4. i + 1 \in 1 .. Len(q[l])
        BY <3>3, <2>2
      <4>5. QED
        BY <4>3, <4>4, <3>3, <2>1, <1>6, <2>2 DEF Stop
    <3>4. QED
      BY <3>1, <3>2, <3>3, <1>6, <2>2
  <2>6. QED
    BY <2>3, <2>4, <2>5 DEF Represents
<1>8. r[l] \in NodeSeqs
  <2>1. DOMAIN r[l] = 1 .. Len(q[l]) + 1
    BY <1>6, LenProperties
  <2>2. IsInjective(r[l])
    BY <2>1, <1>6, <1>4 DEF IsInjective
  <2>3. QED
    BY <2>2, <1>6, NodeSeqsAreSeqs
<1>9. Range(r[l]) = Range(q[l]) \cup {n}
  <2>1. DOMAIN r[l] = 1 .. Len(q[l]) + 1
    BY <1>6, LenProperties
  <2>2. QED
    BY <2>1, <1>6, <1>4 DEF Range
<1>10. \A m \in List : m # l => r[m] = q[m]
  OBVIOUS
<1>11. \A m \in List : r[m] \in NodeSeqs /\ Represents(g, m, r[m])
  BY <1>5, <1>7, <1>8, <1>10 DEF Holds
<1>12. \A m, k \in List : m # k => Range(r[m]) \cap Range(r[k]) = {}
  BY <1>9, <1>10 DEF Holds
<1>13. QED
  BY <1>3, <1>11, <1>12 DEF Holds

(***************************************************************************)
(* The `next` of a node no list holds belongs to nobody: writing it        *)
(* changes no list.                                                        *)
(***************************************************************************)
LEMMA UnlistedNodeHolds ==
    ASSUME NEW h \in Heap, NEW q \in [List -> Seq(Node)], Holds(h, q),
           NEW n \in Node, NEW a \in Addr \cup {NULL},
           \A m \in List : n \notin Range(q[m])
    PROVE  /\ SetNext(h, n, a) \in Heap
           /\ Holds(SetNext(h, n, a), q)
<1> DEFINE g == SetNext(h, n, a)
<1>1. /\ h.next \in [Addr -> Addr \cup {NULL}]
      /\ h.last \in [List -> Addr]
      /\ n \in Addr /\ n \notin List
  BY SListAssumption DEF Heap, Addr
<1>2. /\ g.next = [h.next EXCEPT ![n] = a] /\ g.last = h.last
      BY DEF SetNext
<1>3. g \in Heap
  BY <1>1 DEF Heap, SetNext
<1>4. ASSUME NEW m \in List
      PROVE  Represents(g, m, q[m])
  <2>1. \A i \in 1 .. Len(q[m]) : q[m][i] \in Addr /\ q[m][i] # n
    <3>1. q[m] \in Seq(Node)
      OBVIOUS
    <3>2. \A i \in 1 .. Len(q[m]) : q[m][i] \in Node /\ q[m][i] \in Range(q[m])
      BY <3>1, ElementOfSeq, LenProperties DEF Range
    <3>3. QED
      BY <3>2 DEF Addr
  <2>2. g.next[m] = h.next[m]
    BY <1>1, <1>2 DEF Addr
  <2>3. \A i \in 1 .. Len(q[m]) : g.next[q[m][i]] = h.next[q[m][i]]
    BY <2>1, <1>1, <1>2
  <2>4. Represents(h, m, q[m])
    BY DEF Holds
  <2>5. QED
    BY <1>2, <2>2, <2>3, <2>4 DEF Represents
<1>5. QED
  BY <1>3, <1>4 DEF Holds

(***************************************************************************)
(* Popping a non-empty list removes exactly the head of its sequence.      *)
(***************************************************************************)
LEMMA PopHeadHolds ==
    ASSUME NEW h \in Heap, NEW q \in [List -> Seq(Node)], Holds(h, q),
           NEW l \in List, q[l] # << >>
    PROVE  /\ slist_pop_head_node(h, l) \in Heap
           /\ Holds(slist_pop_head_node(h, l), [q EXCEPT ![l] = Tail(@)])
           /\ \A m \in List : Head(q[l]) \notin Range([q EXCEPT ![l] = Tail(@)][m])
<1> DEFINE g == slist_pop_head_node(h, l)
           r == [q EXCEPT ![l] = Tail(@)]
           n == Head(q[l])
<1>1. /\ h.next \in [Addr -> Addr \cup {NULL}]
      /\ h.last \in [List -> Addr]
      /\ l \in Addr /\ l \notin Node
  BY SListAssumption DEF Heap, Addr
<1>2. /\ h.next[l] = n /\ n = q[l][1] /\ n \in Node
      /\ Len(q[l]) \in Nat \ {0} /\ h.last[l] = q[l][Len(q[l])]
  BY HoldsEnds
<1>3. \A m \in List : /\ q[m] \in Seq(Node) /\ IsInjective(q[m])
                      /\ Len(q[m]) \in Nat
                      /\ DOMAIN q[m] = 1 .. Len(q[m])
                      /\ \A i \in 1 .. Len(q[m]) : q[m][i] \in Node
                      /\ Represents(h, m, q[m])
  <2> TAKE m \in List
  <2>1. q[m] \in Seq(Node) /\ IsInjective(q[m]) /\ Represents(h, m, q[m])
    BY NodeSeqsAreSeqs DEF Holds
  <2>2. QED
    BY <2>1, LenProperties, ElementOfSeq
<1>4. h.next[n] = Stop(l, q[l], 2) /\ h.next[n] \in Addr
  <2>1. h.next[n] = Stop(l, q[l], 2)
    BY <1>2, <1>3 DEF Represents
  <2>2. QED
    BY <2>1, <1>1, <1>3 DEF Stop, Addr
<1>5. /\ g.next = [h.next EXCEPT ![l] = h.next[n]]
      /\ g.last = IF h.last[l] = n THEN [h.last EXCEPT ![l] = l] ELSE h.last
      /\ g \in Heap
  BY <1>1, <1>2, <1>4 DEF slist_pop_head_node, Heap
<1>6. /\ r[l] = Tail(q[l]) /\ r[l] \in Seq(Node)
      /\ Len(r[l]) = Len(q[l]) - 1
      /\ DOMAIN r[l] = 1 .. Len(q[l]) - 1
      /\ \A i \in 1 .. Len(q[l]) - 1 : r[l][i] = q[l][i + 1]
      /\ \A m \in List : m # l => r[m] = q[m]
  <2>1. r[l] = Tail(q[l]) /\ q[l] \in Seq(Node)
    OBVIOUS
  <2>2. /\ r[l] \in Seq(Node) /\ Len(r[l]) = Len(q[l]) - 1
        /\ \A i \in 1 .. Len(q[l]) - 1 : r[l][i] = q[l][i + 1]
    BY <2>1, HeadTailProperties
  <2>3. DOMAIN r[l] = 1 .. Len(q[l]) - 1
    BY <2>2, LenProperties
  <2>4. QED
    BY <2>1, <2>2, <2>3
<1> HIDE DEF r
<1>7. \A m \in List : Range(r[m]) \subseteq Range(q[m])
  <2>1. Range(r[l]) \subseteq Range(q[l])
    BY <1>2, <1>3, <1>6 DEF Range
  <2>2. QED
    BY <2>1, <1>6
<1>8. n \notin Range(r[l])
  <2>1. \A i \in 1 .. Len(q[l]) - 1 : q[l][i + 1] # q[l][1]
    BY <1>2, <1>3 DEF IsInjective
  <2>2. QED
    BY <2>1, <1>2, <1>6 DEF Range
<1>9. \A m \in List : n \notin Range(r[m])
  <2>1. n \in Range(q[l])
    BY <1>2, <1>3 DEF Range
  <2>2. QED
    BY <2>1, <1>6, <1>8 DEF Holds
<1>10. r[l] \in NodeSeqs
  <2>1. IsInjective(r[l])
    BY <1>2, <1>3, <1>6 DEF IsInjective
  <2>2. QED
    BY <2>1, <1>6, NodeSeqsAreSeqs
<1>11. ASSUME NEW m \in List, m # l
       PROVE  Represents(g, m, r[m])
  <2>1. g.next[m] = h.next[m] /\ g.last[m] = h.last[m]
    BY <1>1, <1>5, <1>11 DEF Addr
  <2>2. \A i \in 1 .. Len(q[m]) : g.next[q[m][i]] = h.next[q[m][i]]
    BY <1>1, <1>3, <1>5 DEF Addr
  <2>3. QED
    BY <2>1, <2>2, <1>3, <1>6, <1>11 DEF Represents
<1>12. Represents(g, l, r[l])
  <2>1. Len(q[l]) \in Nat \ {0}
    BY <1>2
  <2>2. g.next[l] = Stop(l, r[l], 1)
    BY <2>1, <1>1, <1>4, <1>5, <1>6 DEF Stop
  <2>3. \A i \in 1 .. Len(r[l]) : g.next[r[l][i]] = Stop(l, r[l], i + 1)
    <3> TAKE i \in 1 .. Len(r[l])
    <3>1. i + 1 \in 1 .. Len(q[l]) /\ r[l][i] = q[l][i + 1]
      BY <2>1, <1>6
    <3>2. g.next[r[l][i]] = h.next[q[l][i + 1]]
      BY <3>1, <1>1, <1>3, <1>5 DEF Addr
    <3>3. h.next[q[l][i + 1]] = Stop(l, q[l], i + 2)
      BY <3>1, <2>1, <1>3 DEF Represents
    <3>4. QED
      BY <3>1, <3>2, <3>3, <2>1, <1>6 DEF Stop
  <2>4. g.last[l] = Stop(l, r[l], Len(r[l]))
    <3>1. CASE Len(q[l]) = 1
      <4>1. h.last[l] = n
        BY <3>1, <1>2
      <4>2. g.last[l] = l
        BY <4>1, <1>1, <1>5
      <4>3. Len(r[l]) \notin 1 .. Len(r[l])
        BY <3>1, <1>6
      <4>4. QED
        BY <4>2, <4>3 DEF Stop
    <3>2. CASE Len(q[l]) # 1
      <4>0. 1 \in DOMAIN q[l] /\ Len(q[l]) \in DOMAIN q[l] /\ IsInjective(q[l])
        BY <2>1, <1>3
      <4>1. h.last[l] # n
        <5>1. q[l][1] # q[l][Len(q[l])]
          BY <4>0, <3>2 DEF IsInjective
        <5>2. QED
          BY <5>1, <1>2
      <4>2. g.last[l] = q[l][Len(q[l])]
        BY <4>1, <1>2, <1>5
      <4>3. r[l][Len(r[l])] = q[l][Len(q[l])] /\ Len(r[l]) \in 1 .. Len(r[l])
        BY <3>2, <2>1, <1>6
      <4>4. QED
        BY <4>2, <4>3 DEF Stop
    <3>3. QED
      BY <3>1, <3>2
  <2>5. QED
    BY <2>2, <2>3, <2>4 DEF Represents
<1>13. \A m \in List : r[m] \in NodeSeqs /\ Represents(g, m, r[m])
  BY <1>6, <1>10, <1>11, <1>12 DEF Holds
<1>14. \A m, k \in List : m # k => Range(r[m]) \cap Range(r[k]) = {}
  BY <1>7 DEF Holds
<1>15. QED
  BY <1>5, <1>9, <1>13, <1>14 DEF Holds, r
=============================================================================

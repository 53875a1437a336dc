------------------------- MODULE SListClientProofs -------------------------
(***************************************************************************)
(* SListClient implements NodeLists for every finite set of nodes and      *)
(* every set of lists: the calls of slist.h on shared, lent nodes are      *)
(* those of sequences.                                                     *)
(***************************************************************************)
EXTENDS SListClient, SListProofs

\* What is left of a list that has lent its nodes: both ends, and the links between
\* them, whichever list the nodes have come to, and those that are popped too.
Kept(h, l, s) ==
    /\ h.next[l] = s[1]
    /\ h.last[l] = s[Len(s)]
    /\ \A i \in 1 .. Len(s) - 1 : h.next[s[i]] = s[i + 1]

\* Heap h represents the sequences q while the lists have lent t.
Shape(h, q, t) ==
    /\ h \in Heap
    /\ q \in [List -> NodeSeqs] /\ t \in [List -> NodeSeqs]
    /\ \A l \in List : IF t[l] = << >> THEN Represents(h, l, q[l])
                                       ELSE q[l] = << >> /\ Kept(h, l, t[l])
    /\ \A l, m \in List : l # m => /\ Range(q[l]) \cap Range(q[m]) = {}
                                   /\ Range(t[l]) \cap Range(t[m]) = {}

Seqs == [l \in List |-> Walk(l)]

IInv == Shape(heap, Seqs, lent)

-----------------------------------------------------------------------------
(* Sequences without repetition, and what represents them.                 *)

LEMMA NodeSeqFacts ==
    ASSUME NEW s \in NodeSeqs
    PROVE  /\ s \in Seq(Node)
           /\ Len(s) \in Nat
           /\ s = << >> <=> Len(s) = 0
           /\ \A i \in 1 .. Len(s) : s[i] \in Node /\ s[i] \in Addr /\ s[i] \notin List
           /\ \A i, j \in 1 .. Len(s) : s[i] = s[j] => i = j
           /\ \A n : n \in Range(s) <=> \E i \in 1 .. Len(s) : n = s[i]
           /\ Range(s) \subseteq Node
<1>1. s \in Seq(Node) /\ IsInjective(s)
  BY NodeSeqsAreSeqs
<1>2. Len(s) \in Nat /\ DOMAIN s = 1 .. Len(s)
  BY <1>1, LenProperties
<1>3. s = << >> <=> Len(s) = 0
  BY <1>1, EmptySeq
<1>4. \A i \in 1 .. Len(s) : s[i] \in Node
  BY <1>1, ElementOfSeq
<1>5. \A i \in 1 .. Len(s) : s[i] \in Addr /\ s[i] \notin List
  BY <1>4, SListAssumption DEF Addr
<1>6. QED
  BY <1>1, <1>2, <1>3, <1>4, <1>5 DEF IsInjective, Range

LEMMA OneNodeSeq ==
    ASSUME NEW n \in Node
    PROVE  /\ <<n>> \in NodeSeqs /\ <<n>> # << >>
           /\ Len(<<n>>) = 1 /\ <<n>>[1] = n
           /\ Range(<<n>>) = {n}
<1>1. /\ <<n>> \in Seq(Node) /\ DOMAIN <<n>> = {1} /\ <<n>>[1] = n /\ Len(<<n>>) = 1
      /\ <<n>> # << >>
  OBVIOUS
<1>2. IsInjective(<<n>>)
  BY <1>1 DEF IsInjective
<1>3. QED
  BY <1>1, <1>2, NodeSeqsAreSeqs DEF Range

LEMMA EmptyNodeSeq == << >> \in NodeSeqs /\ Range(<< >>) = {}
<1>1. << >> \in Seq(Node) /\ DOMAIN << >> = {}
  BY EmptySeq
<1>2. QED
  BY <1>1, NodeSeqsAreSeqs DEF IsInjective, Range

\* In heap g list l goes along s and then along t.
Joined(g, l, s, t) ==
    /\ Range(s) \cap Range(t) = {}
    /\ g.next[l] = IF s = << >> THEN Stop(l, t, 1) ELSE s[1]
    /\ \A i \in 1 .. Len(s) - 1 : g.next[s[i]] = s[i + 1]
    /\ s # << >> => g.next[s[Len(s)]] = Stop(l, t, 1)
    /\ \A i \in 1 .. Len(t) : g.next[t[i]] = Stop(l, t, i + 1)
    /\ g.last[l] = IF t = << >> THEN Stop(l, s, Len(s)) ELSE t[Len(t)]

(***************************************************************************)
(* Two chains one behind the other represent the concatenation.  All calls *)
(* that put nodes into a list are of this form.                            *)
(***************************************************************************)
LEMMA Spliced ==
    ASSUME NEW g, NEW l \in List, NEW s \in NodeSeqs, NEW t \in NodeSeqs, Joined(g, l, s, t)
    PROVE  /\ s \o t \in NodeSeqs
           /\ Range(s \o t) = Range(s) \cup Range(t)
           /\ Represents(g, l, s \o t)
<1> USE DEF Joined
<1> DEFINE u == s \o t
<1>1. /\ s \in Seq(Node) /\ t \in Seq(Node)
      /\ Len(s) \in Nat /\ Len(t) \in Nat
      /\ s = << >> <=> Len(s) = 0
      /\ t = << >> <=> Len(t) = 0
      /\ \A i, j \in 1 .. Len(s) : s[i] = s[j] => i = j
      /\ \A i, j \in 1 .. Len(t) : t[i] = t[j] => i = j
      /\ \A i \in 1 .. Len(s), j \in 1 .. Len(t) : s[i] # t[j]
  BY ZenonT(60), NodeSeqFacts
<1>2. /\ u \in Seq(Node)
      /\ Len(u) = Len(s) + Len(t)
      /\ \A i \in 1 .. Len(s) : u[i] = s[i]
      /\ \A i \in 1 .. Len(t) : u[Len(s) + i] = t[i]
  <2>1. /\ u \in Seq(Node)
        /\ Len(u) = Len(s) + Len(t)
        /\ \A i \in 1 .. Len(s) + Len(t) : u[i] = IF i <= Len(s) THEN s[i] ELSE t[i - Len(s)]
    BY <1>1, ConcatProperties
  <2>2. \A i \in 1 .. Len(t) : Len(s) + i \in 1 .. Len(s) + Len(t) /\ (Len(s) + i) - Len(s) = i
    BY <1>1
  <2>3. QED
    BY <2>1, <2>2, <1>1
<1>3. Range(u) = Range(s) \cup Range(t)
  BY <1>1, RangeConcatenation
<1> HIDE DEF u
<1>4. u \in NodeSeqs
  <2>1. ASSUME NEW i \in 1 .. Len(u), NEW j \in 1 .. Len(u), u[i] = u[j]
        PROVE  i = j
    <3>1. /\ i \in 1 .. Len(s) \/ \E k \in 1 .. Len(t) : i = Len(s) + k
          /\ j \in 1 .. Len(s) \/ \E k \in 1 .. Len(t) : j = Len(s) + k
      <4>1. /\ i \in 1 .. Len(s) \/ i - Len(s) \in 1 .. Len(t)
            /\ j \in 1 .. Len(s) \/ j - Len(s) \in 1 .. Len(t)
            /\ i = Len(s) + (i - Len(s)) /\ j = Len(s) + (j - Len(s))
        BY <1>1, <1>2
      <4>2. QED
        BY <4>1
    <3>2. CASE i \in 1 .. Len(s) /\ j \in 1 .. Len(s)
      BY <2>1, <3>2, <1>1, <1>2
    <3>3. CASE (\E k \in 1 .. Len(t) : i = Len(s) + k) /\ \E k \in 1 .. Len(t) : j = Len(s) + k
      <4>1. PICK a \in 1 .. Len(t), b \in 1 .. Len(t) : i = Len(s) + a /\ j = Len(s) + b
        BY <3>3
      <4>2. t[a] = t[b]
        BY <4>1, <2>1, <1>2
      <4>3. QED
        BY <4>1, <4>2, <1>1
    <3>4. CASE i \in 1 .. Len(s) /\ \E k \in 1 .. Len(t) : j = Len(s) + k
      BY <2>1, <3>4, <1>1, <1>2
    <3>5. CASE (\E k \in 1 .. Len(t) : i = Len(s) + k) /\ j \in 1 .. Len(s)
      BY <2>1, <3>5, <1>1, <1>2
    <3>6. QED
      BY <3>1, <3>2, <3>3, <3>4, <3>5
  <2>2. IsInjective(u)
    BY <2>1, <1>2, LenProperties DEF IsInjective
  <2>3. QED
    BY <1>2, <2>2, NodeSeqsAreSeqs
<1>5. /\ \A i \in 1 .. Len(s) : Stop(l, u, i) = s[i]
      /\ \A i \in 1 .. Len(t) + 1 : Stop(l, u, Len(s) + i) = Stop(l, t, i)
  BY <1>1, <1>2 DEF Stop
<1>6. g.next[l] = Stop(l, u, 1) /\ g.last[l] = Stop(l, u, Len(u))
  BY SMTT(60), <1>1, <1>2 DEF Stop
<1>7. ASSUME NEW i \in 1 .. Len(u)
      PROVE  g.next[u[i]] = Stop(l, u, i + 1)
  <2>1. CASE i \in 1 .. Len(s) - 1
    <3>1. i + 1 \in 1 .. Len(s) /\ i \in 1 .. Len(s)
      BY <2>1, <1>1
    <3>2. QED
      BY <2>1, <3>1, <1>2, <1>5
  <2>2. CASE i = Len(s)
    <3>1. s # << >> /\ i \in 1 .. Len(s) /\ 1 \in 1 .. Len(t) + 1
      BY <2>2, <1>1
    <3>2. Stop(l, u, Len(s) + 1) = Stop(l, t, 1)
      BY <3>1, <1>5
    <3>3. QED
      BY <2>2, <3>1, <3>2, <1>2
  <2>3. ASSUME NEW k \in 1 .. Len(t), i = Len(s) + k
        PROVE  g.next[u[i]] = Stop(l, u, i + 1)
    <3>1. u[i] = t[k] /\ g.next[t[k]] = Stop(l, t, k + 1)
      BY <2>3, <1>2
    <3>2. k + 1 \in 1 .. Len(t) + 1 /\ i + 1 = Len(s) + (k + 1)
      BY <2>3, <1>1
    <3>3. QED
      BY <3>1, <3>2, <1>5
  <2>4. i \in 1 .. Len(s) - 1 \/ i = Len(s) \/ (i - Len(s) \in 1 .. Len(t) /\ i = Len(s) + (i - Len(s)))
    BY <1>1, <1>2
  <2>5. QED
    BY <2>1, <2>2, <2>3, <2>4
<1>8. QED
  BY <1>3, <1>4, <1>6, <1>7 DEF Represents, u

LEMMA RepresentsEnds ==
    ASSUME NEW h, NEW l \in List, NEW s \in NodeSeqs, Represents(h, l, s)
    PROVE  /\ h.next[h.last[l]] = l
           /\ h.next[l] = l <=> s = << >>
           /\ IF s = << >> THEN h.next[l] = l /\ h.last[l] = l
                           ELSE h.next[l] = s[1] /\ h.last[l] = s[Len(s)]
<1>1. CASE s = << >>
  BY <1>1, NodeSeqFacts DEF Represents, Stop
<1>2. CASE s # << >>
  <2>1. Len(s) \in Nat \ {0} /\ s[1] \in Node
    BY <1>2, NodeSeqFacts
  <2>2. h.next[l] = s[1] /\ h.last[l] = s[Len(s)] /\ h.next[s[Len(s)]] = l
    BY <2>1 DEF Represents, Stop
  <2>3. QED
    BY <1>2, <2>1, <2>2, SListAssumption
<1>3. QED
  BY <1>1, <1>2

(***************************************************************************)
(* A list is not affected by a change of other addresses.                  *)
(***************************************************************************)
LEMMA RepresentsElsewhere ==
    ASSUME NEW h, NEW g, NEW l \in List, NEW s \in NodeSeqs, Represents(h, l, s),
           g.next[l] = h.next[l], g.last[l] = h.last[l],
           \A n \in Range(s) : g.next[n] = h.next[n]
    PROVE  Represents(g, l, s)
BY NodeSeqFacts DEF Represents

LEMMA KeptElsewhere ==
    ASSUME NEW h, NEW g, NEW l \in List, NEW s \in NodeSeqs, Kept(h, l, s),
           g.next[l] = h.next[l], g.last[l] = h.last[l],
           \A n \in Node : h.next[n] \in Node /\ n \in Range(s) => g.next[n] = h.next[n]
    PROVE  Kept(g, l, s)
<1>1. ASSUME NEW i \in 1 .. Len(s) - 1
      PROVE  g.next[s[i]] = h.next[s[i]]
  <2>1. i \in 1 .. Len(s) /\ i + 1 \in 1 .. Len(s)
    BY NodeSeqFacts
  <2>2. s[i] \in Node /\ s[i + 1] \in Node /\ s[i] \in Range(s)
    BY <2>1, NodeSeqFacts
  <2>3. QED
    BY <2>2 DEF Kept
<1>2. QED
  BY <1>1 DEF Kept

\* From heap h to heap g only the lists C change, to r and u: nothing is written to a node
\* of another list, nor to an inner link of a loan.
ChangesOnly(C, h, q, t, g, r, u) ==
    /\ C \subseteq List
    /\ g \in Heap /\ r \in [List -> NodeSeqs] /\ u \in [List -> NodeSeqs]
    /\ \A m \in List \ C : /\ r[m] = q[m] /\ u[m] = t[m]
                           /\ g.next[m] = h.next[m] /\ g.last[m] = h.last[m]
                           /\ \A n \in Range(q[m]) : g.next[n] = h.next[n]
                           /\ \A n \in Range(t[m]) :
                                  h.next[n] \in Node => g.next[n] = h.next[n]
    /\ \A m \in C : IF u[m] = << >> THEN Represents(g, m, r[m])
                                    ELSE r[m] = << >> /\ Kept(g, m, u[m])
    /\ \A m \in C, k \in List : m # k => /\ Range(r[m]) \cap Range(r[k]) = {}
                                        /\ Range(u[m]) \cap Range(u[k]) = {}

(***************************************************************************)
(* It is enough to look at the lists that a call changes.                  *)
(***************************************************************************)
LEMMA ShapeByChange ==
    ASSUME NEW h, NEW q, NEW t, Shape(h, q, t),
           NEW g, NEW r, NEW u, NEW C, ChangesOnly(C, h, q, t, g, r, u)
    PROVE  Shape(g, r, u)
<1> USE DEF ChangesOnly
<1>1. ASSUME NEW m \in List \ C
      PROVE  IF u[m] = << >> THEN Represents(g, m, r[m]) ELSE r[m] = << >> /\ Kept(g, m, u[m])
  <2>1. q[m] \in NodeSeqs /\ t[m] \in NodeSeqs
    BY DEF Shape
  <2>2. CASE t[m] = << >>
    <3>1. Represents(h, m, q[m])
      BY <2>2 DEF Shape
    <3>2. Represents(g, m, q[m])
      BY <3>1, <2>1, RepresentsElsewhere
    <3>3. QED
      BY <3>2, <2>2
  <2>3. CASE t[m] # << >>
    <3>1. q[m] = << >> /\ Kept(h, m, t[m])
      BY <2>3 DEF Shape
    <3>2. Kept(g, m, t[m])
      BY <3>1, <2>1, KeptElsewhere
    <3>3. QED
      BY <3>1, <3>2, <2>3
  <2>4. QED
    BY <2>2, <2>3
<1>2. ASSUME NEW m \in List, NEW k \in List, m # k
      PROVE  Range(r[m]) \cap Range(r[k]) = {} /\ Range(u[m]) \cap Range(u[k]) = {}
  <2>1. CASE m \notin C /\ k \notin C
    BY <1>2, <2>1 DEF Shape
  <2>2. CASE m \in C
    BY <1>2, <2>2
  <2>3. CASE k \in C
    BY <1>2, <2>3
  <2>4. QED
    BY <2>1, <2>2, <2>3
<1>3. \A m \in List : IF u[m] = << >> THEN Represents(g, m, r[m])
                                       ELSE r[m] = << >> /\ Kept(g, m, u[m])
  BY <1>1
<1>4. QED
  BY <1>2, <1>3 DEF Shape

-----------------------------------------------------------------------------
(* The calls, on any heap of a shape.                                      *)

LEMMA InsertHeadShape ==
    ASSUME NEW h, NEW q, NEW t, Shape(h, q, t),
           NEW l \in List, t[l] = << >>, NEW n \in Node,
           \A m \in List : n \notin Range(q[m]) /\ n \notin Range(t[m])
    PROVE  Shape(slist_insert_head(h, l, n), [q EXCEPT ![l] = <<n>> \o @], t)
<1> DEFINE g == slist_insert_head(h, l, n)
           r == [q EXCEPT ![l] = <<n>> \o @]
<1>1. /\ h.next \in [Addr -> Addr \cup {NULL}] /\ h.last \in [List -> Addr]
      /\ l \in Addr /\ n \in Addr /\ n # l /\ l \notin Node /\ n \notin List
  BY SListAssumption DEF Shape, Heap, Addr
<1>2. /\ \A m \in List : q[m] \in NodeSeqs /\ t[m] \in NodeSeqs
      /\ Represents(h, l, q[l])
  BY DEF Shape
<1>3. /\ g.next = [h.next EXCEPT ![n] = h.next[l], ![l] = n]
      /\ g.last = IF h.last[l] = l THEN [h.last EXCEPT ![l] = n] ELSE h.last
      /\ g \in Heap
  <2>1. /\ g.next = [h.next EXCEPT ![n] = h.next[l], ![l] = n]
        /\ g.last = IF h.last[l] = l THEN [h.last EXCEPT ![l] = n] ELSE h.last
    BY DEF slist_insert_head
  <2>2. g.next \in [Addr -> Addr \cup {NULL}] /\ g.last \in [List -> Addr]
    BY <2>1, <1>1
  <2>3. QED
    BY <2>1, <2>2 DEF slist_insert_head, Heap
<1> HIDE DEF g
<1>4. /\ g.next[n] = h.next[l] /\ g.next[l] = n
      /\ \A a \in Addr \ {n, l} : g.next[a] = h.next[a]
      /\ \A m \in List \ {l} : g.last[m] = h.last[m]
  BY <1>1, <1>3
<1>5. /\ <<n>> \in NodeSeqs /\ Len(<<n>>) = 1 /\ <<n>>[1] = n
      /\ Range(<<n>>) = {n} /\ <<n>> # << >>
  BY OneNodeSeq
<1>6. /\ <<n>> \o q[l] \in NodeSeqs
      /\ Range(<<n>> \o q[l]) = {n} \cup Range(q[l])
      /\ Represents(g, l, <<n>> \o q[l])
  <2> DEFINE one == <<n>>
  <2>1. Range(one) \cap Range(q[l]) = {}
    BY <1>5
  <2>2. /\ g.next[l] = one[1] /\ one # << >>
        /\ g.next[one[Len(one)]] = Stop(l, q[l], 1)
    BY <1>2, <1>4, <1>5 DEF Represents
  <2>3. ASSUME NEW i \in 1 .. Len(q[l])
        PROVE  g.next[q[l][i]] = Stop(l, q[l], i + 1)
    <3>1. q[l][i] \in Addr \ {n, l}
      BY <1>1, <1>2, NodeSeqFacts
    <3>2. QED
      BY <3>1, <1>2, <1>4 DEF Represents
  <2>4. g.last[l] = IF q[l] = << >> THEN Stop(l, one, Len(one)) ELSE q[l][Len(q[l])]
    <3>1. CASE q[l] = << >>
      BY <3>1, <1>1, <1>2, <1>3, <1>5, RepresentsEnds DEF Stop
    <3>2. CASE q[l] # << >>
      <4>1. h.last[l] = q[l][Len(q[l])] /\ Len(q[l]) \in 1 .. Len(q[l])
        BY <3>2, <1>2, RepresentsEnds, NodeSeqFacts
      <4>2. h.last[l] # l
        BY <4>1, <1>1, <1>2, NodeSeqFacts
      <4>3. QED
        BY <3>2, <4>1, <4>2, <1>3
    <3>3. QED
      BY <3>1, <3>2
  <2>5. \A i \in 1 .. Len(one) - 1 : g.next[one[i]] = one[i + 1]
    BY <1>5
  <2>6. one \in NodeSeqs /\ Range(one) = {n}
    BY <1>5
  <2> HIDE DEF one
  <2>7. /\ one \o q[l] \in NodeSeqs
        /\ Range(one \o q[l]) = Range(one) \cup Range(q[l])
        /\ Represents(g, l, one \o q[l])
    <3>1. Joined(g, l, one, q[l])
      BY <2>1, <2>2, <2>3, <2>4, <2>5 DEF Joined
    <3>2. QED
      BY <3>1, <2>6, <1>2, Spliced
  <2>8. QED
    BY <2>6, <2>7 DEF one
<1>7. /\ r \in [List -> NodeSeqs] /\ r[l] = <<n>> \o q[l]
      /\ \A m \in List \ {l} : r[m] = q[m]
  BY <1>6 DEF Shape
<1> HIDE DEF r
<1>8. ASSUME NEW m \in List \ {l}
      PROVE  /\ g.next[m] = h.next[m] /\ g.last[m] = h.last[m]
             /\ \A k \in Range(q[m]) \cup Range(t[m]) : g.next[k] = h.next[k]
  <2>1. g.next[m] = h.next[m] /\ g.last[m] = h.last[m]
    BY <1>1, <1>4 DEF Addr
  <2>2. \A k \in Range(q[m]) \cup Range(t[m]) : k \in Addr \ {n, l}
    BY <1>1, <1>2, NodeSeqFacts
  <2>3. QED
    BY <2>1, <2>2, <1>4
<1>9. ASSUME NEW m \in List \ {l}
      PROVE  Range(r[l]) \cap Range(r[m]) = {} /\ Range(t[l]) \cap Range(t[m]) = {}
  <2>1. Range(q[l]) \cap Range(q[m]) = {} /\ Range(t[l]) \cap Range(t[m]) = {}
    BY DEF Shape
  <2>2. QED
    BY <2>1, <1>6, <1>7
<1>10. Shape(g, r, t)
  <2>1. t \in [List -> NodeSeqs]
    BY DEF Shape
  <2>2. {l} \in SUBSET List
    OBVIOUS
  <2>3. \A m \in {l} : IF t[m] = << >> THEN Represents(g, m, r[m])
                                       ELSE r[m] = << >> /\ Kept(g, m, t[m])
    BY <1>6, <1>7
  <2>4. ChangesOnly({l}, h, q, t, g, r, t)
    BY <2>1, <2>2, <2>3, <1>3, <1>7, <1>8, <1>9 DEF ChangesOnly
  <2>5. QED
    BY <2>4, ShapeByChange
<1>11. QED
  BY <1>10 DEF g, r

(***************************************************************************)
(* The `last` of a list that lends nothing: it is the list's alone, and no *)
(* inner link of a loan.                                                   *)
(***************************************************************************)
LEMMA LastOfList ==
    ASSUME NEW h, NEW q, NEW t, Shape(h, q, t), NEW l \in List, t[l] = << >>
    PROVE  /\ h.last[l] \in Addr /\ h.next[h.last[l]] = l
           /\ h.last[l] = l \/ h.last[l] \in Range(q[l]) \cap Node
           /\ \A m \in List \ {l} : h.last[l] # m /\ h.last[l] \notin Range(q[m])
           /\ \A k \in Node : h.next[k] \in Node => k # h.last[l]
           /\ q[l] = << >> => h.next[l] = l /\ h.last[l] = l
           /\ q[l] # << >> => h.next[l] = q[l][1] /\ h.last[l] = q[l][Len(q[l])]
<1>1. q[l] \in NodeSeqs /\ Represents(h, l, q[l])
  BY DEF Shape
<1>2. /\ h.next[h.last[l]] = l
      /\ IF q[l] = << >> THEN h.next[l] = l /\ h.last[l] = l
                         ELSE h.next[l] = q[l][1] /\ h.last[l] = q[l][Len(q[l])]
  BY <1>1, RepresentsEnds
<1>3. h.last[l] = l \/ h.last[l] \in Range(q[l]) \cap Node
  BY <1>1, <1>2, NodeSeqFacts
<1>4. l \notin Node /\ l \in Addr /\ Node \subseteq Addr
  BY SListAssumption DEF Addr
<1>5. ASSUME NEW m \in List \ {l}
      PROVE  h.last[l] # m /\ h.last[l] \notin Range(q[m])
  <2>1. q[m] \in NodeSeqs /\ Range(q[l]) \cap Range(q[m]) = {}
    BY DEF Shape
  <2>2. l \notin Range(q[m])
    BY <2>1, <1>4, NodeSeqFacts
  <2>3. QED
    BY <2>1, <2>2, <1>3, SListAssumption
<1>6. QED
  BY <1>2, <1>3, <1>4, <1>5

LEMMA InsertTailShape ==
    ASSUME NEW h, NEW q, NEW t, Shape(h, q, t),
           NEW l \in List, t[l] = << >>, NEW n \in Node,
           \A m \in List : n \notin Range(q[m]) /\ n \notin Range(t[m])
    PROVE  Shape(slist_insert_tail(h, l, n), [q EXCEPT ![l] = Append(@, n)], t)
<1> DEFINE g == slist_insert_tail(h, l, n)
           r == [q EXCEPT ![l] = Append(@, n)]
           one == <<n>>
           z == h.last[l]
<1>1. /\ h.next \in [Addr -> Addr \cup {NULL}] /\ h.last \in [List -> Addr]
      /\ l \in Addr /\ n \in Addr /\ n # l /\ l \notin Node /\ n \notin List
  BY SListAssumption DEF Shape, Heap, Addr
<1>2. /\ \A m \in List : q[m] \in NodeSeqs /\ t[m] \in NodeSeqs
      /\ Represents(h, l, q[l])
      /\ q \in [List -> NodeSeqs] /\ t \in [List -> NodeSeqs]
  BY DEF Shape
<1>3. /\ z \in Addr /\ h.next[z] = l /\ z # n
      /\ z = l \/ z \in Range(q[l]) \cap Node
      /\ \A m \in List \ {l} : z # m /\ z \notin Range(q[m])
      /\ \A k \in Node : h.next[k] \in Node => k # z
      /\ q[l] = << >> => h.next[l] = l /\ z = l
      /\ q[l] # << >> => h.next[l] = q[l][1] /\ z = q[l][Len(q[l])]
  BY <1>1, LastOfList
<1> HIDE DEF z
<1>4. /\ g.next = [h.next EXCEPT ![n] = l, ![z] = n]
      /\ g.last = [h.last EXCEPT ![l] = n]
      /\ g \in Heap
  BY <1>1, <1>3 DEF slist_insert_tail, Heap, z
<1> HIDE DEF g
<1>5. /\ g.next[n] = l /\ g.next[z] = n
      /\ \A a \in Addr \ {n, z} : g.next[a] = h.next[a]
      /\ g.last[l] = n
      /\ \A m \in List \ {l} : g.last[m] = h.last[m]
  BY <1>1, <1>3, <1>4
<1>6. /\ one \in NodeSeqs /\ one # << >>
      /\ Len(one) = 1 /\ one[1] = n
      /\ Range(one) = {n}
  BY OneNodeSeq
<1>7. Append(q[l], n) = q[l] \o one
  BY <1>2, NodeSeqFacts, AppendIsConcat
<1> HIDE DEF one
<1>8. /\ q[l] \o one \in NodeSeqs
      /\ Range(q[l] \o one) = Range(q[l]) \cup {n}
      /\ Represents(g, l, q[l] \o one)
  <2>1. g.next[l] = IF q[l] = << >> THEN Stop(l, one, 1) ELSE q[l][1]
    <3>1. CASE q[l] = << >>
      BY <3>1, <1>3, <1>5, <1>6 DEF Stop
    <3>2. CASE q[l] # << >>
      <4>1. z \in Node
        BY <3>2, <1>2, <1>3, NodeSeqFacts
      <4>2. QED
        BY <3>2, <4>1, <1>1, <1>3, <1>5
    <3>3. QED
      BY <3>1, <3>2
  <2>2. ASSUME NEW i \in 1 .. Len(q[l]) - 1
        PROVE  g.next[q[l][i]] = q[l][i + 1]
    <3>1. i \in 1 .. Len(q[l]) /\ i + 1 \in 1 .. Len(q[l])
      BY <1>2, NodeSeqFacts
    <3>2. h.next[q[l][i]] = q[l][i + 1]
      BY <3>1, <1>2 DEF Represents, Stop
    <3>3. /\ q[l][i] \in Node /\ q[l][i] \in Addr /\ q[l][i + 1] \in Node
          /\ q[l][i] \in Range(q[l])
      BY <3>1, <1>2, NodeSeqFacts
    <3>4. q[l][i] # n /\ q[l][i] # z
      BY <3>2, <3>3, <1>3
    <3>5. QED
      BY <3>2, <3>3, <3>4, <1>5
  <2>3. q[l] # << >> => g.next[q[l][Len(q[l])]] = Stop(l, one, 1)
    BY <1>3, <1>5, <1>6 DEF Stop
  <2>4. \A i \in 1 .. Len(one) : g.next[one[i]] = Stop(l, one, i + 1)
    BY <1>5, <1>6 DEF Stop
  <2>5. g.last[l] = IF one = << >> THEN Stop(l, q[l], Len(q[l])) ELSE one[Len(one)]
    BY <1>5, <1>6
  <2>6. Range(q[l]) \cap Range(one) = {}
    BY <1>6
  <2>7. Joined(g, l, q[l], one)
    BY <2>1, <2>2, <2>3, <2>4, <2>5, <2>6 DEF Joined
  <2>8. QED
    BY <2>7, <1>2, <1>6, Spliced
<1>9. /\ r \in [List -> NodeSeqs] /\ r[l] = q[l] \o one
      /\ \A m \in List \ {l} : r[m] = q[m]
  BY <1>2, <1>7, <1>8
<1> HIDE DEF r
<1>10. ASSUME NEW m \in List \ {l}
       PROVE  /\ g.next[m] = h.next[m] /\ g.last[m] = h.last[m]
              /\ \A k \in Range(q[m]) : g.next[k] = h.next[k]
              /\ \A k \in Range(t[m]) : h.next[k] \in Node => g.next[k] = h.next[k]
  <2>1. g.next[m] = h.next[m] /\ g.last[m] = h.last[m]
    BY <1>1, <1>3, <1>5 DEF Addr
  <2>2. \A k \in Range(q[m]) \cup Range(t[m]) : k \in Addr /\ k \in Node /\ k # n
    BY <1>1, <1>2, NodeSeqFacts
  <2>3. QED
    BY <2>1, <2>2, <1>3, <1>5
<1>11. ASSUME NEW m \in List \ {l}
       PROVE  Range(r[l]) \cap Range(r[m]) = {} /\ Range(t[l]) \cap Range(t[m]) = {}
  <2>1. Range(q[l]) \cap Range(q[m]) = {} /\ Range(t[l]) \cap Range(t[m]) = {}
    BY DEF Shape
  <2>2. QED
    BY <2>1, <1>8, <1>9
<1>12. ChangesOnly({l}, h, q, t, g, r, t)
  BY <1>2, <1>4, <1>8, <1>9, <1>10, <1>11 DEF ChangesOnly
<1>13. QED
  BY <1>12, ShapeByChange DEF g, r

(***************************************************************************)
(* slist_borrow_to_tail, on which slist_move_to_tail builds: `to` has the  *)
(* nodes of both lists, `from` keeps its ends.                             *)
(***************************************************************************)
LEMMA BorrowToTailLinks ==
    ASSUME NEW h, NEW q, NEW t, Shape(h, q, t),
           NEW to \in List, NEW from \in List, to # from,
           t[to] = << >>, t[from] = << >>, q[from] # << >>,
           NEW g, g = slist_borrow_to_tail(h, to, from)
    PROVE  /\ g \in Heap
           /\ q[to] \o q[from] \in NodeSeqs
           /\ Range(q[to] \o q[from]) = Range(q[to]) \cup Range(q[from])
           /\ Represents(g, to, q[to] \o q[from])
           /\ Kept(g, from, q[from])
           /\ \A m \in List \ {to, from} :
                 /\ g.next[m] = h.next[m] /\ g.last[m] = h.last[m]
                 /\ \A k \in Range(q[m]) : g.next[k] = h.next[k]
                 /\ \A k \in Range(t[m]) : h.next[k] \in Node => g.next[k] = h.next[k]
<1> DEFINE zf == h.last[from]
           zt == h.last[to]
<1>1. /\ h.next \in [Addr -> Addr \cup {NULL}] /\ h.last \in [List -> Addr]
      /\ to \in Addr /\ from \in Addr /\ to \notin Node /\ from \notin Node
      /\ Node \subseteq Addr /\ List \subseteq Addr
  BY SListAssumption DEF Shape, Heap, Addr
<1>2. /\ \A m \in List : q[m] \in NodeSeqs /\ t[m] \in NodeSeqs
      /\ Represents(h, to, q[to]) /\ Represents(h, from, q[from])
      /\ Range(q[to]) \cap Range(q[from]) = {}
  BY DEF Shape
<1>3. /\ zf \in Addr /\ zf \in Range(q[from]) /\ zf \in Node
      /\ \A m \in List \ {from} : zf # m /\ zf \notin Range(q[m])
      /\ \A k \in Node : h.next[k] \in Node => k # zf
      /\ h.next[from] = q[from][1] /\ zf = q[from][Len(q[from])]
      /\ Len(q[from]) \in Nat \ {0}
  <2>1. Len(q[from]) \in Nat \ {0}
    BY <1>2, NodeSeqFacts
  <2>2. zf = q[from][Len(q[from])] /\ h.next[from] = q[from][1]
    BY LastOfList
  <2>3. zf \in Range(q[from]) /\ zf \in Node
    BY <2>1, <2>2, <1>2, NodeSeqFacts
  <2>4. QED
    BY <2>1, <2>2, <2>3, LastOfList
<1>4. /\ zt \in Addr
      /\ zt = to \/ zt \in Range(q[to]) \cap Node
      /\ \A m \in List \ {to} : zt # m /\ zt \notin Range(q[m])
      /\ \A k \in Node : h.next[k] \in Node => k # zt
      /\ q[to] = << >> => h.next[to] = to /\ zt = to
      /\ q[to] # << >> => h.next[to] = q[to][1] /\ zt = q[to][Len(q[to])]
  BY LastOfList
<1>5. zf # zt /\ zf # to
  BY <1>3, <1>4
<1> HIDE DEF zf, zt
<1>6. /\ g.next = [h.next EXCEPT ![zf] = to, ![zt] = h.next[from]]
      /\ g.last = [h.last EXCEPT ![to] = zf]
      /\ g \in Heap
  <2>1. /\ g.next = [h.next EXCEPT ![zf] = to, ![zt] = h.next[from]]
        /\ g.last = [h.last EXCEPT ![to] = zf]
        /\ g = [next |-> g.next, last |-> g.last]
    BY DEF slist_borrow_to_tail, zf, zt
  <2>2. g.next \in [Addr -> Addr \cup {NULL}] /\ g.last \in [List -> Addr]
    BY <2>1, <1>1, <1>3, <1>4
  <2>3. QED
    BY <2>1, <2>2 DEF Heap
<1>7. /\ g.next[zf] = to /\ g.next[zt] = h.next[from]
      /\ \A a \in Addr \ {zf, zt} : g.next[a] = h.next[a]
      /\ g.last[to] = zf
      /\ \A m \in List \ {to} : g.last[m] = h.last[m]
  BY <1>1, <1>3, <1>4, <1>5, <1>6
<1>8. ASSUME NEW m \in List \ {to}
      PROVE  g.next[m] = h.next[m] /\ g.last[m] = h.last[m]
  <2>1. m # zf /\ m # zt /\ m \in Addr
    BY <1>1, <1>3, <1>4, SListAssumption
  <2>2. QED
    BY <2>1, <1>7
<1>9. \A k \in Node : h.next[k] \in Node => g.next[k] = h.next[k]
  BY <1>1, <1>3, <1>4, <1>7
<1>10. ASSUME NEW l \in {to, from}, NEW i \in 1 .. Len(q[l]) - 1
       PROVE  g.next[q[l][i]] = q[l][i + 1]
  <2>1. i \in 1 .. Len(q[l]) /\ i + 1 \in 1 .. Len(q[l])
    BY <1>2, NodeSeqFacts
  <2>2. h.next[q[l][i]] = q[l][i + 1]
    BY <2>1, <1>2 DEF Represents, Stop
  <2>3. q[l][i] \in Node /\ q[l][i + 1] \in Node
    BY <2>1, <1>2, NodeSeqFacts
  <2>4. QED
    BY <2>2, <2>3, <1>9
<1>11. Kept(g, from, q[from])
  BY <1>3, <1>8, <1>10 DEF Kept, zf
<1>12. Joined(g, to, q[to], q[from])
  <2>1. 1 \in 1 .. Len(q[from])
    BY <1>3
  <2>2. g.next[to] = IF q[to] = << >> THEN Stop(to, q[from], 1) ELSE q[to][1]
    <3>1. CASE q[to] = << >>
      BY <3>1, <2>1, <1>3, <1>4, <1>7 DEF Stop
    <3>2. CASE q[to] # << >>
      <4>1. zt \in Node
        BY <3>2, <1>2, <1>4, NodeSeqFacts
      <4>2. QED
        BY <3>2, <4>1, <1>1, <1>4, <1>5, <1>7
    <3>3. QED
      BY <3>1, <3>2
  <2>3. q[to] # << >> => g.next[q[to][Len(q[to])]] = Stop(to, q[from], 1)
    BY <2>1, <1>3, <1>4, <1>7 DEF Stop
  <2>4. ASSUME NEW i \in 1 .. Len(q[from])
        PROVE  g.next[q[from][i]] = Stop(to, q[from], i + 1)
    <3>1. CASE i = Len(q[from])
      BY <3>1, <1>3, <1>7 DEF Stop
    <3>2. CASE i # Len(q[from])
      <4>1. i \in 1 .. Len(q[from]) - 1 /\ i + 1 \in 1 .. Len(q[from])
        BY <3>2, <1>3
      <4>2. QED
        BY <4>1, <1>10 DEF Stop
    <3>3. QED
      BY <3>1, <3>2
  <2>5. g.last[to] = IF q[from] = << >> THEN Stop(to, q[to], Len(q[to])) ELSE q[from][Len(q[from])]
    BY <1>3, <1>7
  <2>6. QED
    BY <2>2, <2>3, <2>4, <2>5, <1>2, <1>10 DEF Joined
<1>13. ASSUME NEW m \in List \ {to, from}
       PROVE  /\ \A k \in Range(q[m]) : g.next[k] = h.next[k]
              /\ \A k \in Range(t[m]) : h.next[k] \in Node => g.next[k] = h.next[k]
  <2>1. \A k \in Range(q[m]) \cup Range(t[m]) : k \in Addr /\ k \in Node
    <3>1. Range(q[m]) \subseteq Node /\ Range(t[m]) \subseteq Node
      BY <1>2, NodeSeqFacts
    <3>2. QED
      BY <3>1, <1>1
  <2>2. zf \notin Range(q[m]) /\ zt \notin Range(q[m])
    BY <1>3, <1>4
  <2>3. QED
    BY <2>1, <2>2, <1>7, <1>9
<1>14. /\ q[to] \o q[from] \in NodeSeqs
       /\ Range(q[to] \o q[from]) = Range(q[to]) \cup Range(q[from])
       /\ Represents(g, to, q[to] \o q[from])
  BY SMTT(60), <1>2, <1>12, Spliced
<1>15. QED
  BY <1>6, <1>8, <1>11, <1>13, <1>14

LEMMA BorrowToTailShape ==
    ASSUME NEW h, NEW q, NEW t, Shape(h, q, t),
           NEW to \in List, NEW from \in List, to # from,
           t[to] = << >>, t[from] = << >>, q[from] # << >>,
           \A m \in List : Range(q[from]) \cap Range(t[m]) = {}
    PROVE  Shape(slist_borrow_to_tail(h, to, from),
                 [q EXCEPT ![to] = @ \o q[from], ![from] = << >>],
                 [t EXCEPT ![from] = q[from]])
<1> DEFINE g == slist_borrow_to_tail(h, to, from)
           r == [q EXCEPT ![to] = @ \o q[from], ![from] = << >>]
           u == [t EXCEPT ![from] = q[from]]
           both == q[to] \o q[from]
<1>1. /\ q \in [List -> NodeSeqs] /\ t \in [List -> NodeSeqs]
      /\ \A l, m \in List : l # m => /\ Range(q[l]) \cap Range(q[m]) = {}
                                    /\ Range(t[l]) \cap Range(t[m]) = {}
  BY DEF Shape
<1>2. /\ g \in Heap
      /\ both \in NodeSeqs
      /\ Range(both) = Range(q[to]) \cup Range(q[from])
      /\ Represents(g, to, both)
      /\ Kept(g, from, q[from])
      /\ \A m \in List \ {to, from} :
            /\ g.next[m] = h.next[m] /\ g.last[m] = h.last[m]
            /\ \A k \in Range(q[m]) : g.next[k] = h.next[k]
            /\ \A k \in Range(t[m]) : h.next[k] \in Node => g.next[k] = h.next[k]
  BY SMTT(60), BorrowToTailLinks
<1>3. /\ r \in [List -> NodeSeqs] /\ r[to] = both /\ r[from] = << >>
      /\ \A m \in List \ {to, from} : r[m] = q[m]
  BY <1>1, <1>2, EmptyNodeSeq
<1>4. /\ u \in [List -> NodeSeqs] /\ u[from] = q[from]
      /\ \A m \in List \ {from} : u[m] = t[m]
  BY <1>1
<1> HIDE DEF g, r, u, both
<1>5. Range(r[from]) = {}
  BY <1>3, EmptyNodeSeq
<1>6. \A m \in {to, from} : IF u[m] = << >> THEN Represents(g, m, r[m])
                                            ELSE r[m] = << >> /\ Kept(g, m, u[m])
  BY <1>2, <1>3, <1>4
<1>7. ASSUME NEW m \in {to, from}, NEW k \in List, m # k
      PROVE  Range(r[m]) \cap Range(r[k]) = {} /\ Range(u[m]) \cap Range(u[k]) = {}
  <2>1. Range(r[m]) \cap Range(r[k]) = {}
    <3>1. CASE m = from \/ k = from
      BY <3>1, <1>5
    <3>2. CASE m = to /\ k # from
      BY <3>2, <1>1, <1>2, <1>3, <1>7
    <3>3. QED
      BY <3>1, <3>2
  <2>2. Range(u[m]) \cap Range(u[k]) = {}
    BY <1>1, <1>4, <1>7
  <2>3. QED
    BY <2>1, <2>2
<1>8. ChangesOnly({to, from}, h, q, t, g, r, u)
  BY <1>2, <1>3, <1>4, <1>6, <1>7 DEF ChangesOnly
<1>9. QED
  BY <1>8, ShapeByChange DEF g, r, u

\* In heap g list `to` is b, made of its own nodes and those of `from`, and other lists
\* and loans are as in h.
Gathered(h, q, t, to, from, g, b) ==
    /\ g \in Heap
    /\ b \in NodeSeqs /\ Range(b) = Range(q[to]) \cup Range(q[from])
    /\ Represents(g, to, b)
    /\ \A m \in List \ {to, from} :
         /\ g.next[m] = h.next[m] /\ g.last[m] = h.last[m]
         /\ \A k \in Range(q[m]) : g.next[k] = h.next[k]
         /\ \A k \in Range(t[m]) : h.next[k] \in Node => g.next[k] = h.next[k]

(***************************************************************************)
(* slist_init ends slist_move_to_tail and slist_move_to_head.              *)
(***************************************************************************)
LEMMA EmptiedShape ==
    ASSUME NEW h, NEW q, NEW t, Shape(h, q, t),
           NEW to \in List, NEW from \in List, to # from,
           t[to] = << >>, t[from] = << >>,
           NEW g, NEW b, Gathered(h, q, t, to, from, g, b)
    PROVE  Shape(slist_init(g, from), [q EXCEPT ![to] = b, ![from] = << >>], t)
<1> DEFINE f == slist_init(g, from)
           r == [q EXCEPT ![to] = b, ![from] = << >>]
<1>1. /\ q \in [List -> NodeSeqs] /\ t \in [List -> NodeSeqs]
      /\ \A l, m \in List : l # m => /\ Range(q[l]) \cap Range(q[m]) = {}
                                    /\ Range(t[l]) \cap Range(t[m]) = {}
  BY DEF Shape
<1>2. /\ g \in Heap
      /\ b \in NodeSeqs /\ Range(b) = Range(q[to]) \cup Range(q[from])
      /\ Represents(g, to, b)
      /\ g.next \in [Addr -> Addr \cup {NULL}] /\ g.last \in [List -> Addr]
      /\ List \subseteq Addr /\ Node \subseteq Addr /\ Node \cap List = {}
  BY SListAssumption DEF Gathered, Heap, Addr
<1>3. /\ f.next = [g.next EXCEPT ![from] = from]
      /\ f.last = [g.last EXCEPT ![from] = from]
      /\ f \in Heap
  BY <1>2 DEF slist_init, Heap
<1>4. /\ r \in [List -> NodeSeqs] /\ r[to] = b /\ r[from] = << >>
      /\ \A m \in List \ {to, from} : r[m] = q[m]
  BY <1>1, <1>2, EmptyNodeSeq
<1> HIDE DEF f, r
<1>5. /\ f.next[from] = from /\ f.last[from] = from
      /\ \A a \in Addr \ {from} : f.next[a] = g.next[a]
      /\ \A m \in List \ {from} : f.last[m] = g.last[m]
  BY <1>2, <1>3
<1>6. Represents(f, from, r[from])
  BY <1>4, <1>5, EmptySeq DEF Represents, Stop
<1>7. Represents(f, to, r[to])
  <2>1. \A k \in Range(b) : k \in Addr \ {from}
    BY <1>2, NodeSeqFacts
  <2>2. f.next[to] = g.next[to] /\ f.last[to] = g.last[to] /\ \A k \in Range(b) : f.next[k] = g.next[k]
    BY <2>1, <1>2, <1>5
  <2>3. QED
    BY <2>2, <1>2, <1>4, RepresentsElsewhere
<1>8. ASSUME NEW m \in List \ {to, from}
      PROVE  /\ f.next[m] = h.next[m] /\ f.last[m] = h.last[m]
             /\ \A k \in Range(q[m]) : f.next[k] = h.next[k]
             /\ \A k \in Range(t[m]) : h.next[k] \in Node => f.next[k] = h.next[k]
  <2>1. Range(q[m]) \subseteq Node /\ Range(t[m]) \subseteq Node
    BY <1>1, NodeSeqFacts
  <2>2. \A k \in Range(q[m]) \cup Range(t[m]) \cup {m} : f.next[k] = g.next[k]
    BY <2>1, <1>2, <1>5
  <2>3. QED
    BY <2>2, <1>5 DEF Gathered
<1>9. ASSUME NEW m \in {to, from}, NEW k \in List, m # k
      PROVE  Range(r[m]) \cap Range(r[k]) = {} /\ Range(t[m]) \cap Range(t[k]) = {}
  <2>1. Range(r[from]) = {}
    BY <1>4, EmptyNodeSeq
  <2>2. CASE m = from \/ k = from
    BY <2>1, <2>2, <1>1, <1>9
  <2>3. CASE m = to /\ k # from
    BY <2>3, <1>1, <1>2, <1>4, <1>9
  <2>4. QED
    BY <2>2, <2>3
<1>10. ChangesOnly({to, from}, h, q, t, f, r, t)
  BY <1>1, <1>3, <1>4, <1>6, <1>7, <1>8, <1>9 DEF ChangesOnly
<1>11. QED
  BY <1>10, ShapeByChange DEF f, r

LEMMA MoveToTailShape ==
    ASSUME NEW h, NEW q, NEW t, Shape(h, q, t),
           NEW to \in List, NEW from \in List, to # from,
           t[to] = << >>, t[from] = << >>, q[from] # << >>
    PROVE  Shape(slist_move_to_tail(h, to, from),
                 [q EXCEPT ![to] = @ \o q[from], ![from] = << >>], t)
<1> DEFINE g == slist_borrow_to_tail(h, to, from)
           b == q[to] \o q[from]
<1>1. Gathered(h, q, t, to, from, g, b)
  BY SMTT(60), BorrowToTailLinks DEF Gathered
<1>2. /\ slist_move_to_tail(h, to, from) = slist_init(g, from)
      /\ [q EXCEPT ![to] = @ \o q[from], ![from] = << >>] = [q EXCEPT ![to] = b, ![from] = << >>]
  BY DEF slist_move_to_tail, Shape
<1> HIDE DEF g, b
<1>3. QED
  BY <1>1, <1>2, EmptiedShape

LEMMA MoveToHeadShape ==
    ASSUME NEW h, NEW q, NEW t, Shape(h, q, t),
           NEW to \in List, NEW from \in List, to # from,
           t[to] = << >>, t[from] = << >>, q[from] # << >>
    PROVE  Shape(slist_move_to_head(h, to, from),
                 [q EXCEPT ![to] = q[from] \o @, ![from] = << >>], t)
<1> DEFINE zf == h.last[from]
           g == [next |-> [h.next EXCEPT ![zf] = h.next[to], ![to] = h.next[from]],
                 last |-> IF h.last[to] = to THEN [h.last EXCEPT ![to] = zf] ELSE h.last]
           b == q[from] \o q[to]
<1>1. /\ h.next \in [Addr -> Addr \cup {NULL}] /\ h.last \in [List -> Addr]
      /\ to \in Addr /\ from \in Addr /\ to \notin Node /\ from \notin Node
      /\ Node \subseteq Addr /\ List \subseteq Addr
  BY SListAssumption DEF Shape, Heap, Addr
<1>2. /\ \A m \in List : q[m] \in NodeSeqs /\ t[m] \in NodeSeqs
      /\ q \in [List -> NodeSeqs]
      /\ Represents(h, to, q[to]) /\ Represents(h, from, q[from])
      /\ Range(q[to]) \cap Range(q[from]) = {}
  BY DEF Shape
<1>3. /\ zf \in Addr /\ zf \in Range(q[from]) /\ zf \in Node /\ zf # to
      /\ \A m \in List \ {from} : zf # m /\ zf \notin Range(q[m])
      /\ \A k \in Node : h.next[k] \in Node => k # zf
      /\ h.next[from] = q[from][1] /\ zf = q[from][Len(q[from])]
      /\ Len(q[from]) \in Nat \ {0}
  <2>1. Len(q[from]) \in Nat \ {0}
    BY <1>2, NodeSeqFacts
  <2>2. zf = q[from][Len(q[from])] /\ h.next[from] = q[from][1]
    BY LastOfList
  <2>3. zf \in Range(q[from]) /\ zf \in Node
    BY <2>1, <2>2, <1>2, NodeSeqFacts
  <2>4. QED
    BY <2>1, <2>2, <2>3, <1>1, LastOfList
<1> HIDE DEF zf
<1>4. /\ g.next = [h.next EXCEPT ![zf] = h.next[to], ![to] = h.next[from]]
      /\ g.last = IF h.last[to] = to THEN [h.last EXCEPT ![to] = zf] ELSE h.last
      /\ g \in Heap
      /\ slist_move_to_head(h, to, from) = slist_init(g, from)
  <2>1. [h.next EXCEPT ![zf] = h.next[to], ![to] = h.next[from]] \in [Addr -> Addr \cup {NULL}]
    BY <1>1, <1>3
  <2>2. (IF h.last[to] = to THEN [h.last EXCEPT ![to] = zf] ELSE h.last) \in [List -> Addr]
    BY <1>1, <1>3
  <2>3. slist_move_to_head(h, to, from) = slist_init(g, from)
    BY DEF slist_move_to_head, zf
  <2>4. QED
    BY <2>1, <2>2, <2>3 DEF Heap
<1> HIDE DEF g
<1>5. /\ g.next[zf] = h.next[to] /\ g.next[to] = h.next[from]
      /\ \A a \in Addr \ {zf, to} : g.next[a] = h.next[a]
      /\ \A m \in List \ {to} : g.last[m] = h.last[m]
  BY <1>1, <1>3, <1>4
<1>6. Joined(g, to, q[from], q[to])
  <2>1. g.next[to] = IF q[from] = << >> THEN Stop(to, q[to], 1) ELSE q[from][1]
    BY <1>3, <1>5
  <2>2. ASSUME NEW i \in 1 .. Len(q[from]) - 1
        PROVE  g.next[q[from][i]] = q[from][i + 1]
    <3>1. i \in 1 .. Len(q[from]) /\ i + 1 \in 1 .. Len(q[from])
      BY <1>3
    <3>2. h.next[q[from][i]] = q[from][i + 1]
      BY <3>1, <1>2 DEF Represents, Stop
    <3>3. q[from][i] \in Node /\ q[from][i + 1] \in Node
      BY <3>1, <1>2, NodeSeqFacts
    <3>4. q[from][i] \in Addr \ {zf, to}
      BY <3>2, <3>3, <1>1, <1>3
    <3>5. QED
      BY <3>2, <3>4, <1>5
  <2>3. g.next[q[from][Len(q[from])]] = Stop(to, q[to], 1)
    BY <1>2, <1>3, <1>5 DEF Represents
  <2>4. ASSUME NEW i \in 1 .. Len(q[to])
        PROVE  g.next[q[to][i]] = Stop(to, q[to], i + 1)
    <3>1. q[to][i] \in Node /\ q[to][i] \in Range(q[to])
      BY <1>2, NodeSeqFacts
    <3>2. q[to][i] \in Addr \ {zf, to}
      BY <3>1, <1>1, <1>3
    <3>3. QED
      BY <3>2, <1>2, <1>5 DEF Represents
  <2>5. g.last[to] = IF q[to] = << >> THEN Stop(to, q[from], Len(q[from])) ELSE q[to][Len(q[to])]
    <3>1. CASE q[to] = << >>
      <4>1. h.last[to] = to
        BY <3>1, <1>2, RepresentsEnds
      <4>2. QED
        BY <3>1, <4>1, <1>1, <1>3, <1>4 DEF Stop
    <3>2. CASE q[to] # << >>
      <4>1. h.last[to] = q[to][Len(q[to])] /\ Len(q[to]) \in 1 .. Len(q[to])
        BY <3>2, <1>2, RepresentsEnds, NodeSeqFacts
      <4>2. h.last[to] # to
        BY <4>1, <1>1, <1>2, NodeSeqFacts
      <4>3. QED
        BY <3>2, <4>1, <4>2, <1>4
    <3>3. QED
      BY <3>1, <3>2
  <2>6. QED
    BY <2>1, <2>2, <2>3, <2>4, <2>5, <1>2 DEF Joined
<1>7. /\ b \in NodeSeqs
      /\ Range(b) = Range(q[from]) \cup Range(q[to])
      /\ Represents(g, to, b)
  BY <1>2, <1>6, Spliced
<1>8. ASSUME NEW m \in List \ {to, from}
      PROVE  /\ g.next[m] = h.next[m] /\ g.last[m] = h.last[m]
             /\ \A k \in Range(q[m]) : g.next[k] = h.next[k]
             /\ \A k \in Range(t[m]) : h.next[k] \in Node => g.next[k] = h.next[k]
  <2>1. Range(q[m]) \subseteq Node /\ Range(t[m]) \subseteq Node
    BY <1>2, NodeSeqFacts
  <2>2. zf \notin Range(q[m]) /\ m \in Addr \ {zf, to}
    BY <1>1, <1>3
  <2>3. QED
    BY <2>1, <2>2, <1>1, <1>3, <1>5
<1>9. Gathered(h, q, t, to, from, g, b)
  BY <1>4, <1>7, <1>8 DEF Gathered
<1>10. [q EXCEPT ![to] = q[from] \o @, ![from] = << >>] = [q EXCEPT ![to] = b, ![from] = << >>]
  BY <1>2
<1> HIDE DEF b
<1>11. QED
  BY <1>4, <1>9, <1>10, EmptiedShape

\* What follows the first c nodes of s.
Dropped(s, c) == SubSeq(s, c + 1, Len(s))

LEMMA DroppedSeq ==
    ASSUME NEW s \in NodeSeqs, NEW c \in 0 .. Len(s)
    PROVE  /\ Dropped(s, c) \in NodeSeqs
           /\ Len(Dropped(s, c)) = Len(s) - c
           /\ \A i \in 1 .. Len(s) - c : Dropped(s, c)[i] = s[c + i]
           /\ Range(Dropped(s, c)) \subseteq Range(s)
           /\ \A i \in 1 .. c : s[i] \notin Range(Dropped(s, c))
           /\ c = Len(s) => Dropped(s, c) = << >>
<1> DEFINE b == Dropped(s, c)
<1>1. /\ Len(s) \in Nat /\ c \in Nat /\ c <= Len(s)
      /\ \A i \in 1 .. Len(s) : s[i] \in Node
      /\ \A i, j \in 1 .. Len(s) : s[i] = s[j] => i = j
      /\ \A n : n \in Range(s) <=> \E i \in 1 .. Len(s) : n = s[i]
  BY NodeSeqFacts
<1>2. /\ b \in Seq(Node)
      /\ Len(b) = IF c + 1 <= Len(s) THEN Len(s) - (c + 1) + 1 ELSE 0
      /\ \A i \in 1 .. Len(s) - (c + 1) + 1 : b[i] = s[(c + 1) + i - 1]
  <2>1. \A i \in c + 1 .. Len(s) : s[i] \in Node
    BY <1>1
  <2>2. c + 1 \in Int /\ Len(s) \in Int
    BY <1>1
  <2>3. QED
    BY <2>1, <2>2, SubSeqProperties DEF Dropped
<1> HIDE DEF b
<1>3. Len(b) = Len(s) - c /\ Len(b) \in Nat
  BY <1>1, <1>2
<1>4. ASSUME NEW i \in 1 .. Len(s) - c
      PROVE  b[i] = s[c + i] /\ c + i \in 1 .. Len(s)
  <2>1. i \in 1 .. Len(s) - (c + 1) + 1 /\ (c + 1) + i - 1 = c + i
    BY <1>1
  <2>2. QED
    BY <2>1, <1>1, <1>2
<1>5. DOMAIN b = 1 .. Len(s) - c
  BY <1>2, <1>3, LenProperties
<1>6. IsInjective(b)
  <2>1. ASSUME NEW i \in 1 .. Len(s) - c, NEW j \in 1 .. Len(s) - c, b[i] = b[j]
        PROVE  i = j
    <3>1. s[c + i] = s[c + j] /\ c + i \in 1 .. Len(s) /\ c + j \in 1 .. Len(s)
      BY <2>1, <1>4
    <3>2. c + i = c + j
      BY <3>1, <1>1
    <3>3. QED
      BY <3>2
  <2>2. QED
    BY <2>1, <1>5 DEF IsInjective
<1>7. b \in NodeSeqs
  BY <1>2, <1>6, NodeSeqsAreSeqs
<1>8. \A n : n \in Range(b) <=> \E i \in 1 .. Len(s) - c : n = s[c + i]
  BY <1>4, <1>5 DEF Range
<1>9. Range(b) \subseteq Range(s)
  BY <1>1, <1>4, <1>8
<1>10. ASSUME NEW i \in 1 .. c, s[i] \in Range(b)
       PROVE  FALSE
  <2>1. PICK k \in 1 .. Len(s) - c : s[i] = s[c + k]
    BY <1>8, <1>10
  <2>2. i \in 1 .. Len(s) /\ c + k \in 1 .. Len(s) /\ i # c + k
    BY <1>1
  <2>3. QED
    BY <2>1, <2>2, <1>1
<1>11. c = Len(s) => b = << >>
  BY <1>1, <1>3, <1>7, NodeSeqFacts
<1>12. QED
  BY <1>3, <1>4, <1>7, <1>9, <1>10, <1>11 DEF b

(***************************************************************************)
(* Taking c nodes off the head: the sentinel goes to the one behind them.  *)
(***************************************************************************)
LEMMA DroppedRepresents ==
    ASSUME NEW h, NEW g, NEW l \in List, NEW s \in NodeSeqs, Represents(h, l, s),
           NEW c \in 0 .. Len(s),
           g.next[l] = Stop(l, s, c + 1),
           g.last[l] = IF c = Len(s) THEN l ELSE h.last[l],
           \A n \in Range(Dropped(s, c)) : g.next[n] = h.next[n]
    PROVE  Represents(g, l, Dropped(s, c))
<1> DEFINE b == Dropped(s, c)
<1>1. /\ b \in NodeSeqs
      /\ Len(b) = Len(s) - c
      /\ \A i \in 1 .. Len(s) - c : b[i] = s[c + i]
      /\ Len(s) \in Nat
  BY DroppedSeq, NodeSeqFacts
<1>2. \A i \in 1 .. Len(b) : b[i] \in Range(b)
  BY <1>1, NodeSeqFacts
<1>3. \A n \in Range(b) : g.next[n] = h.next[n]
  OBVIOUS
<1> HIDE DEF b
<1>4. ASSUME NEW i \in 1 .. Len(s) - c + 1
      PROVE  Stop(l, b, i) = Stop(l, s, c + i)
  <2>1. CASE i = Len(s) - c + 1
    <3>1. i \notin 1 .. Len(b) /\ c + i \notin 1 .. Len(s)
      BY <2>1, <1>1
    <3>2. QED
      BY <3>1 DEF Stop
  <2>2. CASE i # Len(s) - c + 1
    <3>1. i \in 1 .. Len(b) /\ c + i \in 1 .. Len(s) /\ i \in 1 .. Len(s) - c
      BY <2>2, <1>1
    <3>2. QED
      BY <3>1, <1>1 DEF Stop
  <2>3. QED
    BY <2>1, <2>2
<1>5. g.next[l] = Stop(l, b, 1)
  <2>1. 1 \in 1 .. Len(s) - c + 1
    BY <1>1
  <2>2. QED
    BY <2>1, <1>4
<1>6. g.last[l] = Stop(l, b, Len(b))
  <2>1. CASE c = Len(s)
    BY <2>1, <1>1 DEF Stop
  <2>2. CASE c # Len(s)
    <3>1. Len(b) \in 1 .. Len(b) /\ Len(b) \in 1 .. Len(s) - c + 1 /\ c + Len(b) = Len(s)
      BY <2>2, <1>1
    <3>2. Stop(l, b, Len(b)) = Stop(l, s, Len(s))
      BY <3>1, <1>4
    <3>3. QED
      BY <3>2, <2>2 DEF Represents
  <2>3. QED
    BY <2>1, <2>2
<1>7. ASSUME NEW i \in 1 .. Len(b)
      PROVE  g.next[b[i]] = Stop(l, b, i + 1)
  <2>1. /\ c + i \in 1 .. Len(s) /\ i \in 1 .. Len(s) - c
        /\ i + 1 \in 1 .. Len(s) - c + 1 /\ c + (i + 1) = (c + i) + 1
    BY SMTT(60), <1>1
  <2>2. b[i] = s[c + i] /\ g.next[b[i]] = h.next[s[c + i]]
    BY <2>1, <1>1, <1>2, <1>3
  <2>3. h.next[s[c + i]] = Stop(l, s, (c + i) + 1)
    BY <2>1 DEF Represents
  <2>4. QED
    BY <2>1, <2>2, <2>3, <1>4
<1>8. Represents(g, l, b)
  BY <1>5, <1>6, <1>7 DEF Represents
<1>9. QED
  BY <1>8 DEF b

LEMMA PopHeadShape ==
    ASSUME NEW h, NEW q, NEW t, Shape(h, q, t),
           NEW l \in List, t[l] = << >>, q[l] # << >>
    PROVE  Shape(slist_pop_head_node(h, l), [q EXCEPT ![l] = Tail(@)], t)
<1> DEFINE g == slist_pop_head_node(h, l)
           b == Dropped(q[l], 1)
           r == [q EXCEPT ![l] = Tail(@)]
<1>1. /\ h.next \in [Addr -> Addr \cup {NULL}] /\ h.last \in [List -> Addr]
      /\ l \in Addr /\ l \notin Node
      /\ Node \subseteq Addr /\ List \subseteq Addr
  BY SListAssumption DEF Shape, Heap, Addr
<1>2. /\ q \in [List -> NodeSeqs] /\ t \in [List -> NodeSeqs]
      /\ q[l] \in NodeSeqs
      /\ Represents(h, l, q[l])
  BY DEF Shape
<1>3. /\ Len(q[l]) \in Nat \ {0} /\ 1 \in 0 .. Len(q[l]) /\ 1 \in 1 .. Len(q[l])
      /\ q[l] \in Seq(Node)
      /\ h.next[l] = q[l][1] /\ h.last[l] = q[l][Len(q[l])]
      /\ q[l][1] \in Addr
  <2>1. Len(q[l]) \in Nat \ {0} /\ q[l] \in Seq(Node)
    BY <1>2, NodeSeqFacts
  <2>2. 1 \in 0 .. Len(q[l]) /\ 1 \in 1 .. Len(q[l])
    BY <2>1
  <2>3. QED
    BY <2>1, <2>2, <1>2, RepresentsEnds, NodeSeqFacts
<1>4. h.next[q[l][1]] = Stop(l, q[l], 2)
  BY <1>2, <1>3 DEF Represents
<1>5. Stop(l, q[l], 2) \in Addr
  BY <1>1, <1>2, NodeSeqFacts DEF Stop
<1>6. /\ b \in NodeSeqs /\ Range(b) \subseteq Range(q[l])
      /\ Len(b) = Len(q[l]) - 1
      /\ \A i \in 1 .. Len(q[l]) - 1 : b[i] = q[l][1 + i]
  <2>1. q[l] \in NodeSeqs /\ 1 \in 0 .. Len(q[l])
    BY <1>2, <1>3
  <2>2. /\ Dropped(q[l], 1) \in NodeSeqs /\ Len(Dropped(q[l], 1)) = Len(q[l]) - 1
        /\ \A i \in 1 .. Len(q[l]) - 1 : Dropped(q[l], 1)[i] = q[l][1 + i]
        /\ Range(Dropped(q[l], 1)) \subseteq Range(q[l])
    BY ONLY <2>1, DroppedSeq
  <2>3. QED
    BY <2>2
<1>7. Tail(q[l]) = b
  <2>1. /\ Tail(q[l]) \in Seq(Node)
        /\ Len(Tail(q[l])) = Len(q[l]) - 1
        /\ \A i \in 1 .. Len(q[l]) - 1 : Tail(q[l])[i] = q[l][i + 1]
    BY <1>3, HeadTailProperties
  <2>2. b \in Seq(Node)
    BY <1>6, NodeSeqFacts
  <2>3. \A i \in 1 .. Len(q[l]) - 1 : i + 1 = 1 + i
    BY <1>3
  <2>4. \A i \in 1 .. Len(b) : Tail(q[l])[i] = b[i]
    BY <2>1, <2>3, <1>6
  <2>5. QED
    BY <2>1, <2>2, <2>4, <1>6, SeqEqual
<1>8. /\ g.next = [h.next EXCEPT ![l] = Stop(l, q[l], 2)]
      /\ g.last = IF h.last[l] = q[l][1] THEN [h.last EXCEPT ![l] = l] ELSE h.last
      /\ g \in Heap
  <2>1. /\ g.next = [h.next EXCEPT ![l] = Stop(l, q[l], 2)]
        /\ g.last = IF h.last[l] = q[l][1] THEN [h.last EXCEPT ![l] = l] ELSE h.last
    BY <1>3, <1>4 DEF slist_pop_head_node
  <2>2. g.next \in [Addr -> Addr \cup {NULL}] /\ g.last \in [List -> Addr]
    BY <2>1, <1>1, <1>5
  <2>3. QED
    BY <2>1, <2>2 DEF slist_pop_head_node, Heap
<1> HIDE DEF g, b
<1>9. /\ g.next[l] = Stop(l, q[l], 2)
      /\ \A a \in Addr \ {l} : g.next[a] = h.next[a]
      /\ \A m \in List \ {l} : g.last[m] = h.last[m]
  BY <1>1, <1>8
<1>10. g.last[l] = IF 1 = Len(q[l]) THEN l ELSE h.last[l]
  <2>1. CASE Len(q[l]) = 1
    BY <2>1, <1>1, <1>3, <1>8
  <2>2. CASE Len(q[l]) # 1
    <3>1. Len(q[l]) \in 1 .. Len(q[l])
      BY <1>3
    <3>2. h.last[l] # q[l][1]
      BY ZenonT(60), <2>2, <3>1, <1>2, <1>3, NodeSeqFacts
    <3>3. QED
      BY <2>2, <3>2, <1>8
  <2>3. QED
    BY <2>1, <2>2
<1>11. Represents(g, l, b)
  <2>1. Range(q[l]) \subseteq Node
    BY <1>2, NodeSeqFacts
  <2>2. \A n \in Range(b) : g.next[n] = h.next[n]
    BY <2>1, <1>1, <1>6, <1>9
  <2>3. g.next[l] = Stop(l, q[l], 1 + 1)
    BY <1>9
  <2>4. QED
    BY <2>2, <2>3, <1>2, <1>3, <1>10, DroppedRepresents DEF b
<1>12. /\ r \in [List -> NodeSeqs] /\ r[l] = b
       /\ \A m \in List \ {l} : r[m] = q[m]
  BY <1>2, <1>6, <1>7
<1> HIDE DEF r
<1>13. ASSUME NEW m \in List \ {l}
       PROVE  /\ g.next[m] = h.next[m] /\ g.last[m] = h.last[m]
              /\ \A k \in Range(q[m]) : g.next[k] = h.next[k]
              /\ \A k \in Range(t[m]) : h.next[k] \in Node => g.next[k] = h.next[k]
  <2>1. Range(q[m]) \subseteq Node /\ Range(t[m]) \subseteq Node
    BY <1>2, NodeSeqFacts
  <2>2. QED
    BY <2>1, <1>1, <1>9
<1>14. ASSUME NEW m \in List, l # m
       PROVE  Range(r[l]) \cap Range(r[m]) = {} /\ Range(t[l]) \cap Range(t[m]) = {}
  <2>1. Range(q[l]) \cap Range(q[m]) = {} /\ Range(t[l]) \cap Range(t[m]) = {}
    BY <1>14 DEF Shape
  <2>2. QED
    BY <2>1, <1>6, <1>12, <1>14
<1>15. ChangesOnly({l}, h, q, t, g, r, t)
  BY <1>2, <1>8, <1>11, <1>12, <1>13, <1>14 DEF ChangesOnly
<1>16. QED
  BY <1>15, ShapeByChange DEF g, r

LEMMA AfterDropped ==
    ASSUME NEW s, NEW q \in NodeSeqs, NEW c \in 1 .. Len(q), q[c] = s[Len(s)]
    PROVE  NL!After(s, q) = Dropped(q, c)
<1> DEFINE I == {i \in 1 .. Len(q) : q[i] = s[Len(s)]}
<1>1. I = {c}
  BY NodeSeqFacts
<1>2. NL!After(s, q) = SubSeq(q, (IF I # {} THEN NL!Min(I) ELSE 0) + 1, Len(q))
  BY DEF NL!After, NL!SelectInSeq, NL!Last
<1>3. NL!Min(I) = c
  <2>1. c \in Int
    BY NodeSeqFacts
  <2>2. NL!Min({c}) = c
    BY <2>1 DEF NL!Min
  <2>3. QED
    BY <1>1, <2>2
<1> HIDE DEF I
<1>4. QED
  BY <1>1, <1>2, <1>3 DEF Dropped

LEMMA AfterEmpty ==
    ASSUME NEW s
    PROVE  NL!After(s, << >>) = << >>
<1>1. {i \in 1 .. Len(<< >>) : << >>[i] = s[Len(s)]} = {}
  BY EmptySeq
<1>2. NL!After(s, << >>) = SubSeq(<< >>, 0 + 1, Len(<< >>))
  BY <1>1 DEF NL!After, NL!SelectInSeq, NL!Last
<1>3. QED
  BY <1>2, SubSeqEmpty, EmptySeq

(***************************************************************************)
(* A list that holds one borrowed node holds all that follow it in the     *)
(* loan, one behind the other, to the last.                                *)
(***************************************************************************)
LEMMA LoanGoesOn ==
    ASSUME NEW h, NEW l \in List, NEW q \in NodeSeqs, Represents(h, l, q),
           NEW m \in List, NEW s \in NodeSeqs, Kept(h, m, s),
           NEW a \in 1 .. Len(q), NEW j \in 1 .. Len(s), q[a] = s[j]
    PROVE  \A k \in 0 .. Len(s) - j : a + k \in 1 .. Len(q) /\ q[a + k] = s[j + k]
<1> DEFINE Off == {k \in Nat : k <= Len(s) - j /\ ~ (a + k \in 1 .. Len(q) /\ q[a + k] = s[j + k])}
<1>1. /\ Len(q) \in Nat /\ Len(s) \in Nat /\ a \in Nat /\ j \in Nat
      /\ 1 <= a /\ a <= Len(q) /\ 1 <= j /\ j <= Len(s)
      /\ \A i \in 1 .. Len(s) : s[i] \in Node
  BY NodeSeqFacts
<1>2. l \notin Node
  BY SListAssumption
<1>3. Off = {}
  <2> SUFFICES ASSUME Off # {} PROVE FALSE
    OBVIOUS
  <2>1. PICK k \in Off : \A i \in Off : ~ (<<i, k>> \in OpToRel(<, Nat))
    BY WFMin, NatLessThanWellFounded, Off \subseteq Nat
  <2>2. k \in Nat /\ k <= Len(s) - j /\ ~ (a + k \in 1 .. Len(q) /\ q[a + k] = s[j + k])
    BY <2>1
  <2>3. \A i \in Off : ~ (i < k)
    BY <2>1, <2>2 DEF OpToRel
  <2>4. k # 0
    BY <2>2, <1>1
  <2>5. k - 1 \in Nat /\ k - 1 <= Len(s) - j /\ k - 1 \notin Off
    <3>1. k - 1 \in Nat /\ k - 1 < k /\ k - 1 <= Len(s) - j
      BY <2>2, <2>4, <1>1
    <3>2. k - 1 \notin Off
      BY <3>1, <2>3
    <3>3. QED
      BY <3>1, <3>2
  <2>6. a + (k - 1) \in 1 .. Len(q) /\ q[a + (k - 1)] = s[j + (k - 1)]
    BY <2>5
  <2>7. /\ j + (k - 1) \in 1 .. Len(s) - 1 /\ j + k \in 1 .. Len(s)
        /\ (j + (k - 1)) + 1 = j + k /\ (a + (k - 1)) + 1 = a + k
    BY <2>2, <2>4, <1>1
  <2>8. h.next[s[j + (k - 1)]] = s[j + k]
    <3>1. h.next[s[j + (k - 1)]] = s[(j + (k - 1)) + 1]
      BY <2>7 DEF Kept
    <3>2. QED
      BY <3>1, <2>7
  <2>9. h.next[q[a + (k - 1)]] = Stop(l, q, a + k)
    <3>1. h.next[q[a + (k - 1)]] = Stop(l, q, (a + (k - 1)) + 1)
      BY <2>6 DEF Represents
    <3>2. QED
      BY <3>1, <2>7
  <2>10. Stop(l, q, a + k) = s[j + k] /\ s[j + k] \in Node
    BY <2>6, <2>7, <2>8, <2>9, <1>1
  <2>11. a + k \in 1 .. Len(q) /\ q[a + k] = s[j + k]
    BY <2>10, <1>2 DEF Stop
  <2>12. QED
    BY <2>2, <2>11
<1>4. ASSUME NEW k \in 0 .. Len(s) - j
      PROVE  a + k \in 1 .. Len(q) /\ q[a + k] = s[j + k]
  <2>1. k \in Nat /\ k <= Len(s) - j
    BY <1>1
  <2>2. k \notin Off
    BY <1>3
  <2>3. QED
    BY <2>1, <2>2
<1>5. QED
  BY <1>4

\* What slist_give_back_head leaves of `from` is b: it is what follows the last node lent,
\* and no list has another of the nodes.
Leaves(h, q, t, to, from, b) ==
    /\ b \in NodeSeqs
    /\ Range(b) \subseteq Range(q[from])
    /\ Range(b) \cap Range(t[to]) = {}
    /\ \A m \in List \ {from} : Range(q[m]) \cap Range(t[to]) = {}
    /\ h.next[t[to][Len(t[to])]] \in Addr
    /\ \A g \in Heap :
         /\ g.next[from] = h.next[t[to][Len(t[to])]]
         /\ g.last[from] = IF h.next[t[to][Len(t[to])]] = from THEN from ELSE h.last[from]
         /\ \A n \in Range(b) : g.next[n] = h.next[n]
         => Represents(g, from, b)

LEMMA GiveBackShape ==
    ASSUME NEW h, NEW q, NEW t, Shape(h, q, t),
           NEW to \in List, NEW from \in List, to # from,
           t[to] # << >>, t[from] = << >>,
           NEW b, Leaves(h, q, t, to, from, b)
    PROVE  Shape(slist_give_back_head(h, to, from),
                 [q EXCEPT ![to] = t[to], ![from] = b], [t EXCEPT ![to] = << >>])
<1> DEFINE g == slist_give_back_head(h, to, from)
           s == t[to]
           z == s[Len(s)]
           r == [q EXCEPT ![to] = t[to], ![from] = b]
           u == [t EXCEPT ![to] = << >>]
<1>1. /\ h.next \in [Addr -> Addr \cup {NULL}] /\ h.last \in [List -> Addr]
      /\ to \in Addr /\ from \in Addr /\ to \notin Node /\ from \notin Node
      /\ Node \subseteq Addr /\ List \subseteq Addr /\ Node \cap List = {}
  BY SListAssumption DEF Shape, Heap, Addr
<1>2. /\ q \in [List -> NodeSeqs] /\ t \in [List -> NodeSeqs]
      /\ s \in NodeSeqs /\ q[to] = << >> /\ Kept(h, to, s)
      /\ Represents(h, from, q[from])
      /\ \A l, m \in List : l # m => /\ Range(q[l]) \cap Range(q[m]) = {}
                                    /\ Range(t[l]) \cap Range(t[m]) = {}
  BY DEF Shape
<1>3. /\ Len(s) \in Nat \ {0} /\ Len(s) \in 1 .. Len(s)
      /\ z \in Node /\ z \in Range(s) /\ z = h.last[to]
      /\ h.next[to] = s[1] /\ Range(s) \subseteq Node
  <2>1. Len(s) \in Nat \ {0}
    BY <1>2, NodeSeqFacts
  <2>2. Len(s) \in 1 .. Len(s)
    BY <2>1
  <2>3. z \in Node /\ z \in Range(s)
    BY <2>2, <1>2, NodeSeqFacts
  <2>4. QED
    BY <2>1, <2>2, <2>3, <1>2, NodeSeqFacts DEF Kept
<1>4. /\ b \in NodeSeqs /\ Range(b) \subseteq Range(q[from]) /\ Range(b) \cap Range(s) = {}
      /\ h.next[z] \in Addr
      /\ \A m \in List \ {from} : Range(q[m]) \cap Range(s) = {}
  BY DEF Leaves
<1>5. /\ g.next = [h.next EXCEPT ![from] = h.next[z], ![z] = to]
      /\ g.last = IF h.next[z] = from THEN [h.last EXCEPT ![from] = from] ELSE h.last
      /\ g \in Heap
  <2>1. /\ g.next = [h.next EXCEPT ![from] = h.next[z], ![z] = to]
        /\ g.last = IF h.next[z] = from THEN [h.last EXCEPT ![from] = from] ELSE h.last
    BY <1>3 DEF slist_give_back_head
  <2>2. g.next \in [Addr -> Addr \cup {NULL}] /\ g.last \in [List -> Addr]
    BY <2>1, <1>1, <1>3, <1>4
  <2>3. QED
    BY <2>1, <2>2 DEF slist_give_back_head, Heap
<1>6. Represents(g, from, b)
  <2>1. /\ g.next[from] = h.next[z]
        /\ g.last[from] = IF h.next[z] = from THEN from ELSE h.last[from]
    BY <1>1, <1>3, <1>5
  <2>2. ASSUME NEW n \in Range(b)
        PROVE  g.next[n] = h.next[n]
    <3>1. n \in Node /\ n # z
      BY <1>2, <1>3, <1>4, NodeSeqFacts
    <3>2. QED
      BY <3>1, <1>1, <1>5
  <2>3. QED
    BY <2>1, <2>2, <1>5 DEF Leaves
<1> HIDE DEF g, z
<1>7. /\ g.next[from] = h.next[z] /\ g.next[z] = to
      /\ \A a \in Addr \ {from, z} : g.next[a] = h.next[a]
      /\ \A m \in List \ {from} : g.last[m] = h.last[m]
  BY <1>1, <1>3, <1>5
<1>8. Represents(g, to, s)
  <2>1. g.next[to] = Stop(to, s, 1)
    BY <1>1, <1>3, <1>7 DEF Stop
  <2>2. g.last[to] = Stop(to, s, Len(s))
    BY <1>3, <1>7 DEF Stop, z
  <2>3. ASSUME NEW i \in 1 .. Len(s)
        PROVE  g.next[s[i]] = Stop(to, s, i + 1)
    <3>1. CASE i = Len(s)
      BY <3>1, <1>3, <1>7 DEF Stop, z
    <3>2. CASE i # Len(s)
      <4>1. i \in 1 .. Len(s) - 1 /\ i + 1 \in 1 .. Len(s)
        BY <3>2, <1>3
      <4>2. s[i] # z /\ s[i] \in Node
        BY <3>2, <1>2, <1>3, NodeSeqFacts DEF z
      <4>3. g.next[s[i]] = h.next[s[i]] /\ h.next[s[i]] = s[i + 1]
        BY <4>1, <4>2, <1>1, <1>2, <1>7 DEF Kept
      <4>4. QED
        BY <4>1, <4>3 DEF Stop
    <3>3. QED
      BY <3>1, <3>2
  <2>4. QED
    BY <2>1, <2>2, <2>3 DEF Represents
<1>9. /\ r \in [List -> NodeSeqs] /\ r[to] = s /\ r[from] = b
      /\ \A m \in List \ {to, from} : r[m] = q[m]
  BY <1>2, <1>4
<1>10. /\ u \in [List -> NodeSeqs] /\ u[to] = << >>
       /\ \A m \in List \ {to} : u[m] = t[m]
  BY <1>2, EmptyNodeSeq
<1> HIDE DEF r, u
<1>11. ASSUME NEW m \in List \ {to, from}
       PROVE  /\ g.next[m] = h.next[m] /\ g.last[m] = h.last[m]
              /\ \A k \in Range(q[m]) : g.next[k] = h.next[k]
              /\ \A k \in Range(t[m]) : h.next[k] \in Node => g.next[k] = h.next[k]
  <2>1. Range(q[m]) \subseteq Node /\ Range(t[m]) \subseteq Node
    BY <1>2, NodeSeqFacts
  <2>2. z \notin Range(q[m]) /\ z \notin Range(t[m])
    BY <1>2, <1>3, <1>4
  <2>3. m \in Addr \ {from, z}
    BY <1>1, <1>3
  <2>4. QED
    BY <2>1, <2>2, <2>3, <1>1, <1>7
<1>12. \A m \in {to, from} : IF u[m] = << >> THEN Represents(g, m, r[m])
                                             ELSE r[m] = << >> /\ Kept(g, m, u[m])
  BY <1>6, <1>8, <1>9, <1>10
<1>13. ASSUME NEW m \in {to, from}, NEW k \in List, m # k
       PROVE  Range(r[m]) \cap Range(r[k]) = {} /\ Range(u[m]) \cap Range(u[k]) = {}
  <2>1. Range(r[m]) \cap Range(r[k]) = {}
    <3>1. Range(q[from]) \cap Range(q[k]) = {} \/ k = from
      BY <1>2
    <3>2. Range(s) \cap Range(q[k]) = {} \/ k = from
      BY <1>4
    <3>3. QED
      BY <3>1, <3>2, <1>4, <1>9, <1>13
  <2>2. Range(u[m]) \cap Range(u[k]) = {}
    <3>1. Range(u[to]) = {}
      BY <1>10, EmptyNodeSeq
    <3>2. QED
      BY <3>1, <1>2, <1>10, <1>13
  <2>3. QED
    BY <2>1, <2>2
<1>14. ChangesOnly({to, from}, h, q, t, g, r, u)
  BY <1>5, <1>9, <1>10, <1>11, <1>12, <1>13 DEF ChangesOnly
<1>15. QED
  BY <1>14, ShapeByChange DEF g, r, u

(***************************************************************************)
(* A list that holds one borrowed node holds the last of the loan.         *)
(***************************************************************************)
LEMMA LoanEndsThere ==
    ASSUME NEW h, NEW q, NEW t, Shape(h, q, t),
           NEW l \in List, NEW m \in List, t[m] # << >>,
           NEW n \in Range(q[l]), n \in Range(t[m])
    PROVE  t[m][Len(t[m])] \in Range(q[l])
<1> DEFINE s == t[m]
<1>1. s \in NodeSeqs /\ q[l] \in NodeSeqs /\ Kept(h, m, s)
  BY DEF Shape
<1> HIDE DEF s
<1>2. PICK a \in 1 .. Len(q[l]), j \in 1 .. Len(s) : q[l][a] = s[j]
  <2>1. n \in Range(q[l]) /\ n \in Range(s)
    BY DEF s
  <2>2. QED
    BY <2>1, <1>1, NodeSeqFacts
<1>3. t[l] = << >>
  <2>1. Range(q[l]) # {}
    BY DEF s
  <2>2. q[l] # << >>
    BY <2>1, EmptyNodeSeq
  <2>3. QED
    BY <2>2 DEF Shape
<1>4. Represents(h, l, q[l])
  BY <1>3 DEF Shape
<1>5. Len(s) \in Nat /\ Len(s) - j \in 0 .. Len(s) - j /\ j + (Len(s) - j) = Len(s)
  BY <1>1, NodeSeqFacts
<1>6. a + (Len(s) - j) \in 1 .. Len(q[l]) /\ q[l][a + (Len(s) - j)] = s[j + (Len(s) - j)]
  BY ZenonT(60), <1>1, <1>2, <1>4, <1>5, LoanGoesOn
<1>7. QED
  BY <1>1, <1>5, <1>6, NodeSeqFacts DEF s

LEMMA GiveBackHeadLeaves ==
    ASSUME NEW h, NEW q, NEW t, Shape(h, q, t),
           NEW to \in List, NEW from \in List, to # from,
           t[to] # << >>, t[from] = << >>, h.next[from] \in Range(t[to])
    PROVE  Leaves(h, q, t, to, from, NL!After(t[to], q[from]))
<1> DEFINE s == t[to]
           p == q[from]
<1>1. /\ s \in NodeSeqs /\ p \in NodeSeqs
      /\ Kept(h, to, s) /\ Represents(h, from, p)
      /\ \A l, m \in List : l # m => Range(q[l]) \cap Range(q[m]) = {}
      /\ s # << >> /\ h.next[from] \in Range(s)
  BY DEF Shape
<1>2. /\ Len(s) \in Nat \ {0} /\ Len(p) \in Nat
      /\ Range(s) \subseteq Node /\ Range(p) \subseteq Node
      /\ \A i \in 1 .. Len(s) : s[i] \in Range(s)
      /\ \A i \in 1 .. Len(p) : p[i] \in Range(p)
      /\ \A i, j \in 1 .. Len(p) : p[i] = p[j] => i = j
      /\ \A n \in Range(s) : \E i \in 1 .. Len(s) : n = s[i]
      /\ \A n \in Range(p) : \E i \in 1 .. Len(p) : n = p[i]
  BY SMTT(60), <1>1, NodeSeqFacts
<1>3. h.next[from] = p[1] /\ 1 \in 1 .. Len(p) /\ from \notin Node /\ from \in Addr /\ Node \subseteq Addr
  <2>1. h.next[from] # from
    BY <1>1, <1>2, SListAssumption
  <2>2. p # << >>
    BY <2>1, <1>1, RepresentsEnds
  <2>3. Len(p) # 0
    BY <2>2, <1>1, NodeSeqFacts
  <2>4. QED
    BY SMTT(60), <2>2, <2>3, <1>1, <1>2, RepresentsEnds, SListAssumption DEF Addr
<1>4. PICK j \in 1 .. Len(s) : p[1] = s[j]
  BY <1>1, <1>2, <1>3
<1> DEFINE c == Len(s) - j + 1
<1> HIDE DEF s, p
<1>5. \A k \in 0 .. Len(s) - j : 1 + k \in 1 .. Len(p) /\ p[1 + k] = s[j + k]
  <2>1. /\ s \in NodeSeqs /\ p \in NodeSeqs
        /\ Kept(h, to, s) /\ Represents(h, from, p)
        /\ 1 \in 1 .. Len(p) /\ p[1] = s[j]
    BY <1>1, <1>3, <1>4
  <2>2. QED
    BY ONLY ZenonT(60), <2>1, LoanGoesOn
<1>6. c \in 1 .. Len(p) /\ p[c] = s[Len(s)] /\ c \in 0 .. Len(p)
  <2>1. Len(s) - j \in 0 .. Len(s) - j /\ 1 + (Len(s) - j) = c /\ j + (Len(s) - j) = Len(s)
    BY <1>2
  <2>2. c \in 1 .. Len(p) /\ p[c] = s[Len(s)]
    BY <2>1, <1>5
  <2>3. QED
    BY <2>2, <1>2
<1> DEFINE b == Dropped(p, c)
<1>7. NL!After(s, p) = b
  BY <1>1, <1>6, AfterDropped
<1>8. /\ b \in NodeSeqs /\ Range(b) \subseteq Range(p)
      /\ \A i \in 1 .. c : p[i] \notin Range(b)
  BY <1>1, <1>6, DroppedSeq
<1>9. Range(b) \cap Range(s) = {}
  <2> SUFFICES ASSUME NEW i \in 1 .. Len(s), s[i] \in Range(b)
               PROVE  FALSE
    BY <1>2
  <2>1. CASE i >= j
    <3>1. i - j \in 0 .. Len(s) - j /\ 1 + (i - j) \in 1 .. c /\ j + (i - j) = i
      BY <2>1, <1>2
    <3>2. p[1 + (i - j)] = s[i]
      BY <3>1, <1>5
    <3>3. QED
      BY <3>1, <3>2, <1>8
  <2>2. CASE i < j
    <3>1. PICK a \in 1 .. Len(p) : p[a] = s[i]
      BY <1>2, <1>8
    <3>2. j - i \in 0 .. Len(s) - i /\ i + (j - i) = j
      BY <2>2, <1>2
    <3>3. a + (j - i) \in 1 .. Len(p) /\ p[a + (j - i)] = s[i + (j - i)]
      <4>1. /\ s \in NodeSeqs /\ p \in NodeSeqs
            /\ Kept(h, to, s) /\ Represents(h, from, p)
        BY <1>1
      <4>2. \A k \in 0 .. Len(s) - i : a + k \in 1 .. Len(p) /\ p[a + k] = s[i + k]
        BY ONLY ZenonT(60), <3>1, <4>1, LoanGoesOn
      <4>3. QED
        BY <3>2, <4>2
    <3>4. a + (j - i) = 1
      <4>1. p[a + (j - i)] = p[1]
        BY <3>2, <3>3, <1>4
      <4>2. QED
        BY <4>1, <3>3, <1>2, <1>3
    <3>5. QED
      BY <3>4, <2>2, <1>2
  <2>3. QED
    BY <2>1, <2>2, <1>2
<1>10. ASSUME NEW m \in List \ {from}
       PROVE  Range(q[m]) \cap Range(s) = {}
  <2> SUFFICES ASSUME Range(q[m]) \cap Range(s) # {} PROVE FALSE
    OBVIOUS
  <2>1. PICK a \in 1 .. Len(q[m]) : q[m][a] = s[Len(s)]
    <3>1. PICK n \in Range(q[m]) : n \in Range(t[to])
      BY DEF s
    <3>2. m \in List /\ to \in List /\ t[to] # << >> /\ Shape(h, q, t)
      OBVIOUS
    <3>3. t[to][Len(t[to])] \in Range(q[m])
      BY <3>1, <3>2, LoanEndsThere
    <3>4. q[m] \in NodeSeqs
      BY DEF Shape
    <3>5. QED
      BY SMTT(60), <3>3, <3>4, NodeSeqFacts DEF s
  <2>2. q[m] \in NodeSeqs
    BY DEF Shape
  <2>3. q[m][a] \in Range(q[m])
    BY <2>2, NodeSeqFacts
  <2>4. p[c] \in Range(p)
    BY <1>2, <1>6
  <2>5. Range(q[m]) \cap Range(p) = {}
    BY <1>1 DEF p
  <2>6. QED
    BY <2>1, <2>3, <2>4, <2>5, <1>6
<1>11. h.next[s[Len(s)]] = Stop(from, p, c + 1)
  BY <1>1, <1>6 DEF Represents
<1>12. /\ Stop(from, p, c + 1) \in Addr
       /\ Stop(from, p, c + 1) = from <=> c = Len(p)
  <2>1. c + 1 \in 1 .. Len(p) <=> c # Len(p)
    BY <1>2, <1>6
  <2>2. QED
    BY <2>1, <1>2, <1>3 DEF Stop
<1>13. ASSUME NEW g \in Heap,
              g.next[from] = h.next[s[Len(s)]],
              g.last[from] = IF h.next[s[Len(s)]] = from THEN from ELSE h.last[from],
              \A n \in Range(b) : g.next[n] = h.next[n]
       PROVE  Represents(g, from, b)
  <2>1. /\ g.next[from] = Stop(from, p, c + 1)
        /\ g.last[from] = IF c = Len(p) THEN from ELSE h.last[from]
    BY <1>11, <1>12, <1>13
  <2>2. QED
    BY ZenonT(60), <2>1, <1>1, <1>6, <1>13, DroppedRepresents
<1> HIDE DEF b, c
<1>14. Leaves(h, q, t, to, from, b)
  BY <1>8, <1>9, <1>10, <1>11, <1>12, <1>13 DEF Leaves, s, p
<1>15. QED
  BY <1>7, <1>14 DEF s, p

LEMMA GiveBackEmptiedLeaves ==
    ASSUME NEW h, NEW q, NEW t, Shape(h, q, t),
           NEW to \in List, NEW from \in List, to # from,
           t[to] # << >>, t[from] = << >>, q[from] = << >>, h.next[h.last[to]] = from
    PROVE  Leaves(h, q, t, to, from, << >>)
<1> DEFINE s == t[to]
<1>1. /\ s \in NodeSeqs /\ Kept(h, to, s)
      /\ h.next[s[Len(s)]] = from
  BY DEF Shape, Kept
<1>2. from \in Addr /\ from \notin Node
  BY SListAssumption DEF Addr
<1> HIDE DEF s
<1>3. ASSUME NEW m \in List \ {from}
      PROVE  Range(q[m]) \cap Range(s) = {}
  <2> SUFFICES ASSUME Range(q[m]) \cap Range(s) # {} PROVE FALSE
    OBVIOUS
  <2>1. PICK a \in 1 .. Len(q[m]) : q[m][a] = s[Len(s)]
    <3>1. PICK n \in Range(q[m]) : n \in Range(t[to])
      BY DEF s
    <3>2. m \in List /\ to \in List /\ t[to] # << >> /\ Shape(h, q, t)
      OBVIOUS
    <3>3. t[to][Len(t[to])] \in Range(q[m])
      BY <3>1, <3>2, LoanEndsThere
    <3>4. q[m] \in NodeSeqs
      BY DEF Shape
    <3>5. QED
      BY <3>3, <3>4, NodeSeqFacts DEF s
  <2>2. q[m] \in NodeSeqs /\ q[m] # << >>
    BY EmptyNodeSeq DEF Shape
  <2>3. Represents(h, m, q[m])
    BY <2>2 DEF Shape
  <2>4. h.next[q[m][a]] = Stop(m, q[m], a + 1)
    BY <2>3 DEF Represents
  <2>5. Stop(m, q[m], a + 1) # from
    BY <2>2, <1>2, NodeSeqFacts DEF Stop
  <2>6. QED
    BY <2>1, <2>4, <2>5, <1>1
<1>4. ASSUME NEW g \in Heap, g.next[from] = from, g.last[from] = from
      PROVE  Represents(g, from, << >>)
  BY <1>4, EmptySeq DEF Represents, Stop
<1>5. QED
  BY <1>1, <1>2, <1>3, <1>4, EmptyNodeSeq DEF Leaves, s

-----------------------------------------------------------------------------
(* The client: the calls of SListClient are those of NodeLists.            *)

LEMMA ItemsOfShape ==
    ASSUME NEW h, NEW q, NEW t, Shape(h, q, t)
    PROVE  [l \in List |-> IF t[l] # << >> THEN << >> ELSE Items(h, l)] = q
<1>1. q \in [List -> NodeSeqs]
  BY DEF Shape
<1>2. ASSUME NEW l \in List
      PROVE  (IF t[l] # << >> THEN << >> ELSE Items(h, l)) = q[l]
  <2>1. CASE t[l] # << >>
    BY <2>1 DEF Shape
  <2>2. CASE t[l] = << >>
    <3>1. q[l] \in NodeSeqs /\ Represents(h, l, q[l])
      BY <2>2 DEF Shape
    <3>2. Items(h, l) \in NodeSeqs /\ Represents(h, l, Items(h, l))
      BY <3>1 DEF Items
    <3>3. QED
      BY <2>2, <3>1, <3>2, RepresentsUnique
  <2>3. QED
    BY <2>1, <2>2
<1>3. QED
  BY <1>1, <1>2

LEMMA Reached ==
    ASSUME NEW q, Shape(heap', q, lent')
    PROVE  IInv' /\ Seqs' = q
<1>1. [l \in List |-> IF lent'[l] # << >> THEN << >> ELSE Items(heap', l)] = q
  BY ItemsOfShape
<1>2. Seqs' = q
  BY <1>1 DEF Seqs, Walk, Lending
<1>3. QED
  BY <1>2 DEF IInv

LEMMA WalkFacts ==
    ASSUME IInv, NEW l \in List
    PROVE  /\ Walk(l) = Seqs[l]
           /\ lent[l] = << >> => /\ slist_is_empty(heap, l) <=> Seqs[l] = << >>
                                 /\ Seqs[l] # << >> => heap.next[l] = Head(Seqs[l])
<1>1. Walk(l) = Seqs[l]
  BY DEF Seqs
<1>2. ASSUME lent[l] = << >>
      PROVE  /\ slist_is_empty(heap, l) <=> Seqs[l] = << >>
             /\ Seqs[l] # << >> => heap.next[l] = Head(Seqs[l])
  <2>1. Seqs[l] \in NodeSeqs /\ Represents(heap, l, Seqs[l])
    BY <1>2 DEF IInv, Shape
  <2>2. /\ heap.next[l] = l <=> Seqs[l] = << >>
        /\ Seqs[l] # << >> => heap.next[l] = Seqs[l][1]
    BY <2>1, RepresentsEnds
  <2>3. Seqs[l] # << >> => Head(Seqs[l]) = Seqs[l][1]
    BY <2>1, NodeSeqFacts
  <2>4. QED
    BY <2>2, <2>3 DEF slist_is_empty
<1>3. QED
  BY <1>1, <1>2

LEMMA InsertStep ==
    ASSUME IInv, NEW l \in List, NEW n \in NL!Free
    PROVE  /\ InsertHead(l, n) => IInv' /\ NL!InsertHead(l, n)
           /\ InsertTail(l, n) => IInv' /\ NL!InsertTail(l, n)
<1>1. n \in Node /\ \A m \in List : n \notin Range(Seqs[m]) /\ n \notin Range(lent[m])
  BY DEF NL!Free, Seqs, NL!Range, Range
<1>2. Shape(heap, Seqs, lent)
  BY DEF IInv
<1>3. ASSUME InsertHead(l, n)
      PROVE  IInv' /\ NL!InsertHead(l, n)
  <2>1. lent[l] = << >> /\ heap' = slist_insert_head(heap, l, n) /\ lent' = lent
    BY <1>3 DEF InsertHead, Lending
  <2>2. Shape(heap', [Seqs EXCEPT ![l] = <<n>> \o @], lent')
    BY <1>1, <1>2, <2>1, InsertHeadShape
  <2>3. IInv' /\ Seqs' = [Seqs EXCEPT ![l] = <<n>> \o @]
    BY <2>2, Reached
  <2>4. QED
    BY <2>1, <2>3 DEF NL!InsertHead, Seqs
<1>4. ASSUME InsertTail(l, n)
      PROVE  IInv' /\ NL!InsertTail(l, n)
  <2>1. lent[l] = << >> /\ heap' = slist_insert_tail(heap, l, n) /\ lent' = lent
    BY <1>4 DEF InsertTail, Lending
  <2>2. Shape(heap', [Seqs EXCEPT ![l] = Append(@, n)], lent')
    BY <1>1, <1>2, <2>1, InsertTailShape
  <2>3. IInv' /\ Seqs' = [Seqs EXCEPT ![l] = Append(@, n)]
    BY <2>2, Reached
  <2>4. QED
    BY <2>1, <2>3 DEF NL!InsertTail, Seqs
<1>5. QED
  BY <1>3, <1>4

LEMMA PopHeadStep ==
    ASSUME IInv, NEW l \in List, PopHead(l)
    PROVE  /\ IInv' /\ NL!PopHead(l)
           /\ lent[l] = << >> /\ Seqs[l] # << >>
<1>1. /\ lent[l] = << >> /\ ~ slist_is_empty(heap, l)
      /\ heap' = slist_pop_head_node(heap, l) /\ lent' = lent
  BY DEF PopHead, Lending
<1>2. Seqs[l] # << >>
  BY <1>1, WalkFacts
<1>3. Shape(heap', [Seqs EXCEPT ![l] = Tail(@)], lent')
  BY <1>1, <1>2, PopHeadShape DEF IInv
<1>4. IInv' /\ Seqs' = [Seqs EXCEPT ![l] = Tail(@)]
  BY <1>3, Reached
<1>5. QED
  BY <1>1, <1>2, <1>4 DEF NL!PopHead, Seqs

LEMMA BorrowToTailStep ==
    ASSUME IInv, NEW to \in List, NEW from \in List, to # from, BorrowToTail(to, from)
    PROVE  /\ IInv' /\ NL!BorrowToTail(to, from)
           /\ lent[to] = << >> /\ lent[from] = << >> /\ Seqs[from] # << >>
<1>1. /\ lent[to] = << >> /\ lent[from] = << >> /\ ~ slist_is_empty(heap, from)
      /\ ~ NL!Borrowing(from)
      /\ heap' = slist_borrow_to_tail(heap, to, from)
      /\ lent' = [lent EXCEPT ![from] = Seqs[from]]
  BY WalkFacts DEF BorrowToTail, Lending
<1>2. Seqs[from] # << >>
  BY <1>1, WalkFacts
<1>3. \A m \in List : Range(Seqs[from]) \cap Range(lent[m]) = {}
  BY <1>1 DEF NL!Borrowing, Seqs, NL!Range, Range
<1>4. Shape(heap', [Seqs EXCEPT ![to] = @ \o Seqs[from], ![from] = << >>], lent')
  BY <1>1, <1>2, <1>3, BorrowToTailShape DEF IInv
<1>5. IInv' /\ Seqs' = [Seqs EXCEPT ![to] = @ \o Seqs[from], ![from] = << >>]
  BY <1>4, Reached
<1>6. QED
  BY <1>1, <1>2, <1>5 DEF NL!BorrowToTail, Seqs

LEMMA GiveBackStep ==
    ASSUME IInv, NEW to \in List, NEW from \in List, to # from,
           GiveBackHead(to, from) \/ GiveBackEmptied(to, from)
    PROVE  /\ IInv' /\ NL!GiveBackHead(to, from)
           /\ lent[to] # << >> /\ lent[from] = << >>
           /\ Seqs[from] = << >> \/ Head(Seqs[from]) \in Range(lent[to])
<1>1. /\ lent[to] # << >> /\ lent[from] = << >>
      /\ heap' = slist_give_back_head(heap, to, from)
      /\ lent' = [lent EXCEPT ![to] = << >>]
  BY DEF GiveBackHead, GiveBackEmptied, Lending
<1>2. Shape(heap, Seqs, lent)
  BY DEF IInv
<1>3. /\ Leaves(heap, Seqs, lent, to, from, NL!After(lent[to], Seqs[from]))
      /\ Seqs[from] = << >> \/ Head(Seqs[from]) \in Range(lent[to])
  <2>1. CASE GiveBackHead(to, from)
    <3>1. heap.next[from] \in Range(lent[to])
      BY <2>1 DEF GiveBackHead, slist_peek_head_node
    <3>2. Leaves(heap, Seqs, lent, to, from, NL!After(lent[to], Seqs[from]))
      BY <1>1, <1>2, <3>1, GiveBackHeadLeaves
    <3>3. QED
      BY <1>1, <3>1, <3>2, WalkFacts
  <2>2. CASE GiveBackEmptied(to, from)
    <3>1. Seqs[from] = << >> /\ heap.next[heap.last[to]] = from
      BY <1>1, <2>2, WalkFacts DEF GiveBackEmptied
    <3>2. Leaves(heap, Seqs, lent, to, from, << >>)
      BY <1>1, <1>2, <3>1, GiveBackEmptiedLeaves
    <3>3. QED
      BY <3>1, <3>2, AfterEmpty
  <2>3. QED
    BY <2>1, <2>2
<1>4. Shape(heap', [Seqs EXCEPT ![to] = lent[to], ![from] = NL!After(lent[to], Seqs[from])], lent')
  BY <1>1, <1>2, <1>3, GiveBackShape
<1>5. IInv' /\ Seqs' = [Seqs EXCEPT ![to] = lent[to], ![from] = NL!After(lent[to], Seqs[from])]
  BY <1>4, Reached
<1>6. [Seqs EXCEPT ![to] = lent[to], ![from] = NL!After(lent[to], Seqs[from])]
      = [Seqs EXCEPT ![to] = lent[to], ![from] = NL!After(lent[to], @)]
  BY DEF Seqs
<1>7. QED
  BY <1>1, <1>3, <1>5, <1>6 DEF NL!GiveBackHead, Seqs

LEMMA MoveStep ==
    ASSUME IInv, NEW to \in List, NEW from \in List, to # from,
           MoveToTail(to, from) \/ MoveToHead(to, from)
    PROVE  /\ IInv'
           /\ MoveToTail(to, from) => NL!MoveToTail(to, from)
           /\ MoveToHead(to, from) => NL!MoveToHead(to, from)
           /\ lent[to] = << >> /\ lent[from] = << >> /\ Seqs[from] # << >>
<1>1. /\ lent[to] = << >> /\ lent[from] = << >> /\ ~ slist_is_empty(heap, from)
      /\ lent' = lent
  BY DEF MoveToTail, MoveToHead, Lending
<1>2. Seqs[from] # << >> /\ Shape(heap, Seqs, lent)
  BY <1>1, WalkFacts DEF IInv
<1>3. ASSUME MoveToTail(to, from)
      PROVE  IInv' /\ NL!MoveToTail(to, from)
  <2>1. heap' = slist_move_to_tail(heap, to, from)
    BY <1>3 DEF MoveToTail
  <2>2. Shape(heap', [Seqs EXCEPT ![to] = @ \o Seqs[from], ![from] = << >>], lent')
    BY <1>1, <1>2, <2>1, MoveToTailShape
  <2>3. IInv' /\ Seqs' = [Seqs EXCEPT ![to] = @ \o Seqs[from], ![from] = << >>]
    BY <2>2, Reached
  <2>4. QED
    BY <1>1, <2>3 DEF NL!MoveToTail, Seqs
<1>4. ASSUME MoveToHead(to, from)
      PROVE  IInv' /\ NL!MoveToHead(to, from)
  <2>1. heap' = slist_move_to_head(heap, to, from)
    BY <1>4 DEF MoveToHead
  <2>2. Shape(heap', [Seqs EXCEPT ![to] = Seqs[from] \o @, ![from] = << >>], lent')
    BY <1>1, <1>2, <2>1, MoveToHeadShape
  <2>3. IInv' /\ Seqs' = [Seqs EXCEPT ![to] = Seqs[from] \o @, ![from] = << >>]
    BY <2>2, Reached
  <2>4. QED
    BY <1>1, <2>3 DEF NL!MoveToHead, Seqs
<1>5. QED
  BY <1>1, <1>2, <1>3, <1>4

LEMMA InitShape == Init => IInv /\ NL!Init
<1> SUFFICES ASSUME Init PROVE IInv /\ NL!Init
  OBVIOUS
<1> DEFINE h == [next |-> [a \in Addr |-> IF a \in List THEN a ELSE NULL], last |-> [l \in List |-> l]]
           q == [l \in List |-> << >>]
<1>1. heap = h /\ lent = q
  BY DEF Init
<1>2. h \in Heap
  BY DEF Heap, Addr
<1>3. ASSUME NEW l \in List
      PROVE  Represents(h, l, << >>)
  <2>1. h.next[l] = l /\ h.last[l] = l
    BY DEF Addr
  <2>2. QED
    BY <2>1, EmptySeq DEF Represents, Stop
<1> HIDE DEF h
<1>4. Shape(h, q, q)
  BY <1>2, <1>3, EmptyNodeSeq DEF Shape
<1>5. Seqs = q
  BY <1>1, <1>4, ItemsOfShape DEF Seqs, Walk, Lending
<1>6. IInv
  BY <1>1, <1>4, <1>5 DEF IInv
<1>7. NL!Init
  BY <1>1, <1>5 DEF NL!Init, Seqs
<1>8. QED
  BY <1>6, <1>7

LEMMA NextShape ==
    ASSUME IInv, Next
    PROVE  IInv' /\ NL!Next
<1>1. ASSUME NEW l \in List, NEW n \in NL!Free, InsertHead(l, n) \/ InsertTail(l, n)
      PROVE  IInv' /\ NL!Next
  <2>1. lent[l] = << >>
    BY <1>1 DEF InsertHead, InsertTail, Lending
  <2>2. IInv' /\ (NL!InsertHead(l, n) \/ NL!InsertTail(l, n))
    BY <1>1, InsertStep
  <2>3. QED
    BY <2>1, <2>2 DEF NL!Next, NL!Lending
<1>2. ASSUME NEW l \in List, PopHead(l)
      PROVE  IInv' /\ NL!Next
  <2>1. IInv' /\ NL!PopHead(l) /\ lent[l] = << >> /\ Seqs[l] # << >>
    BY <1>2, PopHeadStep
  <2>2. QED
    BY <2>1 DEF NL!Next, NL!Lending, Seqs
<1>3. ASSUME NEW to \in List, NEW from \in List, to # from, BorrowToTail(to, from)
      PROVE  IInv' /\ NL!Next
  <2>1. /\ IInv' /\ NL!BorrowToTail(to, from)
        /\ lent[to] = << >> /\ lent[from] = << >> /\ Seqs[from] # << >>
    BY <1>3, BorrowToTailStep
  <2>2. ~ NL!Borrowing(from)
    BY <1>3 DEF BorrowToTail
  <2>3. QED
    BY <1>3, <2>1, <2>2 DEF NL!Next, NL!Lending, Seqs
<1>4. ASSUME NEW to \in List, NEW from \in List, to # from,
             GiveBackHead(to, from) \/ GiveBackEmptied(to, from)
      PROVE  IInv' /\ NL!Next
  <2>1. /\ IInv' /\ NL!GiveBackHead(to, from)
        /\ lent[to] # << >> /\ lent[from] = << >>
        /\ Seqs[from] = << >> \/ Head(Seqs[from]) \in Range(lent[to])
    BY <1>4, GiveBackStep
  <2>2. Seqs[from] = << >> \/ Head(Seqs[from]) \in NL!Range(lent[to])
    BY <2>1 DEF NL!Range, Range
  <2>3. QED
    BY <1>4, <2>1, <2>2 DEF NL!Next, NL!Lending, Seqs
<1>5. ASSUME NEW to \in List, NEW from \in List, to # from,
             MoveToTail(to, from) \/ MoveToHead(to, from)
      PROVE  IInv' /\ NL!Next
  <2>1. /\ IInv' /\ (NL!MoveToTail(to, from) \/ NL!MoveToHead(to, from))
        /\ lent[to] = << >> /\ lent[from] = << >> /\ Seqs[from] # << >>
    BY <1>5, MoveStep
  <2>2. QED
    BY <1>5, <2>1 DEF NL!Next, NL!Lending, Seqs
<1>6. QED
  BY <1>1, <1>2, <1>3, <1>4, <1>5 DEF Next

LEMMA CallsOfSequences ==
    ASSUME IInv
    PROVE  CallByCall
<1>1. ASSUME NEW l \in List, NEW n \in NL!Free
      PROVE  /\ InsertHead(l, n) => NL!InsertHead(l, n)
             /\ InsertTail(l, n) => NL!InsertTail(l, n)
  BY InsertStep
<1>2. ASSUME NEW l \in List, NEW m \in List \ {l}
      PROVE  /\ BorrowToTail(l, m) => NL!BorrowToTail(l, m)
             /\ GiveBackHead(l, m) \/ GiveBackEmptied(l, m) => NL!GiveBackHead(l, m)
             /\ MoveToTail(l, m) => NL!MoveToTail(l, m)
             /\ MoveToHead(l, m) => NL!MoveToHead(l, m)
  <2>1. m \in List /\ l # m
    OBVIOUS
  <2>2. QED
    BY <2>1, BorrowToTailStep, GiveBackStep, MoveStep
<1>3. \A l \in List : PopHead(l) => NL!PopHead(l)
  BY PopHeadStep
<1>4. QED
  BY <1>1, <1>2, <1>3 DEF CallByCall

(***************************************************************************)
(* In every reachable state each list is exactly a chain of nodes, or has  *)
(* lent them: then both its ends, and every link between borrowed nodes,   *)
(* are as they were, popped by the borrower or not.                        *)
(***************************************************************************)
THEOREM ListsKeepTheirShape == Spec => []IInv
<1>1. IInv /\ [Next]_vars => IInv'
  <2> SUFFICES ASSUME IInv, [Next]_vars PROVE IInv'
    OBVIOUS
  <2>1. CASE Next
    BY <2>1, NextShape
  <2>2. CASE UNCHANGED vars
    BY <2>2 DEF vars, IInv, Seqs, Walk, Lending
  <2>3. QED
    BY <2>1, <2>2
<1>2. QED
  BY InitShape, <1>1, PTL DEF Spec

(***************************************************************************)
(* The lists of slist.h implement sequences, call by call: no call loses,  *)
(* repeats or reorders a node, borrowed nodes come back in their order,    *)
(* and the nodes queued behind them stay with the borrower.                *)
(***************************************************************************)
THEOREM CallsAreThoseOfSequences == Spec => ImplementsNodeLists
<1>1. IInv /\ [Next]_vars => [NL!Next]_(NL!vars)
  <2> SUFFICES ASSUME IInv, [Next]_vars PROVE [NL!Next]_(NL!vars)
    OBVIOUS
  <2>1. CASE Next
    BY <2>1, NextShape
  <2>2. CASE UNCHANGED vars
    BY <2>2 DEF vars, NL!vars, Walk, Lending
  <2>3. QED
    BY <2>1, <2>2
<1>2. IInv => CallByCall
  BY CallsOfSequences
<1>3. QED
  BY InitShape, ListsKeepTheirShape, <1>1, <1>2, PTL DEF Spec, ImplementsNodeLists, NL!Spec
=============================================================================

------------------------------- MODULE SList -------------------------------
(***************************************************************************)
(* The singly linked list of include/slist.h, pointer by pointer.          *)
(*                                                                         *)
(* A heap h is a record of two functions: h.next is the `next` field of    *)
(* every node and of every list's sentinel `first`, h.last the `last`      *)
(* field of every list.  A list l stands for the address of its own        *)
(* sentinel, so h.next[l] is l->first.next and an empty list has           *)
(* h.next[l] = l and h.last[l] = l.  Every operator returns the heap the   *)
(* C function leaves behind.                                               *)
(***************************************************************************)
EXTENDS Naturals, Sequences, FiniteSets, SequencesExt

CONSTANTS
    Node,   \* addresses of struct slist_node
    List,   \* lists; l is also the address of l->first
    NULL

ASSUME SListAssumption ==
    /\ IsFiniteSet(Node)
    /\ Node \cap List = {}
    /\ NULL \notin Node \cup List

Addr == Node \cup List

Heap == [next : [Addr -> Addr \cup {NULL}], last : [List -> Addr]]

-----------------------------------------------------------------------------
(* The functions of slist.h.                                               *)

slist_init(h, l) ==
    [next |-> [h.next EXCEPT ![l] = l], last |-> [h.last EXCEPT ![l] = l]]

slist_is_empty(h, l) == h.next[l] = l

slist_node_is_last(h, l, n) == n = h.last[l]

slist_peek_head_node(h, l) == h.next[l]

slist_insert_head(h, l, n) ==
    [next |-> [h.next EXCEPT ![n] = h.next[l], ![l] = n],
     last |-> IF h.last[l] = l THEN [h.last EXCEPT ![l] = n] ELSE h.last]

slist_insert_tail(h, l, n) ==
    [next |-> [h.next EXCEPT ![n] = l, ![h.last[l]] = n],
     last |-> [h.last EXCEPT ![l] = n]]

\* Appends from's chain to `to`; `from` still points at its first and last node.
slist_borrow_to_tail(h, to, from) ==
    [next |-> [h.next EXCEPT ![h.last[from]] = to,
                             ![h.last[to]]   = h.next[from]],
     last |-> [h.last EXCEPT ![to] = h.last[from]]]

\* `to` gets its nodes back; `from` keeps whatever followed them.
slist_give_back_head(h, to, from) ==
    LET rest == h.next[h.last[to]]
    IN  [next |-> [h.next EXCEPT ![from] = rest, ![h.last[to]] = to],
         last |-> IF rest = from THEN [h.last EXCEPT ![from] = from] ELSE h.last]

slist_move_to_tail(h, to, from) ==
    slist_init(slist_borrow_to_tail(h, to, from), from)

slist_move_to_head(h, to, from) ==
    slist_init([next |-> [h.next EXCEPT ![h.last[from]] = h.next[to],
                                        ![to] = h.next[from]],
                last |-> IF h.last[to] = to
                         THEN [h.last EXCEPT ![to] = h.last[from]]
                         ELSE h.last],
               from)

\* Variant: last still points at a popped node.
slist_pop_head_node_KeepsLast(h, l) ==
    [next |-> [h.next EXCEPT ![l] = h.next[h.next[l]]], last |-> h.last]

\* Unlinks the head node, whose own `next` is left as it was.
slist_pop_head_node(h, l) ==
    LET node == h.next[l]
    IN  [next |-> [h.next EXCEPT ![l] = h.next[node]],
         last |-> IF h.last[l] = node THEN [h.last EXCEPT ![l] = l] ELSE h.last]

\* The assignment n.next = a of a list's client.
SetNext(h, n, a) == [next |-> [h.next EXCEPT ![n] = a], last |-> h.last]

-----------------------------------------------------------------------------
(* What a heap represents.                                                 *)

\* Sequences of nodes without repetition.
NodeSeqs == {s \in SeqOf(Node, Cardinality(Node)) : IsInjective(s)}

\* The i-th stop of a walk along s: its i-th node, or the sentinel outside s.
Stop(l, s, i) == IF i \in 1 .. Len(s) THEN s[i] ELSE l

\* List l of h is exactly the chain s, and leads back to its sentinel.
Represents(h, l, s) ==
    /\ h.next[l] = Stop(l, s, 1)
    /\ h.last[l] = Stop(l, s, Len(s))
    /\ \A i \in 1 .. Len(s) : h.next[s[i]] = Stop(l, s, i + 1)

\* The nodes of list l in order.
Items(h, l) == CHOOSE s \in NodeSeqs : Represents(h, l, s)

\* The lists of h hold the sequences q, and share no node.
Holds(h, q) ==
    /\ \A l \in List : q[l] \in NodeSeqs /\ Represents(h, l, q[l])
    /\ \A l, m \in List : l # m => Range(q[l]) \cap Range(q[m]) = {}
=============================================================================

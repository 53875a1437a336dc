---------------------------- MODULE SListClient ----------------------------
(***************************************************************************)
(* Callers of include/slist.h (the buffer lists of the SPI, USB and        *)
(* dataflash drivers, the block request lists): any sequence of calls that *)
(* keeps the documented preconditions, on real pointers.                   *)
(***************************************************************************)
EXTENDS SList

VARIABLES
    heap,   \* the lists
    lent    \* the nodes each list has lent, << >> if it lends none (history)

vars == <<heap, lent>>

Lending(l) == lent[l] # << >>

\* The nodes a caller finds by walking list l, and what it knows of lending lists.
Walk(l) == IF Lending(l) THEN << >> ELSE Items(heap, l)

NL == INSTANCE NodeLists WITH seqs <- [l \in List |-> Walk(l)]

Init ==
    /\ heap = [next |-> [a \in Addr |-> IF a \in List THEN a ELSE NULL],
               last |-> [l \in List |-> l]]
    /\ lent = [l \in List |-> << >>]

InsertHead(l, n) ==
    /\ ~ Lending(l)
    /\ heap' = slist_insert_head(heap, l, n)
    /\ UNCHANGED lent

InsertTail(l, n) ==
    /\ ~ Lending(l)
    /\ heap' = slist_insert_tail(heap, l, n)
    /\ UNCHANGED lent

PopHead(l) ==
    /\ ~ Lending(l) /\ ~ slist_is_empty(heap, l)
    /\ heap' = slist_pop_head_node(heap, l)
    /\ UNCHANGED lent

BorrowToTail(to, from) ==
    /\ ~ Lending(to) /\ ~ Lending(from) /\ ~ slist_is_empty(heap, from)
    /\ ~ NL!Borrowing(from)
    /\ heap' = slist_borrow_to_tail(heap, to, from)
    /\ lent' = [lent EXCEPT ![from] = Walk(from)]

GiveBackHead(to, from) ==
    /\ Lending(to) /\ ~ Lending(from)
    /\ slist_peek_head_node(heap, from) \in Range(lent[to])
    /\ heap' = slist_give_back_head(heap, to, from)
    /\ lent' = [lent EXCEPT ![to] = << >>]

\* at90usb_ep0_tx_complete: the borrower has popped all the nodes, and nothing was
\* queued behind them.
GiveBackEmptied(to, from) ==
    /\ Lending(to) /\ ~ Lending(from) /\ slist_is_empty(heap, from)
    /\ heap.next[heap.last[to]] = from
    /\ heap' = slist_give_back_head(heap, to, from)
    /\ lent' = [lent EXCEPT ![to] = << >>]

MoveToTail(to, from) ==
    /\ ~ Lending(to) /\ ~ Lending(from) /\ ~ slist_is_empty(heap, from)
    /\ heap' = slist_move_to_tail(heap, to, from)
    /\ UNCHANGED lent

MoveToHead(to, from) ==
    /\ ~ Lending(to) /\ ~ Lending(from) /\ ~ slist_is_empty(heap, from)
    /\ heap' = slist_move_to_head(heap, to, from)
    /\ UNCHANGED lent

\* A node popped off a borrower is still its lender's: only a free node is inserted.
Next ==
    \/ \E l \in List, n \in NL!Free : InsertHead(l, n) \/ InsertTail(l, n)
    \/ \E l \in List : PopHead(l)
    \/ \E to, from \in List :
        /\ to # from
        /\ \/ BorrowToTail(to, from)
           \/ GiveBackHead(to, from) \/ GiveBackEmptied(to, from)
           \/ MoveToTail(to, from) \/ MoveToHead(to, from)

Spec == Init /\ [][Next]_vars

-----------------------------------------------------------------------------
(* Properties.                                                             *)

\* Each call is that of sequences: borrowed nodes come back in their order, and nodes
\* behind them stay with the borrower.
CallByCall ==
    \A l \in List :
        /\ \A n \in NL!Free :
            /\ InsertHead(l, n) => NL!InsertHead(l, n)
            /\ InsertTail(l, n) => NL!InsertTail(l, n)
        /\ PopHead(l) => NL!PopHead(l)
        /\ \A m \in List \ {l} :
            /\ BorrowToTail(l, m) => NL!BorrowToTail(l, m)
            /\ GiveBackHead(l, m) \/ GiveBackEmptied(l, m) => NL!GiveBackHead(l, m)
            /\ MoveToTail(l, m) => NL!MoveToTail(l, m)
            /\ MoveToHead(l, m) => NL!MoveToHead(l, m)

ImplementsNodeLists == NL!Spec /\ [][CallByCall]_vars
=============================================================================

----------------------------- MODULE NodeLists -----------------------------
(***************************************************************************)
(* What include/slist.h promises: every list is a sequence of nodes, and a *)
(* list may lend all its nodes to the tail of another and get the whole    *)
(* sequence back.                                                          *)
(***************************************************************************)
EXTENDS Naturals, Sequences, SequencesExt

CONSTANTS Node, List

VARIABLES
    seqs,   \* the nodes of every list that is not lending, in order
    lent    \* the nodes every list has lent, << >> if it lends none

vars == <<seqs, lent>>

Lending(l) == lent[l] # << >>

\* Nodes that are in no list, on loan or not.
Free == Node \ UNION {Range(seqs[l]) \cup Range(lent[l]) : l \in List}

\* List l holds nodes another list has lent it.
Borrowing(l) == \E m \in List : Range(seqs[l]) \cap Range(lent[m]) # {}

\* What follows the last node of s in t, all of t if t does not hold it.
After(s, t) == SubSeq(t, SelectInSeq(t, LAMBDA n : n = Last(s)) + 1, Len(t))

Init ==
    /\ seqs = [l \in List |-> << >>]
    /\ lent = [l \in List |-> << >>]

InsertHead(l, n) ==
    /\ seqs' = [seqs EXCEPT ![l] = <<n>> \o @]
    /\ UNCHANGED lent

InsertTail(l, n) ==
    /\ seqs' = [seqs EXCEPT ![l] = Append(@, n)]
    /\ UNCHANGED lent

PopHead(l) ==
    /\ seqs' = [seqs EXCEPT ![l] = Tail(@)]
    /\ UNCHANGED lent

BorrowToTail(to, from) ==
    /\ seqs' = [seqs EXCEPT ![to] = @ \o seqs[from], ![from] = << >>]
    /\ lent' = [lent EXCEPT ![from] = seqs[from]]

\* `to` is as it was before the loan; `from` loses the borrowed nodes it still had.
GiveBackHead(to, from) ==
    /\ seqs' = [seqs EXCEPT ![to] = lent[to], ![from] = After(lent[to], @)]
    /\ lent' = [lent EXCEPT ![to] = << >>]

MoveToTail(to, from) ==
    /\ seqs' = [seqs EXCEPT ![to] = @ \o seqs[from], ![from] = << >>]
    /\ UNCHANGED lent

MoveToHead(to, from) ==
    /\ seqs' = [seqs EXCEPT ![to] = seqs[from] \o @, ![from] = << >>]
    /\ UNCHANGED lent

\* The preconditions slist.h documents: a lending list is left alone, and borrowed
\* nodes are given back while one of them is at the head of the borrower, or, as
\* the one caller does, when the borrower has used them all up.  Nobody lends on
\* what is borrowed.
Next ==
    \/ \E l \in List :
        /\ ~ Lending(l)
        /\ \/ \E n \in Free : InsertHead(l, n) \/ InsertTail(l, n)
           \/ seqs[l] # << >> /\ PopHead(l)
    \/ \E to, from \in List :
        /\ to # from
        /\ ~ Lending(to) /\ ~ Lending(from)
        /\ seqs[from] # << >>
        /\ \/ ~ Borrowing(from) /\ BorrowToTail(to, from)
           \/ MoveToTail(to, from)
           \/ MoveToHead(to, from)
    \/ \E to, from \in List :
        /\ to # from
        /\ Lending(to) /\ ~ Lending(from)
        /\ seqs[from] = << >> \/ Head(seqs[from]) \in Range(lent[to])
        /\ GiveBackHead(to, from)

Spec == Init /\ [][Next]_vars
=============================================================================

--------------------------- MODULE MCSListClient ---------------------------
(* Lists on a small instance: three nodes, three lists.                    *)
EXTENDS SListClient

CONSTANTS n1, n2, n3, a, b, c

MCNode == {n1, n2, n3}
MCList == {a, b, c}

NodeSymmetry == Permutations(MCNode)
=============================================================================

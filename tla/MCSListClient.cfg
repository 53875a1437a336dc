CONSTANTS
    n1 = n1
    n2 = n2
    n3 = n3
    a = a
    b = b
    c = c
    NULL = NULL
    Node <- MCNode
    List <- MCList
SYMMETRY NodeSymmetry
SPECIFICATION Spec
PROPERTY ImplementsNodeLists

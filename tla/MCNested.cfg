\* A stateless deleter, raii::default_delete, and bodies that make any number of
\* calls: two variables and three nodes, so lists of three.
SPECIFICATION Spec
CONSTANTS
    Var = {v1, v2}
    Node = {n1, n2, n3}
    null = null
    Stateful = FALSE
    OneCall = FALSE
SYMMETRY Symmetric
INVARIANTS TypeOK NoFault NoStaleView Exclusive NoOrphan DestroyStillStores NestingBounded
PROPERTIES OwnershipSpec

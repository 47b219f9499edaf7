\* Three objects that may share a deleter, or refer to that of one of two others.
SPECIFICATION Spec
CONSTANTS
    Ref = {x1, x2, x3}
    Val = {v1, v2}
    Var = {d1, d2}
    Resource = {r1, r2}
    Tag = {t1, t2}
    null = null
    Gutted = Gutted
    Closed = Closed
    Closes <- MCCloses
SYMMETRY Symmetric
INVARIANTS NoFault OwnersCanClose
PROPERTIES OwnershipSpec

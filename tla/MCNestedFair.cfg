\* A stateful deleter and bodies of one call: termination, and what
\* operator= accesses after the deleter returned.
SPECIFICATION FairSpec
CONSTANTS
    Var = {v1}
    Node = {n1, n2, n3}
    null = null
    Stateful = TRUE
    OneCall = TRUE
INVARIANTS NoFault
PROPERTIES Unwinds WorkDecreases

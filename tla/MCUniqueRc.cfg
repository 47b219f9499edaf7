\* Three objects and two resources: chains of moves, swaps with a third party,
\* a handle value that is closed and opened again while another is held.
SPECIFICATION Spec
CONSTANTS
    Rc = {x1, x2, x3}
    Resource = {r1, r2}
    Tag = {t1, t2}
    null = null
    Gutted = Gutted
    Closed = Closed
    rc = rc
    Checked = TRUE
    SelfResets = TRUE
    Handle <- MCHandle
    Compared <- MCCompared
    Kind <- MCKind
    KindOf <- MCKindOf
    ResourceOf <- MCResourceOf
    FailureOf <- MCFailureOf
    InvalidOf <- MCInvalidOf
    OwnedOf <- MCOwnedOf
    TagOf <- MCTagOf
    DefaultTag <- MCDefaultTag
    Traits <- MCTraits
    Constructs <- MCConverts
    Assigns <- MCConverts
    Cast <- MCCast
    Closes <- MCCloses
    CastDel <- MCCastDel
INVARIANTS TypeOK NoFault Exclusive BoolMeansLive RawIsOpen
PROPERTIES AbortClosesNothing OwnershipSpec
\* the assertion ends the program
CHECK_DEADLOCK FALSE

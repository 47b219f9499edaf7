\* The same in a build with the self-reset assertion.
SPECIFICATION GdiSpec
CONSTANTS
    StateGuard = {s1, s2}
    ObjectGuard = {o1, o2}
    Dc = {dc}
    Stock = stock
    Obj = {stock, pen}
    MaxCalls = 3
    null = null
    Gutted = Gutted
    Closed = Closed
    Checked = TRUE
    SelfResets = FALSE
    Rc <- MCRc
    Handle <- GdiHandle
    Resource <- GdiResource
    Compared <- GdiCompared
    Tag <- GdiKind
    Closes <- GdiCloses
    Kind <- GdiKind
    KindOf <- MCKindOf
    ResourceOf <- GdiResourceOf
    FailureOf <- GdiFailureOf
    InvalidOf <- GdiInvalidOf
    OwnedOf <- GdiOwnedOf
    TagOf <- GdiTagOf
    DefaultTag <- GdiDefaultTag
    Traits <- GdiTraits
    Constructs = {}
    Assigns = {}
    Cast <- MCCast
    CastDel <- MCCastDel
SYMMETRY Symmetric
INVARIANT OnlySelfResets

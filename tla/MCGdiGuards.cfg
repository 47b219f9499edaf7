\* Two guards of each sort, up to three calls on one context, and an object that
\* may be deleted.  The build has no self-reset assertion, which would end the program
\* where two handles are equal: MCGdiChecked.
SPECIFICATION GdiSpec
CONSTANTS
    StateGuard = {s1, s2}
    ObjectGuard = {o1, o2}
    Dc = {dc}
    Stock = stock
    Obj = {stock, pen}
    MaxCalls = 3
    null = null
    Gutted = Gutted
    Closed = Closed
    Checked = FALSE
    SelfResets = FALSE
    Rc <- MCRc
    Handle <- GdiHandle
    Resource <- GdiResource
    Compared <- GdiCompared
    Tag <- GdiKind
    Closes <- GdiCloses
    Kind <- GdiKind
    KindOf <- MCKindOf
    ResourceOf <- GdiResourceOf
    FailureOf <- GdiFailureOf
    InvalidOf <- GdiInvalidOf
    OwnedOf <- GdiOwnedOf
    TagOf <- GdiTagOf
    DefaultTag <- GdiDefaultTag
    Traits <- GdiTraits
    Constructs = {}
    Assigns = {}
    Cast <- MCCast
    CastDel <- MCCastDel
SYMMETRY Symmetric
INVARIANTS NoFault NoLeak NoneDangling
PROPERTIES UndoRestores GivenBackAsReceived

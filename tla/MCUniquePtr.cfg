\* Two resources, so that one is disposed of while another takes its place; the
\* five types include every permitted conversion but one, and refused ones.
SPECIFICATION PtrSpec
CONSTANTS
    b = b
    d = d
    x1 = x1
    x2 = x2
    x3 = x3
    x4 = x4
    x5 = x5
    Resource = {r1, r2}
    null = null
    Gutted = Gutted
    Closed = Closed
    Checked = TRUE
    SelfResets = FALSE
    Class <- MCClass
    Derived <- MCDerived
    Virtual <- MCVirtual
    Rc <- MCRc
    Handle <- MCHandle
    Compared <- PtrCompared
    Tag <- PtrTag
    Closes <- PtrCloses
    Kind <- MCKind
    KindOf <- MCKindOf
    ResourceOf <- PtrResourceOf
    FailureOf <- PtrFailureOf
    InvalidOf <- PtrInvalidOf
    OwnedOf <- PtrOwnedOf
    TagOf <- PtrTagOf
    DefaultTag <- PtrDefaultTag
    Traits <- PtrTraits
    Constructs <- PtrConstructs
    Assigns <- PtrAssigns
    Cast <- PtrCast
    CastDel <- PtrCastDel
INVARIANTS NoFault BoolMeansLive OnlySelfResets
PROPERTIES OwnershipSpec

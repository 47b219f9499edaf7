SPECIFICATION Spec
CONSTANTS
    x1 = x1
    x2 = x2
    null = 0
    Width = 2
    Rc = {x1, x2}
    Tag = {t1}
    Gutted = Gutted
    Closed = Closed
    Checked = TRUE
    SelfResets = FALSE
    KindOf <- MCKindOf
    Handle <- MCHandle
    Compared <- MCCompared
    Resource <- MCResource
    Kind <- MCKind
    ResourceOf <- MCResourceOf
    FailureOf <- MCFailureOf
    InvalidOf <- MCInvalidOf
    OwnedOf <- MCOwnedOf
    TagOf <- MCTagOf
    DefaultTag <- MCDefaultTag
    Traits <- MCTraits
    Constructs <- MCConstructs
    Assigns <- MCAssigns
    Cast <- MCCast
    Closes <- MCCloses
    CastDel <- MCCastDel
INVARIANT NoLeak

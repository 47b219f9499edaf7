\* Conversions between kinds, self-move-assignment, and the build without the
\* self-reset assertion, whose client does not self-reset.
SPECIFICATION Spec
CONSTANTS
    x1 = x1
    x2 = x2
    x3 = x3
    t1 = t1
    t2 = t2
    Resource = {r1, r2}
    Tag = {t1, t2}
    null = null
    Gutted = Gutted
    Closed = Closed
    Checked = FALSE
    SelfResets = FALSE
    Rc <- MCRc
    Handle <- MCHandle
    Compared <- MCCompared
    Kind <- MCKind
    KindOf <- MCKindOf
    ResourceOf <- MCResourceOf
    FailureOf <- MCFailureOf
    InvalidOf <- MCInvalidOf
    OwnedOf <- MCOwnedOf
    TagOf <- MCTagOf
    DefaultTag <- MCDefaultTag
    Traits <- MCTraits
    Constructs <- MCConstructs
    Assigns <- MCAssigns
    Cast <- MCCast
    Closes <- MCCloses
    CastDel <- MCCastDel
    Scalar <- MCKind
    Below <- MCBelow
INVARIANTS NoFault EmptinessAgrees
PROPERTIES OwnershipSpec

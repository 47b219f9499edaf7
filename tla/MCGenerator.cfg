\* Two coroutines that two traversals may be in at once, and generators they can
\* be moved to in the meantime.
SPECIFICATION GenFairSpec
CONSTANTS
    Rc = {x1, x2, x3}
    Resource = {f1, f2}
    Traversal = {l1, l2}
    null = null
    Gutted = Gutted
    Closed = Closed
    Destroying = Destroying
    NoValue = NoValue
    NoFrame = NoFrame
    promise = promise
    Checked = TRUE
    SelfResets = FALSE
    Bounds <- MCBounds
    Handle <- MCHandle
    Compared <- CoroCompared
    Kind <- MCKind
    KindOf <- MCKindOf
    Tag <- CoroTag
    Closes <- CoroCloses
    ResourceOf <- CoroResourceOf
    FailureOf <- CoroFailureOf
    InvalidOf <- CoroInvalidOf
    OwnedOf <- CoroOwnedOf
    TagOf <- CoroTagOf
    DefaultTag <- CoroDefaultTag
    Traits <- CoroTraits
    Constructs = {}
    Assigns = {}
    Cast <- MCCast
    CastDel <- MCCastDel
INVARIANTS NoFault EachValueOnce
PROPERTIES OwnershipSpec NoneSetBack Ends

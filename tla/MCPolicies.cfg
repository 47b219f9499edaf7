\* The shipped policies fit what they are documented for.  The objects are
\* independent of each other: moves are the business of the other runs.
SPECIFICATION Spec
CONSTANTS
    ihv = ihv
    file = file
    coro = coro
    dc = dc
    wnd = wnd
    obj = obj
    Tag = {t1}
    File = {file}
    Coro = {coro}
    Hdc = {dc}
    Hwnd = {wnd}
    Hgdiobj = {obj}
    State <- MCState
    null = null
    Gutted = Gutted
    Closed = Closed
    Checked = TRUE
    SelfResets = FALSE
    Rc <- ShippedKind
    Handle <- ShippedHandle
    Compared <- MCCompared
    Resource <- ShippedResource
    Kind <- ShippedKind
    KindOf <- MCKindOf
    ResourceOf <- ShippedResourceOf
    FailureOf <- ShippedFailureOf
    InvalidOf <- ShippedInvalidOf
    OwnedOf <- ShippedOwnedOf
    TagOf <- MCTagOf
    DefaultTag <- MCDefaultTag
    Traits <- MCTraits
    Constructs <- MCConverts
    Assigns <- MCConverts
    Cast <- MCCast
    Closes <- MCCloses
    CastDel <- MCCastDel
INVARIANTS BoolMeansLive NoLeak


------------------------------ MODULE UniqueRc -------------------------------
(***************************************************************************)
(* raii::unique_rc<Handle, Deleter, ..., InvalidHandlePolicy>: objects that *)
(* store a handle and a deleter.  Each public operation that changes state  *)
(* is one action.  The deleters are function objects stored by value, they  *)
(* do not throw and do not call back into the objects of the model.         *)
(*                                                                          *)
(* A Kind is one instantiation of the template.  A deleter is abstracted to *)
(* a tag, the way of closing it implements (fclose, CloseHandle, a lambda   *)
(* over some allocator ...); a resource is identified by its handle value   *)
(* and remembers the way it was opened for.  Closes says which tags close   *)
(* it: that one, or another, as default_delete<Base> a Derived.             *)
(***************************************************************************)
EXTENDS FiniteSets

CONSTANTS
    Rc,           \* objects (storage locations) a unique_rc may live in
    Handle,       \* handle values
    Compared,     \* a function of handles, what their operator== looks at
    Resource,     \* the handle values that can name an open resource
    Tag,          \* ways of closing a resource
    Closes,       \* pairs <<t, u>>: t closes what was opened for u
    Gutted,       \* the unspecified state of a deleter that was moved from
    Closed,       \* state of a resource that is not open
    Kind,         \* instantiations of unique_rc
    KindOf,       \* [Rc -> Kind]
    ResourceOf,   \* [Kind -> SUBSET Resource], what objects of a kind manage
    FailureOf,    \* [Kind -> SUBSET Handle], what acquiring returns on failure
    InvalidOf,    \* [Kind -> Handle], invalid_handle_policy::invalid()
    OwnedOf,      \* [Kind -> SUBSET Handle], where is_owned() is true
    TagOf,        \* [Kind -> SUBSET Tag], what objects of type Deleter close with
    DefaultTag,   \* [Kind -> Tag], what Deleter{} closes with
    Traits,       \* [Kind -> SUBSET Trait], what Deleter supports
    Constructs,   \* pairs <<k, l>>: an l can be constructed from a k&&
    Assigns,      \* pairs <<k, l>>: an l can be assigned from a k&&
    Cast,         \* [Kind -> [Kind -> [Handle -> Handle]]], conversion of handles
    CastDel,      \* the same for deleters, moved-from ones included
    Checked,      \* neither RAII_URC_DISABLE_SELF_RESET_CHECK nor NDEBUG is defined
    SelfResets    \* the client may call r.reset(r.get())

Trait == {"default", "copy", "move", "assign", "selfmove", "swap", "empty"}

\* Parties other than objects that may be responsible for a resource.
Client == "client"
Nobody == "nobody"
Lost   == "lost"

ASSUME ConstantsAssumption ==
    /\ DOMAIN Compared = Handle
    /\ Resource \subseteq Handle
    /\ {Client, Nobody, Lost} \cap Rc = {}
    /\ Gutted \notin Tag
    /\ Closed \notin Tag
    /\ Closes \subseteq Tag \X Tag
    /\ KindOf \in [Rc -> Kind]
    /\ ResourceOf \in [Kind -> SUBSET Resource]
    /\ FailureOf \in [Kind -> SUBSET Handle]
    /\ InvalidOf \in [Kind -> Handle]
    /\ OwnedOf \in [Kind -> SUBSET Handle]
    /\ TagOf \in [Kind -> SUBSET Tag]
    /\ DefaultTag \in [Kind -> Tag]
    /\ \A k \in Kind : DefaultTag[k] \in TagOf[k]
    /\ Traits \in [Kind -> SUBSET Trait]
    /\ Constructs \subseteq Kind \X Kind
    /\ Assigns \subseteq Kind \X Kind
    /\ Cast \in [Kind -> [Kind -> [Handle -> Handle]]]
    /\ \A p \in Constructs \cup Assigns : \A t \in TagOf[p[1]] \cup {Gutted} :
          CastDel[p[1]][p[2]][t] \in TagOf[p[2]] \cup {Gutted}
    /\ Checked \in BOOLEAN
    /\ SelfResets \in BOOLEAN

VARIABLES
    res,       \* [Resource -> Tag \cup {Closed}], the world outside
    raw,       \* the resources the client itself must dispose of
    alive,     \* the objects within their lifetime
    hnd,       \* get<0>(hdt_) of each object
    del,       \* get<1>(hdt_) of each object
    fault,     \* a deleter was called on something it may not be called on
    aborted    \* the self-reset assertion ended the program

vars == <<res, raw, alive, hnd, del, fault, aborted>>

------------------------------------------------------------------------------
(* The policy and the state it classifies.                                   *)

Invalid(x)  == InvalidOf[KindOf[x]]
IsOwned(x, h) == h \in OwnedOf[KindOf[x]]
Has(x, t)   == t \in Traits[KindOf[x]]

\* explicit operator bool
Bool(x) == IsOwned(x, hnd[x])

\* Nothing runs after the assertion has failed.
Live(x)  == ~aborted /\ x \in alive
Fresh(x) == ~aborted /\ x \notin alive

\* x is the object that will dispose of r
Holds(x, r) == x \in alive /\ Bool(x) /\ hnd[x] = r

\* h names an open resource, and a deleter of tag t closes it
OpenWith(h, t) == h \in Resource /\ <<t, res[h]>> \in Closes

\* What the deleter of x may be left as when another is constructed or assigned
\* from it.  One without members has no state to lose.
MovedFrom(x) == {del[x]} \cup IF Has(x, "empty") THEN {} ELSE {Gutted}

\* What the client may hand over to x together with responsibility for it: a
\* resource it must close itself and that t closes, what a failed call to the
\* acquiring function returned, or invalid().
MayGive(x, h, t) ==
    \/ h \in raw \cap ResourceOf[KindOf[x]] /\ OpenWith(h, t)
    \/ h \in FailureOf[KindOf[x]]
    \/ h = Invalid(x)

\* What the client is no longer responsible for once it gave h to x.
Entrusted(x, h) == {h} \cap ResourceOf[KindOf[x]]

Init ==
    /\ res = [r \in Resource |-> Closed]
    /\ raw = {}
    /\ alive = {}
    /\ hnd = [x \in Rc |-> Invalid(x)]
    /\ del = [x \in Rc |-> Gutted]
    /\ fault = FALSE
    /\ aborted = FALSE

------------------------------------------------------------------------------
(* Outside the library: resources are opened and raw handles closed.         *)

Acquire(r, t) ==
    /\ ~aborted
    /\ res[r] = Closed
    /\ res' = [res EXCEPT ![r] = t]
    /\ raw' = raw \cup {r}
    /\ UNCHANGED <<alive, hnd, del, fault, aborted>>

ClientClose(r) ==
    /\ ~aborted
    /\ r \in raw
    /\ res' = [res EXCEPT ![r] = Closed]
    /\ raw' = raw \ {r}
    /\ UNCHANGED <<alive, hnd, del, fault, aborted>>

------------------------------------------------------------------------------
(* Calling a deleter.                                                        *)

\* get_deleter()(h) with deleter d, when `called'; nothing otherwise.  Called on
\* anything but an open resource it is made for, it is outside its contract.
CallDeleter(called, d, h) ==
    /\ res' = IF called /\ h \in Resource
                THEN [res EXCEPT ![h] = Closed] ELSE res
    /\ fault' = (fault \/ (called /\ ~OpenWith(h, d)))

\* unique_rc_holder_impl::reset(h) on x when x stores `old': the new handle is
\* stored first, then the old one closed if it was owned.  In a checked build
\* the assertion old_h != hnd stands between, which compares the two by the
\* handle's operator==.
Trips(x, old, h) == Checked /\ IsOwned(x, old) /\ Compared[old] = Compared[h]

\* Slip: the assertion comes after the call of the deleter.
ResetAssertsLate(x, old, h) ==
    /\ CallDeleter(IsOwned(x, old), del[x], old)
    /\ aborted' = Trips(x, old, h)

ResetFrom(x, old, h) ==
    /\ CallDeleter(IsOwned(x, old) /\ ~Trips(x, old, h), del[x], old)
    /\ aborted' = Trips(x, old, h)

------------------------------------------------------------------------------
(* Construction.                                                             *)

Begin(x, h, d) ==
    /\ Fresh(x)
    /\ alive' = alive \cup {x}
    /\ hnd' = [hnd EXCEPT ![x] = h]
    /\ del' = [del EXCEPT ![x] = d]
    /\ raw' = raw \ Entrusted(x, h)
    /\ UNCHANGED <<res, fault, aborted>>

\* A resource is opened in the way of t and goes straight into the new x, by
\* explicit unique_rc(handle): so do the functions that return a smart handle.
BeginOpened(x, r, t) ==
    /\ Fresh(x)
    /\ res[r] = Closed
    /\ res' = [res EXCEPT ![r] = t]
    /\ alive' = alive \cup {x}
    /\ hnd' = [hnd EXCEPT ![x] = r]
    /\ del' = [del EXCEPT ![x] = DefaultTag[KindOf[x]]]
    /\ UNCHANGED <<raw, fault, aborted>>

\* unique_rc()
ConstructEmpty(x) ==
    /\ Has(x, "default")
    /\ Begin(x, Invalid(x), DefaultTag[KindOf[x]])

\* explicit unique_rc(handle)
ConstructHandle(x, h) ==
    /\ Has(x, "default")
    /\ MayGive(x, h, DefaultTag[KindOf[x]])
    /\ Begin(x, h, DefaultTag[KindOf[x]])

\* unique_rc(handle, const Deleter &), unique_rc(handle, Deleter &&)
ConstructWith(x, h, t) ==
    /\ Has(x, "copy") \/ Has(x, "move")
    /\ t \in TagOf[KindOf[x]]
    /\ MayGive(x, h, t)
    /\ Begin(x, h, t)

\* Slip: y keeps its handle.
BeginFromCopies(x, y, h, d) ==
    /\ Fresh(x)
    /\ Live(y)
    /\ alive' = alive \cup {x}
    /\ hnd' = [hnd EXCEPT ![x] = h]
    /\ del' = [del EXCEPT ![x] = d]
    /\ UNCHANGED <<res, raw, fault, aborted>>

\* Slip: y's handle is read after y was made empty.
BeginFromReadsLate(x, y, h, d) ==
    /\ Fresh(x)
    /\ Live(y)
    /\ alive' = alive \cup {x}
    /\ hnd' = [hnd EXCEPT ![x] = Invalid(y), ![y] = Invalid(y)]
    /\ del' = [del EXCEPT ![x] = d]
    /\ UNCHANGED <<res, raw, fault, aborted>>

\* What construction of x from y does once y's handle and deleter, as x's types
\* have them, are h and d: y is left with its own invalid() and a moved-from
\* deleter.
BeginFrom(x, y, h, d) ==
    /\ Fresh(x)
    /\ Live(y)
    /\ alive' = alive \cup {x}
    /\ hnd' = [hnd EXCEPT ![x] = h, ![y] = Invalid(y)]
    /\ \E e \in MovedFrom(y) : del' = [del EXCEPT ![x] = d, ![y] = e]
    /\ UNCHANGED <<res, raw, fault, aborted>>

\* y's handle and deleter, converted to the types of x
HandleAs(x, y)  == Cast[KindOf[y]][KindOf[x]][hnd[y]]
DeleterAs(x, y) == CastDel[KindOf[y]][KindOf[x]][del[y]]

\* unique_rc(unique_rc &&), from an object of the same kind
MoveConstruct(x, y) ==
    /\ KindOf[x] = KindOf[y]
    /\ Has(x, "move")
    /\ BeginFrom(x, y, hnd[y], del[y])

\* unique_rc(unique_rc<H, D, ...> &&), from an object of another kind
ConvertConstruct(x, y) ==
    /\ <<KindOf[y], KindOf[x]>> \in Constructs
    /\ BeginFrom(x, y, HandleAs(x, y), DeleterAs(x, y))

------------------------------------------------------------------------------
(* reset, release, assignment, swap.                                         *)

\* reset(h); reset() is reset(invalid()), r.reset(r.get()) is h = hnd[x]
Reset(x, h) ==
    /\ Live(x)
    /\ MayGive(x, h, del[x]) \/ (SelfResets /\ Bool(x) /\ h = hnd[x])
    /\ ResetFrom(x, hnd[x], h)
    /\ hnd' = [hnd EXCEPT ![x] = h]
    /\ raw' = raw \ Entrusted(x, h)
    /\ UNCHANGED <<alive, del>>

\* Slip: the handle returned is read after invalid() was stored.
ReleaseReadsLate(x) ==
    /\ Live(x)
    /\ raw' = IF Bool(x) THEN raw \cup {Invalid(x)} ELSE raw
    /\ hnd' = [hnd EXCEPT ![x] = Invalid(x)]
    /\ UNCHANGED <<res, alive, del, fault, aborted>>

\* Slip: release() written as reset().
ReleaseCloses(x) ==
    /\ Live(x)
    /\ CallDeleter(Bool(x), del[x], hnd[x])
    /\ raw' = IF Bool(x) THEN raw \cup ({hnd[x]} \cap Resource) ELSE raw
    /\ hnd' = [hnd EXCEPT ![x] = Invalid(x)]
    /\ UNCHANGED <<alive, del, aborted>>

\* release(): whatever was owned is the client's from now on
Release(x) ==
    /\ Live(x)
    /\ raw' = IF Bool(x) THEN raw \cup ({hnd[x]} \cap Resource) ELSE raw
    /\ hnd' = [hnd EXCEPT ![x] = Invalid(x)]
    /\ UNCHANGED <<res, alive, del, fault, aborted>>

\* Slip: the deleter is assigned first.
AssignDeleterFirst(x, y, h, d) ==
    /\ x # y
    /\ Live(x)
    /\ Live(y)
    /\ CallDeleter(Bool(x) /\ ~Trips(x, hnd[x], h), d, hnd[x])
    /\ aborted' = Trips(x, hnd[x], h)
    /\ hnd' = [hnd EXCEPT ![x] = h, ![y] = Invalid(y)]
    /\ del' = [del EXCEPT ![x] = d]
    /\ UNCHANGED <<raw, alive>>

\* The deleters after x's was assigned d, which y's value was moved to; the
\* assertion has then ended the program already.
DeletersAssigned(x, y, d) ==
    \E e \in MovedFrom(y) :
        del' = IF aborted' THEN del ELSE [del EXCEPT ![x] = d, ![y] = e]

\* reset(y.release()); get_deleter() = std::forward<D>(y.get_deleter()): the old
\* handle is closed by the old deleter, which is only then replaced.
AssignFrom(x, y, h, d) ==
    /\ x # y
    /\ Live(x)
    /\ Live(y)
    /\ ResetFrom(x, hnd[x], h)
    /\ hnd' = [hnd EXCEPT ![x] = h, ![y] = Invalid(y)]
    /\ DeletersAssigned(x, y, d)
    /\ UNCHANGED <<raw, alive>>

\* operator=(unique_rc &&)
MoveAssign(x, y) ==
    /\ KindOf[x] = KindOf[y]
    /\ Has(x, "assign")
    /\ AssignFrom(x, y, hnd[y], del[y])

\* Slip: self-move resets to the stored handle, not to a released one.
SelfMoveResets(x) ==
    /\ Live(x)
    /\ Has(x, "assign")
    /\ Bool(x) => Has(x, "selfmove")
    /\ ResetFrom(x, hnd[x], hnd[x])
    /\ UNCHANGED <<raw, alive, hnd, del>>

\* x = std::move(x): reset(release()) finds invalid() stored, so nothing is
\* closed; the deleter is assigned from itself, which a client that still needs
\* it may only do when the deleter's own assignment tolerates that.
SelfMoveAssign(x) ==
    /\ Live(x)
    /\ Has(x, "assign")
    /\ Bool(x) => Has(x, "selfmove")
    /\ ResetFrom(x, Invalid(x), hnd[x])
    /\ \E d \in IF Has(x, "selfmove") THEN {del[x]} ELSE MovedFrom(x) :
          del' = IF aborted' THEN del ELSE [del EXCEPT ![x] = d]
    /\ UNCHANGED <<raw, alive, hnd>>

\* operator=(unique_rc<H, D, ...> &&)
ConvertAssign(x, y) ==
    /\ <<KindOf[y], KindOf[x]>> \in Assigns
    /\ AssignFrom(x, y, HandleAs(x, y), DeleterAs(x, y))

\* Slip: the deleters stay where they are.
SwapHandles(x, y) ==
    /\ Live(x)
    /\ Live(y)
    /\ KindOf[x] = KindOf[y]
    /\ Has(x, "swap")
    /\ hnd' = [hnd EXCEPT ![x] = hnd[y], ![y] = hnd[x]]
    /\ UNCHANGED <<res, raw, alive, del, fault, aborted>>

\* swap(unique_rc &); x may be y
Swap(x, y) ==
    /\ Live(x)
    /\ Live(y)
    /\ KindOf[x] = KindOf[y]
    /\ Has(x, "swap")
    /\ hnd' = [hnd EXCEPT ![x] = hnd[y], ![y] = hnd[x]]
    /\ del' = [del EXCEPT ![x] = del[y], ![y] = del[x]]
    /\ UNCHANGED <<res, raw, alive, fault, aborted>>

\* Slip: the destructor relies on the holder's, which is defaulted.
DestroyForgets(x) ==
    /\ Live(x)
    /\ alive' = alive \ {x}
    /\ hnd' = [hnd EXCEPT ![x] = Invalid(x)]
    /\ del' = [del EXCEPT ![x] = Gutted]
    /\ UNCHANGED <<res, raw, fault, aborted>>

\* ~unique_rc(); the storage may then hold another object
Destroy(x) ==
    /\ Live(x)
    /\ CallDeleter(Bool(x), del[x], hnd[x])
    /\ alive' = alive \ {x}
    /\ hnd' = [hnd EXCEPT ![x] = Invalid(x)]
    /\ del' = [del EXCEPT ![x] = Gutted]
    /\ UNCHANGED <<raw, aborted>>

------------------------------------------------------------------------------
RcOp(x) ==
    \/ ConstructEmpty(x)
    \/ \E h \in Handle : ConstructHandle(x, h)
    \/ \E h \in Handle, t \in Tag : ConstructWith(x, h, t)
    \/ \E h \in Handle : Reset(x, h)
    \/ Release(x)
    \/ SelfMoveAssign(x)
    \/ Destroy(x)

RcPairOp(x, y) ==
    \/ MoveConstruct(x, y)
    \/ ConvertConstruct(x, y)
    \/ MoveAssign(x, y)
    \/ ConvertAssign(x, y)
    \/ Swap(x, y)

ClientOp(r) == ClientClose(r) \/ \E t \in Tag : Acquire(r, t)

Next ==
    \/ \E r \in Resource : ClientOp(r)
    \/ \E x \in Rc : RcOp(x)
    \/ \E x, y \in Rc : RcPairOp(x, y)

Spec == Init /\ [][Next]_vars

------------------------------------------------------------------------------
(* What the library asks of its user and cannot check: the template's        *)
(* arguments have to fit the resource.                                       *)

\* is_owned() recognises every resource of the kind, no value a failed call
\* returns, and not the value invalid() that marks an empty object.
PolicyFits ==
    \A k \in Kind :
        /\ ResourceOf[k] \subseteq OwnedOf[k]
        /\ FailureOf[k] \cap OwnedOf[k] = {}
        /\ InvalidOf[k] \notin OwnedOf[k]

\* Kinds that convert into each other agree on what is owned, the converted
\* handle names the same resource, and the converted deleter still closes what
\* the original one does.
ConversionFits ==
    \A p \in Constructs \cup Assigns :
        /\ \A h \in Handle :
              LET c == Cast[p[1]][p[2]][h]
              IN  IF h \in OwnedOf[p[1]] THEN c = h /\ c \in OwnedOf[p[2]]
                                        ELSE c \notin OwnedOf[p[2]]
        /\ \A u \in Closes : u[1] \in TagOf[p[1]] =>
              <<CastDel[p[1]][p[2]][u[1]], u[2]>> \in Closes

\* Enough as long as the program runs: without the assertion a self-reset closes
\* what the object goes on to own.
RunningFits == PolicyFits /\ ConversionFits /\ (SelfResets => Checked)

\* Handles that compare equal are the same: that of one open resource is never
\* equal to that of another.
HandlesTell == \A g, h \in Handle : Compared[g] = Compared[h] => g = h

\* The assertion, where there is one, needs that to tell a self-reset from others.
Fits == RunningFits /\ (Checked => HandlesTell)

------------------------------------------------------------------------------
(* Properties.                                                               *)

\* The values the variables range over.
TypeOK ==
    /\ res \in [Resource -> Tag \cup {Closed}]
    /\ raw \subseteq Resource
    /\ alive \subseteq Rc
    /\ hnd \in [Rc -> Handle]
    /\ del \in [Rc -> Tag \cup {Gutted}]
    /\ \A x \in Rc : del[x] \in TagOf[KindOf[x]] \cup {Gutted}
    /\ fault \in BOOLEAN
    /\ aborted \in BOOLEAN

\* No sequence of operations calls a deleter twice for one acquisition, on a
\* failure value or invalid(), or with the deleter of another resource.
NoFault == ~fault

\* A resource is never the responsibility of two parties: two objects do not
\* hold it, and an object does not hold what the client must close itself.
Exclusive ==
    /\ \A x, y \in alive : Bool(x) /\ Bool(y) /\ hnd[x] = hnd[y] => x = y
    /\ \A x \in alive : Bool(x) => hnd[x] \notin raw

\* No resource is lost: as long as it is open, the client or some object must
\* dispose of it.
NoLeak == \A r \in Resource :
              res[r] # Closed => r \in raw \/ \E x \in alive : Holds(x, r)

\* operator bool answers whether *this owns a resource, and get_deleter() is
\* then the deleter that closes it.
BoolMeansLive == \A x \in alive : Bool(x) => OpenWith(hnd[x], del[x])

\* What the client must close is open, so that closing it is not a second close.
RawIsOpen == \A r \in raw : res[r] # Closed

\* The properties above, as one inductive invariant of instantiations that fit.
IInv == /\ TypeOK /\ NoFault /\ Exclusive /\ NoLeak /\ BoolMeansLive /\ RawIsOpen

\* The self-reset assertion fires before anything is closed, and moving, assigning
\* and swapping, which all change who stores what, never trip it.
AbortClosesNothing == [][aborted' => UNCHANGED <<res, raw, alive, hnd, del>>]_vars

\* A program that never calls r.reset(r.get()) never trips the self-reset
\* assertion: no assignment does, however the objects came by their handles.
OnlySelfResets == aborted => SelfResets

------------------------------------------------------------------------------
(* Refinement: who is responsible for a resource.                            *)

\* The party responsible for r.  Lost is no owner of the abstract
\* specification, so a step that leaks maps to no step of it.
ownerBar == [r \in Resource |->
    IF res[r] = Closed THEN Nobody
    ELSE IF \E x \in alive : Holds(x, r) THEN CHOOSE x \in alive : Holds(x, r)
    ELSE IF r \in raw THEN Client
    ELSE Lost]

Abstract == INSTANCE Ownership WITH owner <- ownerBar

\* Every operation is one of the ownership transfers of Ownership, or none.
OwnershipSpec == Abstract!Spec
==============================================================================

---------------------------- MODULE SharedDeleter ----------------------------
(***************************************************************************)
(* Reference deleters: objects of type unique_rc<Handle, D &> refer to a    *)
(* deleter that is not theirs, a variable of the client or the deleter in   *)
(* an object of type unique_rc<Handle, D>, and may share it.  An operation  *)
(* that assigns or swaps deleters writes through the references, so it      *)
(* changes how other objects will dispose of what they own; and a reference *)
(* may outlive what it refers to.  Both is left to the client, and the      *)
(* model says exactly what it has to see to.                                *)
(*                                                                          *)
(* Deleters are tags, as in UniqueRc, and all objects have the default      *)
(* policy, with null for invalid().                                         *)
(***************************************************************************)
CONSTANTS
    Ref,          \* objects of type unique_rc<Handle, D &>
    Val,          \* objects of type unique_rc<Handle, D>
    Var,          \* variables of type D
    Resource,     \* handles of what can be owned
    null,         \* the handle invalid()
    Tag,          \* ways of closing a resource
    Closes,       \* pairs <<t, u>>: t closes what was opened for u
    Gutted,       \* a deleter that was moved from
    Closed        \* state of a resource that is not open

Rc   == Ref \cup Val
Cell == Var \cup Val      \* the deleters; that of a Val is part of it

Client == "client"
Nobody == "nobody"
Lost   == "lost"

ASSUME SharedAssumption ==
    /\ Ref \cap Val = {} /\ Ref \cap Var = {} /\ Val \cap Var = {}
    /\ {Client, Nobody, Lost} \cap Rc = {}
    /\ null \notin Resource \cup Cell
    /\ Gutted \notin Tag
    /\ Closed \notin Tag
    /\ Closes \subseteq Tag \X Tag

VARIABLES
    res,       \* [Resource -> Tag \cup {Closed}]
    raw,       \* the resources the client itself must dispose of
    alive,     \* the objects and the variables within their lifetime
    hnd,       \* the stored handles
    del,       \* [Cell -> Tag \cup {Gutted}], the deleters
    at,        \* [Rc -> Cell \cup {null}], the deleter get_deleter() refers to
    made,      \* history: the deleter the client handed in when it made a Ref,
               \* or when it made what that was move-constructed from
    fault      \* a deleter was misused, or accessed when it was gone

vars == <<res, raw, alive, hnd, del, at, made, fault>>

------------------------------------------------------------------------------
Bool(x) == hnd[x] # null

Deleter(x) == del[at[x]]

Holds(x, r) == x \in alive /\ hnd[x] = r

OpenWith(h, t) == h \in Resource /\ <<t, res[h]>> \in Closes

\* A deleter of the client's, or of a Val, may be used while it lasts.
Gone(x) == at[x] \notin alive

\* What the client may hand over together with responsibility for it.
MayGive(h, t) == h = null \/ (h \in raw /\ OpenWith(h, t))

\* What the client has to see to before an operation on the objects of S writes
\* t to the deleter c: others that refer to it can go on with t.
Tolerated(S, c, t) ==
    \A z \in (alive \cap Rc) \ S : at[z] = c /\ Bool(z) => OpenWith(hnd[z], t)

\* A deleter may end when no Ref was made from it.
Unused(c) == \A z \in alive \cap Ref : made[z] # c

Init ==
    /\ res = [r \in Resource |-> Closed]
    /\ raw = {}
    /\ alive = {}
    /\ hnd = [x \in Rc |-> null]
    /\ del = [c \in Cell |-> Gutted]
    /\ at = [x \in Rc |-> IF x \in Val THEN x ELSE null]
    /\ made = at
    /\ fault = FALSE

------------------------------------------------------------------------------
(* The client.                                                               *)

Acquire(r, t) ==
    /\ res[r] = Closed
    /\ res' = [res EXCEPT ![r] = t]
    /\ raw' = raw \cup {r}
    /\ UNCHANGED <<alive, hnd, del, at, made, fault>>

ClientClose(r) ==
    /\ r \in raw
    /\ res' = [res EXCEPT ![r] = Closed]
    /\ raw' = raw \ {r}
    /\ UNCHANGED <<alive, hnd, del, at, made, fault>>

BeginVar(c, t) ==
    /\ c \in Var \ alive
    /\ alive' = alive \cup {c}
    /\ del' = [del EXCEPT ![c] = t]
    /\ UNCHANGED <<res, raw, hnd, at, made, fault>>

EndVar(c) ==
    /\ c \in Var \cap alive
    /\ Unused(c)
    /\ alive' = alive \ {c}
    /\ del' = [del EXCEPT ![c] = Gutted]
    /\ UNCHANGED <<res, raw, hnd, at, made, fault>>

------------------------------------------------------------------------------
(* Construction.                                                             *)

\* unique_rc(handle, const Deleter &), which for a reference D & is (handle, D &):
\* a deleter that is not a temporary
ConstructRef(x, h, c) ==
    /\ x \in Ref \ alive
    /\ c \in Cell \cap alive
    /\ MayGive(h, del[c])
    /\ alive' = alive \cup {x}
    /\ hnd' = [hnd EXCEPT ![x] = h]
    /\ at' = [at EXCEPT ![x] = c]
    /\ made' = [made EXCEPT ![x] = c]
    /\ raw' = raw \ {h}
    /\ UNCHANGED <<res, del, fault>>

\* unique_rc(handle, const Deleter &), unique_rc(handle, Deleter &&)
ConstructVal(x, h, t) ==
    /\ x \in Val \ alive
    /\ MayGive(h, t)
    /\ alive' = alive \cup {x}
    /\ hnd' = [hnd EXCEPT ![x] = h]
    /\ del' = [del EXCEPT ![x] = t]
    /\ raw' = raw \ {h}
    /\ UNCHANGED <<res, at, made, fault>>

\* Slip: y keeps its handle.
BeginFromCopies(x, y) ==
    /\ x \in Rc \ alive
    /\ y \in Rc \cap alive
    /\ alive' = alive \cup {x}
    /\ hnd' = [hnd EXCEPT ![x] = hnd[y]]
    /\ UNCHANGED <<res, raw>>

BeginFrom(x, y) ==
    /\ x \in Rc \ alive
    /\ y \in Rc \cap alive
    /\ alive' = alive \cup {x}
    /\ hnd' = [hnd EXCEPT ![x] = hnd[y], ![y] = null]
    /\ UNCHANGED <<res, raw>>

\* unique_rc(unique_rc &&) of two Ref: the reference is copied
MoveConstructRef(x, y) ==
    /\ {x, y} \subseteq Ref
    /\ BeginFrom(x, y)
    /\ at' = [at EXCEPT ![x] = at[y]]
    /\ made' = [made EXCEPT ![x] = made[y]]
    /\ UNCHANGED <<del, fault>>

\* unique_rc(unique_rc &&) of two Val: the deleter is moved
MoveConstructVal(x, y) ==
    /\ {x, y} \subseteq Val
    /\ Tolerated({x, y}, y, Gutted)
    /\ BeginFrom(x, y)
    /\ \E e \in {del[y], Gutted} : del' = [del EXCEPT ![x] = del[y], ![y] = e]
    /\ UNCHANGED <<at, made, fault>>

\* unique_rc(unique_rc<H, D, ...> &&), a Val from a Ref: the deleter referred to is
\* copied.  A Ref from a Val is rejected, lest it refer to a temporary's deleter.
ConvertConstruct(x, y) ==
    /\ x \in Val /\ y \in Ref
    /\ BeginFrom(x, y)
    /\ del' = [del EXCEPT ![x] = Deleter(y)]
    /\ fault' = (fault \/ Gone(y))
    /\ UNCHANGED <<at, made>>

------------------------------------------------------------------------------
(* reset, release, assignment, swap.                                         *)

Close(h) == res' = IF h # null THEN [res EXCEPT ![h] = Closed] ELSE res

\* get_deleter()(h) is a mistake, for a handle h that is owned.
Misused(x, h) == h # null /\ (Gone(x) \/ ~OpenWith(h, Deleter(x)))

CallDeleter(x, h) == Close(h) /\ fault' = (fault \/ Misused(x, h))

\* reset(h)
Reset(x, h) ==
    /\ x \in Rc \cap alive
    /\ MayGive(h, Deleter(x))
    /\ CallDeleter(x, hnd[x])
    /\ hnd' = [hnd EXCEPT ![x] = h]
    /\ raw' = raw \ {h}
    /\ UNCHANGED <<alive, del, at, made>>

\* release()
Release(x) ==
    /\ x \in Rc \cap alive
    /\ raw' = raw \cup ({hnd[x]} \ {null})
    /\ hnd' = [hnd EXCEPT ![x] = null]
    /\ UNCHANGED <<res, alive, del, at, made, fault>>

\* reset(y.release()); get_deleter() = std::forward<Deleter>(y.get_deleter()):
\* what x held is closed by what x referred to till then, and that becomes the
\* deleter of y; D is what may be left of y's.
AssignFrom(x, y, D) ==
    /\ x # y
    /\ {x, y} \subseteq Rc \cap alive
    /\ Tolerated({x, y}, at[x], Deleter(y))
    /\ Close(hnd[x])
    /\ fault' = (fault \/ Misused(x, hnd[x]) \/ Gone(x) \/ Gone(y))
    /\ hnd' = [hnd EXCEPT ![x] = hnd[y], ![y] = null]
    /\ \E e \in D : del' = [del EXCEPT ![at[y]] = e, ![at[x]] = Deleter(y)]
    /\ UNCHANGED <<raw, alive, at, made>>

\* Slip: the reference is assigned, not what it refers to.
AssignRebinds(x, y) ==
    /\ x # y
    /\ {x, y} \subseteq Ref \cap alive
    /\ CallDeleter(x, hnd[x])
    /\ hnd' = [hnd EXCEPT ![x] = hnd[y], ![y] = null]
    /\ at' = [at EXCEPT ![x] = at[y]]
    /\ UNCHANGED <<raw, alive, del, made>>

\* operator=(unique_rc &&) of two Ref, and operator=(unique_rc<H, D &, ...> &&) of a
\* Val: std::forward<D &> copies.  Assigning a Ref to itself changes nothing.
AssignFromRef(x, y) ==
    /\ y \in Ref
    /\ AssignFrom(x, y, {Deleter(y)})

\* operator=(unique_rc &&) of two Val, and operator=(unique_rc<H, D, ...> &&) of a
\* Ref: std::forward<D> moves.  A Ref that refers to y's own deleter would have it
\* moved to itself, which a deleter need not tolerate.
AssignFromVal(x, y) ==
    /\ y \in Val
    /\ at[x] # y
    /\ Tolerated({x, y}, y, Gutted)
    /\ AssignFrom(x, y, {del[y], Gutted})

\* Slip: the deleters stay where they are.
SwapHandles(x, y) ==
    /\ {x, y} \subseteq Ref \cap alive \/ {x, y} \subseteq Val \cap alive
    /\ hnd' = [hnd EXCEPT ![x] = hnd[y], ![y] = hnd[x]]
    /\ UNCHANGED <<res, raw, alive, del, at, made, fault>>

\* swap(unique_rc &): the deleters that are referred to are swapped
Swap(x, y) ==
    /\ {x, y} \subseteq Ref \cap alive \/ {x, y} \subseteq Val \cap alive
    /\ Tolerated({x, y}, at[x], Deleter(y))
    /\ Tolerated({x, y}, at[y], Deleter(x))
    /\ hnd' = [hnd EXCEPT ![x] = hnd[y], ![y] = hnd[x]]
    /\ del' = [del EXCEPT ![at[x]] = Deleter(y), ![at[y]] = Deleter(x)]
    /\ fault' = (fault \/ Gone(x) \/ Gone(y))
    /\ UNCHANGED <<res, raw, alive, at, made>>

\* ~unique_rc()
Destroy(x) ==
    /\ x \in Rc \cap alive
    /\ Unused(x)
    /\ CallDeleter(x, hnd[x])
    /\ alive' = alive \ {x}
    /\ hnd' = [hnd EXCEPT ![x] = null]
    /\ IF x \in Val THEN /\ del' = [del EXCEPT ![x] = Gutted]
                         /\ UNCHANGED <<at, made>>
                    ELSE /\ at' = [at EXCEPT ![x] = null]
                         /\ made' = [made EXCEPT ![x] = null]
                         /\ UNCHANGED del
    /\ UNCHANGED raw

------------------------------------------------------------------------------
ClientOp ==
    \/ \E r \in Resource : ClientClose(r) \/ \E t \in Tag : Acquire(r, t)
    \/ \E c \in Var : EndVar(c) \/ \E t \in Tag : BeginVar(c, t)

RcOp(x) ==
    \/ \E h \in raw \cup {null} :
          \/ Reset(x, h)
          \/ \E c \in Cell : ConstructRef(x, h, c)
          \/ \E t \in Tag : ConstructVal(x, h, t)
    \/ Release(x)
    \/ Destroy(x)

RcPairOp(x, y) ==
    \/ MoveConstructRef(x, y)
    \/ MoveConstructVal(x, y)
    \/ ConvertConstruct(x, y)
    \/ AssignFromRef(x, y)
    \/ AssignFromVal(x, y)
    \/ Swap(x, y)

Next ==
    \/ ClientOp
    \/ \E x \in Rc : RcOp(x)
    \/ \E x, y \in Rc : RcPairOp(x, y)

Spec == Init /\ [][Next]_vars

------------------------------------------------------------------------------
(* Properties.                                                               *)

\* No operation calls or accesses a deleter whose lifetime has ended, and none
\* calls one on what it does not close, if the client keeps each deleter it handed
\* in as long as the object made with it and those move-constructed from that: a
\* move assignment or a swap never makes a longer-lived object depend on it.
NoFault == ~fault

\* Whoever assigned or swapped deleters through other objects in between, what an
\* object refers to is there and closes what the object owns.
OwnersCanClose ==
    \A x \in alive \cap Rc :
        at[x] \in alive /\ (Bool(x) => OpenWith(hnd[x], Deleter(x)))

------------------------------------------------------------------------------
(* Refinement, as in UniqueRc: a resource nobody holds is Lost, and no step of *)
(* Ownership leads there.                                                     *)

ownerBar == [r \in Resource |->
    IF res[r] = Closed THEN Nobody
    ELSE IF \E x \in Rc : Holds(x, r) THEN CHOOSE x \in Rc : Holds(x, r)
    ELSE IF r \in raw THEN Client
    ELSE Lost]

Abstract == INSTANCE Ownership WITH owner <- ownerBar

\* Sharing deleters changes nothing about ownership: every operation is one of the
\* transfers of Ownership, or none.
OwnershipSpec == Abstract!Spec
==============================================================================

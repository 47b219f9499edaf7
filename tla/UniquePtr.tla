------------------------------ MODULE UniquePtr ------------------------------
(***************************************************************************)
(* raii::unique_ptr<T> and unique_ptr<T[]> with raii::default_delete: the   *)
(* unique_rc over pointers, the conversions its constraints allow, and the  *)
(* operations it adds.  A Kind is a type [class, const, array], for T or    *)
(* T[]; a deleter deletes in a form [class, array], which is also how an    *)
(* object or array was allocated.  What the class template passes to        *)
(* unique_rc, a constant of UniqueRc, is the definition of the same name    *)
(* with Ptr in front, and IsUniquePtr says that it is.                      *)
(***************************************************************************)
EXTENDS UniqueRc, InvalidHandlePolicy

CONSTANTS
    Class,        \* class types
    Derived,      \* pairs <<c, b>>: c is derived from b, directly or not
    Virtual       \* the classes with a virtual destructor

Form(k) == [class |-> k.class, array |-> k.array]

PtrTag == {Form(k) : k \in Kind}

ASSUME PtrAssumption ==
    /\ \A k \in Kind : /\ k.class \in Class
                       /\ k.const \in BOOLEAN /\ k.array \in BOOLEAN
    /\ Derived \subseteq Class \X Class
    /\ \A p, q \in Derived : p[2] = q[1] => <<p[1], q[2]>> \in Derived
    /\ null \notin Resource
    /\ Virtual \subseteq Class

------------------------------------------------------------------------------
(* The language: conversions of pointers, and what delete may be used on.    *)

\* is_convertible<U *, T *>
PointerConvertible(u, t) ==
    /\ u.class = t.class \/ <<u.class, t.class>> \in Derived
    /\ u.const => t.const

\* is_convertible<U (*)[], T (*)[]>
ArrayConvertible(u, t) ==
    /\ u.class = t.class
    /\ u.const => t.const

\* delete or delete[] in the form t of what was allocated in the form u.
Deletes(t, u) ==
    /\ t.array = u.array
    /\ \/ t.class = u.class
       \/ /\ ~t.array
          /\ <<u.class, t.class>> \in Derived
          /\ t.class \in Virtual

PtrCloses == {p \in PtrTag \X PtrTag : Deletes(p[1], p[2])}

------------------------------------------------------------------------------
(* What the templates allow.                                                 *)

\* The converting constructors of default_delete<T> and default_delete<T[]>.
DeleterConvertible(u, t) ==
    /\ u.array = t.array
    /\ IF t.array THEN ArrayConvertible(u, t) ELSE PointerConvertible(u, t)

\* safe_conversion_from of unique_ptr<T>
SingleConversionFrom(u) == {t \in Kind : ~t.array /\ ~u.array /\ PointerConvertible(u, t)}

\* safe_conversion_from of unique_ptr<T[]>
ArrayConversionFrom(u) == {t \in Kind : t.array /\ u.array /\ ArrayConvertible(u, t)}

\* Slip: arrays convert as pointers to their elements do.
PtrConstructsByPointer ==
    {p \in Kind \X Kind : p[1].array = p[2].array /\ PointerConvertible(p[1], p[2])}

\* unique_ptr(unique_ptr<U, D> &&), and the constructor of unique_rc it calls
PtrConstructs ==
    {p \in Kind \X Kind :
        /\ p[2] \in SingleConversionFrom(p[1]) \cup ArrayConversionFrom(p[1])
        /\ DeleterConvertible(p[1], p[2])}

\* operator=(unique_ptr<U, D> &&); a default_delete is assignable from what
\* converts to it.
PtrAssigns == PtrConstructs

\* The pointer names the same object; the deleter, which has no members, is one
\* of the new type.  A pointer to an object does not change when it is made a
\* pointer to its base.
PtrCast    == [k \in Kind |-> [l \in Kind |-> [h \in Handle |-> h]]]
PtrCastDel == [k \in Kind |-> [l \in Kind |-> [t \in Tag \cup {Gutted} |->
                  IF t = Gutted THEN Gutted ELSE Form(l)]]]

\* Pointers are compared as such.
PtrCompared   == [h \in Handle |-> h]

PtrTagOf      == [k \in Kind |-> {Form(k)}]
PtrDefaultTag == [k \in Kind |-> Form(k)]
PtrTraits     == [k \in Kind |-> Trait]

\* The default policy for pointers; new does not return null, but the client may
\* hand over a null pointer of its own.
PtrResourceOf == [k \in Kind |-> Resource]
PtrFailureOf  == [k \in Kind |-> {null}]
PtrInvalidOf  == [k \in Kind |-> DefaultPolicy(Handle, null).invalid]
PtrOwnedOf    == [k \in Kind |-> DefaultPolicy(Handle, null).owned]

IsUniquePtr ==
    /\ Compared = PtrCompared /\ Tag = PtrTag /\ Closes = PtrCloses
    /\ TagOf = PtrTagOf /\ DefaultTag = PtrDefaultTag /\ Traits = PtrTraits
    /\ ResourceOf = PtrResourceOf /\ FailureOf = PtrFailureOf
    /\ InvalidOf = PtrInvalidOf /\ OwnedOf = PtrOwnedOf
    /\ Constructs = PtrConstructs /\ Assigns = PtrAssigns
    /\ Cast = PtrCast /\ CastDel = PtrCastDel

\* What the library leaves to its user: a class that a pointer is converted to
\* has a virtual destructor.
PolymorphicBases == \A p \in Derived : p[2] \in Virtual

------------------------------------------------------------------------------
(* The operations unique_ptr adds.                                           *)

\* Slip: make_unique<T[]> allocates one element.
MakeUniqueOne(x, r) == BeginOpened(x, r, [Form(KindOf[x]) EXCEPT !.array = FALSE])

\* make_unique<T>(args), make_unique<T[]>(n) and the _for_overwrite variants.  If
\* the constructor of the object throws there is no unique_ptr.
MakeUnique(x, r) == BeginOpened(x, r, Form(KindOf[x]))

\* Slip: assigning nullptr releases.
AssignNullReleases(x) ==
    /\ Live(x)
    /\ hnd' = [hnd EXCEPT ![x] = Invalid(x)]
    /\ UNCHANGED <<res, raw, alive, del, fault, aborted>>

\* operator=(nullptr_t), and reset(nullptr) of an array: reset()
AssignNull(x) == Reset(x, Invalid(x))

PtrNext ==
    \/ Next
    \/ \E x \in Rc : AssignNull(x)
    \/ \E x \in Rc, r \in Resource : MakeUnique(x, r)

PtrSpec == Init /\ [][PtrNext]_vars
==============================================================================

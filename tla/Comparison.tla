----------------------------- MODULE Comparison ------------------------------
(***************************************************************************)
(* Comparing smart handles with each other and with nullptr.  unique_ptr    *)
(* and unique_coroutine_handle declare the operators again, with            *)
(* constraints of their own, and compute the same.                          *)
(***************************************************************************)
EXTENDS UniqueRc, InvalidHandlePolicy

CONSTANTS
    Scalar,       \* kinds whose handles compare with nullptr and have an order
    Below         \* pairs <<g, h>>: g < h, for handles of such kinds

ASSUME ComparisonAssumption ==
    /\ Scalar \subseteq Kind
    /\ Below \subseteq Handle \X Handle
    /\ \A p \in Below : p[1] # p[2] /\ <<p[2], p[1]>> \notin Below /\ p[2] # null
    /\ \A h \in Handle : h # null => <<null, h>> \in Below
    /\ HandlesTell

\* g <=> h
Order(g, h) ==
    IF g = h THEN "equal" ELSE IF <<g, h>> \in Below THEN "less" ELSE "greater"

\* x == y, by the stored handles; x and y may be of two kinds
Equal(x, y) == Compared[hnd[x]] = Compared[hnd[y]]

\* Slip: the negation is forgotten.
EqualNullNegated(x) == Bool(x)

\* x == nullptr, by the policy
EqualNull(x) == ~Bool(x)

\* x <=> y, by the stored handles
Compare(x, y) == Order(hnd[x], hnd[y])

\* x <=> nullptr, by the stored handle, not by the policy
CompareNull(x) == Order(hnd[x], null)

\* What acquiring a resource of kind k returns, and invalid(): the handles that an
\* object of this kind comes to store.
KindHandles(k) == ResourceOf[k] \cup FailureOf[k] \cup {InvalidOf[k]}

ConversionsStay ==
    \A p \in Constructs \cup Assigns : \A h \in KindHandles(p[1]) :
        Cast[p[1]][p[2]][h] \in KindHandles(p[2])

\* Policies that own every handle but one, as the default policy and
\* invalid_handle_value_policy do.
OwnsAllButInvalid ==
    \A k \in Scalar : \A h \in KindHandles(k) : h \in OwnedOf[k] <=> h # InvalidOf[k]

------------------------------------------------------------------------------
(* Properties.                                                               *)

\* The kinds for which nullptr is the handle of an empty object.
NullIsInvalid(x) == KindOf[x] \in Scalar /\ Invalid(x) = null

\* == asks the policy and <=> the handle, and == of two objects asks both handles:
\* where invalid() is nullptr they never contradict each other, whatever was moved,
\* converted and released.  An object equals nullptr by both or by neither, it
\* equals an empty object if it equals nullptr, and it is less than an owner then.
EmptinessAgrees ==
    \A x, y \in alive : NullIsInvalid(x) /\ NullIsInvalid(y) =>
        /\ EqualNull(x) <=> CompareNull(x) = "equal"
        /\ EqualNull(x) => (EqualNull(y) <=> Equal(x, y))
        /\ EqualNull(x) /\ ~EqualNull(y) => Compare(x, y) = "less"
==============================================================================

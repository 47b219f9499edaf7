-------------------------- MODULE ComparisonProofs ---------------------------
(***************************************************************************)
(* Proofs about Comparison: its property follows from what an object can    *)
(* come to store, whatever the kinds and handles are.  And that the shipped *)
(* policies fit, whatever values the handles are, so that all this, and all *)
(* of UniqueRcProofs, holds under them.                                     *)
(***************************************************************************)
EXTENDS Comparison, ShippedPolicies, UniqueRcProofs

------------------------------------------------------------------------------
(* What is stored.                                                           *)

\* An object stores what acquiring returned, or invalid(), of its own kind.
Stored == \A x \in Rc : hnd[x] \in KindHandles(KindOf[x])

LEMMA InvalidIsStored == \A x \in Rc : Invalid(x) \in KindHandles(KindOf[x])
  BY DEF Invalid, KindHandles

LEMMA GivenIsStored ==
    ASSUME NEW x \in Rc, NEW h, NEW t, MayGive(x, h, t)
    PROVE  h \in KindHandles(KindOf[x])
  BY DEF MayGive, KindHandles, Invalid

\* Handles are only changed in one or two objects, to handles of their kinds.
LEMMA ChangedIsStored ==
    ASSUME TypeOK, Stored, NEW x \in Rc, NEW y \in Rc,
           NEW g \in KindHandles(KindOf[x]), NEW h \in KindHandles(KindOf[y]),
           \/ hnd' = [hnd EXCEPT ![x] = g]
           \/ hnd' = [hnd EXCEPT ![x] = g, ![y] = h]
    PROVE  Stored'
  BY DEF Stored, TypeOK

\* The handle of y, converted to the kind of x, is one of that kind.
LEMMA ConvertedIsStored ==
    ASSUME ConversionsStay, Stored, NEW x \in Rc, NEW y \in Rc,
           <<KindOf[y], KindOf[x]>> \in Constructs \cup Assigns
    PROVE  HandleAs(x, y) \in KindHandles(KindOf[x])
  BY DEF ConversionsStay, Stored, HandleAs

LEMMA StoredKept ==
    ASSUME ConversionsStay, TypeOK, Stored, [Next]_vars
    PROVE  Stored'
  <1> USE InvalidIsStored, GivenIsStored, ChangedIsStored
  <1>1. ASSUME NEW r \in Resource, ClientOp(r) PROVE Stored'
    BY <1>1 DEF ClientOp, ClientClose, Acquire, Stored
  <1>2. ASSUME NEW x \in Rc, ConstructEmpty(x) PROVE Stored'
    BY <1>2 DEF ConstructEmpty, Begin
  <1>3. ASSUME NEW x \in Rc, NEW h \in Handle, ConstructHandle(x, h) PROVE Stored'
    BY <1>3 DEF ConstructHandle, Begin
  <1>4. ASSUME NEW x \in Rc, NEW h \in Handle, NEW t \in Tag, ConstructWith(x, h, t)
        PROVE  Stored'
    BY <1>4 DEF ConstructWith, Begin
  <1>5. ASSUME NEW x \in Rc, NEW h \in Handle, Reset(x, h) PROVE Stored'
    <2>1. h \in KindHandles(KindOf[x])
      BY <1>5 DEF Reset, Stored
    <2>2. QED BY <1>5, <2>1 DEF Reset
  <1>6. ASSUME NEW x \in Rc, Release(x) \/ Destroy(x) PROVE Stored'
    BY <1>6 DEF Release, Destroy
  <1>7. ASSUME NEW x \in Rc, SelfMoveAssign(x) PROVE Stored'
    BY <1>7 DEF SelfMoveAssign, Stored
  <1>8. ASSUME NEW x \in Rc, NEW y \in Rc, MoveConstruct(x, y) \/ MoveAssign(x, y)
        PROVE  Stored'
    <2>1. hnd[y] \in KindHandles(KindOf[x])
      BY <1>8 DEF MoveConstruct, MoveAssign, Stored
    <2>2. QED BY <1>8, <2>1 DEF MoveConstruct, MoveAssign, BeginFrom, AssignFrom
  <1>9. ASSUME NEW x \in Rc, NEW y \in Rc, ConvertConstruct(x, y) \/ ConvertAssign(x, y)
        PROVE  Stored'
    <2>1. HandleAs(x, y) \in KindHandles(KindOf[x])
      BY <1>9, ConvertedIsStored DEF ConvertConstruct, ConvertAssign
    <2>2. QED BY <1>9, <2>1 DEF ConvertConstruct, ConvertAssign, BeginFrom, AssignFrom
  <1>10. ASSUME NEW x \in Rc, NEW y \in Rc, Swap(x, y) PROVE Stored'
    <2>1. hnd[y] \in KindHandles(KindOf[x]) /\ hnd[x] \in KindHandles(KindOf[y])
      BY <1>10 DEF Swap, Stored
    <2>2. QED BY <1>10, <2>1 DEF Swap
  <1>11. CASE UNCHANGED vars
    BY <1>11 DEF vars, Stored
  <1>12. QED
    BY <1>1, <1>2, <1>3, <1>4, <1>5, <1>6, <1>7, <1>8, <1>9, <1>10, <1>11
       DEF Next, RcOp, RcPairOp

LEMMA StoredInvariance ==
    ASSUME ConversionsStay
    PROVE  Spec => []Stored
  <1>1. Init => Stored
    BY InvalidIsStored DEF Init, Stored
  <1>2. TypeOK /\ Stored /\ [Next]_vars => Stored'
    BY StoredKept
  <1>3. QED BY <1>1, <1>2, TypeCorrect, PTL DEF Spec

\* Under policies that own every handle of their kind but invalid(), the ways of
\* comparing with nullptr agree where invalid() is nullptr.
THEOREM NullComparisons ==
    ASSUME OwnsAllButInvalid, ConversionsStay
    PROVE  Spec => []EmptinessAgrees
  <1>1. TypeOK /\ Stored => EmptinessAgrees
    <2> SUFFICES ASSUME TypeOK, Stored, NEW x \in alive, NEW y \in alive,
                        NullIsInvalid(x), NullIsInvalid(y)
                 PROVE  /\ EqualNull(x) <=> CompareNull(x) = "equal"
                        /\ EqualNull(x) => (EqualNull(y) <=> Equal(x, y))
                        /\ EqualNull(x) /\ ~EqualNull(y) => Compare(x, y) = "less"
      BY DEF EmptinessAgrees
    <2>1. \A z \in alive : z \in Rc /\ hnd[z] \in KindHandles(KindOf[z]) /\ hnd[z] \in Handle
      BY DEF TypeOK, Stored
    <2>2. \A z \in alive : NullIsInvalid(z) => (EqualNull(z) <=> hnd[z] = null)
      BY <2>1 DEF NullIsInvalid, EqualNull, Bool, IsOwned, Invalid, OwnsAllButInvalid
    <2>3. CompareNull(x) = IF hnd[x] = null THEN "equal" ELSE "greater"
      BY ComparisonAssumption DEF CompareNull, Order
    <2>4. Equal(x, y) <=> hnd[x] = hnd[y]
      BY <2>1, ComparisonAssumption DEF Equal, HandlesTell
    <2>5. hnd[x] = null /\ hnd[y] # null => Compare(x, y) = "less"
      BY <2>1, ComparisonAssumption DEF Compare, Order
    <2>6. QED BY <2>2, <2>3, <2>4, <2>5
  <1>2. QED BY <1>1, TypeCorrect, StoredInvariance, PTL

------------------------------------------------------------------------------
(* The shipped policies.                                                     *)

\* What a policy answers for one kind, as PolicyFits asks.
Tells(k) == /\ ShippedResourceOf[k] \subseteq PolicyOf[k].owned
            /\ ShippedFailureOf[k] \cap PolicyOf[k].owned = {}
            /\ PolicyOf[k].invalid \notin PolicyOf[k].owned

LEMMA FileTells == ApiFits => Tells("file")
  BY DEF ApiFits, Tells, ShippedKind, ShippedResourceOf, ShippedFailureOf, PolicyOf,
         HandleOf, OrNull, InvalidHandleValuePolicy, Policy

LEMMA CoroTells == ApiFits => Tells("coro")
  BY DEF ApiFits, Tells, ShippedKind, ShippedResourceOf, ShippedFailureOf, PolicyOf,
         HandleOf, OrNull, CoroPolicy, Policy

\* The policies of composite handles look at the member that failure leaves null.
LEMMA DcWndTells == ApiFits => Tells("dc_wnd")
  <1> USE DEF DcWnd
  <1>1. /\ PolicyOf["dc_wnd"].invalid = DcWnd(null, null)
        /\ PolicyOf["dc_wnd"].owned =
              {h \in {DcWnd(d, w) : d \in OrNull(Hdc), w \in OrNull(Hwnd)} : h.hdc # null}
    BY DEF PolicyOf, ShippedKind, HandleOf, DcWndPolicy, Policy
  <1>2. /\ ShippedResourceOf["dc_wnd"] = {DcWnd(d, w) : d \in Hdc, w \in OrNull(Hwnd)}
        /\ ShippedFailureOf["dc_wnd"] = {DcWnd(null, w) : w \in OrNull(Hwnd)}
    BY DEF ShippedKind, ShippedResourceOf, ShippedFailureOf
  <1>3. QED BY <1>1, <1>2 DEF ApiFits, Tells, OrNull

LEMMA DcStateTells == ApiFits => Tells("dc_state")
  <1> USE DEF DcState
  <1>1. /\ PolicyOf["dc_state"].invalid = DcState(null, 0)
        /\ PolicyOf["dc_state"].owned =
              {h \in {DcState(d, s) : d \in OrNull(Hdc), s \in State \cup {0}} :
                  h.hdc # null /\ h.state # 0}
    BY DEF PolicyOf, ShippedKind, HandleOf, DcStatePolicy, Policy
  <1>2. /\ ShippedResourceOf["dc_state"] = {DcState(d, s) : d \in Hdc, s \in State}
        /\ ShippedFailureOf["dc_state"] = {DcState(d, 0) : d \in OrNull(Hdc)}
    BY DEF ShippedKind, ShippedResourceOf, ShippedFailureOf
  <1>3. QED BY <1>1, <1>2 DEF ApiFits, Tells, OrNull

LEMMA DcGdiObjTells == ApiFits => Tells("dc_gdiobj")
  <1> USE DEF DcGdiObj
  <1>1. /\ PolicyOf["dc_gdiobj"].invalid = DcGdiObj(null, null)
        /\ PolicyOf["dc_gdiobj"].owned =
              {h \in {DcGdiObj(d, o) : d \in OrNull(Hdc), o \in OrNull(Hgdiobj)} :
                  h.hobj # null}
    BY DEF PolicyOf, ShippedKind, HandleOf, DcGdiObjPolicy, Policy
  <1>2. /\ ShippedResourceOf["dc_gdiobj"] = {DcGdiObj(d, o) : d \in Hdc, o \in Hgdiobj}
        /\ ShippedFailureOf["dc_gdiobj"] = {DcGdiObj(d, null) : d \in OrNull(Hdc)}
    BY DEF ShippedKind, ShippedResourceOf, ShippedFailureOf
  <1>3. QED BY <1>1, <1>2 DEF ApiFits, Tells, OrNull

\* Each shipped policy recognises what the functions it is made for return when
\* they succeed, and nothing that they return when they fail, for all handles.
THEOREM ShippedPoliciesFit ==
    ASSUME AreShipped, SelfResets => Checked
    PROVE  Fits
  <1>1. \A k \in ShippedKind : Tells(k)
    BY FileTells, CoroTells, DcWndTells, DcStateTells, DcGdiObjTells
       DEF ShippedKind, AreShipped
  <1>2. PolicyFits
    BY <1>1 DEF AreShipped, Tells, PolicyFits, ShippedInvalidOf, ShippedOwnedOf
  <1>3. ConversionFits
    BY DEF AreShipped, ConversionFits
  <1>4. HandlesTell
    BY DEF AreShipped, HandlesTell
  <1>5. QED BY <1>2, <1>3, <1>4 DEF Fits, RunningFits

\* An object with a shipped policy says that it owns something only if it does, be
\* it given to it by a function that succeeded or one that failed.
THEOREM ShippedBoolIsTruthful ==
    ASSUME AreShipped, SelfResets => Checked
    PROVE  Spec => []BoolMeansLive
  BY ShippedPoliciesFit, BoolIsTruthful

\* And what such functions made is never left because a policy does not know it.
THEOREM ShippedNeverLeaks ==
    ASSUME AreShipped, SelfResets => Checked
    PROVE  Spec => []NoLeak
  BY ShippedPoliciesFit, NeverLeaks
==============================================================================

---------------------------- MODULE UniquePtrProofs ---------------------------
(***************************************************************************)
(* Proofs about UniquePtr, for every set of classes and types: the          *)
(* constraints of unique_ptr and default_delete admit only conversions that *)
(* fit, so every delete-expression is used on what it may be used on.       *)
(***************************************************************************)
EXTENDS UniquePtr, UniqueRcRefinement

\* A permitted conversion leads to a type whose delete-expression is right for
\* everything the original type's is right for.
LEMMA ConvertedStillDeletes ==
    ASSUME PolymorphicBases, NEW p \in PtrConstructs, NEW u \in PtrTag,
           Deletes(Form(p[1]), u)
    PROVE  Deletes(Form(p[2]), u)
  <1>1. /\ p[1].array = p[2].array
        /\ IF p[2].array THEN ArrayConvertible(p[1], p[2])
                         ELSE PointerConvertible(p[1], p[2])
    BY DEF PtrConstructs, DeleterConvertible
  <1>2. /\ Form(p[1]).class = p[1].class /\ Form(p[1]).array = p[1].array
        /\ Form(p[2]).class = p[2].class /\ Form(p[2]).array = p[2].array
    BY DEF Form
  <1>3. CASE p[2].array
    BY <1>1, <1>2, <1>3 DEF ArrayConvertible, Deletes
  <1>4. CASE ~p[2].array
    <2>1. p[1].class = p[2].class \/ <<p[1].class, p[2].class>> \in Derived
      BY <1>1, <1>4 DEF PointerConvertible
    <2>2. CASE p[1].class = p[2].class
      BY <1>1, <1>2, <1>4, <2>2 DEF Deletes
    <2>3. CASE <<p[1].class, p[2].class>> \in Derived
      <3>1. p[2].class \in Virtual
        BY <2>3 DEF PolymorphicBases
      <3>2. u.class = p[1].class \/ <<u.class, p[1].class>> \in Derived
        BY <1>2 DEF Deletes
      <3>3. <<u.class, p[2].class>> \in Derived
        <4>1. \A q, r \in Derived : q[2] = r[1] => <<q[1], r[2]>> \in Derived
          BY PtrAssumption
        <4>2. QED BY <2>3, <3>2, <4>1
      <3>4. QED BY <1>1, <1>2, <1>4, <3>1, <3>3 DEF Deletes
    <2>4. QED BY <2>1, <2>2, <2>3
  <1>5. QED BY <1>3, <1>4

LEMMA PtrPolicyFits ==
    ASSUME IsUniquePtr
    PROVE  PolicyFits
  <1>1. \A k \in Kind : /\ OwnedOf[k] = Handle \ {null} /\ InvalidOf[k] = null
                        /\ FailureOf[k] = {null} /\ ResourceOf[k] = Resource
    BY DEF IsUniquePtr, PtrOwnedOf, PtrInvalidOf, PtrFailureOf, PtrResourceOf,
           DefaultPolicy, Policy
  <1>2. null \notin Resource /\ Resource \subseteq Handle
    BY PtrAssumption, ConstantsAssumption
  <1>3. QED BY <1>1, <1>2 DEF PolicyFits

LEMMA PtrConversionFits ==
    ASSUME IsUniquePtr, PolymorphicBases
    PROVE  ConversionFits
  <1> SUFFICES ASSUME NEW p \in Constructs \cup Assigns
               PROVE  /\ \A h \in Handle :
                            LET c == Cast[p[1]][p[2]][h]
                            IN  IF h \in OwnedOf[p[1]] THEN c = h /\ c \in OwnedOf[p[2]]
                                                      ELSE c \notin OwnedOf[p[2]]
                      /\ \A u \in Closes : u[1] \in TagOf[p[1]] =>
                            <<CastDel[p[1]][p[2]][u[1]], u[2]>> \in Closes
    BY DEF ConversionFits
  <1>1. p \in PtrConstructs
    BY DEF IsUniquePtr, PtrAssigns
  <1>2. p[1] \in Kind /\ p[2] \in Kind
    BY <1>1 DEF PtrConstructs
  <1>3. ASSUME NEW h \in Handle
        PROVE  Cast[p[1]][p[2]][h] = h /\ OwnedOf[p[1]] = OwnedOf[p[2]]
    BY <1>2 DEF IsUniquePtr, PtrCast, PtrOwnedOf
  <1>4. ASSUME NEW u \in Closes, u[1] \in TagOf[p[1]]
        PROVE  <<CastDel[p[1]][p[2]][u[1]], u[2]>> \in Closes
    <2>1. u[1] = Form(p[1]) /\ u[2] \in PtrTag /\ Deletes(u[1], u[2])
      BY <1>2, <1>4 DEF IsUniquePtr, PtrTagOf, PtrCloses
    <2>2. Deletes(Form(p[2]), u[2])
      BY <1>1, <2>1, ConvertedStillDeletes
    <2>3. u[1] \in Tag /\ u[1] # Gutted
      BY <1>4, ConstantsAssumption
    <2>4. CastDel[p[1]][p[2]][u[1]] = Form(p[2])
      BY <1>2, <2>3 DEF IsUniquePtr, PtrCastDel
    <2>5. Form(p[2]) \in PtrTag
      BY <1>2 DEF PtrTag
    <2>6. <<Form(p[2]), u[2]>> \in PtrCloses
      BY <2>1, <2>2, <2>5 DEF PtrCloses
    <2>7. QED BY <2>4, <2>6 DEF IsUniquePtr
  <1>5. QED BY <1>3, <1>4

\* What the template arguments of unique_rc have to satisfy, those unique_ptr
\* passes do.
THEOREM PtrFits ==
    ASSUME IsUniquePtr, PolymorphicBases, SelfResets => Checked
    PROVE  Fits
  <1>1. HandlesTell
    BY DEF IsUniquePtr, PtrCompared, HandlesTell
  <1>2. QED BY <1>1, PtrPolicyFits, PtrConversionFits DEF Fits, RunningFits

------------------------------------------------------------------------------
(* The operations unique_ptr adds keep the invariant.                        *)

LEMMA MakeUniqueKeeps ==
    ASSUME IsUniquePtr, IInv, NEW x \in Rc, NEW r \in Resource, MakeUnique(x, r)
    PROVE  IInv'
  <1> DEFINE k == KindOf[x]
             t == Form(k)
  <1>1. k \in Kind /\ t \in Tag /\ DefaultTag[k] = t /\ <<t, t>> \in Closes
    BY ConstantsAssumption
       DEF IsUniquePtr, PtrDefaultTag, PtrTag, PtrCloses, Deletes
  <1>2. r \in ResourceOf[k]
    BY <1>1 DEF IsUniquePtr, PtrResourceOf
  <1>3. QED BY <1>1, <1>2, PtrPolicyFits, BeginOpenedKeeps DEF MakeUnique

LEMMA AssignNullIsNext ==
    ASSUME NEW x \in Rc, AssignNull(x)
    PROVE  Next
  <1>1. Invalid(x) \in Handle
    BY ConstantsAssumption DEF Invalid
  <1>2. RcOp(x)
    BY <1>1 DEF AssignNull, RcOp
  <1>3. QED BY <1>2 DEF Next

LEMMA StepPtrIInv ==
    ASSUME IsUniquePtr, Fits
    PROVE  IInv /\ [PtrNext]_vars => IInv'
  <1> SUFFICES ASSUME IInv, [PtrNext]_vars PROVE IInv'
    OBVIOUS
  <1>1. CASE Next \/ UNCHANGED vars
    BY <1>1, StepIInv
  <1>2. ASSUME NEW x \in Rc, AssignNull(x) PROVE IInv'
    BY <1>2, AssignNullIsNext, StepIInv
  <1>3. ASSUME NEW x \in Rc, NEW r \in Resource, MakeUnique(x, r) PROVE IInv'
    BY <1>3, MakeUniqueKeeps
  <1>4. QED BY <1>1, <1>2, <1>3 DEF PtrNext

LEMMA PtrInvariance ==
    ASSUME IsUniquePtr, PolymorphicBases, SelfResets => Checked
    PROVE  PtrSpec => []IInv
  <1>1. Fits
    BY PtrFits
  <1>2. IInv /\ [PtrNext]_vars => IInv'
    BY <1>1, StepPtrIInv
  <1>3. QED BY <1>2, InitIInv, PTL DEF PtrSpec

\* No delete-expression is ever used on null, on what is not allocated, on an
\* array in the form for an object or the reverse, or through a wrong class.
THEOREM DeletionIsDefined ==
    ASSUME IsUniquePtr, PolymorphicBases, SelfResets => Checked
    PROVE  PtrSpec => []NoFault
  <1>1. IInv => NoFault
    BY DEF IInv
  <1>2. QED BY <1>1, PtrInvariance, PTL

\* Everything allocated, by make_unique or by the client, is somebody's to delete.
THEOREM NothingIsLeaked ==
    ASSUME IsUniquePtr, PolymorphicBases, SelfResets => Checked
    PROVE  PtrSpec => []NoLeak
  <1>1. IInv => NoLeak
    BY DEF IInv
  <1>2. QED BY <1>1, PtrInvariance, PTL

\* Wherever operator bool is true, the delete-expression of the object's own type
\* is the one its pointer needs: no conversion, move or swap separates the two.
THEOREM StoredIsDeletable ==
    ASSUME IsUniquePtr, PolymorphicBases, SelfResets => Checked
    PROVE  PtrSpec => []BoolMeansLive
  <1>1. IInv => BoolMeansLive
    BY DEF IInv
  <1>2. QED BY <1>1, PtrInvariance, PTL

LEMMA PtrStepMaps ==
    ASSUME IsUniquePtr, Fits
    PROVE  IInv /\ IInv' /\ [PtrNext]_vars => [Abstract!Next]_ownerBar
  <1> SUFFICES ASSUME IInv, IInv', [PtrNext]_vars
               PROVE  [Abstract!Next]_ownerBar
    OBVIOUS
  <1>1. CASE Next \/ UNCHANGED vars
    BY <1>1, StepMaps
  <1>2. ASSUME NEW x \in Rc, AssignNull(x) PROVE [Abstract!Next]_ownerBar
    BY <1>2, AssignNullIsNext, StepMaps
  <1>3. ASSUME NEW x \in Rc, NEW r \in Resource, MakeUnique(x, r) PROVE Abstract!Next
    <2> DEFINE t == Form(KindOf[x])
    <2>1. t \in Tag /\ r \in ResourceOf[KindOf[x]]
      BY ConstantsAssumption DEF IsUniquePtr, PtrTag, PtrResourceOf
    <2>2. BeginOpened(x, r, t)
      BY <1>3 DEF MakeUnique
    <2> HIDE DEF t
    <2>3. QED BY <2>1, <2>2, OpenedMaps
  <1>4. QED BY <1>1, <1>2, <1>3 DEF PtrNext

\* unique_ptr, with what it adds and every conversion it allows, still transfers
\* responsibility for an object only as Ownership does.
THEOREM PtrImplementsOwnership ==
    ASSUME IsUniquePtr, PolymorphicBases, SelfResets => Checked
    PROVE  PtrSpec => OwnershipSpec
  <1>1. Fits
    BY PtrFits
  <1>2. IInv /\ IInv' /\ [PtrNext]_vars => [Abstract!Next]_ownerBar
    BY <1>1, PtrStepMaps
  <1>3. QED
    BY <1>2, InitMaps, PtrInvariance, PTL DEF PtrSpec, OwnershipSpec, Abstract!Spec
==============================================================================

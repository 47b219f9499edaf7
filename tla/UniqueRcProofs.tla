---------------------------- MODULE UniqueRcProofs ---------------------------
(***************************************************************************)
(* Proofs about UniqueRc, for every number of objects, resources, kinds and *)
(* deleters: type correctness of every instantiation, and the ownership     *)
(* invariants of those whose template arguments fit (Fits).                 *)
(***************************************************************************)
EXTENDS UniqueRc, TLAPS

(* Type correctness.                                                         *)

LEMMA InitTypeOK == Init => TypeOK
  BY ConstantsAssumption DEF Init, TypeOK, Invalid

LEMMA CloseTypeOK ==
    ASSUME TypeOK, NEW called \in BOOLEAN, NEW d, NEW h,
           CallDeleter(called, d, h)
    PROVE  res' \in [Resource -> Tag \cup {Closed}] /\ fault' \in BOOLEAN
  <1>1. res' \in [Resource -> Tag \cup {Closed}]
    BY DEF TypeOK, CallDeleter
  <1>2. fault' \in BOOLEAN
    BY Zenon DEF TypeOK, CallDeleter
  <1>3. QED BY <1>1, <1>2

LEMMA ResetTypeOK ==
    ASSUME TypeOK, NEW x, NEW old, NEW h, ResetFrom(x, old, h)
    PROVE  /\ res' \in [Resource -> Tag \cup {Closed}]
           /\ fault' \in BOOLEAN
           /\ aborted' \in BOOLEAN
  <1> DEFINE called == IsOwned(x, old) /\ ~Trips(x, old, h)
  <1>1. CallDeleter(called, del[x], old)
    BY DEF ResetFrom
  <1>2. res' \in [Resource -> Tag \cup {Closed}]
    BY <1>1 DEF TypeOK, CallDeleter
  <1>3. fault' \in BOOLEAN
    BY <1>1, Zenon DEF TypeOK, CallDeleter
  <1>4. aborted' \in BOOLEAN
    BY Zenon DEF ResetFrom, Trips
  <1>5. QED BY <1>2, <1>3, <1>4

LEMMA StepTypeOK == TypeOK /\ [Next]_vars => TypeOK'
  <1> SUFFICES ASSUME TypeOK, [Next]_vars PROVE TypeOK'
    OBVIOUS
  <1> USE ConstantsAssumption
  <1>1. ASSUME NEW r \in Resource, ClientOp(r) PROVE TypeOK'
    <2>1. UNCHANGED <<alive, hnd, del, fault, aborted>>
      BY <1>1 DEF ClientOp, ClientClose, Acquire
    <2>2. PICK t \in Tag \cup {Closed} : res' = [res EXCEPT ![r] = t]
      BY <1>1 DEF ClientOp, ClientClose, Acquire
    <2>3. res' \in [Resource -> Tag \cup {Closed}]
      BY <2>2 DEF TypeOK
    <2>4. raw' \subseteq Resource
      BY <1>1 DEF ClientOp, ClientClose, Acquire, TypeOK
    <2>5. QED BY <2>1, <2>3, <2>4 DEF TypeOK
  <1>2. ASSUME NEW x \in Rc, RcOp(x) PROVE TypeOK'
    <2> KindOf[x] \in Kind /\ Invalid(x) \in Handle
      BY DEF Invalid
    <2>1. CASE ConstructEmpty(x)
      BY <2>1 DEF ConstructEmpty, Begin, TypeOK
    <2>2. ASSUME NEW h \in Handle, ConstructHandle(x, h) PROVE TypeOK'
      BY <2>2 DEF ConstructHandle, Begin, TypeOK
    <2>3. ASSUME NEW h \in Handle, NEW t \in Tag, ConstructWith(x, h, t)
          PROVE  TypeOK'
      BY <2>3 DEF ConstructWith, Begin, TypeOK
    <2>4. ASSUME NEW h \in Handle, Reset(x, h) PROVE TypeOK'
      BY <2>4, ResetTypeOK DEF Reset, TypeOK
    <2>5. CASE Release(x)
      BY <2>5 DEF Release, TypeOK
    <2>6. CASE SelfMoveAssign(x)
      BY <2>6, ResetTypeOK DEF SelfMoveAssign, MovedFrom, TypeOK
    <2>7. CASE Destroy(x)
      <3>1. Bool(x) \in BOOLEAN
        BY DEF Bool, IsOwned
      <3>2. res' \in [Resource -> Tag \cup {Closed}] /\ fault' \in BOOLEAN
        BY <2>7, <3>1, CloseTypeOK DEF Destroy
      <3>3. QED BY <2>7, <3>2 DEF Destroy, TypeOK
    <2>8. QED BY <1>2, <2>1, <2>2, <2>3, <2>4, <2>5, <2>6, <2>7 DEF RcOp
  <1>3. ASSUME NEW x \in Rc, NEW y \in Rc, RcPairOp(x, y) PROVE TypeOK'
    <2> DEFINE D(z) == TagOf[KindOf[z]] \cup {Gutted}
    <2>1. /\ KindOf[x] \in Kind /\ KindOf[y] \in Kind /\ Invalid(y) \in Handle
          /\ \A z \in Rc : del[z] \in D(z) /\ D(z) \subseteq Tag \cup {Gutted}
          /\ hnd[y] \in Handle /\ HandleAs(x, y) \in Handle
      BY DEF Invalid, HandleAs, TypeOK
    <2>2. ASSUME <<KindOf[y], KindOf[x]>> \in Constructs \cup Assigns
           PROVE  DeleterAs(x, y) \in D(x)
      <3> DEFINE p == <<KindOf[y], KindOf[x]>>
      <3>1. \A t \in TagOf[p[1]] \cup {Gutted} :
               CastDel[p[1]][p[2]][t] \in TagOf[p[2]] \cup {Gutted}
        BY <2>2
      <3>2. QED BY <2>1, <3>1 DEF DeleterAs
    <2>3. ASSUME NEW d \in D(x), NEW e \in MovedFrom(y),
                 del' = [del EXCEPT ![x] = d, ![y] = e]
          PROVE  /\ del' \in [Rc -> Tag \cup {Gutted}]
                 /\ \A z \in Rc : del'[z] \in D(z)
      <3>1. d \in Tag \cup {Gutted} /\ e \in D(y) /\ e \in Tag \cup {Gutted}
        BY <2>1 DEF MovedFrom
      <3>2. del' \in [Rc -> Tag \cup {Gutted}]
        BY <2>3, <3>1 DEF TypeOK
      <3>3. ASSUME NEW z \in Rc PROVE del'[z] \in D(z)
        <4>1. \/ z = y /\ del'[z] = e
              \/ z = x /\ del'[z] = d
              \/ del'[z] = del[z]
          BY <2>3, <3>1 DEF TypeOK
        <4>2. QED BY <2>1, <3>1, <4>1
      <3>4. QED BY <3>2, <3>3
    <2>4. ASSUME NEW h \in Handle, NEW d \in D(x), BeginFrom(x, y, h, d) PROVE TypeOK'
      BY <2>1, <2>3, <2>4 DEF BeginFrom, TypeOK
    <2>5. ASSUME NEW h \in Handle, NEW d \in D(x), AssignFrom(x, y, h, d) PROVE TypeOK'
      <3>1. /\ del' \in [Rc -> Tag \cup {Gutted}]
            /\ \A z \in Rc : del'[z] \in D(z)
        BY <2>1, <2>3, <2>5 DEF AssignFrom, DeletersAssigned, TypeOK
      <3>2. QED BY <2>1, <2>5, <3>1, ResetTypeOK DEF AssignFrom, TypeOK
    <2>6. CASE Swap(x, y)
      BY <2>1, <2>6 DEF Swap, TypeOK
    <2>7. CASE MoveConstruct(x, y)
      BY <2>1, <2>4, <2>7 DEF MoveConstruct
    <2>8. CASE ConvertConstruct(x, y)
      BY <2>1, <2>2, <2>4, <2>8 DEF ConvertConstruct
    <2>9. CASE MoveAssign(x, y)
      BY <2>1, <2>5, <2>9 DEF MoveAssign
    <2>10. CASE ConvertAssign(x, y)
      BY <2>1, <2>2, <2>5, <2>10 DEF ConvertAssign
    <2>11. QED BY <1>3, <2>6, <2>7, <2>8, <2>9, <2>10 DEF RcPairOp
  <1>4. CASE UNCHANGED vars
    BY <1>4 DEF vars, TypeOK
  <1>5. QED BY <1>1, <1>2, <1>3, <1>4 DEF Next

\* The variables of every instantiation, fitting or not, keep their types.
THEOREM TypeCorrect == Spec => []TypeOK
  BY InitTypeOK, StepTypeOK, PTL DEF Spec

------------------------------------------------------------------------------
(* The ownership invariants.  Fits is what they need: without it an empty    *)
(* object can count as owned, or an owned resource as not.                   *)

\* What some deleter closes is open.
LEMMA OpenIsOpen ==
    ASSUME NEW h, NEW t, OpenWith(h, t)
    PROVE  res[h] # Closed
  <1>1. <<t, res[h]>> \in Tag \X Tag /\ Closed \notin Tag
    BY ConstantsAssumption DEF OpenWith
  <1>2. QED BY <1>1

LEMMA InitIInv == Init => IInv
  <1> SUFFICES ASSUME Init PROVE IInv
    OBVIOUS
  <1>1. TypeOK
    BY InitTypeOK
  <1>2. QED
    BY <1>1 DEF Init, IInv, NoFault, Exclusive, NoLeak, BoolMeansLive, RawIsOpen

\* Constructing x with a handle that is not owned, or is given up by the client.
LEMMA BeginKeeps ==
    ASSUME IInv, RunningFits, NEW x \in Rc, NEW h \in Handle, NEW t \in Tag,
           MayGive(x, h, t) \/ h = Invalid(x), Begin(x, h, t), TypeOK'
    PROVE  IInv'
  <1> USE DEF Bool, IsOwned
  <1> DEFINE k == KindOf[x]
  <1>1. k \in Kind
    BY ConstantsAssumption
  <1>2. /\ IsOwned(x, h) => h \in raw /\ OpenWith(h, t) /\ h \in ResourceOf[k]
        /\ ~IsOwned(x, h) => h \notin ResourceOf[k]
    BY <1>1, ConstantsAssumption DEF MayGive, Invalid, RunningFits, PolicyFits
  <1>3. /\ hnd' = [hnd EXCEPT ![x] = h] /\ del' = [del EXCEPT ![x] = t]
        /\ alive' = alive \cup {x} /\ x \notin alive
        /\ res' = res /\ fault' = fault
        /\ raw' = IF IsOwned(x, h) THEN raw \ {h} ELSE raw
    BY <1>2 DEF Begin, Fresh, Entrusted
  <1>4. /\ hnd'[x] = h /\ del'[x] = t
        /\ \A y \in alive : hnd'[y] = hnd[y] /\ del'[y] = del[y] /\ y # x
    BY <1>3 DEF IInv, TypeOK
  <1>5. NoFault'
    BY <1>3 DEF IInv, NoFault
  <1>6. Exclusive'
    <2>1. \A y \in alive : Bool(y) => hnd[y] \notin raw
      BY DEF IInv, Exclusive
    <2>2. \A y \in alive : Bool(x)' /\ Bool(y)' => hnd'[x] # hnd'[y]
      BY <1>2, <1>4, <2>1
    <2>3. \A y, z \in alive : Bool(y)' /\ Bool(z)' /\ hnd'[y] = hnd'[z] => y = z
      BY <1>4 DEF IInv, Exclusive
    <2>4. \A y \in alive' : Bool(y)' => hnd'[y] \notin raw'
      BY <1>2, <1>3, <1>4, <2>1
    <2>5. QED BY <1>3, <2>2, <2>3, <2>4 DEF Exclusive
  <1>7. NoLeak'
    BY <1>2, <1>3, <1>4 DEF IInv, NoLeak, Holds
  <1>8. BoolMeansLive'
    BY <1>2, <1>3, <1>4 DEF IInv, BoolMeansLive, OpenWith
  <1>9. RawIsOpen'
    BY <1>3 DEF IInv, RawIsOpen
  <1>10. QED BY <1>5, <1>6, <1>7, <1>8, <1>9 DEF IInv

\* Between kinds that fit, the handle x takes over from y is owned by x exactly
\* when it was owned by y, names the same resource, and comes with a deleter that
\* closes what y's does.
Corresponds(x, y, h, d) ==
    IF Bool(y) THEN /\ h = hnd[y] /\ IsOwned(x, h)
                    /\ OpenWith(hnd[y], del[y]) => OpenWith(h, d)
               ELSE ~IsOwned(x, h)

LEMMA SameKindCorresponds ==
    ASSUME NEW x \in Rc, NEW y \in Rc, KindOf[x] = KindOf[y]
    PROVE  Corresponds(x, y, hnd[y], del[y])
  BY DEF Corresponds, Bool, IsOwned

LEMMA CastCorresponds ==
    ASSUME TypeOK, RunningFits, NEW x \in Rc, NEW y \in Rc,
           <<KindOf[y], KindOf[x]>> \in Constructs \cup Assigns
    PROVE  Corresponds(x, y, HandleAs(x, y), DeleterAs(x, y))
  <1> DEFINE p == <<KindOf[y], KindOf[x]>>
             c == Cast[p[1]][p[2]][hnd[y]]
             d == CastDel[p[1]][p[2]][del[y]]
  <1>1. hnd[y] \in Handle /\ p \in Constructs \cup Assigns
    BY DEF TypeOK
  <1>2. IF hnd[y] \in OwnedOf[p[1]] THEN c = hnd[y] /\ c \in OwnedOf[p[2]]
                                   ELSE c \notin OwnedOf[p[2]]
    BY <1>1 DEF RunningFits, ConversionFits
  <1>3. ASSUME NEW u, <<del[y], u>> \in Closes PROVE <<d, u>> \in Closes
    <2>1. \A v \in Closes : v[1] \in TagOf[p[1]] =>
              <<CastDel[p[1]][p[2]][v[1]], v[2]>> \in Closes
      BY <1>1 DEF RunningFits, ConversionFits
    <2>2. del[y] \in TagOf[KindOf[y]]
      BY <1>3, ConstantsAssumption DEF TypeOK
    <2>3. QED BY <1>3, <2>1, <2>2
  <1>4. HandleAs(x, y) = c /\ DeleterAs(x, y) = d
    BY DEF HandleAs, DeleterAs
  <1>5. QED BY <1>2, <1>3, <1>4 DEF Corresponds, Bool, IsOwned, OpenWith

\* Constructing x from y.
LEMMA BeginFromKeeps ==
    ASSUME IInv, RunningFits, NEW x \in Rc, NEW y \in Rc, NEW h \in Handle,
           NEW d, Corresponds(x, y, h, d), BeginFrom(x, y, h, d), TypeOK'
    PROVE  IInv'
  <1> USE DEF Bool, IsOwned
  <1>1. /\ x \notin alive /\ y \in alive /\ alive' = alive \cup {x} /\ x # y
        /\ res' = res /\ raw' = raw /\ fault' = fault
        /\ hnd'[x] = h /\ hnd'[y] = Invalid(y) /\ del'[x] = d
        /\ \A z \in alive : z # y => hnd'[z] = hnd[z] /\ del'[z] = del[z]
    BY DEF BeginFrom, Fresh, Live, IInv, TypeOK
  <1>2. ~Bool(y)'
    BY <1>1, ConstantsAssumption DEF Invalid, RunningFits, PolicyFits
  <1>3. /\ Bool(x)' <=> Bool(y)
        /\ Bool(y) => h = hnd[y] /\ OpenWith(h, d)
    BY <1>1 DEF Corresponds, IInv, BoolMeansLive
  <1>4. NoFault'
    BY <1>1 DEF IInv, NoFault
  <1>5. Exclusive'
    <2>1. \A z \in alive' : Bool(z)' => hnd'[z] \notin raw'
      BY <1>1, <1>2, <1>3 DEF IInv, Exclusive
    <2>2. \A z \in alive : Bool(x)' /\ Bool(z)' => hnd'[x] # hnd'[z]
      BY <1>1, <1>2, <1>3 DEF IInv, Exclusive
    <2>3. \A z, w \in alive : Bool(z)' /\ Bool(w)' /\ hnd'[z] = hnd'[w] => z = w
      BY <1>1, <1>2 DEF IInv, Exclusive
    <2>4. QED BY <1>1, <2>1, <2>2, <2>3 DEF Exclusive
  <1>6. NoLeak'
    <2> SUFFICES ASSUME NEW r \in Resource, res[r] # Closed, r \notin raw
                 PROVE  \E z \in alive' : Holds(z, r)'
      BY <1>1 DEF NoLeak
    <2>1. PICK z \in alive : Holds(z, r)
      BY DEF IInv, NoLeak
    <2>2. CASE z = y
      BY <1>1, <1>3, <2>1, <2>2 DEF Holds
    <2>3. CASE z # y
      BY <1>1, <2>1, <2>3 DEF Holds
    <2>4. QED BY <2>2, <2>3
  <1>7. BoolMeansLive'
    <2>1. \A z \in alive : Bool(z) => OpenWith(hnd[z], del[z])
      BY DEF IInv, BoolMeansLive
    <2>2. Bool(x)' => OpenWith(hnd'[x], del'[x])
      BY <1>1, <1>3
    <2>3. \A z \in alive : Bool(z)' => OpenWith(hnd'[z], del'[z])
      BY <1>1, <1>2, <2>1
    <2>4. QED BY <1>1, <2>2, <2>3 DEF BoolMeansLive, OpenWith
  <1>8. RawIsOpen'
    BY <1>1 DEF IInv, RawIsOpen
  <1>9. QED BY <1>4, <1>5, <1>6, <1>7, <1>8 DEF IInv

\* What reset(h) does to the world: the resource x owned is closed, properly,
\* and no other one, or the self-reset assertion stops it and nothing changes.
LEMMA ResetEffect ==
    ASSUME IInv, NEW x \in alive, NEW h \in Handle, ResetFrom(x, hnd[x], h)
    PROVE  /\ fault' = FALSE
           /\ Trips(x, hnd[x], h) => res' = res
           /\ ~Trips(x, hnd[x], h) =>
                res' = IF Bool(x) THEN [res EXCEPT ![hnd[x]] = Closed] ELSE res
  <1>1. Bool(x) => OpenWith(hnd[x], del[x])
    BY DEF IInv, BoolMeansLive
  <1>2. fault = FALSE
    BY DEF IInv, NoFault, TypeOK
  <1>3. QED
    BY <1>1, <1>2 DEF ResetFrom, CallDeleter, Bool, OpenWith

\* Only the handle that x itself owns trips the assertion of a reset of x.
LEMMA TripsOnOwn ==
    ASSUME TypeOK, HandlesTell, NEW x \in Rc, NEW h \in Handle, Trips(x, hnd[x], h)
    PROVE  h = hnd[x] /\ Bool(x)
  BY DEF Trips, HandlesTell, TypeOK, Bool

\* Assigning y to x.
LEMMA AssignFromKeeps ==
    ASSUME IInv, RunningFits, NEW x \in Rc, NEW y \in Rc, NEW h \in Handle,
           NEW d, Corresponds(x, y, h, d), AssignFrom(x, y, h, d), TypeOK',
           aborted' => HandlesTell
    PROVE  IInv' /\ ~aborted'
  <1> USE DEF Bool, IsOwned
  <1>1. /\ x \in alive /\ y \in alive /\ x # y /\ alive' = alive
        /\ raw' = raw /\ ResetFrom(x, hnd[x], h)
        /\ hnd'[x] = h /\ hnd'[y] = Invalid(y)
        /\ \A z \in alive : z \notin {x, y} => hnd'[z] = hnd[z]
    BY DEF AssignFrom, Live, IInv, TypeOK
  <1>2. ~Trips(x, hnd[x], h)
    <2> SUFFICES ASSUME Trips(x, hnd[x], h) PROVE FALSE
      OBVIOUS
    <2>1. HandlesTell
      BY <1>1 DEF ResetFrom
    <2>2. QED BY <1>1, <2>1, TripsOnOwn DEF Corresponds, IInv, Exclusive
  <1>3. /\ del'[x] = d
         /\ \A z \in alive : z \notin {x, y} => del'[z] = del[z]
    BY <1>1, <1>2 DEF AssignFrom, DeletersAssigned, ResetFrom, IInv, TypeOK
  <1>4. /\ fault' = FALSE
        /\ res' = IF Bool(x) THEN [res EXCEPT ![hnd[x]] = Closed] ELSE res
    BY <1>1, <1>2, ResetEffect
  <1>5. ~Bool(y)'
    BY <1>1, ConstantsAssumption DEF Invalid, RunningFits, PolicyFits
  <1>6. /\ Bool(x)' <=> Bool(y)
        /\ Bool(y) => h = hnd[y] /\ OpenWith(h, d)
    BY <1>1 DEF Corresponds, IInv, BoolMeansLive
  <1>7. NoFault'
    BY <1>4 DEF NoFault
  <1>8. Exclusive'
    <2>1. \A z \in alive' : Bool(z)' => hnd'[z] \notin raw'
      BY <1>1, <1>5, <1>6 DEF IInv, Exclusive
    <2>2. \A z \in alive : z # x /\ Bool(x)' /\ Bool(z)' => hnd'[x] # hnd'[z]
      BY <1>1, <1>5, <1>6 DEF IInv, Exclusive
    <2>3. \A z, w \in alive : z # x /\ w # x /\ Bool(z)' /\ Bool(w)'
                              /\ hnd'[z] = hnd'[w] => z = w
      BY <1>1, <1>5 DEF IInv, Exclusive
    <2>4. QED BY <1>1, <2>1, <2>2, <2>3 DEF Exclusive
  <1>9. NoLeak'
    <2> SUFFICES ASSUME NEW r \in Resource, res'[r] # Closed, r \notin raw
                 PROVE  \E z \in alive' : Holds(z, r)'
      BY <1>1 DEF NoLeak
    <2>1. res[r] # Closed /\ ~Holds(x, r)
      BY <1>1, <1>4 DEF IInv, TypeOK, Holds
    <2>2. PICK z \in alive : Holds(z, r)
      BY <2>1 DEF IInv, NoLeak
    <2>3. CASE z = y
      BY <1>1, <1>6, <2>2, <2>3 DEF Holds
    <2>4. CASE z # y
      BY <1>1, <2>1, <2>2, <2>4 DEF Holds
    <2>5. QED BY <2>3, <2>4
  <1>10. BoolMeansLive'
    <2>1. \A z \in alive : Bool(z)' => OpenWith(hnd'[z], del'[z])
      BY <1>1, <1>3, <1>5, <1>6 DEF IInv, BoolMeansLive
    <2>2. \A z \in alive : Bool(z)' /\ Bool(x) => hnd'[z] # hnd[x]
      <3> SUFFICES ASSUME NEW z \in alive, Bool(z)', Bool(x)
                   PROVE  hnd'[z] # hnd[x]
        OBVIOUS
      <3>1. CASE z = x
        BY <1>1, <1>6, <3>1 DEF IInv, Exclusive
      <3>2. CASE z # x
        BY <1>1, <1>5, <3>2 DEF IInv, Exclusive
      <3>3. QED BY <3>1, <3>2
    <2>3. QED BY <1>1, <1>4, <2>1, <2>2 DEF BoolMeansLive, OpenWith, IInv, TypeOK
  <1>11. RawIsOpen'
    BY <1>1, <1>4 DEF IInv, RawIsOpen, Exclusive, TypeOK
  <1>12. ~aborted'
    BY <1>1, <1>2 DEF ResetFrom
  <1>13. QED BY <1>7, <1>8, <1>9, <1>10, <1>11, <1>12 DEF IInv

\* An assertion that fires leaves everything as it was.
LEMMA TripKeeps ==
    ASSUME IInv, HandlesTell, NEW x \in Rc, NEW h \in Handle, Reset(x, h),
           Trips(x, hnd[x], h)
    PROVE  UNCHANGED <<res, raw, alive, hnd, del>>
  <1>1. x \in alive /\ h = hnd[x] /\ Bool(x)
    BY TripsOnOwn DEF Reset, Live, IInv
  <1>2. res' = res
    BY <1>1, ResetEffect DEF Reset
  <1>3. raw' = raw
    BY <1>1 DEF Reset, Entrusted, IInv, Exclusive
  <1>4. hnd' = hnd
    BY <1>1 DEF Reset, IInv, TypeOK
  <1>5. QED BY <1>2, <1>3, <1>4 DEF Reset

\* A build that survives a self-reset stops it.
LEMMA SelfResetTrips ==
    ASSUME RunningFits, NEW x, NEW h, Reset(x, h), ~Trips(x, hnd[x], h)
    PROVE  MayGive(x, h, del[x])
  BY DEF Reset, Trips, RunningFits, Bool

LEMMA ResetKeeps ==
    ASSUME IInv, RunningFits, NEW x \in Rc, NEW h \in Handle, Reset(x, h), TypeOK',
           aborted' => HandlesTell
    PROVE  IInv'
  <1> USE DEF Bool, IsOwned
  <1> DEFINE k == KindOf[x]
  <1>1. /\ x \in alive /\ alive' = alive /\ del' = del
        /\ ResetFrom(x, hnd[x], h)
        /\ raw' = raw \ Entrusted(x, h)
        /\ hnd'[x] = h
        /\ \A z \in alive : z # x => hnd'[z] = hnd[z]
    BY DEF Reset, Live, IInv, TypeOK
  <1>2. CASE Trips(x, hnd[x], h)
    <2>1. UNCHANGED <<res, raw, alive, hnd, del>>
      BY <1>1, <1>2, TripKeeps DEF ResetFrom
    <2>2. fault' = FALSE
      BY <1>1, ResetEffect
    <2>3. QED BY <2>1, <2>2 DEF IInv, NoFault, Exclusive, NoLeak, BoolMeansLive,
                                RawIsOpen, Holds, OpenWith
  <1>3. CASE ~Trips(x, hnd[x], h)
    <2>1. MayGive(x, h, del[x])
      BY <1>1, <1>3, SelfResetTrips
    <2>2. /\ IsOwned(x, h) => h \in raw /\ OpenWith(h, del[x]) /\ h \in ResourceOf[k]
          /\ ~IsOwned(x, h) => h \notin ResourceOf[k]
      BY <2>1, ConstantsAssumption DEF MayGive, Invalid, RunningFits, PolicyFits
    <2>3. raw' = IF IsOwned(x, h) THEN raw \ {h} ELSE raw
      BY <1>1, <2>2 DEF Entrusted
    <2>4. /\ fault' = FALSE
          /\ res' = IF Bool(x) THEN [res EXCEPT ![hnd[x]] = Closed] ELSE res
      BY <1>1, <1>3, ResetEffect
    <2>5. \A z \in alive : Bool(z) => hnd[z] \notin raw
      BY DEF IInv, Exclusive
    <2>6. \A z \in alive : Bool(x)' /\ Bool(z)' /\ z # x => hnd'[x] # hnd'[z]
      BY <1>1, <2>2, <2>5
    <2>7. Exclusive'
      <3>1. \A z \in alive' : Bool(z)' => hnd'[z] \notin raw'
        BY <1>1, <2>3, <2>5
      <3>2. \A z, w \in alive : z # x /\ w # x /\ Bool(z)' /\ Bool(w)'
                                /\ hnd'[z] = hnd'[w] => z = w
        BY <1>1 DEF IInv, Exclusive
      <3>3. QED BY <1>1, <2>6, <3>1, <3>2 DEF Exclusive
    <2>8. NoLeak'
      <3> SUFFICES ASSUME NEW r \in Resource, res'[r] # Closed, r \notin raw'
                   PROVE  \E z \in alive' : Holds(z, r)'
        BY DEF NoLeak
      <3>1. CASE r \in raw
        BY <1>1, <2>3, <3>1 DEF Holds
      <3>2. CASE r \notin raw
        <4>1. res[r] # Closed /\ ~Holds(x, r)
          BY <1>1, <2>4 DEF IInv, TypeOK, Holds
        <4>2. PICK z \in alive : Holds(z, r)
          BY <3>2, <4>1 DEF IInv, NoLeak
        <4>3. QED BY <1>1, <4>1, <4>2 DEF Holds
      <3>3. QED BY <3>1, <3>2
    <2>9. BoolMeansLive'
      <3>1. \A z \in alive : Bool(z)' => OpenWith(hnd'[z], del'[z])
        BY <1>1, <2>2 DEF IInv, BoolMeansLive
      <3>2. \A z \in alive : Bool(z)' /\ Bool(x) => hnd'[z] # hnd[x]
        <4> SUFFICES ASSUME NEW z \in alive, Bool(z)', Bool(x)
                     PROVE  hnd'[z] # hnd[x]
          OBVIOUS
        <4>1. CASE z = x
          BY <1>1, <2>2, <2>5, <4>1
        <4>2. CASE z # x
          BY <1>1, <4>2 DEF IInv, Exclusive
        <4>3. QED BY <4>1, <4>2
      <3>3. QED BY <1>1, <2>4, <3>1, <3>2 DEF BoolMeansLive, OpenWith, IInv, TypeOK
    <2>10. RawIsOpen'
      BY <1>1, <2>3, <2>4, <2>5 DEF IInv, RawIsOpen, TypeOK
    <2>11. QED BY <2>4, <2>7, <2>8, <2>9, <2>10 DEF IInv, NoFault
  <1>4. QED BY <1>2, <1>3

LEMMA ReleaseKeeps ==
    ASSUME IInv, RunningFits, NEW x \in Rc, Release(x), TypeOK'
    PROVE  IInv'
  <1> USE DEF Bool, IsOwned
  <1>1. /\ x \in alive /\ alive' = alive /\ del' = del
        /\ res' = res /\ fault' = fault
        /\ hnd'[x] = Invalid(x)
        /\ \A z \in alive : z # x => hnd'[z] = hnd[z]
    BY DEF Release, Live, IInv, TypeOK
  <1>2. ~Bool(x)'
    BY <1>1, ConstantsAssumption DEF Invalid, RunningFits, PolicyFits
  <1>3. Bool(x) => OpenWith(hnd[x], del[x])
    BY <1>1 DEF IInv, BoolMeansLive
  <1>4. raw' = IF Bool(x) THEN raw \cup {hnd[x]} ELSE raw
    BY <1>3 DEF Release, OpenWith
  <1>5. Exclusive'
    <2>1. \A z \in alive : Bool(z)' => hnd'[z] \notin raw'
      BY <1>1, <1>2, <1>4 DEF IInv, Exclusive
    <2>2. \A z, w \in alive : Bool(z)' /\ Bool(w)' /\ hnd'[z] = hnd'[w] => z = w
      BY <1>1, <1>2 DEF IInv, Exclusive
    <2>3. QED BY <1>1, <2>1, <2>2 DEF Exclusive
  <1>6. NoLeak'
    <2> SUFFICES ASSUME NEW r \in Resource, res[r] # Closed, r \notin raw'
                 PROVE  \E z \in alive : Holds(z, r)'
      BY <1>1 DEF NoLeak
    <2>1. PICK z \in alive : Holds(z, r)
      BY <1>4 DEF IInv, NoLeak
    <2>2. z # x
      BY <1>4, <2>1 DEF Holds
    <2>3. QED BY <1>1, <2>1, <2>2 DEF Holds
  <1>7. BoolMeansLive'
    BY <1>1, <1>2 DEF IInv, BoolMeansLive, OpenWith
  <1>8. RawIsOpen'
    BY <1>1, <1>3, <1>4, ConstantsAssumption
       DEF IInv, RawIsOpen, OpenWith
  <1>9. QED BY <1>1, <1>5, <1>6, <1>7, <1>8 DEF IInv, NoFault

\* Self-move-assignment closes nothing, and keeps the deleter of an owner.
LEMMA SelfMoveKeeps ==
    ASSUME IInv, RunningFits, NEW x \in Rc, SelfMoveAssign(x), TypeOK'
    PROVE  IInv' /\ ~aborted'
  <1> USE DEF Bool, IsOwned
  <1>1. ~IsOwned(x, Invalid(x))
    BY ConstantsAssumption DEF Invalid, RunningFits, PolicyFits
  <1>2. ~Trips(x, Invalid(x), hnd[x])
    BY <1>1 DEF Trips
  <1>3. ~aborted'
    BY <1>2 DEF SelfMoveAssign, ResetFrom
  <1>4. res' = res /\ fault' = fault
    BY <1>1 DEF SelfMoveAssign, ResetFrom, CallDeleter, IInv, NoFault, TypeOK
  <1>5. /\ UNCHANGED <<raw, alive, hnd>>
        /\ \A z \in alive : Bool(z) => del'[z] = del[z]
    BY <1>3 DEF SelfMoveAssign, IInv, TypeOK
  <1>6. QED BY <1>4, <1>5, <1>3 DEF IInv, NoFault, Exclusive, NoLeak,
                                   BoolMeansLive, RawIsOpen, Holds, OpenWith

LEMMA SwapKeeps ==
    ASSUME IInv, RunningFits, NEW x \in Rc, NEW y \in Rc, Swap(x, y), TypeOK'
    PROVE  IInv'
  <1> USE DEF Bool, IsOwned
  <1>1. PICK other \in [Rc -> Rc] :
           \A z \in Rc : other[z] = CASE z = x -> y [] z = y -> x [] OTHER -> z
    <2> WITNESS [z \in Rc |-> CASE z = x -> y [] z = y -> x [] OTHER -> z]
                  \in [Rc -> Rc]
    <2> QED OBVIOUS
  <1>2. /\ x \in alive /\ y \in alive /\ UNCHANGED <<res, raw, alive, fault>>
        /\ KindOf[x] = KindOf[y]
        /\ alive \subseteq Rc
    BY DEF Swap, Live, IInv, TypeOK
  <1>3. \A z \in alive : /\ other[z] \in alive /\ other[other[z]] = z
                        /\ KindOf[other[z]] = KindOf[z]
                        /\ hnd'[z] = hnd[other[z]]
                        /\ del'[z] = del[other[z]]
    BY <1>1, <1>2 DEF Swap, IInv, TypeOK
  <1>4. \A z \in alive : Bool(z)' <=> Bool(other[z])
    BY <1>3
  <1>5. Exclusive'
    <2>1. \A z, w \in alive : Bool(z)' /\ Bool(w)' /\ hnd'[z] = hnd'[w]
                              => other[z] = other[w]
      <3> SUFFICES ASSUME NEW z \in alive, NEW w \in alive,
                          Bool(z)', Bool(w)', hnd'[z] = hnd'[w]
                   PROVE  other[z] = other[w]
        OBVIOUS
      <3>1. /\ Bool(other[z]) /\ Bool(other[w])
            /\ hnd[other[z]] = hnd[other[w]]
            /\ other[z] \in alive /\ other[w] \in alive
        BY <1>3, <1>4
      <3>2. QED BY <3>1 DEF IInv, Exclusive
    <2>2. \A z \in alive : Bool(z)' => hnd'[z] \notin raw
      BY <1>3, <1>4 DEF IInv, Exclusive
    <2>3. QED BY <1>2, <1>3, <2>1, <2>2 DEF Exclusive
  <1>6. NoLeak'
    <2> SUFFICES ASSUME NEW r \in Resource, res[r] # Closed, r \notin raw
                 PROVE  \E z \in alive : Holds(z, r)'
      BY <1>2 DEF NoLeak
    <2>1. PICK z \in alive : Holds(z, r)
      BY DEF IInv, NoLeak
    <2>2. other[z] \in alive /\ other[other[z]] = z
      BY <1>3
    <2>3. Bool(other[z])' /\ hnd'[other[z]] = r
      BY <1>3, <1>4, <2>1, <2>2 DEF Holds
    <2>4. QED BY <1>2, <2>2, <2>3 DEF Holds
  <1>7. BoolMeansLive'
    <2>1. \A z \in alive : Bool(z)' => OpenWith(hnd'[z], del'[z])
      BY <1>3, <1>4 DEF IInv, BoolMeansLive
    <2>2. QED BY <1>2, <2>1 DEF BoolMeansLive, OpenWith
  <1>8. NoFault' /\ RawIsOpen'
    BY <1>2 DEF IInv, NoFault, RawIsOpen
  <1>9. QED BY <1>5, <1>6, <1>7, <1>8 DEF IInv

LEMMA DestroyKeeps ==
    ASSUME IInv, NEW x \in Rc, Destroy(x), TypeOK'
    PROVE  IInv'
  <1> USE DEF Bool, IsOwned
  <1>1. /\ x \in alive /\ alive' = alive \ {x} /\ raw' = raw
        /\ \A z \in alive' : hnd'[z] = hnd[z] /\ del'[z] = del[z]
    BY DEF Destroy, Live, IInv, TypeOK
  <1>2. Bool(x) => OpenWith(hnd[x], del[x])
    BY <1>1 DEF IInv, BoolMeansLive
  <1>3. /\ fault' = FALSE
        /\ res' = IF Bool(x) THEN [res EXCEPT ![hnd[x]] = Closed] ELSE res
    BY <1>2 DEF Destroy, CallDeleter, OpenWith, IInv, NoFault, TypeOK
  <1>4. Exclusive'
    BY <1>1 DEF IInv, Exclusive
  <1>5. NoLeak'
    <2> SUFFICES ASSUME NEW r \in Resource, res'[r] # Closed, r \notin raw
                 PROVE  \E z \in alive' : Holds(z, r)'
      BY <1>1 DEF NoLeak
    <2>1. res[r] # Closed /\ ~Holds(x, r)
      BY <1>1, <1>3 DEF IInv, TypeOK, Holds
    <2>2. PICK z \in alive : Holds(z, r)
      BY <2>1 DEF IInv, NoLeak
    <2>3. QED BY <1>1, <2>1, <2>2 DEF Holds
  <1>6. BoolMeansLive'
    <2>1. \A z \in alive' : Bool(z)' /\ Bool(x) => hnd'[z] # hnd[x]
      BY <1>1 DEF IInv, Exclusive
    <2>2. QED BY <1>1, <1>3, <2>1 DEF BoolMeansLive, OpenWith, IInv, TypeOK
  <1>7. RawIsOpen'
    BY <1>1, <1>3 DEF IInv, RawIsOpen, Exclusive, TypeOK
  <1>8. QED BY <1>3, <1>4, <1>5, <1>6, <1>7 DEF IInv, NoFault

\* Opening and closing outside the library.
LEMMA ClientKeeps ==
    ASSUME IInv, NEW r \in Resource, ClientOp(r), TypeOK'
    PROVE  IInv' /\ ~aborted'
  <1> USE ConstantsAssumption DEF Bool, IsOwned
  <1>1. /\ UNCHANGED <<alive, hnd, del, fault, aborted>>
        /\ ~aborted
    BY DEF ClientOp, ClientClose, Acquire
  <1>2. \A s \in Resource : s # r => res'[s] = res[s] /\ (s \in raw' <=> s \in raw)
    BY DEF ClientOp, ClientClose, Acquire, IInv, TypeOK
  <1>3. \A z \in alive : Bool(z) => hnd[z] # r
    <2>1. \A z \in alive : Bool(z) => hnd[z] \notin raw
      BY DEF IInv, Exclusive
    <2>2. \A z \in alive : Bool(z) => res[hnd[z]] # Closed
      BY OpenIsOpen DEF IInv, BoolMeansLive
    <2>3. r \in raw \/ res[r] = Closed
      BY DEF ClientOp, ClientClose, Acquire
    <2>4. QED BY <2>1, <2>2, <2>3
  <1>4. res'[r] # Closed <=> r \in raw'
    BY DEF ClientOp, ClientClose, Acquire, IInv, TypeOK
  <1>5. Exclusive'
    BY <1>1, <1>2, <1>3 DEF IInv, Exclusive, BoolMeansLive, OpenWith
  <1>6. NoLeak'
    BY <1>1, <1>2, <1>4 DEF IInv, NoLeak, Holds
  <1>7. BoolMeansLive'
    BY <1>1, <1>2, <1>3 DEF IInv, BoolMeansLive, OpenWith
  <1>8. RawIsOpen'
    BY <1>2, <1>4 DEF IInv, RawIsOpen, TypeOK
  <1>9. QED BY <1>1, <1>5, <1>6, <1>7, <1>8 DEF IInv, NoFault

\* Opening a resource into a new object.
LEMMA BeginOpenedKeeps ==
    ASSUME PolicyFits, IInv, NEW x \in Rc, NEW r \in ResourceOf[KindOf[x]], NEW t \in Tag,
           <<DefaultTag[KindOf[x]], t>> \in Closes, BeginOpened(x, r, t)
    PROVE  IInv'
  <1> USE DEF Bool, IsOwned
  <1> DEFINE k == KindOf[x]
             d == DefaultTag[k]
  <1>1. /\ k \in Kind /\ d \in TagOf[k] /\ d \in Tag
        /\ r \in Resource /\ r \in Handle /\ Closed # t
    BY ConstantsAssumption
  <1>2. /\ x \notin alive /\ res[r] = Closed
        /\ res' = [res EXCEPT ![r] = t] /\ alive' = alive \cup {x}
        /\ hnd' = [hnd EXCEPT ![x] = r] /\ del' = [del EXCEPT ![x] = d]
        /\ UNCHANGED <<raw, fault, aborted>>
    BY DEF BeginOpened, Fresh
  <1>4. TypeOK'
    BY <1>1, <1>2 DEF IInv, TypeOK
  <1>5. /\ hnd'[x] = r /\ del'[x] = d /\ res'[r] = t
        /\ \A y \in alive : hnd'[y] = hnd[y] /\ del'[y] = del[y] /\ y # x
        /\ \A s \in Resource : s # r => res'[s] = res[s]
    BY <1>1, <1>2 DEF IInv, TypeOK
  <1>6. r \notin raw /\ \A y \in alive : Bool(y) => hnd[y] # r
    BY <1>2, OpenIsOpen DEF IInv, RawIsOpen, BoolMeansLive
  <1>7. Bool(x)'
    BY <1>1, <1>5 DEF PolicyFits
  <1>8. Exclusive'
    BY <1>2, <1>5, <1>6 DEF IInv, Exclusive
  <1>9. NoLeak'
    <2> SUFFICES ASSUME NEW s \in Resource, res'[s] # Closed, s \notin raw
                 PROVE  \E y \in alive' : Holds(y, s)'
      BY <1>2 DEF NoLeak
    <2>1. CASE s = r
      BY <1>2, <1>5, <1>7, <2>1 DEF Holds
    <2>2. CASE s # r
      <3>1. PICK y \in alive : Holds(y, s)
        BY <1>5, <2>2 DEF IInv, NoLeak
      <3>2. QED BY <1>2, <1>5, <3>1 DEF Holds
    <2>3. QED BY <2>1, <2>2
  <1>10. BoolMeansLive'
    <2> SUFFICES ASSUME NEW y \in alive', Bool(y)'
                 PROVE  hnd'[y] \in Resource /\ <<del'[y], res'[hnd'[y]]>> \in Closes
      BY DEF BoolMeansLive, OpenWith
    <2>1. CASE y = x
      BY <1>1, <1>5, <2>1
    <2>2. CASE y # x
      <3>1. y \in alive /\ Bool(y) /\ hnd[y] # r
        BY <1>2, <1>5, <1>6, <2>2
      <3>2. OpenWith(hnd[y], del[y])
        BY <3>1 DEF IInv, BoolMeansLive
      <3>3. QED BY <1>5, <3>1, <3>2 DEF OpenWith
    <2>3. QED BY <2>1, <2>2
  <1>11. RawIsOpen'
    BY <1>2, <1>5, <1>6 DEF IInv, RawIsOpen, TypeOK
  <1>12. QED BY <1>2, <1>4, <1>8, <1>9, <1>10, <1>11 DEF IInv, NoFault

\* As long as no two resources have equal handles, or the program runs.
LEMMA StepRunning ==
    ASSUME RunningFits, IInv, [Next]_vars, aborted' => HandlesTell
    PROVE  IInv'
  <1> USE ConstantsAssumption
  <1>1. TypeOK /\ TypeOK'
    BY StepTypeOK DEF IInv
  <1>2. ASSUME NEW r \in Resource, ClientOp(r) PROVE IInv'
    BY <1>1, <1>2, ClientKeeps
  <1>3. ASSUME NEW x \in Rc, RcOp(x) PROVE IInv'
    <2> KindOf[x] \in Kind /\ Invalid(x) \in Handle
      BY DEF Invalid
    <2>1. CASE ConstructEmpty(x)
      BY <1>1, <2>1, BeginKeeps DEF ConstructEmpty
    <2>2. ASSUME NEW h \in Handle, ConstructHandle(x, h) PROVE IInv'
      BY <1>1, <2>2, BeginKeeps DEF ConstructHandle
    <2>3. ASSUME NEW h \in Handle, NEW t \in Tag, ConstructWith(x, h, t) PROVE IInv'
      BY <1>1, <2>3, BeginKeeps DEF ConstructWith
    <2>4. ASSUME NEW h \in Handle, Reset(x, h) PROVE IInv'
      BY <1>1, <2>4, ResetKeeps
    <2>5. QED BY <1>1, <1>3, <2>1, <2>2, <2>3, <2>4, ReleaseKeeps, SelfMoveKeeps,
                 DestroyKeeps DEF RcOp
  <1>4. ASSUME NEW x \in Rc, NEW y \in Rc, RcPairOp(x, y) PROVE IInv'
    <2>1. hnd[y] \in Handle /\ HandleAs(x, y) \in Handle
      BY <1>1 DEF HandleAs, TypeOK
    <2>2. CASE MoveConstruct(x, y)
      BY <1>1, <2>1, <2>2, SameKindCorresponds, BeginFromKeeps DEF MoveConstruct
    <2>3. CASE ConvertConstruct(x, y)
      BY <1>1, <2>1, <2>3, CastCorresponds, BeginFromKeeps DEF ConvertConstruct
    <2>4. CASE MoveAssign(x, y)
      BY <1>1, <2>1, <2>4, SameKindCorresponds, AssignFromKeeps DEF MoveAssign
    <2>5. CASE ConvertAssign(x, y)
      BY <1>1, <2>1, <2>5, CastCorresponds, AssignFromKeeps DEF ConvertAssign
    <2>6. CASE Swap(x, y)
      BY <1>1, <2>6, SwapKeeps
    <2>7. QED BY <1>4, <2>2, <2>3, <2>4, <2>5, <2>6 DEF RcPairOp
  <1>5. CASE UNCHANGED vars
    BY <1>5 DEF vars, IInv, TypeOK, NoFault, Exclusive, NoLeak, BoolMeansLive,
                RawIsOpen, Bool, IsOwned, Holds, OpenWith
  <1>6. QED BY <1>2, <1>3, <1>4, <1>5 DEF Next

\* Nothing runs once the assertion has ended the program, and when it does so
\* nothing is closed.
LEMMA AbortIsFinal ==
    ASSUME Next
    PROVE  ~aborted
  BY DEF Next, ClientOp, ClientClose, Acquire, RcOp, ConstructEmpty, ConstructHandle,
         ConstructWith, Begin, Reset, Release, SelfMoveAssign, Destroy, RcPairOp,
         MoveConstruct, ConvertConstruct, BeginFrom, MoveAssign, ConvertAssign,
         AssignFrom, Swap, Fresh, Live

LEMMA AbortSpares ==
    ASSUME TypeOK, Next, aborted'
    PROVE  Checked /\ res' = res /\ fault' = fault
  <1>1. ASSUME NEW x, NEW old, NEW h, ResetFrom(x, old, h)
        PROVE  Checked /\ res' = res /\ fault' = fault
    <2>1. Trips(x, old, h)
      BY <1>1 DEF ResetFrom
    <2>2. CallDeleter(FALSE, del[x], old)
      BY <1>1, <2>1 DEF ResetFrom, CallDeleter
    <2>3. QED BY <2>1, <2>2 DEF Trips, CallDeleter, TypeOK
  <1>2. ASSUME NEW x \in Rc, RcOp(x) PROVE \E old, h : ResetFrom(x, old, h)
    BY <1>2 DEF RcOp, ConstructEmpty, ConstructHandle, ConstructWith, Begin, Fresh,
                Reset, Release, SelfMoveAssign, Destroy, Live
  <1>3. ASSUME NEW x \in Rc, NEW y \in Rc, RcPairOp(x, y)
        PROVE  \E old, h : ResetFrom(x, old, h)
    BY <1>3 DEF RcPairOp, MoveConstruct, ConvertConstruct, BeginFrom, Fresh, Live, Swap,
                MoveAssign, ConvertAssign, AssignFrom
  <1>4. ~\E r \in Resource : ClientOp(r)
    BY DEF ClientOp, ClientClose, Acquire
  <1>5. QED BY <1>1, <1>2, <1>3, <1>4 DEF Next

LEMMA StepIInv == Fits /\ IInv /\ [Next]_vars => IInv'
  <1> SUFFICES ASSUME Fits, IInv, [Next]_vars PROVE IInv'
    OBVIOUS
  <1>1. CASE Next
    <2>1. aborted' => HandlesTell
      BY <1>1, AbortSpares DEF Fits, IInv
    <2>2. QED BY <2>1, StepRunning DEF Fits
  <1>2. CASE UNCHANGED vars
    BY <1>2 DEF vars, IInv, TypeOK, NoFault, Exclusive, NoLeak, BoolMeansLive,
                RawIsOpen, Bool, IsOwned, Holds, OpenWith
  <1>3. QED BY <1>1, <1>2

(* The results.                                                              *)

\* Everything the runs check of the states holds in every reachable state of
\* every instantiation that fits.
THEOREM Invariance ==
    ASSUME Fits
    PROVE  Spec => []IInv
  BY InitIInv, StepIInv, PTL DEF Spec

\* No deleter is ever called twice for one acquisition, on a value that names
\* no resource, or on the resource of another deleter.
THEOREM NeverFaults ==
    ASSUME Fits
    PROVE  Spec => []NoFault
  <1>1. IInv => NoFault
    BY DEF IInv
  <1>2. QED BY <1>1, Invariance, PTL

\* A resource has at most one party that disposes of it.
THEOREM SoleResponsibility ==
    ASSUME Fits
    PROVE  Spec => []Exclusive
  <1>1. IInv => Exclusive
    BY DEF IInv
  <1>2. QED BY <1>1, Invariance, PTL

\* An open resource has at least one party that disposes of it.
THEOREM NeverLeaks ==
    ASSUME Fits
    PROVE  Spec => []NoLeak
  <1>1. IInv => NoLeak
    BY DEF IInv
  <1>2. QED BY <1>1, Invariance, PTL

\* operator bool is true of exactly the objects that hold an open resource,
\* together with the deleter that closes it.
THEOREM BoolIsTruthful ==
    ASSUME Fits
    PROVE  Spec => []BoolMeansLive
  <1>1. IInv => BoolMeansLive
    BY DEF IInv
  <1>2. QED BY <1>1, Invariance, PTL

\* What the client closes itself, obtained from release() or not, is open.
THEOREM RawHandlesAreOpen ==
    ASSUME Fits
    PROVE  Spec => []RawIsOpen
  <1>1. IInv => RawIsOpen
    BY DEF IInv
  <1>2. QED BY <1>1, Invariance, PTL

\* The step that trips the assertion resets an object to the handle it owns.
LEMMA AbortingStep ==
    ASSUME Fits, IInv, Next, aborted', ~aborted
    PROVE  HandlesTell /\ \E x \in Rc, h \in Handle : Reset(x, h) /\ Trips(x, hnd[x], h)
  <1> USE ConstantsAssumption
  <1>0. TypeOK'
    BY StepTypeOK DEF IInv
  <1> HandlesTell /\ RunningFits
    BY AbortSpares DEF Fits, IInv
  <1>1. ASSUME NEW r \in Resource, ClientOp(r) PROVE ~aborted'
    BY <1>1 DEF ClientOp, ClientClose, Acquire
  <1>2. ASSUME NEW x \in Rc, RcOp(x) PROVE \E h \in Handle : Reset(x, h)
    <2>1. CASE SelfMoveAssign(x)
      BY <1>0, <2>1, SelfMoveKeeps
    <2>2. QED BY <1>2, <2>1
              DEF RcOp, ConstructEmpty, ConstructHandle, ConstructWith, Begin, Fresh,
                  Release, Destroy, Live
  <1>3. ASSUME NEW x \in Rc, NEW y \in Rc, RcPairOp(x, y) PROVE ~aborted'
    <2>1. TypeOK /\ hnd[y] \in Handle /\ HandleAs(x, y) \in Handle
      BY DEF IInv, HandleAs, TypeOK
    <2>2. CASE MoveAssign(x, y)
      BY <1>0, <2>1, <2>2, SameKindCorresponds, AssignFromKeeps DEF MoveAssign
    <2>3. CASE ConvertAssign(x, y)
      BY <1>0, <2>1, <2>3, CastCorresponds, AssignFromKeeps DEF ConvertAssign
    <2>4. QED BY <1>3, <2>2, <2>3
              DEF RcPairOp, MoveConstruct, ConvertConstruct, BeginFrom, Fresh, Live, Swap
  <1>4. PICK x \in Rc, h \in Handle : Reset(x, h)
    BY <1>1, <1>2, <1>3 DEF Next
  <1>5. Trips(x, hnd[x], h)
    BY <1>4 DEF Reset, ResetFrom
  <1>6. QED BY <1>4, <1>5

LEMMA StepAbort == Fits /\ IInv /\ [Next]_vars =>
                      [aborted' => UNCHANGED <<res, raw, alive, hnd, del>>]_vars
  BY AbortingStep, AbortIsFinal, TripKeeps DEF vars

\* The self-reset assertion only ever stops a self-reset, before it closes
\* anything.
THEOREM AbortIsHarmless ==
    ASSUME Fits
    PROVE  Spec => AbortClosesNothing
  <1>1. Spec => [][Next]_vars
    BY PTL DEF Spec
  <1>2. QED BY <1>1, StepAbort, Invariance, PTL DEF AbortClosesNothing

\* In a program that never resets an object to its own handle, the assertion
\* stays silent: moving and assigning, which reset objects too, never trip it.
THEOREM AssertionIsSilent ==
    ASSUME Fits
    PROVE  Spec => []OnlySelfResets
  <1>1. Init => OnlySelfResets
    BY DEF Init, OnlySelfResets
  <1>2. IInv /\ OnlySelfResets /\ [Next]_vars => OnlySelfResets'
    <2> SUFFICES ASSUME IInv, Next, aborted' PROVE SelfResets
      BY DEF OnlySelfResets, vars
    <2>1. PICK x \in Rc, h \in Handle : Reset(x, h) /\ Trips(x, hnd[x], h)
      BY AbortingStep, AbortIsFinal
    <2>. HandlesTell
      BY AbortingStep, AbortIsFinal
    <2>2. x \in alive /\ h = hnd[x] /\ Bool(x)
      BY <2>1, TripsOnOwn DEF Reset, Live, IInv
    <2>3. ~MayGive(x, h, del[x])
      BY <2>2, ConstantsAssumption DEF MayGive, Bool, IsOwned, Invalid, Fits, RunningFits, PolicyFits,
                                       IInv, Exclusive
    <2>4. QED BY <2>1, <2>3 DEF Reset
  <1>3. QED BY <1>1, <1>2, Invariance, PTL DEF Spec
==============================================================================

-------------------------- MODULE UniqueRcRefinement -------------------------
(***************************************************************************)
(* UniqueRc implements Ownership: under the inductive invariant every       *)
(* resource has exactly one responsible party, and every step moves that    *)
(* responsibility in one of the ways Ownership allows.                      *)
(***************************************************************************)
EXTENDS UniqueRcProofs

\* Whom the mapping names, state by state.
Party(r) ==
    /\ ownerBar[r] = Nobody <=> res[r] = Closed
    /\ ownerBar[r] = Client <=> r \in raw
    /\ \A x \in Rc : ownerBar[r] = x <=> Holds(x, r)
    /\ ownerBar[r] \in Rc \cup {Client, Nobody}

LEMMA PartyIsUnique == IInv => \A r \in Resource : Party(r)
  <1> SUFFICES ASSUME IInv, NEW r \in Resource PROVE Party(r)
    OBVIOUS
  <1>1. {Client, Nobody, Lost} \cap Rc = {} /\ alive \subseteq Rc
    BY ConstantsAssumption DEF IInv, TypeOK
  <1>2. Client # Nobody /\ Client # Lost /\ Nobody # Lost
    BY DEF Client, Nobody, Lost
  <1>3. res[r] = Closed => r \notin raw
    BY DEF IInv, RawIsOpen
  <1>4. ASSUME NEW x \in Rc, Holds(x, r)
        PROVE  x \in alive /\ res[r] # Closed /\ r \notin raw
    <2>1. x \in alive /\ Bool(x) /\ hnd[x] = r
      BY <1>4 DEF Holds
    <2>2. OpenWith(r, del[x])
      BY <2>1 DEF IInv, BoolMeansLive
    <2>3. res[r] # Closed
      BY <2>2, ConstantsAssumption DEF OpenWith
    <2>4. r \notin raw
      BY <2>1 DEF IInv, Exclusive
    <2>5. QED BY <2>1, <2>3, <2>4
  <1>5. \A x, y \in Rc : Holds(x, r) /\ Holds(y, r) => x = y
    BY DEF IInv, Exclusive, Holds
  <1>6. res[r] # Closed => r \in raw \/ \E x \in alive : Holds(x, r)
    BY DEF IInv, NoLeak
  <1>7. CASE res[r] = Closed
    <2>1. ownerBar[r] = Nobody
      BY <1>7 DEF ownerBar
    <2>2. QED BY <1>1, <1>2, <1>3, <1>4, <1>7, <2>1 DEF Party
  <1>8. CASE res[r] # Closed /\ \E x \in alive : Holds(x, r)
    <2>1. PICK x \in alive : Holds(x, r)
      BY <1>8
    <2>2. ownerBar[r] = x
      BY <1>1, <1>5, <1>8, <2>1 DEF ownerBar
    <2>3. QED BY <1>1, <1>2, <1>4, <1>5, <1>8, <2>1, <2>2 DEF Party
  <1>9. CASE res[r] # Closed /\ ~\E x \in alive : Holds(x, r)
    <2>1. r \in raw
      BY <1>6, <1>9
    <2>2. ownerBar[r] = Client
      BY <1>9, <2>1 DEF ownerBar
    <2>3. QED BY <1>1, <1>2, <1>4, <1>9, <2>1, <2>2 DEF Party
  <1>10. QED BY <1>7, <1>8, <1>9

LEMMA PartyIsUniqueNext == IInv' => (\A r \in Resource : Party(r))'
  BY PartyIsUnique, PTL

LEMMA InitMaps == Init => Abstract!Init
  BY DEF Init, ownerBar, Abstract!Init

------------------------------------------------------------------------------
(* The abstract actions in terms of who holds what.                          *)

\* Nobody but the objects of S holds anything else than before.
SameFor(S) == \A r \in Resource, z \in Rc \ S : Holds(z, r)' <=> Holds(z, r)

\* The resource x held is closed, and no other.
ClosedOnly(x) == \A r \in Resource :
    res'[r] = Closed <=> res[r] = Closed \/ Holds(x, r)

LEMMA PutMaps ==
    ASSUME IInv, IInv', NEW x \in Rc, NEW S \in SUBSET Resource, S \subseteq raw,
           \A r, s \in S : r = s,
           \A r \in Resource : Holds(x, r)' <=> r \in S,
           SameFor({x}), ClosedOnly(x), raw' = raw \ S
    PROVE  Abstract!Next
  <1>1. \A r \in Resource : Party(r) /\ Party(r)'
    BY PartyIsUnique, PartyIsUniqueNext
  <1>2. S \subseteq Abstract!Owned(Client)
    BY <1>1 DEF Abstract!Owned, Party
  <1>3. ASSUME NEW r \in Resource
        PROVE  ownerBar'[r] = CASE r \in S -> x
                                [] r \notin S /\ ownerBar[r] = x -> Nobody
                                [] OTHER -> ownerBar[r]
    <2>1. CASE r \in S
      BY <1>1, <2>1 DEF Party
    <2>2. CASE r \notin S /\ ownerBar[r] = x
      BY <1>1, <2>2 DEF Party, ClosedOnly
    <2>3. CASE r \notin S /\ ownerBar[r] # x
      <3>1. Party(r) /\ Party(r)' /\ (res'[r] = Closed <=> res[r] = Closed)
        BY <1>1, <2>3 DEF Party, ClosedOnly
      <3>2. ownerBar'[r] = ownerBar[r]
        BY <2>3, <3>1 DEF Party, SameFor
      <3>3. QED BY <2>3, <3>2
    <2>4. QED BY <2>1, <2>2, <2>3
  <1>4. ownerBar' = [r \in Resource |-> ownerBar'[r]]
    BY DEF ownerBar
  <1>5. Abstract!Put(x, S)
    BY <1>3, <1>4 DEF Abstract!Put, Abstract!AtMostOne
  <1>6. QED BY <1>2, <1>5 DEF Abstract!Next

LEMMA TakeMaps ==
    ASSUME IInv, IInv', NEW x \in Rc, NEW y \in Rc, x # y,
           \A r \in Resource : (Holds(x, r)' <=> Holds(y, r)) /\ ~Holds(y, r)',
           SameFor({x, y}), ClosedOnly(x), raw' = raw
    PROVE  Abstract!Take(x, y)
  <1>1. \A r \in Resource : Party(r) /\ Party(r)'
    BY PartyIsUnique, PartyIsUniqueNext
  <1>2. ASSUME NEW r \in Resource
        PROVE  ownerBar'[r] = CASE ownerBar[r] = y -> x
                                [] ownerBar[r] = x -> Nobody
                                [] OTHER -> ownerBar[r]
    <2>1. CASE ownerBar[r] = y
      BY <1>1, <2>1 DEF Party
    <2>2. CASE ownerBar[r] = x
      BY <1>1, <2>2 DEF Party, ClosedOnly
    <2>3. CASE ownerBar[r] \notin {x, y}
      <3>1. Party(r) /\ Party(r)' /\ (res'[r] = Closed <=> res[r] = Closed)
        BY <1>1, <2>3 DEF Party, ClosedOnly
      <3>2. ownerBar'[r] = ownerBar[r]
        BY <2>3, <3>1 DEF Party, SameFor
      <3>3. QED BY <2>3, <3>2
    <2>4. QED BY <2>1, <2>2, <2>3
  <1>3. ownerBar' = [r \in Resource |-> ownerBar'[r]]
    BY DEF ownerBar
  <1>4. QED BY <1>2, <1>3 DEF Abstract!Take

\* Responsibility did not move.
LEMMA StutterMaps ==
    ASSUME IInv, IInv', SameFor({}), raw' = raw,
           \A r \in Resource : res'[r] = Closed <=> res[r] = Closed
    PROVE  ownerBar' = ownerBar
  <1>1. \A r \in Resource : Party(r) /\ Party(r)'
    BY PartyIsUnique, PartyIsUniqueNext
  <1>2. \A r \in Resource : ownerBar'[r] = ownerBar[r]
    BY <1>1 DEF Party, SameFor
  <1>3. /\ ownerBar' = [r \in Resource |-> ownerBar'[r]]
        /\ ownerBar = [r \in Resource |-> ownerBar[r]]
    BY DEF ownerBar
  <1>4. QED BY <1>2, <1>3

------------------------------------------------------------------------------
(* The steps.                                                                *)

LEMMA ClientMaps ==
    ASSUME IInv, IInv', NEW r \in Resource, ClientOp(r)
    PROVE  Abstract!Next
  <1>1. \A s \in Resource : Party(s) /\ Party(s)'
    BY PartyIsUnique, PartyIsUniqueNext
  <1>2. \A s \in Resource, z \in Rc : s # r => (Holds(z, s)' <=> Holds(z, s))
    BY DEF ClientOp, ClientClose, Acquire, Holds, Bool, IsOwned
  <1>3. \A s \in Resource : s # r => ownerBar'[s] = ownerBar[s]
    <2> SUFFICES ASSUME NEW s \in Resource, s # r PROVE ownerBar'[s] = ownerBar[s]
      OBVIOUS
    <2>1. (res'[s] = Closed <=> res[s] = Closed) /\ (s \in raw' <=> s \in raw)
      BY DEF ClientOp, ClientClose, Acquire, IInv, TypeOK
    <2>2. QED BY <1>1, <1>2, <2>1 DEF Party
  <1>4. /\ ownerBar' = [s \in Resource |-> ownerBar'[s]]
        /\ ownerBar = [s \in Resource |-> ownerBar[s]]
    BY DEF ownerBar
  <1>5. CASE ClientClose(r)
    <2>1. ownerBar[r] = Client /\ ownerBar'[r] = Nobody
      BY <1>1, <1>5 DEF ClientClose, Party, IInv, TypeOK
    <2>2. Abstract!Discard(r)
      BY <1>3, <1>4, <2>1 DEF Abstract!Discard
    <2>3. QED BY <2>2 DEF Abstract!Next
  <1>6. ASSUME NEW t \in Tag, Acquire(r, t) PROVE Abstract!Next
    <2>1. ownerBar[r] = Nobody /\ ownerBar'[r] = Client
      BY <1>1, <1>6 DEF Acquire, Party
    <2>2. Abstract!Acquire(r)
      BY <1>3, <1>4, <2>1 DEF Abstract!Acquire
    <2>3. QED BY <2>2 DEF Abstract!Next
  <1>7. QED BY <1>5, <1>6 DEF ClientOp

\* Constructing x from a handle.
LEMMA BeginMaps ==
    ASSUME IInv, IInv', Fits, NEW x \in Rc, NEW h \in Handle, NEW t \in Tag,
           MayGive(x, h, t) \/ h = Invalid(x), Begin(x, h, t)
    PROVE  Abstract!Next
  <1> DEFINE S == Entrusted(x, h)
  <1>1. /\ IsOwned(x, h) => h \in raw /\ h \in ResourceOf[KindOf[x]]
        /\ ~IsOwned(x, h) => h \notin ResourceOf[KindOf[x]]
    BY ConstantsAssumption DEF IsOwned, MayGive, Invalid, Fits, RunningFits, PolicyFits
  <1>2. S = IF IsOwned(x, h) THEN {h} ELSE {}
    BY <1>1 DEF Entrusted
  <1>3. S \subseteq raw /\ S \in SUBSET Resource /\ \A r, s \in S : r = s
    BY <1>1, <1>2 DEF IInv, TypeOK
  <1>4. /\ x \notin alive /\ alive' = alive \cup {x} /\ res' = res
        /\ raw' = raw \ S /\ hnd'[x] = h
        /\ \A z \in Rc \ {x} : hnd'[z] = hnd[z]
    BY DEF Begin, Fresh, IInv, TypeOK
  <1>5. \A r \in Resource : Holds(x, r)' <=> r \in S
    BY <1>2, <1>4 DEF Holds, Bool, IsOwned
  <1>6. SameFor({x}) /\ ClosedOnly(x)
    BY <1>4 DEF SameFor, ClosedOnly, Holds, Bool, IsOwned
  <1>7. QED BY <1>3, <1>4, <1>5, <1>6, PutMaps

\* A resource opened straight into the new x, as make_unique does.
LEMMA OpenedMaps ==
    ASSUME IInv, IInv', Fits, NEW x \in Rc, NEW r \in Resource, NEW t \in Tag,
           r \in ResourceOf[KindOf[x]], BeginOpened(x, r, t)
    PROVE  Abstract!Next
  <1>1. \A s \in Resource : Party(s) /\ Party(s)'
    BY PartyIsUnique, PartyIsUniqueNext
  <1>2. /\ x \notin alive /\ alive' = alive \cup {x} /\ raw' = raw /\ hnd'[x] = r
        /\ res[r] = Closed /\ res' = [res EXCEPT ![r] = t]
        /\ \A z \in Rc \ {x} : hnd'[z] = hnd[z]
    BY DEF BeginOpened, Fresh, IInv, TypeOK
  <1>3. Holds(x, r)'
    BY <1>2, ConstantsAssumption DEF Holds, Bool, IsOwned, Fits, RunningFits, PolicyFits
  <1>4. \A s \in Resource : ~Holds(x, s) /\ (Holds(x, s)' => s = r)
    BY <1>2 DEF Holds
  <1>5. \A s \in Resource, z \in Rc \ {x} : Holds(z, s)' <=> Holds(z, s)
    BY <1>2 DEF Holds, Bool, IsOwned
  <1>6. ASSUME NEW s \in Resource, s # r PROVE ownerBar'[s] = ownerBar[s]
    <2>1. (res'[s] = Closed <=> res[s] = Closed) /\ (s \in raw' <=> s \in raw)
      BY <1>2, <1>6 DEF IInv, TypeOK
    <2>2. QED BY <1>1, <1>4, <1>5, <1>6, <2>1 DEF Party
  <1>7. ownerBar[r] = Nobody /\ ownerBar'[r] = x
    BY <1>1, <1>2, <1>3 DEF Party
  <1>8. /\ ownerBar' = [s \in Resource |-> ownerBar'[s]]
        /\ ownerBar = [s \in Resource |-> ownerBar[s]]
    BY DEF ownerBar
  <1>9. Abstract!Owned(x) = {}
    BY <1>1, <1>4 DEF Abstract!Owned, Party
  <1>10. Abstract!Create(x, r)
    BY <1>6, <1>7, <1>8, <1>9 DEF Abstract!Create
  <1>11. QED BY <1>10 DEF Abstract!Next

\* Constructing x from y.
LEMMA BeginFromMaps ==
    ASSUME IInv, IInv', Fits, NEW x \in Rc, NEW y \in Rc, NEW h \in Handle,
           NEW d, Corresponds(x, y, h, d), BeginFrom(x, y, h, d)
    PROVE  Abstract!Next
  <1>1. /\ x \notin alive /\ y \in alive /\ x # y /\ alive' = alive \cup {x}
        /\ res' = res /\ raw' = raw /\ hnd'[x] = h /\ hnd'[y] = Invalid(y)
        /\ \A z \in Rc \ {x, y} : hnd'[z] = hnd[z]
    BY DEF BeginFrom, Fresh, Live, IInv, TypeOK
  <1>2. ~Bool(y)'
    BY <1>1, ConstantsAssumption DEF Bool, IsOwned, Invalid, Fits, RunningFits, PolicyFits
  <1>3. \A r \in Resource : (Holds(x, r)' <=> Holds(y, r)) /\ ~Holds(y, r)'
    BY <1>1, <1>2 DEF Corresponds, Holds, Bool, IsOwned
  <1>4. SameFor({x, y}) /\ ClosedOnly(x)
    BY <1>1 DEF SameFor, ClosedOnly, Holds, Bool, IsOwned
  <1>5. Abstract!Take(x, y)
    BY <1>1, <1>3, <1>4, TakeMaps
  <1>6. QED BY <1>5 DEF Abstract!Next

\* Assigning y to x.
LEMMA AssignFromMaps ==
    ASSUME IInv, IInv', Fits, NEW x \in Rc, NEW y \in Rc, NEW h \in Handle,
           NEW d, Corresponds(x, y, h, d), AssignFrom(x, y, h, d)
    PROVE  Abstract!Next
  <1>1. /\ x \in alive /\ y \in alive /\ x # y /\ alive' = alive
        /\ raw' = raw /\ ResetFrom(x, hnd[x], h)
        /\ hnd'[x] = h /\ hnd'[y] = Invalid(y)
        /\ \A z \in Rc \ {x, y} : hnd'[z] = hnd[z]
    BY DEF AssignFrom, Live, IInv, TypeOK
  <1>2. ~Bool(y)'
    BY <1>1, ConstantsAssumption DEF Bool, IsOwned, Invalid, Fits, RunningFits, PolicyFits
  <1>3. ~Trips(x, hnd[x], h)
    BY <1>1, TripsOnOwn DEF Trips, Fits, Corresponds, IInv, Exclusive, Bool, IsOwned
  <1>4. res' = IF Bool(x) THEN [res EXCEPT ![hnd[x]] = Closed] ELSE res
    BY <1>1, <1>3, ResetEffect
  <1>5. \A r \in Resource : (Holds(x, r)' <=> Holds(y, r)) /\ ~Holds(y, r)'
    BY <1>1, <1>2 DEF Corresponds, Holds, Bool, IsOwned
  <1>6. SameFor({x, y})
    BY <1>1 DEF SameFor, Holds, Bool, IsOwned
  <1>7. ClosedOnly(x)
    BY <1>1, <1>4 DEF ClosedOnly, Holds, IInv, TypeOK
  <1>8. Abstract!Take(x, y)
    BY <1>1, <1>5, <1>6, <1>7, TakeMaps
  <1>9. QED BY <1>8 DEF Abstract!Next

LEMMA ResetMaps ==
    ASSUME IInv, IInv', Fits, NEW x \in Rc, NEW h \in Handle, Reset(x, h)
    PROVE  Abstract!Next \/ ownerBar' = ownerBar
  <1> DEFINE S == Entrusted(x, h)
  <1>1. /\ x \in alive /\ alive' = alive
        /\ ResetFrom(x, hnd[x], h) /\ raw' = raw \ S
        /\ hnd'[x] = h
        /\ \A z \in Rc \ {x} : hnd'[z] = hnd[z]
    BY DEF Reset, Live, IInv, TypeOK
  <1>2. CASE Trips(x, hnd[x], h)
    <2>1. UNCHANGED <<res, raw, alive, hnd, del>>
      BY <1>2, TripKeeps DEF Trips, Fits
    <2>2. ownerBar' = ownerBar
      BY <2>1 DEF ownerBar, Holds, Bool, IsOwned
    <2>3. QED BY <2>2
  <1>3. CASE ~Trips(x, hnd[x], h)
    <2>1. MayGive(x, h, del[x])
      BY <1>3, SelfResetTrips DEF Fits
    <2>2. /\ IsOwned(x, h) => h \in raw /\ h \in ResourceOf[KindOf[x]]
          /\ ~IsOwned(x, h) => h \notin ResourceOf[KindOf[x]]
      BY <2>1, ConstantsAssumption DEF IsOwned, MayGive, Invalid, Fits, RunningFits, PolicyFits
    <2>3. S = IF IsOwned(x, h) THEN {h} ELSE {}
      BY <2>2 DEF Entrusted
    <2>4. S \subseteq raw /\ S \in SUBSET Resource /\ \A r, s \in S : r = s
      BY <2>2, <2>3 DEF IInv, TypeOK
    <2>5. res' = IF Bool(x) THEN [res EXCEPT ![hnd[x]] = Closed] ELSE res
      BY <1>1, <1>3, ResetEffect
    <2>6. \A r \in Resource : Holds(x, r)' <=> r \in S
      BY <1>1, <2>3 DEF Holds, Bool, IsOwned
    <2>7. SameFor({x}) /\ ClosedOnly(x)
      BY <1>1, <2>5 DEF SameFor, ClosedOnly, Holds, Bool, IsOwned, IInv, TypeOK
    <2>8. QED BY <1>1, <2>4, <2>6, <2>7, PutMaps
  <1>4. QED BY <1>2, <1>3

LEMMA ReleaseMaps ==
    ASSUME IInv, IInv', Fits, NEW x \in Rc, Release(x)
    PROVE  Abstract!Next
  <1>1. \A r \in Resource : Party(r) /\ Party(r)'
    BY PartyIsUnique, PartyIsUniqueNext
  <1>2. /\ x \in alive /\ alive' = alive /\ res' = res /\ hnd'[x] = Invalid(x)
        /\ \A z \in Rc \ {x} : hnd'[z] = hnd[z]
    BY DEF Release, Live, IInv, TypeOK
  <1>3. ~Bool(x)'
    BY <1>2, ConstantsAssumption DEF Bool, IsOwned, Invalid, Fits, RunningFits, PolicyFits
  <1>4. \A r \in Resource : r \in raw' <=> r \in raw \/ Holds(x, r)
    BY <1>2 DEF Release, Holds
  <1>5. \A r \in Resource : ~Holds(x, r)'
    BY <1>3 DEF Holds
  <1>6. SameFor({x})
    BY <1>2 DEF SameFor, Holds, Bool, IsOwned
  <1>7. ASSUME NEW r \in Resource
        PROVE  ownerBar'[r] = IF ownerBar[r] = x THEN Client ELSE ownerBar[r]
    <2>1. CASE ownerBar[r] = x
      BY <1>1, <1>4, <2>1 DEF Party
    <2>2. CASE ownerBar[r] # x
      <3>1. Party(r) /\ Party(r)' /\ ~Holds(x, r)
        BY <1>1, <2>2 DEF Party
      <3>2. QED BY <1>2, <1>4, <1>5, <1>6, <2>2, <3>1 DEF Party, SameFor
    <2>3. QED BY <2>1, <2>2
  <1>8. ownerBar' = [r \in Resource |-> ownerBar'[r]]
    BY DEF ownerBar
  <1>9. Abstract!Yield(x)
    BY <1>7, <1>8 DEF Abstract!Yield
  <1>10. QED BY <1>9 DEF Abstract!Next

LEMMA SwapMaps ==
    ASSUME IInv, IInv', NEW x \in Rc, NEW y \in Rc, Swap(x, y)
    PROVE  Abstract!Next
  <1>1. \A r \in Resource : Party(r) /\ Party(r)'
    BY PartyIsUnique, PartyIsUniqueNext
  <1>2. /\ x \in alive /\ y \in alive /\ UNCHANGED <<res, raw, alive>>
        /\ KindOf[x] = KindOf[y]
        /\ hnd'[x] = hnd[y] /\ hnd'[y] = hnd[x]
        /\ \A z \in Rc \ {x, y} : hnd'[z] = hnd[z]
    BY DEF Swap, Live, IInv, TypeOK
  <1>3. \A r \in Resource : /\ Holds(x, r)' <=> Holds(y, r)
                           /\ Holds(y, r)' <=> Holds(x, r)
    BY <1>2 DEF Holds, Bool, IsOwned
  <1>4. SameFor({x, y})
    BY <1>2 DEF SameFor, Holds, Bool, IsOwned
  <1>5. ASSUME NEW r \in Resource
        PROVE  ownerBar'[r] = CASE ownerBar[r] = x -> y
                                [] ownerBar[r] = y -> x
                                [] OTHER -> ownerBar[r]
    <2>1. CASE ownerBar[r] = x
      BY <1>1, <1>3, <2>1 DEF Party
    <2>2. CASE ownerBar[r] = y
      <3>1. Party(r) /\ Party(r)'
        BY <1>1
      <3>2. ownerBar[r] = y <=> Holds(y, r)
        BY <3>1 DEF Party
      <3>3. Holds(y, r)
        BY <2>2, <3>2
      <3>4. Holds(x, r)'
        BY <1>2, <3>3 DEF Holds, Bool, IsOwned
      <3>5. ownerBar'[r] = x
        BY <3>1, <3>4 DEF Party
      <3>6. QED BY <2>1, <2>2, <3>5
    <2>3. CASE ownerBar[r] \notin {x, y}
      <3>1. Party(r) /\ Party(r)'
        BY <1>1
      <3>2. ownerBar'[r] = ownerBar[r]
        BY <1>2, <1>3, <1>4, <2>3, <3>1 DEF Party, SameFor
      <3>3. QED BY <2>3, <3>2
    <2>4. QED BY <2>1, <2>2, <2>3
  <1>6. ownerBar' = [r \in Resource |-> ownerBar'[r]]
    BY DEF ownerBar
  <1>7. Abstract!Exchange(x, y)
    BY <1>5, <1>6 DEF Abstract!Exchange
  <1>8. QED BY <1>7 DEF Abstract!Next

LEMMA DestroyMaps ==
    ASSUME IInv, IInv', NEW x \in Rc, Destroy(x)
    PROVE  Abstract!Next
  <1>1. /\ x \in alive /\ alive' = alive \ {x} /\ raw' = raw
        /\ \A z \in Rc \ {x} : hnd'[z] = hnd[z]
    BY DEF Destroy, Live, IInv, TypeOK
  <1>2. Bool(x) => OpenWith(hnd[x], del[x])
    BY <1>1 DEF IInv, BoolMeansLive
  <1>3. res' = IF Bool(x) THEN [res EXCEPT ![hnd[x]] = Closed] ELSE res
    BY <1>2 DEF Destroy, CallDeleter, OpenWith
  <1>4. SameFor({x}) /\ ClosedOnly(x)
    BY <1>1, <1>3 DEF SameFor, ClosedOnly, Holds, Bool, IsOwned, IInv, TypeOK
  <1>5. \A r \in Resource : ~Holds(x, r)'
    BY <1>1 DEF Holds
  <1>6. {} \in SUBSET Resource /\ {} \subseteq raw /\ raw' = raw \ {}
    BY <1>1
  <1>7. QED BY <1>4, <1>5, <1>6, PutMaps

LEMMA StepMaps == Fits /\ IInv /\ IInv' /\ [Next]_vars => [Abstract!Next]_ownerBar
  <1> SUFFICES ASSUME Fits, IInv, IInv', [Next]_vars
               PROVE  Abstract!Next \/ ownerBar' = ownerBar
    OBVIOUS
  <1> USE ConstantsAssumption
  <1>1. ASSUME NEW r \in Resource, ClientOp(r) PROVE Abstract!Next
    BY <1>1, ClientMaps
  <1>2. ASSUME NEW x \in Rc, RcOp(x) PROVE Abstract!Next \/ ownerBar' = ownerBar
    <2> KindOf[x] \in Kind /\ Invalid(x) \in Handle
      BY DEF Invalid
    <2>1. CASE ConstructEmpty(x)
      BY <2>1, BeginMaps DEF ConstructEmpty
    <2>2. ASSUME NEW h \in Handle, ConstructHandle(x, h) PROVE Abstract!Next
      BY <2>2, BeginMaps DEF ConstructHandle
    <2>3. ASSUME NEW h \in Handle, NEW t \in Tag, ConstructWith(x, h, t)
          PROVE  Abstract!Next
      BY <2>3, BeginMaps DEF ConstructWith
    <2>4. CASE SelfMoveAssign(x)
      <3>1. ~IsOwned(x, Invalid(x))
        BY DEF IsOwned, Invalid, Fits, RunningFits, PolicyFits
      <3>2. UNCHANGED <<res, raw, alive, hnd>>
        BY <2>4, <3>1 DEF SelfMoveAssign, ResetFrom, CallDeleter
      <3>3. QED BY <3>2 DEF ownerBar, Holds, Bool, IsOwned
    <2>5. QED BY <1>2, <2>1, <2>2, <2>3, <2>4, ResetMaps, ReleaseMaps, DestroyMaps
              DEF RcOp
  <1>3. ASSUME NEW x \in Rc, NEW y \in Rc, RcPairOp(x, y) PROVE Abstract!Next
    <2>1. TypeOK /\ hnd[y] \in Handle /\ HandleAs(x, y) \in Handle
      BY DEF IInv, HandleAs, TypeOK
    <2>2. CASE MoveConstruct(x, y)
      BY <2>1, <2>2, SameKindCorresponds, BeginFromMaps DEF MoveConstruct
    <2>3. CASE ConvertConstruct(x, y)
      BY <2>1, <2>3, CastCorresponds, BeginFromMaps DEF Fits, ConvertConstruct
    <2>4. CASE MoveAssign(x, y)
      BY <2>1, <2>4, SameKindCorresponds, AssignFromMaps DEF MoveAssign
    <2>5. CASE ConvertAssign(x, y)
      BY <2>1, <2>5, CastCorresponds, AssignFromMaps DEF Fits, ConvertAssign
    <2>6. QED BY <1>3, <2>2, <2>3, <2>4, <2>5, SwapMaps DEF RcPairOp
  <1>4. CASE UNCHANGED vars
    BY <1>4 DEF vars, ownerBar, Holds, Bool, IsOwned
  <1>5. QED BY <1>1, <1>2, <1>3, <1>4 DEF Next

\* Whatever the library's operations do, each is one transfer of responsibility
\* of Ownership, or leaves responsibility where it is.
THEOREM ImplementsOwnership ==
    ASSUME Fits
    PROVE  Spec => OwnershipSpec
  <1>1. Spec => Init /\ [][Next]_vars
    BY PTL DEF Spec
  <1>2. QED
    BY <1>1, InitMaps, StepMaps, Invariance, PTL DEF OwnershipSpec, Abstract!Spec
==============================================================================

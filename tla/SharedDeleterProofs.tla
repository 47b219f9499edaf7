------------------------- MODULE SharedDeleterProofs -------------------------
(***************************************************************************)
(* Sharing deleters is safe under the client's obligations of SharedDeleter, *)
(* for any number of objects, deleters and resources.                       *)
(***************************************************************************)
EXTENDS SharedDeleter, TLAPS

Typed ==
    /\ res \in [Resource -> Tag \cup {Closed}]
    /\ raw \subseteq Resource
    /\ alive \subseteq Rc \cup Var
    /\ hnd \in [Rc -> Resource \cup {null}]
    /\ del \in [Cell -> Tag \cup {Gutted}]
    /\ at \in [Rc -> Cell \cup {null}]
    /\ made \in [Rc -> Cell \cup {null}]
    /\ fault \in BOOLEAN

\* A Ref always refers to what it, or what it was moved from, was made with.
Bound ==
    /\ \A v \in Val : at[v] = v
    /\ \A x \in alive \cap Ref : made[x] = at[x] /\ at[x] \in Cell \cap alive

\* No resource has two parties responsible for it, and only objects hold any.
Sole ==
    /\ \A x \in Rc \ alive : hnd[x] = null
    /\ \A x, y \in Rc : hnd[x] = hnd[y] /\ hnd[x] # null => x = y
    /\ \A x \in Rc : hnd[x] \notin raw

Open == \A r \in raw : res[r] # Closed

Kept == \A r \in Resource : res[r] # Closed => r \in raw \/ \E x \in Rc : hnd[x] = r

IInv == Typed /\ Bound /\ Sole /\ Open /\ Kept /\ OwnersCanClose /\ NoFault

------------------------------------------------------------------------------
LEMMA HeldIsOpen ==
    ASSUME IInv
    PROVE  \A x \in Rc : hnd[x] # null => hnd[x] \in Resource /\ res[hnd[x]] # Closed
  <1> SUFFICES ASSUME NEW x \in Rc, hnd[x] # null
               PROVE  hnd[x] \in Resource /\ res[hnd[x]] # Closed
    OBVIOUS
  <1>1. x \in alive
    BY DEF IInv, Sole
  <1>2. hnd[x] \in Resource /\ <<Deleter(x), res[hnd[x]]>> \in Closes
    BY <1>1 DEF IInv, OwnersCanClose, OpenWith, Bool
  <1>3. res[hnd[x]] \in Tag
    BY <1>2, SharedAssumption
  <1>4. QED BY <1>2, <1>3, SharedAssumption

LEMMA AcquireKeeps ==
    ASSUME IInv, NEW r \in Resource, NEW t \in Tag, Acquire(r, t)
    PROVE  IInv'
  <1> USE SharedAssumption DEF IInv, Rc, Cell, Bool, Deleter, OpenWith
  <1>1. Typed'
    BY DEF Typed, Acquire
  <1>2. Bound'
    BY DEF Bound, Acquire
  <1>3. Sole'
    BY HeldIsOpen DEF Sole, Acquire
  <1>4. Open'
    BY DEF Typed, Open, Acquire
  <1>5. Kept'
    BY DEF Kept, Acquire
  <1>6. OwnersCanClose'
    BY HeldIsOpen DEF OwnersCanClose, Acquire
  <1>7. NoFault'
    BY DEF NoFault, Acquire
  <1>8. QED BY <1>1, <1>2, <1>3, <1>4, <1>5, <1>6, <1>7

LEMMA ClientCloseKeeps ==
    ASSUME IInv, NEW r \in Resource, ClientClose(r)
    PROVE  IInv'
  <1> USE SharedAssumption DEF IInv, Rc, Cell, Bool, Deleter, OpenWith
  <1>1. Typed'
    BY DEF Typed, ClientClose
  <1>2. Bound'
    BY DEF Bound, ClientClose
  <1>3. Sole'
    BY DEF Sole, ClientClose
  <1>4. Open'
    BY DEF Open, ClientClose
  <1>5. Kept'
    BY DEF Typed, Kept, ClientClose
  <1>6. OwnersCanClose'
    BY DEF OwnersCanClose, Sole, ClientClose
  <1>7. NoFault'
    BY DEF NoFault, ClientClose
  <1>8. QED BY <1>1, <1>2, <1>3, <1>4, <1>5, <1>6, <1>7

LEMMA BeginVarKeeps ==
    ASSUME IInv, NEW c \in Var, NEW t \in Tag, BeginVar(c, t)
    PROVE  IInv'
  <1> USE SharedAssumption DEF IInv, Rc, Cell, Bool, Deleter, OpenWith
  <1>1. Typed'
    BY DEF Typed, BeginVar
  <1>2. Bound'
    BY DEF Bound, BeginVar
  <1>3. Sole'
    BY DEF Sole, BeginVar
  <1>4. Open'
    BY DEF Open, BeginVar
  <1>5. Kept'
    BY DEF Kept, BeginVar
  <1>6. OwnersCanClose'
    BY DEF Bound, OwnersCanClose, BeginVar
  <1>7. NoFault'
    BY DEF NoFault, BeginVar
  <1>8. QED BY <1>1, <1>2, <1>3, <1>4, <1>5, <1>6, <1>7

LEMMA EndVarKeeps ==
    ASSUME IInv, NEW c \in Var, EndVar(c)
    PROVE  IInv'
  <1> USE SharedAssumption DEF IInv, Rc, Cell, Bool, Deleter, OpenWith
  <1>1. Typed'
    BY DEF Typed, EndVar
  <1>2. Bound'
    BY DEF Bound, EndVar, Unused
  <1>3. Sole'
    BY DEF Sole, EndVar
  <1>4. Open'
    BY DEF Open, EndVar
  <1>5. Kept'
    BY DEF Kept, EndVar
  <1>6. OwnersCanClose'
    BY DEF Bound, OwnersCanClose, EndVar, Unused
  <1>7. NoFault'
    BY DEF NoFault, EndVar
  <1>8. QED BY <1>1, <1>2, <1>3, <1>4, <1>5, <1>6, <1>7

LEMMA ConstructRefKeeps ==
    ASSUME IInv, NEW x \in Rc, NEW h \in raw \cup {null}, NEW c \in Cell, ConstructRef(x, h, c)
    PROVE  IInv'
  <1> USE SharedAssumption DEF IInv, Rc, Cell, Bool, Deleter, OpenWith
  <1>1. Typed'
    BY DEF Typed, ConstructRef
  <1>2. Bound'
    BY DEF Typed, Bound, ConstructRef
  <1>3. Sole'
    BY DEF Sole, ConstructRef
  <1>4. Open'
    BY DEF Open, ConstructRef
  <1>5. Kept'
    BY DEF Typed, Kept, Sole, ConstructRef
  <1>6. OwnersCanClose'
    BY DEF Typed, OwnersCanClose, ConstructRef, MayGive
  <1>7. NoFault'
    BY DEF NoFault, ConstructRef
  <1>8. QED BY <1>1, <1>2, <1>3, <1>4, <1>5, <1>6, <1>7

LEMMA ConstructValKeeps ==
    ASSUME IInv, NEW x \in Rc, NEW h \in raw \cup {null}, NEW t \in Tag, ConstructVal(x, h, t)
    PROVE  IInv'
  <1> USE SharedAssumption DEF IInv, Rc, Cell, Bool, Deleter, OpenWith
  <1>1. Typed'
    BY DEF Typed, ConstructVal
  <1>2. Bound'
    BY DEF Bound, ConstructVal
  <1>3. Sole'
    BY DEF Sole, ConstructVal
  <1>4. Open'
    BY DEF Open, ConstructVal
  <1>5. Kept'
    BY DEF Typed, Kept, Sole, ConstructVal
  <1>6. OwnersCanClose'
    BY DEF Typed, Bound, OwnersCanClose, ConstructVal, MayGive
  <1>7. NoFault'
    BY DEF NoFault, ConstructVal
  <1>8. QED BY <1>1, <1>2, <1>3, <1>4, <1>5, <1>6, <1>7

LEMMA MoveConstructRefKeeps ==
    ASSUME IInv, NEW x \in Rc, NEW y \in Rc, MoveConstructRef(x, y)
    PROVE  IInv'
  <1> USE SharedAssumption DEF IInv, Rc, Cell, Bool, Deleter, OpenWith
  <1>1. Typed'
    BY DEF Typed, MoveConstructRef, BeginFrom
  <1>2. Bound'
    BY DEF Typed, Bound, MoveConstructRef, BeginFrom
  <1>3. Sole'
    BY DEF Typed, Sole, MoveConstructRef, BeginFrom
  <1>4. Open'
    BY DEF Open, MoveConstructRef, BeginFrom
  <1>5. Kept'
    BY DEF Typed, Kept, Sole, MoveConstructRef, BeginFrom
  <1>6. OwnersCanClose'
    BY DEF Typed, OwnersCanClose, MoveConstructRef, BeginFrom
  <1>7. NoFault'
    BY DEF NoFault, MoveConstructRef
  <1>8. QED BY <1>1, <1>2, <1>3, <1>4, <1>5, <1>6, <1>7

LEMMA MoveConstructValKeeps ==
    ASSUME IInv, NEW x \in Rc, NEW y \in Rc, MoveConstructVal(x, y)
    PROVE  IInv'
  <1> USE SharedAssumption DEF IInv, Rc, Cell, Bool, Deleter, OpenWith
  <1>1. Typed'
    BY DEF Typed, MoveConstructVal, BeginFrom
  <1>2. Bound'
    BY DEF Bound, MoveConstructVal, BeginFrom
  <1>3. Sole'
    BY DEF Typed, Sole, MoveConstructVal, BeginFrom
  <1>4. Open'
    BY DEF Open, MoveConstructVal, BeginFrom
  <1>5. Kept'
    BY DEF Typed, Kept, Sole, MoveConstructVal, BeginFrom
  <1>6. OwnersCanClose'
    BY DEF Typed, Bound, OwnersCanClose, MoveConstructVal, BeginFrom, Tolerated
  <1>7. NoFault'
    BY DEF NoFault, MoveConstructVal
  <1>8. QED BY <1>1, <1>2, <1>3, <1>4, <1>5, <1>6, <1>7

LEMMA ConvertConstructKeeps ==
    ASSUME IInv, NEW x \in Rc, NEW y \in Rc, ConvertConstruct(x, y)
    PROVE  IInv'
  <1> USE SharedAssumption DEF IInv, Rc, Cell, Bool, Deleter, OpenWith
  <1>1. Typed'
    BY DEF Typed, Bound, ConvertConstruct, BeginFrom
  <1>2. Bound'
    BY DEF Bound, ConvertConstruct, BeginFrom
  <1>3. Sole'
    BY DEF Typed, Sole, ConvertConstruct, BeginFrom
  <1>4. Open'
    BY DEF Open, ConvertConstruct, BeginFrom
  <1>5. Kept'
    BY DEF Typed, Kept, Sole, ConvertConstruct, BeginFrom
  <1>6. OwnersCanClose'
    BY DEF Typed, Bound, OwnersCanClose, ConvertConstruct, BeginFrom
  <1>7. NoFault'
    BY DEF NoFault, OwnersCanClose, ConvertConstruct, BeginFrom, Gone
  <1>8. QED BY <1>1, <1>2, <1>3, <1>4, <1>5, <1>6, <1>7

LEMMA ResetKeeps ==
    ASSUME IInv, NEW x \in Rc, NEW h \in raw \cup {null}, Reset(x, h)
    PROVE  IInv'
  <1> USE SharedAssumption DEF IInv, Rc, Cell, Bool, Deleter, OpenWith
  <1>1. Typed'
    BY DEF Typed, Reset, CallDeleter, Close
  <1>2. Bound'
    BY DEF Bound, Reset
  <1>3. Sole'
    BY DEF Sole, Reset
  <1>4. Open'
    BY DEF Open, Sole, Reset, CallDeleter, Close
  <1>5. Kept'
    BY DEF Typed, Kept, Reset, CallDeleter, Close
  <1>6. OwnersCanClose'
    BY DEF Typed, OwnersCanClose, Sole, Reset, MayGive, CallDeleter, Close, Misused
  <1>7. NoFault'
    BY DEF NoFault, OwnersCanClose, Reset, CallDeleter, Misused, Gone
  <1>8. QED BY <1>1, <1>2, <1>3, <1>4, <1>5, <1>6, <1>7

LEMMA ReleaseKeeps ==
    ASSUME IInv, NEW x \in Rc, Release(x)
    PROVE  IInv'
  <1> USE SharedAssumption DEF IInv, Rc, Cell, Bool, Deleter, OpenWith
  <1>1. Typed'
    BY DEF Typed, Release
  <1>2. Bound'
    BY DEF Bound, Release
  <1>3. Sole'
    BY DEF Typed, Sole, Release
  <1>4. Open'
    BY HeldIsOpen DEF Open, Release
  <1>5. Kept'
    BY DEF Kept, Release
  <1>6. OwnersCanClose'
    BY DEF Bound, OwnersCanClose, Release
  <1>7. NoFault'
    BY DEF NoFault, Release
  <1>8. QED BY <1>1, <1>2, <1>3, <1>4, <1>5, <1>6, <1>7

LEMMA AssignFromRefKeeps ==
    ASSUME IInv, NEW x \in Rc, NEW y \in Rc, AssignFromRef(x, y)
    PROVE  IInv'
  <1> USE SharedAssumption DEF IInv, Rc, Cell, Bool, Deleter, OpenWith
  <1>1. Typed'
    BY DEF Typed, Bound, AssignFromRef, AssignFrom, Close
  <1>2. Bound'
    BY DEF Bound, AssignFromRef, AssignFrom
  <1>3. Sole'
    BY DEF Typed, Sole, AssignFromRef, AssignFrom
  <1>4. Open'
    BY DEF Open, Sole, AssignFromRef, AssignFrom, Close
  <1>5. Kept'
    BY DEF Typed, Kept, AssignFromRef, AssignFrom, Close
  <1>6. OwnersCanClose'
    BY DEF Typed, Bound, OwnersCanClose, Sole, AssignFromRef, AssignFrom, Tolerated, Close
  <1>7. NoFault'
    BY DEF NoFault, OwnersCanClose, AssignFromRef, AssignFrom, Misused, Gone
  <1>8. QED BY <1>1, <1>2, <1>3, <1>4, <1>5, <1>6, <1>7

LEMMA AssignFromValKeeps ==
    ASSUME IInv, NEW x \in Rc, NEW y \in Rc, AssignFromVal(x, y)
    PROVE  IInv'
  <1> USE SharedAssumption DEF IInv, Rc, Cell, Bool, Deleter, OpenWith
  <1>1. Typed'
    BY DEF Typed, Bound, AssignFromVal, AssignFrom, Close
  <1>2. Bound'
    BY DEF Bound, AssignFromVal, AssignFrom
  <1>3. Sole'
    BY DEF Typed, Sole, AssignFromVal, AssignFrom
  <1>4. Open'
    BY DEF Open, Sole, AssignFromVal, AssignFrom, Close
  <1>5. Kept'
    BY DEF Typed, Kept, AssignFromVal, AssignFrom, Close
  <1>6. OwnersCanClose'
    BY DEF Typed, Bound, OwnersCanClose, Sole, AssignFromVal, AssignFrom, Tolerated, Close
  <1>7. NoFault'
    BY DEF NoFault, OwnersCanClose, AssignFromVal, AssignFrom, Misused, Gone
  <1>8. QED BY <1>1, <1>2, <1>3, <1>4, <1>5, <1>6, <1>7

LEMMA SwapKeeps ==
    ASSUME IInv, NEW x \in Rc, NEW y \in Rc, Swap(x, y)
    PROVE  IInv'
  <1> USE SharedAssumption DEF IInv, Rc, Cell, Bool, Deleter, OpenWith
  <1>1. Typed'
    BY DEF Typed, Bound, Swap
  <1>2. Bound'
    BY DEF Bound, Swap
  <1>3. Sole'
    BY DEF Typed, Sole, Swap
  <1>4. Open'
    BY DEF Open, Swap
  <1>5. Kept'
    BY DEF Typed, Kept, Swap
  <1>6. OwnersCanClose'
    BY DEF Typed, Bound, OwnersCanClose, Swap, Tolerated
  <1>7. NoFault'
    BY DEF NoFault, OwnersCanClose, Swap, Gone
  <1>8. QED BY <1>1, <1>2, <1>3, <1>4, <1>5, <1>6, <1>7

LEMMA DestroyKeeps ==
    ASSUME IInv, NEW x \in Rc, Destroy(x)
    PROVE  IInv'
  <1> USE SharedAssumption DEF IInv, Rc, Cell, Bool, Deleter, OpenWith
  <1>1. Typed'
    BY DEF Typed, Destroy, CallDeleter, Close
  <1>2. Bound'
    BY DEF Typed, Bound, Destroy, Unused
  <1>3. Sole'
    BY DEF Typed, Sole, Destroy
  <1>4. Open'
    BY HeldIsOpen DEF Open, Sole, Destroy, CallDeleter, Close
  <1>5. Kept'
    BY DEF Typed, Kept, Destroy, CallDeleter, Close
  <1>6. OwnersCanClose'
    BY DEF Typed, Bound, OwnersCanClose, Sole, Destroy, Unused, CallDeleter, Close
  <1>7. NoFault'
    BY DEF NoFault, OwnersCanClose, Destroy, CallDeleter, Misused, Gone
  <1>8. QED BY <1>1, <1>2, <1>3, <1>4, <1>5, <1>6, <1>7

LEMMA InitIInv ==
    ASSUME Init
    PROVE  IInv
  BY SharedAssumption
  DEF Init, IInv, Typed, Bound, Sole, Open, Kept, OwnersCanClose, NoFault, Rc, Cell, Bool

LEMMA StepIInv ==
    ASSUME IInv, [Next]_vars
    PROVE  IInv'
  <1>1. CASE ClientOp
    BY <1>1, AcquireKeeps, ClientCloseKeeps, BeginVarKeeps, EndVarKeeps DEF ClientOp
  <1>2. ASSUME NEW x \in Rc, RcOp(x)
        PROVE  IInv'
    BY <1>2, ResetKeeps, ConstructRefKeeps, ConstructValKeeps, ReleaseKeeps, DestroyKeeps
    DEF RcOp
  <1>3. ASSUME NEW x \in Rc, NEW y \in Rc, RcPairOp(x, y)
        PROVE  IInv'
    BY <1>3, MoveConstructRefKeeps, MoveConstructValKeeps, ConvertConstructKeeps,
       AssignFromRefKeeps, AssignFromValKeeps, SwapKeeps DEF RcPairOp
  <1>4. CASE UNCHANGED vars
    BY <1>4 DEF vars, IInv, Typed, Bound, Sole, Open, Kept, OwnersCanClose, NoFault, Bool,
                OpenWith, Deleter
  <1>5. QED BY <1>1, <1>2, <1>3, <1>4 DEF Next

\* Ownership is exclusive and complete, and the references are what the client
\* takes them for, in every reachable state.
THEOREM SharingInvariance == Spec => []IInv
  <1>1. IInv /\ [Next]_vars => IInv'
    BY StepIInv
  <1>2. QED BY InitIInv, <1>1, PTL DEF Spec

------------------------------------------------------------------------------
\* No deleter is called on what it does not close, or accessed after its end,
\* though assignments and swaps change deleters that others refer to.
THEOREM NoDanglingDeleter == Spec => []NoFault
  <1>1. IInv => NoFault
    BY DEF IInv
  <1>2. QED BY <1>1, SharingInvariance, PTL

\* Every object that owns something refers to a deleter that is there and closes it.
THEOREM SharersCanClose == Spec => []OwnersCanClose
  <1>1. IInv => OwnersCanClose
    BY DEF IInv
  <1>2. QED BY <1>1, SharingInvariance, PTL

------------------------------------------------------------------------------
(* The refinement.                                                           *)

\* Whom the mapping names, state by state.
Party(r) ==
    /\ ownerBar[r] = Nobody <=> res[r] = Closed
    /\ ownerBar[r] = Client <=> r \in raw
    /\ \A x \in Rc : ownerBar[r] = x <=> hnd[x] = r
    /\ ownerBar[r] \in Rc \cup {Client, Nobody}

LEMMA PartyIsUnique == IInv => \A r \in Resource : Party(r)
  <1> SUFFICES ASSUME IInv, NEW r \in Resource PROVE Party(r)
    OBVIOUS
  <1>1. {Client, Nobody, Lost} \cap Rc = {} /\ r # null
    BY SharedAssumption
  <1>2. Client # Nobody /\ Client # Lost /\ Nobody # Lost
    BY DEF Client, Nobody, Lost
  <1>3. r \in raw => res[r] # Closed
    BY DEF IInv, Open
  <1>4. \A x \in Rc : hnd[x] = r => Holds(x, r) /\ res[r] # Closed /\ r \notin raw
    BY <1>1, HeldIsOpen DEF IInv, Sole, Holds
  <1>5. \A x, y \in Rc : hnd[x] = r /\ hnd[y] = r => x = y
    BY <1>1 DEF IInv, Sole
  <1>6. res[r] # Closed => r \in raw \/ \E x \in Rc : hnd[x] = r
    BY DEF IInv, Kept
  <1>7. CASE res[r] = Closed
    <2>1. ownerBar[r] = Nobody
      BY <1>7 DEF ownerBar
    <2>2. QED BY <1>1, <1>2, <1>3, <1>4, <1>7, <2>1 DEF Party
  <1>8. ASSUME NEW x \in Rc, hnd[x] = r PROVE Party(r)
    <2>1. Holds(x, r) /\ \A y \in Rc : Holds(y, r) => y = x
      BY <1>4, <1>5, <1>8 DEF Holds
    <2>2. ownerBar[r] = x
      BY <1>4, <1>8, <2>1 DEF ownerBar
    <2>3. QED BY <1>1, <1>2, <1>4, <1>5, <1>8, <2>2 DEF Party
  <1>9. CASE r \in raw
    <2>1. ~\E x \in Rc : Holds(x, r)
      BY <1>4, <1>9 DEF Holds
    <2>2. ownerBar[r] = Client
      BY <1>3, <1>9, <2>1 DEF ownerBar
    <2>3. QED BY <1>1, <1>2, <1>3, <1>4, <1>9, <2>2 DEF Party
  <1>10. QED BY <1>6, <1>7, <1>8, <1>9

LEMMA PartyIsUniqueNext == IInv' => (\A r \in Resource : Party(r))'
  BY PartyIsUnique, PTL

\* ownerBar has no other values than those at the resources.
LEMMA BarIsFunction ==
    /\ ownerBar = [r \in Resource |-> ownerBar[r]]
    /\ ownerBar' = [r \in Resource |-> ownerBar'[r]]
  BY DEF ownerBar

\* The objects outside S store what they did.
SameFor(S) == \A z \in Rc \ S : hnd'[z] = hnd[z]

\* The resource x held is closed, and no other.
ClosedOnly(x) == \A r \in Resource :
    res'[r] = Closed <=> res[r] = Closed \/ hnd[x] = r

LEMMA PutMaps ==
    ASSUME IInv, IInv', NEW x \in Rc, NEW h \in raw \cup {null}, hnd'[x] = h,
           SameFor({x}), ClosedOnly(x), raw' = raw \ {h}
    PROVE  Abstract!Next
  <1> DEFINE S == {h} \cap Resource
  <1>1. \A r \in Resource : Party(r) /\ Party(r)'
    BY PartyIsUnique, PartyIsUniqueNext
  <1>2. null \notin Resource /\ raw \subseteq Resource
    BY SharedAssumption DEF IInv, Typed
  <1>3. S \subseteq Abstract!Owned(Client) /\ Abstract!AtMostOne(S)
    BY <1>1, <1>2 DEF Abstract!Owned, Abstract!AtMostOne, Party
  <1>4. ASSUME NEW r \in Resource
        PROVE  ownerBar'[r] = CASE r \in S -> x
                                [] r \notin S /\ ownerBar[r] = x -> Nobody
                                [] OTHER -> ownerBar[r]
    <2>1. Party(r) /\ Party(r)'
      BY <1>1
    <2>2. CASE r \in S
      BY <2>1, <2>2 DEF Party
    <2>3. CASE r \notin S /\ ownerBar[r] = x
      BY <2>1, <2>3 DEF Party, ClosedOnly
    <2>4. CASE r \notin S /\ ownerBar[r] # x
      <3>1. /\ res'[r] = Closed <=> res[r] = Closed
            /\ r \in raw' <=> r \in raw
            /\ hnd'[x] # r
        BY <2>1, <2>4 DEF Party, ClosedOnly
      <3>2. ownerBar'[r] = ownerBar[r]
        BY <2>1, <2>4, <3>1 DEF Party, SameFor
      <3>3. QED BY <2>4, <3>2
    <2>5. QED BY <2>2, <2>3, <2>4
  <1> HIDE DEF S
  <1>5. Abstract!Put(x, S)
    BY <1>3, <1>4, BarIsFunction DEF Abstract!Put
  <1>6. QED BY <1>3, <1>5 DEF Abstract!Next

LEMMA TakeMaps ==
    ASSUME IInv, IInv', NEW x \in Rc, NEW y \in Rc, x # y,
           hnd'[x] = hnd[y], hnd'[y] = null,
           SameFor({x, y}), ClosedOnly(x), raw' = raw
    PROVE  Abstract!Next
  <1>1. \A r \in Resource : Party(r) /\ Party(r)' /\ r # null
    BY PartyIsUnique, PartyIsUniqueNext, SharedAssumption
  <1>2. ASSUME NEW r \in Resource
        PROVE  ownerBar'[r] = CASE ownerBar[r] = y -> x
                                [] ownerBar[r] = x -> Nobody
                                [] OTHER -> ownerBar[r]
    <2>1. Party(r) /\ Party(r)' /\ r # null
      BY <1>1
    <2>2. CASE ownerBar[r] = y
      BY <2>1, <2>2 DEF Party
    <2>3. CASE ownerBar[r] = x
      BY <2>1, <2>3 DEF Party, ClosedOnly
    <2>4. CASE ownerBar[r] \notin {x, y}
      <3>1. /\ res'[r] = Closed <=> res[r] = Closed
            /\ hnd'[x] # r /\ hnd'[y] # r
        BY <2>1, <2>4 DEF Party, ClosedOnly
      <3>2. ownerBar'[r] = ownerBar[r]
        BY <2>1, <2>4, <3>1 DEF Party, SameFor
      <3>3. QED BY <2>4, <3>2
    <2>5. QED BY <2>2, <2>3, <2>4
  <1>3. Abstract!Take(x, y)
    BY <1>2, BarIsFunction DEF Abstract!Take
  <1>4. QED BY <1>3 DEF Abstract!Next

\* A step that closes, opens and hands over nothing.
LEMMA StutterMaps ==
    ASSUME UNCHANGED <<res, raw, hnd>>, IInv, IInv'
    PROVE  ownerBar' = ownerBar
  <1>1. \A r \in Resource : Party(r) /\ Party(r)'
    BY PartyIsUnique, PartyIsUniqueNext
  <1>2. \A r \in Resource : ownerBar'[r] = ownerBar[r]
    BY <1>1 DEF Party
  <1>3. QED BY <1>2, BarIsFunction

LEMMA ClientMaps ==
    ASSUME IInv, IInv', ClientOp
    PROVE  Abstract!Next \/ ownerBar' = ownerBar
  <1>1. \A s \in Resource : Party(s) /\ Party(s)'
    BY PartyIsUnique, PartyIsUniqueNext
  <1>2. ASSUME NEW r \in Resource, hnd' = hnd,
               \A s \in Resource \ {r} : /\ res'[s] = Closed <=> res[s] = Closed
                                         /\ s \in raw' <=> s \in raw
        PROVE  \A s \in Resource \ {r} : ownerBar'[s] = ownerBar[s]
    BY <1>1, <1>2 DEF Party
  <1>3. ASSUME NEW r \in Resource, ClientClose(r) PROVE Abstract!Next
    <2>1. ownerBar[r] = Client /\ ownerBar'[r] = Nobody
      BY <1>1, <1>3 DEF ClientClose, Party, IInv, Typed
    <2>2. \A s \in Resource \ {r} : ownerBar'[s] = ownerBar[s]
      BY <1>2, <1>3 DEF ClientClose, IInv, Typed
    <2>3. Abstract!Discard(r)
      BY <2>1, <2>2, BarIsFunction DEF Abstract!Discard
    <2>4. QED BY <2>3 DEF Abstract!Next
  <1>4. ASSUME NEW r \in Resource, NEW t \in Tag, Acquire(r, t) PROVE Abstract!Next
    <2>1. ownerBar[r] = Nobody /\ ownerBar'[r] = Client
      BY <1>1, <1>4 DEF Acquire, Party
    <2>2. \A s \in Resource \ {r} : ownerBar'[s] = ownerBar[s]
      BY <1>2, <1>4 DEF Acquire, IInv, Typed
    <2>3. Abstract!Acquire(r)
      BY <2>1, <2>2, BarIsFunction DEF Abstract!Acquire
    <2>4. QED BY <2>3 DEF Abstract!Next
  <1>5. ASSUME NEW c \in Var, EndVar(c) \/ \E t \in Tag : BeginVar(c, t)
        PROVE  ownerBar' = ownerBar
    BY <1>5, StutterMaps DEF EndVar, BeginVar
  <1>6. QED BY <1>3, <1>4, <1>5 DEF ClientOp

\* What the deleter's call closes.
LEMMA CloseClosesOnly ==
    ASSUME IInv, NEW x \in Rc, Close(hnd[x])
    PROVE  ClosedOnly(x)
  BY HeldIsOpen, SharedAssumption DEF Close, ClosedOnly, IInv, Typed

LEMMA ObjectMaps ==
    ASSUME IInv, IInv', NEW x \in Rc, RcOp(x)
    PROVE  Abstract!Next
  <1> USE SharedAssumption DEF Rc
  <1>1. ASSUME NEW h \in raw \cup {null}, Reset(x, h) PROVE Abstract!Next
    <2>1. ClosedOnly(x)
      BY <1>1, CloseClosesOnly DEF Reset, CallDeleter
    <2>2. hnd'[x] = h /\ SameFor({x}) /\ raw' = raw \ {h}
      BY <1>1 DEF Reset, SameFor, IInv, Typed
    <2>3. QED BY <2>1, <2>2, PutMaps
  <1>2. ASSUME NEW h \in raw \cup {null},
               \/ \E c \in Cell : ConstructRef(x, h, c)
               \/ \E t \in Tag : ConstructVal(x, h, t)
        PROVE  Abstract!Next
    <2>1. x \notin alive /\ hnd' = [hnd EXCEPT ![x] = h] /\ raw' = raw \ {h} /\ res' = res
      BY <1>2 DEF ConstructRef, ConstructVal
    <2>2. hnd[x] = null
      BY <2>1 DEF IInv, Sole
    <2>3. ClosedOnly(x)
      BY <2>1, <2>2 DEF ClosedOnly
    <2>4. hnd'[x] = h /\ SameFor({x})
      BY <2>1 DEF SameFor, IInv, Typed
    <2>5. QED BY <2>1, <2>3, <2>4, PutMaps
  <1>3. CASE Destroy(x)
    <2>1. ClosedOnly(x)
      BY <1>3, CloseClosesOnly DEF Destroy, CallDeleter
    <2>2. hnd'[x] = null /\ SameFor({x}) /\ raw' = raw \ {null}
      BY <1>3 DEF Destroy, SameFor, IInv, Typed
    <2>3. QED BY <2>1, <2>2, PutMaps
  <1>4. CASE Release(x)
    <2>1. \A r \in Resource : Party(r) /\ Party(r)' /\ r # null
      BY PartyIsUnique, PartyIsUniqueNext
    <2>2. /\ res' = res /\ raw' = raw \cup ({hnd[x]} \ {null})
          /\ hnd'[x] = null /\ SameFor({x})
      BY <1>4 DEF Release, SameFor, IInv, Typed
    <2>3. ASSUME NEW r \in Resource
          PROVE  ownerBar'[r] = IF ownerBar[r] = x THEN Client ELSE ownerBar[r]
      <3>1. Party(r) /\ Party(r)' /\ r # null
        BY <2>1
      <3>2. CASE ownerBar[r] = x
        BY <2>2, <3>1, <3>2 DEF Party
      <3>3. CASE ownerBar[r] # x
        <4>1. hnd[x] # r /\ (r \in raw' <=> r \in raw)
          BY <2>2, <3>1, <3>3 DEF Party
        <4>2. QED BY <2>2, <3>1, <3>3, <4>1 DEF Party, SameFor
      <3>4. QED BY <3>2, <3>3
    <2>4. Abstract!Yield(x)
      BY <2>3, BarIsFunction DEF Abstract!Yield
    <2>5. QED BY <2>4 DEF Abstract!Next
  <1>5. QED BY <1>1, <1>2, <1>3, <1>4 DEF RcOp

LEMMA SwapMaps ==
    ASSUME IInv, IInv', NEW x \in Rc, NEW y \in Rc, Swap(x, y)
    PROVE  Abstract!Next
  <1>1. \A r \in Resource : Party(r) /\ Party(r)'
    BY PartyIsUnique, PartyIsUniqueNext
  <1>2. /\ UNCHANGED <<res, raw>> /\ SameFor({x, y})
        /\ hnd'[x] = hnd[y] /\ hnd'[y] = hnd[x]
    BY DEF Swap, SameFor, IInv, Typed
  <1>3. ASSUME NEW r \in Resource
        PROVE  ownerBar'[r] = CASE ownerBar[r] = x -> y
                                [] ownerBar[r] = y -> x
                                [] OTHER -> ownerBar[r]
    <2>1. Party(r) /\ Party(r)'
      BY <1>1
    <2>2. CASE ownerBar[r] = x
      BY <1>2, <2>1, <2>2 DEF Party
    <2>3. CASE ownerBar[r] = y /\ ownerBar[r] # x
      <3>1. ownerBar'[r] = x
        BY <1>2, <2>1, <2>3 DEF Party
      <3>2. QED BY <2>3, <3>1
    <2>4. CASE ownerBar[r] \notin {x, y}
      <3>1. ownerBar'[r] = ownerBar[r]
        BY <1>2, <2>1, <2>4 DEF Party, SameFor
      <3>2. QED BY <2>4, <3>1
    <2>5. QED BY <2>2, <2>3, <2>4
  <1>4. Abstract!Exchange(x, y)
    BY <1>3, BarIsFunction DEF Abstract!Exchange
  <1>5. QED BY <1>4 DEF Abstract!Next

LEMMA PairMaps ==
    ASSUME IInv, IInv', NEW x \in Rc, NEW y \in Rc, RcPairOp(x, y)
    PROVE  Abstract!Next
  <1>1. ASSUME BeginFrom(x, y), raw' = raw PROVE Abstract!Next
    <2>1. x # y /\ hnd[x] = null /\ res' = res
      BY <1>1 DEF BeginFrom, IInv, Sole
    <2>2. ClosedOnly(x)
      BY <2>1, SharedAssumption DEF ClosedOnly
    <2>3. hnd'[x] = hnd[y] /\ hnd'[y] = null /\ SameFor({x, y})
      BY <1>1, <2>1 DEF BeginFrom, SameFor, IInv, Typed
    <2>4. QED BY <1>1, <2>1, <2>2, <2>3, TakeMaps
  <1>2. ASSUME NEW D, AssignFrom(x, y, D) PROVE Abstract!Next
    <2>1. ClosedOnly(x)
      BY <1>2, CloseClosesOnly DEF AssignFrom
    <2>2. x # y /\ raw' = raw /\ hnd'[x] = hnd[y] /\ hnd'[y] = null /\ SameFor({x, y})
      BY <1>2 DEF AssignFrom, SameFor, IInv, Typed
    <2>3. QED BY <2>1, <2>2, TakeMaps
  <1>3. CASE MoveConstructRef(x, y) \/ MoveConstructVal(x, y) \/ ConvertConstruct(x, y)
    BY <1>1, <1>3 DEF MoveConstructRef, MoveConstructVal, ConvertConstruct, BeginFrom
  <1>4. CASE AssignFromRef(x, y) \/ AssignFromVal(x, y)
    BY <1>2, <1>4 DEF AssignFromRef, AssignFromVal
  <1>5. QED BY <1>3, <1>4, SwapMaps DEF RcPairOp

\* However deleters are shared, each operation is one transfer of responsibility
\* of Ownership, or leaves responsibility where it is.
THEOREM SharersImplementOwnership == Spec => OwnershipSpec
  <1>1. Init => Abstract!Init
    BY DEF Init, ownerBar, Abstract!Init
  <1>2. IInv /\ IInv' /\ [Next]_vars => [Abstract!Next]_ownerBar
    <2> SUFFICES ASSUME IInv, IInv', [Next]_vars
                 PROVE  Abstract!Next \/ ownerBar' = ownerBar
      OBVIOUS
    <2>1. CASE UNCHANGED vars
      BY <2>1, StutterMaps DEF vars
    <2>2. QED BY <2>1, ClientMaps, ObjectMaps, PairMaps DEF Next
  <1>3. QED
    BY <1>1, <1>2, SharingInvariance, PTL DEF Spec, OwnershipSpec, Abstract!Spec
==============================================================================

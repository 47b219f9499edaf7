-------------------------- MODULE GeneratorProofs ---------------------------
(***************************************************************************)
(* Generators may be moved, assigned and destroyed while their coroutines   *)
(* are traversed: no coroutine is resumed, read or destroyed when it must   *)
(* not be, none is leaked, and every value is read in order, once.          *)
(***************************************************************************)
EXTENDS Generator, UniqueRcRefinement

LEMMA CoroPolicyFits ==
    ASSUME IsCoroutineHandle
    PROVE  PolicyFits
  <1>1. \A k \in Kind : /\ OwnedOf[k] = Handle \ {null} /\ InvalidOf[k] = null
                        /\ FailureOf[k] = {} /\ ResourceOf[k] = Resource
    BY DEF IsCoroutineHandle, CoroOwnedOf, CoroInvalidOf, CoroFailureOf,
           CoroResourceOf, CoroPolicy, Policy
  <1>2. null \notin Resource /\ Resource \subseteq Handle
    BY GeneratorAssumption, ConstantsAssumption
  <1>3. QED BY <1>1, <1>2 DEF PolicyFits

\* What unique_coroutine_handle passes to unique_rc fits.
LEMMA CoroFits ==
    ASSUME IsCoroutineHandle, SelfResets => Checked
    PROVE  Fits
  <1>1. ConversionFits
    BY DEF IsCoroutineHandle, ConversionFits
  <1>2. HandlesTell
    BY DEF IsCoroutineHandle, CoroCompared, HandlesTell
  <1>3. QED BY <1>1, <1>2, CoroPolicyFits DEF Fits, RunningFits

\* An owning generator has the handle of a suspended coroutine, others have null.
LEMMA BoolIsSuspended ==
    ASSUME IsCoroutineHandle, IInv, NEW x \in alive
    PROVE  IF Bool(x) THEN hnd[x] \in Resource /\ Suspended(hnd[x]) ELSE hnd[x] = null
  <1>1. x \in Rc /\ KindOf[x] \in Kind /\ hnd[x] \in Handle
    BY ConstantsAssumption DEF IInv, TypeOK
  <1>2. OwnedOf[KindOf[x]] = Handle \ {null}
    BY <1>1 DEF IsCoroutineHandle, CoroOwnedOf, CoroPolicy, Policy
  <1>3. CASE Bool(x)
    <2>1. OpenWith(hnd[x], del[x])
      BY <1>3 DEF IInv, BoolMeansLive
    <2>2. QED BY <1>3, <2>1, OpenIsOpen DEF OpenWith, Suspended
  <1>4. CASE ~Bool(x)
    BY <1>1, <1>2, <1>4 DEF Bool, IsOwned
  <1>5. QED BY <1>3, <1>4

------------------------------------------------------------------------------
(* Generators.                                                               *)

\* What generators do to the world: some coroutines are destroyed, none of which
\* is being traversed.
Disposes ==
    \A f \in Resource : \/ res'[f] = res[f]
                        \/ res'[f] = Closed /\ \A l \in Traversal : iter[l] # f

LEMMA DestroyDisposes ==
    ASSUME IsCoroutineHandle, IInv, NEW x \in Rc, Live(x), Untraversed(x), NEW c, c \in BOOLEAN,
           CallDeleter(Bool(x) /\ c, del[x], hnd[x])
    PROVE  Disposes
  <1>1. res \in [Resource -> Tag \cup {Closed}]
    BY DEF IInv, TypeOK
  <1>2. CASE Bool(x) /\ hnd[x] \in Resource
    BY <1>1, <1>2 DEF CallDeleter, Disposes, Untraversed
  <1>3. CASE ~(Bool(x) /\ hnd[x] \in Resource)
    BY <1>3 DEF CallDeleter, Disposes
  <1>4. QED BY <1>2, <1>3

LEMMA MoveDisposes ==
    ASSUME IsCoroutineHandle, IInv, SelfResets => Checked, MoveGenerator
    PROVE  Disposes /\ Next
  <1>1. ASSUME NEW x \in Rc, ConstructEmpty(x) PROVE Disposes /\ RcOp(x)
    BY <1>1 DEF ConstructEmpty, Begin, Disposes, RcOp
  <1>2. ASSUME NEW x \in Rc, SelfMoveAssign(x) PROVE Disposes /\ RcOp(x)
    <2>1. ~IsOwned(x, Invalid(x))
      BY CoroPolicyFits, ConstantsAssumption DEF PolicyFits, IsOwned, Invalid
    <2>2. res' = res
      BY <1>2, <2>1 DEF SelfMoveAssign, ResetFrom, CallDeleter
    <2>3. QED BY <1>2, <2>2 DEF Disposes, RcOp
  <1>3. ASSUME NEW x \in Rc, Untraversed(x), Destroy(x) PROVE Disposes /\ RcOp(x)
    <2>1. CallDeleter(Bool(x) /\ TRUE, del[x], hnd[x])
      BY <1>3 DEF Destroy, CallDeleter
    <2>2. Disposes
      BY <1>3, <2>1, DestroyDisposes DEF Destroy
    <2>3. QED BY <1>3, <2>2 DEF RcOp
  <1>4. ASSUME NEW x \in Rc, NEW y \in Rc, MoveConstruct(x, y)
        PROVE  Disposes /\ RcPairOp(x, y)
    BY <1>4 DEF MoveConstruct, BeginFrom, Disposes, RcPairOp
  <1>5. ASSUME NEW x \in Rc, NEW y \in Rc, Untraversed(x), MoveAssign(x, y)
        PROVE  Disposes /\ RcPairOp(x, y)
    <2> DEFINE c == ~Trips(x, hnd[x], hnd[y])
    <2>1. AssignFrom(x, y, hnd[y], del[y])
      BY <1>5 DEF MoveAssign
    <2>2. CallDeleter(Bool(x) /\ c, del[x], hnd[x])
      BY <2>1 DEF AssignFrom, ResetFrom, Bool
    <2>3. c \in BOOLEAN
      BY DEF Trips
    <2>4. Live(x)
      BY <2>1 DEF AssignFrom
    <2> HIDE DEF c
    <2>5. Disposes
      BY <1>5, <2>2, <2>3, <2>4, DestroyDisposes
    <2>6. QED BY <1>5, <2>5 DEF RcPairOp
  <1>6. QED BY <1>1, <1>2, <1>3, <1>4, <1>5 DEF MoveGenerator, Next

\* Whatever is done to generators, traversed coroutines stay as they are.
LEMMA MovesSpare ==
    ASSUME IsCoroutineHandle, SelfResets => Checked, GenIInv, MoveGenerator
    PROVE  /\ \A f \in Resource : Suspended(f)' =>
                 Suspended(f) /\ co'[f] = co[f] /\ got'[f] = got[f]
           /\ \A l \in Traversal : iter[l] # null => Suspended(iter[l])' /\ co'[iter[l]] = co[iter[l]]
           /\ DOMAIN co' = Resource /\ DOMAIN got' = Resource
           /\ \A f \in Resource : ~Suspended(f)' => got'[f] = <<>>
           /\ UNCHANGED <<at, iter>>
  <1>1. Disposes
    BY MoveDisposes DEF GenIInv
  <1>2. Others
    BY DEF MoveGenerator
  <1>3. \A f \in Resource : Suspended(f)' =>
            Suspended(f) /\ co'[f] = co[f] /\ got'[f] = got[f]
    BY <1>1, <1>2 DEF Disposes, Others, Suspended
  <1>4. ASSUME NEW l \in Traversal, iter[l] # null PROVE Suspended(iter[l])'
    <2>1. iter[l] \in Resource /\ Suspended(iter[l])
      BY <1>4 DEF GenIInv, GenTypeOK, Traversed
    <2>2. QED BY <1>1, <1>2, <1>4, <2>1 DEF Disposes, Others, Suspended
  <1>5. \A l \in Traversal : iter[l] # null => co'[iter[l]] = co[iter[l]]
    BY <1>2, <1>3, <1>4 DEF Others, GenIInv, GenTypeOK
  <1>6. QED BY <1>2, <1>3, <1>4, <1>5 DEF Others, Suspended

LEMMA MoveKeeps ==
    ASSUME IsCoroutineHandle, SelfResets => Checked, GenIInv, MoveGenerator
    PROVE  GenIInv'
  <1>1. Disposes /\ Next
    BY MoveDisposes DEF GenIInv
  <1>2. IInv'
    BY <1>1, CoroFits, StepIInv DEF GenIInv
  <1>3. /\ \A f \in Resource : Suspended(f)' =>
              Suspended(f) /\ co'[f] = co[f] /\ got'[f] = got[f]
        /\ \A l \in Traversal : iter[l] # null => Suspended(iter[l])' /\ co'[iter[l]] = co[iter[l]]
        /\ DOMAIN co' = Resource /\ DOMAIN got' = Resource
        /\ \A f \in Resource : ~Suspended(f)' => got'[f] = <<>>
        /\ UNCHANGED <<at, iter>>
    BY MovesSpare
  <1>4. GenTypeOK'
    BY <1>3 DEF GenIInv, GenTypeOK
  <1>5. Traversed'
    BY <1>3 DEF GenIInv, Traversed, Idle
  <1>6. EachValueOnce'
    <2> SUFFICES ASSUME NEW f \in Resource, Suspended(f)' PROVE InOrder(f)'
      BY DEF EachValueOnce
    <2>1. InOrder(f) /\ co'[f] = co[f] /\ got'[f] = got[f]
      BY <1>3 DEF GenIInv, EachValueOnce
    <2>2. Unread(f)' = Unread(f)
      BY <1>3, <2>1 DEF Unread, Pending
    <2>3. QED BY <2>1, <2>2 DEF InOrder
  <1>7. QED BY <1>2, <1>4, <1>5, <1>6 DEF GenIInv
------------------------------------------------------------------------------
(* Traversals.                                                               *)

\* As far as unique_rc goes, nothing happens.
LEMMA RcKeeps ==
    ASSUME IInv, UNCHANGED <<res, raw, alive, hnd, del, aborted>>, ~fault', fault' \in BOOLEAN
    PROVE  IInv'
  BY DEF IInv, TypeOK, NoFault, Exclusive, NoLeak, BoolMeansLive, RawIsOpen,
         OpenWith, Holds, Bool, IsOwned

\* A traversal has its coroutine for itself.
LEMMA OneTraversal ==
    ASSUME Traversed, NEW l \in Traversal, iter[l] # null
    PROVE  Pending(iter[l]) <=> at[l] \in {"test", "read"}
  BY DEF Traversed, Pending

\* A step of one traversal does not matter to the coroutines it is not in.
LEMMA ElsewhereKeeps ==
    ASSUME NEW l \in Traversal, NEW f \in Resource, InOrder(f), iter[l] # f, iter'[l] # f,
           \A m \in Traversal : m # l => at'[m] = at[m] /\ iter'[m] = iter[m],
           co'[f] = co[f], got'[f] = got[f]
    PROVE  InOrder(f)'
  <1>1. Pending(f)' <=> Pending(f)
    BY DEF Pending
  <1>2. Unread(f)' = Unread(f)
    BY <1>1 DEF Unread
  <1>3. QED BY <1>2 DEF InOrder

LEMMA ResumedFrame ==
    ASSUME NEW c, FrameOK(c), ~c.done
    PROVE  LET d == Resumed(c)
           IN  /\ FrameOK(d) /\ d.first = c.first /\ d.last = c.last
               /\ IF d.done THEN d.next = c.next /\ d.next = EndOf(d)
                            ELSE d.next = c.next + 1 /\ d.current = c.next
  <1>1. c.next \in Int /\ c.last \in Int /\ c.first \in Int /\ c.first =< c.next
    BY DEF FrameOK
  <1>2. CASE c.next < c.last
    <2>1. Resumed(c) = [c EXCEPT !.current = c.next, !.next = c.next + 1]
      BY <1>2 DEF Resumed
    <2>2. /\ Resumed(c).next = c.next + 1 /\ Resumed(c).current = c.next
          /\ Resumed(c).first = c.first /\ Resumed(c).done = c.done
          /\ Resumed(c).last = c.last
      BY <2>1 DEF FrameOK
    <2>3. Resumed(c) \in [first : Int, next : Int, last : Int,
                          current : Int \cup {NoValue}, done : BOOLEAN]
      <3> DEFINE F == [first : Int, next : Int, last : Int,
                       current : Int \cup {NoValue}, done : BOOLEAN]
                 e == [c EXCEPT !.current = c.next]
      <3>1. e \in F
        BY <1>1 DEF FrameOK
      <3>2. [e EXCEPT !.next = c.next + 1] \in F
        <4> HIDE DEF e
        <4>1. QED BY <1>1, <3>1
      <3>3. QED BY <2>1, <3>2
    <2>4. /\ Resumed(c).first =< Resumed(c).next
          /\ Resumed(c).next =< Resumed(c).last
      BY <1>1, <1>2, <2>2
    <2>5. FrameOK(Resumed(c))
      BY <2>3, <2>4 DEF FrameOK
    <2>6. ~Resumed(c).done
      BY <2>2
    <2>7. QED BY <2>2, <2>5, <2>6
  <1>3. CASE ~(c.next < c.last)
    <2>1. Resumed(c) = [c EXCEPT !.done = TRUE]
      BY <1>3 DEF Resumed
    <2>2. FrameOK(Resumed(c)) /\ Resumed(c).done
      BY <1>1, <2>1 DEF FrameOK
    <2>3. /\ Resumed(c).next = c.next /\ Resumed(c).first = c.first
          /\ Resumed(c).last = c.last
      BY <2>1 DEF FrameOK
    <2>4. c.next = EndOf(c)
      BY <1>1, <1>3 DEF FrameOK, EndOf
    <2>5. EndOf(Resumed(c)) = EndOf(c)
      BY <2>3 DEF EndOf
    <2>6. QED BY <2>2, <2>3, <2>4, <2>5
  <1>4. QED BY <1>2, <1>3

\* Resuming a coroutine all of whose values have been read computes the next one,
\* or ends it.
LEMMA ResumeStep ==
    ASSUME NEW f \in Resource, Suspended(f), ~co[f].done, ~fault, DOMAIN co = Resource,
           FrameOK(co[f]), Resume(f)
    PROVE  LET c == co[f]
               d == co'[f]
           IN  /\ fault' = FALSE
               /\ DOMAIN co' = Resource
               /\ \A g \in Resource : g # f => co'[g] = co[g]
               /\ FrameOK(d) /\ d.first = c.first /\ d.last = c.last
               /\ IF d.done THEN d.next = c.next /\ d.next = EndOf(d)
                            ELSE d.next = c.next + 1 /\ d.current = c.next
  <1>1. fault' = FALSE /\ co' = [co EXCEPT ![f] = Resumed(co[f])]
    BY DEF Resume
  <1>2. co'[f] = Resumed(co[f])
    BY <1>1
  <1>3. QED BY <1>1, <1>2, ResumedFrame

\* begin() and operator++ of a traversal l of f.
LEMMA ResumeKeeps ==
    ASSUME GenIInv, NEW l \in Traversal, NEW f \in Resource,
           Suspended(f), ~co[f].done, ~Pending(f),
           iter[l] \in {null, f}, \A m \in Traversal : m # l => iter[m] # f,
           Resume(f), iter' = [iter EXCEPT ![l] = f], GoTo(l, "test"), Only(got)
    PROVE  GenIInv'
  <1>1. ~fault /\ FrameOK(co[f]) /\ DOMAIN co = Resource /\ null \notin Resource
    BY GeneratorAssumption DEF GenIInv, IInv, NoFault, GenTypeOK
  <1>2. /\ fault' = FALSE /\ DOMAIN co' = Resource
        /\ \A g \in Resource : g # f => co'[g] = co[g]
        /\ FrameOK(co'[f]) /\ co'[f].first = co[f].first
        /\ IF co'[f].done THEN co'[f].next = co[f].next /\ co'[f].next = EndOf(co'[f])
                          ELSE co'[f].next = co[f].next + 1 /\ co'[f].current = co[f].next
    BY <1>1, ResumeStep
  <1>3. /\ iter'[l] = f /\ at'[l] = "test"
        /\ \A m \in Traversal : m # l => at'[m] = at[m] /\ iter'[m] = iter[m]
        /\ at' \in [Traversal -> {"idle", "test", "read", "body"}]
        /\ iter' \in [Traversal -> Resource \cup {null}]
        /\ UNCHANGED <<res, got>>
    BY DEF GenIInv, GenTypeOK, GoTo, Only
  <1>4. IInv'
    BY <1>2, RcKeeps DEF GenIInv, Only
  <1>5. GenTypeOK'
    BY <1>2, <1>3 DEF GenIInv, GenTypeOK, Suspended
  <1>6. Traversed'
    <2>1. \A m \in Traversal : m # l => (iter[m] # null => co'[iter[m]] = co[iter[m]])
      BY <1>2 DEF GenIInv, GenTypeOK
    <2>2. ~co'[f].done => co'[f].current = co'[f].next - 1 /\ co'[f].first < co'[f].next
      BY <1>1, <1>2 DEF FrameOK
    <2>3. \A m \in Traversal : iter'[m] # null =>
              at'[m] # "idle" /\ iter'[m] \in Resource /\ res'[iter'[m]] # Closed
      BY <1>3 DEF GenIInv, Traversed, Idle, Suspended
    <2>4. \A m \in Traversal : (iter[m] # null => ~Idle(m) /\ Suspended(iter[m]))'
      BY <2>3 DEF Idle, Suspended
    <2>5. QED BY <1>3, <2>1, <2>2, <2>4 DEF GenIInv, Traversed
  <1>7. EachValueOnce'
    <2> SUFFICES ASSUME NEW g \in Resource, Suspended(g)' PROVE InOrder(g)'
      BY DEF EachValueOnce
    <2>1. InOrder(g)
      BY <1>3 DEF GenIInv, EachValueOnce, Suspended
    <2>2. CASE g = f
      <3>1. Pending(f)'
        BY <1>3 DEF Pending
      <3>2. got[f] = FirstValues(co[f].first, co[f].next - co[f].first - 0)
        BY <2>1, <2>2 DEF InOrder, Unread
      <3>3. co'[f].next - co'[f].first - Unread(f)' = co[f].next - co[f].first - 0
        BY <1>1, <1>2, <3>1 DEF Unread, FrameOK
      <3>4. QED BY <1>2, <1>3, <2>2, <3>2, <3>3 DEF InOrder
    <2>3. CASE g # f
      BY <1>2, <1>3, <2>1, <2>3, <1>1, ElsewhereKeeps
    <2>4. QED BY <2>2, <2>3
  <1>8. QED BY <1>4, <1>5, <1>6, <1>7 DEF GenIInv

\* A traversal that leaves its coroutine when all it computed has been read.
LEMMA LeaveKeeps ==
    ASSUME GenIInv, NEW l \in Traversal, Unread(iter[l]) = 0 \/ iter[l] = null,
           Leave(l), ~fault', fault' \in BOOLEAN, Only(<<co, got>>)
    PROVE  GenIInv'
  <1>1. /\ iter'[l] = null /\ at'[l] = "idle"
        /\ \A m \in Traversal : m # l => at'[m] = at[m] /\ iter'[m] = iter[m]
        /\ at' \in [Traversal -> {"idle", "test", "read", "body"}]
        /\ iter' \in [Traversal -> Resource \cup {null}]
        /\ UNCHANGED <<res, co, got>>
    BY DEF GenIInv, GenTypeOK, GoTo, Leave, Only
  <1>2. null \notin Resource
    BY GeneratorAssumption
  <1>3. IInv'
    BY RcKeeps DEF GenIInv, Only
  <1>4. GenTypeOK'
    BY <1>1 DEF GenIInv, GenTypeOK, Suspended
  <1>5. Traversed'
    BY <1>1 DEF GenIInv, Traversed, Idle, Suspended
  <1>6. EachValueOnce'
    <2> SUFFICES ASSUME NEW g \in Resource, Suspended(g)' PROVE InOrder(g)'
      BY DEF EachValueOnce
    <2>1. InOrder(g)
      BY <1>1 DEF GenIInv, EachValueOnce, Suspended
    <2>2. CASE g = iter[l]
      <3>1. ~Pending(g)'
        BY <1>1, <1>2, <2>2 DEF Pending, GenIInv, Traversed
      <3>2. Unread(g)' = 0 /\ Unread(g) = 0
        BY <1>2, <2>2, <3>1 DEF Unread
      <3>3. QED BY <1>1, <2>1, <3>2 DEF InOrder
    <2>3. CASE g # iter[l]
      BY <1>1, <1>2, <2>1, <2>3, ElsewhereKeeps
    <2>4. QED BY <2>2, <2>3
  <1>7. QED BY <1>3, <1>4, <1>5, <1>6 DEF GenIInv

LEMMA BeginIterKeeps ==
    ASSUME IsCoroutineHandle, GenIInv, NEW l \in Traversal, NEW x \in Rc, BeginIter(l, x)
    PROVE  GenIInv'
  <1>1. /\ x \in alive /\ Idle(l) /\ iter[l] = null /\ ~fault
        /\ iter' = [iter EXCEPT ![l] = hnd[x]] /\ GoTo(l, "test") /\ Only(got)
    BY DEF BeginIter, Live, GenIInv, Traversed, IInv, NoFault
  <1>2. IF Bool(x) THEN hnd[x] \in Resource /\ Suspended(hnd[x]) ELSE hnd[x] = null
    BY <1>1, BoolIsSuspended DEF GenIInv
  <1>3. CASE Bool(x)
    <2>1. ~co[hnd[x]].done /\ Resume(hnd[x]) /\ \A m \in Traversal : iter[m] # hnd[x]
      BY <1>3 DEF BeginIter, Untraversed
    <2>2. ~Pending(hnd[x])
      BY <2>1 DEF Pending
    <2>3. QED BY <1>1, <1>2, <1>3, <2>1, <2>2, ResumeKeeps
  <1>4. CASE ~Bool(x)
    <2>1. UNCHANGED <<co, fault>> /\ iter' = [iter EXCEPT ![l] = null]
      BY <1>1, <1>2, <1>4 DEF BeginIter
    <2>2. /\ iter' = iter /\ at'[l] = "test"
          /\ \A m \in Traversal : m # l => at'[m] = at[m]
          /\ at' \in [Traversal -> {"idle", "test", "read", "body"}]
          /\ UNCHANGED <<res, co, got>>
      BY <1>1, <2>1 DEF GenIInv, GenTypeOK, GoTo, Only
    <2>3. IInv'
      BY <1>1, <2>1, RcKeeps DEF GenIInv, Only, IInv, TypeOK
    <2>4. GenTypeOK'
      BY <2>2 DEF GenIInv, GenTypeOK, Suspended
    <2>5. Traversed'
      BY <1>1, <2>2 DEF GenIInv, Traversed, Idle, Suspended
    <2>6. EachValueOnce'
      <3> SUFFICES ASSUME NEW g \in Resource, Suspended(g)' PROVE InOrder(g)'
        BY DEF EachValueOnce
      <3>1. InOrder(g) /\ iter[l] # g /\ iter'[l] # g
        BY <1>1, <2>2, GeneratorAssumption DEF GenIInv, EachValueOnce, Suspended
      <3>2. QED BY <2>2, <3>1, ElsewhereKeeps
    <2>7. QED BY <2>3, <2>4, <2>5, <2>6 DEF GenIInv
  <1>5. QED BY <1>3, <1>4

LEMMA TestEndKeeps ==
    ASSUME GenIInv, NEW l \in Traversal, TestEnd(l)
    PROVE  GenIInv'
  <1>1. /\ at[l] = "test" /\ (iter[l] # null => Suspended(iter[l]))
        /\ fault' = FALSE /\ Only(<<co, got>>)
    BY DEF TestEnd, GenIInv, Traversed
  <1>2. CASE AtEnd(l)
    <2>1. Leave(l)
      BY <1>2 DEF TestEnd
    <2>2. iter[l] = null \/ Unread(iter[l]) = 0
      BY <1>1, <1>2 DEF AtEnd, Done, Unread
    <2>3. QED BY <1>1, <2>1, <2>2, LeaveKeeps
  <1>3. CASE ~AtEnd(l)
    <2>1. GoTo(l, "read") /\ UNCHANGED iter
      BY <1>3 DEF TestEnd
    <2>2. iter[l] # null /\ ~co[iter[l]].done
      BY <1>1, <1>3 DEF AtEnd, Done
    <2>3. /\ at'[l] = "read" /\ iter' = iter
          /\ \A m \in Traversal : m # l => at'[m] = at[m]
          /\ at' \in [Traversal -> {"idle", "test", "read", "body"}]
          /\ UNCHANGED <<res, co, got>>
      BY <1>1, <2>1 DEF GenIInv, GenTypeOK, GoTo, Only
    <2>4. IInv'
      BY <1>1, RcKeeps DEF GenIInv, Only
    <2>5. GenTypeOK'
      BY <2>3 DEF GenIInv, GenTypeOK, Suspended
    <2>6. Traversed'
      BY <1>1, <2>2, <2>3 DEF GenIInv, Traversed, Idle, Suspended
    <2>7. EachValueOnce'
      <3> SUFFICES ASSUME NEW g \in Resource, Suspended(g)' PROVE InOrder(g)'
        BY DEF EachValueOnce
      <3>1. InOrder(g)
        BY <2>3 DEF GenIInv, EachValueOnce, Suspended
      <3>2. Pending(g)' <=> Pending(g)
        BY <1>1, <2>3 DEF Pending
      <3>3. QED BY <2>3, <3>1, <3>2 DEF InOrder, Unread
    <2>8. QED BY <2>4, <2>5, <2>6, <2>7 DEF GenIInv
  <1>4. QED BY <1>2, <1>3

LEMMA FirstValuesGrow ==
    ASSUME NEW a \in Int, NEW n \in Nat
    PROVE  Append(FirstValues(a, n), a + n) = FirstValues(a, n + 1)
  BY DEF FirstValues

LEMMA ReadKeeps ==
    ASSUME GenIInv, NEW l \in Traversal, Read(l)
    PROVE  GenIInv'
  <1> DEFINE f == iter[l]
             c == co[f]
  <1>1. /\ at[l] = "read" /\ f \in Resource /\ f # null /\ Suspended(f) /\ ~c.done
        /\ c.current = c.next - 1 /\ c.first < c.next /\ FrameOK(c)
    BY DEF Read, GenIInv, GenTypeOK, Traversed
  <1>2. c.next \in Int /\ c.first \in Int /\ c.current # NoValue
    BY <1>1, GeneratorAssumption DEF FrameOK
  <1>3. /\ fault' = FALSE /\ Only(<<co, iter>>) /\ GoTo(l, "body")
        /\ got' = [got EXCEPT ![f] = Append(got[f], c.current)]
    BY <1>1, <1>2 DEF Read
  <1>4. /\ at'[l] = "body" /\ iter' = iter
        /\ \A m \in Traversal : m # l => at'[m] = at[m]
        /\ at' \in [Traversal -> {"idle", "test", "read", "body"}]
        /\ UNCHANGED <<res, co>>
        /\ DOMAIN got' = Resource /\ got'[f] = Append(got[f], c.current)
        /\ \A g \in Resource : g # f => got'[g] = got[g]
    BY <1>1, <1>3 DEF GenIInv, GenTypeOK, GoTo, Only
  <1>5. IInv'
    BY <1>3, RcKeeps DEF GenIInv, Only
  <1>6. GenTypeOK'
    BY <1>1, <1>4 DEF GenIInv, GenTypeOK, Suspended
  <1>7. Traversed'
    BY <1>1, <1>4 DEF GenIInv, Traversed, Idle, Suspended
  <1>8. EachValueOnce'
    <2> SUFFICES ASSUME NEW g \in Resource, Suspended(g)' PROVE InOrder(g)'
      BY DEF EachValueOnce
    <2>1. InOrder(g)
      BY <1>4 DEF GenIInv, EachValueOnce, Suspended
    <2>2. CASE g = f
      <3> DEFINE n == c.next - c.first - 1
      <3>1. n \in Nat /\ c.first + n = c.current
        BY <1>1, <1>2
      <3>2. Pending(f) /\ Unread(f) = 1
        BY <1>1 DEF Pending, Unread
      <3>3. ~Pending(f)'
        BY <1>1, <1>4 DEF Pending, GenIInv, Traversed
      <3>4. Unread(f)' = 0
        BY <3>3 DEF Unread
      <3>5. got[f] = FirstValues(c.first, n)
        BY <2>1, <2>2, <3>2 DEF InOrder
      <3>6. got'[f] = FirstValues(c.first, n + 1)
        BY <1>2, <1>4, <3>1, <3>5, FirstValuesGrow
      <3>7. n + 1 = c.next - c.first - 0
        BY <1>2
      <3>8. QED BY <1>1, <1>4, <2>2, <3>4, <3>6, <3>7 DEF InOrder
    <2>3. CASE g # f
      BY <1>4, <2>1, <2>3, ElsewhereKeeps
    <2>4. QED BY <2>2, <2>3
  <1>9. QED BY <1>5, <1>6, <1>7, <1>8 DEF GenIInv

\* In the body of a loop.
LEMMA InBody ==
    ASSUME GenIInv, NEW l \in Traversal, at[l] = "body"
    PROVE  /\ iter[l] \in Resource /\ Suspended(iter[l]) /\ ~co[iter[l]].done
           /\ ~Pending(iter[l])
           /\ \A m \in Traversal : m # l => iter[m] # iter[l]
  BY DEF GenIInv, GenTypeOK, Traversed, Pending

LEMMA AdvanceKeeps ==
    ASSUME GenIInv, NEW l \in Traversal, Advance(l)
    PROVE  GenIInv'
  <1>1. at[l] = "body" /\ Resume(iter[l]) /\ GoTo(l, "test") /\ Only(got) /\ iter' = iter
    BY DEF Advance, Only
  <1>2. iter' = [iter EXCEPT ![l] = iter[l]]
    BY <1>1 DEF GenIInv, GenTypeOK
  <1>3. QED BY <1>1, <1>2, InBody, ResumeKeeps

LEMMA BreakKeeps ==
    ASSUME GenIInv, NEW l \in Traversal, Break(l)
    PROVE  GenIInv'
  <1>1. Unread(iter[l]) = 0
    BY InBody DEF Break, Unread
  <1>2. ~fault' /\ fault' \in BOOLEAN /\ Only(<<co, got>>) /\ Leave(l)
    BY DEF Break, Only, GenIInv, IInv, NoFault, TypeOK
  <1>3. QED BY <1>1, <1>2, LeaveKeeps

\* A call of range.
LEMMA RangeKeeps ==
    ASSUME IsCoroutineHandle, GenIInv, NEW x \in Rc, NEW f \in Resource,
           NEW a \in Int, NEW b \in Int, Range(x, f, a, b)
    PROVE  GenIInv'
  <1>1. KindOf[x] \in Kind
    BY ConstantsAssumption
  <1>2. /\ DefaultTag[KindOf[x]] = Destroying /\ ResourceOf[KindOf[x]] = Resource
        /\ Tag = {Destroying} /\ <<Destroying, Destroying>> \in Closes
    BY <1>1 DEF IsCoroutineHandle, CoroDefaultTag, CoroResourceOf, CoroTag, CoroCloses
  <1>3. BeginOpened(x, f, Destroying)
    BY <1>2 DEF Range
  <1>4. IInv'
    BY <1>2, <1>3, CoroPolicyFits, BeginOpenedKeeps DEF GenIInv
  <1>5. /\ ~Suspended(f) /\ res' = [res EXCEPT ![f] = Destroying] /\ Closed # Destroying
        /\ co' = [co EXCEPT ![f] = Frame(a, a, b, NoValue, FALSE)]
        /\ UNCHANGED <<at, iter, got>>
    BY <1>2, <1>3, ConstantsAssumption DEF Range, BeginOpened, Suspended, CallRange, loops
  <1>6. /\ co'[f] = Frame(a, a, b, NoValue, FALSE) /\ DOMAIN co' = Resource
        /\ \A g \in Resource : g # f => co'[g] = co[g] /\ res'[g] = res[g]
        /\ res'[f] # Closed
    BY <1>5 DEF GenIInv, GenTypeOK, IInv, TypeOK
  <1>7. FrameOK(co'[f])
    BY <1>6 DEF FrameOK, Frame
  <1>8. \A l \in Traversal : iter[l] # f
    BY <1>5, GeneratorAssumption DEF GenIInv, Traversed
  <1>9. GenTypeOK'
    BY <1>5, <1>6, <1>7 DEF GenIInv, GenTypeOK, Suspended
  <1>10. Traversed'
    <2>1. \A l \in Traversal : iter[l] # null =>
              res'[iter[l]] = res[iter[l]] /\ co'[iter[l]] = co[iter[l]]
      BY <1>6, <1>8 DEF GenIInv, GenTypeOK
    <2>2. QED BY <1>5, <2>1 DEF GenIInv, Traversed, Idle, Suspended
  <1>11. EachValueOnce'
    <2> SUFFICES ASSUME NEW g \in Resource, Suspended(g)' PROVE InOrder(g)'
      BY DEF EachValueOnce
    <2>1. CASE g = f
      <3>1. ~Pending(f)'
        BY <1>5, <1>8 DEF Pending
      <3>2. Unread(f)' = 0
        BY <3>1 DEF Unread
      <3>3. got'[f] = <<>>
        BY <1>5 DEF GenIInv, GenTypeOK
      <3>4. FirstValues(a, a - a - 0) = <<>>
        BY DEF FirstValues
      <3>5. co'[f].first = a /\ co'[f].next = a /\ ~co'[f].done
        BY <1>6 DEF Frame
      <3>6. QED BY <2>1, <3>2, <3>3, <3>4, <3>5 DEF InOrder
    <2>2. CASE g # f
      <3>1. InOrder(g) /\ co'[g] = co[g] /\ got'[g] = got[g]
        BY <1>5, <1>6, <2>2 DEF GenIInv, EachValueOnce, Suspended
      <3>2. Pending(g)' <=> Pending(g)
        BY <1>5 DEF Pending
      <3>3. QED BY <3>1, <3>2 DEF InOrder, Unread
    <2>3. QED BY <2>1, <2>2
  <1>12. QED BY <1>4, <1>9, <1>10, <1>11 DEF GenIInv

------------------------------------------------------------------------------
(* The results.                                                              *)

LEMMA GenInitKeeps == GenInit => GenIInv
  <1> SUFFICES ASSUME GenInit PROVE GenIInv
    OBVIOUS
  <1>1. IInv
    BY InitIInv DEF GenInit
  <1>2. \A f \in Resource : ~Suspended(f)
    BY DEF GenInit, Init, Suspended
  <1>3. GenTypeOK /\ Traversed /\ EachValueOnce
    BY <1>2 DEF GenInit, GenTypeOK, Traversed, EachValueOnce
  <1>4. QED BY <1>1, <1>3 DEF GenIInv

LEMMA GenStep ==
    ASSUME IsCoroutineHandle, SelfResets => Checked
    PROVE  GenIInv /\ [GenNext]_gvars => GenIInv'
  <1> SUFFICES ASSUME GenIInv, [GenNext]_gvars PROVE GenIInv'
    OBVIOUS
  <1>1. ASSUME NEW l \in Traversal, Continue(l) PROVE GenIInv'
    BY <1>1, TestEndKeeps, ReadKeeps, AdvanceKeeps DEF Continue
  <1>2. ASSUME NEW x \in Rc, NEW f \in Resource, NEW b \in Bounds, Range(x, f, b[1], b[2])
        PROVE  GenIInv'
    <2>1. b[1] \in Int /\ b[2] \in Int
      BY GeneratorAssumption
    <2>2. QED BY <1>2, <2>1, RangeKeeps
  <1>3. CASE MoveGenerator
    BY <1>3, MoveKeeps
  <1>4. ASSUME NEW l \in Traversal, NEW x \in Rc, BeginIter(l, x) PROVE GenIInv'
    BY <1>4, BeginIterKeeps
  <1>5. ASSUME NEW l \in Traversal, Break(l) PROVE GenIInv'
    BY <1>5, BreakKeeps
  <1>6. CASE UNCHANGED gvars
    <2>1. IInv' /\ UNCHANGED <<res, co, at, iter, got>>
      BY <1>6, RcKeeps DEF gvars, vars, loops, GenIInv, IInv, NoFault, TypeOK
    <2>2. GenTypeOK' /\ Traversed'
      BY <2>1 DEF GenIInv, GenTypeOK, Traversed, Idle, Suspended
    <2>3. EachValueOnce'
      BY <2>1 DEF GenIInv, EachValueOnce, InOrder, Unread, Pending, Suspended
    <2>4. QED BY <2>1, <2>2, <2>3 DEF GenIInv
  <1>7. QED BY <1>1, <1>2, <1>3, <1>4, <1>5, <1>6 DEF GenNext

LEMMA GenInvariance ==
    ASSUME IsCoroutineHandle, SelfResets => Checked
    PROVE  GenSpec => []GenIInv
  <1>1. GenIInv /\ [GenNext]_gvars => GenIInv'
    BY GenStep
  <1>2. QED BY <1>1, GenInitKeeps, PTL DEF GenSpec

\* No coroutine is resumed when it is finished or destroyed, read when it has
\* yielded nothing, or destroyed twice.
THEOREM CoroutinesAreSafe ==
    ASSUME IsCoroutineHandle, SelfResets => Checked
    PROVE  GenSpec => []NoFault
  <1>1. GenIInv => NoFault
    BY DEF GenIInv, IInv
  <1>2. QED BY <1>1, GenInvariance, PTL

\* A suspended coroutine always is in some generator, which destroys it.
THEOREM CoroutinesAreDestroyed ==
    ASSUME IsCoroutineHandle, SelfResets => Checked
    PROVE  GenSpec => []NoLeak
  <1>1. GenIInv => NoLeak
    BY DEF GenIInv, IInv
  <1>2. QED BY <1>1, GenInvariance, PTL

\* Traversals read the values of a range in order and each once, however its
\* generator is moved in the meantime.
THEOREM ValuesInOrder ==
    ASSUME IsCoroutineHandle, SelfResets => Checked
    PROVE  GenSpec => []EachValueOnce
  <1>1. GenIInv => EachValueOnce
    BY DEF GenIInv
  <1>2. QED BY <1>1, GenInvariance, PTL

------------------------------------------------------------------------------
(* The way a traversal has before it.                                        *)

LEMMA LeftSame ==
    ASSUME NEW l \in Traversal, at'[l] = at[l], iter'[l] = iter[l],
           iter[l] # null => co'[iter[l]] = co[iter[l]]
    PROVE  StepsLeft(l)' = StepsLeft(l)
  <1>1. CASE iter[l] = null
    BY <1>1 DEF StepsLeft, Idle
  <1>2. CASE iter[l] # null
    <2>1. co'[iter'[l]] = co[iter[l]]
      BY <1>2
    <2>2. QED BY <1>2, <2>1 DEF StepsLeft, Idle
  <1>3. QED BY <1>1, <1>2

\* How many values of c are left.
LEMMA ValuesLeft ==
    ASSUME NEW c, FrameOK(c)
    PROVE  EndOf(c) - c.next \in Nat
  BY DEF FrameOK, EndOf

\* The cases of StepsLeft.
LEMMA LeftCases ==
    ASSUME GenIInv, NEW l \in Traversal, ~Idle(l)
    PROVE  /\ StepsLeft(l) \in Nat /\ StepsLeft(l) >= 1
           /\ iter[l] # null /\ ~co[iter[l]].done =>
                 StepsLeft(l) = 3 * (EndOf(co[iter[l]]) - co[iter[l]].next)
                     + (IF at[l] = "test" THEN 4 ELSE IF at[l] = "read" THEN 3 ELSE 2)
           /\ iter[l] = null \/ co[iter[l]].done => StepsLeft(l) = 1
  <1>1. at[l] \in {"test", "read", "body"}
    BY DEF GenIInv, GenTypeOK, Idle
  <1>2. CASE iter[l] = null \/ co[iter[l]].done
    BY <1>2 DEF StepsLeft
  <1>3. CASE iter[l] # null /\ ~co[iter[l]].done
    <2>1. iter[l] \in Resource /\ FrameOK(co[iter[l]])
      BY <1>3 DEF GenIInv, GenTypeOK, Traversed
    <2> DEFINE n == EndOf(co[iter[l]]) - co[iter[l]].next
    <2>2. n \in Nat
      BY <2>1, ValuesLeft
    <2>3. StepsLeft(l) = 3 * n + (IF at[l] = "test" THEN 4 ELSE IF at[l] = "read" THEN 3 ELSE 2)
      BY <1>1, <1>3 DEF StepsLeft
    <2> HIDE DEF n
    <2>4. StepsLeft(l) \in Nat /\ StepsLeft(l) >= 1
      BY <2>2, <2>3
    <2>5. QED BY <1>3, <2>3, <2>4 DEF n
  <1>4. QED BY <1>2, <1>3

LEMMA LeftCasesNext ==
    GenIInv' => (\A l \in Traversal : ~Idle(l) => StepsLeft(l) \in Nat)'
  <1>1. GenIInv => \A l \in Traversal : ~Idle(l) => StepsLeft(l) \in Nat
    BY LeftCases
  <1>2. QED BY <1>1, PTL

\* A traversal that leaves its coroutine.
LEMMA LeavingIsNearer ==
    ASSUME GenIInv, NEW l \in Traversal, ~Idle(l), Leave(l)
    PROVE  StepsLeft(l)' < StepsLeft(l)
  <1>1. at'[l] = "idle"
    BY DEF Leave, GoTo, GenIInv, GenTypeOK
  <1>2. StepsLeft(l)' = 0
    BY <1>1 DEF StepsLeft, Idle
  <1>3. QED BY <1>2, LeftCases

LEMMA TestIsNearer ==
    ASSUME GenIInv, NEW l \in Traversal, TestEnd(l)
    PROVE  StepsLeft(l)' < StepsLeft(l)
  <1>1. at[l] = "test" /\ ~Idle(l) /\ Only(<<co, got>>)
    BY DEF TestEnd, Idle
  <1>2. CASE AtEnd(l)
    BY <1>1, <1>2, LeavingIsNearer DEF TestEnd
  <1>3. CASE ~AtEnd(l)
    <2>1. iter[l] # null /\ ~co[iter[l]].done
      BY <1>3 DEF AtEnd, Done
    <2>2. at'[l] = "read" /\ iter' = iter /\ co' = co
      BY <1>1, <1>3 DEF TestEnd, GoTo, Only, GenIInv, GenTypeOK
    <2> DEFINE n == EndOf(co[iter[l]]) - co[iter[l]].next
    <2>3. StepsLeft(l) = 3 * n + 4
      BY <1>1, <2>1, LeftCases
    <2>4. StepsLeft(l)' = 3 * n + 3
      BY <2>1, <2>2 DEF StepsLeft, Idle
    <2>5. n \in Nat
      BY <2>1, ValuesLeft DEF GenIInv, GenTypeOK, Traversed
    <2> HIDE DEF n
    <2>6. QED BY <2>3, <2>4, <2>5
  <1>4. QED BY <1>2, <1>3

LEMMA ReadIsNearer ==
    ASSUME GenIInv, NEW l \in Traversal, Read(l)
    PROVE  StepsLeft(l)' < StepsLeft(l)
  <1>1. /\ at[l] = "read" /\ ~Idle(l) /\ at'[l] = "body" /\ iter' = iter /\ co' = co
        /\ iter[l] # null /\ ~co[iter[l]].done
    BY DEF Read, Only, GoTo, Idle, GenIInv, GenTypeOK, Traversed
  <1> DEFINE n == EndOf(co[iter[l]]) - co[iter[l]].next
  <1>2. StepsLeft(l) = 3 * n + 3
    BY <1>1, LeftCases
  <1>3. StepsLeft(l)' = 3 * n + 2
    BY <1>1 DEF StepsLeft, Idle
  <1>4. n \in Nat
    BY <1>1, ValuesLeft DEF GenIInv, GenTypeOK, Traversed
  <1> HIDE DEF n
  <1>5. QED BY <1>2, <1>3, <1>4

LEMMA AdvanceIsNearer ==
    ASSUME GenIInv, NEW l \in Traversal, Advance(l)
    PROVE  StepsLeft(l)' < StepsLeft(l)
  <1> DEFINE f == iter[l]
             n == EndOf(co[f]) - co[f].next
  <1>1. /\ at[l] = "body" /\ ~Idle(l) /\ at'[l] = "test" /\ iter' = iter
        /\ f \in Resource /\ f # null /\ Suspended(f) /\ ~co[f].done /\ Resume(f)
    BY GeneratorAssumption, InBody DEF Advance, Only, GoTo, Idle, GenIInv, GenTypeOK
  <1>2. ~fault /\ DOMAIN co = Resource /\ FrameOK(co[f])
    BY <1>1 DEF GenIInv, IInv, NoFault, GenTypeOK
  <1>3. /\ FrameOK(co'[f]) /\ co'[f].first = co[f].first /\ co'[f].last = co[f].last
        /\ ~co'[f].done => co'[f].next = co[f].next + 1
    BY <1>1, <1>2, ResumeStep
  <1>4. EndOf(co'[f]) = EndOf(co[f])
    BY <1>3 DEF EndOf
  <1>5. StepsLeft(l) = 3 * n + 2 /\ n \in Nat
    BY <1>1, <1>2, LeftCases, ValuesLeft
  <1>6. CASE co'[f].done
    <2>1. StepsLeft(l)' = 1
      BY <1>1, <1>6 DEF StepsLeft, Idle
    <2> HIDE DEF n
    <2>2. QED BY <2>1, <1>5
  <1>7. CASE ~co'[f].done
    <2>1. StepsLeft(l)' = 3 * (EndOf(co'[f]) - co'[f].next) + 4
      BY <1>1, <1>7 DEF StepsLeft, Idle
    <2>2. EndOf(co'[f]) - co'[f].next = n - 1
      <3>1. EndOf(co[f]) \in Int /\ co[f].next \in Int
        BY <1>2 DEF FrameOK, EndOf
      <3>2. QED BY <1>3, <1>4, <1>7, <3>1
    <2> HIDE DEF n
    <2>3. QED BY <2>1, <2>2, <1>5
  <1>8. QED BY <1>6, <1>7

\* What happens elsewhere leaves a traversal where it is.
LEMMA ElsewhereLeft ==
    ASSUME IsCoroutineHandle, SelfResets => Checked, GenIInv, NEW l \in Traversal, ~Idle(l),
           \/ UNCHANGED gvars
           \/ MoveGenerator
           \/ \E x \in Rc, f \in Resource, b \in Bounds : Range(x, f, b[1], b[2])
           \/ \E m \in Traversal, x \in Rc : BeginIter(m, x)
           \/ \E m \in Traversal : m # l /\ (TestEnd(m) \/ Read(m) \/ Advance(m) \/ Break(m))
    PROVE  at'[l] = at[l] /\ StepsLeft(l)' = StepsLeft(l)
  <1> SUFFICES /\ at'[l] = at[l] /\ iter'[l] = iter[l]
               /\ iter[l] # null => co'[iter[l]] = co[iter[l]]
    BY LeftSame
  <1>1. iter[l] # null => iter[l] \in Resource /\ Suspended(iter[l])
    BY DEF GenIInv, GenTypeOK, Traversed
  <1>2. /\ DOMAIN co = Resource /\ DOMAIN at = Traversal /\ DOMAIN iter = Traversal
    BY DEF GenIInv, GenTypeOK
  <1>3. CASE UNCHANGED gvars
    BY <1>3 DEF gvars, loops
  <1>4. CASE MoveGenerator
    BY <1>4, MovesSpare
  <1>5. ASSUME NEW x \in Rc, NEW f \in Resource, NEW b \in Bounds, Range(x, f, b[1], b[2])
        PROVE  /\ at'[l] = at[l] /\ iter'[l] = iter[l]
               /\ iter[l] # null => co'[iter[l]] = co[iter[l]]
    <2>1. ~Suspended(f) /\ UNCHANGED <<at, iter>>
      BY <1>5 DEF Range, BeginOpened, Suspended, loops
    <2>2. co' = [co EXCEPT ![f] = CallRange(b[1], b[2])]
      BY <1>5 DEF Range
    <2>3. QED BY <1>1, <1>2, <2>1, <2>2
  <1>6. ASSUME NEW m \in Traversal, NEW x \in Rc, BeginIter(m, x)
        PROVE  /\ at'[l] = at[l] /\ iter'[l] = iter[l]
               /\ iter[l] # null => co'[iter[l]] = co[iter[l]]
    <2>1. m # l
      BY <1>6 DEF BeginIter
    <2>2. at'[l] = at[l] /\ iter'[l] = iter[l]
      BY <1>2, <1>6, <2>1 DEF BeginIter, GoTo
    <2>3. ASSUME iter[l] # null PROVE co'[iter[l]] = co[iter[l]]
      <3>1. CASE Bool(x)
        <4>1. iter[l] # hnd[x] /\ Resume(hnd[x])
          BY <1>6, <3>1 DEF BeginIter, Untraversed
        <4>2. QED BY <1>1, <1>2, <2>3, <4>1 DEF Resume
      <3>2. CASE ~Bool(x)
        BY <1>6, <3>2 DEF BeginIter
      <3>3. QED BY <3>1, <3>2
    <2>4. QED BY <2>2, <2>3
  <1>7. ASSUME NEW m \in Traversal, m # l, TestEnd(m) \/ Read(m) \/ Advance(m) \/ Break(m)
        PROVE  /\ at'[l] = at[l] /\ iter'[l] = iter[l]
               /\ iter[l] # null => co'[iter[l]] = co[iter[l]]
    <2>1. at'[l] = at[l]
      BY <1>2, <1>7 DEF TestEnd, Read, Advance, Break, Leave, GoTo
    <2>2. iter'[l] = iter[l]
      BY <1>2, <1>7 DEF TestEnd, Read, Advance, Break, Leave, Only
    <2>3. ASSUME iter[l] # null PROVE co'[iter[l]] = co[iter[l]]
      <3>1. CASE Advance(m)
        <4>1. Resume(iter[m]) /\ iter[m] # iter[l]
          BY <1>7, <2>3, <3>1 DEF Advance, GenIInv, Traversed
        <4>2. QED BY <1>1, <1>2, <2>3, <4>1 DEF Resume
      <3>2. CASE TestEnd(m) \/ Read(m) \/ Break(m)
        BY <3>2 DEF TestEnd, Read, Break, Only
      <3>3. QED BY <1>7, <3>1, <3>2
    <2>4. QED BY <2>1, <2>2, <2>3
  <1>8. QED BY <1>3, <1>4, <1>5, <1>6, <1>7

\* The traversal of a finite range ends because each of its steps leaves it fewer
\* steps, and nothing else gives it more.
THEOREM TraversalsAdvance ==
    ASSUME IsCoroutineHandle, SelfResets => Checked
    PROVE  GenSpec => NoneSetBack
  <1> DEFINE Nearer(l) == /\ StepsLeft(l)' =< StepsLeft(l)
                          /\ at'[l] # at[l] => StepsLeft(l)' < StepsLeft(l)
  <1>1. ASSUME GenIInv, [GenNext]_gvars, NEW l \in Traversal, ~Idle(l)
        PROVE  Nearer(l)
    <2>1. StepsLeft(l) \in Nat
      BY <1>1, LeftCases
    <2>2. CASE TestEnd(l) \/ Read(l) \/ Advance(l) \/ Break(l)
      <3>1. StepsLeft(l)' < StepsLeft(l)
        <4>1. Break(l) => Leave(l)
          BY DEF Break
        <4>2. QED BY <1>1, <2>2, <4>1, TestIsNearer, ReadIsNearer, AdvanceIsNearer,
                     LeavingIsNearer
      <3>2. StepsLeft(l)' \in Int
        <4>1. GenIInv'
          BY <1>1, GenStep
        <4>2. Idle(l)' => StepsLeft(l)' = 0
          BY DEF StepsLeft
        <4>3. ~Idle(l)' => StepsLeft(l)' \in Nat
          BY <4>1, LeftCasesNext
        <4>4. QED BY <4>2, <4>3
      <3>3. QED BY <2>1, <3>1, <3>2
    <2>3. CASE ~(TestEnd(l) \/ Read(l) \/ Advance(l) \/ Break(l))
      <3>1. \/ UNCHANGED gvars
            \/ MoveGenerator
            \/ \E x \in Rc, f \in Resource, b \in Bounds : Range(x, f, b[1], b[2])
            \/ \E m \in Traversal, x \in Rc : BeginIter(m, x)
            \/ \E m \in Traversal : m # l /\ (TestEnd(m) \/ Read(m) \/ Advance(m) \/ Break(m))
        BY <1>1, <2>3 DEF GenNext, Continue
      <3>2. at'[l] = at[l] /\ StepsLeft(l)' = StepsLeft(l)
        BY <1>1, <3>1, ElsewhereLeft
      <3>3. QED BY <2>1, <3>2
    <2>4. QED BY <2>2, <2>3
  <1>2. GenIInv /\ [GenNext]_gvars =>
            [\A l \in Traversal : ~Idle(l) => Nearer(l)]_gvars
    BY <1>1
  <1>3. QED BY <1>2, GenInvariance, PTL DEF GenSpec, NoneSetBack

------------------------------------------------------------------------------
(* Responsibility for coroutines.                                            *)

LEMMA GenStepMaps ==
    ASSUME IsCoroutineHandle, SelfResets => Checked
    PROVE  IInv /\ IInv' /\ [GenNext]_gvars => [Abstract!Next]_ownerBar
  <1> SUFFICES ASSUME IInv, IInv', [GenNext]_gvars PROVE [Abstract!Next]_ownerBar
    OBVIOUS
  <1>1. Fits
    BY CoroFits
  <1>2. CASE UNCHANGED <<res, raw, alive, hnd>>
    BY <1>2 DEF ownerBar, Holds, Bool, IsOwned
  <1>3. ASSUME NEW l \in Traversal, Continue(l) \/ Break(l) \/ \E x \in Rc : BeginIter(l, x)
        PROVE  UNCHANGED <<res, raw, alive, hnd>>
    BY <1>3 DEF Continue, TestEnd, Read, Advance, Break, BeginIter, Only
  <1>4. CASE MoveGenerator
    BY <1>1, <1>4, MoveDisposes, StepMaps
  <1>5. ASSUME NEW x \in Rc, NEW f \in Resource, NEW b \in Bounds, Range(x, f, b[1], b[2])
        PROVE  Abstract!Next
    <2> DEFINE t == DefaultTag[KindOf[x]]
    <2>1. t \in Tag /\ f \in ResourceOf[KindOf[x]]
      BY ConstantsAssumption DEF IsCoroutineHandle, CoroDefaultTag, CoroTag, CoroResourceOf
    <2>2. BeginOpened(x, f, t)
      BY <1>5 DEF Range
    <2> HIDE DEF t
    <2>3. QED BY <1>1, <2>1, <2>2, OpenedMaps
  <1>6. UNCHANGED gvars => UNCHANGED <<res, raw, alive, hnd>>
    BY DEF gvars, vars
  <1>7. QED BY <1>2, <1>3, <1>4, <1>5, <1>6 DEF GenNext

\* A coroutine is one generator's to destroy at any time, from the call that made
\* it on; traversals, which keep copies of its handle, change nothing about that.
THEOREM GeneratorImplementsOwnership ==
    ASSUME IsCoroutineHandle, SelfResets => Checked
    PROVE  GenSpec => OwnershipSpec
  <1>1. IInv /\ IInv' /\ [GenNext]_gvars => [Abstract!Next]_ownerBar
    BY GenStepMaps
  <1>2. GenIInv => IInv
    BY DEF GenIInv
  <1>3. GenInit => Abstract!Init
    BY InitMaps DEF GenInit
  <1>4. QED
    BY <1>1, <1>2, <1>3, GenInvariance, PTL DEF GenSpec, OwnershipSpec, Abstract!Spec
==============================================================================

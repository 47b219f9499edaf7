--------------------------- MODULE GdiGuardsProofs ---------------------------
(***************************************************************************)
(* Guards of device contexts undo what they were made for, for any number   *)
(* of contexts, objects and guards, however the guards are moved about:     *)
(* the calls not undone are numbered without gaps, and each one's guard     *)
(* leads from the context after the call back to the one before it.         *)
(***************************************************************************)
EXTENDS GdiGuards, UniqueRcRefinement, SequenceTheorems

ContextType == [sel : Obj, saved : Seq(Obj)]

\* The contexts d has been in, up to now, but for those undone.
Course(d) == Append(hist[d], ctx[d])

GdiTypeOK ==
    /\ open \subseteq Dc
    /\ exists \subseteq Obj
    /\ Stock \in exists
    /\ ctx \in [Dc -> ContextType]
    /\ hist \in [Dc -> Seq(ContextType)]

\* The calls on a context that are not undone have the numbers 1, 2, ...
Counted ==
    /\ \A d \in Dc \ open : hist[d] = <<>>
    /\ \A c \in Resource : ~Undone(c) =>
          DcOf(c) \in open /\ c.number \in DOMAIN hist[DcOf(c)]
    /\ \A c, e \in Resource :
          ~Undone(c) /\ ~Undone(e) /\ DcOf(c) = DcOf(e) /\ c.number = e.number => c = e
    /\ \A d \in Dc : \A i \in DOMAIN hist[d] : \E c \in NotUndone(d) : c.number = i

\* Each leads back from the context after it to the one before it.
Reversible ==
    /\ \A d \in open : Course(d)[1] = FreshDc
    /\ \A c \in Resource : ~Undone(c) =>
          Undo(Course(DcOf(c))[c.number + 1], c) = Course(DcOf(c))[c.number]

\* What was selected exists, and nothing was saved that was not selected before.
KeptIn(s, n, E) ==
    \A i \in 1 .. n :
        /\ s[i].sel \in E
        /\ \A o \in Mentions(s[i]) : \E j \in 1 .. i : s[j].sel = o

Kept == \A d \in open : KeptIn(Course(d), Len(hist[d]) + 1, exists)

\* What the guards are as objects of unique_rc.  In a build with the self-reset
\* assertion the program may end where two handles are equal, and the call that was
\* to be undone is then left over.
EndedOrIInv == TypeOK /\ NoFault /\ (~aborted => IInv)

GdiIInv == EndedOrIInv /\ GdiTypeOK /\ Counted /\ Reversible /\ Kept

------------------------------------------------------------------------------
(* The arguments fit.                                                        *)

LEMMA GdiPolicyFits ==
    ASSUME IsGdiGuard
    PROVE  PolicyFits
  <1>1. ASSUME NEW k \in Kind
        PROVE  /\ ResourceOf[k] \subseteq OwnedOf[k]
               /\ FailureOf[k] \cap OwnedOf[k] = {}
               /\ InvalidOf[k] \notin OwnedOf[k]
    <2>1. /\ ResourceOf[k] = GdiResourceOf[k] /\ FailureOf[k] = GdiFailureOf[k]
          /\ InvalidOf[k] = GdiInvalidOf[k]
          /\ OwnedOf[k] = {c \in HandlesOf(k) : c.handle \in GdiPolicyOf(k, {c.handle}).owned}
          /\ k \in GdiKind
      BY <1>1 DEF IsGdiGuard, GdiOwnedOf
    <2>2. CASE k = "dc_state"
      <3>1. /\ ResourceOf[k] = StateCall
            /\ FailureOf[k] = {Call(DcState(d, 0), 0) : d \in Dc}
            /\ InvalidOf[k] = Call(DcState(null, 0), 0)
        BY <2>1, <2>2 DEF GdiResourceOf, GdiFailureOf, GdiInvalidOf, GdiPolicyOf,
                          DcStatePolicy, Policy
      <3>2. \A c : c \in OwnedOf[k] <=>
                   c \in HandlesOf(k) /\ c.handle.hdc # null /\ c.handle.state # 0
        BY <2>1, <2>2 DEF GdiPolicyOf, DcStatePolicy, Policy
      <3>3. \A c \in StateCall : c.handle.hdc \in Dc /\ c.handle.state \in Number
        BY DEF StateCall, Call, DcState
      <3>4. ResourceOf[k] \subseteq HandlesOf(k)
        BY <2>1 DEF HandlesOf
      <3>5. ResourceOf[k] \subseteq OwnedOf[k]
        BY <3>1, <3>2, <3>3, <3>4, GdiAssumption DEF Number
      <3>6. QED BY <3>1, <3>2, <3>5 DEF Call, DcState
    <2>3. CASE k = "dc_gdiobj"
      <3>1. /\ ResourceOf[k] = SelectCall
            /\ FailureOf[k] = {Call(DcGdiObj(d, null), 0) : d \in Dc}
            /\ InvalidOf[k] = Call(DcGdiObj(null, null), 0)
        BY <2>1, <2>3 DEF GdiResourceOf, GdiFailureOf, GdiInvalidOf, GdiPolicyOf,
                          DcGdiObjPolicy, Policy
      <3>2. \A c : c \in OwnedOf[k] <=> c \in HandlesOf(k) /\ c.handle.hobj # null
        BY <2>1, <2>3 DEF GdiPolicyOf, DcGdiObjPolicy, Policy
      <3>3. \A c \in SelectCall : c.handle.hobj \in Obj
        BY DEF SelectCall, Call, DcGdiObj
      <3>4. ResourceOf[k] \subseteq HandlesOf(k)
        BY <2>1 DEF HandlesOf
      <3>5. ResourceOf[k] \subseteq OwnedOf[k]
        BY <3>1, <3>2, <3>3, <3>4, GdiAssumption
      <3>6. QED BY <3>1, <3>2, <3>5 DEF Call, DcGdiObj
    <2>4. QED BY <2>1, <2>2, <2>3 DEF GdiKind
  <1>2. QED BY <1>1 DEF PolicyFits

\* What the guards pass to unique_rc fits, but that their handles do not tell one
\* call from another: a failed SaveDC or SelectObject is not owned, a successful one is.
THEOREM GdiFits ==
    ASSUME IsGdiGuard, SelfResets => Checked
    PROVE  RunningFits
  <1>1. ConversionFits
    BY DEF IsGdiGuard, ConversionFits
  <1>2. QED BY <1>1, GdiPolicyFits DEF RunningFits

LEMMA UniqueRcStepKeeps ==
    ASSUME RunningFits, EndedOrIInv, [Next]_vars
    PROVE  EndedOrIInv'
  <1>1. CASE UNCHANGED vars
    <2>1. TypeOK' /\ NoFault'
      BY <1>1, StepTypeOK DEF EndedOrIInv, vars, NoFault
    <2>2. ~aborted' => IInv'
      BY <1>1, StepRunning DEF EndedOrIInv, vars
    <2>3. QED BY <2>1, <2>2 DEF EndedOrIInv
  <1>2. CASE Next
    <2>1. IInv /\ TypeOK'
      BY <1>2, AbortIsFinal, StepTypeOK DEF EndedOrIInv
    <2>2. CASE aborted'
      BY <1>2, <2>1, <2>2, AbortSpares DEF EndedOrIInv, NoFault
    <2>3. CASE ~aborted'
      BY <1>2, <2>1, <2>3, StepRunning DEF EndedOrIInv, IInv
    <2>4. QED BY <2>2, <2>3
  <1>3. QED BY <1>1, <1>2

------------------------------------------------------------------------------
(* Guards.                                                                   *)

\* No operation on guards makes a call, and each undoes one call at most.
LEMMA GuardCloses ==
    ASSUME TypeOK, GuardOp
    PROVE  /\ Next
           /\ res' = res \/ \E c \in Resource : res' = [res EXCEPT ![c] = Closed]
  <1> DEFINE Closing == res' = res \/ \E c \in Resource : res' = [res EXCEPT ![c] = Closed]
  <1>1. Next
    BY DEF GuardOp, Next, ClientOp
  <1>2. \A called, d, h : CallDeleter(called, d, h) => Closing
    BY DEF CallDeleter
  <1>3. \A x, old, h : ResetFrom(x, old, h) => Closing
    BY <1>2 DEF ResetFrom
  <1> HIDE DEF Closing
  <1>4. ASSUME NEW c \in Resource, ClientClose(c) PROVE Closing
    BY <1>4 DEF ClientClose, Closing
  <1>5. ASSUME NEW x \in Rc, RcOp(x) PROVE Closing
    <2>1. CASE Release(x) \/ ConstructEmpty(x)
               \/ (\E h \in Handle : ConstructHandle(x, h))
               \/ (\E h \in Handle, t \in Tag : ConstructWith(x, h, t))
      BY <2>1 DEF Release, ConstructEmpty, ConstructHandle, ConstructWith, Begin, Closing
    <2>2. CASE (\E h \in Handle : Reset(x, h)) \/ SelfMoveAssign(x)
      BY <2>2, <1>3 DEF Reset, SelfMoveAssign
    <2>3. CASE Destroy(x)
      BY <2>3, <1>2 DEF Destroy
    <2>4. QED BY <1>5, <2>1, <2>2, <2>3 DEF RcOp
  <1>6. ASSUME NEW x \in Rc, NEW y \in Rc, RcPairOp(x, y) PROVE Closing
    <2>1. CASE MoveConstruct(x, y) \/ ConvertConstruct(x, y) \/ Swap(x, y)
      BY <2>1 DEF MoveConstruct, ConvertConstruct, BeginFrom, Swap, Closing
    <2>2. CASE MoveAssign(x, y) \/ ConvertAssign(x, y)
      BY <2>2, <1>3 DEF MoveAssign, ConvertAssign, AssignFrom
    <2>3. QED BY <1>6, <2>1, <2>2 DEF RcPairOp
  <1>7. Closing
    BY <1>4, <1>5, <1>6 DEF GuardOp
  <1>8. QED BY <1>1, <1>7 DEF Closing

------------------------------------------------------------------------------
(* The course of a context.                                                  *)

LEMMA CourseElements ==
    ASSUME GdiTypeOK, NEW d \in Dc
    PROVE  /\ Len(hist[d]) \in Nat /\ DOMAIN hist[d] = 1 .. Len(hist[d])
           /\ \A i \in 1 .. Len(hist[d]) : Course(d)[i] = hist[d][i]
           /\ Course(d)[Len(hist[d]) + 1] = ctx[d]
           /\ ctx[d] \in ContextType
           /\ \A i \in 1 .. Len(hist[d]) : hist[d][i] \in ContextType
  BY DEF GdiTypeOK, Course

\* Saving or selecting, and then undoing that, changes nothing.
LEMMA SaveUndone ==
    ASSUME NEW k \in ContextType
    PROVE  /\ SaveDC(k) \in ContextType
           /\ RestoreDC(SaveDC(k), Len(k.saved) + 1) = k
           /\ Mentions(SaveDC(k)) \subseteq Mentions(k)
           /\ SaveDC(k).sel = k.sel
  <1> DEFINE s == k.saved
             t == Append(s, k.sel)
  <1>1. k.sel \in Obj /\ s \in Seq(Obj) /\ Len(s) \in Nat
    BY DEF ContextType
  <1>2. /\ SaveDC(k) = [sel |-> k.sel, saved |-> t]
        /\ t \in Seq(Obj) /\ Len(t) = Len(s) + 1
        /\ t[Len(s) + 1] = k.sel
        /\ \A i \in 1 .. Len(s) : t[i] = s[i]
    BY <1>1 DEF SaveDC, Context
  <1>3. SubSeq(t, 1, Len(s)) = s
    <2> HIDE DEF t
    <2>1. SubSeq(t, 1, Len(s)) \in Seq(Obj) /\ Len(SubSeq(t, 1, Len(s))) = Len(s)
      BY <1>1, <1>2
    <2>2. \A i \in 1 .. Len(s) : SubSeq(t, 1, Len(s))[i] = s[i]
      BY <1>1, <1>2
    <2>3. QED BY <1>1, <2>1, <2>2, SeqEqual
  <1>4. RestoreDC(SaveDC(k), Len(s) + 1) = [sel |-> k.sel, saved |-> s]
    <2> HIDE DEF t
    <2>1. Len(s) + 1 \in 1 .. Len(t) /\ (Len(s) + 1) - 1 = Len(s)
      BY <1>1, <1>2
    <2>2. SaveDC(k).saved = t
      BY <1>2
    <2>3. RestoreDC(SaveDC(k), Len(s) + 1) =
              Context(t[Len(s) + 1], SubSeq(t, 1, (Len(s) + 1) - 1))
      BY <2>1, <2>2, Zenon DEF RestoreDC
    <2>4. RestoreDC(SaveDC(k), Len(s) + 1) = Context(t[Len(s) + 1], SubSeq(t, 1, Len(s)))
      BY <2>1, <2>3, Zenon
    <2>5. QED BY <1>2, <1>3, <2>4, Zenon DEF Context
  <1>5. k = [sel |-> k.sel, saved |-> s]
    BY DEF ContextType
  <1>6. Mentions(SaveDC(k)) \subseteq Mentions(k)
    <2> HIDE DEF t
    <2>1. DOMAIN t = 1 .. Len(s) + 1 /\ DOMAIN s = 1 .. Len(s)
      BY <1>1, <1>2
    <2>2. \A i \in DOMAIN t : t[i] = k.sel \/ (i \in DOMAIN s /\ t[i] = s[i])
      BY <1>1, <1>2, <2>1
    <2>3. QED BY <1>2, <2>2 DEF Mentions
  <1> HIDE DEF t
  <1>7. SaveDC(k) \in ContextType /\ SaveDC(k).sel = k.sel
    BY <1>1, <1>2 DEF ContextType
  <1>8. QED BY <1>4, <1>5, <1>6, <1>7

LEMMA SelectUndone ==
    ASSUME NEW k \in ContextType, NEW o \in Obj
    PROVE  /\ SelectObject(k, o) \in ContextType
           /\ SelectObject(SelectObject(k, o), k.sel) = k
           /\ Mentions(SelectObject(k, o)) \subseteq Mentions(k) \cup {o}
           /\ SelectObject(k, o).sel = o
  <1>1. SelectObject(k, o) = [sel |-> o, saved |-> k.saved]
    BY DEF SelectObject, Context
  <1>2. SelectObject(SelectObject(k, o), k.sel) = [sel |-> k.sel, saved |-> k.saved]
    BY DEF SelectObject, Context
  <1>3. QED BY <1>1, <1>2 DEF ContextType, Mentions

LEMMA KeptPrefix ==
    ASSUME NEW s, NEW t, NEW n \in Nat, NEW m \in Nat, m =< n, NEW E,
           KeptIn(s, n, E), \A i \in 1 .. m : t[i] = s[i]
    PROVE  KeptIn(t, m, E)
  <1> SUFFICES ASSUME NEW i \in 1 .. m
               PROVE  /\ t[i].sel \in E
                      /\ \A o \in Mentions(t[i]) : \E j \in 1 .. i : t[j].sel = o
    BY DEF KeptIn
  <1>1. i \in 1 .. n /\ t[i] = s[i] /\ \A j \in 1 .. i : t[j] = s[j]
    OBVIOUS
  <1>2. s[i].sel \in E /\ \A o \in Mentions(s[i]) : \E j \in 1 .. i : s[j].sel = o
    BY <1>1 DEF KeptIn
  <1>3. QED BY <1>1, <1>2

LEMMA KeptExtended ==
    ASSUME NEW s, NEW t, NEW n \in Nat, n >= 1, NEW E, KeptIn(s, n, E),
           \A i \in 1 .. n : t[i] = s[i], t[n + 1].sel \in E,
           Mentions(t[n + 1]) \subseteq Mentions(s[n]) \cup {t[n + 1].sel}
    PROVE  KeptIn(t, n + 1, E)
  <1>1. KeptIn(t, n, E)
    BY KeptPrefix
  <1>2. \A o \in Mentions(s[n]) : \E j \in 1 .. n : s[j].sel = o
    BY DEF KeptIn
  <1>3. \A o \in Mentions(t[n + 1]) : \E j \in 1 .. n + 1 : t[j].sel = o
    BY <1>2
  <1>4. \A i \in 1 .. n + 1 : i \in 1 .. n \/ i = n + 1
    OBVIOUS
  <1>5. QED BY <1>1, <1>3, <1>4 DEF KeptIn

\* A call that makes k of the context d, can be undone, and brings in no object
\* but one that exists.
LEMMA CallsKeeps ==
    ASSUME GdiIInv, IsGdiGuard, SelfResets => Checked,
           NEW d \in Dc, NEW c \in Resource, NEW k \in ContextType, NEW t \in GdiKind,
           Calls(d, c, k), Acquire(c, t), DcOf(c) = d, c.number = NextNumber(d),
           (IF t = "dc_state" THEN RestoreGuard(k, c.handle) ELSE SelectGuard(k, c.handle))
               = ctx[d],
           k.sel \in exists, Mentions(k) \subseteq Mentions(ctx[d]) \cup {k.sel}
    PROVE  GdiIInv'
  <1> DEFINE n == Len(hist[d])
  <1>1. /\ d \in open /\ res[c] = Closed /\ res' = [res EXCEPT ![c] = t]
        /\ ctx' = [ctx EXCEPT ![d] = k] /\ hist' = [hist EXCEPT ![d] = Append(hist[d], ctx[d])]
        /\ open' = open /\ exists' = exists
    BY DEF Calls, Acquire
  <1>2. t \in Tag /\ Closed \notin Tag /\ t # Closed
    BY ConstantsAssumption DEF IsGdiGuard
  <1>3. EndedOrIInv'
    BY <1>2, GdiFits, UniqueRcStepKeeps DEF GdiIInv, Next, ClientOp
  <1>4. /\ n \in Nat /\ c.number = n + 1
        /\ hist[d] \in Seq(ContextType) /\ ctx[d] \in ContextType
    BY DEF GdiIInv, GdiTypeOK, NextNumber
  <1>5. /\ hist'[d] = Append(hist[d], ctx[d]) /\ ctx'[d] = k
        /\ \A e \in Dc \ {d} : hist'[e] = hist[e] /\ ctx'[e] = ctx[e]
    BY <1>1 DEF GdiIInv, GdiTypeOK
  <1>6. /\ Len(hist'[d]) = n + 1 /\ DOMAIN hist'[d] = 1 .. n + 1
        /\ hist'[d][n + 1] = ctx[d] /\ \A i \in 1 .. n : hist'[d][i] = hist[d][i]
    BY <1>4, <1>5
  <1>7. GdiTypeOK'
    <2>1. Append(hist[d], ctx[d]) \in Seq(ContextType)
      BY <1>4
    <2>2. QED BY <1>1, <2>1 DEF GdiIInv, GdiTypeOK
  <1>8. /\ \A i \in 1 .. n + 1 : Course(d)'[i] = Course(d)[i]
        /\ Course(d)'[n + 2] = k
        /\ \A e \in Dc \ {d} : Course(e)' = Course(e)
    <2>1. /\ \A i \in 1 .. n + 1 : Course(d)'[i] = hist'[d][i]
          /\ Course(d)'[n + 2] = k
      BY <1>4, <1>5, <1>6, <1>7, CourseElements DEF GdiTypeOK, Course
    <2>2. \A i \in 1 .. n + 1 : hist'[d][i] = Course(d)[i]
      BY <1>4, <1>6, CourseElements DEF GdiIInv
    <2>3. \A e \in Dc \ {d} : Course(e)' = Course(e)
      BY <1>5 DEF Course
    <2>4. QED BY <2>1, <2>2, <2>3
  <1>9. /\ res'[c] = t /\ \A e \in Resource \ {c} : res'[e] = res[e]
        /\ \A e \in Resource : Undone(e)' <=> Undone(e) /\ e # c
        /\ Undone(c)
    BY <1>1, <1>2 DEF GdiIInv, EndedOrIInv, TypeOK, Undone
  <1>10. Counted'
    <2>1. \A e \in Dc \ open' : hist'[e] = <<>>
      BY <1>1, <1>5 DEF GdiIInv, Counted
    <2>2. ASSUME NEW e \in Resource, ~Undone(e)'
          PROVE  DcOf(e) \in open' /\ e.number \in DOMAIN hist'[DcOf(e)]
      <3>1. CASE e = c
        BY <1>1, <1>4, <1>6, <3>1
      <3>2. CASE e # c
        <4>1. DcOf(e) \in open /\ e.number \in DOMAIN hist[DcOf(e)] /\ DcOf(e) \in Dc
          BY <1>9, <2>2, <3>2 DEF GdiIInv, Counted, GdiTypeOK
        <4>2. DcOf(e) = d => e.number \in 1 .. n
          BY <1>4, <4>1
        <4>3. QED BY <1>1, <1>4, <1>5, <1>6, <4>1, <4>2
      <3>3. QED BY <3>1, <3>2
    <2>3. ASSUME NEW a \in Resource, NEW b \in Resource, ~Undone(a)', ~Undone(b)',
                 DcOf(a) = DcOf(b), a.number = b.number
          PROVE  a = b
      <3>1. \A e \in Resource : ~Undone(e) /\ DcOf(e) = d => e.number \in 1 .. n
        BY <1>4 DEF GdiIInv, Counted
      <3>2. QED BY <1>4, <1>9, <2>3, <3>1 DEF GdiIInv, Counted
    <2>4. ASSUME NEW e \in Dc, NEW i \in DOMAIN hist'[e]
          PROVE  \E a \in Resource : ~Undone(a)' /\ DcOf(a) = e /\ a.number = i
      <3>1. CASE e = d /\ i = n + 1
        BY <1>2, <1>4, <1>9, <3>1
      <3>2. CASE ~(e = d /\ i = n + 1)
        <4>1. i \in DOMAIN hist[e]
          BY <1>4, <1>5, <1>6, <2>4, <3>2
        <4>2. PICK a \in NotUndone(e) : a.number = i
          BY <4>1 DEF GdiIInv, Counted
        <4>3. QED BY <1>9, <4>2 DEF NotUndone
      <3>3. QED BY <3>1, <3>2
    <2>5. QED BY <2>1, <2>2, <2>3, <2>4 DEF Counted, NotUndone, DcOf
  <1>11. Reversible'
    <2>1. \A e \in open' : Course(e)'[1] = FreshDc
      BY <1>1, <1>4, <1>8 DEF GdiIInv, Reversible, GdiTypeOK
    <2>2. ASSUME NEW e \in Resource, ~Undone(e)'
          PROVE  Undo(Course(DcOf(e))[e.number + 1], e)' = Course(DcOf(e))'[e.number]
      <3>1. CASE e = c
        <4>1. Course(d)'[c.number + 1] = k /\ Course(d)'[c.number] = ctx[d]
          BY <1>4, <1>8, CourseElements DEF GdiIInv
        <4>2. Undo(k, c)' = ctx[d]
          BY <1>9 DEF Undo
        <4>3. QED BY <3>1, <4>1, <4>2 DEF Undo
      <3>2. CASE e # c
        <4>1. /\ ~Undone(e) /\ DcOf(e) \in Dc /\ e.number \in 1 .. Len(hist[DcOf(e)])
              /\ res'[e] = res[e]
          BY <1>9, <2>2, <3>2, CourseElements DEF GdiIInv, Counted, GdiTypeOK
        <4>2. Undo(Course(DcOf(e))[e.number + 1], e) = Course(DcOf(e))[e.number]
          BY <4>1 DEF GdiIInv, Reversible
        <4>3. /\ Course(DcOf(e))'[e.number + 1] = Course(DcOf(e))[e.number + 1]
              /\ Course(DcOf(e))'[e.number] = Course(DcOf(e))[e.number]
          <5>1. CASE DcOf(e) = d
            BY <1>4, <1>8, <4>1, <5>1
          <5>2. CASE DcOf(e) # d
            BY <1>8, <4>1, <5>2
          <5>3. QED BY <5>1, <5>2
        <4>4. QED BY <4>1, <4>2, <4>3 DEF Undo
      <3>3. QED BY <3>1, <3>2
    <2>3. QED BY <2>1, <2>2 DEF Reversible, DcOf
  <1>12. Kept'
    <2> SUFFICES ASSUME NEW e \in open'
                 PROVE  KeptIn(Course(e)', Len(hist'[e]) + 1, exists')
      BY DEF Kept
    <2>1. e \in open /\ e \in Dc /\ KeptIn(Course(e), Len(hist[e]) + 1, exists)
      BY <1>1 DEF GdiIInv, GdiTypeOK, Kept
    <2>2. CASE e # d
      BY <1>1, <1>5, <1>8, <2>1, <2>2
    <2>3. CASE e = d
      <3>1. Course(d)[n + 1] = ctx[d]
        BY CourseElements DEF GdiIInv
      <3>2. Course(d)'[(n + 1) + 1] = k
        BY <1>4, <1>8
      <3>3. KeptIn(Course(d)', (n + 1) + 1, exists)
        <4> DEFINE s == Course(d)
                   t1 == Course(d)'
                   m == n + 1
        <4>1. m \in Nat /\ m >= 1 /\ KeptIn(s, m, exists)
          BY <1>4, <2>1, <2>3
        <4>2. /\ \A i \in 1 .. m : t1[i] = s[i]
              /\ t1[m + 1].sel \in exists
              /\ Mentions(t1[m + 1]) \subseteq Mentions(s[m]) \cup {t1[m + 1].sel}
          BY <1>8, <3>1, <3>2
        <4> HIDE DEF s, t1, m
        <4>3. KeptIn(t1, m + 1, exists)
          BY <4>1, <4>2, KeptExtended
        <4>4. QED BY <4>3 DEF t1, m
      <3>4. QED BY <1>1, <1>6, <2>3, <3>3
    <2>4. QED BY <2>2, <2>3
  <1>13. QED BY <1>3, <1>7, <1>10, <1>11, <1>12 DEF GdiIInv

\* The operations on guards that undo no call.
LEMMA NothingUndone ==
    ASSUME GdiIInv, EndedOrIInv', UNCHANGED <<res, gdi>>
    PROVE  GdiIInv'
  <1>1. UNCHANGED <<open, exists, ctx, hist>> /\ res' = res
    BY DEF gdi
  <1>2. GdiTypeOK'
    BY <1>1 DEF GdiIInv, GdiTypeOK
  <1>3. \A c \in Resource : Undone(c)' <=> Undone(c)
    BY <1>1 DEF Undone
  <1>4. Counted'
    BY <1>1, <1>3 DEF GdiIInv, Counted, NotUndone, Undone, DcOf
  <1>5. \A d : Course(d)' = Course(d)
    BY <1>1 DEF Course
  <1>6. Reversible'
    BY <1>1, <1>3, <1>5 DEF GdiIInv, Reversible, Undo, Undone, Course, DcOf
  <1>7. Kept'
    BY <1>1, <1>5 DEF GdiIInv, Kept, Course
  <1>8. QED BY <1>2, <1>4, <1>6, <1>7 DEF GdiIInv

\* The innermost call is the last.
LEMMA InnermostIsLast ==
    ASSUME GdiIInv, NEW c \in Resource, ~Undone(c), Innermost(c)
    PROVE  /\ DcOf(c) \in open /\ DcOf(c) \in Dc
           /\ c.number = Len(hist[DcOf(c)]) /\ Len(hist[DcOf(c)]) \in Nat \ {0}
  <1>1. DcOf(c) \in open /\ DcOf(c) \in Dc
    BY DEF GdiIInv, Counted, GdiTypeOK
  <1>2. c.number \in 1 .. Len(hist[DcOf(c)]) /\ Len(hist[DcOf(c)]) \in Nat
    BY <1>1, CourseElements DEF GdiIInv, Counted
  <1>3. Len(hist[DcOf(c)]) \in DOMAIN hist[DcOf(c)]
    BY <1>1, <1>2, CourseElements DEF GdiIInv
  <1>4. PICK e \in NotUndone(DcOf(c)) : e.number = Len(hist[DcOf(c)])
    BY <1>1, <1>3 DEF GdiIInv, Counted
  <1>5. e.number =< c.number
    BY <1>4 DEF Innermost
  <1>6. QED BY <1>1, <1>2, <1>4, <1>5

\* Undoing the innermost call restores the context as it was before it.
LEMMA UndoneRestores ==
    ASSUME GdiIInv, NEW c \in Resource, ~Undone(c), Innermost(c)
    PROVE  Undo(ctx[DcOf(c)], c) = hist[DcOf(c)][Len(hist[DcOf(c)])]
  <1> DEFINE d == DcOf(c)
             n == Len(hist[d])
  <1>1. d \in Dc /\ c.number = n /\ n \in Nat \ {0}
    BY InnermostIsLast
  <1>2. Undo(Course(d)[c.number + 1], c) = Course(d)[c.number]
    BY DEF GdiIInv, Reversible
  <1>3. Course(d)[n + 1] = ctx[d] /\ Course(d)[n] = hist[d][n]
    BY <1>1, CourseElements DEF GdiIInv
  <1>4. QED BY <1>1, <1>2, <1>3

LEMMA UndoKeeps ==
    ASSUME GdiIInv, EndedOrIInv', NEW c \in Resource, ~Undone(c), Innermost(c),
           res' = [res EXCEPT ![c] = Closed],
           ctx' = [ctx EXCEPT ![DcOf(c)] = Undo(ctx[DcOf(c)], c)],
           hist' = [hist EXCEPT ![DcOf(c)] = SubSeq(hist[DcOf(c)], 1, Len(hist[DcOf(c)]) - 1)],
           UNCHANGED <<open, exists>>
    PROVE  GdiIInv'
  <1> DEFINE d == DcOf(c)
             n == Len(hist[d])
  <1>1. d \in open /\ d \in Dc /\ c.number = n /\ n \in Nat \ {0} /\ n - 1 \in Nat
    BY InnermostIsLast
  <1>2. /\ ctx'[d] = hist[d][n] /\ hist'[d] = SubSeq(hist[d], 1, n - 1)
        /\ \A e \in Dc \ {d} : hist'[e] = hist[e] /\ ctx'[e] = ctx[e]
    BY <1>1, UndoneRestores DEF GdiIInv, GdiTypeOK
  <1>3. /\ hist[d] \in Seq(ContextType) /\ DOMAIN hist[d] = 1 .. n
        /\ hist[d][n] \in ContextType
    BY <1>1, CourseElements DEF GdiIInv, GdiTypeOK
  <1>4. /\ hist'[d] \in Seq(ContextType) /\ Len(hist'[d]) = n - 1
        /\ DOMAIN hist'[d] = 1 .. n - 1
        /\ \A i \in 1 .. n - 1 : hist'[d][i] = hist[d][i]
    BY <1>1, <1>2, <1>3
  <1>5. GdiTypeOK'
    <2>1. SubSeq(hist[d], 1, n - 1) \in Seq(ContextType)
      BY <1>2, <1>4
    <2>2. Undo(ctx[d], c) \in ContextType
      BY <1>3, UndoneRestores
    <2> HIDE DEF d, n
    <2>3. QED BY <1>1, <2>1, <2>2 DEF GdiIInv, GdiTypeOK, d, n
  <1>6. /\ \A i \in 1 .. n : Course(d)'[i] = Course(d)[i]
        /\ \A e \in Dc \ {d} : Course(e)' = Course(e)
    <2>1. Course(d)'[n] = ctx'[d] /\ \A i \in 1 .. n - 1 : Course(d)'[i] = hist'[d][i]
      BY <1>1, <1>4, <1>5, CourseElements DEF GdiTypeOK, Course
    <2>2. \A i \in 1 .. n : Course(d)[i] = hist[d][i]
      BY <1>1, CourseElements DEF GdiIInv
    <2>3. \A i \in 1 .. n : i = n \/ i \in 1 .. n - 1
      BY <1>1
    <2>4. \A e \in Dc \ {d} : Course(e)' = Course(e)
      BY <1>2 DEF Course
    <2>5. QED BY <1>2, <1>4, <2>1, <2>2, <2>3, <2>4
  <1>7. /\ \A e \in Resource : Undone(e)' <=> Undone(e) \/ e = c
        /\ \A e \in Resource \ {c} : res'[e] = res[e]
    BY DEF GdiIInv, EndedOrIInv, TypeOK, Undone
  <1>8. ASSUME NEW e \in Resource, ~Undone(e)'
        PROVE  /\ ~Undone(e) /\ e # c /\ DcOf(e) \in open /\ DcOf(e) \in Dc
               /\ e.number \in DOMAIN hist'[DcOf(e)]
               /\ e.number \in 1 .. Len(hist[DcOf(e)])
               /\ DcOf(e) = d => e.number \in 1 .. n - 1
    <2>1. /\ ~Undone(e) /\ e # c /\ DcOf(e) \in open /\ DcOf(e) \in Dc
          /\ e.number \in 1 .. Len(hist[DcOf(e)])
      BY <1>7, <1>8, CourseElements DEF GdiIInv, Counted, GdiTypeOK
    <2>2. DcOf(e) = d => e.number \in 1 .. n - 1
      <3>1. DcOf(e) = d => e.number # n
        BY <1>1, <2>1 DEF GdiIInv, Counted
      <3>2. QED BY <1>1, <2>1, <3>1
    <2>3. DcOf(e) # d => e.number \in DOMAIN hist'[DcOf(e)]
      BY <1>2, <2>1, CourseElements DEF GdiIInv
    <2>4. QED BY <1>4, <2>1, <2>2, <2>3
  <1>9. Counted'
    <2>1. \A e \in Dc \ open' : hist'[e] = <<>>
      BY <1>1, <1>2 DEF GdiIInv, Counted
    <2>2. \A e \in Resource : ~Undone(e)' =>
              DcOf(e) \in open' /\ e.number \in DOMAIN hist'[DcOf(e)]
      BY <1>8
    <2>3. \A a, b \in Resource :
              ~Undone(a)' /\ ~Undone(b)' /\ DcOf(a) = DcOf(b) /\ a.number = b.number => a = b
      BY <1>8 DEF GdiIInv, Counted
    <2>4. ASSUME NEW e \in Dc, NEW i \in DOMAIN hist'[e]
          PROVE  \E a \in Resource : ~Undone(a)' /\ DcOf(a) = e /\ a.number = i
      <3>1. i \in DOMAIN hist[e] /\ (e = d => i # n)
        BY <1>1, <1>2, <1>3, <1>4, <2>4
      <3>2. PICK a \in NotUndone(e) : a.number = i
        BY <3>1 DEF GdiIInv, Counted
      <3>3. QED BY <1>1, <1>7, <3>1, <3>2 DEF NotUndone
    <2>5. QED BY <2>1, <2>2, <2>3, <2>4 DEF Counted, NotUndone, DcOf
  <1>10. Reversible'
    <2>1. ASSUME NEW e \in open' PROVE Course(e)'[1] = FreshDc
      <3>1. e \in Dc /\ Course(e)[1] = FreshDc /\ 1 \in 1 .. n
        BY <1>1 DEF GdiIInv, Reversible, GdiTypeOK
      <3>2. CASE e = d
        BY <1>6, <3>1, <3>2
      <3>3. CASE e # d
        BY <1>6, <3>1, <3>3
      <3>4. QED BY <3>2, <3>3
    <2>2. ASSUME NEW e \in Resource, ~Undone(e)'
          PROVE  Undo(Course(DcOf(e))[e.number + 1], e)' = Course(DcOf(e))'[e.number]
      <3>1. Undo(Course(DcOf(e))[e.number + 1], e) = Course(DcOf(e))[e.number]
        BY <1>8, <2>2 DEF GdiIInv, Reversible
      <3>2. /\ Course(DcOf(e))'[e.number + 1] = Course(DcOf(e))[e.number + 1]
            /\ Course(DcOf(e))'[e.number] = Course(DcOf(e))[e.number]
        <4>1. CASE DcOf(e) = d
          <5>1. e.number \in 1 .. n /\ e.number + 1 \in 1 .. n
            BY <1>1, <1>8, <2>2, <4>1
          <5>2. QED BY <1>6, <4>1, <5>1
        <4>2. CASE DcOf(e) # d
          BY <1>6, <1>8, <2>2, <4>2
        <4>3. QED BY <4>1, <4>2
      <3>3. res'[e] = res[e]
        BY <1>7, <1>8, <2>2
      <3>4. QED BY <3>1, <3>2, <3>3 DEF Undo
    <2>3. QED BY <2>1, <2>2 DEF Reversible, DcOf
  <1>11. Kept'
    <2> SUFFICES ASSUME NEW e \in open'
                 PROVE  KeptIn(Course(e)', Len(hist'[e]) + 1, exists')
      BY DEF Kept
    <2>1. e \in open /\ e \in Dc /\ KeptIn(Course(e), Len(hist[e]) + 1, exists)
      BY DEF GdiIInv, GdiTypeOK, Kept
    <2>2. CASE e # d
      BY <1>2, <1>6, <2>1, <2>2
    <2>3. CASE e = d
      <3>1. KeptIn(Course(d)', n, exists)
        <4> DEFINE s == Course(d)
                   t == Course(d)'
        <4>1. KeptIn(s, n + 1, exists) /\ \A i \in 1 .. n : t[i] = s[i]
          BY <1>6, <2>1, <2>3
        <4>2. n \in Nat /\ n + 1 \in Nat /\ n =< n + 1
          BY <1>1
        <4> HIDE DEF s, t, n
        <4>3. KeptIn(t, n, exists)
          BY <4>1, <4>2, KeptPrefix
        <4>4. QED BY <4>3 DEF t
      <3>2. Len(hist'[d]) + 1 = n
        BY <1>1, <1>4
      <3>3. QED BY <2>3, <3>1, <3>2
    <2>4. QED BY <2>2, <2>3
  <1>12. QED BY <1>5, <1>9, <1>10, <1>11 DEF GdiIInv

------------------------------------------------------------------------------
(* The steps.                                                                *)

LEMMA GuardOpKeeps ==
    ASSUME GdiIInv, IsGdiGuard, SelfResets => Checked, GuardOp
    PROVE  GdiIInv'
  <1>1. TypeOK
    BY DEF GdiIInv, EndedOrIInv
  <1>2. Next /\ (res' = res \/ \E c \in Resource : res' = [res EXCEPT ![c] = Closed])
    BY <1>1, GuardCloses
  <1>3. EndedOrIInv'
    BY <1>2, GdiFits, UniqueRcStepKeeps DEF GdiIInv
  <1>4. Effects
    BY DEF GuardOp
  <1>5. CASE (\A c \in Resource : ~Undoes(c)) /\ UNCHANGED gdi
    <2>1. res' = res
      <3>1. CASE res' = res
        BY <3>1
      <3>2. ASSUME NEW c \in Resource, res' = [res EXCEPT ![c] = Closed]
            PROVE  res' = res
        <4>1. res'[c] = Closed
          BY <1>1, <3>2 DEF TypeOK
        <4>2. res[c] = Closed
          BY <1>5, <4>1 DEF Undoes, Undone
        <4>3. QED BY <1>1, <3>2, <4>2 DEF TypeOK
      <3>3. QED BY <1>2, <3>1, <3>2
    <2>2. QED BY <1>3, <1>5, <2>1, NothingUndone DEF gdi
  <1>6. ASSUME NEW c \in Resource, Undoes(c), Innermost(c),
               ctx' = [ctx EXCEPT ![DcOf(c)] = Undo(@, c)],
               hist' = [hist EXCEPT ![DcOf(c)] = SubSeq(@, 1, Len(@) - 1)],
               UNCHANGED <<open, exists>>
        PROVE  GdiIInv'
    <2>1. ~Undone(c) /\ res'[c] = Closed /\ res[c] # Closed
      BY <1>6 DEF Undoes, Undone
    <2>2. res' = [res EXCEPT ![c] = Closed]
      BY <1>1, <1>2, <2>1 DEF TypeOK
    <2>3. QED BY <1>3, <1>6, <2>1, <2>2, UndoKeeps
  <1>7. QED BY <1>4, <1>5, <1>6 DEF Effects

LEMMA CurrentKept ==
    ASSUME GdiIInv, NEW d \in open
    PROVE  ctx[d].sel \in exists
  <1>1. d \in Dc /\ Len(hist[d]) + 1 \in 1 .. Len(hist[d]) + 1
    BY CourseElements DEF GdiIInv, GdiTypeOK
  <1>2. QED BY <1>1, CourseElements DEF GdiIInv, Kept, KeptIn

LEMMA SaveKeeps ==
    ASSUME GdiIInv, IsGdiGuard, SelfResets => Checked, NEW d \in Dc, Save(d)
    PROVE  GdiIInv'
  <1> DEFINE c == Call(DcState(d, Len(ctx[d].saved) + 1), NextNumber(d))
             k == SaveDC(ctx[d])
  <1>1. ctx[d] \in ContextType
    BY DEF GdiIInv, GdiTypeOK
  <1>2. /\ k \in ContextType /\ RestoreDC(k, Len(ctx[d].saved) + 1) = ctx[d]
        /\ Mentions(k) \subseteq Mentions(ctx[d]) /\ k.sel = ctx[d].sel
    BY <1>1, SaveUndone
  <1>3. c \in Resource /\ d \in open /\ Calls(d, c, k) /\ Acquire(c, "dc_state")
    BY DEF Save, Calls
  <1>4. DcOf(c) = d /\ c.number = NextNumber(d) /\ c.handle.state = Len(ctx[d].saved) + 1
    BY DEF Call, DcState, DcOf
  <1>5. k.sel \in exists
    BY <1>2, <1>3, CurrentKept
  <1>6. RestoreGuard(k, c.handle) = ctx[d]
    BY <1>2, <1>4 DEF RestoreGuard
  <1> HIDE DEF c, k
  <1>7. QED BY <1>2, <1>3, <1>4, <1>5, <1>6, CallsKeeps DEF GdiKind

LEMMA SelectKeeps ==
    ASSUME GdiIInv, IsGdiGuard, SelfResets => Checked,
           NEW d \in Dc, NEW o \in Obj, Select(d, o)
    PROVE  GdiIInv'
  <1> DEFINE c == Call(DcGdiObj(d, ctx[d].sel), NextNumber(d))
             k == SelectObject(ctx[d], o)
  <1>1. ctx[d] \in ContextType /\ o \in exists
    BY DEF GdiIInv, GdiTypeOK, Select
  <1>2. /\ k \in ContextType /\ SelectObject(k, ctx[d].sel) = ctx[d]
        /\ Mentions(k) \subseteq Mentions(ctx[d]) \cup {k.sel} /\ k.sel = o
    BY <1>1, SelectUndone
  <1>3. c \in Resource /\ Calls(d, c, k) /\ Acquire(c, "dc_gdiobj")
    BY DEF Select, Calls
  <1>4. DcOf(c) = d /\ c.number = NextNumber(d) /\ c.handle.hobj = ctx[d].sel
    BY DEF Call, DcGdiObj, DcOf
  <1>5. SelectGuard(k, c.handle) = ctx[d]
    BY <1>2, <1>4 DEF SelectGuard
  <1> HIDE DEF c, k
  <1>6. QED BY <1>1, <1>2, <1>3, <1>4, <1>5, CallsKeeps DEF GdiKind

\* The steps that touch neither guards nor calls.
LEMMA SameCalls ==
    ASSUME GdiIInv, IsGdiGuard, SelfResets => Checked, UNCHANGED vars
    PROVE  EndedOrIInv' /\ res' = res
  <1>1. EndedOrIInv'
    BY GdiFits, UniqueRcStepKeeps DEF GdiIInv
  <1>2. QED BY <1>1 DEF vars

\* A context with no call not undone is as it was acquired.
LEMMA NoCallsNoHistory ==
    ASSUME GdiIInv, NEW d \in Dc, NotUndone(d) = {}
    PROVE  hist[d] = <<>> /\ (d \in open => ctx[d] = FreshDc)
  <1>1. DOMAIN hist[d] = {} /\ hist[d] \in Seq(ContextType)
    BY DEF GdiIInv, Counted, GdiTypeOK
  <1>2. hist[d] = <<>> /\ Len(hist[d]) = 0
    <2>1. Len(hist[d]) = 0
      <3>1. Len(hist[d]) \in Nat /\ 1 .. Len(hist[d]) = {}
        BY <1>1, CourseElements DEF GdiIInv
      <3>2. Len(hist[d]) > 0 => 1 \in 1 .. Len(hist[d])
        BY <3>1
      <3>3. QED BY <3>1, <3>2
    <2>2. QED BY <1>1, <2>1, EmptySeq
  <1>3. Course(d)[1] = ctx[d]
    BY <1>2, CourseElements DEF GdiIInv
  <1>4. QED BY <1>2, <1>3 DEF GdiIInv, Reversible

LEMMA GetDcKeeps ==
    ASSUME GdiIInv, IsGdiGuard, SelfResets => Checked, NEW d \in Dc, GetDc(d)
    PROVE  GdiIInv'
  <1>1. EndedOrIInv' /\ res' = res
    BY SameCalls DEF GetDc
  <1>2. /\ d \notin open /\ open' = open \cup {d} /\ ctx' = [ctx EXCEPT ![d] = FreshDc]
        /\ exists' = exists /\ hist' = hist
    BY DEF GetDc
  <1>3. hist[d] = <<>>
    BY <1>2 DEF GdiIInv, Counted
  <1>4. FreshDc \in ContextType /\ FreshDc.sel = Stock /\ Mentions(FreshDc) = {Stock}
    BY GdiAssumption DEF FreshDc, Context, ContextType, Mentions
  <1>5. GdiTypeOK'
    BY <1>2, <1>4 DEF GdiIInv, GdiTypeOK
  <1>6. /\ Course(d)' = <<FreshDc>>
        /\ \A e \in Dc \ {d} : Course(e)' = Course(e)
    BY <1>2, <1>3 DEF GdiIInv, GdiTypeOK, Course
  <1>7. Counted'
    BY <1>1, <1>2 DEF GdiIInv, Counted, NotUndone, Undone, DcOf
  <1>8. \A c \in Resource : ~Undone(c) => DcOf(c) \in open /\ DcOf(c) \in Dc /\ DcOf(c) # d
    BY <1>2 DEF GdiIInv, Counted, GdiTypeOK
  <1>9. Reversible'
    <2>1. ASSUME NEW e \in open' PROVE Course(e)'[1] = FreshDc
      <3>1. CASE e = d
        BY <1>6, <3>1
      <3>2. CASE e # d
        BY <1>2, <1>6, <3>2 DEF GdiIInv, Reversible, GdiTypeOK
      <3>3. QED BY <3>1, <3>2
    <2>2. ASSUME NEW c \in Resource, ~Undone(c)'
          PROVE  Undo(Course(DcOf(c))[c.number + 1], c)' = Course(DcOf(c))'[c.number]
      <3>1. ~Undone(c) /\ Course(DcOf(c))' = Course(DcOf(c)) /\ res'[c] = res[c]
        BY <1>1, <1>6, <1>8, <2>2 DEF Undone
      <3>2. Undo(Course(DcOf(c))[c.number + 1], c) = Course(DcOf(c))[c.number]
        BY <3>1 DEF GdiIInv, Reversible
      <3>3. QED BY <3>1, <3>2 DEF Undo
    <2>3. QED BY <2>1, <2>2 DEF Reversible, DcOf
  <1>10. Kept'
    <2> SUFFICES ASSUME NEW e \in open'
                 PROVE  KeptIn(Course(e)', Len(hist'[e]) + 1, exists')
      BY DEF Kept
    <2>1. CASE e = d
      <3>1. /\ Course(e)'[1] = FreshDc /\ Len(hist'[e]) + 1 = 1 /\ Stock \in exists
            /\ 1 .. 1 = {1}
        BY <1>2, <1>3, <1>6, <2>1 DEF GdiIInv, GdiTypeOK
      <3>2. KeptIn(Course(e)', 1, exists)
        BY <1>4, <3>1 DEF KeptIn
      <3>3. QED BY <1>2, <3>1, <3>2
    <2>2. CASE e # d
      BY <1>2, <1>6, <2>2 DEF GdiIInv, Kept, GdiTypeOK
    <2>3. QED BY <2>1, <2>2
  <1>11. QED BY <1>1, <1>5, <1>7, <1>9, <1>10 DEF GdiIInv

LEMMA ReleaseDcKeeps ==
    ASSUME GdiIInv, IsGdiGuard, SelfResets => Checked, NEW d \in Dc, ReleaseDc(d)
    PROVE  GdiIInv'
  <1>1. EndedOrIInv' /\ res' = res
    BY SameCalls DEF ReleaseDc
  <1>2. /\ open' = open \ {d} /\ ctx' = ctx /\ exists' = exists /\ hist' = hist
        /\ NotUndone(d) = {}
    BY DEF ReleaseDc
  <1>3. hist[d] = <<>>
    BY <1>2, NoCallsNoHistory
  <1>4. \A c \in Resource : Undone(c)' <=> Undone(c)
    BY <1>1 DEF Undone
  <1>5. GdiTypeOK'
    BY <1>2 DEF GdiIInv, GdiTypeOK
  <1>6. Counted'
    BY <1>2, <1>3, <1>4 DEF GdiIInv, Counted, NotUndone, DcOf
  <1>7. \A e : Course(e)' = Course(e)
    BY <1>2 DEF Course
  <1>8. Reversible'
    BY <1>1, <1>2, <1>4, <1>7 DEF GdiIInv, Reversible, Undo, Undone, Course, DcOf
  <1>9. Kept'
    BY <1>2, <1>7 DEF GdiIInv, Kept, Course
  <1>10. QED BY <1>1, <1>5, <1>6, <1>8, <1>9 DEF GdiIInv

LEMMA ObjectsKeep ==
    ASSUME GdiIInv, IsGdiGuard, SelfResets => Checked,
           NEW o \in Obj, CreateObject(o) \/ DeleteObject(o)
    PROVE  GdiIInv'
  <1>1. EndedOrIInv' /\ res' = res
    BY SameCalls DEF CreateObject, DeleteObject
  <1>2. open' = open /\ ctx' = ctx /\ hist' = hist
    BY DEF CreateObject, DeleteObject
  <1>3. exists' \subseteq Obj /\ Stock \in exists'
    BY GdiAssumption DEF CreateObject, DeleteObject, GdiIInv, GdiTypeOK
  <1>4. \A c \in Resource : Undone(c)' <=> Undone(c)
    BY <1>1 DEF Undone
  <1>5. GdiTypeOK'
    BY <1>2, <1>3 DEF GdiIInv, GdiTypeOK
  <1>6. Counted'
    BY <1>2, <1>4 DEF GdiIInv, Counted, NotUndone, DcOf
  <1>7. \A e : Course(e)' = Course(e)
    BY <1>2 DEF Course
  <1>8. Reversible'
    BY <1>1, <1>2, <1>4, <1>7 DEF GdiIInv, Reversible, Undo, Undone, Course, DcOf
  <1>9. Kept'
    <2> SUFFICES ASSUME NEW d \in open
                 PROVE  KeptIn(Course(d), Len(hist[d]) + 1, exists')
      BY <1>2, <1>7 DEF Kept, Course
    <2>1. d \in Dc /\ KeptIn(Course(d), Len(hist[d]) + 1, exists)
      BY DEF GdiIInv, GdiTypeOK, Kept
    <2>2. ASSUME NEW i \in 1 .. Len(hist[d]) + 1
          PROVE  Course(d)[i].sel \in exists'
      <3>1. Course(d)[i].sel \in exists
        BY <2>1 DEF KeptIn
      <3>2. CASE CreateObject(o)
        BY <3>1, <3>2 DEF CreateObject
      <3>3. CASE DeleteObject(o)
        <4>1. i \in 1 .. Len(hist[d]) \/ i = Len(hist[d]) + 1
          BY <2>1, CourseElements DEF GdiIInv
        <4>2. o # Course(d)[i].sel
          <5>1. CASE hist[d] = <<>>
            <6>1. Course(d)[i] = FreshDc
              BY <2>1, <4>1, <5>1, CourseElements DEF GdiIInv, Reversible
            <6>2. QED BY <3>3, <6>1 DEF DeleteObject, FreshDc, Context
          <5>2. CASE hist[d] # <<>>
            BY <2>1, <3>3, <4>1, <5>2, CourseElements DEF DeleteObject, GdiIInv
          <5>3. QED BY <5>1, <5>2
        <4>3. QED BY <3>1, <3>3, <4>2 DEF DeleteObject
      <3>4. QED BY <3>2, <3>3
    <2>3. QED BY <2>1, <2>2 DEF KeptIn
  <1>10. QED BY <1>1, <1>5, <1>6, <1>8, <1>9 DEF GdiIInv

LEMMA GdiStarts ==
    ASSUME GdiInit
    PROVE  GdiIInv
  <1>1. EndedOrIInv
    BY InitIInv DEF GdiInit, EndedOrIInv, IInv
  <1>2. \A c \in Resource : res[c] = Closed
    BY DEF GdiInit, Init
  <1>3. GdiTypeOK
    BY GdiAssumption DEF GdiInit, GdiTypeOK, FreshDc, Context, ContextType
  <1>4. Counted
    BY <1>2 DEF GdiInit, Counted, Undone
  <1>5. Reversible /\ Kept
    BY <1>2 DEF GdiInit, Reversible, Kept, Undone
  <1>6. QED BY <1>1, <1>3, <1>4, <1>5 DEF GdiIInv

LEMMA GdiStepKeeps ==
    ASSUME GdiIInv, IsGdiGuard, SelfResets => Checked, [GdiNext]_gvars
    PROVE  GdiIInv'
  <1>1. CASE GuardOp
    BY <1>1, GuardOpKeeps
  <1>2. ASSUME NEW d \in Dc, Save(d) \/ GetDc(d) \/ ReleaseDc(d)
        PROVE  GdiIInv'
    BY <1>2, SaveKeeps, GetDcKeeps, ReleaseDcKeeps
  <1>3. ASSUME NEW d \in Dc, NEW o \in Obj, Select(d, o)
        PROVE  GdiIInv'
    BY <1>3, SelectKeeps
  <1>4. ASSUME NEW o \in Obj, CreateObject(o) \/ DeleteObject(o)
        PROVE  GdiIInv'
    BY <1>4, ObjectsKeep
  <1>5. CASE UNCHANGED gvars
    BY <1>5, SameCalls, NothingUndone DEF gvars
  <1>6. QED BY <1>1, <1>2, <1>3, <1>4, <1>5 DEF GdiNext

\* The calls that are not undone and their guards always belong together as
\* GdiIInv says.
THEOREM GdiInvariance ==
    ASSUME IsGdiGuard, SelfResets => Checked
    PROVE  GdiSpec => []GdiIInv
  <1>1. GdiInit => GdiIInv
    BY GdiStarts
  <1>2. GdiIInv /\ [GdiNext]_gvars => GdiIInv'
    BY GdiStepKeeps
  <1>3. QED BY <1>1, <1>2, PTL DEF GdiSpec

------------------------------------------------------------------------------
(* The theorems.                                                             *)

\* The two deleters are called on what they accept, and once for each call, in
\* every build.
THEOREM CallsAreUndoneOnce ==
    ASSUME IsGdiGuard, SelfResets => Checked
    PROVE  GdiSpec => []NoFault
  <1>1. GdiIInv => NoFault
    BY DEF GdiIInv, EndedOrIInv
  <1>2. QED BY <1>1, GdiInvariance, PTL

\* No call is lost as long as the self-reset assertion has not ended the program,
\* as it may where two handles are equal: until then every call that is not undone
\* has its guard or is the client's, whatever is done to the guards.
THEOREM NoCallIsLost ==
    ASSUME IsGdiGuard, SelfResets => Checked
    PROVE  GdiSpec => [](~aborted => NoLeak)
  <1>1. GdiIInv => (~aborted => NoLeak)
    BY DEF GdiIInv, EndedOrIInv, IInv
  <1>2. QED BY <1>1, GdiInvariance, PTL

\* gdi_restore_dc and gdi_select_object put the context back into the state it had
\* before the call they undo, however the guard was passed on in between, in every
\* build.
THEOREM GuardsUndo ==
    ASSUME IsGdiGuard, SelfResets => Checked
    PROVE  GdiSpec => UndoRestores
  <1> DEFINE Restored == \A d \in open : Len(hist'[d]) < Len(hist[d]) =>
                            ctx'[d] = hist[d][Len(hist[d])]
  <1>1. ASSUME GdiIInv, [GdiNext]_gvars
        PROVE  [Restored]_gvars
    <2> SUFFICES ASSUME NEW d \in open, Len(hist'[d]) < Len(hist[d])
                 PROVE  ctx'[d] = hist[d][Len(hist[d])]
      OBVIOUS
    <2>1. d \in Dc /\ Len(hist[d]) \in Nat /\ hist[d] \in Seq(ContextType)
      BY <1>1 DEF GdiIInv, GdiTypeOK
    <2>2. hist'[d] # hist[d]
      BY <2>1
    <2>3. CASE GuardOp
      <3>1. PICK c \in Resource :
              /\ Undoes(c) /\ Innermost(c)
              /\ ctx' = [ctx EXCEPT ![DcOf(c)] = Undo(@, c)]
              /\ hist' = [hist EXCEPT ![DcOf(c)] = SubSeq(@, 1, Len(@) - 1)]
        BY <2>2, <2>3 DEF GuardOp, Effects, gdi
      <3>2. ~Undone(c)
        BY <3>1 DEF Undoes
      <3>3. d = DcOf(c)
        BY <1>1, <2>1, <2>2, <3>1 DEF GdiIInv, GdiTypeOK
      <3>4. ctx'[d] = Undo(ctx[d], c)
        BY <1>1, <2>1, <3>1, <3>3 DEF GdiIInv, GdiTypeOK
      <3>5. QED BY <1>1, <3>1, <3>2, <3>3, <3>4, UndoneRestores
    <2>4. ASSUME NEW e \in Dc, NEW c, NEW k, Calls(e, c, k)
          PROVE  FALSE
      <3>1. hist' = [hist EXCEPT ![e] = Append(hist[e], ctx[e])]
        BY <2>4 DEF Calls
      <3>2. e = d /\ hist'[d] = Append(hist[d], ctx[d])
        BY <1>1, <2>1, <2>2, <3>1 DEF GdiIInv, GdiTypeOK
      <3>3. QED BY <2>1, <3>2
    <2>5. QED
      BY <1>1, <2>2, <2>3, <2>4
      DEF GdiNext, gvars, gdi, Save, Select, GetDc, ReleaseDc, CreateObject, DeleteObject
  <1> HIDE DEF Restored
  <1>2. GdiSpec => [][Restored]_gvars
    BY <1>1, GdiInvariance, PTL DEF GdiSpec
  <1>3. QED BY <1>2 DEF UndoRestores, Restored

\* A device context is released or deleted in the state it was received in, in every
\* build.
THEOREM ContextsComeBack ==
    ASSUME IsGdiGuard, SelfResets => Checked
    PROVE  GdiSpec => GivenBackAsReceived
  <1> DEFINE Returned == \A d \in open \ open' : ctx[d] = FreshDc
  <1>1. ASSUME GdiIInv, [GdiNext]_gvars
        PROVE  [Returned]_gvars
    <2> SUFFICES ASSUME NEW d \in open \ open'
                 PROVE  ctx[d] = FreshDc
      OBVIOUS
    <2>1. d \in Dc /\ open' # open
      BY <1>1 DEF GdiIInv, GdiTypeOK
    <2>2. PICK e \in Dc : GetDc(e) \/ ReleaseDc(e)
      BY <1>1, <2>1
      DEF GdiNext, gvars, gdi, GuardOp, Effects, Save, Select, Calls, CreateObject, DeleteObject
    <2>3. ReleaseDc(d)
      BY <2>2 DEF GetDc, ReleaseDc
    <2>4. QED BY <1>1, <2>1, <2>3, NoCallsNoHistory DEF ReleaseDc
  <1> HIDE DEF Returned
  <1>2. GdiSpec => [][Returned]_gvars
    BY <1>1, GdiInvariance, PTL DEF GdiSpec
  <1>3. QED BY <1>2 DEF GivenBackAsReceived, Returned

\* What a context has selected or saved, or a guard will select back, exists, in
\* every build, if a client deletes only objects all of whose selections it undid:
\* that the context does not have them selected any more is the guards' doing.
THEOREM NothingDangles ==
    ASSUME IsGdiGuard, SelfResets => Checked
    PROVE  GdiSpec => []NoneDangling
  <1>1. ASSUME GdiIInv
        PROVE  NoneDangling
    <2>1. ASSUME NEW d \in open
          PROVE  Mentions(ctx[d]) \subseteq exists
      <3>1. /\ d \in Dc /\ Len(hist[d]) + 1 \in 1 .. Len(hist[d]) + 1
            /\ Course(d)[Len(hist[d]) + 1] = ctx[d] /\ Len(hist[d]) \in Nat
        BY <1>1, CourseElements DEF GdiIInv, GdiTypeOK
      <3> DEFINE n == Len(hist[d]) + 1
      <3>2. KeptIn(Course(d), n, exists)
        BY <1>1 DEF GdiIInv, Kept
      <3>3. \A o \in Mentions(Course(d)[n]) : \E j \in 1 .. n : Course(d)[j].sel = o
        BY <3>1, <3>2 DEF KeptIn
      <3>4. \A j \in 1 .. n : Course(d)[j].sel \in exists
        BY <3>2 DEF KeptIn
      <3>5. QED BY <3>1, <3>3, <3>4
    <2>2. ASSUME NEW c \in Resource, res[c] = "dc_gdiobj"
          PROVE  c.handle.hobj \in exists
      <3> DEFINE d == DcOf(c)
                 k == Course(d)[c.number + 1]
      <3>1. ~Undone(c)
        BY <2>2, ConstantsAssumption DEF Undone, IsGdiGuard, GdiKind
      <3>2. /\ d \in open /\ d \in Dc /\ c.number \in 1 .. Len(hist[d]) + 1
        BY <1>1, <3>1, CourseElements DEF GdiIInv, Counted, GdiTypeOK
      <3>3. Undo(k, c) = Course(d)[c.number]
        BY <1>1, <3>1 DEF GdiIInv, Reversible
      <3>4. Undo(k, c).sel = c.handle.hobj
        BY <2>2 DEF Undo, SelectGuard, SelectObject, Context
      <3>5. Course(d)[c.number].sel \in exists
        BY <1>1, <3>2 DEF GdiIInv, Kept, KeptIn
      <3>6. QED BY <3>3, <3>4, <3>5
    <2>3. QED BY <2>1, <2>2 DEF NoneDangling
  <1>2. QED BY <1>1, GdiInvariance, PTL

------------------------------------------------------------------------------
(* Responsibility for calls.                                                 *)

\* As far as unique_rc goes, every step is one of its own.
LEMMA GdiStepIsStep ==
    ASSUME IsGdiGuard, [GdiNext]_gvars
    PROVE  [Next]_vars
  <1>1. CASE GuardOp
    BY <1>1 DEF GuardOp, Next, ClientOp
  <1>2. ASSUME NEW c, NEW t \in Tag, c \in Resource, Acquire(c, t)
        PROVE  Next
    BY <1>2 DEF Next, ClientOp
  <1>3. {"dc_state", "dc_gdiobj"} \subseteq Tag
    BY DEF IsGdiGuard, GdiKind
  <1>4. ASSUME NEW d \in Dc, Save(d)
        PROVE  Next
    <2> DEFINE c == Call(DcState(d, Len(ctx[d].saved) + 1), NextNumber(d))
    <2>1. c \in Resource /\ Acquire(c, "dc_state")
      BY <1>4 DEF Save, Calls
    <2> HIDE DEF c
    <2>2. QED BY <2>1, <1>2, <1>3
  <1>5. ASSUME NEW d \in Dc, NEW o \in Obj, Select(d, o)
        PROVE  Next
    <2> DEFINE c == Call(DcGdiObj(d, ctx[d].sel), NextNumber(d))
    <2>1. c \in Resource /\ Acquire(c, "dc_gdiobj")
      BY <1>5 DEF Select, Calls
    <2> HIDE DEF c
    <2>2. QED BY <2>1, <1>2, <1>3
  <1>6. ASSUME NEW d \in Dc, GetDc(d) \/ ReleaseDc(d)
        PROVE  UNCHANGED vars
    BY <1>6 DEF GetDc, ReleaseDc
  <1>7. ASSUME NEW o \in Obj, CreateObject(o) \/ DeleteObject(o)
        PROVE  UNCHANGED vars
    BY <1>7 DEF CreateObject, DeleteObject
  <1>8. UNCHANGED gvars => UNCHANGED vars
    BY DEF gvars
  <1>9. QED BY <1>1, <1>4, <1>5, <1>6, <1>7, <1>8 DEF GdiNext

\* In a build without the self-reset assertion, every call that is not undone is one
\* guard's to undo or the client's, and it is passed on only as the guards'
\* operations say: it is neither lost nor doubled.
THEOREM GuardsImplementOwnership ==
    ASSUME IsGdiGuard, ~Checked, ~SelfResets
    PROVE  GdiSpec => OwnershipSpec
  <1>1. Fits
    BY GdiFits DEF Fits
  <1>2. GdiInit => Init
    BY DEF GdiInit
  <1>3. [GdiNext]_gvars => [Next]_vars
    BY GdiStepIsStep
  <1>4. GdiSpec => Spec
    BY <1>2, <1>3, PTL DEF GdiSpec, Spec
  <1>5. QED BY <1>1, <1>4, ImplementsOwnership, PTL
==============================================================================

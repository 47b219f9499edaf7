--------------------------- MODULE NestedPtrProofs ---------------------------
(***************************************************************************)
(* unique_ptr survives destructors that call back into it, however deep,    *)
(* with any number of nodes and variables, as long as none calls an object  *)
(* whose own destructor is running (Usable).  The proof separates the stack   *)
(* of interrupted operations (Nested: what its frames say of each other)    *)
(* from what the objects hold while the objects in D are being deleted and  *)
(* those in E destroyed (Held); the two meet in IInv.                       *)
(***************************************************************************)
EXTENDS NestedPtr, FiniteSetTheorems, TLAPS

FrameSet == [pc : {"body", "spent", "destroy", "return"}, of : Obj]

Doomed(st) == {st[i].of : i \in {j \in 1 .. Len(st) : st[j].pc # "return"}}
Ending(st) == {st[i].of : i \in {j \in 1 .. Len(st) : st[j].pc = "destroy"}}

\* Every frame but those of returns has an object of its own, which exists; what
\* runs above a destructor is the deletion of what its unique_ptr stores.
Nested(st, al, h) ==
    /\ st \in Seq(FrameSet)
    /\ \A i \in 1 .. Len(st) : st[i].pc # "return" => st[i].of \in al
    /\ Stateful => \A i \in 1 .. Len(st) : st[i].of \in al
    /\ \A i \in 1 .. Len(st) : st[i].pc \in {"body", "spent"} => st[i].of \in Node
    /\ \A i, j \in 1 .. Len(st) :
           st[i].pc # "return" /\ st[j].pc # "return" /\ st[i].of = st[j].of => i = j
    /\ \A i \in 2 .. Len(st) : st[i].pc = "destroy" =>
           st[i - 1].pc # "return" /\ h[st[i].of] = st[i - 1].of

\* A deleter returned to the destructor on top, or it had nothing to delete.
Done(st, al, h) ==
    st # <<>> /\ st[1].pc = "destroy" => h[st[1].of] \notin al

\* The deletion of x may begin on top of st.
Expects(st, h, x) == st # <<>> /\ st[1].pc = "destroy" => h[st[1].of] = x

Held(al, h, rw, D, E) ==
    /\ al \subseteq Obj
    /\ h \in [Obj -> Node \cup {null}]
    /\ rw \subseteq Node
    /\ rw \subseteq al \ D
    /\ \A x \in al \ E : h[x] \in {null} \cup (al \ D)
    /\ \A x, y \in al : h[x] = h[y] /\ h[x] # null => x = y
    /\ \A x \in al : h[x] \notin rw
    /\ \A n \in Node \cap al : n \in rw \cup D \/ \E x \in al : h[x] = n
    /\ \A x \in Obj \ al : h[x] = null

Outlive == Stateful => OperandsOutlive

IInv == /\ fault = FALSE
        /\ Nested(stack, alive, hnd)
        /\ Done(stack, alive, hnd)
        /\ Held(alive, hnd, raw, Dying, InDestructor)
        /\ Outlive

------------------------------------------------------------------------------
(* Stacks.                                                                   *)

LEMMA Consed ==
    ASSUME NEW S, NEW st \in Seq(S), NEW f \in S
    PROVE  /\ <<f>> \o st \in Seq(S)
           /\ Len(<<f>> \o st) = Len(st) + 1
           /\ (<<f>> \o st)[1] = f
           /\ \A i \in 2 .. Len(st) + 1 : (<<f>> \o st)[i] = st[i - 1]
  OBVIOUS

LEMMA Tailed ==
    ASSUME NEW S, NEW st \in Seq(S), st # <<>>
    PROVE  /\ Head(st) = st[1] /\ st[1] \in S /\ Len(st) \in Nat /\ Len(st) > 0
           /\ Tail(st) \in Seq(S)
           /\ Len(Tail(st)) = Len(st) - 1
           /\ \A i \in 1 .. Len(st) - 1 : Tail(st)[i] = st[i + 1]
  OBVIOUS

LEMMA StackSets ==
    ASSUME NEW st \in Seq(FrameSet)
    PROVE  /\ {st[i].of : i \in {j \in DOMAIN st : st[j].pc \in {"body", "spent", "destroy"}}}
                  = Doomed(st)
           /\ {st[i].of : i \in {j \in DOMAIN st : st[j].pc \in {"destroy"}}} = Ending(st)
  <1>1. DOMAIN st = 1 .. Len(st)
    OBVIOUS
  <1>2. \A i \in 1 .. Len(st) : st[i].pc \in {"body", "spent", "destroy", "return"}
    <2>1. \A i \in 1 .. Len(st) : st[i] \in FrameSet
      OBVIOUS
    <2>2. QED BY <2>1 DEF FrameSet
  <1>3. {i \in DOMAIN st : st[i].pc \in {"body", "spent", "destroy"}}
            = {i \in 1 .. Len(st) : st[i].pc # "return"}
    BY <1>1, <1>2
  <1>4. {i \in DOMAIN st : st[i].pc \in {"destroy"}}
            = {i \in 1 .. Len(st) : st[i].pc = "destroy"}
    BY <1>1
  <1>5. QED BY <1>3, <1>4 DEF Doomed, Ending

\* What a frame on top adds to the objects being deleted and destroyed.
LEMMA OnTop ==
    ASSUME NEW st \in Seq(FrameSet), NEW f \in FrameSet
    PROVE  /\ Doomed(<<f>> \o st) =
                  IF f.pc = "return" THEN Doomed(st) ELSE Doomed(st) \cup {f.of}
           /\ Ending(<<f>> \o st) =
                  IF f.pc = "destroy" THEN Ending(st) \cup {f.of} ELSE Ending(st)
           /\ <<f>> \o st # <<>> /\ (<<f>> \o st)[1] = f
  <1> DEFINE t == <<f>> \o st
  <1>1. Len(st) \in Nat
    OBVIOUS
  <1>2. /\ Len(t) = Len(st) + 1
        /\ t[1] = f
        /\ \A i \in 2 .. Len(st) + 1 : t[i] = st[i - 1]
    BY Consed
  <1> HIDE DEF t
  <1>3. ASSUME NEW i \in 1 .. Len(t)
        PROVE  \/ i = 1 /\ t[i] = f
               \/ i # 1 /\ i - 1 \in 1 .. Len(st) /\ t[i] = st[i - 1]
    <2>1. i = 1 \/ (i \in 2 .. Len(st) + 1 /\ i - 1 \in 1 .. Len(st) /\ i # 1)
      BY <1>1, <1>2
    <2>2. QED BY <1>2, <2>1
  <1>4. ASSUME NEW j \in 1 .. Len(st)
        PROVE  j + 1 \in 1 .. Len(t) /\ t[j + 1] = st[j]
    <2>1. j + 1 \in 2 .. Len(st) + 1 /\ j + 1 \in 1 .. Len(t) /\ (j + 1) - 1 = j
      BY <1>1, <1>2
    <2>2. QED BY <1>2, <2>1
  <1>5. 1 \in 1 .. Len(t)
    BY <1>1, <1>2
  <1>6. Doomed(t) = IF f.pc = "return" THEN Doomed(st) ELSE Doomed(st) \cup {f.of}
    BY <1>2, <1>3, <1>4, <1>5 DEF Doomed
  <1>7. Ending(t) = IF f.pc = "destroy" THEN Ending(st) \cup {f.of} ELSE Ending(st)
    <2>1. Ending(t) \subseteq IF f.pc = "destroy" THEN Ending(st) \cup {f.of} ELSE Ending(st)
      BY <1>3 DEF Ending
    <2>2. Ending(st) \subseteq Ending(t)
      BY <1>4 DEF Ending
    <2>3. f.pc = "destroy" => f.of \in Ending(t)
      BY <1>2, <1>5 DEF Ending
    <2>4. QED BY <2>1, <2>2, <2>3
  <1>8. t # <<>>
    BY <1>1, <1>2
  <1>9. QED BY <1>2, <1>6, <1>7, <1>8 DEF t

\* Pushing a frame: the deletion or destruction of an object that is in no frame
\* yet, or the rest of an operation; upon a destructor, the deletion it calls for.
LEMMA Push ==
    ASSUME NEW st, NEW al, NEW h, NEW f \in FrameSet, Nested(st, al, h), f.of \in al,
           f.pc # "return" => f.of \notin Doomed(st),
           f.pc \in {"body", "spent"} => f.of \in Node,
           (f.pc # "return" /\ Expects(st, h, f.of)) \/ st = <<>> \/ st[1].pc # "destroy"
    PROVE  Nested(<<f>> \o st, al, h)
  <1> DEFINE t == <<f>> \o st
  <1>1. st \in Seq(FrameSet) /\ Len(st) \in Nat
    BY DEF Nested
  <1>2. /\ t \in Seq(FrameSet)
        /\ Len(t) = Len(st) + 1
        /\ t[1] = f
        /\ \A i \in 2 .. Len(st) + 1 : t[i] = st[i - 1]
    BY <1>1, Consed
  <1> HIDE DEF t
  <1>3. ASSUME NEW i \in 1 .. Len(t)
        PROVE  \/ i = 1 /\ t[i] = f
               \/ i # 1 /\ i - 1 \in 1 .. Len(st) /\ t[i] = st[i - 1]
    <2>1. i = 1 \/ (i \in 2 .. Len(st) + 1 /\ i - 1 \in 1 .. Len(st) /\ i # 1)
      BY <1>1, <1>2
    <2>2. QED BY <1>2, <2>1
  <1>4. ASSUME NEW i \in 1 .. Len(t)
         PROVE  /\ t[i].pc # "return" => t[i].of \in al
                /\ Stateful => t[i].of \in al
                /\ t[i].pc \in {"body", "spent"} => t[i].of \in Node
    <2>1. CASE t[i] = f
      BY <2>1
    <2>2. CASE i - 1 \in 1 .. Len(st) /\ t[i] = st[i - 1]
      <3> DEFINE k == i - 1
      <3>1. k \in 1 .. Len(st) /\ t[i] = st[k]
        BY <2>2
      <3> HIDE DEF k
      <3>2. QED BY <3>1 DEF Nested
    <2>3. QED BY <1>3, <2>1, <2>2
  <1>5. \A j \in 1 .. Len(st) :
             f.pc # "return" /\ st[j].pc # "return" => st[j].of # f.of
    BY DEF Doomed
  <1>6. ASSUME NEW i \in 1 .. Len(t), NEW j \in 1 .. Len(t),
                t[i].pc # "return", t[j].pc # "return", t[i].of = t[j].of
         PROVE  i = j
    <2>1. CASE i = 1 \/ j = 1
      BY <1>2, <1>3, <1>5, <1>6, <2>1
    <2>2. CASE i # 1 /\ j # 1
      <3>1. i - 1 \in 1 .. Len(st) /\ j - 1 \in 1 .. Len(st)
            /\ t[i] = st[i - 1] /\ t[j] = st[j - 1]
        BY <1>2, <1>3, <2>2
      <3>2. i - 1 = j - 1
        BY <1>6, <3>1 DEF Nested
      <3>3. QED BY <3>2
    <2>3. QED BY <2>1, <2>2
  <1>7. ASSUME NEW i \in 2 .. Len(t), t[i].pc = "destroy"
         PROVE  t[i - 1].pc # "return" /\ h[t[i].of] = t[i - 1].of
    <2>1. t[i] = st[i - 1] /\ i - 1 \in 1 .. Len(st)
      BY <1>1, <1>2
    <2>2. CASE i = 2
      <3>1. st # <<>> /\ st[1].pc = "destroy"
        BY <1>7, <2>1, <2>2
      <3>2. h[st[1].of] = f.of /\ f.pc # "return"
        BY <3>1 DEF Expects
      <3>3. i - 1 = 1
        BY <2>2
      <3>4. QED BY <1>2, <2>1, <3>2, <3>3
    <2>3. CASE i # 2
      <3>1. i - 1 \in 2 .. Len(st) /\ i - 1 \in 2 .. Len(st) + 1
        BY <1>1, <1>2, <2>3
      <3>2. t[i - 1] = st[(i - 1) - 1]
        BY <1>2, <3>1
      <3>3. st[(i - 1) - 1].pc # "return" /\ h[st[i - 1].of] = st[(i - 1) - 1].of
        BY <1>7, <2>1, <3>1 DEF Nested
      <3>4. QED BY <2>1, <3>2, <3>3
    <2>4. QED BY <2>2, <2>3
  <1>8. Nested(t, al, h)
    BY <1>2, <1>4, <1>6, <1>7 DEF Nested
  <1>9. QED BY <1>8 DEF t

\* The operation on top returns.
LEMMA Pop ==
    ASSUME NEW st, NEW al, NEW h, Nested(st, al, h), st # <<>>
    PROVE  /\ Nested(Tail(st), al, h)
           /\ Head(st) = st[1] /\ st[1] \in FrameSet
           /\ st[1].pc = "return" => /\ Doomed(Tail(st)) = Doomed(st)
                                     /\ Ending(Tail(st)) = Ending(st)
                                     /\ Tail(st) # <<>> => Tail(st)[1].pc # "destroy"
           /\ st[1].pc # "return" => /\ Doomed(st) = Doomed(Tail(st)) \cup {st[1].of}
                                     /\ st[1].of \notin Doomed(Tail(st))
                                     /\ st[1].of \in al
                                     /\ Expects(Tail(st), h, st[1].of)
           /\ st[1].pc = "destroy" => Ending(st) = Ending(Tail(st)) \cup {st[1].of}
           /\ st[1].pc \in {"body", "spent"} => /\ Ending(st) = Ending(Tail(st))
                                                /\ st[1].of \in Node
  <1> DEFINE t == Tail(st)
  <1>1. st \in Seq(FrameSet)
    BY DEF Nested
  <1>2. /\ Head(st) = st[1] /\ st[1] \in FrameSet /\ Len(st) \in Nat /\ Len(st) > 0
        /\ t \in Seq(FrameSet)
        /\ Len(t) = Len(st) - 1
        /\ \A i \in 1 .. Len(st) - 1 : t[i] = st[i + 1]
    BY <1>1, Tailed
  <1>3. st = <<st[1]>> \o t
    BY <1>1, <1>2
  <1>4. /\ Doomed(st) = IF st[1].pc = "return" THEN Doomed(t) ELSE Doomed(t) \cup {st[1].of}
        /\ Ending(st) = IF st[1].pc = "destroy" THEN Ending(t) \cup {st[1].of} ELSE Ending(t)
    <2> DEFINE f == st[1]
    <2>1. f \in FrameSet /\ st = <<f>> \o t
      BY <1>2, <1>3
    <2> HIDE DEF f, t
    <2>2. /\ Doomed(<<f>> \o t) = IF f.pc = "return" THEN Doomed(t) ELSE Doomed(t) \cup {f.of}
          /\ Ending(<<f>> \o t) = IF f.pc = "destroy" THEN Ending(t) \cup {f.of} ELSE Ending(t)
      BY <1>2, <2>1, OnTop
    <2>3. QED BY <2>1, <2>2, Zenon DEF f
  <1> HIDE DEF t
  <1>5. \A i \in 1 .. Len(t) : i + 1 \in 2 .. Len(st) /\ i + 1 \in 1 .. Len(st) /\ t[i] = st[i + 1]
    BY <1>2
  <1>6. 1 \in 1 .. Len(st)
    BY <1>2
  <1>7. Nested(t, al, h)
    <2>1. ASSUME NEW i \in 1 .. Len(t), NEW j \in 1 .. Len(t),
                 t[i].pc # "return", t[j].pc # "return", t[i].of = t[j].of
          PROVE  i = j
      <3>1. i + 1 \in 1 .. Len(st) /\ j + 1 \in 1 .. Len(st)
            /\ t[i] = st[i + 1] /\ t[j] = st[j + 1]
        BY <1>5
      <3>2. i + 1 = j + 1
        BY <2>1, <3>1 DEF Nested
      <3>3. QED BY <3>2
    <2>2. ASSUME NEW i \in 2 .. Len(t), t[i].pc = "destroy"
          PROVE  t[i - 1].pc # "return" /\ h[t[i].of] = t[i - 1].of
      <3>1. /\ i \in 1 .. Len(t) /\ i - 1 \in 1 .. Len(t)
            /\ (i - 1) + 1 = i /\ (i + 1) - 1 = i
        BY <1>2
      <3>2. t[i] = st[i + 1] /\ t[i - 1] = st[i] /\ i + 1 \in 2 .. Len(st)
        BY <1>5, <3>1
      <3>3. st[(i + 1) - 1].pc # "return" /\ h[st[i + 1].of] = st[(i + 1) - 1].of
        BY <2>2, <3>2 DEF Nested
      <3>4. QED BY <3>1, <3>2, <3>3
    <2>3. QED BY <1>2, <1>5, <2>1, <2>2 DEF Nested
  <1>8. st[1].pc # "return" => st[1].of \in al
    BY <1>6 DEF Nested
  <1>9. ASSUME st[1].pc # "return", st[1].of \in Doomed(t) PROVE FALSE
    <2>1. PICK i \in 1 .. Len(t) : t[i].pc # "return" /\ t[i].of = st[1].of
      BY <1>9 DEF Doomed
    <2>2. 1 = i + 1
      BY <1>5, <1>9, <1>6, <2>1 DEF Nested
    <2>3. QED BY <2>2
  <1>10. st[1].pc \in {"body", "spent"} => st[1].of \in Node
    BY <1>6 DEF Nested
  <1>11. ASSUME t # <<>>, t[1].pc = "destroy"
         PROVE  st[1].pc # "return" /\ h[t[1].of] = st[1].of
    <2>1. Len(t) # 0 /\ Len(t) \in Nat
      BY <1>2, <1>11
    <2>2. 2 \in 2 .. Len(st) /\ t[1] = st[2] /\ 2 - 1 = 1
      BY <1>2, <2>1
    <2>3. st[2 - 1].pc # "return" /\ h[st[2].of] = st[2 - 1].of
      BY <1>11, <2>2 DEF Nested
    <2>4. QED BY <2>2, <2>3
  <1>12. QED BY <1>2, <1>4, <1>7, <1>8, <1>9, <1>10, <1>11 DEF t, Expects

LEMMA Now ==
    ASSUME stack \in Seq(FrameSet)
    PROVE  Dying = Doomed(stack) /\ InDestructor = Ending(stack)
  BY StackSets DEF Dying, InDestructor, Frames

LEMMA Later ==
    ASSUME stack' \in Seq(FrameSet)
    PROVE  Dying' = Doomed(stack') /\ InDestructor' = Ending(stack')
  BY StackSets DEF Dying, InDestructor, Frames

\* The objects may change as long as the interrupted destructors' do not.
LEMMA Regard ==
    ASSUME NEW st, NEW al, NEW h, NEW al2, NEW h2, Nested(st, al, h),
           \A x \in Doomed(st) : x \in al2,
           Stateful => \A i \in 1 .. Len(st) : st[i].of \in al2,
           \A x \in Ending(st) : h2[x] = h[x]
    PROVE  Nested(st, al2, h2)
  <1>1. \A i \in 1 .. Len(st) : st[i].pc # "return" => st[i].of \in al2
    BY DEF Doomed
  <1>2. st \in Seq(FrameSet) /\ Len(st) \in Nat
    BY DEF Nested
  <1>3. ASSUME NEW i \in 2 .. Len(st), st[i].pc = "destroy"
        PROVE  st[i - 1].pc # "return" /\ h2[st[i].of] = st[i - 1].of
    <2>1. i \in 1 .. Len(st)
      BY <1>2
    <2>2. st[i].of \in Ending(st)
      BY <1>3, <2>1 DEF Ending
    <2>3. st[i - 1].pc # "return" /\ h[st[i].of] = st[i - 1].of
      BY <1>3 DEF Nested
    <2>4. QED BY <2>2, <2>3
  <1>4. QED BY <1>1, <1>3 DEF Nested

\* What an interrupted destructor is about is being deleted itself.
LEMMA BeneathCall ==
    ASSUME NEW st, NEW al, NEW h, Nested(st, al, h),
           st # <<>> => st[1].pc # "destroy"
    PROVE  \A x \in Ending(st) : h[x] \in Doomed(st)
  <1> SUFFICES ASSUME NEW x \in Ending(st) PROVE h[x] \in Doomed(st)
    OBVIOUS
  <1>1. PICK i \in 1 .. Len(st) : st[i].pc = "destroy" /\ st[i].of = x
    BY DEF Ending
  <1>2. st \in Seq(FrameSet) /\ Len(st) \in Nat
    BY DEF Nested
  <1>3. i # 1
    BY <1>1, <1>2
  <1>4. i \in 2 .. Len(st) /\ i - 1 \in 1 .. Len(st)
    BY <1>2, <1>3
  <1>5. st[i - 1].pc # "return" /\ h[st[i].of] = st[i - 1].of
    BY <1>1, <1>4 DEF Nested
  <1>6. QED BY <1>1, <1>4, <1>5 DEF Doomed

LEMMA EndingIsDoomed ==
    ASSUME NEW st
    PROVE  Ending(st) \subseteq Doomed(st)
  BY DEF Ending, Doomed

LEMMA DoomedExist ==
    ASSUME NEW st, NEW al, NEW h, Nested(st, al, h)
    PROVE  Doomed(st) \subseteq al
  BY DEF Nested, Doomed

Deletion(old, after) == (IF old = null THEN <<>> ELSE <<Frame("body", old)>>) \o after

LEMMA Disposed ==
    ASSUME NEW after, NEW al, NEW h, NEW old \in Node \cup {null},
           Nested(after, al, h), al \subseteq Obj,
           old # null => old \in al \ Doomed(after),
           Expects(after, h, old)
    PROVE  /\ Nested(Deletion(old, after), al, h)
           /\ Done(Deletion(old, after), al, h)
           /\ Doomed(Deletion(old, after)) = Doomed(after) \cup ({old} \ {null})
           /\ Ending(Deletion(old, after)) = Ending(after)
  <1>1. CASE old = null
    <2>1. <<>> \o after = after
      BY DEF Nested
    <2>2. Deletion(old, after) = after
      BY <1>1, <2>1 DEF Deletion
    <2>3. Done(after, al, h)
      BY <1>1, NestedAssumption DEF Expects, Done
    <2>4. QED BY <1>1, <2>2, <2>3
  <1>2. CASE old # null
    <2> DEFINE f == Frame("body", old)
               t == <<f>> \o after
    <2>1. Deletion(old, after) = t
      BY <1>2 DEF Deletion
    <2>2. f \in FrameSet /\ f.pc = "body" /\ f.of = old /\ old \in Node
      BY <1>2 DEF Frame, FrameSet, Obj
    <2> HIDE DEF f
    <2>3. /\ Nested(t, al, h)
          /\ Doomed(t) = Doomed(after) \cup {old}
          /\ Ending(t) = Ending(after)
          /\ t[1] = f
      <3>1. /\ f.pc # "return" /\ f.of \in al /\ f.of \notin Doomed(after) /\ f.of \in Node
            /\ Expects(after, h, f.of)
        BY <1>2, <2>2
      <3>2. Nested(t, al, h)
        BY <2>2, <3>1, Push
      <3>3. after \in Seq(FrameSet)
        BY DEF Nested
      <3>4. QED BY <2>2, <3>2, <3>3, OnTop
    <2> HIDE DEF t
    <2>4. Done(t, al, h)
      BY <2>2, <2>3 DEF Done
    <2>5. QED BY <1>2, <2>1, <2>3, <2>4
  <1>3. QED BY <1>1, <1>2

------------------------------------------------------------------------------
(* Objects.                                                                  *)

LEMMA HeldNew ==
    ASSUME NEW al, NEW h, NEW rw, NEW D, NEW E, Held(al, h, rw, D, E),
           D \subseteq al, \A x \in E : h[x] \in D, NEW n \in Node, n \notin al
    PROVE  Held(al \cup {n}, h, rw \cup {n}, D, E)
  <1> USE NestedAssumption DEF Held, Obj
  <1>1. h[n] = null
    OBVIOUS
  <1>2. \A x \in al : h[x] # n
    OBVIOUS
  <1>3. QED BY <1>1, <1>2

LEMMA HeldConstruct ==
    ASSUME NEW al, NEW h, NEW rw, NEW D, NEW E, Held(al, h, rw, D, E),
           NEW v \in Var, v \notin al, D \subseteq al, E \subseteq al,
           NEW g \in rw \cup {null}
    PROVE  Held(al \cup {v}, [h EXCEPT ![v] = g], rw \ {g}, D, E)
  BY NestedAssumption DEF Held, Obj

LEMMA HeldMoveConstruct ==
    ASSUME NEW al, NEW h, NEW rw, NEW D, NEW E, Held(al, h, rw, D, E),
           NEW v \in Var, v \notin al, D \subseteq al, E \subseteq al,
           NEW y \in al \ E
    PROVE  Held(al \cup {v}, [h EXCEPT ![v] = h[y], ![y] = null], rw, D, E)
  BY NestedAssumption DEF Held, Obj

LEMMA HeldReset ==
    ASSUME NEW al, NEW h, NEW rw, NEW D, NEW E, Held(al, h, rw, D, E),
           NEW x \in al \ E, NEW g \in rw \cup {null}
    PROVE  Held(al, [h EXCEPT ![x] = g], rw \ {g}, D \cup ({h[x]} \ {null}), E)
  BY NestedAssumption DEF Held, Obj

LEMMA HeldRelease ==
    ASSUME NEW al, NEW h, NEW rw, NEW D, NEW E, Held(al, h, rw, D, E),
           NEW x \in al \ E
    PROVE  Held(al, [h EXCEPT ![x] = null], rw \cup ({h[x]} \ {null}), D, E)
  BY NestedAssumption DEF Held, Obj

LEMMA HeldMoveAssign ==
    ASSUME NEW al, NEW h, NEW rw, NEW D, NEW E, Held(al, h, rw, D, E),
           NEW x \in al \ E, NEW y \in al \ E, x # y
    PROVE  Held(al, [h EXCEPT ![x] = h[y], ![y] = null], rw,
                D \cup ({h[x]} \ {null}), E)
  BY NestedAssumption DEF Held, Obj

LEMMA HeldSwap ==
    ASSUME NEW al, NEW h, NEW rw, NEW D, NEW E, Held(al, h, rw, D, E),
           NEW x \in al \ E, NEW y \in al \ E, x # y
    PROVE  Held(al, [h EXCEPT ![x] = h[y], ![y] = h[x]], rw, D, E)
  BY NestedAssumption DEF Held, Obj

LEMMA HeldDelete ==
    ASSUME NEW al, NEW h, NEW rw, NEW D, NEW E, Held(al, h, rw, D, E), NEW n \in rw
    PROVE  Held(al, h, rw \ {n}, D \cup {n}, E)
  BY NestedAssumption DEF Held, Obj

\* A destructor begins, of a variable or of the member of a dying node.
LEMMA HeldDestroy ==
    ASSUME NEW al, NEW h, NEW rw, NEW D, NEW E, Held(al, h, rw, D, E),
           NEW x \in al \ E, x \in Var \cup D
    PROVE  Held(al, h, rw, D \cup {x} \cup ({h[x]} \ {null}), E \cup {x})
  BY NestedAssumption DEF Held, Obj

LEMMA HeldEndDestroy ==
    ASSUME NEW al, NEW h, NEW rw, NEW D, NEW E, NEW x \in Obj, x \notin D, x \notin E,
           Held(al, h, rw, D \cup {x}, E \cup {x}), h[x] \notin al
    PROVE  Held(al \ {x}, [h EXCEPT ![x] = null], rw, D, E)
  BY NestedAssumption DEF Held, Obj

------------------------------------------------------------------------------
(* Calls.                                                                    *)

LEMMA Calling ==
    ASSUME IInv, UserRuns
    PROVE  /\ Nested(Caller, alive, hnd)
           /\ Doomed(Caller) = Dying
           /\ Ending(Caller) = InDestructor
           /\ Caller = <<>> \/ Caller[1].pc # "destroy"
           /\ Dying \subseteq alive
           /\ InDestructor \subseteq alive
           /\ \A x \in InDestructor : hnd[x] \in Dying
  <1>1. Nested(stack, alive, hnd) /\ stack \in Seq(FrameSet)
    BY DEF IInv, Nested
  <1>2. Dying = Doomed(stack) /\ InDestructor = Ending(stack)
    BY <1>1, Now
  <1>3. stack # <<>> => Head(stack) = stack[1] /\ stack[1].pc = "body"
    BY <1>1, Pop DEF UserRuns
  <1>4. Dying \subseteq alive
    BY <1>1, <1>2, DoomedExist
  <1>5. InDestructor \subseteq alive
    BY <1>2, <1>4, EndingIsDoomed
  <1>6. \A x \in InDestructor : hnd[x] \in Dying
    BY <1>1, <1>2, <1>3, BeneathCall
  <1>7. CASE Caller = stack
    BY <1>1, <1>2, <1>3, <1>4, <1>5, <1>6, <1>7
  <1>8. CASE Caller # stack
    <2> DEFINE f == Frame("spent", Head(stack).of)
               st == Tail(stack)
    <2>1. stack # <<>> /\ Caller = <<f>> \o st
      BY <1>8 DEF Caller
    <2>2. /\ Nested(st, alive, hnd)
          /\ Doomed(stack) = Doomed(st) \cup {stack[1].of}
          /\ stack[1].of \notin Doomed(st) /\ stack[1].of \in alive
          /\ Expects(st, hnd, stack[1].of)
          /\ Ending(stack) = Ending(st)
          /\ stack[1].of \in Node
      BY <1>1, <1>3, <2>1, Pop
    <2>3. f \in FrameSet /\ f.pc = "spent" /\ f.of = stack[1].of
      BY <1>3, <2>1, <2>2 DEF Frame, FrameSet, Obj
    <2> HIDE DEF f, st
    <2>4. /\ f.of \notin Doomed(st) /\ f.of \in alive /\ f.of \in Node
          /\ f.pc # "return" /\ Expects(st, hnd, f.of)
      BY <2>2, <2>3
    <2>5. Nested(<<f>> \o st, alive, hnd)
      BY <2>2, <2>3, <2>4, Push
    <2>6. st \in Seq(FrameSet)
      BY <2>2 DEF Nested
    <2>7. /\ Doomed(<<f>> \o st) = Doomed(stack)
          /\ Ending(<<f>> \o st) = Ending(stack)
          /\ (<<f>> \o st)[1] = f
      BY <2>2, <2>3, <2>6, OnTop
    <2>8. QED BY <1>2, <1>4, <1>5, <1>6, <2>1, <2>3, <2>5, <2>7
  <1>9. QED BY <1>7, <1>8

\* An operation that calls no deleter.
LEMMA NoCallKeeps ==
    ASSUME IInv, UserRuns, NoCall, alive \subseteq alive',
           \A x \in InDestructor : hnd'[x] = hnd[x],
           Held(alive', hnd', raw', Dying, InDestructor), Outlive'
    PROVE  IInv'
  <1>1. /\ Nested(Caller, alive, hnd)
        /\ Doomed(Caller) = Dying
        /\ Ending(Caller) = InDestructor
        /\ Caller = <<>> \/ Caller[1].pc # "destroy"
        /\ Dying \subseteq alive
    BY Calling
  <1>2. stack' = Caller /\ fault' = fault
    BY DEF NoCall
  <1>3. Stateful => \A i \in 1 .. Len(Caller) : Caller[i].of \in alive'
    BY <1>1 DEF Nested
  <1>4. Nested(Caller, alive', hnd')
    BY <1>1, <1>3, Regard
  <1>5. Caller \in Seq(FrameSet)
    BY <1>1 DEF Nested
  <1>6. Dying' = Dying /\ InDestructor' = InDestructor
    BY <1>1, <1>2, <1>5, Later
  <1>7. Done(stack', alive', hnd')
    BY <1>1, <1>2 DEF Done
  <1>8. QED BY <1>2, <1>4, <1>6, <1>7 DEF IInv

\* An operation, or the end of a body, that calls the deleter on old if owned.
LEMMA DisposeKeeps ==
    ASSUME NEW after, NEW old \in Node \cup {null}, Dispose(old, after),
           Nested(after, alive, hnd'), alive \subseteq Obj, alive' = alive,
           old # null => old \in alive \ Doomed(after) /\ old \notin Dying,
           Expects(after, hnd', old),
           Held(alive, hnd', raw', Doomed(after) \cup ({old} \ {null}), Ending(after)),
           Outlive'
    PROVE  IInv'
  <1>1. stack' = Deletion(old, after)
    BY DEF Dispose, Deletion
  <1>2. fault' = FALSE
    BY DEF Dispose
  <1>3. /\ Nested(stack', alive', hnd')
        /\ Done(stack', alive', hnd')
        /\ Doomed(stack') = Doomed(after) \cup ({old} \ {null})
        /\ Ending(stack') = Ending(after)
    BY <1>1, Disposed
  <1>4. stack' \in Seq(FrameSet)
    BY <1>3 DEF Nested
  <1>5. Held(alive', hnd', raw', Dying', InDestructor')
    BY <1>3, <1>4, Later
  <1>6. QED BY <1>2, <1>3, <1>5 DEF IInv

LEMMA Returning ==
    ASSUME NEW st, NEW al, NEW h, NEW x \in Obj, Nested(st, al, h), x \in al,
           st = <<>> \/ st[1].pc # "destroy"
    PROVE  /\ Nested(<<Frame("return", x)>> \o st, al, h)
           /\ Doomed(<<Frame("return", x)>> \o st) = Doomed(st)
           /\ Ending(<<Frame("return", x)>> \o st) = Ending(st)
           /\ (<<Frame("return", x)>> \o st)[1].pc = "return"
  <1> DEFINE f == Frame("return", x)
  <1>1. f \in FrameSet /\ f.pc = "return" /\ f.of = x
    BY DEF Frame, FrameSet
  <1>2. st \in Seq(FrameSet)
    BY DEF Nested
  <1> HIDE DEF f
  <1>3. f.of \in al /\ f.pc \notin {"body", "spent"}
    BY <1>1
  <1>4. Nested(<<f>> \o st, al, h)
    BY <1>1, <1>3, Push
  <1>5. /\ Doomed(<<f>> \o st) = Doomed(st)
        /\ Ending(<<f>> \o st) = Ending(st)
        /\ (<<f>> \o st)[1].pc = "return"
    BY <1>1, <1>2, OnTop
  <1>6. QED BY <1>4, <1>5 DEF f

LEMMA Destroying ==
    ASSUME NEW st, NEW al, NEW h, NEW x \in Obj, Nested(st, al, h), x \in al,
           x \notin Doomed(st), Expects(st, h, x)
    PROVE  /\ Nested(<<Frame("destroy", x)>> \o st, al, h)
           /\ Doomed(<<Frame("destroy", x)>> \o st) = Doomed(st) \cup {x}
           /\ Ending(<<Frame("destroy", x)>> \o st) = Ending(st) \cup {x}
           /\ Expects(<<Frame("destroy", x)>> \o st, h, h[x])
  <1> DEFINE f == Frame("destroy", x)
  <1>1. f \in FrameSet /\ f.pc = "destroy" /\ f.of = x
    BY DEF Frame, FrameSet
  <1>2. st \in Seq(FrameSet)
    BY DEF Nested
  <1> HIDE DEF f
  <1>3. f.of \in al /\ f.pc \notin {"body", "spent"} /\ f.pc # "return"
        /\ f.of \notin Doomed(st) /\ Expects(st, h, f.of)
    BY <1>1
  <1>4. Nested(<<f>> \o st, al, h)
    BY <1>1, <1>3, Push
  <1>5. /\ Doomed(<<f>> \o st) = Doomed(st) \cup {x}
        /\ Ending(<<f>> \o st) = Ending(st) \cup {x}
        /\ (<<f>> \o st)[1] = f
    BY <1>1, <1>2, OnTop
  <1>6. Expects(<<f>> \o st, h, h[x])
    BY <1>1, <1>5 DEF Expects
  <1>7. QED BY <1>4, <1>5, <1>6 DEF f

LEMMA CallerAfter ==
    ASSUME IInv, UserRuns, \A x \in InDestructor : hnd'[x] = hnd[x]
    PROVE  Nested(Caller, alive, hnd')
  <1>1. /\ Nested(Caller, alive, hnd)
        /\ Doomed(Caller) \subseteq alive
        /\ Ending(Caller) = InDestructor
    BY Calling
  <1>2. Stateful => \A i \in 1 .. Len(Caller) : Caller[i].of \in alive
    BY <1>1 DEF Nested
  <1>3. QED BY <1>1, <1>2, Regard

LEMMA NewKeeps ==
    ASSUME IInv, UserRuns, NEW n \in Node, New(n), Outlive'
    PROVE  IInv'
  <1>1. Held(alive \cup {n}, hnd, raw \cup {n}, Dying, InDestructor)
    BY Calling, HeldNew DEF IInv, New
  <1>2. QED BY <1>1, NoCallKeeps DEF New

LEMMA ConstructKeeps ==
    ASSUME IInv, UserRuns, NEW v \in Var, NEW g \in raw \cup {null}, Construct(v, g),
           Outlive'
    PROVE  IInv'
  <1>1. Held(alive \cup {v}, [hnd EXCEPT ![v] = g], raw \ {g}, Dying, InDestructor)
    BY Calling, HeldConstruct DEF IInv, Construct
  <1>2. \A x \in InDestructor : hnd'[x] = hnd[x]
    BY Calling DEF IInv, Held, Construct
  <1>3. QED BY <1>1, <1>2, NoCallKeeps DEF Construct

LEMMA MoveConstructKeeps ==
    ASSUME IInv, UserRuns, NEW v \in Var, NEW y \in Obj, MoveConstruct(v, y), Outlive'
    PROVE  IInv'
  <1>1. y \in alive \ InDestructor
    BY DEF MoveConstruct, Usable
  <1>2. Held(alive \cup {v}, [hnd EXCEPT ![v] = hnd[y], ![y] = null], raw,
             Dying, InDestructor)
    BY <1>1, Calling, HeldMoveConstruct DEF IInv, MoveConstruct
  <1>3. \A x \in InDestructor : hnd'[x] = hnd[x]
    BY <1>1, Calling DEF IInv, Held, MoveConstruct
  <1>4. QED BY <1>2, <1>3, NoCallKeeps DEF MoveConstruct

LEMMA ReleaseKeeps ==
    ASSUME IInv, UserRuns, NEW x \in Obj, Release(x), Outlive'
    PROVE  IInv'
  <1>1. x \in alive \ InDestructor
    BY DEF Release, Usable
  <1>2. Held(alive, [hnd EXCEPT ![x] = null], raw \cup ({hnd[x]} \ {null}),
             Dying, InDestructor)
    BY <1>1, HeldRelease DEF IInv
  <1>3. \A z \in InDestructor : hnd'[z] = hnd[z]
    BY <1>1, Calling DEF IInv, Held, Release
  <1>4. QED BY <1>2, <1>3, NoCallKeeps DEF Release

LEMMA SwapKeeps ==
    ASSUME IInv, UserRuns, NEW x \in Obj, NEW y \in Obj, Swap(x, y), Outlive'
    PROVE  IInv'
  <1>1. x # y /\ x \in alive \ InDestructor /\ y \in alive \ InDestructor
    BY DEF Swap, Usable
  <1>2. Held(alive, [hnd EXCEPT ![x] = hnd[y], ![y] = hnd[x]], raw, Dying, InDestructor)
    BY <1>1, HeldSwap DEF IInv
  <1>3. \A z \in InDestructor : hnd'[z] = hnd[z]
    BY <1>1, Calling DEF IInv, Held, Swap
  <1>4. QED BY <1>2, <1>3, NoCallKeeps DEF Swap

LEMMA DeleteKeeps ==
    ASSUME IInv, UserRuns, NEW n \in Node, Delete(n), Outlive'
    PROVE  IInv'
  <1>1. n \in raw /\ n \in alive \ Dying /\ n # null /\ alive \subseteq Obj
    BY NestedAssumption DEF Delete, IInv, Held, Obj
  <1>2. Held(alive, hnd, raw \ {n}, Dying \cup {n}, InDestructor)
    BY <1>1, HeldDelete DEF IInv
  <1>3. Dispose(n, Caller) /\ alive' = alive /\ hnd' = hnd /\ raw' = raw \ {n}
    BY DEF Delete
  <1>4. /\ Nested(Caller, alive, hnd')
        /\ Doomed(Caller) = Dying
        /\ Ending(Caller) = InDestructor
        /\ Expects(Caller, hnd', n)
    BY <1>3, Calling DEF Expects
  <1>5. Held(alive, hnd', raw', Doomed(Caller) \cup ({n} \ {null}), Ending(Caller))
    BY <1>1, <1>2, <1>3, <1>4
  <1>6. QED BY <1>1, <1>3, <1>4, <1>5, DisposeKeeps

LEMMA ResetKeeps ==
    ASSUME IInv, UserRuns, NEW x \in Obj, NEW g \in raw \cup {null}, Reset(x, g), Outlive'
    PROVE  IInv'
  <1>1. x \in alive \ InDestructor /\ alive \subseteq Obj
    BY DEF Reset, Usable, IInv, Held
  <1>2. /\ Dispose(hnd[x], Caller) /\ alive' = alive
        /\ hnd' = [hnd EXCEPT ![x] = g] /\ raw' = raw \ {g}
    BY DEF Reset
  <1>3. Held(alive, hnd', raw', Dying \cup ({hnd[x]} \ {null}), InDestructor)
    BY <1>1, <1>2, HeldReset DEF IInv
  <1>4. hnd[x] \in Node \cup {null} /\ hnd[x] \in {null} \cup (alive \ Dying)
    BY <1>1 DEF IInv, Held
  <1>5. Nested(Caller, alive, hnd')
    <2>1. \A z \in InDestructor : hnd'[z] = hnd[z]
      BY <1>1, <1>2, Calling DEF IInv, Held
    <2>2. QED BY <2>1, CallerAfter
  <1>6. /\ Doomed(Caller) = Dying
        /\ Ending(Caller) = InDestructor
        /\ Expects(Caller, hnd', hnd[x])
    BY Calling DEF Expects
  <1>7. QED BY <1>1, <1>2, <1>3, <1>4, <1>5, <1>6, DisposeKeeps

LEMMA MoveAssignKeeps ==
    ASSUME IInv, UserRuns, NEW x \in Obj, NEW y \in Obj, MoveAssign(x, y), Outlive'
    PROVE  IInv'
  <1> DEFINE inner == <<Frame("return", x)>> \o Caller
             after == <<Frame("return", y)>> \o inner
  <1>1. /\ x # y /\ x \in alive \ InDestructor /\ y \in alive \ InDestructor
        /\ alive \subseteq Obj
    BY DEF MoveAssign, Usable, IInv, Held
  <1>2. hnd' = [hnd EXCEPT ![x] = hnd[y], ![y] = null] /\ raw' = raw /\ alive' = alive
    BY DEF MoveAssign
  <1>3. Held(alive, hnd', raw', Dying \cup ({hnd[x]} \ {null}), InDestructor)
    BY <1>1, <1>2, HeldMoveAssign DEF IInv
  <1>4. hnd[x] \in Node \cup {null} /\ hnd[x] \in {null} \cup (alive \ Dying)
    BY <1>1 DEF IInv, Held
  <1>5. Nested(Caller, alive, hnd')
    <2>1. \A z \in InDestructor : hnd'[z] = hnd[z]
      BY <1>1, <1>2, Calling DEF IInv, Held
    <2>2. QED BY <2>1, CallerAfter
  <1>6. /\ Nested(inner, alive, hnd')
        /\ Doomed(inner) = Dying
        /\ Ending(inner) = InDestructor
        /\ inner[1].pc = "return"
    BY <1>1, <1>5, Calling, Returning
  <1>7. Dispose(hnd[x], after)
    <2>1. Caller \in Seq(FrameSet) /\ Frame("return", x) \in FrameSet
          /\ Frame("return", y) \in FrameSet
      BY <1>5 DEF Nested, Frame, FrameSet
    <2>2. <<Frame("return", y), Frame("return", x)>> \o Caller = after
      BY <2>1
    <2>3. QED BY <2>2 DEF MoveAssign
  <1> HIDE DEF inner
  <1>8. /\ Nested(after, alive, hnd')
        /\ Doomed(after) = Dying
        /\ Ending(after) = InDestructor
        /\ after[1].pc = "return"
    BY <1>1, <1>6, Returning
  <1> HIDE DEF after
  <1>9. Expects(after, hnd', hnd[x])
    BY <1>8 DEF Expects
  <1>10. QED BY <1>1, <1>2, <1>3, <1>4, <1>7, <1>8, <1>9, DisposeKeeps

\* What is being done to a variable is its destruction.
LEMMA VarDoomedOnce ==
    ASSUME IInv, NEW v \in Var, v \notin InDestructor
    PROVE  v \notin Dying
  <1>1. Nested(stack, alive, hnd) /\ stack \in Seq(FrameSet)
    BY DEF IInv, Nested
  <1>2. ASSUME v \in Doomed(stack) PROVE v \in Ending(stack)
    <2>1. PICK i \in 1 .. Len(stack) : stack[i].pc # "return" /\ stack[i].of = v
      BY <1>2 DEF Doomed
    <2>2. stack[i].pc \notin {"body", "spent"}
      BY <1>1, <2>1, NestedAssumption DEF Nested
    <2>3. stack[i] \in FrameSet
      BY <1>1
    <2>4. stack[i].pc = "destroy"
      BY <2>1, <2>2, <2>3 DEF FrameSet
    <2>5. QED BY <2>1, <2>4 DEF Ending
  <1>3. QED BY <1>1, <1>2, Now

LEMMA DestroyKeeps ==
    ASSUME IInv, UserRuns, NEW v \in Obj, Destroy(v), Outlive'
    PROVE  IInv'
  <1> DEFINE after == <<Frame("destroy", v)>> \o Caller
  <1>1. v \in Var /\ v \in alive \ InDestructor /\ alive \subseteq Obj
    BY DEF Destroy, Usable, IInv, Held
  <1>2. Dispose(hnd[v], after) /\ alive' = alive /\ hnd' = hnd /\ raw' = raw
    BY DEF Destroy
  <1>3. Held(alive, hnd, raw, Dying \cup {v} \cup ({hnd[v]} \ {null}),
             InDestructor \cup {v})
    BY <1>1, HeldDestroy DEF IInv
  <1>4. hnd[v] \in Node \cup {null} /\ hnd[v] \in {null} \cup (alive \ Dying)
    BY <1>1 DEF IInv, Held
  <1>5. Nested(Caller, alive, hnd) /\ Expects(Caller, hnd, v)
    BY Calling DEF Expects
  <1>6. v \notin Dying
    BY <1>1, VarDoomedOnce
  <1>7. /\ Nested(after, alive, hnd)
        /\ Doomed(after) = Dying \cup {v}
        /\ Ending(after) = InDestructor \cup {v}
        /\ Expects(after, hnd, hnd[v])
    BY <1>1, <1>5, <1>6, Calling, Destroying
  <1> HIDE DEF after
  <1>8. Held(alive, hnd', raw', Doomed(after) \cup ({hnd[v]} \ {null}), Ending(after))
    BY <1>2, <1>3, <1>7
  <1>9. hnd[v] # null => hnd[v] \in alive \ Doomed(after) /\ hnd[v] \notin Dying
    BY <1>1, <1>4, <1>7, NestedAssumption
  <1>10. QED BY <1>1, <1>2, <1>4, <1>7, <1>8, <1>9, DisposeKeeps

------------------------------------------------------------------------------
(* Returns.                                                                  *)

Above(st, i) == {st[j].of : j \in {k \in 1 .. i - 1 : st[k].pc # "return"}}

Spared(st, h, i) ==
    \E T \in SUBSET Node :
        /\ Above(st, i) \cap Node \subseteq T
        /\ \A n \in T : h[n] \in T \cup {null}
        /\ st[i].of \notin Above(st, i) \cup T

Outlives(st, h) ==
    \A i \in 1 .. Len(st) : st[i].pc = "return" => Spared(st, h, i)

LEMMA Outliving ==
    ASSUME stack \in Seq(FrameSet)
    PROVE  OperandsOutlive <=> Outlives(stack, hnd)
  <1>1. DOMAIN stack = 1 .. Len(stack)
    OBVIOUS
  <1>2. QED BY <1>1 DEF OperandsOutlive, Outlives, Spares, Spared, Above

LEMMA OutlivingLater ==
    ASSUME stack' \in Seq(FrameSet)
    PROVE  OperandsOutlive' <=> Outlives(stack', hnd')
  <1>1. DOMAIN stack' = 1 .. Len(stack')
    OBVIOUS
  <1>2. QED BY <1>1 DEF OperandsOutlive, Outlives, Spares, Spared, Above

\* Storing fewer nodes, and destroying fewer objects, spares the operands.
LEMMA SparedBeneath ==
    ASSUME NEW st \in Seq(FrameSet), st # <<>>, NEW h, NEW h2, Outlives(st, h),
           \A n \in Node : h2[n] \in {h[n], null}
    PROVE  Outlives(Tail(st), h2)
  <1> DEFINE t == Tail(st)
  <1>1. /\ Len(st) \in Nat /\ Len(st) > 0
        /\ Len(t) = Len(st) - 1
        /\ \A i \in 1 .. Len(st) - 1 : t[i] = st[i + 1]
    BY Tailed
  <1> HIDE DEF t
  <1>2. ASSUME NEW i \in 1 .. Len(t), t[i].pc = "return"
        PROVE  Spared(t, h2, i)
    <2>1. i + 1 \in 1 .. Len(st) /\ t[i] = st[i + 1] /\ i \in Nat
      BY <1>1
    <2>2. PICK T \in SUBSET Node :
              /\ Above(st, i + 1) \cap Node \subseteq T
              /\ \A n \in T : h[n] \in T \cup {null}
              /\ st[i + 1].of \notin Above(st, i + 1) \cup T
      BY <1>2, <2>1 DEF Outlives, Spared
    <2>3. Above(t, i) \subseteq Above(st, i + 1)
      <3> SUFFICES ASSUME NEW k \in 1 .. i - 1, t[k].pc # "return"
                   PROVE  t[k].of \in Above(st, i + 1)
        BY DEF Above
      <3>1. k \in 1 .. Len(st) - 1 /\ k + 1 \in 1 .. (i + 1) - 1
        BY <1>1, <2>1
      <3>2. t[k] = st[k + 1]
        BY <1>1, <3>1
      <3>3. QED BY <3>1, <3>2 DEF Above
    <2>4. \A n \in T : h2[n] \in T \cup {null}
      BY <2>2
    <2>5. QED BY <2>1, <2>2, <2>3, <2>4 DEF Spared
  <1>3. QED BY <1>2 DEF Outlives, t

\* The member of a dying node dies with it.
LEMMA SparedByMember ==
    ASSUME NEW st \in Seq(FrameSet), st # <<>>, NEW h, Outlives(st, h),
           st[1].pc \in {"body", "spent"}, NEW f \in FrameSet, f.pc = "destroy",
           f.of = st[1].of
    PROVE  Outlives(<<f>> \o Tail(st), h)
  <1> DEFINE t == <<f>> \o Tail(st)
  <1>1. /\ Len(st) \in Nat /\ Len(st) > 0 /\ Len(t) = Len(st)
        /\ t[1] = f
        /\ \A i \in 2 .. Len(st) : t[i] = st[i]
    OBVIOUS
  <1> HIDE DEF t
  <1>2. ASSUME NEW i \in 1 .. Len(t), t[i].pc = "return"
        PROVE  Spared(t, h, i)
    <2>1. i \in 2 .. Len(st) /\ t[i] = st[i] /\ i \in 1 .. Len(st)
      BY <1>1, <1>2
    <2>2. \A k \in 1 .. i - 1 : t[k].of = st[k].of
                                /\ (t[k].pc # "return" <=> st[k].pc # "return")
      <3> SUFFICES ASSUME NEW k \in 1 .. i - 1
                   PROVE  t[k].of = st[k].of /\ (t[k].pc # "return" <=> st[k].pc # "return")
        OBVIOUS
      <3>1. CASE k = 1
        BY <1>1, <3>1
      <3>2. CASE k # 1
        <4>1. k \in 2 .. Len(st)
          BY <1>1, <2>1, <3>2
        <4>2. QED BY <1>1, <4>1
      <3>3. QED BY <3>1, <3>2
    <2>3. Above(t, i) = Above(st, i)
      BY <2>2 DEF Above
    <2>4. QED BY <1>2, <2>1, <2>3 DEF Outlives, Spared
  <1>3. QED BY <1>2 DEF Outlives, t

\* So does the node the member stores.
LEMMA SparedByNode ==
    ASSUME NEW st \in Seq(FrameSet), st # <<>>, NEW h, Outlives(st, h),
           st[1].pc = "destroy", st[1].of \in Node, h[st[1].of] \in Node,
           h[st[1].of] # null,
           NEW f \in FrameSet, f.pc = "body", f.of = h[st[1].of]
    PROVE  Outlives(<<f>> \o st, h)
  <1> DEFINE t == <<f>> \o st
  <1>1. /\ Len(st) \in Nat /\ Len(st) > 0 /\ Len(t) = Len(st) + 1
        /\ t[1] = f
        /\ \A i \in 2 .. Len(st) + 1 : t[i] = st[i - 1]
    BY Consed
  <1> HIDE DEF t
  <1>2. ASSUME NEW i \in 1 .. Len(t), t[i].pc = "return"
        PROVE  Spared(t, h, i)
    <2>1. i \in 2 .. Len(st) + 1 /\ t[i] = st[i - 1] /\ i - 1 \in 1 .. Len(st)
      BY <1>1, <1>2
    <2>2. i - 1 # 1
      BY <1>2, <2>1
    <2>3. PICK T \in SUBSET Node :
              /\ Above(st, i - 1) \cap Node \subseteq T
              /\ \A n \in T : h[n] \in T \cup {null}
              /\ st[i - 1].of \notin Above(st, i - 1) \cup T
      BY <1>2, <2>1 DEF Outlives, Spared
    <2>4. st[1].of \in Above(st, i - 1)
      <3>1. 1 \in 1 .. (i - 1) - 1 /\ st[1].pc # "return"
        BY <2>1, <2>2
      <3>2. QED BY <3>1 DEF Above
    <2>5. f.of \in T
      BY <2>3, <2>4
    <2>6. Above(t, i) \subseteq Above(st, i - 1) \cup {f.of}
      <3> SUFFICES ASSUME NEW k \in 1 .. i - 1, t[k].pc # "return", k # 1
                   PROVE  t[k].of \in Above(st, i - 1)
        BY <1>1 DEF Above
      <3>1. k \in 2 .. Len(st) + 1 /\ k - 1 \in 1 .. (i - 1) - 1
        BY <1>1, <2>1
      <3>2. t[k] = st[k - 1]
        BY <1>1, <3>1
      <3>3. QED BY <3>1, <3>2 DEF Above
    <2>7. QED BY <2>1, <2>3, <2>5, <2>6 DEF Spared
  <1>3. QED BY <1>2 DEF Outlives, t

LEMMA EndBodyKeeps ==
    ASSUME IInv, stack # <<>>, EndBody
    PROVE  IInv'
  <1> DEFINE n == stack[1].of
             f == Frame("destroy", n)
             st == Tail(stack)
             after == <<f>> \o st
  <1>1. Nested(stack, alive, hnd) /\ stack \in Seq(FrameSet)
    BY DEF IInv, Nested
  <1>2. Dying = Doomed(stack) /\ InDestructor = Ending(stack)
    BY <1>1, Now
  <1>3. /\ Head(stack) = stack[1] /\ stack[1].pc \in {"body", "spent"}
        /\ Dispose(hnd[n], after) /\ alive' = alive /\ hnd' = hnd /\ raw' = raw
    BY <1>1, Pop DEF EndBody
  <1>4. /\ Nested(st, alive, hnd)
        /\ Dying = Doomed(st) \cup {n} /\ InDestructor = Ending(st)
        /\ n \notin Doomed(st) /\ n \in alive /\ n \in Node
        /\ Expects(st, hnd, n)
    BY <1>1, <1>2, <1>3, Pop
  <1>5. n \in alive \ InDestructor /\ n \in Dying
    BY <1>4, EndingIsDoomed
  <1>6. alive \subseteq Obj /\ hnd[n] \in Node \cup {null}
        /\ hnd[n] \in {null} \cup (alive \ Dying)
    BY <1>4, <1>5 DEF IInv, Held
  <1>7. Held(alive, hnd, raw, Dying \cup {n} \cup ({hnd[n]} \ {null}), InDestructor \cup {n})
    BY <1>5, HeldDestroy DEF IInv
  <1>8. /\ Nested(after, alive, hnd)
        /\ Doomed(after) = Dying
        /\ Ending(after) = InDestructor \cup {n}
        /\ Expects(after, hnd, hnd[n])
    <2> HIDE DEF n
    <2>1. n \in Obj
      BY <1>4 DEF Obj
    <2>2. /\ Nested(after, alive, hnd)
          /\ Doomed(after) = Doomed(st) \cup {n}
          /\ Ending(after) = Ending(st) \cup {n}
          /\ Expects(after, hnd, hnd[n])
      BY <1>4, <2>1, Destroying
    <2>3. QED BY <1>4, <2>2
  <1>9. Outlive'
    <2>1. SUFFICES ASSUME Stateful
                   PROVE  Outlives(stack', hnd') /\ stack' \in Seq(FrameSet)
      BY OutlivingLater DEF Outlive
    <2>2. Outlives(stack, hnd)
      BY <1>1, <2>1, Outliving DEF IInv, Outlive
    <2>3. f \in FrameSet /\ f.pc = "destroy" /\ f.of = stack[1].of
      BY <1>4 DEF Frame, FrameSet, Obj
    <2>4. st \in Seq(FrameSet)
      BY <1>4 DEF Nested
    <2>5. /\ after \in Seq(FrameSet) /\ after # <<>>
          /\ after[1] = f
      <3> HIDE DEF f, st
      <3>1. QED BY <2>3, <2>4, Consed, OnTop
    <2>6. Outlives(after, hnd)
      <3> HIDE DEF f
      <3>1. QED BY <1>1, <1>3, <2>2, <2>3, SparedByMember
    <2>7. CASE hnd[n] = null
      <3>1. stack' = <<>> \o after
        BY <1>3, <2>7 DEF Dispose
      <3>2. <<>> \o after = after
        <4> HIDE DEF after
        <4>1. QED BY <2>5
      <3>3. QED BY <1>3, <2>5, <2>6, <3>1, <3>2
    <2>8. CASE hnd[n] # null
      <3> DEFINE g == Frame("body", hnd[n])
      <3>1. stack' = <<g>> \o after
        BY <1>3, <2>8 DEF Dispose
      <3>2. g \in FrameSet /\ g.pc = "body" /\ g.of = hnd[after[1].of]
            /\ hnd[after[1].of] \in Node /\ after[1].pc = "destroy" /\ after[1].of \in Node
            /\ hnd[after[1].of] # null
        BY <1>4, <1>6, <2>3, <2>5, <2>8 DEF Frame, FrameSet, Obj
      <3> HIDE DEF g, after
      <3>3. Outlives(<<g>> \o after, hnd)
        BY <2>5, <2>6, <3>2, SparedByNode
      <3>4. <<g>> \o after \in Seq(FrameSet)
        BY <2>5, <3>2, Consed
      <3>5. QED BY <1>3, <3>1, <3>3, <3>4
    <2>9. QED BY <2>7, <2>8
  <1> HIDE DEF after, n
  <1>10. Held(alive, hnd', raw', Doomed(after) \cup ({hnd[n]} \ {null}), Ending(after))
    <2>1. Dying \cup {n} = Dying
      BY <1>5
    <2>2. QED BY <1>3, <1>7, <1>8, <2>1
  <1>11. hnd[n] # null => hnd[n] \in alive \ Doomed(after) /\ hnd[n] \notin Dying
    BY <1>6, <1>8
  <1>12. QED BY <1>3, <1>6, <1>8, <1>9, <1>10, <1>11, DisposeKeeps

LEMMA EndDestroyKeeps ==
    ASSUME IInv, stack # <<>>, EndDestroy
    PROVE  IInv'
  <1> DEFINE x == stack[1].of
             st == Tail(stack)
  <1>1. Nested(stack, alive, hnd) /\ stack \in Seq(FrameSet)
    BY DEF IInv, Nested
  <1>2. Dying = Doomed(stack) /\ InDestructor = Ending(stack)
    BY <1>1, Now
  <1>3. /\ Head(stack) = stack[1] /\ stack[1].pc = "destroy" /\ stack[1] \in FrameSet
        /\ stack' = st /\ alive' = alive \ {x} /\ hnd' = [hnd EXCEPT ![x] = null]
        /\ raw' = raw /\ fault' = FALSE
    BY <1>1, Pop DEF EndDestroy, IInv
  <1>4. /\ Nested(st, alive, hnd)
        /\ Dying = Doomed(st) \cup {x} /\ InDestructor = Ending(st) \cup {x}
        /\ x \notin Doomed(st) /\ x \in alive /\ x \in Obj
        /\ Expects(st, hnd, x)
    BY <1>1, <1>2, <1>3, Pop DEF FrameSet
  <1>5. x \notin Ending(st)
    BY <1>4, EndingIsDoomed
  <1>6. hnd[x] \notin alive
    BY <1>3 DEF IInv, Done
  <1>7. Held(alive', hnd', raw', Doomed(st), Ending(st))
    BY <1>3, <1>4, <1>5, <1>6, HeldEndDestroy DEF IInv
  <1>8. hnd \in [Obj -> Node \cup {null}]
    BY DEF IInv, Held
  <1>9. Stateful => Outlives(st, hnd')
    <2> SUFFICES ASSUME Stateful PROVE Outlives(st, hnd')
      OBVIOUS
    <2>1. Outlives(stack, hnd)
      BY <1>1, Outliving DEF IInv, Outlive
    <2>2. \A n \in Node : hnd'[n] \in {hnd[n], null}
      BY <1>3, <1>8 DEF Obj
    <2>3. QED BY <1>1, <2>1, <2>2, SparedBeneath
  <1>10. ASSUME Stateful, NEW i \in 1 .. Len(st)
         PROVE  st[i].of \in alive'
    <2>1. /\ i + 1 \in 1 .. Len(stack) /\ st[i] = stack[i + 1] /\ i + 1 # 1
          /\ i \in Nat /\ 1 \in 1 .. Len(stack)
      BY <1>1, Tailed
    <2>2. st[i].of \in alive
      BY <1>4, <1>10 DEF Nested
    <2>3. CASE st[i].pc # "return"
      <3>1. st[i].of \in Doomed(st)
        BY <2>3 DEF Doomed
      <3>2. QED BY <1>3, <1>4, <2>2, <3>1
    <2>4. CASE st[i].pc = "return"
      <3>1. Outlives(stack, hnd)
        BY <1>1, <1>10, Outliving DEF IInv, Outlive
      <3>2. stack[i + 1].of \notin Above(stack, i + 1)
        BY <2>1, <2>4, <3>1 DEF Outlives, Spared
      <3>3. 1 \in 1 .. (i + 1) - 1
        BY <2>1
      <3>4. x \in Above(stack, i + 1)
        BY <1>3, <3>3 DEF Above
      <3>5. QED BY <1>3, <2>1, <2>2, <3>2, <3>4
    <2>5. QED BY <2>3, <2>4
  <1>11. \A y \in Doomed(st) : y \in alive'
    BY <1>3, <1>4, DoomedExist
  <1>12. \A y \in Ending(st) : hnd'[y] = hnd[y]
    <2>1. Ending(st) \subseteq Obj
      BY <1>4, <1>11, DoomedExist, EndingIsDoomed DEF IInv, Held
    <2>2. QED BY <1>3, <1>5, <1>8, <2>1
  <1> HIDE DEF st, x
  <1>13. Nested(st, alive', hnd')
    BY <1>4, <1>10, <1>11, <1>12, Regard
  <1>14. Done(st, alive', hnd')
    <2> SUFFICES ASSUME st # <<>>, st[1].pc = "destroy"
                 PROVE  hnd'[st[1].of] \notin alive'
      BY DEF Done
    <2>1. hnd[st[1].of] = x
      BY <1>4 DEF Expects
    <2>2. 1 \in 1 .. Len(st)
      BY <1>4 DEF Nested
    <2>3. st[1].of \in Ending(st)
      BY <2>2 DEF Ending
    <2>4. QED BY <1>3, <1>12, <2>1, <2>3
  <1>15. st \in Seq(FrameSet)
    BY <1>4 DEF Nested
  <1>16. Outlive'
    BY <1>3, <1>9, <1>15, OutlivingLater DEF Outlive
  <1>17. Held(alive', hnd', raw', Dying', InDestructor')
    BY <1>3, <1>7, <1>15, Later
  <1>18. QED BY <1>3, <1>13, <1>14, <1>16, <1>17 DEF IInv

LEMMA ReturnKeeps ==
    ASSUME IInv, stack # <<>>, Return
    PROVE  IInv'
  <1> DEFINE st == Tail(stack)
  <1>1. Nested(stack, alive, hnd) /\ stack \in Seq(FrameSet)
    BY DEF IInv, Nested
  <1>2. Dying = Doomed(stack) /\ InDestructor = Ending(stack)
    BY <1>1, Now
  <1>3. /\ Head(stack) = stack[1] /\ stack[1].pc = "return"
        /\ stack' = st /\ alive' = alive /\ hnd' = hnd /\ raw' = raw
        /\ fault' = (Stateful /\ stack[1].of \notin alive)
    BY <1>1, Pop DEF Return
  <1>4. /\ Nested(st, alive, hnd)
        /\ Dying = Doomed(st) /\ InDestructor = Ending(st)
        /\ st # <<>> => st[1].pc # "destroy"
    BY <1>1, <1>2, <1>3, Pop
  <1>5. fault' = FALSE
    <2>1. 1 \in 1 .. Len(stack)
      BY <1>1, Tailed
    <2>2. QED BY <1>1, <1>3, <2>1 DEF Nested
  <1>6. Stateful => Outlives(st, hnd)
    BY <1>1, Outliving, SparedBeneath DEF IInv, Outlive
  <1> HIDE DEF st
  <1>7. st \in Seq(FrameSet)
    BY <1>4 DEF Nested
  <1>8. Outlive'
    BY <1>3, <1>6, <1>7, OutlivingLater DEF Outlive
  <1>9. Held(alive', hnd', raw', Dying', InDestructor')
    BY <1>3, <1>4, <1>7, Later DEF IInv
  <1>10. Done(stack', alive', hnd')
    BY <1>3, <1>4 DEF Done
  <1>11. QED BY <1>3, <1>4, <1>5, <1>8, <1>9, <1>10 DEF IInv

------------------------------------------------------------------------------
(* The results.                                                              *)

LEMMA InitIInv == Init => IInv
  <1> SUFFICES ASSUME Init PROVE IInv
    OBVIOUS
  <1>1. stack = <<>> /\ stack \in Seq(FrameSet) /\ Len(stack) = 0
    BY DEF Init
  <1>2. Dying = {} /\ InDestructor = {}
    BY <1>1, Now DEF Doomed, Ending
  <1>3. Nested(stack, alive, hnd) /\ Done(stack, alive, hnd)
    BY <1>1 DEF Nested, Done
  <1>4. Held(alive, hnd, raw, Dying, InDestructor)
    BY <1>2 DEF Init, Held
  <1>5. Outlive
    BY <1>1, Outliving DEF Outlive, Outlives
  <1>6. QED BY <1>3, <1>4, <1>5 DEF IInv, Init

LEMMA StepIInv == IInv /\ [Next]_vars => IInv'
  <1> SUFFICES ASSUME IInv, [Next]_vars PROVE IInv'
    OBVIOUS
  <1>1. CASE UserRuns /\ UserCall /\ Disciplined'
    <2>1. Outlive'
      BY <1>1 DEF Disciplined, Outlive
    <2>2. ASSUME NEW n \in Node, New(n) \/ Delete(n) PROVE IInv'
      BY <1>1, <2>1, <2>2, NewKeeps, DeleteKeeps
    <2>3. ASSUME NEW v \in Var, NEW h \in raw \cup {null}, Construct(v, h) PROVE IInv'
      BY <1>1, <2>1, <2>3, ConstructKeeps
    <2>4. ASSUME NEW v \in Var, NEW y \in Obj, MoveConstruct(v, y) PROVE IInv'
      BY <1>1, <2>1, <2>4, MoveConstructKeeps
    <2>5. ASSUME NEW x \in Obj, NEW h \in raw \cup {null}, Reset(x, h) PROVE IInv'
      BY <1>1, <2>1, <2>5, ResetKeeps
    <2>6. ASSUME NEW x \in Obj, Release(x) \/ Destroy(x) PROVE IInv'
      BY <1>1, <2>1, <2>6, ReleaseKeeps, DestroyKeeps
    <2>7. ASSUME NEW x \in Obj, NEW y \in Obj, MoveAssign(x, y) \/ Swap(x, y) PROVE IInv'
      BY <1>1, <2>1, <2>7, MoveAssignKeeps, SwapKeeps
    <2>8. QED BY <1>1, <2>2, <2>3, <2>4, <2>5, <2>6, <2>7 DEF UserCall
  <1>2. CASE Continue
    BY <1>2, EndBodyKeeps, EndDestroyKeeps, ReturnKeeps DEF Continue
  <1>3. CASE UNCHANGED vars
    BY <1>3 DEF vars, IInv, Dying, InDestructor, Frames, Outlive, OperandsOutlive, Spares
  <1>4. QED BY <1>1, <1>2, <1>3 DEF Next

\* In every reachable state the interrupted operations nest, each deleted or
\* destroyed object once, and what the objects hold agrees with them.
THEOREM Invariance == Spec => []IInv
  BY InitIInv, StepIInv, PTL DEF Spec

\* The state always has the shape the model gives it.
THEOREM TypeCorrect == Spec => []TypeOK
  <1>1. IInv => TypeOK
    <2> SUFFICES ASSUME IInv PROVE TypeOK
      OBVIOUS
    <2>1. stack \in Seq([pc : {"body", "spent", "destroy", "return"}, of : Obj])
      BY DEF IInv, Nested, FrameSet
    <2>2. alive \subseteq Obj /\ hnd \in [Obj -> Node \cup {null}] /\ raw \subseteq Node
      BY DEF IInv, Held
    <2>3. fault \in BOOLEAN
      BY DEF IInv
    <2>4. QED BY <2>1, <2>2, <2>3 DEF TypeOK
  <1>2. QED BY <1>1, Invariance, PTL

\* reset, operator= and ~unique_ptr survive whatever the destructors they run call
\* on objects that are not being destroyed themselves: no node is deleted twice, and
\* operator= accesses no destroyed object.
THEOREM ReentrancyIsSafe == Spec => []NoFault
  <1>1. IInv => NoFault
    BY DEF IInv, NoFault
  <1>2. QED BY <1>1, Invariance, PTL

\* A destructor that calls back finds no dying node in an object it may use.
THEOREM NothingStaleIsSeen == Spec => []NoStaleView
  <1>1. IInv => NoStaleView
    BY DEF IInv, Held, NoStaleView, Usable
  <1>2. QED BY <1>1, Invariance, PTL

\* A node never has two owners, not even in the middle of an operation.
THEOREM OneOwner == Spec => []Exclusive
  <1>1. IInv => Exclusive
    BY DEF IInv, Held, Exclusive
  <1>2. QED BY <1>1, Invariance, PTL

\* A node never has none.
THEOREM AnOwner == Spec => []NoOrphan
  <1>1. IInv => NoOrphan
    BY DEF IInv, Held, NoOrphan
  <1>2. QED BY <1>1, Invariance, PTL

\* The unique_ptr being destroyed stores its node until the deleter returned.
THEOREM HandleStaysStored == Spec => []DestroyStillStores
  <1>1. IInv => DestroyStillStores
    BY DEF IInv, Nested, DestroyStillStores
  <1>2. QED BY <1>1, Invariance, PTL

\* Destructors nest no deeper than there are nodes, whatever they call: each of
\* those that are under way is of a node of its own.
THEOREM NestingIsBounded == Spec => []NestingBounded
  <1>1. IInv => NestingBounded
    <2> SUFFICES ASSUME IInv PROVE NestingBounded
      OBVIOUS
    <2> DEFINE T == Node \cap alive
               f == [i \in Running |-> stack[i].of]
    <2>1. IsFiniteSet(T)
      BY NestedAssumption, FS_Subset
    <2>2. /\ \A i \in Running : stack[i].of \in T
          /\ \A i, j \in Running : stack[i].of = stack[j].of => i = j
      BY DEF IInv, Nested, Running
    <2>3. f \in Injection(Running, T)
      BY <2>2 DEF Injection, IsInjective
    <2> HIDE DEF f, T
    <2>4. Cardinality(Running) <= Cardinality(T)
      BY <2>1, <2>3, FS_Injection
    <2>5. QED BY <2>4 DEF NestingBounded, T
  <1>2. QED BY <1>1, Invariance, PTL

------------------------------------------------------------------------------
(* What the operations do to the nodes being deleted.                        *)

LEMMA DisposeDooms ==
    ASSUME NEW after \in Seq(FrameSet), NEW old \in Node \cup {null}, Dispose(old, after)
    PROVE  /\ stack' = Deletion(old, after) /\ stack' \in Seq(FrameSet)
           /\ Dying' = Doomed(after) \cup ({old} \ {null})
  <1>1. stack' = Deletion(old, after)
    BY DEF Dispose, Deletion
  <1>2. CASE old = null
    <2>1. <<>> \o after = after
      OBVIOUS
    <2>2. stack' = after
      BY <1>1, <1>2, <2>1 DEF Deletion
    <2>3. QED BY <1>1, <1>2, <2>2, Later
  <1>3. CASE old # null
    <2> DEFINE f == Frame("body", old)
    <2>1. stack' = <<f>> \o after
      BY <1>1, <1>3 DEF Deletion
    <2>2. f \in FrameSet /\ f.pc = "body" /\ f.of = old
      BY <1>3 DEF Frame, FrameSet, Obj
    <2> HIDE DEF f
    <2>3. <<f>> \o after \in Seq(FrameSet) /\ Doomed(<<f>> \o after) = Doomed(after) \cup {old}
      BY <2>2, Consed, OnTop
    <2>4. QED BY <1>1, <1>3, <2>1, <2>3, Later
  <1>4. QED BY <1>2, <1>3

\* A frame below the deletion that an operation calls for.
LEMMA Deferred ==
    ASSUME NEW st \in Seq(FrameSet), NEW x \in Obj, NEW pc \in {"return", "destroy"}
    PROVE  /\ <<Frame(pc, x)>> \o st \in Seq(FrameSet)
           /\ Doomed(<<Frame(pc, x)>> \o st) =
                  IF pc = "return" THEN Doomed(st) ELSE Doomed(st) \cup {x}
  <1> DEFINE f == Frame(pc, x)
  <1>1. f \in FrameSet /\ f.pc = pc /\ f.of = x
    BY DEF Frame, FrameSet
  <1> HIDE DEF f
  <1>2. /\ <<f>> \o st \in Seq(FrameSet)
        /\ Doomed(<<f>> \o st) = IF f.pc = "return" THEN Doomed(st) ELSE Doomed(st) \cup {f.of}
    BY <1>1, Consed, OnTop
  <1>3. QED BY <1>1, <1>2 DEF f

LEMMA CallerDoomed ==
    ASSUME IInv, UserRuns
    PROVE  Caller \in Seq(FrameSet) /\ Doomed(Caller) = Dying
  BY Calling DEF Nested

\* The frames of a move assignment, one by one.
LEMMA TwoReturns ==
    ASSUME NEW st \in Seq(FrameSet), NEW x \in Obj, NEW y \in Obj
    PROVE  <<Frame("return", y), Frame("return", x)>> \o st =
               <<Frame("return", y)>> \o (<<Frame("return", x)>> \o st)
  <1>1. Frame("return", x) \in FrameSet /\ Frame("return", y) \in FrameSet
    BY DEF Frame, FrameSet
  <1>2. QED BY <1>1

LEMMA UserDooms ==
    ASSUME IInv, UserRuns
    PROVE  /\ NoCall => Dying' = Dying
           /\ \A n \in Node : Delete(n) => Dying' = Dying \cup {n}
           /\ \A x \in Obj, g \in raw \cup {null} :
                  Reset(x, g) => Dying' = Dying \cup ({hnd[x]} \ {null})
           /\ \A x, y \in Obj :
                  MoveAssign(x, y) => Dying' = Dying \cup ({hnd[x]} \ {null})
           /\ \A v \in Obj :
                  Destroy(v) => Dying' = Dying \cup {v} \cup ({hnd[v]} \ {null})
  <1>1. Caller \in Seq(FrameSet) /\ Doomed(Caller) = Dying
    BY CallerDoomed
  <1>2. \A x \in Obj : hnd[x] \in Node \cup {null}
    BY DEF IInv, Held
  <1>3. ASSUME NoCall PROVE Dying' = Dying
    BY <1>1, <1>3, Later DEF NoCall
  <1>4. ASSUME NEW n \in Node, Delete(n) PROVE Dying' = Dying \cup {n}
    <2>1. Dispose(n, Caller) /\ n # null
      BY <1>4, NestedAssumption DEF Delete, Obj
    <2>2. Dying' = Doomed(Caller) \cup ({n} \ {null})
      BY <1>1, <2>1, DisposeDooms
    <2>3. QED BY <1>1, <2>1, <2>2
  <1>5. ASSUME NEW x \in Obj, NEW g \in raw \cup {null}, Reset(x, g)
        PROVE  Dying' = Dying \cup ({hnd[x]} \ {null})
    <2>1. Dispose(hnd[x], Caller)
      BY <1>5 DEF Reset
    <2>2. QED BY <1>1, <1>2, <2>1, DisposeDooms
  <1>6. ASSUME NEW x \in Obj, NEW y \in Obj, MoveAssign(x, y)
        PROVE  Dying' = Dying \cup ({hnd[x]} \ {null})
    <2> DEFINE after == <<Frame("return", y)>> \o (<<Frame("return", x)>> \o Caller)
    <2>1. after \in Seq(FrameSet) /\ Doomed(after) = Dying
      BY <1>1, Deferred
    <2>2. Dispose(hnd[x], after)
      BY <1>1, <1>6, TwoReturns DEF MoveAssign
    <2> HIDE DEF after
    <2>3. QED BY <1>2, <2>1, <2>2, DisposeDooms
  <1>7. ASSUME NEW v \in Obj, Destroy(v)
        PROVE  Dying' = Dying \cup {v} \cup ({hnd[v]} \ {null})
    <2> DEFINE after == <<Frame("destroy", v)>> \o Caller
    <2>1. after \in Seq(FrameSet) /\ Doomed(after) = Dying \cup {v}
      BY <1>1, Deferred
    <2>2. Dispose(hnd[v], after)
      BY <1>7 DEF Destroy
    <2> HIDE DEF after
    <2>3. QED BY <1>2, <2>1, <2>2, DisposeDooms
  <1>8. QED BY <1>3, <1>4, <1>5, <1>6, <1>7

LEMMA ContinueDooms ==
    ASSUME IInv, stack # <<>>
    PROVE  /\ EndBody => /\ stack[1].of \in Dying \ InDestructor /\ stack[1].of \in Node
                         /\ Dispose(hnd[stack[1].of],
                                    <<Frame("destroy", stack[1].of)>> \o Tail(stack))
                         /\ Dying' = Dying \cup ({hnd[stack[1].of]} \ {null})
           /\ EndDestroy => /\ stack[1].of \in Dying /\ hnd[stack[1].of] \notin alive
                            /\ stack[1].of \in Obj /\ stack' = Tail(stack)
                            /\ alive' = alive \ {stack[1].of}
                            /\ hnd' = [hnd EXCEPT ![stack[1].of] = null]
                            /\ Dying' = Dying \ {stack[1].of}
           /\ Return => Dying' = Dying /\ stack' = Tail(stack)
  <1> DEFINE x == stack[1].of
             st == Tail(stack)
  <1>1. Nested(stack, alive, hnd) /\ stack \in Seq(FrameSet)
    BY DEF IInv, Nested
  <1>2. Dying = Doomed(stack) /\ InDestructor = Ending(stack)
    BY <1>1, Now
  <1>3. Head(stack) = stack[1] /\ stack[1] \in FrameSet /\ st \in Seq(FrameSet) /\ x \in Obj
    <2>1. Head(stack) = stack[1] /\ stack[1] \in FrameSet /\ Nested(st, alive, hnd)
      BY <1>1, Pop
    <2>2. QED BY <2>1 DEF Nested, FrameSet
  <1>4. CASE EndBody
    <2>1. stack[1].pc \in {"body", "spent"} /\ Dispose(hnd[x], <<Frame("destroy", x)>> \o st)
      BY <1>3, <1>4 DEF EndBody
    <2>2. /\ Dying = Doomed(st) \cup {x} /\ x \notin Doomed(st) /\ x \in Node
          /\ InDestructor = Ending(st)
      BY <1>1, <1>2, <2>1, Pop
    <2>3. x \notin InDestructor
      BY <2>2, EndingIsDoomed
    <2>4. hnd[x] \in Node \cup {null}
      BY <1>3 DEF IInv, Held
    <2> HIDE DEF x, st
    <2> DEFINE after == <<Frame("destroy", x)>> \o st
    <2>5. after \in Seq(FrameSet) /\ Doomed(after) = Doomed(st) \cup {x}
      BY <1>3, Deferred
    <2> HIDE DEF after
    <2>6. Dying' = Doomed(after) \cup ({hnd[x]} \ {null})
      BY <2>1, <2>4, <2>5, DisposeDooms DEF after
    <2>7. Dying' = Dying \cup ({hnd[x]} \ {null}) /\ x \in Dying
      BY <2>2, <2>5, <2>6
    <2>8. ~EndDestroy /\ ~Return
      BY <1>3, <2>1 DEF EndDestroy, Return
    <2>9. QED BY <2>1, <2>2, <2>3, <2>7, <2>8 DEF x, st
  <1>5. CASE EndDestroy
    <2>1. stack[1].pc = "destroy" /\ stack' = st
          /\ alive' = alive \ {x} /\ hnd' = [hnd EXCEPT ![x] = null]
      BY <1>3, <1>5 DEF EndDestroy
    <2>2. Dying = Doomed(st) \cup {x} /\ x \notin Doomed(st)
      BY <1>1, <1>2, <2>1, Pop
    <2>3. hnd[x] \notin alive
      BY <2>1 DEF IInv, Done
    <2>4. Dying' = Doomed(st)
      BY <1>3, <2>1, Later
    <2> HIDE DEF x, st
    <2>5. Dying' = Dying \ {x} /\ x \in Dying
      BY <2>2, <2>4
    <2>6. ~EndBody /\ ~Return
      BY <1>3, <2>1 DEF EndBody, Return
    <2>7. QED BY <1>3, <2>1, <2>3, <2>5, <2>6 DEF x, st
  <1>6. CASE Return
    <2>1. stack[1].pc = "return" /\ stack' = st
      BY <1>3, <1>6 DEF Return
    <2>2. Dying = Doomed(st)
      BY <1>1, <1>2, <2>1, Pop
    <2>3. Dying' = Doomed(st)
      BY <1>3, <2>1, Later
    <2>4. ~EndBody /\ ~EndDestroy
      BY <1>3, <2>1 DEF EndBody, EndDestroy
    <2>5. QED BY <2>1, <2>2, <2>3, <2>4
  <1>7. QED BY <1>4, <1>5, <1>6

------------------------------------------------------------------------------
(* NestedPtr implements Ownership: each operation transfers responsibility at *)
(* the step in which it begins.                                               *)

\* x answers for n: it stores n, and n is not being deleted.
Holds(x, n) == hnd[x] = n /\ n \notin Gone

\* Whom the mapping names, state by state.
Party(n) ==
    /\ ownerBar[n] = Nobody <=> n \in Gone
    /\ ownerBar[n] = Client <=> n \in raw
    /\ \A x \in Obj : ownerBar[n] = x <=> Holds(x, n)
    /\ ownerBar[n] \in Obj \cup {Client, Nobody}

LEMMA PartyIsUnique == IInv => \A n \in Node : Party(n)
  <1> SUFFICES ASSUME IInv, NEW n \in Node PROVE Party(n)
    OBVIOUS
  <1>1. {Client, Nobody, Lost} \cap Obj = {} /\ n # null
    BY NestedAssumption DEF Obj
  <1>2. Client # Nobody /\ Client # Lost /\ Nobody # Lost
    BY DEF Client, Nobody, Lost
  <1>3. /\ alive \subseteq Obj
        /\ n \in raw => n \notin Gone
        /\ n \notin Gone => n \in raw \/ \E x \in alive : hnd[x] = n
        /\ \A x \in Obj : hnd[x] = n => x \in alive /\ n \notin raw
        /\ \A x, y \in Obj : hnd[x] = n /\ hnd[y] = n => x = y
    BY <1>1 DEF IInv, Held, Gone
  <1>4. CASE n \in Gone
    <2>1. ownerBar[n] = Nobody
      BY <1>4 DEF ownerBar
    <2>2. QED BY <1>1, <1>2, <1>3, <1>4, <2>1 DEF Party, Holds
  <1>5. CASE n \notin Gone /\ \E x \in alive : hnd[x] = n
    <2>1. PICK x \in alive : hnd[x] = n
      BY <1>5
    <2>2. ownerBar[n] = x
      BY <1>3, <1>5, <2>1 DEF ownerBar
    <2>3. QED BY <1>1, <1>2, <1>3, <1>5, <2>1, <2>2 DEF Party, Holds
  <1>6. CASE n \notin Gone /\ ~\E x \in alive : hnd[x] = n
    <2>1. ownerBar[n] = Client
      BY <1>3, <1>6 DEF ownerBar
    <2>2. QED BY <1>1, <1>2, <1>3, <1>6, <2>1 DEF Party, Holds
  <1>7. QED BY <1>4, <1>5, <1>6

LEMMA PartyIsUniqueNext == IInv' => (\A n \in Node : Party(n))'
  BY PartyIsUnique, PTL

\* ownerBar has no other values than those at the nodes.
LEMMA BarIsFunction ==
    /\ ownerBar = [n \in Node |-> ownerBar[n]]
    /\ ownerBar' = [n \in Node |-> ownerBar'[n]]
  BY DEF ownerBar

\* The objects outside S answer for what they did.
SameFor(S) == \A n \in Node, z \in Obj \ S : Holds(z, n)' <=> Holds(z, n)

\* The deletion of the node x held begins, and of no other.
DoomedOnly(x) == \A n \in Node : n \in Gone' <=> n \in Gone \/ Holds(x, n)

SameGone == \A n \in Node : n \in Gone' <=> n \in Gone

LEMMA PutMaps ==
    ASSUME IInv, IInv', NEW x \in Obj, NEW g \in raw \cup {null},
           \A n \in Node : Holds(x, n)' <=> n = g,
           SameFor({x}), DoomedOnly(x), raw' = raw \ {g}
    PROVE  Abstract!Next
  <1> DEFINE S == {g} \cap Node
  <1>1. \A n \in Node : Party(n) /\ Party(n)'
    BY PartyIsUnique, PartyIsUniqueNext
  <1>2. null \notin Node /\ raw \subseteq Node
    BY NestedAssumption DEF IInv, Held, Obj
  <1>3. S \in SUBSET Abstract!Owned(Client) /\ Abstract!AtMostOne(S)
    BY <1>1, <1>2 DEF Abstract!Owned, Abstract!AtMostOne, Party
  <1>4. ASSUME NEW n \in Node
        PROVE  ownerBar'[n] = CASE n \in S -> x
                                [] n \notin S /\ ownerBar[n] = x -> Nobody
                                [] OTHER -> ownerBar[n]
    <2>1. Party(n) /\ Party(n)'
      BY <1>1
    <2>2. CASE n \in S
      BY <2>1, <2>2 DEF Party
    <2>3. CASE n \notin S /\ ownerBar[n] = x
      BY <2>1, <2>3 DEF Party, DoomedOnly
    <2>4. CASE n \notin S /\ ownerBar[n] # x
      <3>1. /\ n \in Gone' <=> n \in Gone
            /\ n \in raw' <=> n \in raw
            /\ ~Holds(x, n)'
        BY <2>1, <2>4 DEF Party, DoomedOnly
      <3>2. ownerBar'[n] = ownerBar[n]
        BY <2>1, <2>4, <3>1 DEF Party, SameFor
      <3>3. QED BY <2>4, <3>2
    <2>5. QED BY <2>2, <2>3, <2>4
  <1> HIDE DEF S
  <1>5. Abstract!Put(x, S)
    BY <1>3, <1>4, BarIsFunction DEF Abstract!Put
  <1>6. QED BY <1>3, <1>5 DEF Abstract!Next

LEMMA TakeMaps ==
    ASSUME IInv, IInv', NEW x \in Obj, NEW y \in Obj, x # y,
           \A n \in Node : (Holds(x, n)' <=> Holds(y, n)) /\ ~Holds(y, n)',
           SameFor({x, y}), DoomedOnly(x), raw' = raw
    PROVE  Abstract!Next
  <1>1. \A n \in Node : Party(n) /\ Party(n)'
    BY PartyIsUnique, PartyIsUniqueNext
  <1>2. ASSUME NEW n \in Node
        PROVE  ownerBar'[n] = CASE ownerBar[n] = y -> x
                                [] ownerBar[n] = x -> Nobody
                                [] OTHER -> ownerBar[n]
    <2>1. Party(n) /\ Party(n)'
      BY <1>1
    <2>2. CASE ownerBar[n] = y
      BY <2>1, <2>2 DEF Party
    <2>3. CASE ownerBar[n] = x
      BY <2>1, <2>3 DEF Party, DoomedOnly
    <2>4. CASE ownerBar[n] \notin {x, y}
      <3>1. /\ n \in Gone' <=> n \in Gone
            /\ ~Holds(x, n)' /\ ~Holds(y, n)'
        BY <2>1, <2>4 DEF Party, DoomedOnly
      <3>2. ownerBar'[n] = ownerBar[n]
        BY <2>1, <2>4, <3>1 DEF Party, SameFor
      <3>3. QED BY <2>4, <3>2
    <2>5. QED BY <2>2, <2>3, <2>4
  <1>3. Abstract!Take(x, y)
    BY <1>2, BarIsFunction DEF Abstract!Take
  <1>4. QED BY <1>3 DEF Abstract!Next

\* No node changed hands.
LEMMA StutterMaps ==
    ASSUME IInv, IInv', SameFor({}), SameGone, raw' = raw
    PROVE  ownerBar' = ownerBar
  <1>1. \A n \in Node : Party(n) /\ Party(n)'
    BY PartyIsUnique, PartyIsUniqueNext
  <1>2. \A n \in Node : ownerBar'[n] = ownerBar[n]
    BY <1>1 DEF Party, SameFor, SameGone
  <1>3. QED BY <1>2, BarIsFunction

\* What the invariant says of nodes that are not being deleted.
LEMMA Answering ==
    ASSUME IInv
    PROVE  /\ alive \subseteq Obj /\ raw \subseteq Node
           /\ raw \subseteq alive \ Dying
           /\ hnd \in [Obj -> Node \cup {null}]
           /\ Dying \subseteq alive
           /\ \A x \in alive \ InDestructor : hnd[x] \in {null} \cup (alive \ Dying)
           /\ \A x \in Obj \ alive : hnd[x] = null
           /\ \A n \in Node : n # null
  <1>1. Nested(stack, alive, hnd) /\ stack \in Seq(FrameSet)
    BY DEF IInv, Nested
  <1>2. Dying \subseteq alive
    BY <1>1, Now, DoomedExist
  <1>3. QED BY <1>2, NestedAssumption DEF IInv, Held, Obj

LEMMA ClientMaps ==
    ASSUME IInv, IInv', UserRuns, NEW n \in Node, New(n) \/ Delete(n)
    PROVE  Abstract!Next
  <1>1. \A m \in Node : Party(m) /\ Party(m)'
    BY PartyIsUnique, PartyIsUniqueNext
  <1>2. CASE New(n)
    <2>1. /\ n \notin alive /\ alive' = alive \cup {n} /\ raw' = raw \cup {n}
          /\ hnd' = hnd /\ Dying' = Dying
      BY <1>2, UserDooms DEF New
    <2>2. ownerBar[n] = Nobody /\ ownerBar'[n] = Client
      BY <1>1, <2>1 DEF Party, Gone
    <2>3. ASSUME NEW m \in Node \ {n} PROVE ownerBar'[m] = ownerBar[m]
      <3>1. (m \in Gone' <=> m \in Gone) /\ (m \in raw' <=> m \in raw)
        BY <2>1 DEF Gone
      <3>2. QED BY <1>1, <2>1, <3>1 DEF Party, Holds
    <2>4. Abstract!Acquire(n)
      BY <2>2, <2>3, BarIsFunction DEF Abstract!Acquire
    <2>5. QED BY <2>4 DEF Abstract!Next
  <1>3. CASE Delete(n)
    <2>1. /\ n \in raw /\ alive' = alive /\ raw' = raw \ {n}
          /\ hnd' = hnd /\ Dying' = Dying \cup {n}
      BY <1>3, UserDooms DEF Delete
    <2>2. ownerBar[n] = Client /\ ownerBar'[n] = Nobody
      BY <1>1, <2>1 DEF Party, Gone
    <2>3. ASSUME NEW m \in Node \ {n} PROVE ownerBar'[m] = ownerBar[m]
      <3>1. (m \in Gone' <=> m \in Gone) /\ (m \in raw' <=> m \in raw)
        BY <2>1 DEF Gone
      <3>2. QED BY <1>1, <2>1, <3>1 DEF Party, Holds
    <2>4. Abstract!Discard(n)
      BY <2>2, <2>3, BarIsFunction DEF Abstract!Discard
    <2>5. QED BY <2>4 DEF Abstract!Next
  <1>4. QED BY <1>2, <1>3

LEMMA ObjectMaps ==
    ASSUME IInv, IInv', UserRuns, NEW x \in Obj
    PROVE  /\ x \in Var => \A g \in raw \cup {null} : Construct(x, g) => Abstract!Next
           /\ \A g \in raw \cup {null} : Reset(x, g) => Abstract!Next
           /\ Destroy(x) => Abstract!Next
           /\ Release(x) => Abstract!Next
  <1> USE Answering
  <1>1. ASSUME x \in Var, NEW g \in raw \cup {null}, Construct(x, g) PROVE Abstract!Next
    <2>1. /\ x \notin alive /\ alive' = alive \cup {x} /\ raw' = raw \ {g}
          /\ hnd' = [hnd EXCEPT ![x] = g] /\ Dying' = Dying /\ x \notin Node
      BY <1>1, UserDooms, NestedAssumption DEF Construct
    <2>2. SameGone /\ hnd[x] = null
      BY <2>1 DEF SameGone, Gone
    <2>3. \A n \in Node : Holds(x, n)' <=> n = g
      BY <2>1 DEF Holds, Gone
    <2>4. SameFor({x}) /\ DoomedOnly(x)
      BY <2>1, <2>2 DEF SameFor, DoomedOnly, SameGone, Holds
    <2>5. QED BY <2>1, <2>3, <2>4, PutMaps
  <1>2. ASSUME NEW g \in raw \cup {null}, Reset(x, g) PROVE Abstract!Next
    <2>1. /\ x \in alive \ InDestructor /\ alive' = alive /\ raw' = raw \ {g}
          /\ hnd' = [hnd EXCEPT ![x] = g] /\ Dying' = Dying \cup ({hnd[x]} \ {null})
      BY <1>2, UserDooms DEF Reset, Usable
    <2>2. DoomedOnly(x)
      BY <2>1 DEF DoomedOnly, Gone, Holds
    <2>3. hnd[x] # null => hnd[x] # g
      BY <2>1 DEF IInv, Held
    <2>4. \A n \in Node : Holds(x, n)' <=> n = g
      BY <2>1, <2>3 DEF Holds, Gone
    <2>5. SameFor({x})
      <3>1. \A z \in Obj \ {x} : hnd[z] = hnd[x] => hnd[z] = null
        BY <2>1 DEF IInv, Held
      <3>2. QED BY <2>1, <3>1 DEF SameFor, Holds, Gone
    <2>6. QED BY <2>1, <2>2, <2>4, <2>5, PutMaps
  <1>3. CASE Destroy(x)
    <2>1. /\ x \in Var /\ x \in alive \ InDestructor /\ alive' = alive /\ raw' = raw
          /\ hnd' = hnd /\ Dying' = Dying \cup {x} \cup ({hnd[x]} \ {null}) /\ x \notin Node
      BY <1>3, UserDooms, NestedAssumption DEF Destroy, Usable
    <2>2. DoomedOnly(x)
      BY <2>1 DEF DoomedOnly, Gone, Holds
    <2>3. \A n \in Node : ~Holds(x, n)'
      BY <2>1 DEF Holds, Gone
    <2>4. SameFor({x})
      <3>1. \A z \in Obj \ {x} : hnd[z] = hnd[x] => hnd[z] = null
        BY <2>1 DEF IInv, Held
      <3>2. QED BY <2>1, <3>1 DEF SameFor, Holds, Gone
    <2>5. raw' = raw \ {null} /\ null \in raw \cup {null}
      BY <2>1
    <2>6. QED BY <2>2, <2>3, <2>4, <2>5, PutMaps
  <1>4. CASE Release(x)
    <2>1. /\ x \in alive \ InDestructor /\ alive' = alive /\ Dying' = Dying
          /\ raw' = raw \cup ({hnd[x]} \ {null}) /\ hnd' = [hnd EXCEPT ![x] = null]
      BY <1>4, UserDooms DEF Release, Usable
    <2>2. ASSUME NEW n \in Node
          PROVE  ownerBar'[n] = IF ownerBar[n] = x THEN Client ELSE ownerBar[n]
      <3>1. Party(n) /\ Party(n)'
        BY PartyIsUnique, PartyIsUniqueNext
      <3>2. /\ n \in Gone' <=> n \in Gone
            /\ n \in raw' <=> n \in raw \/ Holds(x, n)
            /\ ~Holds(x, n)'
            /\ \A z \in Obj \ {x} : Holds(z, n)' <=> Holds(z, n)
        BY <2>1 DEF Holds, Gone
      <3>3. CASE ownerBar[n] = x
        BY <3>1, <3>2, <3>3 DEF Party
      <3>4. CASE ownerBar[n] # x
        BY <3>1, <3>2, <3>4 DEF Party
      <3>5. QED BY <3>3, <3>4
    <2>3. Abstract!Yield(x)
      BY <2>2, BarIsFunction DEF Abstract!Yield
    <2>4. QED BY <2>3 DEF Abstract!Next
  <1>5. QED BY <1>1, <1>2, <1>3, <1>4

LEMMA PairMaps ==
    ASSUME IInv, IInv', UserRuns, NEW x \in Obj, NEW y \in Obj
    PROVE  /\ x \in Var /\ MoveConstruct(x, y) => Abstract!Next
           /\ MoveAssign(x, y) => Abstract!Next
           /\ Swap(x, y) => Abstract!Next
  <1> USE Answering
  <1>1. CASE x \in Var /\ MoveConstruct(x, y)
    <2>1. /\ x \notin alive /\ y \in alive \ InDestructor /\ alive' = alive \cup {x}
          /\ hnd' = [hnd EXCEPT ![x] = hnd[y], ![y] = null] /\ Dying' = Dying
          /\ raw' = raw /\ x \notin Node /\ x # y
      BY <1>1, UserDooms, NestedAssumption DEF MoveConstruct, Usable
    <2>2. SameGone /\ hnd[x] = null
      BY <2>1 DEF SameGone, Gone
    <2>3. \A n \in Node : (Holds(x, n)' <=> Holds(y, n)) /\ ~Holds(y, n)'
      BY <2>1, <2>2 DEF Holds, SameGone
    <2>4. SameFor({x, y}) /\ DoomedOnly(x)
      BY <2>1, <2>2 DEF SameFor, DoomedOnly, SameGone, Holds
    <2>5. QED BY <2>1, <2>3, <2>4, TakeMaps
  <1>2. CASE MoveAssign(x, y)
    <2>1. /\ x # y /\ x \in alive \ InDestructor /\ y \in alive \ InDestructor
          /\ alive' = alive /\ raw' = raw
          /\ hnd' = [hnd EXCEPT ![x] = hnd[y], ![y] = null]
          /\ Dying' = Dying \cup ({hnd[x]} \ {null})
      BY <1>2, UserDooms DEF MoveAssign, Usable
    <2>2. DoomedOnly(x)
      BY <2>1 DEF DoomedOnly, Gone, Holds
    <2>3. \A z \in Obj \ {x} : hnd[z] = hnd[x] => hnd[z] = null
      BY <2>1 DEF IInv, Held
    <2>4. \A n \in Node : (Holds(x, n)' <=> Holds(y, n)) /\ ~Holds(y, n)'
      BY <2>1, <2>3 DEF Holds, Gone
    <2>5. SameFor({x, y})
      BY <2>1, <2>3 DEF SameFor, Holds, Gone
    <2>6. QED BY <2>1, <2>2, <2>4, <2>5, TakeMaps
  <1>3. CASE Swap(x, y)
    <2>1. /\ alive' = alive /\ raw' = raw /\ Dying' = Dying
          /\ hnd' = [hnd EXCEPT ![x] = hnd[y], ![y] = hnd[x]]
      BY <1>3, UserDooms DEF Swap
    <2>2. ASSUME NEW n \in Node
          PROVE  ownerBar'[n] = CASE ownerBar[n] = x -> y
                                  [] ownerBar[n] = y -> x
                                  [] OTHER -> ownerBar[n]
      <3>1. Party(n) /\ Party(n)'
        BY PartyIsUnique, PartyIsUniqueNext
      <3>2. /\ n \in Gone' <=> n \in Gone
            /\ n \in raw' <=> n \in raw
            /\ Holds(x, n)' <=> Holds(y, n)
            /\ Holds(y, n)' <=> Holds(x, n)
            /\ \A z \in Obj \ {x, y} : Holds(z, n)' <=> Holds(z, n)
        BY <2>1 DEF Holds, Gone
      <3>3. CASE ownerBar[n] = x
        BY <3>1, <3>2, <3>3 DEF Party
      <3>4. CASE ownerBar[n] = y /\ ownerBar[n] # x
        <4>1. ownerBar'[n] = x
          BY <3>1, <3>2, <3>4 DEF Party
        <4>2. QED BY <3>4, <4>1
      <3>5. CASE ownerBar[n] \notin {x, y}
        <4>1. ownerBar'[n] = ownerBar[n]
          BY <3>1, <3>2, <3>5 DEF Party
        <4>2. QED BY <3>5, <4>1
      <3>6. QED BY <3>3, <3>4, <3>5
    <2>3. Abstract!Exchange(x, y)
      BY <2>2, BarIsFunction DEF Abstract!Exchange
    <2>4. QED BY <2>3 DEF Abstract!Next
  <1>4. QED BY <1>1, <1>2, <1>3

LEMMA ContinueMaps ==
    ASSUME IInv, IInv', Continue
    PROVE  Abstract!Next \/ ownerBar' = ownerBar
  <1> USE Answering
  <1>1. stack # <<>>
    BY DEF Continue
  <1>2. ASSUME NEW x \in Node, x = stack[1].of, EndBody PROVE Abstract!Next
    <2>1. /\ x \in Dying \ InDestructor
          /\ alive' = alive /\ hnd' = hnd /\ raw' = raw
          /\ Dying' = Dying \cup ({hnd[x]} \ {null})
      BY <1>1, <1>2, ContinueDooms DEF EndBody
    <2>2. x \in Obj /\ x \in alive \ InDestructor
      BY <2>1 DEF Obj
    <2>3. DoomedOnly(x)
      BY <2>1, <2>2 DEF DoomedOnly, Gone, Holds
    <2>4. \A n \in Node : ~Holds(x, n)'
      BY <2>1 DEF Holds, Gone
    <2>5. SameFor({x})
      <3>1. \A z \in Obj \ {x} : hnd[z] = hnd[x] => hnd[z] = null
        BY <2>2 DEF IInv, Held
      <3>2. QED BY <2>1, <3>1 DEF SameFor, Holds, Gone
    <2>6. raw' = raw \ {null} /\ null \in raw \cup {null}
      BY <2>1
    <2>7. QED BY <2>2, <2>3, <2>4, <2>5, <2>6, PutMaps
  <1>3. ASSUME NEW x \in Obj, x = stack[1].of, EndDestroy PROVE ownerBar' = ownerBar
    <2>1. /\ x \in Dying /\ hnd[x] \notin alive
          /\ alive' = alive \ {x} /\ hnd' = [hnd EXCEPT ![x] = null] /\ raw' = raw
          /\ Dying' = Dying \ {x}
      BY <1>1, <1>3, ContinueDooms DEF EndDestroy
    <2>2. SameGone
      BY <2>1 DEF SameGone, Gone
    <2>3. SameFor({})
      BY <2>1, <2>2 DEF SameFor, SameGone, Holds, Gone
    <2>4. QED BY <2>1, <2>2, <2>3, StutterMaps
  <1>4. CASE Return
    <2>1. alive' = alive /\ hnd' = hnd /\ raw' = raw /\ Dying' = Dying
      BY <1>1, <1>4, ContinueDooms DEF Return
    <2>2. SameGone /\ SameFor({})
      BY <2>1 DEF SameGone, SameFor, Gone, Holds
    <2>3. QED BY <2>1, <2>2, StutterMaps
  <1>5. QED BY <1>1, <1>2, <1>3, <1>4, ContinueDooms DEF Continue

\* However destructors re-enter it, the library keeps the promise of Ownership: an
\* operation transfers responsibility when it begins, as if it ended there.
THEOREM ReentrantImplementsOwnership == Spec => OwnershipSpec
  <1>1. Init => Abstract!Init
    BY DEF Init, ownerBar, Gone, Abstract!Init
  <1>2. IInv /\ IInv' /\ [Next]_vars => [Abstract!Next]_ownerBar
    <2> SUFFICES ASSUME IInv, IInv', [Next]_vars
                 PROVE  Abstract!Next \/ ownerBar' = ownerBar
      OBVIOUS
    <2>1. CASE UserRuns /\ UserCall
      <3>1. Var \subseteq Obj
        BY DEF Obj
      <3>2. QED BY <2>1, <3>1, ClientMaps, ObjectMaps, PairMaps DEF UserCall
    <2>2. CASE UNCHANGED vars
      BY <2>2 DEF vars, ownerBar, Gone, Dying, Frames
    <2>3. QED BY <2>1, <2>2, ContinueMaps DEF Next
  <1>3. QED
    BY <1>1, <1>2, Invariance, PTL DEF Spec, OwnershipSpec, Abstract!Spec

------------------------------------------------------------------------------
(* Every step of an interrupted operation leaves less to do.  What a stack and *)
(* the nodes cost is computed frame by frame: a node that is being deleted is  *)
(* in one frame, and is not counted among those still standing.                *)

With(st, pcs) == {st[i].of : i \in {j \in 1 .. Len(st) : st[j].pc \in pcs}}

StandingIn(st, al, rw) == (Node \cap al) \ (Doomed(st) \cup rw)

WorkOf(st, al, rw) ==
    Len(st) + 6 * Cardinality(With(st, {"body"})) + Cardinality(With(st, {"spent"}))
            + 7 * Cardinality(StandingIn(st, al, rw)) + 4 * Cardinality(rw)

LEMMA Counting ==
    ASSUME NEW S, S \subseteq Node
    PROVE  /\ Cardinality(S) \in Nat
           /\ \A e \in Node : e \notin S => Cardinality(S \cup {e}) = Cardinality(S) + 1
           /\ \A e \in S : Cardinality(S \ {e}) + 1 = Cardinality(S)
  <1>1. IsFiniteSet(S)
    BY NestedAssumption, FS_Subset
  <1>2. Cardinality(S) \in Nat
    BY <1>1, FS_CardinalityType
  <1>3. ASSUME NEW e \in Node, e \notin S PROVE Cardinality(S \cup {e}) = Cardinality(S) + 1
    BY <1>1, <1>3, FS_AddElement
  <1>4. ASSUME NEW e \in S PROVE Cardinality(S \ {e}) + 1 = Cardinality(S)
    <2>1. Cardinality(S \ {e}) = Cardinality(S) - 1
      BY <1>1, FS_RemoveElement
    <2>2. QED BY <1>2, <2>1
  <1>5. QED BY <1>2, <1>3, <1>4

LEMMA WithOnTop ==
    ASSUME NEW st \in Seq(FrameSet), NEW f \in FrameSet, NEW pcs
    PROVE  With(<<f>> \o st, pcs) =
               IF f.pc \in pcs THEN With(st, pcs) \cup {f.of} ELSE With(st, pcs)
  <1> DEFINE t == <<f>> \o st
  <1>1. Len(st) \in Nat
    OBVIOUS
  <1>2. /\ Len(t) = Len(st) + 1
        /\ t[1] = f
        /\ \A i \in 2 .. Len(st) + 1 : t[i] = st[i - 1]
    BY Consed
  <1> HIDE DEF t
  <1>3. ASSUME NEW i \in 1 .. Len(t)
        PROVE  \/ i = 1 /\ t[i] = f
               \/ i - 1 \in 1 .. Len(st) /\ t[i] = st[i - 1]
    <2>1. i = 1 \/ (i \in 2 .. Len(st) + 1 /\ i - 1 \in 1 .. Len(st))
      BY <1>1, <1>2
    <2>2. QED BY <1>2, <2>1
  <1>4. ASSUME NEW j \in 1 .. Len(st)
        PROVE  j + 1 \in 1 .. Len(t) /\ t[j + 1] = st[j]
    <2>1. j + 1 \in 2 .. Len(st) + 1 /\ j + 1 \in 1 .. Len(t) /\ (j + 1) - 1 = j
      BY <1>1, <1>2
    <2>2. QED BY <1>2, <2>1
  <1>5. With(t, pcs) \subseteq IF f.pc \in pcs THEN With(st, pcs) \cup {f.of} ELSE With(st, pcs)
    BY <1>3 DEF With
  <1>6. With(st, pcs) \subseteq With(t, pcs)
    BY <1>4 DEF With
  <1>7. f.pc \in pcs => f.of \in With(t, pcs)
    BY <1>1, <1>2 DEF With
  <1>8. With(t, pcs) = IF f.pc \in pcs THEN With(st, pcs) \cup {f.of} ELSE With(st, pcs)
    BY <1>5, <1>6, <1>7
  <1>9. QED BY <1>8 DEF t

\* What is counted are nodes.
LEMMA Counted ==
    ASSUME NEW st, NEW al, NEW h, NEW rw, Nested(st, al, h), rw \subseteq Node
    PROVE  /\ st \in Seq(FrameSet) /\ Len(st) \in Nat
           /\ With(st, {"body"}) \subseteq Node \cap Doomed(st)
           /\ With(st, {"spent"}) \subseteq Node \cap Doomed(st)
           /\ WorkOf(st, al, rw) \in Nat
  <1>1. st \in Seq(FrameSet) /\ Len(st) \in Nat
    BY DEF Nested
  <1>2. With(st, {"body"}) \subseteq Node \cap Doomed(st)
    BY DEF With, Nested, Doomed
  <1>3. With(st, {"spent"}) \subseteq Node \cap Doomed(st)
    BY DEF With, Nested, Doomed
  <1>4. /\ Cardinality(With(st, {"body"})) \in Nat
        /\ Cardinality(With(st, {"spent"})) \in Nat
    BY <1>2, <1>3, Counting
  <1>5. Cardinality(StandingIn(st, al, rw)) \in Nat /\ Cardinality(rw) \in Nat
    BY Counting DEF StandingIn
  <1>6. QED BY <1>1, <1>2, <1>3, <1>4, <1>5 DEF WorkOf

\* What a frame costs, and what it saves.
LEMMA PushWork ==
    ASSUME NEW st, NEW al, NEW h, NEW rw, NEW f \in FrameSet,
           Nested(st, al, h), rw \subseteq Node,
           f.pc # "return" => f.of \notin Doomed(st),
           f.pc \in {"body", "spent"} => f.of \in Node
    PROVE  /\ WorkOf(<<f>> \o st, al, rw) \in Nat
           /\ WorkOf(<<f>> \o st, al, rw)
                  + (IF f.pc # "return" /\ f.of \in StandingIn(st, al, rw) THEN 7 ELSE 0)
                = WorkOf(st, al, rw)
                  + (CASE f.pc = "body" -> 7 [] f.pc = "spent" -> 2 [] OTHER -> 1)
  <1> DEFINE t == <<f>> \o st
             B == With(st, {"body"})
             S == With(st, {"spent"})
             T == StandingIn(st, al, rw)
  <1>1. /\ st \in Seq(FrameSet) /\ Len(st) \in Nat
        /\ B \subseteq Node \cap Doomed(st) /\ S \subseteq Node \cap Doomed(st)
    BY Counted
  <1>2. Len(t) = Len(st) + 1
    BY <1>1, Consed
  <1>3. /\ With(t, {"body"}) = IF f.pc = "body" THEN B \cup {f.of} ELSE B
        /\ With(t, {"spent"}) = IF f.pc = "spent" THEN S \cup {f.of} ELSE S
    <2>1. With(t, {"body"}) = IF f.pc \in {"body"} THEN B \cup {f.of} ELSE B
      BY <1>1, WithOnTop
    <2>2. With(t, {"spent"}) = IF f.pc \in {"spent"} THEN S \cup {f.of} ELSE S
      BY <1>1, WithOnTop
    <2> HIDE DEF t, B, S
    <2>3. QED BY <2>1, <2>2
  <1>4. StandingIn(t, al, rw) = IF f.pc = "return" THEN T ELSE T \ {f.of}
    <2>1. Doomed(t) = IF f.pc = "return" THEN Doomed(st) ELSE Doomed(st) \cup {f.of}
      BY <1>1, OnTop
    <2> HIDE DEF t
    <2>2. QED BY <2>1 DEF StandingIn
  <1>5. /\ Cardinality(B) \in Nat /\ Cardinality(S) \in Nat
        /\ Cardinality(T) \in Nat /\ Cardinality(rw) \in Nat
    BY <1>1, Counting DEF StandingIn
  <1>6. Cardinality(With(t, {"body"})) = Cardinality(B) + (IF f.pc = "body" THEN 1 ELSE 0)
    <2>1. f.pc = "body" => f.of \in Node /\ f.of \notin B
      BY <1>1
    <2>2. f.pc = "body" => Cardinality(B \cup {f.of}) = Cardinality(B) + 1
      BY <1>1, <2>1, Counting
    <2>3. QED BY <1>3, <1>5, <2>2
  <1>7. Cardinality(With(t, {"spent"})) = Cardinality(S) + (IF f.pc = "spent" THEN 1 ELSE 0)
    <2>1. f.pc = "spent" => f.of \in Node /\ f.of \notin S
      BY <1>1
    <2>2. f.pc = "spent" => Cardinality(S \cup {f.of}) = Cardinality(S) + 1
      BY <1>1, <2>1, Counting
    <2>3. QED BY <1>3, <1>5, <2>2
  <1>8. Cardinality(StandingIn(t, al, rw)) + (IF f.pc # "return" /\ f.of \in T THEN 1 ELSE 0)
            = Cardinality(T)
    <2>1. T \subseteq Node
      BY DEF StandingIn
    <2>2. f.of \in T => Cardinality(T \ {f.of}) + 1 = Cardinality(T)
      BY <2>1, Counting
    <2>3. f.of \notin T => T \ {f.of} = T
      OBVIOUS
    <2>4. QED BY <1>4, <1>5, <2>2, <2>3
  <1>9. Cardinality(StandingIn(t, al, rw)) \in Nat
    BY Counting DEF StandingIn
  <1> DEFINE b == Cardinality(B)
             s == Cardinality(S)
             k == Cardinality(StandingIn(t, al, rw))
             r == Cardinality(rw)
  <1>10. /\ WorkOf(t, al, rw) = (Len(st) + 1) + 6 * (b + (IF f.pc = "body" THEN 1 ELSE 0))
                                + (s + (IF f.pc = "spent" THEN 1 ELSE 0)) + 7 * k + 4 * r
         /\ WorkOf(st, al, rw) = Len(st) + 6 * b + s + 4 * r
                + 7 * (k + (IF f.pc # "return" /\ f.of \in T THEN 1 ELSE 0))
    <2>1. WorkOf(t, al, rw) = (Len(st) + 1) + 6 * (b + (IF f.pc = "body" THEN 1 ELSE 0))
                                + (s + (IF f.pc = "spent" THEN 1 ELSE 0)) + 7 * k + 4 * r
      BY <1>2, <1>6, <1>7 DEF WorkOf
    <2>2. WorkOf(st, al, rw) = Len(st) + 6 * b + s + 7 * Cardinality(T) + 4 * r
      BY DEF WorkOf
    <2> HIDE DEF b, s, k, r, T
    <2>3. b \in Nat /\ s \in Nat /\ r \in Nat /\ k \in Nat
      BY <1>5, <1>9 DEF b, s, r, k
    <2>4. Cardinality(T) = k + (IF f.pc # "return" /\ f.of \in T THEN 1 ELSE 0)
      BY <1>8 DEF k
    <2>5. QED BY <1>1, <2>1, <2>2, <2>3, <2>4
  <1> HIDE DEF b, s, k, r, T, t
  <1>11. b \in Nat /\ s \in Nat /\ r \in Nat /\ k \in Nat
    BY <1>5, <1>9 DEF b, s, r, k
  <1>12. WorkOf(t, al, rw) + (IF f.pc # "return" /\ f.of \in T THEN 7 ELSE 0)
             = WorkOf(st, al, rw)
               + (CASE f.pc = "body" -> 7 [] f.pc = "spent" -> 2 [] OTHER -> 1)
    <2> DEFINE w == WorkOf(t, al, rw)
               v == WorkOf(st, al, rw)
               n == Len(st)
    <2> HIDE DEF w, v, n
    <2>1. /\ w = (n + 1) + 6 * (b + (IF f.pc = "body" THEN 1 ELSE 0))
                   + (s + (IF f.pc = "spent" THEN 1 ELSE 0)) + 7 * k + 4 * r
          /\ v = n + 6 * b + s + 4 * r
                   + 7 * (k + (IF f.pc # "return" /\ f.of \in T THEN 1 ELSE 0))
          /\ n \in Nat
      BY <1>1, <1>10 DEF w, v, n
    <2>2. CASE f.pc = "body"
      BY <1>11, <2>1, <2>2 DEF w, v
    <2>3. CASE f.pc = "spent"
      BY <1>11, <2>1, <2>3 DEF w, v
    <2>4. CASE f.pc \notin {"body", "spent"}
      BY <1>11, <2>1, <2>4 DEF w, v
    <2>5. QED BY <2>2, <2>3, <2>4
  <1>13. WorkOf(t, al, rw) \in Nat
    BY <1>1, <1>10, <1>11
  <1>14. QED BY <1>12, <1>13 DEF t, T

\* A deletion that begins costs what the standing node it is of has cost.
LEMMA DeletionWork ==
    ASSUME NEW after, NEW al, NEW h, NEW rw, NEW old \in Node \cup {null},
           Nested(after, al, h), rw \subseteq Node,
           old # null => old \in al \ (Doomed(after) \cup rw)
    PROVE  WorkOf(Deletion(old, after), al, rw) = WorkOf(after, al, rw)
  <1>1. after \in Seq(FrameSet) /\ WorkOf(after, al, rw) \in Nat
    BY Counted
  <1>2. CASE old = null
    <2>1. <<>> \o after = after
      BY <1>1
    <2>2. QED BY <1>2, <2>1 DEF Deletion
  <1>3. CASE old # null
    <2> DEFINE f == Frame("body", old)
    <2>1. Deletion(old, after) = <<f>> \o after
      BY <1>3 DEF Deletion
    <2>2. f \in FrameSet /\ f.pc = "body" /\ f.of = old /\ old \in Node
      BY <1>3 DEF Frame, FrameSet, Obj
    <2> HIDE DEF f
    <2>3. f.of \in StandingIn(after, al, rw) /\ f.of \notin Doomed(after)
      BY <1>3, <2>2 DEF StandingIn
    <2>4. WorkOf(<<f>> \o after, al, rw) \in Nat
      BY <2>2, <2>3, PushWork
    <2>5. WorkOf(<<f>> \o after, al, rw) + 7 = WorkOf(after, al, rw) + 7
      BY <2>2, <2>3, PushWork
    <2>6. QED BY <1>1, <2>1, <2>4, <2>5
  <1>4. QED BY <1>2, <1>3

LEMMA ReturnWork ==
    ASSUME NEW st, NEW al, NEW h, NEW rw, NEW x \in Obj, Nested(st, al, h), rw \subseteq Node
    PROVE  WorkOf(<<Frame("return", x)>> \o st, al, rw) = WorkOf(st, al, rw) + 1
  <1> DEFINE f == Frame("return", x)
  <1>1. f \in FrameSet /\ f.pc = "return"
    BY DEF Frame, FrameSet
  <1>2. WorkOf(st, al, rw) \in Nat
    BY Counted
  <1> HIDE DEF f
  <1>3. WorkOf(<<f>> \o st, al, rw) = WorkOf(st, al, rw) + 1
    BY <1>1, <1>2, PushWork
  <1>4. QED BY <1>3 DEF f

LEMMA DestroyWork ==
    ASSUME NEW st, NEW al, NEW h, NEW rw, NEW x \in Obj, Nested(st, al, h),
           x \notin Doomed(st), rw \subseteq Node
    PROVE  /\ WorkOf(<<Frame("destroy", x)>> \o st, al, rw) \in Nat
           /\ x \in StandingIn(st, al, rw) =>
                  WorkOf(<<Frame("destroy", x)>> \o st, al, rw) + 6 = WorkOf(st, al, rw)
           /\ x \notin StandingIn(st, al, rw) =>
                  WorkOf(<<Frame("destroy", x)>> \o st, al, rw) = WorkOf(st, al, rw) + 1
  <1> DEFINE f == Frame("destroy", x)
  <1>1. f \in FrameSet /\ f.pc = "destroy" /\ f.of = x
    BY DEF Frame, FrameSet
  <1>2. WorkOf(st, al, rw) \in Nat
    BY Counted
  <1> HIDE DEF f
  <1>3. /\ WorkOf(<<f>> \o st, al, rw) \in Nat
        /\ WorkOf(<<f>> \o st, al, rw)
               + (IF x \in StandingIn(st, al, rw) THEN 7 ELSE 0) = WorkOf(st, al, rw) + 1
    BY <1>1, PushWork
  <1>4. /\ WorkOf(<<f>> \o st, al, rw) \in Nat
        /\ x \in StandingIn(st, al, rw) => WorkOf(<<f>> \o st, al, rw) + 6 = WorkOf(st, al, rw)
        /\ x \notin StandingIn(st, al, rw) =>
               WorkOf(<<f>> \o st, al, rw) = WorkOf(st, al, rw) + 1
    BY <1>2, <1>3
  <1>5. QED BY <1>4 DEF f

\* A body that makes its one call.
LEMMA CallerWork ==
    ASSUME IInv, UserRuns, OneCall, stack # <<>>
    PROVE  WorkOf(Caller, alive, raw) + 5 = WorkOf(stack, alive, raw)
  <1> DEFINE st == Tail(stack)
             n == stack[1].of
             f == Frame("body", n)
             g == Frame("spent", n)
  <1>1. Nested(stack, alive, hnd) /\ stack \in Seq(FrameSet) /\ raw \subseteq Node
    BY DEF IInv, Nested, Held
  <1>2. Head(stack) = stack[1] /\ stack[1] \in FrameSet /\ stack[1].pc = "body"
    BY <1>1, Pop DEF UserRuns
  <1>3. /\ Nested(st, alive, hnd) /\ st \in Seq(FrameSet)
        /\ n \notin Doomed(st) /\ n \in alive /\ n \in Node
        /\ Doomed(stack) = Doomed(st) \cup {n}
    <2>1. Nested(st, alive, hnd)
      BY <1>1, Pop
    <2>2. QED BY <1>1, <1>2, <2>1, Pop, Tailed
  <1>4. n \in StandingIn(st, alive, raw)
    <2>1. n \in Dying
      BY <1>1, <1>3, Now
    <2>2. n \notin raw
      BY <2>1 DEF IInv, Held
    <2>3. QED BY <1>3, <2>2 DEF StandingIn
  <1>5. stack = <<f>> \o st
    <2>1. stack[1] = f
      BY <1>2 DEF Frame, FrameSet
    <2>2. stack = <<stack[1]>> \o st
      BY <1>1, <1>2
    <2>3. QED BY <2>1, <2>2
  <1>6. Caller = <<g>> \o st
    BY <1>2 DEF Caller
  <1>7. /\ f \in FrameSet /\ f.pc = "body" /\ f.of = n
        /\ g \in FrameSet /\ g.pc = "spent" /\ g.of = n
    BY <1>3 DEF Frame, FrameSet, Obj
  <1> HIDE DEF st, n, f, g
  <1>8. WorkOf(st, alive, raw) \in Nat
    BY <1>1, <1>3, Counted
  <1>9. /\ WorkOf(stack, alive, raw) \in Nat
        /\ WorkOf(stack, alive, raw) + 7 = WorkOf(st, alive, raw) + 7
    <2>1. /\ WorkOf(<<f>> \o st, alive, raw) \in Nat
          /\ WorkOf(<<f>> \o st, alive, raw) + 7 = WorkOf(st, alive, raw) + 7
      BY <1>1, <1>3, <1>4, <1>7, PushWork
    <2>2. QED BY <1>5, <2>1
  <1>10. /\ WorkOf(Caller, alive, raw) \in Nat
         /\ WorkOf(Caller, alive, raw) + 7 = WorkOf(st, alive, raw) + 2
    BY <1>1, <1>3, <1>4, <1>6, <1>7, PushWork
  <1>11. \A a, b, c \in Nat : a + 7 = c + 7 /\ b + 7 = c + 2 => b + 5 = a
    OBVIOUS
  <1>12. QED BY <1>8, <1>9, <1>10, <1>11

\* What the stack costs apart from the nodes that stand or are the client's.
LEMMA RawWork ==
    ASSUME NEW st, NEW al, NEW h, NEW rw, Nested(st, al, h), rw \subseteq Node
    PROVE  \E w \in Nat : \A al2, rw2 :
               WorkOf(st, al2, rw2) =
                   w + 7 * Cardinality(StandingIn(st, al2, rw2)) + 4 * Cardinality(rw2)
  <1> DEFINE w == Len(st) + 6 * Cardinality(With(st, {"body"})) + Cardinality(With(st, {"spent"}))
  <1>1. w \in Nat
    <2>1. /\ Len(st) \in Nat
          /\ With(st, {"body"}) \subseteq Node /\ With(st, {"spent"}) \subseteq Node
      BY Counted
    <2>2. QED BY <2>1, Counting
  <1>2. \A al2, rw2 : WorkOf(st, al2, rw2) =
            w + 7 * Cardinality(StandingIn(st, al2, rw2)) + 4 * Cardinality(rw2)
    BY DEF WorkOf
  <1> HIDE DEF w
  <1>3. QED BY <1>1, <1>2

\* The client gives a node to an object, takes one from it, or allocates one.
LEMMA GivenWork ==
    ASSUME NEW st, NEW al, NEW h, NEW rw, Nested(st, al, h), rw \subseteq Node,
           NEW n \in Node, n \in rw, n \in al \ Doomed(st)
    PROVE  WorkOf(st, al, rw \ {n}) = WorkOf(st, al, rw) + 3
  <1>1. PICK w \in Nat : \A al2, rw2 : WorkOf(st, al2, rw2) =
            w + 7 * Cardinality(StandingIn(st, al2, rw2)) + 4 * Cardinality(rw2)
    BY RawWork
  <1> DEFINE T == StandingIn(st, al, rw)
             a == Cardinality(T)
             b == Cardinality(rw)
             c == Cardinality(rw \ {n})
  <1>2. StandingIn(st, al, rw \ {n}) = T \cup {n} /\ n \notin T /\ T \subseteq Node
    BY DEF StandingIn
  <1> HIDE DEF T
  <1>3. Cardinality(T \cup {n}) = a + 1 /\ a \in Nat
    BY <1>2, Counting
  <1>4. c + 1 = b /\ c \in Nat /\ b \in Nat
    BY Counting
  <1>5. /\ WorkOf(st, al, rw \ {n}) = w + 7 * (a + 1) + 4 * c
        /\ WorkOf(st, al, rw) = w + 7 * a + 4 * b
    BY <1>1, <1>2, <1>3 DEF T
  <1> HIDE DEF a, b, c
  <1>6. w + 7 * (a + 1) + 4 * c = w + 7 * a + 4 * b + 3
    BY <1>3, <1>4
  <1>7. QED BY <1>5, <1>6

LEMMA TakenWork ==
    ASSUME NEW st, NEW al, NEW h, NEW rw, Nested(st, al, h), rw \subseteq Node,
           NEW n \in Node, n \in StandingIn(st, al, rw)
    PROVE  WorkOf(st, al, rw) = WorkOf(st, al, rw \cup {n}) + 3
  <1>1. PICK w \in Nat : \A al2, rw2 : WorkOf(st, al2, rw2) =
            w + 7 * Cardinality(StandingIn(st, al2, rw2)) + 4 * Cardinality(rw2)
    BY RawWork
  <1> DEFINE T == StandingIn(st, al, rw)
             a == Cardinality(T)
             b == Cardinality(rw)
             c == Cardinality(T \ {n})
  <1>2. StandingIn(st, al, rw \cup {n}) = T \ {n} /\ n \in T /\ T \subseteq Node /\ n \notin rw
    BY DEF StandingIn
  <1> HIDE DEF T
  <1>3. Cardinality(rw \cup {n}) = b + 1 /\ b \in Nat
    BY <1>2, Counting
  <1>4. c + 1 = a /\ c \in Nat /\ a \in Nat
    BY <1>2, Counting
  <1>5. /\ WorkOf(st, al, rw \cup {n}) = w + 7 * c + 4 * (b + 1)
        /\ WorkOf(st, al, rw) = w + 7 * a + 4 * b
    BY <1>1, <1>2, <1>3 DEF T
  <1> HIDE DEF a, b, c
  <1>6. w + 7 * a + 4 * b = w + 7 * c + 4 * (b + 1) + 3
    BY <1>3, <1>4
  <1>7. QED BY <1>5, <1>6

LEMMA NewWork ==
    ASSUME NEW st, NEW al, NEW h, NEW rw, Nested(st, al, h), rw \subseteq Node,
           NEW n \in Node, n \notin al, n \notin rw
    PROVE  WorkOf(st, al \cup {n}, rw \cup {n}) = WorkOf(st, al, rw) + 4
  <1>1. PICK w \in Nat : \A al2, rw2 : WorkOf(st, al2, rw2) =
            w + 7 * Cardinality(StandingIn(st, al2, rw2)) + 4 * Cardinality(rw2)
    BY RawWork
  <1> DEFINE T == StandingIn(st, al, rw)
             a == Cardinality(T)
             b == Cardinality(rw)
  <1>2. StandingIn(st, al \cup {n}, rw \cup {n}) = T /\ T \subseteq Node
    BY DEF StandingIn
  <1> HIDE DEF T
  <1>3. Cardinality(rw \cup {n}) = b + 1 /\ b \in Nat /\ a \in Nat
    BY <1>2, Counting
  <1>4. /\ WorkOf(st, al \cup {n}, rw \cup {n}) = w + 7 * a + 4 * (b + 1)
        /\ WorkOf(st, al, rw) = w + 7 * a + 4 * b
    BY <1>1, <1>2, <1>3 DEF T
  <1> HIDE DEF a, b
  <1>5. w + 7 * a + 4 * (b + 1) = w + 7 * a + 4 * b + 4
    BY <1>3
  <1>6. QED BY <1>4, <1>5

LEMMA WorkIs ==
    /\ stack \in Seq(FrameSet) => Work = WorkOf(stack, alive, raw)
    /\ stack' \in Seq(FrameSet) => Work' = WorkOf(stack', alive', raw')
  <1>1. ASSUME NEW st \in Seq(FrameSet), NEW pcs
        PROVE  {st[i].of : i \in {j \in DOMAIN st : st[j].pc \in pcs}} = With(st, pcs)
    <2>1. DOMAIN st = 1 .. Len(st)
      OBVIOUS
    <2>2. QED BY <2>1 DEF With
  <1>2. ASSUME stack \in Seq(FrameSet) PROVE Work = WorkOf(stack, alive, raw)
    <2>1. /\ Frames({"body"}) = With(stack, {"body"})
          /\ Frames({"spent"}) = With(stack, {"spent"})
      BY <1>1, <1>2 DEF Frames
    <2>2. QED BY <1>2, <2>1, Now DEF Work, WorkOf, Standing, StandingIn
  <1>3. ASSUME stack' \in Seq(FrameSet) PROVE Work' = WorkOf(stack', alive', raw')
    <2>1. /\ Frames({"body"})' = With(stack', {"body"})
          /\ Frames({"spent"})' = With(stack', {"spent"})
      BY <1>1, <1>3 DEF Frames
    <2>2. QED BY <1>3, <2>1, Later DEF Work, WorkOf, Standing, StandingIn
  <1>4. QED BY <1>2, <1>3

\* Where the calls of a body begin.
LEMMA Spent ==
    ASSUME IInv, UserRuns, OneCall, stack # <<>>
    PROVE  /\ Nested(Caller, alive, hnd) /\ Caller \in Seq(FrameSet)
           /\ Doomed(Caller) = Dying
           /\ Caller = <<>> \/ Caller[1].pc # "destroy"
           /\ Work \in Nat /\ WorkOf(Caller, alive, raw) \in Nat
           /\ WorkOf(Caller, alive, raw) + 5 = Work
  <1>1. Nested(Caller, alive, hnd) /\ Doomed(Caller) = Dying
        /\ (Caller = <<>> \/ Caller[1].pc # "destroy")
    BY Calling
  <1>2. Nested(stack, alive, hnd) /\ raw \subseteq Node
    BY DEF IInv, Held
  <1>3. /\ Caller \in Seq(FrameSet) /\ WorkOf(Caller, alive, raw) \in Nat
        /\ stack \in Seq(FrameSet) /\ WorkOf(stack, alive, raw) \in Nat
    BY <1>1, <1>2, Counted
  <1>4. QED BY <1>1, <1>3, CallerWork, WorkIs

\* Every variable aside, a node is where its unique_ptr says.
LEMMA Stored ==
    ASSUME IInv, NEW x \in Obj, Usable(x), hnd[x] # null
    PROVE  /\ hnd[x] \in Node /\ hnd[x] \in alive \ (Dying \cup raw)
  BY DEF IInv, Held, Usable

LEMMA NoCallLess ==
    ASSUME IInv, UserRuns, OneCall, stack # <<>>, NoCall,
           WorkOf(Caller, alive', raw') \in Nat,
           WorkOf(Caller, alive', raw') =< WorkOf(Caller, alive, raw) + 4
    PROVE  Work' < Work
  <1>1. /\ Caller \in Seq(FrameSet) /\ WorkOf(Caller, alive, raw) \in Nat
        /\ WorkOf(Caller, alive, raw) + 5 = Work
    BY Spent
  <1>2. Work' = WorkOf(Caller, alive', raw')
    BY <1>1, WorkIs DEF NoCall
  <1>3. QED BY <1>1, <1>2

LEMMA NewLess ==
    ASSUME IInv, UserRuns, OneCall, stack # <<>>, NEW n \in Node, New(n)
    PROVE  Work' < Work
  <1>1. Nested(Caller, alive, hnd) /\ raw \subseteq Node /\ n \notin alive /\ n \notin raw
    BY Spent DEF IInv, Held, New
  <1>2. WorkOf(Caller, alive \cup {n}, raw \cup {n}) = WorkOf(Caller, alive, raw) + 4
    BY <1>1, NewWork
  <1>3. NoCall /\ WorkOf(Caller, alive', raw') = WorkOf(Caller, alive, raw) + 4
    BY <1>2 DEF New
  <1>4. WorkOf(Caller, alive, raw) \in Nat
    BY Spent
  <1>5. WorkOf(Caller, alive', raw') \in Nat
        /\ WorkOf(Caller, alive', raw') =< WorkOf(Caller, alive, raw) + 4
    BY <1>3, <1>4
  <1>6. QED BY <1>3, <1>5, NoCallLess

\* What the client hands over is deleted by an object from now on.
LEMMA Handed ==
    ASSUME IInv, NEW st, Nested(st, alive, hnd), Doomed(st) \subseteq Dying,
           NEW g \in raw \cup {null}
    PROVE  WorkOf(st, alive, raw \ {g}) = WorkOf(st, alive, raw)
                \/ WorkOf(st, alive, raw \ {g}) = WorkOf(st, alive, raw) + 3
  <1>1. raw \subseteq Node /\ raw \subseteq alive \ Dying
    BY DEF IInv, Held
  <1>2. CASE g \in raw
    BY <1>1, <1>2, GivenWork
  <1>3. CASE g = null
    <2>1. raw \ {g} = raw
      BY <1>1, <1>3, NestedAssumption DEF Obj
    <2>2. QED BY <2>1
  <1>4. QED BY <1>2, <1>3

\* A variable of the client costs nothing.
LEMMA VarIsFree ==
    ASSUME NEW st, NEW al, NEW rw, NEW v \in Var
    PROVE  WorkOf(st, al \cup {v}, rw) = WorkOf(st, al, rw)
  <1>1. StandingIn(st, al \cup {v}, rw) = StandingIn(st, al, rw)
    BY NestedAssumption DEF StandingIn
  <1>2. QED BY <1>1 DEF WorkOf

LEMMA ConstructLess ==
    ASSUME IInv, UserRuns, OneCall, stack # <<>>,
           NEW v \in Var, NEW g \in raw \cup {null}, Construct(v, g)
    PROVE  Work' < Work
  <1>1. WorkOf(Caller, alive, raw \ {g}) = WorkOf(Caller, alive, raw)
        \/ WorkOf(Caller, alive, raw \ {g}) = WorkOf(Caller, alive, raw) + 3
    BY Spent, Handed
  <1>2. NoCall /\ WorkOf(Caller, alive', raw') = WorkOf(Caller, alive, raw \ {g})
    BY VarIsFree DEF Construct
  <1>3. WorkOf(Caller, alive, raw) \in Nat
    BY Spent
  <1>4. WorkOf(Caller, alive', raw') \in Nat
        /\ WorkOf(Caller, alive', raw') =< WorkOf(Caller, alive, raw) + 4
    BY <1>1, <1>2, <1>3
  <1>5. QED BY <1>2, <1>4, NoCallLess

LEMMA MoveLess ==
    ASSUME IInv, UserRuns, OneCall, stack # <<>>, NEW x \in Obj, NEW y \in Obj
    PROVE  /\ x \in Var /\ MoveConstruct(x, y) => Work' < Work
           /\ Swap(x, y) => Work' < Work
  <1>1. WorkOf(Caller, alive, raw) \in Nat
        /\ WorkOf(Caller, alive, raw) =< WorkOf(Caller, alive, raw) + 4
    BY Spent
  <1>2. ASSUME x \in Var, MoveConstruct(x, y) PROVE Work' < Work
    <2>1. NoCall /\ raw' = raw /\ alive' = alive \cup {x}
      BY <1>2 DEF MoveConstruct
    <2>2. WorkOf(Caller, alive', raw') = WorkOf(Caller, alive, raw)
      BY <1>2, <2>1, VarIsFree
    <2>3. QED BY <1>1, <2>1, <2>2, NoCallLess
  <1>3. ASSUME Swap(x, y) PROVE Work' < Work
    <2>1. NoCall /\ raw' = raw /\ alive' = alive
      BY <1>3 DEF Swap
    <2>2. WorkOf(Caller, alive', raw') = WorkOf(Caller, alive, raw)
      BY <2>1
    <2>3. QED BY <1>1, <2>1, <2>2, NoCallLess
  <1>4. QED BY <1>2, <1>3

LEMMA ReleaseLess ==
    ASSUME IInv, UserRuns, OneCall, stack # <<>>, NEW x \in Obj, Release(x)
    PROVE  Work' < Work
  <1>1. NoCall /\ alive' = alive /\ raw' = raw \cup ({hnd[x]} \ {null}) /\ Usable(x)
    BY DEF Release
  <1>2. /\ Nested(Caller, alive, hnd) /\ Doomed(Caller) = Dying
        /\ WorkOf(Caller, alive, raw) \in Nat /\ raw \subseteq Node
    BY Spent DEF IInv, Held
  <1>3. WorkOf(Caller, alive, raw) =< WorkOf(Caller, alive, raw) + 4
    BY <1>2
  <1>4. CASE hnd[x] = null
    <2>1. raw' = raw
      BY <1>1, <1>4
    <2>2. WorkOf(Caller, alive', raw') = WorkOf(Caller, alive, raw)
      BY <1>1, <2>1
    <2>3. QED BY <1>1, <1>2, <1>3, <2>2, NoCallLess
  <1>5. CASE hnd[x] # null
    <2>1. hnd[x] \in Node /\ hnd[x] \in StandingIn(Caller, alive, raw)
      BY <1>1, <1>2, <1>5, Stored DEF StandingIn
    <2>2. raw' = raw \cup {hnd[x]} /\ raw' \subseteq Node
      BY <1>1, <1>2, <1>5, <2>1
    <2>3. WorkOf(Caller, alive, raw') + 3 = WorkOf(Caller, alive, raw)
      <3>1. \A n \in Node : n \in StandingIn(Caller, alive, raw) =>
                WorkOf(Caller, alive, raw) = WorkOf(Caller, alive, raw \cup {n}) + 3
        BY <1>2, TakenWork
      <3>2. QED BY <2>1, <2>2, <3>1
    <2>4. WorkOf(Caller, alive, raw') \in Nat
      BY <1>2, <2>2, Counted
    <2>5. WorkOf(Caller, alive, raw') =< WorkOf(Caller, alive, raw) + 4
      BY <1>2, <2>3, <2>4
    <2>6. alive' = alive
      BY <1>1
    <2>7. QED BY <1>1, <2>4, <2>5, <2>6, NoCallLess
  <1>6. QED BY <1>4, <1>5

------------------------------------------------------------------------------
(* Operations that call a deleter.                                           *)

LEMMA DisposeLess ==
    ASSUME NEW after, NEW old \in Node \cup {null}, Dispose(old, after), alive' = alive,
           Nested(after, alive, hnd), raw' \subseteq Node,
           old # null => old \in alive \ (Doomed(after) \cup raw')
    PROVE  Work' = WorkOf(after, alive, raw') /\ Work' \in Nat
  <1>1. after \in Seq(FrameSet) /\ WorkOf(after, alive, raw') \in Nat
    BY Counted
  <1>2. stack' = Deletion(old, after) /\ stack' \in Seq(FrameSet)
    BY <1>1, DisposeDooms
  <1>3. WorkOf(Deletion(old, after), alive, raw') = WorkOf(after, alive, raw')
    BY DeletionWork
  <1>4. QED BY <1>1, <1>2, <1>3, WorkIs

LEMMA DeleteLess ==
    ASSUME IInv, UserRuns, OneCall, stack # <<>>, NEW n \in Node, Delete(n)
    PROVE  Work' < Work
  <1>1. /\ Dispose(n, Caller) /\ alive' = alive /\ n \in raw /\ raw' = raw \ {n}
        /\ raw \subseteq Node /\ raw \subseteq alive \ Dying /\ n # null
    BY NestedAssumption DEF Delete, IInv, Held, Obj
  <1>2. /\ Nested(Caller, alive, hnd) /\ Doomed(Caller) = Dying
        /\ WorkOf(Caller, alive, raw) \in Nat /\ WorkOf(Caller, alive, raw) + 5 = Work
    BY Spent
  <1>3. Work' = WorkOf(Caller, alive, raw')
    BY <1>1, <1>2, DisposeLess
  <1>4. WorkOf(Caller, alive, raw \ {n}) = WorkOf(Caller, alive, raw) + 3
    BY <1>1, <1>2, GivenWork
  <1>5. QED BY <1>1, <1>2, <1>3, <1>4

LEMMA ResetLess ==
    ASSUME IInv, UserRuns, OneCall, stack # <<>>, NEW x \in Obj, NEW g \in raw \cup {null},
           Reset(x, g)
    PROVE  Work' < Work
  <1>1. /\ Dispose(hnd[x], Caller) /\ alive' = alive /\ raw' = raw \ {g} /\ Usable(x)
        /\ x \in alive /\ raw \subseteq Node /\ raw' \subseteq Node /\ hnd[x] \in Node \cup {null}
    BY DEF Reset, Usable, IInv, Held
  <1>2. /\ Nested(Caller, alive, hnd) /\ Doomed(Caller) = Dying
        /\ Caller = <<>> \/ Caller[1].pc # "destroy"
        /\ WorkOf(Caller, alive, raw) \in Nat /\ WorkOf(Caller, alive, raw) + 5 = Work
    BY Spent
  <1>3. hnd[x] # null => hnd[x] \in alive \ (Doomed(Caller) \cup raw')
    BY <1>1, <1>2, Stored
  <1>4. Work' = WorkOf(Caller, alive, raw')
    BY <1>1, <1>2, <1>3, DisposeLess
  <1>5. WorkOf(Caller, alive, raw') = WorkOf(Caller, alive, raw)
        \/ WorkOf(Caller, alive, raw') = WorkOf(Caller, alive, raw) + 3
    BY <1>1, <1>2, Handed
  <1>6. QED BY <1>2, <1>4, <1>5

LEMMA MoveAssignLess ==
    ASSUME IInv, UserRuns, OneCall, stack # <<>>, NEW x \in Obj, NEW y \in Obj,
           MoveAssign(x, y)
    PROVE  Work' < Work
  <1> DEFINE below == <<Frame("return", x)>> \o Caller
             after == <<Frame("return", y)>> \o below
  <1>1. /\ Nested(Caller, alive, hnd) /\ Doomed(Caller) = Dying /\ Caller \in Seq(FrameSet)
        /\ Caller = <<>> \/ Caller[1].pc # "destroy"
        /\ WorkOf(Caller, alive, raw) \in Nat /\ WorkOf(Caller, alive, raw) + 5 = Work
    BY Spent
  <1>2. /\ Dispose(hnd[x], after) /\ alive' = alive /\ raw' = raw /\ Usable(x)
        /\ x \in alive /\ y \in alive /\ raw \subseteq Node /\ hnd[x] \in Node \cup {null}
    BY <1>1, TwoReturns DEF MoveAssign, Usable, IInv, Held
  <1>3. /\ Nested(below, alive, hnd) /\ Doomed(below) = Dying /\ below[1].pc = "return"
        /\ WorkOf(below, alive, raw) = WorkOf(Caller, alive, raw) + 1
    BY <1>1, <1>2, Returning, ReturnWork
  <1> HIDE DEF below
  <1>4. /\ Nested(after, alive, hnd) /\ Doomed(after) = Dying
        /\ WorkOf(after, alive, raw) = WorkOf(below, alive, raw) + 1
    <2>1. below = <<>> \/ below[1].pc # "destroy"
      BY <1>3
    <2>2. QED BY <1>2, <1>3, <2>1, Returning, ReturnWork
  <1> HIDE DEF after
  <1>5. hnd[x] # null => hnd[x] \in alive \ (Doomed(after) \cup raw')
    BY <1>2, <1>4, Stored
  <1>6. Work' = WorkOf(after, alive, raw')
    BY <1>2, <1>4, <1>5, DisposeLess
  <1>7. QED BY <1>1, <1>2, <1>3, <1>4, <1>6

LEMMA DestroyLess ==
    ASSUME IInv, UserRuns, OneCall, stack # <<>>, NEW v \in Obj, Destroy(v)
    PROVE  Work' < Work
  <1> DEFINE after == <<Frame("destroy", v)>> \o Caller
  <1>1. /\ Nested(Caller, alive, hnd) /\ Doomed(Caller) = Dying
        /\ Caller = <<>> \/ Caller[1].pc # "destroy"
        /\ WorkOf(Caller, alive, raw) \in Nat /\ WorkOf(Caller, alive, raw) + 5 = Work
    BY Spent
  <1>2. /\ Dispose(hnd[v], after) /\ alive' = alive /\ raw' = raw /\ Usable(v) /\ v \in Var
        /\ v \in alive /\ raw \subseteq Node /\ hnd[v] \in Node \cup {null}
    BY DEF Destroy, Usable, IInv, Held
  <1>3. v \notin Node /\ v \notin Dying
    BY <1>2, VarDoomedOnce, NestedAssumption DEF Usable
  <1>4. /\ Nested(after, alive, hnd) /\ Doomed(after) = Dying \cup {v}
        /\ WorkOf(after, alive, raw) = WorkOf(Caller, alive, raw) + 1
    <2>1. Expects(Caller, hnd, v)
      BY <1>1 DEF Expects
    <2>2. v \notin StandingIn(Caller, alive, raw)
      BY <1>3 DEF StandingIn
    <2>3. QED BY <1>1, <1>2, <1>3, <2>1, <2>2, Destroying, DestroyWork
  <1> HIDE DEF after
  <1>5. hnd[v] # null => hnd[v] \in alive \ (Doomed(after) \cup raw')
    BY <1>2, <1>3, <1>4, Stored
  <1>6. Work' = WorkOf(after, alive, raw')
    BY <1>2, <1>4, <1>5, DisposeLess
  <1>7. QED BY <1>1, <1>2, <1>4, <1>6

------------------------------------------------------------------------------
(* Operations that go on.                                                    *)

LEMMA Unwound ==
    ASSUME IInv, stack # <<>>
    PROVE  LET x  == stack[1].of
               pc == stack[1].pc
               w  == WorkOf(Tail(stack), alive, raw)
           IN  /\ Head(stack) = stack[1] /\ stack[1] \in FrameSet
               /\ Nested(Tail(stack), alive, hnd) /\ Tail(stack) \in Seq(FrameSet)
               /\ w \in Nat /\ Work \in Nat
               /\ pc # "return" => x \in alive \ (Doomed(Tail(stack)) \cup raw)
               /\ pc = "body" => Work = w
               /\ pc = "spent" => Work + 5 = w
               /\ pc = "destroy" /\ x \in Node => Work + 6 = w
               /\ pc = "destroy" /\ x \notin Node => Work = w + 1
               /\ pc = "return" => Work = w + 1
  <1> DEFINE st == Tail(stack)
             f  == stack[1]
             w  == WorkOf(st, alive, raw)
  <1>1. Nested(stack, alive, hnd) /\ stack \in Seq(FrameSet) /\ raw \subseteq Node
    BY DEF IInv, Nested, Held
  <1>2. Head(stack) = f /\ f \in FrameSet /\ Nested(st, alive, hnd)
    BY <1>1, Pop
  <1>3. /\ st \in Seq(FrameSet) /\ w \in Nat
        /\ WorkOf(stack, alive, raw) \in Nat /\ Work = WorkOf(stack, alive, raw)
    BY <1>1, <1>2, Counted, WorkIs
  <1>4. f.pc # "return" => f.of \in alive \ (Doomed(st) \cup raw)
    <2>1. f.pc # "return" => Doomed(stack) = Doomed(st) \cup {f.of}
                             /\ f.of \in alive /\ f.of \notin Doomed(st)
      BY <1>1, Pop
    <2>2. Dying = Doomed(stack)
      BY <1>1, Now
    <2>3. raw \subseteq alive \ Dying
      BY DEF IInv, Held
    <2>4. QED BY <2>1, <2>2, <2>3
  <1>5. f.pc \in {"body", "spent"} => f.of \in Node
    BY <1>1, Pop
  <1>6. stack = <<f>> \o st
    BY <1>1, <1>2
  <1>7. f.pc \in {"body", "spent", "destroy", "return"}
    BY <1>2 DEF FrameSet
  <1>8. f.pc # "return" => (f.of \in StandingIn(st, alive, raw) <=> f.of \in Node)
    BY <1>4 DEF StandingIn
  <1> HIDE DEF st, f
  <1>9. WorkOf(<<f>> \o st, alive, raw)
            + (IF f.pc # "return" /\ f.of \in StandingIn(st, alive, raw) THEN 7 ELSE 0)
          = w + (CASE f.pc = "body" -> 7 [] f.pc = "spent" -> 2 [] OTHER -> 1)
    BY <1>1, <1>2, <1>4, <1>5, PushWork
  <1>10. Work + (IF f.pc # "return" /\ f.of \in Node THEN 7 ELSE 0)
          = w + (CASE f.pc = "body" -> 7 [] f.pc = "spent" -> 2 [] OTHER -> 1)
    BY <1>3, <1>6, <1>8, <1>9
  <1> DEFINE u == Work
  <1> HIDE DEF w, u
  <1>11. u \in Nat /\ w \in Nat
    BY <1>3 DEF u, w
  <1>12. u + (IF f.pc # "return" /\ f.of \in Node THEN 7 ELSE 0)
          = w + (CASE f.pc = "body" -> 7 [] f.pc = "spent" -> 2 [] OTHER -> 1)
    BY <1>10 DEF u
  <1>13. f.pc = "body" => u = w
    BY <1>5, <1>11, <1>12
  <1>14. f.pc = "spent" => u + 5 = w
    BY <1>5, <1>11, <1>12
  <1>15. f.pc = "destroy" => IF f.of \in Node THEN u + 6 = w ELSE u = w + 1
    BY <1>11, <1>12
  <1>16. f.pc = "return" => u = w + 1
    BY <1>11, <1>12
  <1>17. QED BY <1>2, <1>3, <1>4, <1>13, <1>14, <1>15, <1>16 DEF st, f, u, w

LEMMA EndBodyLess ==
    ASSUME IInv, stack # <<>>, EndBody
    PROVE  Work' < Work
  <1>1. /\ Head(stack) = stack[1] /\ stack[1] \in FrameSet
        /\ Nested(Tail(stack), alive, hnd) /\ Tail(stack) \in Seq(FrameSet)
        /\ WorkOf(Tail(stack), alive, raw) \in Nat /\ Work \in Nat
        /\ stack[1].pc # "return" => stack[1].of \in alive \ (Doomed(Tail(stack)) \cup raw)
        /\ stack[1].pc = "body" => Work = WorkOf(Tail(stack), alive, raw)
        /\ stack[1].pc = "spent" => Work + 5 = WorkOf(Tail(stack), alive, raw)
    BY Unwound
  <1>2. SUFFICES ASSUME NEW n \in Node, n = stack[1].of, NEW rest, rest = Tail(stack)
                 PROVE  Work' < Work
    BY ContinueDooms
  <1> DEFINE after == <<Frame("destroy", n)>> \o rest
  <1>3. stack[1].pc \in {"body", "spent"} /\ alive' = alive /\ raw' = raw
    BY <1>1 DEF EndBody
  <1>4. /\ Dispose(hnd[n], after) /\ n \in Obj /\ Usable(n) /\ raw \subseteq Node
        /\ hnd[n] \in Node \cup {null} /\ n \in Dying /\ Dying \subseteq alive
    BY <1>2, ContinueDooms, Answering DEF Usable, Obj
  <1>5. Nested(stack, alive, hnd) /\ Dying = Doomed(stack)
    BY Now DEF IInv, Nested
  <1>6. Expects(rest, hnd, n) /\ Doomed(stack) = Doomed(rest) \cup {n}
    BY <1>2, <1>3, <1>5, Pop
  <1>7. n \in alive \ (Doomed(rest) \cup raw) /\ n \in StandingIn(rest, alive, raw)
    BY <1>1, <1>2, <1>3 DEF StandingIn
  <1>8. /\ Nested(after, alive, hnd) /\ Doomed(after) = Doomed(rest) \cup {n}
        /\ WorkOf(after, alive, raw) \in Nat
        /\ WorkOf(after, alive, raw) + 6 = WorkOf(rest, alive, raw)
    <2>1. Nested(rest, alive, hnd)
      BY <1>1, <1>2
    <2>2. Nested(after, alive, hnd) /\ Doomed(after) = Doomed(rest) \cup {n}
      <3>1. n \in Obj /\ n \in alive /\ n \notin Doomed(rest) /\ Expects(rest, hnd, n)
        BY <1>4, <1>6, <1>7
      <3>2. /\ Nested(<<Frame("destroy", n)>> \o rest, alive, hnd)
            /\ Doomed(<<Frame("destroy", n)>> \o rest) = Doomed(rest) \cup {n}
        BY ONLY <2>1, <3>1, Destroying
      <3>3. QED BY <3>2
    <2>3. /\ WorkOf(after, alive, raw) \in Nat
          /\ WorkOf(after, alive, raw) + 6 = WorkOf(rest, alive, raw)
      BY <1>4, <1>7, <2>1, DestroyWork
    <2>4. QED BY <2>2, <2>3
  <1> HIDE DEF after
  <1>9. hnd[n] # null => hnd[n] \in alive \ (Doomed(after) \cup raw')
    BY <1>3, <1>4, <1>5, <1>6, <1>8, Stored
  <1>10. Work' = WorkOf(after, alive, raw')
    BY <1>3, <1>4, <1>8, <1>9, DisposeLess
  <1>11. Work = WorkOf(rest, alive, raw) \/ Work + 5 = WorkOf(rest, alive, raw)
    BY <1>1, <1>2, <1>3
  <1>12. QED BY <1>1, <1>2, <1>3, <1>8, <1>10, <1>11

\* A node whose deletion is over stands no more.
LEMMA GoneWork ==
    ASSUME NEW st, NEW al, NEW h, NEW rw, Nested(st, al, h), rw \subseteq Node,
           NEW n \in Node, n \in StandingIn(st, al, rw)
    PROVE  WorkOf(st, al, rw) = WorkOf(st, al \ {n}, rw) + 7
  <1>1. PICK w \in Nat : \A al2, rw2 : WorkOf(st, al2, rw2) =
            w + 7 * Cardinality(StandingIn(st, al2, rw2)) + 4 * Cardinality(rw2)
    BY RawWork
  <1> DEFINE T == StandingIn(st, al, rw)
             a == Cardinality(T)
             b == Cardinality(rw)
             c == Cardinality(T \ {n})
  <1>2. StandingIn(st, al \ {n}, rw) = T \ {n} /\ n \in T /\ T \subseteq Node
    BY DEF StandingIn
  <1> HIDE DEF T
  <1>3. c + 1 = a /\ c \in Nat /\ a \in Nat /\ b \in Nat
    BY <1>2, Counting
  <1>4. /\ WorkOf(st, al \ {n}, rw) = w + 7 * c + 4 * b
        /\ WorkOf(st, al, rw) = w + 7 * a + 4 * b
    BY <1>1, <1>2 DEF T
  <1> HIDE DEF a, b, c
  <1>5. w + 7 * a + 4 * b = w + 7 * c + 4 * b + 7
    BY <1>3
  <1>6. QED BY <1>4, <1>5

LEMMA EndDestroyLess ==
    ASSUME IInv, stack # <<>>, EndDestroy
    PROVE  Work' < Work
  <1>1. /\ Head(stack) = stack[1] /\ stack[1] \in FrameSet
        /\ Nested(Tail(stack), alive, hnd) /\ Tail(stack) \in Seq(FrameSet)
        /\ WorkOf(Tail(stack), alive, raw) \in Nat /\ Work \in Nat
        /\ stack[1].pc # "return" => stack[1].of \in alive \ (Doomed(Tail(stack)) \cup raw)
        /\ stack[1].pc = "destroy" /\ stack[1].of \in Node =>
               Work + 6 = WorkOf(Tail(stack), alive, raw)
        /\ stack[1].pc = "destroy" /\ stack[1].of \notin Node =>
               Work = WorkOf(Tail(stack), alive, raw) + 1
    BY Unwound
  <1>2. /\ stack' = Tail(stack) /\ alive' = alive \ {stack[1].of} /\ raw' = raw
        /\ stack[1].pc = "destroy" /\ stack[1].of \in Obj /\ raw \subseteq Node
    BY <1>1, ContinueDooms DEF EndDestroy, IInv, Held
  <1>3. SUFFICES ASSUME NEW x \in Obj, x = stack[1].of, NEW st, st = Tail(stack)
                 PROVE  Work' < Work
    BY <1>2
  <1>4. Work' = WorkOf(st, alive \ {x}, raw)
    BY <1>1, <1>2, <1>3, WorkIs
  <1>5. x \in alive \ (Doomed(st) \cup raw)
    BY <1>1, <1>2, <1>3
  <1>6. CASE x \in Node
    <2>1. WorkOf(st, alive, raw) = WorkOf(st, alive \ {x}, raw) + 7
      <3>1. x \in StandingIn(st, alive, raw)
        BY <1>5, <1>6 DEF StandingIn
      <3>2. QED BY <1>1, <1>2, <1>3, <1>6, <3>1, GoneWork
    <2>2. Work + 6 = WorkOf(st, alive, raw)
      BY <1>1, <1>2, <1>3, <1>6
    <2>3. WorkOf(st, alive \ {x}, raw) \in Nat
      <3>1. Nested(st, alive, hnd)
        BY <1>1, <1>3
      <3>2. PICK w \in Nat : \A al2, rw2 : WorkOf(st, al2, rw2) =
                w + 7 * Cardinality(StandingIn(st, al2, rw2)) + 4 * Cardinality(rw2)
        BY <1>2, <3>1, RawWork
      <3>3. StandingIn(st, alive \ {x}, raw) \subseteq Node
        BY DEF StandingIn
      <3>4. Cardinality(StandingIn(st, alive \ {x}, raw)) \in Nat /\ Cardinality(raw) \in Nat
        BY <1>2, <3>3, Counting
      <3>5. QED BY <3>2, <3>4
    <2>4. QED BY <1>1, <1>4, <2>1, <2>2, <2>3
  <1>7. CASE x \notin Node
    <2>1. x \in Var
      BY <1>7 DEF Obj
    <2>2. alive = (alive \ {x}) \cup {x}
      BY <1>5
    <2>3. WorkOf(st, (alive \ {x}) \cup {x}, raw) = WorkOf(st, alive \ {x}, raw)
      BY <2>1, VarIsFree
    <2>4. WorkOf(st, alive, raw) = WorkOf(st, alive \ {x}, raw)
      BY <2>2, <2>3
    <2>5. Work = WorkOf(st, alive, raw) + 1
      BY <1>1, <1>2, <1>3, <1>7
    <2>6. QED BY <1>1, <1>3, <1>4, <2>4, <2>5
  <1>8. QED BY <1>6, <1>7

LEMMA ReturnLess ==
    ASSUME IInv, stack # <<>>, Return
    PROVE  Work' < Work
  <1>1. /\ Head(stack) = stack[1] /\ Tail(stack) \in Seq(FrameSet)
        /\ WorkOf(Tail(stack), alive, raw) \in Nat /\ Work \in Nat
        /\ stack[1].pc = "return" => Work = WorkOf(Tail(stack), alive, raw) + 1
    BY Unwound
  <1>2. stack[1].pc = "return" /\ stack' = Tail(stack) /\ alive' = alive /\ raw' = raw
    BY <1>1 DEF Return
  <1>3. Work' = WorkOf(Tail(stack), alive, raw)
    BY <1>1, <1>2, WorkIs
  <1>4. QED BY <1>1, <1>2, <1>3

LEMMA StepLess ==
    ASSUME IInv, OneCall, stack # <<>>, Next
    PROVE  Work' < Work
  <1>1. CASE UserRuns /\ UserCall
    <2>1. \A n \in Node : New(n) \/ Delete(n) => Work' < Work
      BY <1>1, NewLess, DeleteLess
    <2>2. \A v \in Var, g \in raw \cup {null} : Construct(v, g) => Work' < Work
      BY <1>1, ConstructLess
    <2>3. \A x \in Obj : Release(x) \/ Destroy(x) => Work' < Work
      BY <1>1, ReleaseLess, DestroyLess
    <2>4. \A x \in Obj, g \in raw \cup {null} : Reset(x, g) => Work' < Work
      BY <1>1, ResetLess
    <2>5. \A x, y \in Obj : MoveAssign(x, y) \/ Swap(x, y) => Work' < Work
      BY <1>1, MoveAssignLess, MoveLess
    <2>6. \A v \in Var, y \in Obj : MoveConstruct(v, y) => Work' < Work
      BY <1>1, MoveLess DEF Obj
    <2>7. QED BY <1>1, <2>1, <2>2, <2>3, <2>4, <2>5, <2>6 DEF UserCall
  <1>2. CASE Continue
    BY <1>2, EndBodyLess, EndDestroyLess, ReturnLess DEF Continue
  <1>3. QED BY <1>1, <1>2 DEF Next

\* A destructor that makes one call only cannot keep the library busy: whatever is
\* called while reset, operator= or ~unique_ptr is interrupted, less is left to do.
THEOREM ReentrancyEnds == Spec => WorkDecreases
  <1>1. IInv /\ [Next]_vars => [OneCall /\ stack # <<>> => Work' < Work]_vars
    BY StepLess
  <1>2. QED BY <1>1, Invariance, PTL DEF Spec, WorkDecreases

==============================================================================

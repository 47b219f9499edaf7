------------------------------ MODULE Generator ------------------------------
(***************************************************************************)
(* unique_coroutine_handle with the client the repository has for it, the   *)
(* Generator of examples/UniqueCoroutineHandle.cpp: a class around one      *)
(* handle that owns a suspended coroutine, and iterators that keep a plain  *)
(* copy of the handle.  The objects of UniqueRc are generators, its         *)
(* resources coroutine frames.  The coroutine is range(first, last).  A     *)
(* traversal uses an iterator as a range-based for loop does; its body may  *)
(* do anything with generators, the one that is traversed included.         *)
(***************************************************************************)
EXTENDS UniqueRc, InvalidHandlePolicy, Integers, Sequences

CONSTANTS
    Traversal,    \* the for loops, or other users of an iterator
    Bounds,       \* pairs <<first, last>> that range is called with
    Destroying,   \* the tag of coroutine_destroy
    NoValue,      \* an empty std::optional
    NoFrame       \* no coroutine is suspended here

ASSUME GeneratorAssumption ==
    /\ Bounds \subseteq Int \X Int
    /\ NoValue \notin Int
    /\ null \notin Resource

VARIABLES
    co,      \* [Resource -> frame or NoFrame], the suspended coroutines
    at,      \* where each traversal is: what it does next
    iter,    \* the handle in its iterator; null when there is none
    got      \* per frame: the values traversals have read, in order

loops == <<at, iter, got>>
gvars == <<vars, co, loops>>

Idle(l) == at[l] = "idle"

\* A suspended coroutine: promise().current_value, done(), and the local
\* variables, first being the value it was called with and next its present one.
Frame(first, next, last, current, done) ==
    [first |-> first, next |-> next, last |-> last,
     current |-> current, done |-> done]

Suspended(f) == f \in Resource /\ res[f] # Closed

------------------------------------------------------------------------------
(* What unique_coroutine_handle<promise_type> passes to unique_rc.           *)

\* coroutine_handles are equal when they refer to one frame.
CoroCompared   == [h \in Handle |-> h]

CoroTag        == {Destroying}
CoroCloses     == {<<Destroying, Destroying>>}
CoroTagOf      == [k \in Kind |-> CoroTag]
CoroDefaultTag == [k \in Kind |-> Destroying]
CoroTraits     == [k \in Kind |-> Trait]
CoroResourceOf == [k \in Kind |-> Resource]
CoroFailureOf  == [k \in Kind |-> {}]
CoroInvalidOf  == [k \in Kind |-> CoroPolicy(Handle).invalid]
CoroOwnedOf    == [k \in Kind |-> CoroPolicy(Handle).owned]

IsCoroutineHandle ==
    /\ Compared = CoroCompared /\ Tag = CoroTag /\ Closes = CoroCloses
    /\ TagOf = CoroTagOf /\ DefaultTag = CoroDefaultTag /\ Traits = CoroTraits
    /\ ResourceOf = CoroResourceOf /\ FailureOf = CoroFailureOf
    /\ InvalidOf = CoroInvalidOf /\ OwnedOf = CoroOwnedOf
    /\ Constructs = {} /\ Assigns = {}

------------------------------------------------------------------------------
(* The coroutine.                                                            *)

\* Slip: co_yield first, without the increment.
ResumedStays(c) ==
    IF c.next < c.last THEN [c EXCEPT !.current = c.next]
                       ELSE [c EXCEPT !.done = TRUE]

\* One run of the body of range, from where it was suspended to the next
\* co_yield, where first++ is stored in current_value, or to the end.
Resumed(c) ==
    IF c.next < c.last THEN [c EXCEPT !.current = c.next, !.next = c.next + 1]
                       ELSE [c EXCEPT !.done = TRUE]

\* resume() of a coroutine that is destroyed or at its final suspension point is
\* undefined.
Resume(f) ==
    LET defined == Suspended(f) /\ ~co[f].done
    IN  /\ co' = IF defined THEN [co EXCEPT ![f] = Resumed(@)] ELSE co
        /\ fault' = (fault \/ ~defined)

\* Slip: initial_suspend returns suspend_never.
CallEager(first, last) == Resumed(Frame(first, first, last, NoValue, FALSE))

\* A call of range: the coroutine is suspended before its body begins.
CallRange(first, last) == Frame(first, first, last, NoValue, FALSE)

------------------------------------------------------------------------------
(* Generators.                                                               *)

GenInit ==
    /\ Init
    /\ co = [f \in Resource |-> NoFrame]
    /\ at = [l \in Traversal |-> "idle"]
    /\ iter = [l \in Traversal |-> null]
    /\ got = [f \in Resource |-> <<>>]

\* range(first, last): get_return_object makes a generator of the new frame.
Range(x, f, first, last) ==
    /\ BeginOpened(x, f, DefaultTag[KindOf[x]])
    /\ co' = [co EXCEPT ![f] = CallRange(first, last)]
    /\ UNCHANGED loops

\* A frame that is destroyed leaves nothing behind.
Others ==
    /\ co'  = [f \in Resource |-> IF res'[f] = Closed THEN NoFrame ELSE co[f]]
    /\ got' = [f \in Resource |-> IF res'[f] = Closed THEN <<>> ELSE got[f]]
    /\ UNCHANGED <<at, iter>>

\* The client does not dispose of a frame that is being traversed.
Untraversed(x) == Bool(x) => \A l \in Traversal : iter[l] # hnd[x]

\* Generator(), Generator(Generator &&), the assignment operator, ~Generator()
MoveGenerator ==
    /\ \/ \E x \in Rc : ConstructEmpty(x)
       \/ \E x \in Rc : SelfMoveAssign(x)
       \/ \E x \in Rc : Untraversed(x) /\ Destroy(x)
       \/ \E x, y \in Rc : MoveConstruct(x, y)
       \/ \E x, y \in Rc : Untraversed(x) /\ MoveAssign(x, y)
    /\ Others

------------------------------------------------------------------------------
(* Traversals.                                                               *)

Only(changed) == UNCHANGED <<res, raw, alive, hnd, del, aborted, changed>>

GoTo(l, pc) == at' = [at EXCEPT ![l] = pc]

\* Slip: a generator without a coroutine resumes it all the same.
BeginAlways(l, x) ==
    /\ Idle(l)
    /\ Live(x)
    /\ Untraversed(x)
    /\ Resume(hnd[x])
    /\ iter' = [iter EXCEPT ![l] = hnd[x]]
    /\ GoTo(l, "test")
    /\ Only(got)

\* begin(): a coroutine is resumed and the handle copied.  The client begins no
\* second traversal of a coroutine while one is under way, nor of a finished one.
BeginIter(l, x) ==
    /\ Idle(l)
    /\ Live(x)
    /\ Untraversed(x)
    /\ Bool(x) => ~co[hnd[x]].done
    /\ IF Bool(x) THEN Resume(hnd[x]) ELSE UNCHANGED <<co, fault>>
    /\ iter' = [iter EXCEPT ![l] = hnd[x]]
    /\ GoTo(l, "test")
    /\ Only(got)

\* done() of the coroutine; undefined, so either, of a destroyed one
Done(f) == Suspended(f) => co[f].done

\* Slip: an iterator without a coroutine is not at the end.
AtEndDone(l) == iter[l] # null /\ Done(iter[l])

\* operator==(default_sentinel_t)
AtEnd(l) == iter[l] # null => Done(iter[l])

Leave(l) ==
    /\ iter' = [iter EXCEPT ![l] = null]
    /\ GoTo(l, "idle")

TestEnd(l) ==
    /\ at[l] = "test"
    /\ fault' = (iter[l] # null /\ ~Suspended(iter[l]))
    /\ \/ AtEnd(l) /\ Leave(l)
       \/ ~AtEnd(l) /\ GoTo(l, "read") /\ UNCHANGED iter
    /\ Only(<<co, got>>)

\* operator*: undefined without a coroutine, or with one that yielded nothing
Read(l) ==
    LET f       == iter[l]
        defined == f # null /\ Suspended(f) /\ co[f].current # NoValue
    IN  /\ at[l] = "read"
        /\ fault' = ~defined
        /\ got' = IF defined THEN [got EXCEPT ![f] = Append(@, co[f].current)]
                             ELSE got
        /\ GoTo(l, "body")
        /\ Only(<<co, iter>>)

\* The body ends: operator++
Advance(l) ==
    /\ at[l] = "body"
    /\ Resume(iter[l])
    /\ GoTo(l, "test")
    /\ Only(<<iter, got>>)

\* The body leaves the loop.
Break(l) ==
    /\ at[l] = "body"
    /\ Leave(l)
    /\ Only(<<co, got, fault>>)

Continue(l) == ~fault /\ (TestEnd(l) \/ Read(l) \/ Advance(l))

GenNext ==
    \/ \E l \in Traversal : Continue(l)
    \/ /\ ~fault
       /\ \/ \E x \in Rc, f \in Resource, b \in Bounds : Range(x, f, b[1], b[2])
          \/ MoveGenerator
          \/ \E l \in Traversal, x \in Rc : BeginIter(l, x)
          \/ \E l \in Traversal : Break(l)

GenSpec == GenInit /\ [][GenNext]_gvars

\* A loop goes on, which takes in that its body ends.
GenFairSpec == GenSpec /\ \A l \in Traversal : WF_gvars(Continue(l))

------------------------------------------------------------------------------
(* Properties; NoFault and NoLeak of UniqueRc, too, are about coroutines now. *)

\* The value at which a traversal of f is, which it has not read yet.
Pending(f) == \E l \in Traversal : iter[l] = f /\ at[l] \in {"test", "read"}

Unread(f) == IF Pending(f) /\ ~co[f].done THEN 1 ELSE 0

FirstValues(a, n) == [i \in 1 .. n |-> a + i - 1]

\* What first has become when the coroutine ends.
EndOf(c) == IF c.first < c.last THEN c.last ELSE c.first

InOrder(f) ==
    /\ got[f] = FirstValues(co[f].first, co[f].next - co[f].first - Unread(f))
    /\ co[f].done => co[f].next = EndOf(co[f])

\* Whatever generators a coroutine is moved through while it is traversed, and
\* if a traversal is broken off and another goes on, the values it computes are
\* read in order, each once, and at its end all of them have been.
EachValueOnce == \A f \in Resource : Suspended(f) => InOrder(f)

\* What the properties rest on: an iterator's coroutine exists and is its alone,
\* and where the traversal is tells what the coroutine has computed.
FrameOK(c) ==
    /\ c \in [first : Int, next : Int, last : Int,
              current : Int \cup {NoValue}, done : BOOLEAN]
    /\ c.first =< c.next
    /\ c.next = c.first \/ c.next =< c.last

GenTypeOK ==
    /\ \A f \in Resource : Suspended(f) => FrameOK(co[f])
    /\ DOMAIN co = Resource
    /\ at \in [Traversal -> {"idle", "test", "read", "body"}]
    /\ iter \in [Traversal -> Resource \cup {null}]
    /\ DOMAIN got = Resource
    /\ \A f \in Resource : ~Suspended(f) => got[f] = <<>>

Traversed ==
    /\ \A l \in Traversal : iter[l] # null => ~Idle(l) /\ Suspended(iter[l])
    /\ \A l, m \in Traversal : iter[l] = iter[m] /\ iter[l] # null => l = m
    /\ \A l \in Traversal : at[l] \in {"read", "body"} =>
          iter[l] # null /\ ~co[iter[l]].done
    /\ \A l \in Traversal :
          at[l] \in {"test", "read"} /\ iter[l] # null /\ ~co[iter[l]].done =>
              /\ co[iter[l]].current = co[iter[l]].next - 1
              /\ co[iter[l]].first < co[iter[l]].next

GenIInv == IInv /\ GenTypeOK /\ Traversed /\ EachValueOnce

\* The steps a traversal has before it, if its bodies end: a test, a read and a body
\* for each value, and the last test.
StepsLeft(l) ==
    IF Idle(l) THEN 0
    ELSE IF iter[l] = null \/ co[iter[l]].done THEN 1
    ELSE 3 * (EndOf(co[iter[l]]) - co[iter[l]].next)
         + CASE at[l] = "test" -> 4 [] at[l] = "read" -> 3 [] at[l] = "body" -> 2

\* Whatever is done to generators and in other traversals meanwhile, nothing sets a
\* traversal back, and each of its own steps brings it nearer to its end.
NoneSetBack ==
    [][\A l \in Traversal : ~Idle(l) =>
          /\ StepsLeft(l)' =< StepsLeft(l)
          /\ at'[l] # at[l] => StepsLeft(l)' < StepsLeft(l)]_gvars

\* A traversal ends, also that of a moved-from generator.
Ends == \A l \in Traversal : ~Idle(l) ~> Idle(l)
==============================================================================

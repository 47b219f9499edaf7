------------------------------ MODULE NestedPtr ------------------------------
(***************************************************************************)
(* Re-entrancy: unique_ptr<Node, D>, where a Node has a unique_ptr<Node, D> *)
(* as its member and a destructor of its own, as A and B of the tests.      *)
(* Calling the deleter runs the body of ~Node(), which may call back into   *)
(* any unique_ptr but those whose own destructors are running: the one that *)
(* is being reset or assigned to, and the member of the dying node, which   *)
(* is destroyed after the body and calls its deleter in turn.  So an        *)
(* operation of the library is no longer one step: it is interrupted at     *)
(* every call of a deleter, and stack holds what is left to do, innermost   *)
(* first.  The member of node n is the object n.                            *)
(***************************************************************************)
EXTENDS Sequences, Naturals, FiniteSets

CONSTANTS Var,        \* unique_ptr variables of the client
          Node,       \* addresses of nodes
          null,       \* invalid()
          Stateful,   \* D has members, so that accessing a D accesses memory
          OneCall     \* a body makes at most one call, not any number of them

Obj == Var \cup Node

Client == "client"
Nobody == "nobody"
Lost   == "lost"

ASSUME NestedAssumption ==
    /\ IsFiniteSet(Node)
    /\ Var \cap Node = {}
    /\ {Client, Nobody, Lost} \cap Obj = {}
    /\ null \notin Obj
    /\ Stateful \in BOOLEAN
    /\ OneCall \in BOOLEAN

VARIABLES
    alive,    \* the objects that exist; node n is allocated while object n exists
    hnd,      \* [Obj -> Node \cup {null}]
    raw,      \* nodes the client has to delete
    stack,    \* frames of the operations that are interrupted
    fault     \* a node was deleted twice, or a dead object accessed

vars == <<alive, hnd, raw, stack, fault>>

\* "body": the body of ~Node() runs and may make calls; "spent": it has made its
\* one call; "destroy": in ~unique_ptr(), behind the call of the deleter;
\* "return": in operator=, behind the call of reset, at the next access to a
\* deleter.  reset itself leaves no frame: it does nothing after the deleter's call.
Frame(pc, x) == [pc |-> pc, of |-> x]

Init ==
    /\ alive = {}
    /\ hnd = [x \in Obj |-> null]
    /\ raw = {}
    /\ stack = <<>>
    /\ fault = FALSE

------------------------------------------------------------------------------
Frames(pcs) == {stack[i].of : i \in {j \in DOMAIN stack : stack[j].pc \in pcs}}

\* Nodes being deleted, and objects being destroyed.
Dying        == Frames({"body", "spent", "destroy"})
InDestructor == Frames({"destroy"})

\* After undefined behaviour nothing more is said.
UserRuns == ~fault /\ (stack # <<>> => Head(stack).pc = "body")

\* Client code leaves a unique_ptr alone from the moment its destructor has begun.
\* ~unique_ptr() does nothing to make such a call harmless: the handle is stored
\* until the deleter returns, and reset() or a move would dispose of it again.
Usable(x) == x \in alive \ InDestructor

\* What the call returns to.
Caller == IF stack # <<>> /\ OneCall
            THEN <<Frame("spent", Head(stack).of)>> \o Tail(stack) ELSE stack

\* The deleter is called on old if that is owned; `after' is what remains to be
\* done when the deleter returns.
Dispose(old, after) ==
    /\ stack' = (IF old = null THEN <<>> ELSE <<Frame("body", old)>>) \o after
    /\ fault' = (old # null /\ old \notin alive \ Dying)

NoCall == stack' = Caller /\ UNCHANGED fault

------------------------------------------------------------------------------
(* Calls of the client, from outside any operation or from ~Node().          *)

New(n) ==
    /\ n \notin alive
    /\ alive' = alive \cup {n}
    /\ raw' = raw \cup {n}
    /\ NoCall
    /\ UNCHANGED hnd

Delete(n) ==
    /\ n \in raw
    /\ raw' = raw \ {n}
    /\ Dispose(n, Caller)
    /\ UNCHANGED <<alive, hnd>>

\* unique_ptr(), unique_ptr(pointer)
Construct(v, h) ==
    /\ v \notin alive
    /\ alive' = alive \cup {v}
    /\ hnd' = [hnd EXCEPT ![v] = h]
    /\ raw' = raw \ {h}
    /\ NoCall

\* unique_ptr(unique_ptr &&)
MoveConstruct(v, y) ==
    /\ v \notin alive
    /\ Usable(y)
    /\ alive' = alive \cup {v}
    /\ hnd' = [hnd EXCEPT ![v] = hnd[y], ![y] = null]
    /\ NoCall
    /\ UNCHANGED raw

\* Slip: the old handle is still stored while its deleter runs.
ResetStoresLate(x, h) ==
    /\ Usable(x)
    /\ hnd' = IF hnd[x] = null THEN [hnd EXCEPT ![x] = h] ELSE hnd
    /\ raw' = raw \ {h}
    /\ Dispose(hnd[x], Caller)
    /\ UNCHANGED alive

\* reset(h): the new handle is stored, then the deleter called on the old one.
Reset(x, h) ==
    /\ Usable(x)
    /\ hnd' = [hnd EXCEPT ![x] = h]
    /\ raw' = raw \ {h}
    /\ Dispose(hnd[x], Caller)
    /\ UNCHANGED alive

\* Slip: what release() returns is deleted by the caller even when it is null.
ReleaseAlways(x) ==
    /\ Usable(x)
    /\ hnd' = [hnd EXCEPT ![x] = null]
    /\ raw' = raw \cup {hnd[x]}
    /\ NoCall
    /\ UNCHANGED alive

Release(x) ==
    /\ Usable(x)
    /\ hnd' = [hnd EXCEPT ![x] = null]
    /\ raw' = raw \cup ({hnd[x]} \ {null})
    /\ NoCall
    /\ UNCHANGED alive

\* Slip: the source is emptied after reset returned, as if by
\* reset(rhs.get()); rhs.release().
MoveAssignReleasesLate(x, y) ==
    /\ x # y
    /\ Usable(x)
    /\ Usable(y)
    /\ hnd' = IF hnd[x] = null THEN [hnd EXCEPT ![x] = hnd[y], ![y] = null]
                               ELSE [hnd EXCEPT ![x] = hnd[y]]
    /\ Dispose(hnd[x], <<Frame("return", y), Frame("return", x)>> \o Caller)
    /\ UNCHANGED <<alive, raw>>

\* x = std::move(y): reset(y.release()), then y's deleter is read and x's written.
MoveAssign(x, y) ==
    /\ x # y
    /\ Usable(x)
    /\ Usable(y)
    /\ hnd' = [hnd EXCEPT ![x] = hnd[y], ![y] = null]
    /\ Dispose(hnd[x], <<Frame("return", y), Frame("return", x)>> \o Caller)
    /\ UNCHANGED <<alive, raw>>

Swap(x, y) ==
    /\ x # y
    /\ Usable(x)
    /\ Usable(y)
    /\ hnd' = [hnd EXCEPT ![x] = hnd[y], ![y] = hnd[x]]
    /\ NoCall
    /\ UNCHANGED <<alive, raw>>

\* Slip: the handle is cleared before the deleter is called.
DestroyClearsFirst(v) ==
    /\ v \in Var
    /\ Usable(v)
    /\ Dispose(hnd[v], <<Frame("destroy", v)>> \o Caller)
    /\ hnd' = [hnd EXCEPT ![v] = null]
    /\ UNCHANGED <<alive, raw>>

\* ~unique_ptr() begins: the handle stays stored while the deleter runs.
Destroy(v) ==
    /\ v \in Var
    /\ Usable(v)
    /\ Dispose(hnd[v], <<Frame("destroy", v)>> \o Caller)
    /\ UNCHANGED <<alive, hnd, raw>>

UserCall ==
    \/ \E n \in Node : New(n) \/ Delete(n)
    \/ \E v \in Var, h \in raw \cup {null} : Construct(v, h)
    \/ \E v \in Var, y \in Obj : MoveConstruct(v, y)
    \/ \E x \in Obj, h \in raw \cup {null} : Reset(x, h)
    \/ \E x \in Obj : Release(x) \/ Destroy(x)
    \/ \E x, y \in Obj : MoveAssign(x, y) \/ Swap(x, y)

------------------------------------------------------------------------------
(* An interrupted operation goes on.                                         *)

\* Slip: the member's destructor does not call its deleter.
EndBodyForgets ==
    /\ Head(stack).pc \in {"body", "spent"}
    /\ stack' = <<Frame("destroy", Head(stack).of)>> \o Tail(stack)
    /\ UNCHANGED <<alive, hnd, raw, fault>>

\* The body of ~Node() ends, and the destructor of the member begins.
EndBody ==
    LET n == Head(stack).of
    IN  /\ Head(stack).pc \in {"body", "spent"}
        /\ Dispose(hnd[n], <<Frame("destroy", n)>> \o Tail(stack))
        /\ UNCHANGED <<alive, hnd, raw>>

\* The deleter returned to ~unique_ptr(), which ends; with the member, so does
\* the deletion of its node.
EndDestroy ==
    LET x == Head(stack).of
    IN  /\ Head(stack).pc = "destroy"
        /\ stack' = Tail(stack)
        /\ hnd' = [hnd EXCEPT ![x] = null]
        /\ alive' = alive \ {x}
        /\ UNCHANGED <<raw, fault>>

\* reset returned to operator=, whose next access to a deleter that has members
\* needs the object it is in.
Return ==
    /\ Head(stack).pc = "return"
    /\ stack' = Tail(stack)
    /\ fault' = (Stateful /\ Head(stack).of \notin alive)
    /\ UNCHANGED <<alive, hnd, raw>>

Continue == ~fault /\ stack # <<>> /\ (EndBody \/ EndDestroy \/ Return)

------------------------------------------------------------------------------
(* What else the client has to see to.                                       *)

\* No node comes to own itself.
Acyclic == \A T \in SUBSET Node : T # {} => \E n \in T : hnd[n] \notin T

\* Deleting the nodes of S leaves x alone.
Spares(S, x) ==
    \E T \in SUBSET Node :
        /\ S \cap Node \subseteq T
        /\ \A n \in T : hnd[n] \in T \cup {null}
        /\ x \notin S \cup T

\* The call of a deleter by a move assignment does not end the lifetime of the
\* objects whose deleters the assignment is about to access.
OperandsOutlive ==
    \A i \in DOMAIN stack : stack[i].pc = "return" =>
        Spares({stack[j].of : j \in {k \in 1 .. i - 1 : stack[k].pc # "return"}},
               stack[i].of)

Disciplined == Acyclic /\ (Stateful => OperandsOutlive)

Next == (UserRuns /\ UserCall /\ Disciplined') \/ Continue

Spec == Init /\ [][Next]_vars

\* A thread that is inside an operation goes on running.
FairSpec == Spec /\ WF_vars(Continue)

------------------------------------------------------------------------------
(* Properties.                                                               *)

TypeOK ==
    /\ alive \subseteq Obj
    /\ hnd \in [Obj -> Node \cup {null}]
    /\ raw \subseteq Node
    /\ stack \in Seq([pc : {"body", "spent", "destroy", "return"}, of : Obj])
    /\ fault \in BOOLEAN

\* Whatever destructors call while an operation is under way, as long as it is on
\* objects whose own destructors are not running (Usable), no node is deleted twice,
\* and operator= accesses no object that has been destroyed.
NoFault == ~fault

\* No code of the client, destructors called in the middle of reset, operator=
\* or ~unique_ptr() included, finds a node that is being or has been deleted in
\* a unique_ptr it may use, or among the pointers it must delete itself.
NoStaleView ==
    /\ \A x \in Obj : Usable(x) => hnd[x] \in {null} \cup (alive \ Dying)
    /\ raw \subseteq alive \ Dying

\* At no moment of any operation two objects, or an object and the client, answer
\* for one node.
Exclusive ==
    /\ \A x, y \in alive : hnd[x] = hnd[y] /\ hnd[x] # null => x = y
    /\ \A x \in alive : hnd[x] \notin raw

\* At no moment of any operation a node is left that nobody will delete.
NoOrphan == \A n \in Node \cap alive :
                n \in raw \cup Dying \/ \E x \in alive : hnd[x] = n

\* While ~unique_ptr() runs the deleter, the unique_ptr still stores the node
\* that is being deleted: ~A() of the tests checks b->a != nullptr.  This is what
\* makes calls on it dangerous, and why no client code makes any (Usable).
DestroyStillStores ==
    \A i \in 2 .. Len(stack) :
        stack[i].pc = "destroy" => hnd[stack[i].of] = stack[i - 1].of

\* However many calls the bodies make, and on whatever objects, the destructors of
\* nodes that are under way at one time are no more than the nodes that exist: the
\* call stack grows with the longest list, and not with the number of calls.
Running == {i \in DOMAIN stack : stack[i].pc # "return" /\ stack[i].of \in Node}
NestingBounded == Cardinality(Running) <= Cardinality(Node \cap alive)

\* However destructors re-enter the library, and as long as each makes one call
\* only, and none on an object that is being destroyed, the outermost operation ends.
Unwinds == stack # <<>> ~> stack = <<>>

\* What an interrupted operation has still to do.  While bodies make one call each,
\* every step on the way, what the bodies call included, leaves less of it: this
\* is why no destructor can keep an operation of the library from ending.
Standing == (Node \cap alive) \ (Dying \cup raw)
Work == Len(stack) + 6 * Cardinality(Frames({"body"})) + Cardinality(Frames({"spent"}))
            + 7 * Cardinality(Standing) + 4 * Cardinality(raw)
WorkDecreases == [][OneCall /\ stack # <<>> => Work' < Work]_vars

------------------------------------------------------------------------------
(* Refinement: responsibility changes hands where an operation begins, and a  *)
(* node that nobody would delete is Lost, where no step of Ownership leads.   *)

Gone == (Node \ alive) \cup Dying

ownerBar ==
    LET gone == Gone
    IN  [n \in Node |->
            IF n \in gone THEN Nobody
            ELSE IF \E x \in alive : hnd[x] = n THEN CHOOSE x \in alive : hnd[x] = n
            ELSE IF n \in raw THEN Client
            ELSE Lost]

Abstract == INSTANCE Ownership WITH Rc <- Obj, Resource <- Node, owner <- ownerBar

\* As seen by its client, a library that destructors re-enter implements Ownership:
\* each operation transfers responsibility at once, when it begins, and nothing
\* that happens before it ends transfers any but what a destructor itself calls.
OwnershipSpec == Abstract!Spec
==============================================================================

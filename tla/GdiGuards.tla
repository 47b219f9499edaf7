------------------------------ MODULE GdiGuards ------------------------------
(***************************************************************************)
(* The guards of a device context: unique_rc with gdi_restore_dc, which     *)
(* undoes a SaveDC, and with gdi_select_object, which undoes a SelectObject *)
(* by selecting the former object back.  The objects of UniqueRc are the    *)
(* guards; their resources are calls that have to be undone.  A call is     *)
(* known by the handle that the guard stores and by its number among the    *)
(* calls on its context, which is history: two calls may well yield the     *)
(* same handle, and the code has nothing but the handle to go by.  Only the *)
(* client and the properties know numbers; handles compare without them, as *)
(* GdiCompared says, also in the self-reset assertion.  Every operation of  *)
(* UniqueRc may be applied to guards, and when it calls a deleter the       *)
(* context changes as the API function says.                                *)
(*                                                                          *)
(* Regions are left out: SelectObject returns a number for them, and has a  *)
(* failure value of its own.                                                *)
(***************************************************************************)
EXTENDS UniqueRc, InvalidHandlePolicy, Naturals, Sequences

CONSTANTS
    Dc,          \* device contexts
    Obj,         \* pens, brushes and other GDI objects
    Stock,       \* the object selected in a context that was just acquired
    MaxCalls     \* bound on the calls on one context that are not undone

ASSUME GdiAssumption ==
    /\ Stock \in Obj
    /\ null \notin Dc \cup Obj
    /\ MaxCalls \in Nat

VARIABLES
    open,        \* the device contexts the client has
    exists,      \* the GDI objects that exist
    ctx,         \* [Dc -> context]
    hist         \* history: per context, as it was before each call not undone

gdi   == <<open, exists, ctx, hist>>
gvars == <<vars, gdi>>

\* What SaveDC saves is abstracted to the selected object; saved is a stack.
Context(sel, saved) == [sel |-> sel, saved |-> saved]

FreshDc == Context(Stock, <<>>)

------------------------------------------------------------------------------
(* What gdi_restore_dc and gdi_select_object pass to unique_rc.              *)

Call(h, n) == [handle |-> h, number |-> n]

Number == 1 .. MaxCalls

StateCall  == {Call(DcState(d, s), n) : d \in Dc, s \in Number, n \in Number}
SelectCall == {Call(DcGdiObj(d, o), n) : d \in Dc, o \in Obj, n \in Number}

GdiKind == {"dc_state", "dc_gdiobj"}

GdiPolicyOf(k, H) == IF k = "dc_state" THEN DcStatePolicy(H) ELSE DcGdiObjPolicy(H)

\* SaveDC fails with 0, SelectObject with null.
GdiResourceOf == [k \in GdiKind |-> IF k = "dc_state" THEN StateCall ELSE SelectCall]
GdiFailureOf  == [k \in GdiKind |->
    {Call(IF k = "dc_state" THEN DcState(d, 0) ELSE DcGdiObj(d, null), 0) : d \in Dc}]
GdiInvalidOf  == [k \in GdiKind |-> Call(GdiPolicyOf(k, {}).invalid, 0)]

HandlesOf(k) == GdiResourceOf[k] \cup GdiFailureOf[k] \cup {GdiInvalidOf[k]}

GdiOwnedOf    == [k \in GdiKind |->
    {c \in HandlesOf(k) : c.handle \in GdiPolicyOf(k, {c.handle}).owned}]
GdiResource   == StateCall \cup SelectCall
GdiHandle     == HandlesOf("dc_state") \cup HandlesOf("dc_gdiobj")

\* operator== of dc_state_handle and dc_gdiobj_handle, member by member.
GdiCompared   == [c \in GdiHandle |-> c.handle]

\* The deleters have no members.
GdiCloses     == {<<k, k>> : k \in GdiKind}
GdiTagOf      == [k \in GdiKind |-> {k}]
GdiDefaultTag == [k \in GdiKind |-> k]
GdiTraits     == [k \in GdiKind |-> Trait]

IsGdiGuard ==
    /\ Kind = GdiKind /\ Handle = GdiHandle /\ Resource = GdiResource
    /\ Compared = GdiCompared
    /\ Tag = GdiKind /\ Closes = GdiCloses
    /\ TagOf = GdiTagOf /\ DefaultTag = GdiDefaultTag /\ Traits = GdiTraits
    /\ ResourceOf = GdiResourceOf /\ FailureOf = GdiFailureOf
    /\ InvalidOf = GdiInvalidOf /\ OwnedOf = GdiOwnedOf
    /\ Constructs = {} /\ Assigns = {}

------------------------------------------------------------------------------
(* The API.                                                                  *)

DcOf(c) == c.handle.hdc

Undone(c)      == res[c] = Closed
NotUndone(d)   == {c \in Resource : ~Undone(c) /\ DcOf(c) = d}

\* RestoreDC: the states above are dropped with it; a state there is not is an
\* error, and changes nothing.
RestoreDC(k, s) ==
    IF s \in 1 .. Len(k.saved) THEN Context(k.saved[s], SubSeq(k.saved, 1, s - 1))
                               ELSE k

SelectObject(k, o) == Context(o, k.saved)

SaveDC(k) == Context(k.sel, Append(k.saved, k.sel))

\* Slip: the state below is restored.
RestoreGuardBelow(k, h) == RestoreDC(k, h.state - 1)

\* gdi_restore_dc::operator()
RestoreGuard(k, h) == RestoreDC(k, h.state)

\* Slip: the call of SelectObject is missing.
SelectGuardLeaves(k, h) == k

\* gdi_select_object::operator()
SelectGuard(k, h) == SelectObject(k, h.hobj)

\* The context k after the deleter was called on the handle of c.
Undo(k, c) == IF res[c] = "dc_state" THEN RestoreGuard(k, c.handle)
                                     ELSE SelectGuard(k, c.handle)

\* A call c on d that makes it k.
Calls(d, c, k) ==
    /\ d \in open
    /\ c \in Resource
    /\ ctx' = [ctx EXCEPT ![d] = k]
    /\ hist' = [hist EXCEPT ![d] = Append(@, ctx[d])]
    /\ UNCHANGED <<open, exists>>

NextNumber(d) == Len(hist[d]) + 1

\* SaveDC(d)
Save(d) ==
    LET c == Call(DcState(d, Len(ctx[d].saved) + 1), NextNumber(d))
    IN  Calls(d, c, SaveDC(ctx[d])) /\ Acquire(c, "dc_state")

\* SelectObject(d, o), which returns what was selected
Select(d, o) ==
    LET c == Call(DcGdiObj(d, ctx[d].sel), NextNumber(d))
    IN  /\ o \in exists
        /\ Calls(d, c, SelectObject(ctx[d], o)) /\ Acquire(c, "dc_gdiobj")

\* GetDC, CreateCompatibleDC; ReleaseDC, DeleteDC when no guard is left
GetDc(d) ==
    /\ ~aborted
    /\ d \notin open
    /\ open' = open \cup {d}
    /\ ctx' = [ctx EXCEPT ![d] = FreshDc]
    /\ UNCHANGED <<vars, exists, hist>>

ReleaseDc(d) ==
    /\ ~aborted
    /\ d \in open
    /\ NotUndone(d) = {}
    /\ open' = open \ {d}
    /\ UNCHANGED <<vars, exists, ctx, hist>>

CreateObject(o) ==
    /\ ~aborted
    /\ exists' = exists \cup {o}
    /\ UNCHANGED <<vars, open, ctx, hist>>

\* gdi_delete_object.  The client goes by its own calls, never by what the context
\* has selected: it deletes no object that a call not undone selected, nor one
\* that was selected before such a call.
DeleteObject(o) ==
    /\ ~aborted
    /\ o # Stock
    /\ \A d \in open : hist[d] # <<>> =>
          o # ctx[d].sel /\ \A i \in DOMAIN hist[d] : o # hist[d][i].sel
    /\ exists' = exists \ {o}
    /\ UNCHANGED <<vars, open, ctx, hist>>

------------------------------------------------------------------------------
(* Guards.                                                                   *)

\* The call that the deleter called in this step undoes, if one was.
Undoes(c) == ~Undone(c) /\ Undone(c)'

\* The client undoes the calls on a context in the reverse order: nothing in the
\* code sees to it.
Innermost(c) == \A e \in NotUndone(DcOf(c)) : e.number <= c.number

Effects ==
    \/ /\ \A c \in Resource : ~Undoes(c)
       /\ UNCHANGED gdi
    \/ \E c \in Resource :
          /\ Undoes(c)
          /\ Innermost(c)
          /\ LET d == DcOf(c)
             IN  /\ ctx' = [ctx EXCEPT ![d] = Undo(@, c)]
                 /\ hist' = [hist EXCEPT ![d] = SubSeq(@, 1, Len(@) - 1)]
          /\ UNCHANGED <<open, exists>>

GuardOp ==
    /\ \/ \E c \in Resource : ClientClose(c)
       \/ \E x \in Rc : RcOp(x)
       \/ \E x, y \in Rc : RcPairOp(x, y)
    /\ Effects

GdiInit ==
    /\ Init
    /\ open = {}
    /\ exists = {Stock}
    /\ ctx = [d \in Dc |-> FreshDc]
    /\ hist = [d \in Dc |-> <<>>]

GdiNext ==
    \/ GuardOp
    \/ \E d \in Dc : Save(d) \/ GetDc(d) \/ ReleaseDc(d)
    \/ \E d \in Dc, o \in Obj : Select(d, o)
    \/ \E o \in Obj : CreateObject(o) \/ DeleteObject(o)

GdiSpec == GdiInit /\ [][GdiNext]_gvars

------------------------------------------------------------------------------
(* Properties.                                                               *)

\* However a guard was moved, swapped, released or adopted in the meantime, when
\* its deleter is called the context becomes what it was before the call.
UndoRestores ==
    [][\A d \in open : Len(hist'[d]) < Len(hist[d]) =>
          ctx'[d] = hist[d][Len(hist[d])]]_gvars

\* A device context is given back as it was received: a client whose calls on it
\* are all undone has nothing else to restore.
GivenBackAsReceived ==
    [][\A d \in open \ open' : ctx[d] = FreshDc]_gvars

\* What is selected, saved, or kept by a guard to be selected back, exists: once its
\* calls are undone, a client may delete what they had selected without a look at
\* the context.
Mentions(k) == {k.sel} \cup {k.saved[i] : i \in DOMAIN k.saved}

NoneDangling ==
    /\ \A d \in open : Mentions(ctx[d]) \subseteq exists
    /\ \A c \in Resource : res[c] = "dc_gdiobj" => c.handle.hobj \in exists
==============================================================================

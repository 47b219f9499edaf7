------------------------ MODULE InvalidHandlePolicy --------------------------
(***************************************************************************)
(* The invalid-handle policies the library ships.  A policy is what it      *)
(* answers for the handles of a set H: the value invalid() and the handles  *)
(* is_owned() is true of.  `null' is the value-initialised pointer or       *)
(* integer; handles made of two members are records.                        *)
(***************************************************************************)
CONSTANT null

Policy(inv, owned) == [invalid |-> inv, owned |-> owned]

\* default_invalid_handle_policy: Invalid{} converted to Handle is `zero'
DefaultPolicy(H, zero) == Policy(zero, H \ {zero})

\* invalid_handle_value_policy: `ihv' is INVALID_HANDLE_VALUE
InvalidHandleValuePolicy(H, ihv) == Policy(ihv, H \ {ihv})

\* coro_invalid_handle_policy: a coroutine_handle is true unless it is null
CoroPolicy(H) == Policy(null, {h \in H : h # null})

\* gdi_release_dc::handle, gdi_restore_dc::handle, gdi_select_object::handle
DcWnd(hdc, hwnd)    == [hdc |-> hdc, hwnd |-> hwnd]
DcState(hdc, state) == [hdc |-> hdc, state |-> state]
DcGdiObj(hdc, hobj) == [hdc |-> hdc, hobj |-> hobj]

\* Slip: both members have to be set, which no screen DC has.
DcWndBothPolicy(H) ==
    Policy(DcWnd(null, null), {h \in H : h.hdc # null /\ h.hwnd # null})

\* dc_wnd_invalid_handle_policy
DcWndPolicy(H) == Policy(DcWnd(null, null), {h \in H : h.hdc # null})

\* Slip: a failed SaveDC, which returns 0, is not recognised.
DcStateAnyPolicy(H) == Policy(DcState(null, 0), {h \in H : h.hdc # null})

\* dc_state_invalid_handle_policy
DcStatePolicy(H) ==
    Policy(DcState(null, 0), {h \in H : h.hdc # null /\ h.state # 0})

\* dc_gdiobj_invalid_handle_policy: the device context is not looked at
DcGdiObjPolicy(H) == Policy(DcGdiObj(null, null), {h \in H : h.hobj # null})
==============================================================================

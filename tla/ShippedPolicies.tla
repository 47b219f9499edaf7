--------------------------- MODULE ShippedPolicies ---------------------------
(***************************************************************************)
(* unique_rc with the policies the library ships, each for the resources    *)
(* and the failure values of the functions it is made for: CreateFile and   *)
(* its like, coroutines, GetDC, SaveDC and SelectObject.                    *)
(***************************************************************************)
EXTENDS UniqueRc, InvalidHandlePolicy

CONSTANTS ihv,          \* INVALID_HANDLE_VALUE
          File, Coro,   \* handles of files and the like, and of coroutines
          Hdc, Hwnd, Hgdiobj,
          State         \* what SaveDC returns when it succeeds

OrNull(S) == S \cup {null}

\* What the handle types and the functions see to: no function returns, as the
\* handle of what it made, one of the values that stand for failure.
ApiFits == /\ null \notin File \cup Coro \cup Hdc \cup Hwnd \cup Hgdiobj
           /\ ihv \notin File
           /\ 0 \notin State

ShippedKind == {"file", "coro", "dc_wnd", "dc_state", "dc_gdiobj"}

\* The handle values of each kind: every combination for the composite ones.
HandleOf == [k \in ShippedKind |->
    CASE k = "file"      -> OrNull(File) \cup {ihv}
      [] k = "coro"      -> OrNull(Coro)
      [] k = "dc_wnd"    -> {DcWnd(d, w) : d \in OrNull(Hdc), w \in OrNull(Hwnd)}
      [] k = "dc_state"  -> {DcState(d, s) : d \in OrNull(Hdc), s \in State \cup {0}}
      [] k = "dc_gdiobj" -> {DcGdiObj(d, o) : d \in OrNull(Hdc), o \in OrNull(Hgdiobj)}]

\* invalid_handle_value_policy is made for CreateFile, whose handles are never
\* null; a screen DC has no window; gdi_select_object keeps the object to select
\* back.
ShippedResourceOf == [k \in ShippedKind |->
    CASE k = "file"      -> File
      [] k = "coro"      -> Coro
      [] k = "dc_wnd"    -> {DcWnd(d, w) : d \in Hdc, w \in OrNull(Hwnd)}
      [] k = "dc_state"  -> {DcState(d, s) : d \in Hdc, s \in State}
      [] k = "dc_gdiobj" -> {DcGdiObj(d, o) : d \in Hdc, o \in Hgdiobj}]

\* The guards' constructors keep the device context when the call on it failed.
ShippedFailureOf == [k \in ShippedKind |->
    CASE k = "file"      -> {ihv}
      [] k = "coro"      -> {}
      [] k = "dc_wnd"    -> {DcWnd(null, w) : w \in OrNull(Hwnd)}
      [] k = "dc_state"  -> {DcState(d, 0) : d \in OrNull(Hdc)}
      [] k = "dc_gdiobj" -> {DcGdiObj(d, null) : d \in OrNull(Hdc)}]

PolicyOf == [k \in ShippedKind |->
    CASE k = "file"      -> InvalidHandleValuePolicy(HandleOf[k], ihv)
      [] k = "coro"      -> CoroPolicy(HandleOf[k])
      [] k = "dc_wnd"    -> DcWndPolicy(HandleOf[k])
      [] k = "dc_state"  -> DcStatePolicy(HandleOf[k])
      [] k = "dc_gdiobj" -> DcGdiObjPolicy(HandleOf[k])]

ShippedHandle    == UNION {HandleOf[k] : k \in ShippedKind}
ShippedResource  == UNION {ShippedResourceOf[k] : k \in ShippedKind}
ShippedInvalidOf == [k \in ShippedKind |-> PolicyOf[k].invalid]
ShippedOwnedOf   == [k \in ShippedKind |-> PolicyOf[k].owned]

\* A resource is its handle value here: that two calls on a device context may
\* yield the same one is the matter of GdiGuards.
AreShipped ==
    /\ ApiFits
    /\ Compared = [h \in Handle |-> h]
    /\ Kind = ShippedKind /\ Handle = ShippedHandle /\ Resource = ShippedResource
    /\ ResourceOf = ShippedResourceOf /\ FailureOf = ShippedFailureOf
    /\ InvalidOf = ShippedInvalidOf /\ OwnedOf = ShippedOwnedOf
    /\ Constructs = {} /\ Assigns = {}
==============================================================================

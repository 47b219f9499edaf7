-------------------------- MODULE MCPolicyMismatch ---------------------------
(***************************************************************************)
(* Conversion between two kinds with the same handle and deleter but        *)
(* different policies: unique_rc<HANDLE, close_handle, resolve_handle_type, *)
(* HANDLE, invalid_handle_value_policy> into unique_rc<HANDLE,              *)
(* close_handle>.  Nothing in the library's constraints prevents it.        *)
(***************************************************************************)
EXTENDS UniqueRc, InvalidHandlePolicy

CONSTANTS x1, x2,
          ihv, file     \* INVALID_HANDLE_VALUE and a file's handle

MCHandle   == {null, ihv, file}
MCCompared == [h \in MCHandle |-> h]
MCResource == {file}
MCKind     == {"file", "event"}
MCKindOf   == [x \in Rc |-> IF x = x1 THEN "file" ELSE "event"]
MCPolicy   == [k \in MCKind |->
    IF k = "file" THEN InvalidHandleValuePolicy(MCHandle, ihv)
                  ELSE DefaultPolicy(MCHandle, null)]

MCResourceOf == [k \in MCKind |-> {file}]
MCFailureOf  == [k \in MCKind |-> IF k = "file" THEN {ihv} ELSE {null}]
MCInvalidOf  == [k \in MCKind |-> MCPolicy[k].invalid]
MCOwnedOf    == [k \in MCKind |-> MCPolicy[k].owned]
MCTagOf      == [k \in MCKind |-> Tag]
MCDefaultTag == [k \in MCKind |-> CHOOSE t \in Tag : TRUE]
MCTraits     == [k \in MCKind |-> Trait]
MCConstructs == {<<"file", "event">>}
MCAssigns    == {<<"file", "event">>}
MCCast       == [k \in MCKind |-> [l \in MCKind |-> [h \in MCHandle |-> h]]]
MCCloses     == {<<t, t>> : t \in Tag}
MCCastDel    == [k \in MCKind |-> [l \in MCKind |-> [t \in Tag \cup {Gutted} |-> t]]]
==============================================================================

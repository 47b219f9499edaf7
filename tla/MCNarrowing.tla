----------------------------- MODULE MCNarrowing -----------------------------
(***************************************************************************)
(* Converting assignment from a kind whose handle is a wider integer, as    *)
(* unique_rc<long, D> into unique_rc<int, D>.  Width bits remain of the     *)
(* handle.  Construction is left out: its braces reject narrowing.          *)
(***************************************************************************)
EXTENDS UniqueRc, InvalidHandlePolicy, Integers

CONSTANTS x1, x2,
          Width         \* bits of the narrow handle

MCHandle   == 0 .. 2 ^ (Width + 1) - 1
MCCompared == [h \in MCHandle |-> h]
MCResource == {1, 2 ^ Width + 1}
MCKind     == {"long", "int"}
MCKindOf   == [x \in Rc |-> IF x = x1 THEN "long" ELSE "int"]
MCPolicy   == DefaultPolicy(MCHandle, 0)

MCResourceOf == [k \in MCKind |->
    IF k = "long" THEN MCResource ELSE {r \in MCResource : r < 2 ^ Width}]
MCFailureOf  == [k \in MCKind |-> {0}]
MCInvalidOf  == [k \in MCKind |-> MCPolicy.invalid]
MCOwnedOf    == [k \in MCKind |-> MCPolicy.owned]
MCTagOf      == [k \in MCKind |-> Tag]
MCDefaultTag == [k \in MCKind |-> CHOOSE t \in Tag : TRUE]
MCTraits     == [k \in MCKind |-> Trait]
MCConstructs == {}
MCAssigns    == {<<"long", "int">>}
MCCast       == [k \in MCKind |-> [l \in MCKind |-> [h \in MCHandle |->
                    IF l = "int" THEN h % 2 ^ Width ELSE h]]]
MCCloses     == {<<t, t>> : t \in Tag}
MCCastDel    == [k \in MCKind |-> [l \in MCKind |-> [t \in Tag \cup {Gutted} |-> t]]]
==============================================================================

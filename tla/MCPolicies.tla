----------------------------- MODULE MCPolicies ------------------------------
(***************************************************************************)
(* ShippedPolicies for TLC: one object of each kind, called by the name of  *)
(* its kind, and one value of each sort.                                    *)
(***************************************************************************)
EXTENDS ShippedPolicies

CONSTANTS file, coro, dc, wnd, obj

MCState      == {1}
MCCompared   == [h \in ShippedHandle |-> h]
MCKindOf     == [k \in ShippedKind |-> k]
MCTagOf      == [k \in ShippedKind |-> Tag]
MCDefaultTag == [k \in ShippedKind |-> CHOOSE t \in Tag : TRUE]
MCTraits     == [k \in ShippedKind |-> Trait]
MCConverts   == {}
MCCast       == [k \in ShippedKind |-> [l \in ShippedKind |-> [h \in ShippedHandle |-> h]]]
MCCloses     == {<<t, t>> : t \in Tag}
MCCastDel    == [k \in ShippedKind |-> [l \in ShippedKind |->
                    [t \in Tag \cup {Gutted} |-> t]]]

ASSUME ArgumentsFit == AreShipped
==============================================================================

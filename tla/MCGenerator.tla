----------------------------- MODULE MCGenerator -----------------------------
(***************************************************************************)
(* Generator for TLC: generators of one promise type, called with an empty  *)
(* and with a longer range.                                                 *)
(***************************************************************************)
EXTENDS Generator

CONSTANT promise

MCHandle  == Resource \cup {null}
MCKind    == {promise}
MCKindOf  == [x \in Rc |-> promise]
MCCast    == [k \in MCKind |-> [l \in MCKind |-> [h \in MCHandle |-> h]]]
MCCastDel == [k \in MCKind |-> [l \in MCKind |-> [t \in Tag \cup {Gutted} |-> t]]]
MCBounds  == {<<1, 1>>, <<0, 2>>}

ASSUME ArgumentsFit == IsCoroutineHandle
==============================================================================

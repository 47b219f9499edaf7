----------------------------- MODULE MCUniqueRc ------------------------------
(***************************************************************************)
(* UniqueRc with objects of one kind, unique_rc<T *, Deleter> with the      *)
(* default policy: two resources that may need different deleters, and an   *)
(* acquiring function that returns null when it fails.                      *)
(***************************************************************************)
EXTENDS UniqueRc, InvalidHandlePolicy

CONSTANT rc           \* the one kind

MCHandle  == Resource \cup {null}
MCCompared == [h \in MCHandle |-> h]
MCPolicy  == DefaultPolicy(MCHandle, null)

MCKind       == {rc}
MCKindOf     == [x \in Rc |-> rc]
MCResourceOf == [k \in MCKind |-> Resource]
MCFailureOf  == [k \in MCKind |-> {null}]
MCInvalidOf  == [k \in MCKind |-> MCPolicy.invalid]
MCOwnedOf    == [k \in MCKind |-> MCPolicy.owned]
MCTagOf      == [k \in MCKind |-> Tag]
MCDefaultTag == [k \in MCKind |-> CHOOSE t \in Tag : TRUE]
MCTraits     == [k \in MCKind |-> Trait \ {"selfmove", "empty"}]
MCConverts   == {}
MCCast       == [k \in MCKind |-> [l \in MCKind |-> [h \in MCHandle |-> h]]]
MCCloses     == {<<t, t>> : t \in Tag}
MCCastDel    == [k \in MCKind |-> [l \in MCKind |-> [t \in Tag \cup {Gutted} |-> t]]]

ASSUME ArgumentsFit == Fits
==============================================================================

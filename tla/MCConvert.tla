------------------------------ MODULE MCConvert ------------------------------
(***************************************************************************)
(* UniqueRc with objects of three kinds that convert into each other, as    *)
(* unique_rc<Derived *, ...> into unique_rc<Base *, ...>.  The kinds differ *)
(* in what their deleters support, so each selects another specialisation   *)
(* of unique_rc_holder; all three use the default policy.                   *)
(***************************************************************************)
EXTENDS Comparison

CONSTANTS x1, x2, x3,
          t1, t2        \* deleting a Derived, deleting a Base

MCRc      == {x1, x2, x3}
MCHandle  == Resource \cup {null}
MCCompared == [h \in MCHandle |-> h]
MCPolicy  == DefaultPolicy(MCHandle, null)

\* derived: movable and assignable, tolerating self-assignment;
\* base: move-constructible only; fixed: assignable only, copied in.
MCKind   == {"derived", "base", "fixed"}
MCKindOf == [x \in MCRc |-> CASE x = x1 -> "derived"
                              [] x = x2 -> "base"
                              [] x = x3 -> "fixed"]
MCTraits == [k \in MCKind |->
    CASE k = "derived" -> Trait \ {"empty"}
      [] k = "base"    -> {"default", "move"}
      [] k = "fixed"   -> {"copy", "assign"}]

MCResourceOf == [k \in MCKind |-> Resource]
MCFailureOf  == [k \in MCKind |-> {null}]
MCInvalidOf  == [k \in MCKind |-> MCPolicy.invalid]
MCOwnedOf    == [k \in MCKind |-> MCPolicy.owned]
MCTagOf      == [k \in MCKind |-> IF k = "derived" THEN {t1} ELSE {t2}]
MCDefaultTag == [k \in MCKind |-> IF k = "derived" THEN t1 ELSE t2]
MCConstructs == {<<"derived", "base">>, <<"fixed", "base">>}
MCAssigns    == {<<"derived", "fixed">>}
MCCast       == [k \in MCKind |-> [l \in MCKind |-> [h \in MCHandle |-> h]]]
\* A Base has a virtual destructor, so what deletes a Base deletes a Derived too;
\* the deleter of Derived converts to that of Base.
MCCloses     == {<<t1, t1>>, <<t2, t2>>, <<t2, t1>>}
MCCastDel    == [k \in MCKind |-> [l \in MCKind |-> [t \in Tag \cup {Gutted} |->
                    IF t = t1 /\ l # "derived" THEN t2 ELSE t]]]

\* Null is the least address.
MCBelow == CHOOSE B \in SUBSET (MCHandle \X MCHandle) :
               \A g, h \in MCHandle :
                  /\ <<g, h>> \in B => g # h /\ h # null
                  /\ g # h => (<<g, h>> \in B <=> <<h, g>> \notin B)

ASSUME ArgumentsFit == Fits /\ OwnsAllButInvalid /\ ConversionsStay
==============================================================================

----------------------------- MODULE MCUniquePtr -----------------------------
(***************************************************************************)
(* UniquePtr with one object of each of five types over a class B with a    *)
(* virtual destructor and a class D derived from it.                        *)
(***************************************************************************)
EXTENDS UniquePtr

CONSTANTS b, d,                 \* the classes
          x1, x2, x3, x4, x5

Ptr(c, const, array) == [class |-> c, const |-> const, array |-> array]

MCRc       == {x1, x2, x3, x4, x5}
MCKindOf   == [x \in MCRc |-> CASE x = x1 -> Ptr(d, FALSE, FALSE)
                                [] x = x2 -> Ptr(b, TRUE, FALSE)
                                [] x = x3 -> Ptr(d, FALSE, TRUE)
                                [] x = x4 -> Ptr(b, FALSE, TRUE)
                                [] x = x5 -> Ptr(b, TRUE, TRUE)]
MCKind     == {MCKindOf[x] : x \in MCRc}
MCClass    == {b, d}
MCDerived  == {<<d, b>>}
MCVirtual  == {b}

MCHandle   == Resource \cup {null}

ASSUME ArgumentsFit == IsUniquePtr /\ PolymorphicBases
==============================================================================

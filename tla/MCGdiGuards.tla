---------------------------- MODULE MCGdiGuards -----------------------------
(***************************************************************************)
(* GdiGuards for TLC: guards of both sorts, named by the constants.         *)
(***************************************************************************)
EXTENDS GdiGuards, TLC

CONSTANTS StateGuard, ObjectGuard

MCRc      == StateGuard \cup ObjectGuard
MCKindOf  == [x \in MCRc |-> IF x \in StateGuard THEN "dc_state" ELSE "dc_gdiobj"]
MCCast    == [k \in GdiKind |-> [l \in GdiKind |-> [h \in GdiHandle |-> h]]]
MCCastDel == [k \in GdiKind |-> [l \in GdiKind |-> [t \in Tag \cup {Gutted} |-> t]]]

Symmetric == Permutations(StateGuard) \cup Permutations(ObjectGuard)

ASSUME ArgumentsFit == IsGdiGuard /\ RunningFits
==============================================================================

--------------------------- MODULE MCSharedDeleter ---------------------------
(***************************************************************************)
(* SharedDeleter for TLC: two ways of closing, each its own.                *)
(***************************************************************************)
EXTENDS SharedDeleter, TLC

MCCloses == {<<t, t>> : t \in Tag}

Symmetric == Permutations(Ref) \cup Permutations(Val) \cup Permutations(Var)
                \cup Permutations(Resource) \cup Permutations(Tag)
==============================================================================

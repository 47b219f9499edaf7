------------------------------ MODULE MCNested -------------------------------
(***************************************************************************)
(* NestedPtr for TLC: variables and nodes are interchangeable.              *)
(***************************************************************************)
EXTENDS NestedPtr, TLC

Symmetric == Permutations(Var) \cup Permutations(Node)
==============================================================================

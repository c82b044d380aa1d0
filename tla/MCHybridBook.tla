---------------------------- MODULE MCHybridBook ----------------------------
(* HybridBook alone, with a window of three ticks and room for every order. *)
EXTENDS HybridBook, TLC

OneSize == {[orders |-> 8, levels |-> 3]}
Interchangeable == Permutations(Refs)
=============================================================================

-------------------------- MODULE MCIntrusiveBook --------------------------
(* IntrusiveBook alone, with an id table that takes one order. *)
EXTENDS IntrusiveBook, TLC

OneSize == {[orders |-> 2, levels |-> 2]}
Interchangeable == Permutations(Refs)
=============================================================================

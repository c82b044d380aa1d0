--------------------------- MODULE MCExtractTape ---------------------------
(* ItchStat with two symbols, both wanted, and an index that takes one order fewer *)
(* than can rest at a time.  Until a symbol is announced its orders are treated as *)
(* those of an unwanted one.                                                       *)
EXTENDS ItchStat, TLC

Interchangeable == Permutations(Refs) \cup Permutations(Symbols)
=============================================================================

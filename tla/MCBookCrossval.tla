--------------------------- MODULE MCBookCrossval ---------------------------
(* BookCrossval with a window of two ticks and prices beside it, and            *)
(* interchangeable references.  The roomy books turn nothing down; the small    *)
(* ones run out of everything: of orders, of levels and of room in every id     *)
(* table, which in the pooled designs strands an order and then fills the pool. *)
EXTENDS BookCrossval, TLC

Roomy == [pool |-> [orders |-> 8, levels |-> 3], ids |-> 8]
Small == [pool |-> [orders |-> 2, levels |-> 1], ids |-> 2]
RoomyAndSmall == {Roomy, Small}

Interchangeable == Permutations(Refs)
=============================================================================

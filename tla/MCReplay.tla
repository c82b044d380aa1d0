------------------------------ MODULE MCReplay ------------------------------
(* Replay on tapes of four events, some in one instant and some a whole step of *)
(* the grid apart, that leave either of two mids or a book with one side.       *)
EXTENDS Replay

ShortTouches == {[bid_px |-> 4, ask_px |-> 6, bid_qty |-> 1, ask_qty |-> 2],
                 [bid_px |-> 6, ask_px |-> 8, bid_qty |-> 2, ask_qty |-> 1],
                 NoTouch}
Interchangeable == Permutations(Policies)
=============================================================================

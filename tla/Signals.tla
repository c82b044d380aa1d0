------------------------------- MODULE Signals -------------------------------
(********************************************************************************)
(* include/hotpath/sim/signals.hpp: the top of book and what is computed from   *)
(* it, in whole numbers: the mid is kept doubled, and an imbalance is compared  *)
(* with a threshold <<num, den>> across its denominator.  The exponential decay *)
(* of the flow, the microprice and the tilt are left out.                       *)
(********************************************************************************)
EXTENDS Integers

NoTouch == [bid_px |-> 0, ask_px |-> 0, bid_qty |-> 0, ask_qty |-> 0]

Valid(t) == /\ t.bid_px # 0 /\ t.ask_px # 0 /\ t.bid_px < t.ask_px
            /\ t.bid_qty + t.ask_qty > 0

Mid(t) == t.bid_px + t.ask_px

(* imbalance >= num / den, and <= -num / den. *)
BidHeavy(t, threshold) ==
    (t.bid_qty - t.ask_qty) * threshold[2] >= threshold[1] * (t.bid_qty + t.ask_qty)
AskHeavy(t, threshold) ==
    (t.ask_qty - t.bid_qty) * threshold[2] >= threshold[1] * (t.bid_qty + t.ask_qty)
=============================================================================

--------------------------- MODULE MCMarketMaker ---------------------------
(* StrategyEval over a window of three ticks: bids at two prices and an ask at a  *)
(* third; no latency or one of two events; every mode, thresholds that a touch of *)
(* two shares against one is above and below.                                     *)
EXTENDS StrategyEval, TLC

PoolSizes == {[orders |-> 8, levels |-> 4]}
TwoBidsOneAsk == {<<"Buy", 2, 2>>, <<"Buy", 4, 2>>, <<"Sell", 6, 1>>}
Drivers == {[latency |-> 0, mode |-> "Always"], [latency |-> 2, mode |-> "Always"],
            [latency |-> 0, mode |-> "HeavyOnly", threshold |-> <<1, 4>>],
            [latency |-> 0, mode |-> "ThinOnly", threshold |-> <<1, 2>>],
            [latency |-> 2, mode |-> "ThinOnly", threshold |-> <<1, 4>>]}
Interchangeable == Permutations(Refs)
=============================================================================

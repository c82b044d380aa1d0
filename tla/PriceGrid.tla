----------------------------- MODULE PriceGrid -----------------------------
(*****************************************************************************)
(* The price window that FlatBook and HybridBook share line for line: ticks  *)
(* with a bitmap of the ones in use, a cached best tick (the hint), and the  *)
(* merge with the prices outside the window, which live in a std::map.       *)
(*                                                                           *)
(* A bitmap is the set of its ticks; the word-by-word scans are a maximum or *)
(* a minimum.  NoTick, -1, is both "unknown" and "none", as in the code.     *)
(*****************************************************************************)
EXTENDS Integers, Sequences, FiniteSets, FiniteSetsExt

CONSTANTS Tick,        \* kTick, a penny
          Lo, Hi,      \* the price window asked for
          Depth        \* kSnapshotDepth

(* What the books assume of the window: their constructors throw when it is *)
(* inverted.                                                                *)
WindowConstants == /\ Tick \in Nat \ {0} /\ Lo \in Nat /\ Hi \in Nat
                   /\ Hi >= Lo - (Lo % Tick)
                   /\ Depth \in Nat \ {0}

kInvalidPrice == 0
NoTick == -1
Floor == Lo - (Lo % Tick)                  \* lo_
Ticks == (Hi - Floor) \div Tick + 1        \* ticks_

InGrid(px) == px >= Floor /\ px % Tick = 0 /\ (px - Floor) \div Tick < Ticks
TickOf(px) == (px - Floor) \div Tick
PriceOf(t) == Floor + t * Tick

(* Highest tick in use at or below from, lowest at or above it. *)
ScanDown(bits, from) == LET below == {t \in bits : t <= from} IN
                        IF below = {} THEN NoTick ELSE Max(below)
ScanUp(bits, from) == LET above == {t \in bits : t >= from} IN
                      IF above = {} THEN NoTick ELSE Min(above)
Scan(side, bits, from) == IF side = "Buy" THEN ScanDown(bits, from) ELSE ScanUp(bits, from)
FirstTick(side, bits) == Scan(side, bits, IF side = "Buy" THEN Ticks - 1 ELSE 0)

(* An order comes to tick t: an unknown hint becomes t, a worse one too. *)
Improved(side, hint, t) ==
    IF hint = NoTick THEN t
    ELSE IF side = "Buy" THEN Max({hint, t}) ELSE Min({hint, t})

(* The last order leaves tick t: the hint is forgotten if it was t. *)
Forgotten(hint, t) == IF hint = t THEN NoTick ELSE hint

(* grid_best, a const function, leaves this hint behind and answers with it. *)
Refreshed(side, bits, hint) ==
    IF hint = NoTick THEN FirstTick(side, bits)
    ELSE IF hint \notin bits THEN Scan(side, bits, hint)
    ELSE hint

Better(side, p, q) == IF side = "Buy" THEN p > q ELSE p < q

(* The end of an overflow map that a side starts from. *)
Outermost(side, over) == IF side = "Buy" THEN Max(over) ELSE Min(over)

(* best: the better one of the hint's price and the best of the overflow map. *)
BestOf(side, hint, over) ==
    IF hint = NoTick
    THEN IF over = {} THEN kInvalidPrice ELSE Outermost(side, over)
    ELSE IF over # {} /\ ~Better(side, PriceOf(hint), Outermost(side, over))
    THEN Outermost(side, over)
    ELSE PriceOf(hint)

(* take_grid: the window's next level ranks before the overflow map's. *)
TakesGrid(side, walk) ==
    /\ walk.tick # NoTick
    /\ walk.rest = {} \/ Better(side, PriceOf(walk.tick), Outermost(side, walk.rest))

Visit(side, bits, walk) ==
    IF TakesGrid(side, walk)
    THEN [walk EXCEPT !.tick = Scan(side, bits, IF side = "Buy" THEN @ - 1 ELSE @ + 1),
                      !.out = Append(@, PriceOf(walk.tick))]
    ELSE LET o == Outermost(side, walk.rest) IN
         [walk EXCEPT !.rest = @ \ {o}, !.out = Append(@, o)]

(* collect: the first Depth prices of a side, merged from window and overflow. *)
Collect(side, bits, over) ==
    LET walk[n \in 0..Depth] ==
          IF n = 0 THEN [tick |-> FirstTick(side, bits), rest |-> over, out |-> << >>]
          ELSE IF walk[n - 1].tick = NoTick /\ walk[n - 1].rest = {} THEN walk[n - 1]
          ELSE Visit(side, bits, walk[n - 1])
    IN walk[Depth].out
=============================================================================

------------------------------ MODULE MapBook ------------------------------
(****************************************************************************)
(* include/hotpath/book/map_book.hpp: a map of orders and, per side, a map  *)
(* from price to the shares and orders that rest there.  The aggregates are *)
(* kept up by hand at every event; nothing ever recounts them.              *)
(*                                                                          *)
(* Operators take and return the whole book, [orders, levels], so that one  *)
(* event is one step however many updates the handler makes.                *)
(****************************************************************************)
EXTENDS Integers, FiniteSets, FiniteSetsExt, Maps

CONSTANTS Refs, Prices, Quantities, Depth

VARIABLE book

Promise == INSTANCE OrderBook WITH orders <- book.orders, rejected <- 0

Sides == Promise!Sides

Empty == [orders |-> << >>, levels |-> [side \in Sides |-> << >>]]

(* bids_[px] or asks_[px], created empty when it is missing. *)
LevelAt(b, side, px) ==
    IF px \in DOMAIN b.levels[side] THEN b.levels[side][px] ELSE [qty |-> 0, orders |-> 0]

SetLevel(b, side, px, level) ==
    [b EXCEPT !.levels[side] = Put(@, px, level)]

Add(b, ref, side, px, qty) ==
    IF qty = 0 THEN b
    ELSE LET level == LevelAt(b, side, px) IN
         [SetLevel(b, side, px, [qty |-> level.qty + qty, orders |-> level.orders + 1])
          EXCEPT !.orders = Put(@, ref, [side |-> side, price |-> px, qty |-> qty])]

(* detach and orders_.erase: the order goes, and its level with the last one. *)
Detach(b, ref) ==
    LET o == b.orders[ref]
        level == LevelAt(b, o.side, o.price)
        less == [qty |-> level.qty - o.qty, orders |-> level.orders - 1] IN
    [(IF less.orders = 0
      THEN [b EXCEPT !.levels[o.side] = Without(@, o.price)]
      ELSE SetLevel(b, o.side, o.price, less)) EXCEPT !.orders = Without(@, ref)]

(* reduce, for execute and cancel: clamped to what the order still has. *)
Reduce(b, ref, qty) ==
    IF ref \notin DOMAIN b.orders THEN b
    ELSE IF qty >= b.orders[ref].qty THEN Detach(b, ref)
    ELSE LET o == b.orders[ref] IN
         [b EXCEPT !.orders[ref].qty = @ - qty, !.levels[o.side][o.price].qty = @ - qty]

Remove(b, ref) == IF ref \in DOMAIN b.orders THEN Detach(b, ref) ELSE b

(* Seeded fault: a replacement always rests on the bid side. *)
ReplaceOnBid(b, old, new, px, qty) ==
    IF old \notin DOMAIN b.orders THEN b
    ELSE Add(Detach(b, old), new, "Buy", px, qty)

Replace(b, old, new, px, qty) ==
    IF old \notin DOMAIN b.orders THEN b
    ELSE Add(Detach(b, old), new, b.orders[old].side, px, qty)

BestPrice(b, side) == IF DOMAIN b.levels[side] = {} THEN Promise!kInvalidPrice
                      ELSE Promise!Top(side, DOMAIN b.levels[side])

Snapshot(b, side) ==
    LET ps == Promise!Ranked(side, DOMAIN b.levels[side]) IN
    [i \in DOMAIN ps |-> [price |-> ps[i], qty |-> b.levels[side][ps[i]].qty,
                          orders |-> b.levels[side][ps[i]].orders]]

-----------------------------------------------------------------------------
Init == book = Empty

(* A reference is not reused while its order rests, as ITCH has it. *)
OnAdd(ref, side, px, qty) ==
    ref \notin DOMAIN book.orders /\ book' = Add(book, ref, side, px, qty)
OnReduce(ref, qty) == book' = Reduce(book, ref, qty)
OnRemove(ref) == book' = Remove(book, ref)
OnReplace(old, new, px, qty) ==
    new \notin DOMAIN book.orders \ {old} /\ book' = Replace(book, old, new, px, qty)
Clear == book' = Empty

-----------------------------------------------------------------------------
(* The book shows exactly its resting orders: after any sequence of events   *)
(* the hand-kept aggregates of the first Depth levels, and the best prices,  *)
(* are those that a recount of the orders gives, and no level is left empty. *)
ShowsItsOrders ==
    \A side \in Sides : /\ Snapshot(book, side) = Promise!Shown(side)
                        /\ BestPrice(book, side) = Promise!Best(side)

(* The orders it holds are those of the abstract book.  Nothing is ever *)
(* turned down.                                                         *)
ImplementsBook == Promise!Spec
=============================================================================

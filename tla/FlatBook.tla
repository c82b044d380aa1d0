------------------------------ MODULE FlatBook ------------------------------
(*****************************************************************************)
(* include/hotpath/book/flat_book.hpp: shares and order counts per tick of a *)
(* price window, with a bitmap and a cached best tick, an overflow map for   *)
(* every other price, and an id table that takes 7/10 of its slots.          *)
(*                                                                           *)
(* Operators take and return the whole book, so that one event is one step.  *)
(*****************************************************************************)
EXTENDS Integers, Sequences, FiniteSets, FiniteSetsExt, Maps

CONSTANTS Refs, Prices, Quantities, Depth,
          Capacities,              \* max_orders_pow2, of the id table
          Tick, Lo, Hi,            \* kTick and the price window
          MaxRejected              \* bound on the rejections explored

VARIABLE book

Promise == INSTANCE OrderBook WITH orders <- book.ids, rejected <- book.rejected
Window == INSTANCE PriceGrid

(* OpenHashMap throws for a capacity that is not a power of two. *)
FlatConstants == /\ Promise!BookConstants /\ Window!WindowConstants
                 /\ \A n \in Capacities : \E k \in 0..n : n = 2^k

Sides == Promise!Sides
InGrid(px) == Window!InGrid(px)
TickOf(px) == Window!TickOf(px)

None == [qty |-> 0, orders |-> 0]

Empty(capacity) ==
         [capacity |-> capacity, ids |-> << >>, rejected |-> 0,
          grid |-> [side \in Sides |-> [t \in 0..(Window!Ticks - 1) |-> None]],
          bits |-> [side \in Sides |-> {}],
          hint |-> [side \in Sides |-> Window!NoTick],
          over |-> [side \in Sides |-> << >>]]

More(agg, qty) == [qty |-> agg.qty + qty, orders |-> agg.orders + 1]
Less(agg, qty) == [qty |-> agg.qty - qty, orders |-> agg.orders - 1]

(* deposit with delta +1: an order arrives. *)
Arrive(b, side, px, qty) ==
    LET t == TickOf(px) IN
    IF InGrid(px)
    THEN [b EXCEPT !.grid[side][t] = More(@, qty),
                   !.bits[side] = @ \cup {t},
                   !.hint[side] = Window!Improved(side, @, t)]
    ELSE [b EXCEPT !.over[side] =
              Put(@, px, More(IF px \in DOMAIN @ THEN @[px] ELSE None, qty))]

(* deposit with delta -1: an order departs, and the last one takes its bit, *)
(* and the hint if it points here, with it.                                 *)
Depart(b, side, px, qty) ==
    LET t == TickOf(px)
        last == b.grid[side][t].orders = 1 IN
    IF InGrid(px)
    THEN [b EXCEPT !.grid[side][t] = Less(@, qty),
                   !.bits[side] = IF last THEN @ \ {t} ELSE @,
                   !.hint[side] = IF last THEN Window!Forgotten(@, t) ELSE @]
    ELSE IF px \notin DOMAIN b.over[side] THEN b
    ELSE IF b.over[side][px].orders = 1 THEN [b EXCEPT !.over[side] = Without(@, px)]
    ELSE [b EXCEPT !.over[side][px] = Less(@, qty)]

(* Seeded fault: what the id table has no room for is dropped in silence. *)
AddSilently(b, ref, side, px, qty) ==
    IF qty = 0 \/ Cardinality(DOMAIN b.ids) + 1 > (b.capacity * 7) \div 10 THEN b
    ELSE [Arrive(b, side, px, qty) EXCEPT
              !.ids = Put(@, ref, [side |-> side, price |-> px, qty |-> qty])]

(* Seeded fault: the order is deposited before the id table is asked. *)
AddDepositFirst(b, ref, side, px, qty) ==
    IF qty = 0 THEN b
    ELSE IF Cardinality(DOMAIN b.ids) + 1 > (b.capacity * 7) \div 10
    THEN [Arrive(b, side, px, qty) EXCEPT !.rejected = @ + 1]
    ELSE [Arrive(b, side, px, qty) EXCEPT
              !.ids = Put(@, ref, [side |-> side, price |-> px, qty |-> qty])]

(* The id table comes first: what it has no room for is counted and dropped. *)
Add(b, ref, side, px, qty) ==
    IF qty = 0 THEN b
    ELSE IF Cardinality(DOMAIN b.ids) + 1 > (b.capacity * 7) \div 10
    THEN [b EXCEPT !.rejected = @ + 1]
    ELSE [Arrive(b, side, px, qty) EXCEPT
              !.ids = Put(@, ref, [side |-> side, price |-> px, qty |-> qty])]

(* remove, and the first half of replace. *)
Remove(b, ref) ==
    IF ref \notin DOMAIN b.ids THEN b
    ELSE LET o == b.ids[ref] IN
         [Depart(b, o.side, o.price, o.qty) EXCEPT !.ids = Without(@, ref)]

Replace(b, old, new, px, qty) ==
    IF old \notin DOMAIN b.ids THEN b
    ELSE Add(Remove(b, old), new, b.ids[old].side, px, qty)

(* reduce, for execute and cancel: clamped to what the order still has. *)
Reduce(b, ref, qty) ==
    IF ref \notin DOMAIN b.ids THEN b
    ELSE LET o == b.ids[ref] IN
         IF qty >= o.qty THEN Remove(b, ref)
         ELSE IF InGrid(o.price)
         THEN [b EXCEPT !.ids[ref].qty = @ - qty,
                        !.grid[o.side][TickOf(o.price)].qty = @ - qty]
         ELSE [b EXCEPT !.ids[ref].qty = @ - qty,
                        !.over[o.side][o.price].qty = @ - qty]

(* best_bid and best_ask: the hint they leave behind, and their answer. *)
Query(b, side) == [b EXCEPT !.hint[side] = Window!Refreshed(side, b.bits[side], @)]
BestPrice(b, side) ==
    Window!BestOf(side, Window!Refreshed(side, b.bits[side], b.hint[side]), DOMAIN b.over[side])

Snapshot(b, side) ==
    LET ps == Window!Collect(side, b.bits[side], DOMAIN b.over[side])
        Agg(px) == IF InGrid(px) THEN b.grid[side][TickOf(px)] ELSE b.over[side][px] IN
    [i \in DOMAIN ps |-> [price |-> ps[i], qty |-> Agg(ps[i]).qty,
                          orders |-> Agg(ps[i]).orders]]

-----------------------------------------------------------------------------
Init == \E capacity \in Capacities : book = Empty(capacity)

(* A reference is not reused while its order rests, as ITCH has it. *)
OnAdd(ref, side, px, qty) == /\ ref \notin DOMAIN book.ids
                             /\ book.rejected < MaxRejected
                             /\ book' = Add(book, ref, side, px, qty)
OnReduce(ref, qty) == book' = Reduce(book, ref, qty)
OnRemove(ref) == book' = Remove(book, ref)
OnReplace(old, new, px, qty) == /\ new \notin DOMAIN book.ids \ {old}
                                /\ book.rejected < MaxRejected
                                /\ book' = Replace(book, old, new, px, qty)
OnQuery(side) == book' = Query(book, side)
Clear == book' = [Empty(book.capacity) EXCEPT !.rejected = book.rejected]

-----------------------------------------------------------------------------
(* The snapshot the cross-validation compares is exactly what a recount of *)
(* the resting orders gives, although window, bitmap and overflow map are  *)
(* each kept up by hand and merged from two orders of prices.              *)
ShowsItsOrders == \A side \in Sides : Snapshot(book, side) = Promise!Shown(side)

(* best_bid and best_ask answer with a price at which an order rests, and   *)
(* with kInvalidPrice only when the side is empty: the cached tick never    *)
(* outlives its level, so it is never the start of a scan that misses some. *)
BestIsResting ==
    \A side \in Sides : BestPrice(book, side) \in
        (IF Promise!Quoted(side) = {} THEN {Promise!kInvalidPrice}
         ELSE Promise!Quoted(side))

(* "Capacity exhaustion must never be silent": whatever order the book is told  *)
(* of next, either it can be found by its reference afterwards or it is counted *)
(* as rejected, and never both.                                                 *)
DropsAreCounted ==
    \A ref \in Refs, side \in Sides, px \in Prices, qty \in Quantities \ {0} :
        ref \notin DOMAIN book.ids =>
        LET b == Add(book, ref, side, px, qty) IN
        (ref \in DOMAIN b.ids) # (b.rejected = book.rejected + 1)

(* Its orders are, event by event, those of the abstract book: an event does to *)
(* them what it does there, or, if it is an add, nothing.                       *)
ImplementsBook == Promise!Spec
=============================================================================

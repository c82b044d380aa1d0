----------------------------- MODULE HybridBook -----------------------------
(*******************************************************************************)
(* include/hotpath/book/hybrid_book.hpp, the book the market maker trades on:  *)
(* pooled orders on the lists of pooled levels (LevelQueues), the levels found *)
(* through a price window with a bitmap and a cached best tick (PriceGrid) or  *)
(* through an overflow map, an id table that takes 7/10 of its slots, and an   *)
(* insertion stamp on every order from which queue position is read.           *)
(*******************************************************************************)
EXTENDS LevelQueues

CONSTANTS Refs, Prices, Quantities, Depth,
          Sizes,                   \* max_orders_pow2, of pool and id table, and max_levels
          Tick, Lo, Hi,            \* kTick and the price window
          MaxAdds,                 \* bound on the stamps handed out
          MaxRejected              \* bound on the rejections explored

VARIABLE book

(* The order an entry of the pool stands for. *)
OrderIn(b, oi) == LET o == b.orders[oi] IN
                  [side |-> o.side, price |-> b.levels[o.level].price, qty |-> o.qty]

Promise == INSTANCE OrderBook
           WITH orders <- [ref \in DOMAIN book.ids |-> OrderIn(book, book.ids[ref])],
                rejected <- book.rejected
Window == INSTANCE PriceGrid

(* OpenHashMap throws for a capacity that is not a power of two. *)
HybridConstants == /\ Promise!BookConstants /\ Window!WindowConstants
                   /\ \A size \in Sizes : /\ size.orders \in Nat
                                          /\ \E k \in 0..size.orders : size.orders = 2^k
                                          /\ size.levels \in Nat

Sides == Promise!Sides
InGrid(px) == Window!InGrid(px)
TickOf(px) == Window!TickOf(px)

Empty(size) ==
    Extended(NewPool(size),
         [slot |-> [side \in Sides |-> [t \in 0..(Window!Ticks - 1) |-> Nil]],
          bits |-> [side \in Sides |-> {}],
          hint |-> [side \in Sides |-> Window!NoTick],
          over |-> [side \in Sides |-> << >>],
          ids |-> << >>, rejected |-> 0, nextSeq |-> 1])

(* lookup_level. *)
Lookup(b, side, px) ==
    IF InGrid(px) THEN b.slot[side][TickOf(px)]
    ELSE IF px \in DOMAIN b.over[side] THEN b.over[side][px] ELSE Nil

(* find_or_create_level, when there is one or one can be had. *)
WithLevel(b, side, px) ==
    LET li == Seqs!Last(b.freeLevels)
        t == TickOf(px) IN
    IF Lookup(b, side, px) # Nil THEN b
    ELSE IF InGrid(px)
    THEN [TakeLevel(b, px) EXCEPT !.slot[side][t] = li, !.bits[side] = @ \cup {t},
                                  !.hint[side] = Window!Improved(side, @, t)]
    ELSE [TakeLevel(b, px) EXCEPT !.over[side] = Put(@, px, li)]

(* Seeded fault: the stamp is handed out but not advanced. *)
AddSameStamp(b, ref, side, px, qty) ==
    IF qty = 0 THEN b
    ELSE IF b.freeOrders = << >> \/ (Lookup(b, side, px) = Nil /\ b.freeLevels = << >>)
    THEN [b EXCEPT !.rejected = @ + 1]
    ELSE LET ready == WithLevel(b, side, px) IN
         [Link(ready, Lookup(ready, side, px),
               [id |-> ref, side |-> side, qty |-> qty, seq |-> b.nextSeq])
          EXCEPT !.ids = Put(@, ref, Seqs!Last(b.freeOrders))]

(* add: the pools may turn the order down, and the id table, which comes last, *)
(* when the order is stamped and linked already.                               *)
Add(b, ref, side, px, qty) ==
    IF qty = 0 THEN b
    ELSE IF b.freeOrders = << >> \/ (Lookup(b, side, px) = Nil /\ b.freeLevels = << >>)
    THEN [b EXCEPT !.rejected = @ + 1]
    ELSE LET ready == WithLevel(b, side, px)
             linked == [Link(ready, Lookup(ready, side, px),
                             [id |-> ref, side |-> side, qty |-> qty, seq |-> b.nextSeq])
                        EXCEPT !.nextSeq = @ + 1] IN
         IF Cardinality(DOMAIN b.ids) + 1 > (b.size.orders * 7) \div 10
         THEN [linked EXCEPT !.rejected = @ + 1]
         ELSE [linked EXCEPT !.ids = Put(@, ref, Seqs!Last(b.freeOrders))]

(* Seeded fault: the bitmap is not cleared with the level. *)
DropLevelKeepingBit(b, side, li) ==
    LET px == b.levels[li].price IN
    IF InGrid(px) THEN [ReturnLevel(b, li) EXCEPT !.slot[side][TickOf(px)] = Nil]
    ELSE [ReturnLevel(b, li) EXCEPT !.over[side] = Without(@, px)]

(* drop_level: the level leaves the window, and the hint with it if it points *)
(* there, or the overflow map.                                                *)
DropLevel(b, side, li) ==
    LET px == b.levels[li].price
        t == TickOf(px) IN
    IF InGrid(px)
    THEN [ReturnLevel(b, li) EXCEPT !.slot[side][t] = Nil, !.bits[side] = @ \ {t},
                                    !.hint[side] = Window!Forgotten(@, t)]
    ELSE [ReturnLevel(b, li) EXCEPT !.over[side] = Without(@, px)]

(* unlink: the order leaves its list, and the level goes with its last order. *)
Unlinked(b, oi) ==
    LET o == b.orders[oi]
        u == Unlink(b, oi) IN
    IF u.levels[o.level].orders = 0 THEN DropLevel(u, o.side, o.level) ELSE u

(* remove: unlink, hand the entry back, forget the reference. *)
Remove(b, ref) ==
    IF ref \notin DOMAIN b.ids THEN b
    ELSE [ReturnOrder(Unlinked(b, b.ids[ref]), b.ids[ref]) EXCEPT !.ids = Without(@, ref)]

Replace(b, old, new, px, qty) ==
    IF old \notin DOMAIN b.ids THEN b
    ELSE Add(Remove(b, old), new, b.orders[b.ids[old]].side, px, qty)

(* reduce, for execute and cancel: clamped to what the order still has. *)
Reduce(b, ref, qty) ==
    IF ref \notin DOMAIN b.ids THEN b
    ELSE IF qty >= b.orders[b.ids[ref]].qty THEN Remove(b, ref)
    ELSE Shrink(b, b.ids[ref], qty)

(* best_bid and best_ask: the hint they leave behind, and their answer. *)
Query(b, side) == [b EXCEPT !.hint[side] = Window!Refreshed(side, b.bits[side], @)]
BestPrice(b, side) ==
    Window!BestOf(side, Window!Refreshed(side, b.bits[side], b.hint[side]), DOMAIN b.over[side])

Snapshot(b, side) ==
    LET ps == Window!Collect(side, b.bits[side], DOMAIN b.over[side])
        L(px) == b.levels[Lookup(b, side, px)] IN
    [i \in DOMAIN ps |-> [price |-> L(ps[i]).price, qty |-> L(ps[i]).qty,
                          orders |-> L(ps[i]).orders]]

(* shares_ahead_of: what the walk from the level's head meets before the order. *)
SharesAheadOf(b, ref) ==
    LET o == b.orders[b.ids[ref]]
        list == Walk(b, o.level, Cardinality(DOMAIN b.orders))
        mine == CHOOSE i \in DOMAIN list : list[i] = b.ids[ref] IN
    MapThenSumSet(LAMBDA i : b.orders[list[i]].qty, 1..(mine - 1))

-----------------------------------------------------------------------------
Init == \E size \in Sizes : book = Empty(size)

(* A reference is not used again while its order is in the book, as ITCH has it. *)
Fresh(b, ref) == \A oi \in DOMAIN b.orders : b.orders[oi].id # ref

MayAdd == book.rejected < MaxRejected /\ book.nextSeq <= MaxAdds

OnAdd(ref, side, px, qty) == /\ Fresh(book, ref) /\ MayAdd
                             /\ book' = Add(book, ref, side, px, qty)
OnReduce(ref, qty) == book' = Reduce(book, ref, qty)
OnRemove(ref) == book' = Remove(book, ref)
OnReplace(old, new, px, qty) == /\ Fresh(Remove(book, old), new) /\ MayAdd
                                /\ book' = Replace(book, old, new, px, qty)
OnQuery(side) == book' = Query(book, side)
Clear == book' = [Empty(book.size) EXCEPT !.rejected = book.rejected,
                                          !.nextSeq = book.nextSeq]

Next == \/ \E ref \in Refs, side \in Sides, px \in Prices, qty \in Quantities :
              OnAdd(ref, side, px, qty)
        \/ \E ref \in Refs, qty \in Quantities : OnReduce(ref, qty)
        \/ \E ref \in Refs : OnRemove(ref)
        \/ \E old, new \in Refs, px \in Prices, qty \in Quantities :
              OnReplace(old, new, px, qty)
        \/ \E side \in Sides : OnQuery(side)
        \/ Clear

Spec == Init /\ [][Next]_book

-----------------------------------------------------------------------------
(* After any sequence of events each level is a well-formed list of exactly *)
(* its orders, head to tail, and its totals are a recount of them.          *)
ListsSound == ListsAreSound(book)

(* No entry of a pool is lost, handed out twice or freed twice, and a level is *)
(* found through the window or the overflow map exactly while it is in use.    *)
PoolsWhole ==
    /\ PoolsAreWhole(book)
    /\ \A side \in Sides, px \in Prices :
          {Lookup(book, side, px)} \ {Nil} =
          {li \in DOMAIN book.levels :
              /\ book.levels[li].price = px
              /\ \A oi \in Resting(book, li) : book.orders[oi].side = side}

(* The comment on seq: an order ahead in its level has the lower stamp, so    *)
(* "was this order ahead of mine?" is one comparison, and the shares ahead of *)
(* an order are those of the orders there with a lower stamp.                 *)
StampsAreQueueOrder ==
    \A ref \in DOMAIN book.ids :
        LET o == book.orders[book.ids[ref]] IN
        SharesAheadOf(book, ref) =
        MapThenSumSet(LAMBDA oi : book.orders[oi].qty,
                      {oi \in Resting(book, o.level) : book.orders[oi].seq < o.seq})

(* Every order on a list can be found by its reference. *)
NoneStranded == \A oi \in DOMAIN book.orders :
                    LET ref == book.orders[oi].id IN
                    ref \in DOMAIN book.ids /\ book.ids[ref] = oi

(* The snapshot is exactly what a recount of the resting orders gives, as long *)
(* as every order that is linked can be found.                                 *)
ShowsItsOrders == \A side \in Sides : Snapshot(book, side) = Promise!Shown(side)

(* best_bid and best_ask answer with a price at which an order rests, and *)
(* with kInvalidPrice only when the side is empty.                        *)
BestIsResting ==
    \A side \in Sides : BestPrice(book, side) \in
        (IF Promise!Quoted(side) = {} THEN {Promise!kInvalidPrice}
         ELSE Promise!Quoted(side))

(* book.hpp has one best_bid and best_ask for all designs: the best price of *)
(* the side, which is the first of its snapshot.                             *)
BestIsBest == \A side \in Sides : BestPrice(book, side) = Promise!Best(side)

(* "Capacity exhaustion must never be silent": whatever order the book is told  *)
(* of next, either it can be found by its reference afterwards or it is counted *)
(* as rejected, and never both.                                                 *)
DropsAreCounted ==
    \A ref \in Refs, side \in Sides, px \in Prices, qty \in Quantities \ {0} :
        Fresh(book, ref) =>
        LET b == Add(book, ref, side, px, qty) IN
        (ref \in DOMAIN b.ids) # (b.rejected = book.rejected + 1)

(* Its orders are, event by event, those of the abstract book: an event does to *)
(* them what it does there, or, if it is an add, nothing.                       *)
ImplementsBook == Promise!Spec
=============================================================================

--------------------------- MODULE IntrusiveBook ---------------------------
(**************************************************************************)
(* include/hotpath/book/intrusive_book.hpp: pooled orders on the lists of *)
(* pooled levels (LevelQueues), with the levels of each side kept in a    *)
(* vector sorted best first and an id table that takes 7/10 of its slots. *)
(**************************************************************************)
EXTENDS LevelQueues

CONSTANTS Refs, Prices, Quantities, Depth,
          Sizes,                   \* max_orders_pow2, of pool and id table, and max_levels
          MaxRejected              \* bound on the rejections explored

VARIABLE book

(* The order an entry of the pool stands for. *)
OrderIn(b, oi) == LET o == b.orders[oi] IN
                  [side |-> o.side, price |-> b.levels[o.level].price, qty |-> o.qty]

Promise == INSTANCE OrderBook
           WITH orders <- [ref \in DOMAIN book.ids |-> OrderIn(book, book.ids[ref])],
                rejected <- book.rejected

(* OpenHashMap throws for a capacity that is not a power of two. *)
PoolConstants == /\ Promise!BookConstants
                 /\ \A size \in Sizes : /\ size.orders \in Nat
                                        /\ \E k \in 0..size.orders : size.orders = 2^k
                                        /\ size.levels \in Nat

Sides == Promise!Sides

Empty(size) ==
    Extended(NewPool(size),
         [index |-> [side \in Sides |-> << >>], ids |-> << >>, rejected |-> 0])

(* lower_bound_pos: where px belongs among the levels of a side. *)
Position(b, side, px) ==
    LET v == b.index[side]
        Before(i) == Promise!Better(side, b.levels[v[i]].price, px)
        Bounds == (1..(Len(v) + 1)) \X (1..(Len(v) + 1))
        search[lohi \in Bounds] ==
            LET lo == lohi[1]
                hi == lohi[2]
                mid == (lo + hi) \div 2 IN
            IF lo >= hi THEN lo
            ELSE IF Before(mid) THEN search[<<mid + 1, hi>>] ELSE search[<<lo, mid>>]
    IN search[<<1, Len(v) + 1>>]

HasLevel(b, side, px) ==
    LET pos == Position(b, side, px) IN
    pos <= Len(b.index[side]) /\ b.levels[b.index[side][pos]].price = px

(* find_or_create_level, when there is one or one can be had. *)
WithLevel(b, side, px) ==
    IF HasLevel(b, side, px) THEN b
    ELSE [TakeLevel(b, px) EXCEPT
              !.index[side] = Seqs!InsertAt(@, Position(b, side, px), Seqs!Last(b.freeLevels))]

(* add: the pools may turn the order down, and the id table, which comes last, *)
(* when the order is linked already.                                           *)
Add(b, ref, side, px, qty) ==
    IF qty = 0 THEN b
    ELSE IF b.freeOrders = << >> \/ (~HasLevel(b, side, px) /\ b.freeLevels = << >>)
    THEN [b EXCEPT !.rejected = @ + 1]
    ELSE LET ready == WithLevel(b, side, px)
             li == ready.index[side][Position(ready, side, px)]
             linked == Link(ready, li, [id |-> ref, side |-> side, qty |-> qty]) IN
         IF Cardinality(DOMAIN b.ids) + 1 > (b.size.orders * 7) \div 10
         THEN [linked EXCEPT !.rejected = @ + 1]
         ELSE [linked EXCEPT !.ids = Put(@, ref, Seqs!Last(b.freeOrders))]

(* drop_level: the vector is searched for the level again. *)
DropLevel(b, side, li) ==
    LET pos == Position(b, side, b.levels[li].price) IN
    IF pos <= Len(b.index[side]) /\ b.index[side][pos] = li
    THEN [ReturnLevel(b, li) EXCEPT !.index[side] = Seqs!RemoveAt(@, pos)]
    ELSE b

(* remove: unlink, hand the entry back, forget the reference. *)
Remove(b, ref) ==
    IF ref \notin DOMAIN b.ids THEN b
    ELSE LET oi == b.ids[ref]
             o == b.orders[oi]
             u == Unlink(b, oi)
             gone == IF u.levels[o.level].orders = 0 THEN DropLevel(u, o.side, o.level)
                     ELSE u IN
         [ReturnOrder(gone, oi) EXCEPT !.ids = Without(@, ref)]

Replace(b, old, new, px, qty) ==
    IF old \notin DOMAIN b.ids THEN b
    ELSE Add(Remove(b, old), new, b.orders[b.ids[old]].side, px, qty)

(* Seeded fault: an order of which nothing is left keeps its place. *)
ReduceLeavingZero(b, ref, qty) ==
    IF ref \notin DOMAIN b.ids THEN b
    ELSE Shrink(b, b.ids[ref], Min({qty, b.orders[b.ids[ref]].qty}))

(* reduce, for execute and cancel: clamped to what the order still has. *)
Reduce(b, ref, qty) ==
    IF ref \notin DOMAIN b.ids THEN b
    ELSE IF qty >= b.orders[b.ids[ref]].qty THEN Remove(b, ref)
    ELSE Shrink(b, b.ids[ref], qty)

BestPrice(b, side) == IF b.index[side] = << >> THEN Promise!kInvalidPrice
                      ELSE b.levels[Head(b.index[side])].price

Snapshot(b, side) ==
    [i \in 1..Min({Depth, Len(b.index[side])}) |->
        LET L == b.levels[b.index[side][i]] IN
        [price |-> L.price, qty |-> L.qty, orders |-> L.orders]]

-----------------------------------------------------------------------------
Init == \E size \in Sizes : book = Empty(size)

(* A reference is not used again while its order is in the book, as ITCH has it. *)
Fresh(b, ref) == \A oi \in DOMAIN b.orders : b.orders[oi].id # ref

OnAdd(ref, side, px, qty) == /\ Fresh(book, ref)
                             /\ book.rejected < MaxRejected
                             /\ book' = Add(book, ref, side, px, qty)
OnReduce(ref, qty) == book' = Reduce(book, ref, qty)
OnRemove(ref) == book' = Remove(book, ref)
OnReplace(old, new, px, qty) == /\ Fresh(Remove(book, old), new)
                                /\ book.rejected < MaxRejected
                                /\ book' = Replace(book, old, new, px, qty)
Clear == book' = [Empty(book.size) EXCEPT !.rejected = book.rejected]

Next == \/ \E ref \in Refs, side \in Sides, px \in Prices, qty \in Quantities :
              OnAdd(ref, side, px, qty)
        \/ \E ref \in Refs, qty \in Quantities : OnReduce(ref, qty)
        \/ \E ref \in Refs : OnRemove(ref)
        \/ \E old, new \in Refs, px \in Prices, qty \in Quantities :
              OnReplace(old, new, px, qty)
        \/ Clear

Spec == Init /\ [][Next]_book

-----------------------------------------------------------------------------
(* After any sequence of events each level is a well-formed list of exactly *)
(* its orders, head to tail, and its totals are a recount of them.          *)
ListsSound == ListsAreSound(book)

(* No entry of a pool is lost, handed out twice or freed twice, and a level is *)
(* indexed exactly while it is in use.                                         *)
PoolsWhole ==
    /\ PoolsAreWhole(book)
    /\ DOMAIN book.levels = UNION {Seqs!ToSet(book.index[side]) : side \in Sides}

(* Every order on a list can be found by its reference. *)
NoneStranded == \A oi \in DOMAIN book.orders :
                    LET ref == book.orders[oi].id IN
                    ref \in DOMAIN book.ids /\ book.ids[ref] = oi

(* Best price and snapshot, read off the sorted vectors, are those of the       *)
(* orders that can still be acted on, as long as those are all that are linked. *)
ShowsItsOrders == \A side \in Sides : /\ Snapshot(book, side) = Promise!Shown(side)
                                      /\ BestPrice(book, side) = Promise!Best(side)

(* flat_book.hpp, on its own add: "Same rule as the intrusive design: a full id *)
(* table drops the order".  A rejected order leaves nothing in the book.        *)
RejectedIsDropped == \A oi \in DOMAIN book.orders : book.orders[oi].id \in DOMAIN book.ids

(* "Capacity exhaustion must never be silent": whatever order the book is told  *)
(* of next, either it can be found by its reference afterwards or it is counted *)
(* as rejected, and never both.                                                 *)
DropsAreCounted ==
    \A ref \in Refs, side \in Sides, px \in Prices, qty \in Quantities \ {0} :
        Fresh(book, ref) =>
        LET b == Add(book, ref, side, px, qty) IN
        (ref \in DOMAIN b.ids) # (b.rejected = book.rejected + 1)

(* Its orders are, event by event, those of the abstract book: an event does to *)
(* them what it does there, or, if it is an add, nothing.                       *)
ImplementsBook == Promise!Spec
=============================================================================

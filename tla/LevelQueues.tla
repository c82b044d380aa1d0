---------------------------- MODULE LevelQueues ----------------------------
(********************************************************************************)
(* The order and level pools of IntrusiveBook and HybridBook, which the two     *)
(* designs have line for line alike: pooled orders, each on the doubly linked   *)
(* list of its price level, oldest first, and two stacks of free indices.       *)
(*                                                                              *)
(* A pool is a record [size, orders, levels, freeOrders, freeLevels].  orders   *)
(* and levels hold the entries that are handed out; what a returned entry still *)
(* contains is forgotten, and reading one is an error of the model.             *)
(********************************************************************************)
EXTENDS Integers, Sequences, FiniteSets, FiniteSetsExt, Maps

Seqs == INSTANCE SequencesExt

Nil == -1

Stack(n) == [i \in 1..n |-> n - i]

(* A pool of size.orders orders and size.levels levels, all of them free. *)
NewPool(size) ==
    [size |-> size, orders |-> << >>, levels |-> << >>,
     freeOrders |-> Stack(size.orders), freeLevels |-> Stack(size.levels)]

(* find_or_create_level, once no level has the price: take the last free one. *)
TakeLevel(pool, px) ==
    [pool EXCEPT !.freeLevels = Seqs!Front(@),
                 !.levels = Put(@, Seqs!Last(pool.freeLevels),
                     [price |-> px, qty |-> 0, orders |-> 0, head |-> Nil, tail |-> Nil])]

ReturnLevel(pool, li) == [pool EXCEPT !.freeLevels = Append(@, li), !.levels = Without(@, li)]

(* Seeded fault: a second order forgets the first, which was the tail. *)
LinkWithoutPrev(pool, li, order) ==
    LET oi == Seqs!Last(pool.freeOrders)
        L == pool.levels[li] IN
    [pool EXCEPT
        !.freeOrders = Seqs!Front(@),
        !.orders = Put(@, oi, Extended(order, [prev |-> Nil, next |-> Nil, level |-> li])),
        !.levels[li] = [L EXCEPT !.head = IF L.tail = Nil THEN oi ELSE @, !.tail = oi,
                                 !.qty = @ + order.qty, !.orders = @ + 1]]

(* add: the last free entry joins the tail of the level's list. *)
Link(pool, li, order) ==
    LET oi == Seqs!Last(pool.freeOrders)
        L == pool.levels[li] IN
    [pool EXCEPT
        !.freeOrders = Seqs!Front(@),
        !.orders = Put(IF L.tail = Nil THEN @ ELSE [@ EXCEPT ![L.tail].next = oi], oi,
                       Extended(order, [prev |-> L.tail, next |-> Nil, level |-> li])),
        !.levels[li] = [L EXCEPT !.head = IF L.tail = Nil THEN oi ELSE @, !.tail = oi,
                                 !.qty = @ + order.qty, !.orders = @ + 1]]

(* unlink: the neighbours, or the level's ends, close over the entry, which *)
(* leaves the list and its level's totals.                                  *)
Unlink(pool, oi) ==
    LET o == pool.orders[oi]
        L == pool.levels[o.level]
        closed == [i \in DOMAIN pool.orders \ {oi} |->
                     [pool.orders[i] EXCEPT !.next = IF i = o.prev THEN o.next ELSE @,
                                            !.prev = IF i = o.next THEN o.prev ELSE @]] IN
    [pool EXCEPT
        !.orders = closed,
        !.levels[o.level] = [L EXCEPT !.head = IF o.prev = Nil THEN o.next ELSE @,
                                      !.tail = IF o.next = Nil THEN o.prev ELSE @,
                                      !.qty = @ - o.qty, !.orders = @ - 1]]

(* free_orders_.push_back. *)
ReturnOrder(pool, oi) == [pool EXCEPT !.freeOrders = Append(@, oi)]

(* A partial fill or cancel: the order and its level shrink alike. *)
Shrink(pool, oi, qty) ==
    [pool EXCEPT !.orders[oi].qty = @ - qty, !.levels[pool.orders[oi].level].qty = @ - qty]

-----------------------------------------------------------------------------
Resting(pool, li) == {oi \in DOMAIN pool.orders : pool.orders[oi].level = li}

(* The entries met by following next from a level's head, at most limit. *)
Walk(pool, li, limit) ==
    LET step[n \in 0..limit] ==
          IF n = 0 THEN << >>
          ELSE LET oi == IF step[n - 1] = << >> THEN pool.levels[li].head
                         ELSE pool.orders[Seqs!Last(step[n - 1])].next IN
               IF oi = Nil THEN step[n - 1] ELSE Append(step[n - 1], oi)
    IN step[limit]

(* Every level in use is a list of exactly its orders, linked both ways from *)
(* head to tail, and its totals are theirs.                                  *)
ListsAreSound(pool) ==
    \A li \in DOMAIN pool.levels :
        LET L == pool.levels[li]
            list == Walk(pool, li, Cardinality(DOMAIN pool.orders)) IN
        /\ Seqs!ToSet(list) = Resting(pool, li) /\ Len(list) = L.orders /\ L.orders > 0
        /\ L.tail = Seqs!Last(list)
        /\ \A i \in DOMAIN list :
              /\ pool.orders[list[i]].prev = IF i = 1 THEN Nil ELSE list[i - 1]
              /\ pool.orders[list[i]].next = IF i = Len(list) THEN Nil ELSE list[i + 1]
        /\ L.qty = MapThenSumSet(LAMBDA oi : pool.orders[oi].qty, Resting(pool, li))

(* An entry is free or in use, never both, never twice, never lost. *)
PoolsAreWhole(pool) ==
    /\ IsInjective(pool.freeOrders) /\ IsInjective(pool.freeLevels)
    /\ Seqs!ToSet(pool.freeOrders) = (0..(pool.size.orders - 1)) \ DOMAIN pool.orders
    /\ Seqs!ToSet(pool.freeLevels) = (0..(pool.size.levels - 1)) \ DOMAIN pool.levels
=============================================================================

----------------------------- MODULE OrderBook -----------------------------
(******************************************************************************)
(* What every book design promises (the operation set listed in               *)
(* include/hotpath/book/book.hpp): it holds the resting orders it was told    *)
(* of and shows them aggregated by price.  The price levels, the best price   *)
(* and the snapshot are functions of the resting orders, nothing more.        *)
(*                                                                            *)
(* A bounded design may turn an add down, and then it counts it in rejected.  *)
(* MapBook, IntrusiveBook, FlatBook and HybridBook implement this module, and *)
(* their runs compare what they show with what is defined here.               *)
(******************************************************************************)
EXTENDS Integers, FiniteSets, FiniteSetsExt, Maps

CONSTANTS Refs,        \* order reference numbers
          Prices,      \* the prices orders rest at
          Quantities,  \* the share counts of events, 0 among them
          Depth        \* kSnapshotDepth

(* What the modules that implement this one assume of their constants: no order *)
(* has the price zero, kInvalidPrice.                                           *)
BookConstants == /\ Prices \subseteq Nat \ {0}
                 /\ Quantities \subseteq Nat
                 /\ Depth \in Nat \ {0}

VARIABLES orders,      \* the resting orders, by reference
          rejected     \* how many adds were turned down

vars == <<orders, rejected>>

Sides == {"Buy", "Sell"}
kInvalidPrice == 0
Order == [side : Sides, price : Prices, qty : Nat \ {0}]

(* The bid side ranks high prices first, the ask side low ones. *)
Better(side, p, q) == IF side = "Buy" THEN p > q ELSE p < q

(* The price of ps that ranks best on a side, and its first Depth prices. *)
Top(side, ps) == CHOOSE p \in ps : \A q \in ps \ {p} : Better(side, p, q)
Ranked(side, ps) ==
    [i \in 1..Min({Depth, Cardinality(ps)}) |->
        CHOOSE p \in ps : Cardinality({q \in ps : Better(side, q, p)}) = i - 1]

At(side, price) ==
    {r \in DOMAIN orders : orders[r].side = side /\ orders[r].price = price}

(* The shares and the number of orders resting at a price. *)
Level(side, price) ==
    [price |-> price, orders |-> Cardinality(At(side, price)),
     qty |-> MapThenSumSet(LAMBDA r : orders[r].qty, At(side, price))]

Quoted(side) == {orders[r].price : r \in {r \in DOMAIN orders : orders[r].side = side}}

(* best_bid and best_ask. *)
Best(side) == IF Quoted(side) = {} THEN kInvalidPrice ELSE Top(side, Quoted(side))

(* One side of a Snapshot. *)
Shown(side) == LET ps == Ranked(side, Quoted(side)) IN
               [i \in DOMAIN ps |-> Level(side, ps[i])]

-----------------------------------------------------------------------------
Init == orders = << >> /\ rejected = 0

(* The order joins those that rest already, or is turned down and counted. *)
Join(resting, ref, side, price, qty) ==
    IF qty = 0 THEN orders' = resting /\ UNCHANGED rejected
    ELSE \/ /\ orders' = Put(resting, ref, [side |-> side, price |-> price, qty |-> qty])
            /\ UNCHANGED rejected
         \/ orders' = resting /\ rejected' = rejected + 1

Add(ref, side, price, qty) == Join(orders, ref, side, price, qty)

(* execute and cancel: an order never goes below zero, and leaves at zero. *)
Reduce(ref, qty) ==
    /\ ref \in DOMAIN orders
    /\ orders' = IF qty >= orders[ref].qty THEN Without(orders, ref)
                 ELSE [orders EXCEPT ![ref].qty = @ - qty]
    /\ UNCHANGED rejected

Remove(ref) == /\ ref \in DOMAIN orders
               /\ orders' = Without(orders, ref)
               /\ UNCHANGED rejected

(* The new order inherits the side of the one it replaces. *)
Replace(old, new, price, qty) ==
    /\ old \in DOMAIN orders
    /\ Join(Without(orders, old), new, orders[old].side, price, qty)

Clear == orders' = << >> /\ UNCHANGED rejected

(* A reference names one order at a time. *)
Next == \/ \E ref \in DOMAIN orders : Remove(ref) \/ \E qty \in Quantities : Reduce(ref, qty)
        \/ \E ref \in Refs \ DOMAIN orders, side \in Sides, price \in Prices,
              qty \in Quantities : Add(ref, side, price, qty)
        \/ \E old \in DOMAIN orders : \E new \in (Refs \ DOMAIN orders) \cup {old},
              price \in Prices, qty \in Quantities : Replace(old, new, price, qty)
        \/ Clear

Spec == Init /\ [][Next]_vars
=============================================================================

---------------------------- MODULE BookCrossval ----------------------------
(*******************************************************************************)
(* src/book_crossval.cpp: the four book designs replay the same tape, one      *)
(* event at a time through apply, and their snapshots are compared after each. *)
(* Any sequence of well-formed events is a tape here.  The best prices, which  *)
(* FlatBook and HybridBook answer by rewriting their cached tick, may be asked *)
(* for between any two events, as the market maker and test_book.cpp do.       *)
(*******************************************************************************)
EXTENDS Integers, FiniteSets

CONSTANTS Refs, Prices, Quantities, Depth, Tick, Lo, Hi,
          Builds,                  \* how the books may be built: the sizes of the
                                   \* pools, and of FlatBook's id table
          MaxAdds, MaxRejected     \* bounds on the stamps and the rejections

VARIABLES map, intrusive, flat, hybrid

books == <<map, intrusive, flat, hybrid>>

Sizes == {build.pool : build \in Builds}
Capacities == {build.ids : build \in Builds}

Map == INSTANCE MapBook WITH book <- map
Intrusive == INSTANCE IntrusiveBook WITH book <- intrusive
Flat == INSTANCE FlatBook WITH book <- flat
Hybrid == INSTANCE HybridBook WITH book <- hybrid

ASSUME ConstantsAssumption == /\ Intrusive!PoolConstants /\ Flat!FlatConstants
                              /\ Hybrid!HybridConstants
                              /\ MaxAdds \in Nat /\ MaxRejected \in Nat

Init == \E build \in Builds :
            /\ map = Map!Empty /\ flat = Flat!Empty(build.ids)
            /\ intrusive = Intrusive!Empty(build.pool)
            /\ hybrid = Hybrid!Empty(build.pool)

(* apply(a, ev); apply(b, ev); apply(c, ev); apply(d, ev), by event type. *)
AddEvent == \E ref \in Refs, side \in Map!Sides, px \in Prices, qty \in Quantities :
                /\ Map!OnAdd(ref, side, px, qty) /\ Intrusive!OnAdd(ref, side, px, qty)
                /\ Flat!OnAdd(ref, side, px, qty) /\ Hybrid!OnAdd(ref, side, px, qty)
ReduceEvent == \E ref \in Refs, qty \in Quantities :
                /\ Map!OnReduce(ref, qty) /\ Intrusive!OnReduce(ref, qty)
                /\ Flat!OnReduce(ref, qty) /\ Hybrid!OnReduce(ref, qty)
DeleteEvent == \E ref \in Refs : /\ Map!OnRemove(ref) /\ Intrusive!OnRemove(ref)
                                /\ Flat!OnRemove(ref) /\ Hybrid!OnRemove(ref)
ReplaceEvent == \E old, new \in Refs, px \in Prices, qty \in Quantities :
                /\ Map!OnReplace(old, new, px, qty) /\ Intrusive!OnReplace(old, new, px, qty)
                /\ Flat!OnReplace(old, new, px, qty) /\ Hybrid!OnReplace(old, new, px, qty)

AskBest == /\ \E side \in Map!Sides : Flat!OnQuery(side) /\ Hybrid!OnQuery(side)
           /\ UNCHANGED <<map, intrusive>>

ClearAll == Map!Clear /\ Intrusive!Clear /\ Flat!Clear /\ Hybrid!Clear

Next == AddEvent \/ ReduceEvent \/ DeleteEvent \/ ReplaceEvent \/ AskBest \/ ClearAll

Spec == Init /\ [][Next]_books

(* sa == sb, sa == sc and sa == sd: what the four designs show is the same. *)
Agree == \A side \in Map!Sides :
            {Intrusive!Snapshot(intrusive, side), Flat!Snapshot(flat, side),
             Hybrid!Snapshot(hybrid, side)} = {Map!Snapshot(map, side)}

(* pass: no divergence, nothing turned down, and as many orders in each. *)
Passes == /\ Agree
          /\ intrusive.rejected = 0 /\ flat.rejected = 0 /\ hybrid.rejected = 0
          /\ {Cardinality(DOMAIN intrusive.ids), Cardinality(DOMAIN flat.ids),
               Cardinality(DOMAIN hybrid.ids)} = {Cardinality(DOMAIN map.orders)}

-----------------------------------------------------------------------------
(* Wherever the tape ends the gate passes, and the orders counted are the same *)
(* orders, unless a design has turned one down.                                *)
Gate == intrusive.rejected + flat.rejected + hybrid.rejected = 0 =>
            /\ Passes
            /\ {DOMAIN intrusive.ids, DOMAIN flat.ids, DOMAIN hybrid.ids} = {DOMAIN map.orders}

(* What the gate cannot see: every design shows exactly what a recount of its    *)
(* own resting orders gives, even after a full pool, or FlatBook's id table, has *)
(* turned one down.  The pooled designs leave an order that their id table turns *)
(* down in its list: while it is there, it is shown and cannot be acted on.      *)
ShowTheirOrders == /\ Map!ShowsItsOrders /\ Flat!ShowsItsOrders
                   /\ Intrusive!NoneStranded => Intrusive!ShowsItsOrders
                   /\ Hybrid!NoneStranded => Hybrid!ShowsItsOrders

(* The lists of the two pooled designs are well formed and their pools whole, *)
(* however entries are handed out again.                                      *)
PoolsWhole == /\ Intrusive!ListsSound /\ Hybrid!ListsSound
              /\ Intrusive!PoolsWhole /\ Hybrid!PoolsWhole

(* HybridBook's insertion stamps give the queue position its lists have.         *)
StampsAreQueueOrder == Hybrid!StampsAreQueueOrder

(* The cached tick never names a price at which nothing rests, nor none when *)
(* something does; in HybridBook, where no order is stranded.                *)
BestIsResting == Flat!BestIsResting /\ (Hybrid!NoneStranded => Hybrid!BestIsResting)

(* No bounded design drops an order without counting it.                          *)
DropsAreCounted == /\ Intrusive!DropsAreCounted /\ Flat!DropsAreCounted
                   /\ Hybrid!DropsAreCounted

(* Each design implements the abstract book.                                      *)
ImplementBook == /\ Map!ImplementsBook /\ Intrusive!ImplementsBook
                 /\ Flat!ImplementsBook /\ Hybrid!ImplementsBook
=============================================================================

---------------------------- MODULE ExtractTape ----------------------------
(****************************************************************************************)
(* src/extract_tape.cpp: one pass over the feed of a day, or of a slice of              *)
(* it, writes a tape of book events per wanted symbol.  All but the add carry           *)
(* only an order reference, so a routing index follows every order of the whole         *)
(* market, and with it the shares it has left, to know when to forget it.               *)
(*                                                                                      *)
(* The feed is any sequence of messages.  live is what a book that was told of all      *)
(* of them, before the slice too, would hold, and faults what was wrong with them: a    *)
(* message names no order that rests (orphan), takes more shares than rest (oversized), *)
(* or gives a new order the reference of one that rests (duplicate).  A tape is kept as *)
(* the orders a book holds that has replayed it; the index is that of BoundedMap.       *)
(****************************************************************************************)
EXTENDS Integers, FiniteSets

CONSTANTS Refs, Quantities, Prices,   \* of orders
          Symbols, Wanted,            \* and those asked for with --symbol
          Limit,                      \* what --table leaves room for
          MaxOrders                   \* bound on the orders of the day

VARIABLES live,         \* the resting orders, [symbol, side, price, qty, seen, told]
          faults,       \* what was wrong with the messages of the slice
          listed,       \* the symbols the slice has announced
          orders,       \* how many orders there were
          locate,       \* locate_to_target: the wanted symbols announced
          route,        \* order reference -> [shares, slot]
          failed,       \* insert_failed, as far as it matters: any
          tape,         \* by wanted symbol: the book its tape replays to
          done          \* the pass is over

vars == <<live, faults, listed, orders, locate, route, failed, tape, done>>

Index == INSTANCE BoundedMap
         WITH entries <- route, refused <- failed, Keys <- Refs, Values <- Quantities,
              kEmpty <- FALSE
Book == INSTANCE MapBook
        WITH book <- [orders |-> live, levels |-> << >>], Depth <- 1

Sides == Book!Sides
None == "none"                                        \* slot 0

ASSUME ExtractAssumption == /\ Wanted \subseteq Symbols /\ None \notin Symbols
                            /\ Quantities \subseteq Nat \ {0}
                            /\ Limit \in Nat /\ MaxOrders \in Nat

(* A whole day, or a slice of one: an order may rest already, which the slice does    *)
(* not show the beginning of (seen).  An order is told of if its symbol was announced *)
(* in the slice before it.                                                            *)
Init == /\ \/ live = << >>
           \/ \E ref \in Refs, symbol \in Symbols, qty \in Quantities, px \in Prices :
                 live = [r \in {ref} |-> [symbol |-> symbol, side |-> "Buy", price |-> px,
                                          qty |-> qty, seen |-> FALSE, told |-> FALSE]]
        /\ faults = {} /\ listed = {} /\ orders = 0
        /\ locate = {} /\ route = << >> /\ failed = FALSE
        /\ tape = [symbol \in Wanted |-> Book!Empty] /\ done = FALSE

-----------------------------------------------------------------------------
(* What may be wrong with a message. *)
Orphan(ref) == IF ref \in DOMAIN live THEN {} ELSE {"orphan"}
Oversized(ref, qty) == IF ref \in DOMAIN live /\ qty > live[ref].qty THEN {"oversized"} ELSE {}
Duplicate(ref, resting) == IF ref \in resting THEN {"duplicate"} ELSE {}

(* An order never goes below zero, and leaves at zero. *)
Fewer(ref, qty) == IF ref \notin DOMAIN live THEN live
                   ELSE IF qty < live[ref].qty THEN [live EXCEPT ![ref].qty = @ - qty]
                   ELSE Index!Without(live, ref)

Slot(symbol) == IF symbol \in locate THEN symbol ELSE None

(* events.push_back, for an order that is routed to a target. *)
Emit(slot, b) == tape' = IF slot = None THEN tape ELSE [tape EXCEPT ![slot] = b]

(* Seeded fault: an order is taken to be gone at its first execution. *)
TakeWhole(ref, qty) == Index!Without(route, ref)

(* An execution or cancel takes its shares off, and retires the order at none. *)
Take(ref, qty) == IF qty < route[ref].shares THEN [route EXCEPT ![ref].shares = @ - qty]
                  ELSE Index!Without(route, ref)

(* 'R', at any time. *)
Directory(symbol) ==
    /\ listed' = listed \cup {symbol}
    /\ locate' = locate \cup ({symbol} \cap Wanted)
    /\ UNCHANGED <<live, faults, orders, route, failed, tape, done>>

(* 'A', 'F' *)
AddOrder(ref, order) ==
    LET slot == Slot(order.symbol)
        entry == [shares |-> order.qty, slot |-> slot] IN
    /\ orders < MaxOrders /\ orders' = orders + 1
    /\ live' = Index!Put(live, ref, order)
    /\ faults' = faults \cup Duplicate(ref, DOMAIN live)
    /\ route' = Index!With(route, ref, entry)
    /\ failed' = (failed \/ ~Index!Room(route, ref))
    /\ Emit(slot, Book!Add(tape[slot], ref, order.side, order.price, order.qty))
    /\ UNCHANGED <<listed, locate, done>>

(* 'E', 'C' and 'X' *)
ReduceOrder(ref, qty) ==
    /\ live' = Fewer(ref, qty)
    /\ faults' = faults \cup Orphan(ref) \cup Oversized(ref, qty)
    /\ IF ref \in DOMAIN route
       THEN /\ route' = Take(ref, qty)
            /\ Emit(route[ref].slot, Book!Reduce(tape[route[ref].slot], ref, qty))
       ELSE UNCHANGED <<route, tape>>
    /\ UNCHANGED <<listed, orders, locate, failed, done>>

(* 'D' *)
DeleteOrder(ref) ==
    /\ live' = Index!Without(live, ref)
    /\ faults' = faults \cup Orphan(ref)
    /\ IF ref \in DOMAIN route
       THEN /\ route' = Index!Without(route, ref)
            /\ Emit(route[ref].slot, Book!Remove(tape[route[ref].slot], ref))
       ELSE UNCHANGED <<route, tape>>
    /\ UNCHANGED <<listed, orders, locate, failed, done>>

(* Seeded fault: the new reference is indexed with the shares of the old. *)
RerouteKeepingShares(old, new, qty) ==
    Index!With(Index!Without(route, old), new, route[old])

Reroute(old, new, qty) ==
    Index!With(Index!Without(route, old), new, [route[old] EXCEPT !.shares = qty])

(* 'U': the new order inherits the side, and the target, of the old. *)
ReplaceOrder(old, new, px, qty) ==
    /\ orders < MaxOrders /\ orders' = orders + 1
    /\ live' = IF old \notin DOMAIN live THEN live
               ELSE Index!Put(Index!Without(live, old), new,
                              [live[old] EXCEPT !.price = px, !.qty = qty])
    /\ faults' = faults \cup Orphan(old) \cup Duplicate(new, DOMAIN live \ {old})
    /\ IF old \in DOMAIN route
       THEN /\ route' = Reroute(old, new, qty)
            /\ failed' = (failed \/ ~Index!Room(Index!Without(route, old), new))
            /\ Emit(route[old].slot, Book!Replace(tape[route[old].slot], old, new, px, qty))
       ELSE UNCHANGED <<route, failed, tape>>
    /\ UNCHANGED <<listed, locate, done>>

Finish == /\ done' = TRUE
          /\ UNCHANGED <<live, faults, listed, orders, locate, route, failed, tape>>

-----------------------------------------------------------------------------
Seen == {ref \in DOMAIN live : live[ref].seen}

(* The tape an order belongs to. *)
Target(order) == IF order.told /\ order.symbol \in Wanted THEN order.symbol ELSE None

(* The index holds exactly the orders the slice has shown that still rest, with the    *)
(* shares they have left and the target their symbol had when they were added: through *)
(* orphans and reductions of any size nothing leaks and nothing is forgotten, as long  *)
(* as the index has turned no order down and no reference was given to two orders.     *)
RouteIsLive ==
    ~failed /\ "duplicate" \notin faults =>
        route = [ref \in Seen |-> [shares |-> live[ref].qty, slot |-> Target(live[ref])]]

(* What is written at the end: a tape for each wanted symbol whose directory entry was *)
(* seen, and none at all if the index ever turned an order down.                       *)
Written == IF done /\ ~failed THEN locate ELSE {}

(* A tape that is written replays to what rests of the orders its symbol had since the   *)
(* slice announced it, with their sides, prices and shares, unless a reference was given *)
(* to two orders.                                                                        *)
TapesReplayToMarket ==
    "duplicate" \notin faults =>
        \A symbol \in Written :
            tape[symbol].orders = [ref \in {r \in Seen : Target(live[r]) = symbol} |->
                                     [side |-> live[ref].side, price |-> live[ref].price,
                                      qty |-> live[ref].qty]]
=============================================================================

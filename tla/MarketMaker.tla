---------------------------- MODULE MarketMaker ----------------------------
(***********************************************************************************)
(* include/hotpath/sim/market_maker.hpp over the hybrid book: one quote per        *)
(* side, moved with a delay, and filled as the tape's executions reach it.         *)
(* on_event is one step: land what is due, apply the event, fill, decide,          *)
(* land again.  The counter of requotes is left out; the mid is that of the touch. *)
(*                                                                                 *)
(* A maker per fill model, side by side over one book: no quote ever enters it.    *)
(* Time passes between events; lands_at is kept as the wait that is left.          *)
(* The tape is any sequence of well-formed events: an execution or a cancel        *)
(* takes at most what the order has left, of any order of its level.               *)
(***********************************************************************************)
EXTENDS Integers, FiniteSets, FiniteSetsExt, Maps, QueuePosition, Signals

CONSTANTS Refs, Prices, Quantities, Sizes, Tick, Lo, Hi, MaxAdds,   \* of the book
          Listings,       \* the <<side, price, shares>> of adds and replaces (a bound)
          Elapsed,        \* how much time may pass between two events
          QuoteSize

VARIABLES book,
          latency,            \* latency_, fixed
          maker,              \* by model and side: [quote |-> bid_, pos |-> pos_bid_], ...
          allow,              \* by side: allow_bid_ and allow_ask_
          fill,               \* by model: the fill the last event produced, or NoFill
          fifo                \* history: every execution was of its level's head

Book == INSTANCE HybridBook WITH Depth <- 1, MaxRejected <- 0
Sides == Book!Sides
Models == {"QueueAware", "Naive"}          \* FillModel

ASSUME MakerAssumption ==
    /\ Book!HybridConstants
    /\ Listings \subseteq Sides \X Prices \X Quantities
    /\ Elapsed \subseteq Nat
    /\ QuoteSize \in Nat \ {0}

NoFill == [side |-> "None"]

Idle == [active |-> FALSE, px |-> 0, remaining |-> 0,
         inFlight |-> FALSE, wait |-> 0, wantActive |-> TRUE]

MakerInit == /\ \E size \in Sizes : book = Book!Empty(size)
             /\ maker = [model \in Models |->
                           [side \in Sides |-> [quote |-> Idle, pos |-> NewPosition]]]
             /\ allow = [side \in Sides |-> TRUE]
             /\ fill = [model \in Models |-> NoFill] /\ fifo = TRUE

(* best_bid and best_ask rewrite the book's cached ticks. *)
Asked(b) == Book!Query(Book!Query(b, "Buy"), "Sell")
Best(b, side) == Book!BestPrice(b, side)

(* Both sides are there and not crossed: otherwise the maker does nothing. *)
TwoSided(b) == /\ \A side \in Sides : Best(b, side) # Book!Promise!kInvalidPrice
               /\ Best(b, "Buy") < Best(b, "Sell")

RestingAt(b, side, px) == LET li == Book!Lookup(b, side, px) IN
                          IF li = Book!Nil THEN 0 ELSE b.levels[li].qty

(* touch: what the driver computes its signal from. *)
TouchOf(b) == IF ~TwoSided(b) THEN NoTouch
              ELSE [bid_px |-> Best(b, "Buy"), ask_px |-> Best(b, "Sell"),
                    bid_qty |-> RestingAt(b, "Buy", Best(b, "Buy")),
                    ask_qty |-> RestingAt(b, "Sell", Best(b, "Sell"))]

Apply(b, e) ==
    CASE e.type = "Add" -> Book!Add(b, e.ref, e.side, e.price, e.shares)
      [] e.type \in {"Execute", "Cancel"} -> Book!Reduce(b, e.ref, e.shares)
      [] e.type = "Delete" -> Book!Remove(b, e.ref)
      [] e.type = "Replace" -> Book!Replace(b, e.ref, e.new, e.price, e.shares)

-----------------------------------------------------------------------------
StrictlyBetter(side, ours, traded) == IF side = "Buy" THEN ours > traded ELSE ours < traded

(* join: a new quote of full size behind all that rests at the price. *)
Join(m, b, side) ==
    LET px == Best(b, side) IN
    [quote |-> [m.quote EXCEPT !.active = TRUE, !.px = px, !.remaining = QuoteSize],
     pos |-> JoinQueue(m.pos, RestingAt(b, side, px), b.nextSeq)]

(* land_if_due: the change in flight takes effect, at the touch of now. *)
LandIfDue(m, b, side) ==
    LET landed == [m EXCEPT !.quote.inFlight = FALSE] IN
    IF ~m.quote.inFlight \/ m.quote.wait > 0 THEN m
    ELSE IF m.quote.wantActive THEN Join(landed, b, side)
    ELSE [landed EXCEPT !.quote.active = FALSE, !.pos = Leave(@)]

(* Seeded fault: what is due lands with the rest at the end of the event. *)
ArrivedAfter(m, b, side) == m

(* What was due before an event has landed when it happens, in the book before it. *)
Arrived(m, b, side) == IF TwoSided(b) THEN LandIfDue(m, b, side) ELSE m

(* Seeded fault: a quote is only moved when it is switched on or off. *)
DecideOnSwitch(m, b, side) ==
    IF m.quote.inFlight \/ m.quote.active = allow[side] THEN m
    ELSE [m EXCEPT !.quote.inFlight = TRUE, !.quote.wantActive = allow[side],
                   !.quote.wait = latency]

(* decide: one change at a time; the old quote rests until it lands. *)
Decide(m, b, side) ==
    LET q == m.quote IN
    IF \/ q.inFlight
       \/ q.active = allow[side] /\ (q.active => q.px = Best(b, side))
    THEN m
    ELSE [m EXCEPT !.quote.inFlight = TRUE, !.quote.wantActive = allow[side],
                   !.quote.wait = latency]

(* The quote loses the shares it was filled for, and leaves with the last. *)
Filled(m, shares) ==
    IF shares < m.quote.remaining THEN [m EXCEPT !.quote.remaining = @ - shares]
    ELSE [m EXCEPT !.quote.remaining = 0, !.quote.active = FALSE, !.pos = Leave(@)]

(* step_side: the shares of ours an event fills, ... *)
Swept(m, side, pre, e) ==
    e.type = "Execute" /\ StrictlyBetter(side, m.quote.px, pre.price)

(* Seeded fault: in the naive model, as in sim_mm's pass, a trade goes past a quote. *)
FillOfNoSweep(model, m, side, pre, e) ==
    IF ~m.quote.active \/ pre.side # side \/ e.type # "Execute" THEN 0
    ELSE IF model = "Naive"
    THEN IF pre.price = m.quote.px THEN Min({e.shares, m.quote.remaining}) ELSE 0
    ELSE IF Swept(m, side, pre, e) THEN Min({e.shares, m.quote.remaining})
    ELSE IF pre.price = m.quote.px THEN Reached(m.pos, e.shares, m.quote.remaining)
    ELSE 0

FillOf(model, m, side, pre, e) ==
    IF ~m.quote.active \/ pre.side # side \/ e.type # "Execute" THEN 0
    ELSE IF Swept(m, side, pre, e) \/ (pre.price = m.quote.px /\ model = "Naive")
    THEN Min({e.shares, m.quote.remaining})
    ELSE IF pre.price = m.quote.px THEN Reached(m.pos, e.shares, m.quote.remaining)
    ELSE 0

(* ... and what becomes of the quote and its position. *)
StepSide(model, m, side, pre, e) ==
    LET shares == FillOf(model, m, side, pre, e)
        moved == IF ~m.quote.active \/ pre.side # side \/ pre.price # m.quote.px THEN m.pos
                 ELSE IF e.type = "Execute"
                 THEN IF model = "Naive" THEN m.pos ELSE OnExecution(m.pos, pre.seq, e.shares)
                 ELSE OnCancel(m.pos, pre.seq,
                               IF e.type = "Cancel" THEN e.shares ELSE pre.qty) IN
    IF shares = 0 THEN [m EXCEPT !.pos = moved]
    ELSE Filled([m EXCEPT !.pos = moved], shares)

-----------------------------------------------------------------------------
Aged(m, elapsed) == [m EXCEPT !.quote.wait = Max({0, @ - elapsed})]

(* What the event says of a resting order, read before it is applied. *)
Resolved(b, e) == IF e.type = "Add" \/ e.ref \notin DOMAIN b.ids THEN {}
                  ELSE {Extended(b.orders[b.ids[e.ref]], Book!OrderIn(b, b.ids[e.ref]))}

(* What the callback is given, of the side that was hit. *)
FillRecord(model, early, pre, e) ==
    LET hit == {side \in Sides : FillOf(model, early[side], side, pre, e) > 0} IN
    IF hit = {} THEN NoFill
    ELSE LET side == CHOOSE s \in hit : TRUE
             m == early[side] IN
         [side |-> side, price |-> m.quote.px, qty |-> FillOf(model, m, side, pre, e),
          stale |-> m.quote.inFlight, swept |-> Swept(m, side, pre, e),
          joinSeq |-> m.pos.joinSeq]

(* The whole of on_event, but for what the driver then switches. *)
OnEvent(e, elapsed) ==
    LET before == Asked(book)
        pres == Resolved(before, e)
        after == Asked(Apply(before, e))
        pre == CHOOSE p \in pres : TRUE
        opened == TwoSided(after)
        early == [model \in Models |-> [side \in Sides |->
                     Arrived(Aged(maker[model][side], elapsed), before, side)]]
        Stepped(model, side) ==
            IF pres = {} THEN early[model][side]
            ELSE StepSide(model, early[model][side], side, pre, e)
        Late(m, side) == IF opened THEN LandIfDue(Decide(m, after, side), after, side) ELSE m IN
    /\ book' = after
    /\ maker' = [model \in Models |-> [side \in Sides |-> Late(Stepped(model, side), side)]]
    /\ fill' = [model \in Models |->
                   IF pres = {} THEN NoFill ELSE FillRecord(model, early[model], pre, e)]
    /\ fifo' = (fifo /\ (e.type = "Execute" => \A p \in pres : p.prev = Book!Nil))
    /\ UNCHANGED latency

-----------------------------------------------------------------------------
InBook == DOMAIN book.ids
Left(ref) == book.orders[book.ids[ref]].qty
MayAdd == book.nextSeq <= MaxAdds

(* The events a tape may go on with. *)
Adds == {[type |-> "Add", ref |-> ref, side |-> new[1], price |-> new[2], shares |-> new[3]] :
            ref \in {r \in Refs : MayAdd /\ Book!Fresh(book, r)}, new \in Listings}

Reductions(type) == UNION {{[type |-> type, ref |-> ref, shares |-> shares] :
                               shares \in {q \in Quantities : q <= Left(ref)}} : ref \in InBook}

Deletes == {[type |-> "Delete", ref |-> ref] : ref \in InBook}

Replaces == UNION {{[type |-> "Replace", ref |-> old, new |-> ref, price |-> new[2],
                     shares |-> new[3]] :
                       ref \in {r \in Refs : MayAdd /\ Book!Fresh(book, r)},
                       new \in {l \in Listings : l[1] = book.orders[book.ids[old]].side}}
                   : old \in InBook}

-----------------------------------------------------------------------------
(* The shares that really rest in front of a quote that joined with a stamp. *)
RestingAhead(b, side, px, joinSeq) ==
    LET li == Book!Lookup(b, side, px) IN
    IF li = Book!Nil THEN 0
    ELSE MapThenSumSet(LAMBDA oi : b.orders[oi].qty,
                       {oi \in Book!Resting(b, li) : b.orders[oi].seq < joinSeq})

(* The queue position is exact through executions, partial cancels, deletes and  *)
(* replaces, in front and behind, unless the diagnostic was counted up; and then *)
(* too it never believes more ahead than there is.                               *)
AheadIsExact ==
    \A side \in Sides :
        LET q == maker["QueueAware"][side].quote
            p == maker["QueueAware"][side].pos
            really == RestingAhead(book, side, q.px, p.joinSeq) IN
        q.active => p.ahead <= really /\ (~p.behind => p.ahead = really)

(* "Under strict price-time priority this should be zero": when only the heads *)
(* of levels were executed, the diagnostic was never counted up.               *)
PriorityMeansNoneBehind == fifo => \A side \in Sides : ~maker["QueueAware"][side].pos.behind

(* A queue-aware quote is filled in its turn: when it is, no order that was there  *)
(* when it joined is left at its price, unless it was swept or the diagnostic says *)
(* that the tape did not keep to the queue.                                        *)
FilledInTurn ==
    LET f == fill["QueueAware"] IN
    f # NoFill => \/ f.swept \/ maker["QueueAware"][f.side].pos.behind
                  \/ RestingAhead(book, f.side, f.price, f.joinSeq) = 0

(* No change is ever forgotten or put off: when the book is two-sided after an *)
(* event, nothing is in flight that is due, and no wait exceeds the latency.   *)
LandsWhenDue == \A model \in Models, side \in Sides :
    LET q == maker[model][side].quote IN
    /\ q.wait <= latency
    /\ TwoSided(book) /\ q.inFlight => q.wait > 0
=============================================================================

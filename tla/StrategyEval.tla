----------------------------- MODULE StrategyEval -----------------------------
(********************************************************************************)
(* The market maker under its drivers: src/strategy_eval.cpp, which switches a  *)
(* side off on a signal, and the naive pass of src/sim_mm.cpp, which is a maker *)
(* written out on its own.  The passes over one tape run side by side.          *)
(********************************************************************************)
EXTENDS MarketMaker

CONSTANT Policies      \* records [latency, mode, threshold]; threshold is <<num, den>>

ASSUME PolicyAssumption == \A p \in Policies :
    /\ p.latency \in Nat /\ p.mode \in {"Always", "HeavyOnly", "ThinOnly"}
    /\ p.mode # "Always" => p.threshold[1] \in Nat \ {0} /\ p.threshold[2] \in Nat \ {0}

VARIABLES policy,      \* of this run, fixed
          plain,       \* by side: nbid and nask of sim_mm
          lead         \* history: shares the naive maker has had more than the other

vars == <<book, latency, maker, allow, fill, fifo, policy, plain, lead>>

NQ == [active |-> FALSE, px |-> 0, remaining |-> 0]

Init == /\ MakerInit /\ policy \in Policies /\ latency = policy.latency
        /\ plain = [side \in Sides |-> NQ] /\ lead = 0

(* The sides the policy quotes, given the touch it has just seen. *)
Allows(t) ==
    LET suppressed == IF policy.mode = "HeavyOnly"
                      THEN [Buy |-> AskHeavy(t, policy.threshold),
                            Sell |-> BidHeavy(t, policy.threshold)]
                      ELSE [Buy |-> BidHeavy(t, policy.threshold),
                            Sell |-> AskHeavy(t, policy.threshold)] IN
    [side \in Sides |-> ~suppressed[side]]

(* set_quoting, after the event, from the touch it left. *)
SetQuoting == allow' = IF policy.mode = "Always" \/ ~Valid(TouchOf(book')) THEN allow
                       ELSE Allows(TouchOf(book'))

(* sim_mm's hit: a trade at our price reaches us first; there are no sweeps. *)
Hit(q, side, pre, e) ==
    IF ~q.active \/ pre.side # side \/ pre.price # q.px THEN q
    ELSE LET left == q.remaining - Min({q.remaining, e.shares}) IN
         [q EXCEPT !.remaining = left, !.active = left > 0]

(* Seeded fault: a spent quote is not renewed while the price stays. *)
RequoteOnMove(q, target) == IF q.px = target THEN q
                            ELSE [active |-> TRUE, px |-> target, remaining |-> QuoteSize]

(* rq: to the target at once, at full size. *)
Requote(q, target) == IF q.active /\ q.px = target THEN q
                      ELSE [active |-> TRUE, px |-> target, remaining |-> QuoteSize]

PlainPass(e) ==
    LET pres == IF e.type = "Execute" THEN Resolved(book, e) ELSE {}
        After(side) == IF pres = {} THEN plain[side]
                       ELSE Hit(plain[side], side, CHOOSE p \in pres : TRUE, e) IN
    plain' = [side \in Sides |-> IF TwoSided(book') THEN Requote(After(side), Best(book', side))
                                 ELSE After(side)]

Shares(f) == IF f = NoFill THEN 0 ELSE f.qty

(* One event of the tape, in every pass. *)
Event(e) == /\ \E elapsed \in Elapsed : OnEvent(e, elapsed)
            /\ SetQuoting /\ PlainPass(e)
            /\ lead' = lead + Shares(fill'["Naive"]) - Shares(fill'["QueueAware"])
            /\ UNCHANGED policy

AddEvent == \E e \in Adds : Event(e)
ExecuteEvent == \E e \in Reductions("Execute") : Event(e)
CancelEvent == \E e \in Reductions("Cancel") : Event(e)
DeleteEvent == \E e \in Deletes : Event(e)
ReplaceEvent == \E e \in Replaces : Event(e)

Next == AddEvent \/ ExecuteEvent \/ CancelEvent \/ DeleteEvent \/ ReplaceEvent

Spec == Init /\ [][Next]_vars

-----------------------------------------------------------------------------
(* "You can only act on information you have already seen": with no latency an event *)
(* that leaves the book two-sided leaves every quote at the touch and nothing in     *)
(* flight, and on exactly where the policy quotes at the touch of the event before.  *)
OneEventLate ==
    [][latency = 0 /\ TwoSided(book') =>
       \A model \in Models, side \in Sides :
           LET q == maker[model][side].quote' IN
           /\ q.active = allow[side] /\ ~q.inFlight
           /\ Valid(TouchOf(book)) /\ policy.mode # "Always" => q.active = Allows(TouchOf(book))[side]
           /\ q.active => q.px = Best(book', side)]_vars

(* A change that is due when an event happens "must take effect BEFORE this event's     *)
(* fills are attributed": if the event fills the quote then, it fills the new one, at   *)
(* the touch of the book before the event, behind all that rested there; a quote that   *)
(* was to be pulled is not filled.                                                      *)
LandsBeforeFills ==
    [][\A model \in Models : fill'[model] # NoFill =>
           LET b == Asked(book)
               f == fill'[model]
               q == maker[model][f.side].quote IN
           TwoSided(b) /\ q.inFlight /\ (\A d \in Elapsed : q.wait <= d) =>
               q.wantActive /\ f.price = Best(b, f.side) /\ f.joinSeq = b.nextSeq]_vars

(* "The naive model overstates": with no latency, whatever the policy and the tape,  *)
(* the naive maker never has had fewer shares than the queue-aware one, though it is *)
(* often left with less of a quote, or none, when a large trade comes.               *)
NaiveFillsMore == latency = 0 => lead >= 0

Same == \A side \in Sides : LET q == maker["Naive"][side].quote IN
        plain[side] = [active |-> q.active, px |-> q.px, remaining |-> q.remaining]

(* sim_mm's naive pass is the market maker with naive fills and no latency, quote by *)
(* quote and share by share, for as long as no trade goes through a quote: a sweep   *)
(* fills the maker and not the pass.                                                 *)
SameNaive ==
    [][latency = 0 /\ policy.mode = "Always" /\ Same =>
       Same' \/ (fill["Naive"] # NoFill /\ fill["Naive"].swept)']_vars
=============================================================================

------------------------------ MODULE Pipeline ------------------------------
(****************************************************************************)
(* run_pipelined of src/pipeline.cpp: a feed thread walks the tape into     *)
(* ring1, a strategy thread runs the market maker over what it pops and     *)
(* pushes the fills into ring2, and a gateway thread pops those.  An        *)
(* end-of-file message follows the last one on each ring.                   *)
(*                                                                          *)
(* The rings are BoundedFifo, which SpscRing implements.  MarketMaker is a  *)
(* deterministic function of the events in order, so all that is kept of it *)
(* is how many fills each event yields, chosen once and for all.            *)
(****************************************************************************)
EXTENDS Naturals, Sequences, SequencesExt

CONSTANTS Events,      \* the length of the tape
          MaxFills,    \* how many fills one event can yield (a bound)
          Bound        \* capacity() of each ring: one less than its slots

ASSUME PipelineAssumption == /\ Events \in Nat /\ MaxFills \in Nat
                             /\ Bound \in Nat \ {0}

Eof == 0
Fill == (1..Events) \X (1..MaxFills)

VARIABLES
    fills,             \* how many fills on_event yields for each event
    fed,               \* messages the feed thread has pushed, the Eof included
    queue1, taken1,    \* ring1, and what the strategy popped from it
    pending,           \* what the strategy has yet to push for the event in hand
    queue2, taken2,    \* ring2, and what the gateway popped from it
    digested,          \* what it has fed to its digest, in order
    running            \* the threads that have not returned

vars == <<fills, fed, queue1, taken1, pending, queue2, taken2, digested, running>>

Ring1 == INSTANCE BoundedFifo WITH Item <- 0..Events, queue <- queue1, taken <- taken1
Ring2 == INSTANCE BoundedFifo
         WITH Item <- Fill \cup {<<Eof>>}, queue <- queue2, taken <- taken2

(* What on_event hands to its callback for event e, in order. *)
FillsOf(e) == [i \in 1..fills[e] |-> <<e, i>>]

Init == /\ fills \in [1..Events -> 0..MaxFills]
        /\ fed = 0 /\ pending = << >> /\ digested = << >>
        /\ Ring1!Init /\ Ring2!Init
        /\ running = {"feed", "strategy", "gateway"}

(* FeedMsg m{ev[i], 0}; while (!ring1.try_push(m)) {} *)
FeedEvent == /\ "feed" \in running /\ fed < Events
             /\ Ring1!Put(fed + 1)
             /\ fed' = fed + 1
             /\ UNCHANGED <<fills, pending, queue2, taken2, digested, running>>

(* The tape is finished: push the eof message and return. *)
FeedEof == /\ "feed" \in running /\ fed = Events
           /\ Ring1!Put(Eof)
           /\ running' = running \ {"feed"}
           /\ UNCHANGED <<fills, fed, pending, queue2, taken2, digested>>

(* Seeded fault: the strategy breaks out of its loop with no eof of its own. *)
AnswerNoEof(message) == IF message = Eof THEN << >> ELSE FillsOf(message)

(* Seeded fault: fills that find ring2 full are dropped, not tried again. *)
AnswerDropped(message) == IF message = Eof THEN << <<Eof>> >>
                          ELSE IF Len(queue2) = Bound THEN << >>
                          ELSE FillsOf(message)

(* What popping the message makes the strategy push: its fills, or an eof. *)
Answer(message) == IF message = Eof THEN << <<Eof>> >> ELSE FillsOf(message)

(* while (!ring1.try_pop(m)) {}; if (m.eof) break; mm.on_event(m.ev, ...) *)
StrategyTake == /\ "strategy" \in running /\ pending = << >>
                /\ Ring1!Take
                /\ pending' = Answer(Head(queue1))
                /\ UNCHANGED <<fills, fed, queue2, taken2, digested, running>>

(* while (!ring2.try_push(fm)) {}; after its eof the strategy returns. *)
StrategyEmit == /\ "strategy" \in running /\ pending # << >>
                /\ Ring2!Put(Head(pending))
                /\ pending' = Tail(pending)
                /\ running' = IF Head(pending) = <<Eof>> THEN running \ {"strategy"}
                              ELSE running
                /\ UNCHANGED <<fills, fed, queue1, taken1, digested>>

(* Digest::feed.  Equal digests stand for the same fills in the same order. *)
Feed(digest, fill) == Append(digest, fill)

(* while (!ring2.try_pop(m)) {}; if (m.eof) break; digest.feed(m.fill) *)
GatewayTake == /\ "gateway" \in running
               /\ Ring2!Take
               /\ IF Head(queue2) = <<Eof>>
                  THEN running' = running \ {"gateway"} /\ UNCHANGED digested
                  ELSE digested' = Feed(digested, Head(queue2)) /\ UNCHANGED running
               /\ UNCHANGED <<fills, fed, queue1, taken1, pending>>

(* A loop around a try_push that finds its ring full, or a try_pop empty. *)
Spin == /\ \/ "feed" \in running /\ Len(queue1) = Bound
           \/ "strategy" \in running /\ pending = << >> /\ queue1 = << >>
           \/ "strategy" \in running /\ pending # << >> /\ Len(queue2) = Bound
           \/ "gateway" \in running /\ queue2 = << >>
        /\ UNCHANGED vars

(* feed.join(); strategy.join(); gateway.join(). *)
Joined == running = {} /\ UNCHANGED vars

Next == FeedEvent \/ FeedEof \/ StrategyTake \/ StrategyEmit \/ GatewayTake
        \/ Spin \/ Joined

Spec == Init /\ [][Next]_vars

(* Each thread is scheduled as long as it can get on. *)
Fairness == /\ WF_vars(FeedEvent \/ FeedEof)
            /\ WF_vars(StrategyTake \/ StrategyEmit)
            /\ WF_vars(GatewayTake)

FairSpec == Spec /\ Fairness

-----------------------------------------------------------------------------
(* run_single: on_event over the tape in one thread, every fill fed to the digest. *)
SingleThreaded == FlattenSeq([e \in 1..Events |-> FillsOf(e)])

(* main's verdict: the digests of the two are the same. *)
Same == digested = SingleThreaded

(* "Identical digests mean the lock-free handoff changed nothing": at all    *)
(* times the gateway has digested a prefix of the single-threaded fills, and *)
(* it returns to a verdict that they match.                                  *)
SameFills == /\ IsPrefix(digested, SingleThreaded)
             /\ "gateway" \notin running => Same

(* The three joins return: full and empty rings never leave the threads     *)
(* spinning on each other for ever, and none returns while there is still a *)
(* message on its ring.                                                     *)
Terminates == <>(running = {} /\ queue1 = << >> /\ queue2 = << >>)
=============================================================================

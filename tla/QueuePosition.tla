--------------------------- MODULE QueuePosition ---------------------------
(******************************************************************************)
(* include/hotpath/sim/queue_model.hpp: where one hypothetical order stands   *)
(* in the queue of its price level.  A position is a record                   *)
(* [ahead, joinSeq, behind]: the shares believed to rest in front, the stamp  *)
(* the book's next order had when it joined, and whether behind_while_queued_ *)
(* has ever been counted up.                                                  *)
(******************************************************************************)
EXTENDS Integers, FiniteSetsExt

NewPosition == [ahead |-> 0, joinSeq |-> 0, behind |-> FALSE]

(* Seeded fault: the stamp taken is that of the last order, not of the next. *)
JoinQueueAtLast(pos, resting, nextSeq) ==
    [pos EXCEPT !.ahead = resting, !.joinSeq = nextSeq - 1]

(* join: to the back of a level that holds resting shares. *)
JoinQueue(pos, resting, nextSeq) == [pos EXCEPT !.ahead = resting, !.joinSeq = nextSeq]

Leave(pos) == [pos EXCEPT !.ahead = 0]

IsAhead(pos, seq) == seq < pos.joinSeq

(* Seeded fault: executions behind are counted even at the front of the queue. *)
OnExecutionCountingAll(pos, seq, executed) ==
    [pos EXCEPT !.ahead = Max({0, @ - executed}), !.behind = @ \/ ~IsAhead(pos, seq)]

(* on_execution: the level's executed volume eats the volume ahead, whichever *)
(* order it was, and what goes through it reaches ours.                       *)
OnExecution(pos, seq, executed) ==
    [pos EXCEPT !.ahead = Max({0, @ - executed}),
                !.behind = @ \/ (pos.ahead > 0 /\ ~IsAhead(pos, seq))]

(* Seeded fault: the naive model, in which a trade at our price reaches us. *)
ReachedAtOnce(pos, executed, remaining) == Min({executed, remaining})

Reached(pos, executed, remaining) ==
    IF executed <= pos.ahead THEN 0 ELSE Min({executed - pos.ahead, remaining})

(* on_cancel and on_delete: shares that leave in front, without a trade. *)
OnCancel(pos, seq, cancelled) ==
    IF IsAhead(pos, seq) THEN [pos EXCEPT !.ahead = Max({0, @ - cancelled})] ELSE pos
=============================================================================

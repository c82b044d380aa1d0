---------------------------- MODULE BoundedFifo ----------------------------
(***************************************************************************)
(* What a single-producer / single-consumer queue promises its two users,  *)
(* with none of the machinery that keeps the promise: items come out in    *)
(* the order they went in, each exactly once, and never more than Bound of *)
(* them are inside.  SpscRing implements this module (see its refinement   *)
(* mapping) and Pipeline is built from two copies of it.                   *)
(***************************************************************************)
EXTENDS Naturals, Sequences

CONSTANTS Item,     \* the values that can be queued
          Bound     \* how many of them fit, a number

VARIABLES queue,    \* what has been put and not yet taken, oldest first
          taken     \* everything the consumer was handed, oldest first

vars == <<queue, taken>>

Init == queue = << >> /\ taken = << >>

(* A put is refused (the action is disabled) when Bound items are inside. *)
Put(item) == /\ Len(queue) < Bound
             /\ queue' = Append(queue, item)
             /\ UNCHANGED taken

(* A take is refused when nothing is inside; otherwise it yields the oldest. *)
Take == /\ queue # << >>
        /\ taken' = Append(taken, Head(queue))
        /\ queue' = Tail(queue)

Next == Take \/ \E item \in Item : Put(item)

Spec == Init /\ [][Next]_vars
=============================================================================

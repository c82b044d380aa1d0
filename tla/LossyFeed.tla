----------------------------- MODULE LossyFeed -----------------------------
(****************************************************************************)
(* What the shared-memory feed promises a subscriber, in the words of       *)
(* src/shm_sub.cpp: "A gap is reported, never silently absorbed".  The      *)
(* publisher sends 0, 1, 2, ... without waiting.  The subscriber is handed  *)
(* the next message or told of a number of messages it will never see, and  *)
(* after each of the two every message before next is in one of the counts. *)
(* ShmRing implements this module.                                          *)
(****************************************************************************)
EXTENDS Naturals, Sequences

CONSTANT Messages      \* how many messages the publisher has to send

VARIABLES sent,        \* how many it has sent
          next,        \* the sequence number the subscriber wants
          delivered,   \* the sequence numbers it was handed, oldest first
          missed,      \* how many messages it was told it missed
          stopped      \* it has stopped reading

vars == <<sent, next, delivered, missed, stopped>>

Init == /\ sent = 0 /\ next = 0 /\ missed = 0
        /\ delivered = << >> /\ stopped = FALSE

Send == /\ sent < Messages
        /\ sent' = sent + 1
        /\ UNCHANGED <<next, delivered, missed, stopped>>

Deliver == /\ ~stopped /\ next < sent
           /\ delivered' = Append(delivered, next)
           /\ next' = next + 1
           /\ UNCHANGED <<sent, missed, stopped>>

(* Messages are only missed once they have been sent, and the subscriber is *)
(* never told of one that it was or will be handed.                         *)
Skip == /\ ~stopped
        /\ \E n \in (next + 1)..sent : next' = n /\ missed' = missed + (n - next)
        /\ UNCHANGED <<sent, delivered, stopped>>

(* The feed ends for the subscriber when every message is accounted for. *)
Stop == /\ ~stopped /\ next = Messages
        /\ stopped' = TRUE
        /\ UNCHANGED <<sent, next, delivered, missed>>

Next == Send \/ Deliver \/ Skip \/ Stop

Spec == Init /\ [][Next]_vars
=============================================================================

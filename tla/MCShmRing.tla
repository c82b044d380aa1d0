------------------------------ MODULE MCShmRing ------------------------------
(* ShmSession with two slots, so that the publisher laps the subscriber often. *)
EXTENDS ShmSession
=============================================================================

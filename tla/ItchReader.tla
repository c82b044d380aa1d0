----------------------------- MODULE ItchReader -----------------------------
(***************************************************************************)
(* include/hotpath/itch/reader.hpp: one step per frame that Reader::next   *)
(* looks at, whether it hands the frame out, calls itself again or returns *)
(* false.  The caller asks until it does.  The count per type is left out. *)
(***************************************************************************)
EXTENDS ItchStream

VARIABLES stream, cut,   \* the file, which does not change
          cur,           \* cur_: the frame it points at
          handed,        \* the frames next has handed out
          stats,         \* the ReaderStats of the pass
          stopped        \* next has returned false

readerVars == <<stream, cut, cur, handed, stats, stopped>>

ReaderInit == /\ cur = 1 /\ handed = << >> /\ stopped = FALSE
              /\ stats = [messages |-> 0, bytes |-> 0, unknown |-> 0, mismatch |-> 0,
                          truncated |-> 0, zero |-> 0, short |-> 0]

Count(s, counters) == [c \in DOMAIN s |-> IF c \in counters THEN s[c] + 1 ELSE s[c]]

(* cur_ + 2 <= end_ *)
PrefixLeft == cur <= Len(stream) /\ Available(stream, cut, cur) >= 2

Frame == stream[cur]

(* The body is consumed, whatever becomes of it. *)
Consumed == [stats EXCEPT !.bytes = @ + 2 + Frame.len]

NoPrefix == /\ ~stopped /\ ~PrefixLeft
            /\ stopped' = TRUE
            /\ UNCHANGED <<stream, cut, cur, handed, stats>>

(* A clean terminator if these are the last two bytes, and else corruption. *)
ZeroLength == /\ ~stopped /\ PrefixLeft /\ Frame.len = 0
              /\ IF cur = Len(stream)
                 THEN cur' = cur + 1 /\ stats' = [stats EXCEPT !.bytes = @ + 2]
                 ELSE stats' = Count(stats, {"zero"}) /\ UNCHANGED cur
              /\ stopped' = TRUE
              /\ UNCHANGED <<stream, cut, handed>>

Truncated == /\ ~stopped /\ PrefixLeft /\ Frame.len > 0 /\ ~Whole(stream, cut, cur)
             /\ stats' = Count(stats, {"truncated"})
             /\ cur' = cur + 1
             /\ stopped' = TRUE
             /\ UNCHANGED <<stream, cut, handed>>

Complete == ~stopped /\ PrefixLeft /\ Frame.len > 0 /\ Whole(stream, cut, cur)

(* The prefix disagrees with the table, for a type that is in it. *)
Mismatch == SpecLength(Frame.type) \notin {0, Frame.len}

(* Seeded fault: a length that disagrees with the table is not counted. *)
DiagnosedByType == IF SpecLength(Frame.type) = 0 THEN {"unknown"} ELSE {}

Diagnosed == (IF SpecLength(Frame.type) = 0 THEN {"unknown"} ELSE {})
             \cup (IF Mismatch THEN {"mismatch"} ELSE {})

(* Seeded fault: a type that is not in the table may be of any length. *)
TooShortForType == Mismatch /\ Frame.len < SpecLength(Frame.type)

(* Shorter than the header, which is counted as nothing else, or than its type. *)
TooShort == \/ Frame.len < HeaderLength
            \/ Mismatch /\ Frame.len < SpecLength(Frame.type)

SkipShort == /\ Complete /\ TooShort
             /\ stats' = Count(Consumed, {"short", "messages"}
                            \cup (IF Frame.len < HeaderLength THEN {} ELSE Diagnosed))
             /\ cur' = cur + 1
             /\ UNCHANGED <<stream, cut, handed, stopped>>

HandOut == /\ Complete /\ ~TooShort
           /\ stats' = Count(Consumed, {"messages"} \cup Diagnosed)
           /\ handed' = Append(handed, cur)
           /\ cur' = cur + 1
           /\ UNCHANGED <<stream, cut, stopped>>

ReaderNext == NoPrefix \/ ZeroLength \/ Truncated \/ SkipShort \/ HandOut

-----------------------------------------------------------------------------
FileSize == SizeUpTo(stream, cut, Len(stream))

(* Where a pass over the file has to end: at the first frame that is empty or not *)
(* all there, or after the last.                                                  *)
Stop == CHOOSE n \in 1..(Len(stream) + 1) :
          /\ \A f \in 1..(n - 1) : stream[f].len > 0 /\ Whole(stream, cut, f)
          /\ n = Len(stream) + 1 \/ stream[n].len = 0 \/ ~Whole(stream, cut, n)

(* Nothing is skipped in silence: when next has returned false it has handed out    *)
(* exactly the sound messages before that point and counted the short ones; all     *)
(* bytes are consumed, the gate of itch_stat, exactly if no byte of a later or of a *)
(* broken frame is left; and a pass that ended early has counted why.               *)
PassIsAccounted ==
    stopped =>
      /\ handed = Sound(stream, Stop - 1)
      /\ stats.messages = Stop - 1 /\ stats.messages = Len(handed) + stats.short
      /\ stats.bytes = FileSize <=>
             \/ Stop = Len(stream) + 1
             \/ Stop = Len(stream) /\ stream[Stop].len = 0 /\ cut = 0
             \/ Stop = Len(stream) /\ Available(stream, cut, Stop) = 0
      /\ Stop < Len(stream) => stats.zero = 1
      /\ Stop = Len(stream) /\ Available(stream, cut, Stop) >= 2 /\ stream[Stop].len > 0
             => stats.truncated = 1

(* The framing half of itch_stat's gate.  The count of short frames is not in it. *)
FramingPasses == /\ stats.bytes = FileSize
                 /\ stats.zero = 0 /\ stats.mismatch = 0 /\ stats.truncated = 0

(* "Every message's length prefix agrees with the spec length for its type", which the *)
(* gate is to show: when it passes, every frame of the file that has the length of a   *)
(* header was handed out, and each has the length of its type.  It says nothing of     *)
(* frames that are shorter still, which are left out and counted only as short.        *)
GateMeansRead ==
    stopped /\ FramingPasses =>
      LET Messages == {f \in 1..Len(stream) : /\ Available(stream, cut, f) > 0
                                             /\ stream[f].len >= HeaderLength} IN
      /\ {handed[i] : i \in DOMAIN handed} = Messages
      /\ \A f \in Messages : SpecLength(stream[f].type) \in {0, stream[f].len}
=============================================================================

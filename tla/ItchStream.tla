----------------------------- MODULE ItchStream -----------------------------
(******************************************************************************)
(* An ITCH file in BinaryFILE framing, and what the views of                  *)
(* include/hotpath/itch/messages.hpp read from a message.                     *)
(*                                                                            *)
(* A stream is a sequence of frames [type, len], of whose last one the last   *)
(* cut bytes are missing; every string of bytes can be cut up like that.  A   *)
(* byte of a body stands for itself: <<f, k>> is byte k of frame f, so that a *)
(* field shows which message, and which part of it, it was read from.         *)
(******************************************************************************)
EXTENDS Integers, Sequences

(* The body lengths of the specification; 0 is "not in the table". *)
SpecLength(type) == CASE type \in {"S", "W"} -> 12
                      [] type \in {"D", "B"} -> 19
                      [] type \in {"Y", "N"} -> 20
                      [] type \in {"V", "J", "U"} -> 35
                      [] type \in {"A", "C"} -> 36
                      [] type \in {"F", "Q"} -> 40
                      [] type = "h" -> 21
                      [] type = "X" -> 23
                      [] type = "H" -> 25
                      [] type = "L" -> 26
                      [] type = "K" -> 28
                      [] type = "E" -> 31
                      [] type = "R" -> 39
                      [] type = "P" -> 44
                      [] type = "I" -> 50
                      [] OTHER -> 0

HeaderLength == 11

(* Bytes k, k+1, ..., of frame f; the value zero; a register before its reset. *)
Bytes(f, k, width) == [i \in 1..width |-> <<f, k + i - 1>>]
Zero(width) == [i \in 1..width |-> <<0, 0>>]
Stale(width) == [i \in 1..width |-> <<0, -1>>]

(* The four bytes, or eight, that a view reads at an offset, if it reads one. *)
Reads(f, width, offset) == IF offset = 0 THEN Zero(width) ELSE Bytes(f, offset, width)

(* The offsets of the views: the new reference, the shares, the price, the side. *)
Layout(type) ==
    CASE type \in {"A", "F"} -> [new |-> 0, shares |-> 20, price |-> 32, side |-> 19]
      [] type \in {"E", "C", "X"} -> [new |-> 0, shares |-> 19, price |-> 0, side |-> 0]
      [] type = "D" -> [new |-> 0, shares |-> 0, price |-> 0, side |-> 0]
      [] type = "U" -> [new |-> 19, shares |-> 27, price |-> 31, side |-> 0]

MutatesBook(type) == type \in {"A", "F", "E", "C", "X", "D", "U"}

(* What a caller of the reader decodes from frame f of the stream. *)
View(stream, f) ==
    LET type == stream[f].type
        at == IF MutatesBook(type) THEN Layout(type)
              ELSE [new |-> 0, shares |-> 0, price |-> 0, side |-> 0] IN
    [type |-> type, length |-> stream[f].len,
     locate |-> Bytes(f, 1, 2), timestamp |-> Bytes(f, 5, 6),
     order_ref |-> IF MutatesBook(type) THEN Bytes(f, 11, 8) ELSE Zero(8),
     new_ref |-> Reads(f, 8, at.new), shares |-> Reads(f, 4, at.shares),
     price |-> Reads(f, 4, at.price), side |-> Reads(f, 1, at.side),
     book_event |-> MutatesBook(type)]

-----------------------------------------------------------------------------
(* How many bytes of frame f, its length prefix included, the file has. *)
Available(stream, cut, f) == 2 + stream[f].len - (IF f = Len(stream) THEN cut ELSE 0)

Whole(stream, cut, f) == Available(stream, cut, f) = 2 + stream[f].len

(* The bytes of the first f frames. *)
SizeUpTo(stream, cut, n) ==
    LET size[f \in 0..n] ==
            IF f = 0 THEN 0 ELSE size[f - 1] + Available(stream, cut, f) IN size[n]

(* A body that holds all that its type's view reads, and a header in any case. *)
LongEnough(frame) == frame.len >= HeaderLength /\ frame.len >= SpecLength(frame.type)

(* The frames up to n that are, in order. *)
Sound(stream, n) ==
    LET sound[f \in 0..n] ==
            IF f = 0 THEN << >>
            ELSE IF LongEnough(stream[f]) THEN Append(sound[f - 1], f) ELSE sound[f - 1]
    IN sound[n]
=============================================================================

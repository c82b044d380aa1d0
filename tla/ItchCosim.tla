------------------------------ MODULE ItchCosim ------------------------------
(*****************************************************************************)
(* rtl/tb_itch_parse.cpp: the C++ reader and the hardware parser on the same *)
(* bytes.  The reader runs to its end first, as in the differential fuzzer,  *)
(* and then the parser is clocked, with a byte or, as its s_valid allows,    *)
(* without one.                                                              *)
(*****************************************************************************)
EXTENDS ItchReader, ItchParser, Maps

CONSTANTS Files        \* the files, pairs of frames and of the bytes cut off

(* A length prefix has two bytes, and no more is cut off than the last frame has. *)
ASSUME FilesAssumption ==
    \A file \in Files : LET frames == file[1] IN
        /\ frames \in Seq({frames[f] : f \in DOMAIN frames})
        /\ \A f \in 1..Len(frames) : frames[f].len \in Nat /\ frames[f].len < 2^16
        /\ file[2] \in Nat
        /\ \A f \in 1..Len(frames) : f = Len(frames) => file[2] <= 2 + frames[f].len

VARIABLES at,          \* the next byte for the parser, <<frame, offset>>
          msgs, shorts \* what the test bench has sampled from it

cosimVars == <<readerVars, parserVars, at, msgs, shorts>>

CosimInit == /\ \E file \in Files : stream = file[1] /\ cut = file[2]
        /\ ReaderInit /\ ParserInit
        /\ at = <<1, 0>> /\ msgs = << >> /\ shorts = 0

Read == ReaderNext /\ UNCHANGED <<parserVars, at, msgs, shorts>>

BytesLeft == at[1] <= Len(stream) /\ at[2] < Available(stream, cut, at[1])

(* The byte at an offset of a frame: its length, high byte first, and its body. *)
ByteAt(f, k) == CASE k = 0 -> stream[f].len \div 256
                  [] k = 1 -> stream[f].len % 256
                  [] k = 2 -> stream[f].type
                  [] OTHER -> <<f, k - 2>>

Following == IF at[2] + 1 = 2 + stream[at[1]].len THEN <<at[1] + 1, 0>>
             ELSE <<at[1], at[2] + 1>>

(* After each edge: if (dut.m_valid) push_back; if (dut.e_short) ++shorts. *)
Sample == /\ msgs' = IF mValid' THEN Append(msgs, Put(out', "type", mType')) ELSE msgs
          /\ shorts' = IF eShort' THEN shorts + 1 ELSE shorts

Feed == /\ stopped /\ BytesLeft
        /\ ClockByte(ByteAt(at[1], at[2]))
        /\ at' = Following
        /\ Sample
        /\ UNCHANGED readerVars

(* A cycle between two bytes, or one of those that drain the last message. *)
Gap == /\ stopped
       /\ ClockIdle
       /\ Sample
       /\ UNCHANGED <<readerVars, at>>

CosimNext == Read \/ Feed \/ Gap

CosimSpec == CosimInit /\ [][CosimNext]_cosimVars

-----------------------------------------------------------------------------
Fed == SizeUpTo(stream, cut, at[1] - 1) + at[2]

(* How many frames have been fed to their end and are not still being decoded. *)
Decoded == IF emit THEN at[1] - 2 ELSE at[1] - 1

Views(frames) == [i \in 1..Len(frames) |-> View(stream, frames[i])]

(* compare: as many messages, and every field of each the same. *)
Compare(rtl, cpp) == /\ Len(rtl) = Len(cpp)
                     /\ \A i \in 1..Len(rtl) : rtl[i] = cpp[i]

(* The fuzzer's verdict on the bytes that the reader has consumed: the same messages, *)
(* and the same number of frames rejected.                                            *)
FuzzAgrees == Compare(msgs, Views(handed)) /\ shorts = stats.short

(* Whatever the file, the fuzzer's verdict holds once the parser has drained.  At any  *)
(* other time it has decoded every sound frame that ended at least one cycle ago, past *)
(* an empty frame too, with no byte of an earlier message in any field.                *)
SameMessages ==
    stopped => /\ Fed = stats.bytes /\ ~emit => FuzzAgrees
               /\ Compare(msgs, Views(Sound(stream, Decoded)))
=============================================================================

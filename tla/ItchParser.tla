----------------------------- MODULE ItchParser -----------------------------
(********************************************************************************)
(* rtl/itch_parse.sv: the byte-serial parser, one step per clock edge.  The     *)
(* nonblocking assignments of the always_ff block are the primed variables:     *)
(* every right-hand side is the value before the edge.                          *)
(*                                                                              *)
(* A register is the sequence of the bytes shifted into it.  acc_side keeps the *)
(* byte itself rather than whether it is 'B'.                                   *)
(********************************************************************************)
EXTENDS ItchStream

VARIABLES
    state, len, cnt,                 \* the framing
    emit, emitLen, emitShort,        \* the decode armed by a final byte
    acc,                             \* the field accumulators
    mType,                           \* m_type, a register like any other
    out,                             \* the other m_ outputs
    mValid, eShort, eZeroLen         \* the strobes

parserVars == <<state, len, cnt, emit, emitLen, emitShort, acc, mType, out,
                mValid, eShort, eZeroLen>>

(* Which bytes of a body each accumulator takes. *)
Window == [locate |-> 1..2, ts |-> 5..10, ref |-> 11..18, ref2 |-> 19..26,
           q19 |-> 19..22, q20 |-> 20..23, q27 |-> 27..30, p31 |-> 31..34,
           p32 |-> 32..35, side |-> 19..19]

Width == [locate |-> 2, ts |-> 6, ref |-> 8, ref2 |-> 8, q19 |-> 4, q20 |-> 4,
          q27 |-> 4, p31 |-> 4, p32 |-> 4, side |-> 1]

(* spec_length of the hardware, a table of its own. *)
RtlSpecLength(t) == CASE t = "S" -> 12 [] t = "R" -> 39 [] t = "H" -> 25
                      [] t = "Y" -> 20 [] t = "L" -> 26 [] t = "V" -> 35
                      [] t = "W" -> 12 [] t = "K" -> 28 [] t = "J" -> 35
                      [] t = "h" -> 21 [] t = "A" -> 36 [] t = "F" -> 40
                      [] t = "E" -> 31 [] t = "C" -> 36 [] t = "X" -> 23
                      [] t = "D" -> 19 [] t = "U" -> 35 [] t = "P" -> 44
                      [] t = "Q" -> 40 [] t = "B" -> 19 [] t = "I" -> 50
                      [] t = "N" -> 20 [] OTHER -> 0

(* After a reset, which leaves the accumulators as they were. *)
ParserInit == /\ state = "LenHi" /\ len = 0 /\ cnt = 0 /\ emit = FALSE
              /\ emitLen = 0 /\ emitShort = FALSE /\ mType = "?"
              /\ acc = [r \in DOMAIN Window |-> Stale(Width[r])]
              /\ out = [length |-> 0]
              /\ mValid = FALSE /\ eShort = FALSE /\ eZeroLen = FALSE

IsAdd == mType \in {"A", "F"}
IsExecOrCancel == mType \in {"E", "C", "X"}
IsReplace == mType = "U"
IsBook == IsAdd \/ IsExecOrCancel \/ mType = "D" \/ IsReplace

(* Seeded fault: the order reference is not gated on the type. *)
SelectedUngated ==
    [length |-> emitLen, timestamp |-> acc.ts, locate |-> acc.locate,
     order_ref |-> acc.ref,
     new_ref |-> IF IsReplace THEN acc.ref2 ELSE Zero(8),
     side |-> IF IsAdd THEN acc.side ELSE Zero(1),
     book_event |-> IsBook,
     shares |-> IF IsAdd THEN acc.q20 ELSE IF IsExecOrCancel THEN acc.q19
                ELSE IF IsReplace THEN acc.q27 ELSE Zero(4),
     price |-> IF IsAdd THEN acc.p32 ELSE IF IsReplace THEN acc.p31 ELSE Zero(4)]

(* Every field is gated on the type that carries it. *)
Selected ==
    [length |-> emitLen, timestamp |-> acc.ts, locate |-> acc.locate,
     order_ref |-> IF IsBook THEN acc.ref ELSE Zero(8),
     new_ref |-> IF IsReplace THEN acc.ref2 ELSE Zero(8),
     side |-> IF IsAdd THEN acc.side ELSE Zero(1),
     book_event |-> IsBook,
     shares |-> IF IsAdd THEN acc.q20 ELSE IF IsExecOrCancel THEN acc.q19
                ELSE IF IsReplace THEN acc.q27 ELSE Zero(4),
     price |-> IF IsAdd THEN acc.p32 ELSE IF IsReplace THEN acc.p31 ELSE Zero(4)]

(* if (emit): the strobe of the message whose last byte came a cycle ago. *)
Strobe == /\ eShort' = (emit /\ emitShort)
          /\ mValid' = (emit /\ ~emitShort)
          /\ out' = IF emit /\ ~emitShort THEN Selected ELSE out

-----------------------------------------------------------------------------
(* What an accepted byte does to the framing, in each of the three states. *)
TakeLenHi(byte) == /\ state = "LenHi"
                   /\ len' = 256 * byte + (len % 256)
                   /\ state' = "LenLo"
                   /\ eZeroLen' = FALSE
                   /\ emit' = FALSE
                   /\ UNCHANGED <<cnt, emitLen, emitShort, acc, mType>>

(* Seeded fault: a body of no bytes is waited for. *)
TakeLenLoAnyBody(byte) ==
    /\ state = "LenLo"
    /\ len' = len - (len % 256) + byte
    /\ cnt' = 0
    /\ eZeroLen' = (len' = 0)
    /\ state' = "Body"
    /\ emit' = FALSE
    /\ UNCHANGED <<emitLen, emitShort, acc, mType>>

TakeLenLo(byte) == /\ state = "LenLo"
                   /\ len' = len - (len % 256) + byte
                   /\ cnt' = 0
                   /\ eZeroLen' = (len' = 0)
                   /\ state' = IF len' = 0 THEN "LenHi" ELSE "Body"
                   /\ emit' = FALSE
                   /\ UNCHANGED <<emitLen, emitShort, acc, mType>>

(* The last byte of a body arms the decode of the next cycle. *)
TakeBody(byte) ==
    LET last == cnt = len - 1 IN
    /\ state = "Body"
    /\ mType' = IF cnt = 0 THEN byte ELSE mType
    /\ acc' = [r \in DOMAIN Window |->
                 IF cnt \in Window[r] THEN Append(Tail(acc[r]), byte) ELSE acc[r]]
    /\ state' = IF last THEN "LenHi" ELSE "Body"
    /\ emit' = (last /\ ~emit)
    /\ emitLen' = IF last THEN len ELSE emitLen
    /\ emitShort' = IF last THEN \/ len < HeaderLength
                                 \/ len < RtlSpecLength(mType)
                    ELSE emitShort
    /\ cnt' = (cnt + 1) % 2^16
    /\ eZeroLen' = FALSE
    /\ UNCHANGED len

(* A clock edge with a byte on the input, and one without. *)
ClockByte(byte) == (TakeLenHi(byte) \/ TakeLenLo(byte) \/ TakeBody(byte)) /\ Strobe

ClockIdle == /\ Strobe
             /\ emit' = FALSE /\ eZeroLen' = FALSE
             /\ UNCHANGED <<state, len, cnt, emitLen, emitShort, acc, mType>>

(* The module's own assertions, of any clock edge: the byte counter stays inside the *)
(* body, a message is decoded or rejected and never both, every strobe lasts one     *)
(* cycle, and an armed decode is resolved in the next cycle, before a later message  *)
(* can disturb the accumulators.                                                     *)
AssertionsHold ==
    [][/\ state = "Body" /\ cnt' # cnt => cnt < len
       /\ ~(mValid' /\ eShort') /\ (mValid' => out'.length >= HeaderLength)
       /\ ~(mValid /\ mValid') /\ ~(eShort /\ eShort') /\ ~(emit /\ emit')]_parserVars
=============================================================================

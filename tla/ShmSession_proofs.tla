------------------------- MODULE ShmSession_proofs -------------------------
(*********************************************************************************)
(* ShmSession for every capacity, tape length, number of attempts and of         *)
(* restarts: what open promises, that what the subscriber reports adds up, that  *)
(* nothing torn reaches it, that gaps are real, and that the ring is LossyFeed.  *)
(*                                                                               *)
(* The argument.  LaidOutInOrder: the magic is there only with the fields it     *)
(* vouches for, and a subscriber past the check has seen the magic of the        *)
(* session it checked.  CountsFit: every sequence number in the mapping or in a  *)
(* copy of it is one of the tape, so nothing moves next past its end.            *)
(* SeqlockInv adds the seqlock.  A slot's version is twice the lap it is in, and *)
(* even only while the slot holds one whole message, the one Turn names          *)
(* (VersionsName, SlotInHand, SlotsAtRest); versions only go up within a session *)
(* (SlotsOnlyAdvance), so a copy between two equal loads is of one message       *)
(* (ReadsInOrder); and no session's slots pass for another's (SessionsApart).    *)
(*********************************************************************************)
EXTENDS ShmSession, TLAPS

(* The subscriber has loaded the magic but not the whole layout. *)
Checking == subscriber \in {"version", "finish"}

LaidOutInOrder ==
    /\ session \in Nat
    /\ checked \in 0..session
    /\ session = 0 => publisher = "create" /\ header = {}
    /\ "magic" \in header => Fields \subseteq header
    /\ checked > 0 /\ Current => Fields \subseteq header
    /\ Checking => checked > 0
    /\ OpensWholeRing

SlotType == [version : Nat, seq : 0..Messages, lo : Nat, hi : Nat]

PublisherFits ==
    /\ slots \in [0..(Capacity - 1) -> SlotType]
    /\ writeSeq \in 0..Messages
    /\ eofSeq \in {0, Messages + 1}
    /\ toWrite \subseteq Words
    /\ publisher \in {"fill", "even"} => writeSeq < Messages

SubscriberFits ==
    /\ next \in 0..Messages
    /\ seenSeq \in Nat
    /\ missed \in Nat
    /\ delivered \in Seq(Nat \X Nat \X Nat)
    /\ copy \in SlotType
    /\ toRead \subseteq Words
    /\ subscriber \in {"slot", "copy"} => next < Messages

CountsFit == PublisherFits /\ SubscriberFits /\ Accounted

-----------------------------------------------------------------------------
(* create and open. *)

LEMMA LayoutStart == SessionInit => LaidOutInOrder
  BY DEF SessionInit, RingInit, LaidOutInOrder, OpensWholeRing, Current, Checking

LEMMA LayoutStep ==
    ASSUME LaidOutInOrder, [SessionNext]_allVars
    PROVE  LaidOutInOrder'
<1> USE DEF LaidOutInOrder, OpensWholeRing, Current, Checking, pubVars, subVars
<1>1. CASE Truncate
  BY <1>1 DEF Truncate
<1>2. CASE Resize
  BY <1>2 DEF Resize
<1>3. CASE StoreField
  <2>1. PICK field \in Fields \ header : header' = header \cup {field}
    BY <1>3 DEF StoreField
  <2>2. UNCHANGED <<session, checked, subscriber>> /\ "magic" \notin Fields
    BY <1>3 DEF StoreField, vars, Fields
  <2> QED
    BY <1>3, <2>1, <2>2 DEF StoreField
<1>4. CASE Stamp
  BY <1>4 DEF Stamp, LaidOut, Waits
<1>5. CASE Crash
  BY <1>5 DEF Crash, sessionVars
<1>6. CASE Open
  <2>1. CASE OpenFile
    BY <2>1 DEF OpenFile, Goes
  <2>2. CASE CheckMagic
    BY <2>2 DEF CheckMagic, Goes
  <2>3. CASE CheckVersion
    BY <2>3 DEF CheckVersion, Goes
  <2>4. CASE FinishOpen
    BY <2>4 DEF FinishOpen, Goes, Fields
  <2> QED
    BY <1>6, <2>1, <2>2, <2>3, <2>4 DEF Open
<1>7. CASE Killed
  BY <1>7 DEF Killed, Goes
<1>8. CASE Publish
  BY <1>8 DEF Publish, Publisher, StartPublishing, BeginWrite, StoreWord, EndWrite,
              Advance, MarkEof, sessionVars
<1>9. CASE Subscribe
  <2>1. subscriber' \notin {"version", "finish", "mislaid"} /\ UNCHANGED publisher
    BY <1>9 DEF Subscribe, Subscriber, Attach, LoadVersion, LoadWord, Retry, TakeCopy,
                GiveUp, LoadPublished, LoadEof
  <2> QED
    BY <1>9, <2>1 DEF Subscribe
<1>10. CASE Ended
  BY <1>10 DEF Ended, allVars, vars, sessionVars
<1>11. CASE UNCHANGED allVars
  BY <1>11 DEF allVars, vars, sessionVars
<1> QED
  BY <1>1, <1>2, <1>3, <1>4, <1>5, <1>6, <1>7, <1>8, <1>9, <1>10, <1>11
     DEF SessionNext, Create

(* A subscriber that got past the magic never reads a capacity of zero, unless    *)
(* the publisher has created the ring again since (create's stores, finish_open). *)
THEOREM LayoutIsWhole == SessionSpec => []OpensWholeRing
<1>1. LaidOutInOrder => OpensWholeRing
  BY DEF LaidOutInOrder
<1> QED
  BY <1>1, LayoutStart, LayoutStep, PTL DEF SessionSpec

-----------------------------------------------------------------------------
(* What the subscriber reports. *)

LEMMA SlotInRange ==
    ASSUME NEW n \in Nat
    PROVE  Slot(n) \in 0..(Capacity - 1)
  BY CapacityAssumption, SMT DEF Slot

LEMMA CountsStart == SessionInit => CountsFit
<1> SUFFICES ASSUME SessionInit PROVE CountsFit
  OBVIOUS
<1>1. Blank \in SlotType
  BY BoundsAssumption DEF Blank, SlotType
<1>2. PublisherFits
  BY <1>1, BoundsAssumption DEF SessionInit, RingInit, PublisherFits, Words
<1>3. SubscriberFits
  BY <1>1, BoundsAssumption DEF SessionInit, RingInit, SubscriberFits
<1>4. Accounted
  BY DEF SessionInit, RingInit, Accounted
<1> QED
  BY <1>2, <1>3, <1>4 DEF CountsFit

(* Storing into a slot what belongs there. *)
LEMMA VersionUp ==
    ASSUME PublisherFits
    PROVE  [slots EXCEPT ![Slot(writeSeq)].version = @ + 1]
               \in [0..(Capacity - 1) -> SlotType]
<1>1. slots[Slot(writeSeq)] \in SlotType /\ Slot(writeSeq) \in 0..(Capacity - 1)
  BY SlotInRange, BoundsAssumption DEF PublisherFits
<1>2. [slots[Slot(writeSeq)] EXCEPT !.version = @ + 1] \in SlotType
  BY <1>1 DEF SlotType
<1> QED
  BY <1>1, <1>2 DEF PublisherFits

LEMMA WordStored ==
    ASSUME PublisherFits, NEW word \in Words
    PROVE  [slots EXCEPT ![Slot(writeSeq)][word] = Word(writeSeq, word)]
               \in [0..(Capacity - 1) -> SlotType]
<1>1. slots[Slot(writeSeq)] \in SlotType /\ Slot(writeSeq) \in 0..(Capacity - 1)
  BY SlotInRange, BoundsAssumption DEF PublisherFits
<1>2. [slots[Slot(writeSeq)] EXCEPT ![word] = Word(writeSeq, word)] \in SlotType
  BY <1>1, BoundsAssumption DEF SlotType, Words, Word, PublisherFits
<1> QED
  BY <1>1, <1>2 DEF PublisherFits

LEMMA PublishFits ==
    ASSUME CountsFit, Publisher
    PROVE  CountsFit'
<1>1. PublisherFits /\ SubscriberFits /\ Accounted
  BY DEF CountsFit
<1>2. UNCHANGED <<subscriber, next, seenSeq, missed, delivered, copy, toRead>>
  BY DEF Publisher, StartPublishing, BeginWrite, StoreWord, EndWrite, Advance, MarkEof,
         subVars
<1>3. SubscriberFits' /\ Accounted'
  BY <1>1, <1>2 DEF SubscriberFits, Accounted
<1>4. PublisherFits'
  <2>1. CASE StartPublishing
    BY <1>1, <2>1 DEF StartPublishing, PublisherFits
  <2>2. CASE BeginWrite
    BY <1>1, <2>2, VersionUp, BoundsAssumption DEF BeginWrite, PublisherFits, TapeLeft
  <2>3. CASE StoreWord
    <3>1. PICK word \in toWrite :
             /\ slots' = [slots EXCEPT ![Slot(writeSeq)][word] = Word(writeSeq, word)]
             /\ toWrite' = toWrite \ {word}
      BY <2>3 DEF StoreWord
    <3>2. slots' \in [0..(Capacity - 1) -> SlotType]
      BY <1>1, <3>1, WordStored DEF PublisherFits
    <3> QED
      BY <1>1, <2>3, <3>1, <3>2 DEF StoreWord, PublisherFits
  <2>4. CASE EndWrite
    BY <1>1, <2>4, VersionUp DEF EndWrite, PublisherFits
  <2>5. CASE Advance
    BY <1>1, <2>5, BoundsAssumption DEF Advance, PublisherFits
  <2>6. CASE MarkEof
    BY <1>1, <2>6, BoundsAssumption DEF MarkEof, PublisherFits, TapeLeft
  <2> QED
    BY <2>1, <2>2, <2>3, <2>4, <2>5, <2>6 DEF Publisher
<1> QED
  BY <1>3, <1>4 DEF CountsFit

(* Moving next on over missed messages keeps the sum. *)
LEMMA SkipFits ==
    ASSUME CountsFit, NEW n \in next..Messages, SkipTo(n)
    PROVE  /\ next' \in 0..Messages /\ missed' \in Nat
           /\ delivered' \in Seq(Nat \X Nat \X Nat)
           /\ Len(delivered') + missed' = next'
<1>1. /\ next \in Nat /\ missed \in Nat /\ Len(delivered) \in Nat
      /\ Len(delivered) + missed = next
      /\ delivered \in Seq(Nat \X Nat \X Nat)
  BY BoundsAssumption DEF CountsFit, SubscriberFits, Accounted
<1>2. next' = n /\ missed' = missed + (n - next) /\ delivered' = delivered
  BY DEF SkipTo
<1> QED
  BY <1>1, <1>2, BoundsAssumption

LEMMA SubscribeFits ==
    ASSUME CountsFit, Subscriber
    PROVE  CountsFit'
<1>1. PublisherFits /\ SubscriberFits /\ Accounted
  BY DEF CountsFit
<1>2. PublisherFits'
  <2>1. UNCHANGED <<slots, writeSeq, eofSeq, publisher, toWrite>>
    BY DEF Subscriber, Attach, LoadVersion, LoadWord, Retry, TakeCopy, GiveUp,
           LoadPublished, LoadEof, pubVars
  <2> QED
    BY <1>1, <2>1 DEF PublisherFits
<1>3. Blank \in SlotType
  BY BoundsAssumption DEF Blank, SlotType
<1>4. SubscriberFits' /\ Accounted'
  <2>1. CASE Attach
    BY <1>1, <2>1 DEF Attach, SubscriberFits, Accounted
  <2>2. CASE LoadVersion
    BY <1>1, <1>3, <2>2 DEF LoadVersion, SubscriberFits, Accounted
  <2>3. CASE LoadWord
    <3>1. PICK word \in toRead :
             /\ copy' = [copy EXCEPT ![word] = slots[Slot(next)][word]]
             /\ toRead' = toRead \ {word}
      BY <2>3 DEF LoadWord
    <3>2. slots[Slot(next)] \in SlotType /\ copy \in SlotType /\ word \in Words
      BY <1>1, SlotInRange, BoundsAssumption DEF PublisherFits, SubscriberFits
    <3>3. copy' \in SlotType
      BY <3>1, <3>2 DEF SlotType, Words
    <3> QED
      BY <1>1, <2>3, <3>1, <3>3 DEF LoadWord, SubscriberFits, Accounted
  <2>4. CASE Retry
    BY <1>1, <2>4 DEF Retry, Torn, SubscriberFits, Accounted
  <2>5. CASE TakeCopy
    <3>1. /\ next \in 0..Messages /\ next < Messages
          /\ copy.seq \in 0..Messages /\ copy.lo \in Nat /\ copy.hi \in Nat
      BY <1>1, <2>5 DEF TakeCopy, Consistent, SubscriberFits, SlotType
    <3>2. /\ subscriber' \in {"empty", "poll"}
          /\ UNCHANGED <<seenSeq, copy, toRead>>
      BY <2>5 DEF TakeCopy
    <3>3. /\ copy.seq = next => ~(copy.seq > next) /\ ~(copy.seq < next)
          /\ copy.seq > next => copy.seq # next /\ ~(copy.seq < next)
          /\ copy.seq < next => copy.seq # next /\ ~(copy.seq > next)
      BY <3>1, BoundsAssumption
    <3>4. CASE copy.seq = next
      <4>1. /\ delivered' = Append(delivered, <<next, copy.lo, copy.hi>>)
            /\ next' = next + 1 /\ missed' = missed
        BY <2>5, <3>3, <3>4 DEF TakeCopy
      <4>2. /\ delivered \in Seq(Nat \X Nat \X Nat)
            /\ <<next, copy.lo, copy.hi>> \in Nat \X Nat \X Nat
        BY <1>1, <3>1, BoundsAssumption DEF SubscriberFits
      <4>3. /\ delivered' \in Seq(Nat \X Nat \X Nat)
            /\ Len(delivered') = Len(delivered) + 1 /\ Len(delivered) \in Nat
        BY <4>1, <4>2
      <4> QED
        BY <1>1, <3>1, <3>2, <4>1, <4>3, BoundsAssumption DEF SubscriberFits, Accounted
    <3>5. CASE copy.seq > next
      <4>1. SkipTo(copy.seq)
        BY <2>5, <3>3, <3>5 DEF TakeCopy
      <4>2. copy.seq \in next..Messages
        BY <3>1, <3>5, BoundsAssumption
      <4> QED
        BY <1>1, <3>2, <4>1, <4>2, SkipFits DEF SubscriberFits, Accounted
    <3>6. CASE copy.seq < next
      <4>1. UNCHANGED <<delivered, next, missed>>
        BY <2>5, <3>3, <3>6 DEF TakeCopy
      <4> QED
        BY <1>1, <3>2, <4>1 DEF SubscriberFits, Accounted
    <3> QED
      BY <3>1, <3>4, <3>5, <3>6, BoundsAssumption
  <2>6. CASE GiveUp
    <3>1. SkipTo(next + 1) /\ subscriber' = "poll" /\ UNCHANGED <<seenSeq, copy, toRead>>
      BY <2>6 DEF GiveUp
    <3>2. next + 1 \in next..Messages
      BY <1>1, <2>6, BoundsAssumption DEF GiveUp, SubscriberFits
    <3> QED
      BY <1>1, <3>1, <3>2, SkipFits DEF SubscriberFits, Accounted
  <2>7. ASSUME NEW published \in 0..writeSeq, LoadPublished(published)
        PROVE  SubscriberFits' /\ Accounted'
    <3>1. /\ published \in 0..Messages /\ next \in 0..Messages
          /\ seenSeq' = published /\ UNCHANGED <<copy, toRead>>
          /\ subscriber' \in {"empty", "poll", "slot"}
          /\ subscriber' = "slot" => ~NothingNew(published) /\ ~Overtaken(published)
      BY <1>1, <2>7, BoundsAssumption DEF LoadPublished, PublisherFits, SubscriberFits
    <3>2. CASE ~NothingNew(published) /\ Overtaken(published)
      <4>1. SkipTo(published - Capacity) /\ subscriber' = "poll"
        BY <2>7, <3>2 DEF LoadPublished
      <4>2. published - Capacity \in next..Messages
        BY <3>1, <3>2, BoundsAssumption, CapacityAssumption DEF Overtaken
      <4> QED
        BY <1>1, <3>1, <4>1, <4>2, SkipFits DEF SubscriberFits, Accounted
    <3>3. CASE ~(~NothingNew(published) /\ Overtaken(published))
      <4>1. UNCHANGED <<next, missed, delivered>>
        BY <2>7, <3>3 DEF LoadPublished
      <4>2. subscriber' = "slot" => next < Messages
        BY <3>1, BoundsAssumption DEF NothingNew
      <4> QED
        BY <1>1, <3>1, <4>1, <4>2 DEF SubscriberFits, Accounted
    <3> QED
      BY <3>2, <3>3
  <2>8. ASSUME NEW eof \in {0, eofSeq}, LoadEof(eof)
        PROVE  SubscriberFits' /\ Accounted'
    <3>1. /\ UNCHANGED <<next, seenSeq, copy, toRead, delivered, missed>>
          /\ subscriber' = IF AtEnd(eof) THEN "exited" ELSE "poll"
      BY <2>8 DEF LoadEof
    <3>2. AtEnd(eof) => next = Messages
      BY <1>1, BoundsAssumption DEF AtEnd, PublisherFits, SubscriberFits
    <3> QED
      BY <1>1, <3>1, <3>2 DEF SubscriberFits, Accounted
  <2> QED
    BY <2>1, <2>2, <2>3, <2>4, <2>5, <2>6, <2>7, <2>8 DEF Subscriber
<1> QED
  BY <1>2, <1>4 DEF CountsFit

LEMMA CountsStep ==
    ASSUME CountsFit, [SessionNext]_allVars
    PROVE  CountsFit'
<1>1. PublisherFits /\ SubscriberFits /\ Accounted
  BY DEF CountsFit
<1> USE DEF pubVars, subVars
<1>2. CASE Truncate
  BY <1>1, <1>2 DEF Truncate, CountsFit, PublisherFits, SubscriberFits, Accounted
<1>3. CASE Resize
  <2>1. Blank \in SlotType
    BY BoundsAssumption DEF Blank, SlotType
  <2>2. PublisherFits'
    BY <1>1, <1>3, <2>1, BoundsAssumption DEF Resize, PublisherFits
  <2>3. SubscriberFits' /\ Accounted'
    BY <1>1, <1>3 DEF Resize, SubscriberFits, Accounted
  <2> QED
    BY <2>2, <2>3 DEF CountsFit
<1>4. CASE StoreField
  BY <1>1, <1>4 DEF StoreField, vars, CountsFit, PublisherFits, SubscriberFits, Accounted
<1>5. CASE Stamp
  BY <1>1, <1>5 DEF Stamp, Waits, CountsFit, PublisherFits, SubscriberFits, Accounted
<1>6. CASE Crash
  BY <1>1, <1>6 DEF Crash, CountsFit, PublisherFits, SubscriberFits, Accounted
<1>7. CASE Open \/ Killed
  <2>1. PICK from, to : /\ Goes(from, to)
                        /\ to \in {"open", "magic", "version", "finish", "attach",
                                   "mislaid", "killed"}
    BY <1>7 DEF Open, OpenFile, CheckMagic, CheckVersion, FinishOpen, Killed
  <2> QED
    BY <1>1, <2>1 DEF Goes, CountsFit, PublisherFits, SubscriberFits, Accounted
<1>8. CASE Publish
  BY <1>8, PublishFits DEF Publish
<1>9. CASE Subscribe
  BY <1>9, SubscribeFits DEF Subscribe
<1>10. CASE Ended
  BY <1>1, <1>10 DEF Ended, allVars, vars, CountsFit, PublisherFits, SubscriberFits, Accounted
<1>11. CASE UNCHANGED allVars
  BY <1>1, <1>11 DEF allVars, vars, CountsFit, PublisherFits, SubscriberFits, Accounted
<1> QED
  BY <1>2, <1>3, <1>4, <1>5, <1>6, <1>7, <1>8, <1>9, <1>10, <1>11
     DEF SessionNext, Create

(* The report of shm_sub adds up, for every capacity and tape, however often the *)
(* publisher is started again: received plus missed is what next has moved over, *)
(* and the loop is left at the end of the tape only.                             *)
THEOREM ReportAddsUp == SessionSpec => []Accounted
<1>1. CountsFit => Accounted
  BY DEF CountsFit
<1> QED
  BY <1>1, CountsStart, CountsStep, PTL DEF SessionSpec

-----------------------------------------------------------------------------
(* Slots and laps. *)

Lap(n) == n \div Capacity

(* The version a slot has once message n is in it, and until it is overwritten. *)
Turn(n) == 2 * (Lap(n) + 1)

LEMMA NoMultipleBetween ==
    ASSUME NEW n \in Nat \ {0}, NEW q \in Int, NEW r \in Int,
           n * (q - r) > -n, n * (q - r) < n
    PROVE  q = r
  BY SMT

LEMMA Remainder ==
    ASSUME NEW c \in Nat \ {0}, NEW n \in Nat
    PROVE  /\ n \div c \in Nat /\ n % c \in 0..(c - 1)
           /\ n = c * (n \div c) + (n % c)
  BY SMT

LEMMA Division ==
    ASSUME NEW n \in Nat
    PROVE  /\ Lap(n) \in Nat /\ Slot(n) \in 0..(Capacity - 1)
           /\ n = Capacity * Lap(n) + Slot(n)
  BY Remainder, CapacityAssumption DEF Lap, Slot

LEMMA DivisionIsUnique ==
    ASSUME NEW q \in Int, NEW r \in Int,
           NEW x \in 0..(Capacity - 1), NEW y \in 0..(Capacity - 1),
           Capacity * q + x = Capacity * r + y
    PROVE  q = r /\ x = y
<1>1. Capacity \in Nat \ {0}
  BY CapacityAssumption
<1>2. Capacity * (q - r) = y - x
  BY <1>1
<1>3. q = r
  BY <1>1, <1>2, NoMultipleBetween
<1> QED
  BY <1>1, <1>3

(* The message that is the q-th of slot i. *)
LEMMA MessageOf ==
    ASSUME NEW q \in Nat, NEW i \in 0..(Capacity - 1)
    PROVE  \E n \in Nat : Slot(n) = i /\ Lap(n) = q
<1> DEFINE n == Capacity * q + i
<1>1. n \in Nat
  BY CapacityAssumption
<1>2. /\ Lap(n) \in Nat /\ Slot(n) \in 0..(Capacity - 1)
      /\ n = Capacity * Lap(n) + Slot(n)
  BY <1>1, Division
<1>3. Capacity * q + i = Capacity * Lap(n) + Slot(n)
  BY <1>2
<1> HIDE DEF n
<1>4. q = Lap(n) /\ i = Slot(n)
  BY <1>2, <1>3, DivisionIsUnique
<1> QED
  BY <1>1, <1>4

(* A slot takes its messages in order. *)
LEMMA SlotOrder ==
    ASSUME NEW m \in Nat, NEW n \in Nat, Slot(m) = Slot(n), Lap(m) <= Lap(n)
    PROVE  m <= n /\ (Lap(m) = Lap(n) => m = n)
<1>1. /\ Lap(m) \in Nat /\ Lap(n) \in Nat /\ Slot(n) \in Nat
      /\ m = Capacity * Lap(m) + Slot(n) /\ n = Capacity * Lap(n) + Slot(n)
  BY Division, CapacityAssumption
<1>2. Capacity * (Lap(n) - Lap(m)) >= 0
  BY <1>1, CapacityAssumption
<1>3. n - m = Capacity * (Lap(n) - Lap(m))
  BY <1>1, CapacityAssumption
<1> QED
  BY <1>1, <1>2, <1>3

(* One lap further on is the same slot again. *)
LEMMA NextLap ==
    ASSUME NEW n \in Nat
    PROVE  Slot(n + Capacity) = Slot(n) /\ Lap(n + Capacity) = Lap(n) + 1
<1> DEFINE m == n + Capacity
<1>1. m \in Nat
  BY CapacityAssumption
<1>2. /\ Lap(n) \in Nat /\ Slot(n) \in 0..(Capacity - 1)
      /\ n = Capacity * Lap(n) + Slot(n)
      /\ Lap(m) \in Nat /\ Slot(m) \in 0..(Capacity - 1)
      /\ m = Capacity * Lap(m) + Slot(m)
  BY <1>1, Division
<1>3. Capacity * (Lap(n) + 1) + Slot(n) = Capacity * Lap(m) + Slot(m)
  BY <1>2, CapacityAssumption
<1> HIDE DEF m
<1>4. Lap(n) + 1 = Lap(m) /\ Slot(n) = Slot(m)
  BY <1>2, <1>3, DivisionIsUnique
<1> QED
  BY <1>4 DEF m

LEMMA FirstLap ==
    ASSUME NEW n \in Nat, n < Capacity
    PROVE  Lap(n) = 0
<1>1. n \in 0..(Capacity - 1) /\ n = Capacity * 0 + n
  BY CapacityAssumption
<1>2. /\ Lap(n) \in Nat /\ Slot(n) \in 0..(Capacity - 1)
      /\ Capacity * 0 + n = Capacity * Lap(n) + Slot(n)
  BY <1>1, Division
<1> QED
  BY <1>1, <1>2, DivisionIsUnique

-----------------------------------------------------------------------------
(* The publisher's half of the seqlock. *)

Version(n) == slots[Slot(n)].version
Even(v) == v % 2 = 0

(* An even version names the message whose words are under it, now and after a   *)
(* crash: all that were published have been stored, and nothing further than the *)
(* one that is being published.                                                  *)
VersionsName ==
    /\ \A n \in Nat : Version(n) = Turn(n) =>
                         \A word \in Words : slots[Slot(n)][word] = Word(n, word)
    /\ \A n \in Nat : n < writeSeq => Version(n) >= Turn(n)
    /\ \A n \in Nat : Version(n) >= Turn(n) => n <= writeSeq

(* A publisher at work: what it has reached in the slot it writes, ... *)
SlotInHand ==
    /\ publisher = "fill" =>
          /\ Version(writeSeq) = Turn(writeSeq) - 1
          /\ \A word \in Words \ toWrite :
                slots[Slot(writeSeq)][word] = Word(writeSeq, word)
    /\ publisher = "even" => Version(writeSeq) = Turn(writeSeq)

(* ... and that the others are as its predecessors left them. *)
SlotsAtRest ==
    publisher \in {"layout", "wait", "idle", "fill", "even", "done"} =>
        /\ \A i \in 0..(Capacity - 1) :
              (publisher = "fill" => i # Slot(writeSeq)) => Even(slots[i].version)
        /\ publisher # "even" => \A n \in Nat : Version(n) >= Turn(n) => n < writeSeq

SlotsInOrder == VersionsName /\ SlotInHand /\ SlotsAtRest

(* The subscriber's half, for one that has the ring of this session. *)
ReadsInOrder ==
    /\ subscriber \in {"slot", "copy"} => next < writeSeq
    /\ attempt \in Nat
    /\ subscriber \in {"slot", "copy"} /\ attempt > 0 => Version(next) > Turn(next)
    /\ subscriber = "copy" =>
          /\ version1 \in Nat /\ Even(version1)
          /\ Turn(next) <= version1 /\ version1 <= Version(next)
          /\ version1 = Version(next) =>
                \A word \in Words \ toRead : copy[word] = slots[Slot(next)][word]
    /\ NothingTorn

(* Nothing is delivered before open has returned, and nobody's ring is laid out *)
(* again under the session it opened.                                           *)
SessionsApart ==
    /\ subscriber \in {"open", "magic", "version", "finish", "attach"} => delivered = << >>
    /\ publisher = "resize" => file = "empty" /\ checked < session

SeqlockInv == /\ LaidOutInOrder /\ CountsFit
              /\ SlotsInOrder /\ SessionsApart
              /\ attempt \in Nat
              /\ Current => ReadsInOrder


-----------------------------------------------------------------------------
(* Turns and parities. *)

LEMMA TurnIsEven ==
    ASSUME NEW n \in Nat
    PROVE  Turn(n) \in Nat /\ Turn(n) >= 2 /\ Even(Turn(n)) /\ ~Even(Turn(n) - 1)
<1>1. Lap(n) \in Nat
  BY Division
<1> QED
  BY <1>1, SMT DEF Turn, Even

LEMMA EvenGap ==
    ASSUME NEW v \in Nat, NEW w \in Nat, Even(v), Even(w), v < w
    PROVE  v <= w - 2
  BY SMT DEF Even

LEMMA TurnOrder ==
    ASSUME NEW m \in Nat, NEW n \in Nat, Slot(m) = Slot(n)
    PROVE  /\ Turn(m) <= Turn(n) => m <= n
           /\ Turn(m) = Turn(n) => m = n
<1>1. Lap(m) \in Nat /\ Lap(n) \in Nat
  BY Division
<1>2. /\ Turn(m) <= Turn(n) => Lap(m) <= Lap(n)
      /\ Turn(m) = Turn(n) => Lap(m) = Lap(n)
  BY <1>1 DEF Turn
<1> QED
  BY <1>1, <1>2, SlotOrder

LEMMA TurnNextLap ==
    ASSUME NEW n \in Nat
    PROVE  Slot(n + Capacity) = Slot(n) /\ Turn(n + Capacity) = Turn(n) + 2
<1>1. Lap(n) \in Nat
  BY Division
<1> QED
  BY <1>1, NextLap DEF Turn

(* Every even version above zero is the turn of some message. *)
LEMMA EvenIsTurn ==
    ASSUME NEW v \in Nat, Even(v), v >= 2, NEW i \in 0..(Capacity - 1)
    PROVE  \E n \in Nat : Slot(n) = i /\ Turn(n) = v
<1>1. PICK q \in Nat : v = 2 * (q + 1)
  <2>1. v \div 2 - 1 \in Nat /\ v = 2 * ((v \div 2 - 1) + 1)
    BY SMT DEF Even
  <2> QED
    BY <2>1
<1>2. PICK n \in Nat : Slot(n) = i /\ Lap(n) = q
  BY MessageOf
<1> QED
  BY <1>1, <1>2 DEF Turn

(* The fields of a slot after the two kinds of store. *)
LEMMA VersionStored ==
    ASSUME PublisherFits, slots' = [slots EXCEPT ![Slot(writeSeq)].version = @ + 1]
    PROVE  \A n \in Nat :
             /\ Version(n)' = IF Slot(n) = Slot(writeSeq) THEN Version(n) + 1 ELSE Version(n)
             /\ \A word \in Words : slots'[Slot(n)][word] = slots[Slot(n)][word]
<1> SUFFICES ASSUME NEW n \in Nat
             PROVE  /\ Version(n)' = IF Slot(n) = Slot(writeSeq) THEN Version(n) + 1
                                     ELSE Version(n)
                    /\ \A word \in Words : slots'[Slot(n)][word] = slots[Slot(n)][word]
  OBVIOUS
<1>1. /\ Slot(n) \in 0..(Capacity - 1) /\ slots[Slot(n)] \in SlotType
      /\ DOMAIN slots = 0..(Capacity - 1)
  BY Division DEF PublisherFits
<1> QED
  BY <1>1 DEF Version, SlotType, Words

LEMMA WordStoredAt ==
    ASSUME PublisherFits, NEW field \in Words,
           slots' = [slots EXCEPT ![Slot(writeSeq)][field] = Word(writeSeq, field)]
    PROVE  \A n \in Nat :
             /\ Version(n)' = Version(n)
             /\ \A word \in Words :
                   slots'[Slot(n)][word] = IF Slot(n) = Slot(writeSeq) /\ word = field
                                           THEN Word(writeSeq, word)
                                           ELSE slots[Slot(n)][word]
<1> SUFFICES ASSUME NEW n \in Nat
             PROVE  /\ Version(n)' = Version(n)
                    /\ \A word \in Words :
                          slots'[Slot(n)][word] = IF Slot(n) = Slot(writeSeq) /\ word = field
                                                  THEN Word(writeSeq, word)
                                                  ELSE slots[Slot(n)][word]
  OBVIOUS
<1>1. /\ Slot(n) \in 0..(Capacity - 1) /\ slots[Slot(n)] \in SlotType
      /\ DOMAIN slots = 0..(Capacity - 1)
  BY Division DEF PublisherFits
<1> QED
  BY <1>1 DEF Version, SlotType, Words

LEMMA SlotTypes ==
    ASSUME PublisherFits, NEW n \in Nat
    PROVE  /\ Slot(n) \in 0..(Capacity - 1) /\ slots[Slot(n)] \in SlotType
           /\ Version(n) \in Nat /\ writeSeq \in Nat /\ Messages \in Nat
<1>1. Slot(n) \in 0..(Capacity - 1)
  BY Division
<1>2. slots[Slot(n)] \in SlotType /\ writeSeq \in Nat /\ Messages \in Nat
  BY <1>1, BoundsAssumption DEF PublisherFits
<1> QED
  BY <1>1, <1>2 DEF Version, SlotType

(* The slot that is written next is one turn behind. *)
LEMMA BeforeWrite ==
    ASSUME PublisherFits, VersionsName, SlotsAtRest, publisher = "idle"
    PROVE  Version(writeSeq) = Turn(writeSeq) - 2
<1>1. /\ writeSeq \in Nat /\ Slot(writeSeq) \in 0..(Capacity - 1)
      /\ Version(writeSeq) \in Nat
  <2>1. writeSeq \in Nat
    BY BoundsAssumption DEF PublisherFits
  <2> QED
    BY <2>1, SlotTypes
<1>2. Even(Version(writeSeq)) /\ ~(Version(writeSeq) >= Turn(writeSeq))
  BY <1>1 DEF SlotsAtRest, Version
<1>3. Turn(writeSeq) \in Nat /\ Turn(writeSeq) >= 2 /\ Even(Turn(writeSeq))
  BY <1>1, TurnIsEven
<1>4. Version(writeSeq) <= Turn(writeSeq) - 2
  BY <1>1, <1>2, <1>3, EvenGap
<1>5. Version(writeSeq) >= Turn(writeSeq) - 2
  <2>1. CASE writeSeq < Capacity
    BY <1>1, <1>3, <2>1, FirstLap DEF Turn
  <2>2. CASE ~(writeSeq < Capacity)
    <3> DEFINE before == writeSeq - Capacity
    <3>1. before \in Nat /\ before < writeSeq /\ writeSeq = before + Capacity
      BY <1>1, <2>2, CapacityAssumption
    <3> HIDE DEF before
    <3>2. Slot(writeSeq) = Slot(before) /\ Turn(writeSeq) = Turn(before) + 2
      BY <3>1, TurnNextLap
    <3>3. Version(before) >= Turn(before) /\ Turn(before) \in Nat
      BY <3>1, TurnIsEven DEF VersionsName
    <3> QED
      BY <1>1, <3>2, <3>3 DEF Version
  <2> QED
    BY <2>1, <2>2
<1> QED
  BY <1>1, <1>3, <1>4, <1>5

-----------------------------------------------------------------------------
(* Publishing: the slots stay in order, and no version goes back or stands for *)
(* two contents.                                                               *)

SlotsOnlyAdvance ==
    \A n \in Nat : /\ Version(n) <= Version(n)'
                   /\ Even(Version(n)) /\ Version(n)' = Version(n) =>
                         \A word \in Words : slots'[Slot(n)][word] = slots[Slot(n)][word]

LEMMA BeginWriteInOrder ==
    ASSUME PublisherFits, SlotsInOrder, BeginWrite
    PROVE  SlotsInOrder' /\ SlotsOnlyAdvance
<1>1. /\ publisher = "idle" /\ publisher' = "fill" /\ toWrite' = Words
      /\ slots' = [slots EXCEPT ![Slot(writeSeq)].version = @ + 1]
      /\ writeSeq' = writeSeq /\ writeSeq \in Nat
  BY BoundsAssumption DEF BeginWrite, PublisherFits
<1>2. \A n \in Nat :
         /\ Version(n)' = IF Slot(n) = Slot(writeSeq) THEN Version(n) + 1 ELSE Version(n)
         /\ \A word \in Words : slots'[Slot(n)][word] = slots[Slot(n)][word]
  BY <1>1, VersionStored
<1>3. Version(writeSeq) = Turn(writeSeq) - 2
  BY <1>1, BeforeWrite DEF SlotsInOrder
<1>4. \A n \in Nat : /\ Turn(n) \in Nat /\ Even(Turn(n)) /\ ~Even(Turn(n) - 1)
                     /\ Version(n) \in Nat
  BY TurnIsEven, SlotTypes
<1>5. Version(writeSeq)' = Turn(writeSeq) - 1
  BY <1>1, <1>2, <1>3, <1>4
<1>6. \A n \in Nat : Slot(n) = Slot(writeSeq) => /\ Version(n) = Turn(writeSeq) - 2
                                                 /\ Version(n)' = Turn(writeSeq) - 1
                                                 /\ Version(n)' # Turn(n)
  BY <1>1, <1>2, <1>3, <1>4, <1>5 DEF Version
<1>7. \A n \in Nat : Version(n)' >= Turn(n) => Version(n) >= Turn(n)
  <2> SUFFICES ASSUME NEW n \in Nat, Slot(n) = Slot(writeSeq), Version(n)' >= Turn(n)
               PROVE  Version(n) >= Turn(n)
    BY <1>2
  <2>1. Turn(n) < Turn(writeSeq)
    BY <1>1, <1>4, <1>6
  <2>2. Turn(n) <= Turn(writeSeq) - 2
    BY <1>1, <1>4, <2>1, EvenGap
  <2> QED
    BY <1>1, <1>4, <1>6, <2>2
<1>8. VersionsName'
  <2>1. \A n \in Nat : Version(n)' = Turn(n) =>
                         \A word \in Words : slots'[Slot(n)][word] = Word(n, word)
    <3> SUFFICES ASSUME NEW n \in Nat, Version(n)' = Turn(n)
                 PROVE  \A word \in Words : slots'[Slot(n)][word] = Word(n, word)
      OBVIOUS
    <3>1. Version(n) = Turn(n)
      BY <1>2, <1>6
    <3> QED
      BY <1>2, <3>1 DEF SlotsInOrder, VersionsName
  <2>2. \A n \in Nat : n < writeSeq => Version(n)' >= Turn(n)
    BY <1>2, <1>4 DEF SlotsInOrder, VersionsName
  <2>3. \A n \in Nat : Version(n)' >= Turn(n) => n <= writeSeq
    BY <1>7 DEF SlotsInOrder, VersionsName
  <2> QED
    BY <1>1, <2>1, <2>2, <2>3 DEF VersionsName, Turn, Lap, Slot, Version
<1>9. SlotInHand'
  BY <1>1, <1>5 DEF SlotInHand, Version, Turn, Lap, Slot
<1>10. SlotsAtRest'
  <2>1. \A i \in 0..(Capacity - 1) : i # Slot(writeSeq) => slots'[i].version = slots[i].version
    BY <1>1, Division DEF PublisherFits
  <2>2. \A i \in 0..(Capacity - 1) : i # Slot(writeSeq) => Even(slots'[i].version)
    BY <1>1, <2>1 DEF SlotsInOrder, SlotsAtRest
  <2>3. \A n \in Nat : Version(n)' >= Turn(n) => n < writeSeq
    BY <1>1, <1>7 DEF SlotsInOrder, SlotsAtRest
  <2> QED
    BY <1>1, <2>2, <2>3 DEF SlotsAtRest, Version, Turn, Lap, Slot
<1>11. SlotsOnlyAdvance
  BY <1>2, <1>4 DEF SlotsOnlyAdvance
<1> QED
  BY <1>8, <1>9, <1>10, <1>11 DEF SlotsInOrder

LEMMA StoreWordInOrder ==
    ASSUME PublisherFits, SlotsInOrder, StoreWord
    PROVE  SlotsInOrder' /\ SlotsOnlyAdvance
<1>1. PICK field \in toWrite :
         /\ slots' = [slots EXCEPT ![Slot(writeSeq)][field] = Word(writeSeq, field)]
         /\ toWrite' = toWrite \ {field}
  BY DEF StoreWord
<1>2. /\ publisher = "fill" /\ publisher' = "fill" /\ writeSeq' = writeSeq
      /\ writeSeq \in Nat /\ field \in Words
  BY BoundsAssumption DEF StoreWord, PublisherFits
<1>3. \A n \in Nat :
         /\ Version(n)' = Version(n)
         /\ \A word \in Words :
               slots'[Slot(n)][word] = IF Slot(n) = Slot(writeSeq) /\ word = field
                                       THEN Word(writeSeq, word) ELSE slots[Slot(n)][word]
  BY <1>1, <1>2, WordStoredAt
<1>4. Version(writeSeq) = Turn(writeSeq) - 1
  BY <1>2 DEF SlotsInOrder, SlotInHand
<1>5. \A n \in Nat : Slot(n) = Slot(writeSeq) => ~Even(Version(n))
  BY <1>2, <1>4, TurnIsEven DEF Version
<1>6. \A n \in Nat : Even(Version(n)) =>
                        \A word \in Words : slots'[Slot(n)][word] = slots[Slot(n)][word]
  BY <1>3, <1>5
<1>7. VersionsName'
  <2>1. \A n \in Nat : Version(n)' = Turn(n) =>
                         \A word \in Words : slots'[Slot(n)][word] = Word(n, word)
    <3> SUFFICES ASSUME NEW n \in Nat, Version(n)' = Turn(n)
                 PROVE  \A word \in Words : slots'[Slot(n)][word] = Word(n, word)
      OBVIOUS
    <3>1. Version(n) = Turn(n) /\ Even(Version(n))
      BY <1>3, TurnIsEven
    <3> QED
      BY <1>6, <3>1 DEF SlotsInOrder, VersionsName
  <2> QED
    BY <1>2, <1>3, <2>1 DEF SlotsInOrder, VersionsName, Turn, Lap, Slot, Version
<1>8. SlotInHand'
  <2>1. \A word \in Words \ toWrite' : slots'[Slot(writeSeq)][word] = Word(writeSeq, word)
    BY <1>1, <1>2, <1>3 DEF SlotsInOrder, SlotInHand
  <2> QED
    BY <1>2, <1>3, <1>4, <2>1 DEF SlotInHand, Version, Turn, Lap, Slot
<1>9. SlotsAtRest'
  <2>1. \A i \in 0..(Capacity - 1) : i # Slot(writeSeq) => slots'[i].version = slots[i].version
    BY <1>1, <1>2, Division DEF PublisherFits
  <2>2. \A i \in 0..(Capacity - 1) : i # Slot(writeSeq) => Even(slots'[i].version)
    BY <1>2, <2>1 DEF SlotsInOrder, SlotsAtRest
  <2>3. \A n \in Nat : Version(n)' >= Turn(n) => n < writeSeq
    BY <1>2, <1>3 DEF SlotsInOrder, SlotsAtRest
  <2> QED
    BY <1>2, <2>2, <2>3 DEF SlotsAtRest, Version, Turn, Lap, Slot
<1>10. SlotsOnlyAdvance
  BY <1>3, <1>6, SlotTypes DEF SlotsOnlyAdvance
<1> QED
  BY <1>7, <1>8, <1>9, <1>10 DEF SlotsInOrder

LEMMA EndWriteInOrder ==
    ASSUME PublisherFits, SlotsInOrder, EndWrite
    PROVE  SlotsInOrder' /\ SlotsOnlyAdvance
<1>1. /\ publisher = "fill" /\ publisher' = "even" /\ toWrite = {}
      /\ slots' = [slots EXCEPT ![Slot(writeSeq)].version = @ + 1]
      /\ writeSeq' = writeSeq /\ writeSeq \in Nat
  BY BoundsAssumption DEF EndWrite, PublisherFits
<1>2. \A n \in Nat :
         /\ Version(n)' = IF Slot(n) = Slot(writeSeq) THEN Version(n) + 1 ELSE Version(n)
         /\ \A word \in Words : slots'[Slot(n)][word] = slots[Slot(n)][word]
  BY <1>1, VersionStored
<1>3. /\ Version(writeSeq) = Turn(writeSeq) - 1
      /\ \A word \in Words : slots[Slot(writeSeq)][word] = Word(writeSeq, word)
  BY <1>1 DEF SlotsInOrder, SlotInHand
<1>4. \A n \in Nat : /\ Turn(n) \in Nat /\ Even(Turn(n)) /\ ~Even(Turn(n) - 1)
                     /\ Version(n) \in Nat
  BY TurnIsEven, SlotTypes
<1>5. \A n \in Nat : Slot(n) = Slot(writeSeq) => /\ Version(n) = Turn(writeSeq) - 1
                                                 /\ Version(n)' = Turn(writeSeq)
                                                 /\ ~Even(Version(n))
  BY <1>1, <1>2, <1>3, <1>4 DEF Version
<1>6. VersionsName'
  <2>1. ASSUME NEW n \in Nat, Version(n)' = Turn(n)
        PROVE  \A word \in Words : slots'[Slot(n)][word] = Word(n, word)
    <3>1. CASE Slot(n) = Slot(writeSeq)
      <4>1. n = writeSeq
        BY <1>1, <1>5, <2>1, <3>1, TurnOrder
      <4> QED
        BY <1>2, <1>3, <4>1
    <3>2. CASE Slot(n) # Slot(writeSeq)
      BY <1>2, <2>1, <3>2 DEF SlotsInOrder, VersionsName
    <3> QED
      BY <3>1, <3>2
  <2>2. \A n \in Nat : n < writeSeq => Version(n)' >= Turn(n)
    BY <1>2, <1>4 DEF SlotsInOrder, VersionsName
  <2>3. ASSUME NEW n \in Nat, Version(n)' >= Turn(n)
        PROVE  n <= writeSeq
    <3>1. CASE Slot(n) = Slot(writeSeq)
      BY <1>1, <1>4, <1>5, <2>3, <3>1, TurnOrder
    <3>2. CASE Slot(n) # Slot(writeSeq)
      BY <1>2, <2>3, <3>2 DEF SlotsInOrder, VersionsName
    <3> QED
      BY <3>1, <3>2
  <2> QED
    BY <1>1, <2>1, <2>2, <2>3 DEF VersionsName, Turn, Lap, Slot, Version
<1>7. SlotInHand'
  BY <1>1, <1>5 DEF SlotInHand, Version, Turn, Lap, Slot
<1>8. SlotsAtRest'
  <2>1. \A i \in 0..(Capacity - 1) : i # Slot(writeSeq) => slots'[i].version = slots[i].version
    BY <1>1, Division DEF PublisherFits
  <2>2. \A i \in 0..(Capacity - 1) : i # Slot(writeSeq) => Even(slots'[i].version)
    BY <1>1, <2>1 DEF SlotsInOrder, SlotsAtRest
  <2>3. Even(slots'[Slot(writeSeq)].version)
    BY <1>1, <1>4, <1>5 DEF Version
  <2> QED
    BY <1>1, <2>2, <2>3 DEF SlotsAtRest, Version, Turn, Lap, Slot
<1>9. SlotsOnlyAdvance
  BY <1>2, <1>4, <1>5 DEF SlotsOnlyAdvance
<1> QED
  BY <1>6, <1>7, <1>8, <1>9 DEF SlotsInOrder

LEMMA PublisherKeepsSlots ==
    ASSUME PublisherFits, SlotsInOrder, Publisher
    PROVE  SlotsInOrder' /\ SlotsOnlyAdvance
<1>1. ASSUME UNCHANGED <<slots, writeSeq>>,
             publisher' \in {"idle", "done"}, publisher \in {"wait", "idle"}
      PROVE  SlotsInOrder' /\ SlotsOnlyAdvance
  <2>1. VersionsName' /\ SlotInHand' /\ SlotsAtRest'
    BY <1>1 DEF SlotsInOrder, VersionsName, SlotInHand, SlotsAtRest, Version, Turn, Lap,
                Slot
  <2>2. SlotsOnlyAdvance
    BY <1>1, SlotTypes DEF SlotsOnlyAdvance, Version
  <2> QED
    BY <2>1, <2>2 DEF SlotsInOrder
<1>2. CASE StartPublishing
  BY <1>1, <1>2 DEF StartPublishing
<1>3. CASE Advance
  <2>1. /\ publisher = "even" /\ publisher' = "idle" /\ slots' = slots
        /\ writeSeq' = writeSeq + 1 /\ writeSeq \in Nat
    BY <1>3, BoundsAssumption DEF Advance, PublisherFits
  <2>2. \A n \in Nat : Turn(n) \in Nat /\ Version(n) \in Nat
    BY TurnIsEven, SlotTypes
  <2>3. VersionsName'
    <3>1. \A n \in Nat : n < writeSeq + 1 => n < writeSeq \/ n = writeSeq
      BY <2>1
    <3>2. \A n \in Nat : n < writeSeq + 1 => Version(n) >= Turn(n)
      BY <2>1, <2>2, <3>1 DEF SlotsInOrder, VersionsName, SlotInHand
    <3>3. \A n \in Nat : Version(n) >= Turn(n) => n <= writeSeq + 1
      BY <2>1 DEF SlotsInOrder, VersionsName
    <3> QED
      BY <2>1, <3>2, <3>3 DEF SlotsInOrder, VersionsName, Turn, Lap, Slot, Version
  <2>4. SlotInHand'
    BY <2>1 DEF SlotInHand
  <2>5. SlotsAtRest'
    <3>1. \A n \in Nat : Version(n) >= Turn(n) => n < writeSeq + 1
      BY <2>1 DEF SlotsInOrder, VersionsName
    <3> QED
      BY <2>1, <3>1 DEF SlotsInOrder, SlotsAtRest, Turn, Lap, Slot, Version
  <2>6. SlotsOnlyAdvance
    BY <2>1, <2>2 DEF SlotsOnlyAdvance, Version
  <2> QED
    BY <2>3, <2>4, <2>5, <2>6 DEF SlotsInOrder
<1>4. CASE MarkEof
  BY <1>1, <1>4 DEF MarkEof
<1> QED
  BY <1>2, <1>3, <1>4, BeginWriteInOrder, StoreWordInOrder, EndWriteInOrder DEF Publisher

(* The rest of the session: emptying the file leaves the mapped words to be, a new *)
(* layout makes every one of them zero.                                            *)
LEMMA SlotsStep ==
    ASSUME PublisherFits, SlotsInOrder, [SessionNext]_allVars
    PROVE  SlotsInOrder'
<1> USE DEF pubVars, subVars
<1>1. ASSUME UNCHANGED <<slots, writeSeq>>,
             \/ UNCHANGED <<publisher, toWrite>>
             \/ publisher' \in {"create", "resize"}
             \/ publisher = "layout" /\ publisher' \in {"wait", "idle"}
      PROVE  SlotsInOrder'
  BY <1>1 DEF SlotsInOrder, VersionsName, SlotInHand, SlotsAtRest, Version, Turn, Lap, Slot
<1>2. CASE Truncate
  BY <1>1, <1>2 DEF Truncate
<1>3. CASE Resize
  <2>1. /\ slots' = [i \in 0..(Capacity - 1) |-> Blank] /\ writeSeq' = 0
        /\ publisher' = "layout" /\ Blank.version = 0
    BY <1>3 DEF Resize, PublisherFits, Blank
  <2>2. \A n \in Nat : Turn(n) \in Nat /\ Turn(n) >= 2
    BY TurnIsEven
  <2>3. \A n \in Nat : slots'[Slot(n)].version = 0
    BY <2>1, Division
  <2>4. \A n \in Nat : slots'[Slot(n)].version # Turn(n) /\ ~(slots'[Slot(n)].version >= Turn(n))
    BY <2>2, <2>3
  <2>5. \A i \in 0..(Capacity - 1) : Even(slots'[i].version)
    BY <2>1 DEF Even
  <2>6. \A n \in Nat : ~(n < writeSeq')
    BY <2>1
  <2>7. VersionsName'
    BY <2>4, <2>6 DEF VersionsName, Version, Turn, Lap, Slot
  <2>8. SlotInHand'
    BY <2>1 DEF SlotInHand
  <2>9. SlotsAtRest'
    BY <2>1, <2>4, <2>5 DEF SlotsAtRest, Version, Turn, Lap, Slot
  <2> QED
    BY <2>7, <2>8, <2>9 DEF SlotsInOrder
<1>4. CASE StoreField
  BY <1>1, <1>4 DEF StoreField, vars
<1>5. CASE Stamp
  BY <1>1, <1>5 DEF Stamp, LaidOut, Waits
<1>6. CASE Crash
  BY <1>1, <1>6 DEF Crash
<1>7. CASE Open \/ Killed
  BY <1>1, <1>7 DEF Open, OpenFile, CheckMagic, CheckVersion, FinishOpen, Killed, Goes
<1>8. CASE Publish
  BY <1>8, PublisherKeepsSlots DEF Publish
<1>9. CASE Subscribe
  BY <1>1, <1>9 DEF Subscribe, Subscriber, Attach, LoadVersion, LoadWord, Retry, TakeCopy,
                    GiveUp, LoadPublished, LoadEof
<1>10. CASE Ended
  BY <1>1, <1>10 DEF Ended, allVars, vars
<1>11. CASE UNCHANGED allVars
  BY <1>1, <1>11 DEF allVars, vars
<1> QED
  BY <1>2, <1>3, <1>4, <1>5, <1>6, <1>7, <1>8, <1>9, <1>10, <1>11 DEF SessionNext, Create

LEMMA SessionsStep ==
    ASSUME LaidOutInOrder, SessionsApart, [SessionNext]_allVars
    PROVE  SessionsApart'
<1> USE DEF pubVars, subVars, SessionsApart
<1>1. CASE Truncate
  BY <1>1 DEF Truncate, LaidOutInOrder
<1>2. CASE Resize
  BY <1>2 DEF Resize
<1>3. CASE StoreField
  BY <1>3 DEF StoreField, vars
<1>4. CASE Stamp
  BY <1>4 DEF Stamp, Waits
<1>5. CASE Crash
  BY <1>5 DEF Crash, sessionVars
<1>6. CASE Open
  BY <1>6 DEF Open, OpenFile, CheckMagic, CheckVersion, FinishOpen, Goes
<1>7. CASE Killed
  BY <1>7 DEF Killed, Goes
<1>8. CASE Publish
  BY <1>8 DEF Publish, Publisher, StartPublishing, BeginWrite, StoreWord, EndWrite,
              Advance, MarkEof, sessionVars
<1>9. CASE Subscribe
  <2>1. subscriber' \notin {"open", "magic", "version", "finish", "attach"}
    BY <1>9 DEF Subscribe, Subscriber, Attach, LoadVersion, LoadWord, Retry, TakeCopy,
                GiveUp, LoadPublished, LoadEof
  <2>2. UNCHANGED <<publisher, file, checked, session>>
    BY <1>9 DEF Subscribe, Subscriber, Attach, LoadVersion, LoadWord, Retry, TakeCopy,
                GiveUp, LoadPublished, LoadEof
  <2> QED
    BY <2>1, <2>2
<1>10. CASE Ended
  BY <1>10 DEF Ended, allVars, vars, sessionVars
<1>11. CASE UNCHANGED allVars
  BY <1>11 DEF allVars, vars, sessionVars
<1> QED
  BY <1>1, <1>2, <1>3, <1>4, <1>5, <1>6, <1>7, <1>8, <1>9, <1>10, <1>11
     DEF SessionNext, Create

LEMMA AttemptStep ==
    ASSUME attempt \in Nat, [SessionNext]_allVars
    PROVE  attempt' \in Nat
<1> USE DEF subVars
<1>1. CASE Create \/ Crash
  BY <1>1 DEF Create, Truncate, Resize, StoreField, Stamp, Crash, vars
<1>2. CASE Open \/ Killed
  BY <1>2 DEF Open, OpenFile, CheckMagic, CheckVersion, FinishOpen, Killed, Goes
<1>3. CASE Publish
  BY <1>3 DEF Publish, Publisher, StartPublishing, BeginWrite, StoreWord, EndWrite,
              Advance, MarkEof
<1>4. CASE Subscribe
  <2>1. attempt' \in {attempt, attempt + 1, 0}
    BY <1>4 DEF Subscribe, Subscriber, Attach, LoadVersion, LoadWord, Retry, TakeCopy,
                GiveUp, LoadPublished, LoadEof
  <2> QED
    BY <2>1
<1>5. CASE Ended \/ UNCHANGED allVars
  BY <1>5 DEF Ended, allVars, vars
<1> QED
  BY <1>1, <1>2, <1>3, <1>4, <1>5 DEF SessionNext

-----------------------------------------------------------------------------
(* The subscriber's half of the seqlock. *)

(* A copy whose version has not moved is one whole message of this slot, the wanted *)
(* one or a newer one, and as far as the publisher has come.                        *)
LEMMA CopyIsWhole ==
    ASSUME CountsFit, SlotsInOrder, ReadsInOrder, Consistent
    PROVE  /\ copy.seq \in Nat /\ next <= copy.seq /\ copy.seq <= writeSeq
           /\ Version(next) = Turn(copy.seq) /\ Slot(copy.seq) = Slot(next)
           /\ \A word \in Words : copy[word] = Word(copy.seq, word)
<1>1. /\ next \in Nat /\ Version(next) \in Nat /\ Slot(next) \in 0..(Capacity - 1)
      /\ Turn(next) \in Nat /\ Turn(next) >= 2
  <2>1. next \in Nat
    BY BoundsAssumption DEF CountsFit, SubscriberFits
  <2> QED
    BY <2>1, SlotTypes, TurnIsEven DEF CountsFit
<1>2. /\ subscriber = "copy" /\ toRead = {} /\ Version(next) = version1
  BY DEF Consistent, Version
<1>3. /\ Even(version1) /\ Turn(next) <= version1
      /\ \A word \in Words : copy[word] = slots[Slot(next)][word]
  BY <1>2 DEF ReadsInOrder
<1>4. PICK m \in Nat : Slot(m) = Slot(next) /\ Turn(m) = version1
  BY <1>1, <1>2, <1>3, EvenIsTurn
<1>5. Version(m) = Turn(m)
  BY <1>2, <1>4 DEF Version
<1>6. \A word \in Words : slots[Slot(m)][word] = Word(m, word)
  BY <1>5 DEF SlotsInOrder, VersionsName
<1>7. \A word \in Words : copy[word] = Word(m, word)
  BY <1>3, <1>4, <1>6
<1>8. copy.seq = m
  BY <1>7 DEF Words, Word
<1>9. m <= writeSeq
  BY <1>1, <1>2, <1>4, <1>5 DEF SlotsInOrder, VersionsName
<1>10. next <= m
  BY <1>1, <1>3, <1>4, TurnOrder
<1> QED
  BY <1>2, <1>4, <1>7, <1>8, <1>9, <1>10

LEMMA ReadsWhilePublishing ==
    ASSUME CountsFit, SlotsInOrder, ReadsInOrder, Publisher
    PROVE  ReadsInOrder'
<1>1. UNCHANGED <<subscriber, next, attempt, version1, copy, toRead, delivered>>
  BY DEF Publisher, StartPublishing, BeginWrite, StoreWord, EndWrite, Advance, MarkEof,
         subVars
<1>2. writeSeq' \in {writeSeq, writeSeq + 1} /\ writeSeq \in Nat /\ next \in Nat
  BY BoundsAssumption
     DEF Publisher, StartPublishing, BeginWrite, StoreWord, EndWrite, Advance, MarkEof,
         CountsFit, PublisherFits, SubscriberFits
<1>3. /\ Version(next) <= Version(next)'
      /\ Even(Version(next)) /\ Version(next)' = Version(next) =>
            \A word \in Words : slots'[Slot(next)][word] = slots[Slot(next)][word]
  BY <1>1, <1>2, PublisherKeepsSlots DEF CountsFit, SlotsOnlyAdvance, Version, Slot
<1>4. /\ Version(next) \in Nat /\ Turn(next) \in Nat
      /\ Version(next)' \in Nat
  <2>1. PublisherFits'
    BY PublishFits DEF CountsFit
  <2>2. Slot(next) \in 0..(Capacity - 1)
    BY <1>2, Division
  <2> QED
    BY <1>1, <1>2, <2>1, <2>2, TurnIsEven DEF CountsFit, PublisherFits, Version, SlotType
<1>5. (subscriber \in {"slot", "copy"} => next < writeSeq)'
  BY <1>1, <1>2 DEF ReadsInOrder
<1>6. (subscriber \in {"slot", "copy"} /\ attempt > 0 => Version(next) > Turn(next))'
  BY <1>1, <1>3, <1>4 DEF ReadsInOrder, Turn, Lap, Version, Slot
<1>7. ASSUME subscriber = "copy"
      PROVE  /\ version1 \in Nat /\ Even(version1)
             /\ Turn(next) <= version1 /\ version1 <= Version(next)'
             /\ version1 = Version(next)' =>
                   \A word \in Words \ toRead : copy[word] = slots'[Slot(next)][word]
  <2>1. /\ version1 \in Nat /\ Even(version1) /\ Turn(next) <= version1
        /\ version1 <= Version(next)
        /\ version1 = Version(next) =>
              \A word \in Words \ toRead : copy[word] = slots[Slot(next)][word]
    BY <1>7 DEF ReadsInOrder
  <2>2. version1 = Version(next)' => version1 = Version(next)
    BY <1>3, <1>4, <2>1
  <2> QED
    BY <1>3, <1>4, <2>1, <2>2
<1>8. NothingTorn'
  BY <1>1 DEF ReadsInOrder, NothingTorn
<1>9. attempt' \in Nat
  BY <1>1 DEF ReadsInOrder
<1> QED
  BY <1>1, <1>5, <1>6, <1>7, <1>8, <1>9 DEF ReadsInOrder, Turn, Lap, Version, Slot

LEMMA ReadsWhileReading ==
    ASSUME CountsFit, SlotsInOrder, ReadsInOrder, Subscriber
    PROVE  ReadsInOrder'
<1> USE DEF pubVars
<1>1. /\ next \in Nat /\ Version(next) \in Nat /\ writeSeq \in Nat
      /\ Turn(next) \in Nat /\ Turn(next) >= 2 /\ Even(Turn(next))
  <2>1. next \in Nat
    BY BoundsAssumption DEF CountsFit, SubscriberFits
  <2> QED
    BY <2>1, SlotTypes, TurnIsEven DEF CountsFit
<1>2. next < writeSeq => Version(next) >= Turn(next)
  BY <1>1 DEF SlotsInOrder, VersionsName
<1>3. attempt \in Nat /\ NothingTorn
  BY DEF ReadsInOrder
<1>4. ASSUME UNCHANGED delivered, attempt' \in Nat, subscriber' \notin {"slot", "copy"}
      PROVE  ReadsInOrder'
  BY <1>3, <1>4 DEF ReadsInOrder, NothingTorn
<1>5. CASE Attach
  BY <1>3, <1>4, <1>5 DEF Attach
<1>6. CASE LoadVersion
  <2>1. /\ subscriber = "slot" /\ next < writeSeq
        /\ attempt > 0 => Version(next) > Turn(next)
        /\ UNCHANGED <<next, delivered, slots, writeSeq>>
    BY <1>6 DEF LoadVersion, ReadsInOrder
  <2>2. CASE Odd(Version(next))
    <3>1. attempt' = attempt + 1 /\ subscriber' = subscriber
      BY <1>6, <2>2 DEF LoadVersion, Version
    <3>2. Version(next) # Turn(next)
      BY <1>1, <2>2 DEF Odd, Even
    <3>3. Version(next) > Turn(next)
      BY <1>1, <1>2, <2>1, <3>2
    <3>4. attempt' \in Nat /\ NothingTorn'
      BY <1>3, <2>1, <3>1 DEF NothingTorn
    <3> QED
      BY <2>1, <3>1, <3>3, <3>4 DEF ReadsInOrder, Turn, Lap, Version, Slot
  <2>3. CASE ~Odd(Version(next))
    <3>1. /\ version1' = Version(next) /\ toRead' = Words /\ subscriber' = "copy"
          /\ attempt' = attempt
      BY <1>6, <2>3 DEF LoadVersion, Version
    <3>2. Even(Version(next))
      BY <1>1, <2>3, SMT DEF Odd, Even
    <3>3. NothingTorn'
      BY <1>3, <2>1 DEF NothingTorn
    <3>4. Words \ toRead' = {}
      BY <3>1
    <3>5. (subscriber = "copy" =>
            /\ version1 \in Nat /\ Even(version1)
            /\ Turn(next) <= version1 /\ version1 <= Version(next)
            /\ version1 = Version(next) =>
                  \A word \in Words \ toRead : copy[word] = slots[Slot(next)][word])'
      BY <1>1, <1>2, <2>1, <3>1, <3>2, <3>4 DEF Turn, Lap, Version, Slot, Even
    <3>6. (subscriber \in {"slot", "copy"} /\ attempt > 0 => Version(next) > Turn(next))'
      BY <2>1, <3>1 DEF Turn, Lap, Version, Slot
    <3> QED
      BY <1>3, <2>1, <3>1, <3>3, <3>5, <3>6 DEF ReadsInOrder
  <2> QED
    BY <2>2, <2>3
<1>7. CASE LoadWord
  <2>1. PICK word \in toRead : /\ copy' = [copy EXCEPT ![word] = slots[Slot(next)][word]]
                               /\ toRead' = toRead \ {word}
    BY <1>7 DEF LoadWord
  <2>2. /\ UNCHANGED <<subscriber, next, attempt, version1, delivered, slots, writeSeq>>
        /\ subscriber = "copy"
    BY <1>7 DEF LoadWord
  <2>3. /\ copy \in SlotType /\ word \in Words
        /\ \A w \in Words \ toRead' : w = word \/ w \in Words \ toRead
    BY <2>1 DEF CountsFit, SubscriberFits
  <2>4. \A w \in Words : copy'[w] = IF w = word THEN slots[Slot(next)][w] ELSE copy[w]
    BY <2>1, <2>3 DEF SlotType, Words
  <2>5. version1 = Version(next) =>
            \A w \in Words \ toRead' : copy'[w] = slots[Slot(next)][w]
    BY <2>2, <2>3, <2>4 DEF ReadsInOrder
  <2>6. NothingTorn'
    BY <1>3, <2>2 DEF NothingTorn
  <2> QED
    BY <2>2, <2>5, <2>6 DEF ReadsInOrder, Turn, Lap, Version, Slot
<1>8. CASE Retry
  <2>1. /\ subscriber = "copy" /\ subscriber' = "slot" /\ Version(next) # version1
        /\ attempt' = attempt + 1 /\ UNCHANGED <<next, delivered, slots, writeSeq>>
    BY <1>8 DEF Retry, Torn, Version
  <2>2. Version(next) > Turn(next) /\ next < writeSeq
    BY <1>1, <2>1 DEF ReadsInOrder
  <2>3. NothingTorn' /\ attempt' \in Nat
    BY <1>3, <2>1 DEF NothingTorn
  <2> QED
    BY <2>1, <2>2, <2>3 DEF ReadsInOrder, Turn, Lap, Version, Slot
<1>9. CASE TakeCopy
  <2>1. Consistent /\ subscriber' \in {"empty", "poll"} /\ attempt' = attempt
    BY <1>9 DEF TakeCopy
  <2>2. /\ copy.seq \in Nat /\ next <= copy.seq
        /\ \A word \in Words : copy[word] = Word(copy.seq, word)
    BY <2>1, CopyIsWhole
  <2>3. CASE copy.seq = next
    <3>1. delivered' = Append(delivered, <<next, copy.lo, copy.hi>>)
      <4>1. ~(copy.seq < next) /\ ~(copy.seq > next)
        BY <1>1, <2>3
      <4> QED
        BY <1>9, <2>3, <4>1 DEF TakeCopy
    <3>2. copy.lo = Word(next, "lo") /\ copy.hi = Word(next, "hi")
      BY <2>2, <2>3 DEF Words
    <3>3. delivered \in Seq(Nat \X Nat \X Nat)
      BY DEF CountsFit, SubscriberFits
    <3>4. /\ Len(delivered') = Len(delivered) + 1 /\ Len(delivered) \in Nat
          /\ delivered'[Len(delivered) + 1] = <<next, Word(next, "lo"), Word(next, "hi")>>
          /\ \A i \in 1..Len(delivered) : delivered'[i] = delivered[i]
      BY <3>1, <3>2, <3>3
    <3>5. \A i \in 1..Len(delivered') : i = Len(delivered) + 1 \/ i \in 1..Len(delivered)
      BY <3>4
    <3>6. ASSUME NEW i \in 1..Len(delivered')
          PROVE  delivered'[i] = <<delivered'[i][1], Word(delivered'[i][1], "lo"),
                                   Word(delivered'[i][1], "hi")>>
      <4>1. CASE i = Len(delivered) + 1
        BY <3>4, <4>1
      <4>2. CASE i \in 1..Len(delivered)
        BY <1>3, <3>4, <4>2 DEF NothingTorn
      <4> QED
        BY <3>5, <4>1, <4>2
    <3>7. NothingTorn'
      BY <3>6 DEF NothingTorn, Word
    <3> QED
      BY <1>3, <2>1, <3>7 DEF ReadsInOrder
  <2>4. CASE copy.seq # next
    <3>1. copy.seq > next /\ ~(copy.seq < next) /\ ~(copy.seq = next)
      BY <1>1, <2>2, <2>4
    <3>2. delivered' = delivered
      BY <1>9, <3>1 DEF TakeCopy, SkipTo
    <3> QED
      BY <1>3, <1>4, <2>1, <3>2
  <2> QED
    BY <2>3, <2>4
<1>10. CASE GiveUp
  BY <1>3, <1>4, <1>10 DEF GiveUp, SkipTo
<1>11. ASSUME NEW published \in 0..writeSeq, LoadPublished(published)
       PROVE  ReadsInOrder'
  <2>1. /\ attempt' = 0 /\ UNCHANGED <<slots, writeSeq, delivered>>
        /\ subscriber' \in {"empty", "poll", "slot"}
        /\ subscriber' = "slot" => ~NothingNew(published) /\ next' = next
    BY <1>11 DEF LoadPublished, SkipTo
  <2>2. subscriber' = "slot" => next' < writeSeq'
    BY <1>1, <2>1 DEF NothingNew
  <2>3. NothingTorn'
    BY <1>3, <2>1 DEF NothingTorn
  <2> QED
    BY <2>1, <2>2, <2>3 DEF ReadsInOrder
<1>12. ASSUME NEW eof \in {0, eofSeq}, LoadEof(eof)
       PROVE  ReadsInOrder'
  BY <1>3, <1>4, <1>12 DEF LoadEof
<1> QED
  BY <1>5, <1>6, <1>7, <1>8, <1>9, <1>10, <1>11, <1>12 DEF Subscriber

LEMMA ReadsStep ==
    ASSUME LaidOutInOrder, CountsFit, SlotsInOrder, SessionsApart, attempt \in Nat,
           Current => ReadsInOrder, [SessionNext]_allVars
    PROVE  Current' => ReadsInOrder'
<1> USE DEF pubVars, subVars, Current
<1>1. CASE Truncate
  <2>1. session \in Nat /\ checked \in 0..session /\ session' = session + 1
        /\ checked' = checked
    BY <1>1 DEF Truncate, LaidOutInOrder
  <2> QED
    BY <2>1
<1>2. CASE Resize
  <2>1. checked \in 0..session /\ checked < session /\ session \in Nat
        /\ UNCHANGED <<session, checked>>
    BY <1>2 DEF Resize, SessionsApart, LaidOutInOrder
  <2> QED
    BY <2>1
<1>3. ASSUME UNCHANGED <<slots, writeSeq, checked, session>>, UNCHANGED subVars
      PROVE  Current' => ReadsInOrder'
  BY <1>3 DEF ReadsInOrder, NothingTorn, Turn, Lap, Version, Slot
<1>4. CASE StoreField \/ Stamp \/ Crash
  BY <1>3, <1>4 DEF StoreField, Stamp, Waits, Crash, vars, sessionVars
<1>5. CASE Open \/ Killed
  <2>1. /\ subscriber' \notin {"slot", "copy"} /\ UNCHANGED <<delivered, attempt>>
        /\ delivered = << >> \/ UNCHANGED <<checked, session>>
    BY <1>5 DEF Open, OpenFile, CheckMagic, CheckVersion, FinishOpen, Killed, Goes,
                SessionsApart
  <2>2. CASE delivered = << >>
    <3>1. NothingTorn'
      BY <2>1, <2>2 DEF NothingTorn
    <3> QED
      BY <2>1, <3>1 DEF ReadsInOrder
  <2>3. CASE UNCHANGED <<checked, session>>
    BY <2>1, <2>3 DEF ReadsInOrder, NothingTorn
  <2> QED
    BY <2>1, <2>2, <2>3
<1>6. CASE Publish
  BY <1>6, ReadsWhilePublishing DEF Publish, sessionVars
<1>7. CASE Subscribe
  BY <1>7, ReadsWhileReading DEF Subscribe
<1>8. CASE Ended \/ UNCHANGED allVars
  BY <1>3, <1>8 DEF Ended, allVars, vars, sessionVars
<1> QED
  BY <1>1, <1>2, <1>4, <1>5, <1>6, <1>7, <1>8 DEF SessionNext, Create

LEMMA SeqlockStart == SessionInit => SeqlockInv
<1> SUFFICES ASSUME SessionInit PROVE SeqlockInv
  OBVIOUS
<1>1. /\ slots = [i \in 0..(Capacity - 1) |-> Blank] /\ Blank.version = 0
      /\ writeSeq = 0 /\ publisher = "create" /\ subscriber = "open"
      /\ delivered = << >> /\ attempt = 0
  BY DEF SessionInit, RingInit, Blank
<1>2. \A n \in Nat : Version(n) = 0 /\ Turn(n) \in Nat /\ Turn(n) >= 2
  BY <1>1, Division, TurnIsEven DEF Version
<1>3. VersionsName
  BY <1>1, <1>2 DEF VersionsName
<1>4. SlotInHand /\ SlotsAtRest /\ SessionsApart
  BY <1>1 DEF SlotInHand, SlotsAtRest, SessionsApart
<1>5. NothingTorn
  BY <1>1 DEF NothingTorn
<1>6. ReadsInOrder
  BY <1>1, <1>5 DEF ReadsInOrder
<1> QED
  BY <1>1, <1>3, <1>4, <1>6, LayoutStart, CountsStart DEF SeqlockInv, SlotsInOrder

LEMMA SeqlockStep ==
    ASSUME SeqlockInv, [SessionNext]_allVars
    PROVE  SeqlockInv'
  BY LayoutStep, CountsStep, SlotsStep, SessionsStep, AttemptStep, ReadsStep
     DEF SeqlockInv, CountsFit

(* A subscriber of this session is handed whole payloads only, each of the message it *)
(* wanted, for every capacity, number of messages, of attempts and of restarts        *)
(* (try_read's two loads of the version around its copy, publish's two stores).       *)
THEOREM NoTornMessage == SessionSpec => []NothingTornInSession
<1>1. SeqlockInv => NothingTornInSession
  BY DEF SeqlockInv, NothingTornInSession, ReadsInOrder
<1> QED
  BY <1>1, SeqlockStart, SeqlockStep, PTL DEF SessionSpec

-----------------------------------------------------------------------------
(* Gaps, and the feed. *)

LEMMA PastTurnIsOverwritten ==
    ASSUME PublisherFits, NEW n \in Nat, Version(n) > Turn(n)
    PROVE  Overwritten(n)
<1>1. Lap(n) \in Nat /\ Version(n) \in Nat
  BY Division, SlotTypes
<1>2. Version(n) + 1 >= 2 * (Lap(n) + 2)
  BY <1>1 DEF Turn
<1>3. (Version(n) + 1) \div 2 > Lap(n) + 1
  BY <1>1, <1>2, SMT
<1> QED
  BY <1>3 DEF Overwritten, Version, Lap

(* What the subscriber misses has been published, and is being overwritten. *)
SkipsOver(n) == /\ n \in (next + 1)..writeSeq
                /\ next' = n /\ missed' = missed + (n - next)
                /\ UNCHANGED delivered
                /\ Overwritten(next)

(* A step of the subscriber delivers, skips, or does neither. *)
LEMMA SubscriberMoves ==
    ASSUME CountsFit, SlotsInOrder, ReadsInOrder, Subscriber
    PROVE  \/ UNCHANGED <<next, delivered, missed>>
           \/ \E n \in Nat : SkipsOver(n) /\ subscriber' = "poll"
           \/ /\ next < writeSeq /\ next' = next + 1 /\ subscriber' = "poll"
              /\ delivered' = Append(delivered, <<next, next + 1, next + 1>>)
              /\ UNCHANGED missed
<1>1. /\ next \in Nat /\ Version(next) \in Nat /\ writeSeq \in Nat
      /\ Turn(next) \in Nat /\ PublisherFits
  <2>1. next \in Nat
    BY BoundsAssumption DEF CountsFit, SubscriberFits
  <2> QED
    BY <2>1, SlotTypes, TurnIsEven DEF CountsFit
<1>2. Version(next) > Turn(next) => Overwritten(next)
  BY <1>1, PastTurnIsOverwritten
<1>3. CASE TakeCopy
  <2>1. Consistent /\ subscriber' = IF copy.seq < next THEN "empty" ELSE "poll"
    BY <1>3 DEF TakeCopy
  <2>2. /\ copy.seq \in Nat /\ next <= copy.seq /\ copy.seq <= writeSeq
        /\ Version(next) = Turn(copy.seq) /\ Slot(copy.seq) = Slot(next)
        /\ \A word \in Words : copy[word] = Word(copy.seq, word)
    BY <2>1, CopyIsWhole
  <2>3. ~(copy.seq < next) /\ subscriber' = "poll" /\ next < writeSeq
    BY <1>1, <2>1, <2>2 DEF ReadsInOrder, Consistent
  <2>4. CASE copy.seq = next
    <3>1. ~(copy.seq > next)
      BY <1>1, <2>4
    <3>2. /\ delivered' = Append(delivered, <<next, copy.lo, copy.hi>>)
          /\ next' = next + 1 /\ missed' = missed
      BY <1>3, <2>3, <2>4, <3>1 DEF TakeCopy
    <3>3. copy.lo = next + 1 /\ copy.hi = next + 1
      BY <2>2, <2>4 DEF Words, Word
    <3> QED
      BY <2>3, <3>2, <3>3
  <2>5. CASE copy.seq # next
    <3>1. copy.seq > next /\ copy.seq \in (next + 1)..writeSeq
      BY <1>1, <2>2, <2>5
    <3>2. SkipTo(copy.seq)
      BY <1>3, <2>3, <2>5, <3>1 DEF TakeCopy
    <3>3. ~(Turn(copy.seq) <= Turn(next))
      BY <1>1, <2>2, <3>1, TurnOrder
    <3>4. Version(next) > Turn(next)
      BY <1>1, <2>2, <3>3
    <3> QED
      BY <1>2, <2>2, <2>3, <3>1, <3>2, <3>4 DEF SkipsOver, SkipTo
  <2> QED
    BY <2>4, <2>5
<1>4. CASE GiveUp
  <2>1. /\ SkipTo(next + 1) /\ subscriber' = "poll"
        /\ subscriber = "slot" /\ attempt > 0
    BY <1>4, BoundsAssumption DEF GiveUp
  <2>2. Version(next) > Turn(next) /\ next < writeSeq
    BY <2>1 DEF ReadsInOrder
  <2>3. next + 1 \in Nat /\ next + 1 \in (next + 1)..writeSeq
    BY <1>1, <2>2
  <2> QED
    BY <1>2, <2>1, <2>2, <2>3 DEF SkipsOver, SkipTo
<1>5. ASSUME NEW published \in 0..writeSeq, LoadPublished(published)
      PROVE  \/ UNCHANGED <<next, delivered, missed>>
             \/ \E n \in Nat : SkipsOver(n) /\ subscriber' = "poll"
  <2>1. CASE ~NothingNew(published) /\ Overtaken(published)
    <3> DEFINE n == published - Capacity
    <3>1. SkipTo(n) /\ subscriber' = "poll"
      BY <1>5, <2>1 DEF LoadPublished
    <3>2. n \in (next + 1)..writeSeq /\ n \in Nat /\ next + Capacity < writeSeq
      BY <1>1, <2>1, CapacityAssumption DEF Overtaken
    <3>3. next + Capacity \in Nat
      BY <1>1, CapacityAssumption
    <3>4. Version(next + Capacity) >= Turn(next + Capacity)
      BY <3>2, <3>3 DEF SlotsInOrder, VersionsName
    <3>5. /\ Slot(next + Capacity) = Slot(next)
          /\ Turn(next + Capacity) = Turn(next) + 2
      BY <1>1, TurnNextLap
    <3>6. Version(next) > Turn(next)
      BY <1>1, <3>4, <3>5 DEF Version
    <3> QED
      BY <1>2, <3>1, <3>2, <3>6 DEF SkipsOver, SkipTo
  <2>2. CASE ~(~NothingNew(published) /\ Overtaken(published))
    BY <1>5, <2>2 DEF LoadPublished
  <2> QED
    BY <2>1, <2>2
<1>6. CASE Attach \/ LoadVersion \/ LoadWord \/ Retry
  BY <1>6 DEF Attach, LoadVersion, LoadWord, Retry
<1>7. ASSUME NEW eof \in {0, eofSeq}, LoadEof(eof)
      PROVE  UNCHANGED <<next, delivered, missed>>
  BY <1>7 DEF LoadEof
<1> QED
  BY <1>3, <1>4, <1>5, <1>6, <1>7 DEF Subscriber

(* Nobody else touches what the subscriber keeps of the feed; a fresh layout takes *)
(* back what was published, but only under a subscriber of an earlier session.     *)
LEMMA OthersMoveNothing ==
    ASSUME LaidOutInOrder, CountsFit, SessionsApart, Current, [SessionNext]_allVars
    PROVE  \/ Subscribe
           \/ /\ UNCHANGED <<next, delivered, missed, writeSeq>>
              /\ (subscriber' = "exited") = (subscriber = "exited")
           \/ /\ UNCHANGED <<next, delivered, missed, subscriber>>
              /\ writeSeq < Messages /\ writeSeq' = writeSeq + 1
<1> USE DEF subVars, pubVars
<1>1. CASE Truncate \/ StoreField \/ Stamp \/ Crash
  BY <1>1 DEF Truncate, StoreField, Stamp, Crash, vars
<1>2. CASE Resize
  <2>1. checked < session /\ checked = session /\ session \in Nat
    BY <1>2 DEF Resize, SessionsApart, Current, LaidOutInOrder
  <2> QED
    BY <2>1
<1>3. CASE Open \/ Killed
  BY <1>3 DEF Open, OpenFile, CheckMagic, CheckVersion, FinishOpen, Killed, Goes
<1>4. CASE Publish
  BY <1>4 DEF Publish, Publisher, StartPublishing, BeginWrite, StoreWord, EndWrite,
              Advance, MarkEof, CountsFit, PublisherFits
<1>5. CASE Subscribe
  BY <1>5
<1>6. CASE Ended \/ UNCHANGED allVars
  BY <1>6 DEF Ended, allVars, vars
<1> QED
  BY <1>1, <1>2, <1>3, <1>4, <1>5, <1>6 DEF SessionNext, Create

(* A subscriber is told of a gap only when the message it wants is being overwritten in  *)
(* this session: an older write_seq, a newer message in the slot and 64 torn copies each *)
(* prove it (try_read's three ways to return Gap).                                       *)
THEOREM GapsAreReal == SessionSpec => GapOnlyWhenOverwritten
<1>1. ASSUME SeqlockInv, [SessionNext]_allVars, Current, missed' # missed
      PROVE  Overwritten(next)
  <2>1. LaidOutInOrder /\ CountsFit /\ SlotsInOrder /\ SessionsApart /\ ReadsInOrder
    BY <1>1 DEF SeqlockInv
  <2>2. Subscriber
    BY <1>1, <2>1, OthersMoveNothing DEF Subscribe
  <2> QED
    BY <1>1, <2>1, <2>2, SubscriberMoves DEF SkipsOver
<1> QED
  BY <1>1, SeqlockStart, SeqlockStep, PTL DEF SessionSpec, GapOnlyWhenOverwritten

LEMMA FeedStep ==
    ASSUME SeqlockInv, Current, [SessionNext]_allVars
    PROVE  [Feed!Next]_(Feed!vars)
<1>1. /\ LaidOutInOrder /\ CountsFit /\ SlotsInOrder /\ SessionsApart /\ ReadsInOrder
      /\ next \in Nat /\ writeSeq \in Nat /\ Messages \in Nat
  BY BoundsAssumption DEF SeqlockInv, CountsFit, PublisherFits, SubscriberFits
<1>2. ASSUME UNCHANGED <<next, delivered, missed, writeSeq>>,
             (subscriber' = "exited") = (subscriber = "exited")
      PROVE  UNCHANGED Feed!vars
  BY <1>2 DEF Feed!vars
<1>3. CASE Subscribe
  <2>1. Subscriber /\ UNCHANGED writeSeq
    BY <1>3 DEF Subscribe, Subscriber, Attach, LoadVersion, LoadWord, Retry, TakeCopy,
                GiveUp, LoadPublished, LoadEof, pubVars
  <2>2. subscriber # "exited"
    BY <2>1 DEF Subscriber, Attach, LoadVersion, LoadWord, Retry, TakeCopy, Consistent,
                Torn, GiveUp, LoadPublished, LoadEof
  <2>3. CASE \E n \in Nat : SkipsOver(n) /\ subscriber' = "poll"
    <3>1. PICK n \in Nat : SkipsOver(n) /\ subscriber' = "poll"
      BY <2>3
    <3>2. Feed!Skip
      BY <2>1, <2>2, <3>1 DEF SkipsOver, Feed!Skip
    <3> QED
      BY <3>2 DEF Feed!Next
  <2>4. CASE /\ next < writeSeq /\ next' = next + 1 /\ subscriber' = "poll"
             /\ delivered' = Append(delivered, <<next, next + 1, next + 1>>)
             /\ UNCHANGED missed
    <3>1. delivered \in Seq(Nat \X Nat \X Nat)
      BY <1>1 DEF CountsFit, SubscriberFits
    <3>2. /\ Len(delivered') = Len(delivered) + 1 /\ Len(delivered) \in Nat
          /\ delivered'[Len(delivered) + 1][1] = next
          /\ \A i \in 1..Len(delivered) : delivered'[i] = delivered[i]
      BY <1>1, <2>4, <3>1
    <3>3. [i \in 1..Len(delivered') |-> delivered'[i][1]]
              = Append([i \in 1..Len(delivered) |-> delivered[i][1]], next)
      BY <3>2
    <3>4. Feed!Deliver
      BY <2>1, <2>2, <2>4, <3>3 DEF Feed!Deliver
    <3> QED
      BY <3>4 DEF Feed!Next
  <2>5. CASE UNCHANGED <<next, delivered, missed>>
    <3>1. CASE subscriber' # "exited"
      BY <1>2, <2>1, <2>2, <2>5, <3>1
    <3>2. CASE subscriber' = "exited"
      <4>1. CountsFit'
        BY <1>1, <2>1, SubscribeFits
      <4>2. next' = Messages
        BY <3>2, <4>1 DEF CountsFit, Accounted
      <4>3. Feed!Stop
        BY <2>1, <2>2, <2>5, <3>2, <4>2 DEF Feed!Stop
      <4> QED
        BY <4>3 DEF Feed!Next
    <3> QED
      BY <3>1, <3>2
  <2> QED
    BY <1>1, <2>1, <2>3, <2>4, <2>5, SubscriberMoves
<1>4. CASE /\ UNCHANGED <<next, delivered, missed, writeSeq>>
           /\ (subscriber' = "exited") = (subscriber = "exited")
  BY <1>2, <1>4
<1>5. CASE /\ UNCHANGED <<next, delivered, missed, subscriber>>
           /\ writeSeq < Messages /\ writeSeq' = writeSeq + 1
  BY <1>5 DEF Feed!Next, Feed!Send
<1> QED
  BY <1>1, <1>3, <1>4, <1>5, OthersMoveNothing

(* To a subscriber of this session the ring is the lossy feed of LossyFeed, step by step: *)
(* in order, each message delivered or reported missed after it was published, and over   *)
(* when every one is accounted for (shm_sub's loop on try_read).                          *)
THEOREM RingIsFeed == SessionSpec => ImplementsFeed
<1>1. SeqlockInv /\ [SessionNext]_allVars => (Current => [Feed!Next]_(Feed!vars))
  BY FeedStep
<1> QED
  BY <1>1, SeqlockStart, SeqlockStep, PTL DEF SessionSpec, ImplementsFeed

=============================================================================

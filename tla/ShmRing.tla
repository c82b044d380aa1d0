------------------------------ MODULE ShmRing ------------------------------
(****************************************************************************)
(* include/hotpath/ipc/shm_ring.hpp with its two users, src/shm_pub.cpp and *)
(* src/shm_sub.cpp: a shared-memory ring that overwrites, each slot behind  *)
(* a seqlock.  One action per access to the shared mapping.                 *)
(*                                                                          *)
(* Messages are numbered from 0.  A slot's payload is two words, both equal *)
(* to the number plus one (zero is what create's memset leaves), so a copy  *)
(* made of two different writes shows.  The fences let the plain accesses   *)
(* between them happen in any order and no other: the publisher stores the  *)
(* words of a slot, and the subscriber loads them, in every order.  A load  *)
(* of write_seq or eof_seq may be stale, but never goes back.               *)
(*                                                                          *)
(* The ring is laid out already: ShmSession puts creating, opening and      *)
(* re-creating the file in front.                                           *)
(****************************************************************************)
EXTENDS Integers, Sequences

CONSTANTS Capacity,      \* capacity_pow2
          Messages,      \* the length of the tape shm_pub replays
          Attempts,      \* how often try_read tries a slot: 64 in the code
          WaitReaders    \* the values of --wait-readers that shm_pub is started with

(* create throws for a capacity that is not a power of two. *)
ASSUME CapacityAssumption ==
    Capacity \in Nat \ {0} /\ \E k \in 0..Capacity : Capacity = 2^k

ASSUME BoundsAssumption == /\ Messages \in Nat
                           /\ Attempts \in Nat \ {0}
                           /\ WaitReaders \subseteq {0, 1} /\ WaitReaders # {}

Words == {"seq", "lo", "hi"}

VARIABLES
    slots,       \* the slots: version, and the Words of each
    writeSeq,    \* write_seq: how many messages are published
    eofSeq,      \* eof_seq: 0 while the publisher runs
    readers,     \* reader_count
    publisher,   \* "wait", "idle", "fill", "even" or "done"
    toWrite,     \* the words of the slot the publisher has yet to store
    subscriber,  \* "attach", "poll", "slot", "copy", "empty" or "exited"
    next,        \* the sequence number the subscriber wants
    seenSeq,     \* the last write_seq it loaded
    attempt,     \* how often it has tried the slot
    version1,    \* v1, the version its copy started from
    copy,        \* the words it has copied
    toRead,      \* the words it has yet to copy
    delivered,   \* what try_read returned with Ok: wanted number and payload
    missed       \* the gaps it was told of, added up

pubVars == <<slots, writeSeq, eofSeq, publisher, toWrite>>
subVars == <<subscriber, next, seenSeq, attempt, version1, copy, toRead,
             delivered, missed>>
vars == <<slots, writeSeq, eofSeq, publisher, toWrite, readers, subscriber, next,
          seenSeq, attempt, version1, copy, toRead, delivered, missed>>

Slot(n) == n % Capacity
Odd(v) == v % 2 = 1
Word(n, word) == IF word = "seq" THEN n ELSE n + 1
Blank == [version |-> 0, seq |-> 0, lo |-> 0, hi |-> 0]

RingInit == /\ slots = [i \in 0..(Capacity - 1) |-> Blank]
            /\ writeSeq = 0 /\ eofSeq = 0 /\ readers = 0 /\ toWrite = {}
            /\ next = 0 /\ seenSeq = 0 /\ attempt = 0 /\ version1 = 0
            /\ copy = Blank /\ toRead = {} /\ delivered = << >> /\ missed = 0

(* if (wait_readers): the publisher waits for a reader, or publishes at once. *)
Waits(readersWanted) == IF readersWanted = 0 THEN "idle" ELSE "wait"

Init == RingInit /\ subscriber = "attach" /\ \E n \in WaitReaders : publisher = Waits(n)

-----------------------------------------------------------------------------
(* shm_pub.cpp and publish. *)

(* while (ring.readers() < wait_readers) sleep, for one reader. *)
StartPublishing == /\ publisher = "wait" /\ readers >= 1
                   /\ publisher' = "idle"
                   /\ UNCHANGED <<slots, writeSeq, eofSeq, toWrite, readers>>
                   /\ UNCHANGED subVars

(* i < tape.size(). *)
TapeLeft == writeSeq < Messages

(* ver.store(v + 1): odd, a write is in progress; the fence follows. *)
BeginWrite == /\ publisher = "idle" /\ TapeLeft
              /\ slots' = [slots EXCEPT ![Slot(writeSeq)].version = @ + 1]
              /\ publisher' = "fill" /\ toWrite' = Words
              /\ UNCHANGED <<writeSeq, eofSeq, readers>> /\ UNCHANGED subVars

(* s->seq = seq, or a word of the payload. *)
StoreWord == /\ publisher = "fill"
             /\ \E word \in toWrite :
                  /\ slots' = [slots EXCEPT ![Slot(writeSeq)][word] =
                                   Word(writeSeq, word)]
                  /\ toWrite' = toWrite \ {word}
             /\ UNCHANGED <<writeSeq, eofSeq, publisher, readers>>
             /\ UNCHANGED subVars

(* ver.store(v + 2): even, consistent again. *)
EndWrite == /\ publisher = "fill" /\ toWrite = {}
            /\ slots' = [slots EXCEPT ![Slot(writeSeq)].version = @ + 1]
            /\ publisher' = "even"
            /\ UNCHANGED <<writeSeq, eofSeq, toWrite, readers>> /\ UNCHANGED subVars

(* h->write_seq.store(seq + 1). *)
Advance == /\ publisher = "even"
           /\ writeSeq' = writeSeq + 1
           /\ publisher' = "idle"
           /\ UNCHANGED <<slots, eofSeq, toWrite, readers>> /\ UNCHANGED subVars

(* mark_eof, once the whole tape is published. *)
MarkEof == /\ publisher = "idle" /\ ~TapeLeft
           /\ eofSeq' = writeSeq + 1
           /\ publisher' = "done"
           /\ UNCHANGED <<slots, writeSeq, toWrite, readers>> /\ UNCHANGED subVars

-----------------------------------------------------------------------------
(* shm_sub.cpp and try_read. *)

Attach == /\ subscriber = "attach"
          /\ readers' = readers + 1
          /\ subscriber' = "poll"
          /\ UNCHANGED <<next, seenSeq, attempt, version1, copy, toRead, delivered,
                         missed>>
          /\ UNCHANGED pubVars

(* Seeded fault: a gap is absorbed without being counted. *)
SkipToSilently(n) == next' = n /\ UNCHANGED <<missed, delivered>>

(* The subscriber is told of the messages from next up to n and goes on at n. *)
SkipTo(n) == /\ next' = n
             /\ missed' = missed + (n - next)
             /\ UNCHANGED delivered

(* next >= published. *)
NothingNew(published) == next >= published

(* Anything older than published - capacity has certainly been overwritten. *)
Overtaken(published) == published > Capacity /\ next < published - Capacity

(* Load write_seq: nothing new, overtaken by a whole lap, or try the slot. *)
LoadPublished(published) ==
    /\ subscriber = "poll"
    /\ published \in seenSeq..writeSeq
    /\ seenSeq' = published
    /\ attempt' = 0
    /\ IF ~NothingNew(published) /\ Overtaken(published)
       THEN SkipTo(published - Capacity)
       ELSE UNCHANGED <<next, missed, delivered>>
    /\ subscriber' = IF NothingNew(published) THEN "empty"
                     ELSE IF Overtaken(published) THEN "poll" ELSE "slot"
    /\ UNCHANGED <<version1, copy, toRead, readers>> /\ UNCHANGED pubVars

(* v1 = ver.load(): an odd version uses up an attempt. *)
LoadVersion ==
    /\ subscriber = "slot" /\ attempt < Attempts
    /\ LET v == slots[Slot(next)].version IN
         IF Odd(v)
         THEN attempt' = attempt + 1
              /\ UNCHANGED <<version1, copy, toRead, subscriber>>
         ELSE /\ version1' = v /\ copy' = Blank /\ toRead' = Words
              /\ subscriber' = "copy" /\ UNCHANGED attempt
    /\ UNCHANGED <<next, seenSeq, delivered, missed, readers>>
    /\ UNCHANGED pubVars

(* seq = s->seq, or a word of the memcpy; the fence follows. *)
LoadWord ==
    /\ subscriber = "copy"
    /\ \E word \in toRead : /\ copy' = [copy EXCEPT ![word] = slots[Slot(next)][word]]
                            /\ toRead' = toRead \ {word}
    /\ UNCHANGED <<subscriber, next, seenSeq, attempt, version1, delivered, missed,
                   readers>>
    /\ UNCHANGED pubVars

(* Seeded fault: the second load of the version is left out. *)
ConsistentUnchecked == subscriber = "copy" /\ toRead = {}

(* v2 = v1: the copy is consistent. *)
Consistent == /\ subscriber = "copy" /\ toRead = {}
              /\ slots[Slot(next)].version = version1

(* Seeded fault: a consistent copy may be thrown away as a torn one. *)
TornAlways == subscriber = "copy" /\ toRead = {}

(* v2 # v1: overwritten while we read. *)
Torn == /\ subscriber = "copy" /\ toRead = {}
        /\ slots[Slot(next)].version # version1

(* A torn copy uses up an attempt. *)
Retry == /\ Torn
         /\ attempt' = attempt + 1
         /\ subscriber' = "slot"
         /\ UNCHANGED <<next, seenSeq, version1, copy, toRead, delivered, missed,
                        readers>>
         /\ UNCHANGED pubVars

(* seq == next: Ok; seq > next: lapped, a gap; otherwise Empty. *)
TakeCopy ==
    /\ Consistent
    /\ CASE copy.seq = next ->
              /\ delivered' = Append(delivered, <<next, copy.lo, copy.hi>>)
              /\ next' = next + 1
              /\ UNCHANGED missed
         [] copy.seq > next -> SkipTo(copy.seq)
         [] copy.seq < next -> UNCHANGED <<delivered, next, missed>>
    /\ subscriber' = IF copy.seq < next THEN "empty" ELSE "poll"
    /\ UNCHANGED <<seenSeq, attempt, version1, copy, toRead, readers>>
    /\ UNCHANGED pubVars

(* Every attempt found the slot torn: that is a gap of one. *)
GiveUp == /\ subscriber = "slot" /\ attempt = Attempts
          /\ SkipTo(next + 1)
          /\ subscriber' = "poll"
          /\ UNCHANGED <<seenSeq, attempt, version1, copy, toRead, readers>>
          /\ UNCHANGED pubVars

(* Seeded fault: any end-of-file mark stops the subscriber. *)
AtEndAnyMark(eof) == eof # 0

(* Seeded fault: the mark is compared as if it were the number published. *)
AtEndOffByOne(eof) == eof # 0 /\ next >= eof

(* eof && next + 1 >= eof. *)
AtEnd(eof) == eof # 0 /\ next + 1 >= eof

(* Nothing to read: stop if the publisher has, or yield and poll again. *)
LoadEof(eof) ==
    /\ subscriber = "empty"
    /\ eof \in {0, eofSeq}
    /\ subscriber' = IF AtEnd(eof) THEN "exited" ELSE "poll"
    /\ UNCHANGED <<next, seenSeq, attempt, version1, copy, toRead, delivered, missed,
                   readers>>
    /\ UNCHANGED pubVars

-----------------------------------------------------------------------------
Publisher == \/ StartPublishing \/ BeginWrite \/ StoreWord \/ EndWrite
             \/ Advance \/ MarkEof

Subscriber == \/ Attach \/ LoadVersion \/ LoadWord \/ Retry \/ TakeCopy \/ GiveUp
              \/ \E published \in 0..writeSeq : LoadPublished(published)
              \/ \E eof \in {0, eofSeq} : LoadEof(eof)

Next == Publisher \/ Subscriber

Spec == Init /\ [][Next]_vars

-----------------------------------------------------------------------------
(* What the subscriber's book is built from is what was published: every    *)
(* payload try_read returns with Ok is the whole payload of the message the *)
(* subscriber wanted, never a mix of two laps, a blank slot or a message of *)
(* another lap.                                                             *)
NothingTorn == \A i \in 1..Len(delivered) :
    LET n == delivered[i][1] IN delivered[i] = <<n, Word(n, "lo"), Word(n, "hi")>>

(* The report of shm_sub adds up whenever it could be printed: each message  *)
(* before next was either received or missed, and the loop is only left when *)
(* next has reached the end of the tape.                                     *)
Accounted == /\ Len(delivered) + missed = next
             /\ subscriber = "exited" => next = Messages

(* Message n has been, or is being, overwritten by one a lap or more later: each *)
(* write counts its slot's version up by two, or by one when it has only begun.  *)
Overwritten(n) == (slots[Slot(n)].version + 1) \div 2 > n \div Capacity + 1

(* What the ring is to the subscriber. *)
Feed == INSTANCE LossyFeed
        WITH sent <- writeSeq, stopped <- subscriber = "exited",
             delivered <- [i \in 1..Len(delivered) |-> delivered[i][1]]
=============================================================================

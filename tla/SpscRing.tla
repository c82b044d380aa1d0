------------------------------ MODULE SpscRing ------------------------------
(****************************************************************************)
(* include/hotpath/ipc/spsc_ring.hpp: the lock-free single-producer /       *)
(* single-consumer ring, one action per access to memory the two threads    *)
(* share, with the two users of src/litmus_ring.cpp, which spin on try_push *)
(* and on try_pop until Messages messages have crossed.                     *)
(*                                                                          *)
(* Positions.  The code keeps tail_ and head_ masked; here they are the     *)
(* number of pushes and pops so far, and every use the code makes of the    *)
(* masked index goes through Slot(p).  Message p is the p-th one pushed     *)
(* (from 0), so the value a slot holds is the position last written there.  *)
(*                                                                          *)
(* Memory.  A load of the other thread's index returns any value at least   *)
(* as new as the last one this thread saw (coherence, and nothing more).    *)
(* A thread knows of the other's plain accesses only what a release store   *)
(* that an acquire load read from has told it: seenWrites and seenReads.    *)
(* A plain read of a slot returns any write that is not older than one the  *)
(* reader knows of.  Under Ordering::Relaxed nothing is ever told.          *)
(****************************************************************************)
EXTENDS Integers, Sequences

CONSTANTS Capacity,   \* capacity_pow2, the constructor's argument
          Messages,   \* how many messages the producer has to send
          Ordering,   \* the template's memory-ordering policy
          Caching     \* the template's index-caching policy

(* The constructor throws for a capacity that is not a power of two. *)
ASSUME CapacityAssumption ==
    Capacity \in Nat \ {0} /\ \E k \in 0..Capacity : Capacity = 2^k

ASSUME PolicyAssumption == /\ Messages \in Nat
                           /\ Ordering \in {"AcqRel", "Relaxed"}
                           /\ Caching \in {"Cached", "Uncached"}

VARIABLES
    pushed,      \* tail_: the pushes the producer has published
    popped,      \* head_: the pops the consumer has published
    written,     \* the slot writes the producer has made: pushed, or one more
    seenHead,    \* cached_head_: the last head_ the producer loaded
    seenTail,    \* cached_tail_: the last tail_ the consumer loaded
    seenReads,   \* the slot reads the producer knows to have happened
    seenWrites,  \* the slot writes the consumer knows to have happened
    producer,    \* where try_push is: "idle", "write" or "publish"
    consumer,    \* where try_pop is: "idle", "read" or "retire"
    received     \* what the consumer's try_pop calls returned, oldest first

ringVars == <<pushed, popped, written, seenHead, seenTail, seenReads, seenWrites,
              producer, consumer, received>>

-----------------------------------------------------------------------------
(* The index arithmetic. *)

Slot(p) == p % Capacity

(* Seeded fault: no slot is kept free. *)
LooksFullNoSpare(tail, head) == tail # head /\ Slot(tail) = Slot(head)

(* next == head: one slot stays empty, so that full differs from empty. *)
LooksFull(tail, head) == Slot(tail + 1) = Slot(head)

(* head == tail. *)
LooksEmpty(head, tail) == Slot(head) = Slot(tail)


-----------------------------------------------------------------------------
(* The memory model. *)

Max2(a, b) == IF a >= b THEN a ELSE b

(* Seeded fault: kPub or kObs relaxed in both policies. *)
LearnNothing(known, told) == known

(* What a thread knows after loading an index that stood at told: kPub and *)
(* kObs are release and acquire, or both relaxed.                          *)
Learn(known, told) == IF Ordering = "AcqRel" THEN Max2(known, told) ELSE known

(* The positions a plain read of the slot of position p may return: written *)
(* there, and not overwritten by a write the consumer knows of.  -1 is the  *)
(* zero the constructor stored.                                             *)
Readable(p) ==
    {w \in -1..(written - 1) :
        /\ w = -1 \/ Slot(w) = Slot(p)
        /\ \A k \in 0..(seenWrites - 1) : Slot(k) = Slot(p) => k <= w}

-----------------------------------------------------------------------------
RingInit == /\ pushed = 0 /\ popped = 0 /\ written = 0
            /\ seenHead = 0 /\ seenTail = 0 /\ seenReads = 0 /\ seenWrites = 0
            /\ producer = "idle" /\ consumer = "idle"
            /\ received = << >>

(* try_push goes straight to the slot when the cached head shows room. *)
MayWrite == \/ producer = "write"
            \/ /\ producer = "idle" /\ pushed < Messages
               /\ Caching = "Cached" /\ ~LooksFull(pushed, seenHead)

(* try_pop goes straight to the slot when the cached tail shows a message. *)
MayRead == \/ consumer = "read"
           \/ /\ consumer = "idle" /\ popped < Messages
              /\ Caching = "Cached" /\ ~LooksEmpty(popped, seenTail)

(* Otherwise load head_, and return false if the slot still looks full. *)
LoadHead(head) ==
    /\ producer = "idle" /\ pushed < Messages
    /\ Caching = "Cached" => LooksFull(pushed, seenHead)
    /\ head \in seenHead..popped
    /\ seenHead' = head
    /\ seenReads' = Learn(seenReads, head)
    /\ producer' = IF LooksFull(pushed, head) THEN "idle" ELSE "write"
    /\ UNCHANGED <<pushed, popped, written, seenTail, seenWrites, consumer, received>>

(* buf_[tail] = v. *)
WriteSlot ==
    /\ MayWrite
    /\ written' = written + 1
    /\ producer' = "publish"
    /\ UNCHANGED <<pushed, popped, seenHead, seenTail, seenReads, seenWrites,
                   consumer, received>>

(* tail_.store(next, kPub); return true. *)
PublishTail ==
    /\ producer = "publish"
    /\ pushed' = pushed + 1
    /\ producer' = "idle"
    /\ UNCHANGED <<popped, written, seenHead, seenTail, seenReads, seenWrites,
                   consumer, received>>

(* Seeded fault: what looks empty is reported empty without a fresh load. *)
LoadTailNever(tail) == FALSE

(* Otherwise load tail_, and return false if the slot still looks empty. *)
LoadTail(tail) ==
    /\ consumer = "idle" /\ popped < Messages
    /\ Caching = "Cached" => LooksEmpty(popped, seenTail)
    /\ tail \in seenTail..pushed
    /\ seenTail' = tail
    /\ seenWrites' = Learn(seenWrites, tail)
    /\ consumer' = IF LooksEmpty(popped, tail) THEN "idle" ELSE "read"
    /\ UNCHANGED <<pushed, popped, written, seenHead, seenReads, producer, received>>

(* out = buf_[head]. *)
ReadSlot ==
    /\ MayRead
    /\ \E w \in Readable(popped) : received' = Append(received, w)
    /\ consumer' = "retire"
    /\ UNCHANGED <<pushed, popped, written, seenHead, seenTail, seenReads,
                   seenWrites, producer>>

(* head_.store(head + 1, kPub); return true. *)
RetireHead ==
    /\ consumer = "retire"
    /\ popped' = popped + 1
    /\ consumer' = "idle"
    /\ UNCHANGED <<pushed, written, seenHead, seenTail, seenReads, seenWrites,
                   producer, received>>

(* Both threads have returned from their loops. *)
Done == /\ pushed = Messages /\ popped = Messages
        /\ UNCHANGED ringVars

Producer == WriteSlot \/ PublishTail \/ \E head \in 0..popped : LoadHead(head)
Consumer == ReadSlot \/ RetireHead \/ \E tail \in 0..pushed : LoadTail(tail)

RingNext == Producer \/ Consumer \/ Done

RingSpec == RingInit /\ [][RingNext]_ringVars

(* Each thread keeps running, and a spinning load sees a store some day. *)
RingFairness == /\ WF_ringVars(WriteSlot) /\ WF_ringVars(PublishTail)
                /\ WF_ringVars(LoadHead(popped))
                /\ WF_ringVars(ReadSlot) /\ WF_ringVars(RetireHead)
                /\ WF_ringVars(LoadTail(pushed))

FairRingSpec == RingSpec /\ RingFairness

-----------------------------------------------------------------------------
(* Every variable keeps its type, and both threads stop at Messages. *)
TypeOK == /\ pushed \in 0..Messages /\ popped \in 0..Messages
          /\ written \in 0..Messages
          /\ seenHead \in Nat /\ seenTail \in Nat
          /\ seenReads \in Nat /\ seenWrites \in Nat
          /\ producer \in {"idle", "write", "publish"}
          /\ consumer \in {"idle", "read", "retire"}
          /\ received \in Seq(Int)

(* The litmus test's verdict is clean: message i of the stream is the i-th   *)
(* one pushed.  A slot read before its payload landed (zero_slots), or after *)
(* the producer came round and overwrote it, and a message lost, repeated or *)
(* out of order, all break it.                                               *)
InOrder == \A i \in 1..Len(received) : received[i] = i - 1

(* About to write a slot, the producer knows that the message it is about to *)
(* overwrite has been read.                                                  *)
WriteRaceFree == MayWrite => pushed - Capacity < seenReads

(* About to read a slot, the consumer knows of every write made to it, so *)
(* none of them can tear what it copies.                                  *)
ReadRaceFree == MayRead => Readable(popped) = {popped}

(* buf_ is not atomic: every write of a slot has to be ordered after the read  *)
(* of the message of the previous lap, and every read after the write of its   *)
(* message.  One index order too weak, or one stale index too many, is a race. *)
RaceFree == WriteRaceFree /\ ReadRaceFree

(* The masked comparisons decide exactly what they stand for, whichever      *)
(* value the load returns: "next == head" holds when capacity() messages are *)
(* inside and never when the ring is empty or aliased by a whole lap.        *)
MaskIsExact ==
    /\ \A head \in seenHead..popped :
          LooksFull(pushed, head) <=> pushed - head = Capacity - 1
    /\ \A tail \in seenTail..pushed : LooksEmpty(popped, tail) <=> popped = tail

(* The positions from low up to high, as a sequence. *)
Window(low, high) == [i \in 1..(high - low) |-> low + i - 1]

(* The ring is a bounded FIFO of capacity() = Capacity - 1 messages: a push *)
(* takes effect at the store of tail_, a pop at the store of head_.         *)
Fifo == INSTANCE BoundedFifo
        WITH Item <- 0..(Messages - 1), Bound <- Capacity - 1,
             queue <- Window(popped, pushed),
             taken <- SubSeq(received, 1, popped)

ImplementsFifo == Fifo!Spec

(* Every message crosses although both sides only ever spin: neither cached *)
(* index can leave its thread waiting for a change it has already missed.   *)
AllDelivered == <>(popped = Messages)
=============================================================================

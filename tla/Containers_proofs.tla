--------------------------- MODULE Containers_proofs ---------------------------
(****************************************************************************************)
(* The bounded containers: SpscRing with Ordering::AcqRel for every capacity, every     *)
(* number of messages and both caching policies; Pipeline over two such rings, for      *)
(* tapes of any length, events of any number of fills and rings of any capacity; and    *)
(* OpenHash, for a table of any size, any hash and any keys.                            *)
(*                                                                                      *)
(* The argument for the ring.  Positions only grow, and the four of them stay           *)
(* within one lap: seenHead <= popped <= seenTail <= pushed <= seenHead + Capacity - 1. *)
(* Two positions less than a lap apart share a slot only if they are equal              *)
(* (SameSlot), so the masked comparisons are exact and the slot the consumer reads      *)
(* cannot hold a later message; what the acquire load told it excludes the earlier      *)
(* ones.                                                                                *)
(*                                                                                      *)
(* The argument for the pipeline.  What the gateway has digested, what is in ring2      *)
(* and what the strategy has still to push for the event in hand are, one after the     *)
(* other, the fills of the events the strategy has taken (Conveyed); and those are the  *)
(* first of the tape, in order, because ring1 holds the messages that follow what was   *)
(* taken from it (Numbered).  An eof is on a ring only behind everything else.          *)
(*                                                                                      *)
(* The argument for the hash map is that of linear probing: no key is in two slots,     *)
(* and no slot between an entry's home and its own is empty.  An erase disturbs it:     *)
(* while its walk closes the gap, the gap still counts as in use, and every entry the   *)
(* walk has passed has its home behind the gap.  At the first empty slot no way leads   *)
(* over the gap any more, so that it can be emptied.                                    *)
(****************************************************************************************)
EXTENDS SpscRing, Pipeline, OpenHash, SequenceTheorems, FiniteSetTheorems, FunctionTheorems,
        WellFoundedInduction, TLAPS

(* Remainders: what the arithmetic below needs of % and \div. *)
LEMMA Division ==
    ASSUME NEW n \in Nat \ {0}, NEW a \in Nat
    PROVE  /\ a = n * (a \div n) + (a % n)
           /\ a \div n \in Nat
           /\ a % n \in 0..(n - 1)
  BY SMT

LEMMA NoMultipleBetween ==
    ASSUME NEW n \in Nat \ {0}, NEW q \in Int, NEW r \in Int,
           n * (q - r) > -n, n * (q - r) < n
    PROVE  q = r
  BY SMT

LEMMA Distribute ==
    ASSUME NEW n \in Int, NEW q \in Int, NEW r \in Int,
           NEW x \in Int, NEW y \in Int,
           n * r + y = n * q + x + n
    PROVE  n * (r - (q + 1)) = x - y
<1>1. n * (r - (q + 1)) = n * r - n * q - n
  BY SMT
<1>2. n * r \in Int /\ n * q \in Int
  BY SMT
<1> QED
  BY <1>1, <1>2

(* Two positions less than a lap apart use the same slot only if equal. *)
LEMMA SameSlot ==
    ASSUME NEW a \in Nat, NEW b \in Nat, b <= a, a - b < Capacity,
           Slot(a) = Slot(b)
    PROVE  a = b
<1> DEFINE q == a \div Capacity
           r == b \div Capacity
<1>1. /\ q \in Nat /\ r \in Nat
      /\ a = Capacity * q + (a % Capacity)
      /\ b = Capacity * r + (b % Capacity)
      /\ a % Capacity \in 0..(Capacity - 1)
  BY Division, CapacityAssumption
<1> HIDE DEF q, r
<1>2. a - b = Capacity * (q - r)
  BY <1>1, CapacityAssumption, SMT DEF Slot
<1>3. q = r
  BY <1>1, <1>2, NoMultipleBetween, CapacityAssumption, SMT
<1> QED
  BY <1>1, <1>3, SMT DEF Slot

(* One lap further on is the same slot again. *)
LEMMA NextLap ==
    ASSUME NEW a \in Nat
    PROVE  Slot(a + Capacity) = Slot(a)
<1> DEFINE c == a + Capacity
           q == a \div Capacity
           r == c \div Capacity
<1>1. /\ c \in Nat /\ q \in Nat /\ r \in Nat
      /\ a = Capacity * q + (a % Capacity)
      /\ c = Capacity * r + (c % Capacity)
      /\ a % Capacity \in 0..(Capacity - 1)
      /\ c % Capacity \in 0..(Capacity - 1)
  <2>1. c \in Nat
    BY CapacityAssumption
  <2> QED
    BY <2>1, Division, CapacityAssumption
<1>2. c = a + Capacity
  OBVIOUS
<1> HIDE DEF c, q, r
<1> DEFINE x == a % Capacity
           y == c % Capacity
<1>3. Capacity * (r - (q + 1)) = x - y
  <2>1. /\ x \in Int /\ y \in Int /\ Capacity \in Int
        /\ r \in Int /\ q \in Int
    BY <1>1, CapacityAssumption
  <2>2. Capacity * r + y = Capacity * q + x + Capacity
    BY <1>1, <1>2
  <2> HIDE DEF x, y
  <2> QED
    BY <2>1, <2>2, Distribute
<1>4. r = q + 1
  BY <1>1, <1>3, NoMultipleBetween, CapacityAssumption, SMT
<1> QED
  BY <1>1, <1>2, <1>3, <1>4, CapacityAssumption, SMT DEF Slot, c

(* For a head less than a lap behind, "next == head" is exactly "full". *)
LEMMA FullIsExact ==
    ASSUME NEW tail \in Nat, NEW head \in Nat,
           head <= tail, tail - head <= Capacity - 1
    PROVE  LooksFull(tail, head) <=> tail - head = Capacity - 1
<1>1. ASSUME tail - head = Capacity - 1
      PROVE  LooksFull(tail, head)
  <2>1. tail + 1 = head + Capacity
    BY <1>1, CapacityAssumption
  <2> QED
    BY <2>1, NextLap DEF LooksFull
<1>2. ASSUME LooksFull(tail, head), tail - head # Capacity - 1
      PROVE  FALSE
  <2>1. /\ tail + 1 \in Nat /\ head <= tail + 1
        /\ (tail + 1) - head < Capacity
    BY <1>2, CapacityAssumption
  <2>2. tail + 1 = head
    BY <1>2, <2>1, SameSlot DEF LooksFull
  <2> QED
    BY <2>2
<1> QED
  BY <1>1, <1>2

(* For a tail less than a lap ahead, "head == tail" is exactly "empty". *)
LEMMA EmptyIsExact ==
    ASSUME NEW head \in Nat, NEW tail \in Nat,
           head <= tail, tail - head <= Capacity - 1
    PROVE  LooksEmpty(head, tail) <=> head = tail
  BY SameSlot, CapacityAssumption DEF LooksEmpty

-----------------------------------------------------------------------------
(* The inductive invariant. *)

(* The four positions are ordered and stay within one lap. *)
WithinLap == /\ seenHead <= popped /\ popped <= seenTail /\ seenTail <= pushed
             /\ pushed - seenHead <= Capacity - 1
             /\ written = IF producer = "publish" THEN pushed + 1 ELSE pushed

(* What each thread has established at the point it has reached. *)
Established == /\ producer # "idle" => pushed - seenHead < Capacity - 1
               /\ producer # "idle" => pushed < Messages
               /\ consumer # "idle" => popped < seenTail
               /\ consumer # "idle" => popped < Messages

(* Acquiring loads have told each thread all it has seen an index for. *)
Informed == seenReads = seenHead /\ seenWrites = seenTail

(* One message is received for each pop, the one in progress included. *)
OnePerPop == Len(received) = IF consumer = "retire" THEN popped + 1 ELSE popped

IInv == TypeOK /\ WithinLap /\ Established /\ Informed /\ OnePerPop /\ InOrder

(* The consumer's read finds the message it wants, and nothing else. *)
LEMMA ReadsTheMessage ==
    ASSUME TypeOK, WithinLap, Informed, popped < seenTail,
           producer = "publish" => pushed - seenHead < Capacity - 1
    PROVE  Readable(popped) = {popped}
<1>1. /\ popped \in Nat /\ pushed \in Nat /\ written \in Nat
      /\ seenHead \in Nat /\ seenTail \in Nat /\ Capacity \in Nat \ {0}
  BY CapacityAssumption DEF TypeOK
<1>2. popped \in 0..(seenWrites - 1) /\ popped \in -1..(written - 1)
  BY <1>1 DEF WithinLap, Informed
<1>3. written - popped < Capacity
  BY <1>1 DEF WithinLap
<1>4. ASSUME NEW w \in Readable(popped)
      PROVE  w = popped
  <2>1. w \in -1..(written - 1) /\ popped <= w
    BY <1>2 DEF Readable
  <2>2. w \in Nat /\ Slot(w) = Slot(popped) /\ w - popped < Capacity
    BY <1>1, <1>3, <2>1 DEF Readable
  <2> QED
    BY <1>1, <2>1, <2>2, SameSlot
<1>5. popped \in Readable(popped)
  <2>1. ASSUME NEW k \in 0..(seenWrites - 1), Slot(k) = Slot(popped), ~(k <= popped)
        PROVE  FALSE
    <3>1. k \in Nat /\ popped <= k /\ k - popped < Capacity
      BY <1>1, <1>3, <2>1 DEF WithinLap, Informed
    <3> QED
      BY <1>1, <2>1, <3>1, SameSlot
  <2>2. \A k \in 0..(seenWrites - 1) : Slot(k) = Slot(popped) => k <= popped
    BY <2>1
  <2> QED
    BY <1>2, <2>2 DEF Readable
<1> QED
  BY <1>4, <1>5

(* A received stream that is in order stays so when the right message joins. *)
LEMMA AppendInOrder ==
    ASSUME TypeOK, InOrder, OnePerPop, consumer # "retire",
           received' = Append(received, popped)
    PROVE  /\ received' \in Seq(Int)
           /\ Len(received') = popped + 1
           /\ InOrder'
<1>1. received \in Seq(Int) /\ popped \in Int /\ Len(received) = popped
  BY DEF TypeOK, OnePerPop
<1>2. /\ received' \in Seq(Int)
      /\ Len(received') = popped + 1
      /\ \A i \in 1..popped : received'[i] = received[i]
      /\ received'[popped + 1] = popped
  BY <1>1
<1>3. ASSUME NEW i \in 1..Len(received')
      PROVE  received'[i] = i - 1
  <2>1. CASE i \in 1..popped
    BY <1>1, <1>2, <2>1 DEF InOrder
  <2>2. CASE i = popped + 1
    BY <1>1, <1>2, <2>2
  <2> QED
    BY <1>1, <1>2, <1>3, <2>1, <2>2
<1> QED
  BY <1>2, <1>3 DEF InOrder

-----------------------------------------------------------------------------
(* The invariant holds at first and every action keeps it. *)

LEMMA InitIInv == RingInit => IInv
  BY CapacityAssumption, PolicyAssumption
  DEF RingInit, IInv, TypeOK, WithinLap, Established, Informed, OnePerPop, InOrder

LEMMA LoadHeadKeeps ==
    ASSUME Ordering = "AcqRel", IInv, NEW head \in 0..popped, LoadHead(head)
    PROVE  IInv'
<1>1. /\ TypeOK /\ WithinLap /\ Established /\ Informed /\ head \in Nat
      /\ producer = "idle" /\ seenHead <= head /\ head <= popped
  BY DEF IInv, LoadHead, TypeOK
<1>2. LooksFull(pushed, head) <=> pushed - head = Capacity - 1
  BY <1>1, FullIsExact, CapacityAssumption DEF TypeOK, WithinLap
<1>3. TypeOK'
  BY <1>1 DEF TypeOK, LoadHead, Learn, Max2
<1>4. WithinLap'
  BY <1>1, CapacityAssumption DEF TypeOK, WithinLap, LoadHead
<1>5. Established'
  BY <1>1, <1>2, CapacityAssumption DEF TypeOK, WithinLap, Established, LoadHead
<1>6. Informed'
  BY <1>1 DEF TypeOK, Informed, LoadHead, Learn, Max2
<1> QED
  BY <1>3, <1>4, <1>5, <1>6 DEF IInv, LoadHead, OnePerPop, InOrder

LEMMA WriteSlotKeeps ==
    ASSUME IInv, WriteSlot
    PROVE  IInv'
<1>1. /\ TypeOK /\ WithinLap /\ Established /\ Informed /\ MayWrite
      /\ producer # "publish"
  BY DEF IInv, WriteSlot, MayWrite
<1>2. pushed - seenHead < Capacity - 1 /\ pushed < Messages
  <2>1. LooksFull(pushed, seenHead) <=> pushed - seenHead = Capacity - 1
    BY <1>1, FullIsExact, CapacityAssumption DEF TypeOK, WithinLap
  <2> QED
    BY <1>1, <2>1, CapacityAssumption DEF TypeOK, MayWrite, WithinLap, Established
<1>3. TypeOK' /\ WithinLap' /\ Established' /\ Informed'
  BY <1>1, <1>2, CapacityAssumption, PolicyAssumption
  DEF TypeOK, WithinLap, Established, Informed, WriteSlot
<1> QED
  BY <1>3 DEF IInv, WriteSlot, OnePerPop, InOrder

LEMMA PublishTailKeeps ==
    ASSUME IInv, PublishTail
    PROVE  IInv'
<1>1. TypeOK' /\ WithinLap' /\ Established' /\ Informed'
  BY CapacityAssumption, PolicyAssumption
  DEF IInv, TypeOK, WithinLap, Established, Informed, PublishTail
<1> QED
  BY <1>1 DEF IInv, PublishTail, OnePerPop, InOrder

LEMMA LoadTailKeeps ==
    ASSUME Ordering = "AcqRel", IInv, NEW tail \in 0..pushed, LoadTail(tail)
    PROVE  IInv'
<1>1. /\ TypeOK /\ WithinLap /\ Established /\ Informed /\ tail \in Nat
      /\ consumer = "idle" /\ seenTail <= tail /\ tail <= pushed
  BY DEF IInv, LoadTail, TypeOK
<1>2. LooksEmpty(popped, tail) <=> popped = tail
  BY <1>1, EmptyIsExact, CapacityAssumption DEF TypeOK, WithinLap
<1>3. TypeOK'
  BY <1>1 DEF TypeOK, LoadTail, Learn, Max2
<1>4. WithinLap'
  BY <1>1 DEF TypeOK, WithinLap, LoadTail
<1>5. Established'
  BY <1>1, <1>2 DEF TypeOK, WithinLap, Established, LoadTail
<1>6. Informed'
  BY <1>1 DEF TypeOK, Informed, LoadTail, Learn, Max2
<1> QED
  BY <1>1, <1>3, <1>4, <1>5, <1>6 DEF IInv, LoadTail, OnePerPop, InOrder

LEMMA ReadSlotKeeps ==
    ASSUME IInv, ReadSlot
    PROVE  IInv'
<1>1. /\ TypeOK /\ WithinLap /\ Established /\ Informed /\ OnePerPop /\ InOrder
      /\ MayRead /\ consumer # "retire"
  BY DEF IInv, ReadSlot, MayRead
<1>2. popped < seenTail /\ popped < Messages
  <2>1. LooksEmpty(popped, seenTail) <=> popped = seenTail
    BY <1>1, EmptyIsExact, CapacityAssumption DEF TypeOK, WithinLap
  <2> QED
    BY <1>1, <2>1 DEF TypeOK, MayRead, WithinLap, Established
<1>3. Readable(popped) = {popped}
  BY <1>1, <1>2, ReadsTheMessage DEF Established
<1>4. received' = Append(received, popped)
  BY <1>3 DEF ReadSlot
<1>5. received' \in Seq(Int) /\ Len(received') = popped + 1 /\ InOrder'
  BY <1>1, <1>4, AppendInOrder
<1>6. TypeOK' /\ WithinLap' /\ Established' /\ Informed'
  BY <1>1, <1>2, <1>5 DEF TypeOK, WithinLap, Established, Informed, ReadSlot
<1>7. OnePerPop'
  BY <1>5 DEF OnePerPop, ReadSlot
<1> QED
  BY <1>5, <1>6, <1>7 DEF IInv

LEMMA RetireHeadKeeps ==
    ASSUME IInv, RetireHead
    PROVE  IInv'
<1>1. TypeOK' /\ WithinLap' /\ Established' /\ Informed'
  BY CapacityAssumption, PolicyAssumption
  DEF IInv, TypeOK, WithinLap, Established, Informed, RetireHead
<1> QED
  BY <1>1 DEF IInv, RetireHead, OnePerPop, InOrder

LEMMA NextIInv == Ordering = "AcqRel" /\ IInv /\ [RingNext]_ringVars => IInv'
<1> SUFFICES ASSUME Ordering = "AcqRel", IInv, [RingNext]_ringVars
             PROVE  IInv'
  OBVIOUS
<1>1. CASE WriteSlot
  BY <1>1, WriteSlotKeeps
<1>2. CASE PublishTail
  BY <1>2, PublishTailKeeps
<1>3. ASSUME NEW head \in 0..popped, LoadHead(head)
      PROVE  IInv'
  BY <1>3, LoadHeadKeeps
<1>4. CASE ReadSlot
  BY <1>4, ReadSlotKeeps
<1>5. CASE RetireHead
  BY <1>5, RetireHeadKeeps
<1>6. ASSUME NEW tail \in 0..pushed, LoadTail(tail)
      PROVE  IInv'
  BY <1>6, LoadTailKeeps
<1>7. CASE UNCHANGED ringVars
  BY <1>7 DEF ringVars, IInv, TypeOK, WithinLap, Established, Informed, OnePerPop, InOrder
<1> QED
  BY <1>1, <1>2, <1>3, <1>4, <1>5, <1>6, <1>7 DEF RingNext, Producer, Consumer, Done

(* Every reachable state of the acquire/release ring satisfies IInv. *)
THEOREM Invariance ==
    ASSUME Ordering = "AcqRel"
    PROVE  RingSpec => []IInv
<1>1. RingInit => IInv
  BY InitIInv
<1>2. IInv /\ [RingNext]_ringVars => IInv'
  BY NextIInv
<1> QED
  BY <1>1, <1>2, PTL DEF RingSpec

-----------------------------------------------------------------------------
(* What the ring promises. *)

(* Every variable keeps its type and neither thread runs past Messages: the *)
(* loops of litmus_ring.cpp never push or pop once too often.               *)
THEOREM TypeCorrect ==
    ASSUME Ordering = "AcqRel"
    PROVE  RingSpec => []TypeOK
<1>1. IInv => TypeOK
  BY DEF IInv
<1> QED
  BY <1>1, Invariance, PTL

(* try_pop hands out exactly the messages try_push took, in their order. *)
THEOREM FirstInFirstOut ==
    ASSUME Ordering = "AcqRel"
    PROVE  RingSpec => []InOrder
<1>1. IInv => InOrder
  BY DEF IInv
<1> QED
  BY <1>1, Invariance, PTL

(* buf_[tail] = v never races with a read of the slot. *)
THEOREM WritesRaceFree ==
    ASSUME Ordering = "AcqRel"
    PROVE  RingSpec => []WriteRaceFree
<1>1. IInv => WriteRaceFree
  BY CapacityAssumption
  DEF IInv, TypeOK, WithinLap, Informed, WriteRaceFree
<1> QED
  BY <1>1, Invariance, PTL

(* out = buf_[head] never races with a write of the slot. *)
THEOREM ReadsRaceFree ==
    ASSUME Ordering = "AcqRel"
    PROVE  RingSpec => []ReadRaceFree
<1>1. ASSUME IInv, MayRead
      PROVE  Readable(popped) = {popped}
  <2>1. TypeOK /\ WithinLap /\ Established /\ Informed
    BY <1>1 DEF IInv
  <2>2. LooksEmpty(popped, seenTail) <=> popped = seenTail
    BY <2>1, EmptyIsExact, CapacityAssumption DEF TypeOK, WithinLap
  <2>3. popped < seenTail
    BY <1>1, <2>1, <2>2 DEF TypeOK, MayRead, WithinLap, Established
  <2> QED
    BY <2>1, <2>3, ReadsTheMessage DEF Established
<1>2. IInv => ReadRaceFree
  BY <1>1 DEF ReadRaceFree
<1> QED
  BY <1>2, Invariance, PTL

(* No slot of buf_ is accessed by both threads without an order between them. *)
THEOREM RaceFreedom ==
    ASSUME Ordering = "AcqRel"
    PROVE  RingSpec => []RaceFree
<1>1. WriteRaceFree /\ ReadRaceFree => RaceFree
  BY DEF RaceFree
<1> QED
  BY <1>1, WritesRaceFree, ReadsRaceFree, PTL

(* The masked comparisons of try_push and try_pop never confuse full, empty *)
(* and a whole lap, whichever admissible value their load returns.          *)
THEOREM MasksAreExact ==
    ASSUME Ordering = "AcqRel"
    PROVE  RingSpec => []MaskIsExact
<1>1. ASSUME IInv
      PROVE  MaskIsExact
  <2>1. TypeOK /\ WithinLap
    BY <1>1 DEF IInv
  <2>2. ASSUME NEW head \in seenHead..popped
        PROVE  LooksFull(pushed, head) <=> pushed - head = Capacity - 1
    BY <2>1, FullIsExact, CapacityAssumption DEF TypeOK, WithinLap
  <2>3. ASSUME NEW tail \in seenTail..pushed
        PROVE  LooksEmpty(popped, tail) <=> popped = tail
    BY <2>1, EmptyIsExact, CapacityAssumption DEF TypeOK, WithinLap
  <2> QED
    BY <2>2, <2>3 DEF MaskIsExact
<1> QED
  BY <1>1, Invariance, PTL

-----------------------------------------------------------------------------
(* The ring implements BoundedFifo: the store of tail_ puts, the store of *)
(* head_ takes, and everything else leaves the queue alone.               *)

LEMMA WindowIsASeq ==
    ASSUME NEW low \in Nat, NEW high \in Nat, low <= high
    PROVE  /\ Window(low, high) \in Seq(Int)
           /\ Len(Window(low, high)) = high - low
           /\ \A i \in 1..(high - low) : Window(low, high)[i] = low + i - 1
  BY DEF Window

LEMMA WindowGrows ==
    ASSUME NEW low \in Nat, NEW high \in Nat, low <= high
    PROVE  Window(low, high + 1) = Append(Window(low, high), high)
<1> DEFINE old == Window(low, high)
           new == Window(low, high + 1)
<1>1. /\ old \in Seq(Int) /\ Len(old) = high - low
      /\ \A i \in 1..(high - low) : old[i] = low + i - 1
  BY WindowIsASeq
<1>2. /\ new \in Seq(Int) /\ Len(new) = high + 1 - low
      /\ \A i \in 1..(high + 1 - low) : new[i] = low + i - 1
  BY WindowIsASeq
<1> HIDE DEF old, new
<1>3. /\ Append(old, high) \in Seq(Int) /\ Len(Append(old, high)) = high + 1 - low
      /\ \A i \in 1..(high + 1 - low) : Append(old, high)[i] = low + i - 1
  BY <1>1
<1>4. new = Append(old, high)
  BY <1>2, <1>3, SeqEqual
<1> QED
  BY <1>4 DEF old, new

LEMMA WindowShrinks ==
    ASSUME NEW low \in Nat, NEW high \in Nat, low < high
    PROVE  /\ Window(low, high) # << >>
           /\ Head(Window(low, high)) = low
           /\ Window(low + 1, high) = Tail(Window(low, high))
<1> DEFINE old == Window(low, high)
           new == Window(low + 1, high)
<1>1. /\ old \in Seq(Int) /\ Len(old) = high - low
      /\ \A i \in 1..(high - low) : old[i] = low + i - 1
  BY WindowIsASeq
<1>2. /\ new \in Seq(Int) /\ Len(new) = high - low - 1
      /\ \A i \in 1..(high - low - 1) : new[i] = low + i
  BY WindowIsASeq
<1> HIDE DEF old, new
<1>3. old # << >> /\ Head(old) = low
  BY <1>1
<1>4. /\ Tail(old) \in Seq(Int) /\ Len(Tail(old)) = high - low - 1
      /\ \A i \in 1..(high - low - 1) : Tail(old)[i] = low + i
  BY <1>1, <1>3, HeadTailProperties
<1>5. new = Tail(old)
  BY <1>2, <1>4, SeqEqual
<1> QED
  BY <1>3, <1>5 DEF old, new

(* The first n messages of a stream are those of any longer stream. *)
LEMMA PrefixOfAppend ==
    ASSUME NEW s \in Seq(Int), NEW x \in Int
    PROVE  SubSeq(Append(s, x), 1, Len(s)) = SubSeq(s, 1, Len(s))
<1> DEFINE n == Len(s)
           long == SubSeq(Append(s, x), 1, n)
           short == SubSeq(s, 1, n)
<1>1. n \in Nat /\ \A i \in 1..n : s[i] \in Int /\ Append(s, x)[i] = s[i]
  BY ElementOfSeq
<1>2. long \in Seq(Int) /\ Len(long) = n /\ \A i \in 1..n : long[i] = s[i]
  BY <1>1, SubSeqProperties
<1>3. short \in Seq(Int) /\ Len(short) = n /\ \A i \in 1..n : short[i] = s[i]
  BY <1>1, SubSeqProperties
<1> HIDE DEF n, long, short
<1>4. long = short
  BY <1>2, <1>3, SeqEqual
<1> QED
  BY <1>4 DEF long, short, n

LEMMA PrefixGrows ==
    ASSUME NEW s \in Seq(Int), NEW n \in Nat, n + 1 = Len(s)
    PROVE  SubSeq(s, 1, n + 1) = Append(SubSeq(s, 1, n), s[n + 1])
<1> DEFINE long == SubSeq(s, 1, n + 1)
           short == SubSeq(s, 1, n)
<1>1. \A i \in 1..(n + 1) : s[i] \in Int
  BY ElementOfSeq
<1>2. /\ long \in Seq(Int) /\ Len(long) = n + 1
      /\ \A i \in 1..(n + 1) : long[i] = s[i]
  BY <1>1, SubSeqProperties
<1>3. short \in Seq(Int) /\ Len(short) = n /\ \A i \in 1..n : short[i] = s[i]
  BY <1>1, SubSeqProperties
<1> HIDE DEF long, short
<1>4. /\ Append(short, s[n + 1]) \in Seq(Int)
      /\ Len(Append(short, s[n + 1])) = n + 1
      /\ \A i \in 1..(n + 1) : Append(short, s[n + 1])[i] = s[i]
  BY <1>1, <1>3
<1>5. long = Append(short, s[n + 1])
  BY <1>2, <1>4, SeqEqual
<1> QED
  BY <1>5 DEF long, short

LEMMA PublishTailPuts ==
    ASSUME IInv, PublishTail
    PROVE  \E item \in 0..(Messages - 1) : Fifo!Put(item)
<1>1. /\ pushed \in Nat /\ popped \in Nat /\ popped <= pushed
      /\ pushed - popped < Capacity - 1 /\ pushed \in 0..(Messages - 1)
      /\ pushed' = pushed + 1 /\ popped' = popped /\ received' = received
  BY CapacityAssumption, PolicyAssumption
  DEF IInv, TypeOK, WithinLap, Established, PublishTail
<1>2. Len(Window(popped, pushed)) = pushed - popped
  BY <1>1, WindowIsASeq
<1>3. Window(popped', pushed') = Append(Window(popped, pushed), pushed)
  BY <1>1, WindowGrows
<1> QED
  BY <1>1, <1>2, <1>3 DEF Fifo!Put

LEMMA RetireHeadTakes ==
    ASSUME IInv, RetireHead
    PROVE  Fifo!Take
<1>1. /\ pushed \in Nat /\ popped \in Nat /\ popped < pushed
      /\ received \in Seq(Int) /\ Len(received) = popped + 1
      /\ received[popped + 1] = popped
      /\ pushed' = pushed /\ popped' = popped + 1 /\ received' = received
  BY DEF IInv, TypeOK, WithinLap, Established, OnePerPop, InOrder, RetireHead
<1>2. /\ Window(popped, pushed) # << >> /\ Head(Window(popped, pushed)) = popped
      /\ Window(popped', pushed') = Tail(Window(popped, pushed))
  BY <1>1, WindowShrinks
<1>3. SubSeq(received', 1, popped') = Append(SubSeq(received, 1, popped), popped)
  BY <1>1, PrefixGrows
<1> QED
  BY <1>2, <1>3 DEF Fifo!Take

LEMMA ReadSlotStutters ==
    ASSUME IInv, IInv', ReadSlot
    PROVE  UNCHANGED <<Window(popped, pushed), SubSeq(received, 1, popped)>>
<1>1. /\ pushed' = pushed /\ popped' = popped
      /\ received \in Seq(Int) /\ Len(received) = popped
      /\ consumer' = "retire" /\ popped \in Nat
  BY DEF IInv, TypeOK, OnePerPop, ReadSlot, MayRead
<1>2. PICK w \in Readable(popped) : received' = Append(received, w)
  BY DEF ReadSlot
<1>3. w \in Int
  BY <1>2 DEF Readable, IInv, TypeOK
<1>4. SubSeq(received', 1, popped) = SubSeq(received, 1, popped)
  BY <1>1, <1>2, <1>3, PrefixOfAppend
<1> QED
  BY <1>1, <1>4

(* The ring is a bounded FIFO queue of Capacity - 1 messages. *)
THEOREM Refinement ==
    ASSUME Ordering = "AcqRel"
    PROVE  RingSpec => ImplementsFifo
<1>1. RingInit => Fifo!Init
  <2> SUFFICES ASSUME RingInit
               PROVE  Fifo!Init
    OBVIOUS
  <2>1. Window(0, 0) = << >>
    BY WindowIsASeq
  <2>2. SubSeq(<< >>, 1, 0) = << >>
    BY SubSeqEmpty
  <2> QED
    BY <2>1, <2>2 DEF RingInit, Fifo!Init
<1>2. IInv /\ IInv' /\ [RingNext]_ringVars => [Fifo!Next]_(Fifo!vars)
  <2> SUFFICES ASSUME IInv, IInv', [RingNext]_ringVars
               PROVE  [Fifo!Next]_(Fifo!vars)
    OBVIOUS
  <2>1. CASE PublishTail
    BY <2>1, PublishTailPuts DEF Fifo!Next
  <2>2. CASE RetireHead
    BY <2>2, RetireHeadTakes DEF Fifo!Next
  <2>3. CASE ReadSlot
    BY <2>3, ReadSlotStutters DEF Fifo!vars
  <2>4. CASE UNCHANGED <<pushed, popped, received>>
    BY <2>4 DEF Fifo!vars, Window
  <2>5. CASE WriteSlot
    BY <2>4, <2>5 DEF WriteSlot
  <2>6. ASSUME NEW head \in 0..popped, LoadHead(head)
        PROVE  [Fifo!Next]_(Fifo!vars)
    BY <2>4, <2>6 DEF LoadHead
  <2>7. ASSUME NEW tail \in 0..pushed, LoadTail(tail)
        PROVE  [Fifo!Next]_(Fifo!vars)
    BY <2>4, <2>7 DEF LoadTail
  <2>8. CASE UNCHANGED ringVars
    BY <2>4, <2>8 DEF ringVars
  <2> QED
    BY <2>1, <2>2, <2>3, <2>5, <2>6, <2>7, <2>8 DEF RingNext, Producer, Consumer, Done
<1> QED
  BY <1>1, <1>2, Invariance, PTL DEF RingSpec, ImplementsFifo, Fifo!Spec

-----------------------------------------------------------------------------
(* Induction, for a set in the place of a predicate. *)

LEMMA LeastNat ==
    ASSUME NEW T \in SUBSET Nat, T # {}
    PROVE  \E n \in T : \A m \in T : n <= m
<1> DEFINE R == OpToRel(<, Nat)
<1>1. IsWellFoundedOn(R, Nat)
  BY NatLessThanWellFounded
<1>2. \A x, y \in Nat : <<x, y>> \in R <=> x < y
  BY DEF OpToRel
<1> HIDE DEF R
<1>3. PICK n \in T : \A m \in T : ~(<<m, n>> \in R)
  BY <1>1, WFMin
<1>4. \A m \in T : ~(m < n)
  BY <1>2, <1>3
<1>. QED  BY <1>4

LEMMA SetInduction ==
    ASSUME NEW T \in SUBSET Nat, 0 \in T, \A n \in Nat : n \in T => n + 1 \in T
    PROVE  T = Nat
<1>. SUFFICES ASSUME Nat \ T # {} PROVE FALSE
  OBVIOUS
<1>1. PICK n \in Nat \ T : \A m \in Nat \ T : n <= m
  BY LeastNat
<1>2. n # 0 /\ n - 1 \in Nat /\ n - 1 \in T
  BY <1>1
<1>3. (n - 1) + 1 \in T
  BY <1>2
<1>. QED  BY <1>1, <1>2, <1>3

-----------------------------------------------------------------------------
(* The fills of an event, and those of the first events of a tape, in order. *)
FillsAt(y, e) == [i \in 1..y[e] |-> <<e, i>>]

Yields(g, y, n) ==
    /\ g \in [0..n -> Seq(Fill)] /\ g[0] = << >>
    /\ \A e \in 1..n : g[e] = g[e - 1] \o FillsAt(y, e)

LEMMA FillsAreFills ==
    ASSUME NEW y \in [1..Events -> 0..MaxFills], NEW e \in 1..Events
    PROVE  FillsAt(y, e) \in Seq(Fill)
<1>1. y[e] \in Nat /\ y[e] <= MaxFills
  BY PipelineAssumption
<1>2. \A i \in 1..y[e] : <<e, i>> \in Fill
  BY <1>1, PipelineAssumption DEF Fill
<1>. QED  BY <1>1, <1>2 DEF FillsAt

LEMMA YieldsExist ==
    ASSUME NEW y \in [1..Events -> 0..MaxFills]
    PROVE  \E g : Yields(g, y, Events)
<1> DEFINE T == {n \in Nat : n <= Events => \E g : Yields(g, y, n)}
<1>1. 0 \in T
  <2> DEFINE g == [n \in 0..0 |-> << >>]
  <2>1. g \in [0..0 -> Seq(Fill)] /\ g[0] = << >>
    OBVIOUS
  <2>2. Yields(g, y, 0)
    BY <2>1 DEF Yields
  <2>. QED  BY <2>2
<1>2. ASSUME NEW n \in Nat, n \in T PROVE n + 1 \in T
  <2>. SUFFICES ASSUME n + 1 <= Events PROVE \E g : Yields(g, y, n + 1)
    OBVIOUS
  <2>1. PICK g : Yields(g, y, n)
    BY <1>2, PipelineAssumption
  <2> DEFINE more == FillsAt(y, n + 1)
             h == [k \in 0..(n + 1) |-> IF k = n + 1 THEN g[n] \o more ELSE g[k]]
  <2>2. more \in Seq(Fill)
    <3>1. n + 1 \in 1..Events
      BY PipelineAssumption
    <3>. QED  BY <3>1, FillsAreFills
  <2>3. g[n] \in Seq(Fill) /\ \A k \in 0..n : g[k] \in Seq(Fill)
    BY <2>1 DEF Yields
  <2>. HIDE DEF more
  <2>4. h \in [0..(n + 1) -> Seq(Fill)]
    BY <2>2, <2>3
  <2>5. h[0] = << >>
    BY <2>1 DEF Yields
  <2>6. ASSUME NEW e \in 1..(n + 1)
        PROVE  h[e] = h[e - 1] \o FillsAt(y, e)
    <3>1. CASE e = n + 1
      <4>1. n + 1 \in 0..(n + 1) /\ n \in 0..(n + 1) /\ n # n + 1
        OBVIOUS
      <4>2. h[n + 1] = g[n] \o more /\ h[n] = g[n]
        BY <4>1
      <4>. HIDE DEF h
      <4>3. e - 1 = n
        BY <3>1
      <4>. QED  BY <3>1, <4>2, <4>3 DEF more
    <3>2. CASE e # n + 1
      <4>1. e \in 1..n /\ e - 1 \in 0..n /\ e - 1 # n + 1
        BY <3>2
      <4>2. h[e] = g[e] /\ h[e - 1] = g[e - 1]
        BY <3>2, <4>1
      <4>. QED  BY <2>1, <4>1, <4>2 DEF Yields
    <3>. QED  BY <3>1, <3>2
  <2>7. Yields(h, y, n + 1)
    BY <2>4, <2>5, <2>6 DEF Yields
  <2>. QED  BY <2>7
<1>3. T = Nat
  <2>. HIDE DEF T
  <2>1. T \in SUBSET Nat
    BY DEF T
  <2>. QED  BY <1>1, <1>2, <2>1, SetInduction
<1>4. Events \in T
  BY <1>3, PipelineAssumption
<1>. QED  BY <1>4, PipelineAssumption

-----------------------------------------------------------------------------
(* The fills of run_single are what the whole tape yields. *)
LEMMA FlattenYields ==
    ASSUME NEW y \in [1..Events -> 0..MaxFills], NEW g, Yields(g, y, Events)
    PROVE  FlattenSeq([e \in 1..Events |-> FillsAt(y, e)]) = g[Events]
<1> DEFINE s == [e \in 1..Events |-> FillsAt(y, e)]
           Is(f) == f = [i \in 1..Len(s) |-> IF i = 1 THEN s[i] ELSE f[i - 1] \o s[i]]
           flat == CHOOSE f : Is(f)
<1>0. Events \in Nat /\ Len(s) = Events /\ DOMAIN s = 1..Events
  <2>1. s \in Seq(Seq(Fill))
    BY FillsAreFills, PipelineAssumption
  <2> QED
    BY <2>1, PipelineAssumption
<1>1. CASE Events = 0
  <2>1. s = << >>
    BY <1>0, <1>1
  <2>2. FlattenSeq(s) = s
    BY <1>0, <1>1 DEF FlattenSeq
  <2> QED
    BY <1>1, <2>1, <2>2 DEF Yields
<1>2. CASE Events # 0
  <2> DEFINE w == [i \in 1..Events |-> g[i]]
  <2>1. \A e \in 1..Events : s[e] = FillsAt(y, e) /\ s[e] \in Seq(Fill)
    BY FillsAreFills
  <2>2. Is(w)
    <3> DEFINE u == [i \in 1..Len(s) |-> IF i = 1 THEN s[i] ELSE w[i - 1] \o s[i]]
    <3>1. ASSUME NEW i \in 1..Events PROVE w[i] = u[i]
      <4>1. g[i] = g[i - 1] \o s[i]
        BY <2>1 DEF Yields
      <4>2. CASE i = 1
        <5>1. g[0] = << >> /\ 1 - 1 = 0
          BY DEF Yields
        <5>2. << >> \o s[1] = s[1]
          BY <2>1, <4>2
        <5> HIDE DEF s
        <5> QED
          BY <1>0, <4>1, <4>2, <5>1, <5>2
      <4>3. CASE i # 1
        <5>1. i - 1 \in 1..Events
          BY <1>0, <4>3
        <5> HIDE DEF s
        <5> QED
          BY <1>0, <4>1, <4>3, <5>1
      <4> QED
        BY <4>2, <4>3
    <3> HIDE DEF s
    <3>2. DOMAIN w = 1..Events /\ DOMAIN u = 1..Events
      BY <1>0
    <3>3. w = [i \in DOMAIN w |-> w[i]] /\ u = [i \in DOMAIN u |-> u[i]]
      OBVIOUS
    <3>4. w = u
      <4> HIDE DEF w, u
      <4> QED
        BY <3>1, <3>2, <3>3
    <3> QED
      BY <3>4
  <2>3. Is(flat)
    <3>1. \E f : Is(f)
      BY <2>2
    <3> HIDE DEF Is
    <3> QED
      BY <3>1
  <2>4. FlattenSeq(s) = flat[Events]
    <3>1. Len(s) # 0
      BY <1>0, <1>2
    <3>2. FlattenSeq(s) = flat[Len(s)]
      BY <3>1, Zenon DEF FlattenSeq
    <3> QED
      BY <1>0, <3>2
  <2> HIDE DEF flat
  <2> DEFINE T == {n \in Nat : n \in 1..Events => flat[n] = g[n]}
  <2>5. 0 \in T
    OBVIOUS
  <2>6. ASSUME NEW n \in Nat, n \in T PROVE n + 1 \in T
    <3> SUFFICES ASSUME n + 1 \in 1..Events PROVE flat[n + 1] = g[n + 1]
      OBVIOUS
    <3>1. flat[n + 1] = IF n + 1 = 1 THEN s[n + 1] ELSE flat[(n + 1) - 1] \o s[n + 1]
      <4> HIDE DEF s
      <4> QED
        BY <1>0, <2>3
    <3>2. g[n + 1] = g[n] \o s[n + 1]
      <4>1. (n + 1) - 1 = n
        OBVIOUS
      <4> QED
        BY <2>1, <4>1 DEF Yields
    <3>3. s[n + 1] \in Seq(Fill)
      BY <2>1
    <3> HIDE DEF s
    <3>4. CASE n = 0
      <4>1. g[0] = << >> /\ << >> \o s[1] = s[1]
        BY <3>3, <3>4 DEF Yields
      <4> QED
        BY <3>1, <3>2, <3>4, <4>1
    <3>5. CASE n # 0
      <4>1. n \in 1..Events /\ (n + 1) - 1 = n /\ n + 1 # 1
        BY <3>5, PipelineAssumption
      <4>2. flat[n] = g[n]
        BY <2>6, <4>1
      <4> HIDE DEF Is, T
      <4> QED
        BY <3>1, <3>2, <4>1, <4>2
    <3> QED
      BY <3>4, <3>5
  <2>7. T = Nat
    <3> HIDE DEF T
    <3>1. T \in SUBSET Nat
      BY DEF T
    <3> QED
      BY <2>5, <2>6, <3>1, SetInduction
  <2>8. Events \in T /\ Events \in 1..Events
    BY <1>0, <1>2, <2>7
  <2> QED
    BY <2>4, <2>8
<1> QED
  BY <1>1, <1>2

(* What the first events yield opens what more of them do. *)
LEMMA YieldsGrow ==
    ASSUME NEW y \in [1..Events -> 0..MaxFills], NEW g, Yields(g, y, Events)
    PROVE  \A k \in 0..Events : \E rest \in Seq(Fill) : g[Events] = g[k] \o rest
<1> DEFINE T == {n \in Nat : n <= Events =>
                     \E rest \in Seq(Fill) : g[Events] = g[Events - n] \o rest}
<1>0. Events \in Nat /\ \A k \in 0..Events : g[k] \in Seq(Fill)
  BY PipelineAssumption DEF Yields
<1>1. 0 \in T
  <2>1. << >> \in Seq(Fill) /\ g[Events] = g[Events - 0] \o << >>
    BY <1>0
  <2> QED
    BY <2>1
<1>2. ASSUME NEW n \in Nat, n \in T PROVE n + 1 \in T
  <2> SUFFICES ASSUME n + 1 <= Events
               PROVE  \E rest \in Seq(Fill) : g[Events] = g[Events - (n + 1)] \o rest
    OBVIOUS
  <2>1. PICK rest \in Seq(Fill) : g[Events] = g[Events - n] \o rest
    <3>1. n <= Events
      BY <1>0
    <3> QED
      BY <1>2, <3>1
  <2> DEFINE e == Events - n
             more == FillsAt(y, e)
  <2>2. e \in 1..Events /\ e - 1 = Events - (n + 1) /\ e - 1 \in 0..Events
    BY <1>0
  <2>3. g[e] = g[e - 1] \o more
    BY <2>2 DEF Yields
  <2>4. more \in Seq(Fill)
    BY <2>2, FillsAreFills
  <2> HIDE DEF more
  <2>5. (g[e - 1] \o more) \o rest = g[e - 1] \o (more \o rest)
    <3> HIDE DEF e
    <3> DEFINE first == g[e - 1]
    <3>1. first \in Seq(Fill)
      BY <1>0, <2>2
    <3> HIDE DEF first
    <3>2. (first \o more) \o rest = first \o (more \o rest)
      BY <2>4, <3>1
    <3> QED
      BY <3>2 DEF first
  <2>6. more \o rest \in Seq(Fill)
    BY <2>4
  <2> QED
    BY <2>1, <2>2, <2>3, <2>5, <2>6
<1>3. T = Nat
  <2> HIDE DEF T
  <2>1. T \in SUBSET Nat
    BY DEF T
  <2> QED
    BY <1>1, <1>2, <2>1, SetInduction
<1>4. ASSUME NEW k \in 0..Events
      PROVE  \E rest \in Seq(Fill) : g[Events] = g[k] \o rest
  <2>0. Events - k \in Nat /\ Events - k <= Events /\ Events - (Events - k) = k
    BY <1>0
  <2>1. Events - k \in T
    <3> HIDE DEF T
    <3> QED
      BY <1>3, <2>0
  <2> QED
    BY <2>0, <2>1
<1> QED
  BY <1>4

-----------------------------------------------------------------------------
(* The messages of ring1: the events in order, then the eof. *)
Msg(i) == IF i <= Events THEN i ELSE Eof

Sent == IF "feed" \in running THEN fed ELSE Events + 1

(* Ring1 holds the messages that follow those the strategy has taken. *)
Numbered ==
    /\ fed \in 0..Events
    /\ "feed" \notin running => fed = Events
    /\ queue1 \in Seq(0..Events) /\ taken1 \in Seq(0..Events)
    /\ Len(taken1) + Len(queue1) = Sent
    /\ \A i \in 1..Len(queue1) : queue1[i] = Msg(Len(taken1) + i)

Pushed == Fill \cup {<<Eof>>}

(* k messages taken from ring1; d digested, q in ring2 and p yet to be pushed. *)
Carries(g, k, d, q, p, r) ==
    /\ d \in Seq(Fill) /\ q \in Seq(Pushed) /\ p \in Seq(Pushed)
    /\ k <= Events => "gateway" \in r /\ d \o (q \o p) = g[k]
    /\ k = Events + 1 =>
          \/ "gateway" \in r /\ d \o (q \o p) = Append(g[Events], <<Eof>>)
          \/ "gateway" \notin r /\ d = g[Events] /\ p = << >>

(* What is digested, queued and pending is what the events taken yield, in order. *)
Conveyed == \E g : /\ Yields(g, fills, Events)
                   /\ Carries(g, Len(taken1), digested, queue2, pending, running)

PipelineInv == /\ fills \in [1..Events -> 0..MaxFills]
               /\ Numbered /\ Conveyed

LEMMA EofIsNoFill == <<Eof>> \notin Fill
BY PipelineAssumption DEF Fill, Eof

LEMMA PrefixByElements ==
    ASSUME NEW S, NEW s \in Seq(S), NEW t \in Seq(S), Len(s) <= Len(t),
           \A i \in 1..Len(s) : s[i] = t[i]
    PROVE  IsPrefix(s, t)
<1>1. SubSeq(s, 1, Len(s)) = SubSeq(t, 1, Len(s))
  OBVIOUS
<1> QED
  BY <1>1 DEF IsPrefix

LEMMA Joins ==
    ASSUME NEW S, NEW s \in Seq(S), NEW t \in Seq(S)
    PROVE  /\ Len(s \o t) = Len(s) + Len(t)
           /\ \A i \in 1..Len(s) : (s \o t)[i] = s[i]
           /\ \A i \in 1..Len(t) : (s \o t)[Len(s) + i] = t[i]
OBVIOUS

LEMMA Regroups ==
    ASSUME NEW S, NEW s \in Seq(S), NEW t \in Seq(S), NEW u \in Seq(S)
    PROVE  s \o t \in Seq(S) /\ (s \o t) \o u = s \o (t \o u)
OBVIOUS

Assoc(S, s, t, u) == (s \o t) \o u = s \o (t \o u)

LEMMA Associates ==
    ASSUME NEW S, NEW s \in Seq(S), NEW t \in Seq(S), NEW u \in Seq(S)
    PROVE  Assoc(S, s, t, u)
BY DEF Assoc

LEMMA AppendJoins ==
    ASSUME NEW S, NEW s \in Seq(S), NEW e \in S, NEW u \in Seq(S)
    PROVE  Append(s, e) \o u = s \o (<<e>> \o u)
OBVIOUS

LEMMA SameElements ==
    ASSUME NEW S, NEW s \in Seq(S), NEW t \in Seq(S), Len(s) = Len(t),
           \A i \in 1..Len(s) : s[i] = t[i]
    PROVE  s = t
OBVIOUS

(* Pushing what comes next, or digesting it, changes nothing of the whole. *)
LEMMA MovesKeepTheWhole ==
    ASSUME NEW d \in Seq(Pushed), NEW q \in Seq(Pushed), NEW p \in Seq(Pushed)
    PROVE  /\ p # << >> => d \o (Append(q, Head(p)) \o Tail(p)) = d \o (q \o p)
           /\ q # << >> => Append(d, Head(q)) \o (Tail(q) \o p) = d \o (q \o p)
<1>1. ASSUME p # << >> PROVE Append(q, Head(p)) \o Tail(p) = q \o p
  <2>1. Head(p) \in Pushed /\ Tail(p) \in Seq(Pushed) /\ p = <<Head(p)>> \o Tail(p)
    BY <1>1
  <2> QED
    BY <2>1
<1>2. ASSUME q # << >>
      PROVE  Append(d, Head(q)) \o (Tail(q) \o p) = d \o (q \o p)
  <2>0. Head(q) \in Pushed /\ Tail(q) \in Seq(Pushed)
    BY <1>2
  <2>1. PICK h \in Pushed, t \in Seq(Pushed) : h = Head(q) /\ t = Tail(q)
    BY <2>0
  <2>2. q = <<h>> \o t
    BY <1>2, <2>1
  <2>3. Append(d, h) \o (t \o p) = d \o ((<<h>> \o t) \o p)
    <3>1. <<h>> \in Seq(Pushed)
      OBVIOUS
    <3>2. t \o p \in Seq(Pushed) /\ (<<h>> \o t) \o p = <<h>> \o (t \o p)
      BY <3>1, Regroups
    <3>3. PICK r \in Seq(Pushed) : r = t \o p
      BY <3>2
    <3>4. Append(d, h) \o r = d \o (<<h>> \o r)
      BY AppendJoins
    <3> QED
      BY <3>2, <3>3, <3>4
  <2> QED
    BY <2>1, <2>2, <2>3
<1> QED
  BY <1>1, <1>2

(* An eof that comes up in ring2 is the last thing there is. *)
LEMMA EofComesLast ==
    ASSUME NEW d \in Seq(Fill), NEW f \in Seq(Fill),
           NEW q \in Seq(Pushed), NEW p \in Seq(Pushed),
           d \o (q \o p) = Append(f, <<Eof>>)
    PROVE  /\ IsPrefix(d, f)
           /\ q # << >> /\ Head(q) = <<Eof>> => d = f /\ p = << >>
<1> DEFINE whole == d \o (q \o p)
<1>1. /\ d \in Seq(Pushed) /\ f \in Seq(Pushed) /\ q \o p \in Seq(Pushed)
      /\ Len(q \o p) = Len(q) + Len(p)
  BY DEF Pushed
<1>2. /\ Len(whole) = Len(d) + (Len(q) + Len(p)) /\ Len(whole) = Len(f) + 1
      /\ \A i \in 1..Len(d) : whole[i] = d[i]
      /\ \A i \in 1..Len(f) : whole[i] = f[i]
      /\ whole[Len(f) + 1] = <<Eof>>
  <2>1. whole = Append(f, <<Eof>>)
    OBVIOUS
  <2>2. /\ Len(whole) = Len(d) + Len(q \o p)
        /\ \A i \in 1..Len(d) : whole[i] = d[i]
    BY <1>1, Joins DEF whole
  <2>3. <<Eof>> \in Pushed
    BY DEF Pushed
  <2>4. LET w == Append(f, <<Eof>>) IN
        /\ Len(w) = Len(f) + 1
        /\ \A i \in 1..Len(f) : w[i] = f[i]
        /\ w[Len(f) + 1] = <<Eof>>
    BY <1>1, <2>3
  <2> QED
    BY <1>1, <2>1, <2>2, <2>4
<1> HIDE DEF whole
<1>3. Len(d) <= Len(f)
  <2> SUFFICES ASSUME Len(d) > Len(f) PROVE FALSE
    OBVIOUS
  <2>1. Len(f) + 1 \in 1..Len(d)
    OBVIOUS
  <2>2. d[Len(f) + 1] = <<Eof>> /\ d[Len(f) + 1] \in Fill
    BY <1>2, <2>1
  <2> QED
    BY <2>2, EofIsNoFill
<1>4. IsPrefix(d, f)
  <2>1. \A i \in 1..Len(d) : d[i] = f[i]
    BY <1>2, <1>3
  <2> QED
    BY <1>3, <2>1, PrefixByElements
<1>5. ASSUME q # << >>, Head(q) = <<Eof>>
      PROVE  d = f /\ p = << >>
  <2>1. Len(q) >= 1 /\ q[1] = <<Eof>>
    BY <1>5
  <2>2. whole[Len(d) + 1] = <<Eof>>
    <3>1. (q \o p)[1] = q[1]
      BY <2>1
    <3>2. 1 \in 1..Len(q \o p)
      BY <1>1, <2>1
    <3>3. whole[Len(d) + 1] = (q \o p)[1]
      <4>1. PICK r \in Seq(Pushed) : r = q \o p
        BY <1>1
      <4>2. \A i \in 1..Len(r) : (d \o r)[Len(d) + i] = r[i]
        BY <1>1, Joins
      <4> QED
        BY <3>2, <4>1, <4>2 DEF whole
    <3> QED
      BY <2>1, <3>1, <3>3
  <2>3. Len(d) = Len(f)
    <3> SUFFICES ASSUME Len(d) # Len(f) PROVE FALSE
      OBVIOUS
    <3>1. Len(d) + 1 \in 1..Len(f)
      BY <1>3
    <3>2. f[Len(d) + 1] = <<Eof>> /\ f[Len(d) + 1] \in Fill
      BY <1>2, <2>2, <3>1
    <3> QED
      BY <3>2, EofIsNoFill
  <2>4. d = f
    <3>1. \A i \in 1..Len(d) : d[i] = f[i]
      BY <1>2, <2>3
    <3>2. d \in Seq(Pushed) /\ f \in Seq(Pushed)
      BY <1>1
    <3> QED
      BY <2>3, <3>1, <3>2, SameElements
  <2>5. Len(p) = 0
    BY <1>2, <2>1, <2>3
  <2> QED
    BY <2>4, <2>5
<1> QED
  BY <1>4, <1>5

-----------------------------------------------------------------------------
LEMMA InitHolds == Init => PipelineInv
<1> SUFFICES ASSUME Init PROVE PipelineInv
  OBVIOUS
<1> USE PipelineAssumption
<1>1. /\ fills \in [1..Events -> 0..MaxFills] /\ fed = 0 /\ "feed" \in running
      /\ "gateway" \in running /\ queue1 = << >> /\ taken1 = << >>
      /\ pending = << >> /\ queue2 = << >> /\ digested = << >>
  BY DEF Init, Ring1!Init, Ring2!Init
<1>2. Numbered
  BY <1>1 DEF Numbered, Sent
<1>3. Conveyed
  <2>1. PICK g : Yields(g, fills, Events)
    BY <1>1, YieldsExist
  <2>2. g[0] = << >> /\ << >> \o (<< >> \o << >>) = << >> /\ Len(<< >>) = 0
    BY <2>1 DEF Yields
  <2>3. Carries(g, 0, << >>, << >>, << >>, running)
    BY <1>1, <2>2 DEF Carries
  <2> QED
    BY <1>1, <2>1, <2>2, <2>3 DEF Conveyed
<1> QED
  BY <1>1, <1>2, <1>3 DEF PipelineInv

(* The ring1 side of a step. *)
LEMMA NumberedHolds == PipelineInv /\ [Next]_vars => Numbered'
<1> SUFFICES ASSUME PipelineInv, [Next]_vars PROVE Numbered'
  OBVIOUS
<1> USE PipelineAssumption
<1>0. Events \in Nat /\ Numbered
  BY DEF PipelineInv
<1>1. PICK q \in Seq(0..Events), t \in Seq(0..Events), n \in Nat :
         /\ q = queue1 /\ t = taken1 /\ n = fed /\ n <= Events
         /\ Len(t) + Len(q) = Sent
         /\ \A i \in 1..Len(q) : q[i] = Msg(Len(t) + i)
  BY <1>0 DEF Numbered
<1>2. CASE FeedEvent
  <2>1. /\ queue1' = Append(q, n + 1) /\ taken1' = t /\ fed' = n + 1
        /\ n < Events /\ "feed" \in running /\ running' = running
    BY <1>1, <1>2 DEF FeedEvent, Ring1!Put
  <2>2. n + 1 \in 0..Events /\ Len(t) + Len(q) = n
    BY <1>1, <2>1 DEF Sent
  <2>3. Append(q, n + 1) \in Seq(0..Events) /\ Len(Append(q, n + 1)) = Len(q) + 1
    BY <2>2
  <2>4. ASSUME NEW i \in 1..(Len(q) + 1)
        PROVE  Append(q, n + 1)[i] = Msg(Len(t) + i)
    <3>1. CASE i = Len(q) + 1
      <4>1. Len(t) + i = n + 1 /\ Append(q, n + 1)[i] = n + 1
        BY <2>2, <3>1
      <4>2. Msg(n + 1) = n + 1
        <5>1. n + 1 <= Events
          BY <1>0, <1>1, <2>1
        <5> QED
          BY <5>1 DEF Msg
      <4> QED
        BY <4>1, <4>2
    <3>2. CASE i # Len(q) + 1
      <4>1. i \in 1..Len(q)
        <5>1. Len(q) \in Nat
          OBVIOUS
        <5> QED
          BY <3>2, <5>1
      <4>2. Append(q, n + 1)[i] = q[i]
        BY <4>1
      <4>3. q[i] = Msg(Len(t) + i)
        BY <1>1, <4>1
      <4> QED
        BY <4>2, <4>3
    <3> QED
      BY <3>1, <3>2
  <2> QED
    BY <1>1, <2>1, <2>2, <2>3, <2>4 DEF Numbered, Sent
<1>3. CASE FeedEof
  <2>1. /\ queue1' = Append(q, Eof) /\ taken1' = t /\ fed' = n
        /\ n = Events /\ "feed" \in running /\ running' = running \ {"feed"}
    BY <1>1, <1>3 DEF FeedEof, Ring1!Put
  <2>2. Eof \in 0..Events /\ Len(t) + Len(q) = Events
    BY <1>1, <2>1 DEF Sent, Eof
  <2>3. Append(q, Eof) \in Seq(0..Events) /\ Len(Append(q, Eof)) = Len(q) + 1
    BY <2>2
  <2>4. ASSUME NEW i \in 1..(Len(q) + 1)
        PROVE  Append(q, Eof)[i] = Msg(Len(t) + i)
    <3>1. CASE i = Len(q) + 1
      BY <2>1, <2>2, <3>1 DEF Msg
    <3>2. CASE i # Len(q) + 1
      BY <1>1, <3>2
    <3> QED
      BY <3>1, <3>2
  <2> QED
    BY <1>1, <2>1, <2>2, <2>3, <2>4 DEF Numbered, Sent
<1>4. CASE StrategyTake
  <2>1. /\ queue1' = Tail(q) /\ taken1' = Append(t, Head(q)) /\ q # << >>
        /\ fed' = n /\ running' = running
    BY <1>1, <1>4 DEF StrategyTake, Ring1!Take
  <2>2. /\ Tail(q) \in Seq(0..Events) /\ Head(q) \in 0..Events
        /\ Len(Tail(q)) = Len(q) - 1 /\ Len(q) >= 1
        /\ \A i \in 1..(Len(q) - 1) : Tail(q)[i] = q[i + 1]
    BY <2>1
  <2>3. Append(t, Head(q)) \in Seq(0..Events) /\ Len(Append(t, Head(q))) = Len(t) + 1
    BY <2>2
  <2>4. \A i \in 1..(Len(q) - 1) : Tail(q)[i] = Msg((Len(t) + 1) + i)
    <3> SUFFICES ASSUME NEW i \in 1..(Len(q) - 1)
                 PROVE  Tail(q)[i] = Msg((Len(t) + 1) + i)
      OBVIOUS
    <3>1. i + 1 \in 1..Len(q) /\ (Len(t) + 1) + i = Len(t) + (i + 1)
      OBVIOUS
    <3> QED
      BY <1>1, <2>2, <3>1
  <2>5. Len(taken1') + Len(queue1') = Sent'
    <3>1. Sent' = Sent
      BY <1>1, <2>1 DEF Sent
    <3>2. Len(taken1') + Len(queue1') = Len(t) + Len(q)
      BY <2>1, <2>2, <2>3
    <3> QED
      BY <1>1, <3>1, <3>2
  <2>6. \A i \in 1..Len(queue1') : queue1'[i] = Msg(Len(taken1') + i)
    BY <2>1, <2>2, <2>3, <2>4
  <2>7. "feed" \notin running' => fed' = Events
    BY <1>0, <1>1, <2>1 DEF Numbered
  <2>8. fed' \in 0..Events /\ queue1' \in Seq(0..Events) /\ taken1' \in Seq(0..Events)
    BY <1>1, <2>1, <2>2, <2>3
  <2> QED
    BY <2>5, <2>6, <2>7, <2>8 DEF Numbered
<1>5. CASE UNCHANGED <<fed, queue1, taken1>> /\ ("feed" \in running <=> "feed" \in running')
  BY <1>0, <1>5 DEF Numbered, Sent
<1>6. StrategyEmit \/ GatewayTake \/ Spin \/ Joined \/ UNCHANGED vars =>
         UNCHANGED <<fed, queue1, taken1>> /\ ("feed" \in running <=> "feed" \in running')
  BY DEF StrategyEmit, GatewayTake, Spin, Joined, vars
<1> QED
  BY <1>2, <1>3, <1>4, <1>5, <1>6 DEF Next

(* The ring2 side. *)
LEMMA ConveyedHolds == PipelineInv /\ [Next]_vars => fills' = fills /\ Conveyed'
<1> SUFFICES ASSUME PipelineInv, [Next]_vars PROVE fills' = fills /\ Conveyed'
  OBVIOUS
<1> USE PipelineAssumption
<1>0. /\ Events \in Nat /\ fills \in [1..Events -> 0..MaxFills]
      /\ Numbered /\ Conveyed
  BY DEF PipelineInv
<1>1. fills' = fills
  BY DEF Next, FeedEvent, FeedEof, StrategyTake, StrategyEmit, GatewayTake,
         Spin, Joined, vars
<1>2. PICK g : /\ Yields(g, fills, Events)
               /\ Carries(g, Len(taken1), digested, queue2, pending, running)
  BY <1>0 DEF Conveyed
<1>3. PICK y : y = fills
  OBVIOUS
<1>4. /\ digested \in Seq(Fill) /\ queue2 \in Seq(Pushed) /\ pending \in Seq(Pushed)
      /\ Len(taken1) \in Nat
  BY <1>0, <1>2 DEF Carries, Numbered
<1>5. PICK d \in Seq(Fill), q \in Seq(Pushed), p \in Seq(Pushed), k \in Nat :
         d = digested /\ q = queue2 /\ p = pending /\ k = Len(taken1)
  BY <1>4
<1>6. PICK r : r = running
  OBVIOUS
<1>7. /\ y \in [1..Events -> 0..MaxFills] /\ Yields(g, y, Events)
      /\ Carries(g, k, d, q, p, r)
  BY <1>0, <1>2, <1>3, <1>5, <1>6
<1>8. SUFFICES Carries(g, Len(taken1'), digested', queue2', pending', running')
  BY <1>1, <1>2, <1>8 DEF Conveyed
<1>9. /\ d \in Seq(Pushed) /\ \A e \in 0..Events : g[e] \in Seq(Fill)
      /\ k <= Events + 1
  <2>1. k <= Events + 1
    BY <1>0, <1>5 DEF Numbered, Sent
  <2> QED
    BY <1>7, <2>1 DEF Pushed, Yields
<1>10. CASE FeedEvent \/ FeedEof \/ Spin \/ Joined \/ UNCHANGED vars
  <2>1. /\ taken1' = taken1 /\ digested' = d /\ queue2' = q /\ pending' = p
        /\ "gateway" \in running' <=> "gateway" \in r
    BY <1>5, <1>6, <1>10
       DEF FeedEvent, FeedEof, Spin, Joined, vars, Ring1!Put
  <2> QED
    BY <1>5, <1>7, <2>1 DEF Carries
<1>11. CASE StrategyTake
  <2> DEFINE m == Msg(k + 1)
  <2>1. /\ taken1' = Append(taken1, Head(queue1)) /\ queue1 # << >>
        /\ digested' = d /\ queue2' = q /\ p = << >> /\ pending' = Answer(Head(queue1))
        /\ running' = r
    BY <1>5, <1>6, <1>11 DEF StrategyTake, Ring1!Take
  <2>2. Head(queue1) = m /\ Len(queue1) >= 1
    <3>1. Len(queue1) >= 1 /\ Head(queue1) = queue1[1] /\ 1 \in 1..Len(queue1)
      BY <1>0, <2>1 DEF Numbered
    <3> QED
      BY <1>0, <1>5, <3>1 DEF Numbered
  <2>3. Len(taken1') = k + 1 /\ k + 1 <= Events + 1
    BY <1>0, <1>5, <2>1, <2>2 DEF Numbered, Sent
  <2>4. "gateway" \in r /\ g[k] = d \o q
    <3>1. d \o (q \o p) = d \o q
      BY <2>1
    <3> QED
      BY <1>7, <2>3, <3>1 DEF Carries
  <2>5. CASE k < Events
    <3>1. m = k + 1 /\ k + 1 # Eof /\ k + 1 \in 1..Events
      BY <2>5 DEF Msg, Eof
    <3>2. PICK new : new = FillsAt(y, k + 1)
      OBVIOUS
    <3>3. new \in Seq(Fill)
      BY <1>7, <3>1, <3>2, FillsAreFills
    <3>4. pending' = new
      BY <1>3, <2>1, <2>2, <3>1, <3>2 DEF Answer, FillsOf, FillsAt
    <3>5. g[k + 1] = g[k] \o new
      <4>1. (k + 1) - 1 = k
        OBVIOUS
      <4> QED
        BY <1>7, <3>1, <3>2, <4>1 DEF Yields
    <3>6. (d \o q) \o new = d \o (q \o new) /\ new \in Seq(Pushed)
      BY <1>9, <3>3 DEF Pushed
    <3>7. d \o (q \o new) = g[k + 1] /\ new \in Seq(Pushed) /\ k + 1 # Events + 1
      BY <2>4, <2>5, <3>5, <3>6
    <3> QED
      BY <1>7, <2>1, <2>3, <2>4, <3>4, <3>7 DEF Carries
  <2>6. CASE k = Events
    <3>1. m = Eof
      BY <2>6 DEF Msg
    <3>2. pending' = << <<Eof>> >> /\ <<Eof>> \in Pushed
      BY <2>1, <2>2, <3>1 DEF Answer, Pushed
    <3>3. d \o (q \o << <<Eof>> >>) = Append(d \o q, <<Eof>>)
      BY <1>9, <3>2
    <3>4. pending' \in Seq(Pushed)
      BY <3>2
    <3>5. d \o (q \o pending') = Append(g[Events], <<Eof>>)
      <4>1. Append(d \o q, <<Eof>>) = Append(g[Events], <<Eof>>)
        BY <2>4, <2>6
      <4> QED
        BY <3>2, <3>3, <4>1
    <3>6. ~(k + 1 <= Events)
      BY <1>0, <2>6
    <3> QED
      BY <1>7, <2>1, <2>3, <2>4, <2>6, <3>4, <3>5, <3>6 DEF Carries
  <2> QED
    BY <2>3, <2>5, <2>6
<1>12. CASE StrategyEmit
  <2>1. /\ taken1' = taken1 /\ digested' = d /\ p # << >>
        /\ queue2' = Append(q, Head(p)) /\ pending' = Tail(p)
        /\ "gateway" \in running' <=> "gateway" \in r
    BY <1>5, <1>6, <1>12 DEF StrategyEmit, Ring2!Put
  <2>2. /\ Head(p) \in Pushed /\ Tail(p) \in Seq(Pushed)
        /\ Append(q, Head(p)) \in Seq(Pushed)
    BY <2>1
  <2>3. d \o (Append(q, Head(p)) \o Tail(p)) = d \o (q \o p)
    BY <1>9, <2>1, MovesKeepTheWhole
  <2> QED
    BY <1>5, <1>7, <2>1, <2>2, <2>3 DEF Carries
<1>13. CASE GatewayTake
  <2>1. /\ taken1' = taken1 /\ pending' = p /\ q # << >> /\ queue2' = Tail(q)
        /\ "gateway" \in r
    BY <1>5, <1>6, <1>13 DEF GatewayTake, Ring2!Take
  <2>2. Head(q) \in Pushed /\ Tail(q) \in Seq(Pushed)
    BY <2>1
  <2>3. CASE Head(q) = <<Eof>>
    <3>1. digested' = d /\ "gateway" \notin running'
      BY <1>5, <1>13, <2>3 DEF GatewayTake
    <3>2. k = Events + 1
      <4> SUFFICES ASSUME k <= Events PROVE FALSE
        BY <1>9
      <4>1. d \o (q \o p) \in Seq(Fill)
        <5>1. k \in 0..Events
          OBVIOUS
        <5>2. d \o (q \o p) = g[k]
          BY <1>7, <5>1 DEF Carries
        <5> QED
          BY <1>9, <5>1, <5>2
      <4>2. (d \o (q \o p))[Len(d) + 1] = <<Eof>>
        <5>1. (q \o p)[1] = Head(q) /\ q \o p \in Seq(Pushed) /\ 1 \in 1..Len(q \o p)
          BY <2>1
        <5>2. PICK s \in Seq(Pushed) : s = q \o p
          BY <5>1
        <5>3. \A i \in 1..Len(s) : (d \o s)[Len(d) + i] = s[i]
          BY <1>9, Joins
        <5> QED
          BY <2>3, <5>1, <5>2, <5>3
      <4>3. Len(d) + 1 \in 1..Len(d \o (q \o p))
        <5>1. Len(q \o p) >= 1 /\ q \o p \in Seq(Pushed)
          BY <2>1
        <5>2. Len(d \o (q \o p)) = Len(d) + Len(q \o p)
          BY <1>9, <5>1, Joins
        <5> QED
          BY <5>1, <5>2
      <4>4. \A s \in Seq(Fill) : \A i \in 1..Len(s) : s[i] \in Fill
        OBVIOUS
      <4>5. (d \o (q \o p))[Len(d) + 1] \in Fill
        BY <4>1, <4>3, <4>4
      <4> QED
        BY <4>2, <4>5, EofIsNoFill
    <3>3. d \o (q \o p) = Append(g[Events], <<Eof>>)
      BY <1>7, <2>1, <3>2 DEF Carries
    <3>4. d = g[Events] /\ p = << >>
      <4>1. PICK f \in Seq(Fill) : f = g[Events]
        BY <1>9
      <4> QED
        BY <2>1, <2>3, <3>3, <4>1, EofComesLast
    <3> QED
      BY <1>5, <2>1, <2>2, <3>1, <3>2, <3>4 DEF Carries
  <2>4. CASE Head(q) # <<Eof>>
    <3>1. digested' = Append(d, Head(q)) /\ running' = r
      BY <1>5, <1>6, <1>13, <2>4 DEF GatewayTake, Feed
    <3>2. Append(d, Head(q)) \in Seq(Fill)
      BY <2>2, <2>4 DEF Pushed
    <3>3. Append(d, Head(q)) \o (Tail(q) \o p) = d \o (q \o p)
      BY <1>9, <2>1, MovesKeepTheWhole
    <3> QED
      BY <1>5, <1>7, <2>1, <2>2, <3>1, <3>2, <3>3 DEF Carries
  <2> QED
    BY <2>3, <2>4
<1> QED
  BY <1>10, <1>11, <1>12, <1>13 DEF Next

(* Conveyed is all there is to SameFills. *)
LEMMA ConveyedIsSame == PipelineInv => SameFills
<1> SUFFICES ASSUME PipelineInv PROVE SameFills
  OBVIOUS
<1> USE PipelineAssumption
<1>0. Events \in Nat /\ fills \in [1..Events -> 0..MaxFills] /\ Numbered
  BY DEF PipelineInv
<1>1. PICK g : /\ Yields(g, fills, Events)
               /\ Carries(g, Len(taken1), digested, queue2, pending, running)
  BY DEF PipelineInv, Conveyed
<1>2. SingleThreaded = g[Events]
  BY <1>0, <1>1, FlattenYields DEF SingleThreaded, FillsOf, FillsAt
<1>3. \A e \in 0..Events : g[e] \in Seq(Fill)
  BY <1>1 DEF Yields
<1>4. PICK d \in Seq(Fill), q \in Seq(Pushed), p \in Seq(Pushed), f \in Seq(Fill) :
         d = digested /\ q = queue2 /\ p = pending /\ f = g[Events]
  BY <1>1, <1>3 DEF Carries
<1>5. PICK k \in 0..(Events + 1) : k = Len(taken1)
  BY <1>0 DEF Numbered, Sent
<1>6. SUFFICES IsPrefix(d, f) /\ ("gateway" \notin running => d = f)
  BY <1>2, <1>4 DEF SameFills, Same
<1>7. CASE k <= Events
  <2>1. "gateway" \in running /\ d \o (q \o p) = g[k]
    BY <1>1, <1>4, <1>5, <1>7 DEF Carries
  <2>2. PICK rest \in Seq(Fill) : f = g[k] \o rest
    <3>1. k \in 0..Events
      BY <1>5, <1>7
    <3>2. \E rest \in Seq(Fill) : g[Events] = g[k] \o rest
      BY <1>0, <1>1, <3>1, YieldsGrow
    <3> QED
      BY <1>4, <3>2
  <2>3. PICK s \in Seq(Pushed) : s = (q \o p) \o rest
    <3>1. rest \in Seq(Pushed) /\ q \o p \in Seq(Pushed)
      BY DEF Pushed
    <3>2. (q \o p) \o rest \in Seq(Pushed)
      BY <3>1, Regroups
    <3> QED
      BY <3>2
  <2>4. f = d \o s /\ d \in Seq(Pushed) /\ f \in Seq(Pushed)
    <3>1. d \in Seq(Pushed) /\ rest \in Seq(Pushed) /\ f \in Seq(Pushed)
      BY DEF Pushed
    <3>2. q \o p \in Seq(Pushed)
      BY Regroups
    <3>3. PICK r \in Seq(Pushed) : r = q \o p
      BY <3>2
    <3>4. (d \o r) \o rest = d \o (r \o rest)
      <4>1. d \in Seq(Pushed) /\ rest \in Seq(Pushed)
        BY <3>1
      <4>2. Assoc(Pushed, d, r, rest)
        BY <4>1, Associates
      <4> QED
        BY <4>2 DEF Assoc
    <3> QED
      BY <2>1, <2>2, <2>3, <3>1, <3>3, <3>4
  <2>5. Len(d) <= Len(f) /\ \A i \in 1..Len(d) : d[i] = f[i]
    BY <2>4, Joins
  <2> QED
    BY <2>1, <2>4, <2>5, PrefixByElements
<1>8. CASE k = Events + 1 /\ "gateway" \in running
  <2>1. d \o (q \o p) = Append(f, <<Eof>>)
    BY <1>1, <1>4, <1>5, <1>8 DEF Carries
  <2> QED
    BY <1>8, <2>1, EofComesLast
<1>9. CASE k = Events + 1 /\ "gateway" \notin running
  <2>1. d = f
    BY <1>1, <1>4, <1>5, <1>9 DEF Carries
  <2> QED
    BY <2>1, PrefixByElements
<1> QED
  BY <1>0, <1>5, <1>7, <1>8, <1>9

(* However the three threads interleave, and however full or empty the rings    *)
(* run, the gateway of run_pipelined digests the fills of run_single, in order, *)
(* and returns only when it has digested all of them: "identical digests mean   *)
(* the lock-free handoff changed nothing" (src/pipeline.cpp).                   *)
THEOREM HandoffChangesNothing == Spec => []SameFills
<1>1. PipelineInv /\ [Next]_vars => PipelineInv'
  BY NumberedHolds, ConveyedHolds DEF PipelineInv
<1> QED
  BY InitHolds, <1>1, ConveyedIsSame, PTL DEF Spec

-----------------------------------------------------------------------------
(* The hash map. *)
Limit == (TableSize * 7) \div 10

-----------------------------------------------------------------------------
(* The circle of slots. *)

(* x is on the way from a to b, b itself excluded. *)
OnWay(a, x, b) == IF a <= b THEN a <= x /\ x < b ELSE a <= x \/ x < b

(* x is in the stretch from a to b, both included. *)
Within(a, x, b) == OnWay(a, x, b) \/ x = b

Following(i) == IF i + 1 = TableSize THEN 0 ELSE i + 1

LEMMA AfterIs ==
    ASSUME NEW i \in Index, NEW n \in Index
    PROVE  /\ After(i, n) \in Index
           /\ After(i, n) = IF i + n < TableSize THEN i + n ELSE (i + n) - TableSize
<1> USE TableAssumption
<1>1. CASE i + n < TableSize
  BY <1>1 DEF After, Index
<1>2. CASE i + n >= TableSize
  <2>1. PICK r \in 0..(TableSize - 1) : i + n = TableSize + r
    BY <1>2 DEF Index
  <2>2. (TableSize + r) % TableSize = r
    OBVIOUS
  <2> QED
    BY <1>2, <2>1, <2>2 DEF After, Index
<1> QED
  BY <1>1, <1>2 DEF Index

LEMMA Distance ==
    ASSUME NEW a \in Index, NEW b \in Index
    PROVE  \E n \in Index : After(a, n) = b
<1> DEFINE n == IF b >= a THEN b - a ELSE (b - a) + TableSize
<1>1. n \in Index
  BY TableAssumption DEF Index
<1>2. After(a, n) = IF a + n < TableSize THEN a + n ELSE (a + n) - TableSize
  BY <1>1, AfterIs
<1>3. After(a, n) = b
  BY <1>2, TableAssumption DEF Index
<1> QED
  BY <1>1, <1>3

(* What is nearer is on the way to what is farther. *)
LEMMA NearerOnWay ==
    ASSUME NEW a \in Index, NEW m \in Index, NEW n \in Index
    PROVE  OnWay(a, After(a, m), After(a, n)) <=> m < n
<1>1. PICK C \in Nat, x \in Nat : C = TableSize /\ x = a /\ x < C /\ m < C /\ n < C
  BY TableAssumption DEF Index
<1>2. /\ After(a, m) = IF x + m < C THEN x + m ELSE (x + m) - C
      /\ After(a, n) = IF x + n < C THEN x + n ELSE (x + n) - C
  BY <1>1, AfterIs
<1> QED
  BY <1>1, <1>2 DEF OnWay, Index

LEMMA NextAfter ==
    ASSUME NEW a \in Index, NEW n \in Index, n + 1 \in Index
    PROVE  After(a, n + 1) = Following(After(a, n))
<1>1. PICK C \in Nat, x \in Nat : C = TableSize /\ x = a /\ x < C /\ n + 1 < C
  BY TableAssumption DEF Index
<1>2. /\ After(a, n) = IF x + n < C THEN x + n ELSE (x + n) - C
      /\ After(a, n + 1) = IF x + n + 1 < C THEN x + n + 1 ELSE (x + n + 1) - C
  BY <1>1, AfterIs
<1> QED
  BY <1>1, <1>2 DEF Following, Index

-----------------------------------------------------------------------------
(* A table s, and the homes h of the keys. *)

Entry == [key : Keys \cup {kEmpty}, value : Values \cup {kEmpty}]
Tables == [Index -> Entry]
Used(s) == {i \in Index : s[i].key # kEmpty}
Once(s) == \A i, j \in Used(s) : s[i].key = s[j].key => i = j
Reached(s, h) ==
    \A i \in Used(s) : \A x \in Index : OnWay(h[s[i].key], x, i) => x \in Used(s)
Holds(s, k, v) == \E i \in Used(s) : s[i].key = k /\ s[i].value = v

Sound(s, h) == s \in Tables /\ Once(s) /\ Reached(s, h)

TableInv == /\ home \in [Keys -> Index] /\ Sound(slots, home)
            /\ size = Cardinality(Used(slots)) /\ size <= Limit

LEMMA IndexFinite == IsFiniteSet(Index) /\ Cardinality(Index) = TableSize
BY FS_Interval, TableAssumption DEF Index

LEMMA UsedFinite ==
    ASSUME NEW s
    PROVE  /\ IsFiniteSet(Used(s)) /\ Cardinality(Used(s)) \in Nat
           /\ Cardinality(Used(s)) <= Limit => \E e \in Index : s[e].key = kEmpty
<1>1. IsFiniteSet(Used(s)) /\ Cardinality(Used(s)) \in Nat
  BY IndexFinite, FS_Subset, FS_CardinalityType DEF Used
<1>2. ASSUME Cardinality(Used(s)) <= Limit PROVE \E e \in Index : s[e].key = kEmpty
  <2> SUFFICES ASSUME \A e \in Index : s[e].key # kEmpty PROVE FALSE
    OBVIOUS
  <2>1. Used(s) = Index
    BY DEF Used
  <2>2. Limit < TableSize
    BY TableAssumption DEF Limit
  <2> QED
    BY <1>2, <2>1, <2>2, IndexFinite, TableAssumption DEF Limit
<1> QED
  BY <1>1, <1>2

(* Where the probe of a key ends that starts at a. *)
ProbeFrom(s, a, key) ==
    After(a, Min({n \in Index : s[After(a, n)].key \in {key, kEmpty}}))

LEMMA ProbeEnds ==
    ASSUME NEW s, NEW a \in Index, NEW key, NEW e \in Index, s[e].key = kEmpty
    PROVE  /\ ProbeFrom(s, a, key) \in Index
           /\ s[ProbeFrom(s, a, key)].key \in {key, kEmpty}
           /\ \A x \in Index : OnWay(a, x, ProbeFrom(s, a, key)) =>
                                   s[x].key \notin {key, kEmpty}
<1> DEFINE N == {n \in Index : s[After(a, n)].key \in {key, kEmpty}}
<1>1. PICK m \in Index : After(a, m) = e
  BY Distance
<1>2. N # {} /\ N \in SUBSET Nat /\ N \in SUBSET Index
  BY <1>1 DEF Index
<1>3. \E n \in N : \A k \in N : n <= k
  <2> HIDE DEF N
  <2> QED
    BY <1>2, LeastNat
<1>4. Min(N) \in N /\ \A k \in N : Min(N) <= k
  <2> HIDE DEF N
  <2> QED
    BY <1>3 DEF Min
<1>5. PICK n \in Index : n = Min(N)
  BY <1>4
<1>6. ProbeFrom(s, a, key) = After(a, n)
  BY <1>5 DEF ProbeFrom
<1>7. ASSUME NEW x \in Index, OnWay(a, x, After(a, n))
      PROVE  s[x].key \notin {key, kEmpty}
  <2>1. PICK k \in Index : After(a, k) = x
    BY Distance
  <2>2. k < n
    BY <1>7, <2>1, NearerOnWay
  <2>3. k \notin N
    BY <1>4, <1>5, <2>2 DEF Index
  <2> QED
    BY <2>1, <2>3
<1> QED
  BY <1>4, <1>5, <1>6, <1>7, AfterIs

LEMMA OneWayOrOther ==
    ASSUME NEW a \in Index, NEW i \in Index, NEW p \in Index, i # p
    PROVE  OnWay(a, p, i) \/ OnWay(a, i, p)
BY TableAssumption DEF OnWay, Index

(* In a sound table the probe of a key that is there ends at it. *)
LEMMA ProbeFinds ==
    ASSUME NEW s, NEW h, h \in [Keys -> Index], Sound(s, h),
           NEW e \in Index, s[e].key = kEmpty, NEW i \in Used(s)
    PROVE  ProbeFrom(s, h[s[i].key], s[i].key) = i
<1> DEFINE key == s[i].key
           p == ProbeFrom(s, h[key], key)
<1>1. key \in Keys /\ h[key] \in Index /\ i \in Index
  BY DEF Sound, Tables, Entry, Used
<1>2. /\ p \in Index /\ s[p].key \in {key, kEmpty}
      /\ \A x \in Index : OnWay(h[key], x, p) => s[x].key \notin {key, kEmpty}
  BY <1>1, ProbeEnds
<1> HIDE DEF p
<1>3. ASSUME p # i PROVE FALSE
  <2>1. ~OnWay(h[key], i, p)
    BY <1>1, <1>2
  <2>2. OnWay(h[key], p, i)
    BY <1>1, <1>2, <1>3, <2>1, OneWayOrOther
  <2>3. p \in Used(s)
    BY <1>2, <2>2 DEF Sound, Reached
  <2>4. s[p].key = s[i].key
    BY <1>2, <2>3 DEF Used
  <2> QED
    BY <1>3, <2>3, <2>4 DEF Sound, Once
<1> QED
  BY <1>3 DEF p

(* ... and the probe of another ends at an empty slot it could be put into. *)
LEMMA ProbeMisses ==
    ASSUME NEW s, NEW h, NEW key \in Keys, h \in [Keys -> Index], s \in Tables,
           NEW e \in Index, s[e].key = kEmpty,
           \A i \in Used(s) : s[i].key # key
    PROVE  LET p == ProbeFrom(s, h[key], key) IN
           /\ p \in Index /\ p \notin Used(s)
           /\ \A x \in Index : OnWay(h[key], x, p) => x \in Used(s)
<1> DEFINE p == ProbeFrom(s, h[key], key)
<1>1. /\ p \in Index /\ s[p].key \in {key, kEmpty}
      /\ \A x \in Index : OnWay(h[key], x, p) => s[x].key \notin {key, kEmpty}
  BY ProbeEnds
<1> HIDE DEF p
<1>2. p \notin Used(s)
  BY <1>1 DEF Used
<1>3. \A x \in Index : OnWay(h[key], x, p) => x \in Used(s)
  BY <1>1 DEF Used
<1> QED
  BY <1>1, <1>2, <1>3 DEF p

(* The slot at i written. *)
Written(s, i, k, v) == [s EXCEPT ![i] = [key |-> k, value |-> v]]

(* A value for a key that is there. *)
LEMMA Updated ==
    ASSUME NEW s, NEW h, Sound(s, h), NEW i \in Used(s), NEW v \in Values, NEW t,
           t = Written(s, i, s[i].key, v)
    PROVE  /\ Sound(t, h) /\ Used(t) = Used(s)
           /\ \A k, w : Holds(t, k, w) <=> IF k = s[i].key THEN w = v ELSE Holds(s, k, w)
<1>1. i \in Index /\ s \in Tables
  BY DEF Sound, Used
<1>2. t \in Tables
  BY <1>1 DEF Written, Tables, Entry
<1>3. \A x \in Index : t[x].key = s[x].key
                       /\ t[x].value = IF x = i THEN v ELSE s[x].value
  BY <1>1 DEF Written, Tables, Entry
<1>4. Used(t) = Used(s)
  BY <1>3 DEF Used
<1>5. \A x \in Used(s) : x \in Index
  BY DEF Used
<1>6. Once(t)
  BY <1>3, <1>4, <1>5 DEF Sound, Once
<1>7. Reached(t, h)
  BY <1>3, <1>4, <1>5 DEF Sound, Reached
<1>8. ASSUME NEW k, NEW w
      PROVE  Holds(t, k, w) <=> IF k = s[i].key THEN w = v ELSE Holds(s, k, w)
  <2>1. CASE k = s[i].key
    <3>1. \A x \in Used(s) : s[x].key = k => x = i
      BY <2>1 DEF Sound, Once
    <3> QED
      BY <1>3, <1>4, <1>5, <2>1, <3>1 DEF Holds
  <2>2. CASE k # s[i].key
    BY <1>3, <1>4, <1>5, <2>2 DEF Holds
  <2> QED
    BY <2>1, <2>2
<1> QED
  BY <1>2, <1>4, <1>6, <1>7, <1>8 DEF Sound

(* A key that is not there, in a slot to which no empty slot bars the way. *)
LEMMA Added ==
    ASSUME NEW s, NEW h, Sound(s, h), NEW key \in Keys, NEW v \in Values, NEW p \in Index,
           p \notin Used(s), \A i \in Used(s) : s[i].key # key,
           \A x \in Index : OnWay(h[key], x, p) => x \in Used(s), NEW t,
           t = Written(s, p, key, v)
    PROVE  /\ Sound(t, h) /\ Used(t) = Used(s) \cup {p}
           /\ \A k, w : Holds(t, k, w) <=> IF k = key THEN w = v ELSE Holds(s, k, w)
<1>1. s \in Tables /\ key # kEmpty
  BY TableAssumption DEF Sound
<1>2. t \in Tables
  BY <1>1 DEF Written, Tables, Entry
<1>3. \A x \in Index : /\ x # p => t[x].key = s[x].key /\ t[x].value = s[x].value
                       /\ x = p => t[x].key = key /\ t[x].value = v
  BY <1>1 DEF Written, Tables, Entry
<1>4. Used(t) = Used(s) \cup {p}
  BY <1>1, <1>3 DEF Used
<1>5. \A x \in Used(s) : x \in Index /\ x # p
  BY DEF Used
<1>6. Once(t)
  <2> SUFFICES ASSUME NEW i \in Used(t), NEW j \in Used(t), t[i].key = t[j].key
               PROVE  i = j
    BY DEF Once
  <2>1. CASE i = p \/ j = p
    BY <1>3, <1>4, <1>5, <2>1
  <2>2. CASE i # p /\ j # p
    BY <1>3, <1>4, <1>5, <2>2 DEF Sound, Once
  <2> QED
    BY <2>1, <2>2
<1>7. Reached(t, h)
  <2> SUFFICES ASSUME NEW i \in Used(t), NEW x \in Index, OnWay(h[t[i].key], x, i)
               PROVE  x \in Used(t)
    BY DEF Reached
  <2>1. CASE i = p
    BY <1>3, <1>4, <2>1
  <2>2. CASE i # p
    BY <1>3, <1>4, <1>5, <2>2 DEF Sound, Reached
  <2> QED
    BY <2>1, <2>2
<1>8. ASSUME NEW k, NEW w
      PROVE  Holds(t, k, w) <=> IF k = key THEN w = v ELSE Holds(s, k, w)
  BY <1>3, <1>4, <1>5 DEF Holds
<1> QED
  BY <1>2, <1>4, <1>6, <1>7, <1>8 DEF Sound

-----------------------------------------------------------------------------
(* The walk of an erase, of the slot at start in the table s.  It has come to j, *)
(* the slots are b.slots, and the one at b.gap is to be left.                    *)

Walks == [slots : Tables, gap : Index, done : BOOLEAN]

Trail(s, h, start, b, j) ==
    /\ Within(start, b.gap, j)
    /\ \A x \in Index : Within(start, x, j) => x \in Used(s)
    /\ \A x \in Index : ~Within(start, x, j) => b.slots[x] = s[x]
    /\ Used(b.slots) = Used(s)
    /\ \A x \in Index : x # b.gap /\ Within(b.gap, x, j) =>
                            ~OnWay(h[b.slots[x].key], b.gap, x)
    /\ \A i \in Used(s) \ {b.gap} : \A x \in Index :
            OnWay(h[b.slots[i].key], x, i) => x \in Used(s)
    /\ \A x, y \in Used(s) \ {b.gap} : b.slots[x].key = b.slots[y].key => x = y
    /\ \A x \in Used(s) \ {b.gap} : \E y \in Used(s) \ {start} : b.slots[x] = s[y]
    /\ \A y \in Used(s) \ {start} : \E x \in Used(s) \ {b.gap} : b.slots[x] = s[y]

Ended(s, h, start, b, j) ==
    /\ Trail(s, h, start, b, j) /\ Following(j) \notin Used(s)

LEMMA TrailStarts ==
    ASSUME NEW s, NEW h, Sound(s, h), NEW start \in Used(s), NEW b,
           b = [slots |-> s, gap |-> start, done |-> FALSE]
    PROVE  b \in Walks /\ ~b.done /\ Trail(s, h, start, b, start)
<1>1. start \in Index /\ s \in Tables
  BY DEF Sound, Used
<1>2. b \in Walks /\ ~b.done
  BY <1>1 DEF Walks
<1>3. b.slots = s /\ b.gap = start
  OBVIOUS
<1>4. \A x \in Index : Within(start, x, start) <=> x = start
  BY <1>1, TableAssumption DEF Within, OnWay, Index
<1>5. \A x, y \in Used(s) : s[x].key = s[y].key => x = y
  BY DEF Sound, Once
<1>6. \A i \in Used(s) : \A x \in Index : OnWay(h[s[i].key], x, i) => x \in Used(s)
  BY DEF Sound, Reached
<1> QED
  BY <1>1, <1>2, <1>3, <1>4, <1>5, <1>6 DEF Trail

LEMMA Circle ==
    ASSUME NEW start \in Index, NEW j \in Index
    PROVE  /\ Following(j) \in Index
           /\ \A e \in Index : ~Within(start, e, j) => ~Within(start, Following(j), j)
           /\ ~Within(start, Following(j), j) =>
                 \A x \in Index : Within(start, x, Following(j)) <=>
                                      Within(start, x, j) \/ x = Following(j)
           /\ \A x \in Index : Within(j, x, j) <=> x = j
<1>1. PICK C \in Nat : C = TableSize /\ C > 0
  BY TableAssumption
<1>2. PICK n \in Nat : n = Following(j) /\ n = IF j + 1 = C THEN 0 ELSE j + 1
  BY <1>1 DEF Following, Index
<1> QED
  BY <1>1, <1>2 DEF Within, OnWay, Index

LEMMA GapCircle ==
    ASSUME NEW start \in Index, NEW gap \in Index, NEW j \in Index, Within(start, gap, j),
           ~Within(start, Following(j), j)
    PROVE  /\ gap # Following(j)
           /\ Within(start, gap, Following(j))
           /\ \A x \in Index : Within(gap, x, Following(j)) =>
                                   Within(gap, x, j) \/ x = Following(j)
           /\ \A a, i \in Index :
                 OnWay(a, gap, i) /\ ~Within(gap, i, j) /\ i # Following(j) =>
                     OnWay(a, Following(j), i)
<1>1. PICK C \in Nat : C = TableSize /\ C > 0
  BY TableAssumption
<1>2. PICK n \in Nat : n = Following(j) /\ n = IF j + 1 = C THEN 0 ELSE j + 1
  BY <1>1 DEF Following, Index
<1> QED
  BY <1>1, <1>2 DEF Within, OnWay, Index

LEMMA ShorterWay ==
    ASSUME NEW a \in Index, NEW g \in Index, NEW i \in Index, OnWay(a, g, i),
           NEW x \in Index, OnWay(a, x, g)
    PROVE  OnWay(a, x, i)
BY TableAssumption DEF OnWay, Index

(* The test of the code says whether the way to the entry leads over the gap. *)
LEMMA StaysIs ==
    ASSUME NEW gap \in Index, NEW ideal \in Index, NEW j \in Index, gap # j
    PROVE  Stays(gap, ideal, j) <=> ~OnWay(ideal, gap, j)
BY TableAssumption DEF Stays, OnWay, Index

LEMMA WalkEnds ==
    ASSUME NEW s, NEW start, NEW b \in Walks, ~b.done, NEW j \in Index,
           Trail(s, home, start, b, j), Following(j) \notin Used(s)
    PROVE  LET c == Shift(b, Following(j)) IN
           c \in Walks /\ c.done /\ Ended(s, home, start, c, j)
<1> DEFINE c == [b EXCEPT !.done = TRUE]
<1>1. Following(j) \in Index
  BY Circle
<1>2. b.slots[Following(j)].key = kEmpty
  BY <1>1 DEF Trail, Used
<1>3. Shift(b, Following(j)) = c
  BY <1>2 DEF Shift
<1>4. c \in Walks /\ c.done /\ c.slots = b.slots /\ c.gap = b.gap
  BY DEF Walks
<1> HIDE DEF c
<1>5. Trail(s, home, start, c, j)
  BY <1>4 DEF Trail
<1> QED
  BY <1>3, <1>4, <1>5 DEF Ended

LEMMA WalkGoesOn ==
    ASSUME NEW s, NEW start \in Index, NEW b \in Walks, ~b.done, NEW j \in Index,
           home \in [Keys -> Index], Sound(s, home),
           NEW e \in Index, e \notin Used(s),
           Trail(s, home, start, b, j), Following(j) \in Used(s)
    PROVE  LET c == Shift(b, Following(j)) IN
           c \in Walks /\ ~c.done /\ Trail(s, home, start, c, Following(j))
<1>1. PICK n \in Index, g \in Index :
         n = Following(j) /\ g = b.gap /\ g \in Used(s) /\ n \in Used(s)
  BY Circle DEF Walks, Trail
<1>2. ~Within(start, e, j)
  BY DEF Trail
<1>3. ~Within(start, n, j) /\ n # start
  BY <1>1, <1>2, Circle DEF Within
<1>4. b.slots \in Tables /\ b.slots[n] = s[n] /\ n # g
  BY <1>1, <1>3, GapCircle DEF Walks, Trail
<1>5. PICK entry : entry = s[n] /\ entry.key # kEmpty /\ entry \in Entry
                   /\ home[entry.key] \in Index
  BY <1>1 DEF Used, Sound, Tables, Entry
<1>6. CASE Stays(g, home[entry.key], n)
  <2>1. Shift(b, n) = b
    BY <1>1, <1>4, <1>5, <1>6 DEF Shift
  <2>2. ~OnWay(home[entry.key], g, n)
    BY <1>4, <1>5, <1>6, StaysIs
  <2>3. Within(start, g, n)
    BY <1>1, <1>3, GapCircle DEF Trail
  <2>4. \A x \in Index : Within(start, x, n) <=> Within(start, x, j) \/ x = n
    BY <1>1, <1>3, Circle
  <2>5. \A x \in Index : Within(g, x, n) => Within(g, x, j) \/ x = n
    BY <1>1, <1>3, GapCircle DEF Trail
  <2>6. Trail(s, home, start, b, n)
    BY <1>1, <1>4, <1>5, <2>2, <2>3, <2>4, <2>5 DEF Trail
  <2> QED
    BY <1>1, <2>1, <2>6
<1>7. CASE ~Stays(g, home[entry.key], n)
  <2> DEFINE c == [b EXCEPT !.slots[b.gap] = entry, !.gap = n]
  <2>1. Shift(b, n) = c
    BY <1>1, <1>4, <1>5, <1>7 DEF Shift
  <2>2. /\ c.slots = [b.slots EXCEPT ![g] = entry] /\ c.gap = n /\ ~c.done
        /\ c \in Walks
    BY <1>1, <1>4, <1>5 DEF Walks, Tables
  <2> HIDE DEF c
  <2>3. PICK t : t = c.slots /\ t[g] = entry /\ \A x \in Index : x # g => t[x] = b.slots[x]
    BY <1>1, <1>4, <2>2 DEF Tables
  <2>4. OnWay(home[entry.key], g, n)
    BY <1>4, <1>5, <1>7, StaysIs
  <2>5. \A x \in Index : Within(start, x, n) <=> Within(start, x, j) \/ x = n
    BY <1>1, <1>3, Circle
  <2>6. Within(start, c.gap, n)
    BY <1>1, <2>2, <2>5
  <2>7. \A x \in Index : Within(start, x, n) => x \in Used(s)
    BY <1>1, <2>5 DEF Trail
  <2>8. \A x \in Index : ~Within(start, x, n) => t[x] = s[x]
    <3>1. Within(start, g, j)
      BY <1>1 DEF Trail
    <3> QED
      BY <1>1, <2>3, <2>5, <3>1 DEF Trail
  <2>9. Used(t) = Used(s)
    <3>1. Used(b.slots) = Used(s)
      BY DEF Trail
    <3>2. \A x \in Index : t[x].key # kEmpty <=> b.slots[x].key # kEmpty
      BY <1>1, <1>5, <2>3, <3>1 DEF Used
    <3> QED
      BY <3>1, <3>2 DEF Used
  <2>10. \A x \in Index : x # c.gap /\ Within(c.gap, x, n) =>
                              ~OnWay(home[t[x].key], c.gap, x)
    BY <2>2, Circle
  <2>11. \A i \in Used(s) \ {n} : \A x \in Index :
            OnWay(home[t[i].key], x, i) => x \in Used(s)
    <3> SUFFICES ASSUME NEW i \in Used(s) \ {n}, NEW x \in Index,
                        OnWay(home[t[i].key], x, i)
                 PROVE  x \in Used(s)
      OBVIOUS
    <3>1. i \in Index
      BY DEF Used
    <3>2. CASE i = g
      <4>1. OnWay(home[entry.key], x, n)
        BY <1>5, <2>3, <2>4, <3>2, ShorterWay
      <4> QED
        BY <1>1, <1>4, <1>5, <4>1 DEF Trail
    <3>3. CASE i # g
      BY <1>1, <2>3, <3>1, <3>3 DEF Trail
    <3> QED
      BY <3>2, <3>3
  <2>12. \A x, y \in Used(s) \ {n} : t[x].key = t[y].key => x = y
    <3>1. \A x \in Used(s) \ {n} : x \in Index /\ (x # g => t[x].key # entry.key)
      <4>1. \A x, y \in Used(s) \ {g} : b.slots[x].key = b.slots[y].key => x = y
        BY <1>1 DEF Trail
      <4>2. \A x \in Used(s) : x \in Index
        BY DEF Used
      <4> QED
        BY <1>1, <1>4, <1>5, <2>3, <4>1, <4>2
    <3>2. \A x, y \in Used(s) \ {g} : b.slots[x].key = b.slots[y].key => x = y
      BY <1>1 DEF Trail
    <3> QED
      BY <2>3, <3>1, <3>2
  <2>13. \A x \in Used(s) \ {n} : \E y \in Used(s) \ {start} : t[x] = s[y]
    <3> SUFFICES ASSUME NEW x \in Used(s) \ {n}
                 PROVE  \E y \in Used(s) \ {start} : t[x] = s[y]
      OBVIOUS
    <3>1. x \in Index
      BY DEF Used
    <3>2. CASE x = g
      BY <1>1, <1>3, <1>5, <2>3, <3>2
    <3>3. CASE x # g
      BY <1>1, <2>3, <3>1, <3>3 DEF Trail
    <3> QED
      BY <3>2, <3>3
  <2>14. \A y \in Used(s) \ {start} : \E x \in Used(s) \ {n} : t[x] = s[y]
    <3> SUFFICES ASSUME NEW y \in Used(s) \ {start}
                 PROVE  \E x \in Used(s) \ {n} : t[x] = s[y]
      OBVIOUS
    <3>1. PICK x \in Used(s) \ {g} : b.slots[x] = s[y]
      BY <1>1 DEF Trail
    <3>2. x \in Index
      BY DEF Used
    <3>3. CASE x = n
      BY <1>1, <1>4, <1>5, <2>3, <3>1, <3>3
    <3>4. CASE x # n
      BY <2>3, <3>1, <3>2, <3>4
    <3> QED
      BY <3>3, <3>4
  <2>15. Trail(s, home, start, c, n)
    BY <2>2, <2>3, <2>6, <2>7, <2>8, <2>9, <2>10, <2>11, <2>12, <2>13, <2>14 DEF Trail
  <2> QED
    BY <1>1, <2>1, <2>2, <2>15
<1> QED
  BY <1>6, <1>7

-----------------------------------------------------------------------------
(* The turns of the walk. *)

Walked(start, f) ==
    f = [n \in 0..TableSize |-> IF n = 0 THEN [slots |-> slots, gap |-> start, done |-> FALSE]
                               ELSE Shift(f[n - 1], After(start, n))]

LEMMA WalkExists ==
    ASSUME NEW start
    PROVE  \E f : Walked(start, f)
<1> DEFINE first == [slots |-> slots, gap |-> start, done |-> FALSE]
           Part(f, m) == /\ DOMAIN f = 0..m /\ f[0] = first
                         /\ \A n \in 1..m : f[n] = Shift(f[n - 1], After(start, n))
           T == {m \in Nat : \E f : Part(f, m)}
<1> HIDE DEF first
<1>1. 0 \in T
  <2>1. Part([n \in 0..0 |-> first], 0)
    OBVIOUS
  <2> QED
    BY <2>1
<1>2. ASSUME NEW m \in Nat, m \in T PROVE m + 1 \in T
  <2>1. PICK f : Part(f, m)
    BY <1>2
  <2> DEFINE g == [n \in 0..(m + 1) |-> IF n = m + 1 THEN Shift(f[m], After(start, m + 1))
                                        ELSE f[n]]
  <2>2. DOMAIN g = 0..(m + 1) /\ g[0] = first
    BY <2>1
  <2>3. ASSUME NEW n \in 1..(m + 1) PROVE g[n] = Shift(g[n - 1], After(start, n))
    <3>1. n \in 0..(m + 1) /\ n - 1 \in 0..(m + 1) /\ n - 1 # m + 1
      OBVIOUS
    <3>2. g[n - 1] = f[n - 1]
      BY <3>1
    <3>3. CASE n = m + 1
      <4>1. n - 1 = m
        BY <3>3
      <4> QED
        BY <3>2, <3>3, <4>1
    <3>4. CASE n # m + 1
      <4>1. n \in 1..m
        BY <3>4
      <4>2. g[n] = f[n]
        BY <3>1, <3>4
      <4>3. f[n] = Shift(f[n - 1], After(start, n))
        BY <2>1, <4>1
      <4> QED
        BY <3>2, <4>2, <4>3
    <3> QED
      BY <3>3, <3>4
  <2> HIDE DEF g
  <2>4. Part(g, m + 1)
    BY <2>2, <2>3
  <2> QED
    BY <2>4
<1>3. TableSize \in T
  <2> HIDE DEF T
  <2>1. T \in SUBSET Nat
    BY DEF T
  <2>2. T = Nat
    BY <1>1, <1>2, <2>1, SetInduction
  <2> QED
    BY <2>2, TableAssumption
<1>4. PICK f : Part(f, TableSize)
  BY <1>3
<1> DEFINE g == [n \in 0..TableSize |-> IF n = 0 THEN first
                                       ELSE Shift(f[n - 1], After(start, n))]
<1>5. \A n \in 0..TableSize : g[n] = f[n]
  <2>1. \A n \in 0..TableSize : n = 0 \/ n \in 1..TableSize
    BY TableAssumption
  <2> QED
    BY <1>4, <2>1
<1>6. \A n \in 0..TableSize : n # 0 => n - 1 \in 0..TableSize
  BY TableAssumption
<1>7. g = [n \in 0..TableSize |-> IF n = 0 THEN first
                                 ELSE Shift(g[n - 1], After(start, n))]
  <2>1. \A n \in 0..TableSize : n # 0 => g[n - 1] = f[n - 1]
    BY <1>5, <1>6
  <2> HIDE DEF Part
  <2> QED
    BY <2>1
<1>8. Walked(start, g)
  <2> HIDE DEF g
  <2> QED
    BY <1>7 DEF Walked, first
<1> QED
  BY <1>8

LEMMA ClosedIs ==
    ASSUME NEW start
    PROVE  \E f : /\ f[0] = [slots |-> slots, gap |-> start, done |-> FALSE]
                  /\ \A n \in 1..TableSize : f[n] = Shift(f[n - 1], After(start, n))
                  /\ Closed(start) = [f[TableSize].slots EXCEPT ![f[TableSize].gap] = Blank]
<1> DEFINE f == CHOOSE f : Walked(start, f)
<1>1. Walked(start, f)
  BY WalkExists
<1>2. Closed(start) = [f[TableSize].slots EXCEPT ![f[TableSize].gap] = Blank]
  BY Zenon DEF Closed, Walked
<1> HIDE DEF f
<1>3. f[0] = [slots |-> slots, gap |-> start, done |-> FALSE]
  BY <1>1, TableAssumption DEF Walked
<1>4. ASSUME NEW n \in 1..TableSize PROVE f[n] = Shift(f[n - 1], After(start, n))
  <2>1. n \in 0..TableSize /\ n # 0
    BY TableAssumption
  <2> QED
    BY <1>1, <2>1 DEF Walked
<1> QED
  BY <1>2, <1>3, <1>4

(* Emptying the gap where the walk has ended. *)
LEMMA GapCloses ==
    ASSUME NEW s, Sound(s, home), home \in [Keys -> Index], NEW start \in Used(s),
           NEW b \in Walks, NEW j \in Index, Ended(s, home, start, b, j), NEW t,
           t = [b.slots EXCEPT ![b.gap] = Blank]
    PROVE  /\ Sound(t, home) /\ b.gap \in Used(s) /\ Used(t) = Used(s) \ {b.gap}
           /\ \A k, w : Holds(t, k, w) <=> k # s[start].key /\ Holds(s, k, w)
<1>1. PICK n \in Index, g \in Index, r \in Tables :
         /\ n = Following(j) /\ g = b.gap /\ r = b.slots
         /\ g \in Used(s) /\ n \notin Used(s) /\ Within(start, g, j)
  BY Circle DEF Walks, Ended, Trail
<1>2. ~Within(start, n, j)
  BY <1>1 DEF Ended, Trail
<1>3. start \in Index /\ s \in Tables /\ \A x \in Used(s) : x \in Index
  BY DEF Used, Sound
<1>4. t \in Tables
  BY <1>1 DEF Tables, Entry, Blank
<1>5. t[g].key = kEmpty /\ \A x \in Index : x # g => t[x] = r[x]
  BY <1>1 DEF Tables, Blank
<1>6. Used(r) = Used(s)
  BY <1>1 DEF Ended, Trail
<1>7. Used(t) = Used(s) \ {g}
  BY <1>1, <1>5, <1>6 DEF Used
<1>8. Once(t)
  <2>1. \A x, y \in Used(s) \ {g} : r[x].key = r[y].key => x = y
    BY <1>1 DEF Ended, Trail
  <2> QED
    BY <1>3, <1>5, <1>7, <2>1 DEF Once
<1>9. Reached(t, home)
  <2> SUFFICES ASSUME NEW i \in Used(t), NEW x \in Index, OnWay(home[t[i].key], x, i)
               PROVE  x \in Used(t)
    BY DEF Reached
  <2>1. i \in Index /\ i # g /\ i \in Used(s) /\ t[i] = r[i]
    BY <1>3, <1>5, <1>7
  <2>2. PICK a \in Index : a = home[r[i].key]
    BY <1>1, <1>6, <2>1 DEF Tables, Entry, Used
  <2>3. \A y \in Index : OnWay(a, y, i) => y \in Used(s)
    BY <1>1, <2>1, <2>2 DEF Ended, Trail
  <2>4. ~OnWay(a, n, i)
    BY <1>1, <2>3
  <2>5. Within(g, i, j) => ~OnWay(a, g, i)
    BY <1>1, <2>1, <2>2 DEF Ended, Trail
  <2>6. ~OnWay(a, g, i)
    BY <1>1, <1>2, <1>3, <2>1, <2>4, <2>5, GapCircle
  <2> QED
    BY <1>7, <2>1, <2>2, <2>3, <2>6
<1>10. ASSUME NEW k, NEW w
       PROVE  Holds(t, k, w) <=> k # s[start].key /\ Holds(s, k, w)
  <2>1. \A x \in Used(t) : \E y \in Used(s) \ {start} : t[x] = s[y]
    <3>1. \A x \in Used(s) \ {g} : \E y \in Used(s) \ {start} : r[x] = s[y]
      BY <1>1 DEF Ended, Trail
    <3> QED
      BY <1>3, <1>5, <1>7, <3>1
  <2>2. \A y \in Used(s) \ {start} : \E x \in Used(t) : t[x] = s[y]
    <3>1. \A y \in Used(s) \ {start} : \E x \in Used(s) \ {g} : r[x] = s[y]
      BY <1>1 DEF Ended, Trail
    <3> QED
      BY <1>3, <1>5, <1>7, <3>1
  <2>3. \A y \in Used(s) : s[y].key = s[start].key => y = start
    BY DEF Sound, Once
  <2>4. ASSUME Holds(t, k, w) PROVE k # s[start].key /\ Holds(s, k, w)
    BY <2>1, <2>3, <2>4 DEF Holds
  <2>5. ASSUME k # s[start].key, Holds(s, k, w) PROVE Holds(t, k, w)
    <3>1. PICK y \in Used(s) : s[y].key = k /\ s[y].value = w
      BY <2>5 DEF Holds
    <3>2. y # start
      BY <2>5, <3>1
    <3> QED
      BY <2>2, <3>1, <3>2 DEF Holds
  <2> QED
    BY <2>4, <2>5
<1> QED
  BY <1>1, <1>4, <1>7, <1>8, <1>9, <1>10 DEF Sound

(* Erasing takes one key out, and leaves the table sound. *)
LEMMA Erased ==
    ASSUME Sound(slots, home), home \in [Keys -> Index], NEW start \in Used(slots),
           NEW e \in Index, slots[e].key = kEmpty, NEW t, t = Closed(start)
    PROVE  /\ Sound(t, home)
           /\ \E g \in Used(slots) : Used(t) = Used(slots) \ {g}
           /\ \A k, w : Holds(t, k, w) <=> k # slots[start].key /\ Holds(slots, k, w)
<1>1. PICK f : /\ f[0] = [slots |-> slots, gap |-> start, done |-> FALSE]
               /\ \A n \in 1..TableSize : f[n] = Shift(f[n - 1], After(start, n))
               /\ Closed(start) = [f[TableSize].slots EXCEPT ![f[TableSize].gap] = Blank]
  BY ClosedIs
<1>2. start \in Index /\ e \notin Used(slots)
  BY DEF Used
<1> DEFINE T == {n \in Nat : n <= TableSize =>
                   /\ f[n] \in Walks
                   /\ ~f[n].done => /\ n \in Index
                                    /\ Trail(slots, home, start, f[n], After(start, n))
                   /\ f[n].done => \E j \in Index : Ended(slots, home, start, f[n], j)}
<1>3. 0 \in T
  <2>1. After(start, 0) = start /\ 0 \in Index
    BY <1>2, AfterIs, TableAssumption DEF Index
  <2> QED
    BY <1>1, <1>2, <2>1, TrailStarts
<1>4. ASSUME NEW n \in Nat, n \in T PROVE n + 1 \in T
  <2> SUFFICES ASSUME n + 1 <= TableSize
               PROVE  /\ f[n + 1] \in Walks
                      /\ ~f[n + 1].done =>
                            /\ n + 1 \in Index
                            /\ Trail(slots, home, start, f[n + 1], After(start, n + 1))
                      /\ f[n + 1].done =>
                            \E j \in Index : Ended(slots, home, start, f[n + 1], j)
    OBVIOUS
  <2>1. n <= TableSize /\ n + 1 \in 1..TableSize /\ (n + 1) - 1 = n
    BY TableAssumption
  <2>2. f[n + 1] = Shift(f[n], After(start, n + 1)) /\ f[n] \in Walks
    BY <1>1, <1>4, <2>1
  <2>3. CASE f[n].done
    <3>1. PICK j \in Index : Ended(slots, home, start, f[n], j)
      BY <1>4, <2>1, <2>3
    <3>2. PICK b \in Walks : b = f[n] /\ b.done
      BY <2>2, <2>3
    <3> DEFINE c == [b EXCEPT !.done = TRUE]
    <3>3. f[n + 1] = c
      BY <2>2, <3>2 DEF Shift
    <3>4. c \in Walks /\ c.done /\ c.slots = b.slots /\ c.gap = b.gap
      BY DEF Walks
    <3> HIDE DEF c
    <3>5. Ended(slots, home, start, c, j)
      BY <3>1, <3>2, <3>4 DEF Ended, Trail
    <3> QED
      BY <3>3, <3>4, <3>5
  <2>4. CASE ~f[n].done
    <3>1. n \in Index /\ Trail(slots, home, start, f[n], After(start, n))
      BY <1>4, <2>1, <2>4
    <3>2. PICK j \in Index : j = After(start, n)
      BY <1>2, <3>1, AfterIs
    <3>3. n + 1 \in Index
      <4> SUFFICES ASSUME n + 1 = TableSize PROVE FALSE
        BY <2>1, TableAssumption DEF Index
      <4>1. PICK m \in Index : After(start, m) = e
        BY <1>2, Distance
      <4>2. m < n \/ m = n
        BY <4>1, TableAssumption DEF Index
      <4>3. Within(start, e, j)
        BY <1>2, <3>1, <3>2, <4>1, <4>2, NearerOnWay DEF Within
      <4> QED
        BY <1>2, <3>1, <3>2, <4>3 DEF Trail
    <3>4. After(start, n + 1) = Following(j)
      BY <1>2, <3>1, <3>2, <3>3, NextAfter
    <3>5. CASE Following(j) \notin Used(slots)
      BY <2>2, <2>4, <3>1, <3>2, <3>4, <3>5, WalkEnds
    <3>6. CASE Following(j) \in Used(slots)
      BY <1>2, <2>2, <2>4, <3>1, <3>2, <3>3, <3>4, <3>6, WalkGoesOn
    <3> QED
      BY <3>5, <3>6
  <2> QED
    BY <2>3, <2>4
<1>5. TableSize \in T
  <2> HIDE DEF T
  <2>1. T \in SUBSET Nat
    BY DEF T
  <2>2. T = Nat
    BY <1>3, <1>4, <2>1, SetInduction
  <2> QED
    BY <2>2, TableAssumption
<1>6. PICK b \in Walks, j \in Index :
         b = f[TableSize] /\ Ended(slots, home, start, b, j)
  BY <1>5, TableAssumption DEF Index
<1>7. t = [b.slots EXCEPT ![b.gap] = Blank]
  BY <1>1, <1>6
<1> QED
  BY <1>6, <1>7, GapCloses

-----------------------------------------------------------------------------
(* The invariant. *)

LEMMA SomeEmpty ==
    TableInv => \E e \in Index : slots[e].key = kEmpty
BY UsedFinite DEF TableInv

(* What has tells, and where a probe ends. *)
LEMMA ProbeTells ==
    ASSUME TableInv, NEW key \in Keys
    PROVE  /\ Has(key) <=> Probe(key) \in Used(slots)
           /\ Has(key) <=> \E i \in Used(slots) : slots[i].key = key
           /\ Has(key) => slots[Probe(key)].key = key
           /\ ~Has(key) => \A x \in Index : OnWay(home[key], x, Probe(key)) => x \in Used(slots)
           /\ Probe(key) \in Index
<1>1. Probe(key) = ProbeFrom(slots, home[key], key)
  BY DEF Probe, ProbeFrom
<1>2. PICK e \in Index : slots[e].key = kEmpty
  BY SomeEmpty
<1>3. home \in [Keys -> Index] /\ Sound(slots, home) /\ home[key] \in Index /\ key # kEmpty
  BY TableAssumption DEF TableInv
<1>4. CASE \E i \in Used(slots) : slots[i].key = key
  <2>1. PICK i \in Used(slots) : slots[i].key = key
    BY <1>4
  <2>2. Probe(key) = i
    BY <1>1, <1>2, <1>3, <2>1, ProbeFinds
  <2>3. i \in Index
    BY DEF Used
  <2> QED
    BY <1>4, <2>1, <2>2, <2>3 DEF Has
<1>5. CASE ~\E i \in Used(slots) : slots[i].key = key
  <2>1. /\ Probe(key) \in Index /\ Probe(key) \notin Used(slots)
        /\ \A x \in Index : OnWay(home[key], x, Probe(key)) => x \in Used(slots)
    BY <1>1, <1>2, <1>3, <1>5, ProbeMisses DEF Sound
  <2>2. ~Has(key)
    BY <1>3, <2>1 DEF Has, Used
  <2> QED
    BY <1>5, <2>1, <2>2
<1> QED
  BY <1>4, <1>5

LEMMA TableInitHolds == TableInit => TableInv
<1> SUFFICES ASSUME TableInit PROVE TableInv
  OBVIOUS
<1>1. home \in [Keys -> Index]
  BY TableAssumption DEF TableInit
<1>2. slots \in Tables /\ Used(slots) = {}
  BY DEF TableInit, Tables, Entry, Blank, Used
<1>3. Sound(slots, home)
  BY <1>2 DEF Sound, Once, Reached
<1>4. size = Cardinality(Used(slots)) /\ size = 0
  BY <1>2, FS_EmptySet DEF TableInit
<1>5. 0 <= Limit
  BY TableAssumption DEF Limit
<1> QED
  BY <1>1, <1>3, <1>4, <1>5 DEF TableInv

(* What each operation does to the table, told without its slots. *)
Adds(key, v) == \A k, w : Holds(slots, k, w)' <=> IF k = key THEN w = v ELSE Holds(slots, k, w)
Takes(key) == \A k, w : Holds(slots, k, w)' <=> k # key /\ Holds(slots, k, w)

LEMMA InsertHolds ==
    ASSUME TableInv, NEW key \in Keys, NEW value \in Values, Insert(key, value)
    PROVE  TableInv' /\ IF Room(key) THEN Adds(key, value) ELSE slots' = slots
<1>1. PICK p \in Index : p = Probe(key)
  BY ProbeTells
<1>2. /\ home \in [Keys -> Index] /\ Sound(slots, home) /\ home' = home
      /\ size = Cardinality(Used(slots)) /\ size <= Limit
  BY DEF TableInv, Insert
<1>3. CASE Has(key)
  <2>1. p \in Used(slots) /\ slots[p].key = key
    BY <1>1, <1>3, ProbeTells
  <2>2. slots' = [slots EXCEPT ![p] = [key |-> slots[p].key, value |-> value]]
        /\ size' = size /\ Room(key)
    BY <1>1, <1>3, <2>1 DEF Insert, Room
  <2>3. PICK t : t = slots' /\ t = Written(slots, p, slots[p].key, value)
    BY <2>2 DEF Written
  <2>4. /\ Sound(t, home) /\ Used(t) = Used(slots)
        /\ \A k, w : Holds(t, k, w) <=> IF k = key THEN w = value ELSE Holds(slots, k, w)
    <3>1. p \in Used(slots) /\ slots[p].key = key
      BY <2>1
    <3>2. /\ Sound(t, home) /\ Used(t) = Used(slots)
          /\ \A k, w : Holds(t, k, w) <=>
                         IF k = slots[p].key THEN w = value ELSE Holds(slots, k, w)
      BY <1>2, <2>3, <3>1, Updated
    <3> QED
      BY <3>1, <3>2
  <2>5. TableInv'
    BY <1>2, <2>2, <2>3, <2>4 DEF TableInv
  <2>6. Adds(key, value)
    BY <2>3, <2>4 DEF Adds
  <2> QED
    BY <2>2, <2>5, <2>6
<1>4. CASE ~Has(key) /\ Room(key)
  <2>1. slots' = [slots EXCEPT ![p] = [key |-> key, value |-> value]]
        /\ size' = size + 1 /\ size + 1 <= Limit
    BY <1>1, <1>4 DEF Insert, Room, Limit
  <2>2. /\ p \notin Used(slots) /\ \A i \in Used(slots) : slots[i].key # key
        /\ \A x \in Index : OnWay(home[key], x, p) => x \in Used(slots)
    BY <1>1, <1>4, ProbeTells
  <2>3. PICK t : t = slots' /\ t = Written(slots, p, key, value)
    BY <2>1 DEF Written
  <2>4. /\ Sound(t, home) /\ Used(t) = Used(slots) \cup {p}
        /\ \A k, w : Holds(t, k, w) <=> IF k = key THEN w = value ELSE Holds(slots, k, w)
    BY <1>2, <2>2, <2>3, Added
  <2>5. Cardinality(Used(t)) = Cardinality(Used(slots)) + 1
    <3>1. IsFiniteSet(Used(slots))
      BY UsedFinite
    <3> QED
      BY <2>2, <2>4, <3>1, FS_AddElement
  <2>6. TableInv'
    BY <1>2, <2>1, <2>3, <2>4, <2>5 DEF TableInv
  <2>7. Adds(key, value)
    BY <2>3, <2>4 DEF Adds
  <2> QED
    BY <1>4, <2>6, <2>7
<1>5. CASE ~Room(key)
  <2>1. slots' = slots /\ size' = size
    BY <1>5 DEF Insert
  <2> QED
    BY <1>2, <1>5, <2>1 DEF TableInv
<1> QED
  BY <1>3, <1>4, <1>5

LEMMA EraseHolds ==
    ASSUME TableInv, NEW key \in Keys, Erase(key)
    PROVE  TableInv' /\ Takes(key)
<1>1. PICK p \in Index : p = Probe(key)
  BY ProbeTells
<1>2. /\ home \in [Keys -> Index] /\ Sound(slots, home) /\ home' = home
      /\ size = Cardinality(Used(slots)) /\ size <= Limit
  BY DEF TableInv, Erase
<1>3. CASE Has(key)
  <2>1. p \in Used(slots) /\ slots[p].key = key
    BY <1>1, <1>3, ProbeTells
  <2>2. PICK t : t = slots' /\ t = Closed(p) /\ size' = size - 1
    BY <1>1, <1>3 DEF Erase
  <2>3. PICK e \in Index : slots[e].key = kEmpty
    BY SomeEmpty
  <2>4. /\ Sound(t, home)
        /\ \E g \in Used(slots) : Used(t) = Used(slots) \ {g}
        /\ \A k, w : Holds(t, k, w) <=> k # key /\ Holds(slots, k, w)
    BY <1>2, <2>1, <2>2, <2>3, Erased
  <2>5. PICK g \in Used(slots) : Used(t) = Used(slots) \ {g}
    BY <2>4
  <2>6. Cardinality(Used(t)) = Cardinality(Used(slots)) - 1
        /\ Cardinality(Used(slots)) \in Nat
    BY <2>5, UsedFinite, FS_RemoveElement
  <2>7. size' = Cardinality(Used(t)) /\ size' <= Limit
    BY <1>2, <2>2, <2>6, TableAssumption DEF Limit
  <2>8. TableInv'
    BY <1>2, <2>2, <2>4, <2>7 DEF TableInv
  <2>9. Takes(key)
    BY <2>2, <2>4 DEF Takes
  <2> QED
    BY <2>8, <2>9
<1>4. CASE ~Has(key)
  <2>1. slots' = slots /\ size' = size
    BY <1>4 DEF Erase
  <2>2. \A w : ~Holds(slots, key, w)
    BY <1>4, ProbeTells DEF Holds
  <2>3. Takes(key)
    BY <2>1, <2>2 DEF Takes, Holds
  <2> QED
    BY <1>2, <2>1, <2>3 DEF TableInv
<1> QED
  BY <1>3, <1>4

LEMMA ClearHolds ==
    ASSUME TableInv, Clear
    PROVE  TableInv' /\ \A k, w : ~Holds(slots, k, w)'
<1>1. PICK t : t = slots' /\ t = [i \in Index |-> Blank]
  BY DEF Clear
<1>2. t \in Tables /\ Used(t) = {}
  BY <1>1 DEF Tables, Entry, Blank, Used
<1>3. Sound(t, home)
  BY <1>2 DEF Sound, Once, Reached
<1>4. size' = Cardinality(Used(t)) /\ size' <= Limit
  BY <1>2, FS_EmptySet, TableAssumption DEF Clear, Limit
<1>5. TableInv'
  BY <1>1, <1>3, <1>4 DEF TableInv, Clear
<1>6. \A k, w : ~Holds(t, k, w)
  BY <1>2 DEF Holds
<1> QED
  BY <1>1, <1>5, <1>6 DEF Holds

(* The table is sound, and its size is the number of slots in use. *)
THEOREM TableIsSound == TableSpec => []TableInv
<1>1. TableInv /\ [TableNext]_tableVars => TableInv'
  <2> SUFFICES ASSUME TableInv, [TableNext]_tableVars PROVE TableInv'
    OBVIOUS
  <2>1. ASSUME NEW key \in Keys, NEW value \in Values, Insert(key, value) PROVE TableInv'
    BY <2>1, InsertHolds
  <2>2. ASSUME NEW key \in Keys, Erase(key) PROVE TableInv'
    BY <2>2, EraseHolds
  <2>3. ASSUME Clear PROVE TableInv'
    BY <2>3, ClearHolds
  <2>4. ASSUME UNCHANGED tableVars PROVE TableInv'
    BY <2>4 DEF TableInv, tableVars, Sound, Once, Reached, Used
  <2> QED
    BY <2>1, <2>2, <2>3, <2>4 DEF TableNext
<1> QED
  BY <1>1, TableInitHolds, PTL DEF TableSpec

(* Probe loops end, and where they should: whatever keys collide and in whatever  *)
(* order they come and go, there is always an empty slot, the size is that of the *)
(* entries and within the load limit, and a probe from an entry's home finds it.  *)
THEOREM ProbesAlwaysEnd == TableSpec => []ProbesEnd
<1>1. TableInv => ProbesEnd
  <2> SUFFICES ASSUME TableInv PROVE ProbesEnd
    OBVIOUS
  <2>1. PICK e \in Index : slots[e].key = kEmpty
    BY SomeEmpty
  <2>2. ASSUME NEW i \in Index, slots[i].key # kEmpty PROVE Probe(slots[i].key) = i
    <3>1. i \in Used(slots) /\ home \in [Keys -> Index] /\ Sound(slots, home)
      BY <2>2 DEF Used, TableInv
    <3>2. Probe(slots[i].key) = ProbeFrom(slots, home[slots[i].key], slots[i].key)
      BY DEF Probe, ProbeFrom
    <3> QED
      BY <2>1, <3>1, <3>2, ProbeFinds
  <2> QED
    BY <2>1, <2>2 DEF ProbesEnd, TableInv, Used, Limit
<1> QED
  BY <1>1, TableIsSound, PTL

-----------------------------------------------------------------------------
(* The map the table is. *)

entries == [key \in {k \in Keys : Has(k)} |-> Find(key)]

LEMMA EntriesTell ==
    TableInv => /\ DOMAIN entries = {k \in Keys : Has(k)}
                /\ entries = [k \in DOMAIN entries |-> entries[k]]
                /\ \A k, v : Holds(slots, k, v) <=> k \in DOMAIN entries /\ v = entries[k]
<1> SUFFICES ASSUME TableInv
             PROVE  /\ DOMAIN entries = {k \in Keys : Has(k)}
                    /\ entries = [k \in DOMAIN entries |-> entries[k]]
                    /\ \A k, v : Holds(slots, k, v) <=> k \in DOMAIN entries /\ v = entries[k]
  OBVIOUS
<1>1. DOMAIN entries = {k \in Keys : Has(k)}
  BY DEF entries
<1>2. \A k \in DOMAIN entries : entries[k] = slots[Probe(k)].value
  BY DEF entries, Find
<1>3. entries = [k \in DOMAIN entries |-> entries[k]]
  BY DEF entries
<1>4. ASSUME NEW k, NEW v
      PROVE  Holds(slots, k, v) <=> k \in DOMAIN entries /\ v = entries[k]
  <2>1. ASSUME Holds(slots, k, v) PROVE k \in DOMAIN entries /\ v = entries[k]
    <3>1. PICK i \in Used(slots) : slots[i].key = k /\ slots[i].value = v
      BY <2>1 DEF Holds
    <3>2. k \in Keys
      BY <3>1 DEF TableInv, Sound, Tables, Entry, Used
    <3>3. Has(k) /\ Probe(k) \in Used(slots) /\ slots[Probe(k)].key = k
      BY <3>1, <3>2, ProbeTells
    <3>4. Probe(k) = i
      BY <3>1, <3>3 DEF TableInv, Sound, Once
    <3> QED
      BY <1>1, <1>2, <3>1, <3>2, <3>3, <3>4
  <2>2. ASSUME k \in DOMAIN entries, v = entries[k] PROVE Holds(slots, k, v)
    <3>1. k \in Keys /\ Has(k)
      BY <1>1, <2>2
    <3>2. Probe(k) \in Used(slots) /\ slots[Probe(k)].key = k
      BY <3>1, ProbeTells
    <3> QED
      BY <1>2, <2>2, <3>2 DEF Holds
  <2> QED
    BY <2>1, <2>2
<1> QED
  BY <1>1, <1>3, <1>4

LEMMA EntriesTellAfter ==
    TableInv' => /\ entries' = [k \in DOMAIN entries' |-> entries'[k]]
                 /\ \A k, v : Holds(slots, k, v)' <=>
                                 k \in DOMAIN entries' /\ v = entries'[k]
<1>1. TableInv' => (/\ DOMAIN entries = {k \in Keys : Has(k)}
                    /\ entries = [k \in DOMAIN entries |-> entries[k]]
                    /\ \A k, v : Holds(slots, k, v) <=>
                                    k \in DOMAIN entries /\ v = entries[k])'
  BY EntriesTell, PTL
<1> QED
  BY <1>1

(* As many keys as slots in use. *)
LEMMA SizeIsKeys ==
    ASSUME TableInv
    PROVE  Cardinality(DOMAIN entries) = size /\ size \in Nat
<1> DEFINE f == [i \in Used(slots) |-> slots[i].key]
<1>1. \A i \in Used(slots) : Holds(slots, slots[i].key, slots[i].value)
  BY DEF Holds
<1>2. f \in [Used(slots) -> DOMAIN entries]
  BY <1>1, EntriesTell
<1>3. \A i, j \in Used(slots) : f[i] = f[j] => i = j
  BY DEF TableInv, Sound, Once
<1>4. \A k \in DOMAIN entries : \E i \in Used(slots) : f[i] = k
  BY EntriesTell DEF Holds
<1> HIDE DEF f
<1>5. f \in Bijection(Used(slots), DOMAIN entries)
  BY <1>2, <1>3, <1>4 DEF Bijection, Injection, Surjection, IsInjective
<1>6. ExistsBijection(Used(slots), DOMAIN entries)
  BY <1>5 DEF ExistsBijection
<1> QED
  BY <1>6, UsedFinite, FS_Bijection DEF TableInv

LEMMA RoomsAgree ==
    ASSUME TableInv, NEW key \in Keys
    PROVE  Map!Room(entries, key) <=> Room(key)
<1>1. key \in DOMAIN entries <=> Has(key)
  BY EntriesTell
<1>2. PICK most \in Nat : most = (TableSize * 7) \div 10
  BY TableAssumption
<1>3. PICK n \in Nat : n = size /\ n = Cardinality(DOMAIN entries)
  BY SizeIsKeys
<1>4. Map!Room(entries, key) <=> key \in DOMAIN entries \/ n < most
  <2>1. Map!Room(entries, key) <=>
           key \in DOMAIN entries \/ Cardinality(DOMAIN entries) < (TableSize * 7) \div 10
    BY Zenon DEF Map!Room, Map!Cardinality, Cardinality
  <2> QED
    BY <1>2, <1>3, <2>1
<1>5. Room(key) <=> Has(key) \/ n + 1 <= most
  BY <1>2, <1>3 DEF Room
<1> QED
  BY <1>1, <1>4, <1>5

LEMMA PutIs ==
    ASSUME NEW a, NEW b, NEW key, NEW value, b = [k \in DOMAIN b |-> b[k]],
           \A k, v : k \in DOMAIN b /\ v = b[k] <=>
                        IF k = key THEN v = value ELSE k \in DOMAIN a /\ v = a[k]
    PROVE  b = Map!Put(a, key, value)
<1>1. \A k : k \in DOMAIN b <=> k = key \/ k \in DOMAIN a
  <2> TAKE k
  <2>1. k \in DOMAIN b <=> \E v : k \in DOMAIN b /\ v = b[k]
    OBVIOUS
  <2>2. k \in DOMAIN a <=> \E v : k \in DOMAIN a /\ v = a[k]
    OBVIOUS
  <2> QED
    BY <2>1, <2>2
<1>2. DOMAIN b = DOMAIN a \cup {key}
  BY <1>1
<1>3. \A k \in DOMAIN b : b[k] = IF k = key THEN value ELSE a[k]
  OBVIOUS
<1> QED
  BY <1>2, <1>3 DEF Map!Put

LEMMA WithoutIs ==
    ASSUME NEW a, NEW b, NEW key, b = [k \in DOMAIN b |-> b[k]],
           \A k, v : k \in DOMAIN b /\ v = b[k] <=>
                        k # key /\ k \in DOMAIN a /\ v = a[k]
    PROVE  b = Map!Without(a, key)
<1>1. \A k : k \in DOMAIN b <=> k # key /\ k \in DOMAIN a
  <2> TAKE k
  <2>1. k \in DOMAIN b <=> \E v : k \in DOMAIN b /\ v = b[k]
    OBVIOUS
  <2>2. k \in DOMAIN a <=> \E v : k \in DOMAIN a /\ v = a[k]
    OBVIOUS
  <2> QED
    BY <2>1, <2>2
<1>2. DOMAIN b = DOMAIN a \ {key}
  BY <1>1
<1>3. \A k \in DOMAIN b : b[k] = a[k]
  OBVIOUS
<1> QED
  BY <1>2, <1>3 DEF Map!Without

LEMMA NothingIs ==
    ASSUME NEW b, b = [k \in DOMAIN b |-> b[k]], \A k, v : ~(k \in DOMAIN b /\ v = b[k])
    PROVE  b = << >>
<1>1. DOMAIN b = {}
  OBVIOUS
<1> QED
  BY <1>1

LEMMA MapStep ==
    ASSUME TableInv, [TableNext]_tableVars
    PROVE  [Map!Next]_(<<entries, refused>>)
<1> DEFINE known == /\ entries' = [k \in DOMAIN entries' |-> entries'[k]]
                    /\ \A k, v : Holds(slots, k, v)' <=>
                                    k \in DOMAIN entries' /\ v = entries'[k]
<1>1. ASSUME NEW key \in Keys, NEW value \in Values, Insert(key, value)
      PROVE  Map!Insert(key, value)
  <2>1. known
    BY <1>1, InsertHolds, EntriesTellAfter
  <2>2. CASE Room(key)
    <3>1. Adds(key, value)
      BY <1>1, <2>2, InsertHolds
    <3>2. \A k, v : k \in DOMAIN entries' /\ v = entries'[k] <=>
                       IF k = key THEN v = value ELSE k \in DOMAIN entries /\ v = entries[k]
      BY <2>1, <3>1, EntriesTell DEF Adds
    <3>3. entries' = Map!Put(entries, key, value)
      <4>1. PICK a, b : a = entries /\ b = entries'
        OBVIOUS
      <4>2. b = [k \in DOMAIN b |-> b[k]]
        BY <2>1, <4>1
      <4>3. \A k, v : k \in DOMAIN b /\ v = b[k] <=>
                         IF k = key THEN v = value ELSE k \in DOMAIN a /\ v = a[k]
        BY <3>2, <4>1
      <4>4. b = Map!Put(a, key, value)
        BY <4>2, <4>3, PutIs
      <4> QED
        BY <4>1, <4>4
    <3> QED
      BY <1>1, <2>2, <3>3, RoomsAgree DEF Map!Insert, Map!With, Insert, entries
  <2>3. CASE ~Room(key)
    <3>1. slots' = slots /\ home' = home
      BY <1>1, <2>3 DEF Insert
    <3>2. entries' = entries
      BY <3>1 DEF entries, Has, Find, Probe, After
    <3> QED
      BY <1>1, <2>3, <3>2, RoomsAgree DEF Map!Insert, Map!With, Insert, entries
  <2> QED
    BY <2>2, <2>3
<1>2. ASSUME NEW key \in Keys, Erase(key) PROVE Map!Erase(key)
  <2>1. known /\ Takes(key)
    BY <1>2, EraseHolds, EntriesTellAfter
  <2>2. \A k, v : k \in DOMAIN entries' /\ v = entries'[k] <=>
                     k # key /\ k \in DOMAIN entries /\ v = entries[k]
    BY <2>1, EntriesTell DEF Takes
  <2>3. entries' = Map!Without(entries, key)
    <3>1. PICK a, b : a = entries /\ b = entries'
      OBVIOUS
    <3>2. b = [k \in DOMAIN b |-> b[k]]
      BY <2>1, <3>1
    <3>3. \A k, v : k \in DOMAIN b /\ v = b[k] <=> k # key /\ k \in DOMAIN a /\ v = a[k]
      BY <2>2, <3>1
    <3>4. b = Map!Without(a, key)
      BY <3>2, <3>3, WithoutIs
    <3> QED
      BY <3>1, <3>4
  <2> QED
    BY <1>2, <2>3 DEF Map!Erase, Erase, entries
<1>3. ASSUME Clear PROVE Map!Clear
  <2>1. known /\ \A k, w : ~Holds(slots, k, w)'
    BY <1>3, ClearHolds, EntriesTellAfter
  <2>2. entries' = << >>
    BY <2>1, NothingIs
  <2> QED
    BY <1>3, <2>2 DEF Map!Clear, Clear, entries
<1>4. ASSUME UNCHANGED tableVars PROVE UNCHANGED <<entries, refused>>
  <2>1. slots' = slots /\ home' = home /\ refused' = refused
    BY <1>4 DEF tableVars
  <2>2. entries' = entries
    BY <2>1 DEF entries, Has, Find, Probe, After
  <2> QED
    BY <2>1, <2>2
<1> QED
  BY <1>1, <1>2, <1>3, <1>4 DEF TableNext, Map!Next

(* Whatever collides, the table is the bounded map the books and the routing index    *)
(* assume: find agrees with it, an insert of a new key is refused exactly at the load *)
(* limit and an update never, and an erase takes out the one key it is asked to.      *)
THEOREM TableIsMap == TableSpec => ImplementsMap
<1>1. TableInit => Map!Init
  <2> SUFFICES ASSUME TableInit PROVE Map!Init
    OBVIOUS
  <2>1. TableInv
    BY TableInitHolds
  <2>2. \A k, v : ~Holds(slots, k, v)
    BY DEF TableInit, Holds, Used, Blank
  <2>3. entries = << >>
    BY <2>1, <2>2, EntriesTell, NothingIs
  <2> QED
    BY <2>3 DEF Map!Init, TableInit, entries
<1>2. TableInv /\ [TableNext]_tableVars => [Map!Next]_Map!vars
  BY MapStep DEF Map!vars, entries
<1> QED
  BY <1>1, <1>2, TableIsSound, PTL DEF TableSpec, ImplementsMap, Map!Spec

=============================================================================

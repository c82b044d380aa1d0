----------------------------- MODULE Itch_proofs -----------------------------
(************************************************************************************************)
(* What is read of a feed, and what is made of it: ItchCosim, the reader and the                *)
(* hardware parser that it clocks, for files of any number of frames of any types               *)
(* and lengths, whole or cut off; and ItchStat with the ExtractTape it extends, for             *)
(* every set of orders, symbols and sizes, and an index of any size.                            *)
(*                                                                                              *)
(* The argument for the parser.  The counters of the reader are what its frames up              *)
(* to the cursor add up to (ReadTo, StoppedAt).  The parser is at byte k of a frame f           *)
(* (ParsedTo): each accumulator holds the last bytes of its window that came before             *)
(* byte k, and below them whatever an earlier frame left (RegsHold).  A message of the          *)
(* right length has filled the windows its type selects, so at its end they are the views       *)
(* of the C++ reader (SelectedIsView), and what the bench has sampled is what the reader        *)
(* handed out of the frames before (Sampled).                                                   *)
(*                                                                                              *)
(* The argument for the tapes.  Until the index turns an order down or a reference is given     *)
(* to two orders, neither of which is ever taken back, it is the market as the slice shows it   *)
(* (RouteIsMarket), and each tape replays to the orders whose target it is (TapesFollow),       *)
(* because an order's target is fixed when it is added and a replacement inherits it.  The      *)
(* argument for the gate.  With nothing charged but duplicates the table of itch_stat runs the  *)
(* same operations on the same keys as the index (Clean, InStep); an oversized reduction is the *)
(* one event that they treat differently, and leaves orders behind in the table, which then has *)
(* everything that the index has, and so no more room than it (Covers).                         *)
(************************************************************************************************)
EXTENDS ItchStat, ItchCosim, FiniteSets, FiniteSetTheorems, WellFoundedInduction, TLAPS

(* The file the reader and the parser are given. *)
IsFile(s, c) ==
    /\ s \in Seq({s[f] : f \in DOMAIN s})
    /\ \A f \in 1..Len(s) : s[f].len \in Nat /\ s[f].len < 65536
    /\ c \in Nat
    /\ \A f \in 1..Len(s) : f = Len(s) => c <= 2 + s[f].len

-----------------------------------------------------------------------------
(* Induction, for a set in the place of a predicate. *)

LEMMA LeastNat ==
    ASSUME NEW T \in SUBSET Nat, T # {}
    PROVE  \E n \in T : \A m \in T : n <= m
<1> DEFINE R == OpToRel(<, Nat)
<1>1. IsWellFoundedOn(R, Nat)
  BY NatLessThanWellFounded
<1>2. \A x, y \in Nat : <<x, y>> \in R <=> x < y
  BY DEF OpToRel
<1> HIDE DEF R
<1>3. PICK n \in T : \A m \in T : ~(<<m, n>> \in R)
  BY <1>1, WFMin
<1>4. \A m \in T : ~(m < n)
  BY <1>2, <1>3
<1> QED
  BY <1>4

LEMMA SetInduction ==
    ASSUME NEW T, 0 \in T, \A n \in Nat : n \in T => n + 1 \in T
    PROVE  Nat \subseteq T
<1> SUFFICES ASSUME Nat \ T # {} PROVE FALSE
  OBVIOUS
<1>1. PICK n \in Nat \ T : \A m \in Nat \ T : n <= m
  BY LeastNat
<1>2. n # 0 /\ n - 1 \in Nat
  BY <1>1
<1>3. n - 1 \in T
  BY <1>1, <1>2
<1> QED
  BY <1>1, <1>2, <1>3

-----------------------------------------------------------------------------
(* The sizes of a file's beginnings, and its sound frames, one frame at a time.  The *)
(* recursive functions exist, and those over two ranges agree where both are given.  *)

IsSize(g, s, c, n) ==
    g = [f \in 0..n |-> IF f = 0 THEN 0 ELSE g[f - 1] + Available(s, c, f)]

LEMMA SizeExists ==
    ASSUME NEW s, NEW c, NEW n \in Nat
    PROVE  \E g : IsSize(g, s, c, n)
<1> DEFINE T == {m \in Nat : \E g : IsSize(g, s, c, m)}
<1>1. 0 \in T
  <2> DEFINE g == [f \in {0} |-> 0]
  <2>1. IsSize(g, s, c, 0)
    BY DEF IsSize
  <2> QED
    BY <2>1
<1>2. ASSUME NEW m \in Nat, m \in T PROVE m + 1 \in T
  <2>1. PICK g : IsSize(g, s, c, m)
    BY <1>2
  <2> DEFINE h == [f \in 0..(m + 1) |-> IF f = m + 1 THEN g[m] + Available(s, c, f) ELSE g[f]]
  <2>2. ASSUME NEW f \in 0..(m + 1)
        PROVE  h[f] = IF f = 0 THEN 0 ELSE h[f - 1] + Available(s, c, f)
    <3>1. f \in 0..m => g[f] = IF f = 0 THEN 0 ELSE g[f - 1] + Available(s, c, f)
      BY <2>1 DEF IsSize
    <3> QED
      BY <3>1
  <2>3. IsSize(h, s, c, m + 1)
    BY <2>2 DEF IsSize
  <2> QED
    BY <2>3
<1> HIDE DEF T
<1>3. n \in T
  BY <1>1, <1>2, SetInduction
<1> QED
  BY <1>3 DEF T

LEMMA SizesAgree ==
    ASSUME NEW s, NEW c, NEW n \in Nat, NEW m \in Nat, NEW g, NEW h,
           IsSize(g, s, c, n), IsSize(h, s, c, m), NEW k \in Nat, k <= n, k <= m
    PROVE  g[k] = h[k]
<1> DEFINE T == {i \in Nat : i <= k => g[i] = h[i]}
<1>1. 0 \in T
  <2>1. g[0] = 0 /\ h[0] = 0
    BY DEF IsSize
  <2> QED
    BY <2>1
<1>2. ASSUME NEW i \in Nat, i \in T PROVE i + 1 \in T
  <2> SUFFICES ASSUME i + 1 <= k PROVE g[i + 1] = h[i + 1]
    OBVIOUS
  <2>1. g[i] = h[i]
    BY <1>2
  <2>2. i + 1 \in 0..n /\ i + 1 \in 0..m /\ i + 1 # 0 /\ (i + 1) - 1 = i
    OBVIOUS
  <2>3. g[i + 1] = g[i] + Available(s, c, i + 1) /\ h[i + 1] = h[i] + Available(s, c, i + 1)
    BY <2>2 DEF IsSize
  <2> QED
    BY <2>1, <2>3
<1> HIDE DEF T
<1>3. k \in T
  BY <1>1, <1>2, SetInduction
<1> QED
  BY <1>3 DEF T

LEMMA SizeStep ==
    ASSUME NEW s, NEW c, NEW n \in Nat
    PROVE  /\ SizeUpTo(s, c, 0) = 0
           /\ SizeUpTo(s, c, n + 1) = SizeUpTo(s, c, n) + Available(s, c, n + 1)
<1>1. ASSUME NEW m \in Nat
      PROVE  \E g : IsSize(g, s, c, m) /\ SizeUpTo(s, c, m) = g[m]
  <2> DEFINE size == CHOOSE g : IsSize(g, s, c, m)
  <2>1. IsSize(size, s, c, m)
    BY SizeExists
  <2>2. SizeUpTo(s, c, m) = size[m]
    BY DEF SizeUpTo, IsSize
  <2> QED
    BY <2>1, <2>2
<1>2. PICK g0 : IsSize(g0, s, c, 0) /\ SizeUpTo(s, c, 0) = g0[0]
  BY <1>1
<1>3. PICK g : IsSize(g, s, c, n) /\ SizeUpTo(s, c, n) = g[n]
  BY <1>1
<1>4. PICK h : IsSize(h, s, c, n + 1) /\ SizeUpTo(s, c, n + 1) = h[n + 1]
  BY <1>1
<1>5. g0[0] = 0
  BY <1>2 DEF IsSize
<1>6. n + 1 \in 0..(n + 1) /\ n + 1 # 0 /\ (n + 1) - 1 = n
  OBVIOUS
<1>7. h[n + 1] = h[n] + Available(s, c, n + 1)
  BY <1>4, <1>6 DEF IsSize
<1>8. g[n] = h[n]
  BY <1>3, <1>4, SizesAgree
<1> QED
  BY <1>2, <1>3, <1>4, <1>5, <1>7, <1>8

IsSound(g, s, n) ==
    g = [f \in 0..n |-> IF f = 0 THEN << >>
                        ELSE IF LongEnough(s[f]) THEN Append(g[f - 1], f) ELSE g[f - 1]]

LEMMA SoundExists ==
    ASSUME NEW s, NEW n \in Nat
    PROVE  \E g : IsSound(g, s, n)
<1> DEFINE T == {m \in Nat : \E g : IsSound(g, s, m)}
<1>1. 0 \in T
  <2> DEFINE g == [f \in {0} |-> << >>]
  <2>1. IsSound(g, s, 0)
    BY DEF IsSound
  <2> QED
    BY <2>1
<1>2. ASSUME NEW m \in Nat, m \in T PROVE m + 1 \in T
  <2>1. PICK g : IsSound(g, s, m)
    BY <1>2
  <2> DEFINE next == IF LongEnough(s[m + 1]) THEN Append(g[m], m + 1) ELSE g[m]
             h == [f \in 0..(m + 1) |-> IF f = m + 1 THEN next ELSE g[f]]
  <2>2. ASSUME NEW f \in 0..(m + 1)
        PROVE  h[f] = IF f = 0 THEN << >>
                      ELSE IF LongEnough(s[f]) THEN Append(h[f - 1], f) ELSE h[f - 1]
    <3>1. f \in 0..m => g[f] = IF f = 0 THEN << >>
                               ELSE IF LongEnough(s[f]) THEN Append(g[f - 1], f) ELSE g[f - 1]
      BY <2>1 DEF IsSound
    <3> QED
      BY <3>1
  <2>3. IsSound(h, s, m + 1)
    BY <2>2 DEF IsSound
  <2> QED
    BY <2>3
<1> HIDE DEF T
<1>3. n \in T
  BY <1>1, <1>2, SetInduction
<1> QED
  BY <1>3 DEF T

LEMMA SoundsAgree ==
    ASSUME NEW s, NEW n \in Nat, NEW m \in Nat, NEW g, NEW h,
           IsSound(g, s, n), IsSound(h, s, m), NEW k \in Nat, k <= n, k <= m
    PROVE  g[k] = h[k]
<1> DEFINE T == {i \in Nat : i <= k => g[i] = h[i]}
<1>1. 0 \in T
  <2>1. g[0] = << >> /\ h[0] = << >>
    BY DEF IsSound
  <2> QED
    BY <2>1
<1>2. ASSUME NEW i \in Nat, i \in T PROVE i + 1 \in T
  <2> SUFFICES ASSUME i + 1 <= k PROVE g[i + 1] = h[i + 1]
    OBVIOUS
  <2>1. g[i] = h[i]
    BY <1>2
  <2>2. i + 1 \in 0..n /\ i + 1 \in 0..m /\ i + 1 # 0 /\ (i + 1) - 1 = i
    OBVIOUS
  <2>3. /\ g[i + 1] = IF LongEnough(s[i + 1]) THEN Append(g[i], i + 1) ELSE g[i]
        /\ h[i + 1] = IF LongEnough(s[i + 1]) THEN Append(h[i], i + 1) ELSE h[i]
    BY <2>2 DEF IsSound
  <2> QED
    BY <2>1, <2>3
<1> HIDE DEF T
<1>3. k \in T
  BY <1>1, <1>2, SetInduction
<1> QED
  BY <1>3 DEF T

LEMMA SoundStep ==
    ASSUME NEW s, NEW n \in Nat
    PROVE  /\ Sound(s, 0) = << >>
           /\ Sound(s, n + 1) = IF LongEnough(s[n + 1]) THEN Append(Sound(s, n), n + 1)
                                ELSE Sound(s, n)
<1>1. ASSUME NEW m \in Nat
      PROVE  \E g : IsSound(g, s, m) /\ Sound(s, m) = g[m]
  <2> DEFINE sound == CHOOSE g : IsSound(g, s, m)
  <2>1. IsSound(sound, s, m)
    BY SoundExists
  <2>2. Sound(s, m) = sound[m]
    BY DEF Sound, IsSound
  <2> QED
    BY <2>1, <2>2
<1>2. PICK g0 : IsSound(g0, s, 0) /\ Sound(s, 0) = g0[0]
  BY <1>1
<1>3. PICK g : IsSound(g, s, n) /\ Sound(s, n) = g[n]
  BY <1>1
<1>4. PICK h : IsSound(h, s, n + 1) /\ Sound(s, n + 1) = h[n + 1]
  BY <1>1
<1>5. g0[0] = << >>
  BY <1>2 DEF IsSound
<1>6. n + 1 \in 0..(n + 1) /\ n + 1 # 0 /\ (n + 1) - 1 = n
  OBVIOUS
<1>7. h[n + 1] = IF LongEnough(s[n + 1]) THEN Append(h[n], n + 1) ELSE h[n]
  BY <1>4, <1>6 DEF IsSound
<1>8. g[n] = h[n]
  BY <1>3, <1>4, SoundsAgree
<1> QED
  BY <1>2, <1>3, <1>4, <1>5, <1>7, <1>8

(* The sound frames are those of the beginning that are long enough, each by its number. *)
AreSound(q, s, n) ==
    /\ q \in Seq(1..n)
    /\ \A f \in 1..n : LongEnough(s[f]) => \E i \in 1..Len(q) : q[i] = f
    /\ \A i \in 1..Len(q) : LongEnough(s[q[i]])

LEMMA SoundFrames ==
    ASSUME NEW s, NEW n \in Nat
    PROVE  AreSound(Sound(s, n), s, n)
<1> DEFINE T == {m \in Nat : AreSound(Sound(s, m), s, m)}
<1>1. 0 \in T
  <2>1. << >> \in Seq(1..0) /\ 1..0 = {} /\ 1..Len(<< >>) = {}
    OBVIOUS
  <2>2. AreSound(<< >>, s, 0)
    BY <2>1 DEF AreSound
  <2> QED
    BY <2>2, SoundStep
<1>2. ASSUME NEW m \in Nat, m \in T PROVE m + 1 \in T
  <2>1. PICK q : q = Sound(s, m) /\ AreSound(q, s, m)
    BY <1>2
  <2>2. q \in Seq(1..m) /\ q \in Seq(1..(m + 1)) /\ Len(q) \in Nat
    BY <2>1 DEF AreSound
  <2>3. CASE LongEnough(s[m + 1])
    <3>1. PICK r : r = Append(q, m + 1)
      OBVIOUS
    <3>2. m + 1 \in 1..(m + 1)
      OBVIOUS
    <3>3. r \in Seq(1..(m + 1)) /\ Len(r) = Len(q) + 1
      BY <2>2, <3>1, <3>2
    <3>4. r[Len(q) + 1] = m + 1
      BY <2>2, <3>1, <3>2
    <3>5. \A i \in 1..Len(q) : r[i] = q[i]
      BY <2>2, <3>1, <3>2
    <3>6. \A i \in 1..Len(r) : i = Len(q) + 1 \/ i \in 1..Len(q)
      BY <2>2, <3>3
    <3>7. Len(q) + 1 \in 1..Len(r) /\ \A i \in 1..Len(q) : i \in 1..Len(r)
      BY <2>2, <3>3
    <3>8. ASSUME NEW f \in 1..(m + 1), LongEnough(s[f])
          PROVE  \E i \in 1..Len(r) : r[i] = f
      <4>1. CASE f = m + 1
        BY <3>4, <3>7, <4>1
      <4>2. CASE f # m + 1
        <5>1. PICK i \in 1..Len(q) : q[i] = f
          BY <2>1, <3>8, <4>2 DEF AreSound
        <5> QED
          BY <3>5, <3>7, <5>1
      <4> QED
        BY <4>1, <4>2
    <3>9. ASSUME NEW i \in 1..Len(r) PROVE LongEnough(s[r[i]])
      BY <2>1, <2>3, <3>4, <3>5, <3>6 DEF AreSound
    <3>10. AreSound(r, s, m + 1)
      BY <3>3, <3>8, <3>9 DEF AreSound
    <3> QED
      BY <2>1, <2>3, <3>1, <3>10, SoundStep
  <2>4. CASE ~LongEnough(s[m + 1])
    <3>1. \A f \in 1..(m + 1) : f = m + 1 \/ f \in 1..m
      OBVIOUS
    <3>2. AreSound(q, s, m + 1)
      BY <2>1, <2>2, <2>4, <3>1 DEF AreSound
    <3> QED
      BY <2>1, <2>4, <3>2, SoundStep
  <2> QED
    BY <2>3, <2>4
<1> HIDE DEF T
<1>3. n \in T
  BY <1>1, <1>2, SetInduction
<1> QED
  BY <1>3 DEF T

(* The frames that are counted as short: of a length, but not long enough. *)
Shorts(s, n) == {f \in 1..n : s[f].len > 0 /\ ~LongEnough(s[f])}

LEMMA ShortsStep ==
    ASSUME NEW s, NEW n \in Nat, s[n + 1].len \in Nat
    PROVE  /\ Cardinality(Shorts(s, n)) \in Nat
           /\ Cardinality(Shorts(s, 0)) = 0
           /\ Cardinality(Shorts(s, n + 1)) =
                 IF s[n + 1].len > 0 /\ ~LongEnough(s[n + 1])
                 THEN Cardinality(Shorts(s, n)) + 1 ELSE Cardinality(Shorts(s, n))
<1>1. IsFiniteSet(Shorts(s, n))
  <2>1. IsFiniteSet(1..n)
    BY FS_Interval
  <2> QED
    BY <2>1, FS_Subset DEF Shorts
<1>2. Cardinality(Shorts(s, n)) \in Nat
  BY <1>1, FS_CardinalityType
<1>3. Shorts(s, 0) = {}
  BY DEF Shorts
<1>4. CASE s[n + 1].len > 0 /\ ~LongEnough(s[n + 1])
  <2>1. Shorts(s, n + 1) = Shorts(s, n) \cup {n + 1} /\ n + 1 \notin Shorts(s, n)
    BY <1>4 DEF Shorts
  <2>2. Cardinality(Shorts(s, n) \cup {n + 1}) = Cardinality(Shorts(s, n)) + 1
    BY <1>1, <2>1, FS_AddElement
  <2>3. Cardinality(Shorts(s, 0)) = 0
    BY <1>3, FS_EmptySet
  <2> QED
    BY <1>2, <1>4, <2>1, <2>2, <2>3
<1>5. CASE ~(s[n + 1].len > 0 /\ ~LongEnough(s[n + 1]))
  <2>1. Shorts(s, n + 1) = Shorts(s, n)
    BY <1>5 DEF Shorts
  <2> QED
    BY <1>2, <1>3, <1>5, <2>1, FS_EmptySet
<1> QED
  BY <1>4, <1>5

-----------------------------------------------------------------------------
(* Where a pass has to end, and how the size grows. *)

IsStop(s, c, n) ==
    /\ n \in 1..(Len(s) + 1)
    /\ \A f \in 1..(n - 1) : s[f].len > 0 /\ Whole(s, c, f)
    /\ n = Len(s) + 1 \/ s[n].len = 0 \/ ~Whole(s, c, n)

LEMMA FileFacts ==
    ASSUME NEW s, NEW c, IsFile(s, c)
    PROVE  /\ Len(s) \in Nat
           /\ \A f \in 1..Len(s) : /\ s[f].len \in Nat /\ s[f].len < 65536
                                   /\ Available(s, c, f) \in Nat
                                   /\ f < Len(s) => Available(s, c, f) = 2 + s[f].len
                                   /\ Whole(s, c, f) <=> (f = Len(s) => c = 0)
<1>1. Len(s) \in Nat
  <2>1. PICK S : s \in Seq(S)
    BY DEF IsFile
  <2> QED
    BY <2>1
<1>2. ASSUME NEW f \in 1..Len(s)
      PROVE  /\ s[f].len \in Nat /\ s[f].len < 65536
             /\ Available(s, c, f) \in Nat
             /\ f < Len(s) => Available(s, c, f) = 2 + s[f].len
             /\ Whole(s, c, f) <=> (f = Len(s) => c = 0)
  <2>1. s[f].len \in Nat /\ s[f].len < 65536 /\ c \in Nat
    BY DEF IsFile
  <2>2. CASE f = Len(s)
    <3>1. c <= 2 + s[f].len
      BY <2>2 DEF IsFile
    <3> QED
      BY <2>1, <2>2, <3>1 DEF Available, Whole
  <2>3. CASE f # Len(s)
    BY <2>1, <2>3 DEF Available, Whole
  <2> QED
    BY <2>2, <2>3
<1> QED
  BY <1>1, <1>2

LEMMA OneStop ==
    ASSUME NEW s, NEW c, Len(s) \in Nat, NEW n, NEW m, IsStop(s, c, n), IsStop(s, c, m)
    PROVE  n = m
  BY DEF IsStop

LEMMA SizesGrow ==
    ASSUME NEW s, NEW c, IsFile(s, c), NEW m \in 0..Len(s), NEW n \in 0..Len(s), m <= n
    PROVE  /\ SizeUpTo(s, c, n) \in Nat
           /\ m < n => SizeUpTo(s, c, n) >= SizeUpTo(s, c, m) + Available(s, c, m + 1)
<1> DEFINE T == {i \in Nat : i <= Len(s) =>
                   /\ SizeUpTo(s, c, i) \in Nat
                   /\ m < i => SizeUpTo(s, c, i) >= SizeUpTo(s, c, m) + Available(s, c, m + 1)}
<1> DEFINE U == {i \in Nat : i <= Len(s) => SizeUpTo(s, c, i) \in Nat}
<1>1. 0 \in U
  BY SizeStep
<1>2. ASSUME NEW i \in Nat, i \in U PROVE i + 1 \in U
  <2> SUFFICES ASSUME i + 1 <= Len(s) PROVE SizeUpTo(s, c, i + 1) \in Nat
    OBVIOUS
  <2>1. SizeUpTo(s, c, i) \in Nat
    BY <1>2, FileFacts
  <2>2. i + 1 \in 1..Len(s)
    BY FileFacts
  <2>3. Available(s, c, i + 1) \in Nat
    BY <2>2, FileFacts
  <2>4. SizeUpTo(s, c, i + 1) = SizeUpTo(s, c, i) + Available(s, c, i + 1)
    BY SizeStep
  <2> QED
    BY <2>1, <2>3, <2>4
<1>3. Nat \subseteq U
  <2> HIDE DEF U
  <2> QED
    BY <1>1, <1>2, SetInduction
<1>4. \A i \in 0..Len(s) : SizeUpTo(s, c, i) \in Nat
  BY <1>3, FileFacts
<1> HIDE DEF U
<1>5. 0 \in T
  BY <1>4, FileFacts
<1>6. ASSUME NEW i \in Nat, i \in T PROVE i + 1 \in T
  <2> SUFFICES ASSUME i + 1 <= Len(s), m < i + 1
               PROVE  SizeUpTo(s, c, i + 1) >= SizeUpTo(s, c, m) + Available(s, c, m + 1)
    BY <1>4, FileFacts
  <2>1. SizeUpTo(s, c, i + 1) = SizeUpTo(s, c, i) + Available(s, c, i + 1)
    BY SizeStep
  <2>2. Available(s, c, i + 1) \in Nat /\ Available(s, c, m + 1) \in Nat
    BY FileFacts
  <2>3. SizeUpTo(s, c, i) \in Nat /\ SizeUpTo(s, c, m) \in Nat
    BY <1>4, FileFacts
  <2>4. CASE m = i
    BY <2>1, <2>2, <2>3, <2>4
  <2>5. CASE m # i
    <3>1. SizeUpTo(s, c, i) >= SizeUpTo(s, c, m) + Available(s, c, m + 1)
      BY <1>6, <2>5, FileFacts
    <3> QED
      BY <2>1, <2>2, <2>3, <3>1
  <2> QED
    BY <2>4, <2>5
<1>7. Nat \subseteq T
  <2> HIDE DEF T
  <2> QED
    BY <1>5, <1>6, SetInduction
<1> QED
  BY <1>7, FileFacts

-----------------------------------------------------------------------------
(* The reader.  It has looked at the frames before n, all of them whole and of some *)
(* length: it has handed out the sound ones and counted the others.                 *)

ReadTo(n) ==
    /\ n \in 1..(Len(stream) + 1)
    /\ \A f \in 1..(n - 1) : stream[f].len > 0 /\ Whole(stream, cut, f)
    /\ handed = Sound(stream, n - 1)
    /\ stats.messages = n - 1 /\ Len(handed) + stats.short = n - 1
    /\ stats.short = Cardinality(Shorts(stream, n - 1))
    /\ stats.mismatch = 0 =>
          \A f \in 1..(n - 1) : stream[f].len >= HeaderLength =>
                                    SpecLength(stream[f].type) \in {0, stream[f].len}

(* The bytes of a frame that is a terminator are consumed, of a broken one are not. *)
EndsClean(n) == n = Len(stream) /\ stream[n].len = 0 /\ Whole(stream, cut, n)

Counted == {"messages", "bytes", "unknown", "mismatch", "truncated", "zero", "short"}

Reading == /\ ReadTo(cur) /\ stats.bytes = SizeUpTo(stream, cut, cur - 1)
           /\ stats.zero = 0 /\ stats.truncated = 0

StoppedAt(n) ==
    /\ IsStop(stream, cut, n) /\ ReadTo(n)
    /\ stats.bytes = SizeUpTo(stream, cut, n - 1) + (IF EndsClean(n) THEN 2 ELSE 0)
    /\ n < Len(stream) => stats.zero = 1
    /\ n = Len(stream) /\ Available(stream, cut, n) >= 2 /\ stream[n].len > 0
          => stats.truncated = 1

ReaderInv == /\ IsFile(stream, cut) /\ stats \in [Counted -> Nat]
             /\ ~stopped => Reading
             /\ stopped => \E n \in Nat : StoppedAt(n)

LEMMA SpecLengthNat == \A type : SpecLength(type) \in Nat
  BY DEF SpecLength

LEMMA TooShortIsNotSound ==
    ASSUME Frame.len \in Nat PROVE TooShort <=> ~LongEnough(Frame)
<1>1. PICK l \in Nat : l = SpecLength(Frame.type)
  BY SpecLengthNat
<1>2. TooShort <=> Frame.len < HeaderLength \/ (l \notin {0, Frame.len} /\ Frame.len < l)
  BY <1>1 DEF TooShort, Mismatch
<1>3. LongEnough(Frame) <=> Frame.len >= HeaderLength /\ Frame.len >= l
  BY <1>1 DEF LongEnough
<1>4. HeaderLength = 11
  BY DEF HeaderLength
<1> QED
  BY <1>1, <1>2, <1>3, <1>4

LEMMA ReaderStart ==
    ASSUME IsFile(stream, cut), ReaderInit PROVE ReaderInv
<1>1. stats \in [Counted -> Nat]
  BY DEF ReaderInit, Counted
<1>2. Reading
  <2>1. /\ Len(stream) \in Nat /\ cur - 1 = 0 /\ handed = << >> /\ Len(handed) = 0
        /\ stats.messages = 0 /\ stats.short = 0 /\ stats.bytes = 0
        /\ stats.zero = 0 /\ stats.truncated = 0
    BY FileFacts DEF ReaderInit
  <2>2. Sound(stream, 0) = << >> /\ SizeUpTo(stream, cut, 0) = 0
    BY SoundStep, SizeStep
  <2>3. Shorts(stream, 0) = {} /\ Cardinality({}) = 0
    BY FS_EmptySet DEF Shorts
  <2>4. 1..0 = {} /\ cur = 1 /\ 1 - 1 = 0 /\ 1 \in 1..(Len(stream) + 1)
    BY <2>1 DEF ReaderInit
  <2>5. ReadTo(1)
    <3>1. /\ handed = Sound(stream, 1 - 1) /\ stats.messages = 1 - 1
          /\ Len(handed) + stats.short = 1 - 1
      BY <2>1, <2>2
    <3>2. stats.short = Cardinality(Shorts(stream, 1 - 1))
      <4>1. Shorts(stream, 1 - 1) = {}
        BY <2>3
      <4> QED
        BY <2>1, <2>3, <4>1
    <3>3. \A f \in 1..(1 - 1) : FALSE
      OBVIOUS
    <3> QED
      BY <2>4, <3>1, <3>2, <3>3 DEF ReadTo
  <2> QED
    BY <2>1, <2>2, <2>4, <2>5 DEF Reading
<1> QED
  BY <1>1, <1>2 DEF ReaderInv, ReaderInit

(* A frame that is all there is consumed, handed out or counted. *)
LEMMA ReadOn ==
    ASSUME ReaderInv, ~stopped, Complete, NEW counters,
           stats' = Count(Consumed, counters), "messages" \in counters,
           "bytes" \notin counters, "zero" \notin counters, "truncated" \notin counters,
           "short" \in counters <=> ~LongEnough(Frame),
           "mismatch" \notin counters /\ Frame.len >= HeaderLength => ~Mismatch,
           handed' = IF LongEnough(Frame) THEN Append(handed, cur) ELSE handed,
           cur' = cur + 1, UNCHANGED <<stream, cut, stopped>>
    PROVE  ReaderInv'
<1>1. /\ Reading /\ Len(stream) \in Nat /\ cur \in 1..Len(stream)
      /\ Frame = stream[cur] /\ Frame.len \in Nat /\ Frame.len > 0
      /\ Whole(stream, cut, cur) /\ stats \in [Counted -> Nat]
  BY FileFacts DEF ReaderInv, Complete, PrefixLeft, Frame, Reading, ReadTo
<1>2. stats' = [c \in Counted |->
                  LET before == IF c = "bytes" THEN stats[c] + 2 + Frame.len ELSE stats[c] IN
                  IF c \in counters THEN before + 1 ELSE before]
  BY <1>1 DEF Count, Consumed, Counted
<1>3. /\ stats' \in [Counted -> Nat]
      /\ stats'.messages = stats.messages + 1 /\ stats'.bytes = stats.bytes + 2 + Frame.len
      /\ stats'.zero = stats.zero /\ stats'.truncated = stats.truncated
      /\ stats'.short = IF LongEnough(Frame) THEN stats.short ELSE stats.short + 1
      /\ stats'.mismatch = IF "mismatch" \in counters THEN stats.mismatch + 1
                           ELSE stats.mismatch
  <2>1. \A c \in Counted : stats[c] \in Nat
    BY <1>1
  <2>2. stats' \in [Counted -> Nat]
    BY <1>1, <1>2, <2>1
  <2>3. /\ stats'["messages"] = stats["messages"] + 1
        /\ stats'["bytes"] = stats["bytes"] + 2 + Frame.len
        /\ stats'["zero"] = stats["zero"] /\ stats'["truncated"] = stats["truncated"]
        /\ stats'["short"] = IF LongEnough(Frame) THEN stats["short"] ELSE stats["short"] + 1
        /\ stats'["mismatch"] = IF "mismatch" \in counters THEN stats["mismatch"] + 1
                                ELSE stats["mismatch"]
    BY <1>2 DEF Counted
  <2> QED
    BY <2>2, <2>3
<1>4. stats.short \in Nat /\ stats.mismatch \in Nat /\ stats.messages \in Nat
  BY <1>1 DEF Counted
<1>5. PICK n \in Nat : n = cur - 1
  BY <1>1
<1>6. n + 1 = cur
  BY <1>1, <1>5
<1>7. ReadTo(cur)'
  <2>1. cur' \in 1..(Len(stream) + 1) /\ cur' - 1 = n + 1
    BY <1>1, <1>6
  <2>2. \A f \in 1..(n + 1) : stream[f].len > 0 /\ Whole(stream, cut, f)
    <3>1. \A f \in 1..n : stream[f].len > 0 /\ Whole(stream, cut, f)
      BY <1>1, <1>5 DEF Reading, ReadTo
    <3>2. stream[n + 1].len > 0 /\ Whole(stream, cut, n + 1)
      BY <1>1, <1>6
    <3>3. \A f \in 1..(n + 1) : f = n + 1 \/ f \in 1..n
      OBVIOUS
    <3> QED
      BY <3>1, <3>2, <3>3
  <2>3. handed' = Sound(stream, n + 1)
    BY <1>1, <1>5, <1>6, SoundStep DEF Reading, ReadTo
  <2>4. Len(handed') = IF LongEnough(Frame) THEN Len(handed) + 1 ELSE Len(handed)
    <3>1. handed \in Seq(1..n)
      BY <1>1, <1>5, SoundFrames DEF Reading, ReadTo, AreSound
    <3>2. handed \in Seq(Nat)
      BY <3>1
    <3> QED
      BY <1>1, <3>2
  <2>5. stats'.messages = n + 1
    BY <1>1, <1>3, <1>5 DEF Reading, ReadTo
  <2>6. Len(handed') + stats'.short = n + 1
    <3>1. Len(handed) \in Nat
      BY <1>1, <1>5, SoundFrames DEF Reading, ReadTo, AreSound
    <3> QED
      BY <1>1, <1>3, <1>4, <1>5, <2>4, <3>1 DEF Reading, ReadTo
  <2>7. stats'.short = Cardinality(Shorts(stream, n + 1))
    BY <1>1, <1>3, <1>5, <1>6, ShortsStep DEF Reading, ReadTo
  <2>8. ASSUME stats'.mismatch = 0, NEW f \in 1..(n + 1), stream[f].len >= HeaderLength
        PROVE  SpecLength(stream[f].type) \in {0, stream[f].len}
    <3>1. "mismatch" \notin counters /\ stats.mismatch = 0
      BY <1>3, <1>4, <2>8
    <3>2. CASE f = cur
      BY <1>1, <2>8, <3>1, <3>2 DEF Mismatch
    <3>3. CASE f # cur
      <4>1. f \in 1..(cur - 1)
        BY <1>5, <1>6, <3>3
      <4> QED
        BY <1>1, <2>8, <3>1, <4>1 DEF Reading, ReadTo
    <3> QED
      BY <3>2, <3>3
  <2> QED
    BY <1>5, <1>6, <2>1, <2>2, <2>3, <2>5, <2>6, <2>7, <2>8 DEF ReadTo
<1>8. stats'.bytes = SizeUpTo(stream, cut, n + 1)
  <2>1. Available(stream, cut, n + 1) = 2 + Frame.len
    BY <1>1, <1>6 DEF Whole
  <2>2. SizeUpTo(stream, cut, n + 1) = SizeUpTo(stream, cut, n) + (2 + Frame.len)
    BY <1>5, <2>1, SizeStep
  <2>3. stats.bytes = SizeUpTo(stream, cut, n) /\ stats.bytes \in Nat
    BY <1>1, <1>5 DEF Reading, Counted
  <2>4. PICK size \in Nat : size = SizeUpTo(stream, cut, n)
    BY <2>3
  <2>5. PICK body \in Nat : body = Frame.len
    BY <1>1
  <2>6. stats'.bytes = (size + 2) + body
    BY <1>3, <2>3, <2>4, <2>5
  <2>7. SizeUpTo(stream, cut, n + 1) = size + (2 + body)
    BY <2>2, <2>4, <2>5
  <2> QED
    BY <2>6, <2>7
<1> QED
  BY <1>1, <1>3, <1>5, <1>6, <1>7, <1>8 DEF ReaderInv, Reading

LEMMA ReaderStep == ReaderInv /\ ReaderNext => ReaderInv'
<1> SUFFICES ASSUME ReaderInv, ReaderNext PROVE ReaderInv'
  OBVIOUS
<1>1. CASE SkipShort
  <2>1. Frame.len \in Nat
    BY <1>1, FileFacts DEF SkipShort, Complete, PrefixLeft, Frame, ReaderInv, Reading, ReadTo
  <2>2. PICK counters : counters = {"short", "messages"}
                          \cup (IF Frame.len < HeaderLength THEN {} ELSE Diagnosed)
    OBVIOUS
  <2>3. /\ "bytes" \notin counters /\ "zero" \notin counters /\ "truncated" \notin counters
        /\ "messages" \in counters /\ "short" \in counters
        /\ "mismatch" \notin counters /\ Frame.len >= HeaderLength => ~Mismatch
    BY <2>1, <2>2 DEF Diagnosed, HeaderLength
  <2>4. ~LongEnough(Frame)
    BY <1>1, <2>1, TooShortIsNotSound DEF SkipShort
  <2> QED
    BY <1>1, <2>2, <2>3, <2>4, ReadOn DEF SkipShort, Complete
<1>2. CASE HandOut
  <2>1. Frame.len \in Nat
    BY <1>2, FileFacts DEF HandOut, Complete, PrefixLeft, Frame, ReaderInv, Reading, ReadTo
  <2>2. PICK counters : counters = {"messages"} \cup Diagnosed
    OBVIOUS
  <2>3. /\ "bytes" \notin counters /\ "zero" \notin counters /\ "truncated" \notin counters
        /\ "messages" \in counters /\ "short" \notin counters
        /\ "mismatch" \notin counters => ~Mismatch
    BY <2>2 DEF Diagnosed
  <2>4. LongEnough(Frame)
    BY <1>2, <2>1, TooShortIsNotSound DEF HandOut
  <2> QED
    BY <1>2, <2>2, <2>3, <2>4, ReadOn DEF HandOut, Complete
<1>3. ASSUME ~stopped, stopped', UNCHANGED <<stream, cut, handed>>,
             stats' \in [Counted -> Nat],
             stats'.messages = stats.messages, stats'.short = stats.short,
             stats'.mismatch = stats.mismatch,
             IsStop(stream, cut, cur),
             stats'.bytes = stats.bytes + (IF EndsClean(cur) THEN 2 ELSE 0),
             cur < Len(stream) => stats'.zero = 1,
             cur = Len(stream) /\ Available(stream, cut, cur) >= 2 /\ stream[cur].len > 0
                 => stats'.truncated = 1
      PROVE  ReaderInv'
  <2>1. PICK n : n = cur
    OBVIOUS
  <2>2. Reading /\ n \in Nat
    BY <1>3, <2>1 DEF ReaderInv, Reading, ReadTo
  <2>3. StoppedAt(n)'
    BY <1>3, <2>1, <2>2 DEF Reading, ReadTo, StoppedAt, EndsClean
  <2> QED
    BY <1>3, <2>2, <2>3 DEF ReaderInv
<1>4. ~stopped => /\ stats \in [Counted -> Nat] /\ Len(stream) \in Nat
                  /\ cur \in 1..(Len(stream) + 1) /\ stats.zero = 0 /\ stats.truncated = 0
                  /\ \A f \in 1..(cur - 1) : stream[f].len > 0 /\ Whole(stream, cut, f)
                  /\ IsFile(stream, cut)
  BY FileFacts DEF ReaderInv, Reading, ReadTo
<1>5. CASE NoPrefix
  <2>1. IsStop(stream, cut, cur) /\ ~EndsClean(cur)
    BY <1>4, <1>5, FileFacts DEF NoPrefix, PrefixLeft, IsStop, EndsClean, Whole
  <2>2. cur = Len(stream) \/ cur = Len(stream) + 1
    BY <1>4, <1>5, FileFacts DEF NoPrefix, PrefixLeft
  <2>3. stats.bytes \in Nat
    BY <1>4, <1>5 DEF NoPrefix, Counted
  <2> QED
    BY <1>3, <1>4, <1>5, <2>1, <2>2, <2>3 DEF NoPrefix, PrefixLeft
<1>6. CASE ZeroLength
  <2>1. cur \in 1..Len(stream) /\ stream[cur].len = 0 /\ Available(stream, cut, cur) >= 2
    BY <1>4, <1>6 DEF ZeroLength, PrefixLeft, Frame
  <2>2. IsStop(stream, cut, cur)
    BY <1>4, <2>1, <1>6 DEF ZeroLength, IsStop
  <2>3. CASE cur = Len(stream)
    <3>1. EndsClean(cur)
      BY <1>4, <1>6, <2>1, <2>3, FileFacts DEF ZeroLength, EndsClean, Whole, Available, IsFile
    <3>2. stats' = [stats EXCEPT !.bytes = @ + 2]
      BY <1>6, <2>3 DEF ZeroLength
    <3>3. /\ stats' \in [Counted -> Nat] /\ stats'.bytes = stats.bytes + 2
          /\ stats'.messages = stats.messages /\ stats'.short = stats.short
          /\ stats'.mismatch = stats.mismatch
      BY <1>4, <1>6, <3>2 DEF ZeroLength, Counted
    <3> QED
      BY <1>3, <1>6, <2>1, <2>2, <2>3, <3>1, <3>3 DEF ZeroLength
  <2>4. CASE cur # Len(stream)
    <3>1. ~EndsClean(cur)
      BY <2>4 DEF EndsClean
    <3>2. stats' = [c \in Counted |-> IF c = "zero" THEN stats[c] + 1 ELSE stats[c]]
      BY <1>4, <1>6, <2>4 DEF ZeroLength, Count
    <3>3. /\ stats' \in [Counted -> Nat] /\ stats'.zero = 1
          /\ stats'.bytes = stats.bytes + 0
          /\ stats'.messages = stats.messages /\ stats'.short = stats.short
          /\ stats'.mismatch = stats.mismatch
      BY <1>4, <1>6, <3>2 DEF ZeroLength, Counted
    <3> QED
      BY <1>3, <1>6, <2>1, <2>2, <2>4, <3>1, <3>3 DEF ZeroLength
  <2> QED
    BY <2>3, <2>4
<1>7. CASE Truncated
  <2>1. /\ cur \in 1..Len(stream) /\ stream[cur].len > 0 /\ ~Whole(stream, cut, cur)
        /\ cur = Len(stream)
    BY <1>4, <1>7, FileFacts DEF Truncated, PrefixLeft, Frame
  <2>2. IsStop(stream, cut, cur) /\ ~EndsClean(cur)
    BY <1>4, <2>1, <1>7 DEF Truncated, IsStop, EndsClean
  <2>3. stats' = [c \in Counted |-> IF c = "truncated" THEN stats[c] + 1 ELSE stats[c]]
    BY <1>4, <1>7 DEF Truncated, Count
  <2>4. /\ stats' \in [Counted -> Nat] /\ stats'.truncated = 1
        /\ stats'.bytes = stats.bytes + 0
        /\ stats'.messages = stats.messages /\ stats'.short = stats.short
        /\ stats'.mismatch = stats.mismatch
    BY <1>4, <1>7, <2>3 DEF Truncated, Counted
  <2> QED
    BY <1>3, <1>7, <2>1, <2>2, <2>4 DEF Truncated
<1> QED
  BY <1>1, <1>2, <1>5, <1>6, <1>7 DEF ReaderNext

LEMMA StopIs == ASSUME NEW n, Len(stream) \in Nat, IsStop(stream, cut, n) PROVE Stop = n
<1> DEFINE P(m) == /\ \A f \in 1..(m - 1) : stream[f].len > 0 /\ Whole(stream, cut, f)
                   /\ m = Len(stream) + 1 \/ stream[m].len = 0 \/ ~Whole(stream, cut, m)
<1>1. n \in 1..(Len(stream) + 1) /\ P(n)
  BY DEF IsStop
<1>2. \A m \in 1..(Len(stream) + 1) : P(m) => m = n
  BY OneStop DEF IsStop
<1>3. Stop = CHOOSE m \in 1..(Len(stream) + 1) : P(m)
  BY DEF Stop
<1> HIDE DEF P
<1> QED
  BY <1>1, <1>2, <1>3

(* The bytes of a pass that ended at n are those of the file if none is left over. *)
LEMMA AllBytes ==
    ASSUME IsFile(stream, cut), NEW n \in Nat, StoppedAt(n)
    PROVE  stats.bytes = FileSize <=> \/ n = Len(stream) + 1
                                      \/ n = Len(stream) /\ stream[n].len = 0 /\ cut = 0
                                      \/ n = Len(stream) /\ Available(stream, cut, n) = 0
<1>1. Len(stream) \in Nat /\ n \in 1..(Len(stream) + 1)
  BY FileFacts DEF StoppedAt, IsStop
<1>2. PICK m \in Nat : m = n - 1 /\ m + 1 = n
  BY <1>1
<1>3. PICK size \in Nat : size = SizeUpTo(stream, cut, m)
  BY <1>1, <1>2, SizesGrow
<1>4. stats.bytes = size + (IF EndsClean(n) THEN 2 ELSE 0)
  BY <1>2, <1>3 DEF StoppedAt
<1>5. CASE n = Len(stream) + 1
  <2>1. FileSize = size /\ ~EndsClean(n)
    BY <1>1, <1>2, <1>3, <1>5 DEF FileSize, EndsClean
  <2> QED
    BY <1>3, <1>4, <1>5, <2>1
<1>6. CASE n = Len(stream)
  <2>1. PICK more \in Nat : more = Available(stream, cut, n)
    BY <1>1, <1>6, FileFacts
  <2>2. FileSize = size + more
    BY <1>2, <1>3, <1>6, <2>1, SizeStep DEF FileSize
  <2>3. EndsClean(n) <=> stream[n].len = 0 /\ cut = 0
    BY <1>1, <1>6, FileFacts DEF EndsClean
  <2>4. EndsClean(n) => more = 2
    BY <1>6, <2>1 DEF EndsClean, Whole
  <2> QED
    BY <1>1, <1>3, <1>4, <1>6, <2>1, <2>2, <2>3, <2>4
<1>7. CASE n < Len(stream)
  <2>1. ~EndsClean(n)
    BY <1>1, <1>7 DEF EndsClean
  <2>2. PICK more \in Nat : more = Available(stream, cut, n) /\ more >= 2
    <3>1. n \in 1..Len(stream) /\ stream[n].len \in Nat
      BY <1>1, <1>7, FileFacts
    <3>2. Available(stream, cut, n) = 2 + stream[n].len
      BY <1>7, <3>1, FileFacts
    <3> QED
      BY <3>1, <3>2
  <2>3. m \in 0..Len(stream) /\ Len(stream) \in 0..Len(stream) /\ m < Len(stream)
    BY <1>1, <1>2, <1>7
  <2>4. FileSize \in Nat /\ FileSize >= size + more
    <3>1. PICK l : l = Len(stream)
      OBVIOUS
    <3>2. m \in 0..Len(stream) /\ l \in 0..Len(stream) /\ m < l /\ m <= l
      BY <2>3, <3>1
    <3>3. /\ SizeUpTo(stream, cut, l) \in Nat
          /\ SizeUpTo(stream, cut, l) >= SizeUpTo(stream, cut, m) + Available(stream, cut, m + 1)
      BY <3>2, SizesGrow
    <3> QED
      BY <1>2, <1>3, <2>2, <3>1, <3>3 DEF FileSize
  <2> QED
    BY <1>1, <1>3, <1>4, <1>7, <2>1, <2>2, <2>4
<1> QED
  BY <1>1, <1>5, <1>6, <1>7

LEMMA AccountsFollow == ReaderInv => PassIsAccounted
<1> SUFFICES ASSUME ReaderInv, stopped PROVE PassIsAccounted
  BY DEF PassIsAccounted
<1>1. PICK n \in Nat : StoppedAt(n)
  BY DEF ReaderInv
<1>2. IsFile(stream, cut) /\ Len(stream) \in Nat
  BY FileFacts DEF ReaderInv
<1>3. Stop = n /\ n \in 1..(Len(stream) + 1)
  BY <1>1, <1>2, StopIs DEF StoppedAt, IsStop
<1>4. /\ handed = Sound(stream, n - 1)
      /\ stats.messages = n - 1 /\ stats.messages = Len(handed) + stats.short
  BY <1>1 DEF StoppedAt, ReadTo
<1>5. stats.bytes = FileSize <=> \/ n = Len(stream) + 1
                                 \/ n = Len(stream) /\ stream[n].len = 0 /\ cut = 0
                                 \/ n = Len(stream) /\ Available(stream, cut, n) = 0
  BY <1>1, <1>2, AllBytes
<1>6. /\ n < Len(stream) => stats.zero = 1
      /\ n = Len(stream) /\ Available(stream, cut, n) >= 2 /\ stream[n].len > 0
             => stats.truncated = 1
  BY <1>1 DEF StoppedAt
<1> QED
  BY <1>3, <1>4, <1>5, <1>6 DEF PassIsAccounted

LEMMA GateFollows == ReaderInv => GateMeansRead
<1> SUFFICES ASSUME ReaderInv, stopped, FramingPasses PROVE GateMeansRead
  BY DEF GateMeansRead
<1> DEFINE Messages == {f \in 1..Len(stream) : /\ Available(stream, cut, f) > 0
                                              /\ stream[f].len >= HeaderLength}
           read == {handed[i] : i \in DOMAIN handed}
<1>1. PICK n \in Nat : StoppedAt(n)
  BY DEF ReaderInv
<1>2. IsFile(stream, cut) /\ Len(stream) \in Nat /\ n \in 1..(Len(stream) + 1)
  BY <1>1, FileFacts DEF ReaderInv, StoppedAt, IsStop
<1>3. PICK m \in Nat : m = n - 1 /\ m <= Len(stream)
  BY <1>2
<1>4. /\ handed = Sound(stream, m)
      /\ \A f \in 1..m : stream[f].len >= HeaderLength =>
                            SpecLength(stream[f].type) \in {0, stream[f].len}
  BY <1>1, <1>3 DEF FramingPasses, StoppedAt, ReadTo
<1>5. \A f \in Messages : f \in 1..m
  <2> SUFFICES ASSUME NEW f \in Messages, f >= n PROVE FALSE
    BY <1>2, <1>3
  <2>1. \/ n = Len(stream) + 1
        \/ n = Len(stream) /\ stream[n].len = 0 /\ cut = 0
        \/ n = Len(stream) /\ Available(stream, cut, n) = 0
    BY <1>1, <1>2, AllBytes DEF FramingPasses
  <2>2. f = n /\ n = Len(stream)
    BY <1>2, <2>1
  <2> QED
    BY <2>1, <2>2 DEF HeaderLength
<1>6. \A f \in 1..m : f \in Messages <=> LongEnough(stream[f])
  <2> SUFFICES ASSUME NEW f \in 1..m PROVE f \in Messages <=> LongEnough(stream[f])
    OBVIOUS
  <2>1. f \in 1..Len(stream) /\ stream[f].len \in Nat /\ Whole(stream, cut, f)
    BY <1>1, <1>2, <1>3, FileFacts DEF StoppedAt, ReadTo
  <2>2. f \in Messages <=> stream[f].len >= HeaderLength
    BY <2>1 DEF Whole
  <2>3. stream[f].len >= HeaderLength => SpecLength(stream[f].type) <= stream[f].len
    BY <1>4, <2>1
  <2> QED
    BY <2>2, <2>3 DEF LongEnough
<1>7. read = Messages
  <2>1. AreSound(handed, stream, m)
    BY <1>4, SoundFrames
  <2>2. /\ DOMAIN handed = 1..Len(handed)
        /\ \A i \in 1..Len(handed) : handed[i] \in 1..m
    BY <2>1 DEF AreSound
  <2> QED
    BY <1>5, <1>6, <2>1, <2>2 DEF AreSound
<1>8. \A f \in Messages : SpecLength(stream[f].type) \in {0, stream[f].len}
  BY <1>4, <1>5
<1> HIDE DEF Messages, read
<1> QED
  BY <1>7, <1>8 DEF GateMeansRead, Messages, read

LEMMA FileStart == CosimInit => ReaderInv
<1> SUFFICES ASSUME CosimInit PROVE ReaderInv
  OBVIOUS
<1>1. PICK file \in Files : stream = file[1] /\ cut = file[2]
  BY DEF CosimInit
<1>2. IsFile(stream, cut)
  <2>1. 2^16 = 65536
    OBVIOUS
  <2>2. PICK s, c : s = file[1] /\ c = file[2]
    OBVIOUS
  <2>3. /\ s \in Seq({s[f] : f \in DOMAIN s}) /\ c \in Nat
        /\ \A f \in 1..Len(s) : s[f].len \in Nat /\ s[f].len < 2^16
        /\ \A f \in 1..Len(s) : f = Len(s) => c <= 2 + s[f].len
    BY <2>2, FilesAssumption
  <2>4. \A f \in 1..Len(s) : s[f].len \in Nat /\ s[f].len < 65536
    BY <2>1, <2>3
  <2>5. IsFile(s, c)
    BY <2>3, <2>4 DEF IsFile
  <2> QED
    BY <1>1, <2>2, <2>5
<1> QED
  BY <1>2, ReaderStart DEF CosimInit

LEMMA ReaderStays == ReaderInv /\ UNCHANGED readerVars => ReaderInv'
<1> SUFFICES ASSUME ReaderInv, UNCHANGED readerVars PROVE ReaderInv'
  OBVIOUS
<1>1. UNCHANGED <<stream, cut, cur, handed, stats, stopped>>
  BY DEF readerVars
<1>2. Reading => Reading'
  BY <1>1 DEF Reading, ReadTo
<1>3. \A n \in Nat : StoppedAt(n) => StoppedAt(n)'
  BY <1>1 DEF StoppedAt, ReadTo, EndsClean
<1> QED
  BY <1>1, <1>2, <1>3 DEF ReaderInv

LEMMA ReaderHolds == CosimSpec => []ReaderInv
<1>1. ReaderInv /\ [CosimNext]_cosimVars => ReaderInv'
  BY ReaderStep, ReaderStays DEF CosimNext, Read, Feed, Gap, cosimVars
<1> QED
  BY <1>1, FileStart, PTL DEF CosimSpec

(* Reader::next skips nothing in silence, on any file: what it has handed out and     *)
(* what it has counted when it returns false is the whole of the file up to the point *)
(* where it had to stop, and the counters tell whether that is the end.               *)
THEOREM ReaderAccounts == CosimSpec => []PassIsAccounted
  BY ReaderHolds, AccountsFollow, PTL

(* The framing half of itch_stat's gate means that every frame of the file that has a *)
(* header was handed out, and has the length of its type.                             *)
THEOREM FramingGateSound == CosimSpec => []GateMeansRead
  BY ReaderHolds, GateFollows, PTL

-----------------------------------------------------------------------------
(* The parser.  Its table of lengths is that of the software. *)

LEMMA TablesAgree == \A type : RtlSpecLength(type) = SpecLength(type)
  BY DEF RtlSpecLength, SpecLength

(* Where the window of an accumulator begins. *)
Low == [locate |-> 1, ts |-> 5, ref |-> 11, ref2 |-> 19, q19 |-> 19, q20 |-> 20,
        q27 |-> 27, p31 |-> 31, p32 |-> 32, side |-> 19]

Regs == {"locate", "ts", "ref", "ref2", "q19", "q20", "q27", "p31", "p32", "side"}

LEMMA WindowFacts ==
    /\ DOMAIN Window = Regs
    /\ \A r \in Regs : /\ Low[r] \in Nat \ {0} /\ Width[r] \in Nat \ {0}
                       /\ Window[r] = Low[r]..(Low[r] + Width[r] - 1)
  BY DEF Window, Width, Low, Regs

(* A byte of a body, or what a register holds before its first. *)
RegByte == Nat \X Int

(* The last n bytes in a register are those from offset low on of frame f. *)
Holds(q, f, low, w, n) ==
    /\ q \in Seq(RegByte) /\ Len(q) = w
    /\ \A i \in 1..w : i > w - n => q[i] = <<f, low + (i - (w - n)) - 1>>

(* How many bytes of a window come before byte c of a body. *)
Taken(low, w, c) == IF c < low THEN 0 ELSE IF c > low + w THEN w ELSE c - low

LEMMA Shifted ==
    ASSUME NEW S, NEW q \in Seq(S), NEW w \in Nat \ {0}, Len(q) = w, NEW b \in S,
           NEW r, r = Append(Tail(q), b)
    PROVE  /\ r \in Seq(S) /\ Len(r) = w /\ r[w] = b
           /\ \A i \in 1..(w - 1) : r[i] = q[i + 1]
<1>1. PICK t : t = Tail(q)
  OBVIOUS
<1>2. t \in Seq(S) /\ Len(t) = w - 1 /\ \A i \in 1..(w - 1) : t[i] = q[i + 1]
  <2>1. q # << >>
    OBVIOUS
  <2> QED
    BY <1>1, <2>1
<1>3. r = Append(t, b)
  BY <1>1
<1>4. r \in Seq(S) /\ Len(r) = w
  BY <1>2, <1>3
<1>5. r[w] = b
  BY <1>2, <1>3
<1>6. \A i \in 1..(w - 1) : r[i] = t[i]
  BY <1>2, <1>3
<1> QED
  BY <1>2, <1>4, <1>5, <1>6

LEMMA RegisterTakes ==
    ASSUME NEW f \in Nat, NEW low \in Nat \ {0}, NEW w \in Nat \ {0}, NEW c \in Nat, NEW q,
           Holds(q, f, low, w, Taken(low, w, c)),
           NEW r, r = IF c \in low..(low + w - 1) THEN Append(Tail(q), <<f, c>>) ELSE q
    PROVE  Holds(r, f, low, w, Taken(low, w, c + 1))
<1>1. CASE c \notin low..(low + w - 1)
  <2>1. r = q /\ Taken(low, w, c + 1) = Taken(low, w, c)
    BY <1>1 DEF Taken
  <2> QED
    BY <2>1
<1>2. CASE c \in low..(low + w - 1)
  <2>1. PICK n \in Nat : n = c - low /\ n < w
    BY <1>2
  <2>2. Taken(low, w, c) = n /\ Taken(low, w, c + 1) = n + 1
    BY <1>2, <2>1 DEF Taken
  <2>3. /\ q \in Seq(RegByte) /\ Len(q) = w
        /\ \A i \in 1..w : i > w - n => q[i] = <<f, low + (i - (w - n)) - 1>>
    BY <2>2 DEF Holds
  <2>4. <<f, c>> \in RegByte
    BY DEF RegByte
  <2>5. /\ r \in Seq(RegByte) /\ Len(r) = w /\ r[w] = <<f, c>>
        /\ \A i \in 1..(w - 1) : r[i] = q[i + 1]
    BY <1>2, <2>3, <2>4, Shifted
  <2>6. ASSUME NEW i \in 1..w, i > w - (n + 1)
        PROVE  r[i] = <<f, low + (i - (w - (n + 1))) - 1>>
    <3>1. CASE i = w
      <4>1. low + (i - (w - (n + 1))) - 1 = c
        BY <2>1, <3>1
      <4> QED
        BY <2>5, <3>1, <4>1
    <3>2. CASE i # w
      <4>1. i \in 1..(w - 1) /\ i + 1 \in 1..w /\ i + 1 > w - n
        BY <2>1, <2>6, <3>2
      <4>2. (low + ((i + 1) - (w - n))) - 1 = (low + (i - (w - (n + 1)))) - 1
        BY <2>1
      <4> QED
        BY <2>3, <2>5, <4>1, <4>2
    <3> QED
      BY <3>1, <3>2
  <2> QED
    BY <2>2, <2>5, <2>6 DEF Holds
<1> QED
  BY <1>1, <1>2

LEMMA RegisterFull ==
    ASSUME NEW f \in Nat, NEW low \in Nat \ {0}, NEW w \in Nat \ {0}, NEW c \in Nat, NEW q,
           Holds(q, f, low, w, Taken(low, w, c)), c >= low + w
    PROVE  q = Bytes(f, low, w)
<1>1. Taken(low, w, c) = w
  BY DEF Taken
<1>2. /\ q \in Seq(RegByte) /\ Len(q) = w
      /\ \A i \in 1..w : q[i] = <<f, low + (i - (w - w)) - 1>>
  BY <1>1 DEF Holds
<1>3. \A i \in 1..w : (low + (i - (w - w))) - 1 = (low + i) - 1
  OBVIOUS
<1>4. q = [i \in 1..w |-> q[i]]
  BY <1>2
<1> QED
  BY <1>2, <1>3, <1>4 DEF Bytes

(* Every accumulator, when byte c of frame f is the next. *)
RegsHold(f, c) ==
    /\ acc = [r \in Regs |-> acc[r]]
    /\ \A r \in Regs : Holds(acc[r], f, Low[r], Width[r], Taken(Low[r], Width[r], c))

LEMMA RegsTake ==
    ASSUME NEW f \in Nat, NEW c \in Nat, RegsHold(f, c), NEW byte, c > 0 => byte = <<f, c>>,
           acc' = [r \in DOMAIN Window |->
                     IF c \in Window[r] THEN Append(Tail(acc[r]), byte) ELSE acc[r]]
    PROVE  RegsHold(f, c + 1)'
<1>1. acc' = [r \in Regs |->
                IF c \in Low[r]..(Low[r] + Width[r] - 1) THEN Append(Tail(acc[r]), <<f, c>>)
                ELSE acc[r]]
  <2>1. ASSUME NEW r \in Regs
        PROVE  (IF c \in Window[r] THEN Append(Tail(acc[r]), byte) ELSE acc[r])
                  = IF c \in Low[r]..(Low[r] + Width[r] - 1)
                    THEN Append(Tail(acc[r]), <<f, c>>) ELSE acc[r]
    <3>1. /\ Low[r] \in Nat \ {0} /\ Width[r] \in Nat \ {0}
          /\ Window[r] = Low[r]..(Low[r] + Width[r] - 1)
      BY WindowFacts
    <3>2. c \in Window[r] => c > 0
      BY <3>1
    <3> QED
      BY <3>1, <3>2
  <2> QED
    BY <2>1, WindowFacts
<1>2. ASSUME NEW r \in Regs
      PROVE  Holds(acc'[r], f, Low[r], Width[r], Taken(Low[r], Width[r], c + 1))
  <2>1. PICK low, w : low = Low[r] /\ w = Width[r] /\ low \in Nat \ {0} /\ w \in Nat \ {0}
    BY WindowFacts
  <2>2. Holds(acc[r], f, low, w, Taken(low, w, c))
    BY <2>1 DEF RegsHold
  <2>3. acc'[r] = IF c \in low..(low + w - 1) THEN Append(Tail(acc[r]), <<f, c>>) ELSE acc[r]
    BY <1>1, <2>1
  <2>4. Holds(acc'[r], f, low, w, Taken(low, w, c + 1))
    BY <2>1, <2>2, <2>3, RegisterTakes
  <2> QED
    BY <2>1, <2>4
<1>3. acc' = [r \in Regs |-> acc'[r]]
  BY <1>1
<1> QED
  BY <1>2, <1>3 DEF RegsHold

LEMMA RegsRestart ==
    ASSUME NEW f, NEW c, RegsHold(f, c), NEW g
    PROVE  RegsHold(g, 0)
<1>1. ASSUME NEW r \in Regs
      PROVE  Holds(acc[r], g, Low[r], Width[r], Taken(Low[r], Width[r], 0))
  <2>1. PICK low, w : low = Low[r] /\ w = Width[r] /\ low \in Nat \ {0} /\ w \in Nat \ {0}
    BY WindowFacts
  <2>2. Taken(low, w, 0) = 0
    BY <2>1 DEF Taken
  <2>3. acc[r] \in Seq(RegByte) /\ Len(acc[r]) = w
    BY <2>1 DEF RegsHold, Holds
  <2>4. \A i \in 1..w : ~(i > w - 0)
    BY <2>1
  <2>5. Holds(acc[r], g, low, w, 0)
    BY <2>3, <2>4 DEF Holds
  <2> QED
    BY <2>1, <2>2, <2>5
<1> QED
  BY <1>1 DEF RegsHold

LEMMA RegsStart == ParserInit => RegsHold(1, 0)
<1> SUFFICES ASSUME ParserInit PROVE RegsHold(1, 0)
  OBVIOUS
<1>1. acc = [r \in Regs |-> Stale(Width[r])]
  BY WindowFacts DEF ParserInit
<1>2. ASSUME NEW r \in Regs
      PROVE  Holds(acc[r], 1, Low[r], Width[r], Taken(Low[r], Width[r], 0))
  <2>1. PICK low, w : low = Low[r] /\ w = Width[r] /\ low \in Nat \ {0} /\ w \in Nat \ {0}
    BY WindowFacts
  <2>2. Taken(low, w, 0) = 0
    BY <2>1 DEF Taken
  <2>3. <<0, -1>> \in RegByte
    BY DEF RegByte
  <2>4. acc[r] = [i \in 1..w |-> <<0, -1>>]
    BY <1>1, <2>1 DEF Stale
  <2>5. acc[r] \in Seq(RegByte) /\ Len(acc[r]) = w
    <3>1. acc[r] \in [1..w -> RegByte]
      BY <2>3, <2>4
    <3>2. acc[r] \in Seq(RegByte)
      BY <2>1, <3>1
    <3> QED
      BY <2>1, <2>4, <3>2
  <2>6. \A i \in 1..w : ~(i > w - 0)
    BY <2>1
  <2>7. Holds(acc[r], 1, low, w, 0)
    BY <2>5, <2>6 DEF Holds
  <2> QED
    BY <2>1, <2>2, <2>7
<1> QED
  BY <1>1, <1>2 DEF RegsHold

(* A decode of frame f is armed. *)
Armed(f) ==
    /\ f \in 1..Len(stream) /\ stream[f].len > 0
    /\ emitLen = stream[f].len /\ (emitShort <=> ~LongEnough(stream[f]))
    /\ mType = stream[f].type
    /\ RegsHold(f, emitLen)

(* A message of these fields, without its type and with it. *)
Untyped(l, loc, ts, ref, new, shares, price, side, event) ==
    [length |-> l, timestamp |-> ts, locate |-> loc, order_ref |-> ref,
     new_ref |-> new, side |-> side, book_event |-> event, shares |-> shares,
     price |-> price]

Typed(t, l, loc, ts, ref, new, shares, price, side, event) ==
    [type |-> t, length |-> l, locate |-> loc, timestamp |-> ts, order_ref |-> ref,
     new_ref |-> new, shares |-> shares, price |-> price, side |-> side,
     book_event |-> event]

LEMMA PutType ==
    ASSUME NEW t, NEW l, NEW loc, NEW ts, NEW ref, NEW new, NEW shares, NEW price,
           NEW side, NEW event
    PROVE  Put(Untyped(l, loc, ts, ref, new, shares, price, side, event), "type", t)
              = Typed(t, l, loc, ts, ref, new, shares, price, side, event)
<1> DEFINE m == Untyped(l, loc, ts, ref, new, shares, price, side, event)
           v == Typed(t, l, loc, ts, ref, new, shares, price, side, event)
<1>1. DOMAIN m \cup {"type"} = DOMAIN v
  BY DEF Untyped, Typed
<1>2. \A k \in DOMAIN v : (IF k = "type" THEN t ELSE m[k]) = v[k]
  BY DEF Untyped, Typed
<1>3. v = [k \in DOMAIN v |-> v[k]]
  BY DEF Typed
<1> HIDE DEF m, v
<1>4. Put(m, "type", t) = v
  BY <1>1, <1>2, <1>3 DEF Put
<1> QED
  BY <1>4 DEF m, v

(* What is selected from the registers is what the software's views read. *)
LEMMA SelectedIsView ==
    ASSUME NEW f \in Nat, Armed(f), stream[f].len \in Nat, LongEnough(stream[f])
    PROVE  Put(Selected, "type", mType) = View(stream, f)
<1>0. PICK type : type = stream[f].type
  OBVIOUS
<1>1. PICK l \in Nat : l = stream[f].len /\ l >= 11 /\ l >= SpecLength(type)
  BY <1>0 DEF LongEnough, HeaderLength
<1>2. emitLen = l /\ mType = type /\ RegsHold(f, l)
  BY <1>0, <1>1 DEF Armed
<1>3. ASSUME NEW r \in Regs, l >= Low[r] + Width[r]
      PROVE  acc[r] = Bytes(f, Low[r], Width[r])
  BY <1>2, <1>3, WindowFacts, RegisterFull DEF RegsHold
<1>4. acc.locate = Bytes(f, 1, 2) /\ acc.ts = Bytes(f, 5, 6)
  BY <1>1, <1>3 DEF Regs, Low, Width
<1>5. l >= 19 => acc.ref = Bytes(f, 11, 8)
  BY <1>1, <1>3 DEF Regs, Low, Width
<1>6. l >= 27 => acc.ref2 = Bytes(f, 19, 8)
  BY <1>1, <1>3 DEF Regs, Low, Width
<1>7. l >= 23 => acc.q19 = Bytes(f, 19, 4) /\ acc.side = Bytes(f, 19, 1)
  BY <1>1, <1>3 DEF Regs, Low, Width
<1>8. l >= 31 => acc.q27 = Bytes(f, 27, 4)
  BY <1>1, <1>3 DEF Regs, Low, Width
<1>9. l >= 35 => acc.p31 = Bytes(f, 31, 4)
  BY <1>1, <1>3 DEF Regs, Low, Width
<1>10. l >= 36 => acc.q20 = Bytes(f, 20, 4) /\ acc.p32 = Bytes(f, 32, 4)
  BY <1>1, <1>3 DEF Regs, Low, Width
<1>11. /\ \A width : Reads(f, width, 0) = Zero(width)
       /\ \A width : \A offset \in {19, 20, 27, 31, 32} :
             Reads(f, width, offset) = Bytes(f, offset, width)
  BY DEF Reads
<1>12. ASSUME MutatesBook(type), NEW new, NEW shares, NEW price, NEW side,
              Layout(type) = [new |-> new, shares |-> shares, price |-> price,
                              side |-> side]
       PROVE  View(stream, f) =
                 Typed(type, l, Bytes(f, 1, 2), Bytes(f, 5, 6), Bytes(f, 11, 8),
                       Reads(f, 8, new), Reads(f, 4, shares), Reads(f, 4, price),
                       Reads(f, 1, side), TRUE)
  <2>1. MutatesBook(type) = TRUE
    BY <1>12 DEF MutatesBook
  <2>2. PICK where : where = Layout(type) /\ where.new = new
                     /\ where.shares = shares
                     /\ where.price = price /\ where.side = side
    BY <1>12
  <2> QED
    BY <1>0, <1>1, <2>1, <2>2 DEF View, Typed
<1>13. CASE type \in {"A", "F"}
  <2>1. l >= 36 /\ MutatesBook(type)
    BY <1>1, <1>13 DEF SpecLength, MutatesBook
  <2>2. /\ acc.ref = Bytes(f, 11, 8) /\ acc.side = Bytes(f, 19, 1)
        /\ acc.q20 = Bytes(f, 20, 4) /\ acc.p32 = Bytes(f, 32, 4)
    BY <1>1, <1>5, <1>7, <1>10, <2>1
  <2>3. Layout(type) = [new |-> 0, shares |-> 20, price |-> 32, side |-> 19]
    BY <1>13 DEF Layout
  <2>4. View(stream, f) =
            Typed(type, l, Bytes(f, 1, 2), Bytes(f, 5, 6), Bytes(f, 11, 8),
                  Zero(8), Bytes(f, 20, 4), Bytes(f, 32, 4), Bytes(f, 19, 1), TRUE)
    BY <1>11, <1>12, <2>1, <2>3
  <2>5. IsAdd /\ ~IsReplace /\ IsBook = TRUE
    BY <1>2, <1>13 DEF IsAdd, IsExecOrCancel, IsBook, IsReplace
  <2>6. Selected =
            Untyped(l, Bytes(f, 1, 2), Bytes(f, 5, 6), Bytes(f, 11, 8),
                    Zero(8), Bytes(f, 20, 4), Bytes(f, 32, 4), Bytes(f, 19, 1), TRUE)
    BY <1>2, <1>4, <2>2, <2>5 DEF Selected, Untyped
  <2> QED
    BY <1>2, <2>4, <2>6, PutType
<1>14. CASE type \in {"E", "C", "X"}
  <2>1. l >= 23 /\ MutatesBook(type)
    BY <1>1, <1>14 DEF SpecLength, MutatesBook
  <2>2. acc.ref = Bytes(f, 11, 8) /\ acc.q19 = Bytes(f, 19, 4)
    BY <1>1, <1>5, <1>7, <2>1
  <2>3. Layout(type) = [new |-> 0, shares |-> 19, price |-> 0, side |-> 0]
    BY <1>14 DEF Layout
  <2>4. View(stream, f) =
            Typed(type, l, Bytes(f, 1, 2), Bytes(f, 5, 6), Bytes(f, 11, 8),
                  Zero(8), Bytes(f, 19, 4), Zero(4), Zero(1), TRUE)
    BY <1>11, <1>12, <2>1, <2>3
  <2>5. ~IsAdd /\ IsExecOrCancel /\ ~IsReplace /\ IsBook = TRUE
    BY <1>2, <1>14 DEF IsAdd, IsExecOrCancel, IsBook, IsReplace
  <2>6. Selected =
            Untyped(l, Bytes(f, 1, 2), Bytes(f, 5, 6), Bytes(f, 11, 8),
                    Zero(8), Bytes(f, 19, 4), Zero(4), Zero(1), TRUE)
    BY <1>2, <1>4, <2>2, <2>5 DEF Selected, Untyped
  <2> QED
    BY <1>2, <2>4, <2>6, PutType
<1>15. CASE type = "D"
  <2>1. l >= 19 /\ MutatesBook(type)
    BY <1>1, <1>15 DEF SpecLength, MutatesBook
  <2>2. acc.ref = Bytes(f, 11, 8)
    BY <1>1, <1>5, <2>1
  <2>3. Layout(type) = [new |-> 0, shares |-> 0, price |-> 0, side |-> 0]
    BY <1>15 DEF Layout
  <2>4. View(stream, f) =
            Typed(type, l, Bytes(f, 1, 2), Bytes(f, 5, 6), Bytes(f, 11, 8),
                  Zero(8), Zero(4), Zero(4), Zero(1), TRUE)
    BY <1>11, <1>12, <2>1, <2>3
  <2>5. ~IsAdd /\ ~IsExecOrCancel /\ ~IsReplace /\ IsBook = TRUE
    BY <1>2, <1>15 DEF IsAdd, IsExecOrCancel, IsBook, IsReplace
  <2>6. Selected =
            Untyped(l, Bytes(f, 1, 2), Bytes(f, 5, 6), Bytes(f, 11, 8),
                    Zero(8), Zero(4), Zero(4), Zero(1), TRUE)
    BY <1>2, <1>4, <2>2, <2>5 DEF Selected, Untyped
  <2> QED
    BY <1>2, <2>4, <2>6, PutType
<1>16. CASE type = "U"
  <2>1. l >= 35 /\ MutatesBook(type)
    BY <1>1, <1>16 DEF SpecLength, MutatesBook
  <2>2. /\ acc.ref = Bytes(f, 11, 8) /\ acc.ref2 = Bytes(f, 19, 8)
        /\ acc.q27 = Bytes(f, 27, 4) /\ acc.p31 = Bytes(f, 31, 4)
    BY <1>1, <1>5, <1>6, <1>8, <1>9, <2>1
  <2>3. Layout(type) = [new |-> 19, shares |-> 27, price |-> 31, side |-> 0]
    BY <1>16 DEF Layout
  <2>4. View(stream, f) =
            Typed(type, l, Bytes(f, 1, 2), Bytes(f, 5, 6), Bytes(f, 11, 8),
                  Bytes(f, 19, 8), Bytes(f, 27, 4), Bytes(f, 31, 4), Zero(1), TRUE)
    BY <1>11, <1>12, <2>1, <2>3
  <2>5. ~IsAdd /\ ~IsExecOrCancel /\ IsReplace /\ IsBook = TRUE
    BY <1>2, <1>16 DEF IsAdd, IsExecOrCancel, IsBook, IsReplace
  <2>6. Selected =
            Untyped(l, Bytes(f, 1, 2), Bytes(f, 5, 6), Bytes(f, 11, 8),
                    Bytes(f, 19, 8), Bytes(f, 27, 4), Bytes(f, 31, 4), Zero(1), TRUE)
    BY <1>2, <1>4, <2>2, <2>5 DEF Selected, Untyped
  <2>7. Put(Selected, "type", type) =
            Typed(type, l, Bytes(f, 1, 2), Bytes(f, 5, 6), Bytes(f, 11, 8),
                  Bytes(f, 19, 8), Bytes(f, 27, 4), Bytes(f, 31, 4), Zero(1), TRUE)
    BY <2>6, PutType
  <2> QED
    BY <1>2, <2>4, <2>7
<1>17. CASE type \notin {"A", "F", "E", "C", "X", "D", "U"}
  <2>1. MutatesBook(type) = FALSE
    BY <1>17 DEF MutatesBook
  <2>2. View(stream, f) =
            Typed(type, l, Bytes(f, 1, 2), Bytes(f, 5, 6), Zero(8), Zero(8), Zero(4),
                  Zero(4), Zero(1), FALSE)
    BY <1>0, <1>1, <1>11, <2>1 DEF View, Typed
  <2>3. ~IsAdd /\ ~IsExecOrCancel /\ ~IsReplace /\ IsBook = FALSE
    BY <1>2, <1>17 DEF IsAdd, IsExecOrCancel, IsBook, IsReplace
  <2>4. Selected =
            Untyped(l, Bytes(f, 1, 2), Bytes(f, 5, 6), Zero(8), Zero(8), Zero(4), Zero(4),
                    Zero(1), FALSE)
    BY <1>2, <1>4, <2>3 DEF Selected, Untyped
  <2> QED
    BY <1>2, <2>2, <2>4, PutType
<1> QED
  BY <1>13, <1>14, <1>15, <1>16, <1>17

LEMMA ViewsAppend ==
    ASSUME NEW q \in Seq(Nat), NEW f
    PROVE  Views(Append(q, f)) = Append(Views(q), View(stream, f))
<1>1. PICK n \in Nat : n = Len(q)
  OBVIOUS
<1>2. PICK r : r = Append(q, f)
  OBVIOUS
<1>3. Len(r) = n + 1 /\ r[n + 1] = f /\ \A i \in 1..n : r[i] = q[i]
  <2>1. PICK S : q \in Seq(S) /\ f \in S
    <3>1. q \in Seq(Nat \cup {f})
      OBVIOUS
    <3> QED
      BY <3>1
  <2> QED
    BY <1>1, <1>2, <2>1
<1>4. Views(r) = [i \in 1..(n + 1) |-> View(stream, r[i])]
  BY <1>3 DEF Views
<1>5. PICK v : v = Views(q)
  OBVIOUS
<1>6. v = [i \in 1..n |-> View(stream, q[i])]
  BY <1>1, <1>5 DEF Views
<1>7. PICK V : V = {View(stream, g) : g \in Nat \cup {f}}
  OBVIOUS
<1>8. v \in Seq(V) /\ Len(v) = n /\ View(stream, f) \in V
  <2>1. \A i \in 1..n : q[i] \in Nat
    BY <1>1
  <2>2. \A i \in 1..n : View(stream, q[i]) \in V
    BY <1>7, <2>1
  <2> QED
    BY <1>6, <1>7, <2>2
<1>9. PICK w : w = Append(v, View(stream, f))
  OBVIOUS
<1>10. /\ w = [i \in 1..(n + 1) |-> w[i]]
       /\ w[n + 1] = View(stream, f) /\ \A i \in 1..n : w[i] = View(stream, q[i])
  BY <1>6, <1>8, <1>9
<1>11. ASSUME NEW i \in 1..(n + 1) PROVE w[i] = View(stream, r[i])
  <2>1. CASE i = n + 1
    BY <1>3, <1>10, <2>1
  <2>2. CASE i # n + 1
    <3>1. i \in 1..n
      BY <2>2
    <3>2. w[i] = View(stream, q[i]) /\ r[i] = q[i]
      BY <1>3, <1>10, <3>1
    <3> QED
      BY <3>2
  <2> QED
    BY <2>1, <2>2
<1> QED
  BY <1>2, <1>4, <1>5, <1>9, <1>10, <1>11

(* What the test bench has sampled when the first d frames are decoded. *)
Sampled(d) == /\ msgs = Views(Sound(stream, d))
              /\ shorts = Cardinality(Shorts(stream, d))

(* The framing before byte k of frame f. *)
Framed(f, k) ==
    /\ len \in Nat /\ emit \in BOOLEAN
    /\ k = 0 => state = "LenHi"
    /\ k = 1 => state = "LenLo" /\ len - (len % 256) = 256 * (stream[f].len \div 256)
    /\ k >= 2 => state = "Body" /\ len = stream[f].len /\ cnt = k - 2
                 /\ RegsHold(f, k - 2) /\ (k > 2 => mType = stream[f].type)
    /\ RegsHold(f, 0)

Position(f, k) ==
    /\ f \in 1..(Len(stream) + 1) /\ k \in Nat
    /\ f = Len(stream) + 1 => k = 0
    /\ f <= Len(stream) => k < 2 + stream[f].len
    /\ \A g \in 1..(f - 1) : Whole(stream, cut, g)

(* The parser has taken the bytes before byte k of frame f, and has decoded the frames *)
(* before f but the last if that one's decode is armed.                                *)
ParsedTo(f, k) ==
    /\ at = <<f, k>> /\ Position(f, k) /\ Framed(f, k)
    /\ emit => k = 0 /\ Armed(f - 1) /\ ~mValid /\ ~eShort
    /\ Sampled(IF emit THEN f - 2 ELSE f - 1)

ParserInv == \E f, k \in Nat : ParsedTo(f, k)

LEMMA ParserStart == CosimInit => ParserInv
<1> SUFFICES ASSUME CosimInit PROVE ParserInv
  OBVIOUS
<1>1. Len(stream) \in Nat /\ \A f \in 1..Len(stream) : stream[f].len \in Nat
  BY FileStart, FileFacts DEF ReaderInv
<1>2. Position(1, 0)
  BY <1>1 DEF Position
<1>3. Framed(1, 0) /\ ~emit
  <2>1. RegsHold(1, 0)
    BY RegsStart DEF CosimInit
  <2>2. len = 0 /\ emit = FALSE /\ state = "LenHi"
    BY DEF CosimInit, ParserInit
  <2>3. PICK k \in Nat : k = 0 /\ ~(k = 1) /\ ~(k >= 2)
    OBVIOUS
  <2>4. Framed(1, k)
    BY <2>1, <2>2, <2>3 DEF Framed
  <2> QED
    BY <2>2, <2>3, <2>4
<1>4. Sampled(0)
  <2>1. Sound(stream, 0) = << >> /\ Shorts(stream, 0) = {}
    BY SoundStep DEF Shorts
  <2>2. Views(<< >>) = << >>
    <3>1. 1..Len(<< >>) = {}
      OBVIOUS
    <3>2. Views(<< >>) = [i \in {} |-> View(stream, << >>[i])]
      BY <3>1 DEF Views
    <3> QED
      BY <3>2
  <2> QED
    BY <2>1, <2>2, FS_EmptySet DEF CosimInit, Sampled
<1>5. ParsedTo(1, 0)
  BY <1>2, <1>3, <1>4 DEF CosimInit, ParsedTo
<1> QED
  BY <1>5 DEF ParserInv

(* The strobe that resolves an armed decode, and what the test bench samples of it. *)
LEMMA Strobed ==
    ASSUME IsFile(stream, cut), NEW f \in Nat, NEW k \in Nat, ParsedTo(f, k),
           Strobe, Sample, emit => mType' = mType, UNCHANGED stream
    PROVE  /\ Sampled(f - 1)'
           /\ mValid' => emit /\ ~eShort' /\ out'.length >= HeaderLength
           /\ eShort' => emit
           /\ ~emit => ~mValid' /\ ~eShort'
<1>1. Len(stream) \in Nat
  BY FileFacts
<1>2. CASE ~emit
  <2>1. ~mValid' /\ ~eShort'
    BY <1>2 DEF Strobe
  <2>2. UNCHANGED <<msgs, shorts>>
    BY <2>1 DEF Sample
  <2>3. Sampled(f - 1)
    BY <1>2 DEF ParsedTo
  <2>4. Sampled(f - 1)'
    BY <2>2, <2>3 DEF Sampled, Views
  <2> QED
    BY <1>2, <2>1, <2>4
<1>3. CASE emit
  <2>1. PICK g \in Nat : g = f - 1 /\ g - 1 = f - 2 /\ g \in 1..Len(stream)
    BY <1>1, <1>3 DEF ParsedTo, Armed
  <2>2. Armed(g) /\ Sampled(g - 1) /\ stream[g].len \in Nat
    <3>1. Armed(f - 1) /\ Sampled(f - 2)
      BY <1>3 DEF ParsedTo
    <3>2. stream[g].len \in Nat
      BY <2>1, FileFacts
    <3> QED
      BY <2>1, <3>1, <3>2
  <2>3. PICK d \in Nat : d = g - 1 /\ g = d + 1
    BY <2>1
  <2>4. /\ Sound(stream, g) = IF LongEnough(stream[g]) THEN Append(Sound(stream, d), g)
                              ELSE Sound(stream, d)
        /\ Cardinality(Shorts(stream, g)) =
              IF LongEnough(stream[g]) THEN Cardinality(Shorts(stream, d))
              ELSE Cardinality(Shorts(stream, d)) + 1
    <3>1. stream[d + 1].len \in Nat /\ stream[d + 1].len > 0
      BY <2>2, <2>3 DEF Armed
    <3>2. /\ Sound(stream, d + 1) = IF LongEnough(stream[d + 1])
                                    THEN Append(Sound(stream, d), d + 1)
                                    ELSE Sound(stream, d)
          /\ Cardinality(Shorts(stream, d + 1)) =
                IF stream[d + 1].len > 0 /\ ~LongEnough(stream[d + 1])
                THEN Cardinality(Shorts(stream, d)) + 1 ELSE Cardinality(Shorts(stream, d))
      BY <3>1, SoundStep, ShortsStep
    <3> QED
      BY <2>3, <3>1, <3>2
  <2>5. msgs = Views(Sound(stream, d)) /\ shorts = Cardinality(Shorts(stream, d))
    BY <2>2, <2>3 DEF Sampled
  <2>6. CASE LongEnough(stream[g])
    <3>1. mValid' = TRUE /\ eShort' = FALSE /\ out' = Selected
      BY <1>3, <2>2, <2>6 DEF Strobe, Armed
    <3>2. Put(out', "type", mType') = View(stream, g)
      BY <1>3, <2>2, <2>6, <3>1, SelectedIsView
    <3>3. msgs' = Append(msgs, View(stream, g)) /\ shorts' = shorts
      BY <3>1, <3>2 DEF Sample
    <3>4. Sound(stream, d) \in Seq(Nat)
      <4>1. Sound(stream, d) \in Seq(1..d)
        BY SoundFrames DEF AreSound
      <4> QED
        BY <4>1
    <3>5. Views(Sound(stream, g)) = Append(msgs, View(stream, g))
      BY <2>4, <2>5, <2>6, <3>4, ViewsAppend
    <3>6. Cardinality(Shorts(stream, g)) = shorts
      BY <2>4, <2>5, <2>6
    <3>7. Sampled(g)'
      BY <3>3, <3>5, <3>6 DEF Sampled, Views
    <3>8. out'.length = stream[g].len
      BY <2>2, <3>1 DEF Selected, Armed
    <3> QED
      BY <1>3, <2>1, <2>6, <3>1, <3>7, <3>8 DEF LongEnough
  <2>7. CASE ~LongEnough(stream[g])
    <3>1. mValid' = FALSE /\ eShort' = TRUE
      BY <1>3, <2>2, <2>7 DEF Strobe, Armed
    <3>2. msgs' = msgs /\ shorts' = shorts + 1
      BY <3>1 DEF Sample
    <3>3. Sampled(g)'
      BY <2>4, <2>5, <2>7, <3>2 DEF Sampled, Views
    <3> QED
      BY <1>3, <2>1, <3>1, <3>3
  <2> QED
    BY <2>6, <2>7
<1> QED
  BY <1>2, <1>3

LEMMA GapStep ==
    ASSUME IsFile(stream, cut), ParserInv, Gap PROVE ParserInv'
<1>1. PICK f, k \in Nat : ParsedTo(f, k)
  BY DEF ParserInv
<1>2. /\ UNCHANGED <<stream, cut, state, len, cnt, emitLen, emitShort, acc, mType, at>>
      /\ emit' = FALSE /\ Strobe /\ Sample
  BY DEF Gap, ClockIdle, readerVars
<1>3. Sampled(f - 1)'
  BY <1>1, <1>2, Strobed
<1>4. Position(f, k)'
  BY <1>1, <1>2 DEF ParsedTo, Position
<1>5. Framed(f, k)'
  <2>1. \A c \in Nat : RegsHold(f, c) => RegsHold(f, c)'
    BY <1>2 DEF RegsHold
  <2>2. Framed(f, k)
    BY <1>1 DEF ParsedTo
  <2>3. k >= 2 => k - 2 \in Nat
    OBVIOUS
  <2>4. emit' \in BOOLEAN /\ RegsHold(f, 0)' /\ (k >= 2 => RegsHold(f, k - 2)')
    BY <1>2, <2>1, <2>2, <2>3 DEF Framed
  <2> QED
    BY <1>2, <2>2, <2>4 DEF Framed
<1>6. ParsedTo(f, k)'
  BY <1>1, <1>2, <1>3, <1>4, <1>5 DEF ParsedTo
<1> QED
  BY <1>6 DEF ParserInv

LEMMA Advance ==
    ASSUME IsFile(stream, cut), NEW f \in Nat, NEW k \in Nat, ParsedTo(f, k),
           BytesLeft, at' = Following, UNCHANGED <<stream, cut>>
    PROVE  /\ f \in 1..Len(stream) /\ k < 2 + stream[f].len
           /\ stream[f].len \in Nat /\ stream[f].len < 65536
           /\ k + 1 = 2 + stream[f].len => at' = <<f + 1, 0>> /\ Position(f + 1, 0)'
           /\ k + 1 # 2 + stream[f].len => at' = <<f, k + 1>> /\ Position(f, k + 1)'
<1>1. at = <<f, k>> /\ Position(f, k) /\ Len(stream) \in Nat
  BY FileFacts DEF ParsedTo
<1>2. f \in 1..Len(stream) /\ k < Available(stream, cut, f) /\ k < 2 + stream[f].len
  BY <1>1 DEF BytesLeft, Position
<1>3. PICK l \in Nat : l = stream[f].len /\ l < 65536
  BY <1>2, FileFacts
<1>4. CASE k + 1 = 2 + l
  <2>1. Whole(stream, cut, f)
    <3>1. CASE f = Len(stream)
      <4>1. Available(stream, cut, f) = 2 + l - cut /\ cut \in Nat
        BY <1>3, <3>1 DEF Available, IsFile
      <4>2. PICK c \in Nat : c = cut
        BY <4>1
      <4>3. k < 2 + l - c /\ k = 1 + l
        BY <1>2, <1>4, <4>1, <4>2
      <4>4. c = 0
        BY <1>3, <4>2, <4>3
      <4>5. Available(stream, cut, f) = 2 + l
        BY <1>3, <4>1, <4>2, <4>4
      <4> QED
        BY <1>3, <4>5 DEF Whole
    <3>2. CASE f # Len(stream)
      BY <1>2, <3>2, FileFacts
    <3> QED
      BY <3>1, <3>2
  <2>2. at' = <<f + 1, 0>>
    BY <1>1, <1>3, <1>4 DEF Following
  <2>3. Position(f + 1, 0)
    <3>1. \A g \in 1..((f + 1) - 1) : Whole(stream, cut, g)
      <4>1. \A g \in 1..((f + 1) - 1) : g = f \/ g \in 1..(f - 1)
        BY <1>1, <1>2
      <4> QED
        BY <1>1, <2>1, <4>1 DEF Position
    <3>2. f + 1 <= Len(stream) => stream[f + 1].len \in Nat
      BY <1>1, <1>2, FileFacts
    <3> QED
      BY <1>1, <1>2, <3>1, <3>2 DEF Position
  <2> QED
    BY <1>2, <1>3, <1>4, <2>2, <2>3 DEF Position
<1>5. CASE k + 1 # 2 + l
  <2>1. at' = <<f, k + 1>>
    BY <1>1, <1>3, <1>5 DEF Following
  <2>2. Position(f, k + 1)
    BY <1>1, <1>2, <1>3, <1>5 DEF Position
  <2> QED
    BY <1>2, <1>3, <1>5, <2>1, <2>2 DEF Position
<1> QED
  BY <1>3, <1>4, <1>5

LEMMA HighStep ==
    ASSUME IsFile(stream, cut), NEW f \in Nat, NEW k \in Nat, ParsedTo(f, k),
           Feed, TakeLenHi(ByteAt(at[1], at[2]))
    PROVE  ParserInv'
<1>1. /\ UNCHANGED <<stream, cut>> /\ Strobe /\ Sample /\ BytesLeft /\ at' = Following
  BY DEF Feed, ClockByte, readerVars
<1>2. at = <<f, k>> /\ Framed(f, k)
  BY DEF ParsedTo
<1>3. k = 0
  BY <1>2 DEF TakeLenHi, Framed
<1>4. PICK l \in Nat : l = stream[f].len
  BY <1>1, Advance
<1>5. at' = <<f, 1>> /\ Position(f, 1)'
  <2>1. k + 1 = 1 /\ 1 # 2 + l
    BY <1>3
  <2> QED
    BY <1>1, <1>4, <2>1, Advance
<1>6. PICK byte \in Nat : byte = l \div 256
  BY <1>4
<1>7. /\ len' = 256 * byte + (len % 256) /\ state' = "LenLo" /\ emit' = FALSE
      /\ UNCHANGED <<acc, mType>>
  <2>1. ByteAt(at[1], at[2]) = byte
    BY <1>2, <1>3, <1>4, <1>6 DEF ByteAt
  <2> QED
    BY <2>1 DEF TakeLenHi
<1>8. len' \in Nat /\ len' - (len' % 256) = 256 * byte
  <2>1. PICK low \in 0..255 : low = len % 256
    BY <1>2 DEF Framed
  <2>2. PICK whole \in Nat : whole = 256 * byte + low
    OBVIOUS
  <2>3. whole % 256 = low
    BY <2>2
  <2>4. whole - low = 256 * byte
    BY <2>2
  <2>5. len' = whole
    BY <1>7, <2>1, <2>2
  <2>6. len' - (len' % 256) = whole - low
    BY <2>3, <2>5
  <2> QED
    BY <2>4, <2>5, <2>6
<1>9. RegsHold(f, 0)'
  BY <1>2, <1>7 DEF Framed, RegsHold
<1>10. PICK j \in Nat : j = 1 /\ ~(j = 0) /\ ~(j >= 2)
  OBVIOUS
<1>11. Framed(f, j)'
  <2>1. len' - (len' % 256) = 256 * (stream[f].len \div 256)
    BY <1>4, <1>6, <1>8
  <2>2. stream'[f].len = stream[f].len
    BY <1>1
  <2>3. state' = "LenLo" /\ emit' \in BOOLEAN
    BY <1>7
  <2> QED
    BY <1>8, <1>9, <1>10, <2>1, <2>2, <2>3 DEF Framed
<1>12. Sampled(f - 1)'
  BY <1>1, <1>7, Strobed
<1>13. ParsedTo(f, j)'
  BY <1>5, <1>7, <1>10, <1>11, <1>12 DEF ParsedTo
<1> QED
  BY <1>13 DEF ParserInv

LEMMA LowStep ==
    ASSUME IsFile(stream, cut), NEW f \in Nat, NEW k \in Nat, ParsedTo(f, k),
           Feed, TakeLenLo(ByteAt(at[1], at[2]))
    PROVE  ParserInv'
<1>1. /\ UNCHANGED <<stream, cut>> /\ Strobe /\ Sample /\ BytesLeft /\ at' = Following
  BY DEF Feed, ClockByte, readerVars
<1>2. at = <<f, k>> /\ Framed(f, k)
  BY DEF ParsedTo
<1>3. k = 1 /\ ~emit
  BY DEF TakeLenLo, Framed, ParsedTo
<1>4. PICK l \in Nat : l = stream[f].len /\ f \in 1..Len(stream)
  BY <1>1, Advance
<1>5. PICK byte \in Nat : byte = l % 256
  BY <1>4
<1>6. /\ len' = len - (len % 256) + byte /\ cnt' = 0 /\ emit' = FALSE
      /\ state' = (IF len' = 0 THEN "LenHi" ELSE "Body") /\ UNCHANGED <<acc, mType>>
  <2>1. ByteAt(at[1], at[2]) = byte
    BY <1>2, <1>3, <1>4, <1>5 DEF ByteAt
  <2> QED
    BY <2>1 DEF TakeLenLo
<1>7. len' = l
  <2>1. len - (len % 256) = 256 * (l \div 256)
    BY <1>2, <1>3, <1>4 DEF Framed
  <2>2. l = 256 * (l \div 256) + (l % 256)
    OBVIOUS
  <2> QED
    BY <1>5, <1>6, <2>1, <2>2
<1>8. RegsHold(f, 0)'
  BY <1>2, <1>6 DEF Framed, RegsHold
<1>9. Sampled(f - 1)'
  BY <1>1, <1>6, Strobed
<1>10. CASE l = 0
  <2>1. at' = <<f + 1, 0>> /\ Position(f + 1, 0)'
    <3>1. k + 1 = 2 + stream[f].len
      BY <1>3, <1>4, <1>10
    <3> QED
      BY <1>1, <3>1, Advance
  <2>2. PICK g \in Nat, j \in Nat : g = f + 1 /\ j = 0 /\ ~(j = 1) /\ ~(j >= 2)
    OBVIOUS
  <2>3. RegsHold(g, 0)'
    <3>1. RegsHold(g, 0)
      BY <1>2, RegsRestart DEF Framed
    <3> QED
      BY <1>6, <3>1 DEF RegsHold
  <2>4. Framed(g, j)'
    BY <1>4, <1>6, <1>7, <1>10, <2>2, <2>3 DEF Framed
  <2>5. Sampled(f)'
    <3>1. PICK d \in Nat : d = f - 1 /\ d + 1 = f
      BY <1>4
    <3>2. ~LongEnough(stream[f])
      BY <1>4, <1>10 DEF LongEnough, HeaderLength
    <3>3. /\ Sound(stream, f) = Sound(stream, d)
          /\ Cardinality(Shorts(stream, f)) = Cardinality(Shorts(stream, d))
      <4>1. stream[d + 1].len \in Nat /\ ~(stream[d + 1].len > 0)
            /\ ~LongEnough(stream[d + 1])
        <5>1. stream[d + 1] = stream[f]
          BY <3>1
        <5>2. stream[f].len = 0
          BY <1>4, <1>10
        <5> QED
          BY <3>2, <5>1, <5>2
      <4>2. /\ Sound(stream, d + 1) = Sound(stream, d)
            /\ Cardinality(Shorts(stream, d + 1)) = Cardinality(Shorts(stream, d))
        <5>1. Sound(stream, d + 1) = IF LongEnough(stream[d + 1])
                                     THEN Append(Sound(stream, d), d + 1)
                                     ELSE Sound(stream, d)
          BY SoundStep
        <5>2. Cardinality(Shorts(stream, d + 1)) =
                IF stream[d + 1].len > 0 /\ ~LongEnough(stream[d + 1])
                THEN Cardinality(Shorts(stream, d)) + 1 ELSE Cardinality(Shorts(stream, d))
          BY <4>1, ShortsStep
        <5> QED
          BY <4>1, <5>1, <5>2
      <4> QED
        BY <3>1, <4>2
    <3> QED
      BY <1>1, <1>9, <3>1, <3>3 DEF Sampled
  <2>6. ParsedTo(g, j)'
    BY <1>6, <2>1, <2>2, <2>4, <2>5 DEF ParsedTo
  <2> QED
    BY <2>6 DEF ParserInv
<1>11. CASE l # 0
  <2>1. at' = <<f, 2>> /\ Position(f, 2)'
    <3>1. k + 1 # 2 + stream[f].len /\ k + 1 = 2
      BY <1>3, <1>4, <1>11
    <3> QED
      BY <1>1, <3>1, Advance
  <2>2. PICK j \in Nat : j = 2 /\ ~(j = 0) /\ ~(j = 1) /\ ~(j > 2) /\ j - 2 = 0
    OBVIOUS
  <2>3. Framed(f, j)'
    BY <1>1, <1>4, <1>6, <1>7, <1>8, <1>11, <2>2 DEF Framed
  <2>4. ParsedTo(f, j)'
    BY <1>6, <1>9, <2>1, <2>2, <2>3 DEF ParsedTo
  <2> QED
    BY <2>4 DEF ParserInv
<1> QED
  BY <1>10, <1>11

LEMMA BodyStep ==
    ASSUME IsFile(stream, cut), NEW f \in Nat, NEW k \in Nat, ParsedTo(f, k),
           Feed, TakeBody(ByteAt(at[1], at[2]))
    PROVE  ParserInv' /\ (cnt' # cnt => cnt < len) /\ ~emit
<1>1. /\ UNCHANGED <<stream, cut>> /\ Strobe /\ Sample /\ BytesLeft /\ at' = Following
  BY DEF Feed, ClockByte, readerVars
<1>2. at = <<f, k>> /\ Framed(f, k)
  BY DEF ParsedTo
<1>3. k >= 2 /\ ~emit
  BY DEF TakeBody, Framed, ParsedTo
<1>4. PICK l \in Nat : l = stream[f].len /\ f \in 1..Len(stream) /\ l < 65536 /\ k < 2 + l
  BY <1>1, Advance
<1>5. PICK c \in Nat : c = k - 2 /\ c < l /\ k = c + 2
  BY <1>3, <1>4
<1>6. PICK type : type = stream[f].type
  OBVIOUS
<1>7. PICK byte : byte = IF c = 0 THEN type ELSE <<f, c>>
  OBVIOUS
<1>8. ByteAt(at[1], at[2]) = byte
  <2>1. at[1] = f /\ at[2] = k
    BY <1>2
  <2>2. CASE c = 0
    <3>1. k = 2
      BY <1>5, <2>2
    <3> QED
      BY <1>6, <1>7, <2>1, <2>2, <3>1 DEF ByteAt
  <2>3. CASE c # 0
    <3>1. ~(k = 0) /\ ~(k = 1) /\ ~(k = 2) /\ k - 2 = c
      BY <1>5, <2>3
    <3>2. ByteAt(f, k) = <<f, k - 2>>
      BY <3>1 DEF ByteAt
    <3> QED
      BY <1>7, <2>1, <2>3, <3>1, <3>2
  <2> QED
    BY <2>2, <2>3
<1>9. cnt = c /\ len = l /\ RegsHold(f, c) /\ (c > 0 => mType = type)
  <2>1. k - 2 = c /\ (c > 0 => k > 2)
    BY <1>5
  <2>2. cnt = k - 2 /\ len = stream[f].len /\ RegsHold(f, k - 2)
        /\ (k > 2 => mType = stream[f].type)
    BY <1>2, <1>3 DEF Framed
  <2> QED
    BY <1>4, <1>6, <2>1, <2>2
<1>10. /\ mType' = IF c = 0 THEN byte ELSE mType
       /\ acc' = [r \in DOMAIN Window |->
                    IF c \in Window[r] THEN Append(Tail(acc[r]), byte) ELSE acc[r]]
       /\ state' = IF c = l - 1 THEN "LenHi" ELSE "Body"
       /\ emit' = (c = l - 1)
       /\ emitLen' = IF c = l - 1 THEN l ELSE emitLen
       /\ emitShort' = IF c = l - 1 THEN \/ l < HeaderLength \/ l < RtlSpecLength(mType)
                       ELSE emitShort
       /\ cnt' = (c + 1) % 2^16
       /\ len' = l
  BY <1>3, <1>8, <1>9 DEF TakeBody
<1>11. cnt' = c + 1
  <2>1. 2^16 = 65536 /\ c + 1 < 65536
    BY <1>4, <1>5
  <2>2. (c + 1) % 65536 = c + 1
    BY <2>1
  <2> QED
    BY <1>10, <2>1, <2>2
<1>12. mType' = type
  BY <1>7, <1>9, <1>10
<1>13. RegsHold(f, c + 1)'
  <2>1. c > 0 => byte = <<f, c>>
    BY <1>7
  <2>2. RegsHold(f, c)
    BY <1>9
  <2>3. acc' = [r \in DOMAIN Window |->
                  IF c \in Window[r] THEN Append(Tail(acc[r]), byte) ELSE acc[r]]
    BY <1>10
  <2> QED
    BY <2>1, <2>2, <2>3, RegsTake
<1>14. Sampled(f - 1)' /\ ~mValid' /\ ~eShort'
  BY <1>1, <1>3, Strobed
<1>15. RegsHold(f, 0)' /\ \A g : RegsHold(g, 0)'
  <2>1. ASSUME NEW r \in Regs, NEW g
        PROVE  Holds(acc'[r], g, Low[r], Width[r], Taken(Low[r], Width[r], 0))
    <3>1. PICK low, w : low = Low[r] /\ w = Width[r] /\ low \in Nat \ {0} /\ w \in Nat \ {0}
      BY WindowFacts
    <3>2. Taken(low, w, 0) = 0
      BY <3>1 DEF Taken
    <3>3. acc'[r] \in Seq(RegByte) /\ Len(acc'[r]) = w
      BY <1>13, <3>1 DEF RegsHold, Holds
    <3>4. \A i \in 1..w : ~(i > w - 0)
      BY <3>1
    <3>5. Holds(acc'[r], g, low, w, 0)
      BY <3>3, <3>4 DEF Holds
    <3> QED
      BY <3>1, <3>2, <3>5
  <2>2. acc' = [r \in Regs |-> acc'[r]]
    BY <1>13 DEF RegsHold
  <2> QED
    BY <2>1, <2>2 DEF RegsHold
<1>16. CASE c = l - 1
  <2>1. at' = <<f + 1, 0>> /\ Position(f + 1, 0)'
    <3>1. k + 1 = 2 + stream[f].len
      BY <1>4, <1>5, <1>16
    <3> QED
      BY <1>1, <3>1, Advance
  <2>2. PICK g \in Nat, j \in Nat : g = f + 1 /\ j = 0 /\ ~(j = 1) /\ ~(j >= 2)
    OBVIOUS
  <2>3. emit' = TRUE /\ state' = "LenHi" /\ emitLen' = l
    BY <1>10, <1>16
  <2>4. Framed(g, j)'
    BY <1>10, <1>15, <2>2, <2>3 DEF Framed
  <2>5. emitShort' <=> ~LongEnough(stream[f])
    <3>1. emitShort' <=> l < HeaderLength \/ l < RtlSpecLength(mType)
      BY <1>10, <1>16
    <3>2. PICK s \in Nat : s = SpecLength(type)
      BY SpecLengthNat
    <3>3. LongEnough(stream[f]) <=> l >= HeaderLength /\ l >= s
      BY <1>4, <1>6, <3>2 DEF LongEnough
    <3>4. HeaderLength = 11
      BY DEF HeaderLength
    <3>5. CASE c = 0
      <4>1. l = 1
        BY <1>16, <3>5
      <4> QED
        BY <3>1, <3>3, <3>4, <4>1
    <3>6. CASE c > 0
      <4>1. RtlSpecLength(mType) = s
        BY <1>9, <3>2, <3>6, TablesAgree
      <4> QED
        BY <3>1, <3>2, <3>3, <3>4, <4>1
    <3> QED
      BY <3>5, <3>6
  <2>6. Armed(f)'
    <3>1. RegsHold(f, l)' /\ l > 0
      <4>1. c + 1 = l
        BY <1>4, <1>16
      <4> QED
        BY <1>5, <1>13, <4>1
    <3> QED
      BY <1>1, <1>4, <1>6, <1>12, <2>3, <2>5, <3>1 DEF Armed
  <2>7. ParsedTo(g, j)'
    <3>1. g - 1 = f /\ g - 2 = f - 1
      BY <2>2
    <3> QED
      BY <1>14, <2>1, <2>2, <2>3, <2>4, <2>6, <3>1 DEF ParsedTo
  <2> QED
    BY <1>3, <1>5, <1>9, <2>7 DEF ParserInv
<1>17. CASE c # l - 1
  <2>1. at' = <<f, k + 1>> /\ Position(f, k + 1)'
    <3>1. k + 1 # 2 + stream[f].len
      BY <1>4, <1>5, <1>17
    <3> QED
      BY <1>1, <3>1, Advance
  <2>2. PICK j \in Nat : j = k + 1 /\ ~(j = 0) /\ ~(j = 1) /\ j - 2 = c + 1
    BY <1>5
  <2>3. emit' = FALSE /\ state' = "Body"
    BY <1>10, <1>17
  <2>4. Framed(f, j)'
    BY <1>1, <1>4, <1>6, <1>10, <1>11, <1>12, <1>13, <1>15, <2>2, <2>3 DEF Framed
  <2>5. ParsedTo(f, j)'
    BY <1>14, <2>1, <2>2, <2>3, <2>4 DEF ParsedTo
  <2> QED
    BY <1>3, <1>5, <1>9, <2>5 DEF ParserInv
<1> QED
  BY <1>4, <1>16, <1>17
LEMMA FeedStep ==
    ASSUME IsFile(stream, cut), ParserInv, Feed PROVE ParserInv'
<1>1. PICK f, k \in Nat : ParsedTo(f, k)
  BY DEF ParserInv
<1>2. PICK byte : byte = ByteAt(at[1], at[2])
  OBVIOUS
<1>3. TakeLenHi(byte) \/ TakeLenLo(byte) \/ TakeBody(byte)
  BY <1>2 DEF Feed, ClockByte
<1> QED
  BY <1>1, <1>2, <1>3, HighStep, LowStep, BodyStep

LEMMA ParserStays ==
    ASSUME ParserInv, UNCHANGED <<stream, cut, parserVars, at, msgs, shorts>>
    PROVE  ParserInv'
<1>1. PICK f, k \in Nat : ParsedTo(f, k)
  BY DEF ParserInv
<1>2. UNCHANGED <<stream, cut, state, len, cnt, emit, emitLen, emitShort, acc, mType, out,
                  mValid, eShort, eZeroLen, at, msgs, shorts>>
  BY DEF parserVars
<1>3. \A g, c : RegsHold(g, c) <=> RegsHold(g, c)'
  BY <1>2 DEF RegsHold
<1>4. Framed(f, k)'
  BY <1>1, <1>2, <1>3 DEF ParsedTo, Framed
<1>5. emit => Armed(f - 1)'
  BY <1>1, <1>2, <1>3 DEF ParsedTo, Armed
<1>6. \A d : Sampled(d) <=> Sampled(d)'
  BY <1>2 DEF Sampled, Views
<1>7. Position(f, k)'
  BY <1>1, <1>2 DEF ParsedTo, Position
<1>8. ParsedTo(f, k)'
  BY <1>1, <1>2, <1>4, <1>5, <1>6, <1>7 DEF ParsedTo
<1> QED
  BY <1>8 DEF ParserInv

LEMMA CosimHolds == CosimSpec => [](ReaderInv /\ ParserInv)
<1>1. CosimInit => ReaderInv /\ ParserInv
  BY FileStart, ParserStart
<1>2. ReaderInv /\ ParserInv /\ [CosimNext]_cosimVars => ReaderInv' /\ ParserInv'
  <2> SUFFICES ASSUME ReaderInv, ParserInv, [CosimNext]_cosimVars PROVE ReaderInv' /\ ParserInv'
    OBVIOUS
  <2>1. IsFile(stream, cut)
    BY DEF ReaderInv
  <2>2. CASE Read
    <3>1. UNCHANGED <<stream, cut>>
      BY <2>2 DEF Read, ReaderNext, NoPrefix, ZeroLength, Truncated, SkipShort, HandOut
    <3> QED
      BY <2>2, <3>1, ReaderStep, ParserStays DEF Read
  <2>3. CASE Feed
    BY <2>1, <2>3, FeedStep, ReaderStays DEF Feed
  <2>4. CASE Gap
    BY <2>1, <2>4, GapStep, ReaderStays DEF Gap
  <2>5. CASE UNCHANGED cosimVars
    BY <2>5, ReaderStays, ParserStays DEF cosimVars, readerVars
  <2> QED
    BY <2>2, <2>3, <2>4, <2>5 DEF CosimNext
<1> QED
  BY <1>1, <1>2, PTL DEF CosimSpec

(* Drained: the parser has decoded what the reader has handed out. *)
LEMMA Drained ==
    ASSUME IsFile(stream, cut), NEW n \in Nat, StoppedAt(n), NEW f \in Nat, NEW k \in Nat,
           ParsedTo(f, k), ~emit, Fed = stats.bytes
    PROVE  msgs = Views(handed) /\ shorts = stats.short
<1>1. Len(stream) \in Nat /\ Position(f, k) /\ at = <<f, k>> /\ Sampled(f - 1)
  BY FileFacts DEF ParsedTo
<1>2. PICK m \in Nat : m = n - 1 /\ n = m + 1 /\ m <= Len(stream)
  BY <1>1 DEF StoppedAt, IsStop
<1>3. PICK g \in Nat : g = f - 1 /\ f = g + 1 /\ g <= Len(stream)
  BY <1>1 DEF Position
<1>4. /\ SizeUpTo(stream, cut, m) \in Nat /\ SizeUpTo(stream, cut, g) \in Nat
  BY <1>1, <1>2, <1>3, SizesGrow
<1>5. PICK read \in Nat, fed \in Nat :
         read = SizeUpTo(stream, cut, m) /\ fed = SizeUpTo(stream, cut, g)
  BY <1>4
<1>6. fed + k = read + (IF EndsClean(n) THEN 2 ELSE 0)
  BY <1>1, <1>2, <1>3, <1>5 DEF Fed, StoppedAt
<1>7. handed = Sound(stream, m) /\ stats.short = Cardinality(Shorts(stream, m))
  BY <1>2 DEF StoppedAt, ReadTo
<1>8. ~(g < m)
  <2> SUFFICES ASSUME g < m PROVE FALSE
    OBVIOUS
  <2>1. PICK more \in Nat : more = Available(stream, cut, f) /\ f \in 1..Len(stream)
    BY <1>1, <1>2, <1>3, FileFacts
  <2>2. read >= fed + more
    <3>1. m \in 0..Len(stream) /\ g \in 0..Len(stream) /\ g <= m
      BY <1>1, <1>2, <1>3
    <3>2. SizeUpTo(stream, cut, m)
             >= SizeUpTo(stream, cut, g) + Available(stream, cut, g + 1)
      BY <3>1, SizesGrow
    <3> QED
      BY <1>3, <1>5, <2>1, <3>2
  <2>3. Whole(stream, cut, f)
    <3>1. f \in 1..(n - 1)
      BY <1>2, <1>3
    <3> QED
      BY <3>1 DEF StoppedAt, IsStop
  <2>4. k < more
    BY <1>1, <2>1, <2>3 DEF Position, Whole
  <2> QED
    BY <1>1, <1>6, <2>2, <2>4
<1>9. CASE g = m
  BY <1>1, <1>3, <1>7, <1>9 DEF Sampled
<1>10. CASE g > m
  <2>1. n \in 1..Len(stream) /\ n \in 1..(f - 1)
    BY <1>2, <1>3, <1>10
  <2>2. Whole(stream, cut, n)
    BY <1>1, <2>1 DEF Position
  <2>3. PICK l \in Nat : l = stream[n].len /\ Available(stream, cut, n) = 2 + l
    BY <2>1, <2>2, FileFacts DEF Whole
  <2>4. fed >= read + (2 + l)
    <3>1. m \in 0..Len(stream) /\ g \in 0..Len(stream) /\ m < g /\ m <= g
      BY <1>1, <1>2, <1>3, <1>10
    <3>2. SizeUpTo(stream, cut, g)
             >= SizeUpTo(stream, cut, m) + Available(stream, cut, m + 1)
      BY <3>1, SizesGrow
    <3> QED
      BY <1>2, <1>5, <2>3, <3>2
  <2>5. EndsClean(n)
    BY <1>1, <1>6, <2>4
  <2>6. n = Len(stream) /\ l = 0
    BY <2>3, <2>5 DEF EndsClean
  <2>7. g = n
    BY <1>2, <1>3, <1>10, <2>6
  <2>8. ~LongEnough(stream[m + 1]) /\ stream[m + 1].len = 0
    <3>1. stream[m + 1] = stream[n] /\ stream[n].len = 0
      BY <1>2, <2>3, <2>6
    <3>2. ~LongEnough(stream[n])
      BY <3>1 DEF LongEnough, HeaderLength
    <3> QED
      BY <3>1, <3>2
  <2>9. Sound(stream, m + 1) = Sound(stream, m)
    BY <2>8, SoundStep
  <2>10. Cardinality(Shorts(stream, m + 1)) = Cardinality(Shorts(stream, m))
    BY <2>8, ShortsStep
  <2> QED
    BY <1>1, <1>2, <1>3, <1>7, <2>7, <2>9, <2>10 DEF Sampled
<1> QED
  BY <1>8, <1>9, <1>10

LEMMA SameFollows == ReaderInv /\ ParserInv => SameMessages
<1> SUFFICES ASSUME ReaderInv, ParserInv, stopped PROVE SameMessages
  BY DEF SameMessages
<1>1. PICK f, k \in Nat : ParsedTo(f, k)
  BY DEF ParserInv
<1>2. PICK n \in Nat : StoppedAt(n)
  BY DEF ReaderInv
<1>3. \A q : Compare(q, q)
  BY DEF Compare
<1>4. msgs = Views(Sound(stream, Decoded))
  BY <1>1 DEF ParsedTo, Sampled, Decoded
<1>5. Fed = stats.bytes /\ ~emit => FuzzAgrees
  BY <1>1, <1>2, <1>3, Drained DEF FuzzAgrees, ReaderInv
<1> QED
  BY <1>3, <1>4, <1>5 DEF SameMessages

(* The C++ reader and the hardware parser agree on any file, whatever the pauses on the *)
(* input: the differential fuzzer's verdict, and, while the parser is still being fed,  *)
(* every field of every message that ended at least one cycle ago.                      *)
THEOREM ParserMatchesReader == CosimSpec => []SameMessages
  BY CosimHolds, SameFollows, PTL

LEMMA AssertionsStep ==
    ReaderInv /\ ParserInv /\ [CosimNext]_cosimVars =>
        [/\ state = "Body" /\ cnt' # cnt => cnt < len
         /\ ~(mValid' /\ eShort') /\ (mValid' => out'.length >= HeaderLength)
         /\ ~(mValid /\ mValid') /\ ~(eShort /\ eShort') /\ ~(emit /\ emit')]_parserVars
<1> SUFFICES ASSUME ReaderInv, ParserInv, CosimNext, ~UNCHANGED parserVars
             PROVE  /\ state = "Body" /\ cnt' # cnt => cnt < len
                    /\ ~(mValid' /\ eShort') /\ (mValid' => out'.length >= HeaderLength)
                    /\ ~(mValid /\ mValid') /\ ~(eShort /\ eShort') /\ ~(emit /\ emit')
  BY DEF cosimVars
<1>1. PICK f, k \in Nat : ParsedTo(f, k)
  BY DEF ParserInv
<1>2. IsFile(stream, cut) /\ (emit => ~mValid /\ ~eShort /\ state = "LenHi")
  BY <1>1 DEF ReaderInv, ParsedTo, Framed
<1>3. ASSUME Strobe, Sample, UNCHANGED stream, emit => mType' = mType
      PROVE  /\ ~(mValid' /\ eShort') /\ (mValid' => out'.length >= HeaderLength)
             /\ ~(mValid /\ mValid') /\ ~(eShort /\ eShort')
  BY <1>1, <1>2, <1>3, Strobed
<1>4. CASE Gap
  BY <1>3, <1>4 DEF Gap, ClockIdle, readerVars
<1>5. CASE Feed
  <2>1. Strobe /\ Sample /\ UNCHANGED stream
    BY <1>5 DEF Feed, ClockByte, readerVars
  <2>2. PICK byte : byte = ByteAt(at[1], at[2])
    OBVIOUS
  <2>3. CASE TakeLenHi(byte)
    BY <1>3, <2>1, <2>3 DEF TakeLenHi
  <2>4. CASE TakeLenLo(byte)
    BY <1>3, <2>1, <2>4 DEF TakeLenLo
  <2>5. CASE TakeBody(byte)
    BY <1>1, <1>2, <1>3, <1>5, <2>1, <2>2, <2>5, BodyStep
  <2> QED
    BY <1>5, <2>2, <2>3, <2>4, <2>5 DEF Feed, ClockByte
<1> QED
  BY <1>4, <1>5 DEF CosimNext, Read

(* The assertions that itch_parse.sv makes of itself hold at every clock edge, on any   *)
(* input: the counter stays inside the body, a message is decoded or rejected and never *)
(* both, and every strobe and every armed decode lasts one cycle.                       *)
THEOREM HardwareAssertions == CosimSpec => AssertionsHold
  BY CosimHolds, AssertionsStep, PTL DEF CosimSpec, AssertionsHold

-----------------------------------------------------------------------------
(* The tapes. *)
Listing == [symbol : Symbols, side : Sides, price : Prices, qty : Nat \ {0},
            seen : BOOLEAN, told : BOOLEAN]

MarketFits == /\ live \in [DOMAIN live -> Listing]
              /\ locate = listed \cap Wanted

(* What the index keeps of an order, and what a tape's book does. *)
Kept(order) == [shares |-> order.qty, slot |-> Target(order)]
Resting(order) == [side |-> order.side, price |-> order.price, qty |-> order.qty]

RouteIsMarket == route = [ref \in Seen |-> Kept(live[ref])]

(* The orders of a tape that rest. *)
Shown(symbol) == {r \in Seen : Target(live[r]) = symbol}

IsMapBook(b) == b = [orders |-> b.orders, levels |-> b.levels]

TapesFollow ==
    /\ tape = [symbol \in Wanted |-> tape[symbol]]
    /\ \A symbol \in Wanted :
          /\ IsMapBook(tape[symbol])
          /\ tape[symbol].orders = [ref \in Shown(symbol) |-> Resting(live[ref])]

TapeInv == /\ MarketFits
           /\ ~failed /\ "duplicate" \notin faults => RouteIsMarket /\ TapesFollow

-----------------------------------------------------------------------------
(* Maps and books. *)

LEMMA BookAdds ==
    ASSUME NEW b, IsMapBook(b), NEW ref, NEW side, NEW px, NEW qty, qty # 0
    PROVE  /\ IsMapBook(Book!Add(b, ref, side, px, qty))
           /\ Book!Add(b, ref, side, px, qty).orders =
                 Index!Put(b.orders, ref, [side |-> side, price |-> px, qty |-> qty])
<1> DEFINE level == Book!LevelAt(b, side, px)
           order == [side |-> side, price |-> px, qty |-> qty]
           more == [qty |-> level.qty + qty, orders |-> level.orders + 1]
<1>1. PICK o, l : b = [orders |-> o, levels |-> l]
  BY DEF IsMapBook
<1>2. Book!SetLevel(b, side, px, more) =
          [orders |-> o, levels |-> [l EXCEPT ![side] = Book!Put(@, px, more)]]
  BY <1>1 DEF Book!SetLevel
<1>3. Book!Add(b, ref, side, px, qty) =
          [Book!SetLevel(b, side, px, more) EXCEPT !.orders = Book!Put(@, ref, order)]
  BY DEF Book!Add
<1> HIDE DEF more
<1>4. Book!Add(b, ref, side, px, qty) =
          [orders |-> Book!Put(o, ref, order),
           levels |-> [l EXCEPT ![side] = Book!Put(@, px, more)]]
  BY <1>2, <1>3
<1> QED
  BY <1>1, <1>4 DEF IsMapBook, Book!Put, Index!Put

LEMMA BookDetaches ==
    ASSUME NEW b, IsMapBook(b), NEW ref
    PROVE  /\ IsMapBook(Book!Detach(b, ref))
           /\ Book!Detach(b, ref).orders = Index!Without(b.orders, ref)
<1>1. PICK o, l : b = [orders |-> o, levels |-> l]
  BY DEF IsMapBook
<1>2. PICK rest : Book!Detach(b, ref) =
                     [[orders |-> o, levels |-> rest] EXCEPT !.orders = Book!Without(@, ref)]
  <2> DEFINE order == b.orders[ref]
             level == Book!LevelAt(b, order.side, order.price)
             less == [qty |-> level.qty - order.qty, orders |-> level.orders - 1]
  <2>1. [b EXCEPT !.levels[order.side] = Book!Without(@, order.price)]
            = [orders |-> o, levels |-> [l EXCEPT ![order.side] = Book!Without(@, order.price)]]
    BY <1>1
  <2>2. Book!SetLevel(b, order.side, order.price, less)
            = [orders |-> o, levels |-> [l EXCEPT ![order.side] = Book!Put(@, order.price, less)]]
    BY <1>1 DEF Book!SetLevel
  <2>3. Book!Detach(b, ref) =
            [(IF less.orders = 0
              THEN [b EXCEPT !.levels[order.side] = Book!Without(@, order.price)]
              ELSE Book!SetLevel(b, order.side, order.price, less))
             EXCEPT !.orders = Book!Without(@, ref)]
    BY DEF Book!Detach
  <2> HIDE DEF less, order
  <2> QED
    BY <2>1, <2>2, <2>3
<1>3. Book!Detach(b, ref) = [orders |-> Book!Without(o, ref), levels |-> rest]
  BY <1>2
<1> QED
  BY <1>1, <1>3 DEF IsMapBook, Book!Without, Index!Without

LEMMA LevelShrinks ==
    ASSUME NEW b, NEW o, NEW l, b = [orders |-> o, levels |-> l],
           NEW side, NEW px, NEW qty
    PROVE  [b EXCEPT !.levels[side][px].qty = @ - qty]
               = [orders |-> o, levels |-> [l EXCEPT ![side][px].qty = @ - qty]]
  OBVIOUS

LEMMA BookReduces ==
    ASSUME NEW b, IsMapBook(b), NEW ref \in DOMAIN b.orders, NEW qty \in Nat,
           b.orders[ref].qty \in Nat
    PROVE  /\ IsMapBook(Book!Reduce(b, ref, qty))
           /\ Book!Reduce(b, ref, qty).orders =
                 IF qty < b.orders[ref].qty THEN [b.orders EXCEPT ![ref].qty = @ - qty]
                 ELSE Index!Without(b.orders, ref)
<1>1. PICK o, l : b = [orders |-> o, levels |-> l]
  BY DEF IsMapBook
<1>2. CASE qty < b.orders[ref].qty
  <2> DEFINE order == b.orders[ref]
  <2>1. Book!Reduce(b, ref, qty) =
            [b EXCEPT !.orders[ref].qty = @ - qty,
                      !.levels[order.side][order.price].qty = @ - qty]
    BY <1>2 DEF Book!Reduce
  <2> DEFINE fewer == [o EXCEPT ![ref].qty = @ - qty]
             half == [b EXCEPT !.orders[ref].qty = @ - qty]
  <2> HIDE DEF order
  <2>2. half = [orders |-> fewer, levels |-> l]
    BY <1>1
  <2>3. Book!Reduce(b, ref, qty) = [half EXCEPT !.levels[order.side][order.price].qty = @ - qty]
    BY <2>1
  <2> HIDE DEF fewer, half
  <2>4. PICK rest : Book!Reduce(b, ref, qty) = [orders |-> fewer, levels |-> rest]
    BY <2>2, <2>3, LevelShrinks
  <2>5. b.orders = o /\ fewer = [b.orders EXCEPT ![ref].qty = @ - qty]
    BY <1>1 DEF fewer
  <2>6. Book!Reduce(b, ref, qty).orders = fewer /\ Book!Reduce(b, ref, qty).levels = rest
    BY <2>4
  <2> QED
    BY <1>2, <2>4, <2>5, <2>6 DEF IsMapBook
<1>3. CASE ~(qty < b.orders[ref].qty)
  <2>1. Book!Reduce(b, ref, qty) = Book!Detach(b, ref)
    BY <1>3 DEF Book!Reduce
  <2> QED
    BY <1>3, <2>1, BookDetaches
<1> QED
  BY <1>2, <1>3

LEMMA BookReplaces ==
    ASSUME NEW b, IsMapBook(b), NEW old \in DOMAIN b.orders, NEW new, NEW px, NEW qty, qty # 0
    PROVE  /\ IsMapBook(Book!Replace(b, old, new, px, qty))
           /\ Book!Replace(b, old, new, px, qty).orders =
                 Index!Put(Index!Without(b.orders, old), new,
                           [side |-> b.orders[old].side, price |-> px, qty |-> qty])
<1>1. Book!Replace(b, old, new, px, qty) =
          Book!Add(Book!Detach(b, old), new, b.orders[old].side, px, qty)
  BY DEF Book!Replace
<1> QED
  BY <1>1, BookDetaches, BookAdds

LEMMA EmitAt ==
    ASSUME tape = [symbol \in Wanted |-> tape[symbol]],
           NEW slot \in Wanted \cup {None}, NEW b, Emit(slot, b)
    PROVE  /\ tape' = [symbol \in Wanted |-> tape'[symbol]]
           /\ \A symbol \in Wanted : tape'[symbol] = IF symbol = slot THEN b ELSE tape[symbol]
<1>1. None \notin Wanted
  BY ExtractAssumption
<1> QED
  BY <1>1 DEF Emit

-----------------------------------------------------------------------------
(* The orders that rest, before and after a message. *)

LEMMA MarketAt ==
    ASSUME MarketFits
    PROVE  /\ live = [r \in DOMAIN live |-> live[r]]
           /\ \A r \in DOMAIN live :
                 live[r] \in Listing /\ live[r].qty \in Nat \ {0} /\ live[r].seen \in BOOLEAN
  BY DEF MarketFits, Listing

LEMMA TargetIs ==
    ASSUME NEW order PROVE Target(order) \in Wanted \cup {None} /\ None \notin Wanted
  BY ExtractAssumption DEF Target

LEMMA AddedLive ==
    ASSUME MarketFits, NEW ref, NEW order \in Listing, order.seen,
           live' = Index!Put(live, ref, order), UNCHANGED <<listed, locate>>
    PROVE  /\ MarketFits' /\ live'[ref] = order
           /\ \A r \in DOMAIN live \ {ref} : live'[r] = live[r]
           /\ Seen' = Seen \cup {ref}
<1>1. /\ DOMAIN live' = DOMAIN live \cup {ref} /\ live'[ref] = order
      /\ \A r \in DOMAIN live \ {ref} : live'[r] = live[r]
      /\ live' = [r \in DOMAIN live' |-> live'[r]]
  BY DEF Index!Put
<1>2. live' \in [DOMAIN live' -> Listing]
  BY <1>1, MarketAt
<1>3. Seen' = {r \in DOMAIN live \cup {ref} : live'[r].seen}
  BY <1>1 DEF Seen
<1> QED
  BY <1>1, <1>2, <1>3 DEF MarketFits, Seen

LEMMA GoneLive ==
    ASSUME MarketFits, NEW ref, live' = Index!Without(live, ref), UNCHANGED <<listed, locate>>
    PROVE  /\ MarketFits'
           /\ \A r \in DOMAIN live \ {ref} : live'[r] = live[r]
           /\ Seen' = Seen \ {ref}
<1>1. /\ DOMAIN live' = DOMAIN live \ {ref}
      /\ \A r \in DOMAIN live \ {ref} : live'[r] = live[r]
      /\ live' = [r \in DOMAIN live' |-> live'[r]]
  BY DEF Index!Without
<1>2. live' \in [DOMAIN live' -> Listing]
  BY <1>1, MarketAt
<1>3. Seen' = {r \in DOMAIN live \ {ref} : live'[r].seen}
  BY <1>1 DEF Seen
<1> QED
  BY <1>1, <1>2, <1>3 DEF MarketFits, Seen

LEMMA FewerIs ==
    ASSUME NEW order \in Listing, NEW qty \in Nat \ {0}, qty < order.qty,
           NEW less, less = [order EXCEPT !.qty = @ - qty]
    PROVE  /\ less \in Listing /\ less.seen = order.seen /\ less.qty = order.qty - qty
           /\ Target(less) = Target(order)
           /\ Kept(less) = [shares |-> order.qty - qty, slot |-> Target(order)]
           /\ Resting(less) = [Resting(order) EXCEPT !.qty = @ - qty]
<1>1. order.qty - qty \in Nat \ {0}
  BY DEF Listing
<1>2. /\ less.symbol = order.symbol /\ less.side = order.side /\ less.price = order.price
      /\ less.told = order.told /\ less.seen = order.seen /\ less.qty = order.qty - qty
  BY DEF Listing
<1>3. less \in Listing
  BY <1>1 DEF Listing
<1> QED
  BY <1>2, <1>3 DEF Target, Kept, Resting

LEMMA FewerLive ==
    ASSUME MarketFits, NEW ref \in DOMAIN live, NEW qty \in Nat \ {0}, qty < live[ref].qty,
           live' = [live EXCEPT ![ref].qty = @ - qty], UNCHANGED <<listed, locate>>
    PROVE  /\ MarketFits' /\ live'[ref] = [live[ref] EXCEPT !.qty = @ - qty]
           /\ \A r \in DOMAIN live \ {ref} : live'[r] = live[r]
           /\ Seen' = Seen
<1>1. /\ DOMAIN live' = DOMAIN live /\ live'[ref] = [live[ref] EXCEPT !.qty = @ - qty]
      /\ \A r \in DOMAIN live \ {ref} : live'[r] = live[r]
      /\ live' = [r \in DOMAIN live' |-> live'[r]]
  BY MarketAt
<1>2. live[ref] \in Listing
  BY MarketAt
<1>3. live'[ref] \in Listing /\ live'[ref].seen = live[ref].seen
  BY <1>1, <1>2, FewerIs
<1>4. live' \in [DOMAIN live' -> Listing]
  BY <1>1, <1>3, MarketAt
<1>5. Seen' = {r \in DOMAIN live : live'[r].seen}
  BY <1>1 DEF Seen
<1> QED
  BY <1>1, <1>3, <1>4, <1>5 DEF MarketFits, Seen

(* A replacement that names an order that rests: new has its target, and is seen if it was. *)
Inherits(old, new, px, qty) ==
    /\ \A r \in DOMAIN live \ {old, new} : live'[r] = live[r]
    /\ Seen' = IF old \in Seen THEN (Seen \ {old}) \cup {new} ELSE Seen \ {new}
    /\ Target(live'[new]) = Target(live[old])
    /\ Kept(live'[new]) = [shares |-> qty, slot |-> Target(live[old])]
    /\ Resting(live'[new]) = [side |-> live[old].side, price |-> px, qty |-> qty]

LEMMA HeirLive ==
    ASSUME MarketFits, NEW old \in DOMAIN live, NEW new, NEW px \in Prices, NEW qty \in Nat \ {0},
           ReplaceOrder(old, new, px, qty)
    PROVE  MarketFits' /\ Inherits(old, new, px, qty)
<1>0. PICK order : order = live[old] /\ order \in Listing
  BY MarketAt
<1>. PICK heir : heir = [order EXCEPT !.price = px, !.qty = qty]
  OBVIOUS
<1>1. /\ heir.symbol = order.symbol /\ heir.side = order.side /\ heir.price = px
      /\ heir.qty = qty /\ heir.told = order.told /\ heir.seen = order.seen
      /\ heir \in Listing /\ order.seen \in BOOLEAN
  BY <1>0 DEF Listing
<1>2. PICK rest : rest = Index!Without(live, old)
  OBVIOUS
<1>3. DOMAIN rest = DOMAIN live \ {old} /\ \A r \in DOMAIN live \ {old} : rest[r] = live[r]
  BY <1>2 DEF Index!Without
<1>4. live' = Index!Put(rest, new, heir)
  BY <1>0, <1>2 DEF ReplaceOrder
<1>5. /\ DOMAIN live' = DOMAIN rest \cup {new} /\ live'[new] = heir
      /\ \A r \in DOMAIN rest \ {new} : live'[r] = rest[r]
      /\ live' = [r \in DOMAIN live' |-> live'[r]]
  BY <1>4 DEF Index!Put
<1>6. \A r \in DOMAIN live \ {old, new} : live'[r] = live[r]
  BY <1>3, <1>5
<1>7. live' \in [DOMAIN live' -> Listing]
  BY <1>1, <1>3, <1>5, <1>6, MarketAt
<1>8. Seen' = IF old \in Seen THEN (Seen \ {old}) \cup {new} ELSE Seen \ {new}
  <2>1. Seen' = {r \in (DOMAIN live \ {old}) \cup {new} : live'[r].seen}
    BY <1>3, <1>5 DEF Seen
  <2>2. live'[new].seen = live[old].seen
    BY <1>0, <1>1, <1>5
  <2> QED
    BY <1>6, <2>1, <2>2 DEF Seen
<1>9. MarketFits'
  BY <1>7 DEF MarketFits, ReplaceOrder
<1>10. /\ Target(heir) = Target(order)
       /\ Kept(heir) = [shares |-> qty, slot |-> Target(order)]
       /\ Resting(heir) = [side |-> order.side, price |-> px, qty |-> qty]
  BY <1>1 DEF Target, Kept, Resting
<1> QED
  BY <1>0, <1>5, <1>6, <1>8, <1>9, <1>10 DEF Inherits

-----------------------------------------------------------------------------
(* The index, through each message. *)

LEMMA RouteAt ==
    ASSUME RouteIsMarket
    PROVE  /\ DOMAIN route = Seen /\ \A ref \in Seen : route[ref] = Kept(live[ref])
           /\ route = [ref \in DOMAIN route |-> route[ref]]
           /\ Seen \subseteq DOMAIN live
  BY DEF RouteIsMarket, Seen

(* What is left to show of a step once it is known order by order. *)
LEMMA RouteFollows ==
    ASSUME route' = [ref \in DOMAIN route' |-> route'[ref]], DOMAIN route' = Seen',
           \A ref \in Seen' : route'[ref] = Kept(live'[ref])
    PROVE  RouteIsMarket'
  BY DEF RouteIsMarket, Kept, Target

LEMMA AddRoutes ==
    ASSUME MarketFits, RouteIsMarket, ~failed', NEW ref, NEW order \in Listing, order.seen,
           order.told <=> order.symbol \in listed, AddOrder(ref, order)
    PROVE  RouteIsMarket'
<1>1. /\ live'[ref] = order /\ \A r \in DOMAIN live \ {ref} : live'[r] = live[r]
      /\ Seen' = Seen \cup {ref}
  BY AddedLive DEF AddOrder
<1>2. Slot(order.symbol) = Target(order)
  BY DEF Slot, Target, MarketFits
<1>3. route' = Index!Put(route, ref, Kept(order))
  BY <1>2 DEF AddOrder, Index!With, Kept
<1>4. /\ DOMAIN route' = DOMAIN route \cup {ref} /\ route'[ref] = Kept(order)
      /\ \A r \in DOMAIN route \ {ref} : route'[r] = route[r]
      /\ route' = [r \in DOMAIN route' |-> route'[r]]
  BY <1>3 DEF Index!Put
<1>5. ASSUME NEW r \in Seen' PROVE route'[r] = Kept(live'[r])
  <2>1. CASE r = ref
    BY <1>1, <1>4, <2>1
  <2>2. CASE r # ref
    <3>1. r \in Seen /\ live'[r] = live[r] /\ route'[r] = route[r]
      BY <1>1, <1>4, <2>2, RouteAt
    <3> QED
      BY <3>1, RouteAt
  <2> QED
    BY <2>1, <2>2
<1> QED
  BY <1>1, <1>4, <1>5, RouteAt, RouteFollows

LEMMA GoneRoutes ==
    ASSUME MarketFits, RouteIsMarket, NEW ref, live' = Index!Without(live, ref),
           UNCHANGED <<listed, locate>>,
           route' = IF ref \in DOMAIN route THEN Index!Without(route, ref) ELSE route
    PROVE  RouteIsMarket'
<1>1. (\A r \in DOMAIN live \ {ref} : live'[r] = live[r]) /\ Seen' = Seen \ {ref}
  BY GoneLive
<1>2. /\ DOMAIN route' = DOMAIN route \ {ref}
      /\ \A r \in DOMAIN route \ {ref} : route'[r] = route[r]
      /\ route' = [r \in DOMAIN route' |-> route'[r]]
  BY RouteAt DEF Index!Without
<1>3. ASSUME NEW r \in Seen' PROVE route'[r] = Kept(live'[r])
  <2>1. r \in Seen /\ live'[r] = live[r] /\ route'[r] = route[r]
    BY <1>1, <1>2, RouteAt
  <2> QED
    BY <2>1, RouteAt
<1> QED
  BY <1>1, <1>2, <1>3, RouteAt, RouteFollows

LEMMA DeleteRoutes ==
    ASSUME MarketFits, RouteIsMarket, NEW ref, DeleteOrder(ref)
    PROVE  RouteIsMarket'
<1>1. /\ live' = Index!Without(live, ref) /\ UNCHANGED <<listed, locate>>
      /\ route' = IF ref \in DOMAIN route THEN Index!Without(route, ref) ELSE route
  BY DEF DeleteOrder
<1> QED
  BY <1>1, GoneRoutes

(* An orphan changes nothing, and a reduction retires an order or takes from it. *)
LEMMA ReduceCases ==
    ASSUME MarketFits, NEW ref, NEW qty, ReduceOrder(ref, qty)
    PROVE  /\ UNCHANGED <<listed, locate, failed>>
           /\ ref \in DOMAIN live /\ qty < live[ref].qty =>
                 live' = [live EXCEPT ![ref].qty = @ - qty]
           /\ ~(ref \in DOMAIN live /\ qty < live[ref].qty) => live' = Index!Without(live, ref)
<1>1. ASSUME ref \notin DOMAIN live PROVE live = Index!Without(live, ref)
  <2>1. DOMAIN live \ {ref} = DOMAIN live /\ live = [r \in DOMAIN live |-> live[r]]
    BY <1>1, MarketAt
  <2> QED
    BY <2>1 DEF Index!Without
<1> QED
  BY <1>1 DEF ReduceOrder, Fewer

LEMMA ReduceRoutes ==
    ASSUME MarketFits, RouteIsMarket, NEW ref, NEW qty \in Nat \ {0}, ReduceOrder(ref, qty)
    PROVE  RouteIsMarket'
<1>1. route' = IF ref \in DOMAIN route THEN Take(ref, qty) ELSE route
  BY DEF ReduceOrder
<1>2. ref \in DOMAIN route => /\ ref \in DOMAIN live
                              /\ route[ref] = Kept(live[ref]) /\ route[ref].shares = live[ref].qty
  BY RouteAt DEF Kept
<1>3. CASE ~(ref \in DOMAIN live /\ qty < live[ref].qty)
  <2>1. /\ live' = Index!Without(live, ref) /\ UNCHANGED <<listed, locate>>
        /\ route' = IF ref \in DOMAIN route THEN Index!Without(route, ref) ELSE route
    BY <1>1, <1>2, <1>3, ReduceCases DEF Take
  <2> QED
    BY <2>1, GoneRoutes
<1>4. CASE ref \in DOMAIN live /\ qty < live[ref].qty
  <2>1. live' = [live EXCEPT ![ref].qty = @ - qty] /\ UNCHANGED <<listed, locate>>
    BY <1>4, ReduceCases
  <2>2. /\ live'[ref] = [live[ref] EXCEPT !.qty = @ - qty] /\ live[ref] \in Listing
        /\ \A r \in DOMAIN live \ {ref} : live'[r] = live[r]
        /\ Seen' = Seen
    BY <1>4, <2>1, FewerLive, MarketAt
  <2>3. Kept(live'[ref]) = [shares |-> live[ref].qty - qty, slot |-> Target(live[ref])]
    BY <1>4, <2>2, FewerIs
  <2>4. /\ DOMAIN route' = DOMAIN route /\ route' = [r \in DOMAIN route' |-> route'[r]]
        /\ \A r \in DOMAIN route \ {ref} : route'[r] = route[r]
        /\ ref \in DOMAIN route => route'[ref] = [shares |-> live[ref].qty - qty,
                                                  slot |-> Target(live[ref])]
    <3>1. CASE ref \notin DOMAIN route
      BY <1>1, <3>1, RouteAt
    <3>2. CASE ref \in DOMAIN route
      <4>1. route' = [route EXCEPT ![ref].shares = @ - qty]
        BY <1>1, <1>2, <1>4, <3>2 DEF Take
      <4>2. [route[ref] EXCEPT !.shares = @ - qty]
                = [shares |-> live[ref].qty - qty, slot |-> Target(live[ref])]
        BY <1>2, <3>2 DEF Kept
      <4> QED
        BY <3>2, <4>1, <4>2, RouteAt
    <3> QED
      BY <3>1, <3>2
  <2>5. ASSUME NEW r \in Seen' PROVE route'[r] = Kept(live'[r])
    <3>1. CASE r = ref
      BY <2>2, <2>3, <2>4, <3>1, RouteAt
    <3>2. CASE r # ref
      <4>1. r \in Seen /\ live'[r] = live[r] /\ route'[r] = route[r]
        BY <2>2, <2>4, <3>2, RouteAt
      <4> QED
        BY <4>1, RouteAt
    <3> QED
      BY <3>1, <3>2
  <2> QED
    BY <2>2, <2>4, <2>5, RouteAt, RouteFollows
<1> QED
  BY <1>3, <1>4

(* The reference an order that is not indexed is replaced under must not be indexed. *)
LEMMA ReplaceRoutes ==
    ASSUME MarketFits, RouteIsMarket, ~failed', NEW old, NEW new, NEW px \in Prices,
           NEW qty \in Nat \ {0}, ReplaceOrder(old, new, px, qty),
           old \in Seen \/ new \notin DOMAIN live \ {old}
    PROVE  RouteIsMarket'
<1>1. CASE old \notin DOMAIN live
  <2>1. live' = live /\ route' = route
    BY <1>1, RouteAt DEF ReplaceOrder
  <2> QED
    BY <2>1 DEF RouteIsMarket, Seen, Kept, Target
<1>2. CASE old \in DOMAIN live
  <2>3. /\ \A r \in DOMAIN live \ {old, new} : live'[r] = live[r]
        /\ Seen' = IF old \in Seen THEN (Seen \ {old}) \cup {new} ELSE Seen \ {new}
        /\ Kept(live'[new]) = [shares |-> qty, slot |-> Target(live[old])]
    <3>1. Inherits(old, new, px, qty)
      BY <1>2, HeirLive
    <3> QED
      BY <3>1 DEF Inherits
  <2>4. CASE old \notin Seen
    <3>1. route' = route
      BY <2>4, RouteAt DEF ReplaceOrder
    <3>2. new \notin Seen
      BY <2>4, RouteAt
    <3>3. ASSUME NEW r \in Seen' PROVE route'[r] = Kept(live'[r])
      BY <2>3, <2>4, <3>1, <3>2, RouteAt
    <3> QED
      BY <2>3, <2>4, <3>1, <3>2, <3>3, RouteAt, RouteFollows
  <2>5. CASE old \in Seen
    <3>1. PICK rest : rest = Index!Without(route, old)
      OBVIOUS
    <3>2. route[old] = Kept(live[old]) /\ old \in DOMAIN route
      BY <2>5, RouteAt
    <3>3. [route[old] EXCEPT !.shares = qty] = Kept(live'[new])
      BY <2>3, <3>2 DEF Kept
    <3>4. route' = Index!Put(rest, new, Kept(live'[new]))
      BY <3>1, <3>2, <3>3 DEF ReplaceOrder, Reroute, Index!With
    <3>5. DOMAIN rest = DOMAIN route \ {old} /\ \A r \in DOMAIN route \ {old} : rest[r] = route[r]
      BY <3>1 DEF Index!Without
    <3>6. /\ DOMAIN route' = DOMAIN rest \cup {new} /\ route'[new] = Kept(live'[new])
          /\ \A r \in DOMAIN rest \ {new} : route'[r] = rest[r]
          /\ route' = [r \in DOMAIN route' |-> route'[r]]
      BY <3>4 DEF Index!Put
    <3>7. ASSUME NEW r \in Seen' PROVE route'[r] = Kept(live'[r])
      <4>1. CASE r = new
        BY <2>3, <3>6, <4>1
      <4>2. CASE r # new
        <5>1. r \in Seen \ {old, new} /\ live'[r] = live[r] /\ route'[r] = route[r]
          BY <2>3, <2>5, <3>5, <3>6, <4>2, RouteAt
        <5> QED
          BY <5>1, RouteAt
      <4> QED
        BY <4>1, <4>2
    <3> QED
      BY <2>3, <2>5, <3>5, <3>6, <3>7, RouteAt, RouteFollows
  <2> QED
    BY <2>4, <2>5
<1> QED
  BY <1>1, <1>2

-----------------------------------------------------------------------------
(* The tapes, through each message. *)

(* One tape is written, and only its orders have changed. *)
LEMMA TapesMove ==
    ASSUME TapesFollow, NEW slot \in Wanted \cup {None}, NEW b, Emit(slot, b),
           slot \in Wanted =>
               IsMapBook(b) /\ b.orders = [r \in Shown(slot)' |-> Resting(live'[r])],
           \A symbol \in Wanted \ {slot} : Shown(symbol)' = Shown(symbol),
           \A symbol \in Wanted \ {slot} : \A r \in Shown(symbol) : live'[r] = live[r]
    PROVE  TapesFollow'
<1>1. /\ tape' = [symbol \in Wanted |-> tape'[symbol]]
      /\ \A symbol \in Wanted : tape'[symbol] = IF symbol = slot THEN b ELSE tape[symbol]
  BY EmitAt DEF TapesFollow
<1>2. ASSUME NEW symbol \in Wanted
      PROVE  /\ IsMapBook(tape'[symbol])
             /\ tape'[symbol].orders = [r \in Shown(symbol)' |-> Resting(live'[r])]
  <2>1. CASE symbol = slot
    BY <1>1, <2>1
  <2>2. CASE symbol # slot
    <3>1. tape'[symbol] = tape[symbol]
      BY <1>1, <2>2
    <3>2. [r \in Shown(symbol)' |-> Resting(live'[r])] = [r \in Shown(symbol) |-> Resting(live[r])]
      BY <2>2
    <3> QED
      BY <3>1, <3>2 DEF TapesFollow
  <2> QED
    BY <2>1, <2>2
<1> QED
  BY <1>1, <1>2 DEF TapesFollow, Resting, Shown

(* An order the slice does not show the beginning of moves nothing. *)
LEMMA UnseenTapes ==
    ASSUME TapesFollow, tape' = tape, Seen' = Seen, \A r \in Seen : live'[r] = live[r]
    PROVE  TapesFollow'
<1>1. ASSUME NEW symbol \in Wanted
      PROVE  /\ IsMapBook(tape'[symbol])
             /\ tape'[symbol].orders = [r \in Shown(symbol)' |-> Resting(live'[r])]
  <2>1. Shown(symbol)' = Shown(symbol)
    BY DEF Shown
  <2>2. [r \in Shown(symbol)' |-> Resting(live'[r])] = [r \in Shown(symbol) |-> Resting(live[r])]
    BY <2>1 DEF Shown
  <2> QED
    BY <2>2 DEF TapesFollow
<1>2. tape' = [symbol \in Wanted |-> tape'[symbol]]
  BY DEF TapesFollow
<1> QED
  BY <1>1, <1>2 DEF TapesFollow, Resting, Shown

(* What the tape of its target knows of an order that was shown. *)
LEMMA TapeAt ==
    ASSUME RouteIsMarket, TapesFollow, NEW ref \in DOMAIN route, NEW slot, slot = route[ref].slot
    PROVE  /\ ref \in Seen /\ slot = Target(live[ref]) /\ slot \in Wanted \cup {None}
           /\ slot \in Wanted =>
                 /\ ref \in Shown(slot) /\ IsMapBook(tape[slot])
                 /\ tape[slot].orders = [r \in Shown(slot) |-> Resting(live[r])]
                 /\ tape[slot].orders[ref] = Resting(live[ref])
<1>1. ref \in Seen /\ route[ref] = Kept(live[ref])
  BY RouteAt
<1>2. slot = Target(live[ref])
  BY <1>1 DEF Kept
<1> QED
  BY <1>1, <1>2, TargetIs DEF TapesFollow, Shown

LEMMA AddTapes ==
    ASSUME MarketFits, TapesFollow, NEW ref, ref \notin DOMAIN live, NEW order \in Listing,
           order.seen, order.told <=> order.symbol \in listed, AddOrder(ref, order)
    PROVE  TapesFollow'
<1>1. /\ live'[ref] = order /\ \A r \in DOMAIN live \ {ref} : live'[r] = live[r]
      /\ Seen' = Seen \cup {ref}
  BY AddedLive DEF AddOrder
<1>2. ref \notin Seen /\ Seen \subseteq DOMAIN live
  BY DEF Seen
<1>3. PICK slot : slot = Target(order) /\ slot \in Wanted \cup {None}
  BY TargetIs
<1>4. Slot(order.symbol) = slot
  BY <1>3 DEF Slot, Target, MarketFits
<1>5. PICK b : b = Book!Add(tape[slot], ref, order.side, order.price, order.qty)
  OBVIOUS
<1>6. Emit(slot, b)
  BY <1>4, <1>5 DEF AddOrder
<1>7. ASSUME slot \in Wanted
      PROVE  IsMapBook(b) /\ b.orders = [r \in Shown(slot)' |-> Resting(live'[r])]
  <2>1. IsMapBook(tape[slot]) /\ tape[slot].orders = [r \in Shown(slot) |-> Resting(live[r])]
    BY <1>7 DEF TapesFollow
  <2>2. order.qty # 0
    BY DEF Listing
  <2>3. IsMapBook(b) /\ b.orders = Index!Put(tape[slot].orders, ref, Resting(order))
    BY <1>5, <2>1, <2>2, BookAdds DEF Resting
  <2>4. Shown(slot)' = Shown(slot) \cup {ref}
    BY <1>1, <1>2, <1>3 DEF Shown
  <2>5. Index!Put([r \in Shown(slot) |-> Resting(live[r])], ref, Resting(order))
            = [r \in Shown(slot)' |-> Resting(live'[r])]
    BY <1>1, <1>2, <2>4 DEF Index!Put, Shown
  <2> QED
    BY <2>1, <2>3, <2>5
<1>8. \A symbol \in Wanted \ {slot} : Shown(symbol)' = Shown(symbol)
  BY <1>1, <1>2, <1>3 DEF Shown
<1>9. \A symbol \in Wanted \ {slot} : \A r \in Shown(symbol) : live'[r] = live[r]
  BY <1>1, <1>2 DEF Shown
<1> QED
  BY <1>3, <1>6, <1>7, <1>8, <1>9, TapesMove

(* An order leaves the market: by its last execution or cancel, or by a delete. *)
LEMMA GoneTapes ==
    ASSUME MarketFits, RouteIsMarket, TapesFollow, NEW ref, live' = Index!Without(live, ref),
           UNCHANGED <<listed, locate>>, NEW b,
           ref \notin DOMAIN route => tape' = tape,
           ref \in DOMAIN route => Emit(route[ref].slot, b),
           ref \in DOMAIN route /\ route[ref].slot \in Wanted =>
               IsMapBook(b) /\ b.orders = Index!Without(tape[route[ref].slot].orders, ref)
    PROVE  TapesFollow'
<1>1. (\A r \in DOMAIN live \ {ref} : live'[r] = live[r]) /\ Seen' = Seen \ {ref}
  BY GoneLive
<1>2. Seen \subseteq DOMAIN live /\ DOMAIN route = Seen
  BY RouteAt
<1>3. CASE ref \notin DOMAIN route
  <2>1. Seen' = Seen /\ \A r \in Seen : live'[r] = live[r]
    BY <1>1, <1>2, <1>3
  <2> QED
    BY <1>3, <2>1, UnseenTapes
<1>4. CASE ref \in DOMAIN route
  <2>1. PICK slot : slot = route[ref].slot
    OBVIOUS
  <2>2. /\ ref \in Seen /\ slot = Target(live[ref]) /\ slot \in Wanted \cup {None}
        /\ slot \in Wanted => tape[slot].orders = [r \in Shown(slot) |-> Resting(live[r])]
    BY <1>4, <2>1, TapeAt
  <2>3. ASSUME slot \in Wanted
        PROVE  IsMapBook(b) /\ b.orders = [r \in Shown(slot)' |-> Resting(live'[r])]
    <3>1. Shown(slot)' = Shown(slot) \ {ref}
      BY <1>1, <1>2 DEF Shown
    <3>2. Index!Without([r \in Shown(slot) |-> Resting(live[r])], ref)
              = [r \in Shown(slot)' |-> Resting(live'[r])]
      BY <1>1, <1>2, <3>1 DEF Index!Without, Shown
    <3> QED
      BY <1>4, <2>1, <2>2, <2>3, <3>2
  <2>4. \A symbol \in Wanted \ {slot} : Shown(symbol)' = Shown(symbol)
    BY <1>1, <1>2, <2>2 DEF Shown
  <2>5. \A symbol \in Wanted \ {slot} : \A r \in Shown(symbol) : live'[r] = live[r]
    BY <1>1, <1>2, <2>2 DEF Shown
  <2>6. Emit(slot, b)
    BY <1>4, <2>1
  <2> QED
    BY <2>2, <2>3, <2>4, <2>5, <2>6, TapesMove
<1> QED
  BY <1>3, <1>4

LEMMA DeleteTapes ==
    ASSUME MarketFits, RouteIsMarket, TapesFollow, NEW ref, DeleteOrder(ref)
    PROVE  TapesFollow'
<1>1. PICK b : b = Book!Remove(tape[route[ref].slot], ref)
  OBVIOUS
<1>2. /\ live' = Index!Without(live, ref) /\ UNCHANGED <<listed, locate>>
      /\ ref \notin DOMAIN route => tape' = tape
      /\ ref \in DOMAIN route => Emit(route[ref].slot, b)
  BY <1>1 DEF DeleteOrder
<1>3. ASSUME ref \in DOMAIN route, route[ref].slot \in Wanted
      PROVE  IsMapBook(b) /\ b.orders = Index!Without(tape[route[ref].slot].orders, ref)
  <2>1. PICK t : t = tape[route[ref].slot]
    OBVIOUS
  <2>2. IsMapBook(t) /\ ref \in DOMAIN t.orders
    BY <1>3, <2>1, TapeAt
  <2> QED
    BY <1>1, <2>1, <2>2, BookDetaches DEF Book!Remove
<1> QED
  BY <1>2, <1>3, GoneTapes

LEMMA ReduceTapes ==
    ASSUME MarketFits, RouteIsMarket, TapesFollow, NEW ref, NEW qty \in Nat \ {0},
           ReduceOrder(ref, qty)
    PROVE  TapesFollow'
<1>1. PICK b : b = Book!Reduce(tape[route[ref].slot], ref, qty)
  OBVIOUS
<1>2. /\ UNCHANGED <<listed, locate>>
      /\ ref \notin DOMAIN route => tape' = tape
      /\ ref \in DOMAIN route => Emit(route[ref].slot, b)
  BY <1>1 DEF ReduceOrder
<1>3. ASSUME ref \in DOMAIN route
      PROVE  ref \in DOMAIN live /\ ref \in Seen /\ live[ref] \in Listing /\ live[ref].qty \in Nat
  BY <1>3, RouteAt, MarketAt
<1>4. ASSUME ref \in DOMAIN route, route[ref].slot \in Wanted
      PROVE  /\ IsMapBook(b)
             /\ b.orders = IF qty < live[ref].qty
                           THEN [tape[route[ref].slot].orders EXCEPT ![ref].qty = @ - qty]
                           ELSE Index!Without(tape[route[ref].slot].orders, ref)
  <2>0. PICK slot : slot = route[ref].slot
    OBVIOUS
  <2>1. PICK t : t = tape[slot]
    OBVIOUS
  <2>2. IsMapBook(t) /\ ref \in DOMAIN t.orders /\ t.orders[ref] = Resting(live[ref])
    BY <1>4, <2>0, <2>1, TapeAt
  <2>3. t.orders[ref].qty = live[ref].qty /\ t.orders[ref].qty \in Nat /\ qty \in Nat
    BY <1>3, <1>4, <2>2 DEF Resting
  <2>4. /\ IsMapBook(Book!Reduce(t, ref, qty))
        /\ Book!Reduce(t, ref, qty).orders =
              IF qty < t.orders[ref].qty THEN [t.orders EXCEPT ![ref].qty = @ - qty]
              ELSE Index!Without(t.orders, ref)
    BY <2>2, <2>3, BookReduces
  <2> QED
    BY <1>1, <2>0, <2>1, <2>3, <2>4
<1>5. CASE ~(ref \in DOMAIN live /\ qty < live[ref].qty)
  <2>1. live' = Index!Without(live, ref)
    BY <1>5, ReduceCases
  <2>2. ref \in DOMAIN route /\ route[ref].slot \in Wanted =>
            IsMapBook(b) /\ b.orders = Index!Without(tape[route[ref].slot].orders, ref)
    BY <1>3, <1>4, <1>5
  <2> QED
    BY <1>2, <2>1, <2>2, GoneTapes
<1>6. CASE ref \in DOMAIN live /\ qty < live[ref].qty
  <2>1. live' = [live EXCEPT ![ref].qty = @ - qty]
    BY <1>6, ReduceCases
  <2>2. /\ live'[ref] = [live[ref] EXCEPT !.qty = @ - qty] /\ live[ref] \in Listing
        /\ \A r \in DOMAIN live \ {ref} : live'[r] = live[r]
        /\ Seen' = Seen
    BY <1>2, <1>6, <2>1, FewerLive, MarketAt
  <2>3. /\ Target(live'[ref]) = Target(live[ref])
        /\ Resting(live'[ref]) = [Resting(live[ref]) EXCEPT !.qty = @ - qty]
    BY <1>6, <2>2, FewerIs
  <2>4. Seen \subseteq DOMAIN live /\ DOMAIN route = Seen
    BY RouteAt
  <2>5. CASE ref \notin DOMAIN route
    <3>1. \A r \in Seen : live'[r] = live[r]
      BY <2>2, <2>4, <2>5
    <3> QED
      BY <1>2, <2>2, <2>5, <3>1, UnseenTapes
  <2>6. CASE ref \in DOMAIN route
    <3>1. PICK slot : slot = route[ref].slot
      OBVIOUS
    <3>2. /\ slot = Target(live[ref]) /\ slot \in Wanted \cup {None}
          /\ slot \in Wanted => /\ ref \in Shown(slot)
                                /\ tape[slot].orders = [r \in Shown(slot) |-> Resting(live[r])]
      BY <2>6, <3>1, TapeAt
    <3>3. \A symbol : Shown(symbol)' = Shown(symbol)
      BY <2>2, <2>3, <2>4 DEF Shown
    <3>4. ASSUME slot \in Wanted
          PROVE  IsMapBook(b) /\ b.orders = [r \in Shown(slot)' |-> Resting(live'[r])]
      <4>1. IsMapBook(b) /\ b.orders = [tape[slot].orders EXCEPT ![ref].qty = @ - qty]
        BY <1>4, <1>6, <2>6, <3>1, <3>4
      <4>2. \A r \in Shown(slot) : r # ref => live'[r] = live[r]
        BY <2>2, <2>4 DEF Shown
      <4>3. [[r \in Shown(slot) |-> Resting(live[r])] EXCEPT ![ref].qty = @ - qty]
                = [r \in Shown(slot) |-> Resting(live'[r])]
        BY <2>3, <3>2, <3>4, <4>2
      <4> QED
        BY <3>2, <3>3, <3>4, <4>1, <4>3
    <3>5. \A symbol \in Wanted \ {slot} : \A r \in Shown(symbol) : live'[r] = live[r]
      BY <2>2, <2>4, <3>2 DEF Shown
    <3>6. Emit(slot, b)
      BY <1>2, <2>6, <3>1
    <3>7. \A symbol \in Wanted \ {slot} : Shown(symbol)' = Shown(symbol)
      BY <3>3
    <3> QED
      BY <3>2, <3>4, <3>5, <3>6, <3>7, TapesMove
  <2> QED
    BY <2>5, <2>6
<1> QED
  BY <1>5, <1>6

LEMMA ReplaceTapes ==
    ASSUME MarketFits, RouteIsMarket, TapesFollow, NEW old, NEW new, NEW px \in Prices,
           NEW qty \in Nat \ {0}, new \notin DOMAIN live \ {old}, ReplaceOrder(old, new, px, qty)
    PROVE  TapesFollow'
<1>0. Seen \subseteq DOMAIN live /\ DOMAIN route = Seen
  BY RouteAt
<1>1. CASE old \notin DOMAIN live
  <2>1. live' = live /\ tape' = tape
    BY <1>0, <1>1 DEF ReplaceOrder
  <2>2. Seen' = Seen
    BY <2>1 DEF Seen
  <2> QED
    BY <2>1, <2>2, UnseenTapes
<1>2. CASE old \in DOMAIN live
  <2>1. Inherits(old, new, px, qty)
    BY <1>2, HeirLive
  <2>2. /\ \A r \in DOMAIN live \ {old, new} : live'[r] = live[r]
        /\ Seen' = IF old \in Seen THEN (Seen \ {old}) \cup {new} ELSE Seen \ {new}
        /\ Target(live'[new]) = Target(live[old])
        /\ Resting(live'[new]) = [side |-> live[old].side, price |-> px, qty |-> qty]
    BY <2>1 DEF Inherits
  <2>3. CASE old \notin Seen
    <3>1. tape' = tape
      BY <1>0, <2>3 DEF ReplaceOrder
    <3>2. Seen' = Seen /\ \A r \in Seen : live'[r] = live[r]
      BY <1>0, <2>2, <2>3
    <3> QED
      BY <3>1, <3>2, UnseenTapes
  <2>4. CASE old \in Seen
    <3>1. PICK slot : slot = route[old].slot
      OBVIOUS
    <3>2. /\ slot = Target(live[old]) /\ slot \in Wanted \cup {None}
          /\ slot \in Wanted =>
                /\ old \in Shown(slot) /\ IsMapBook(tape[slot])
                /\ tape[slot].orders = [r \in Shown(slot) |-> Resting(live[r])]
                /\ tape[slot].orders[old] = Resting(live[old])
      BY <1>0, <2>4, <3>1, TapeAt
    <3>3. PICK b : b = Book!Replace(tape[slot], old, new, px, qty)
      OBVIOUS
    <3>4. Emit(slot, b)
      BY <1>0, <2>4, <3>1, <3>3 DEF ReplaceOrder
    <3>5. ASSUME slot \in Wanted
          PROVE  IsMapBook(b) /\ b.orders = [r \in Shown(slot)' |-> Resting(live'[r])]
      <4>1. PICK t : t = tape[slot]
        OBVIOUS
      <4>2. IsMapBook(t) /\ old \in DOMAIN t.orders /\ t.orders[old].side = live[old].side
        BY <3>2, <3>5, <4>1 DEF Resting
      <4>3. qty # 0
        OBVIOUS
      <4>4. /\ IsMapBook(b)
            /\ b.orders = Index!Put(Index!Without(t.orders, old), new, Resting(live'[new]))
        BY <2>2, <3>3, <4>1, <4>2, <4>3, BookReplaces
      <4>5. Shown(slot)' = (Shown(slot) \ {old}) \cup {new}
        BY <1>0, <2>2, <2>4, <3>2 DEF Shown
      <4>6. Index!Put(Index!Without([r \in Shown(slot) |-> Resting(live[r])], old), new,
                      Resting(live'[new]))
                = [r \in Shown(slot)' |-> Resting(live'[r])]
        <5>1. \A r \in Shown(slot) \ {old, new} : live'[r] = live[r]
          BY <1>0, <2>2 DEF Shown
        <5> QED
          BY <4>5, <5>1 DEF Index!Put, Index!Without
      <4> QED
        BY <3>2, <3>5, <4>1, <4>4, <4>6
    <3>6. \A symbol \in Wanted \ {slot} : Shown(symbol)' = Shown(symbol)
      BY <1>0, <2>2, <2>4, <3>2 DEF Shown
    <3>7. \A symbol \in Wanted \ {slot} : \A r \in Shown(symbol) : live'[r] = live[r]
      BY <1>0, <2>2, <3>2 DEF Shown
    <3> QED
      BY <3>2, <3>4, <3>5, <3>6, <3>7, TapesMove
  <2> QED
    BY <2>3, <2>4
<1> QED
  BY <1>1, <1>2

(* Directory messages announce symbols, and the market is untouched. *)
LEMMA DirectoryFits ==
    ASSUME MarketFits, NEW symbol, Directory(symbol) PROVE MarketFits'
<1>1. live' = live /\ listed' = listed \cup {symbol} /\ locate' = locate \cup ({symbol} \cap Wanted)
  BY DEF Directory
<1> QED
  BY <1>1 DEF MarketFits

LEMMA ReduceFits ==
    ASSUME MarketFits, NEW ref, NEW qty \in Nat \ {0}, ReduceOrder(ref, qty) PROVE MarketFits'
<1>1. UNCHANGED <<listed, locate>>
  BY DEF ReduceOrder
<1>2. CASE ref \in DOMAIN live /\ qty < live[ref].qty
  <2>1. live' = [live EXCEPT ![ref].qty = @ - qty]
    BY <1>2, ReduceCases
  <2> QED
    BY <1>1, <1>2, <2>1, FewerLive
<1>3. CASE ~(ref \in DOMAIN live /\ qty < live[ref].qty)
  <2>1. live' = Index!Without(live, ref)
    BY <1>3, ReduceCases
  <2> QED
    BY <1>1, <2>1, GoneLive
<1> QED
  BY <1>2, <1>3

LEMMA ReplaceFits ==
    ASSUME MarketFits, NEW old, NEW new, NEW px \in Prices, NEW qty \in Nat \ {0},
           ReplaceOrder(old, new, px, qty)
    PROVE  MarketFits'
<1>1. CASE old \in DOMAIN live
  BY <1>1, HeirLive
<1>2. CASE old \notin DOMAIN live
  <2>1. live' = live /\ listed' = listed /\ locate' = locate
    BY <1>2 DEF ReplaceOrder
  <2> QED
    BY <2>1 DEF MarketFits
<1> QED
  BY <1>1, <1>2

LEMMA TapeStart == StatInit => TapeInv
<1> SUFFICES ASSUME StatInit PROVE TapeInv
  OBVIOUS
<1>1. \/ live = << >>
      \/ \E ref \in Refs, symbol \in Symbols, qty \in Quantities, px \in Prices :
            live = [r \in {ref} |-> [symbol |-> symbol, side |-> "Buy", price |-> px,
                                     qty |-> qty, seen |-> FALSE, told |-> FALSE]]
  BY DEF StatInit, Init
<1>2. Seen = {} /\ live \in [DOMAIN live -> Listing]
  <2>1. CASE live = << >>
    BY <2>1 DEF Seen
  <2>2. CASE live # << >>
    <3>1. PICK ref \in Refs, symbol \in Symbols, qty \in Quantities, px \in Prices :
              live = [r \in {ref} |-> [symbol |-> symbol, side |-> "Buy", price |-> px,
                                       qty |-> qty, seen |-> FALSE, told |-> FALSE]]
      BY <1>1, <2>2
    <3>2. PICK order : order = [symbol |-> symbol, side |-> "Buy", price |-> px,
                                qty |-> qty, seen |-> FALSE, told |-> FALSE]
      OBVIOUS
    <3>3. order \in Listing /\ order.seen = FALSE
      BY <3>2, ExtractAssumption DEF Listing, Sides, Book!Sides, Book!Promise!Sides
    <3>4. DOMAIN live = {ref} /\ live = [r \in {ref} |-> order] /\ live[ref] = order
      BY <3>1, <3>2
    <3> QED
      BY <3>3, <3>4 DEF Seen
  <2> QED
    BY <2>1, <2>2
<1>4. MarketFits
  BY <1>2 DEF MarketFits, StatInit, Init
<1>5. RouteIsMarket
  BY <1>2 DEF StatInit, Init, RouteIsMarket
<1>6. TapesFollow
  BY <1>2 DEF StatInit, Init, TapesFollow, IsMapBook, Book!Empty, Shown
<1> QED
  BY <1>4, <1>5, <1>6 DEF TapeInv

(* What a message finds, if nothing went wrong before nor in it. *)
TapesOk == ~failed /\ "duplicate" \notin faults

LEMMA TapeStep == TapeInv /\ [StatNext]_allVars => TapeInv'
<1> SUFFICES ASSUME TapeInv, [StatNext]_allVars PROVE TapeInv'
  OBVIOUS
<1>a. MarketFits
  BY DEF TapeInv
<1>b. TapesOk => RouteIsMarket /\ TapesFollow
  BY DEF TapeInv, TapesOk
<1>c. Quantities \subseteq Nat \ {0}
  BY ExtractAssumption
<1>1. MarketFits' /\ (TapesOk' => RouteIsMarket' /\ TapesFollow') => TapeInv'
  BY DEF TapeInv, TapesOk
<1>2. CASE AddMessage
  <2>1. PICK ref \in Refs, symbol \in Symbols, side \in Sides, px \in Prices,
             qty \in Quantities :
            AddOrder(ref, [symbol |-> symbol, side |-> side, price |-> px, qty |-> qty,
                           seen |-> TRUE, told |-> symbol \in listed])
    BY <1>2 DEF AddMessage
  <2>2. PICK order : order = [symbol |-> symbol, side |-> side, price |-> px, qty |-> qty,
                              seen |-> TRUE, told |-> symbol \in listed]
    OBVIOUS
  <2>3. AddOrder(ref, order) /\ order \in Listing /\ order.seen
    BY <1>c, <2>1, <2>2 DEF Listing
  <2>4. order.told <=> order.symbol \in listed
    BY <2>2
  <2>5. MarketFits'
    BY <1>a, <2>3, AddedLive DEF AddOrder
  <2>6. ASSUME TapesOk' PROVE RouteIsMarket' /\ TapesFollow'
    <3>1. TapesOk /\ ref \notin DOMAIN live /\ ~failed'
      BY <2>3, <2>6 DEF TapesOk, AddOrder, Duplicate
    <3>2. RouteIsMarket /\ TapesFollow
      BY <1>b, <3>1
    <3>3. RouteIsMarket' /\ TapesFollow'
      BY <1>a, <2>3, <2>4, <3>1, <3>2, AddRoutes, AddTapes
    <3> QED
      BY <3>3
  <2> QED
    BY <1>1, <2>5, <2>6
<1>3. ASSUME NEW ref, NEW qty \in Quantities, ReduceOrder(ref, qty) PROVE TapeInv'
  <2>0. qty \in Nat \ {0}
    BY <1>c
  <2>1. MarketFits'
    BY <1>a, <1>3, <2>0, ReduceFits
  <2>2. TapesOk' => TapesOk
    BY <1>3 DEF TapesOk, ReduceOrder
  <2>3. ASSUME RouteIsMarket, TapesFollow PROVE RouteIsMarket' /\ TapesFollow'
    BY <1>a, <1>3, <2>0, <2>3, ReduceRoutes, ReduceTapes
  <2> QED
    BY <1>b, <1>1, <2>1, <2>2, <2>3
<1>4. CASE ExecuteMessage \/ CancelMessage
  BY <1>3, <1>4 DEF ExecuteMessage, CancelMessage
<1>5. CASE DeleteMessage
  <2>1. PICK ref \in Refs : DeleteOrder(ref)
    BY <1>5 DEF DeleteMessage
  <2>0. live' = Index!Without(live, ref) /\ UNCHANGED <<listed, locate>>
    BY <2>1 DEF DeleteOrder
  <2>2. MarketFits'
    BY <1>a, <2>0, GoneLive
  <2>3. TapesOk' => TapesOk
    BY <2>1 DEF TapesOk, DeleteOrder
  <2>4. ASSUME RouteIsMarket, TapesFollow PROVE RouteIsMarket' /\ TapesFollow'
    BY <1>a, <2>1, <2>4, DeleteRoutes, DeleteTapes
  <2> QED
    BY <1>b, <1>1, <2>2, <2>3, <2>4
<1>6. CASE ReplaceMessage
  <2>1. PICK old \in Refs, new \in Refs, px \in Prices, qty \in Quantities :
            ReplaceOrder(old, new, px, qty)
    BY <1>6 DEF ReplaceMessage
  <2>0. qty \in Nat \ {0}
    BY <1>c
  <2>2. MarketFits'
    BY <1>a, <2>0, <2>1, ReplaceFits
  <2>3. ASSUME TapesOk' PROVE RouteIsMarket' /\ TapesFollow'
    <3>1. /\ ~failed' /\ new \notin DOMAIN live \ {old} /\ TapesOk
      BY <2>1, <2>3 DEF TapesOk, ReplaceOrder, Duplicate
    <3>2. RouteIsMarket /\ TapesFollow
      BY <1>b, <3>1
    <3>3. RouteIsMarket' /\ TapesFollow'
      BY <1>a, <2>0, <2>1, <3>1, <3>2, ReplaceRoutes, ReplaceTapes
    <3> QED
      BY <3>3
  <2> QED
    BY <1>1, <2>2, <2>3
<1>7. CASE DirectoryMessage
  <2>1. PICK symbol \in Symbols : Directory(symbol)
    BY <1>7 DEF DirectoryMessage
  <2>2. MarketFits'
    BY <1>a, <2>1, DirectoryFits
  <2>3. UNCHANGED <<live, faults, route, failed, tape>>
    BY <2>1 DEF Directory
  <2>4. (TapesOk' => TapesOk) /\ Seen' = Seen
    BY <2>3 DEF TapesOk, Seen
  <2>5. RouteIsMarket => RouteIsMarket'
    BY <2>3, <2>4 DEF RouteIsMarket, Kept, Target
  <2>6. TapesFollow => TapesFollow'
    BY <2>3, <2>4, UnseenTapes
  <2> QED
    BY <1>b, <1>1, <2>2, <2>4, <2>5, <2>6
<1>8. ASSUME UNCHANGED <<live, faults, listed, locate, route, failed, tape>> PROVE TapeInv'
  BY <1>8 DEF TapeInv, MarketFits, RouteIsMarket, Kept, Target, TapesFollow, Shown, Resting, Seen
<1>9. CASE EndOfFeed
  BY <1>8, <1>9 DEF EndOfFeed, Finish
<1>10. CASE UNCHANGED allVars
  BY <1>8, <1>10 DEF allVars, vars
<1> QED
  BY <1>2, <1>4, <1>5, <1>6, <1>7, <1>9, <1>10 DEF StatNext, Message

(* Neither the index nor a tape is ever out of step with the orders it was shown. *)
LEMMA TapesAlwaysFollow == StatSpec => []TapeInv
  BY TapeStart, TapeStep, PTL DEF StatSpec

(* The routing index of extract_tape neither leaks an order nor forgets one, whatever  *)
(* messages come in whatever order, orphans and oversized reductions among them, until *)
(* it turns an order down or a reference is given to two.                              *)
THEOREM IndexIsMarket == StatSpec => []RouteIsLive
<1>1. TapeInv => RouteIsLive
  BY DEF TapeInv, RouteIsLive, RouteIsMarket, Kept
<1> QED
  BY <1>1, TapesAlwaysFollow, PTL

(* A tape that extract_tape writes replays to what rests of the orders its symbol had since *)
(* it was announced, whatever the messages, unless a reference was given to two orders.     *)
THEOREM TapeIsMarket == StatSpec => []TapesReplayToMarket
<1>1. TapeInv => TapesReplayToMarket
  BY DEF TapeInv, MarketFits, TapesFollow, TapesReplayToMarket, Written, Shown, Resting
<1> QED
  BY <1>1, TapesAlwaysFollow, PTL

-----------------------------------------------------------------------------
(* The gate. *)
TableIsIndex == table = [ref \in DOMAIN route |-> route[ref].shares]

TableFits == IsFiniteSet(DOMAIN table) /\ Cardinality(DOMAIN table) <= Limit

(* Nothing is charged but references that were used twice. *)
Clean == /\ ~failed /\ RouteIsMarket /\ TableIsIndex
         /\ faults \subseteq {"duplicate"}

(* The table has what the index has, and may have more. *)
Covers == /\ ~failed
          /\ \A ref \in DOMAIN route : ref \in DOMAIN table /\ table[ref] = route[ref].shares

GateInv == /\ TableFits
           /\ integ \subseteq {"duplicate_add"} => Clean
           /\ GatePasses /\ "duplicate" \notin faults => Covers

(* What the first charge is laid for. *)
Caused ==
    /\ integ' \cap Orphans # {} => "orphan" \in faults' \/ \E ref \in DOMAIN live : ~live[ref].seen
    /\ integ' \cap Oversizes # {} => "oversized" \in faults'
    /\ "duplicate_add" \in integ' => "duplicate" \in faults'
    /\ "table_full" \in integ' => failed' \/ "orphan_replace" \in integ'

(* Each handler of the one program does what that of the other does, or charges. *)
InStep == /\ integ' \subseteq {"duplicate_add"} => Clean'
          /\ integ = {} => Caused

LEMMA CleanAt ==
    ASSUME Clean
    PROVE  /\ ~failed /\ RouteIsMarket
           /\ DOMAIN route = Seen /\ Seen \subseteq DOMAIN live /\ DOMAIN table = DOMAIN route
           /\ \A ref \in DOMAIN route : /\ route[ref] = Kept(live[ref])
                                        /\ table[ref] = route[ref].shares
                                        /\ table[ref] = live[ref].qty
<1>1. RouteIsMarket /\ DOMAIN route = Seen /\ \A ref \in Seen : route[ref] = Kept(live[ref])
  BY RouteAt DEF Clean
<1>2. \A ref \in Seen : route[ref].shares = live[ref].qty
  BY <1>1 DEF Kept
<1> QED
  BY <1>1, <1>2 DEF Clean, TableIsIndex, Seen

(* A reference that is not in the table is an orphan, or rested before the slice. *)
LEMMA OrphanCause ==
    ASSUME Clean, NEW ref, ref \notin DOMAIN table
    PROVE  ref \notin DOMAIN live \/ \E r \in DOMAIN live : ~live[r].seen
  BY CleanAt DEF Seen

LEMMA AddCharges ==
    ASSUME MarketFits, Clean, integ \subseteq {"duplicate_add"}, NEW ref, NEW order \in Listing,
           order.seen, order.told <=> order.symbol \in listed,
           AddOrder(ref, order), StatAdd(ref, order.qty)
    PROVE  InStep
<1>1. DOMAIN table = DOMAIN route /\ ~failed /\ DOMAIN route \subseteq DOMAIN live
  BY CleanAt
<1>2. Index!Room(table, ref) <=> Index!Room(route, ref)
  BY <1>1 DEF Index!Room
<1>3. integ = {} /\ "duplicate_add" \in integ' => "duplicate" \in faults'
  BY <1>1 DEF StatAdd, Charge, FullFor, AddOrder, Duplicate
<1>4. integ' \subseteq {"duplicate_add", "table_full"}
  BY DEF StatAdd, Charge, FullFor
<1>5. CASE ~Index!Room(route, ref)
  <2>1. "table_full" \in integ' /\ failed'
    BY <1>2, <1>5 DEF AddOrder, StatAdd, Charge, FullFor
  <2> QED
    BY <1>3, <1>4, <2>1 DEF InStep, Caused, Orphans, Oversizes
<1>6. CASE Index!Room(route, ref)
  <2>1. integ' \subseteq {"duplicate_add"} /\ ~failed'
    BY <1>1, <1>2, <1>6 DEF AddOrder, StatAdd, Charge, FullFor
  <2>2. RouteIsMarket'
    BY <2>1, CleanAt, AddRoutes
  <2>3. PICK slot : slot = Slot(order.symbol)
    OBVIOUS
  <2>4. /\ route' = Index!Put(route, ref, [shares |-> order.qty, slot |-> slot])
        /\ table' = Index!Put(table, ref, order.qty)
    BY <1>2, <1>6, <2>3 DEF AddOrder, StatAdd, Index!With
  <2>5. TableIsIndex'
    BY <1>1, <2>4 DEF TableIsIndex, Clean, Index!Put
  <2>6. faults' \subseteq {"duplicate"}
    BY DEF AddOrder, Duplicate, Clean
  <2>7. Clean'
    BY <2>1, <2>2, <2>5, <2>6 DEF Clean
  <2> QED
    BY <1>3, <2>1, <2>7 DEF InStep, Caused, Orphans, Oversizes
<1> QED
  BY <1>5, <1>6

LEMMA ReduceCharges ==
    ASSUME MarketFits, Clean, integ \subseteq {"duplicate_add"}, NEW ref, NEW qty \in Nat \ {0},
           NEW orphan \in Orphans, NEW oversized \in Oversizes,
           ReduceOrder(ref, qty), StatReduce(orphan, oversized, ref, qty)
    PROVE  InStep
<1>1. /\ DOMAIN table = DOMAIN route /\ ~failed /\ DOMAIN route \subseteq DOMAIN live
      /\ ref \in DOMAIN route => /\ table[ref] = live[ref].qty /\ route[ref].shares = live[ref].qty
                                 /\ live[ref].qty \in Nat
  BY CleanAt, MarketAt
<1>2. CASE ref \notin DOMAIN table
  <2>1. integ' = integ \cup {orphan}
    BY <1>2 DEF StatReduce, Charge
  <2>2. "orphan" \in faults' \/ \E r \in DOMAIN live : ~live[r].seen
    BY <1>2, OrphanCause DEF ReduceOrder, Orphan
  <2> QED
    BY <2>1, <2>2 DEF InStep, Caused, Orphans, Oversizes
<1>3. CASE ref \in DOMAIN table /\ qty > table[ref]
  <2>1. integ' = integ \cup {oversized}
    BY <1>3 DEF StatReduce, Charge
  <2>2. "oversized" \in faults'
    BY <1>1, <1>3 DEF ReduceOrder, Oversized
  <2> QED
    BY <2>1, <2>2 DEF InStep, Caused, Orphans, Oversizes
<1>4. CASE ref \in DOMAIN table /\ ~(qty > table[ref])
  <2>1. integ' = integ /\ ~failed'
    BY <1>1, <1>4 DEF StatReduce, ReduceOrder
  <2>2. RouteIsMarket'
    BY CleanAt, ReduceRoutes
  <2>3. faults' \subseteq {"duplicate"}
    BY <1>1, <1>4 DEF ReduceOrder, Orphan, Oversized, Clean
  <2>4. TableIsIndex'
    <3>1. route' = Take(ref, qty)
      BY <1>1, <1>4 DEF ReduceOrder
    <3>2. CASE qty = live[ref].qty
      <4>1. route' = Index!Without(route, ref) /\ table' = Index!Without(table, ref)
        BY <1>1, <1>4, <3>1, <3>2 DEF StatReduce, Take
      <4> QED
        BY <1>1, <4>1 DEF Clean, TableIsIndex, Index!Without
    <3>3. CASE qty # live[ref].qty
      <4>1. /\ route' = [route EXCEPT ![ref].shares = @ - qty]
            /\ table' = [table EXCEPT ![ref] = @ - qty]
        BY <1>1, <1>4, <3>1, <3>3 DEF StatReduce, Take
      <4>2. /\ DOMAIN route' = DOMAIN route /\ route'[ref].shares = table[ref] - qty
            /\ \A r \in DOMAIN route \ {ref} : route'[r] = route[r]
        <5>1. route[ref] = Kept(live[ref]) /\ route = [r \in DOMAIN route |-> route[r]]
          BY <1>1, <1>4, CleanAt, RouteAt
        <5>2. [route[ref] EXCEPT !.shares = @ - qty].shares = table[ref] - qty
          BY <1>1, <1>4, <5>1 DEF Kept
        <5> QED
          BY <1>1, <1>4, <4>1, <5>1, <5>2
      <4>3. table' = [r \in DOMAIN route |-> IF r = ref THEN table[ref] - qty ELSE route[r].shares]
        BY <1>4, <4>1 DEF Clean, TableIsIndex
      <4> QED
        BY <1>4, <4>2, <4>3 DEF TableIsIndex
    <3> QED
      BY <3>2, <3>3
  <2> QED
    BY <2>1, <2>2, <2>3, <2>4 DEF InStep, Clean, Caused
<1> QED
  BY <1>2, <1>3, <1>4

LEMMA DeleteCharges ==
    ASSUME MarketFits, Clean, integ \subseteq {"duplicate_add"}, NEW ref,
           DeleteOrder(ref), StatDelete(ref)
    PROVE  InStep
<1>1. DOMAIN table = DOMAIN route /\ ~failed /\ DOMAIN route \subseteq DOMAIN live
  BY CleanAt
<1>2. CASE ref \notin DOMAIN table
  <2>1. integ' = integ \cup {"orphan_delete"}
    BY <1>2 DEF StatDelete, Charge
  <2>2. "orphan" \in faults' \/ \E r \in DOMAIN live : ~live[r].seen
    BY <1>2, OrphanCause DEF DeleteOrder, Orphan
  <2> QED
    BY <2>1, <2>2 DEF InStep, Caused, Orphans, Oversizes
<1>3. CASE ref \in DOMAIN table
  <2>1. integ' = integ /\ ~failed' /\ faults' \subseteq {"duplicate"}
    BY <1>1, <1>3 DEF StatDelete, Charge, DeleteOrder, Orphan, Clean
  <2>2. RouteIsMarket'
    BY CleanAt, DeleteRoutes
  <2>3. route' = Index!Without(route, ref) /\ table' = Index!Without(table, ref)
    BY <1>1, <1>3 DEF DeleteOrder, StatDelete
  <2>4. TableIsIndex'
    BY <2>3 DEF Clean, TableIsIndex, Index!Without
  <2> QED
    BY <2>1, <2>2, <2>4 DEF InStep, Clean, Caused
<1> QED
  BY <1>2, <1>3

LEMMA ReplaceCharges ==
    ASSUME MarketFits, Clean, integ \subseteq {"duplicate_add"}, NEW old, NEW new,
           NEW px \in Prices, NEW qty \in Nat \ {0},
           ReplaceOrder(old, new, px, qty), StatReplace(old, new, qty)
    PROVE  InStep
<1>1. /\ DOMAIN table = DOMAIN route /\ ~failed /\ DOMAIN route \subseteq DOMAIN live
      /\ DOMAIN route = Seen
  BY CleanAt
<1>2. CASE old \notin DOMAIN table
  <2>1. "orphan_replace" \in integ' /\ integ' \subseteq integ \cup {"orphan_replace", "table_full"}
    BY <1>2 DEF StatReplace, Charge, FullFor
  <2>2. "orphan" \in faults' \/ \E r \in DOMAIN live : ~live[r].seen
    BY <1>2, OrphanCause DEF ReplaceOrder, Orphan
  <2> QED
    BY <2>1, <2>2 DEF InStep, Caused, Orphans, Oversizes
<1>3. CASE old \in DOMAIN table
  <2>1. PICK rest, left : rest = Index!Without(route, old) /\ left = Index!Without(table, old)
    OBVIOUS
  <2>2. DOMAIN rest = DOMAIN left /\ (Index!Room(left, new) <=> Index!Room(rest, new))
    BY <1>1, <2>1 DEF Index!Room, Index!Without
  <2>3. CASE ~Index!Room(rest, new)
    <3>1. integ' = integ \cup {"table_full"} /\ failed'
      BY <1>1, <1>3, <2>1, <2>2, <2>3 DEF ReplaceOrder, StatReplace, Charge, FullFor
    <3> QED
      BY <3>1 DEF InStep, Caused, Orphans, Oversizes
  <2>4. CASE Index!Room(rest, new)
    <3>1. integ' = integ /\ ~failed'
      BY <1>1, <1>3, <2>1, <2>2, <2>4 DEF ReplaceOrder, StatReplace, Charge, FullFor
    <3>2. RouteIsMarket'
      BY <1>1, <1>3, <3>1, CleanAt, ReplaceRoutes
    <3>3. faults' \subseteq {"duplicate"}
      BY <1>1, <1>3 DEF ReplaceOrder, Orphan, Duplicate, Clean
    <3>4. PICK entry : entry = [route[old] EXCEPT !.shares = qty]
      OBVIOUS
    <3>5. entry.shares = qty
      BY <1>1, <1>3, <3>4, CleanAt DEF Kept
    <3>6. route' = Index!Put(rest, new, entry) /\ table' = Index!Put(left, new, qty)
      BY <1>1, <1>3, <2>1, <2>2, <2>4, <3>4 DEF ReplaceOrder, Reroute, StatReplace, Index!With
    <3>7. TableIsIndex'
      BY <1>1, <2>1, <3>5, <3>6 DEF Clean, TableIsIndex, Index!Put, Index!Without
    <3> QED
      BY <3>1, <3>2, <3>3, <3>7 DEF InStep, Clean, Caused
  <2> QED
    BY <2>3, <2>4
<1> QED
  BY <1>2, <1>3

(* A table that takes a reference has room for it, and an index that holds less has too. *)
LEMMA RoomFor ==
    ASSUME NEW t, NEW x, IsFiniteSet(t), Cardinality(t) <= Limit, x \in t \/ Cardinality(t) < Limit
    PROVE  /\ IsFiniteSet(t \cup {x}) /\ Cardinality(t \cup {x}) <= Limit
           /\ \A s : s \subseteq t /\ x \notin s => Cardinality(s) < Limit
<1>1. Cardinality(t) \in Nat /\ Limit \in Nat
  BY FS_CardinalityType, ExtractAssumption
<1>2. /\ IsFiniteSet(t \cup {x})
      /\ Cardinality(t \cup {x}) = IF x \in t THEN Cardinality(t) ELSE Cardinality(t) + 1
  BY FS_AddElement
<1>3. ASSUME NEW s, s \subseteq t, x \notin s PROVE Cardinality(s) < Limit
  <2>1. /\ IsFiniteSet(s) /\ Cardinality(s) <= Cardinality(t)
        /\ Cardinality(t) = Cardinality(s) => t = s
    BY <1>3, FS_Subset
  <2>2. Cardinality(s) \in Nat
    BY <2>1, FS_CardinalityType
  <2> QED
    BY <1>1, <1>3, <2>1, <2>2
<1> QED
  BY <1>1, <1>2, <1>3

(* The instance counts as this module does. *)
LEMMA IndexRoom ==
    \A m, key : Index!Room(m, key) <=> key \in DOMAIN m \/ Cardinality(DOMAIN m) < Limit
<1>1. \A S : Index!Cardinality(S) = Cardinality(S)
  BY Zenon DEF Index!Cardinality, Cardinality, Index!IsFiniteSet, IsFiniteSet
<1> QED
  BY <1>1 DEF Index!Room

(* The table never holds more orders than it has room for. *)
LEMMA PutFits ==
    ASSUME NEW t, IsFiniteSet(DOMAIN t), Cardinality(DOMAIN t) <= Limit, NEW ref, NEW qty,
           NEW m, m = Index!With(t, ref, qty)
    PROVE  IsFiniteSet(DOMAIN m) /\ Cardinality(DOMAIN m) <= Limit
<1>1. CASE Index!Room(t, ref)
  <2>1. DOMAIN m = DOMAIN t \cup {ref}
    BY <1>1 DEF Index!With, Index!Put
  <2>2. ref \in DOMAIN t \/ Cardinality(DOMAIN t) < Limit
    BY <1>1, IndexRoom
  <2> QED
    BY <2>1, <2>2, RoomFor
<1>2. CASE ~Index!Room(t, ref)
  BY <1>2 DEF Index!With
<1> QED
  BY <1>1, <1>2

LEMMA WithoutFits ==
    ASSUME NEW t, IsFiniteSet(DOMAIN t), Cardinality(DOMAIN t) <= Limit, NEW ref,
           NEW m, m = Index!Without(t, ref)
    PROVE  IsFiniteSet(DOMAIN m) /\ Cardinality(DOMAIN m) <= Limit
<1>1. DOMAIN m = DOMAIN t \ {ref}
  BY DEF Index!Without
<1>2. IsFiniteSet(DOMAIN m) /\ Cardinality(DOMAIN m) <= Cardinality(DOMAIN t)
  BY <1>1, FS_Subset
<1> QED
  BY <1>2, FS_CardinalityType, ExtractAssumption

LEMMA TableStaysFit ==
    ASSUME TableFits, StatNext PROVE TableFits'
<1>1. ASSUME NEW ref, NEW qty, StatAdd(ref, qty) PROVE TableFits'
  BY <1>1, PutFits DEF StatAdd, TableFits
<1>2. ASSUME NEW orphan, NEW oversized, NEW ref, NEW qty, StatReduce(orphan, oversized, ref, qty)
      PROVE  TableFits'
  <2>1. CASE table' = Index!Without(table, ref)
    BY <2>1, WithoutFits DEF TableFits
  <2>2. CASE table' # Index!Without(table, ref)
    <3>1. DOMAIN table' = DOMAIN table
      BY <1>2, <2>2 DEF StatReduce
    <3> QED
      BY <3>1 DEF TableFits
  <2> QED
    BY <2>1, <2>2
<1>3. ASSUME NEW ref, StatDelete(ref) PROVE TableFits'
  BY <1>3, WithoutFits DEF StatDelete, TableFits
<1>4. ASSUME NEW old, NEW new, NEW qty, StatReplace(old, new, qty) PROVE TableFits'
  <2>1. PICK left : left = Index!Without(table, old)
    OBVIOUS
  <2>2. table' = Index!With(left, new, qty)
    BY <1>4, <2>1 DEF StatReplace
  <2>3. IsFiniteSet(DOMAIN left) /\ Cardinality(DOMAIN left) <= Limit
    BY <2>1, WithoutFits DEF TableFits
  <2> QED
    BY <2>2, <2>3, PutFits DEF TableFits
<1>5. UNCHANGED statVars => TableFits'
  BY DEF statVars, TableFits
<1> QED
  BY <1>1, <1>2, <1>3, <1>4, <1>5 DEF StatNext, Message, DirectoryMessage, AddMessage,
     ExecuteMessage, CancelMessage, DeleteMessage, ReplaceMessage, EndOfFeed

(* What the gate lets pass, without a reference that was used twice. *)
Passed == GatePasses /\ "duplicate" \notin faults

LEMMA CoversAt ==
    ASSUME RouteIsMarket, Covers
    PROVE  /\ ~failed /\ DOMAIN route = Seen /\ Seen \subseteq DOMAIN live
           /\ DOMAIN route \subseteq DOMAIN table
           /\ \A ref \in DOMAIN route : /\ table[ref] = route[ref].shares
                                        /\ route[ref].shares = live[ref].qty
                                        /\ route[ref] = Kept(live[ref])
<1>1. RouteIsMarket /\ DOMAIN route = Seen /\ \A ref \in Seen : route[ref] = Kept(live[ref])
  BY RouteAt
<1>2. \A ref \in Seen : route[ref].shares = live[ref].qty
  BY <1>1 DEF Kept
<1> QED
  BY <1>1, <1>2 DEF Covers, Seen

LEMMA AddCovers ==
    ASSUME RouteIsMarket, Covers, TableFits, Passed', NEW ref, NEW order,
           AddOrder(ref, order), StatAdd(ref, order.qty)
    PROVE  Covers'
<1>1. ref \notin DOMAIN live /\ ref \notin DOMAIN route
  BY CoversAt DEF Passed, AddOrder, Duplicate
<1>2. "table_full" \notin integ'
  BY DEF Passed, GatePasses, Oversizes
<1>3. Index!Room(table, ref)
  BY <1>2 DEF StatAdd, Charge, FullFor
<1>4. Index!Room(route, ref)
  <2>1. ref \in DOMAIN table \/ Cardinality(DOMAIN table) < Limit
    BY <1>3, IndexRoom
  <2>2. Cardinality(DOMAIN route) < Limit
    BY <1>1, <2>1, CoversAt, RoomFor DEF TableFits
  <2> QED
    BY <2>2, IndexRoom
<1>5. PICK slot : slot = Slot(order.symbol)
  OBVIOUS
<1>6. /\ route' = Index!Put(route, ref, [shares |-> order.qty, slot |-> slot])
      /\ table' = Index!Put(table, ref, order.qty) /\ ~failed'
  BY <1>3, <1>4, <1>5, CoversAt DEF AddOrder, StatAdd, Index!With
<1> QED
  BY <1>6, CoversAt DEF Covers, Index!Put

LEMMA ReduceCovers ==
    ASSUME MarketFits, RouteIsMarket, Covers, Passed', NEW ref, NEW qty \in Nat \ {0},
           NEW orphan \in Orphans, NEW oversized,
           ReduceOrder(ref, qty), StatReduce(orphan, oversized, ref, qty)
    PROVE  Covers'
<1>1. orphan \notin integ'
  BY DEF Passed, GatePasses, Oversizes, Orphans
<1>2. ref \in DOMAIN table
  BY <1>1 DEF StatReduce, Charge
<1>3. ~failed'
  BY CoversAt DEF ReduceOrder
<1>4. CASE ref \notin DOMAIN route
  <2>1. route' = route
    BY <1>4 DEF ReduceOrder
  <2>2. ASSUME NEW r \in DOMAIN route PROVE r \in DOMAIN table' /\ table'[r] = table[r]
    <3>1. r # ref /\ r \in DOMAIN table
      BY <1>4, CoversAt
    <3> QED
      BY <1>2, <3>1 DEF StatReduce, Index!Without
  <2> QED
    BY <1>3, <2>1, <2>2, CoversAt DEF Covers
<1>5. CASE ref \in DOMAIN route
  <2>1. /\ table[ref] = live[ref].qty /\ route[ref].shares = live[ref].qty
        /\ live[ref].qty \in Nat /\ route[ref] = Kept(live[ref])
    BY <1>5, CoversAt, MarketAt
  <2>2. route' = Take(ref, qty)
    BY <1>5 DEF ReduceOrder
  <2>3. CASE qty < live[ref].qty
    <3>0. ~(qty > table[ref]) /\ qty # table[ref] /\ qty < route[ref].shares
      BY <2>1, <2>3
    <3>1. /\ route' = [route EXCEPT ![ref].shares = @ - qty]
          /\ table' = [table EXCEPT ![ref] = @ - qty]
      BY <1>2, <2>2, <3>0 DEF Take, StatReduce
    <3>2. /\ DOMAIN route' = DOMAIN route /\ route'[ref].shares = live[ref].qty - qty
          /\ \A r \in DOMAIN route \ {ref} : route'[r] = route[r]
      <4>1. route = [r \in DOMAIN route |-> route[r]]
        BY RouteAt
      <4>2. [route[ref] EXCEPT !.shares = @ - qty].shares = live[ref].qty - qty
        BY <2>1 DEF Kept
      <4> QED
        BY <1>5, <3>1, <4>1, <4>2
    <3>3. \A r \in DOMAIN route :
             /\ r \in DOMAIN table'
             /\ table'[r] = IF r = ref THEN live[ref].qty - qty ELSE table[r]
      BY <2>1, <3>1, CoversAt
    <3> QED
      BY <1>3, <3>2, <3>3, CoversAt DEF Covers
  <2>4. CASE ~(qty < live[ref].qty)
    <3>1. route' = Index!Without(route, ref)
      BY <2>1, <2>2, <2>4 DEF Take
    <3>2. table' = table \/ table' = Index!Without(table, ref)
      BY <1>2, <2>1, <2>4 DEF StatReduce
    <3> QED
      BY <1>3, <3>1, <3>2, CoversAt DEF Covers, Index!Without
  <2> QED
    BY <2>3, <2>4
<1> QED
  BY <1>4, <1>5

LEMMA DeleteCovers ==
    ASSUME RouteIsMarket, Covers, NEW ref, DeleteOrder(ref), StatDelete(ref)
    PROVE  Covers'
<1>1. /\ ~failed' /\ table' = Index!Without(table, ref)
      /\ route' = IF ref \in DOMAIN route THEN Index!Without(route, ref) ELSE route
  BY CoversAt DEF DeleteOrder, StatDelete
<1> QED
  BY <1>1, CoversAt DEF Covers, Index!Without

LEMMA ReplaceCovers ==
    ASSUME RouteIsMarket, Covers, TableFits, Passed', NEW old, NEW new, NEW px, NEW qty,
           ReplaceOrder(old, new, px, qty), StatReplace(old, new, qty)
    PROVE  Covers'
<1>1. new \notin DOMAIN live \ {old}
  BY DEF Passed, ReplaceOrder, Duplicate
<1>2. "table_full" \notin integ' /\ "orphan_replace" \notin integ'
  BY DEF Passed, GatePasses, Oversizes
<1>3. PICK left : left = Index!Without(table, old)
  OBVIOUS
<1>4. old \in DOMAIN table /\ Index!Room(left, new)
  BY <1>2, <1>3 DEF StatReplace, Charge, FullFor
<1>5. table' = Index!Put(left, new, qty)
  BY <1>3, <1>4 DEF StatReplace, Index!With
<1>6. DOMAIN left = DOMAIN table \ {old} /\ \A r \in DOMAIN table \ {old} : left[r] = table[r]
  BY <1>3 DEF Index!Without
<1>7. /\ DOMAIN table' = DOMAIN left \cup {new} /\ table'[new] = qty
      /\ \A r \in DOMAIN left \ {new} : table'[r] = left[r]
  BY <1>5 DEF Index!Put
<1>8. CASE old \notin DOMAIN route
  <2>1. route' = route /\ ~failed' /\ new \notin DOMAIN route
    BY <1>1, <1>8, CoversAt DEF ReplaceOrder
  <2> QED
    BY <1>6, <1>7, <1>8, <2>1, CoversAt DEF Covers
<1>9. CASE old \in DOMAIN route
  <2>1. PICK rest : rest = Index!Without(route, old)
    OBVIOUS
  <2>2. DOMAIN rest = DOMAIN route \ {old} /\ \A r \in DOMAIN route \ {old} : rest[r] = route[r]
    BY <2>1 DEF Index!Without
  <2>3. DOMAIN rest \subseteq DOMAIN left /\ new \notin DOMAIN rest
    BY <1>1, <1>6, <2>2, CoversAt
  <2>4. Index!Room(rest, new)
    <3>1. new \in DOMAIN left \/ Cardinality(DOMAIN left) < Limit
      BY <1>4, IndexRoom
    <3>2. IsFiniteSet(DOMAIN left) /\ Cardinality(DOMAIN left) <= Limit
      BY <1>3, WithoutFits DEF TableFits
    <3>3. Cardinality(DOMAIN rest) < Limit
      BY <2>3, <3>1, <3>2, RoomFor
    <3> QED
      BY <3>3, IndexRoom
  <2>5. PICK entry : entry = [route[old] EXCEPT !.shares = qty]
    OBVIOUS
  <2>6. entry.shares = qty
    BY <1>9, <2>5, CoversAt DEF Kept
  <2>7. route' = Index!Put(rest, new, entry) /\ ~failed'
    BY <1>9, <2>1, <2>4, <2>5, CoversAt DEF ReplaceOrder, Reroute, Index!With
  <2>8. /\ DOMAIN route' = DOMAIN rest \cup {new} /\ route'[new] = entry
        /\ \A r \in DOMAIN rest \ {new} : route'[r] = rest[r]
    BY <2>7 DEF Index!Put
  <2>9. ASSUME NEW r \in DOMAIN route'
        PROVE  r \in DOMAIN table' /\ table'[r] = route'[r].shares
    <3>1. CASE r = new
      BY <1>7, <2>6, <2>8, <3>1
    <3>2. CASE r # new
      BY <1>6, <1>7, <2>2, <2>3, <2>8, <3>2, CoversAt
    <3> QED
      BY <3>1, <3>2
  <2> QED
    BY <2>7, <2>9 DEF Covers
<1> QED
  BY <1>8, <1>9

-----------------------------------------------------------------------------
(* What was charged, and what went wrong, is not taken back. *)
LEMMA ChargesStay ==
    ASSUME StatNext PROVE integ \subseteq integ' /\ faults \subseteq faults'
<1>1. \A counters : Charge(counters) => integ \subseteq integ'
  BY DEF Charge
<1>2. \A ref, qty : StatAdd(ref, qty) => integ \subseteq integ'
  BY <1>1 DEF StatAdd
<1>3. \A orphan, oversized, ref, qty :
         StatReduce(orphan, oversized, ref, qty) => integ \subseteq integ'
  BY <1>1 DEF StatReduce
<1>4. \A ref : StatDelete(ref) => integ \subseteq integ'
  BY <1>1 DEF StatDelete
<1>5. \A old, new, qty : StatReplace(old, new, qty) => integ \subseteq integ'
  BY <1>1 DEF StatReplace
<1>6. UNCHANGED statVars => integ \subseteq integ'
  BY DEF statVars
<1>7. faults \subseteq faults'
  <2>1. \A symbol : Directory(symbol) => faults \subseteq faults'
    BY DEF Directory
  <2>2. \A ref, order : AddOrder(ref, order) => faults \subseteq faults'
    BY DEF AddOrder
  <2>3. \A ref, qty : ReduceOrder(ref, qty) => faults \subseteq faults'
    BY DEF ReduceOrder
  <2>4. \A ref : DeleteOrder(ref) => faults \subseteq faults'
    BY DEF DeleteOrder
  <2>5. \A old, new, px, qty : ReplaceOrder(old, new, px, qty) => faults \subseteq faults'
    BY DEF ReplaceOrder
  <2>6. Finish => faults \subseteq faults'
    BY DEF Finish
  <2> QED
    BY <2>1, <2>2, <2>3, <2>4, <2>5, <2>6 DEF StatNext, Message, DirectoryMessage, AddMessage,
       ExecuteMessage, CancelMessage, DeleteMessage, ReplaceMessage, EndOfFeed
<1> QED
  BY <1>2, <1>3, <1>4, <1>5, <1>6, <1>7 DEF StatNext, Message, DirectoryMessage, AddMessage,
     ExecuteMessage, CancelMessage, DeleteMessage, ReplaceMessage, EndOfFeed

(* The two programs stay in step until something is charged. *)
LEMMA StepInStep ==
    ASSUME MarketFits, Clean, integ \subseteq {"duplicate_add"}, [StatNext]_allVars
    PROVE  InStep
<1>1. Quantities \subseteq Nat \ {0}
  BY ExtractAssumption
<1>2. CASE AddMessage
  <2>1. PICK ref \in Refs, symbol \in Symbols, side \in Sides, px \in Prices,
             qty \in Quantities :
            /\ AddOrder(ref, [symbol |-> symbol, side |-> side, price |-> px, qty |-> qty,
                              seen |-> TRUE, told |-> symbol \in listed])
            /\ StatAdd(ref, qty)
    BY <1>2 DEF AddMessage
  <2>2. PICK order : order = [symbol |-> symbol, side |-> side, price |-> px, qty |-> qty,
                              seen |-> TRUE, told |-> symbol \in listed]
    OBVIOUS
  <2>3. AddOrder(ref, order) /\ StatAdd(ref, order.qty) /\ order \in Listing /\ order.seen
    BY <1>1, <2>1, <2>2 DEF Listing
  <2>4. order.told <=> order.symbol \in listed
    BY <2>2
  <2> QED
    BY <2>3, <2>4, AddCharges
<1>3. ASSUME NEW ref, NEW qty \in Quantities, NEW orphan \in Orphans, NEW oversized \in Oversizes,
             ReduceOrder(ref, qty), StatReduce(orphan, oversized, ref, qty)
      PROVE  InStep
  <2>1. qty \in Nat \ {0}
    BY <1>1
  <2> QED
    BY <1>3, <2>1, ReduceCharges
<1>4. CASE ExecuteMessage
  <2>1. PICK ref \in Refs, qty \in Quantities :
            /\ ReduceOrder(ref, qty)
            /\ StatReduce("orphan_execute", "oversized_execute", ref, qty)
    BY <1>4 DEF ExecuteMessage
  <2>2. "orphan_execute" \in Orphans /\ "oversized_execute" \in Oversizes
    BY DEF Orphans, Oversizes
  <2> QED
    BY <1>3, <2>1, <2>2
<1>5. CASE CancelMessage
  <2>1. PICK ref \in Refs, qty \in Quantities :
            /\ ReduceOrder(ref, qty)
            /\ StatReduce("orphan_cancel", "oversized_cancel", ref, qty)
    BY <1>5 DEF CancelMessage
  <2>2. "orphan_cancel" \in Orphans /\ "oversized_cancel" \in Oversizes
    BY DEF Orphans, Oversizes
  <2> QED
    BY <1>3, <2>1, <2>2
<1>6. CASE DeleteMessage
  BY <1>6, DeleteCharges DEF DeleteMessage
<1>7. CASE ReplaceMessage
  <2>1. PICK old \in Refs, new \in Refs, px \in Prices, qty \in Quantities :
            ReplaceOrder(old, new, px, qty) /\ StatReplace(old, new, qty)
    BY <1>7 DEF ReplaceMessage
  <2>2. qty \in Nat \ {0}
    BY <1>1
  <2> QED
    BY <2>1, <2>2, ReplaceCharges
<1>8. ASSUME UNCHANGED <<live, faults, route, failed, table, integ>> PROVE InStep
  <2>1. Seen' = Seen
    BY <1>8 DEF Seen
  <2>2. RouteIsMarket'
    BY <1>8, <2>1 DEF RouteIsMarket, Clean, Kept, Target
  <2>3. Clean'
    BY <1>8, <2>2 DEF Clean, TableIsIndex
  <2> QED
    BY <1>8, <2>3 DEF InStep, Caused
<1>9. CASE DirectoryMessage
  BY <1>8, <1>9 DEF DirectoryMessage, Directory, statVars
<1>10. CASE EndOfFeed
  BY <1>8, <1>10 DEF EndOfFeed, Finish, statVars
<1>11. CASE UNCHANGED allVars
  BY <1>8, <1>11 DEF allVars, vars, statVars
<1> QED
  BY <1>2, <1>4, <1>5, <1>6, <1>7, <1>9, <1>10, <1>11 DEF StatNext, Message

(* The table keeps up with the index for as long as the gate would pass. *)
LEMMA StepCovers ==
    ASSUME MarketFits, RouteIsMarket, Covers, TableFits, StatNext, Passed'
    PROVE  Covers'
<1>1. Quantities \subseteq Nat \ {0}
  BY ExtractAssumption
<1>2. CASE AddMessage
  <2>1. PICK ref \in Refs, symbol \in Symbols, side \in Sides, px \in Prices,
             qty \in Quantities :
            /\ AddOrder(ref, [symbol |-> symbol, side |-> side, price |-> px, qty |-> qty,
                              seen |-> TRUE, told |-> symbol \in listed])
            /\ StatAdd(ref, qty)
    BY <1>2 DEF AddMessage
  <2>2. PICK order : order = [symbol |-> symbol, side |-> side, price |-> px, qty |-> qty,
                              seen |-> TRUE, told |-> symbol \in listed]
    OBVIOUS
  <2>3. AddOrder(ref, order) /\ StatAdd(ref, order.qty)
    BY <2>1, <2>2
  <2> QED
    BY <2>3, AddCovers
<1>3. ASSUME NEW ref, NEW qty \in Quantities, NEW orphan \in Orphans, NEW oversized,
             ReduceOrder(ref, qty), StatReduce(orphan, oversized, ref, qty)
      PROVE  Covers'
  <2>1. qty \in Nat \ {0}
    BY <1>1
  <2> QED
    BY <1>3, <2>1, ReduceCovers
<1>4. CASE ExecuteMessage
  <2>1. "orphan_execute" \in Orphans
    BY DEF Orphans
  <2> QED
    BY <1>3, <1>4, <2>1 DEF ExecuteMessage
<1>5. CASE CancelMessage
  <2>1. "orphan_cancel" \in Orphans
    BY DEF Orphans
  <2> QED
    BY <1>3, <1>5, <2>1 DEF CancelMessage
<1>6. CASE DeleteMessage
  BY <1>6, DeleteCovers DEF DeleteMessage
<1>7. CASE ReplaceMessage
  BY <1>7, ReplaceCovers DEF ReplaceMessage
<1>8. ASSUME UNCHANGED <<route, failed, table>> PROVE Covers'
  BY <1>8 DEF Covers
<1>9. CASE DirectoryMessage
  BY <1>8, <1>9 DEF DirectoryMessage, Directory, statVars
<1>10. CASE EndOfFeed
  BY <1>8, <1>10 DEF EndOfFeed, Finish, statVars
<1> QED
  BY <1>2, <1>4, <1>5, <1>6, <1>7, <1>9, <1>10 DEF StatNext, Message

LEMMA GateStart == StatInit => GateInv
<1> SUFFICES ASSUME StatInit PROVE GateInv
  OBVIOUS
<1>1. route = << >> /\ table = << >> /\ ~failed /\ faults = {}
  BY DEF StatInit, Init
<1>2. DOMAIN route = {} /\ DOMAIN table = {}
  BY <1>1
<1>3. TableFits
  BY <1>2, FS_EmptySet, ExtractAssumption DEF TableFits
<1>4. RouteIsMarket
  BY <1>1, TapeStart DEF TapeInv
<1> QED
  BY <1>1, <1>2, <1>3, <1>4 DEF GateInv, Clean, TableIsIndex, Covers

LEMMA GateStep == TapeInv /\ GateInv /\ [StatNext]_allVars => GateInv'
<1> SUFFICES ASSUME TapeInv, GateInv, [StatNext]_allVars PROVE GateInv'
  OBVIOUS
<1>1. CASE UNCHANGED allVars
  <2>1. UNCHANGED <<live, faults, route, failed, table, integ>>
    BY <1>1 DEF allVars, vars, statVars
  <2> QED
    BY <2>1 DEF GateInv, TableFits, Clean, RouteIsMarket, Seen, Kept, Target, TableIsIndex,
       Covers, GatePasses
<1>2. CASE StatNext
  <2>1. MarketFits /\ integ \subseteq integ' /\ faults \subseteq faults'
    BY <1>2, ChargesStay DEF TapeInv
  <2>2. TableFits'
    BY <1>2, TableStaysFit DEF GateInv
  <2>3. ASSUME integ' \subseteq {"duplicate_add"} PROVE Clean'
    <3>1. integ \subseteq {"duplicate_add"} /\ Clean
      BY <2>1, <2>3 DEF GateInv
    <3>2. InStep
      BY <1>2, <2>1, <3>1, StepInStep
    <3> QED
      BY <2>3, <3>2 DEF InStep
  <2>4. ASSUME Passed' PROVE Covers'
    <3>1. Passed
      BY <2>1, <2>4 DEF Passed, GatePasses
    <3>2. Covers /\ RouteIsMarket /\ TableFits
      BY <3>1 DEF GateInv, Passed, TapeInv, Covers
    <3> QED
      BY <1>2, <2>1, <2>4, <3>2, StepCovers
  <2> QED
    BY <2>2, <2>3, <2>4 DEF GateInv, Passed
<1> QED
  BY <1>1, <1>2

LEMMA GateHolds == StatSpec => [](TapeInv /\ GateInv)
<1>1. StatInit => TapeInv /\ GateInv
  BY TapeStart, GateStart
<1>2. TapeInv /\ GateInv /\ [StatNext]_allVars => (TapeInv /\ GateInv)'
  BY TapeStep, GateStep
<1> QED
  BY <1>1, <1>2, PTL DEF StatSpec

(* A feed that passes the gate of itch_stat may be given to extract_tape, if it gives no      *)
(* reference to two orders: its index turns nothing down, and the gate's table has what it    *)
(* has.  That both know the same orders takes the oversized counters, which the gate does not *)
(* look at, to be zero as well; then the feed was right but for references used twice.        *)
THEOREM GateVouchesForTapes == StatSpec => []GateSpeaksForTapes
<1>1. ASSUME GateInv PROVE GateSpeaksForTapes
  <2>1. ASSUME GatePasses, "duplicate" \notin faults
        PROVE  /\ ~failed
               /\ \A ref \in DOMAIN route : ref \in DOMAIN table /\ table[ref] = route[ref].shares
    BY <1>1, <2>1 DEF GateInv, Covers
  <2>2. ASSUME GatePasses, integ \cap Oversizes = {}
        PROVE  /\ ~failed /\ faults \subseteq {"duplicate"}
               /\ table = [ref \in DOMAIN route |-> route[ref].shares]
               /\ \A ref \in DOMAIN live \ DOMAIN table : ~live[ref].seen
    <3>1. integ \subseteq {"duplicate_add"}
      BY <2>2 DEF GatePasses
    <3>2. Clean
      BY <1>1, <3>1 DEF GateInv
    <3>3. \A ref \in DOMAIN live \ DOMAIN table : ~live[ref].seen
      BY <3>2, CleanAt DEF Seen
    <3> QED
      BY <3>2, <3>3 DEF Clean, TableIsIndex
  <2> QED
    BY <2>1, <2>2 DEF GateSpeaksForTapes
<1> QED
  BY <1>1, GateHolds, PTL

(* Until the first charge each counter stands for what its name says, on any feed. *)
THEOREM ChargesHaveCause == StatSpec => ChargedForCause
<1>1. TapeInv /\ GateInv /\ [StatNext]_allVars => [integ = {} => Caused]_allVars
  <2> SUFFICES ASSUME TapeInv, GateInv, [StatNext]_allVars, integ = {} PROVE Caused
    OBVIOUS
  <2>1. MarketFits /\ Clean /\ integ \subseteq {"duplicate_add"}
    BY DEF TapeInv, GateInv
  <2> QED
    BY <2>1, StepInStep DEF InStep
<1>2. TapeInv /\ GateInv /\ [StatNext]_allVars => (TapeInv /\ GateInv)'
  BY TapeStep, GateStep
<1>3. StatInit => TapeInv /\ GateInv
  BY TapeStart, GateStart
<1> QED
  BY <1>1, <1>2, <1>3, PTL DEF StatSpec, ChargedForCause, Caused
=============================================================================

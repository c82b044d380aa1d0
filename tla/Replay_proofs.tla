---------------------------- MODULE Replay_proofs ----------------------------
(**********************************************************************************************)
(* Replay, for tapes of any length and any touches, every horizon, grid and block,            *)
(* and however the policies are filled.                                                       *)
(*                                                                                            *)
(* The argument.  The next sample is due at the end of the last cell of the grid that         *)
(* an event fell in (GridInv, Due), so an event is the first of its cell exactly when it is   *)
(* not before that.  The mids are recorded at the changes, one each (Recorded), so the last   *)
(* one recorded by a time is the mid in force then (MidAtIs), and a fill is scored with it    *)
(* exactly when there is one and the tape reaches that far (Matches).  The blocks are a       *)
(* partition of a series that is in order of time (OrderInv), and what they sum to is the sum *)
(* of the series (SumOfParts).                                                                *)
(**********************************************************************************************)
EXTENDS Replay, SequenceTheorems, FiniteSetTheorems, WellFoundedInduction, TLAPS

-----------------------------------------------------------------------------
(* Induction, for a set in the place of a predicate. *)

LEMMA LeastNat ==
    ASSUME NEW T \in SUBSET Nat, T # {}
    PROVE  \E n \in T : \A m \in T : n <= m
<1> DEFINE R == OpToRel(<, Nat)
<1>1. IsWellFoundedOn(R, Nat)
  BY NatLessThanWellFounded
<1>2. \A x, y \in Nat : <<x, y>> \in R <=> x < y
  BY DEF OpToRel
<1> HIDE DEF R
<1>3. PICK n \in T : \A m \in T : ~(<<m, n>> \in R)
  BY <1>1, WFMin
<1>4. \A m \in T : ~(m < n)
  BY <1>2, <1>3
<1> QED
  BY <1>4

LEMMA SetInduction ==
    ASSUME NEW T \in SUBSET Nat, 0 \in T, \A n \in Nat : n \in T => n + 1 \in T
    PROVE  T = Nat
<1> SUFFICES ASSUME Nat \ T # {} PROVE FALSE
  OBVIOUS
<1>1. PICK n \in Nat \ T : \A m \in Nat \ T : n <= m
  BY LeastNat
<1>2. n # 0 /\ n - 1 \in Nat /\ n - 1 \in T
  BY <1>1
<1>3. (n - 1) + 1 \in T
  BY <1>2
<1> QED
  BY <1>1, <1>2, <1>3

-----------------------------------------------------------------------------
(* Sums.  SumFunctionOnSet takes the elements in an order of its own; what it comes to *)
(* does not depend on it.                                                              *)
Choice(s) == CHOOSE x \in s : TRUE

Folds(w, S, f) ==
    f = [s \in SUBSET S |-> IF s = {} THEN 0
                            ELSE w[Choice(s)] + f[s \ {Choice(s)}]]

Counts(w, S) == IsFiniteSet(S) /\ \A x \in S : w[x] \in Nat

LEMMA ChoiceIn == \A s : s # {} => Choice(s) \in s
BY DEF Choice

LEMMA SizeOfRest ==
    ASSUME NEW S, IsFiniteSet(S), NEW x \in S, NEW n \in Nat, Cardinality(S) <= n + 1
    PROVE  IsFiniteSet(S \ {x}) /\ Cardinality(S \ {x}) <= n
<1>1. /\ IsFiniteSet(S \ {x}) /\ Cardinality(S \ {x}) = Cardinality(S) - 1
      /\ Cardinality(S) \in Nat
  BY FS_RemoveElement, FS_CardinalityType
<1> QED
  BY <1>1

(* The sums of the subsets of S that have at most n elements. *)
SumsTo(w, S, n, g) ==
    /\ g \in [{s \in SUBSET S : Cardinality(s) <= n} -> Nat]
    /\ \A s \in SUBSET S : Cardinality(s) <= n =>
          g[s] = IF s = {} THEN 0 ELSE w[Choice(s)] + g[s \ {Choice(s)}]

LEMMA SumsExist ==
    ASSUME NEW w, NEW S, Counts(w, S), NEW n \in Nat
    PROVE  \E g : SumsTo(w, S, n, g)
<1> DEFINE T == {k \in Nat : \E g : SumsTo(w, S, k, g)}
<1>0. \A s \in SUBSET S : IsFiniteSet(s) /\ Cardinality(s) \in Nat
  BY FS_Subset, FS_CardinalityType DEF Counts
<1>1. 0 \in T
  <2> DEFINE g == [s \in {s \in SUBSET S : Cardinality(s) <= 0} |-> 0]
  <2>1. \A s \in SUBSET S : Cardinality(s) <= 0 => s = {}
    <3> SUFFICES ASSUME NEW s \in SUBSET S, Cardinality(s) <= 0 PROVE s = {}
      OBVIOUS
    <3>1. Cardinality(s) = 0
      BY <1>0
    <3> QED
      BY <1>0, <3>1, FS_EmptySet
  <2>2. SumsTo(w, S, 0, g)
    BY <2>1 DEF SumsTo
  <2> QED
    BY <2>2
<1>2. ASSUME NEW k \in Nat, k \in T PROVE k + 1 \in T
  <2>1. PICK g : SumsTo(w, S, k, g)
    BY <1>2
  <2> DEFINE D == {s \in SUBSET S : Cardinality(s) <= k + 1}
             h == [s \in D |-> IF s = {} THEN 0
                               ELSE w[Choice(s)] + g[s \ {Choice(s)}]]
  <2>2. ASSUME NEW s \in D, s # {}
        PROVE  /\ Choice(s) \in s /\ w[Choice(s)] \in Nat
               /\ s \ {Choice(s)} \in SUBSET S
               /\ Cardinality(s \ {Choice(s)}) <= k
               /\ g[s \ {Choice(s)}] \in Nat
    <3>1. Choice(s) \in s
      BY <2>2, ChoiceIn
    <3>2. Cardinality(s \ {Choice(s)}) <= k
      BY <1>0, <3>1, SizeOfRest
    <3> QED
      BY <2>1, <3>1, <3>2 DEF Counts, SumsTo
  <2>3. h \in [D -> Nat]
    BY <2>2
  <2>4. \A s \in SUBSET S : Cardinality(s) <= k => h[s] = g[s]
    <3> SUFFICES ASSUME NEW s \in SUBSET S, Cardinality(s) <= k PROVE h[s] = g[s]
      OBVIOUS
    <3>1. s \in D
      BY <1>0
    <3> QED
      BY <2>1, <3>1 DEF SumsTo
  <2>5. ASSUME NEW s \in D
        PROVE  h[s] = IF s = {} THEN 0 ELSE w[Choice(s)] + h[s \ {Choice(s)}]
    <3>1. CASE s = {}
      BY <3>1
    <3>2. CASE s # {}
      <4>1. h[s \ {Choice(s)}] = g[s \ {Choice(s)}]
        BY <2>2, <2>4, <3>2
      <4> QED
        BY <3>2, <4>1
    <3> QED
      BY <3>1, <3>2
  <2> HIDE DEF h
  <2>6. SumsTo(w, S, k + 1, h)
    BY <2>3, <2>5 DEF SumsTo
  <2> QED
    BY <2>6
<1>3. T = Nat
  <2> HIDE DEF T
  <2>1. T \in SUBSET Nat
    BY DEF T
  <2> QED
    BY <1>1, <1>2, <2>1, SetInduction
<1> QED
  BY <1>3

(* The recursion has one solution on a set, whatever larger set it is a part of. *)
LEMMA FoldsAgree ==
    ASSUME NEW w, NEW S, NEW f, Folds(w, S, f), NEW v, NEW R, NEW g, Folds(v, R, g),
           NEW s \in SUBSET (S \cap R), IsFiniteSet(s),
           \A x \in s : v[x] = w[x]
    PROVE  f[s] = g[s]
<1> DEFINE T == {n \in Nat : \A z \in SUBSET s : Cardinality(z) = n => f[z] = g[z]}
<1>0. \A z \in SUBSET s : IsFiniteSet(z) /\ Cardinality(z) \in Nat
  BY FS_Subset, FS_CardinalityType
<1>1. 0 \in T
  <2>1. \A z \in SUBSET s : Cardinality(z) = 0 => z = {}
    BY <1>0, FS_EmptySet
  <2>2. f[{}] = 0 /\ g[{}] = 0
    BY DEF Folds
  <2> QED
    BY <2>1, <2>2
<1>2. ASSUME NEW n \in Nat, n \in T PROVE n + 1 \in T
  <2> SUFFICES ASSUME NEW z \in SUBSET s, Cardinality(z) = n + 1 PROVE f[z] = g[z]
    OBVIOUS
  <2>1. z # {}
    BY FS_EmptySet
  <2>2. PICK x \in z : x = Choice(z)
    BY <2>1, ChoiceIn
  <2>3. Cardinality(z \ {x}) = n /\ z \ {x} \in SUBSET s
    <3>1. IsFiniteSet(z)
      BY <1>0
    <3>2. Cardinality(z \ {x}) = Cardinality(z) - 1
      BY <3>1, FS_RemoveElement
    <3> QED
      BY <3>2
  <2>4. f[z \ {x}] = g[z \ {x}]
    BY <1>2, <2>3
  <2>5. f[z] = w[x] + f[z \ {x}]
    BY <2>1, <2>2 DEF Folds
  <2>6. g[z] = v[x] + g[z \ {x}]
    BY <2>1, <2>2 DEF Folds
  <2> QED
    BY <2>4, <2>5, <2>6
<1>3. T = Nat
  <2> HIDE DEF T
  <2>1. T \in SUBSET Nat
    BY DEF T
  <2> QED
    BY <1>1, <1>2, <2>1, SetInduction
<1> QED
  BY <1>0, <1>3

LEMMA SumIsFold ==
    ASSUME NEW w, NEW S, Counts(w, S)
    PROVE  \E f : /\ Folds(w, S, f) /\ f \in [SUBSET S -> Nat]
                  /\ SumFunctionOnSet(w, S) = f[S]
<1>0. /\ IsFiniteSet(S) /\ Cardinality(S) \in Nat
      /\ \A s \in SUBSET S : IsFiniteSet(s) /\ Cardinality(s) <= Cardinality(S)
  BY FS_Subset, FS_CardinalityType DEF Counts
<1>1. PICK g : SumsTo(w, S, Cardinality(S), g)
  BY <1>0, SumsExist
<1>2. g \in [SUBSET S -> Nat]
  <2>1. {s \in SUBSET S : Cardinality(s) <= Cardinality(S)} = SUBSET S
    BY <1>0
  <2> QED
    BY <1>1, <2>1 DEF SumsTo
<1>3. Folds(w, S, g)
  <2> DEFINE h == [s \in SUBSET S |-> IF s = {} THEN 0
                                      ELSE w[Choice(s)] + g[s \ {Choice(s)}]]
  <2>1. \A s \in SUBSET S : g[s] = h[s]
    BY <1>0, <1>1 DEF SumsTo
  <2>2. g = h
    BY <1>2, <2>1
  <2> QED
    BY <2>2 DEF Folds
<1> DEFINE f == CHOOSE f : Folds(w, S, f)
<1>4. Folds(w, S, f)
  BY <1>3
<1>5. SumFunctionOnSet(w, S) = f[S]
  BY Zenon DEF SumFunctionOnSet, FoldFunctionOnSet, MapThenFoldSet, Folds, Choice
<1> HIDE DEF f
<1>6. f[S] = g[S]
  BY <1>0, <1>3, <1>4, FoldsAgree
<1> QED
  BY <1>2, <1>3, <1>5, <1>6

LEMMA SumSame ==
    ASSUME NEW w, NEW v, NEW S, Counts(w, S), \A x \in S : v[x] = w[x]
    PROVE  SumFunctionOnSet(v, S) = SumFunctionOnSet(w, S)
<1>0. Counts(v, S) /\ IsFiniteSet(S)
  BY DEF Counts
<1>1. PICK f : Folds(w, S, f) /\ SumFunctionOnSet(w, S) = f[S]
  BY SumIsFold
<1>2. PICK g : Folds(v, S, g) /\ SumFunctionOnSet(v, S) = g[S]
  BY <1>0, SumIsFold
<1> QED
  BY <1>0, <1>1, <1>2, FoldsAgree

LEMMA SumIsNat ==
    ASSUME NEW w, NEW S, Counts(w, S)
    PROVE  SumFunctionOnSet(w, S) \in Nat /\ SumFunctionOnSet(w, {}) = 0
<1>1. SumFunctionOnSet(w, S) \in Nat
  <2>1. PICK f : f \in [SUBSET S -> Nat] /\ SumFunctionOnSet(w, S) = f[S]
    BY SumIsFold
  <2>2. S \in SUBSET S
    OBVIOUS
  <2> QED
    BY <2>1, <2>2
<1>2. Counts(w, {})
  BY FS_EmptySet DEF Counts
<1>3. PICK f : Folds(w, {}, f) /\ SumFunctionOnSet(w, {}) = f[{}]
  BY <1>2, SumIsFold
<1>4. f[{}] = 0
  BY <1>3 DEF Folds
<1> QED
  BY <1>1, <1>3, <1>4

(* Any one element can be taken out of a sum first. *)
LEMMA SumWithout ==
    ASSUME NEW w, NEW S, Counts(w, S), NEW x \in S
    PROVE  SumFunctionOnSet(w, S) = w[x] + SumFunctionOnSet(w, S \ {x})
<1>1. PICK f : Folds(w, S, f) /\ f \in [SUBSET S -> Nat] /\ SumFunctionOnSet(w, S) = f[S]
  BY SumIsFold
<1>0. \A s \in SUBSET S : Counts(w, s) /\ IsFiniteSet(s) /\ Cardinality(s) \in Nat
  BY FS_Subset, FS_CardinalityType DEF Counts
<1> DEFINE T == {n \in Nat : \A s \in SUBSET S : Cardinality(s) = n =>
                     \A y \in s : f[s] = w[y] + f[s \ {y}]}
<1>2. 0 \in T
  <2>1. \A s \in SUBSET S : Cardinality(s) = 0 => s = {}
    BY <1>0, FS_EmptySet
  <2> QED
    BY <2>1
<1>3. ASSUME NEW n \in Nat, n \in T PROVE n + 1 \in T
  <2> SUFFICES ASSUME NEW s \in SUBSET S, Cardinality(s) = n + 1, NEW y \in s
               PROVE  f[s] = w[y] + f[s \ {y}]
    OBVIOUS
  <2>1. PICK c \in s : c = Choice(s)
    BY ChoiceIn
  <2>2. f[s] = w[c] + f[s \ {c}]
    BY <1>1, <2>1 DEF Folds
  <2>3. CASE y = c
    BY <2>2, <2>3
  <2>4. CASE y # c
    <3>1. /\ Cardinality(s \ {c}) = n /\ s \ {c} \in SUBSET S
          /\ Cardinality(s \ {y}) = n /\ s \ {y} \in SUBSET S
      <4>1. IsFiniteSet(s)
        BY <1>0
      <4>2. Cardinality(s \ {c}) = Cardinality(s) - 1 /\ Cardinality(s \ {y}) = Cardinality(s) - 1
        BY <4>1, FS_RemoveElement
      <4> QED
        BY <4>2
    <3>2. f[s \ {c}] = w[y] + f[(s \ {c}) \ {y}]
      BY <1>3, <2>4, <3>1
    <3>3. f[s \ {y}] = w[c] + f[(s \ {y}) \ {c}]
      BY <1>3, <2>4, <3>1
    <3>4. (s \ {c}) \ {y} = (s \ {y}) \ {c}
      OBVIOUS
    <3>5. /\ w[y] \in Nat /\ w[c] \in Nat /\ f[(s \ {y}) \ {c}] \in Nat
      <4>1. y \in S /\ c \in S /\ (s \ {y}) \ {c} \in SUBSET S
        OBVIOUS
      <4> QED
        BY <1>1, <4>1 DEF Counts
    <3> DEFINE a == w[y]
               d == w[c]
               r == f[(s \ {y}) \ {c}]
    <3>6. /\ f[s] = d + (a + r) /\ f[s \ {y}] = d + r /\ a \in Nat /\ d \in Nat /\ r \in Nat
          /\ w[y] = a
      BY <2>2, <3>2, <3>3, <3>4, <3>5
    <3> HIDE DEF a, d, r
    <3> QED
      BY <3>6
  <2> QED
    BY <2>3, <2>4
<1>4. T = Nat
  <2> HIDE DEF T
  <2>1. T \in SUBSET Nat
    BY DEF T
  <2> QED
    BY <1>2, <1>3, <2>1, SetInduction
<1>5. f[S] = w[x] + f[S \ {x}]
  BY <1>0, <1>4
<1>6. f[S \ {x}] = SumFunctionOnSet(w, S \ {x})
  <2>1. S \ {x} \in SUBSET S
    OBVIOUS
  <2>2. PICK g : Folds(w, S \ {x}, g) /\ SumFunctionOnSet(w, S \ {x}) = g[S \ {x}]
    BY <1>0, <2>1, SumIsFold
  <2> QED
    BY <1>0, <1>1, <2>1, <2>2, FoldsAgree
<1> QED
  BY <1>1, <1>5, <1>6

LEMMA SumWith ==
    ASSUME NEW w, NEW S, Counts(w, S), NEW x, x \notin S, w[x] \in Nat
    PROVE  SumFunctionOnSet(w, S \cup {x}) = w[x] + SumFunctionOnSet(w, S)
<1>1. Counts(w, S \cup {x})
  BY FS_AddElement DEF Counts
<1>2. SumFunctionOnSet(w, S \cup {x}) = w[x] + SumFunctionOnSet(w, (S \cup {x}) \ {x})
  BY <1>1, SumWithout
<1>3. (S \cup {x}) \ {x} = S
  OBVIOUS
<1> QED
  BY <1>2, <1>3

(* The sum of two sets that have nothing in common. *)
LEMMA SumOfBoth ==
    ASSUME NEW w, NEW A, NEW B, Counts(w, A), Counts(w, B), A \cap B = {}
    PROVE  SumFunctionOnSet(w, A \cup B) = SumFunctionOnSet(w, A) + SumFunctionOnSet(w, B)
<1> DEFINE Splits(s) == SumFunctionOnSet(w, A \cup s)
                      = SumFunctionOnSet(w, A) + SumFunctionOnSet(w, s)
           T == {n \in Nat : \A s \in SUBSET B : Cardinality(s) = n => Splits(s)}
<1>0. /\ IsFiniteSet(A) /\ IsFiniteSet(B)
      /\ \A s \in SUBSET B : Counts(w, s) /\ Counts(w, A \cup s)
                            /\ IsFiniteSet(s) /\ Cardinality(s) \in Nat
  <2>1. IsFiniteSet(A) /\ IsFiniteSet(B)
    BY DEF Counts
  <2>2. \A s \in SUBSET B : IsFiniteSet(s) /\ Cardinality(s) \in Nat /\ IsFiniteSet(A \cup s)
    BY <2>1, FS_Subset, FS_CardinalityType, FS_Union
  <2> QED
    BY <2>1, <2>2 DEF Counts
<1>1. 0 \in T
  <2> SUFFICES ASSUME NEW s \in SUBSET B, Cardinality(s) = 0 PROVE Splits(s)
    OBVIOUS
  <2>1. s = {} /\ A \cup s = A
    BY <1>0, FS_EmptySet
  <2>2. SumFunctionOnSet(w, A) \in Nat /\ SumFunctionOnSet(w, {}) = 0
    BY SumIsNat
  <2> QED
    BY <2>1, <2>2
<1>2. ASSUME NEW n \in Nat, n \in T PROVE n + 1 \in T
  <2> SUFFICES ASSUME NEW s \in SUBSET B, Cardinality(s) = n + 1 PROVE Splits(s)
    OBVIOUS
  <2>1. s # {}
    BY FS_EmptySet
  <2>2. PICK x \in s : TRUE
    BY <2>1
  <2>3. PICK r : r = s \ {x}
    OBVIOUS
  <2>4. r \in SUBSET B /\ Cardinality(r) = n
    <3>1. IsFiniteSet(s)
      BY <1>0
    <3>2. Cardinality(r) = Cardinality(s) - 1
      BY <2>2, <2>3, <3>1, FS_RemoveElement
    <3> QED
      BY <2>3, <3>2
  <2>5. SumFunctionOnSet(w, A \cup r) = SumFunctionOnSet(w, A) + SumFunctionOnSet(w, r)
    BY <1>2, <2>4
  <2>6. SumFunctionOnSet(w, s) = w[x] + SumFunctionOnSet(w, r)
    <3>1. Counts(w, s)
      BY <1>0
    <3>2. SumFunctionOnSet(w, s) = w[x] + SumFunctionOnSet(w, s \ {x})
      BY <2>2, <3>1, SumWithout
    <3> QED
      BY <2>3, <3>2
  <2>7. SumFunctionOnSet(w, A \cup s) = w[x] + SumFunctionOnSet(w, A \cup r)
    <3>1. (A \cup s) \ {x} = A \cup r
      BY <2>2, <2>3
    <3>2. x \in A \cup s /\ Counts(w, A \cup s)
      BY <1>0, <2>2
    <3> QED
      BY <3>1, <3>2, SumWithout
  <2>8. w[x] \in Nat /\ SumFunctionOnSet(w, A) \in Nat /\ SumFunctionOnSet(w, r) \in Nat
    <3>1. w[x] \in Nat
      BY <2>2 DEF Counts
    <3>2. Counts(w, r)
      BY <1>0, <2>4
    <3> QED
      BY <3>1, <3>2, SumIsNat
  <2> QED
    BY <2>5, <2>6, <2>7, <2>8
<1> HIDE DEF T
<1>3. T = Nat
  BY <1>1, <1>2, SetInduction DEF T
<1>4. Cardinality(B) \in T
  BY <1>0, <1>3
<1>5. B \in SUBSET B
  OBVIOUS
<1> QED
  BY <1>4, <1>5 DEF T

(* As many parts of a set as one likes, no two of which have anything in common. *)
Gathered(parts, n) == UNION {parts[k] : k \in 1..n}

(* The sums of the parts of a set. *)
Shares(w, S, n, parts, sums) ==
    /\ Counts(w, S) /\ n \in Nat /\ parts \in [1..n -> SUBSET S]
    /\ \A j, k \in 1..n : j # k => parts[j] \cap parts[k] = {}
    /\ \A k \in 1..n : sums[k] = SumFunctionOnSet(w, parts[k])

LEMMA SumOfParts ==
    ASSUME NEW w, NEW S, NEW n, NEW parts, NEW sums, Shares(w, S, n, parts, sums)
    PROVE  SumFunctionOnSet(sums, 1..n) = SumFunctionOnSet(w, Gathered(parts, n))
<1>. /\ Counts(w, S) /\ n \in Nat /\ parts \in [1..n -> SUBSET S]
     /\ \A j, k \in 1..n : j # k => parts[j] \cap parts[k] = {}
     /\ \A k \in 1..n : sums[k] = SumFunctionOnSet(w, parts[k])
  BY DEF Shares
<1> DEFINE T == {k \in Nat : k <= n =>
                   SumFunctionOnSet(sums, 1..k) = SumFunctionOnSet(w, Gathered(parts, k))}
<1>0. \A A \in SUBSET S : Counts(w, A)
  BY FS_Subset DEF Counts
<1>1. \A k \in 1..n : parts[k] \in SUBSET S /\ sums[k] \in Nat
  BY <1>0, SumIsNat
<1>2. \A k \in Nat : k <= n => Counts(sums, 1..k)
  <2>1. \A k \in Nat : IsFiniteSet(1..k)
    BY FS_Interval
  <2> QED
    BY <1>1, <2>1 DEF Counts
<1>3. 0 \in T
  <2>1. 1..0 = {} /\ Gathered(parts, 0) = {}
    BY DEF Gathered
  <2>2. SumFunctionOnSet(w, {}) = 0
    BY SumIsNat
  <2>3. SumFunctionOnSet(sums, {}) = 0
    <3>1. Counts(sums, {})
      BY FS_EmptySet DEF Counts
    <3> QED
      BY <3>1, SumIsNat
  <2> QED
    BY <2>1, <2>2, <2>3
<1>4. ASSUME NEW k \in Nat, k \in T PROVE k + 1 \in T
  <2> SUFFICES ASSUME k + 1 <= n
               PROVE  SumFunctionOnSet(sums, 1..(k + 1)) = SumFunctionOnSet(w, Gathered(parts, k + 1))
    OBVIOUS
  <2>1. 1..(k + 1) = 1..k \cup {k + 1} /\ k + 1 \notin 1..k /\ k + 1 \in 1..n /\ 1..k \subseteq 1..n
    OBVIOUS
  <2>2. SumFunctionOnSet(sums, 1..k \cup {k + 1}) = sums[k + 1] + SumFunctionOnSet(sums, 1..k)
    <3>1. Counts(sums, 1..k) /\ sums[k + 1] \in Nat
      BY <1>1, <1>2, <2>1
    <3> QED
      BY <2>1, <3>1, SumWith
  <2>3. PICK A : A = Gathered(parts, k)
    OBVIOUS
  <2>4. PICK B : B = parts[k + 1]
    OBVIOUS
  <2>5. A \in SUBSET S /\ B \in SUBSET S
    BY <1>1, <2>1, <2>3, <2>4 DEF Gathered
  <2>6. Gathered(parts, k + 1) = A \cup B
    BY <2>1, <2>3, <2>4 DEF Gathered
  <2>7. A \cap B = {}
    <3>1. \A j \in 1..k : parts[j] \cap B = {}
      <4> SUFFICES ASSUME NEW j \in 1..k PROVE parts[j] \cap B = {}
        OBVIOUS
      <4>1. j \in 1..n /\ j # k + 1
        BY <2>1
      <4> QED
        BY <2>1, <2>4, <4>1
    <3> QED
      BY <2>3, <3>1 DEF Gathered
  <2>8. SumFunctionOnSet(w, A \cup B) = SumFunctionOnSet(w, A) + SumFunctionOnSet(w, B)
    BY <1>0, <2>5, <2>7, SumOfBoth
  <2>9. SumFunctionOnSet(sums, 1..k) = SumFunctionOnSet(w, A)
    BY <1>4, <2>3
  <2>10. sums[k + 1] = SumFunctionOnSet(w, B)
    BY <2>1, <2>4
  <2>11. SumFunctionOnSet(w, A) \in Nat /\ SumFunctionOnSet(w, B) \in Nat
    BY <1>0, <2>5, SumIsNat
  <2>12. SumFunctionOnSet(sums, 1..(k + 1)) = sums[k + 1] + SumFunctionOnSet(sums, 1..k)
    BY <2>1, <2>2
  <2>13. PICK a \in Nat, b \in Nat : a = SumFunctionOnSet(w, A) /\ b = SumFunctionOnSet(w, B)
    BY <2>11
  <2>14. SumFunctionOnSet(sums, 1..(k + 1)) = b + a
    BY <2>9, <2>10, <2>12, <2>13
  <2>15. SumFunctionOnSet(w, Gathered(parts, k + 1)) = a + b
    BY <2>6, <2>8, <2>13
  <2> QED
    BY <2>14, <2>15
<1> HIDE DEF T
<1>5. T = Nat
  BY <1>3, <1>4, SetInduction DEF T
<1>6. n \in T
  BY <1>5
<1> QED
  BY <1>6 DEF T

(* Counting is adding ones. *)
LEMMA SumOfOnes ==
    ASSUME NEW w, NEW S, IsFiniteSet(S), \A x \in S : w[x] = 1
    PROVE  SumFunctionOnSet(w, S) = Cardinality(S)
<1> DEFINE T == {n \in Nat : \A s \in SUBSET S : Cardinality(s) = n =>
                     SumFunctionOnSet(w, s) = Cardinality(s)}
<1>0. \A s \in SUBSET S : Counts(w, s) /\ IsFiniteSet(s) /\ Cardinality(s) \in Nat
  BY FS_Subset, FS_CardinalityType DEF Counts
<1>1. 0 \in T
  <2> SUFFICES ASSUME NEW s \in SUBSET S, Cardinality(s) = 0
               PROVE  SumFunctionOnSet(w, s) = Cardinality(s)
    OBVIOUS
  <2>1. s = {}
    BY <1>0, FS_EmptySet
  <2>2. SumFunctionOnSet(w, {}) = 0
    BY <1>0, SumIsNat
  <2> QED
    BY <2>1, <2>2
<1>2. ASSUME NEW n \in Nat, n \in T PROVE n + 1 \in T
  <2> SUFFICES ASSUME NEW s \in SUBSET S, Cardinality(s) = n + 1
               PROVE  SumFunctionOnSet(w, s) = Cardinality(s)
    OBVIOUS
  <2>1. s # {}
    BY FS_EmptySet
  <2>2. PICK x \in s : TRUE
    BY <2>1
  <2>3. s \ {x} \in SUBSET S /\ Cardinality(s \ {x}) = n
    <3>1. IsFiniteSet(s)
      BY <1>0
    <3>2. Cardinality(s \ {x}) = Cardinality(s) - 1
      BY <2>2, <3>1, FS_RemoveElement
    <3> QED
      BY <3>2
  <2>4. SumFunctionOnSet(w, s \ {x}) = n
    BY <1>2, <2>3
  <2>5. SumFunctionOnSet(w, s) = w[x] + SumFunctionOnSet(w, s \ {x})
    BY <1>0, <2>2, SumWithout
  <2>6. w[x] = 1
    BY <2>2
  <2> QED
    BY <2>4, <2>5, <2>6
<1> HIDE DEF T
<1>3. T = Nat
  BY <1>1, <1>2, SetInduction DEF T
<1>4. Cardinality(S) \in T /\ S \in SUBSET S
  BY <1>0, <1>3
<1> QED
  BY <1>4 DEF T

-----------------------------------------------------------------------------
(* Cells of a grid. *)
LEMMA Division ==
    ASSUME NEW g \in Nat \ {0}, NEW a \in Nat
    PROVE  /\ a = g * (a \div g) + (a % g)
           /\ a \div g \in Nat
           /\ a % g \in 0..(g - 1)
  BY SMT

LEMMA Between ==
    ASSUME NEW g \in Nat \ {0}, NEW q \in Int, NEW r \in Int,
           g * (q - r) > -g, g * (q - r) < g
    PROVE  q = r
  BY SMT

LEMMA CellUnder ==
    ASSUME NEW g \in Nat \ {0}, NEW a \in Nat, NEW c \in Nat, a < g * (c + 1)
    PROVE  a \div g <= c
<1>1. a = g * (a \div g) + (a % g) /\ a \div g \in Nat /\ a % g \in 0..(g - 1)
  BY Division
<1> SUFFICES ASSUME a \div g >= c + 1 PROVE FALSE
  BY <1>1
<1> DEFINE d == (a \div g) - (c + 1)
<1>2. d \in Nat /\ a \div g = (c + 1) + d
  BY <1>1
<1> HIDE DEF d
<1>3. g * ((c + 1) + d) = g * (c + 1) + g * d /\ g * d \in Nat /\ g * (c + 1) \in Nat
  BY <1>2, SMT
<1> QED
  BY <1>1, <1>2, <1>3

LEMMA CellsOn ==
    ASSUME NEW g \in Nat \ {0}, NEW b \in Nat, NEW c \in Nat
    PROVE  (g * (c + 1) + b) \div g = (c + 1) + (b \div g)
<1>1. PICK d \in Nat, e \in 0..(g - 1) : d = b \div g /\ b = g * d + e
  BY Division
<1>2. PICK a \in Nat : a = g * (c + 1) + b
  <2>1. g * (c + 1) \in Nat
    BY SMT
  <2> QED
    BY <2>1
<1>3. PICK q \in Nat, f \in 0..(g - 1) : q = a \div g /\ a = g * q + f
  BY Division
<1>4. g * ((c + 1) + d) = g * (c + 1) + g * d /\ g * d \in Nat /\ g * (c + 1) \in Nat
      /\ g * q \in Nat
  BY SMT
<1>5. g * q - g * ((c + 1) + d) = e - f
  BY <1>1, <1>2, <1>3, <1>4
<1>6. g * (q - ((c + 1) + d)) = g * q - g * ((c + 1) + d)
  BY SMT
<1>7. q = (c + 1) + d
  <2>1. g * (q - ((c + 1) + d)) > -g /\ g * (q - ((c + 1) + d)) < g
    BY <1>5, <1>6
  <2> QED
    BY <2>1, Between
<1> QED
  BY <1>1, <1>2, <1>3, <1>7

LEMMA CellsInOrder ==
    ASSUME NEW g \in Nat \ {0}, NEW a \in Nat, NEW b \in Nat, a <= b
    PROVE  a \div g <= b \div g
<1>1. b = g * (b \div g) + (b % g) /\ b \div g \in Nat /\ b % g \in 0..(g - 1)
  BY Division
<1>2. g * ((b \div g) + 1) = g * (b \div g) + g /\ g * (b \div g) \in Nat
  BY <1>1, SMT
<1>3. a < g * ((b \div g) + 1)
  BY <1>1, <1>2
<1> QED
  BY <1>1, <1>3, CellUnder

-----------------------------------------------------------------------------
(* The tape. *)
Events == [ts : Nat, touch : Touches]

TapeInv == /\ tape \in Seq(Events)
           /\ \A i, j \in DOMAIN tape : i <= j => tape[i].ts <= tape[j].ts
           /\ \A i \in DOMAIN tape : tape[i].ts >= Start

LEMMA EventTypes ==
    ASSUME TapeInv
    PROVE  \A i \in DOMAIN tape : tape[i].ts \in Nat /\ tape[i].touch \in Touches
<1>1. \A i \in DOMAIN tape : tape[i] \in Events
  BY DEF TapeInv
<1> QED
  BY <1>1 DEF Events

LEMMA Observed ==
    ASSUME TapeInv, NEW ts \in Times, NEW touch \in Touches, Observe(ts, touch)
    PROVE  /\ ts \in Nat /\ ts >= Start /\ Len(tape) \in Nat /\ Len(tape') = Len(tape) + 1
           /\ \A i \in DOMAIN tape : i \in DOMAIN tape' /\ tape'[i] = tape[i] /\ tape[i].ts <= ts
           /\ Len(tape) + 1 \in DOMAIN tape'
           /\ DOMAIN tape' = DOMAIN tape \cup {Len(tape) + 1}
           /\ DOMAIN tape = 1..Len(tape)
           /\ tape'[Len(tape) + 1] = [ts |-> ts, touch |-> touch]
           /\ TapeInv'
<1>1. tape \in Seq(Events) /\ Len(tape) \in Nat /\ DOMAIN tape = 1..Len(tape)
  BY DEF TapeInv
<1>2. ts \in Nat /\ ts >= Start /\ \A i \in DOMAIN tape : tape[i].ts <= ts
  <2>1. CASE tape = << >>
    BY <1>1, <2>1, ReplayAssumption DEF Times
  <2>2. CASE tape # << >>
    <3>1. Len(tape) \in DOMAIN tape
      BY <1>1, <2>2
    <3>0. \A i \in DOMAIN tape : tape[i].ts \in Nat
      BY EventTypes
    <3>2. PICK elapsed \in Elapsed : ts = tape[Len(tape)].ts + elapsed
      BY <2>2 DEF Times, Last
    <3>3. elapsed \in Nat /\ Start \in Nat
      BY ReplayAssumption
    <3>4. tape[Len(tape)].ts \in Nat /\ tape[Len(tape)].ts >= Start
      BY <1>1, <3>0, <3>1 DEF TapeInv
    <3>5. \A i \in DOMAIN tape : tape[i].ts <= tape[Len(tape)].ts
      BY <1>1, <3>1 DEF TapeInv
    <3> QED
      BY <3>0, <3>2, <3>3, <3>4, <3>5
  <2> QED
    BY <2>1, <2>2
<1>3. PICK e : e = [ts |-> ts, touch |-> touch]
  OBVIOUS
<1>4. e \in Events /\ e.ts = ts /\ tape' = Append(tape, e)
  BY <1>2, <1>3 DEF Observe, Events
<1>5. /\ tape' \in Seq(Events) /\ Len(tape') = Len(tape) + 1
      /\ DOMAIN tape' = 1..(Len(tape) + 1)
      /\ \A i \in DOMAIN tape : tape'[i] = tape[i]
      /\ tape'[Len(tape) + 1] = e
  BY <1>1, <1>4
<1>6. DOMAIN tape' = DOMAIN tape \cup {Len(tape) + 1}
  BY <1>1, <1>5
<1>7. TapeInv'
  <2>1. \A i, j \in DOMAIN tape' : i <= j => tape'[i].ts <= tape'[j].ts
    <3> SUFFICES ASSUME NEW i \in DOMAIN tape', NEW j \in DOMAIN tape', i <= j
                 PROVE  tape'[i].ts <= tape'[j].ts
      OBVIOUS
    <3>1. CASE j \in DOMAIN tape
      <4>1. i \in DOMAIN tape
        BY <1>1, <1>5, <3>1
      <4> QED
        BY <1>5, <3>1, <4>1 DEF TapeInv
    <3>2. CASE j = Len(tape) + 1
      <4>1. CASE i \in DOMAIN tape
        BY <1>2, <1>4, <1>5, <3>2, <4>1
      <4>2. CASE i = Len(tape) + 1
        BY <1>2, <1>4, <1>5, <3>2, <4>2
      <4> QED
        BY <1>6, <4>1, <4>2
    <3> QED
      BY <1>6, <3>1, <3>2
  <2>2. \A i \in DOMAIN tape' : tape'[i].ts >= Start
    BY <1>2, <1>4, <1>5, <1>6 DEF TapeInv
  <2> QED
    BY <1>5, <2>1, <2>2 DEF TapeInv
<1> QED
  BY <1>1, <1>2, <1>3, <1>5, <1>6, <1>7

LEMMA ObservedQuoted ==
    ASSUME TapeInv, NEW ts \in Times, NEW touch \in Touches, Observe(ts, touch)
    PROVE  Quoted' = IF Valid(touch) THEN Quoted \cup {Len(tape) + 1} ELSE Quoted
<1>1. /\ \A i \in DOMAIN tape : tape'[i] = tape[i]
      /\ DOMAIN tape' = DOMAIN tape \cup {Len(tape) + 1}
      /\ tape'[Len(tape) + 1] = [ts |-> ts, touch |-> touch]
      /\ DOMAIN tape = 1..Len(tape) /\ Len(tape) \in Nat
  BY Observed
<1>2. \A i \in DOMAIN tape : Valid(tape'[i].touch) <=> Valid(tape[i].touch)
  BY <1>1
<1>3. Quoted' = {i \in DOMAIN tape' : Valid(tape'[i].touch)}
  BY DEF Quoted, Valid
<1> QED
  BY <1>1, <1>2, <1>3 DEF Quoted

LEMMA FirstIs ==
    ASSUME NEW S, S \subseteq Nat, NEW m \in S, \A j \in S : m <= j
    PROVE  Min(S) = m
<1> DEFINE P(x) == x \in S /\ \A y \in S : x <= y
<1>1. P(m)
  OBVIOUS
<1>2. Min(S) = CHOOSE x : P(x)
  BY DEF Min
<1>3. PICK n : n = Min(S)
  OBVIOUS
<1>4. P(n)
  BY <1>1, <1>2, <1>3
<1>5. n \in Nat /\ m \in Nat /\ n <= m /\ m <= n
  BY <1>1, <1>4
<1> QED
  BY <1>3, <1>5

LEMMA LastIs ==
    ASSUME NEW S, S \subseteq Nat, NEW m \in S, \A j \in S : j <= m
    PROVE  Max(S) = m
<1> DEFINE P(x) == x \in S /\ \A y \in S : x >= y
<1>1. P(m)
  OBVIOUS
<1>2. Max(S) = CHOOSE x : P(x)
  BY DEF Max
<1>3. PICK n : n = Max(S)
  OBVIOUS
<1>4. P(n)
  BY <1>1, <1>2, <1>3
<1>5. n \in Nat /\ m \in Nat /\ n <= m /\ m <= n
  BY <1>1, <1>4
<1> QED
  BY <1>3, <1>5

-----------------------------------------------------------------------------
(* The grid.  The next sample is due at the end of the last cell an event fell in. *)
CellFrom(m, i) == (tape[i].ts - tape[m].ts) \div grid_ns

First(m) == m \in Quoted /\ \A j \in Quoted : m <= j

Firsts == {i \in Quoted : /\ Cell(i) > 0
                          /\ \A j \in Quoted : j < i => Cell(j) < Cell(i)}

Due(m, c) == /\ next_sample = tape[m].ts + grid_ns * (c + 1)
             /\ \A j \in Quoted : CellFrom(m, j) <= c
             /\ \E j \in Quoted : CellFrom(m, j) = c

GridInv == /\ samples \in Seq(Nat)
           /\ \A i \in DOMAIN samples : samples[i] <= Len(tape)
           /\ \A i \in 1..(Len(samples) - 1) : samples[i] < samples[i + 1]
           /\ ToSet(samples) = Firsts
           /\ Quoted = {} => next_sample = 0
           /\ Quoted # {} => \E m \in Quoted, c \in Nat : First(m) /\ Due(m, c)

LEMMA QuotedIs == ASSUME TapeInv
                  PROVE  Quoted \subseteq DOMAIN tape /\ DOMAIN tape = 1..Len(tape)
                         /\ Len(tape) \in Nat /\ Quoted \subseteq Nat
<1>1. DOMAIN tape = 1..Len(tape) /\ Len(tape) \in Nat
  BY DEF TapeInv
<1>2. Quoted \subseteq DOMAIN tape
  BY DEF Quoted
<1> QED
  BY <1>1, <1>2

LEMMA CellIs ==
    ASSUME TapeInv, NEW m, First(m), NEW i
    PROVE  Cell(i) = CellFrom(m, i)
<1>1. Min(Quoted) = m
  BY QuotedIs, FirstIs DEF First
<1> QED
  BY <1>1 DEF Cell, CellFrom

LEMMA CellType ==
    ASSUME TapeInv, NEW m, First(m), NEW i \in Quoted
    PROVE  /\ tape[i].ts \in Nat /\ tape[m].ts \in Nat /\ tape[m].ts <= tape[i].ts
           /\ CellFrom(m, i) \in Nat
<1>1. m \in DOMAIN tape /\ i \in DOMAIN tape /\ m <= i
  BY QuotedIs DEF First
<1>2. tape[i].ts \in Nat /\ tape[m].ts \in Nat /\ tape[m].ts <= tape[i].ts
  BY <1>1, EventTypes DEF TapeInv
<1>3. PICK a \in Nat : a = tape[i].ts - tape[m].ts
  BY <1>2
<1>4. a \div grid_ns \in Nat
  BY Division, ReplayAssumption
<1> QED
  BY <1>2, <1>3, <1>4 DEF CellFrom

(* What an event does to the cells: those of the events before it stay, and the cell *)
(* of the event itself is told from the first event that left a touch.               *)
LEMMA CellsKept ==
    ASSUME TapeInv, NEW ts \in Times, NEW touch \in Touches, Observe(ts, touch),
           NEW m, First(m), NEW n, n = Len(tape) + 1
    PROVE  /\ First(m)'
           /\ \A i \in Quoted : CellFrom(m, i)' = CellFrom(m, i) /\ i # n
           /\ \A i : Cell(i)' = CellFrom(m, i)'
           /\ \A i \in Quoted : (i \in Firsts)' <=> i \in Firsts
           /\ CellFrom(m, n)' = (ts - tape[m].ts) \div grid_ns
           /\ tape'[m] = tape[m]
<1>1. /\ \A i \in DOMAIN tape : tape'[i] = tape[i]
      /\ tape'[n] = [ts |-> ts, touch |-> touch]
      /\ DOMAIN tape' = DOMAIN tape \cup {n} /\ DOMAIN tape = 1..Len(tape)
      /\ Len(tape) \in Nat
  BY Observed
<1>2. Quoted' = Quoted \/ Quoted' = Quoted \cup {n}
  BY ObservedQuoted
<1>3. m \in Quoted /\ m \in DOMAIN tape /\ Quoted \subseteq DOMAIN tape /\ n \notin Quoted
      /\ \A i \in Quoted : m <= i /\ i < n
  BY <1>1, QuotedIs DEF First
<1>4. m <= n /\ n \in Nat /\ Quoted \subseteq Nat /\ Quoted' \subseteq Nat
  BY <1>1, <1>2, <1>3
<1>5. First(m)'
  BY <1>2, <1>3, <1>4 DEF First
<1>6. \A i \in Quoted : CellFrom(m, i)' = CellFrom(m, i)
  BY <1>1, <1>3 DEF CellFrom
<1>7. Min(Quoted') = m
  <2>1. m \in Quoted' /\ \A j \in Quoted' : m <= j
    BY <1>5 DEF First
  <2>2. PICK S : S = Quoted'
    OBVIOUS
  <2>3. Min(S) = m
    BY <1>4, <2>1, <2>2, FirstIs
  <2> QED
    BY <2>2, <2>3
<1>8. \A i : Cell(i)' = CellFrom(m, i)'
  BY <1>7 DEF Cell, CellFrom
<1>9. ASSUME NEW i \in Quoted PROVE (i \in Firsts)' <=> i \in Firsts
  <2>1. i \in Quoted'
    BY <1>2
  <2>2. \A j \in Quoted' : j < i <=> j \in Quoted /\ j < i
    BY <1>2, <1>3, <1>4
  <2>3. Quoted \subseteq Quoted'
    BY <1>2
  <2>4. \A j \in Quoted : Cell(j)' = Cell(j)
    <3> SUFFICES ASSUME NEW j \in Quoted PROVE Cell(j)' = Cell(j)
      OBVIOUS
    <3>1. Cell(j) = CellFrom(m, j)
      BY CellIs
    <3> QED
      BY <1>6, <1>8, <3>1
  <2>5. (i \in Firsts)' <=> /\ Cell(i)' > 0
                            /\ \A j \in Quoted' : j < i => Cell(j)' < Cell(i)'
    BY <2>1 DEF Firsts
  <2> QED
    BY <2>2, <2>3, <2>4, <2>5 DEF Firsts
<1>10. CellFrom(m, n)' = (ts - tape[m].ts) \div grid_ns
  <2>1. tape'[n].ts = ts /\ tape'[m] = tape[m]
    BY <1>1, <1>3
  <2> QED
    BY <2>1 DEF CellFrom
<1> QED
  BY <1>1, <1>3, <1>5, <1>6, <1>8, <1>9, <1>10

LEMMA AfterNone ==
    ASSUME TapeInv, GridInv, NEW ts \in Times, NEW touch \in Touches, Observe(ts, touch),
           ~Valid(touch)
    PROVE  GridInv'
<1>1. samples' = samples /\ next_sample' = next_sample /\ Quoted' = Quoted
  BY ObservedQuoted DEF Observe, TakeSample
<1>2. Len(tape') = Len(tape) + 1 /\ Len(tape) \in Nat /\ samples \in Seq(Nat)
  BY Observed DEF GridInv
<1>3. \A i \in DOMAIN samples : samples[i] <= Len(tape')
  BY <1>2 DEF GridInv
<1>4. CASE Quoted = {}
  <2>1. Firsts = {} /\ Firsts' = {}
    BY <1>1, <1>4 DEF Firsts
  <2> QED
    BY <1>1, <1>2, <1>3, <1>4, <2>1 DEF GridInv
<1>5. CASE Quoted # {}
  <2>1. PICK m \in Quoted, c \in Nat : First(m) /\ Due(m, c)
    BY <1>5 DEF GridInv
  <2>2. First(m)' /\ (\A i \in Quoted : CellFrom(m, i)' = CellFrom(m, i)) /\ tape'[m] = tape[m]
    BY <2>1, CellsKept
  <2>3. \A i \in Quoted : (i \in Firsts)' <=> i \in Firsts
    BY <2>1, CellsKept
  <2>4. Firsts' = Firsts
    <3>1. Firsts \subseteq Quoted /\ Firsts' \subseteq Quoted'
      BY DEF Firsts
    <3> QED
      BY <1>1, <2>3, <3>1
  <2>5. Due(m, c)'
    BY <1>1, <2>1, <2>2 DEF Due
  <2> QED
    BY <1>1, <1>2, <1>3, <1>5, <2>2, <2>4, <2>5 DEF GridInv
<1> QED
  BY <1>4, <1>5

LEMMA AfterFirst ==
    ASSUME TapeInv, GridInv, NEW ts \in Times, NEW touch \in Touches, Observe(ts, touch),
           Valid(touch), Quoted = {}
    PROVE  GridInv'
<1> PICK n : n = Len(tape) + 1
  OBVIOUS
<1>0. /\ ts \in Nat /\ grid_ns \in Nat \ {0} /\ Len(tape) \in Nat /\ Len(tape') = Len(tape) + 1
      /\ tape'[n] = [ts |-> ts, touch |-> touch] /\ samples \in Seq(Nat)
  BY Observed, ReplayAssumption DEF GridInv
<1>1. Quoted' = {n}
  BY ObservedQuoted
<1>2. next_sample = 0
  BY DEF GridInv
<1>3. samples' = samples /\ next_sample' = ts + grid_ns
  BY <1>0, <1>2 DEF Observe, TakeSample
<1>4. CellFrom(n, n)' = 0
  <2>1. tape'[n].ts - tape'[n].ts = 0
    BY <1>0
  <2>2. 0 \div grid_ns = 0
    BY <1>0, SMT
  <2> QED
    BY <2>1, <2>2 DEF CellFrom
<1>5. First(n)'
  BY <1>0, <1>1 DEF First
<1>6. Min(Quoted') = n
  <2>1. PICK S : S = Quoted'
    OBVIOUS
  <2>2. S \subseteq Nat /\ n \in S /\ \A j \in S : n <= j
    BY <1>0, <1>1, <2>1
  <2>3. Min(S) = n
    BY <2>2, FirstIs
  <2> QED
    BY <2>1, <2>3
<1>7. Cell(n)' = 0
  BY <1>4, <1>6 DEF Cell, CellFrom
<1>8. Firsts = {} /\ Firsts' = {}
  BY <1>1, <1>7 DEF Firsts
<1>9. Due(n, 0)'
  <2>1. tape'[n].ts = ts /\ grid_ns * (0 + 1) = grid_ns
    BY <1>0
  <2>2. next_sample' = tape'[n].ts + grid_ns * (0 + 1)
    BY <1>3, <2>1
  <2> QED
    BY <1>1, <1>4, <2>2 DEF Due
<1>10. \A i \in DOMAIN samples : samples[i] <= Len(tape')
  BY <1>0 DEF GridInv
<1>11. \E m \in Quoted', c \in Nat : First(m)' /\ Due(m, c)'
  BY <1>1, <1>5, <1>9
<1> QED
  BY <1>0, <1>1, <1>3, <1>8, <1>10, <1>11 DEF GridInv

LEMMA AfterLater ==
    ASSUME TapeInv, GridInv, NEW ts \in Times, NEW touch \in Touches, Observe(ts, touch),
           Valid(touch), Quoted # {}
    PROVE  GridInv'
<1> PICK n : n = Len(tape) + 1
  OBVIOUS
<1>0. /\ ts \in Nat /\ grid_ns \in Nat \ {0} /\ Len(tape) \in Nat /\ Len(tape') = Len(tape) + 1
      /\ samples \in Seq(Nat) /\ Start \in Nat \ {0}
      /\ \A i \in DOMAIN tape : tape[i].ts <= ts
  BY Observed, ReplayAssumption DEF GridInv
<1>1. Quoted' = Quoted \cup {n}
  BY ObservedQuoted
<1>2. PICK m \in Quoted, c \in Nat : First(m) /\ Due(m, c)
  BY DEF GridInv
<1>3. /\ First(m)' /\ tape'[m] = tape[m]
      /\ \A i \in Quoted : CellFrom(m, i)' = CellFrom(m, i) /\ i # n
      /\ \A i : Cell(i)' = CellFrom(m, i)'
      /\ CellFrom(m, n)' = (ts - tape[m].ts) \div grid_ns
  BY <1>2, CellsKept
<1>4. \A i \in Quoted : (i \in Firsts)' <=> i \in Firsts
  BY <1>2, CellsKept
<1>5. m \in DOMAIN tape /\ \A i \in Quoted : i \in Nat /\ i <= Len(tape) /\ i < n
  BY <1>0, <1>2, QuotedIs
<1>6. PICK t \in Nat : t = tape[m].ts /\ t >= Start /\ t <= ts
  BY <1>0, <1>5, EventTypes DEF TapeInv
<1>7. PICK a \in Nat : a = ts - t
  BY <1>0, <1>6
<1>8. PICK g \in Nat : g = grid_ns * (c + 1)
  <2>1. grid_ns * (c + 1) \in Nat
    BY <1>0, SMT
  <2> QED
    BY <2>1
<1>9. next_sample = t + g /\ next_sample # 0 /\ CellFrom(m, n)' = a \div grid_ns
  <2>1. next_sample = t + g
    BY <1>2, <1>6, <1>8 DEF Due
  <2>2. t + g # 0
    BY <1>0, <1>6
  <2>3. CellFrom(m, n)' = a \div grid_ns
    BY <1>3, <1>6, <1>7
  <2> QED
    BY <2>1, <2>2, <2>3
<1>10. PICK k \in Quoted : CellFrom(m, k) = c
  BY <1>2 DEF Due
<1>11. \A i \in Quoted : CellFrom(m, i) <= c /\ CellFrom(m, i) \in Nat
  BY <1>2, CellType DEF Due
<1>12. Firsts \subseteq Quoted /\ Firsts' \subseteq Quoted'
  BY DEF Firsts
<1>13. (n \in Firsts)' <=> /\ CellFrom(m, n)' > 0
                           /\ \A j \in Quoted : CellFrom(m, j) < CellFrom(m, n)'
  <2>1. (n \in Firsts)' <=> /\ Cell(n)' > 0
                            /\ \A j \in Quoted' : j < n => Cell(j)' < Cell(n)'
    BY <1>1 DEF Firsts
  <2>2. \A j \in Quoted' : j < n <=> j \in Quoted
    BY <1>0, <1>1, <1>5
  <2>3. Quoted \subseteq Quoted'
    BY <1>1
  <2> QED
    BY <1>3, <2>1, <2>2, <2>3
<1>14. CASE ts < next_sample
  <2>1. samples' = samples /\ next_sample' = next_sample
    BY <1>9, <1>14 DEF Observe, TakeSample
  <2>2. CellFrom(m, n)' <= c /\ CellFrom(m, n)' \in Nat
    <3>0. a < g
      <4>1. ts < t + g
        BY <1>9, <1>14
      <4>2. a = ts - t /\ ts \in Nat
        BY <1>0, <1>7
      <4> QED
        BY <4>1, <4>2
    <3>1. a < grid_ns * (c + 1)
      BY <1>8, <3>0
    <3>2. a \div grid_ns <= c /\ a \div grid_ns \in Nat
      BY <1>0, <3>1, CellUnder, Division
    <3> QED
      BY <1>9, <3>2
  <2>3. ~(n \in Firsts)'
    <3>1. ~(CellFrom(m, k) < CellFrom(m, n)')
      BY <1>10, <2>2
    <3> QED
      BY <1>10, <1>13, <3>1
  <2>4. Firsts' = Firsts
    BY <1>1, <1>4, <1>12, <2>3
  <2>5. Due(m, c)'
    <3>1. \A j \in Quoted' : CellFrom(m, j)' <= c
      BY <1>1, <1>3, <1>11, <2>2
    <3>2. k \in Quoted' /\ CellFrom(m, k)' = c
      BY <1>1, <1>3, <1>10
    <3>3. next_sample' = tape'[m].ts + grid_ns * (c + 1)
      BY <1>2, <1>3, <2>1 DEF Due
    <3> QED
      BY <3>1, <3>2, <3>3 DEF Due
  <2>6. \A i \in DOMAIN samples : samples[i] <= Len(tape')
    BY <1>0 DEF GridInv
  <2>7. \E x \in Quoted', y \in Nat : First(x)' /\ Due(x, y)'
    BY <1>1, <1>3, <2>5
  <2> QED
    BY <1>1, <2>1, <2>4, <2>6, <2>7 DEF GridInv
<1>15. CASE ts >= next_sample
  <2>1. PICK b \in Nat : b = ts - next_sample
    BY <1>0, <1>6, <1>8, <1>9, <1>15
  <2>2. PICK e \in Nat : e = b \div grid_ns
    BY <1>0, Division
  <2>3. PICK d \in Nat : d = (c + 1) + e
    OBVIOUS
  <2>4. samples' = Append(samples, n) /\ next_sample' = next_sample + grid_ns * (e + 1)
    <3>1. ~(ts < next_sample)
      BY <1>0, <1>6, <1>8, <1>9, <1>15
    <3> QED
      BY <1>9, <2>1, <2>2, <3>1 DEF Observe, TakeSample, NextDue
  <2>5. CellFrom(m, n)' = d
    <3>1. (grid_ns * (c + 1) + b) \div grid_ns = (c + 1) + (b \div grid_ns)
      BY <1>0, CellsOn
    <3>2. a = g + b
      <4>1. ts \in Nat /\ next_sample = t + g
        BY <1>0, <1>9
      <4> QED
        BY <1>7, <2>1, <4>1
    <3> QED
      BY <1>8, <1>9, <2>2, <2>3, <3>1, <3>2
  <2>6. Due(m, d)'
    <3>1. \A j \in Quoted' : CellFrom(m, j)' <= d
      BY <1>1, <1>3, <1>11, <2>3, <2>5
    <3>2. n \in Quoted'
      BY <1>1
    <3>3. next_sample' = tape'[m].ts + grid_ns * (d + 1)
      <4>1. grid_ns * (((c + 1) + e) + 1) = grid_ns * (c + 1) + grid_ns * (e + 1)
        BY <1>0, SMT
      <4>2. PICK f \in Nat : f = grid_ns * (e + 1)
        <5>1. grid_ns * (e + 1) \in Nat
          BY <1>0, SMT
        <5> QED
          BY <5>1
      <4>3. grid_ns * (d + 1) = g + f
        BY <1>8, <2>3, <4>1, <4>2
      <4>4. next_sample' = t + (g + f)
        BY <1>9, <2>4, <4>2
      <4> QED
        BY <1>3, <1>6, <4>3, <4>4
    <3> QED
      BY <2>5, <3>1, <3>2, <3>3 DEF Due
  <2>7. Firsts' = Firsts \cup {n}
    <3>1. (n \in Firsts)'
      BY <1>11, <1>13, <2>3, <2>5
    <3> QED
      BY <1>1, <1>4, <1>12, <3>1
  <2>8. /\ samples' \in Seq(Nat) /\ Len(samples') = Len(samples) + 1
        /\ DOMAIN samples' = 1..(Len(samples) + 1) /\ DOMAIN samples = 1..Len(samples)
        /\ \A i \in DOMAIN samples : samples'[i] = samples[i]
        /\ samples'[Len(samples) + 1] = n
        /\ Len(samples) \in Nat
    BY <1>0, <2>4
  <2>9. ToSet(samples') = ToSet(samples) \cup {n}
    <3>1. ToSet(samples') = {samples'[i] : i \in DOMAIN samples'}
          /\ ToSet(samples) = {samples[i] : i \in DOMAIN samples}
      BY DEF ToSet
    <3>2. DOMAIN samples' = DOMAIN samples \cup {Len(samples) + 1}
      BY <2>8
    <3> QED
      BY <2>8, <3>1, <3>2
  <2>10. \A i \in DOMAIN samples : samples[i] <= Len(tape) /\ samples[i] \in Nat
    BY <1>0 DEF GridInv
  <2>11. \A i \in DOMAIN samples' : samples'[i] <= Len(tape')
    <3>1. \A i \in DOMAIN samples : samples'[i] <= Len(tape')
      <4>1. \A i \in DOMAIN samples : samples'[i] \in Nat /\ samples'[i] <= Len(tape)
        BY <2>8, <2>10
      <4> QED
        BY <1>0, <4>1
    <3>2. samples'[Len(samples) + 1] <= Len(tape')
      BY <1>0, <2>8
    <3>3. \A i \in DOMAIN samples' : i \in DOMAIN samples \/ i = Len(samples) + 1
      BY <2>8
    <3> QED
      BY <3>1, <3>2, <3>3
  <2>12. \A i \in 1..(Len(samples') - 1) : samples'[i] < samples'[i + 1]
    <3> SUFFICES ASSUME NEW i \in 1..Len(samples) PROVE samples'[i] < samples'[i + 1]
      BY <2>8
    <3>1. CASE i = Len(samples)
      BY <1>0, <2>8, <2>10, <3>1
    <3>2. CASE i # Len(samples)
      <4>0. Len(samples) \in Nat /\ DOMAIN samples = 1..Len(samples)
        BY <2>8
      <4>2. PICK l \in Nat : l = Len(samples)
        BY <4>0
      <4>3. i \in 1..l /\ i # l
        BY <3>2, <4>2
      <4>4. i \in 1..(l - 1) /\ i + 1 \in 1..l
        BY <4>3
      <4>1. i \in 1..(Len(samples) - 1) /\ i \in DOMAIN samples /\ i + 1 \in DOMAIN samples
        BY <4>0, <4>2, <4>3, <4>4
      <4> QED
        BY <2>8, <4>1 DEF GridInv
    <3> QED
      BY <3>1, <3>2
  <2>13. \E x \in Quoted', y \in Nat : First(x)' /\ Due(x, y)'
    BY <1>1, <1>3, <2>6
  <2>14. ToSet(samples') = Firsts'
    BY <2>7, <2>9 DEF GridInv
  <2> QED
    BY <1>1, <2>8, <2>11, <2>12, <2>13, <2>14 DEF GridInv
<1> QED
  BY <1>0, <1>6, <1>8, <1>9, <1>14, <1>15, SMTT(30)

(* In the second pass the tape stays as it is. *)
Kept == <<tape, mids, last_mid, samples, next_sample>>

LEMMA AfterKept ==
    ASSUME TapeInv, GridInv, UNCHANGED Kept
    PROVE  TapeInv' /\ GridInv'
<1>1. tape' = tape /\ samples' = samples /\ next_sample' = next_sample
  BY DEF Kept
<1>2. Quoted' = Quoted /\ Firsts' = Firsts
  BY <1>1 DEF Quoted, Firsts, Cell
<1>3. \A m, c : First(m)' = First(m) /\ Due(m, c)' = Due(m, c)
  BY <1>1, <1>2 DEF First, Due, CellFrom
<1>4. TapeInv'
  BY <1>1 DEF TapeInv
<1>5. GridInv'
  BY <1>1, <1>2, <1>3 DEF GridInv
<1> QED
  BY <1>4, <1>5

-----------------------------------------------------------------------------
(* The mids.  The k-th was recorded at the k-th event that changed it, and stands until *)
(* the next of those.                                                                   *)
LEMMA GreatestNat ==
    ASSUME NEW n \in Nat, NEW S, S \subseteq 0..n, S # {}
    PROVE  /\ Max(S) \in S /\ \A j \in S : j <= Max(S)
           /\ Max(S) \in Nat
<1> DEFINE T == {n - j : j \in S}
<1>0. \A j \in S : j \in Nat /\ n - j \in Nat
  <2> SUFFICES ASSUME NEW j \in S PROVE j \in Nat /\ n - j \in Nat
    OBVIOUS
  <2>1. j \in 0..n
    OBVIOUS
  <2> QED
    BY <2>1
<1>1. T \in SUBSET Nat /\ T # {}
  BY <1>0
<1>2. PICK k \in T : \A l \in T : k <= l
  BY <1>1, LeastNat
<1>3. PICK m \in S : k = n - m
  BY <1>2
<1>4. \A j \in S : j \in Nat /\ j <= m
  <2> SUFFICES ASSUME NEW j \in S PROVE j \in Nat /\ j <= m
    OBVIOUS
  <2>1. n - m <= n - j
    BY <1>2, <1>3
  <2>2. j \in 0..n /\ m \in 0..n
    OBVIOUS
  <2> QED
    BY <2>1, <2>2
<1>5. Max(S) = m
  BY <1>4, LastIs
<1> QED
  BY <1>4, <1>5

LEMMA MidType ==
    ASSUME NEW touch \in Touches
    PROVE  Mid(touch) \in Nat
<1>1. touch \in [bid_px : Nat, ask_px : Nat, bid_qty : Nat, ask_qty : Nat]
  BY ReplayAssumption
<1>2. touch.bid_px \in Nat /\ touch.ask_px \in Nat
  BY <1>1
<1> QED
  BY <1>2 DEF Mid

MidAtEvent(i) == Mid(tape[i].touch)

Standing(pos, k, i) ==
    /\ pos[k] <= i
    /\ k + 1 \in DOMAIN mids => i < pos[k + 1]
    /\ MidAtEvent(i) = mids[k].mid

Recorded(pos) ==
    /\ pos \in [DOMAIN mids -> Quoted]
    /\ \A k \in DOMAIN mids : mids[k].ts = tape[pos[k]].ts /\ mids[k].mid = MidAtEvent(pos[k])
    /\ \A k, l \in DOMAIN mids : k < l => pos[k] < pos[l]
    /\ \A i \in Quoted : \E k \in DOMAIN mids : Standing(pos, k, i)
    /\ \A i \in Quoted : i \in Changes <=> \E k \in DOMAIN mids : i = pos[k]

MidSample == [ts : Nat, mid : Nat]

MidsInv ==
    /\ mids \in Seq(MidSample)
    /\ mids = << >> => last_mid = -1
    /\ mids # << >> => last_mid = mids[Len(mids)].mid
    /\ \E pos : Recorded(pos)

LEMMA MidsType ==
    ASSUME MidsInv
    PROVE  /\ Len(mids) \in Nat /\ DOMAIN mids = 1..Len(mids)
           /\ \A k \in DOMAIN mids : mids[k].ts \in Nat /\ mids[k].mid \in Nat
<1>1. \A k \in DOMAIN mids : mids[k] \in MidSample
  BY DEF MidsInv
<1>2. Len(mids) \in Nat /\ DOMAIN mids = 1..Len(mids)
  BY DEF MidsInv
<1> QED
  BY <1>1, <1>2 DEF MidSample

LEMMA QuotedMax ==
    ASSUME TapeInv, NEW S, S \subseteq Quoted, S # {}
    PROVE  Max(S) \in S /\ (\A j \in S : j <= Max(S)) /\ Max(S) \in Nat
<1>1. S \subseteq 0..Len(tape) /\ Len(tape) \in Nat
  BY QuotedIs
<1> QED
  BY <1>1, GreatestNat

LEMMA LastMidIs ==
    ASSUME TapeInv, MidsInv, Quoted # {}
    PROVE  mids # << >> /\ MidAtEvent(Max(Quoted)) = last_mid
<1>1. PICK pos : Recorded(pos)
  BY DEF MidsInv
<1>2. PICK q \in Quoted : q = Max(Quoted) /\ q \in Nat /\ \A j \in Quoted : j <= q /\ j \in Nat
  BY QuotedMax, QuotedIs
<1>3. PICK k \in DOMAIN mids : Standing(pos, k, q)
  BY <1>1, <1>2 DEF Recorded
<1>4. PICK l \in Nat : l = Len(mids) /\ DOMAIN mids = 1..l
  BY MidsType
<1>5. k = l
  <2> SUFFICES ASSUME k # l PROVE FALSE
    OBVIOUS
  <2>1. k + 1 \in DOMAIN mids
    BY <1>3, <1>4
  <2>2. PICK x \in Quoted : x = pos[k + 1]
    BY <1>1, <2>1 DEF Recorded
  <2>3. q < x
    BY <1>3, <2>1, <2>2 DEF Standing
  <2>4. x <= q /\ x \in Nat
    BY <1>2
  <2> QED
    BY <1>2, <2>3, <2>4
<1>6. mids # << >>
  BY <1>3
<1> QED
  BY <1>2, <1>3, <1>4, <1>5, <1>6 DEF Standing, MidsInv

LEMMA ChangesKept ==
    ASSUME TapeInv, NEW ts \in Times, NEW touch \in Touches, Observe(ts, touch),
           NEW n, n = Len(tape) + 1
    PROVE  /\ \A i \in Quoted : (i \in Changes)' <=> i \in Changes
           /\ \A i \in Quoted : MidAtEvent(i)' = MidAtEvent(i) /\ i < n /\ i \in Nat
           /\ MidAtEvent(n)' = Mid(touch)
           /\ tape'[n].ts = ts
           /\ Valid(touch) => ((n \in Changes)' <=> \/ Quoted = {}
                                                    \/ MidAtEvent(Max(Quoted)) # Mid(touch))
<1>1. /\ \A i \in DOMAIN tape : tape'[i] = tape[i]
      /\ tape'[n] = [ts |-> ts, touch |-> touch]
      /\ Len(tape) \in Nat
  BY Observed
<1>2. Quoted' = IF Valid(touch) THEN Quoted \cup {n} ELSE Quoted
  BY ObservedQuoted
<1>3. \A i \in Quoted : i \in DOMAIN tape /\ i < n /\ i \in Nat
  BY <1>1, QuotedIs
<1>4. \A i \in Quoted : MidAtEvent(i)' = MidAtEvent(i)
  BY <1>1, <1>3 DEF MidAtEvent, Mid
<1>5. MidAtEvent(n)' = Mid(touch)
  <2>1. tape'[n].touch = touch
    BY <1>1
  <2> QED
    BY <2>1 DEF MidAtEvent, Mid
<1>6. ASSUME NEW i \in Quoted'
      PROVE  (i \in Changes)' <=> LET before == {j \in Quoted : j < i} IN
                                  before = {} \/ MidAtEvent(Max(before)) # MidAtEvent(i)'
  <2>1. PICK before : before = {j \in Quoted : j < i}
    OBVIOUS
  <2>2. {j \in Quoted' : j < i} = before
    BY <1>1, <1>2, <1>3, <2>1
  <2>3. (i \in Changes)' <=> before = {} \/ MidAtEvent(Max(before))' # MidAtEvent(i)'
    BY <2>2 DEF Changes, MidAtEvent, Mid
  <2>4. before # {} => MidAtEvent(Max(before))' = MidAtEvent(Max(before))
    <3> SUFFICES ASSUME before # {} PROVE MidAtEvent(Max(before))' = MidAtEvent(Max(before))
      OBVIOUS
    <3>1. Max(before) \in Quoted
      BY <2>1, QuotedMax
    <3> QED
      BY <1>4, <3>1
  <2> QED
    BY <2>1, <2>3, <2>4
<1>7. ASSUME NEW i \in Quoted PROVE (i \in Changes)' <=> i \in Changes
  <2>1. i \in Quoted'
    BY <1>2
  <2>2. i \in Changes <=> LET before == {j \in Quoted : j < i} IN
                          before = {} \/ MidAtEvent(Max(before)) # MidAtEvent(i)
    BY DEF Changes, MidAtEvent
  <2> QED
    BY <1>4, <1>6, <2>1, <2>2
<1>8. ASSUME Valid(touch)
      PROVE  (n \in Changes)' <=> Quoted = {} \/ MidAtEvent(Max(Quoted)) # Mid(touch)
  <2>1. n \in Quoted'
    BY <1>2, <1>8
  <2>2. {j \in Quoted : j < n} = Quoted
    BY <1>3
  <2> QED
    BY <1>5, <1>6, <2>1, <2>2
<1>9. tape'[n].ts = ts
  BY <1>1
<1> QED
  BY <1>3, <1>4, <1>5, <1>7, <1>8, <1>9

LEMMA RecordedKept ==
    ASSUME TapeInv, MidsInv, NEW ts \in Times, NEW touch \in Touches, Observe(ts, touch),
           mids' = mids /\ last_mid' = last_mid,
           Valid(touch) => Quoted # {} /\ Mid(touch) = last_mid
    PROVE  MidsInv'
<1> PICK n : n = Len(tape) + 1
  OBVIOUS
<1>1. PICK pos : Recorded(pos)
  BY DEF MidsInv
<1>2. Quoted' = IF Valid(touch) THEN Quoted \cup {n} ELSE Quoted
  BY ObservedQuoted
<1>3. /\ \A i \in Quoted : (i \in Changes)' <=> i \in Changes
      /\ \A i \in Quoted : MidAtEvent(i)' = MidAtEvent(i) /\ i < n /\ i \in Nat
      /\ MidAtEvent(n)' = Mid(touch)
      /\ Valid(touch) => ((n \in Changes)' <=> \/ Quoted = {}
                                               \/ MidAtEvent(Max(Quoted)) # Mid(touch))
  BY ChangesKept
<1>4. \A i \in Quoted : i \in DOMAIN tape /\ tape'[i] = tape[i]
  BY Observed, QuotedIs
<1>5. Quoted \subseteq Quoted'
  BY <1>2
<1>6. pos \in [DOMAIN mids -> Quoted'] /\ \A k \in DOMAIN mids : pos[k] \in Quoted
  BY <1>1, <1>5 DEF Recorded
<1>7. \A k \in DOMAIN mids :
        mids[k].ts = tape'[pos[k]].ts /\ mids[k].mid = MidAtEvent(pos[k])'
  BY <1>1, <1>3, <1>4, <1>6 DEF Recorded
<1>8. ASSUME NEW i \in Quoted' PROVE \E k \in DOMAIN mids : Standing(pos, k, i)'
  <2>1. CASE i \in Quoted
    <3>1. PICK k \in DOMAIN mids : Standing(pos, k, i)
      BY <1>1, <2>1 DEF Recorded
    <3>2. MidAtEvent(i)' = MidAtEvent(i)
      BY <1>3, <2>1
    <3>3. Standing(pos, k, i)'
      BY <3>1, <3>2 DEF Standing
    <3> QED
      BY <3>3
  <2>2. CASE i \notin Quoted
    <3>1. Valid(touch) /\ i = n
      BY <1>2, <2>2
    <3>2. mids # << >> /\ Mid(touch) = last_mid /\ last_mid = mids[Len(mids)].mid
      BY <3>1, LastMidIs DEF MidsInv
    <3>3. PICK l \in Nat : l = Len(mids) /\ DOMAIN mids = 1..l
      BY MidsType
    <3>4. l # 0
      BY <3>2, <3>3
    <3>5. l \in DOMAIN mids /\ l + 1 \notin DOMAIN mids
      BY <3>3, <3>4
    <3>6. pos[l] <= n
      <4>1. pos[l] \in Quoted
        BY <1>6, <3>5
      <4>2. PICK x \in Quoted : x = pos[l] /\ x < n /\ x \in Nat
        BY <1>3, <4>1
      <4>3. n \in Nat
        BY QuotedIs
      <4> QED
        BY <4>2, <4>3
    <3>7. Standing(pos, l, n)'
      BY <1>3, <3>2, <3>3, <3>5, <3>6 DEF Standing
    <3> QED
      BY <3>1, <3>5, <3>7
  <2> QED
    BY <2>1, <2>2
<1>9. ASSUME NEW i \in Quoted'
      PROVE  (i \in Changes)' <=> \E k \in DOMAIN mids : i = pos[k]
  <2>1. CASE i \in Quoted
    BY <1>1, <1>3, <2>1 DEF Recorded
  <2>2. CASE i \notin Quoted
    <3>1. Valid(touch) /\ i = n
      BY <1>2, <2>2
    <3>2. ~(n \in Changes)'
      BY <1>3, <3>1, LastMidIs
    <3>3. \A k \in DOMAIN mids : pos[k] # n
      BY <1>3, <1>6
    <3> QED
      BY <3>1, <3>2, <3>3
  <2> QED
    BY <2>1, <2>2
<1>10. Recorded(pos)'
  <2>1. \A k, l \in DOMAIN mids : k < l => pos[k] < pos[l]
    BY <1>1 DEF Recorded
  <2> QED
    BY <1>6, <1>7, <1>8, <1>9, <2>1 DEF Recorded
<1>11. /\ mids' \in Seq(MidSample)
       /\ mids' = << >> => last_mid' = -1
       /\ mids' # << >> => last_mid' = mids'[Len(mids')].mid
  BY DEF MidsInv
<1>12. \E p : Recorded(p)'
  BY <1>10
<1> QED
  BY <1>11, <1>12 DEF MidsInv

LEMMA RecordedMore ==
    ASSUME TapeInv, MidsInv, NEW ts \in Times, NEW touch \in Touches, Observe(ts, touch),
           Valid(touch), Mid(touch) # last_mid
    PROVE  MidsInv'
<1> PICK n : n = Len(tape) + 1
  OBVIOUS
<1>1. PICK pos : Recorded(pos)
  BY DEF MidsInv
<1>2. Quoted' = Quoted \cup {n}
  BY ObservedQuoted
<1>3. /\ \A i \in Quoted : (i \in Changes)' <=> i \in Changes
      /\ \A i \in Quoted : MidAtEvent(i)' = MidAtEvent(i) /\ i < n /\ i \in Nat
      /\ MidAtEvent(n)' = Mid(touch) /\ tape'[n].ts = ts
      /\ (n \in Changes)' <=> \/ Quoted = {}
                              \/ MidAtEvent(Max(Quoted)) # Mid(touch)
  BY ChangesKept
<1>4. (n \in Changes)'
  BY <1>3, LastMidIs
<1>5. /\ \A i \in Quoted : i \in DOMAIN tape /\ tape'[i] = tape[i]
      /\ n \in Nat /\ ts \in Nat /\ Mid(touch) \in Nat
  <2>1. \A i \in Quoted : i \in DOMAIN tape /\ tape'[i] = tape[i]
    BY Observed, QuotedIs
  <2>2. n \in Nat
    BY QuotedIs
  <2>3. ts \in Nat
    BY Observed
  <2> QED
    BY <2>1, <2>2, <2>3, MidType
<1>6. PICK l \in Nat : l = Len(mids) /\ DOMAIN mids = 1..l
  BY MidsType
<1>7. PICK e \in MidSample : e = [ts |-> ts, mid |-> Mid(touch)]
  BY <1>5 DEF MidSample
<1>8. mids' = Append(mids, e) /\ last_mid' = Mid(touch)
  BY <1>7 DEF Observe, RecordMid
<1>9. /\ mids' \in Seq(MidSample) /\ Len(mids') = l + 1 /\ DOMAIN mids' = 1..(l + 1)
      /\ \A k \in 1..l : mids'[k] = mids[k]
      /\ mids'[l + 1] = e
  BY <1>6, <1>8 DEF MidsInv
<1>10. DOMAIN mids' = DOMAIN mids \cup {l + 1} /\ l + 1 \notin DOMAIN mids
  BY <1>6, <1>9
<1>11. PICK pos2 : pos2 = [k \in DOMAIN mids' |-> IF k \in DOMAIN mids THEN pos[k] ELSE n]
  OBVIOUS
<1>12. /\ \A k \in DOMAIN mids : pos[k] \in Quoted /\ pos2[k] = pos[k] /\ k \in DOMAIN mids'
       /\ pos2[l + 1] = n /\ l + 1 \in DOMAIN mids'
  BY <1>1, <1>10, <1>11 DEF Recorded
<1>13. \A k \in DOMAIN mids : pos[k] < n /\ pos[k] \in Nat
  BY <1>3, <1>12
<1>14. pos2 \in [DOMAIN mids' -> Quoted']
  BY <1>2, <1>10, <1>11, <1>12
<1>15. ASSUME NEW k \in DOMAIN mids'
       PROVE  mids'[k].ts = tape'[pos2[k]].ts /\ mids'[k].mid = MidAtEvent(pos2[k])'
  <2>1. CASE k \in DOMAIN mids
    <3>1. mids[k].ts = tape[pos[k]].ts /\ mids[k].mid = MidAtEvent(pos[k])
      BY <1>1, <2>1 DEF Recorded
    <3>2. mids'[k] = mids[k] /\ pos2[k] = pos[k] /\ pos[k] \in Quoted
      BY <1>6, <1>9, <1>12, <2>1
    <3>3. tape'[pos[k]] = tape[pos[k]] /\ MidAtEvent(pos[k])' = MidAtEvent(pos[k])
      BY <1>3, <1>5, <3>2
    <3> QED
      BY <3>1, <3>2, <3>3
  <2>2. CASE k = l + 1
    BY <1>3, <1>7, <1>9, <1>12, <2>2
  <2> QED
    BY <1>10, <2>1, <2>2
<1>16. ASSUME NEW k \in DOMAIN mids', NEW j \in DOMAIN mids', k < j
       PROVE  pos2[k] < pos2[j]
  <2>1. k \in DOMAIN mids
    BY <1>6, <1>9, <1>16
  <2>2. CASE j \in DOMAIN mids
    BY <1>1, <1>12, <1>16, <2>1, <2>2 DEF Recorded
  <2>3. CASE j = l + 1
    BY <1>12, <1>13, <2>1, <2>3
  <2> QED
    BY <1>10, <2>2, <2>3
<1>17. ASSUME NEW i \in Quoted' PROVE \E k \in DOMAIN mids' : Standing(pos2, k, i)'
  <2>1. CASE i \in Quoted
    <3>1. PICK k \in DOMAIN mids : Standing(pos, k, i)
      BY <1>1, <2>1 DEF Recorded
    <3>2. MidAtEvent(i)' = MidAtEvent(i) /\ mids'[k] = mids[k] /\ pos2[k] = pos[k] /\ i < n
      BY <1>3, <1>6, <1>9, <1>12, <2>1
    <3>3. k + 1 \in DOMAIN mids' => i < pos2[k + 1]
      <4>1. CASE k + 1 \in DOMAIN mids
        BY <1>12, <3>1, <4>1 DEF Standing
      <4>2. CASE k + 1 = l + 1
        BY <1>12, <3>2, <4>2
      <4> QED
        BY <1>10, <4>1, <4>2
    <3>4. Standing(pos2, k, i)'
      BY <3>1, <3>2, <3>3 DEF Standing
    <3> QED
      BY <1>12, <3>4
  <2>2. CASE i = n
    <3>1. l + 2 \notin DOMAIN mids' /\ (l + 1) + 1 = l + 2 /\ n <= n
      BY <1>5, <1>6, <1>9
    <3>2. MidAtEvent(n)' = mids'[l + 1].mid
      BY <1>3, <1>7, <1>9
    <3>3. Standing(pos2, l + 1, n)'
      BY <1>6, <1>12, <3>1, <3>2 DEF Standing
    <3> QED
      BY <1>12, <2>2, <3>3
  <2> QED
    BY <1>2, <2>1, <2>2
<1>18. ASSUME NEW i \in Quoted'
       PROVE  (i \in Changes)' <=> \E k \in DOMAIN mids' : i = pos2[k]
  <2>1. CASE i \in Quoted
    <3>1. i # n
      BY <1>3, <1>5, <2>1
    <3>2. i \in Changes <=> \E k \in DOMAIN mids : i = pos[k]
      BY <1>1, <2>1 DEF Recorded
    <3> QED
      BY <1>3, <1>10, <1>12, <2>1, <3>1, <3>2
  <2>2. CASE i = n
    BY <1>4, <1>12, <2>2
  <2> QED
    BY <1>2, <2>1, <2>2
<1>19. Recorded(pos2)'
  BY <1>14, <1>15, <1>16, <1>17, <1>18 DEF Recorded
<1>20. mids' # << >> /\ last_mid' = mids'[Len(mids')].mid
  <2>1. e.mid = Mid(touch) /\ mids'[Len(mids')] = e
    BY <1>7, <1>9
  <2>2. l + 1 \in DOMAIN mids'
    BY <1>12
  <2> QED
    BY <1>8, <2>1, <2>2
<1>21. \E p : Recorded(p)'
  BY <1>19
<1> QED
  BY <1>9, <1>20, <1>21 DEF MidsInv

LEMMA MidsStep ==
    ASSUME TapeInv, MidsInv, NEW ts \in Times, NEW touch \in Touches, Observe(ts, touch)
    PROVE  MidsInv'
<1>1. CASE Valid(touch) /\ Mid(touch) # last_mid
  BY <1>1, RecordedMore
<1>2. CASE ~(Valid(touch) /\ Mid(touch) # last_mid)
  <2>1. mids' = mids /\ last_mid' = last_mid
    BY <1>2 DEF Observe, RecordMid
  <2>2. ASSUME Valid(touch) PROVE Quoted # {} /\ Mid(touch) = last_mid
    <3>1. Mid(touch) = last_mid /\ last_mid \in Nat
      BY <1>2, <2>2, MidType
    <3>2. mids # << >>
      BY <3>1 DEF MidsInv
    <3>3. 1 \in DOMAIN mids
      BY <3>2, MidsType
    <3>4. PICK pos : Recorded(pos)
      BY DEF MidsInv
    <3>5. pos[1] \in Quoted
      BY <3>3, <3>4 DEF Recorded
    <3> QED
      BY <3>1, <3>5
  <2> QED
    BY <2>1, <2>2, RecordedKept
<1> QED
  BY <1>1, <1>2

LEMMA MidsKept ==
    ASSUME MidsInv, UNCHANGED Kept
    PROVE  MidsInv'
<1>1. tape' = tape /\ mids' = mids /\ last_mid' = last_mid
  BY DEF Kept
<1>2. Quoted' = Quoted /\ Changes' = Changes
  BY <1>1 DEF Quoted, Changes
<1>3. \A pos : Recorded(pos)' = Recorded(pos)
  BY <1>1, <1>2 DEF Recorded, Standing, MidAtEvent
<1> QED
  BY <1>1, <1>3 DEF MidsInv

(* A mid is looked up at the change it stands from: the search by time ends at the change *)
(* that the last event of that time, or before, stands under.                             *)
LEMMA MidAtIs ==
    ASSUME TapeInv, MidsInv, NEW t \in Nat
    PROVE  /\ MidAt(t) # NoMid <=> /\ InForce(t) # {}
                                   /\ \E i \in Changes : tape[i].ts >= t
           /\ MidAt(t) # NoMid => InForce(t) = {MidAt(t)} /\ MidAt(t) \in Nat
<1>1. PICK pos : Recorded(pos)
  BY DEF MidsInv
<1>2. PICK l \in Nat : l = Len(mids) /\ DOMAIN mids = 1..l
  BY MidsType
<1>3. /\ \A k \in DOMAIN mids : /\ pos[k] \in Quoted /\ mids[k].ts = tape[pos[k]].ts
                                /\ mids[k].mid = MidAtEvent(pos[k])
                                /\ mids[k].ts \in Nat /\ mids[k].mid \in Nat
  BY <1>1, MidsType DEF Recorded
<1>4. \A i, j \in Quoted : i <= j => tape[i].ts <= tape[j].ts
  BY QuotedIs DEF TapeInv
<1>5. \A i \in Quoted : tape[i].ts \in Nat /\ i \in Nat
  BY QuotedIs, EventTypes
<1>6. \A i \in Changes : i \in Quoted /\ \E k \in DOMAIN mids : i = pos[k]
  <2>1. \A i \in Changes : i \in Quoted
    BY DEF Changes
  <2> QED
    BY <1>1, <2>1 DEF Recorded
<1>7. \A k \in DOMAIN mids : pos[k] \in Changes
  BY <1>1, <1>3 DEF Recorded
<1>8. \A j, k \in DOMAIN mids : j <= k => pos[j] <= pos[k]
  <2> SUFFICES ASSUME NEW j \in DOMAIN mids, NEW k \in DOMAIN mids, j <= k
               PROVE  pos[j] <= pos[k]
    OBVIOUS
  <2>1. pos[j] \in Nat /\ pos[k] \in Nat
    BY <1>3, <1>5
  <2>2. j = k \/ j < k
    BY <1>2
  <2>3. pos[j] = pos[k] \/ pos[j] < pos[k]
    BY <1>1, <2>2 DEF Recorded
  <2> QED
    BY <2>1, <2>3
<1> DEFINE upto == {i \in Quoted : tape[i].ts <= t}
<1>9. InForce(t) = IF upto = {} THEN {} ELSE {MidAtEvent(Max(upto))}
  BY DEF InForce, MidAtEvent
<1>10. CASE mids = << >>
  <2>1. MidAt(t) = NoMid
    BY <1>10 DEF MidAt
  <2>2. DOMAIN mids = {}
    BY <1>2, <1>10
  <2> QED
    BY <1>6, <2>1, <2>2
<1>11. CASE mids # << >> /\ t > mids[l].ts
  <2>1. MidAt(t) = NoMid
    BY <1>2, <1>11 DEF MidAt, Last
  <2>2. ASSUME NEW i \in Changes PROVE ~(tape[i].ts >= t)
    <3>1. PICK k \in DOMAIN mids : i = pos[k]
      BY <1>6
    <3>2. l \in DOMAIN mids /\ k <= l
      BY <1>2, <3>1
    <3>3. pos[k] <= pos[l]
      BY <1>8, <3>2
    <3>4. pos[k] \in Quoted /\ pos[l] \in Quoted
      BY <1>3, <3>2
    <3>5. tape[pos[k]].ts <= tape[pos[l]].ts
      BY <1>4, <3>3, <3>4
    <3>6. tape[i].ts <= mids[l].ts /\ tape[i].ts \in Nat /\ mids[l].ts \in Nat
      BY <1>3, <1>5, <3>1, <3>2, <3>4, <3>5
    <3> QED
      BY <1>11, <3>6
  <2> QED
    BY <2>1, <2>2
<1>12. CASE mids # << >> /\ t < mids[1].ts
  <2>1. MidAt(t) = NoMid
    BY <1>12 DEF MidAt
  <2>2. 1 \in DOMAIN mids
    BY <1>2, <1>12
  <2>3. ASSUME NEW i \in Quoted PROVE ~(tape[i].ts <= t)
    <3>1. PICK k \in DOMAIN mids : Standing(pos, k, i)
      BY <1>1 DEF Recorded
    <3>2. pos[k] <= i /\ pos[1] <= pos[k]
      BY <1>2, <1>8, <2>2, <3>1 DEF Standing
    <3>3. pos[k] \in Quoted /\ pos[1] \in Quoted
      BY <1>3, <2>2
    <3>4. tape[pos[1]].ts <= tape[pos[k]].ts /\ tape[pos[k]].ts <= tape[i].ts
      BY <1>4, <3>2, <3>3
    <3>5. mids[1].ts = tape[pos[1]].ts
      BY <1>3, <2>2
    <3>6. tape[pos[1]].ts \in Nat /\ tape[pos[k]].ts \in Nat /\ tape[i].ts \in Nat
      BY <1>5, <3>3
    <3> QED
      BY <1>12, <3>4, <3>5, <3>6
  <2>4. InForce(t) = {}
    BY <1>9, <2>3
  <2> QED
    BY <2>1, <2>4
<1>13. CASE mids # << >> /\ ~(t > mids[l].ts) /\ ~(t < mids[1].ts)
  <2> DEFINE K == {k \in DOMAIN mids : mids[k].ts <= t}
  <2>1. 1 \in DOMAIN mids /\ l \in DOMAIN mids
    BY <1>2, <1>13
  <2>2. 1 \in K /\ K \subseteq 0..l
    BY <1>2, <1>3, <1>13, <2>1
  <2>3. PICK k \in K : k = Max(K) /\ \A j \in K : j <= k
    BY <2>2, GreatestNat
  <2>4. MidAt(t) = mids[k].mid
    BY <1>2, <1>13, <2>3 DEF MidAt, Last
  <2>5. pos[k] \in upto
    BY <1>3, <2>3
  <2>6. PICK u \in upto : u = Max(upto) /\ \A j \in upto : j <= u
    <3>1. upto # {} /\ upto \subseteq Quoted
      BY <2>5
    <3>2. PICK S : S = upto
      OBVIOUS
    <3>3. Max(S) \in S /\ \A j \in S : j <= Max(S)
      BY <3>1, <3>2, QuotedMax
    <3> QED
      BY <3>2, <3>3
  <2>7. PICK j \in DOMAIN mids : Standing(pos, j, u)
    BY <1>1, <2>6 DEF Recorded
  <2>8. j \in K
    <3>1. pos[j] <= u /\ pos[j] \in Quoted /\ u \in Quoted
      BY <1>3, <2>7 DEF Standing
    <3>2. tape[pos[j]].ts <= tape[u].ts
      BY <1>4, <3>1
    <3>3. tape[u].ts <= t /\ tape[u].ts \in Nat /\ tape[pos[j]].ts \in Nat
      BY <1>5, <3>1
    <3>4. mids[j].ts <= t
      BY <1>3, <2>7, <3>2, <3>3
    <3> QED
      BY <3>4
  <2>9. j = k
    <3> SUFFICES ASSUME j # k PROVE FALSE
      OBVIOUS
    <3>1. j + 1 <= k /\ j + 1 \in DOMAIN mids
      <4>1. j \in 1..l /\ k \in 1..l
        BY <1>2, <2>3
      <4>2. j <= k
        BY <2>3, <2>8
      <4> QED
        BY <1>2, <4>1, <4>2
    <3>2. pos[j + 1] <= pos[k]
      BY <1>8, <2>3, <3>1
    <3>3. u < pos[j + 1] /\ pos[k] <= u
      BY <2>5, <2>6, <2>7, <3>1 DEF Standing
    <3>4. u \in Nat /\ pos[j + 1] \in Nat /\ pos[k] \in Nat
      BY <1>3, <1>5, <2>3, <3>1
    <3> QED
      BY <3>2, <3>3, <3>4
  <2>10. InForce(t) = {MidAt(t)}
    BY <1>9, <2>4, <2>5, <2>6, <2>7, <2>9 DEF Standing
  <2>11. MidAt(t) \in Nat /\ MidAt(t) # NoMid
    BY <1>3, <2>3, <2>4 DEF NoMid
  <2>12. pos[l] \in Changes /\ tape[pos[l]].ts >= t
    BY <1>3, <1>7, <1>13, <2>1
  <2> QED
    BY <2>10, <2>11, <2>12
<1> QED
  BY <1>10, <1>11, <1>12, <1>13

-----------------------------------------------------------------------------
(* The second pass.  The fills of a policy that are scored, in their order, are what was *)
(* marked out.                                                                           *)
Scores(ts) == /\ InForce(ts + Horizon) # {}
              /\ \E i \in Changes : tape[i].ts >= ts + Horizon

UpTo(S, n) == {m \in S : m <= n}

Matches(F, O, S) ==
    /\ Len(O) = Cardinality(S)
    /\ \A n \in S : /\ O[Cardinality(UpTo(S, n))].ts = F[n]
                    /\ {O[Cardinality(UpTo(S, n))].mid} = InForce(F[n] + Horizon)

ScoreInv ==
    /\ at \in Nat
    /\ fills \in [Policies -> Seq(Nat)] /\ obs \in [Policies -> Seq(MidSample)]
    /\ at = 0 => \A p \in Policies : fills[p] = << >> /\ obs[p] = << >>
    /\ \A p \in Policies : Matches(fills[p], obs[p], Scored(p))

(* Markouts are in order of time, and of events that are behind. *)
OrderInv ==
    \A p \in Policies : \A i \in DOMAIN obs[p] :
        /\ \A a \in DOMAIN tape : at <= a => obs[p][i].ts <= tape[a].ts
        /\ \A j \in DOMAIN obs[p] : i <= j => obs[p][i].ts <= obs[p][j].ts

LEMMA Counting ==
    ASSUME NEW n \in Nat, NEW S, S \subseteq 1..n
    PROVE  /\ IsFiniteSet(S) /\ Cardinality(S) \in Nat
           /\ \A k \in S : Cardinality(UpTo(S, k)) \in 1..Cardinality(S)
           /\ Cardinality(S \cup {n + 1}) = Cardinality(S) + 1
           /\ UpTo(S \cup {n + 1}, n + 1) = S \cup {n + 1}
           /\ \A k \in S : UpTo(S \cup {n + 1}, k) = UpTo(S, k)
<1>0. \A k \in S : k \in 1..n /\ k \in Nat /\ k <= n
  <2> SUFFICES ASSUME NEW k \in S PROVE k \in 1..n /\ k \in Nat /\ k <= n
    OBVIOUS
  <2>1. k \in 1..n
    OBVIOUS
  <2> QED
    BY <2>1
<1>1. IsFiniteSet(S)
  <2>1. IsFiniteSet(1..n)
    BY FS_Interval
  <2> QED
    BY <2>1, FS_Subset
<1>2. Cardinality(S) \in Nat
  BY <1>1, FS_CardinalityType
<1>3. ASSUME NEW k \in S PROVE Cardinality(UpTo(S, k)) \in 1..Cardinality(S)
  <2>1. UpTo(S, k) \subseteq S /\ k \in UpTo(S, k)
    BY <1>0 DEF UpTo
  <2>2. IsFiniteSet(UpTo(S, k)) /\ Cardinality(UpTo(S, k)) <= Cardinality(S)
    BY <1>1, <2>1, FS_Subset
  <2>3. Cardinality(UpTo(S, k)) \in Nat /\ Cardinality(UpTo(S, k)) # 0
    BY <2>1, <2>2, FS_CardinalityType, FS_EmptySet
  <2> QED
    BY <1>2, <2>2, <2>3
<1>4. n + 1 \notin S
  BY <1>0
<1>5. Cardinality(S \cup {n + 1}) = Cardinality(S) + 1
  BY <1>1, <1>4, FS_AddElement
<1>6. UpTo(S \cup {n + 1}, n + 1) = S \cup {n + 1}
  <2>1. \A k \in S \cup {n + 1} : k <= n + 1
    BY <1>0
  <2> QED
    BY <2>1 DEF UpTo
<1>7. ASSUME NEW k \in S PROVE UpTo(S \cup {n + 1}, k) = UpTo(S, k)
  <2>1. ~(n + 1 <= k)
    BY <1>0
  <2> QED
    BY <2>1 DEF UpTo
<1> QED
  BY <1>1, <1>2, <1>3, <1>5, <1>6, <1>7

LEMMA ScoredIs ==
    ASSUME ScoreInv, NEW p \in Policies
    PROVE  /\ Len(fills[p]) \in Nat /\ DOMAIN fills[p] = 1..Len(fills[p])
           /\ fills[p] \in Seq(Nat) /\ obs[p] \in Seq(MidSample)
           /\ Scored(p) = {n \in DOMAIN fills[p] : Scores(fills[p][n])}
           /\ Scored(p) \subseteq 1..Len(fills[p])
           /\ Matches(fills[p], obs[p], Scored(p))
<1>1. fills[p] \in Seq(Nat) /\ obs[p] \in Seq(MidSample) /\ Matches(fills[p], obs[p], Scored(p))
  BY DEF ScoreInv
<1>2. Len(fills[p]) \in Nat /\ DOMAIN fills[p] = 1..Len(fills[p])
  BY <1>1
<1>3. Scored(p) = {n \in DOMAIN fills[p] : Scores(fills[p][n])}
  BY DEF Scored, Scores
<1> QED
  BY <1>1, <1>2, <1>3

(* A fill at an event is scored with the mid that is in force a horizon later. *)
LEMMA MatchesMore ==
    ASSUME NEW F \in Seq(Nat), NEW O \in Seq(MidSample), NEW S, S \subseteq 1..Len(F),
           Matches(F, O, S), NEW ts \in Nat, NEW mid \in Nat, InForce(ts + Horizon) = {mid}
    PROVE  Matches(Append(F, ts), Append(O, [ts |-> ts, mid |-> mid]), S \cup {Len(F) + 1})
<1>1. PICK n \in Nat : n = Len(F)
  OBVIOUS
<1>2. PICK c \in Nat : c = Len(O) /\ c = Cardinality(S)
  BY DEF Matches
<1>3. PICK e \in MidSample : e = [ts |-> ts, mid |-> mid]
  BY DEF MidSample
<1>4. PICK F2 : F2 = Append(F, ts)
  OBVIOUS
<1>5. PICK O2 : O2 = Append(O, e)
  OBVIOUS
<1>6. PICK S2 : S2 = S \cup {n + 1}
  OBVIOUS
<1>7. F2[n + 1] = ts /\ \A k \in 1..n : F2[k] = F[k]
  BY <1>1, <1>4
<1>8. O2[c + 1] = e /\ Len(O2) = c + 1 /\ \A k \in 1..c : O2[k] = O[k]
  <2>1. c = Len(O)
    BY <1>2
  <2> QED
    BY <1>5, <2>1
<1>9. /\ \A k \in S : Cardinality(UpTo(S, k)) \in 1..c /\ UpTo(S2, k) = UpTo(S, k)
      /\ Cardinality(S2) = c + 1 /\ UpTo(S2, n + 1) = S2
  BY <1>1, <1>2, <1>6, Counting
<1>10. ASSUME NEW k \in S2
       PROVE  /\ O2[Cardinality(UpTo(S2, k))].ts = F2[k]
              /\ {O2[Cardinality(UpTo(S2, k))].mid} = InForce(F2[k] + Horizon)
  <2>1. CASE k \in S
    <3>1. PICK x \in 1..c : x = Cardinality(UpTo(S, k)) /\ Cardinality(UpTo(S2, k)) = x
      BY <1>9, <2>1
    <3>2. F2[k] = F[k] /\ O2[x] = O[x]
      BY <1>1, <1>7, <1>8, <2>1
    <3>3. O[x].ts = F[k] /\ {O[x].mid} = InForce(F[k] + Horizon)
      BY <2>1, <3>1 DEF Matches
    <3> QED
      BY <3>1, <3>2, <3>3
  <2>2. CASE k = n + 1
    BY <1>3, <1>7, <1>8, <1>9, <2>2
  <2> QED
    BY <1>6, <2>1, <2>2
<1>11. Matches(F2, O2, S2)
  BY <1>8, <1>9, <1>10 DEF Matches
<1> QED
  BY <1>1, <1>3, <1>4, <1>5, <1>6, <1>11

LEMMA MatchesLess ==
    ASSUME NEW F \in Seq(Nat), NEW O, NEW S, S \subseteq 1..Len(F), Matches(F, O, S), NEW ts
    PROVE  Matches(Append(F, ts), O, S)
<1>1. \A k \in S : Append(F, ts)[k] = F[k]
  OBVIOUS
<1> QED
  BY <1>1 DEF Matches

LEMMA InForceKept ==
    ASSUME UNCHANGED Kept
    PROVE  /\ \A t : InForce(t)' = InForce(t)
           /\ \A ts : Scores(ts)' = Scores(ts)
           /\ \A F, O, S : Matches(F, O, S)' = Matches(F, O, S)
<1>1. tape' = tape
  BY DEF Kept
<1>2. Quoted' = Quoted /\ Changes' = Changes
  BY <1>1 DEF Quoted, Changes
<1>3. \A t : InForce(t)' = InForce(t)
  BY <1>1, <1>2 DEF InForce
<1>4. \A ts : Scores(ts)' = Scores(ts)
  BY <1>1, <1>2, <1>3 DEF Scores
<1>5. \A F, O, S : Matches(F, O, S)' = Matches(F, O, S)
  BY <1>3 DEF Matches
<1> QED
  BY <1>3, <1>4, <1>5

(* Before the second pass nothing is filled. *)
LEMMA NothingYet ==
    ASSUME fills' \in [Policies -> Seq(Nat)], obs' \in [Policies -> Seq(MidSample)],
           at' \in Nat,
           \A p \in Policies : fills'[p] = << >> /\ obs'[p] = << >>
    PROVE  ScoreInv' /\ OrderInv'
<1>1. ASSUME NEW p \in Policies PROVE Matches(fills[p], obs[p], Scored(p))'
  <2>1. DOMAIN fills'[p] = {}
    OBVIOUS
  <2>2. Scored(p)' = {}
    BY <2>1 DEF Scored
  <2>3. Len(obs'[p]) = 0 /\ Cardinality({}) = 0
    BY FS_EmptySet
  <2> QED
    BY <2>2, <2>3 DEF Matches
<1>2. ASSUME NEW p \in Policies PROVE DOMAIN obs'[p] = {}
  OBVIOUS
<1>3. ScoreInv'
  BY <1>1 DEF ScoreInv
<1>4. OrderInv'
  BY <1>2 DEF OrderInv
<1> QED
  BY <1>3, <1>4

LEMMA ScoreKept ==
    ASSUME TapeInv, MidsInv, ScoreInv, NEW filled \in SUBSET Policies, Score(filled)
    PROVE  ScoreInv'
<1>1. UNCHANGED Kept /\ at \in 1..Len(tape) /\ at' = at + 1 /\ Len(tape) \in Nat
  BY QuotedIs DEF Score, Kept
<1>2. PICK ts \in Nat : ts = tape[at].ts
  <2>1. at \in DOMAIN tape
    BY <1>1, QuotedIs
  <2> QED
    BY <2>1, EventTypes
<1>3. PICK mid : mid = MidAt(ts + Horizon)
  OBVIOUS
<1>4. ts + Horizon \in Nat
  BY ReplayAssumption
<1>5. /\ fills' = [p \in Policies |-> IF p \in filled THEN Append(fills[p], ts) ELSE fills[p]]
      /\ obs' = [p \in Policies |-> IF p \in filled /\ mid # NoMid
                                    THEN Append(obs[p], [ts |-> ts, mid |-> mid]) ELSE obs[p]]
  BY <1>2, <1>3 DEF Score
<1>6. /\ mid # NoMid <=> Scores(ts)
      /\ mid # NoMid => InForce(ts + Horizon) = {mid} /\ mid \in Nat
  BY <1>3, <1>4, MidAtIs DEF Scores
<1>7. ASSUME NEW p \in Policies
      PROVE  /\ fills'[p] \in Seq(Nat) /\ obs'[p] \in Seq(MidSample)
             /\ Matches(fills'[p], obs'[p], Scored(p)')
  <2>1. PICK F \in Seq(Nat), O \in Seq(MidSample) : F = fills[p] /\ O = obs[p]
    BY ScoredIs
  <2>2. PICK S, S2 : S = Scored(p) /\ S2 = Scored(p)'
    OBVIOUS
  <2>3. PICK F2, O2 : F2 = fills'[p] /\ O2 = obs'[p]
    OBVIOUS
  <2>4. /\ S = {n \in DOMAIN F : Scores(F[n])} /\ S \subseteq 1..Len(F) /\ Len(F) \in Nat
        /\ DOMAIN F = 1..Len(F) /\ Matches(F, O, S)
    BY <2>1, <2>2, ScoredIs
  <2>5. S2 = {n \in DOMAIN F2 : Scores(F2[n])}
    <3>1. S2 = {n \in DOMAIN F2 : Scores(F2[n])'}
      BY <2>2, <2>3 DEF Scored, Scores
    <3>2. \A n \in DOMAIN F2 : Scores(F2[n])' = Scores(F2[n])
      BY <1>1, InForceKept
    <3> QED
      BY <3>1, <3>2
  <2>6. CASE p \notin filled
    <3>1. F2 = F /\ O2 = O
      BY <1>5, <2>1, <2>3, <2>6
    <3>2. S2 = S
      BY <2>4, <2>5, <3>1
    <3> QED
      BY <2>2, <2>3, <2>4, <3>1, <3>2
  <2>7. CASE p \in filled
    <3>1. F2 = Append(F, ts)
      BY <1>5, <2>1, <2>3, <2>7
    <3>2. /\ F2 \in Seq(Nat) /\ DOMAIN F2 = 1..(Len(F) + 1) /\ F2[Len(F) + 1] = ts
          /\ \A n \in 1..Len(F) : F2[n] = F[n]
      BY <2>4, <3>1
    <3>3. DOMAIN F2 = DOMAIN F \cup {Len(F) + 1}
      BY <2>4, <3>2
    <3>4. CASE mid # NoMid
      <4>1. PICK e \in MidSample : e = [ts |-> ts, mid |-> mid]
        BY <1>6, <3>4 DEF MidSample
      <4>2. O2 = Append(O, e)
        BY <1>5, <2>1, <2>3, <2>7, <3>4, <4>1
      <4>3. S2 = S \cup {Len(F) + 1}
        BY <1>6, <2>4, <2>5, <3>2, <3>3, <3>4
      <4>4. Matches(F2, O2, S2)
        BY <1>6, <2>4, <3>1, <3>4, <4>1, <4>2, <4>3, MatchesMore
      <4>5. O2 \in Seq(MidSample)
        BY <4>2
      <4> QED
        BY <2>2, <2>3, <3>2, <4>4, <4>5
    <3>5. CASE mid = NoMid
      <4>1. O2 = O
        BY <1>5, <2>1, <2>3, <3>5
      <4>2. S2 = S
        BY <1>6, <2>4, <2>5, <3>2, <3>3, <3>5
      <4>3. Matches(F2, O2, S2)
        BY <2>4, <3>1, <4>1, <4>2, MatchesLess
      <4> QED
        BY <2>2, <2>3, <3>2, <4>1, <4>3
    <3> QED
      BY <3>4, <3>5
  <2> QED
    BY <2>6, <2>7
<1>8. fills' \in [Policies -> Seq(Nat)]
  <2>1. DOMAIN fills' = Policies /\ fills' = [p \in Policies |-> fills'[p]]
    BY <1>5
  <2> QED
    BY <1>7, <2>1
<1>9. obs' \in [Policies -> Seq(MidSample)]
  <2>1. DOMAIN obs' = Policies /\ obs' = [p \in Policies |-> obs'[p]]
    BY <1>5
  <2> QED
    BY <1>7, <2>1
<1>10. \A p \in Policies : Matches(fills[p], obs[p], Scored(p))'
  <2> SUFFICES ASSUME NEW p \in Policies PROVE Matches(fills[p], obs[p], Scored(p))'
    OBVIOUS
  <2>1. PICK F2, O2, S2 : F2 = fills'[p] /\ O2 = obs'[p] /\ S2 = Scored(p)'
    OBVIOUS
  <2>2. Matches(F2, O2, S2)
    BY <1>7, <2>1
  <2>3. Matches(F2, O2, S2)'
    BY <1>1, <2>2, InForceKept
  <2> QED
    BY <2>1, <2>3 DEF Matches
<1>11. at' \in Nat /\ at' # 0
  BY <1>1
<1> QED
  BY <1>8, <1>9, <1>10, <1>11 DEF ScoreInv

LEMMA OrderKept ==
    ASSUME TapeInv, MidsInv, ScoreInv, OrderInv, NEW filled \in SUBSET Policies, Score(filled)
    PROVE  OrderInv'
<1>1. tape' = tape /\ at \in 1..Len(tape) /\ at' = at + 1 /\ DOMAIN tape = 1..Len(tape)
      /\ Len(tape) \in Nat
  BY QuotedIs DEF Score
<1>2. PICK ts \in Nat : ts = tape[at].ts
  BY <1>1, EventTypes
<1>3. PICK mid : mid = MidAt(ts + Horizon)
  OBVIOUS
<1>4. obs' = [p \in Policies |-> IF p \in filled /\ mid # NoMid
                                THEN Append(obs[p], [ts |-> ts, mid |-> mid]) ELSE obs[p]]
  BY <1>2, <1>3 DEF Score
<1>5. ASSUME NEW p \in Policies, NEW i \in DOMAIN obs'[p]
      PROVE  /\ \A a \in DOMAIN tape' : at' <= a => obs'[p][i].ts <= tape'[a].ts
             /\ \A j \in DOMAIN obs'[p] : i <= j => obs'[p][i].ts <= obs'[p][j].ts
  <2>1. PICK O \in Seq(MidSample) : O = obs[p]
    BY ScoredIs
  <2>2. \A a \in DOMAIN tape : at + 1 <= a => at <= a /\ ts <= tape[a].ts
    <3> SUFFICES ASSUME NEW a \in DOMAIN tape, at + 1 <= a PROVE at <= a /\ ts <= tape[a].ts
      OBVIOUS
    <3>1. at <= a /\ at \in DOMAIN tape
      BY <1>1
    <3> QED
      BY <1>2, <3>1 DEF TapeInv
  <2>3. \A k \in DOMAIN O : O[k].ts <= ts /\ \A a \in DOMAIN tape : at <= a => O[k].ts <= tape[a].ts
    <3> SUFFICES ASSUME NEW k \in DOMAIN O
                 PROVE  O[k].ts <= ts /\ \A a \in DOMAIN tape : at <= a => O[k].ts <= tape[a].ts
      OBVIOUS
    <3>1. \A a \in DOMAIN tape : at <= a => O[k].ts <= tape[a].ts
      BY <2>1 DEF OrderInv
    <3>2. at \in DOMAIN tape /\ at <= at
      BY <1>1
    <3> QED
      BY <1>2, <3>1, <3>2
  <2>4. \A k, j \in DOMAIN O : k <= j => O[k].ts <= O[j].ts
    BY <2>1 DEF OrderInv
  <2>5. CASE obs'[p] = O
    BY <1>1, <2>2, <2>3, <2>4, <2>5
  <2>6. CASE p \in filled /\ mid # NoMid
    <3>1. ts + Horizon \in Nat
      BY ReplayAssumption
    <3>2. mid \in Nat
      BY <1>3, <2>6, <3>1, MidAtIs
    <3>3. PICK e \in MidSample : e = [ts |-> ts, mid |-> mid]
      BY <3>2 DEF MidSample
    <3>10. e.ts = ts
      BY <3>3
    <3>4. PICK O2 : O2 = Append(O, e) /\ O2 = obs'[p]
      BY <1>4, <2>1, <2>6, <3>3
    <3>5. PICK l \in Nat : l = Len(O) /\ DOMAIN O = 1..l
      OBVIOUS
    <3>6. /\ DOMAIN O2 = 1..(l + 1) /\ O2[l + 1] = e
          /\ \A k \in DOMAIN O : O2[k] = O[k]
      <4>1. O2 = Append(O, e) /\ l = Len(O) /\ DOMAIN O = 1..l
        BY <3>4, <3>5
      <4> QED
        BY <4>1
    <3>7. DOMAIN O2 = DOMAIN O \cup {l + 1} /\ \A k \in DOMAIN O : k <= l /\ k \in Nat
      BY <3>5, <3>6
    <3>8. CASE i \in DOMAIN O
      <4>1. O2[i] = O[i]
        BY <3>6, <3>8
      <4>2. \A j \in DOMAIN O2 : i <= j => O2[i].ts <= O2[j].ts
        <5> SUFFICES ASSUME NEW j \in DOMAIN O2, i <= j PROVE O2[i].ts <= O2[j].ts
          OBVIOUS
        <5>1. CASE j \in DOMAIN O
          BY <2>4, <3>6, <3>8, <4>1, <5>1
        <5>2. CASE j = l + 1
          BY <2>3, <3>10, <3>6, <3>8, <4>1, <5>2
        <5> QED
          BY <3>7, <5>1, <5>2
      <4>3. \A a \in DOMAIN tape' : at' <= a => O2[i].ts <= tape'[a].ts
        BY <1>1, <2>2, <2>3, <3>8, <4>1
      <4> QED
        BY <3>4, <4>2, <4>3
    <3>9. CASE i = l + 1
      <4>1. O2[i].ts = ts
        BY <3>10, <3>6, <3>9
      <4>2. \A j \in DOMAIN O2 : i <= j => j = i
        <5> SUFFICES ASSUME NEW j \in DOMAIN O2, i <= j PROVE j = i
          OBVIOUS
        <5>1. j \in 1..(l + 1)
          BY <3>6
        <5> QED
          BY <3>9, <5>1
      <4>3. \A a \in DOMAIN tape' : at' <= a => O2[i].ts <= tape'[a].ts
        BY <1>1, <2>2, <4>1
      <4> QED
        BY <3>4, <4>1, <4>2, <4>3
    <3> QED
      BY <3>4, <3>7, <3>8, <3>9
  <2> QED
    BY <1>4, <2>1, <2>5, <2>6
<1> QED
  BY <1>5 DEF OrderInv

-----------------------------------------------------------------------------
(* The blocks. *)

(* Blocks that span a series are a partition of it. *)
LEMMA BlocksAddUp ==
    ASSUME NEW v \in Seq(MidSample), NEW t0 \in Nat, NEW t1 \in Nat, t0 <= t1,
           \A i \in DOMAIN v : t0 <= v[i].ts /\ v[i].ts <= t1,
           NEW all, all = [i \in 1..(LastBlock(t0, t1) + 1) |-> i - 1]
    PROVE  WeightedMean(v, Bucket(v, t0, t1), all) = Whole(v)
<1>0. block_ns \in Nat \ {0}
  BY ReplayAssumption
<1>1. PICK l \in Nat : l = LastBlock(t0, t1) /\ l = (t1 - t0) \div block_ns
  <2>1. t1 - t0 \in Nat
    OBVIOUS
  <2> QED
    BY <1>0, <2>1, Division DEF LastBlock
<1>2. PICK n \in Nat : n = l + 1
  OBVIOUS
<1>3. PICK S : S = DOMAIN v
  OBVIOUS
<1>4. S = 1..Len(v) /\ Len(v) \in Nat /\ \A i \in S : v[i].ts \in Nat /\ v[i].mid \in Nat
  <2>1. S = 1..Len(v) /\ Len(v) \in Nat /\ \A i \in S : v[i] \in MidSample
    BY <1>3
  <2> QED
    BY <2>1 DEF MidSample
<1>5. IsFiniteSet(S) /\ Cardinality(S) = Len(v)
  <2>1. PICK m \in Nat : m = Len(v)
    BY <1>4
  <2>2. S = 1..m
    BY <1>4, <2>1
  <2>3. IsFiniteSet(1..m) /\ Cardinality(1..m) = IF 1 > m THEN 0 ELSE m - 1 + 1
    BY FS_Interval
  <2>4. Cardinality(1..m) = m
    BY <2>3
  <2> QED
    BY <2>1, <2>2, <2>3, <2>4
<1>6. DOMAIN all = 1..n /\ \A k \in 1..n : all[k] = k - 1 /\ all[k] \in 0..l
  BY <1>1, <1>2
<1> DEFINE Block(i) == (v[i].ts - t0) \div block_ns
<1>7. \A i \in S : Block(i) \in 0..l
  <2> SUFFICES ASSUME NEW i \in S PROVE Block(i) \in 0..l
    OBVIOUS
  <2>1. PICK a \in Nat, b \in Nat : a = v[i].ts - t0 /\ b = t1 - t0 /\ a <= b
    BY <1>3, <1>4
  <2>2. a \div block_ns <= b \div block_ns /\ a \div block_ns \in Nat
    BY <1>0, <2>1, CellsInOrder, Division
  <2> QED
    BY <1>1, <2>1, <2>2
<1>8. PICK blocks : blocks = Bucket(v, t0, t1)
  OBVIOUS
<1>9. \A b \in 0..l : blocks[b] = {i \in S : Block(i) = b}
  <2>1. blocks = [b \in 0..l |-> {i \in DOMAIN v : /\ t0 <= v[i].ts /\ v[i].ts <= t1
                                                   /\ Block(i) = b}]
    BY <1>1, <1>8 DEF Bucket
  <2> QED
    BY <1>3, <2>1
<1> HIDE DEF Block
<1>10. PICK parts : parts = [k \in 1..n |-> blocks[all[k]]]
  OBVIOUS
<1>11. \A k \in 1..n : parts[k] = {i \in S : Block(i) = k - 1}
  BY <1>6, <1>9, <1>10
<1>12. parts \in [1..n -> SUBSET S]
  BY <1>10, <1>11
<1>13. \A j, k \in 1..n : j # k => parts[j] \cap parts[k] = {}
  <2> SUFFICES ASSUME NEW j \in 1..n, NEW k \in 1..n, j # k PROVE parts[j] \cap parts[k] = {}
    OBVIOUS
  <2>1. j - 1 # k - 1
    OBVIOUS
  <2> QED
    BY <1>11, <2>1
<1>14. Gathered(parts, n) = S
  <2>1. \A i \in S : Block(i) + 1 \in 1..n /\ (Block(i) + 1) - 1 = Block(i)
    BY <1>2, <1>7
  <2>2. \A i \in S : i \in parts[Block(i) + 1]
    BY <1>11, <2>1
  <2>3. \A k \in 1..n : parts[k] \subseteq S
    BY <1>11
  <2> QED
    BY <2>1, <2>2, <2>3 DEF Gathered
<1>15. PICK w : w = Values(v)
  OBVIOUS
<1>16. Counts(w, S) /\ DOMAIN w = S
  BY <1>3, <1>4, <1>5, <1>15 DEF Values, Counts
<1>17. PICK num : num = [k \in DOMAIN all |-> SumFunctionOnSet(w, blocks[all[k]])]
  OBVIOUS
<1>18. DOMAIN num = 1..n /\ \A k \in 1..n : num[k] = SumFunctionOnSet(w, parts[k])
  BY <1>6, <1>10, <1>17
<1>19. SumFunctionOnSet(num, 1..n) = SumFunctionOnSet(w, S)
  <2>1. \A k \in 1..n : num[k] = SumFunctionOnSet(w, parts[k])
    BY <1>18
  <2>2. Shares(w, S, n, parts, num)
    BY <1>2, <1>12, <1>13, <1>16, <2>1 DEF Shares
  <2>3. SumFunctionOnSet(num, 1..n) = SumFunctionOnSet(w, Gathered(parts, n))
    BY <2>2, SumOfParts
  <2> QED
    BY <1>14, <2>3
<1>20. PICK ones : ones = [i \in S |-> 1]
  OBVIOUS
<1>21. Counts(ones, S)
  BY <1>5, <1>20 DEF Counts
<1>22. PICK den : den = [k \in DOMAIN all |-> Cardinality(blocks[all[k]])]
  OBVIOUS
<1>23. DOMAIN den = 1..n /\ \A k \in 1..n : den[k] = SumFunctionOnSet(ones, parts[k])
  <2> SUFFICES ASSUME NEW k \in 1..n
               PROVE  DOMAIN den = 1..n /\ den[k] = SumFunctionOnSet(ones, parts[k])
    BY <1>6, <1>22
  <2>1. den[k] = Cardinality(parts[k])
    BY <1>6, <1>10, <1>22
  <2>2. IsFiniteSet(parts[k]) /\ \A i \in parts[k] : ones[i] = 1
    BY <1>5, <1>11, <1>20, FS_Subset
  <2>3. SumFunctionOnSet(ones, parts[k]) = Cardinality(parts[k])
    BY <2>2, SumOfOnes
  <2> QED
    BY <1>6, <1>22, <2>1, <2>3
<1>24. SumFunctionOnSet(den, 1..n) = Len(v)
  <2>0. \A k \in 1..n : den[k] = SumFunctionOnSet(ones, parts[k])
    BY <1>23
  <2>1. SumFunctionOnSet(den, 1..n) = SumFunctionOnSet(ones, S)
    <3>1. Shares(ones, S, n, parts, den)
      BY <1>2, <1>12, <1>13, <1>21, <2>0 DEF Shares
    <3>2. SumFunctionOnSet(den, 1..n) = SumFunctionOnSet(ones, Gathered(parts, n))
      BY <3>1, SumOfParts
    <3> QED
      BY <1>14, <3>2
  <2>2. SumFunctionOnSet(ones, S) = Cardinality(S)
    BY <1>5, <1>20, SumOfOnes
  <2> QED
    BY <1>5, <2>1, <2>2
<1>25. WeightedMean(v, blocks, all) = <<SumFunction(num), SumFunction(den)>>
  BY <1>15, <1>17, <1>22 DEF WeightedMean
<1>26. Whole(v) = <<SumFunctionOnSet(w, S), Len(v)>>
  BY <1>15, <1>16 DEF Whole, SumFunction
<1>27. SumFunction(num) = SumFunctionOnSet(num, 1..n) /\ SumFunction(den) = SumFunctionOnSet(den, 1..n)
  BY <1>18, <1>23 DEF SumFunction
<1> QED
  BY <1>8, <1>19, <1>24, <1>25, <1>26, <1>27

LEMMA LeastOf ==
    ASSUME NEW a \in Nat, NEW b \in Nat
    PROVE  /\ Min({a, b}) \in Nat /\ Min({a, b}) <= a /\ Min({a, b}) <= b
           /\ Max({a, b}) \in Nat /\ a <= Max({a, b}) /\ b <= Max({a, b})
<1>1. CASE a <= b
  <2>1. PICK S : S = {a, b}
    OBVIOUS
  <2>2. Min(S) = a /\ Max(S) = b
    BY <1>1, <2>1, FirstIs, LastIs
  <2> QED
    BY <1>1, <2>1, <2>2
<1>2. CASE b <= a
  <2>1. PICK S : S = {a, b}
    OBVIOUS
  <2>2. Min(S) = b /\ Max(S) = a
    BY <1>2, <2>1, FirstIs, LastIs
  <2> QED
    BY <1>2, <2>1, <2>2
<1> QED
  BY <1>1, <1>2

LEMMA BlocksHold ==
    ASSUME ScoreInv, OrderInv
    PROVE  BlocksHoldAll
<1> SUFFICES ASSUME NEW p \in Policies, NEW q \in Policies, obs[p] # << >>, obs[q] # << >>,
                    From(obs[p], obs[q]) < To(obs[p], obs[q])
             PROVE  PairedPoint(obs[p], obs[q]) = <<Whole(obs[p]), Whole(obs[q])>>
  BY DEF BlocksHoldAll
<1>1. PICK a \in Seq(MidSample), b \in Seq(MidSample) : a = obs[p] /\ b = obs[q]
  BY ScoredIs
<1>2. /\ \A i, j \in DOMAIN a : i <= j => a[i].ts <= a[j].ts
      /\ \A i, j \in DOMAIN b : i <= j => b[i].ts <= b[j].ts
  BY <1>1 DEF OrderInv
<1>3. ASSUME NEW v \in Seq(MidSample), v # << >>,
             \A i, j \in DOMAIN v : i <= j => v[i].ts <= v[j].ts
      PROVE  /\ v[1].ts \in Nat /\ Last(v).ts \in Nat
             /\ \A i \in DOMAIN v : /\ v[1].ts <= v[i].ts /\ v[i].ts <= Last(v).ts
                                   /\ v[i].ts \in Nat
  <2>1. PICK l \in Nat : l = Len(v) /\ DOMAIN v = 1..l
    BY <1>3
  <2>2. 1 \in DOMAIN v /\ l \in DOMAIN v /\ Last(v) = v[l]
    BY <1>3, <2>1 DEF Last
  <2>3. \A i \in DOMAIN v : v[i].ts \in Nat
    <3>1. \A i \in DOMAIN v : v[i] \in MidSample
      BY <1>3
    <3> QED
      BY <3>1 DEF MidSample
  <2>4. \A i \in DOMAIN v : 1 <= i /\ i <= l
    BY <2>1
  <2> QED
    BY <1>3, <2>2, <2>3, <2>4
<1>4. PICK t0 \in Nat, t1 \in Nat : t0 = From(a, b) /\ t1 = To(a, b)
  <2>1. /\ a[1].ts \in Nat /\ Last(a).ts \in Nat
        /\ b[1].ts \in Nat /\ Last(b).ts \in Nat
    BY <1>1, <1>2, <1>3
  <2> QED
    BY <2>1, LeastOf DEF From, To
<1>5. /\ \A i \in DOMAIN a : t0 <= a[i].ts /\ a[i].ts <= t1
      /\ \A i \in DOMAIN b : t0 <= b[i].ts /\ b[i].ts <= t1
  <2>1. PICK c \in Nat, d \in Nat, e \in Nat, f \in Nat :
           c = a[1].ts /\ d = Last(a).ts /\ e = b[1].ts /\ f = Last(b).ts
    BY <1>1, <1>2, <1>3
  <2>2. /\ \A i \in DOMAIN a : c <= a[i].ts /\ a[i].ts <= d /\ a[i].ts \in Nat
        /\ \A i \in DOMAIN b : e <= b[i].ts /\ b[i].ts <= f /\ b[i].ts \in Nat
    BY <1>1, <1>2, <1>3, <2>1
  <2>3. t0 <= c /\ t0 <= e /\ d <= t1 /\ f <= t1
    BY <1>4, <2>1, LeastOf DEF From, To
  <2> QED
    BY <2>2, <2>3
<1>6. PICK all : all = [i \in 1..(LastBlock(t0, t1) + 1) |-> i - 1]
  OBVIOUS
<1>7. t0 < t1
  BY <1>1, <1>4
<1>8. /\ WeightedMean(a, Bucket(a, t0, t1), all) = Whole(a)
      /\ WeightedMean(b, Bucket(b, t0, t1), all) = Whole(b)
  <2>1. t0 <= t1
    BY <1>7
  <2>2. \A i \in DOMAIN a : t0 <= a[i].ts /\ a[i].ts <= t1
    BY <1>5
  <2>3. \A i \in DOMAIN b : t0 <= b[i].ts /\ b[i].ts <= t1
    BY <1>5
  <2>4. WeightedMean(a, Bucket(a, t0, t1), all) = Whole(a)
    BY <1>6, <2>1, <2>2, BlocksAddUp
  <2>5. WeightedMean(b, Bucket(b, t0, t1), all) = Whole(b)
    BY <1>6, <2>1, <2>3, BlocksAddUp
  <2> QED
    BY <2>4, <2>5
<1>9. PairedPoint(a, b) = <<WeightedMean(a, Bucket(a, t0, t1), all),
                            WeightedMean(b, Bucket(b, t0, t1), all)>>
  <2>1. ~(t1 <= t0)
    BY <1>7
  <2> QED
    BY <1>4, <1>6, <2>1 DEF PairedPoint
<1> QED
  BY <1>1, <1>8, <1>9

-----------------------------------------------------------------------------
(* Together. *)
ReplayInv == TapeInv /\ GridInv /\ MidsInv /\ ScoreInv /\ OrderInv

LEMMA InitInv ==
    ASSUME Init
    PROVE  ReplayInv
<1>1. /\ tape = << >> /\ mids = << >> /\ last_mid = -1 /\ samples = << >> /\ next_sample = 0
      /\ at = 0 /\ fills = [p \in Policies |-> << >>] /\ obs = [p \in Policies |-> << >>]
  BY DEF Init
<1>2. DOMAIN tape = {} /\ Len(tape) = 0 /\ DOMAIN samples = {} /\ Len(samples) = 0
      /\ DOMAIN mids = {}
  BY <1>1
<1>3. Quoted = {} /\ Firsts = {}
  BY <1>2 DEF Quoted, Firsts
<1>4. TapeInv
  BY <1>1, <1>2 DEF TapeInv
<1>5. GridInv
  <2>1. ToSet(samples) = {}
    BY <1>2 DEF ToSet
  <2>2. samples \in Seq(Nat)
    BY <1>1
  <2>3. 1..(Len(samples) - 1) = {}
    BY <1>2
  <2> QED
    BY <1>1, <1>2, <1>3, <2>1, <2>2, <2>3 DEF GridInv
<1>6. MidsInv
  <2>1. PICK pos : pos = [k \in DOMAIN mids |-> 0]
    OBVIOUS
  <2>2. Recorded(pos)
    BY <1>2, <1>3, <2>1 DEF Recorded
  <2>3. mids \in Seq(MidSample)
    BY <1>1
  <2> QED
    BY <1>1, <2>2, <2>3 DEF MidsInv
<1>7. ASSUME NEW p \in Policies
      PROVE  Matches(fills[p], obs[p], Scored(p)) /\ DOMAIN obs[p] = {}
  <2>1. fills[p] = << >> /\ obs[p] = << >>
    BY <1>1
  <2>2. Scored(p) = {}
    BY <2>1 DEF Scored
  <2>3. Len(obs[p]) = 0 /\ Cardinality({}) = 0
    BY <2>1, FS_EmptySet
  <2> QED
    BY <2>1, <2>2, <2>3 DEF Matches
<1>8. ScoreInv
  BY <1>1, <1>7 DEF ScoreInv
<1>9. OrderInv
  BY <1>7 DEF OrderInv
<1> QED
  BY <1>4, <1>5, <1>6, <1>8, <1>9 DEF ReplayInv

LEMMA NextInv ==
    ASSUME ReplayInv, [Next]_vars
    PROVE  ReplayInv'
<1>0. TapeInv /\ GridInv /\ MidsInv /\ ScoreInv /\ OrderInv
  BY DEF ReplayInv
<1>1. ASSUME NEW ts \in Times, NEW touch \in Touches, Observe(ts, touch)
      PROVE  ReplayInv'
  <2>1. TapeInv'
    BY <1>0, <1>1, Observed
  <2>2. GridInv'
    BY <1>0, <1>1, AfterNone, AfterFirst, AfterLater
  <2>3. MidsInv'
    BY <1>0, <1>1, MidsStep
  <2>4. at = 0 /\ at' = at /\ fills' = fills /\ obs' = obs
    BY <1>1 DEF Observe
  <2>5. ScoreInv' /\ OrderInv'
    BY <1>0, <2>4, NothingYet DEF ScoreInv
  <2> QED
    BY <2>1, <2>2, <2>3, <2>5 DEF ReplayInv
<1>2. CASE Rewind
  <2>1. UNCHANGED Kept /\ at = 0 /\ at' = 1 /\ fills' = fills /\ obs' = obs
    BY <1>2 DEF Rewind, Kept
  <2>2. TapeInv' /\ GridInv' /\ MidsInv'
    BY <1>0, <2>1, AfterKept, MidsKept
  <2>3. ScoreInv' /\ OrderInv'
    BY <1>0, <2>1, NothingYet DEF ScoreInv
  <2> QED
    BY <2>2, <2>3 DEF ReplayInv
<1>3. ASSUME NEW filled \in SUBSET Policies, Score(filled) PROVE ReplayInv'
  <2>1. UNCHANGED Kept
    BY <1>3 DEF Score, Kept
  <2>2. TapeInv' /\ GridInv' /\ MidsInv'
    BY <1>0, <2>1, AfterKept, MidsKept
  <2>3. ScoreInv' /\ OrderInv'
    BY <1>0, <1>3, ScoreKept, OrderKept
  <2> QED
    BY <2>2, <2>3 DEF ReplayInv
<1>4. CASE UNCHANGED vars
  <2>1. UNCHANGED Kept /\ at' = at /\ fills' = fills /\ obs' = obs /\ tape' = tape
    BY <1>4 DEF vars, Kept
  <2>2. TapeInv' /\ GridInv' /\ MidsInv'
    BY <1>0, <2>1, AfterKept, MidsKept
  <2>3. ScoreInv'
    <3>1. \A p \in Policies : Scored(p)' = Scored(p)
      <4>1. \A ts : Scores(ts)' = Scores(ts)
        BY <2>1, InForceKept
      <4> QED
        BY <2>1, <4>1 DEF Scored, Scores
    <3>2. \A F, O, S : Matches(F, O, S)' = Matches(F, O, S)
      BY <2>1, InForceKept
    <3>3. \A p \in Policies : Matches(fills[p], obs[p], Scored(p))'
      <4> SUFFICES ASSUME NEW p \in Policies PROVE Matches(fills[p], obs[p], Scored(p))'
        OBVIOUS
      <4>1. PICK F2, O2, S2 : F2 = fills'[p] /\ O2 = obs'[p] /\ S2 = Scored(p)'
        OBVIOUS
      <4>2. F2 = fills[p] /\ O2 = obs[p] /\ S2 = Scored(p)
        BY <2>1, <3>1, <4>1
      <4>3. Matches(F2, O2, S2)
        BY <1>0, <4>2 DEF ScoreInv
      <4>4. Matches(F2, O2, S2)'
        BY <3>2, <4>3
      <4> QED
        BY <4>1, <4>4 DEF Matches
    <3> QED
      BY <1>0, <2>1, <3>3 DEF ScoreInv
  <2>4. OrderInv'
    BY <1>0, <2>1 DEF OrderInv
  <2> QED
    BY <2>2, <2>3, <2>4 DEF ReplayInv
<1> QED
  BY <1>1, <1>2, <1>3, <1>4 DEF Next

LEMMA AlwaysInv == Spec => []ReplayInv
<1>1. Init => ReplayInv
  BY InitInv
<1>2. ReplayInv /\ [Next]_vars => ReplayInv'
  BY NextInv
<1> QED
  BY <1>1, <1>2, PTL DEF Spec

(* sim_mm.cpp, latency_sweep.cpp and strategy_eval.cpp mark a fill out against the mid in      *)
(* force a horizon after it, however many events share an instant and however often the        *)
(* book is one-sided, and leave it out only if no mid was in force or none is known that late. *)
THEOREM NoLookAhead == Spec => []MarkedToMidInForce
<1>1. ReplayInv => MarkedToMidInForce
  BY DEF ReplayInv, ScoreInv, Matches, UpTo, MarkedToMidInForce
<1> QED
  BY <1>1, AlwaysInv, PTL

(* signal_study.cpp takes one sample in every later cell of its grid that an event with a *)
(* touch fell in, at the first of these, and none in a quiet one, however long the quiet. *)
THEOREM OneSamplePerCell == Spec => []SampledOncePerCell
<1>1. ReplayInv => SampledOncePerCell
  BY DEF ReplayInv, GridInv, Firsts, SampledOncePerCell
<1> QED
  BY <1>1, AlwaysInv, PTL

(* The blocks bootstrap.hpp lays over the common span of two series hold every markout of *)
(* both, once, so that the paired point is the difference of the two plain means.         *)
THEOREM NothingLeftOut == Spec => []BlocksHoldAll
<1>1. ReplayInv => BlocksHoldAll
  BY BlocksHold DEF ReplayInv
<1> QED
  BY <1>1, AlwaysInv, PTL

=============================================================================

-------------------------- MODULE HybridBook_proofs --------------------------
(*******************************************************************************)
(* HybridBook, for every size of its pools, every price window and any orders. *)
(*******************************************************************************)
EXTENDS HybridBook, FiniteSetTheorems, WellFoundedInduction, TLAPS

-----------------------------------------------------------------------------
(* Induction, for a set in the place of a predicate. *)

LEMMA LeastNat ==
    ASSUME NEW T \in SUBSET Nat, T # {}
    PROVE  \E n \in T : \A m \in T : n <= m
<1> DEFINE R == OpToRel(<, Nat)
<1>1. IsWellFoundedOn(R, Nat)
  BY NatLessThanWellFounded
<1>2. \A x, y \in Nat : <<x, y>> \in R <=> x < y
  BY DEF OpToRel
<1> HIDE DEF R
<1>3. PICK n \in T : \A m \in T : ~(<<m, n>> \in R)
  BY <1>1, WFMin
<1>4. \A m \in T : ~(m < n)
  BY <1>2, <1>3
<1> QED
  BY <1>4

LEMMA SetInduction ==
    ASSUME NEW T \in SUBSET Nat, 0 \in T, \A n \in Nat : n \in T => n + 1 \in T
    PROVE  T = Nat
<1> SUFFICES ASSUME Nat \ T # {} PROVE FALSE
  OBVIOUS
<1>1. PICK n \in Nat \ T : \A m \in Nat \ T : n <= m
  BY LeastNat
<1>2. n # 0 /\ n - 1 \in Nat /\ n - 1 \in T
  BY <1>1
<1>3. (n - 1) + 1 \in T
  BY <1>2
<1> QED
  BY <1>1, <1>2, <1>3

-----------------------------------------------------------------------------
(* Sums of shares.  MapThenSumSet takes the elements in an order of its own; what *)
(* it comes to does not depend on it.                                             *)
SumOf(orders, S) == MapThenSumSet(LAMBDA oi : orders[oi].qty, S)

Choice(s) == CHOOSE x \in s : TRUE

Folds(w, S, f) ==
    f = [s \in SUBSET S |-> IF s = {} THEN 0
                            ELSE w[Choice(s)].qty + f[s \ {Choice(s)}]]

Counts(w, S) == IsFiniteSet(S) /\ \A x \in S : w[x].qty \in Nat

LEMMA ChoiceIn == \A s : s # {} => Choice(s) \in s
BY DEF Choice

LEMMA SizeOfRest ==
    ASSUME NEW S, IsFiniteSet(S), NEW x \in S, NEW n \in Nat, Cardinality(S) <= n + 1
    PROVE  IsFiniteSet(S \ {x}) /\ Cardinality(S \ {x}) <= n
<1>1. /\ IsFiniteSet(S \ {x}) /\ Cardinality(S \ {x}) = Cardinality(S) - 1
      /\ Cardinality(S) \in Nat
  BY FS_RemoveElement, FS_CardinalityType
<1> QED
  BY <1>1

(* The sums of the subsets of S that have at most n elements. *)
SumsTo(w, S, n, g) ==
    /\ g \in [{s \in SUBSET S : Cardinality(s) <= n} -> Nat]
    /\ \A s \in SUBSET S : Cardinality(s) <= n =>
          g[s] = IF s = {} THEN 0 ELSE w[Choice(s)].qty + g[s \ {Choice(s)}]

LEMMA SumsExist ==
    ASSUME NEW w, NEW S, Counts(w, S), NEW n \in Nat
    PROVE  \E g : SumsTo(w, S, n, g)
<1> DEFINE T == {k \in Nat : \E g : SumsTo(w, S, k, g)}
<1>0. \A s \in SUBSET S : IsFiniteSet(s) /\ Cardinality(s) \in Nat
  BY FS_Subset, FS_CardinalityType DEF Counts
<1>1. 0 \in T
  <2> DEFINE g == [s \in {s \in SUBSET S : Cardinality(s) <= 0} |-> 0]
  <2>1. \A s \in SUBSET S : Cardinality(s) <= 0 => s = {}
    <3> SUFFICES ASSUME NEW s \in SUBSET S, Cardinality(s) <= 0 PROVE s = {}
      OBVIOUS
    <3>1. Cardinality(s) = 0
      BY <1>0
    <3> QED
      BY <1>0, <3>1, FS_EmptySet
  <2>2. SumsTo(w, S, 0, g)
    BY <2>1 DEF SumsTo
  <2> QED
    BY <2>2
<1>2. ASSUME NEW k \in Nat, k \in T PROVE k + 1 \in T
  <2>1. PICK g : SumsTo(w, S, k, g)
    BY <1>2
  <2> DEFINE D == {s \in SUBSET S : Cardinality(s) <= k + 1}
             h == [s \in D |-> IF s = {} THEN 0
                               ELSE w[Choice(s)].qty + g[s \ {Choice(s)}]]
  <2>2. ASSUME NEW s \in D, s # {}
        PROVE  /\ Choice(s) \in s /\ w[Choice(s)].qty \in Nat
               /\ s \ {Choice(s)} \in SUBSET S
               /\ Cardinality(s \ {Choice(s)}) <= k
               /\ g[s \ {Choice(s)}] \in Nat
    <3>1. Choice(s) \in s
      BY <2>2, ChoiceIn
    <3>2. Cardinality(s \ {Choice(s)}) <= k
      BY <1>0, <3>1, SizeOfRest
    <3> QED
      BY <2>1, <3>1, <3>2 DEF Counts, SumsTo
  <2>3. h \in [D -> Nat]
    BY <2>2
  <2>4. \A s \in SUBSET S : Cardinality(s) <= k => h[s] = g[s]
    <3> SUFFICES ASSUME NEW s \in SUBSET S, Cardinality(s) <= k PROVE h[s] = g[s]
      OBVIOUS
    <3>1. s \in D
      BY <1>0
    <3> QED
      BY <2>1, <3>1 DEF SumsTo
  <2>5. ASSUME NEW s \in D
        PROVE  h[s] = IF s = {} THEN 0 ELSE w[Choice(s)].qty + h[s \ {Choice(s)}]
    <3>1. CASE s = {}
      BY <3>1
    <3>2. CASE s # {}
      <4>1. h[s \ {Choice(s)}] = g[s \ {Choice(s)}]
        BY <2>2, <2>4, <3>2
      <4> QED
        BY <3>2, <4>1
    <3> QED
      BY <3>1, <3>2
  <2> HIDE DEF h
  <2>6. SumsTo(w, S, k + 1, h)
    BY <2>3, <2>5 DEF SumsTo
  <2> QED
    BY <2>6
<1>3. T = Nat
  <2> HIDE DEF T
  <2>1. T \in SUBSET Nat
    BY DEF T
  <2> QED
    BY <1>1, <1>2, <2>1, SetInduction
<1> QED
  BY <1>3

(* The recursion has one solution on a set, whatever larger set it is a part of. *)
LEMMA FoldsAgree ==
    ASSUME NEW w, NEW S, NEW f, Folds(w, S, f), NEW v, NEW R, NEW g, Folds(v, R, g),
           NEW s \in SUBSET (S \cap R), IsFiniteSet(s),
           \A x \in s : v[x].qty = w[x].qty
    PROVE  f[s] = g[s]
<1> DEFINE T == {n \in Nat : \A z \in SUBSET s : Cardinality(z) = n => f[z] = g[z]}
<1>0. \A z \in SUBSET s : IsFiniteSet(z) /\ Cardinality(z) \in Nat
  BY FS_Subset, FS_CardinalityType
<1>1. 0 \in T
  <2>1. \A z \in SUBSET s : Cardinality(z) = 0 => z = {}
    BY <1>0, FS_EmptySet
  <2>2. f[{}] = 0 /\ g[{}] = 0
    BY DEF Folds
  <2> QED
    BY <2>1, <2>2
<1>2. ASSUME NEW n \in Nat, n \in T PROVE n + 1 \in T
  <2> SUFFICES ASSUME NEW z \in SUBSET s, Cardinality(z) = n + 1 PROVE f[z] = g[z]
    OBVIOUS
  <2>1. z # {}
    BY FS_EmptySet
  <2>2. PICK x \in z : x = Choice(z)
    BY <2>1, ChoiceIn
  <2>3. Cardinality(z \ {x}) = n /\ z \ {x} \in SUBSET s
    <3>1. IsFiniteSet(z)
      BY <1>0
    <3>2. Cardinality(z \ {x}) = Cardinality(z) - 1
      BY <3>1, FS_RemoveElement
    <3> QED
      BY <3>2
  <2>4. f[z \ {x}] = g[z \ {x}]
    BY <1>2, <2>3
  <2>5. f[z] = w[x].qty + f[z \ {x}]
    BY <2>1, <2>2 DEF Folds
  <2>6. g[z] = v[x].qty + g[z \ {x}]
    BY <2>1, <2>2 DEF Folds
  <2> QED
    BY <2>4, <2>5, <2>6
<1>3. T = Nat
  <2> HIDE DEF T
  <2>1. T \in SUBSET Nat
    BY DEF T
  <2> QED
    BY <1>1, <1>2, <2>1, SetInduction
<1> QED
  BY <1>0, <1>3

LEMMA SumIsFold ==
    ASSUME NEW w, NEW S, Counts(w, S)
    PROVE  \E f : /\ Folds(w, S, f) /\ f \in [SUBSET S -> Nat]
                  /\ SumOf(w, S) = f[S]
<1>0. /\ IsFiniteSet(S) /\ Cardinality(S) \in Nat
      /\ \A s \in SUBSET S : IsFiniteSet(s) /\ Cardinality(s) <= Cardinality(S)
  BY FS_Subset, FS_CardinalityType DEF Counts
<1>1. PICK g : SumsTo(w, S, Cardinality(S), g)
  BY <1>0, SumsExist
<1>2. g \in [SUBSET S -> Nat]
  <2>1. {s \in SUBSET S : Cardinality(s) <= Cardinality(S)} = SUBSET S
    BY <1>0
  <2> QED
    BY <1>1, <2>1 DEF SumsTo
<1>3. Folds(w, S, g)
  <2> DEFINE h == [s \in SUBSET S |-> IF s = {} THEN 0
                                      ELSE w[Choice(s)].qty + g[s \ {Choice(s)}]]
  <2>1. \A s \in SUBSET S : g[s] = h[s]
    BY <1>0, <1>1 DEF SumsTo
  <2>2. g = h
    BY <1>2, <2>1
  <2> QED
    BY <2>2 DEF Folds
<1> DEFINE f == CHOOSE f : Folds(w, S, f)
<1>4. Folds(w, S, f)
  BY <1>3
<1>5. SumOf(w, S) = f[S]
  BY Zenon DEF SumOf, MapThenSumSet, MapThenFoldSet, Folds, Choice
<1> HIDE DEF f
<1>6. f[S] = g[S]
  BY <1>0, <1>3, <1>4, FoldsAgree
<1> QED
  BY <1>2, <1>3, <1>5, <1>6

LEMMA SumSame ==
    ASSUME NEW w, NEW v, NEW S, Counts(w, S), \A x \in S : v[x].qty = w[x].qty
    PROVE  SumOf(v, S) = SumOf(w, S)
<1>0. Counts(v, S) /\ IsFiniteSet(S)
  BY DEF Counts
<1>1. PICK f : Folds(w, S, f) /\ SumOf(w, S) = f[S]
  BY SumIsFold
<1>2. PICK g : Folds(v, S, g) /\ SumOf(v, S) = g[S]
  BY <1>0, SumIsFold
<1> QED
  BY <1>0, <1>1, <1>2, FoldsAgree

LEMMA SumIsNat ==
    ASSUME NEW w, NEW S, Counts(w, S)
    PROVE  SumOf(w, S) \in Nat /\ SumOf(w, {}) = 0
<1>1. SumOf(w, S) \in Nat
  <2>1. PICK f : f \in [SUBSET S -> Nat] /\ SumOf(w, S) = f[S]
    BY SumIsFold
  <2>2. S \in SUBSET S
    OBVIOUS
  <2> QED
    BY <2>1, <2>2
<1>2. Counts(w, {})
  BY FS_EmptySet DEF Counts
<1>3. PICK f : Folds(w, {}, f) /\ SumOf(w, {}) = f[{}]
  BY <1>2, SumIsFold
<1>4. f[{}] = 0
  BY <1>3 DEF Folds
<1> QED
  BY <1>1, <1>3, <1>4

(* Any one element can be taken out of a sum first. *)
LEMMA SumWithout ==
    ASSUME NEW w, NEW S, Counts(w, S), NEW x \in S
    PROVE  SumOf(w, S) = w[x].qty + SumOf(w, S \ {x})
<1>1. PICK f : Folds(w, S, f) /\ f \in [SUBSET S -> Nat] /\ SumOf(w, S) = f[S]
  BY SumIsFold
<1>0. \A s \in SUBSET S : Counts(w, s) /\ IsFiniteSet(s) /\ Cardinality(s) \in Nat
  BY FS_Subset, FS_CardinalityType DEF Counts
<1> DEFINE T == {n \in Nat : \A s \in SUBSET S : Cardinality(s) = n =>
                     \A y \in s : f[s] = w[y].qty + f[s \ {y}]}
<1>2. 0 \in T
  <2>1. \A s \in SUBSET S : Cardinality(s) = 0 => s = {}
    BY <1>0, FS_EmptySet
  <2> QED
    BY <2>1
<1>3. ASSUME NEW n \in Nat, n \in T PROVE n + 1 \in T
  <2> SUFFICES ASSUME NEW s \in SUBSET S, Cardinality(s) = n + 1, NEW y \in s
               PROVE  f[s] = w[y].qty + f[s \ {y}]
    OBVIOUS
  <2>1. PICK c \in s : c = Choice(s)
    BY ChoiceIn
  <2>2. f[s] = w[c].qty + f[s \ {c}]
    BY <1>1, <2>1 DEF Folds
  <2>3. CASE y = c
    BY <2>2, <2>3
  <2>4. CASE y # c
    <3>1. /\ Cardinality(s \ {c}) = n /\ s \ {c} \in SUBSET S
          /\ Cardinality(s \ {y}) = n /\ s \ {y} \in SUBSET S
      <4>1. IsFiniteSet(s)
        BY <1>0
      <4>2. Cardinality(s \ {c}) = Cardinality(s) - 1 /\ Cardinality(s \ {y}) = Cardinality(s) - 1
        BY <4>1, FS_RemoveElement
      <4> QED
        BY <4>2
    <3>2. f[s \ {c}] = w[y].qty + f[(s \ {c}) \ {y}]
      BY <1>3, <2>4, <3>1
    <3>3. f[s \ {y}] = w[c].qty + f[(s \ {y}) \ {c}]
      BY <1>3, <2>4, <3>1
    <3>4. (s \ {c}) \ {y} = (s \ {y}) \ {c}
      OBVIOUS
    <3>5. /\ w[y].qty \in Nat /\ w[c].qty \in Nat /\ f[(s \ {y}) \ {c}] \in Nat
      <4>1. y \in S /\ c \in S /\ (s \ {y}) \ {c} \in SUBSET S
        OBVIOUS
      <4> QED
        BY <1>1, <4>1 DEF Counts
    <3> DEFINE a == w[y].qty
               d == w[c].qty
               r == f[(s \ {y}) \ {c}]
    <3>6. /\ f[s] = d + (a + r) /\ f[s \ {y}] = d + r /\ a \in Nat /\ d \in Nat /\ r \in Nat
          /\ w[y].qty = a
      BY <2>2, <3>2, <3>3, <3>4, <3>5
    <3> HIDE DEF a, d, r
    <3> QED
      BY <3>6
  <2> QED
    BY <2>3, <2>4
<1>4. T = Nat
  <2> HIDE DEF T
  <2>1. T \in SUBSET Nat
    BY DEF T
  <2> QED
    BY <1>2, <1>3, <2>1, SetInduction
<1>5. f[S] = w[x].qty + f[S \ {x}]
  BY <1>0, <1>4
<1>6. f[S \ {x}] = SumOf(w, S \ {x})
  <2>1. S \ {x} \in SUBSET S
    OBVIOUS
  <2>2. PICK g : Folds(w, S \ {x}, g) /\ SumOf(w, S \ {x}) = g[S \ {x}]
    BY <1>0, <2>1, SumIsFold
  <2> QED
    BY <1>0, <1>1, <2>1, <2>2, FoldsAgree
<1> QED
  BY <1>1, <1>5, <1>6

LEMMA SumWith ==
    ASSUME NEW w, NEW S, Counts(w, S), NEW x, x \notin S, w[x].qty \in Nat
    PROVE  SumOf(w, S \cup {x}) = w[x].qty + SumOf(w, S)
<1>1. Counts(w, S \cup {x})
  BY FS_AddElement DEF Counts
<1>2. SumOf(w, S \cup {x}) = w[x].qty + SumOf(w, (S \cup {x}) \ {x})
  BY <1>1, SumWithout
<1>3. (S \cup {x}) \ {x} = S
  OBVIOUS
<1> QED
  BY <1>2, <1>3

Moved(f, S) == {f[x] : x \in S}

LEMMA SizeMoved ==
    ASSUME NEW S, IsFiniteSet(S), NEW f, \A x, y \in S : f[x] = f[y] => x = y
    PROVE  IsFiniteSet(Moved(f, S)) /\ Cardinality(Moved(f, S)) = Cardinality(S)
<1> DEFINE g == [x \in S |-> f[x]]
<1>1. g \in Bijection(S, Moved(f, S))
  <2>1. g \in Injection(S, Moved(f, S))
    BY DEF Injection, IsInjective, Moved
  <2>2. g \in Surjection(S, Moved(f, S))
    BY DEF Surjection, Moved
  <2> QED
    BY <2>1, <2>2 DEF Bijection
<1> QED
  BY <1>1, FS_Bijection DEF ExistsBijection

(* A sum is the same wherever the shares are kept. *)
LEMMA SumMoved ==
    ASSUME NEW w, NEW v, NEW S, Counts(w, S), NEW f, \A x, y \in S : f[x] = f[y] => x = y,
           \A x \in S : v[f[x]].qty = w[x].qty
    PROVE  SumOf(v, Moved(f, S)) = SumOf(w, S)
<1> DEFINE Same(A) == SumOf(v, Moved(f, A)) = SumOf(w, A)
           T == {n \in Nat : \A A \in SUBSET S : Cardinality(A) = n => Same(A)}
<1>0. IsFiniteSet(S) /\ \A x \in S : w[x].qty \in Nat
  BY DEF Counts
<1>1. 0 \in T
  <2> SUFFICES ASSUME NEW A \in SUBSET S, Cardinality(A) = 0 PROVE Same(A)
    OBVIOUS
  <2>1. A = {}
    BY <1>0, FS_Subset, FS_EmptySet
  <2>2. Moved(f, A) = {}
    BY <2>1 DEF Moved
  <2>3. Counts(w, {}) /\ Counts(v, {})
    BY FS_EmptySet DEF Counts
  <2> QED
    BY <2>1, <2>2, <2>3, SumIsNat
<1>2. ASSUME NEW n \in Nat, n \in T PROVE n + 1 \in T
  <2> SUFFICES ASSUME NEW A \in SUBSET S, Cardinality(A) = n + 1 PROVE Same(A)
    OBVIOUS
  <2>1. IsFiniteSet(A) /\ A # {}
    BY <1>0, FS_Subset, FS_EmptySet
  <2>2. PICK x \in A : TRUE
    BY <2>1
  <2>3. PICK B : B = A \ {x}
    OBVIOUS
  <2>4. B \in SUBSET S /\ IsFiniteSet(B) /\ Cardinality(B) = n /\ A = B \cup {x} /\ x \notin B
    <3>1. IsFiniteSet(B) /\ Cardinality(B) = Cardinality(A) - 1
      BY <2>1, <2>2, <2>3, FS_RemoveElement
    <3> QED
      BY <2>2, <2>3, <3>1
  <2>5. Same(B)
    BY <1>2, <2>4
  <2>6. Moved(f, A) = Moved(f, B) \cup {f[x]} /\ f[x] \notin Moved(f, B)
    BY <2>2, <2>4 DEF Moved
  <2>7. IsFiniteSet(Moved(f, B))
    BY <2>4, SizeMoved
  <2>8. Counts(w, B) /\ Counts(v, Moved(f, B))
    <3>1. \A y \in B : w[y].qty \in Nat /\ v[f[y]].qty \in Nat
      BY <1>0, <2>4
    <3>2. \A z \in Moved(f, B) : v[z].qty \in Nat
      BY <3>1 DEF Moved
    <3> QED
      BY <2>4, <2>7, <3>1, <3>2 DEF Counts
  <2>9. w[x].qty \in Nat /\ v[f[x]].qty = w[x].qty
    BY <1>0, <2>2
  <2>10. SumOf(w, B \cup {x}) = w[x].qty + SumOf(w, B)
    BY <2>4, <2>8, <2>9, SumWith
  <2>11. SumOf(v, Moved(f, B) \cup {f[x]}) = v[f[x]].qty + SumOf(v, Moved(f, B))
    BY <2>6, <2>8, <2>9, SumWith
  <2> QED
    BY <2>4, <2>5, <2>6, <2>9, <2>10, <2>11
<1> HIDE DEF T
<1>3. T = Nat
  BY <1>1, <1>2, SetInduction DEF T
<1>4. Cardinality(S) \in T
  BY <1>0, <1>3, FS_CardinalityType
<1> QED
  BY <1>4 DEF T

-----------------------------------------------------------------------------
(* The stacks of free entries: of n entries, those that are not in use. *)
Stacked(s, n, used) ==
    /\ s \in Seq(Nat) /\ IsInjective(s)
    /\ Seqs!ToSet(s) = (0..(n - 1)) \ used

LEMMA StackStarts ==
    ASSUME NEW n \in Nat
    PROVE  Stacked(Stack(n), n, {})
<1> DEFINE s == Stack(n)
<1>1. s \in [1..n -> Nat] /\ \A i \in 1..n : s[i] = n - i
  BY DEF Stack
<1>2. s \in Seq(Nat) /\ Len(s) = n /\ DOMAIN s = 1..n
  BY <1>1
<1> HIDE DEF s
<1>3. IsInjective(s)
  BY <1>1, <1>2 DEF IsInjective
<1>4. Seqs!ToSet(s) = 0..(n - 1)
  <2>1. ASSUME NEW x \in 0..(n - 1) PROVE x \in Seqs!ToSet(s)
    <3>1. n - x \in 1..n /\ s[n - x] = x
      BY <1>1
    <3> QED
      BY <1>2, <3>1 DEF Seqs!ToSet
  <2>2. ASSUME NEW x \in Seqs!ToSet(s) PROVE x \in 0..(n - 1)
    BY <1>1, <1>2 DEF Seqs!ToSet
  <2> QED
    BY <2>1, <2>2
<1> QED
  BY <1>2, <1>3, <1>4 DEF Stacked, s

LEMMA StackGivesOut ==
    ASSUME NEW n \in Nat, NEW used, NEW s, Stacked(s, n, used), s # << >>
    PROVE  /\ Seqs!Last(s) \in 0..(n - 1) /\ Seqs!Last(s) \notin used
           /\ Stacked(Seqs!Front(s), n, used \cup {Seqs!Last(s)})
<1> DEFINE f == Seqs!Front(s)
           l == Seqs!Last(s)
<1>1. /\ s \in Seq(Nat) /\ Len(s) \in Nat /\ Len(s) > 0 /\ DOMAIN s = 1..Len(s)
      /\ Seqs!ToSet(s) = (0..(n - 1)) \ used
      /\ \A i, j \in 1..Len(s) : s[i] = s[j] => i = j
  BY DEF Stacked, IsInjective
<1>2. l = s[Len(s)] /\ Len(s) \in 1..Len(s)
  BY <1>1 DEF Seqs!Last
<1>3. l \in Seqs!ToSet(s)
  BY <1>1, <1>2 DEF Seqs!ToSet
<1>4. f = SubSeq(s, 1, Len(s) - 1)
  BY DEF Seqs!Front
<1>5. /\ f \in Seq(Nat) /\ Len(f) = Len(s) - 1 /\ DOMAIN f = 1..(Len(s) - 1)
      /\ \A i \in 1..(Len(s) - 1) : f[i] = s[i]
  BY <1>1, <1>4
<1> HIDE DEF f, l
<1>8. \A k \in Nat : \A i \in 1..(k - 1) : i \in 1..k /\ i # k
  OBVIOUS
<1>9. \A k \in Nat : \A i \in 1..k : i # k => i \in 1..(k - 1)
  OBVIOUS
<1>6. IsInjective(f)
  BY <1>1, <1>5, <1>8 DEF IsInjective
<1>7. Seqs!ToSet(f) = Seqs!ToSet(s) \ {l}
  <2>1. ASSUME NEW i \in 1..(Len(s) - 1) PROVE f[i] \in Seqs!ToSet(s) \ {l}
    BY <1>1, <1>2, <1>5, <1>8 DEF Seqs!ToSet
  <2>2. ASSUME NEW x \in Seqs!ToSet(s) \ {l} PROVE x \in Seqs!ToSet(f)
    <3>1. PICK i \in 1..Len(s) : s[i] = x
      BY <1>1 DEF Seqs!ToSet
    <3>2. i # Len(s)
      BY <1>2, <3>1
    <3>3. i \in 1..(Len(s) - 1)
      BY <1>9, <3>2
    <3> QED
      BY <1>5, <3>1, <3>3 DEF Seqs!ToSet
  <2> QED
    BY <1>5, <2>1, <2>2 DEF Seqs!ToSet
<1> QED
  BY <1>1, <1>3, <1>5, <1>6, <1>7 DEF Stacked, f, l

LEMMA StackTakesBack ==
    ASSUME NEW n \in Nat, NEW used \in SUBSET (0..(n - 1)), NEW s, Stacked(s, n, used),
           NEW x \in used
    PROVE  Stacked(Append(s, x), n, used \ {x})
<1> DEFINE a == Append(s, x)
<1>1. /\ s \in Seq(Nat) /\ Len(s) \in Nat /\ DOMAIN s = 1..Len(s) /\ x \in Nat
      /\ Seqs!ToSet(s) = (0..(n - 1)) \ used
      /\ \A i, j \in 1..Len(s) : s[i] = s[j] => i = j
  BY DEF Stacked, IsInjective
<1>2. /\ a \in Seq(Nat) /\ Len(a) = Len(s) + 1 /\ DOMAIN a = 1..(Len(s) + 1)
      /\ a[Len(s) + 1] = x /\ \A i \in 1..Len(s) : a[i] = s[i]
  BY <1>1
<1>3. \A i \in 1..Len(s) : s[i] # x
  BY <1>1 DEF Seqs!ToSet
<1> HIDE DEF a
<1>4. IsInjective(a)
  BY <1>1, <1>2, <1>3, SMTT(40) DEF IsInjective
<1>5. Seqs!ToSet(a) = Seqs!ToSet(s) \cup {x}
  <2>1. \A i \in 1..(Len(s) + 1) : i \in 1..Len(s) \/ i = Len(s) + 1
    BY <1>1
  <2>2. \A i \in 1..Len(s) : i \in 1..(Len(s) + 1)
    BY <1>1
  <2>3. Len(s) + 1 \in 1..(Len(s) + 1)
    BY <1>1
  <2> QED
    BY <1>1, <1>2, <2>1, <2>2, <2>3, SMTT(40) DEF Seqs!ToSet
<1> QED
  BY <1>1, <1>2, <1>4, <1>5 DEF Stacked, a

-----------------------------------------------------------------------------
(* The lists of the levels, apart from how a level is found. *)
Entry == [id : Refs, side : Sides, qty : Nat \ {0}, seq : Nat,
          prev : Int, next : Int, level : Int]

LevelEntry == [price : Nat \ {0}, qty : Nat, orders : Nat, head : Int, tail : Int]

OnLevel(O, li) == {i \in DOMAIN O : O[i].level = li}

(* An entry's neighbours know it, and it is where the list begins or ends if it has none. *)
PrevFits(O, L, i) ==
    IF O[i].prev = Nil THEN L[O[i].level].head = i
    ELSE /\ O[i].prev \in DOMAIN O /\ O[O[i].prev].level = O[i].level
         /\ O[O[i].prev].next = i /\ O[O[i].prev].seq < O[i].seq

NextFits(O, L, i) ==
    IF O[i].next = Nil THEN L[O[i].level].tail = i
    ELSE /\ O[i].next \in DOMAIN O /\ O[O[i].next].level = O[i].level
         /\ O[O[i].next].prev = i

EndsFit(O, L, li) ==
    /\ L[li].head = Nil <=> OnLevel(O, li) = {}
    /\ L[li].tail = Nil <=> OnLevel(O, li) = {}
    /\ L[li].head # Nil => L[li].head \in OnLevel(O, li) /\ O[L[li].head].prev = Nil
    /\ L[li].tail # Nil => L[li].tail \in OnLevel(O, li) /\ O[L[li].tail].next = Nil

TotalsFit(O, L, li) ==
    /\ L[li].qty = SumOf(O, OnLevel(O, li))
    /\ L[li].orders = Cardinality(OnLevel(O, li))

EntryFits(O, L, ns, i) ==
    /\ O[i] \in Entry /\ O[i].level \in DOMAIN L /\ O[i].seq < ns
    /\ PrevFits(O, L, i) /\ NextFits(O, L, i)

LevelFits(O, L, li) == L[li] \in LevelEntry /\ EndsFit(O, L, li) /\ TotalsFit(O, L, li)

(* Orders O on levels L; the next stamp is ns. *)
Queues(O, L, ns) ==
    /\ DOMAIN O \subseteq Nat /\ IsFiniteSet(DOMAIN O) /\ DOMAIN L \subseteq Nat /\ ns \in Nat
    /\ \A i \in DOMAIN O : EntryFits(O, L, ns, i)
    /\ \A li \in DOMAIN L : LevelFits(O, L, li)

LEMMA LevelCounts ==
    ASSUME NEW O, NEW L, NEW ns, Queues(O, L, ns), NEW li
    PROVE  /\ Counts(O, OnLevel(O, li)) /\ IsFiniteSet(OnLevel(O, li))
           /\ \A S \in SUBSET DOMAIN O : Counts(O, S) /\ IsFiniteSet(S)
<1>1. \A i \in DOMAIN O : O[i].qty \in Nat
  BY DEF Queues, EntryFits, Entry
<1>2. \A S \in SUBSET DOMAIN O : IsFiniteSet(S)
  BY FS_Subset DEF Queues
<1>3. OnLevel(O, li) \in SUBSET DOMAIN O
  BY DEF OnLevel
<1> QED
  BY <1>1, <1>2, <1>3 DEF Counts

(* The entry no other precedes has the lowest stamp of its level. *)
LEMMA FirstIsOldest ==
    ASSUME NEW O, NEW L, NEW ns, Queues(O, L, ns), NEW i \in DOMAIN O, O[i].prev = Nil,
           NEW j \in OnLevel(O, O[i].level)
    PROVE  O[i].seq <= O[j].seq
<1> DEFINE li == O[i].level
           T == {n \in Nat : \E k \in OnLevel(O, li) : O[k].seq = n}
<1>1. \A k \in OnLevel(O, li) : k \in DOMAIN O /\ O[k].level = li /\ O[k].seq \in Nat
  BY DEF OnLevel, Queues, EntryFits, Entry
<1>2. O[j].seq \in T
  BY <1>1
<1>3. PICK n \in T : \A m \in T : n <= m
  BY <1>2, LeastNat
<1>4. PICK k \in OnLevel(O, li) : O[k].seq = n
  BY <1>3
<1>5. O[k].prev = Nil
  <2> SUFFICES ASSUME O[k].prev # Nil PROVE FALSE
    OBVIOUS
  <2>1. PrevFits(O, L, k)
    BY <1>1 DEF Queues, EntryFits
  <2>2. /\ O[k].prev \in OnLevel(O, li) /\ O[O[k].prev].seq < n
    BY <1>1, <1>4, <2>1 DEF PrevFits, OnLevel
  <2>3. O[O[k].prev].seq \in T
    BY <1>1, <2>2
  <2> QED
    BY <1>3, <2>2, <2>3
<1>6. PrevFits(O, L, k) /\ PrevFits(O, L, i)
  BY <1>1 DEF Queues, EntryFits
<1>7. k = i
  BY <1>1, <1>5, <1>6 DEF PrevFits
<1> QED
  BY <1>2, <1>3, <1>4, <1>7

LEMMA AloneOnLevel ==
    ASSUME NEW O, NEW L, NEW ns, Queues(O, L, ns), NEW i \in DOMAIN O,
           O[i].prev = Nil, O[i].next = Nil
    PROVE  OnLevel(O, O[i].level) = {i}
<1> DEFINE li == O[i].level
           S == OnLevel(O, li) \ {i}
           T == {n \in Nat : \E k \in S : O[k].seq = n}
<1> SUFFICES ASSUME NEW j \in S PROVE FALSE
  BY DEF OnLevel
<1>1. \A k \in OnLevel(O, li) : /\ k \in DOMAIN O /\ O[k].level = li /\ O[k].seq \in Nat /\ k # Nil
                                /\ PrevFits(O, L, k) /\ NextFits(O, L, k)
  BY DEF OnLevel, Queues, EntryFits, Entry, Nil
<1>2. O[j].seq \in T
  BY <1>1
<1>3. PICK n \in T : \A m \in T : n <= m
  BY <1>2, LeastNat
<1>4. PICK k \in S : O[k].seq = n
  BY <1>3
<1>5. i \in OnLevel(O, li)
  BY DEF OnLevel
<1>6. CASE O[k].prev = Nil
  BY <1>1, <1>4, <1>5, <1>6 DEF PrevFits
<1>7. CASE O[k].prev # Nil
  <2>1. /\ O[k].prev \in OnLevel(O, li) /\ O[O[k].prev].seq < n /\ O[O[k].prev].next = k
    BY <1>1, <1>4, <1>7 DEF PrevFits, OnLevel
  <2>2. O[k].prev # i
    BY <1>1, <1>4, <2>1
  <2>3. O[O[k].prev].seq \in T
    BY <1>1, <2>1, <2>2
  <2> QED
    BY <1>3, <2>1, <2>3
<1> QED
  BY <1>6, <1>7

(* An order joins the tail of its level's list. *)
Joins(O, L, oi, li, O2, L2) ==
    /\ DOMAIN O2 = DOMAIN O \cup {oi} /\ O2[oi] \in Entry
    /\ O2[oi].prev = L[li].tail /\ O2[oi].next = Nil /\ O2[oi].level = li
    /\ \A i \in DOMAIN O : O2[i] = IF i = L[li].tail THEN [O[i] EXCEPT !.next = oi] ELSE O[i]
    /\ DOMAIN L2 = DOMAIN L
    /\ \A l \in DOMAIN L \ {li} : L2[l] = L[l]
    /\ L2[li] = [price |-> L[li].price, qty |-> L[li].qty + O2[oi].qty,
                 orders |-> L[li].orders + 1,
                 head |-> IF L[li].tail = Nil THEN oi ELSE L[li].head, tail |-> oi]

(* What an event leaves as it is of an order. *)
SameOrder(o, p) == /\ o.id = p.id /\ o.side = p.side /\ o.qty = p.qty /\ o.seq = p.seq
                   /\ o.level = p.level

LEMMA JoinQueues ==
    ASSUME NEW O, NEW L, NEW ns, Queues(O, L, ns), NEW oi \in Nat, oi \notin DOMAIN O,
           NEW li \in DOMAIN L, NEW O2, NEW L2, Joins(O, L, oi, li, O2, L2), O2[oi].seq = ns
    PROVE  /\ Queues(O2, L2, ns + 1)
           /\ \A i \in DOMAIN O : SameOrder(O2[i], O[i])
<1> DEFINE t == L[li].tail
<1>0. /\ DOMAIN O \subseteq Nat /\ IsFiniteSet(DOMAIN O) /\ DOMAIN L \subseteq Nat /\ ns \in Nat
      /\ Nil = -1 /\ Nil \notin DOMAIN O
      /\ \A i \in DOMAIN O : /\ O[i] \in Entry /\ O[i].level \in DOMAIN L /\ O[i].seq < ns
                             /\ PrevFits(O, L, i) /\ NextFits(O, L, i)
      /\ \A l \in DOMAIN L : L[l] \in LevelEntry /\ EndsFit(O, L, l) /\ TotalsFit(O, L, l)
  BY DEF Queues, EntryFits, LevelFits, Nil
<1>1. /\ DOMAIN O2 = DOMAIN O \cup {oi} /\ O2[oi] \in Entry
      /\ O2[oi].prev = t /\ O2[oi].next = Nil /\ O2[oi].level = li
      /\ DOMAIN L2 = DOMAIN L /\ \A l \in DOMAIN L \ {li} : L2[l] = L[l]
      /\ L2[li].price = L[li].price /\ L2[li].qty = L[li].qty + O2[oi].qty
      /\ L2[li].orders = L[li].orders + 1 /\ L2[li].tail = oi
      /\ L2[li].head = IF t = Nil THEN oi ELSE L[li].head
  BY DEF Joins
<1>2. ASSUME NEW i \in DOMAIN O
      PROVE  /\ O2[i] \in Entry /\ SameOrder(O2[i], O[i]) /\ O2[i].prev = O[i].prev
             /\ O2[i].next = IF i = t THEN oi ELSE O[i].next
  <2>1. O[i] \in Entry /\ oi \in Int
    BY <1>0
  <2>2. O2[i] = IF i = t THEN [O[i] EXCEPT !.next = oi] ELSE O[i]
    BY DEF Joins
  <2> QED
    BY <2>1, <2>2 DEF Entry, SameOrder
<1>3. OnLevel(O2, li) = OnLevel(O, li) \cup {oi}
  BY <1>1, <1>2 DEF OnLevel, SameOrder
<1>4. \A l \in DOMAIN L \ {li} : OnLevel(O2, l) = OnLevel(O, l)
  BY <1>1, <1>2 DEF OnLevel, SameOrder
<1>e. EndsFit(O, L, li)
  BY <1>0
<1>5. ASSUME NEW i \in DOMAIN O PROVE PrevFits(O2, L2, i)
  <2>1. PrevFits(O, L, i) /\ O[i].level \in DOMAIN L
    BY <1>0
  <2>2. CASE O[i].prev = Nil
    <3>1. L[O[i].level].head = i
      BY <2>1, <2>2 DEF PrevFits
    <3>2. O[i].level = li => t # Nil
      BY <1>e DEF EndsFit, OnLevel
    <3>3. L2[O[i].level].head = L[O[i].level].head
      BY <1>1, <2>1, <3>2
    <3> QED
      BY <1>2, <2>2, <3>1, <3>3 DEF PrevFits, SameOrder
  <2>3. CASE O[i].prev # Nil
    <3>1. /\ O[i].prev \in DOMAIN O /\ O[O[i].prev].level = O[i].level
          /\ O[O[i].prev].next = i /\ O[O[i].prev].seq < O[i].seq
      BY <2>1, <2>3 DEF PrevFits
    <3>2. O[i].prev # t
      BY <1>0, <1>e, <3>1 DEF EndsFit
    <3> QED
      BY <1>1, <1>2, <2>3, <3>1, <3>2 DEF PrevFits, SameOrder
  <2> QED
    BY <2>2, <2>3
<1>6. ASSUME NEW i \in DOMAIN O PROVE NextFits(O2, L2, i)
  <2>1. NextFits(O, L, i) /\ O[i].level \in DOMAIN L
    BY <1>0
  <2>2. CASE i = t
    <3>1. O[i].level = li
      BY <1>0, <1>e, <2>2 DEF EndsFit, OnLevel
    <3> QED
      BY <1>0, <1>1, <1>2, <2>2, <3>1 DEF NextFits, SameOrder
  <2>3. CASE i # t /\ O[i].next = Nil
    <3>1. L[O[i].level].tail = i
      BY <2>1, <2>3 DEF NextFits
    <3>2. O[i].level # li
      BY <2>3, <3>1
    <3> QED
      BY <1>1, <1>2, <2>1, <2>3, <3>1, <3>2 DEF NextFits, SameOrder
  <2>4. CASE i # t /\ O[i].next # Nil
    <3>1. /\ O[i].next \in DOMAIN O /\ O[O[i].next].level = O[i].level
          /\ O[O[i].next].prev = i
      BY <2>1, <2>4 DEF NextFits
    <3> QED
      BY <1>1, <1>2, <2>4, <3>1 DEF NextFits, SameOrder
  <2> QED
    BY <2>2, <2>3, <2>4
<1>7. PrevFits(O2, L2, oi) /\ NextFits(O2, L2, oi)
  <2>1. NextFits(O2, L2, oi)
    BY <1>1 DEF NextFits
  <2>4. /\ O2[oi].prev = t /\ O2[oi].level = li /\ O2[oi].seq = ns
        /\ t = Nil => L2[li].head = oi
    BY <1>1
  <2> HIDE DEF t
  <2>2. CASE t = Nil
    BY <2>1, <2>2, <2>4 DEF PrevFits
  <2>3. CASE t # Nil
    <3>1. t \in DOMAIN O /\ O[t].level = li
      BY <1>e, <2>3 DEF EndsFit, OnLevel, t
    <3>2. O2[t].level = li /\ O2[t].next = oi /\ O2[t].seq < ns
      BY <1>0, <1>2, <3>1 DEF SameOrder
    <3>3. t \in DOMAIN O2
      BY <1>1, <3>1
    <3> QED
      BY <2>1, <2>3, <2>4, <3>2, <3>3 DEF PrevFits
  <2> QED
    BY <2>1, <2>2, <2>3
<1>8. ASSUME NEW l \in DOMAIN L PROVE LevelFits(O2, L2, l)
  <2>1. CASE l # li
    <3>1. L2[l] = L[l] /\ OnLevel(O2, l) = OnLevel(O, l)
      BY <1>1, <1>4, <2>1
    <3>2. EndsFit(O, L, l) /\ TotalsFit(O, L, l) /\ L[l] \in LevelEntry
      BY <1>0
    <3>3. EndsFit(O2, L2, l)
      <4>1. L[l].tail # t \/ L[l].tail = Nil
        BY <1>e, <2>1, <3>2 DEF EndsFit, OnLevel
      <4> QED
        BY <1>0, <1>2, <3>1, <3>2, <4>1 DEF EndsFit, OnLevel
    <3>4. SumOf(O2, OnLevel(O, l)) = SumOf(O, OnLevel(O, l))
      <4>1. Counts(O, OnLevel(O, l))
        BY LevelCounts
      <4>2. \A x \in OnLevel(O, l) : O2[x].qty = O[x].qty
        BY <1>2 DEF OnLevel, SameOrder
      <4> QED
        BY <4>1, <4>2, SumSame
    <3> QED
      BY <3>1, <3>2, <3>3, <3>4 DEF LevelFits, TotalsFit
  <2>2. CASE l = li
    <3>1. Counts(O, OnLevel(O, li)) /\ IsFiniteSet(OnLevel(O, li)) /\ oi \notin OnLevel(O, li)
      BY LevelCounts DEF OnLevel
    <3>2. SumOf(O2, OnLevel(O2, li)) = O2[oi].qty + SumOf(O, OnLevel(O, li))
      <4>1. \A x \in OnLevel(O, li) : O2[x].qty = O[x].qty
        BY <1>2 DEF OnLevel, SameOrder
      <4>2. SumOf(O2, OnLevel(O, li)) = SumOf(O, OnLevel(O, li))
        BY <3>1, <4>1, SumSame
      <4>3. Counts(O2, OnLevel(O, li))
        BY <3>1, <4>1 DEF Counts
      <4>4. O2[oi].qty \in Nat
        BY <1>1 DEF Entry
      <4> QED
        BY <1>3, <3>1, <4>2, <4>3, <4>4, SumWith
    <3>3. Cardinality(OnLevel(O2, li)) = Cardinality(OnLevel(O, li)) + 1
      BY <1>3, <3>1, FS_AddElement
    <3>4. L[li] \in LevelEntry /\ TotalsFit(O, L, li)
      BY <1>0
    <3>5. L[li].qty \in Nat /\ L[li].orders \in Nat /\ O2[oi].qty \in Nat
      BY <1>1, <3>4 DEF Entry, LevelEntry
    <3>6. TotalsFit(O2, L2, li)
      BY <1>1, <3>2, <3>3, <3>4, <3>5 DEF TotalsFit
    <3>7. EndsFit(O2, L2, li)
      <4>1. /\ OnLevel(O2, li) # {} /\ oi \in OnLevel(O2, li) /\ oi # Nil
        BY <1>0, <1>3
      <4>2. L2[li].tail = oi /\ O2[oi].next = Nil
        BY <1>1
      <4>3. CASE t = Nil
        BY <1>1, <4>1, <4>2, <4>3 DEF EndsFit
      <4>4. CASE t # Nil
        <5>1. L[li].head \in OnLevel(O, li) /\ O[L[li].head].prev = Nil /\ L[li].head # Nil
          BY <1>e, <4>4 DEF EndsFit
        <5>2. L2[li].head = L[li].head /\ L[li].head \in DOMAIN O
          BY <1>1, <4>4, <5>1 DEF OnLevel
        <5>3. O2[L[li].head].prev = Nil
          BY <1>2, <5>1, <5>2
        <5> QED
          BY <1>3, <4>1, <4>2, <5>1, <5>2, <5>3 DEF EndsFit
      <4> QED
        BY <4>3, <4>4
    <3>8. L2[li] \in LevelEntry
      <4>1. L[li].price \in Nat \ {0} /\ L[li].head \in Int
        BY <3>4 DEF LevelEntry
      <4> QED
        BY <3>5, <4>1 DEF Joins, LevelEntry
    <3> QED
      BY <2>2, <3>6, <3>7, <3>8 DEF LevelFits
  <2> QED
    BY <2>1, <2>2
<1>9. ASSUME NEW i \in DOMAIN O2 PROVE EntryFits(O2, L2, ns + 1, i)
  <2>1. CASE i = oi
    BY <1>0, <1>1, <1>7, <2>1 DEF EntryFits
  <2>2. CASE i \in DOMAIN O
    <3>1. O2[i].seq < ns + 1
      BY <1>0, <1>2, <2>2 DEF SameOrder, Entry
    <3> QED
      BY <1>0, <1>1, <1>2, <1>5, <1>6, <2>2, <3>1 DEF EntryFits, SameOrder
  <2> QED
    BY <1>1, <2>1, <2>2
<1>10. IsFiniteSet(DOMAIN O2) /\ DOMAIN O2 \subseteq Nat /\ ns + 1 \in Nat
  BY <1>0, <1>1, FS_AddElement
<1> QED
  BY <1>0, <1>1, <1>2, <1>8, <1>9, <1>10 DEF Queues

(* An order leaves its level's list. *)
Leaves(O, L, oi, O2, L2) ==
    LET o == O[oi] IN
    /\ DOMAIN O2 = DOMAIN O \ {oi}
    /\ \A i \in DOMAIN O \ {oi} :
          O2[i] = [O[i] EXCEPT !.next = IF i = o.prev THEN o.next ELSE @,
                               !.prev = IF i = o.next THEN o.prev ELSE @]
    /\ DOMAIN L2 = DOMAIN L
    /\ \A l \in DOMAIN L \ {o.level} : L2[l] = L[l]
    /\ L2[o.level] = [price |-> L[o.level].price, qty |-> L[o.level].qty - o.qty,
                      orders |-> L[o.level].orders - 1,
                      head |-> IF o.prev = Nil THEN o.next ELSE L[o.level].head,
                      tail |-> IF o.next = Nil THEN o.prev ELSE L[o.level].tail]

LEMMA LeaveQueues ==
    ASSUME NEW O, NEW L, NEW ns, Queues(O, L, ns), NEW oi \in DOMAIN O,
           NEW O2, NEW L2, Leaves(O, L, oi, O2, L2)
    PROVE  /\ Queues(O2, L2, ns)
           /\ \A i \in DOMAIN O \ {oi} : SameOrder(O2[i], O[i])
           /\ OnLevel(O2, O[oi].level) = OnLevel(O, O[oi].level) \ {oi}
           /\ \A l \in DOMAIN L \ {O[oi].level} : OnLevel(O2, l) = OnLevel(O, l)
<1> DEFINE li == O[oi].level
           p == O[oi].prev
           n == O[oi].next
<1>0. /\ DOMAIN O \subseteq Nat /\ IsFiniteSet(DOMAIN O) /\ DOMAIN L \subseteq Nat /\ ns \in Nat
      /\ Nil = -1 /\ Nil \notin DOMAIN O
      /\ \A i \in DOMAIN O : /\ O[i] \in Entry /\ O[i].level \in DOMAIN L /\ O[i].seq < ns
                             /\ PrevFits(O, L, i) /\ NextFits(O, L, i) /\ O[i].seq \in Nat
      /\ \A l \in DOMAIN L : L[l] \in LevelEntry /\ EndsFit(O, L, l) /\ TotalsFit(O, L, l)
  BY DEF Queues, EntryFits, LevelFits, Nil, Entry
<1>1. /\ DOMAIN O2 = DOMAIN O \ {oi} /\ li \in DOMAIN L
      /\ DOMAIN L2 = DOMAIN L /\ \A l \in DOMAIN L \ {li} : L2[l] = L[l]
      /\ L2[li].price = L[li].price /\ L2[li].qty = L[li].qty - O[oi].qty
      /\ L2[li].orders = L[li].orders - 1
      /\ L2[li].head = IF p = Nil THEN n ELSE L[li].head
      /\ L2[li].tail = IF n = Nil THEN p ELSE L[li].tail
  <2>1. /\ DOMAIN O2 = DOMAIN O \ {oi} /\ DOMAIN L2 = DOMAIN L
        /\ \A l \in DOMAIN L \ {li} : L2[l] = L[l]
        /\ L2[li] = [price |-> L[li].price, qty |-> L[li].qty - O[oi].qty,
                      orders |-> L[li].orders - 1,
                      head |-> IF p = Nil THEN n ELSE L[li].head,
                      tail |-> IF n = Nil THEN p ELSE L[li].tail]
    BY Zenon DEF Leaves
  <2>2. li \in DOMAIN L
    BY <1>0
  <2> HIDE DEF li, p, n
  <2> QED
    BY <2>1, <2>2
<1>2. ASSUME NEW i \in DOMAIN O \ {oi}
      PROVE  /\ O2[i] \in Entry /\ SameOrder(O2[i], O[i])
             /\ O2[i].prev = IF i = n THEN p ELSE O[i].prev
             /\ O2[i].next = IF i = p THEN n ELSE O[i].next
  <2>1. O[i] \in Entry /\ n \in Int /\ p \in Int
    BY <1>0 DEF Entry
  <2>2. O2[i] = [O[i] EXCEPT !.next = IF i = p THEN n ELSE @, !.prev = IF i = n THEN p ELSE @]
    BY DEF Leaves
  <2> HIDE DEF n, p
  <2> QED
    BY <2>1, <2>2 DEF Entry, SameOrder
<1>3. OnLevel(O2, li) = OnLevel(O, li) \ {oi}
  BY <1>1, <1>2 DEF OnLevel, SameOrder
<1>4. \A l \in DOMAIN L \ {li} : OnLevel(O2, l) = OnLevel(O, l)
  BY <1>1, <1>2 DEF OnLevel, SameOrder
<1>p. p # Nil => /\ p \in DOMAIN O \ {oi} /\ O[p].level = li /\ O[p].next = oi
                 /\ O[p].seq < O[oi].seq
  BY <1>0 DEF PrevFits
<1>n. n # Nil => /\ n \in DOMAIN O \ {oi} /\ O[n].level = li /\ O[n].prev = oi
                 /\ O[oi].seq < O[n].seq
  <2> SUFFICES ASSUME n # Nil
               PROVE  /\ n \in DOMAIN O \ {oi} /\ O[n].level = li /\ O[n].prev = oi
                      /\ O[oi].seq < O[n].seq
    OBVIOUS
  <2>1. n \in DOMAIN O /\ O[n].level = li /\ O[n].prev = oi
    BY <1>0 DEF NextFits
  <2>2. O[oi].seq < O[n].seq
    BY <1>0, <2>1 DEF PrevFits
  <2> QED
    BY <1>0, <2>1, <2>2
<1>h. /\ p = Nil => L[li].head = oi
      /\ n = Nil => L[li].tail = oi
  BY <1>0 DEF PrevFits, NextFits
<1>5. ASSUME NEW i \in DOMAIN O \ {oi} PROVE PrevFits(O2, L2, i)
  <2>1. PrevFits(O, L, i) /\ O[i].level \in DOMAIN L
    BY <1>0
  <2>2. CASE i = n /\ p = Nil
    <3>1. O2[i].prev = Nil /\ O2[i].level = li /\ L2[li].head = i
      BY <1>0, <1>1, <1>2, <1>n, <2>2 DEF SameOrder
    <3> QED
      BY <3>1 DEF PrevFits
  <2>3. CASE i = n /\ p # Nil
    <3>1. O2[i].prev = p /\ O2[i].level = li /\ O2[i].seq = O[i].seq
      BY <1>0, <1>2, <1>n, <2>3 DEF SameOrder
    <3>2. /\ p \in DOMAIN O2 /\ O2[p].level = li /\ O2[p].next = i /\ O2[p].seq = O[p].seq
      BY <1>1, <1>2, <1>p, <2>3 DEF SameOrder
    <3>3. O[p].seq < O[i].seq
      <4>1. /\ O[p].seq < O[oi].seq /\ O[oi].seq < O[i].seq
            /\ O[p].seq \in Nat /\ O[oi].seq \in Nat /\ O[i].seq \in Nat
        BY <1>0, <1>p, <1>n, <2>3
      <4> QED
        BY <4>1
    <3> HIDE DEF p
    <3> QED
      BY <2>3, <3>1, <3>2, <3>3 DEF PrevFits
  <2>4. CASE i # n /\ O[i].prev = Nil
    <3>1. L[O[i].level].head = i
      BY <2>1, <2>4 DEF PrevFits
    <3>2. O[i].level = li => p # Nil
      BY <1>h, <3>1
    <3>3. L2[O[i].level].head = i
      BY <1>1, <2>1, <3>1, <3>2
    <3> QED
      BY <1>2, <2>4, <3>3 DEF PrevFits, SameOrder
  <2>5. CASE i # n /\ O[i].prev # Nil
    <3>1. /\ O[i].prev \in DOMAIN O /\ O[O[i].prev].level = O[i].level
          /\ O[O[i].prev].next = i /\ O[O[i].prev].seq < O[i].seq
      BY <2>1, <2>5 DEF PrevFits
    <3>2. O[i].prev # oi
      BY <2>5, <3>1
    <3>3. O[i].prev # p
      BY <1>p, <2>5, <3>1
    <3>4. O2[i].prev = O[i].prev /\ O2[i].level = O[i].level /\ O2[i].seq = O[i].seq
      BY <1>2, <2>5 DEF SameOrder
    <3>5. /\ O[i].prev \in DOMAIN O2 /\ O2[O[i].prev].level = O[i].level
          /\ O2[O[i].prev].next = i /\ O2[O[i].prev].seq < O[i].seq
      BY <1>1, <1>2, <3>1, <3>2, <3>3 DEF SameOrder
    <3> QED
      BY <2>5, <3>4, <3>5 DEF PrevFits
  <2> QED
    BY <2>2, <2>3, <2>4, <2>5
<1>6. ASSUME NEW i \in DOMAIN O \ {oi} PROVE NextFits(O2, L2, i)
  <2>1. NextFits(O, L, i) /\ O[i].level \in DOMAIN L
    BY <1>0
  <2>2. CASE i = p /\ n = Nil
    <3>1. O2[i].next = Nil /\ O2[i].level = li /\ L2[li].tail = i
      BY <1>0, <1>1, <1>2, <1>p, <2>2 DEF SameOrder
    <3> QED
      BY <3>1 DEF NextFits
  <2>3. CASE i = p /\ n # Nil
    <3>1. O2[i].next = n /\ O2[i].level = li
      BY <1>0, <1>2, <1>p, <2>3 DEF SameOrder
    <3>2. n \in DOMAIN O2 /\ O2[n].level = li /\ O2[n].prev = i
      BY <1>1, <1>2, <1>n, <2>3 DEF SameOrder
    <3> HIDE DEF n
    <3> QED
      BY <2>3, <3>1, <3>2 DEF NextFits
  <2>4. CASE i # p /\ O[i].next = Nil
    <3>1. L[O[i].level].tail = i
      BY <2>1, <2>4 DEF NextFits
    <3>2. O[i].level = li => n # Nil
      BY <1>h, <3>1
    <3>3. L2[O[i].level].tail = i
      BY <1>1, <2>1, <3>1, <3>2
    <3> QED
      BY <1>2, <2>4, <3>3 DEF NextFits, SameOrder
  <2>5. CASE i # p /\ O[i].next # Nil
    <3>1. /\ O[i].next \in DOMAIN O /\ O[O[i].next].level = O[i].level
          /\ O[O[i].next].prev = i
      BY <2>1, <2>5 DEF NextFits
    <3>2. O[i].next # oi
      BY <2>5, <3>1
    <3>3. O[i].next # n
      BY <1>n, <2>5, <3>1
    <3>4. O2[i].next = O[i].next /\ O2[i].level = O[i].level
      BY <1>2, <2>5 DEF SameOrder
    <3>5. /\ O[i].next \in DOMAIN O2 /\ O2[O[i].next].level = O[i].level
          /\ O2[O[i].next].prev = i
      BY <1>1, <1>2, <3>1, <3>2, <3>3 DEF SameOrder
    <3> QED
      BY <2>5, <3>4, <3>5 DEF NextFits
  <2> QED
    BY <2>2, <2>3, <2>4, <2>5
<1>7. EndsFit(O2, L2, li)
  <2>0. EndsFit(O, L, li) /\ oi \in OnLevel(O, li)
    BY <1>0, <1>1 DEF OnLevel
  <2>1. L[li].head # Nil /\ L[li].tail # Nil
    BY <2>0 DEF EndsFit
  <2>2. CASE p = Nil /\ n = Nil
    <3>1. OnLevel(O, li) = {oi}
      BY <2>2, AloneOnLevel
    <3>2. OnLevel(O2, li) = {} /\ L2[li].head = Nil /\ L2[li].tail = Nil
      BY <1>1, <1>3, <2>2, <3>1
    <3> QED
      BY <3>2 DEF EndsFit
  <2>3. CASE p # Nil \/ n # Nil
    <3>1. OnLevel(O2, li) # {}
      BY <1>3, <1>p, <1>n, <2>3 DEF OnLevel
    <3>2. /\ L2[li].head # Nil /\ L2[li].head \in OnLevel(O2, li)
          /\ O2[L2[li].head].prev = Nil
      <4>1. CASE p = Nil
        <5>1. L2[li].head = n /\ n # Nil
          BY <1>1, <2>3, <4>1
        <5>2. n \in OnLevel(O2, li) /\ O2[n].prev = Nil
          BY <1>2, <1>3, <1>n, <4>1, <5>1 DEF OnLevel
        <5> QED
          BY <5>1, <5>2
      <4>2. CASE p # Nil
        <5>1. L2[li].head = L[li].head /\ L[li].head \in OnLevel(O, li)
              /\ O[L[li].head].prev = Nil
          BY <1>1, <2>0, <2>1, <4>2 DEF EndsFit
        <5>2. L[li].head # oi
          BY <4>2, <5>1
        <5>3. L[li].head # n
          BY <1>0, <1>n, <2>1, <5>1
        <5>4. L[li].head \in DOMAIN O \ {oi}
          BY <5>1, <5>2 DEF OnLevel
        <5>5. O2[L[li].head].prev = Nil
          BY <1>2, <5>1, <5>3, <5>4
        <5> QED
          BY <1>3, <2>1, <5>1, <5>2, <5>5
      <4> QED
        BY <4>1, <4>2
    <3>3. /\ L2[li].tail # Nil /\ L2[li].tail \in OnLevel(O2, li)
          /\ O2[L2[li].tail].next = Nil
      <4>1. CASE n = Nil
        <5>1. L2[li].tail = p /\ p # Nil
          BY <1>1, <2>3, <4>1
        <5>2. p \in OnLevel(O2, li) /\ O2[p].next = Nil
          BY <1>2, <1>3, <1>p, <4>1, <5>1 DEF OnLevel
        <5> QED
          BY <5>1, <5>2
      <4>2. CASE n # Nil
        <5>1. L2[li].tail = L[li].tail /\ L[li].tail \in OnLevel(O, li)
              /\ O[L[li].tail].next = Nil
          BY <1>1, <2>0, <2>1, <4>2 DEF EndsFit
        <5>2. L[li].tail # oi
          BY <4>2, <5>1
        <5>3. L[li].tail # p
          BY <1>0, <1>p, <2>1, <5>1
        <5>4. L[li].tail \in DOMAIN O \ {oi}
          BY <5>1, <5>2 DEF OnLevel
        <5>5. O2[L[li].tail].next = Nil
          BY <1>2, <5>1, <5>3, <5>4
        <5> QED
          BY <1>3, <2>1, <5>1, <5>2, <5>5
      <4> QED
        BY <4>1, <4>2
    <3> QED
      BY <3>1, <3>2, <3>3 DEF EndsFit
  <2> QED
    BY <2>2, <2>3
<1>8. TotalsFit(O2, L2, li) /\ L2[li] \in LevelEntry
  <2>1. Counts(O, OnLevel(O, li)) /\ IsFiniteSet(OnLevel(O, li)) /\ oi \in OnLevel(O, li)
    BY <1>1, LevelCounts DEF OnLevel
  <2>2. SumOf(O, OnLevel(O, li)) = O[oi].qty + SumOf(O, OnLevel(O, li) \ {oi})
    BY <2>1, SumWithout
  <2>3. /\ Counts(O, OnLevel(O, li) \ {oi}) /\ IsFiniteSet(OnLevel(O, li) \ {oi})
        /\ SumOf(O, OnLevel(O, li) \ {oi}) \in Nat
    <3>1. Counts(O, OnLevel(O, li) \ {oi})
      BY <2>1, FS_RemoveElement DEF Counts
    <3> QED
      BY <3>1, SumIsNat DEF Counts
  <2>4. SumOf(O2, OnLevel(O2, li)) = SumOf(O, OnLevel(O, li) \ {oi})
    <3>1. \A x \in OnLevel(O, li) \ {oi} : O2[x].qty = O[x].qty
      BY <1>2 DEF OnLevel, SameOrder
    <3> QED
      BY <1>3, <2>3, <3>1, SumSame
  <2>5. Cardinality(OnLevel(O2, li)) = Cardinality(OnLevel(O, li)) - 1
    BY <1>3, <2>1, FS_RemoveElement
  <2>6. L[li] \in LevelEntry /\ TotalsFit(O, L, li) /\ O[oi].qty \in Nat
    BY <1>0, <1>1 DEF Entry
  <2>7. L2[li].qty = SumOf(O2, OnLevel(O2, li)) /\ L2[li].qty \in Nat
    BY <1>1, <2>2, <2>3, <2>4, <2>6 DEF TotalsFit
  <2>8. L2[li].orders = Cardinality(OnLevel(O2, li)) /\ L2[li].orders \in Nat
    <3>1. Cardinality(OnLevel(O2, li)) \in Nat
      BY <1>3, <2>3, FS_CardinalityType
    <3> QED
      BY <1>1, <2>5, <2>6, <3>1 DEF TotalsFit
  <2>9. L2[li] \in LevelEntry
    <3>1. L[li].price \in Nat \ {0} /\ L[li].head \in Int /\ L[li].tail \in Int
      BY <2>6 DEF LevelEntry
    <3>2. p \in Int /\ n \in Int
      BY <1>0 DEF Entry
    <3>3. /\ L2[li] = [price |-> L2[li].price, qty |-> L2[li].qty, orders |-> L2[li].orders,
                       head |-> L2[li].head, tail |-> L2[li].tail]
      BY DEF Leaves
    <3>4. L2[li].price \in Nat \ {0} /\ L2[li].head \in Int /\ L2[li].tail \in Int
      BY <1>1, <3>1, <3>2
    <3> QED
      BY <2>7, <2>8, <3>3, <3>4 DEF LevelEntry
  <2> QED
    BY <2>7, <2>8, <2>9 DEF TotalsFit
<1>9. ASSUME NEW l \in DOMAIN L, l # li PROVE LevelFits(O2, L2, l)
  <2>1. L2[l] = L[l] /\ OnLevel(O2, l) = OnLevel(O, l)
    BY <1>1, <1>4, <1>9
  <2>2. EndsFit(O, L, l) /\ TotalsFit(O, L, l) /\ L[l] \in LevelEntry
    BY <1>0
  <2>3. ASSUME NEW i \in OnLevel(O, l)
        PROVE  /\ i \in DOMAIN O \ {oi} /\ O2[i].qty = O[i].qty
               /\ O2[i].prev = O[i].prev /\ O2[i].next = O[i].next
    <3>1. i \in DOMAIN O \ {oi} /\ O[i].level # li
      BY <1>9 DEF OnLevel
    <3>2. i # n /\ i # p
      BY <1>0, <1>p, <1>n, <3>1
    <3> QED
      BY <1>2, <3>1, <3>2 DEF SameOrder
  <2>4. EndsFit(O2, L2, l)
    BY <2>1, <2>2, <2>3 DEF EndsFit
  <2>5. SumOf(O2, OnLevel(O, l)) = SumOf(O, OnLevel(O, l))
    <3>1. Counts(O, OnLevel(O, l))
      BY LevelCounts
    <3> QED
      BY <2>3, <3>1, SumSame
  <2> QED
    BY <2>1, <2>2, <2>4, <2>5 DEF LevelFits, TotalsFit
<1>10. ASSUME NEW i \in DOMAIN O2 PROVE EntryFits(O2, L2, ns, i)
  <2>1. i \in DOMAIN O \ {oi}
    BY <1>1
  <2>2. O2[i] \in Entry /\ O2[i].level = O[i].level /\ O2[i].seq = O[i].seq
    BY <1>2, <2>1 DEF SameOrder
  <2>3. PrevFits(O2, L2, i) /\ NextFits(O2, L2, i)
    BY <1>5, <1>6, <2>1
  <2> QED
    BY <1>0, <1>1, <2>1, <2>2, <2>3 DEF EntryFits
<1>11. IsFiniteSet(DOMAIN O2) /\ DOMAIN O2 \subseteq Nat /\ DOMAIN L2 \subseteq Nat
  BY <1>0, <1>1, FS_RemoveElement
<1>12. \A l \in DOMAIN L2 : LevelFits(O2, L2, l)
  BY <1>1, <1>7, <1>8, <1>9 DEF LevelFits
<1>13. Queues(O2, L2, ns)
  BY <1>0, <1>10, <1>11, <1>12 DEF Queues
<1> QED
  BY <1>2, <1>3, <1>4, <1>13

(* An order and its level lose shares alike. *)
Shrinks(O, L, oi, q, O2, L2) ==
    /\ DOMAIN O2 = DOMAIN O /\ DOMAIN L2 = DOMAIN L
    /\ O2[oi] = [O[oi] EXCEPT !.qty = O[oi].qty - q]
    /\ \A i \in DOMAIN O \ {oi} : O2[i] = O[i]
    /\ L2[O[oi].level] = [L[O[oi].level] EXCEPT !.qty = L[O[oi].level].qty - q]
    /\ \A l \in DOMAIN L \ {O[oi].level} : L2[l] = L[l]

LEMMA ShrinkQueues ==
    ASSUME NEW O, NEW L, NEW ns, Queues(O, L, ns), NEW oi \in DOMAIN O, NEW q \in Nat,
           q < O[oi].qty, NEW O2, NEW L2, Shrinks(O, L, oi, q, O2, L2)
    PROVE  /\ Queues(O2, L2, ns) /\ DOMAIN O2 = DOMAIN O /\ DOMAIN L2 = DOMAIN L
           /\ \A l \in DOMAIN L : L2[l].price = L[l].price
           /\ \A i \in DOMAIN O : /\ O2[i].id = O[i].id /\ O2[i].side = O[i].side
                                  /\ O2[i].seq = O[i].seq /\ O2[i].level = O[i].level
                                  /\ O2[i].qty = IF i = oi THEN O[i].qty - q ELSE O[i].qty
           /\ \A l : OnLevel(O2, l) = OnLevel(O, l)
<1> DEFINE li == O[oi].level
<1>0. /\ DOMAIN O \subseteq Nat /\ IsFiniteSet(DOMAIN O) /\ DOMAIN L \subseteq Nat /\ ns \in Nat
      /\ \A i \in DOMAIN O : /\ O[i] \in Entry /\ O[i].level \in DOMAIN L /\ O[i].seq < ns
                             /\ PrevFits(O, L, i) /\ NextFits(O, L, i)
      /\ \A l \in DOMAIN L : L[l] \in LevelEntry /\ EndsFit(O, L, l) /\ TotalsFit(O, L, l)
  BY DEF Queues, EntryFits, LevelFits
<1>1. /\ DOMAIN O2 = DOMAIN O /\ DOMAIN L2 = DOMAIN L /\ li \in DOMAIN L
      /\ O2[oi] = [O[oi] EXCEPT !.qty = O[oi].qty - q]
      /\ \A i \in DOMAIN O \ {oi} : O2[i] = O[i]
      /\ \A l \in DOMAIN L \ {li} : L2[l] = L[l]
      /\ L2[li] = [L[li] EXCEPT !.qty = L[li].qty - q]
  BY <1>0, Zenon DEF Shrinks
<1>2. ASSUME NEW i \in DOMAIN O
      PROVE  /\ O2[i] \in Entry /\ O2[i].id = O[i].id /\ O2[i].side = O[i].side
             /\ O2[i].seq = O[i].seq /\ O2[i].level = O[i].level
             /\ O2[i].prev = O[i].prev /\ O2[i].next = O[i].next
             /\ O2[i].qty = IF i = oi THEN O[i].qty - q ELSE O[i].qty
  <2>1. O[i] \in Entry
    BY <1>0
  <2>2. CASE i = oi
    <3>1. O[oi].qty - q \in Nat \ {0}
      BY <2>1, <2>2 DEF Entry
    <3> QED
      BY <1>1, <2>1, <2>2, <3>1 DEF Entry
  <2>3. CASE i # oi
    BY <1>1, <2>1, <2>3 DEF Entry
  <2> QED
    BY <2>2, <2>3
<1>3. \A l : OnLevel(O2, l) = OnLevel(O, l)
  BY <1>1, <1>2 DEF OnLevel
<1>4. L[li] \in LevelEntry /\ TotalsFit(O, L, li)
  BY <1>0, <1>1
<1>5. SumOf(O2, OnLevel(O, li)) = SumOf(O, OnLevel(O, li)) - q
      /\ SumOf(O, OnLevel(O, li)) - q \in Nat
  <2>1. Counts(O, OnLevel(O, li)) /\ oi \in OnLevel(O, li)
    BY LevelCounts DEF OnLevel
  <2>2. \A x \in OnLevel(O, li) : O2[x].qty \in Nat
    BY <1>2 DEF OnLevel, Entry
  <2>3. Counts(O2, OnLevel(O, li))
    BY <2>1, <2>2 DEF Counts
  <2>4. /\ SumOf(O, OnLevel(O, li)) = O[oi].qty + SumOf(O, OnLevel(O, li) \ {oi})
        /\ SumOf(O2, OnLevel(O, li)) = O2[oi].qty + SumOf(O2, OnLevel(O, li) \ {oi})
    BY <2>1, <2>3, SumWithout
  <2>5. Counts(O, OnLevel(O, li) \ {oi})
    BY <2>1, FS_RemoveElement DEF Counts
  <2>6. \A x \in OnLevel(O, li) \ {oi} : O2[x].qty = O[x].qty
    BY <1>2 DEF OnLevel
  <2>7. SumOf(O2, OnLevel(O, li) \ {oi}) = SumOf(O, OnLevel(O, li) \ {oi})
    BY <2>5, <2>6, SumSame
  <2>8. SumOf(O, OnLevel(O, li) \ {oi}) \in Nat
    BY <2>5, SumIsNat
  <2>9. O2[oi].qty = O[oi].qty - q /\ O[oi].qty \in Nat
    BY <1>0, <1>2 DEF Entry
  <2> DEFINE rest == SumOf(O, OnLevel(O, li) \ {oi})
             all == SumOf(O, OnLevel(O, li))
             had == O[oi].qty
  <2>10. all = had + rest /\ SumOf(O2, OnLevel(O, li)) = (had - q) + rest
         /\ rest \in Nat /\ had \in Nat /\ q < had
    BY <2>4, <2>7, <2>8, <2>9
  <2>11. SumOf(O2, OnLevel(O, li)) = all - q /\ all - q \in Nat
    <3> HIDE DEF rest, all, had
    <3> QED
      BY <2>10
  <2> QED
    BY <2>11
<1>6. L2[li] \in LevelEntry /\ L2[li].qty = L[li].qty - q /\ L2[li].orders = L[li].orders
      /\ L2[li].head = L[li].head /\ L2[li].tail = L[li].tail /\ L2[li].price = L[li].price
  <2>1. L[li].qty - q \in Nat
    BY <1>4, <1>5 DEF TotalsFit
  <2> QED
    BY <1>1, <1>4, <2>1 DEF LevelEntry
<1>7. TotalsFit(O2, L2, li)
  BY <1>3, <1>4, <1>5, <1>6 DEF TotalsFit
<1>8. ASSUME NEW l \in DOMAIN L
      PROVE  /\ L2[l].head = L[l].head /\ L2[l].tail = L[l].tail /\ L2[l].price = L[l].price
             /\ L2[l] \in LevelEntry
  BY <1>0, <1>1, <1>6
<1>9. ASSUME NEW l \in DOMAIN L PROVE LevelFits(O2, L2, l)
  <2>1. EndsFit(O2, L2, l)
    <3>1. EndsFit(O, L, l)
      BY <1>0
    <3>2. \A i \in OnLevel(O, l) : O2[i].prev = O[i].prev /\ O2[i].next = O[i].next
      BY <1>2 DEF OnLevel
    <3>3. OnLevel(O2, l) = OnLevel(O, l)
      BY <1>3
    <3>4. L2[l].head = L[l].head /\ L2[l].tail = L[l].tail
      BY <1>8
    <3> HIDE <1>0, <1>1, <1>2
    <3> QED
      BY <3>1, <3>2, <3>3, <3>4 DEF EndsFit
  <2>2. TotalsFit(O2, L2, l)
    <3>1. CASE l = li
      BY <1>7, <3>1
    <3>2. CASE l # li
      <4>1. Counts(O, OnLevel(O, l)) /\ TotalsFit(O, L, l)
        BY <1>0, LevelCounts
      <4>2. \A x \in OnLevel(O, l) : O2[x].qty = O[x].qty
        BY <1>2, <3>2 DEF OnLevel
      <4>3. SumOf(O2, OnLevel(O, l)) = SumOf(O, OnLevel(O, l))
        BY <4>1, <4>2, SumSame
      <4> QED
        BY <1>1, <1>3, <3>2, <4>1, <4>3 DEF TotalsFit
    <3> QED
      BY <3>1, <3>2
  <2> QED
    BY <1>8, <2>1, <2>2 DEF LevelFits
<1>10. ASSUME NEW i \in DOMAIN O PROVE EntryFits(O2, L2, ns, i)
  <2>1. /\ O[i].level \in DOMAIN L /\ O[i].seq < ns /\ PrevFits(O, L, i) /\ NextFits(O, L, i)
    BY <1>0
  <2>2. L2[O[i].level].head = L[O[i].level].head /\ L2[O[i].level].tail = L[O[i].level].tail
    BY <1>8, <2>1
  <2>3. PrevFits(O2, L2, i)
    BY <1>1, <1>2, <2>1, <2>2 DEF PrevFits
  <2>4. NextFits(O2, L2, i)
    BY <1>1, <1>2, <2>1, <2>2 DEF NextFits
  <2> QED
    BY <1>1, <1>2, <2>1, <2>3, <2>4 DEF EntryFits
<1>11. Queues(O2, L2, ns)
  BY <1>0, <1>1, <1>9, <1>10 DEF Queues
<1> QED
  BY <1>1, <1>2, <1>3, <1>8, <1>11

NewLevel(px) == [price |-> px, qty |-> 0, orders |-> 0, head |-> Nil, tail |-> Nil]

LEMMA OpenQueue ==
    ASSUME NEW O, NEW L, NEW ns, Queues(O, L, ns), NEW li \in Nat, li \notin DOMAIN L,
           NEW px \in Nat \ {0}
    PROVE  /\ Queues(O, Put(L, li, NewLevel(px)), ns)
           /\ DOMAIN Put(L, li, NewLevel(px)) = DOMAIN L \cup {li}
           /\ Put(L, li, NewLevel(px))[li] = NewLevel(px)
           /\ \A l \in DOMAIN L : Put(L, li, NewLevel(px))[l] = L[l]
           /\ OnLevel(O, li) = {}
<1> DEFINE L2 == Put(L, li, NewLevel(px))
<1>0. /\ DOMAIN O \subseteq Nat /\ IsFiniteSet(DOMAIN O) /\ DOMAIN L \subseteq Nat /\ ns \in Nat
      /\ \A i \in DOMAIN O : EntryFits(O, L, ns, i)
      /\ \A l \in DOMAIN L : LevelFits(O, L, l)
  BY DEF Queues
<1>1. /\ DOMAIN L2 = DOMAIN L \cup {li} /\ L2[li] = NewLevel(px)
      /\ \A l \in DOMAIN L : L2[l] = L[l]
  BY DEF Put
<1> HIDE DEF L2
<1>2. OnLevel(O, li) = {}
  BY <1>0 DEF OnLevel, EntryFits
<1>3. LevelFits(O, L2, li)
  <2>1. SumOf(O, {}) = 0 /\ Cardinality({}) = 0
    <3>1. Counts(O, {})
      BY FS_EmptySet DEF Counts
    <3> QED
      BY <3>1, SumIsNat, FS_EmptySet
  <2>2. NewLevel(px) \in LevelEntry
    BY DEF NewLevel, LevelEntry, Nil
  <2>3. /\ NewLevel(px).qty = 0 /\ NewLevel(px).orders = 0
        /\ NewLevel(px).head = Nil /\ NewLevel(px).tail = Nil
    BY DEF NewLevel
  <2> QED
    BY <1>1, <1>2, <2>1, <2>2, <2>3 DEF LevelFits, EndsFit, TotalsFit
<1>4. \A l \in DOMAIN L : LevelFits(O, L2, l)
  BY <1>0, <1>1 DEF LevelFits, EndsFit, TotalsFit
<1>5. \A i \in DOMAIN O : EntryFits(O, L2, ns, i)
  BY <1>0, <1>1 DEF EntryFits, PrevFits, NextFits
<1>6. Queues(O, L2, ns)
  BY <1>0, <1>1, <1>3, <1>4, <1>5 DEF Queues
<1> QED
  BY <1>1, <1>2, <1>6 DEF L2

LEMMA CloseQueue ==
    ASSUME NEW O, NEW L, NEW ns, Queues(O, L, ns), NEW li \in DOMAIN L, OnLevel(O, li) = {}
    PROVE  /\ Queues(O, Without(L, li), ns)
           /\ DOMAIN Without(L, li) = DOMAIN L \ {li}
           /\ \A l \in DOMAIN L \ {li} : Without(L, li)[l] = L[l]
<1> DEFINE L2 == Without(L, li)
<1>0. /\ DOMAIN O \subseteq Nat /\ IsFiniteSet(DOMAIN O) /\ DOMAIN L \subseteq Nat /\ ns \in Nat
      /\ \A i \in DOMAIN O : EntryFits(O, L, ns, i)
      /\ \A l \in DOMAIN L : LevelFits(O, L, l)
  BY DEF Queues
<1>1. /\ DOMAIN L2 = DOMAIN L \ {li} /\ \A l \in DOMAIN L \ {li} : L2[l] = L[l]
  BY DEF Without
<1> HIDE DEF L2
<1>2. \A l \in DOMAIN L2 : LevelFits(O, L2, l)
  BY <1>0, <1>1 DEF LevelFits, EndsFit, TotalsFit
<1>3. \A i \in DOMAIN O : O[i].level # li
  BY DEF OnLevel
<1>4. \A i \in DOMAIN O : EntryFits(O, L2, ns, i)
  BY <1>0, <1>1, <1>3 DEF EntryFits, PrevFits, NextFits
<1>5. Queues(O, L2, ns)
  BY <1>0, <1>1, <1>2, <1>4 DEF Queues
<1> QED
  BY <1>1, <1>5 DEF L2

LEMMA NoQueues == ASSUME NEW ns \in Nat PROVE Queues(<< >>, << >>, ns)
<1>1. DOMAIN << >> = {}
  OBVIOUS
<1> QED
  BY <1>1, FS_EmptySet DEF Queues

-----------------------------------------------------------------------------
(* The price window: its ticks and its prices are the same thing. *)
LEMMA DivMod ==
    ASSUME NEW a \in Int, NEW d \in Nat \ {0}
    PROVE  /\ a \div d \in Int /\ a % d \in 0..(d - 1)
           /\ a = d * (a \div d) + (a % d)
  OBVIOUS

LEMMA Multiples ==
    ASSUME NEW d \in Nat \ {0}, NEW x \in Int, NEW y \in Int
    PROVE  /\ x < y => d * x + d <= d * y
           /\ d * x \in Int /\ d * (x + y) = d * x + d * y /\ d * (x - y) = d * x - d * y
<1>1. /\ d * (x + y) = d * x + d * y /\ d * (x - y) = d * x - d * y
      /\ d * x \in Int /\ d * y \in Int
  OBVIOUS
<1>2. ASSUME x < y PROVE d * x + d <= d * y
  <2>1. PICK n \in Nat : y = x + 1 + n
    <3>1. y - x - 1 \in Nat /\ y = x + 1 + (y - x - 1)
      BY <1>2
    <3> QED
      BY <3>1
  <2>2. d * y = d * x + d + d * n
    BY <2>1
  <2>3. d * n \in Nat
    OBVIOUS
  <2> QED
    BY <1>1, <2>2, <2>3
<1> QED
  BY <1>1, <1>2

LEMMA ExactDiv ==
    ASSUME NEW d \in Nat \ {0}, NEW x \in Int
    PROVE  (d * x) % d = 0 /\ (d * x) \div d = x
<1> DEFINE a == d * x
           q == a \div d
           r == a % d
<1>0. a \in Int
  BY Multiples
<1>1. q \in Int /\ r \in 0..(d - 1) /\ a = d * q + r
  <2> HIDE DEF a
  <2> QED
    BY <1>0, DivMod
<1> HIDE DEF q, r
<1>2. ~(x < q) /\ ~(q < x)
  <2>1. (x < q => d * x + d <= d * q) /\ (q < x => d * q + d <= d * x)
    BY <1>1, Multiples
  <2>2. d * q \in Int
    BY <1>1, Multiples
  <2> DEFINE u == d * q
  <2> HIDE DEF a, u
  <2>3. (x < q => a + d <= u) /\ (q < x => u + d <= a) /\ a = u + r /\ u \in Int
    BY <1>1, <2>1, <2>2 DEF a, u
  <2> QED
    BY <1>0, <1>1, <2>3
<1>3. q = x
  BY <1>1, <1>2
<1>4. r = 0
  BY <1>0, <1>1, <1>3 DEF a
<1> QED
  BY <1>3, <1>4 DEF q, r

LEMMA WindowFacts ==
    ASSUME Window!WindowConstants
    PROVE  /\ Tick \in Nat \ {0} /\ Window!Floor \in Nat /\ Window!Floor % Tick = 0
           /\ Window!Ticks \in Nat \ {0}
<1> DEFINE f == Window!Floor
<1>0. Tick \in Nat \ {0} /\ Lo \in Nat /\ Hi \in Nat /\ Hi >= f /\ f = Lo - (Lo % Tick)
  BY DEF Window!WindowConstants, Window!Floor
<1>1. /\ Lo \div Tick \in Int /\ Lo % Tick \in 0..(Tick - 1)
      /\ Lo = Tick * (Lo \div Tick) + (Lo % Tick)
  BY <1>0, DivMod
<1>2. Tick * (Lo \div Tick) \in Int
  BY <1>0, <1>1, Multiples
<1>3. f = Tick * (Lo \div Tick)
  BY <1>0, <1>1, <1>2
<1>4. f % Tick = 0
  BY <1>0, <1>1, <1>3, ExactDiv
<1>5. Lo \div Tick >= 0
  BY <1>0
<1>6. f \in Nat
  BY <1>0, <1>3, <1>5
<1>7. (Hi - f) \div Tick >= 0 /\ (Hi - f) \div Tick \in Int
  <2>1. Hi - f \in Nat
    BY <1>0, <1>6
  <2> DEFINE g == Hi - f
  <2> HIDE DEF g, f
  <2>2. g \in Nat
    BY <2>1 DEF g
  <2>3. g \div Tick >= 0 /\ g \div Tick \in Int
    BY <1>0, <2>2
  <2> QED
    BY <2>3 DEF g
<1>8. Window!Ticks \in Nat \ {0}
  BY <1>7 DEF Window!Ticks, f
<1> QED
  BY <1>0, <1>4, <1>6, <1>8

Grid == 0..(Window!Ticks - 1)

LEMMA PriceAtTick ==
    ASSUME Window!WindowConstants, NEW t \in Grid
    PROVE  /\ Window!PriceOf(t) \in Nat
           /\ InGrid(Window!PriceOf(t)) /\ TickOf(Window!PriceOf(t)) = t
<1> DEFINE f == Window!Floor
           n == Window!Ticks
           p == f + t * Tick
<1>1. Tick \in Nat \ {0} /\ f \in Nat /\ f % Tick = 0 /\ n \in Nat /\ t \in 0..(n - 1)
  BY WindowFacts DEF Grid
<1> HIDE DEF f, n
<1>2. t * Tick = Tick * t /\ t * Tick \in Nat
  BY <1>1
<1>3. p \in Nat /\ p - f = Tick * t /\ p >= f
  BY <1>1, <1>2
<1>4. (p - f) \div Tick = t
  BY <1>1, <1>3, ExactDiv
<1>5. p % Tick = 0
  <2>1. PICK q \in Int : f = Tick * q
    <3>1. f \div Tick \in Int /\ f = Tick * (f \div Tick) + (f % Tick)
      BY <1>1, DivMod
    <3> DEFINE q == f \div Tick
    <3>2. q \in Int /\ f = Tick * q + (f % Tick)
      BY <3>1
    <3> HIDE DEF q
    <3>3. Tick * q \in Int
      BY <1>1, <3>2, Multiples
    <3>4. f = Tick * q
      BY <1>1, <3>2, <3>3
    <3> QED
      BY <3>2, <3>4
  <2>2. t \in Int
    BY <1>1
  <2>3. p = Tick * (q + t)
    BY <1>1, <1>2, <2>1, <2>2, Multiples
  <2>4. q + t \in Int
    BY <2>1, <2>2
  <2> QED
    BY <1>1, <2>3, <2>4, ExactDiv
<1>6. Window!PriceOf(t) = p
  BY DEF Window!PriceOf, f
<1> HIDE DEF p
<1>7. InGrid(p) /\ TickOf(p) = t
  BY <1>1, <1>3, <1>4, <1>5 DEF InGrid, TickOf, Window!InGrid, Window!TickOf, f, n
<1> QED
  BY <1>3, <1>6, <1>7

LEMMA TickAtPrice ==
    ASSUME Window!WindowConstants, NEW px \in Nat, InGrid(px)
    PROVE  TickOf(px) \in Grid /\ Window!PriceOf(TickOf(px)) = px
<1> DEFINE f == Window!Floor
           n == Window!Ticks
           t == (px - f) \div Tick
<1>1. Tick \in Nat \ {0} /\ f \in Nat /\ f % Tick = 0 /\ n \in Nat
  BY WindowFacts
<1>2. px >= f /\ px % Tick = 0 /\ t < n
  BY DEF InGrid, Window!InGrid
<1>3. TickOf(px) = t /\ Window!PriceOf(t) = f + t * Tick /\ Grid = 0..(n - 1)
  BY DEF TickOf, Window!TickOf, Window!PriceOf, Grid
<1> HIDE DEF f, n
<1>4. PICK q \in Int, r \in Int : f = Tick * q /\ px = Tick * r
  <2>1. /\ f \div Tick \in Int /\ f = Tick * (f \div Tick) + (f % Tick)
        /\ px \div Tick \in Int /\ px = Tick * (px \div Tick) + (px % Tick)
    BY <1>1, DivMod
  <2>2. Tick * (f \div Tick) \in Int /\ Tick * (px \div Tick) \in Int
    BY <1>1, <2>1, Multiples
  <2>3. f = Tick * (f \div Tick) /\ px = Tick * (px \div Tick)
    BY <1>1, <1>2, <2>1, <2>2
  <2> QED
    BY <2>1, <2>3
<1>5. px - f = Tick * (r - q) /\ r - q \in Int
  BY <1>1, <1>4, Multiples
<1>6. t = r - q
  BY <1>1, <1>5, ExactDiv
<1>7. t >= 0
  <2> SUFFICES ASSUME r < q PROVE FALSE
    BY <1>4, <1>6
  <2>1. Tick * r + Tick <= Tick * q
    BY <1>1, <1>4, Multiples
  <2>2. px + Tick <= f
    BY <1>4, <2>1
  <2> QED
    BY <1>1, <1>2, <2>2
<1>8. t * Tick = Tick * (r - q)
  BY <1>1, <1>5, <1>6
<1>9. f + t * Tick = px
  BY <1>1, <1>5, <1>8
<1> HIDE DEF t
<1>10. t \in 0..(n - 1)
  BY <1>1, <1>2, <1>5, <1>6, <1>7
<1> QED
  BY <1>3, <1>9, <1>10

LEMMA TickInjective ==
    ASSUME Window!WindowConstants, NEW px \in Nat, NEW py \in Nat, InGrid(px), InGrid(py),
           TickOf(px) = TickOf(py)
    PROVE  px = py
<1>1. Window!PriceOf(TickOf(px)) = px /\ Window!PriceOf(TickOf(py)) = py
  BY TickAtPrice
<1> QED
  BY <1>1

-----------------------------------------------------------------------------
(* The parts of a book, and what each step of an operation makes of them. *)
Fields == {"size", "orders", "levels", "freeOrders", "freeLevels", "slot", "bits", "hint",
           "over", "ids", "rejected", "nextSeq"}

SameWindow(c, b) == c.slot = b.slot /\ c.bits = b.bits /\ c.hint = b.hint /\ c.over = b.over

SameCounts(c, b) == c.ids = b.ids /\ c.rejected = b.rejected /\ c.nextSeq = b.nextSeq

LEMMA TakeLevelParts ==
    ASSUME NEW b, DOMAIN b = Fields, NEW px
    PROVE  LET c == TakeLevel(b, px) IN
           /\ DOMAIN c = Fields /\ c.size = b.size
           /\ c.orders = b.orders /\ c.freeOrders = b.freeOrders
           /\ c.levels = Put(b.levels, Seqs!Last(b.freeLevels), NewLevel(px))
           /\ c.freeLevels = Seqs!Front(b.freeLevels)
           /\ SameWindow(c, b) /\ SameCounts(c, b)
  BY DEF TakeLevel, Fields, SameWindow, SameCounts, NewLevel

LEMMA ReturnLevelParts ==
    ASSUME NEW b, DOMAIN b = Fields, NEW li
    PROVE  LET c == ReturnLevel(b, li) IN
           /\ DOMAIN c = Fields /\ c.size = b.size
           /\ c.orders = b.orders /\ c.freeOrders = b.freeOrders
           /\ c.levels = Without(b.levels, li)
           /\ c.freeLevels = Append(b.freeLevels, li)
           /\ SameWindow(c, b) /\ SameCounts(c, b)
  BY DEF ReturnLevel, Fields, SameWindow, SameCounts

WithTail(l, oi, qty) ==
    [price |-> l.price, qty |-> l.qty + qty, orders |-> l.orders + 1,
     head |-> IF l.tail = Nil THEN oi ELSE l.head, tail |-> oi]

LinkedLevels(L, li, oi, qty) ==
    [L EXCEPT ![li] = [L[li] EXCEPT !.head = IF L[li].tail = Nil THEN oi ELSE @,
                                    !.tail = oi, !.qty = @ + qty, !.orders = @ + 1]]

LEMMA LinkParts ==
    ASSUME NEW b, DOMAIN b = Fields, NEW li \in DOMAIN b.levels, NEW order
    PROVE  LET c == Link(b, li, order)
               oi == Seqs!Last(b.freeOrders)
               t == b.levels[li].tail IN
           /\ DOMAIN c = Fields /\ c.size = b.size
           /\ c.freeOrders = Seqs!Front(b.freeOrders) /\ c.freeLevels = b.freeLevels
           /\ c.orders = Put(IF t = Nil THEN b.orders ELSE [b.orders EXCEPT ![t].next = oi], oi,
                             Extended(order, [prev |-> t, next |-> Nil, level |-> li]))
           /\ c.levels = LinkedLevels(b.levels, li, oi, order.qty)
           /\ SameWindow(c, b) /\ SameCounts(c, b)
  BY DEF Link, Fields, SameWindow, SameCounts, LinkedLevels

LEMMA LinkLevel ==
    ASSUME NEW L, NEW li \in DOMAIN L, L[li] \in LevelEntry, NEW oi, NEW qty
    PROVE  LET M == LinkedLevels(L, li, oi, qty) IN
           /\ DOMAIN M = DOMAIN L /\ M[li] = WithTail(L[li], oi, qty)
           /\ \A l \in DOMAIN L \ {li} : M[l] = L[l]
<1> DEFINE M == LinkedLevels(L, li, oi, qty)
<1> DEFINE w == WithTail(L[li], oi, qty)
<1>1. DOMAIN M = DOMAIN L /\ \A l \in DOMAIN L \ {li} : M[l] = L[l]
  BY DEF LinkedLevels
<1>2. L[li] = [k \in {"price", "qty", "orders", "head", "tail"} |-> L[li][k]]
  BY DEF LevelEntry
<1>3. /\ DOMAIN M[li] = {"price", "qty", "orders", "head", "tail"}
      /\ M[li] = [k \in DOMAIN M[li] |-> M[li][k]]
      /\ M[li].price = L[li].price /\ M[li].qty = L[li].qty + qty
      /\ M[li].orders = L[li].orders + 1 /\ M[li].tail = oi
      /\ M[li].head = IF L[li].tail = Nil THEN oi ELSE L[li].head
  BY <1>2 DEF LinkedLevels
<1>4. /\ DOMAIN w = {"price", "qty", "orders", "head", "tail"}
      /\ w = [k \in DOMAIN w |-> w[k]]
      /\ w.price = L[li].price /\ w.qty = L[li].qty + qty
      /\ w.orders = L[li].orders + 1 /\ w.tail = oi
      /\ w.head = IF L[li].tail = Nil THEN oi ELSE L[li].head
  BY DEF WithTail
<1> HIDE DEF w, M
<1>5. \A k \in DOMAIN w : M[li][k] = w[k]
  BY <1>3, <1>4
<1>6. M[li] = w
  BY <1>3, <1>4, <1>5
<1> QED
  BY <1>1, <1>6 DEF w, M

NewEntry(ref, side, qty, seq, t, li) ==
    [id |-> ref, side |-> side, qty |-> qty, seq |-> seq, prev |-> t, next |-> Nil, level |-> li]

LEMMA EntryOf ==
    ASSUME NEW ref, NEW side, NEW qty, NEW seq, NEW t, NEW li
    PROVE  Extended([id |-> ref, side |-> side, qty |-> qty, seq |-> seq],
                    [prev |-> t, next |-> Nil, level |-> li])
             = NewEntry(ref, side, qty, seq, t, li)
<1> DEFINE a == [id |-> ref, side |-> side, qty |-> qty, seq |-> seq]
           m == [prev |-> t, next |-> Nil, level |-> li]
           e == NewEntry(ref, side, qty, seq, t, li)
<1>1. DOMAIN a = {"id", "side", "qty", "seq"} /\ DOMAIN m = {"prev", "next", "level"}
  OBVIOUS
<1>2. DOMAIN e = {"id", "side", "qty", "seq", "prev", "next", "level"}
  BY DEF NewEntry
<1>3. Extended(a, m) = [k \in DOMAIN a \cup DOMAIN m |-> IF k \in DOMAIN m THEN m[k] ELSE a[k]]
  BY DEF Extended
<1>4. \A k \in DOMAIN e : e[k] = IF k \in DOMAIN m THEN m[k] ELSE a[k]
  BY <1>1, <1>2 DEF NewEntry
<1>5. e = [k \in DOMAIN e |-> e[k]]
  BY DEF NewEntry
<1>6. DOMAIN e = DOMAIN a \cup DOMAIN m
  BY <1>1, <1>2
<1> HIDE DEF a, m, e
<1>7. e = Extended(a, m)
  BY <1>3, <1>4, <1>5, <1>6
<1> QED
  BY <1>7 DEF a, m, e

LEMMA LinkJoins ==
    ASSUME NEW b, DOMAIN b = Fields, NEW ns, Queues(b.orders, b.levels, ns),
           NEW li \in DOMAIN b.levels,
           Seqs!Last(b.freeOrders) \in Nat, Seqs!Last(b.freeOrders) \notin DOMAIN b.orders,
           NEW ref \in Refs, NEW side \in Sides, NEW qty \in Nat \ {0}, NEW seq \in Nat
    PROVE  LET c == Link(b, li, [id |-> ref, side |-> side, qty |-> qty, seq |-> seq])
               oi == Seqs!Last(b.freeOrders) IN
           /\ Joins(b.orders, b.levels, oi, li, c.orders, c.levels)
           /\ c.orders[oi] = NewEntry(ref, side, qty, seq, b.levels[li].tail, li)
<1> DEFINE order == [id |-> ref, side |-> side, qty |-> qty, seq |-> seq]
           c == Link(b, li, order)
           oi == Seqs!Last(b.freeOrders)
           O == b.orders
           L == b.levels
           t == L[li].tail
           e == NewEntry(ref, side, qty, seq, t, li)
           P == IF t = Nil THEN O ELSE [O EXCEPT ![t].next = oi]
           lev == WithTail(L[li], oi, qty)
<1>1. /\ c.orders = Put(P, oi, Extended(order, [prev |-> t, next |-> Nil, level |-> li]))
      /\ c.levels = LinkedLevels(L, li, oi, order.qty)
  <2> HIDE DEF order
  <2> QED
    BY LinkParts
<1>2. c.orders = Put(P, oi, e)
  BY <1>1, EntryOf
<1>3. /\ L[li] \in LevelEntry /\ EndsFit(O, L, li) /\ DOMAIN O \subseteq Nat
      /\ \A i \in DOMAIN O : O[i] \in Entry
  BY DEF Queues, LevelFits, EntryFits
<1>4. /\ DOMAIN c.levels = DOMAIN L /\ c.levels[li] = lev
      /\ \A l \in DOMAIN L \ {li} : c.levels[l] = L[l]
  <2>1. order.qty = qty
    OBVIOUS
  <2>2. li \in DOMAIN L
    OBVIOUS
  <2> HIDE DEF order, c, oi, L
  <2>3. LET M == LinkedLevels(L, li, oi, qty) IN
        /\ DOMAIN M = DOMAIN L /\ M[li] = WithTail(L[li], oi, qty)
        /\ \A l \in DOMAIN L \ {li} : M[l] = L[l]
    BY <1>3, <2>2, LinkLevel
  <2> QED
    BY <1>1, <2>1, <2>3
<1>5. e \in Entry /\ e.qty = qty /\ e.prev = t /\ e.next = Nil /\ e.level = li
  <2>1. t \in Int /\ li \in Int
    BY <1>3 DEF LevelEntry, Queues
  <2> HIDE DEF t
  <2> QED
    BY <2>1 DEF NewEntry, Entry, Nil
<1> HIDE DEF c, e, lev, order
<1>6. DOMAIN P = DOMAIN O /\ \A i \in DOMAIN O : P[i] = IF i = t THEN [O[i] EXCEPT !.next = oi] ELSE O[i]
  <2>1. Nil \notin DOMAIN O
    BY <1>3 DEF Nil
  <2> HIDE DEF t, oi, O
  <2> QED
    BY <2>1
<1> HIDE DEF P
<1>7. /\ DOMAIN c.orders = DOMAIN O \cup {oi} /\ c.orders[oi] = e
      /\ \A i \in DOMAIN O : c.orders[i] = P[i]
  BY <1>2, <1>6 DEF Put
<1>9. Joins(O, L, oi, li, c.orders, c.levels)
  BY <1>4, <1>5, <1>6, <1>7 DEF Joins, lev, WithTail
<1> QED
  BY <1>7, <1>9 DEF c, e, order

ClosedOver(l, o) ==
    [price |-> l.price, qty |-> l.qty - o.qty, orders |-> l.orders - 1,
     head |-> IF o.prev = Nil THEN o.next ELSE l.head,
     tail |-> IF o.next = Nil THEN o.prev ELSE l.tail]

UnlinkedLevels(L, o) ==
    [L EXCEPT ![o.level] = [L[o.level] EXCEPT !.head = IF o.prev = Nil THEN o.next ELSE @,
                                              !.tail = IF o.next = Nil THEN o.prev ELSE @,
                                              !.qty = @ - o.qty, !.orders = @ - 1]]

LEMMA UnlinkParts ==
    ASSUME NEW b, DOMAIN b = Fields, NEW oi \in DOMAIN b.orders
    PROVE  LET c == Unlink(b, oi)
               o == b.orders[oi] IN
           /\ DOMAIN c = Fields /\ c.size = b.size
           /\ c.freeOrders = b.freeOrders /\ c.freeLevels = b.freeLevels
           /\ c.orders = [i \in DOMAIN b.orders \ {oi} |->
                             [b.orders[i] EXCEPT !.next = IF i = o.prev THEN o.next ELSE @,
                                                 !.prev = IF i = o.next THEN o.prev ELSE @]]
           /\ c.levels = UnlinkedLevels(b.levels, o)
           /\ SameWindow(c, b) /\ SameCounts(c, b)
  BY DEF Unlink, Fields, SameWindow, SameCounts, UnlinkedLevels

LEMMA UnlinkLevel ==
    ASSUME NEW L, NEW o, o.level \in DOMAIN L, L[o.level] \in LevelEntry
    PROVE  LET M == UnlinkedLevels(L, o) IN
           /\ DOMAIN M = DOMAIN L /\ M[o.level] = ClosedOver(L[o.level], o)
           /\ \A l \in DOMAIN L \ {o.level} : M[l] = L[l]
<1> DEFINE M == UnlinkedLevels(L, o)
           li == o.level
<1> DEFINE w == ClosedOver(L[li], o)
<1>1. DOMAIN M = DOMAIN L /\ \A l \in DOMAIN L \ {li} : M[l] = L[l]
  BY DEF UnlinkedLevels
<1>2. L[li] = [k \in {"price", "qty", "orders", "head", "tail"} |-> L[li][k]]
  BY DEF LevelEntry
<1>3. /\ DOMAIN M[li] = {"price", "qty", "orders", "head", "tail"}
      /\ M[li] = [k \in DOMAIN M[li] |-> M[li][k]]
      /\ M[li].price = L[li].price /\ M[li].qty = L[li].qty - o.qty
      /\ M[li].orders = L[li].orders - 1
      /\ M[li].head = (IF o.prev = Nil THEN o.next ELSE L[li].head)
      /\ M[li].tail = (IF o.next = Nil THEN o.prev ELSE L[li].tail)
  BY <1>2 DEF UnlinkedLevels
<1>4. /\ DOMAIN w = {"price", "qty", "orders", "head", "tail"}
      /\ w = [k \in DOMAIN w |-> w[k]]
      /\ w.price = L[li].price /\ w.qty = L[li].qty - o.qty
      /\ w.orders = L[li].orders - 1
      /\ w.head = (IF o.prev = Nil THEN o.next ELSE L[li].head)
      /\ w.tail = (IF o.next = Nil THEN o.prev ELSE L[li].tail)
  BY DEF ClosedOver
<1> HIDE DEF w, M
<1>5. \A k \in DOMAIN w : M[li][k] = w[k]
  BY <1>3, <1>4
<1>6. M[li] = w
  BY <1>3, <1>4, <1>5
<1> QED
  BY <1>1, <1>6 DEF w, M

LEMMA UnlinkLeaves ==
    ASSUME NEW b, DOMAIN b = Fields, NEW ns, Queues(b.orders, b.levels, ns),
           NEW oi \in DOMAIN b.orders
    PROVE  LET c == Unlink(b, oi) IN Leaves(b.orders, b.levels, oi, c.orders, c.levels)
<1> DEFINE c == Unlink(b, oi)
           O == b.orders
           L == b.levels
           o == O[oi]
           li == o.level
           lev == ClosedOver(L[li], o)
<1>0. c.levels = UnlinkedLevels(L, o)
  BY UnlinkParts
<1>1. c.orders = [i \in DOMAIN O \ {oi} |->
                     [O[i] EXCEPT !.next = IF i = o.prev THEN o.next ELSE @,
                                  !.prev = IF i = o.next THEN o.prev ELSE @]]
  BY UnlinkParts
<1>2. L[li] \in LevelEntry /\ li \in DOMAIN L
  BY DEF Queues, LevelFits, EntryFits
<1>3. /\ DOMAIN c.levels = DOMAIN L /\ c.levels[li] = lev
      /\ \A l \in DOMAIN L \ {li} : c.levels[l] = L[l]
  <2> HIDE DEF c, o, L
  <2>1. LET M == UnlinkedLevels(L, o) IN
        /\ DOMAIN M = DOMAIN L /\ M[o.level] = ClosedOver(L[o.level], o)
        /\ \A l \in DOMAIN L \ {o.level} : M[l] = L[l]
    BY <1>2, UnlinkLevel
  <2> QED
    BY <1>0, <2>1
<1> HIDE DEF c
<1>5. Leaves(O, L, oi, c.orders, c.levels)
  BY <1>1, <1>3, Zenon DEF Leaves, ClosedOver
<1> QED
  BY <1>5 DEF c

LEMMA ReturnOrderParts ==
    ASSUME NEW b, DOMAIN b = Fields, NEW oi
    PROVE  LET c == ReturnOrder(b, oi) IN
           /\ DOMAIN c = Fields /\ c.size = b.size
           /\ c.orders = b.orders /\ c.levels = b.levels
           /\ c.freeOrders = Append(b.freeOrders, oi) /\ c.freeLevels = b.freeLevels
           /\ SameWindow(c, b) /\ SameCounts(c, b)
  BY DEF ReturnOrder, Fields, SameWindow, SameCounts

LEMMA ShrinkParts ==
    ASSUME NEW b, DOMAIN b = Fields, NEW oi \in DOMAIN b.orders, NEW q,
           b.orders[oi].level \in DOMAIN b.levels
    PROVE  LET c == Shrink(b, oi, q) IN
           /\ DOMAIN c = Fields /\ c.size = b.size
           /\ Shrinks(b.orders, b.levels, oi, q, c.orders, c.levels)
           /\ c.freeOrders = b.freeOrders /\ c.freeLevels = b.freeLevels
           /\ SameWindow(c, b) /\ SameCounts(c, b)
<1> DEFINE c == Shrink(b, oi, q)
           O == b.orders
           L == b.levels
           li == O[oi].level
           u == [O[oi] EXCEPT !.qty = O[oi].qty - q]
           v == [L[li] EXCEPT !.qty = L[li].qty - q]
<1>1. /\ DOMAIN c = Fields /\ c.size = b.size
      /\ c.freeOrders = b.freeOrders /\ c.freeLevels = b.freeLevels
      /\ SameWindow(c, b) /\ SameCounts(c, b)
      /\ c.orders = [O EXCEPT ![oi] = u] /\ c.levels = [L EXCEPT ![li] = v]
  BY DEF Shrink, Fields, SameWindow, SameCounts
<1> HIDE DEF c, u, v
<1>2. /\ DOMAIN c.orders = DOMAIN O /\ DOMAIN c.levels = DOMAIN L
      /\ c.orders[oi] = u /\ c.levels[li] = v
      /\ \A i \in DOMAIN O \ {oi} : c.orders[i] = O[i]
      /\ \A l \in DOMAIN L \ {li} : c.levels[l] = L[l]
  BY <1>1
<1>3. Shrinks(O, L, oi, q, c.orders, c.levels)
  BY <1>2, Zenon DEF Shrinks, u, v
<1> QED
  BY <1>1, <1>3 DEF c

-----------------------------------------------------------------------------
(* How a level is found: window and overflow map as one table of sides and prices. *)
Marked(b) ==
    /\ b.slot \in [Sides -> [Grid -> Int]]
    /\ DOMAIN b.bits = Sides /\ DOMAIN b.hint = Sides /\ DOMAIN b.over = Sides
    /\ \A s \in Sides : /\ b.bits[s] = {t \in Grid : b.slot[s][t] # Nil}
                        /\ b.hint[s] = Window!NoTick \/ b.hint[s] \in b.bits[s]
                        /\ IsFiniteSet(DOMAIN b.over[s]) /\ DOMAIN b.over[s] \subseteq Nat \ {0}
                        /\ \A p \in DOMAIN b.over[s] : ~InGrid(p) /\ b.over[s][p] # Nil

(* From b to c the table changes at one place. *)
Places(c, b, side, px, li) ==
    \A s \in Sides, p \in Nat :
        Lookup(c, s, p) = IF s = side /\ p = px THEN li ELSE Lookup(b, s, p)

LEMMA SameLookup ==
    ASSUME NEW c, NEW b, SameWindow(c, b)
    PROVE  /\ \A s, p : Lookup(c, s, p) = Lookup(b, s, p)
           /\ Marked(b) => Marked(c)
  BY DEF SameWindow, Lookup, Marked

LEMMA MaxOfTwo ==
    ASSUME NEW x \in Int, NEW y \in Int
    PROVE  Window!Max({x, y}) \in {x, y} /\ Window!Min({x, y}) \in {x, y}
<1>1. \E m \in {x, y} : \A z \in {x, y} : m >= z
  BY x >= y \/ y >= x
<1>2. \E m \in {x, y} : \A z \in {x, y} : m <= z
  BY x >= y \/ y >= x
<1> QED
  BY <1>1, <1>2 DEF Window!Max, Window!Min

(* A slot of the window is set, with its bit; the hint becomes h. *)
LEMMA SetSlot ==
    ASSUME Window!WindowConstants, NEW b, Marked(b), NEW side \in Sides, NEW px \in Nat, InGrid(px),
           NEW li \in Int, NEW h,
           NEW c, c.slot = [b.slot EXCEPT ![side] = [b.slot[side] EXCEPT ![TickOf(px)] = li]],
           c.bits = [b.bits EXCEPT ![side] = IF li = Nil THEN b.bits[side] \ {TickOf(px)}
                                             ELSE b.bits[side] \cup {TickOf(px)}],
           c.hint = [b.hint EXCEPT ![side] = h], c.over = b.over,
           h = Window!NoTick \/ h \in c.bits[side]
    PROVE  Marked(c) /\ Places(c, b, side, px, li)
<1> DEFINE t == TickOf(px)
<1>1. t \in Grid
  BY TickAtPrice
<1>2. /\ b.slot \in [Sides -> [Grid -> Int]]
      /\ DOMAIN b.bits = Sides /\ DOMAIN b.hint = Sides /\ DOMAIN b.over = Sides
      /\ \A s \in Sides : /\ b.bits[s] = {u \in Grid : b.slot[s][u] # Nil}
                          /\ b.hint[s] = Window!NoTick \/ b.hint[s] \in b.bits[s]
  BY DEF Marked
<1>3. Places(c, b, side, px, li)
  <2> SUFFICES ASSUME NEW s \in Sides, NEW p \in Nat
               PROVE  Lookup(c, s, p) = IF s = side /\ p = px THEN li ELSE Lookup(b, s, p)
    BY DEF Places
  <2>1. CASE InGrid(p)
    <3>1. TickOf(p) \in Grid /\ (TickOf(p) = t => p = px)
      BY <2>1, TickAtPrice, TickInjective
    <3>2. Lookup(c, s, p) = c.slot[s][TickOf(p)] /\ Lookup(b, s, p) = b.slot[s][TickOf(p)]
      BY <2>1 DEF Lookup
    <3>3. c.slot[s][TickOf(p)] = IF s = side /\ TickOf(p) = t THEN li ELSE b.slot[s][TickOf(p)]
      <4> DEFINE q == TickOf(p)
      <4> HIDE DEF q, t
      <4>1. q \in Grid
        BY <3>1 DEF q
      <4> SUFFICES c.slot[s][q] = IF s = side /\ q = t THEN li ELSE b.slot[s][q]
        BY DEF q
      <4>2. c.slot = [b.slot EXCEPT ![side] = [b.slot[side] EXCEPT ![t] = li]]
        BY DEF t
      <4> QED
        BY <1>2, <4>1, <4>2
    <3> QED
      BY <3>1, <3>2, <3>3
  <2>2. CASE ~InGrid(p)
    BY <2>2 DEF Lookup
  <2> QED
    BY <2>1, <2>2
<1>4. c.slot \in [Sides -> [Grid -> Int]]
  <2> HIDE DEF t
  <2>1. c.slot = [b.slot EXCEPT ![side] = [b.slot[side] EXCEPT ![t] = li]]
    BY DEF t
  <2> DEFINE v == [b.slot[side] EXCEPT ![t] = li]
             R == [Grid -> Int]
  <2>2. v \in R
    BY <1>1, <1>2
  <2>3. b.slot \in [Sides -> R] /\ c.slot = [b.slot EXCEPT ![side] = v]
    BY <1>2, <2>1
  <2> HIDE DEF v, R
  <2>4. c.slot \in [Sides -> R]
    BY <2>2, <2>3
  <2> QED
    BY <2>4 DEF R
<1>5. ASSUME NEW s \in Sides
      PROVE  /\ c.bits[s] = {u \in Grid : c.slot[s][u] # Nil}
             /\ c.hint[s] = Window!NoTick \/ c.hint[s] \in c.bits[s]
  <2> HIDE DEF t
  <2>0. c.slot = [b.slot EXCEPT ![side] = [b.slot[side] EXCEPT ![t] = li]]
    BY DEF t
  <2>b. c.bits = [b.bits EXCEPT ![side] = IF li = Nil THEN b.bits[side] \ {t}
                                          ELSE b.bits[side] \cup {t}]
    BY DEF t
  <2>1. CASE s = side
    <3>1. \A u \in Grid : c.slot[s][u] = IF u = t THEN li ELSE b.slot[s][u]
      BY <1>2, <2>0, <2>1
    <3>2. c.bits[s] = IF li = Nil THEN b.bits[s] \ {t} ELSE b.bits[s] \cup {t}
      BY <1>2, <2>b, <2>1
    <3>3. c.hint[s] = h
      BY <1>2, <2>1
    <3> QED
      BY <1>1, <1>2, <2>1, <3>1, <3>2, <3>3 DEF t
  <2>2. CASE s # side
    <3>1. c.slot[s] = b.slot[s] /\ c.bits[s] = b.bits[s] /\ c.hint[s] = b.hint[s]
      BY <1>2, <2>0, <2>b, <2>2
    <3> QED
      BY <1>2, <3>1
  <2> QED
    BY <2>1, <2>2
<1>6. DOMAIN c.bits = Sides /\ DOMAIN c.hint = Sides
  BY <1>2
<1> QED
  BY <1>3, <1>4, <1>5, <1>6 DEF Marked

(* The overflow map of a side changes. *)
LEMMA SetOver ==
    ASSUME NEW b, Marked(b), NEW side \in Sides, NEW px \in Nat \ {0}, ~InGrid(px), NEW li,
           NEW m, m = IF li = Nil THEN Without(b.over[side], px) ELSE Put(b.over[side], px, li),
           NEW c, c.slot = b.slot, c.bits = b.bits, c.hint = b.hint,
           c.over = [b.over EXCEPT ![side] = m]
    PROVE  Marked(c) /\ Places(c, b, side, px, li)
<1>1. /\ DOMAIN b.over = Sides
      /\ \A s \in Sides : /\ IsFiniteSet(DOMAIN b.over[s]) /\ DOMAIN b.over[s] \subseteq Nat \ {0}
                          /\ \A p \in DOMAIN b.over[s] : ~InGrid(p) /\ b.over[s][p] # Nil
  BY DEF Marked
<1>2. /\ DOMAIN m = IF li = Nil THEN DOMAIN b.over[side] \ {px} ELSE DOMAIN b.over[side] \cup {px}
      /\ \A p \in DOMAIN m : m[p] = IF p = px THEN li ELSE b.over[side][p]
  BY DEF Put, Without
<1>3. IsFiniteSet(DOMAIN m)
  <2>1. IsFiniteSet(DOMAIN b.over[side] \ {px}) /\ IsFiniteSet(DOMAIN b.over[side] \cup {px})
    BY <1>1, FS_Subset, FS_AddElement
  <2> QED
    BY <1>2, <2>1
<1>4. \A s \in Sides : c.over[s] = IF s = side THEN m ELSE b.over[s]
  BY <1>1
<1>5. Marked(c)
  BY <1>1, <1>2, <1>3, <1>4 DEF Marked
<1>6. Places(c, b, side, px, li)
  <2> SUFFICES ASSUME NEW s \in Sides, NEW p \in Nat
               PROVE  Lookup(c, s, p) = IF s = side /\ p = px THEN li ELSE Lookup(b, s, p)
    BY DEF Places
  <2> QED
    BY <1>2, <1>4 DEF Lookup
<1> QED
  BY <1>5, <1>6

LEMMA WithLevelParts ==
    ASSUME Window!WindowConstants, NEW b, DOMAIN b = Fields, Marked(b), NEW side \in Sides,
           NEW px \in Nat \ {0}, Lookup(b, side, px) = Nil, Seqs!Last(b.freeLevels) \in Nat
    PROVE  LET c == WithLevel(b, side, px)
               li == Seqs!Last(b.freeLevels) IN
           /\ DOMAIN c = Fields /\ c.size = b.size
           /\ c.orders = b.orders /\ c.freeOrders = b.freeOrders
           /\ c.levels = Put(b.levels, li, NewLevel(px))
           /\ c.freeLevels = Seqs!Front(b.freeLevels)
           /\ SameCounts(c, b) /\ Marked(c) /\ Places(c, b, side, px, li)
<1> DEFINE c == WithLevel(b, side, px)
           li == Seqs!Last(b.freeLevels)
           k == TakeLevel(b, px)
           t == TickOf(px)
<1>1. /\ DOMAIN k = Fields /\ k.size = b.size
      /\ k.orders = b.orders /\ k.freeOrders = b.freeOrders
      /\ k.levels = Put(b.levels, li, NewLevel(px)) /\ k.freeLevels = Seqs!Front(b.freeLevels)
      /\ SameWindow(k, b) /\ SameCounts(k, b)
  BY TakeLevelParts
<1>2. DOMAIN b.bits = Sides /\ DOMAIN b.hint = Sides /\ DOMAIN b.over = Sides /\ DOMAIN b.slot = Sides
  BY DEF Marked
<1>3. CASE InGrid(px)
  <2> DEFINE h == Window!Improved(side, b.hint[side], t)
  <2>1. c = [k EXCEPT !.slot[side][t] = li, !.bits[side] = @ \cup {t},
                      !.hint[side] = Window!Improved(side, @, t)]
    BY <1>3 DEF WithLevel
  <2> HIDE DEF c, k, t, li
  <2>2. /\ DOMAIN c = Fields /\ c.size = k.size /\ c.orders = k.orders
        /\ c.freeOrders = k.freeOrders /\ c.levels = k.levels /\ c.freeLevels = k.freeLevels
        /\ SameCounts(c, k) /\ c.over = k.over
    BY <1>1, <2>1 DEF Fields, SameCounts
  <2>3. /\ c.slot = [k.slot EXCEPT ![side] = [k.slot[side] EXCEPT ![t] = li]]
        /\ c.bits = [k.bits EXCEPT ![side] = k.bits[side] \cup {t}]
        /\ c.hint = [k.hint EXCEPT ![side] = Window!Improved(side, k.hint[side], t)]
    BY <1>1, <2>1 DEF Fields
  <2>4. /\ c.slot = [b.slot EXCEPT ![side] = [b.slot[side] EXCEPT ![t] = li]]
        /\ c.bits = [b.bits EXCEPT ![side] = b.bits[side] \cup {t}]
        /\ c.hint = [b.hint EXCEPT ![side] = h] /\ c.over = b.over
    BY <1>1, <2>2, <2>3 DEF SameWindow
  <2>5. li # Nil /\ li \in Int
    BY DEF li, Nil
  <2>6. t \in Grid
    BY <1>3, TickAtPrice DEF t
  <2>7. h = Window!NoTick \/ h \in b.bits[side] \cup {t}
    <3>1. b.hint[side] = Window!NoTick \/ b.hint[side] \in b.bits[side]
      BY DEF Marked
    <3>2. b.bits[side] \subseteq Grid /\ Grid \subseteq Int
      BY DEF Marked, Grid
    <3>3. CASE b.hint[side] = Window!NoTick
      BY <3>3 DEF Window!Improved
    <3>4. CASE b.hint[side] # Window!NoTick
      <4>1. /\ Window!Max({b.hint[side], t}) \in {b.hint[side], t}
            /\ Window!Min({b.hint[side], t}) \in {b.hint[side], t}
        BY <2>6, <3>1, <3>2, <3>4, MaxOfTwo
      <4>2. h = Window!Max({b.hint[side], t}) \/ h = Window!Min({b.hint[side], t})
        BY <3>4 DEF Window!Improved
      <4> HIDE DEF h
      <4> QED
        BY <3>1, <3>4, <4>1, <4>2
    <3> QED
      BY <3>3, <3>4
  <2>8. c.bits[side] = b.bits[side] \cup {t}
    BY <1>2, <2>4
  <2> HIDE DEF h
  <2>9. c.bits = [b.bits EXCEPT ![side] = IF li = Nil THEN b.bits[side] \ {t}
                                           ELSE b.bits[side] \cup {t}]
    BY <2>4, <2>5
  <2>10. Marked(c) /\ Places(c, b, side, px, li)
    BY <1>3, <2>4, <2>5, <2>7, <2>8, <2>9, SetSlot DEF t
  <2>11. SameCounts(c, b)
    BY <1>1, <2>2 DEF SameCounts
  <2> QED
    BY <1>1, <2>2, <2>10, <2>11 DEF c, li
<1>4. CASE ~InGrid(px)
  <2>1. c = [k EXCEPT !.over[side] = Put(@, px, li)]
    BY <1>4 DEF WithLevel
  <2> HIDE DEF c, k, t, li
  <2>2. /\ DOMAIN c = Fields /\ c.size = k.size /\ c.orders = k.orders
        /\ c.freeOrders = k.freeOrders /\ c.levels = k.levels /\ c.freeLevels = k.freeLevels
        /\ SameCounts(c, k) /\ c.slot = k.slot /\ c.bits = k.bits /\ c.hint = k.hint
    BY <1>1, <2>1 DEF Fields, SameCounts
  <2>3. c.over = [k.over EXCEPT ![side] = Put(k.over[side], px, li)]
    BY <1>1, <2>1 DEF Fields
  <2>5. li # Nil
    BY DEF li, Nil
  <2>4. /\ c.slot = b.slot /\ c.bits = b.bits /\ c.hint = b.hint
        /\ c.over = [b.over EXCEPT ![side] = IF li = Nil THEN Without(b.over[side], px)
                                             ELSE Put(b.over[side], px, li)]
    BY <1>1, <2>2, <2>3, <2>5 DEF SameWindow
  <2>10. Marked(c) /\ Places(c, b, side, px, li)
    BY <1>4, <2>4, SetOver
  <2>11. SameCounts(c, b)
    BY <1>1, <2>2 DEF SameCounts
  <2> QED
    BY <1>1, <2>2, <2>10, <2>11 DEF c, li
<1> QED
  BY <1>3, <1>4

LEMMA DropLevelParts ==
    ASSUME Window!WindowConstants, NEW b, DOMAIN b = Fields, Marked(b), NEW side \in Sides,
           NEW li, b.levels[li].price \in Nat \ {0}
    PROVE  LET c == DropLevel(b, side, li) IN
           /\ DOMAIN c = Fields /\ c.size = b.size
           /\ c.orders = b.orders /\ c.freeOrders = b.freeOrders
           /\ c.levels = Without(b.levels, li)
           /\ c.freeLevels = Append(b.freeLevels, li)
           /\ SameCounts(c, b) /\ Marked(c) /\ Places(c, b, side, b.levels[li].price, Nil)
<1> DEFINE c == DropLevel(b, side, li)
           px == b.levels[li].price
           k == ReturnLevel(b, li)
           t == TickOf(px)
<1>1. /\ DOMAIN k = Fields /\ k.size = b.size
      /\ k.orders = b.orders /\ k.freeOrders = b.freeOrders
      /\ k.levels = Without(b.levels, li) /\ k.freeLevels = Append(b.freeLevels, li)
      /\ SameWindow(k, b) /\ SameCounts(k, b)
  BY ReturnLevelParts
<1>2. DOMAIN b.bits = Sides /\ DOMAIN b.hint = Sides /\ DOMAIN b.over = Sides /\ DOMAIN b.slot = Sides
  BY DEF Marked
<1>p. px \in Nat \ {0}
  OBVIOUS
<1>3. CASE InGrid(px)
  <2> DEFINE h == Window!Forgotten(b.hint[side], t)
  <2>1. c = [k EXCEPT !.slot[side][t] = Nil, !.bits[side] = @ \ {t},
                      !.hint[side] = Window!Forgotten(@, t)]
    BY <1>3 DEF DropLevel
  <2> HIDE DEF c, k, t, px
  <2>2. /\ DOMAIN c = Fields /\ c.size = k.size /\ c.orders = k.orders
        /\ c.freeOrders = k.freeOrders /\ c.levels = k.levels /\ c.freeLevels = k.freeLevels
        /\ SameCounts(c, k) /\ c.over = k.over
    BY <1>1, <2>1 DEF Fields, SameCounts
  <2>3. /\ c.slot = [k.slot EXCEPT ![side] = [k.slot[side] EXCEPT ![t] = Nil]]
        /\ c.bits = [k.bits EXCEPT ![side] = k.bits[side] \ {t}]
        /\ c.hint = [k.hint EXCEPT ![side] = Window!Forgotten(k.hint[side], t)]
    BY <1>1, <2>1 DEF Fields
  <2>4. /\ c.slot = [b.slot EXCEPT ![side] = [b.slot[side] EXCEPT ![t] = Nil]]
        /\ c.bits = [b.bits EXCEPT ![side] = b.bits[side] \ {t}]
        /\ c.hint = [b.hint EXCEPT ![side] = h] /\ c.over = b.over
    BY <1>1, <2>2, <2>3 DEF SameWindow
  <2>7. h = Window!NoTick \/ h \in b.bits[side] \ {t}
    <3>1. b.hint[side] = Window!NoTick \/ b.hint[side] \in b.bits[side]
      BY DEF Marked
    <3> QED
      BY <3>1 DEF Window!Forgotten
  <2>8. c.bits[side] = b.bits[side] \ {t}
    BY <1>2, <2>4
  <2> HIDE DEF h
  <2>9. c.bits = [b.bits EXCEPT ![side] = IF Nil = Nil THEN b.bits[side] \ {t}
                                           ELSE b.bits[side] \cup {t}]
    BY <2>4
  <2>5. Nil \in Int
    BY DEF Nil
  <2>10. Marked(c) /\ Places(c, b, side, px, Nil)
    BY <1>p, <1>3, <2>4, <2>5, <2>7, <2>8, <2>9, SetSlot DEF t
  <2>11. SameCounts(c, b)
    BY <1>1, <2>2 DEF SameCounts
  <2> QED
    BY <1>1, <2>2, <2>10, <2>11 DEF c, px
<1>4. CASE ~InGrid(px)
  <2>1. c = [k EXCEPT !.over[side] = Without(@, px)]
    BY <1>4 DEF DropLevel
  <2> HIDE DEF c, k, t, px
  <2>2. /\ DOMAIN c = Fields /\ c.size = k.size /\ c.orders = k.orders
        /\ c.freeOrders = k.freeOrders /\ c.levels = k.levels /\ c.freeLevels = k.freeLevels
        /\ SameCounts(c, k) /\ c.slot = k.slot /\ c.bits = k.bits /\ c.hint = k.hint
    BY <1>1, <2>1 DEF Fields, SameCounts
  <2>3. c.over = [k.over EXCEPT ![side] = Without(k.over[side], px)]
    BY <1>1, <2>1 DEF Fields
  <2>4. /\ c.slot = b.slot /\ c.bits = b.bits /\ c.hint = b.hint
        /\ c.over = [b.over EXCEPT ![side] = IF Nil = Nil THEN Without(b.over[side], px)
                                             ELSE Put(b.over[side], px, Nil)]
    BY <1>1, <2>2, <2>3 DEF SameWindow
  <2>10. Marked(c) /\ Places(c, b, side, px, Nil)
    BY <1>p, <1>4, <2>4, SetOver
  <2>11. SameCounts(c, b)
    BY <1>1, <2>2 DEF SameCounts
  <2> QED
    BY <1>1, <2>2, <2>10, <2>11 DEF c, px
<1> QED
  BY <1>3, <1>4

(* Every level is found at its price on one side, where all its orders are. *)
Found(b) ==
    /\ \A s \in Sides, p \in Nat :
          Lookup(b, s, p) # Nil => /\ Lookup(b, s, p) \in DOMAIN b.levels
                                   /\ b.levels[Lookup(b, s, p)].price = p
    /\ \A s, u \in Sides, p \in Nat :
          Lookup(b, s, p) = Lookup(b, u, p) /\ Lookup(b, s, p) # Nil => s = u
    /\ \A li \in DOMAIN b.levels : \E s \in Sides : Lookup(b, s, b.levels[li].price) = li
    /\ \A i \in DOMAIN b.orders :
          Lookup(b, b.orders[i].side, b.levels[b.orders[i].level].price) = b.orders[i].level

(* A change of the lists that moves no level and no order between levels. *)
LEMMA FoundKept ==
    ASSUME NEW b, Found(b), NEW c,
           \A s \in Sides, p \in Nat : Lookup(c, s, p) = Lookup(b, s, p),
           DOMAIN c.levels = DOMAIN b.levels,
           \A l \in DOMAIN b.levels : c.levels[l].price = b.levels[l].price /\ b.levels[l].price \in Nat,
           \A i \in DOMAIN c.orders :
              /\ c.orders[i].side \in Sides /\ c.orders[i].level \in DOMAIN b.levels
              /\ Lookup(b, c.orders[i].side, b.levels[c.orders[i].level].price) = c.orders[i].level
    PROVE  Found(c)
<1>1. /\ \A s \in Sides, p \in Nat :
            Lookup(b, s, p) # Nil => /\ Lookup(b, s, p) \in DOMAIN b.levels
                                     /\ b.levels[Lookup(b, s, p)].price = p
      /\ \A s, u \in Sides, p \in Nat :
            Lookup(b, s, p) = Lookup(b, u, p) /\ Lookup(b, s, p) # Nil => s = u
      /\ \A li \in DOMAIN b.levels : \E s \in Sides : Lookup(b, s, b.levels[li].price) = li
  BY DEF Found
<1>2. \A li \in DOMAIN c.levels : \E s \in Sides : Lookup(c, s, c.levels[li].price) = li
  BY <1>1
<1> QED
  BY <1>1, <1>2 DEF Found

LEMMA FoundPlaced ==
    ASSUME NEW b, NEW ns, Queues(b.orders, b.levels, ns), Found(b),
           NEW side \in Sides, NEW px \in Nat \ {0}, Lookup(b, side, px) = Nil,
           NEW li \in Nat, li \notin DOMAIN b.levels,
           NEW c, c.orders = b.orders, c.levels = Put(b.levels, li, NewLevel(px)),
           Places(c, b, side, px, li)
    PROVE  /\ Found(c) /\ Lookup(c, side, px) = li /\ Queues(c.orders, c.levels, ns)
           /\ DOMAIN c.levels = DOMAIN b.levels \cup {li} /\ c.levels[li].price = px
           /\ \A l \in DOMAIN b.levels : c.levels[l] = b.levels[l]
<1>1. /\ \A s \in Sides, p \in Nat :
            Lookup(b, s, p) # Nil => /\ Lookup(b, s, p) \in DOMAIN b.levels
                                     /\ b.levels[Lookup(b, s, p)].price = p
      /\ \A s, u \in Sides, p \in Nat :
            Lookup(b, s, p) = Lookup(b, u, p) /\ Lookup(b, s, p) # Nil => s = u
      /\ \A l \in DOMAIN b.levels : \E s \in Sides : Lookup(b, s, b.levels[l].price) = l
      /\ \A i \in DOMAIN b.orders :
            Lookup(b, b.orders[i].side, b.levels[b.orders[i].level].price) = b.orders[i].level
  BY DEF Found
<1>2. /\ Queues(c.orders, c.levels, ns)
      /\ DOMAIN c.levels = DOMAIN b.levels \cup {li} /\ c.levels[li].price = px
      /\ \A l \in DOMAIN b.levels : c.levels[l] = b.levels[l]
  <2>1. /\ Queues(c.orders, c.levels, ns)
        /\ DOMAIN c.levels = DOMAIN b.levels \cup {li} /\ c.levels[li] = NewLevel(px)
        /\ \A l \in DOMAIN b.levels : c.levels[l] = b.levels[l]
    BY OpenQueue
  <2>2. NewLevel(px).price = px
    BY DEF NewLevel
  <2> QED
    BY <2>1, <2>2
<1>3. /\ li # Nil
      /\ \A l \in DOMAIN b.levels : l # Nil /\ l # li /\ b.levels[l].price \in Nat
      /\ \A i \in DOMAIN b.orders : b.orders[i].level \in DOMAIN b.levels /\ b.orders[i].side \in Sides
  BY DEF Queues, EntryFits, LevelFits, Entry, LevelEntry, Nil
<1>4. \A s \in Sides, p \in Nat :
          Lookup(c, s, p) = IF s = side /\ p = px THEN li ELSE Lookup(b, s, p)
  BY DEF Places
<1>5. \A s \in Sides, p \in Nat :
          Lookup(c, s, p) # Nil => /\ Lookup(c, s, p) \in DOMAIN c.levels
                                   /\ c.levels[Lookup(c, s, p)].price = p
  BY <1>1, <1>2, <1>4
<1>6. \A s, u \in Sides, p \in Nat :
          Lookup(c, s, p) = Lookup(c, u, p) /\ Lookup(c, s, p) # Nil => s = u
  BY <1>1, <1>3, <1>4
<1>7. \A l \in DOMAIN c.levels : \E s \in Sides : Lookup(c, s, c.levels[l].price) = l
  <2> TAKE l \in DOMAIN c.levels
  <2>1. CASE l = li
    BY <1>2, <1>4, <2>1
  <2>2. CASE l # li
    <3>1. l \in DOMAIN b.levels /\ c.levels[l].price = b.levels[l].price /\ b.levels[l].price \in Nat
      BY <1>2, <1>3, <2>2
    <3>2. PICK s \in Sides : Lookup(b, s, b.levels[l].price) = l
      BY <1>1, <3>1
    <3>3. Lookup(c, s, b.levels[l].price) = l
      BY <1>3, <1>4, <3>1, <3>2
    <3> QED
      BY <3>1, <3>3
  <2> QED
    BY <2>1, <2>2
<1>8. \A i \in DOMAIN c.orders :
          Lookup(c, c.orders[i].side, c.levels[c.orders[i].level].price) = c.orders[i].level
  BY <1>1, <1>2, <1>3, <1>4
<1> QED
  BY <1>2, <1>4, <1>5, <1>6, <1>7, <1>8 DEF Found

LEMMA FoundClosed ==
    ASSUME NEW b, NEW ns, Queues(b.orders, b.levels, ns), Found(b),
           NEW li \in DOMAIN b.levels, OnLevel(b.orders, li) = {},
           NEW side \in Sides, Lookup(b, side, b.levels[li].price) = li,
           NEW c, c.orders = b.orders, c.levels = Without(b.levels, li),
           Places(c, b, side, b.levels[li].price, Nil)
    PROVE  /\ Found(c) /\ Queues(c.orders, c.levels, ns)
           /\ DOMAIN c.levels = DOMAIN b.levels \ {li}
           /\ \A l \in DOMAIN b.levels \ {li} : c.levels[l] = b.levels[l]
<1> DEFINE px == b.levels[li].price
<1>1. /\ \A s \in Sides, p \in Nat :
            Lookup(b, s, p) # Nil => /\ Lookup(b, s, p) \in DOMAIN b.levels
                                     /\ b.levels[Lookup(b, s, p)].price = p
      /\ \A s, u \in Sides, p \in Nat :
            Lookup(b, s, p) = Lookup(b, u, p) /\ Lookup(b, s, p) # Nil => s = u
      /\ \A l \in DOMAIN b.levels : \E s \in Sides : Lookup(b, s, b.levels[l].price) = l
      /\ \A i \in DOMAIN b.orders :
            Lookup(b, b.orders[i].side, b.levels[b.orders[i].level].price) = b.orders[i].level
  BY DEF Found
<1>2. /\ Queues(c.orders, c.levels, ns) /\ DOMAIN c.levels = DOMAIN b.levels \ {li}
      /\ \A l \in DOMAIN b.levels \ {li} : c.levels[l] = b.levels[l]
  BY CloseQueue
<1>3. /\ \A l \in DOMAIN b.levels : l # Nil /\ b.levels[l].price \in Nat
      /\ \A i \in DOMAIN b.orders : /\ b.orders[i].level \in DOMAIN b.levels \ {li}
                                    /\ b.orders[i].side \in Sides
  BY DEF Queues, EntryFits, LevelFits, Entry, LevelEntry, Nil, OnLevel
<1>4. \A s \in Sides, p \in Nat :
          Lookup(c, s, p) = IF s = side /\ p = px THEN Nil ELSE Lookup(b, s, p)
  BY DEF Places
<1>p. px \in Nat /\ Lookup(b, side, px) = li /\ li # Nil /\ b.levels[li].price = px
  BY <1>3
<1> HIDE DEF px
<1>5. ASSUME NEW s \in Sides, NEW p \in Nat, Lookup(b, s, p) = li PROVE s = side /\ p = px
  <2>1. p = px
    BY <1>1, <1>p, <1>5
  <2> QED
    BY <1>1, <1>p, <1>5, <2>1
<1>6. \A s \in Sides, p \in Nat :
          Lookup(c, s, p) # Nil => /\ Lookup(c, s, p) \in DOMAIN c.levels
                                   /\ c.levels[Lookup(c, s, p)].price = p
  BY <1>1, <1>2, <1>4, <1>5
<1>7. \A s, u \in Sides, p \in Nat :
          Lookup(c, s, p) = Lookup(c, u, p) /\ Lookup(c, s, p) # Nil => s = u
  BY <1>1, <1>4
<1>8. \A l \in DOMAIN c.levels : \E s \in Sides : Lookup(c, s, c.levels[l].price) = l
  <2> TAKE l \in DOMAIN c.levels
  <2>1. /\ l \in DOMAIN b.levels /\ l # li /\ c.levels[l].price = b.levels[l].price
        /\ b.levels[l].price \in Nat
    BY <1>2, <1>3
  <2>2. PICK s \in Sides : Lookup(b, s, b.levels[l].price) = l
    BY <1>1, <2>1
  <2>3. ~(s = side /\ b.levels[l].price = px)
    BY <1>p, <2>1, <2>2
  <2> QED
    BY <1>4, <2>1, <2>2, <2>3
<1>9. \A i \in DOMAIN c.orders :
          Lookup(c, c.orders[i].side, c.levels[c.orders[i].level].price) = c.orders[i].level
  <2> TAKE i \in DOMAIN c.orders
  <2>1. /\ b.orders[i].level \in DOMAIN b.levels \ {li} /\ b.orders[i].side \in Sides
        /\ c.levels[b.orders[i].level].price = b.levels[b.orders[i].level].price
        /\ b.levels[b.orders[i].level].price \in Nat
        /\ Lookup(b, b.orders[i].side, b.levels[b.orders[i].level].price) = b.orders[i].level
    BY <1>1, <1>2, <1>3
  <2>2. ~(b.orders[i].side = side /\ b.levels[b.orders[i].level].price = px)
    BY <1>p, <2>1
  <2> QED
    BY <1>4, <2>1, <2>2
<1> QED
  BY <1>2, <1>6, <1>7, <1>8, <1>9 DEF Found

-----------------------------------------------------------------------------
(* The book, and what each event does to its orders. *)
PoolsFit(b) ==
    /\ b.size \in Sizes
    /\ Stacked(b.freeOrders, b.size.orders, DOMAIN b.orders)
    /\ DOMAIN b.orders \subseteq 0..(b.size.orders - 1)
    /\ Stacked(b.freeLevels, b.size.levels, DOMAIN b.levels)
    /\ DOMAIN b.levels \subseteq 0..(b.size.levels - 1)

IdsFit(b) ==
    /\ DOMAIN b.ids \subseteq Refs
    /\ \A ref \in DOMAIN b.ids : /\ b.ids[ref] \in DOMAIN b.orders
                                 /\ b.orders[b.ids[ref]].id = ref

(* What holds inside an event too, where a level may have no order yet or any more. *)
Sound(b) ==
    /\ DOMAIN b = Fields /\ PoolsFit(b)
    /\ Queues(b.orders, b.levels, b.nextSeq) /\ Marked(b) /\ Found(b)
    /\ b.rejected \in Nat

BookInv(b) ==
    /\ Sound(b) /\ IdsFit(b)
    /\ \A li \in DOMAIN b.levels : OnLevel(b.orders, li) # {}

PriceAt(b, i) == b.levels[b.orders[i].level].price

(* The order i of b is in c as it was. *)
KeptOrder(c, b, i) == SameOrder(c.orders[i], b.orders[i]) /\ PriceAt(c, i) = PriceAt(b, i)

LEMMA StampMoves ==
    ASSUME NEW b, DOMAIN b = Fields
    PROVE  LET c == [b EXCEPT !.nextSeq = @ + 1] IN
           /\ DOMAIN c = Fields /\ c.size = b.size /\ c.orders = b.orders /\ c.levels = b.levels
           /\ c.freeOrders = b.freeOrders /\ c.freeLevels = b.freeLevels
           /\ c.ids = b.ids /\ c.rejected = b.rejected /\ c.nextSeq = b.nextSeq + 1
           /\ SameWindow(c, b)
  BY DEF Fields, SameWindow

LEMMA RejectionCounts ==
    ASSUME NEW b, DOMAIN b = Fields
    PROVE  LET c == [b EXCEPT !.rejected = @ + 1] IN
           /\ DOMAIN c = Fields /\ c.size = b.size /\ c.orders = b.orders /\ c.levels = b.levels
           /\ c.freeOrders = b.freeOrders /\ c.freeLevels = b.freeLevels
           /\ c.ids = b.ids /\ c.rejected = b.rejected + 1 /\ c.nextSeq = b.nextSeq
           /\ SameWindow(c, b)
  BY DEF Fields, SameWindow

LEMMA IdsChange ==
    ASSUME NEW b, DOMAIN b = Fields, NEW m
    PROVE  LET c == [b EXCEPT !.ids = m] IN
           /\ DOMAIN c = Fields /\ c.size = b.size /\ c.orders = b.orders /\ c.levels = b.levels
           /\ c.freeOrders = b.freeOrders /\ c.freeLevels = b.freeLevels
           /\ c.ids = m /\ c.rejected = b.rejected /\ c.nextSeq = b.nextSeq
           /\ SameWindow(c, b)
  BY DEF Fields, SameWindow

(* The bookkeeping of an event touches neither lists nor window. *)
LEMMA SoundKept ==
    ASSUME NEW b, Sound(b), NEW c, DOMAIN c = Fields, c.size = b.size, c.orders = b.orders,
           c.levels = b.levels, c.freeOrders = b.freeOrders, c.freeLevels = b.freeLevels,
           c.nextSeq = b.nextSeq, SameWindow(c, b), c.rejected \in Nat
    PROVE  Sound(c)
<1>1. Marked(c) /\ \A s, p : Lookup(c, s, p) = Lookup(b, s, p)
  BY SameLookup DEF Sound
<1>2. Found(c)
  BY <1>1 DEF Sound, Found
<1> QED
  BY <1>1, <1>2 DEF Sound, PoolsFit

(* find_or_create_level. *)
LEMMA Readied ==
    ASSUME HybridConstants, NEW b, Sound(b), NEW side \in Sides, NEW px \in Nat \ {0},
           Lookup(b, side, px) = Nil => b.freeLevels # << >>
    PROVE  LET c == WithLevel(b, side, px)
               li == Lookup(c, side, px) IN
           /\ Sound(c) /\ li \in DOMAIN c.levels /\ c.levels[li].price = px
           /\ c.orders = b.orders /\ c.freeOrders = b.freeOrders /\ c.size = b.size
           /\ SameCounts(c, b)
           /\ \A l \in DOMAIN b.levels : l \in DOMAIN c.levels /\ c.levels[l] = b.levels[l]
           /\ \A l \in DOMAIN c.levels \ {li} : l \in DOMAIN b.levels
<1> DEFINE c == WithLevel(b, side, px)
           li == Seqs!Last(b.freeLevels)
<1>1. CASE Lookup(b, side, px) # Nil
  <2>1. c = b
    BY <1>1 DEF WithLevel
  <2>2. /\ Lookup(b, side, px) \in DOMAIN b.levels
        /\ b.levels[Lookup(b, side, px)].price = px
    BY <1>1 DEF Sound, Found
  <2> QED
    BY <2>1, <2>2 DEF SameCounts
<1>2. CASE Lookup(b, side, px) = Nil
  <2>0. /\ Window!WindowConstants /\ b.size.levels \in Nat
    BY DEF HybridConstants, Sound, PoolsFit
  <2>1. /\ DOMAIN b = Fields /\ Marked(b) /\ Found(b) /\ Queues(b.orders, b.levels, b.nextSeq)
        /\ Stacked(b.freeLevels, b.size.levels, DOMAIN b.levels)
        /\ DOMAIN b.levels \subseteq 0..(b.size.levels - 1)
    BY DEF Sound, PoolsFit
  <2>2. /\ li \in 0..(b.size.levels - 1) /\ li \notin DOMAIN b.levels
        /\ Stacked(Seqs!Front(b.freeLevels), b.size.levels, DOMAIN b.levels \cup {li})
    BY <1>2, <2>0, <2>1, StackGivesOut
  <2>3. /\ DOMAIN c = Fields /\ c.size = b.size
        /\ c.orders = b.orders /\ c.freeOrders = b.freeOrders
        /\ c.levels = Put(b.levels, li, NewLevel(px))
        /\ c.freeLevels = Seqs!Front(b.freeLevels)
        /\ SameCounts(c, b) /\ Marked(c) /\ Places(c, b, side, px, li)
    <3>1. Seqs!Last(b.freeLevels) \in Nat
      BY <2>2
    <3> QED
      BY <1>2, <2>0, <2>1, <3>1, WithLevelParts
  <2> HIDE DEF c, li
  <2>l. PICK l0 \in Nat : l0 = li
    BY <2>2
  <2>n. l0 \notin DOMAIN b.levels
    BY <2>2, <2>l
  <2> DEFINE ns == b.nextSeq
  <2>m. Found(b) /\ Queues(b.orders, b.levels, ns)
    BY <2>1
  <2> HIDE DEF ns
  <2>4. /\ Found(c) /\ Lookup(c, side, px) = li /\ Queues(c.orders, c.levels, b.nextSeq)
        /\ DOMAIN c.levels = DOMAIN b.levels \cup {li} /\ c.levels[li].price = px
        /\ \A l \in DOMAIN b.levels : c.levels[l] = b.levels[l]
    <3>1. /\ c.orders = b.orders /\ c.levels = Put(b.levels, l0, NewLevel(px))
          /\ Places(c, b, side, px, l0)
      BY <2>3, <2>l
    <3>2. /\ Found(c) /\ Lookup(c, side, px) = l0 /\ Queues(c.orders, c.levels, ns)
          /\ DOMAIN c.levels = DOMAIN b.levels \cup {l0} /\ c.levels[l0].price = px
          /\ \A l \in DOMAIN b.levels : c.levels[l] = b.levels[l]
      <4>1. Found(c) /\ Lookup(c, side, px) = l0
        BY <1>2, <2>m, <2>n, <3>1, FoundPlaced, SMTT(40)
      <4>2. Queues(c.orders, c.levels, ns)
        BY <1>2, <2>m, <2>n, <3>1, FoundPlaced
      <4>d. DOMAIN b.levels \subseteq Nat
        BY <2>m DEF Queues
      <4>5. DOMAIN c.levels = DOMAIN b.levels \cup {l0}
        BY <1>2, <2>m, <2>n, <3>1, FoundPlaced, SMTT(40)
      <4>3. c.levels[l0].price = px
        BY <4>1 DEF Found, Nil
      <4>4. \A l \in DOMAIN b.levels : c.levels[l] = b.levels[l]
        <5> TAKE l \in DOMAIN b.levels
        <5>1. PICK n \in Nat : n = l
          BY <4>d
        <5>2. c.levels[n] = b.levels[n]
          BY <5>1, <1>2, <2>m, <2>n, <3>1, FoundPlaced, SMTT(40)
        <5> QED
          BY <5>1, <5>2
      <4> QED
        BY <4>1, <4>2, <4>3, <4>4, <4>5
    <3> QED
      BY <2>l, <3>2 DEF ns
  <2>7. c.nextSeq = b.nextSeq /\ c.rejected = b.rejected
    BY <2>3 DEF SameCounts
  <2>8. PoolsFit(c)
    BY <2>1, <2>2, <2>3, <2>4 DEF PoolsFit, Sound
  <2>9. Sound(c)
    BY <2>3, <2>4, <2>7, <2>8 DEF Sound
  <2> QED
    BY <2>3, <2>4, <2>9 DEF c
<1> QED
  BY <1>1, <1>2

(* The order is linked and stamped. *)
Stamped(b, li, ref, side, qty) ==
    [Link(b, li, [id |-> ref, side |-> side, qty |-> qty, seq |-> b.nextSeq])
     EXCEPT !.nextSeq = @ + 1]

LEMMA Linked ==
    ASSUME HybridConstants, NEW b, Sound(b), NEW ref \in Refs, NEW side \in Sides,
           NEW qty \in Nat \ {0}, NEW li \in DOMAIN b.levels,
           Lookup(b, side, b.levels[li].price) = li, b.freeOrders # << >>
    PROVE  LET c == Stamped(b, li, ref, side, qty)
               oi == Seqs!Last(b.freeOrders) IN
           /\ Sound(c) /\ oi \notin DOMAIN b.orders /\ DOMAIN c.orders = DOMAIN b.orders \cup {oi}
           /\ \A i \in DOMAIN b.orders : KeptOrder(c, b, i)
           /\ c.orders[oi].id = ref /\ c.orders[oi].side = side /\ c.orders[oi].qty = qty
           /\ c.orders[oi].seq = b.nextSeq /\ c.orders[oi].level = li
           /\ PriceAt(c, oi) = b.levels[li].price
           /\ c.size = b.size /\ c.ids = b.ids /\ c.rejected = b.rejected
           /\ c.nextSeq = b.nextSeq + 1 /\ DOMAIN c.levels = DOMAIN b.levels
<1> DEFINE order == [id |-> ref, side |-> side, qty |-> qty, seq |-> b.nextSeq]
           k == Link(b, li, order)
           c == Stamped(b, li, ref, side, qty)
           oi == Seqs!Last(b.freeOrders)
<1>0. /\ b.size.orders \in Nat /\ b.nextSeq \in Nat
      /\ DOMAIN b = Fields /\ Marked(b) /\ Found(b) /\ Queues(b.orders, b.levels, b.nextSeq)
      /\ Stacked(b.freeOrders, b.size.orders, DOMAIN b.orders)
      /\ DOMAIN b.orders \subseteq 0..(b.size.orders - 1)
  BY DEF HybridConstants, Sound, PoolsFit, Queues
<1>1. /\ oi \in 0..(b.size.orders - 1) /\ oi \notin DOMAIN b.orders
      /\ Stacked(Seqs!Front(b.freeOrders), b.size.orders, DOMAIN b.orders \cup {oi})
  BY <1>0, StackGivesOut
<1>2. oi \in Nat
  BY <1>1
<1>3. /\ Joins(b.orders, b.levels, oi, li, k.orders, k.levels)
      /\ k.orders[oi] = NewEntry(ref, side, qty, b.nextSeq, b.levels[li].tail, li)
  <2>1. b.nextSeq \in Nat /\ DOMAIN b = Fields /\ Queues(b.orders, b.levels, b.nextSeq)
    BY <1>0
  <2>2. Seqs!Last(b.freeOrders) \in Nat /\ Seqs!Last(b.freeOrders) \notin DOMAIN b.orders
    BY <1>1, <1>2
  <2>3. LET j == Link(b, li, [id |-> ref, side |-> side, qty |-> qty, seq |-> b.nextSeq]) IN
        /\ Joins(b.orders, b.levels, Seqs!Last(b.freeOrders), li, j.orders, j.levels)
        /\ j.orders[Seqs!Last(b.freeOrders)] = NewEntry(ref, side, qty, b.nextSeq, b.levels[li].tail, li)
    <3> HIDE DEF k, c, oi, order
    <3> DEFINE ns == b.nextSeq
    <3>1. ns \in Nat /\ Queues(b.orders, b.levels, ns) /\ DOMAIN b = Fields
      BY <2>1
    <3> SUFFICES LET j == Link(b, li, [id |-> ref, side |-> side, qty |-> qty, seq |-> ns]) IN
          /\ Joins(b.orders, b.levels, Seqs!Last(b.freeOrders), li, j.orders, j.levels)
          /\ j.orders[Seqs!Last(b.freeOrders)] = NewEntry(ref, side, qty, ns, b.levels[li].tail, li)
      OBVIOUS
    <3> HIDE DEF ns
    <3> QED
      BY <2>2, <3>1, LinkJoins, SMTT(40)
  <2> QED
    BY <2>3
<1>4. /\ DOMAIN k = Fields /\ k.size = b.size
      /\ k.freeOrders = Seqs!Front(b.freeOrders) /\ k.freeLevels = b.freeLevels
      /\ SameWindow(k, b) /\ SameCounts(k, b)
  <2> HIDE DEF order
  <2> QED
    BY <1>0, LinkParts
<1>5. c = [k EXCEPT !.nextSeq = @ + 1]
  BY DEF Stamped
<1> HIDE DEF order, k, c, oi
<1>6. /\ DOMAIN c = Fields /\ c.size = k.size /\ c.orders = k.orders /\ c.levels = k.levels
      /\ c.freeOrders = k.freeOrders /\ c.freeLevels = k.freeLevels
      /\ c.ids = k.ids /\ c.rejected = k.rejected /\ c.nextSeq = k.nextSeq + 1
      /\ SameWindow(c, k)
  BY <1>4, <1>5, StampMoves
<1>7. /\ c.size = b.size /\ c.ids = b.ids /\ c.rejected = b.rejected /\ c.nextSeq = b.nextSeq + 1
      /\ SameWindow(c, b) /\ c.freeOrders = Seqs!Front(b.freeOrders)
      /\ c.freeLevels = b.freeLevels
  BY <1>4, <1>6 DEF SameWindow, SameCounts
<1>8. Joins(b.orders, b.levels, oi, li, c.orders, c.levels)
  BY <1>3, <1>6
<1>9. /\ c.orders[oi].id = ref /\ c.orders[oi].side = side /\ c.orders[oi].qty = qty
      /\ c.orders[oi].seq = b.nextSeq /\ c.orders[oi].level = li
  BY <1>3, <1>6 DEF NewEntry
<1>10. /\ Queues(c.orders, c.levels, b.nextSeq + 1)
       /\ \A i \in DOMAIN b.orders : SameOrder(c.orders[i], b.orders[i])
  BY <1>0, <1>1, <1>2, <1>8, <1>9, JoinQueues
<1>11. /\ DOMAIN c.orders = DOMAIN b.orders \cup {oi} /\ DOMAIN c.levels = DOMAIN b.levels
       /\ \A l \in DOMAIN b.levels : c.levels[l].price = b.levels[l].price
  BY <1>8 DEF Joins
<1>12. \A i \in DOMAIN b.orders : b.orders[i].level \in DOMAIN b.levels /\ b.orders[i].side \in Sides
  BY <1>0 DEF Queues, EntryFits, Entry
<1>13. /\ \A i \in DOMAIN b.orders : KeptOrder(c, b, i)
       /\ PriceAt(c, oi) = b.levels[li].price
  BY <1>9, <1>10, <1>11, <1>12 DEF KeptOrder, PriceAt, SameOrder
<1>14. \A s, p : Lookup(c, s, p) = Lookup(b, s, p)
  BY <1>7, SameLookup
<1>15. Marked(c)
  BY <1>0, <1>7, SameLookup
<1>16. Found(c)
  <2>1. \A l \in DOMAIN b.levels : b.levels[l].price \in Nat
    BY <1>0 DEF Queues, LevelFits, LevelEntry
  <2>2. \A i \in DOMAIN c.orders :
          /\ c.orders[i].side \in Sides /\ c.orders[i].level \in DOMAIN b.levels
          /\ Lookup(b, c.orders[i].side, b.levels[c.orders[i].level].price) = c.orders[i].level
    <3> TAKE i \in DOMAIN c.orders
    <3>1. CASE i = oi
      BY <1>9, <3>1
    <3>2. CASE i \in DOMAIN b.orders
      BY <1>0, <1>10, <1>12, <3>2 DEF SameOrder, Found
    <3> QED
      BY <1>11, <3>1, <3>2
  <2> QED
    BY <1>0, <1>11, <1>14, <2>1, <2>2, FoundKept
<1>17. PoolsFit(c)
  BY <1>0, <1>1, <1>7, <1>11 DEF PoolsFit, Sound
<1>18. Sound(c)
  BY <1>6, <1>7, <1>10, <1>15, <1>16, <1>17 DEF Sound
<1> QED
  BY <1>1, <1>7, <1>9, <1>11, <1>13, <1>18 DEF c, oi

(* The id table has no room for one more reference. *)
TableFull(b) == Cardinality(DOMAIN b.ids) + 1 > (b.size.orders * 7) \div 10

(* c is b with the order oi added, stamped, and known by ref or else counted as rejected. *)
AddsOrder(c, b, oi, ref, side, px, qty) ==
    /\ oi \notin DOMAIN b.orders /\ DOMAIN c.orders = DOMAIN b.orders \cup {oi}
    /\ \A i \in DOMAIN b.orders : KeptOrder(c, b, i)
    /\ c.orders[oi].id = ref /\ c.orders[oi].side = side /\ c.orders[oi].qty = qty
    /\ c.orders[oi].seq = b.nextSeq /\ PriceAt(c, oi) = px
    /\ c.size = b.size /\ c.nextSeq = b.nextSeq + 1
    /\ \/ c.ids = Put(b.ids, ref, oi) /\ c.rejected = b.rejected
       \/ c.ids = b.ids /\ c.rejected = b.rejected + 1 /\ TableFull(b)

TurnedDown(c, b) ==
    /\ c.size = b.size /\ c.orders = b.orders /\ c.levels = b.levels
    /\ c.ids = b.ids /\ c.rejected = b.rejected + 1 /\ c.nextSeq = b.nextSeq

LEMMA AddKeeps ==
    ASSUME HybridConstants, NEW b, BookInv(b), NEW ref \in Refs, NEW side \in Sides,
           NEW px \in Nat \ {0}, NEW qty \in Nat
    PROVE  LET c == Add(b, ref, side, px, qty) IN
           /\ BookInv(c)
           /\ \/ qty = 0 /\ c = b
              \/ qty # 0 /\ TurnedDown(c, b)
              \/ qty # 0 /\ AddsOrder(c, b, Seqs!Last(b.freeOrders), ref, side, px, qty)
<1> DEFINE c == Add(b, ref, side, px, qty)
           oi == Seqs!Last(b.freeOrders)
           Full == b.freeOrders = << >> \/ (Lookup(b, side, px) = Nil /\ b.freeLevels = << >>)
<1>0. /\ Sound(b) /\ IdsFit(b) /\ DOMAIN b = Fields /\ b.rejected \in Nat
      /\ \A li \in DOMAIN b.levels : OnLevel(b.orders, li) # {}
  BY DEF BookInv, Sound
<1>1. CASE qty = 0
  BY <1>1 DEF Add
<1>2. CASE qty # 0 /\ Full
  <2>1. c = [b EXCEPT !.rejected = @ + 1]
    BY <1>2 DEF Add
  <2> HIDE DEF c
  <2>2. /\ DOMAIN c = Fields /\ c.size = b.size /\ c.orders = b.orders /\ c.levels = b.levels
        /\ c.freeOrders = b.freeOrders /\ c.freeLevels = b.freeLevels
        /\ c.ids = b.ids /\ c.rejected = b.rejected + 1 /\ c.nextSeq = b.nextSeq
        /\ SameWindow(c, b)
    BY <1>0, <2>1, RejectionCounts
  <2>3. c.rejected \in Nat
    BY <1>0, <2>2
  <2>4. Sound(c)
    BY <1>0, <2>2, <2>3, SoundKept
  <2>5. BookInv(c)
    BY <1>0, <2>2, <2>4 DEF BookInv, IdsFit
  <2>6. TurnedDown(c, b)
    BY <2>2 DEF TurnedDown
  <2> QED
    BY <1>2, <2>5, <2>6 DEF c
<1>3. CASE qty # 0 /\ ~Full
  <2> DEFINE ready == WithLevel(b, side, px)
             li == Lookup(ready, side, px)
             k == Stamped(ready, li, ref, side, qty)
  <2>1. /\ Sound(ready) /\ li \in DOMAIN ready.levels /\ ready.levels[li].price = px
        /\ ready.orders = b.orders /\ ready.freeOrders = b.freeOrders /\ ready.size = b.size
        /\ SameCounts(ready, b)
        /\ \A l \in DOMAIN b.levels : l \in DOMAIN ready.levels /\ ready.levels[l] = b.levels[l]
        /\ \A l \in DOMAIN ready.levels \ {li} : l \in DOMAIN b.levels
    BY <1>0, <1>3, Readied
  <2>2. k = [Link(ready, li, [id |-> ref, side |-> side, qty |-> qty, seq |-> b.nextSeq])
             EXCEPT !.nextSeq = @ + 1]
    BY <2>1 DEF Stamped, SameCounts
  <2>3. \/ c = [k EXCEPT !.rejected = @ + 1] /\ TableFull(b)
        \/ c = [k EXCEPT !.ids = Put(@, ref, oi)]
    BY <1>3, <2>2 DEF Add, TableFull
  <2> HIDE DEF ready, li, k, c, oi
  <2>4. /\ Sound(k) /\ oi \notin DOMAIN b.orders /\ DOMAIN k.orders = DOMAIN b.orders \cup {oi}
        /\ \A i \in DOMAIN b.orders : KeptOrder(k, ready, i)
        /\ k.orders[oi].id = ref /\ k.orders[oi].side = side /\ k.orders[oi].qty = qty
        /\ k.orders[oi].seq = b.nextSeq /\ k.orders[oi].level = li
        /\ PriceAt(k, oi) = px
        /\ k.size = b.size /\ k.ids = b.ids /\ k.rejected = b.rejected
        /\ k.nextSeq = b.nextSeq + 1 /\ DOMAIN k.levels = DOMAIN ready.levels
    <3>1. Lookup(ready, side, ready.levels[li].price) = li /\ ready.freeOrders # << >>
      BY <1>3, <2>1 DEF li
    <3>2. /\ Sound(k) /\ Seqs!Last(ready.freeOrders) \notin DOMAIN ready.orders
          /\ DOMAIN k.orders = DOMAIN ready.orders \cup {Seqs!Last(ready.freeOrders)}
          /\ \A i \in DOMAIN ready.orders : KeptOrder(k, ready, i)
          /\ k.orders[Seqs!Last(ready.freeOrders)].id = ref
          /\ k.orders[Seqs!Last(ready.freeOrders)].side = side
          /\ k.orders[Seqs!Last(ready.freeOrders)].qty = qty
          /\ k.orders[Seqs!Last(ready.freeOrders)].seq = ready.nextSeq
          /\ k.orders[Seqs!Last(ready.freeOrders)].level = li
          /\ PriceAt(k, Seqs!Last(ready.freeOrders)) = ready.levels[li].price
          /\ k.size = ready.size /\ k.ids = ready.ids /\ k.rejected = ready.rejected
          /\ k.nextSeq = ready.nextSeq + 1 /\ DOMAIN k.levels = DOMAIN ready.levels
      BY <1>3, <2>1, <3>1, Linked DEF k
    <3> QED
      BY <2>1, <3>2 DEF SameCounts, oi
  <2>5. \A i \in DOMAIN b.orders : KeptOrder(k, b, i)
    <3> TAKE i \in DOMAIN b.orders
    <3>1. b.orders[i].level \in DOMAIN b.levels
      BY <1>0 DEF Sound, Queues, EntryFits
    <3> QED
      BY <2>1, <2>4, <3>1 DEF KeptOrder, PriceAt
  <2>6. \A l \in DOMAIN k.levels : OnLevel(k.orders, l) # {}
    <3> TAKE l \in DOMAIN k.levels
    <3>1. CASE l = li
      <4>1. oi \in OnLevel(k.orders, l)
        BY <2>4, <3>1 DEF OnLevel
      <4> QED
        BY <4>1
    <3>2. CASE l # li
      <4>1. PICK i \in DOMAIN b.orders : b.orders[i].level = l
        BY <1>0, <2>1, <2>4, <3>2 DEF OnLevel
      <4>2. i \in OnLevel(k.orders, l)
        BY <2>4, <2>5, <4>1 DEF OnLevel, KeptOrder, SameOrder
      <4> QED
        BY <4>2
    <3> QED
      BY <3>1, <3>2
  <2>7. \A r \in DOMAIN b.ids : k.orders[b.ids[r]].id = r /\ b.ids[r] \in DOMAIN k.orders
    BY <1>0, <2>4, <2>5 DEF IdsFit, KeptOrder, SameOrder
  <2>8. DOMAIN k = Fields
    BY <2>4 DEF Sound
  <2>9. CASE c = [k EXCEPT !.rejected = @ + 1] /\ TableFull(b)
    <3>1. /\ DOMAIN c = Fields /\ c.size = k.size /\ c.orders = k.orders /\ c.levels = k.levels
          /\ c.freeOrders = k.freeOrders /\ c.freeLevels = k.freeLevels
          /\ c.ids = k.ids /\ c.rejected = k.rejected + 1 /\ c.nextSeq = k.nextSeq
          /\ SameWindow(c, k)
      BY <2>8, <2>9, RejectionCounts
    <3>2. c.rejected \in Nat
      BY <1>0, <2>4, <3>1
    <3>3. Sound(c)
      BY <2>4, <3>1, <3>2, SoundKept
    <3>4. IdsFit(c)
      BY <1>0, <2>4, <2>7, <3>1 DEF IdsFit
    <3>5. BookInv(c)
      BY <2>6, <3>1, <3>3, <3>4 DEF BookInv
    <3>6. AddsOrder(c, b, oi, ref, side, px, qty)
      BY <2>4, <2>5, <2>9, <3>1 DEF AddsOrder, KeptOrder, PriceAt
    <3> QED
      BY <1>3, <3>5, <3>6 DEF c, oi
  <2>10. CASE c = [k EXCEPT !.ids = Put(@, ref, oi)]
    <3>0. c = [k EXCEPT !.ids = Put(b.ids, ref, oi)]
      BY <2>4, <2>10
    <3>1. /\ DOMAIN c = Fields /\ c.size = k.size /\ c.orders = k.orders /\ c.levels = k.levels
          /\ c.freeOrders = k.freeOrders /\ c.freeLevels = k.freeLevels
          /\ c.ids = Put(b.ids, ref, oi) /\ c.rejected = k.rejected /\ c.nextSeq = k.nextSeq
          /\ SameWindow(c, k)
      BY <2>8, <3>0, IdsChange
    <3>2. c.rejected \in Nat
      BY <1>0, <2>4, <3>1
    <3>3. Sound(c)
      BY <2>4, <3>1, <3>2, SoundKept
    <3>4. IdsFit(c)
      BY <1>0, <2>4, <2>7, <3>1 DEF IdsFit, Put
    <3>5. BookInv(c)
      BY <2>6, <3>1, <3>3, <3>4 DEF BookInv
    <3>6. AddsOrder(c, b, oi, ref, side, px, qty)
      BY <2>4, <2>5, <3>1 DEF AddsOrder, KeptOrder, PriceAt
    <3> QED
      BY <1>3, <3>5, <3>6 DEF c, oi
  <2> QED
    BY <2>3, <2>9, <2>10
<1> QED
  BY <1>1, <1>2, <1>3

(* c is b without the order oi, which ref named. *)
TakesOut(c, b, oi, ref) ==
    /\ oi \in DOMAIN b.orders /\ DOMAIN c.orders = DOMAIN b.orders \ {oi}
    /\ \A i \in DOMAIN c.orders : KeptOrder(c, b, i)
    /\ c.size = b.size /\ c.nextSeq = b.nextSeq /\ c.rejected = b.rejected
    /\ c.ids = Without(b.ids, ref)

(* unlink, with the level that goes with its last order. *)
LEMMA UnlinkedParts ==
    ASSUME HybridConstants, NEW b, Sound(b),
           \A li \in DOMAIN b.levels : OnLevel(b.orders, li) # {}, NEW oi \in DOMAIN b.orders
    PROVE  LET x == Unlinked(b, oi) IN
           /\ DOMAIN x = Fields /\ x.size = b.size /\ x.freeOrders = b.freeOrders
           /\ SameCounts(x, b) /\ Marked(x) /\ Found(x)
           /\ Queues(x.orders, x.levels, b.nextSeq)
           /\ Stacked(x.freeLevels, b.size.levels, DOMAIN x.levels)
           /\ DOMAIN x.levels \subseteq DOMAIN b.levels
           /\ \A li \in DOMAIN x.levels : OnLevel(x.orders, li) # {}
           /\ DOMAIN x.orders = DOMAIN b.orders \ {oi}
           /\ \A i \in DOMAIN x.orders : KeptOrder(x, b, i)
<1> DEFINE x == Unlinked(b, oi)
           u == Unlink(b, oi)
           li == b.orders[oi].level
           side == b.orders[oi].side
           ns == b.nextSeq
<1>0. /\ DOMAIN b = Fields /\ Marked(b) /\ Found(b) /\ Queues(b.orders, b.levels, ns)
      /\ Stacked(b.freeLevels, b.size.levels, DOMAIN b.levels)
      /\ DOMAIN b.levels \subseteq 0..(b.size.levels - 1)
      /\ b.size.levels \in Nat /\ Window!WindowConstants
  BY DEF HybridConstants, Sound, PoolsFit
<1>x. x = IF u.levels[li].orders = 0 THEN DropLevel(u, side, li) ELSE u
  BY DEF Unlinked
<1>1. /\ DOMAIN u = Fields /\ u.size = b.size
      /\ u.freeOrders = b.freeOrders /\ u.freeLevels = b.freeLevels
      /\ SameWindow(u, b) /\ SameCounts(u, b)
  BY <1>0, UnlinkParts
<1> HIDE DEF x, ns
<1>2. Leaves(b.orders, b.levels, oi, u.orders, u.levels)
  BY <1>0, UnlinkLeaves
<1> HIDE DEF u
<1>3. /\ Queues(u.orders, u.levels, ns)
      /\ \A i \in DOMAIN b.orders \ {oi} : SameOrder(u.orders[i], b.orders[i])
      /\ OnLevel(u.orders, b.orders[oi].level) = OnLevel(b.orders, b.orders[oi].level) \ {oi}
      /\ \A l \in DOMAIN b.levels \ {b.orders[oi].level} : OnLevel(u.orders, l) = OnLevel(b.orders, l)
  BY <1>0, <1>2, LeaveQueues
<1>4. /\ DOMAIN u.orders = DOMAIN b.orders \ {oi} /\ DOMAIN u.levels = DOMAIN b.levels
      /\ \A l \in DOMAIN b.levels : u.levels[l].price = b.levels[l].price
  <2>1. /\ DOMAIN u.orders = DOMAIN b.orders \ {oi} /\ DOMAIN u.levels = DOMAIN b.levels
        /\ \A l \in DOMAIN b.levels \ {li} : u.levels[l] = b.levels[l]
    BY <1>2 DEF Leaves
  <2>2. u.levels[li] = ClosedOver(b.levels[li], b.orders[oi])
    BY <1>2, Zenon DEF Leaves, ClosedOver
  <2>3. u.levels[li].price = b.levels[li].price
    BY <2>2 DEF ClosedOver
  <2> QED
    BY <2>1, <2>3
<1>5. /\ \A i \in DOMAIN b.orders : b.orders[i].level \in DOMAIN b.levels /\ b.orders[i].side \in Sides
      /\ \A l \in DOMAIN b.levels : b.levels[l].price \in Nat \ {0}
      /\ \A l \in DOMAIN b.levels : l \in Nat
  BY <1>0 DEF Queues, EntryFits, Entry, LevelFits, LevelEntry
<1>6. Marked(u) /\ \A s, p : Lookup(u, s, p) = Lookup(b, s, p)
  BY <1>0, <1>1, SameLookup
<1>7. Found(u)
  <2>1. \A i \in DOMAIN u.orders :
          /\ u.orders[i].side \in Sides /\ u.orders[i].level \in DOMAIN b.levels
          /\ Lookup(b, u.orders[i].side, b.levels[u.orders[i].level].price) = u.orders[i].level
    BY <1>0, <1>3, <1>4, <1>5 DEF SameOrder, Found
  <2>2. \A l \in DOMAIN b.levels : u.levels[l].price = b.levels[l].price /\ b.levels[l].price \in Nat
    BY <1>4, <1>5
  <2> QED
    BY <1>0, <1>4, <1>6, <2>1, <2>2, FoundKept
<1>8. \A i \in DOMAIN u.orders : KeptOrder(u, b, i)
  BY <1>3, <1>4, <1>5 DEF KeptOrder, PriceAt, SameOrder
<1>9. li \in DOMAIN u.levels /\ side \in Sides /\ u.levels[li].price = b.levels[li].price
  BY <1>4, <1>5
<1>10. u.levels[li].orders = 0 <=> OnLevel(u.orders, li) = {}
  <2>1. TotalsFit(u.orders, u.levels, li) /\ IsFiniteSet(OnLevel(u.orders, li))
    BY <1>3, <1>9, LevelCounts DEF Queues, LevelFits
  <2> QED
    BY <2>1, FS_EmptySet DEF TotalsFit
<1>11. CASE OnLevel(u.orders, li) # {}
  <2>1. x = u
    BY <1>x, <1>10, <1>11
  <2>2. \A l \in DOMAIN u.levels : OnLevel(u.orders, l) # {}
    BY <1>3, <1>4, <1>11
  <2> QED
    BY <1>0, <1>1, <1>3, <1>4, <1>6, <1>7, <1>8, <2>1, <2>2 DEF x, ns
<1>12. CASE OnLevel(u.orders, li) = {}
  <2>1. x = DropLevel(u, side, li)
    BY <1>x, <1>10, <1>12
  <2>2. u.levels[li].price \in Nat \ {0}
    BY <1>5, <1>9
  <2> HIDE DEF side, li
  <2>3. /\ DOMAIN x = Fields /\ x.size = u.size
        /\ x.orders = u.orders /\ x.freeOrders = u.freeOrders
        /\ x.levels = Without(u.levels, li)
        /\ x.freeLevels = Append(u.freeLevels, li)
        /\ SameCounts(x, u) /\ Marked(x) /\ Places(x, u, side, u.levels[li].price, Nil)
    BY <1>0, <1>1, <1>6, <1>9, <2>1, <2>2, DropLevelParts, SMTT(30)
  <2>4. Lookup(u, side, u.levels[li].price) = li
    BY <1>0, <1>6, <1>9 DEF Found, side, li
  <2>5. Found(x) /\ Queues(x.orders, x.levels, ns)
    <3>1. Found(x)
      BY <1>3, <1>7, <1>9, <1>12, <2>3, <2>4, FoundClosed
    <3>2. Queues(u.orders, Without(u.levels, li), ns)
      BY <1>3, <1>9, <1>12, CloseQueue
    <3> QED
      BY <2>3, <3>1, <3>2
  <2>6. /\ Queues(u.orders, x.levels, ns) /\ DOMAIN x.levels = DOMAIN u.levels \ {li}
        /\ \A l \in DOMAIN u.levels \ {li} : x.levels[l] = u.levels[l]
    BY <2>3, <2>5 DEF Without
  <2>7. Stacked(x.freeLevels, b.size.levels, DOMAIN x.levels)
    <3>1. DOMAIN b.levels \in SUBSET (0..(b.size.levels - 1)) /\ li \in DOMAIN b.levels
      BY <1>0, <1>4, <1>9
    <3>2. x.freeLevels = Append(b.freeLevels, li) /\ DOMAIN x.levels = DOMAIN b.levels \ {li}
      BY <1>1, <1>4, <2>3, <2>6
    <3> QED
      BY <1>0, <3>1, <3>2, StackTakesBack
  <2>8. \A l \in DOMAIN x.levels : OnLevel(x.orders, l) # {}
    BY <1>3, <1>4, <2>3, <2>6 DEF li
  <2>9. \A i \in DOMAIN x.orders : KeptOrder(x, b, i)
    <3> TAKE i \in DOMAIN x.orders
    <3>1. KeptOrder(u, b, i) /\ x.orders[i] = u.orders[i] /\ i \in DOMAIN u.orders
      BY <1>8, <2>3
    <3>2. x.orders[i].level \in DOMAIN u.levels \ {li}
      <4>1. u.orders[i].level \in DOMAIN u.levels
        BY <1>3, <3>1 DEF Queues, EntryFits
      <4>2. u.orders[i].level # li
        BY <1>12, <3>1 DEF OnLevel
      <4> QED
        BY <3>1, <4>1, <4>2
    <3> QED
      BY <2>6, <3>1, <3>2 DEF KeptOrder, PriceAt
  <2>10. SameCounts(x, b)
    BY <1>1, <2>3 DEF SameCounts
  <2> QED
    BY <1>1, <1>4, <2>3, <2>5, <2>6, <2>7, <2>8, <2>9, <2>10 DEF x, ns
<1> QED
  BY <1>11, <1>12

LEMMA RemoveKeeps ==
    ASSUME HybridConstants, NEW b, BookInv(b), NEW ref \in DOMAIN b.ids
    PROVE  LET c == Remove(b, ref) IN BookInv(c) /\ TakesOut(c, b, b.ids[ref], ref)
<1> DEFINE oi == b.ids[ref]
           x == Unlinked(b, oi)
           y == ReturnOrder(x, oi)
           c == Remove(b, ref)
<1>0. /\ Sound(b) /\ IdsFit(b) /\ DOMAIN b = Fields
      /\ \A li \in DOMAIN b.levels : OnLevel(b.orders, li) # {}
      /\ Stacked(b.freeOrders, b.size.orders, DOMAIN b.orders)
      /\ DOMAIN b.orders \subseteq 0..(b.size.orders - 1)
      /\ b.size \in Sizes /\ b.size.orders \in Nat /\ b.rejected \in Nat
      /\ DOMAIN b.levels \subseteq 0..(b.size.levels - 1)
  BY DEF BookInv, Sound, PoolsFit, HybridConstants
<1>1. oi \in DOMAIN b.orders /\ b.orders[oi].id = ref
  BY <1>0 DEF IdsFit
<1>2. c = [y EXCEPT !.ids = Without(@, ref)]
  BY DEF Remove
<1> HIDE DEF c, oi
<1>3. /\ DOMAIN x = Fields /\ x.size = b.size /\ x.freeOrders = b.freeOrders
      /\ SameCounts(x, b) /\ Marked(x) /\ Found(x)
      /\ Queues(x.orders, x.levels, b.nextSeq)
      /\ Stacked(x.freeLevels, b.size.levels, DOMAIN x.levels)
      /\ DOMAIN x.levels \subseteq DOMAIN b.levels
      /\ \A li \in DOMAIN x.levels : OnLevel(x.orders, li) # {}
      /\ DOMAIN x.orders = DOMAIN b.orders \ {oi}
      /\ \A i \in DOMAIN x.orders : KeptOrder(x, b, i)
  BY <1>0, <1>1, UnlinkedParts
<1> HIDE DEF x
<1>4. /\ DOMAIN y = Fields /\ y.size = x.size
      /\ y.orders = x.orders /\ y.levels = x.levels
      /\ y.freeOrders = Append(x.freeOrders, oi) /\ y.freeLevels = x.freeLevels
      /\ SameWindow(y, x) /\ SameCounts(y, x)
  BY <1>3, ReturnOrderParts
<1> HIDE DEF y
<1>5. c = [y EXCEPT !.ids = Without(b.ids, ref)]
  BY <1>2, <1>3, <1>4 DEF SameCounts
<1>6. /\ DOMAIN c = Fields /\ c.size = y.size /\ c.orders = y.orders /\ c.levels = y.levels
      /\ c.freeOrders = y.freeOrders /\ c.freeLevels = y.freeLevels
      /\ c.ids = Without(b.ids, ref) /\ c.rejected = y.rejected /\ c.nextSeq = y.nextSeq
      /\ SameWindow(c, y)
  <2> DEFINE m == Without(b.ids, ref)
  <2>1. c = [y EXCEPT !.ids = m]
    BY <1>5
  <2> HIDE DEF m
  <2>2. /\ DOMAIN c = Fields /\ c.size = y.size /\ c.orders = y.orders /\ c.levels = y.levels
        /\ c.freeOrders = y.freeOrders /\ c.freeLevels = y.freeLevels
        /\ c.ids = m /\ c.rejected = y.rejected /\ c.nextSeq = y.nextSeq /\ SameWindow(c, y)
    BY <1>4, <2>1, IdsChange, SMTT(30)
  <2> QED
    BY <2>2 DEF m
<1>7. /\ c.size = b.size /\ c.orders = x.orders /\ c.levels = x.levels
      /\ c.freeOrders = Append(b.freeOrders, oi) /\ c.freeLevels = x.freeLevels
      /\ c.rejected = b.rejected /\ c.nextSeq = b.nextSeq /\ SameWindow(c, x)
  BY <1>3, <1>4, <1>6 DEF SameCounts, SameWindow
<1>8. Stacked(c.freeOrders, c.size.orders, DOMAIN c.orders)
  <2>1. DOMAIN b.orders \in SUBSET (0..(b.size.orders - 1))
    BY <1>0
  <2> QED
    BY <1>0, <1>1, <1>3, <1>7, <2>1, StackTakesBack
<1>9. PoolsFit(c)
  BY <1>0, <1>3, <1>7, <1>8 DEF PoolsFit
<1>10. Marked(c) /\ \A s, p : Lookup(c, s, p) = Lookup(x, s, p)
  BY <1>3, <1>7, SameLookup
<1>11. Found(c)
  BY <1>3, <1>7, <1>10 DEF Found
<1>12. Sound(c)
  BY <1>0, <1>3, <1>6, <1>7, <1>9, <1>10, <1>11 DEF Sound
<1>13. \A i \in DOMAIN c.orders : KeptOrder(c, b, i)
  BY <1>3, <1>7 DEF KeptOrder, PriceAt
<1>14. IdsFit(c)
  <2>1. \A r \in DOMAIN c.ids : /\ r \in DOMAIN b.ids /\ r # ref /\ c.ids[r] = b.ids[r]
                                /\ b.ids[r] \in DOMAIN b.orders /\ b.orders[b.ids[r]].id = r
    BY <1>0, <1>6 DEF Without, IdsFit
  <2>2. \A r \in DOMAIN c.ids : b.ids[r] # oi
    BY <1>1, <2>1
  <2>3. \A r \in DOMAIN c.ids : c.ids[r] \in DOMAIN c.orders
    BY <1>3, <1>7, <2>1, <2>2
  <2>4. DOMAIN c.ids \subseteq Refs
    BY <1>0, <2>1 DEF IdsFit
  <2> QED
    BY <1>13, <2>1, <2>3, <2>4 DEF IdsFit, KeptOrder, SameOrder
<1>15. BookInv(c)
  BY <1>3, <1>7, <1>12, <1>14 DEF BookInv
<1>16. TakesOut(c, b, oi, ref)
  BY <1>1, <1>3, <1>6, <1>7, <1>13 DEF TakesOut
<1> QED
  BY <1>15, <1>16 DEF c, oi

(* c is b with q shares less in the order oi. *)
TakesShares(c, b, oi, q) ==
    /\ DOMAIN c.orders = DOMAIN b.orders
    /\ \A i \in DOMAIN b.orders :
          /\ c.orders[i].id = b.orders[i].id /\ c.orders[i].side = b.orders[i].side
          /\ c.orders[i].seq = b.orders[i].seq /\ PriceAt(c, i) = PriceAt(b, i)
          /\ c.orders[i].qty = IF i = oi THEN b.orders[i].qty - q ELSE b.orders[i].qty
    /\ c.size = b.size /\ c.ids = b.ids /\ c.rejected = b.rejected /\ c.nextSeq = b.nextSeq

LEMMA ShrinkKeeps ==
    ASSUME HybridConstants, NEW b, BookInv(b), NEW oi \in DOMAIN b.orders, NEW q \in Nat,
           q < b.orders[oi].qty
    PROVE  LET c == Shrink(b, oi, q) IN BookInv(c) /\ TakesShares(c, b, oi, q)
<1> DEFINE c == Shrink(b, oi, q)
           ns == b.nextSeq
<1>0. /\ Sound(b) /\ IdsFit(b) /\ DOMAIN b = Fields /\ b.rejected \in Nat
      /\ \A li \in DOMAIN b.levels : OnLevel(b.orders, li) # {}
      /\ Queues(b.orders, b.levels, ns) /\ Marked(b) /\ Found(b) /\ PoolsFit(b)
  BY DEF BookInv, Sound
<1>1. /\ \A i \in DOMAIN b.orders : b.orders[i].level \in DOMAIN b.levels /\ b.orders[i].side \in Sides
      /\ \A l \in DOMAIN b.levels : b.levels[l].price \in Nat
  BY <1>0 DEF Queues, EntryFits, Entry, LevelFits, LevelEntry
<1>2. /\ DOMAIN c = Fields /\ c.size = b.size
      /\ Shrinks(b.orders, b.levels, oi, q, c.orders, c.levels)
      /\ c.freeOrders = b.freeOrders /\ c.freeLevels = b.freeLevels
      /\ SameWindow(c, b) /\ SameCounts(c, b)
  BY <1>0, <1>1, ShrinkParts
<1> HIDE DEF c, ns
<1>3. /\ Queues(c.orders, c.levels, ns) /\ DOMAIN c.orders = DOMAIN b.orders
      /\ DOMAIN c.levels = DOMAIN b.levels
      /\ \A l \in DOMAIN b.levels : c.levels[l].price = b.levels[l].price
      /\ \A i \in DOMAIN b.orders : /\ c.orders[i].id = b.orders[i].id
                                    /\ c.orders[i].side = b.orders[i].side
                                    /\ c.orders[i].seq = b.orders[i].seq
                                    /\ c.orders[i].level = b.orders[i].level
                                    /\ c.orders[i].qty = IF i = oi THEN b.orders[i].qty - q
                                                         ELSE b.orders[i].qty
      /\ \A l : OnLevel(c.orders, l) = OnLevel(b.orders, l)
  BY <1>0, <1>2, ShrinkQueues
<1>4. Marked(c) /\ \A s, p : Lookup(c, s, p) = Lookup(b, s, p)
  BY <1>0, <1>2, SameLookup
<1>5. Found(c)
  <2>1. \A l \in DOMAIN b.levels : c.levels[l].price = b.levels[l].price /\ b.levels[l].price \in Nat
    BY <1>1, <1>3
  <2>2. \A i \in DOMAIN c.orders :
          /\ c.orders[i].side \in Sides /\ c.orders[i].level \in DOMAIN b.levels
          /\ Lookup(b, c.orders[i].side, b.levels[c.orders[i].level].price) = c.orders[i].level
    BY <1>0, <1>1, <1>3 DEF Found
  <2> QED
    BY <1>0, <1>3, <1>4, <2>1, <2>2, FoundKept
<1>6. c.ids = b.ids /\ c.rejected = b.rejected /\ c.nextSeq = ns
  BY <1>2 DEF SameCounts, ns
<1>7. Sound(c)
  BY <1>0, <1>2, <1>3, <1>4, <1>5, <1>6 DEF Sound, PoolsFit
<1>8. BookInv(c)
  BY <1>0, <1>3, <1>6, <1>7 DEF BookInv, IdsFit
<1>9. TakesShares(c, b, oi, q)
  BY <1>1, <1>2, <1>3, <1>6 DEF TakesShares, PriceAt, ns
<1> QED
  BY <1>8, <1>9 DEF c

-----------------------------------------------------------------------------
(* The window's scans: a finite set of naturals has a least and a greatest member. *)
LEMMA GreatestBelow ==
    ASSUME NEW S \in SUBSET Nat, S # {}, NEW n \in Nat, \A x \in S : x <= n
    PROVE  \E m \in S : \A x \in S : x <= m
<1> DEFINE T == {n - x : x \in S}
<1>1. T \in SUBSET Nat /\ T # {}
  <2>1. \A x \in S : x \in Nat /\ n - x \in Nat
    OBVIOUS
  <2> QED
    BY <2>1
<1>2. PICK k \in T : \A j \in T : k <= j
  BY <1>1, LeastNat
<1>3. PICK m \in S : k = n - m
  BY <1>2
<1>4. \A x \in S : n - x \in T
  OBVIOUS
<1>5. \A x \in S : n - m <= n - x
  BY <1>2, <1>3, <1>4
<1> QED
  BY <1>3, <1>5

LEMMA FiniteBounded ==
    ASSUME NEW S \in SUBSET Nat, IsFiniteSet(S)
    PROVE  \E n \in Nat : \A x \in S : x <= n
<1> DEFINE Bounded(A) == \E n \in Nat : \A x \in A : x <= n
           All(k) == \A A \in SUBSET Nat : IsFiniteSet(A) /\ Cardinality(A) = k => Bounded(A)
           T == {k \in Nat : All(k)}
<1>1. 0 \in T
  <2> SUFFICES ASSUME NEW A \in SUBSET Nat, IsFiniteSet(A), Cardinality(A) = 0 PROVE Bounded(A)
    OBVIOUS
  <2>1. A = {}
    BY FS_EmptySet
  <2> QED
    BY <2>1
<1>2. ASSUME NEW k \in Nat, k \in T PROVE k + 1 \in T
  <2>n. k + 1 \in Nat
    OBVIOUS
  <2>s. SUFFICES All(k + 1)
    <3> HIDE DEF All
    <3> QED
      BY <2>n
  <2> SUFFICES ASSUME NEW A \in SUBSET Nat, IsFiniteSet(A), Cardinality(A) = k + 1 PROVE Bounded(A)
    OBVIOUS
  <2>1. A # {}
    BY FS_EmptySet
  <2>2. PICK a \in A : TRUE
    BY <2>1
  <2>3. IsFiniteSet(A \ {a}) /\ Cardinality(A \ {a}) = k /\ A \ {a} \in SUBSET Nat
    <3>1. IsFiniteSet(A \ {a}) /\ Cardinality(A \ {a}) = Cardinality(A) - 1
      BY <2>2, FS_RemoveElement
    <3> QED
      BY <3>1
  <2>4. PICK n \in Nat : \A x \in A \ {a} : x <= n
    BY <1>2, <2>3
  <2>5. a \in Nat
    BY <2>2
  <2>6. \A x \in A : x <= n + a
    BY <2>4, <2>5
  <2> QED
    BY <2>5, <2>6
<1> HIDE DEF T
<1>3. T = Nat
  BY <1>1, <1>2, SetInduction DEF T
<1>4. Cardinality(S) \in T
  BY <1>3, FS_CardinalityType
<1> QED
  BY <1>4 DEF T

LEMMA MaxMinIn ==
    ASSUME NEW S \in SUBSET Nat, S # {}, NEW n \in Nat, \A x \in S : x <= n
    PROVE  /\ Window!Max(S) \in S /\ \A x \in S : x <= Window!Max(S)
           /\ Window!Min(S) \in S /\ \A x \in S : Window!Min(S) <= x
<1>1. \E m \in S : \A x \in S : m >= x
  BY GreatestBelow
<1>2. \E m \in S : \A x \in S : m <= x
  BY LeastNat
<1>3. Window!Max(S) \in S /\ \A x \in S : Window!Max(S) >= x
  BY <1>1 DEF Window!Max
<1>4. Window!Min(S) \in S /\ \A x \in S : Window!Min(S) <= x
  BY <1>2 DEF Window!Min
<1> QED
  BY <1>3, <1>4

LEMMA ScanIn ==
    ASSUME Window!WindowConstants, NEW bits \in SUBSET Grid, NEW side, NEW from
    PROVE  Window!Scan(side, bits, from) = Window!NoTick \/ Window!Scan(side, bits, from) \in bits
<1> DEFINE below == {t \in bits : t <= from}
           above == {t \in bits : t >= from}
           n == Window!Ticks - 1
<1>1. n \in Nat /\ bits \in SUBSET Nat /\ \A t \in bits : t <= n
  BY WindowFacts DEF Grid
<1> HIDE DEF n
<1>2. Window!ScanDown(bits, from) = Window!NoTick \/ Window!ScanDown(bits, from) \in bits
  <2>1. below \in SUBSET Nat /\ \A t \in below : t <= n
    BY <1>1
  <2>2. below # {} => Window!Max(below) \in below
    BY <1>1, <2>1, MaxMinIn
  <2> QED
    BY <2>2 DEF Window!ScanDown
<1>3. Window!ScanUp(bits, from) = Window!NoTick \/ Window!ScanUp(bits, from) \in bits
  <2>1. above \in SUBSET Nat /\ \A t \in above : t <= n
    BY <1>1
  <2>2. above # {} => Window!Min(above) \in above
    BY <1>1, <2>1, MaxMinIn
  <2> QED
    BY <2>2 DEF Window!ScanUp
<1> QED
  BY <1>2, <1>3 DEF Window!Scan

LEMMA FirstTickFinds ==
    ASSUME Window!WindowConstants, NEW bits \in SUBSET Grid, NEW side, bits # {}
    PROVE  Window!FirstTick(side, bits) \in bits
<1> DEFINE n == Window!Ticks - 1
           f == IF side = "Buy" THEN n ELSE 0
<1>1. n \in Nat /\ bits \in SUBSET Nat /\ \A t \in bits : t <= n /\ t >= 0
  BY WindowFacts DEF Grid
<1>2. {t \in bits : t <= n} = bits /\ {t \in bits : t >= 0} = bits
  BY <1>1
<1>3. Window!Max(bits) \in bits /\ Window!Min(bits) \in bits
  BY <1>1, MaxMinIn
<1> QED
  BY <1>2, <1>3 DEF Window!FirstTick, Window!Scan, Window!ScanDown, Window!ScanUp

LEMMA RefreshedIn ==
    ASSUME Window!WindowConstants, NEW bits \in SUBSET Grid, NEW side, NEW hint,
           hint = Window!NoTick \/ hint \in bits
    PROVE  LET h == Window!Refreshed(side, bits, hint) IN
           IF bits = {} THEN h = Window!NoTick ELSE h \in bits
<1>1. Window!FirstTick(side, bits) = Window!NoTick \/ Window!FirstTick(side, bits) \in bits
  BY ScanIn DEF Window!FirstTick
<1>2. bits # {} => Window!FirstTick(side, bits) \in bits
  BY FirstTickFinds
<1>3. Window!NoTick \notin bits
  BY WindowFacts DEF Grid, Window!NoTick
<1> QED
  BY <1>1, <1>2, <1>3 DEF Window!Refreshed

-----------------------------------------------------------------------------
(* The events that move the window alone, or empty the book. *)
LEMMA HintMoves ==
    ASSUME NEW b, DOMAIN b = Fields, NEW h
    PROVE  LET c == [b EXCEPT !.hint = h] IN
           /\ DOMAIN c = Fields /\ c.size = b.size /\ c.orders = b.orders /\ c.levels = b.levels
           /\ c.freeOrders = b.freeOrders /\ c.freeLevels = b.freeLevels
           /\ c.ids = b.ids /\ c.rejected = b.rejected /\ c.nextSeq = b.nextSeq
           /\ c.slot = b.slot /\ c.bits = b.bits /\ c.over = b.over /\ c.hint = h
  BY DEF Fields

LEMMA QueryKeeps ==
    ASSUME HybridConstants, NEW b, BookInv(b), NEW side \in Sides
    PROVE  LET c == Query(b, side) IN
           /\ BookInv(c) /\ c.size = b.size /\ c.orders = b.orders /\ c.levels = b.levels
           /\ c.ids = b.ids /\ c.rejected = b.rejected /\ c.nextSeq = b.nextSeq
<1> DEFINE c == Query(b, side)
           r == Window!Refreshed(side, b.bits[side], b.hint[side])
           h == [b.hint EXCEPT ![side] = r]
<1>0. /\ Sound(b) /\ IdsFit(b) /\ DOMAIN b = Fields /\ Marked(b) /\ Found(b)
      /\ Window!WindowConstants
      /\ \A li \in DOMAIN b.levels : OnLevel(b.orders, li) # {}
  BY DEF BookInv, Sound, HybridConstants
<1>1. DOMAIN b.hint = Sides
  BY <1>0 DEF Marked
<1>2. c = [b EXCEPT !.hint = h]
  BY DEF Query
<1>3. \A s \in Sides : /\ b.bits[s] \in SUBSET Grid
                       /\ b.hint[s] = Window!NoTick \/ b.hint[s] \in b.bits[s]
  BY <1>0 DEF Marked
<1>4. r = Window!NoTick \/ r \in b.bits[side]
  BY <1>0, <1>3, RefreshedIn
<1>5. \A s \in Sides : h[s] = IF s = side THEN r ELSE b.hint[s]
  BY <1>1
<1>6. DOMAIN h = Sides
  BY <1>1
<1> HIDE DEF c, h, r
<1>7. /\ DOMAIN c = Fields /\ c.size = b.size /\ c.orders = b.orders /\ c.levels = b.levels
      /\ c.freeOrders = b.freeOrders /\ c.freeLevels = b.freeLevels
      /\ c.ids = b.ids /\ c.rejected = b.rejected /\ c.nextSeq = b.nextSeq
      /\ c.slot = b.slot /\ c.bits = b.bits /\ c.over = b.over /\ c.hint = h
  BY <1>0, <1>2, HintMoves
<1>8. Marked(c)
  BY <1>0, <1>3, <1>4, <1>5, <1>6, <1>7 DEF Marked
<1>9. \A s, p : Lookup(c, s, p) = Lookup(b, s, p)
  BY <1>7 DEF Lookup
<1>10. Found(c)
  BY <1>0, <1>7, <1>9 DEF Found
<1>11. Sound(c)
  BY <1>0, <1>7, <1>8, <1>10 DEF Sound, PoolsFit
<1>12. BookInv(c)
  BY <1>0, <1>7, <1>11 DEF BookInv, IdsFit
<1> QED
  BY <1>7, <1>12 DEF c

LEMMA EmptyParts ==
    ASSUME NEW size
    PROVE  LET b == Empty(size) IN
           /\ DOMAIN b = Fields /\ b.size = size /\ b.orders = << >> /\ b.levels = << >>
           /\ b.freeOrders = Stack(size.orders) /\ b.freeLevels = Stack(size.levels)
           /\ b.slot = [side \in Sides |-> [t \in 0..(Window!Ticks - 1) |-> Nil]]
           /\ b.bits = [side \in Sides |-> {}]
           /\ b.hint = [side \in Sides |-> Window!NoTick]
           /\ b.over = [side \in Sides |-> << >>]
           /\ b.ids = << >> /\ b.rejected = 0 /\ b.nextSeq = 1
<1> DEFINE sl == [side \in Sides |-> [t \in 0..(Window!Ticks - 1) |-> Nil]]
           bi == [side \in Sides |-> {}]
           hi == [side \in Sides |-> Window!NoTick]
           ov == [side \in Sides |-> << >>]
           e == << >>
           so == Stack(size.orders)
           sv == Stack(size.levels)
           p == [size |-> size, orders |-> e, levels |-> e, freeOrders |-> so, freeLevels |-> sv]
           m == [slot |-> sl, bits |-> bi, hint |-> hi, over |-> ov, ids |-> e,
                 rejected |-> 0, nextSeq |-> 1]
           b == Empty(size)
<1>1. b = [k \in DOMAIN p \cup DOMAIN m |-> IF k \in DOMAIN m THEN m[k] ELSE p[k]]
  BY DEF Empty, NewPool, Extended
<1> HIDE DEF sl, bi, hi, ov, e, so, sv
<1>2. /\ DOMAIN p = {"size", "orders", "levels", "freeOrders", "freeLevels"}
      /\ DOMAIN m = {"slot", "bits", "hint", "over", "ids", "rejected", "nextSeq"}
  OBVIOUS
<1>3. /\ p.size = size /\ p.orders = e /\ p.levels = e /\ p.freeOrders = so /\ p.freeLevels = sv
      /\ m.slot = sl /\ m.bits = bi /\ m.hint = hi /\ m.over = ov /\ m.ids = e
      /\ m.rejected = 0 /\ m.nextSeq = 1
  OBVIOUS
<1> HIDE DEF p, m, b
<1>4. /\ DOMAIN b = Fields /\ b.size = size /\ b.orders = e /\ b.levels = e
      /\ b.freeOrders = so /\ b.freeLevels = sv
      /\ b.slot = sl /\ b.bits = bi /\ b.hint = hi /\ b.over = ov
      /\ b.ids = e /\ b.rejected = 0 /\ b.nextSeq = 1
  BY <1>1, <1>2, <1>3 DEF Fields
<1> QED
  BY <1>4 DEF b, sl, bi, hi, ov, e, so, sv

(* An empty book, whatever it has counted. *)
Emptied(size, r, ns) == [Empty(size) EXCEPT !.rejected = r, !.nextSeq = ns]

LEMMA EmptyKeeps ==
    ASSUME HybridConstants, NEW size \in Sizes, NEW r \in Nat, NEW ns \in Nat,
           NEW c, c = Emptied(size, r, ns)
    PROVE  /\ BookInv(c) /\ DOMAIN c.orders = {} /\ c.ids = << >> /\ c.rejected = r
           /\ c.nextSeq = ns /\ c.size = size
<1> DEFINE b == Empty(size)
<1>1. /\ DOMAIN b = Fields /\ b.size = size /\ b.orders = << >> /\ b.levels = << >>
      /\ b.freeOrders = Stack(size.orders) /\ b.freeLevels = Stack(size.levels)
      /\ b.slot = [side \in Sides |-> [t \in Grid |-> Nil]]
      /\ b.bits = [side \in Sides |-> {}]
      /\ b.hint = [side \in Sides |-> Window!NoTick]
      /\ b.over = [side \in Sides |-> << >>]
      /\ b.ids = << >> /\ b.rejected = 0 /\ b.nextSeq = 1
  BY EmptyParts DEF Grid
<1> HIDE DEF b
<1>2. c = [b EXCEPT !.rejected = r, !.nextSeq = ns]
  BY DEF b, Emptied
<1>3. /\ DOMAIN c = Fields /\ c.size = b.size /\ c.orders = b.orders /\ c.levels = b.levels
      /\ c.freeOrders = b.freeOrders /\ c.freeLevels = b.freeLevels
      /\ c.slot = b.slot /\ c.bits = b.bits /\ c.hint = b.hint /\ c.over = b.over
      /\ c.ids = b.ids /\ c.rejected = r /\ c.nextSeq = ns
  BY <1>1, <1>2 DEF Fields
<1>4. DOMAIN << >> = {}
  OBVIOUS
<1>5. size.orders \in Nat /\ size.levels \in Nat
  BY DEF HybridConstants
<1>6. PoolsFit(c)
  <2>1. Stacked(Stack(size.orders), size.orders, {}) /\ Stacked(Stack(size.levels), size.levels, {})
    BY <1>5, StackStarts
  <2> QED
    BY <1>1, <1>3, <1>4, <2>1 DEF PoolsFit
<1>7. Queues(c.orders, c.levels, c.nextSeq)
  BY <1>1, <1>3, NoQueues
<1>8. Marked(c)
  <2>1. IsFiniteSet(DOMAIN << >>)
    BY <1>4, FS_EmptySet
  <2>2. \A s \in Sides : /\ c.slot[s] = [t \in Grid |-> Nil] /\ c.bits[s] = {}
                         /\ c.hint[s] = Window!NoTick /\ DOMAIN c.over[s] = {}
                         /\ IsFiniteSet(DOMAIN c.over[s])
    BY <1>1, <1>3, <1>4, <2>1
  <2>3. DOMAIN c.bits = Sides /\ DOMAIN c.hint = Sides /\ DOMAIN c.over = Sides
    BY <1>1, <1>3
  <2>4. c.slot \in [Sides -> [Grid -> Int]]
    <3>1. [t \in Grid |-> Nil] \in [Grid -> Int]
      BY DEF Nil
    <3> QED
      BY <1>1, <1>3, <3>1
  <2>5. \A s \in Sides : c.bits[s] = {t \in Grid : c.slot[s][t] # Nil}
    BY <2>2
  <2> QED
    BY <2>2, <2>3, <2>4, <2>5 DEF Marked
<1>9. \A s \in Sides, p \in Nat : Lookup(c, s, p) = Nil
  <2> SUFFICES ASSUME NEW s \in Sides, NEW p \in Nat PROVE Lookup(c, s, p) = Nil
    OBVIOUS
  <2>1. c.slot[s] = [t \in Grid |-> Nil] /\ DOMAIN c.over[s] = {}
    BY <1>1, <1>3, <1>4
  <2>2. InGrid(p) => TickOf(p) \in Grid
    BY TickAtPrice DEF HybridConstants
  <2> QED
    BY <2>1, <2>2 DEF Lookup
<1>10. Found(c)
  BY <1>1, <1>3, <1>4, <1>9 DEF Found
<1>11. Sound(c)
  BY <1>3, <1>6, <1>7, <1>8, <1>10 DEF Sound
<1>12. BookInv(c)
  BY <1>1, <1>3, <1>4, <1>11 DEF BookInv, IdsFit
<1> QED
  BY <1>1, <1>3, <1>4, <1>12

LEMMA EmptyStarts ==
    ASSUME HybridConstants, NEW size \in Sizes
    PROVE  /\ BookInv(Empty(size)) /\ DOMAIN Empty(size).orders = {} /\ Empty(size).ids = << >>
           /\ Empty(size).rejected = 0 /\ Empty(size).size = size
<1> DEFINE b == Empty(size)
           c == [b EXCEPT !.rejected = 0, !.nextSeq = 1]
<1>1. DOMAIN b = Fields /\ b.rejected = 0 /\ b.nextSeq = 1
  BY EmptyParts
<1>2. b = [k \in DOMAIN b |-> b[k]]
  BY DEF Empty, Extended
<1>3. c = b
  <2> HIDE DEF b
  <2> QED
    BY <1>1, <1>2 DEF Fields
<1> HIDE DEF b, c
<1>4. c = Emptied(size, 0, 1)
  BY DEF b, c, Emptied
<1>5. 0 \in Nat /\ 1 \in Nat
  OBVIOUS
<1>6. /\ BookInv(c) /\ DOMAIN c.orders = {} /\ c.ids = << >> /\ c.rejected = 0 /\ c.size = size
  BY <1>4, <1>5, EmptyKeeps
<1> QED
  BY <1>3, <1>6 DEF b

-----------------------------------------------------------------------------
(* The events as the module defines them. *)
LEMMA ReduceKeeps ==
    ASSUME HybridConstants, NEW b, BookInv(b), NEW ref, NEW qty \in Nat
    PROVE  LET c == Reduce(b, ref, qty)
               oi == b.ids[ref] IN
           /\ BookInv(c)
           /\ \/ ref \notin DOMAIN b.ids /\ c = b
              \/ ref \in DOMAIN b.ids /\ qty >= b.orders[oi].qty /\ TakesOut(c, b, oi, ref)
              \/ ref \in DOMAIN b.ids /\ qty < b.orders[oi].qty /\ TakesShares(c, b, oi, qty)
<1> DEFINE c == Reduce(b, ref, qty)
           oi == b.ids[ref]
<1>1. CASE ref \notin DOMAIN b.ids
  BY <1>1 DEF Reduce
<1>2. CASE ref \in DOMAIN b.ids
  <2>1. oi \in DOMAIN b.orders
    BY <1>2 DEF BookInv, IdsFit
  <2>2. b.orders[oi].qty \in Nat
    BY <2>1 DEF BookInv, Sound, Queues, EntryFits, Entry
  <2>3. CASE qty >= b.orders[oi].qty
    <3>1. c = Remove(b, ref)
      BY <1>2, <2>3 DEF Reduce
    <3> HIDE DEF c
    <3>2. BookInv(c) /\ TakesOut(c, b, oi, ref)
      BY <1>2, <3>1, RemoveKeeps
    <3> QED
      BY <1>2, <2>3, <3>2 DEF c
  <2>4. CASE qty < b.orders[oi].qty
    <3>1. c = Shrink(b, oi, qty)
      BY <1>2, <2>2, <2>4 DEF Reduce
    <3> HIDE DEF c, oi
    <3>2. BookInv(c) /\ TakesShares(c, b, oi, qty)
      BY <2>1, <2>4, <3>1, ShrinkKeeps
    <3> QED
      BY <1>2, <2>4, <3>2 DEF c, oi
  <2> QED
    BY <2>2, <2>3, <2>4
<1> QED
  BY <1>1, <1>2

LEMMA RemovalKeeps ==
    ASSUME HybridConstants, NEW b, BookInv(b), NEW ref
    PROVE  LET c == Remove(b, ref) IN
           /\ BookInv(c)
           /\ \/ ref \notin DOMAIN b.ids /\ c = b
              \/ ref \in DOMAIN b.ids /\ TakesOut(c, b, b.ids[ref], ref)
<1>1. CASE ref \notin DOMAIN b.ids
  BY <1>1 DEF Remove
<1>2. CASE ref \in DOMAIN b.ids
  BY <1>2, RemoveKeeps
<1> QED
  BY <1>1, <1>2

(* A replace is a removal and an add, of the same side. *)
LEMMA ReplaceKeeps ==
    ASSUME HybridConstants, NEW b, BookInv(b), NEW old, NEW new \in Refs,
           NEW px \in Nat \ {0}, NEW qty \in Nat
    PROVE  LET r == Remove(b, old)
               c == Replace(b, old, new, px, qty)
               side == b.orders[b.ids[old]].side IN
           /\ BookInv(c)
           /\ \/ old \notin DOMAIN b.ids /\ c = b
              \/ /\ old \in DOMAIN b.ids /\ side \in Sides
                 /\ BookInv(r) /\ TakesOut(r, b, b.ids[old], old)
                 /\ \/ qty = 0 /\ c = r
                    \/ qty # 0 /\ TurnedDown(c, r)
                    \/ qty # 0 /\ AddsOrder(c, r, Seqs!Last(r.freeOrders), new, side, px, qty)
<1> DEFINE r == Remove(b, old)
           c == Replace(b, old, new, px, qty)
           side == b.orders[b.ids[old]].side
<1>1. CASE old \notin DOMAIN b.ids
  BY <1>1 DEF Replace
<1>2. CASE old \in DOMAIN b.ids
  <2>1. side \in Sides
    BY <1>2 DEF BookInv, IdsFit, Sound, Queues, EntryFits, Entry
  <2>2. c = Add(r, new, side, px, qty)
    BY <1>2 DEF Replace
  <2>3. BookInv(r) /\ TakesOut(r, b, b.ids[old], old)
    BY <1>2, RemoveKeeps
  <2> HIDE DEF r, c, side
  <2>4. /\ BookInv(c)
        /\ \/ qty = 0 /\ c = r
           \/ qty # 0 /\ TurnedDown(c, r)
           \/ qty # 0 /\ AddsOrder(c, r, Seqs!Last(r.freeOrders), new, side, px, qty)
    BY <2>1, <2>2, <2>3, AddKeeps
  <2> QED
    BY <1>2, <2>1, <2>3, <2>4 DEF r, c, side
<1> QED
  BY <1>1, <1>2

LEMMA ConstantFacts ==
    ASSUME HybridConstants
    PROVE  Prices \subseteq Nat \ {0} /\ Quantities \subseteq Nat
  BY DEF HybridConstants, Promise!BookConstants

(* The book is well formed in every state. *)
THEOREM BookIsSound ==
    ASSUME HybridConstants
    PROVE  Spec => []BookInv(book)
<1>1. Init => BookInv(book)
  BY EmptyStarts DEF Init
<1>2. ASSUME BookInv(book), [Next]_book PROVE BookInv(book')
  <2>0. Prices \subseteq Nat \ {0} /\ Quantities \subseteq Nat
    BY <1>2, ConstantFacts
  <2>1. ASSUME NEW ref \in Refs, NEW side \in Sides, NEW px \in Prices, NEW qty \in Quantities,
               OnAdd(ref, side, px, qty)
        PROVE  BookInv(book')
    <3>1. px \in Nat \ {0} /\ qty \in Nat
      BY <2>0
    <3> QED
      BY <1>2, <2>1, <3>1, AddKeeps DEF OnAdd
  <2>2. ASSUME NEW ref \in Refs, NEW qty \in Quantities, OnReduce(ref, qty) PROVE BookInv(book')
    <3>1. qty \in Nat
      BY <2>0
    <3> QED
      BY <1>2, <2>2, <3>1, ReduceKeeps DEF OnReduce
  <2>3. ASSUME NEW ref \in Refs, OnRemove(ref) PROVE BookInv(book')
    BY <1>2, <2>3, RemovalKeeps DEF OnRemove
  <2>4. ASSUME NEW old \in Refs, NEW new \in Refs, NEW px \in Prices, NEW qty \in Quantities,
               OnReplace(old, new, px, qty)
        PROVE  BookInv(book')
    <3>1. px \in Nat \ {0} /\ qty \in Nat
      BY <2>0
    <3> QED
      BY <1>2, <2>4, <3>1, ReplaceKeeps DEF OnReplace
  <2>5. ASSUME NEW side \in Sides, OnQuery(side) PROVE BookInv(book')
    BY <1>2, <2>5, QueryKeeps DEF OnQuery
  <2>6. ASSUME Clear PROVE BookInv(book')
    <3>1. book.size \in Sizes /\ book.rejected \in Nat /\ book.nextSeq \in Nat
      BY <1>2 DEF BookInv, Sound, PoolsFit, Queues
    <3>2. book' = Emptied(book.size, book.rejected, book.nextSeq)
      BY <2>6 DEF Clear, Emptied
    <3> QED
      BY <1>2, <3>1, <3>2, EmptyKeeps
  <2>7. CASE UNCHANGED book
    BY <1>2, <2>7
  <2> QED
    BY <1>2, <2>1, <2>2, <2>3, <2>4, <2>5, <2>6, <2>7 DEF Next
<1>3. BookInv(book) /\ [Next]_book => BookInv(book)'
  BY <1>2
<1> QED
  BY <1>1, <1>3, PTL DEF Spec

-----------------------------------------------------------------------------
(* What a level holds tells where it is found. *)
LEMMA LevelSide ==
    ASSUME NEW b, BookInv(b), NEW s \in Sides, NEW p \in Nat, Lookup(b, s, p) # Nil
    PROVE  LET li == Lookup(b, s, p) IN
           /\ li \in DOMAIN b.levels /\ b.levels[li].price = p /\ p # 0
           /\ OnLevel(b.orders, li) # {} /\ OnLevel(b.orders, li) \subseteq DOMAIN b.orders
           /\ \A i \in OnLevel(b.orders, li) : b.orders[i].side = s /\ PriceAt(b, i) = p
<1> DEFINE li == Lookup(b, s, p)
<1>1. /\ li \in DOMAIN b.levels /\ b.levels[li].price = p
      /\ \A u \in Sides : Lookup(b, s, p) = Lookup(b, u, p) => s = u
      /\ \A i \in DOMAIN b.orders :
            /\ Lookup(b, b.orders[i].side, b.levels[b.orders[i].level].price) = b.orders[i].level
            /\ b.orders[i].side \in Sides
  BY DEF BookInv, Sound, Found, Queues, EntryFits, Entry
<1>2. p # 0
  BY <1>1 DEF BookInv, Sound, Queues, LevelFits, LevelEntry
<1>3. OnLevel(b.orders, li) # {}
  BY <1>1 DEF BookInv
<1>4. \A i \in OnLevel(b.orders, li) : i \in DOMAIN b.orders /\ b.orders[i].level = li
  BY DEF OnLevel
<1>5. ASSUME NEW i \in OnLevel(b.orders, li) PROVE b.orders[i].side = s /\ PriceAt(b, i) = p
  <2>1. /\ i \in DOMAIN b.orders /\ b.orders[i].level = li
        /\ Lookup(b, b.orders[i].side, p) = li /\ b.orders[i].side \in Sides
    BY <1>1, <1>4
  <2> QED
    BY <1>1, <2>1 DEF PriceAt
<1> QED
  BY <1>1, <1>2, <1>3, <1>4, <1>5

(* No entry of a pool is lost, handed out twice or freed twice, and a level is found   *)
(* through the window or the overflow map, on its side and at its price, exactly while *)
(* it is in use: free_orders_, free_levels_, grid_ and overflow_ of hybrid_book.hpp.   *)
THEOREM PoolsStayWhole ==
    ASSUME HybridConstants
    PROVE  Spec => []PoolsWhole
<1>1. BookInv(book) => PoolsWhole
  <2> SUFFICES ASSUME BookInv(book) PROVE PoolsWhole
    OBVIOUS
  <2>1. PoolsAreWhole(book)
    BY DEF BookInv, Sound, PoolsFit, Stacked, PoolsAreWhole
  <2>2. ASSUME NEW side \in Sides, NEW px \in Prices
        PROVE  {Lookup(book, side, px)} \ {Nil} =
               {li \in DOMAIN book.levels :
                   /\ book.levels[li].price = px
                   /\ \A oi \in Resting(book, li) : book.orders[oi].side = side}
    <3>1. px \in Nat
      BY ConstantFacts
    <3>2. \A li : Resting(book, li) = OnLevel(book.orders, li)
      BY DEF Resting, OnLevel
    <3>3. ASSUME Lookup(book, side, px) # Nil
          PROVE  LET li == Lookup(book, side, px) IN
                 /\ li \in DOMAIN book.levels /\ book.levels[li].price = px
                 /\ \A oi \in Resting(book, li) : book.orders[oi].side = side
      BY <3>1, <3>2, <3>3, LevelSide
    <3>4. ASSUME NEW li \in DOMAIN book.levels, book.levels[li].price = px,
                 \A oi \in Resting(book, li) : book.orders[oi].side = side
          PROVE  Lookup(book, side, px) = li /\ li # Nil
      <4>1. PICK i \in OnLevel(book.orders, li) : TRUE
        BY DEF BookInv
      <4>2. i \in DOMAIN book.orders /\ book.orders[i].level = li /\ book.orders[i].side = side
        BY <3>2, <3>4, <4>1 DEF OnLevel
      <4>3. Lookup(book, side, px) = li
        BY <3>4, <4>2 DEF BookInv, Sound, Found
      <4>4. li \in Nat
        BY DEF BookInv, Sound, Queues
      <4> QED
        BY <4>3, <4>4 DEF Nil
    <3> QED
      BY <3>3, <3>4
  <2> QED
    BY <2>1, <2>2 DEF PoolsWhole
<1>2. Spec => []BookInv(book)
  BY BookIsSound
<1> QED
  BY <1>1, <1>2, PTL

(* "Capacity exhaustion must never be silent" (hybrid_book.hpp): whatever order a book of *)
(* any size is told of next, it can be found by its reference afterwards or it is counted *)
(* as rejected, and never both, the id table's refusal of a linked order included.        *)
THEOREM DropsStayCounted ==
    ASSUME HybridConstants
    PROVE  Spec => []DropsAreCounted
<1>1. BookInv(book) => DropsAreCounted
  <2> SUFFICES ASSUME BookInv(book), NEW ref \in Refs, NEW side \in Sides, NEW px \in Prices,
                      NEW qty \in Quantities \ {0}, Fresh(book, ref)
               PROVE  (ref \in DOMAIN Add(book, ref, side, px, qty).ids)
                        # (Add(book, ref, side, px, qty).rejected = book.rejected + 1)
    BY DEF DropsAreCounted
  <2> DEFINE b == Add(book, ref, side, px, qty)
             oi == Seqs!Last(book.freeOrders)
  <2>1. ref \notin DOMAIN book.ids
    BY DEF BookInv, IdsFit, Fresh
  <2>2. px \in Nat \ {0} /\ qty \in Nat /\ book.rejected \in Nat
    BY ConstantFacts DEF BookInv, Sound
  <2>3. \/ TurnedDown(b, book)
        \/ AddsOrder(b, book, oi, ref, side, px, qty)
    BY <2>2, AddKeeps
  <2> HIDE DEF b, oi
  <2>4. CASE TurnedDown(b, book)
    BY <2>1, <2>4 DEF TurnedDown, b
  <2>5. CASE AddsOrder(b, book, oi, ref, side, px, qty)
    <3>1. CASE b.ids = Put(book.ids, ref, oi) /\ b.rejected = book.rejected
      <4>1. ref \in DOMAIN b.ids /\ b.rejected # book.rejected + 1
        BY <2>2, <3>1 DEF Put
      <4> QED
        BY <4>1 DEF b
    <3>2. CASE b.ids = book.ids /\ b.rejected = book.rejected + 1
      <4>1. ref \notin DOMAIN b.ids /\ b.rejected = book.rejected + 1
        BY <2>1, <3>2
      <4> QED
        BY <4>1 DEF b
    <3> QED
      BY <2>5, <3>1, <3>2 DEF AddsOrder
  <2> QED
    BY <2>3, <2>4, <2>5
<1>2. Spec => []BookInv(book)
  BY BookIsSound
<1> QED
  BY <1>1, <1>2, PTL

-----------------------------------------------------------------------------
(* The best price. *)
LEMMA OutermostIn ==
    ASSUME NEW over \in SUBSET Nat, IsFiniteSet(over), over # {}, NEW side
    PROVE  Window!Outermost(side, over) \in over
<1>1. PICK n \in Nat : \A x \in over : x <= n
  BY FiniteBounded
<1> QED
  BY <1>1, MaxMinIn DEF Window!Outermost

(* The prices of a side at which the pool holds an order. *)
Held(b, side) == {PriceAt(b, i) : i \in {i \in DOMAIN b.orders : b.orders[i].side = side}}

LEMMA HeldIsFound ==
    ASSUME NEW b, BookInv(b), NEW s \in Sides
    PROVE  /\ \A p \in Nat : Lookup(b, s, p) # Nil => p \in Held(b, s) /\ p # 0
           /\ \A p \in Held(b, s) : p \in Nat /\ Lookup(b, s, p) # Nil
<1>1. ASSUME NEW p \in Nat, Lookup(b, s, p) # Nil PROVE p \in Held(b, s) /\ p # 0
  <2> DEFINE li == Lookup(b, s, p)
  <2>1. /\ p # 0 /\ OnLevel(b.orders, li) # {} /\ OnLevel(b.orders, li) \subseteq DOMAIN b.orders
        /\ \A i \in OnLevel(b.orders, li) : b.orders[i].side = s /\ PriceAt(b, i) = p
    BY <1>1, LevelSide
  <2>2. PICK i \in OnLevel(b.orders, li) : TRUE
    BY <2>1
  <2> QED
    BY <2>1, <2>2 DEF Held
<1>2. ASSUME NEW p \in Held(b, s) PROVE p \in Nat /\ Lookup(b, s, p) # Nil
  <2>1. PICK i \in DOMAIN b.orders : b.orders[i].side = s /\ p = PriceAt(b, i)
    BY DEF Held
  <2>2. b.orders[i].level \in DOMAIN b.levels /\ b.orders[i].level \in Nat
    BY DEF BookInv, Sound, Queues, EntryFits
  <2>3. p \in Nat
    BY <2>1, <2>2 DEF BookInv, Sound, Queues, LevelFits, LevelEntry, PriceAt
  <2>4. Lookup(b, s, p) = b.orders[i].level
    BY <2>1 DEF BookInv, Sound, Found, PriceAt
  <2> QED
    BY <2>2, <2>3, <2>4 DEF Nil
<1> QED
  BY <1>1, <1>2

LEMMA BestIsFound ==
    ASSUME HybridConstants, NEW b, BookInv(b), NEW s \in Sides
    PROVE  IF Held(b, s) = {} THEN BestPrice(b, s) = Window!kInvalidPrice
           ELSE BestPrice(b, s) \in Held(b, s)
<1> DEFINE bits == b.bits[s]
           over == DOMAIN b.over[s]
           h == Window!Refreshed(s, bits, b.hint[s])
           p == BestPrice(b, s)
<1>0. /\ Window!WindowConstants
      /\ bits = {t \in Grid : b.slot[s][t] # Nil}
      /\ b.hint[s] = Window!NoTick \/ b.hint[s] \in bits
      /\ IsFiniteSet(over) /\ over \subseteq Nat \ {0}
      /\ \A q \in over : ~InGrid(q) /\ b.over[s][q] # Nil
  BY DEF HybridConstants, BookInv, Sound, Marked
<1>1. IF bits = {} THEN h = Window!NoTick ELSE h \in bits
  BY <1>0, RefreshedIn
<1>2. p = Window!BestOf(s, h, over)
  BY DEF BestPrice
<1>3. over # {} => Window!Outermost(s, over) \in over
  BY <1>0, OutermostIn
<1>4. ASSUME NEW q \in over PROVE q \in Held(b, s)
  <2>1. q \in Nat /\ Lookup(b, s, q) # Nil
    BY <1>0 DEF Lookup
  <2> QED
    BY <2>1, HeldIsFound
<1>5. ASSUME NEW t \in bits PROVE Window!PriceOf(t) \in Held(b, s)
  <2> DEFINE q == Window!PriceOf(t)
  <2>1. q \in Nat /\ InGrid(q) /\ TickOf(q) = t
    BY <1>0, PriceAtTick
  <2> HIDE DEF q
  <2>2. Lookup(b, s, q) # Nil
    BY <1>0, <2>1 DEF Lookup
  <2>3. q \in Held(b, s)
    BY <2>1, <2>2, HeldIsFound
  <2> QED
    BY <2>3 DEF q
<1>6. Window!NoTick \notin bits
  BY <1>0, WindowFacts DEF Grid, Window!NoTick
<1>7. Held(b, s) # {} => bits # {} \/ over # {}
  <2> SUFFICES ASSUME NEW q \in Held(b, s) PROVE bits # {} \/ over # {}
    OBVIOUS
  <2>1. q \in Nat /\ Lookup(b, s, q) # Nil
    BY HeldIsFound
  <2>2. CASE InGrid(q)
    <3>1. TickOf(q) \in bits
      BY <1>0, <2>1, <2>2, TickAtPrice DEF Lookup
    <3> QED
      BY <3>1
  <2>3. CASE ~InGrid(q)
    BY <2>1, <2>3 DEF Lookup
  <2> QED
    BY <2>2, <2>3
<1> HIDE DEF bits, over, h, p
<1>8. CASE bits = {}
  <2>1. p = IF over = {} THEN Window!kInvalidPrice ELSE Window!Outermost(s, over)
    BY <1>1, <1>2, <1>8 DEF Window!BestOf
  <2> QED
    BY <1>3, <1>4, <1>7, <1>8, <2>1 DEF p
<1>9. CASE bits # {}
  <2>1. h \in bits /\ h # Window!NoTick
    BY <1>1, <1>6, <1>9
  <2>2. \/ over # {} /\ p = Window!Outermost(s, over)
        \/ p = Window!PriceOf(h)
    BY <1>2, <2>1 DEF Window!BestOf
  <2>3. p \in Held(b, s)
    BY <1>3, <1>4, <1>5, <2>1, <2>2
  <2> QED
    BY <2>3 DEF p
<1> QED
  BY <1>8, <1>9

(* best_bid and best_ask answer with a price at which the pool holds an order of the side, *)
(* and with kInvalidPrice only when it holds none there: whatever the hint was worth.      *)
BestIsHeld ==
    \A side \in Sides :
        BestPrice(book, side) \in (IF Held(book, side) = {} THEN {Window!kInvalidPrice}
                                   ELSE Held(book, side))

THEOREM BestStaysHeld ==
    ASSUME HybridConstants
    PROVE  Spec => []BestIsHeld
<1>1. BookInv(book) => BestIsHeld
  BY BestIsFound DEF BestIsHeld
<1>2. Spec => []BookInv(book)
  BY BookIsSound
<1> QED
  BY <1>1, <1>2, PTL

-----------------------------------------------------------------------------
(* The orders by reference: what an event does to them is what OrderBook does. *)
View(b) == [ref \in DOMAIN b.ids |-> OrderIn(b, b.ids[ref])]

Resting3(side, px, qty) == [side |-> side, price |-> px, qty |-> qty]

LEMMA OrderInIs ==
    /\ \A b, i : OrderIn(b, i) = Resting3(b.orders[i].side, PriceAt(b, i), b.orders[i].qty)
    /\ \A s, p, q : /\ Resting3(s, p, q).side = s /\ Resting3(s, p, q).price = p
                    /\ Resting3(s, p, q).qty = q
  BY DEF OrderIn, Resting3, PriceAt

LEMMA ViewAdded ==
    ASSUME NEW b, IdsFit(b), NEW c, NEW oi, NEW ref, NEW side, NEW px, NEW qty,
           AddsOrder(c, b, oi, ref, side, px, qty)
    PROVE  \/ View(c) = Put(View(b), ref, Resting3(side, px, qty)) /\ c.rejected = b.rejected
           \/ View(c) = View(b) /\ c.rejected = b.rejected + 1
<1>1. \A r \in DOMAIN b.ids : b.ids[r] \in DOMAIN b.orders /\ OrderIn(c, b.ids[r]) = OrderIn(b, b.ids[r])
  BY DEF IdsFit, AddsOrder, KeptOrder, SameOrder, PriceAt, OrderIn
<1>2. OrderIn(c, oi) = Resting3(side, px, qty)
  BY DEF AddsOrder, PriceAt, OrderIn, Resting3
<1>3. CASE c.ids = Put(b.ids, ref, oi) /\ c.rejected = b.rejected
  <2>1. DOMAIN c.ids = DOMAIN b.ids \cup {ref}
    BY <1>3 DEF Put
  <2>2. \A r \in DOMAIN c.ids : c.ids[r] = IF r = ref THEN oi ELSE b.ids[r]
    BY <1>3 DEF Put
  <2>3. DOMAIN View(b) = DOMAIN b.ids /\ \A r \in DOMAIN b.ids : View(b)[r] = OrderIn(b, b.ids[r])
    BY DEF View
  <2>4. \A r \in DOMAIN c.ids :
           OrderIn(c, c.ids[r]) = IF r = ref THEN Resting3(side, px, qty) ELSE View(b)[r]
    BY <1>1, <1>2, <2>1, <2>2, <2>3
  <2> QED
    BY <1>3, <2>1, <2>3, <2>4 DEF View, Put
<1>4. CASE c.ids = b.ids /\ c.rejected = b.rejected + 1
  BY <1>1, <1>4 DEF View
<1> QED
  BY <1>3, <1>4 DEF AddsOrder

LEMMA ViewRemoved ==
    ASSUME NEW b, IdsFit(b), NEW c, NEW ref \in DOMAIN b.ids, TakesOut(c, b, b.ids[ref], ref)
    PROVE  View(c) = Without(View(b), ref) /\ c.rejected = b.rejected
<1>1. \A r \in DOMAIN b.ids \ {ref} : b.ids[r] \in DOMAIN c.orders
  BY DEF IdsFit, TakesOut
<1>2. \A r \in DOMAIN b.ids \ {ref} : OrderIn(c, b.ids[r]) = OrderIn(b, b.ids[r])
  BY <1>1 DEF TakesOut, KeptOrder, SameOrder, PriceAt, OrderIn
<1>3. DOMAIN c.ids = DOMAIN b.ids \ {ref} /\ \A r \in DOMAIN c.ids : c.ids[r] = b.ids[r]
  BY DEF TakesOut, Without
<1>4. DOMAIN View(b) = DOMAIN b.ids /\ \A r \in DOMAIN b.ids : View(b)[r] = OrderIn(b, b.ids[r])
  BY DEF View
<1>5. \A r \in DOMAIN c.ids : OrderIn(c, c.ids[r]) = View(b)[r]
  BY <1>2, <1>3, <1>4
<1>6. View(c) = Without(View(b), ref)
  BY <1>3, <1>4, <1>5 DEF View, Without
<1> QED
  BY <1>6 DEF TakesOut

LEMMA ViewShrunk ==
    ASSUME NEW b, IdsFit(b), NEW c, NEW ref \in DOMAIN b.ids, NEW q,
           TakesShares(c, b, b.ids[ref], q)
    PROVE  View(c) = [View(b) EXCEPT ![ref].qty = @ - q] /\ c.rejected = b.rejected
<1> DEFINE V == View(b)
<1>1. /\ DOMAIN V = DOMAIN b.ids /\ \A r \in DOMAIN b.ids : V[r] = OrderIn(b, b.ids[r])
      /\ c.ids = b.ids /\ c.rejected = b.rejected
  BY DEF View, TakesShares
<1>2. \A r \in DOMAIN b.ids \ {ref} : b.ids[r] # b.ids[ref] /\ b.ids[r] \in DOMAIN b.orders
  BY DEF IdsFit
<1>3. \A r \in DOMAIN b.ids \ {ref} : OrderIn(c, b.ids[r]) = V[r]
  BY <1>1, <1>2, OrderInIs DEF TakesShares
<1>4. b.ids[ref] \in DOMAIN b.orders
  BY DEF IdsFit
<1>a. /\ V[ref].side = b.orders[b.ids[ref]].side /\ V[ref].price = PriceAt(b, b.ids[ref])
      /\ V[ref].qty = b.orders[b.ids[ref]].qty
  BY <1>1, OrderInIs
<1>b. /\ c.orders[b.ids[ref]].side = b.orders[b.ids[ref]].side
      /\ PriceAt(c, b.ids[ref]) = PriceAt(b, b.ids[ref])
      /\ c.orders[b.ids[ref]].qty = b.orders[b.ids[ref]].qty - q
  BY <1>4 DEF TakesShares
<1>5. OrderIn(c, b.ids[ref]) = Resting3(V[ref].side, V[ref].price, V[ref].qty - q)
  BY <1>a, <1>b, OrderInIs
<1>6. V[ref] = Resting3(V[ref].side, V[ref].price, V[ref].qty)
  BY <1>1, <1>a, OrderInIs
<1>7. [V[ref] EXCEPT !.qty = V[ref].qty - q] = Resting3(V[ref].side, V[ref].price, V[ref].qty - q)
  <2> DEFINE s == V[ref].side
             p == V[ref].price
             n == V[ref].qty
             m == V[ref].qty - q
  <2>1. V[ref] = Resting3(s, p, n)
    BY <1>6
  <2> HIDE DEF s, p, n, m, V
  <2>2. [Resting3(s, p, n) EXCEPT !.qty = m] = Resting3(s, p, m)
    BY DEF Resting3
  <2> QED
    BY <2>1, <2>2 DEF s, p, m
<1> HIDE DEF V
<1>8. [V EXCEPT ![ref].qty = @ - q] = [V EXCEPT ![ref] = [V[ref] EXCEPT !.qty = V[ref].qty - q]]
  OBVIOUS
<1>9. \A r \in DOMAIN b.ids : OrderIn(c, c.ids[r]) = [V EXCEPT ![ref].qty = @ - q][r]
  BY <1>1, <1>3, <1>5, <1>7, <1>8
<1>10. DOMAIN [V EXCEPT ![ref].qty = @ - q] = DOMAIN c.ids
  BY <1>1
<1>11. View(c) = [V EXCEPT ![ref].qty = @ - q]
  BY <1>1, <1>9, <1>10 DEF View
<1> QED
  BY <1>1, <1>11 DEF V

Shrunk(V, ref, q) == [V EXCEPT ![ref].qty = @ - q]

LEMMA ViewShrinks ==
    ASSUME NEW b, IdsFit(b), NEW c, NEW ref \in DOMAIN b.ids, NEW q,
           TakesShares(c, b, b.ids[ref], q)
    PROVE  View(c) = Shrunk(View(b), ref, q) /\ c.rejected = b.rejected
  BY ViewShrunk DEF Shrunk

LEMMA ViewKept ==
    ASSUME NEW b, NEW c, c.orders = b.orders, c.levels = b.levels, c.ids = b.ids
    PROVE  View(c) = View(b)
  BY DEF View, OrderIn

(* OrderBook's actions, for the orders and the counter before and after. *)
Kept(V, W, m, n, new, side, px, qty) ==
    \/ qty = 0 /\ W = V /\ n = m
    \/ qty # 0 /\ W = Put(V, new, Resting3(side, px, qty)) /\ n = m
    \/ qty # 0 /\ W = V /\ n = m + 1

LEMMA ViewOfAdd ==
    ASSUME HybridConstants, NEW b, BookInv(b), NEW ref \in Refs, NEW side \in Sides,
           NEW px \in Nat \ {0}, NEW qty \in Nat, NEW c, c = Add(b, ref, side, px, qty)
    PROVE  Kept(View(b), View(c), b.rejected, c.rejected, ref, side, px, qty)
<1>1. \/ qty = 0 /\ c = b
      \/ qty # 0 /\ TurnedDown(c, b)
      \/ qty # 0 /\ AddsOrder(c, b, Seqs!Last(b.freeOrders), ref, side, px, qty)
  BY AddKeeps
<1>2. CASE qty = 0 /\ c = b
  BY <1>2 DEF Kept
<1>3. CASE qty # 0 /\ TurnedDown(c, b)
  <2>1. View(c) = View(b) /\ c.rejected = b.rejected + 1
    BY <1>3, ViewKept DEF TurnedDown
  <2> QED
    BY <1>3, <2>1 DEF Kept
<1>4. CASE qty # 0 /\ AddsOrder(c, b, Seqs!Last(b.freeOrders), ref, side, px, qty)
  <2>1. IdsFit(b)
    BY DEF BookInv
  <2> QED
    BY <1>4, <2>1, ViewAdded DEF Kept
<1> QED
  BY <1>1, <1>2, <1>3, <1>4

LEMMA AsAdd ==
    ASSUME NEW ref, NEW side, NEW px, NEW qty,
           Kept(View(book), View(book'), book.rejected, book'.rejected, ref, side, px, qty)
    PROVE  Promise!Add(ref, side, px, qty)
  BY DEF Promise!Add, Promise!Join, Promise!Put, Put, Kept, View, Resting3

LEMMA AsRemove ==
    ASSUME NEW ref \in DOMAIN book.ids, View(book') = Without(View(book), ref),
           book'.rejected = book.rejected
    PROVE  Promise!Remove(ref)
  BY DEF Promise!Remove, Promise!Without, Without, View

LEMMA AsReduce ==
    ASSUME NEW ref \in DOMAIN book.ids, NEW qty, book'.rejected = book.rejected,
           View(book') = IF qty >= View(book)[ref].qty THEN Without(View(book), ref)
                         ELSE [View(book) EXCEPT ![ref].qty = @ - qty]
    PROVE  Promise!Reduce(ref, qty)
  BY DEF Promise!Reduce, Promise!Without, Without, View

LEMMA AsReplace ==
    ASSUME NEW old \in DOMAIN book.ids, NEW new, NEW px, NEW qty,
           Kept(Without(View(book), old), View(book'), book.rejected, book'.rejected,
                new, View(book)[old].side, px, qty)
    PROVE  Promise!Replace(old, new, px, qty)
  BY DEF Promise!Replace, Promise!Join, Promise!Put, Put, Promise!Without, Without, Kept, View, Resting3

(* HybridBook implements OrderBook: event by event, the orders it can find by reference are *)
(* those of the abstract book, or an add was turned down and counted.                       *)
THEOREM HybridIsBook ==
    ASSUME HybridConstants
    PROVE  Spec => ImplementsBook
<1>1. Init => Promise!Init
  <2> SUFFICES ASSUME NEW size \in Sizes, book = Empty(size) PROVE Promise!Init
    BY DEF Init
  <2>1. book.ids = << >> /\ book.rejected = 0
    BY EmptyStarts
  <2>2. DOMAIN << >> = {} /\ \A f : DOMAIN f = {} => << >> = [x \in {} |-> f[x]]
    OBVIOUS
  <2>3. [ref \in DOMAIN book.ids |-> OrderIn(book, book.ids[ref])] = << >>
    BY <2>1, <2>2
  <2> QED
    BY <2>1, <2>3 DEF Promise!Init
<1>2. ASSUME BookInv(book), [Next]_book PROVE Promise!Next \/ UNCHANGED Promise!vars
  <2>0. Prices \subseteq Nat \ {0} /\ Quantities \subseteq Nat
    BY ConstantFacts
  <2>d. DOMAIN View(book) = DOMAIN book.ids /\ IdsFit(book)
    BY <1>2 DEF View, BookInv
  <2>s. ASSUME View(book') = View(book), book'.rejected = book.rejected
        PROVE  UNCHANGED Promise!vars
    BY <2>s DEF Promise!vars, View
  <2>1. ASSUME NEW ref \in Refs, NEW side \in Sides, NEW px \in Prices, NEW qty \in Quantities,
               OnAdd(ref, side, px, qty)
        PROVE  Promise!Next
    <3>1. px \in Nat \ {0} /\ qty \in Nat
      BY <2>0
    <3>2. ref \notin DOMAIN book.ids
      BY <2>d, <2>1 DEF OnAdd, Fresh, IdsFit
    <3>3. Kept(View(book), View(book'), book.rejected, book'.rejected, ref, side, px, qty)
      BY <1>2, <2>1, <3>1, ViewOfAdd DEF OnAdd
    <3>4. Promise!Add(ref, side, px, qty)
      BY <3>3, AsAdd
    <3> QED
      BY <3>2, <3>4 DEF Promise!Next, Sides
  <2>t. ASSUME NEW ref \in DOMAIN book.ids, TakesOut(book', book, book.ids[ref], ref)
        PROVE  Promise!Remove(ref)
    <3>1. View(book') = Without(View(book), ref) /\ book'.rejected = book.rejected
      BY <2>d, <2>t, ViewRemoved
    <3> QED
      BY <3>1, AsRemove
  <2>2. ASSUME NEW ref \in Refs, NEW qty \in Quantities, OnReduce(ref, qty)
        PROVE  Promise!Next \/ UNCHANGED Promise!vars
    <3> DEFINE oi == book.ids[ref]
    <3>1. qty \in Nat
      BY <2>0
    <3>2. \/ ref \notin DOMAIN book.ids /\ book' = book
          \/ /\ ref \in DOMAIN book.ids /\ qty >= book.orders[oi].qty
             /\ TakesOut(book', book, oi, ref)
          \/ /\ ref \in DOMAIN book.ids /\ qty < book.orders[oi].qty
             /\ TakesShares(book', book, oi, qty)
      BY <1>2, <2>2, <3>1, ReduceKeeps DEF OnReduce
    <3>3. CASE book' = book
      BY <2>s, <3>3
    <3>4. CASE ref \in DOMAIN book.ids /\ TakesOut(book', book, oi, ref)
      BY <2>t, <3>4 DEF Promise!Next
    <3>5. CASE /\ ref \in DOMAIN book.ids /\ qty < book.orders[oi].qty
               /\ TakesShares(book', book, oi, qty)
      <4>1. /\ View(book') = [View(book) EXCEPT ![ref].qty = @ - qty]
            /\ book'.rejected = book.rejected
        BY <2>d, <3>5, ViewShrunk
      <4>2. View(book)[ref].qty = book.orders[oi].qty
        BY <3>5 DEF View, OrderIn
      <4>3. book.orders[oi].qty \in Nat
        BY <1>2, <2>d, <3>5 DEF IdsFit, BookInv, Sound, Queues, EntryFits, Entry
      <4>4. ~(qty >= View(book)[ref].qty)
        BY <3>1, <3>5, <4>2, <4>3
      <4>5. Promise!Reduce(ref, qty)
        BY <3>5, <4>1, <4>4, AsReduce
      <4> QED
        BY <3>5, <4>5 DEF Promise!Next
    <3> QED
      BY <3>2, <3>3, <3>4, <3>5
  <2>3. ASSUME NEW ref \in Refs, OnRemove(ref) PROVE Promise!Next \/ UNCHANGED Promise!vars
    <3>1. \/ book' = book
          \/ ref \in DOMAIN book.ids /\ TakesOut(book', book, book.ids[ref], ref)
      BY <1>2, <2>3, RemovalKeeps DEF OnRemove
    <3>2. CASE book' = book
      BY <2>s, <3>2
    <3>3. CASE ref \in DOMAIN book.ids /\ TakesOut(book', book, book.ids[ref], ref)
      BY <2>t, <3>3 DEF Promise!Next
    <3> QED
      BY <3>1, <3>2, <3>3
  <2>4. ASSUME NEW old \in Refs, NEW new \in Refs, NEW px \in Prices, NEW qty \in Quantities,
               OnReplace(old, new, px, qty)
        PROVE  Promise!Next \/ UNCHANGED Promise!vars
    <3> DEFINE r == Remove(book, old)
               side == book.orders[book.ids[old]].side
    <3>1. px \in Nat \ {0} /\ qty \in Nat
      BY <2>0
    <3>2. \/ old \notin DOMAIN book.ids /\ book' = book
          \/ /\ old \in DOMAIN book.ids /\ side \in Sides
             /\ BookInv(r) /\ TakesOut(r, book, book.ids[old], old)
             /\ book' = Add(r, new, side, px, qty)
      <4>1. CASE old \notin DOMAIN book.ids
        BY <2>4, <4>1 DEF OnReplace, Replace
      <4>2. CASE old \in DOMAIN book.ids
        <5>1. BookInv(r) /\ TakesOut(r, book, book.ids[old], old)
          BY <1>2, <4>2, RemoveKeeps
        <5>2. side \in Sides
          BY <1>2, <2>d, <4>2 DEF IdsFit, BookInv, Sound, Queues, EntryFits, Entry
        <5>3. book' = Add(r, new, side, px, qty)
          BY <2>4, <4>2 DEF OnReplace, Replace
        <5> QED
          BY <4>2, <5>1, <5>2, <5>3
      <4> QED
        BY <4>1, <4>2
    <3>3. CASE book' = book
      BY <2>s, <3>3
    <3>4. CASE /\ old \in DOMAIN book.ids /\ side \in Sides
               /\ BookInv(r) /\ TakesOut(r, book, book.ids[old], old)
               /\ book' = Add(r, new, side, px, qty)
      <4>f. Fresh(r, new)
        BY <2>4 DEF OnReplace
      <4> HIDE DEF r, side
      <4>1. Kept(View(r), View(book'), r.rejected, book'.rejected, new, side, px, qty)
        BY <3>1, <3>4, ViewOfAdd
      <4>2. View(r) = Without(View(book), old) /\ r.rejected = book.rejected
        BY <2>d, <3>4, ViewRemoved
      <4>3. View(book)[old].side = side
        BY <3>4 DEF View, OrderIn, side
      <4>4. Promise!Replace(old, new, px, qty)
        BY <3>4, <4>1, <4>2, <4>3, AsReplace
      <4>5. new \in (Refs \ DOMAIN book.ids) \cup {old}
        <5>1. new \notin DOMAIN r.ids
          BY <3>4, <4>f DEF BookInv, IdsFit, Fresh
        <5>2. DOMAIN r.ids = DOMAIN book.ids \ {old}
          BY <3>4 DEF TakesOut, Without
        <5> QED
          BY <5>1, <5>2
      <4> QED
        BY <3>4, <4>4, <4>5 DEF Promise!Next
    <3> QED
      BY <3>2, <3>3, <3>4
  <2>5. ASSUME NEW side \in Sides, OnQuery(side) PROVE UNCHANGED Promise!vars
    <3>1. /\ book'.orders = book.orders /\ book'.levels = book.levels
          /\ book'.ids = book.ids /\ book'.rejected = book.rejected
      BY <1>2, <2>5, QueryKeeps DEF OnQuery
    <3> QED
      BY <2>s, <3>1, ViewKept
  <2>6. ASSUME Clear PROVE Promise!Next
    <3>1. book.size \in Sizes /\ book.rejected \in Nat /\ book.nextSeq \in Nat
      BY <1>2 DEF BookInv, Sound, PoolsFit, Queues
    <3>2. book' = Emptied(book.size, book.rejected, book.nextSeq)
      BY <2>6 DEF Clear, Emptied
    <3>3. book'.ids = << >> /\ book'.rejected = book.rejected
      BY <3>1, <3>2, EmptyKeeps
    <3>4. DOMAIN << >> = {} /\ \A f : DOMAIN f = {} => << >> = [x \in {} |-> f[x]]
      OBVIOUS
    <3>5. [ref \in DOMAIN book'.ids |-> OrderIn(book', book'.ids[ref])] = << >>
      BY <3>3, <3>4
    <3>6. Promise!Clear
      BY <3>3, <3>5 DEF Promise!Clear
    <3> QED
      BY <3>6 DEF Promise!Next
  <2>7. CASE UNCHANGED book
    BY <2>s, <2>7
  <2> QED
    BY <1>2, <2>1, <2>2, <2>3, <2>4, <2>5, <2>6, <2>7 DEF Next
<1>3. BookInv(book) /\ [Next]_book => [Promise!Next]_(Promise!vars)
  BY <1>2
<1>4. Spec => []BookInv(book)
  BY BookIsSound
<1> QED
  BY <1>1, <1>3, <1>4, PTL DEF Spec, ImplementsBook, Promise!Spec

-----------------------------------------------------------------------------
(* What following next from the head of a list returns. *)
Iterated(D, a, F, k, f) == /\ f \in [0..k -> D] /\ f[0] = a
                           /\ \A n \in 1..k : f[n] = F[f[n - 1]]

LEMMA Iterates ==
    ASSUME NEW D, NEW a \in D, NEW F \in [D -> D], NEW k \in Nat
    PROVE  \E f : Iterated(D, a, F, k, f)
<1> DEFINE T == {n \in Nat : \E f : Iterated(D, a, F, n, f)}
<1>1. 0 \in T
  <2>1. Iterated(D, a, F, 0, [m \in 0..0 |-> a])
    BY DEF Iterated
  <2> QED
    BY <2>1
<1>2. ASSUME NEW n \in Nat, n \in T PROVE n + 1 \in T
  <2>1. PICK f : Iterated(D, a, F, n, f)
    BY <1>2
  <2> DEFINE g == [m \in 0..(n + 1) |-> IF m <= n THEN f[m] ELSE F[f[n]]]
  <2>2. g \in [0..(n + 1) -> D]
    BY <2>1 DEF Iterated
  <2>3. g[0] = a
    BY <2>1 DEF Iterated
  <2>4. ASSUME NEW m \in 1..(n + 1) PROVE g[m] = F[g[m - 1]]
    BY <2>1 DEF Iterated
  <2> HIDE DEF g
  <2>5. Iterated(D, a, F, n + 1, g)
    BY <2>2, <2>3, <2>4 DEF Iterated
  <2> QED
    BY <2>5
<1>3. T = Nat
  <2> HIDE DEF T
  <2>1. T \in SUBSET Nat
    BY DEF T
  <2> QED
    BY <1>1, <1>2, <2>1, SetInduction
<1> QED
  BY <1>3

(* The first entries of a level's list, oldest first. *)
Chain(O, L, li, s) ==
    /\ s \in Seq(OnLevel(O, li))
    /\ Len(s) > 0 => s[1] = L[li].head
    /\ \A i \in 1..Len(s) : i > 1 => O[s[i]].prev = s[i - 1] /\ O[s[i - 1]].next = s[i]
    /\ \A i, j \in 1..Len(s) : i < j => O[s[i]].seq < O[s[j]].seq

After(O, L, li, s) == IF s = << >> THEN L[li].head ELSE O[Seqs!Last(s)].next

Longer(O, L, li, s) ==
    IF After(O, L, li, s) = Nil THEN s ELSE Append(s, After(O, L, li, s))

LEMMA ChainGrows ==
    ASSUME NEW O, NEW L, NEW ns, Queues(O, L, ns), NEW li \in DOMAIN L,
           NEW s, Chain(O, L, li, s)
    PROVE  Chain(O, L, li, Longer(O, L, li, s))
<1> DEFINE x == After(O, L, li, s)
           t == Append(s, x)
           n == Len(s)
<1> SUFFICES ASSUME x # Nil PROVE Chain(O, L, li, t)
  BY DEF Longer
<1>0. /\ s \in Seq(OnLevel(O, li)) /\ n \in Nat /\ \A i \in 1..n : s[i] \in OnLevel(O, li)
      /\ OnLevel(O, li) \subseteq DOMAIN O
      /\ \A i \in OnLevel(O, li) : /\ O[i].level = li /\ O[i].seq \in Nat
                                   /\ NextFits(O, L, i) /\ PrevFits(O, L, i)
      /\ EndsFit(O, L, li)
  BY DEF Chain, OnLevel, Queues, EntryFits, LevelFits, Entry
<1>1. n > 0 => Seqs!Last(s) = s[n] /\ s # << >> /\ s[n] \in OnLevel(O, li)
  BY <1>0 DEF Seqs!Last
<1>2. n = 0 => s = << >>
  BY <1>0
<1>3. x \in OnLevel(O, li) /\ (n = 0 => x = L[li].head) /\ (n > 0 => O[s[n]].next = x /\ O[x].prev = s[n])
  <2>1. CASE n = 0
    BY <1>0, <1>2, <2>1 DEF After, EndsFit
  <2>2. CASE n > 0
    <3>1. x = O[s[n]].next /\ s[n] \in OnLevel(O, li)
      BY <1>1, <2>2 DEF After
    <3> HIDE DEF x, n
    <3>2. x \in DOMAIN O /\ O[x].level = li /\ O[x].prev = s[n]
      BY <1>0, <3>1 DEF NextFits
    <3>3. x \in OnLevel(O, li)
      BY <3>2 DEF OnLevel
    <3> QED
      BY <2>2, <3>1, <3>2, <3>3
  <2> QED
    BY <1>0, <2>1, <2>2
<1>4. n > 0 => O[s[n]].seq < O[x].seq
  <2> SUFFICES ASSUME n > 0 PROVE O[s[n]].seq < O[x].seq
    OBVIOUS
  <2>1. PrevFits(O, L, x) /\ O[x].prev = s[n] /\ s[n] \in Nat
    BY <1>0, <1>1, <1>3 DEF Queues
  <2> QED
    BY <2>1 DEF PrevFits, Nil
<1> HIDE DEF x
<1>5. /\ t \in Seq(OnLevel(O, li)) /\ Len(t) = n + 1
      /\ \A i \in 1..n : t[i] = s[i]
      /\ t[n + 1] = x
  BY <1>0, <1>3
<1> HIDE DEF t, n
<1>6. t[1] = L[li].head
  BY <1>0, <1>3, <1>5 DEF Chain, n
<1>7. ASSUME NEW i \in 1..Len(t), i > 1
      PROVE  O[t[i]].prev = t[i - 1] /\ O[t[i - 1]].next = t[i]
  <2>1. CASE i = n + 1
    BY <1>0, <1>3, <1>5, <1>7, <2>1
  <2>2. CASE i <= n
    BY <1>0, <1>5, <1>7, <2>2 DEF Chain, n
  <2> QED
    BY <1>0, <1>5, <2>1, <2>2
<1>8. ASSUME NEW i \in 1..Len(t), NEW j \in 1..Len(t), i < j PROVE O[t[i]].seq < O[t[j]].seq
  <2>1. CASE j <= n
    <3>1. i \in 1..n /\ j \in 1..n
      BY <1>0, <1>5, <1>8, <2>1
    <3> QED
      BY <1>0, <1>5, <1>8, <3>1 DEF Chain, n
  <2>2. CASE j = n + 1
    <3>1. i \in 1..n /\ n \in 1..n /\ n > 0
      BY <1>0, <1>5, <1>8, <2>2
    <3>2. i = n \/ O[s[i]].seq < O[s[n]].seq
      BY <1>0, <3>1 DEF Chain, n
    <3>3. O[s[i]].seq \in Nat /\ O[s[n]].seq \in Nat /\ O[x].seq \in Nat
      BY <1>0, <1>3, <3>1
    <3> QED
      BY <1>4, <1>5, <2>2, <3>1, <3>2, <3>3
  <2> QED
    BY <1>0, <1>5, <2>1, <2>2
<1> QED
  BY <1>5, <1>6, <1>7, <1>8 DEF Chain

(* The entries of a list. *)
Listed(s) == {s[i] : i \in 1..Len(s)}

(* A list has no more entries than its level. *)
LEMMA ChainFits ==
    ASSUME NEW O, NEW L, NEW ns, Queues(O, L, ns), NEW li, NEW s, Chain(O, L, li, s)
    PROVE  /\ Len(s) <= Cardinality(OnLevel(O, li))
           /\ \A i, j \in 1..Len(s) : s[i] = s[j] => i = j
           /\ Len(s) = Cardinality(Listed(s))
<1>0. /\ s \in Seq(OnLevel(O, li)) /\ Len(s) \in Nat
      /\ \A i \in OnLevel(O, li) : O[i].seq \in Nat
      /\ IsFiniteSet(OnLevel(O, li))
  <2>1. IsFiniteSet(OnLevel(O, li))
    BY LevelCounts
  <2>2. \A i \in OnLevel(O, li) : i \in DOMAIN O
    BY DEF OnLevel
  <2>3. \A i \in DOMAIN O : O[i].seq \in Nat
    BY DEF Queues, EntryFits, Entry
  <2> QED
    BY <2>1, <2>2, <2>3 DEF Chain
<1>1. \A i, j \in 1..Len(s) : s[i] = s[j] => i = j
  BY <1>0 DEF Chain
<1>2. IsFiniteSet(1..Len(s)) /\ Cardinality(1..Len(s)) = Len(s)
  <2>1. PICK l : l = Len(s)
    OBVIOUS
  <2>2. 1 \in Int /\ l \in Int /\ l \in Nat
    BY <1>0, <2>1
  <2>3. IsFiniteSet(1..l) /\ Cardinality(1..l) = IF 1 > l THEN 0 ELSE l - 1 + 1
    BY <2>2, FS_Interval
  <2>4. (IF 1 > l THEN 0 ELSE l - 1 + 1) = l
    BY <2>2
  <2> QED
    BY <2>1, <2>3, <2>4
<1>3. Cardinality(Moved(s, 1..Len(s))) = Cardinality(1..Len(s))
  BY <1>1, <1>2, SizeMoved
<1>4. Cardinality(Listed(s)) = Len(s)
  BY <1>2, <1>3 DEF Moved, Listed
<1>5. Listed(s) \in SUBSET OnLevel(O, li)
  BY <1>0 DEF Listed
<1>6. Cardinality(Listed(s)) <= Cardinality(OnLevel(O, li))
  BY <1>0, <1>5, FS_Subset
<1> QED
  BY <1>1, <1>4, <1>6

(* A list that goes no further holds every entry of its level. *)
LEMMA ChainIsAll ==
    ASSUME NEW O, NEW L, NEW ns, Queues(O, L, ns), NEW li \in DOMAIN L,
           NEW s, Chain(O, L, li, s), Longer(O, L, li, s) = s
    PROVE  /\ Listed(s) = OnLevel(O, li)
           /\ After(O, L, li, s) = Nil
<1> DEFINE R == {s[i] : i \in 1..Len(s)}
           S == OnLevel(O, li) \ R
           T == {n \in Nat : \E k \in S : O[k].seq = n}
           x == After(O, L, li, s)
<1>0. /\ s \in Seq(OnLevel(O, li)) /\ Len(s) \in Nat
      /\ \A i \in 1..Len(s) : s[i] \in OnLevel(O, li)
      /\ \A i \in OnLevel(O, li) : /\ i \in DOMAIN O /\ O[i].level = li /\ O[i].seq \in Nat
                                   /\ PrevFits(O, L, i) /\ i # Nil
      /\ EndsFit(O, L, li)
  BY DEF Chain, OnLevel, Queues, EntryFits, LevelFits, Entry, Nil
<1>1. x = Nil
  <2> SUFFICES ASSUME x # Nil PROVE FALSE
    OBVIOUS
  <2>1. Append(s, x) = s
    BY DEF Longer
  <2>2. Len(Append(s, x)) = Len(s) + 1
    BY <1>0
  <2> QED
    BY <1>0, <2>1, <2>2
<1>2. /\ Len(s) = 0 => L[li].head = Nil
      /\ Len(s) > 0 => O[s[Len(s)]].next = Nil
  <2>1. Len(s) = 0 <=> s = << >>
    BY <1>0
  <2>2. Len(s) > 0 => Seqs!Last(s) = s[Len(s)]
    BY DEF Seqs!Last
  <2> QED
    BY <1>0, <1>1, <2>1, <2>2 DEF After
<1>3. S = {}
  <2> SUFFICES ASSUME NEW j \in S PROVE FALSE
    OBVIOUS
  <2>1. O[j].seq \in T
    BY <1>0
  <2>2. PICK n \in T : \A m \in T : n <= m
    BY <2>1, LeastNat
  <2>3. PICK k \in S : O[k].seq = n
    BY <2>2
  <2>4. k \in OnLevel(O, li) /\ PrevFits(O, L, k) /\ O[k].level = li /\ k # Nil /\ k \notin R
    BY <1>0
  <2>5. CASE O[k].prev = Nil
    <3>1. L[li].head = k
      BY <2>4, <2>5 DEF PrevFits
    <3>2. Len(s) > 0
      BY <1>0, <1>2, <2>4, <3>1
    <3>3. s[1] = k /\ 1 \in 1..Len(s)
      BY <1>0, <3>1, <3>2 DEF Chain
    <3> QED
      BY <2>4, <3>3
  <2>6. CASE O[k].prev # Nil
    <3> DEFINE p == O[k].prev
    <3>1. p \in OnLevel(O, li) /\ O[p].next = k /\ O[p].seq < n
      BY <2>3, <2>4, <2>6 DEF PrevFits, OnLevel
    <3>2. p \in R
      <4>1. p \notin S
        BY <1>0, <2>2, <3>1
      <4> QED
        BY <3>1, <4>1
    <3> HIDE DEF p
    <3>3. PICK i \in 1..Len(s) : s[i] = p
      BY <3>2
    <3>4. i # Len(s)
      BY <1>0, <1>2, <2>4, <3>1, <3>3
    <3>5. i + 1 \in 1..Len(s) /\ i + 1 > 1 /\ (i + 1) - 1 = i
      BY <1>0, <3>3, <3>4
    <3>6. O[s[i]].next = s[i + 1]
      BY <3>5 DEF Chain
    <3>7. k \in R
      BY <3>1, <3>3, <3>5, <3>6
    <3> QED
      BY <2>4, <3>7
  <2> QED
    BY <2>5, <2>6
<1>4. R \subseteq OnLevel(O, li)
  BY <1>0
<1> QED
  BY <1>1, <1>3, <1>4 DEF Listed

Steps(O, L, li, k, f) ==
    f = [n \in 0..k |->
           IF n = 0 THEN << >>
           ELSE LET oi == IF f[n - 1] = << >> THEN L[li].head
                          ELSE O[Seqs!Last(f[n - 1])].next IN
                IF oi = Nil THEN f[n - 1] ELSE Append(f[n - 1], oi)]

(* The entries Walk meets, one by one, are those of the level's list in its order. *)
LEMMA WalkSteps ==
    ASSUME NEW pool, NEW ns, Queues(pool.orders, pool.levels, ns), NEW li \in DOMAIN pool.levels,
           NEW k \in Nat
    PROVE  \E f : /\ Steps(pool.orders, pool.levels, li, k, f) /\ Walk(pool, li, k) = f[k]
                 /\ \A n \in 0..k :
                      /\ Chain(pool.orders, pool.levels, li, f[n])
                      /\ \/ Len(f[n]) = n
                         \/ Longer(pool.orders, pool.levels, li, f[n]) = f[n]
<1> DEFINE O == pool.orders
           L == pool.levels
           D == {s \in Seq(OnLevel(O, li)) : Chain(O, L, li, s)}
           F == [s \in D |-> Longer(O, L, li, s)]
           f == CHOOSE f : Steps(O, L, li, k, f)
<1>1. << >> \in D
  BY DEF Chain
<1>2. F \in [D -> D]
  <2>1. \A s \in D : Longer(O, L, li, s) \in D
    BY ChainGrows DEF Chain
  <2> QED
    BY <2>1
<1>3. \A g, n : n \in 1..k => Longer(O, L, li, g[n - 1]) =
            LET oi == IF g[n - 1] = << >> THEN L[li].head
                      ELSE O[Seqs!Last(g[n - 1])].next IN
            IF oi = Nil THEN g[n - 1] ELSE Append(g[n - 1], oi)
  BY DEF Longer, After
<1>4. \E g : Steps(O, L, li, k, g)
  <2>1. PICK g : Iterated(D, << >>, F, k, g)
    <3> HIDE DEF D, F
    <3> QED
      BY <1>1, <1>2, Iterates
  <2>2. ASSUME NEW n \in 0..k
        PROVE  g[n] = IF n = 0 THEN << >> ELSE Longer(O, L, li, g[n - 1])
    <3>1. CASE n = 0
      BY <2>1, <3>1 DEF Iterated
    <3>2. CASE n # 0
      <4>1. n \in 1..k /\ n - 1 \in 0..k
        BY <3>2
      <4>2. g[n - 1] \in D /\ g[n] = F[g[n - 1]]
        BY <2>1, <4>1 DEF Iterated
      <4> QED
        BY <3>2, <4>2
    <3> QED
      BY <3>1, <3>2
  <2>3. g = [n \in 0..k |-> IF n = 0 THEN << >> ELSE Longer(O, L, li, g[n - 1])]
    <3> HIDE DEF D
    <3> QED
      BY <2>1, <2>2 DEF Iterated
  <2>4. Steps(O, L, li, k, g)
    BY <2>3 DEF Steps, Longer, After
  <2> QED
    BY <2>4
<1>5. Steps(O, L, li, k, f)
  BY <1>4
<1>6. Walk(pool, li, k) = f[k]
  BY Zenon DEF Walk, Steps
<1> HIDE DEF f, D, F
<1>7. f[0] = << >> /\ \A n \in 1..k : f[n] = Longer(O, L, li, f[n - 1])
  <2>1. f = [n \in 0..k |-> IF n = 0 THEN << >> ELSE Longer(O, L, li, f[n - 1])]
    BY <1>5 DEF Steps, Longer, After
  <2> HIDE DEF O, L
  <2>2. 0 \in 0..k /\ \A n \in 1..k : n \in 0..k /\ n # 0
    OBVIOUS
  <2>3. \A n \in 0..k : f[n] = IF n = 0 THEN << >> ELSE Longer(O, L, li, f[n - 1])
    BY <2>1
  <2> QED
    BY <2>2, <2>3
<1> DEFINE T == {n \in Nat : n <= k =>
                    /\ Chain(O, L, li, f[n])
                    /\ Len(f[n]) = n \/ Longer(O, L, li, f[n]) = f[n]}
<1>8. T = Nat
  <2>1. 0 \in T
    BY <1>1, <1>7 DEF D
  <2>2. ASSUME NEW n \in Nat, n \in T PROVE n + 1 \in T
    <3> SUFFICES ASSUME n + 1 <= k
                 PROVE  /\ Chain(O, L, li, f[n + 1])
                        /\ Len(f[n + 1]) = n + 1 \/ Longer(O, L, li, f[n + 1]) = f[n + 1]
      OBVIOUS
    <3>1. n + 1 \in 1..k /\ (n + 1) - 1 = n /\ n <= k
      OBVIOUS
    <3>2. Chain(O, L, li, f[n]) /\ (Len(f[n]) = n \/ Longer(O, L, li, f[n]) = f[n])
      BY <2>2, <3>1
    <3>3. f[n + 1] = Longer(O, L, li, f[n])
      BY <1>7, <3>1
    <3>4. Chain(O, L, li, f[n + 1])
      BY <3>2, <3>3, ChainGrows
    <3>5. CASE Longer(O, L, li, f[n]) = f[n]
      BY <3>3, <3>4, <3>5
    <3>6. CASE Longer(O, L, li, f[n]) # f[n] /\ Len(f[n]) = n
      <4>1. f[n + 1] = Append(f[n], After(O, L, li, f[n]))
        BY <3>3, <3>6 DEF Longer
      <4>2. Len(f[n + 1]) = n + 1
        BY <3>2, <3>6, <4>1 DEF Chain
      <4> QED
        BY <3>4, <4>2
    <3> QED
      BY <3>2, <3>5, <3>6
  <2> HIDE DEF T
  <2>3. T \in SUBSET Nat
    BY DEF T
  <2> QED
    BY <2>1, <2>2, <2>3, SetInduction
<1>9. \A n \in 0..k :
          Chain(O, L, li, f[n]) /\ (Len(f[n]) = n \/ Longer(O, L, li, f[n]) = f[n])
  BY <1>8
<1> QED
  BY <1>5, <1>6, <1>9

(* Walk, with room for every entry of the level, is its list. *)
LEMMA WalkIsChain ==
    ASSUME NEW pool, NEW ns, Queues(pool.orders, pool.levels, ns), NEW li \in DOMAIN pool.levels,
           NEW k \in Nat, Cardinality(OnLevel(pool.orders, li)) <= k
    PROVE  LET s == Walk(pool, li, k) IN
           /\ Chain(pool.orders, pool.levels, li, s)
           /\ Longer(pool.orders, pool.levels, li, s) = s
<1>1. PICK f : /\ Steps(pool.orders, pool.levels, li, k, f) /\ Walk(pool, li, k) = f[k]
               /\ \A n \in 0..k :
                    /\ Chain(pool.orders, pool.levels, li, f[n])
                    /\ \/ Len(f[n]) = n
                       \/ Longer(pool.orders, pool.levels, li, f[n]) = f[n]
  BY WalkSteps
<1>2. PICK O, L : O = pool.orders /\ L = pool.levels
  OBVIOUS
<1>3. PICK s : s = f[k]
  OBVIOUS
<1>4. Chain(O, L, li, s) /\ (Len(s) = k \/ Longer(O, L, li, s) = s)
  <2>1. k \in 0..k
    OBVIOUS
  <2>2. /\ Chain(pool.orders, pool.levels, li, f[k])
        /\ \/ Len(f[k]) = k
           \/ Longer(pool.orders, pool.levels, li, f[k]) = f[k]
    BY <1>1, <2>1
  <2> QED
    BY <1>2, <1>3, <2>2
<1>5. Longer(O, L, li, s) = s
  <2> SUFFICES ASSUME Longer(O, L, li, s) # s PROVE FALSE
    OBVIOUS
  <2>1. Queues(O, L, ns) /\ li \in DOMAIN L /\ Cardinality(OnLevel(O, li)) <= k
    BY <1>2
  <2>2. PICK t : t = Longer(O, L, li, s)
    OBVIOUS
  <2>3. Chain(O, L, li, t)
    BY <1>4, <2>1, <2>2, ChainGrows
  <2>4. Len(t) = k + 1
    BY <1>4, <2>2 DEF Longer, Chain
  <2>5. Len(t) <= Cardinality(OnLevel(O, li))
    BY <2>1, <2>3, ChainFits
  <2>6. Cardinality(OnLevel(O, li)) \in Nat
    BY <2>1, LevelCounts, FS_CardinalityType
  <2> QED
    BY <2>1, <2>4, <2>5, <2>6
<1> QED
  BY <1>1, <1>2, <1>3, <1>4, <1>5

(* The list of a level, for a pool whose levels in use all have orders. *)
LEMMA ListOf ==
    ASSUME NEW pool, NEW ns, Queues(pool.orders, pool.levels, ns), NEW li \in DOMAIN pool.levels,
           NEW s, s = Walk(pool, li, Cardinality(DOMAIN pool.orders)),
           OnLevel(pool.orders, li) # {}
    PROVE  /\ Chain(pool.orders, pool.levels, li, s)
           /\ Listed(s) = OnLevel(pool.orders, li)
           /\ Len(s) = Cardinality(OnLevel(pool.orders, li)) /\ Len(s) \in Nat \ {0}
           /\ Seqs!Last(s) = s[Len(s)] /\ pool.orders[s[Len(s)]].next = Nil
<1> DEFINE O == pool.orders
           L == pool.levels
<1>1. /\ Cardinality(DOMAIN O) \in Nat /\ Cardinality(OnLevel(O, li)) <= Cardinality(DOMAIN O)
      /\ Cardinality(OnLevel(O, li)) \in Nat /\ Cardinality(OnLevel(O, li)) # 0
  <2>1. IsFiniteSet(DOMAIN O) /\ OnLevel(O, li) \in SUBSET DOMAIN O
    BY DEF Queues, OnLevel
  <2> QED
    BY <2>1, FS_Subset, FS_CardinalityType, FS_EmptySet
<1>2. Chain(O, L, li, s) /\ Longer(O, L, li, s) = s
  BY <1>1, WalkIsChain
<1>3. /\ Listed(s) = OnLevel(O, li) /\ After(O, L, li, s) = Nil
  BY <1>2, ChainIsAll
<1>4. Len(s) = Cardinality(Listed(s))
  BY <1>2, ChainFits
<1>5. Len(s) \in Nat \ {0} /\ s # << >>
  BY <1>1, <1>2, <1>3, <1>4 DEF Chain
<1>6. Seqs!Last(s) = s[Len(s)] /\ O[s[Len(s)]].next = Nil
  BY <1>3, <1>5 DEF After, Seqs!Last
<1> QED
  BY <1>2, <1>3, <1>4, <1>5, <1>6

LEMMA ListsFollow ==
    ASSUME NEW pool, NEW ns, Queues(pool.orders, pool.levels, ns),
           \A li \in DOMAIN pool.levels : OnLevel(pool.orders, li) # {}
    PROVE  ListsAreSound(pool)
<1> SUFFICES ASSUME NEW li \in DOMAIN pool.levels
             PROVE  LET L == pool.levels[li]
                        list == Walk(pool, li, Cardinality(DOMAIN pool.orders)) IN
                    /\ Seqs!ToSet(list) = Resting(pool, li) /\ Len(list) = L.orders /\ L.orders > 0
                    /\ L.tail = Seqs!Last(list)
                    /\ \A i \in DOMAIN list :
                          /\ pool.orders[list[i]].prev = IF i = 1 THEN Nil ELSE list[i - 1]
                          /\ pool.orders[list[i]].next = IF i = Len(list) THEN Nil ELSE list[i + 1]
                    /\ L.qty = MapThenSumSet(LAMBDA oi : pool.orders[oi].qty, Resting(pool, li))
  BY DEF ListsAreSound
<1> DEFINE O == pool.orders
           L == pool.levels
           s == Walk(pool, li, Cardinality(DOMAIN O))
<1>1. /\ Chain(O, L, li, s) /\ Listed(s) = OnLevel(O, li)
      /\ Len(s) = Cardinality(OnLevel(O, li)) /\ Len(s) \in Nat \ {0}
      /\ Seqs!Last(s) = s[Len(s)] /\ O[s[Len(s)]].next = Nil
  BY ListOf
<1> HIDE DEF s
<1>2. Resting(pool, li) = OnLevel(O, li)
  BY DEF Resting, OnLevel
<1>3. /\ L[li].qty = SumOf(O, OnLevel(O, li)) /\ L[li].orders = Cardinality(OnLevel(O, li))
      /\ EndsFit(O, L, li) /\ s \in Seq(OnLevel(O, li)) /\ DOMAIN s = 1..Len(s)
  BY <1>1 DEF Queues, LevelFits, TotalsFit, Chain
<1>4. \A i \in 1..Len(s) : s[i] \in OnLevel(O, li)
  BY <1>1 DEF Listed
<1>5. L[li].tail = s[Len(s)]
  <2>1. Len(s) \in 1..Len(s)
    BY <1>1
  <2>2. s[Len(s)] \in DOMAIN O /\ O[s[Len(s)]].level = li
    BY <1>4, <2>1 DEF OnLevel
  <2>3. NextFits(O, L, s[Len(s)])
    BY <2>2 DEF Queues, EntryFits
  <2> QED
    BY <1>1, <2>2, <2>3 DEF NextFits
<1>6. O[s[1]].prev = Nil
  <2>1. s[1] = L[li].head /\ s[1] \in OnLevel(O, li)
    BY <1>1, <1>4 DEF Chain
  <2>2. s[1] # Nil
    BY <2>1 DEF Nil, Queues, OnLevel
  <2> QED
    BY <1>3, <2>1, <2>2 DEF EndsFit
<1>7. ASSUME NEW i \in 1..Len(s)
      PROVE  /\ O[s[i]].prev = IF i = 1 THEN Nil ELSE s[i - 1]
             /\ O[s[i]].next = IF i = Len(s) THEN Nil ELSE s[i + 1]
  <2>1. i > 1 => O[s[i]].prev = s[i - 1]
    BY <1>1 DEF Chain
  <2>2. i < Len(s) => O[s[i]].next = s[i + 1]
    <3> SUFFICES ASSUME i < Len(s) PROVE O[s[i]].next = s[i + 1]
      OBVIOUS
    <3>1. i + 1 \in 1..Len(s) /\ i + 1 > 1 /\ (i + 1) - 1 = i
      BY <1>1
    <3> QED
      BY <1>1, <3>1 DEF Chain
  <2> QED
    BY <1>1, <1>6, <2>1, <2>2
<1>8. Seqs!ToSet(s) = OnLevel(O, li)
  BY <1>1, <1>3 DEF Seqs!ToSet, Listed
<1>9. L[li].orders > 0
  BY <1>1, <1>3
<1>10. L[li].qty = MapThenSumSet(LAMBDA oi : pool.orders[oi].qty, Resting(pool, li))
  BY <1>2, <1>3 DEF SumOf
<1> QED
  BY <1>1, <1>2, <1>3, <1>5, <1>7, <1>8, <1>9, <1>10 DEF s

(* After any sequence of events, in a book of any size, each level is a well-formed list of *)
(* exactly its orders, linked both ways from head to tail, and its totals are a recount of  *)
(* them: link and unlink of hybrid_book.hpp, over pools whose entries are handed out again. *)
THEOREM ListsStaySound ==
    ASSUME HybridConstants
    PROVE  Spec => []ListsSound
<1>1. BookInv(book) => ListsSound
  BY ListsFollow DEF BookInv, Sound, ListsSound
<1>2. Spec => []BookInv(book)
  BY BookIsSound
<1> QED
  BY <1>1, <1>2, PTL

-----------------------------------------------------------------------------
(* Queue position.                                                *)
(* A sum over the places of a list is the sum over what is there. *)
SumAt(O, s, m) == MapThenSumSet(LAMBDA i : O[s[i]].qty, 1..m)

LEMMA SumAlong ==
    ASSUME NEW O, NEW s, NEW m \in Nat, \A i \in 1..m : O[s[i]].qty \in Nat,
           \A i, j \in 1..m : s[i] = s[j] => i = j
    PROVE  SumAt(O, s, m) = SumOf(O, {s[i] : i \in 1..m})
<1> DEFINE w == [i \in 1..m |-> O[s[i]]]
           f == CHOOSE f : f = [z \in SUBSET (1..m) |->
                     IF z = {} THEN 0 ELSE O[s[Choice(z)]].qty + f[z \ {Choice(z)}]]
<1>0. IsFiniteSet(1..m) /\ Counts(w, 1..m)
  <2>1. IsFiniteSet(1..m)
    BY FS_Interval
  <2> QED
    BY <2>1 DEF Counts
<1>1. PICK g : Folds(w, 1..m, g) /\ SumOf(w, 1..m) = g[1..m]
  BY <1>0, SumIsFold
<1>2. \A z \in SUBSET (1..m) : z # {} => w[Choice(z)] = O[s[Choice(z)]]
  BY ChoiceIn
<1>3. g = [z \in SUBSET (1..m) |->
              IF z = {} THEN 0 ELSE O[s[Choice(z)]].qty + g[z \ {Choice(z)}]]
  <2> HIDE DEF w
  <2>1. g = [z \in SUBSET (1..m) |->
              IF z = {} THEN 0 ELSE w[Choice(z)].qty + g[z \ {Choice(z)}]]
    BY <1>1 DEF Folds
  <2> QED
    BY <1>2, <2>1
<1>4. f = [z \in SUBSET (1..m) |->
              IF z = {} THEN 0 ELSE O[s[Choice(z)]].qty + f[z \ {Choice(z)}]]
  BY <1>3
<1>5. Folds(w, 1..m, f)
  <2> HIDE DEF w, f
  <2>1. f = [z \in SUBSET (1..m) |->
              IF z = {} THEN 0 ELSE w[Choice(z)].qty + f[z \ {Choice(z)}]]
    BY <1>2, <1>4
  <2> QED
    BY <2>1 DEF Folds
<1>6. SumAt(O, s, m) = f[1..m]
  BY Zenon DEF SumAt, MapThenSumSet, MapThenFoldSet, Choice
<1> HIDE DEF f
<1>7. f[1..m] = SumOf(w, 1..m)
  BY <1>0, <1>1, <1>5, FoldsAgree
<1>8. SumOf(O, Moved(s, 1..m)) = SumOf(w, 1..m)
  <2>1. \A i \in 1..m : O[s[i]].qty = w[i].qty
    OBVIOUS
  <2> HIDE DEF w
  <2>2. PICK S : S = 1..m
    OBVIOUS
  <2>3. \A x \in S : O[s[x]].qty = w[x].qty
    BY <2>1, <2>2
  <2>4. Counts(w, S) /\ \A x, y \in S : s[x] = s[y] => x = y
    BY <1>0, <2>2
  <2>5. SumOf(O, Moved(s, S)) = SumOf(w, S)
    BY <2>3, <2>4, SumMoved
  <2> QED
    BY <2>2, <2>5
<1> QED
  BY <1>6, <1>7, <1>8 DEF Moved

(* The entries of a level with a stamp below n. *)
Ahead(O, li, n) == {i \in OnLevel(O, li) : O[i].seq < n}

(* The entries before one in its list are those with a lower stamp. *)
LEMMA AheadInList ==
    ASSUME NEW O, NEW L, NEW ns, Queues(O, L, ns), NEW li, NEW s, Chain(O, L, li, s),
           Listed(s) = OnLevel(O, li), NEW mine \in 1..Len(s)
    PROVE  SumAt(O, s, mine - 1) = SumOf(O, Ahead(O, li, O[s[mine]].seq))
<1> DEFINE R == {s[i] : i \in 1..(mine - 1)}
<1>1. \A i \in DOMAIN O : O[i].qty \in Nat /\ O[i].seq \in Nat
  BY DEF Queues, EntryFits, Entry
<1>2. Len(s) \in Nat
  BY DEF Chain
<1>3. \A i, j \in 1..Len(s) : s[i] = s[j] => i = j
  BY ChainFits
<1>4. \A i, j \in 1..Len(s) : i < j => O[s[i]].seq < O[s[j]].seq
  BY DEF Chain
<1>5. \A i \in 1..Len(s) : s[i] \in OnLevel(O, li)
  BY DEF Listed
<1>6. \A i \in 1..Len(s) : s[i] \in DOMAIN O /\ O[s[i]].seq \in Nat /\ O[s[i]].qty \in Nat
  BY <1>1, <1>5 DEF OnLevel
<1>7. R = Ahead(O, li, O[s[mine]].seq)
  <2>1. ASSUME NEW i \in 1..(mine - 1)
        PROVE  s[i] \in OnLevel(O, li) /\ O[s[i]].seq < O[s[mine]].seq
    <3>1. i \in 1..Len(s) /\ i < mine
      BY <1>2
    <3> QED
      BY <1>4, <1>5, <3>1
  <2>2. ASSUME NEW x \in OnLevel(O, li), O[x].seq < O[s[mine]].seq PROVE x \in R
    <3>1. PICK i \in 1..Len(s) : s[i] = x
      BY DEF Listed
    <3>2. O[x].seq \in Nat /\ O[s[mine]].seq \in Nat
      BY <1>6, <3>1
    <3>3. ~(mine < i)
      BY <1>4, <2>2, <3>1, <3>2
    <3>4. i # mine
      BY <2>2, <3>1, <3>2
    <3>5. i \in 1..(mine - 1)
      BY <1>2, <3>1, <3>3, <3>4
    <3> QED
      BY <3>1, <3>5
  <2> QED
    BY <2>1, <2>2 DEF Ahead
<1>8. PICK m \in Nat : m = mine - 1
  BY <1>2
<1>9. \A i \in 1..m : i \in 1..Len(s)
  BY <1>2, <1>8
<1>10. \A i \in 1..m : O[s[i]].qty \in Nat
  BY <1>6, <1>9
<1>11. \A i, j \in 1..m : s[i] = s[j] => i = j
  BY <1>3, <1>9
<1>12. SumAt(O, s, m) = SumOf(O, {s[i] : i \in 1..m})
  BY <1>10, <1>11, SumAlong
<1> QED
  BY <1>7, <1>8, <1>12

LEMMA AheadIsOlder ==
    ASSUME NEW b, BookInv(b), NEW ref \in DOMAIN b.ids
    PROVE  LET o == b.orders[b.ids[ref]] IN
           SharesAheadOf(b, ref) =
           MapThenSumSet(LAMBDA oi : b.orders[oi].qty,
                         {oi \in Resting(b, o.level) : b.orders[oi].seq < o.seq})
<1>1. PICK oi, li, s : /\ oi = b.ids[ref] /\ li = b.orders[oi].level
                       /\ s = Walk(b, li, Cardinality(DOMAIN b.orders))
  OBVIOUS
<1>2. /\ oi \in DOMAIN b.orders /\ oi \in OnLevel(b.orders, li) /\ li \in DOMAIN b.levels
      /\ Queues(b.orders, b.levels, b.nextSeq)
  BY <1>1 DEF BookInv, Sound, IdsFit, Queues, EntryFits, OnLevel
<1>3. OnLevel(b.orders, li) # {}
  BY <1>2
<1>4. /\ Chain(b.orders, b.levels, li, s) /\ Listed(s) = OnLevel(b.orders, li)
  BY <1>1, <1>2, <1>3, ListOf
<1>5. DOMAIN s = 1..Len(s)
  BY <1>4 DEF Chain
<1> DEFINE mine == CHOOSE i \in DOMAIN s : s[i] = oi
<1>6. mine \in 1..Len(s) /\ s[mine] = oi
  <2>1. \E i \in DOMAIN s : s[i] = oi
    BY <1>2, <1>4, <1>5 DEF Listed
  <2> QED
    BY <1>5, <2>1
<1>7. SharesAheadOf(b, ref) = SumAt(b.orders, s, mine - 1)
  BY <1>1 DEF SharesAheadOf, SumAt
<1> HIDE DEF mine
<1>8. SumAt(b.orders, s, mine - 1) = SumOf(b.orders, Ahead(b.orders, li, b.orders[s[mine]].seq))
  BY <1>2, <1>4, <1>6, AheadInList
<1>9. Resting(b, li) = OnLevel(b.orders, li)
  BY DEF Resting, OnLevel
<1>10. SharesAheadOf(b, ref) =
       SumOf(b.orders, {i \in Resting(b, li) : b.orders[i].seq < b.orders[oi].seq})
  BY <1>6, <1>7, <1>8, <1>9 DEF Ahead
<1> QED
  BY <1>1, <1>10 DEF SumOf

(* The comment on seq in hybrid_book.hpp, for every book: the shares ahead of an order, as the   *)
(* walk of shares_ahead_of counts them from the head of its level, are those of the orders there *)
(* with a lower stamp, so that one comparison of stamps tells who is served first.               *)
THEOREM StampsStayQueueOrder ==
    ASSUME HybridConstants
    PROVE  Spec => []StampsAreQueueOrder
<1>1. BookInv(book) => StampsAreQueueOrder
  BY AheadIsOlder DEF StampsAreQueueOrder
<1>2. Spec => []BookInv(book)
  BY BookIsSound
<1> QED
  BY <1>1, <1>2, PTL

-----------------------------------------------------------------------------
(* The snapshot's prices: what collect merges is what ranks first. *)
LEMMA BetterFacts ==
    ASSUME NEW side
    PROVE  /\ \A p, q \in Int : p = q \/ Promise!Better(side, p, q) \/ Promise!Better(side, q, p)
           /\ \A p \in Int : ~Promise!Better(side, p, p)
           /\ \A p, q \in Int : Promise!Better(side, p, q) => ~Promise!Better(side, q, p)
           /\ \A p, q, r \in Int : Promise!Better(side, p, q) /\ Promise!Better(side, q, r)
                                     => Promise!Better(side, p, r)
           /\ \A p, q : Window!Better(side, p, q) <=> Promise!Better(side, p, q)
  BY DEF Promise!Better, Window!Better

LEMMA PromiseCardinality == \A S : Promise!Cardinality(S) = Cardinality(S)
  BY Zenon DEF Promise!Cardinality, Cardinality, Promise!IsFiniteSet, IsFiniteSet

LEMMA PromiseMin ==
    ASSUME NEW x \in Int, NEW y \in Int
    PROVE  Promise!Min({x, y}) = IF x <= y THEN x ELSE y
<1>1. PICK m \in {x, y} : m = IF x <= y THEN x ELSE y
  OBVIOUS
<1>2. \A z \in {x, y} : m <= z
  BY <1>1
<1>3. \A k \in {x, y} : (\A z \in {x, y} : k <= z) => k = m
  BY <1>2
<1> QED
  BY <1>1, <1>2, <1>3 DEF Promise!Min

(* The prices of ps that rank before p. *)
Before(side, ps, p) == {q \in ps : Promise!Better(side, q, p)}

LEMMA SizeOfList ==
    ASSUME NEW s, NEW n \in Nat, \A i, j \in 1..n : s[i] = s[j] => i = j
    PROVE  IsFiniteSet(Moved(s, 1..n)) /\ Cardinality(Moved(s, 1..n)) = n
<1>1. IsFiniteSet(1..n) /\ Cardinality(1..n) = n
  BY FS_Interval
<1> QED
  BY <1>1, SizeMoved

LEMMA RankedIs ==
    ASSUME NEW side, NEW ps \in SUBSET Int, IsFiniteSet(ps), Depth \in Nat \ {0},
           NEW s \in Seq(ps),
           \A i, j \in 1..Len(s) : i < j => Promise!Better(side, s[i], s[j]),
           \A i \in 1..Len(s) : \A q \in ps \ Listed(s) : Promise!Better(side, s[i], q),
           Len(s) <= Depth, Len(s) = Depth \/ Listed(s) = ps
    PROVE  s = Promise!Ranked(side, ps)
<1>1. Len(s) \in Nat /\ \A i \in 1..Len(s) : s[i] \in ps /\ s[i] \in Int
  <2>1. Len(s) \in Nat
    OBVIOUS
  <2>2. \A i \in 1..Len(s) : s[i] \in ps
    OBVIOUS
  <2> QED
    BY <2>1, <2>2
<1>2. \A i, j \in 1..Len(s) : s[i] = s[j] => i = j
  <2> SUFFICES ASSUME NEW i \in 1..Len(s), NEW j \in 1..Len(s), s[i] = s[j], i < j PROVE FALSE
    BY <1>1
  <2>1. Promise!Better(side, s[i], s[i])
    OBVIOUS
  <2> QED
    BY <1>1, <2>1, BetterFacts
<1>3. ASSUME NEW i \in 1..Len(s)
      PROVE  /\ IsFiniteSet(Before(side, ps, s[i]))
             /\ Cardinality(Before(side, ps, s[i])) = i - 1
  <2> DEFINE R == {s[j] : j \in 1..(i - 1)}
  <2>1. \A j \in 1..(i - 1) : j \in 1..Len(s) /\ j < i
    BY <1>1
  <2>2. R \subseteq Before(side, ps, s[i])
    BY <1>1, <2>1 DEF Before
  <2>3. ASSUME NEW q \in ps, Promise!Better(side, q, s[i]) PROVE q \in R
    <3>1. q \in Int /\ s[i] \in Int
      BY <1>1
    <3>2. q \in Listed(s)
      BY <2>3, <3>1, BetterFacts
    <3>3. PICK j \in 1..Len(s) : q = s[j]
      BY <3>2 DEF Listed
    <3>4. ~(i < j) /\ i # j
      BY <2>3, <3>1, <3>3, BetterFacts
    <3>5. j \in 1..(i - 1)
      BY <1>1, <3>4
    <3> QED
      BY <3>3, <3>5
  <2>4. R = Before(side, ps, s[i])
    BY <2>2, <2>3 DEF Before
  <2>5. PICK n \in Nat : n = i - 1
    BY <1>1
  <2>6. \A j, k \in 1..n : s[j] = s[k] => j = k
    BY <1>2, <2>1, <2>5
  <2>7. IsFiniteSet(Moved(s, 1..n)) /\ Cardinality(Moved(s, 1..n)) = n
    BY <2>6, SizeOfList
  <2> QED
    BY <2>4, <2>5, <2>7 DEF Moved
<1>4. ASSUME NEW p \in ps, NEW r \in ps, Promise!Better(side, p, r)
      PROVE  Cardinality(Before(side, ps, p)) # Cardinality(Before(side, ps, r))
  <2>1. /\ Before(side, ps, p) \subseteq Before(side, ps, r) /\ p \in Before(side, ps, r)
        /\ p \notin Before(side, ps, p) /\ Before(side, ps, r) \in SUBSET ps
    BY <1>4, BetterFacts DEF Before
  <2>2. IsFiniteSet(Before(side, ps, r))
    BY <2>1, FS_Subset
  <2> QED
    BY <2>1, <2>2, FS_Subset
<1>5. ASSUME NEW i \in 1..Len(s)
      PROVE  s[i] = CHOOSE p \in ps :
                        Promise!Cardinality({q \in ps : Promise!Better(side, q, p)}) = i - 1
  <2>1. \A p : Promise!Cardinality({q \in ps : Promise!Better(side, q, p)})
               = Cardinality(Before(side, ps, p))
    BY PromiseCardinality DEF Before
  <2>2. s[i] \in ps /\ Cardinality(Before(side, ps, s[i])) = i - 1
    BY <1>1, <1>3
  <2>3. \A p \in ps : Cardinality(Before(side, ps, p)) = i - 1 => p = s[i]
    BY <1>1, <1>4, <2>2, BetterFacts
  <2> QED
    BY <2>1, <2>2, <2>3
<1>6. Promise!Min({Depth, Promise!Cardinality(ps)}) = Len(s)
  <2>1. IsFiniteSet(Listed(s)) /\ Cardinality(Listed(s)) = Len(s)
    <3>1. Len(s) \in Nat
      BY <1>1
    <3>2. IsFiniteSet(Moved(s, 1..Len(s))) /\ Cardinality(Moved(s, 1..Len(s))) = Len(s)
      BY <1>2, <3>1, SizeOfList
    <3> QED
      BY <3>2 DEF Listed, Moved
  <2>2. Listed(s) \in SUBSET ps
    BY <1>1 DEF Listed
  <2>3. Len(s) <= Cardinality(ps) /\ Cardinality(ps) \in Nat
    BY <2>1, <2>2, FS_Subset, FS_CardinalityType
  <2>4. Promise!Cardinality(ps) = Cardinality(ps)
    BY PromiseCardinality
  <2>5. Depth \in Int /\ Cardinality(ps) \in Int
    BY <2>3
  <2>6. Promise!Min({Depth, Cardinality(ps)}) = IF Depth <= Cardinality(ps) THEN Depth ELSE Cardinality(ps)
    BY <2>5, PromiseMin
  <2> QED
    BY <1>1, <2>1, <2>3, <2>4, <2>6
<1>7. s = [i \in 1..Len(s) |-> s[i]]
  OBVIOUS
<1> QED
  BY <1>5, <1>6, <1>7 DEF Promise!Ranked

(* Tick t is the tick of from or a worse one. *)
NoBetter(side, from, t) == IF side = "Buy" THEN t <= from ELSE t >= from

LEMMA PriceRises ==
    ASSUME Window!WindowConstants, NEW t \in Grid, NEW u \in Grid, NEW side
    PROVE  /\ Window!PriceOf(t) \in Nat /\ InGrid(Window!PriceOf(t))
           /\ t # u /\ NoBetter(side, t, u)
                => Promise!Better(side, Window!PriceOf(t), Window!PriceOf(u))
<1>0. /\ Tick \in Nat \ {0} /\ Window!Floor \in Nat /\ t \in Int /\ u \in Int
  BY WindowFacts DEF Grid
<1>1. /\ t < u => Tick * t + Tick <= Tick * u
      /\ u < t => Tick * u + Tick <= Tick * t
      /\ Tick * t \in Int /\ Tick * u \in Int
  BY <1>0, Multiples
<1>2. t * Tick = Tick * t /\ u * Tick = Tick * u
  BY <1>0
<1>3. /\ Window!PriceOf(t) = Window!Floor + Tick * t
      /\ Window!PriceOf(u) = Window!Floor + Tick * u
  BY <1>2 DEF Window!PriceOf
<1>4. PICK a \in Int, c \in Int : a = Tick * t /\ c = Tick * u
  BY <1>1
<1>5. /\ t < u => Window!PriceOf(t) < Window!PriceOf(u)
      /\ u < t => Window!PriceOf(u) < Window!PriceOf(t)
  BY <1>0, <1>1, <1>3, <1>4
<1>6. t # u /\ NoBetter(side, t, u)
          => Promise!Better(side, Window!PriceOf(t), Window!PriceOf(u))
  BY <1>0, <1>5 DEF NoBetter, Promise!Better
<1> QED
  BY <1>6, PriceAtTick

LEMMA ScanFinds ==
    ASSUME Window!WindowConstants, NEW bits \in SUBSET Grid, NEW side, NEW from \in Int
    PROVE  LET s == Window!Scan(side, bits, from)
               A == {t \in bits : NoBetter(side, from, t)} IN
           IF A = {} THEN s = Window!NoTick
           ELSE s \in A /\ \A t \in A : NoBetter(side, s, t)
<1> DEFINE A == {t \in bits : NoBetter(side, from, t)}
           below == {t \in bits : t <= from}
           above == {t \in bits : t >= from}
           n == Window!Ticks - 1
<1>1. n \in Nat /\ A \in SUBSET Nat /\ \A t \in A : t <= n
  <2>1. n \in Nat /\ \A t \in bits : t \in Nat /\ t <= n
    BY WindowFacts DEF Grid
  <2> QED
    BY <2>1
<1>2. A # {} => /\ Window!Max(A) \in A /\ \A x \in A : x <= Window!Max(A)
                /\ Window!Min(A) \in A /\ \A x \in A : Window!Min(A) <= x
  <2> HIDE DEF A, n
  <2> QED
    BY <1>1, MaxMinIn
<1>3. CASE side = "Buy"
  <2>1. A = below
    BY <1>3 DEF NoBetter
  <2>2. Window!Scan(side, bits, from) = IF A = {} THEN Window!NoTick ELSE Window!Max(A)
    BY <1>3, <2>1 DEF Window!Scan, Window!ScanDown
  <2> HIDE DEF A
  <2>3. A # {} => Window!Max(A) \in A /\ \A t \in A : NoBetter(side, Window!Max(A), t)
    BY <1>2, <1>3 DEF NoBetter
  <2> QED
    BY <2>2, <2>3 DEF A
<1>4. CASE side # "Buy"
  <2>1. A = above
    BY <1>4 DEF NoBetter
  <2>2. Window!Scan(side, bits, from) = IF A = {} THEN Window!NoTick ELSE Window!Min(A)
    BY <1>4, <2>1 DEF Window!Scan, Window!ScanUp
  <2> HIDE DEF A
  <2>3. A # {} => Window!Min(A) \in A /\ \A t \in A : NoBetter(side, Window!Min(A), t)
    BY <1>1, <1>2, <1>4 DEF NoBetter
  <2> QED
    BY <2>2, <2>3 DEF A
<1> QED
  BY <1>3, <1>4

LEMMA OutermostFinds ==
    ASSUME NEW over \in SUBSET Nat, IsFiniteSet(over), over # {}, NEW side
    PROVE  LET o == Window!Outermost(side, over) IN
           o \in over /\ \A q \in over \ {o} : Promise!Better(side, o, q)
<1>1. PICK n \in Nat : \A x \in over : x <= n
  BY FiniteBounded
<1>2. /\ Window!Max(over) \in over /\ \A x \in over : x <= Window!Max(over)
      /\ Window!Min(over) \in over /\ \A x \in over : Window!Min(over) <= x
  BY <1>1, MaxMinIn
<1>3. \A x \in over : x \in Int
  OBVIOUS
<1>4. CASE side = "Buy"
  <2>1. Window!Outermost(side, over) = Window!Max(over)
    BY <1>4 DEF Window!Outermost
  <2>2. \A q \in over \ {Window!Max(over)} : Window!Max(over) > q
    <3>1. PICK m : m = Window!Max(over)
      OBVIOUS
    <3>2. m \in Int /\ \A x \in over : x \in Int /\ x <= m
      BY <1>2, <1>3, <3>1
    <3>3. \A q \in over \ {m} : m > q
      BY <3>2
    <3> QED
      BY <3>1, <3>3
  <2> QED
    BY <1>2, <1>4, <2>1, <2>2 DEF Promise!Better
<1>5. CASE side # "Buy"
  <2>1. Window!Outermost(side, over) = Window!Min(over)
    BY <1>5 DEF Window!Outermost
  <2>2. \A q \in over \ {Window!Min(over)} : Window!Min(over) < q
    <3>1. PICK m : m = Window!Min(over)
      OBVIOUS
    <3>2. m \in Int /\ \A x \in over : x \in Int /\ m <= x
      BY <1>2, <1>3, <3>1
    <3>3. \A q \in over \ {m} : m < q
      BY <3>2
    <3> QED
      BY <3>1, <3>3
  <2> QED
    BY <1>2, <1>5, <2>1, <2>2 DEF Promise!Better
<1> QED
  BY <1>4, <1>5

(* out lists prices of all, best first, and those left are worse and all the others. *)
Sorted(side, all, left, out) ==
    /\ out \in Seq(all) /\ left \in SUBSET all
    /\ \A i, j \in 1..Len(out) : i < j => Promise!Better(side, out[i], out[j])
    /\ \A i \in 1..Len(out) : \A q \in left : Promise!Better(side, out[i], q)
    /\ Listed(out) \cup left = all

LEMMA SortedGrows ==
    ASSUME NEW side, NEW all, NEW left, NEW out, Sorted(side, all, left, out),
           NEW x \in left, \A q \in left \ {x} : Promise!Better(side, x, q)
    PROVE  Sorted(side, all, left \ {x}, Append(out, x)) /\ Len(Append(out, x)) = Len(out) + 1
<1> DEFINE t == Append(out, x)
           n == Len(out)
<1>1. /\ out \in Seq(all) /\ left \in SUBSET all /\ x \in all
      /\ \A i, j \in 1..n : i < j => Promise!Better(side, out[i], out[j])
      /\ \A i \in 1..n : \A q \in left : Promise!Better(side, out[i], q)
      /\ Listed(out) \cup left = all
  BY DEF Sorted
<1>2. /\ t \in Seq(all) /\ Len(t) = n + 1 /\ n \in Nat
      /\ \A i \in 1..n : t[i] = out[i]
      /\ t[n + 1] = x
  BY <1>1
<1> HIDE DEF t, n
<1>3. \A i \in 1..Len(t) : i = n + 1 \/ i \in 1..n
  BY <1>2
<1>4. Listed(t) = Listed(out) \cup {x}
  <2>1. \A i \in 1..n : i \in 1..Len(t)
    BY <1>2
  <2>2. n + 1 \in 1..Len(t)
    BY <1>2
  <2> QED
    BY <1>2, <1>3, <2>1, <2>2 DEF Listed, n
<1>5. ASSUME NEW i \in 1..Len(t), NEW j \in 1..Len(t), i < j
      PROVE  Promise!Better(side, t[i], t[j])
  <2>1. i \in 1..n
    BY <1>2, <1>5
  <2>2. CASE j \in 1..n
    BY <1>1, <1>2, <1>5, <2>1, <2>2
  <2>3. CASE j = n + 1
    BY <1>1, <1>2, <2>1, <2>3
  <2> QED
    BY <1>3, <2>2, <2>3
<1>6. ASSUME NEW i \in 1..Len(t), NEW q \in left \ {x} PROVE Promise!Better(side, t[i], q)
  <2>1. CASE i \in 1..n
    BY <1>1, <1>2, <2>1
  <2>2. CASE i = n + 1
    BY <1>2, <2>2
  <2> QED
    BY <1>3, <2>1, <2>2
<1>7. Listed(t) \cup (left \ {x}) = all
  BY <1>1, <1>4
<1>8. left \ {x} \in SUBSET all
  BY <1>1
<1>9. Sorted(side, all, left \ {x}, t)
  BY <1>2, <1>5, <1>6, <1>7, <1>8 DEF Sorted
<1> QED
  BY <1>2, <1>9 DEF t, n

(* The prices at some ticks, and those the merge has not come to. *)
AtTicks(ts) == {Window!PriceOf(t) : t \in ts}
Unmet(side, bits, w) ==
    (IF w.tick = Window!NoTick THEN {} ELSE AtTicks({t \in bits : NoBetter(side, w.tick, t)}))
    \cup w.rest

Merging(side, bits, over, w) ==
    /\ w \in [tick : Int, rest : SUBSET Nat, out : Seq(Nat)]
    /\ w.tick = Window!NoTick \/ w.tick \in bits
    /\ w.rest \in SUBSET over
    /\ Sorted(side, AtTicks(bits) \cup over, Unmet(side, bits, w), w.out)

LEMMA VisitMerges ==
    ASSUME Window!WindowConstants, NEW side, NEW bits \in SUBSET Grid,
           NEW over \in SUBSET Nat, IsFiniteSet(over), \A q \in over : ~InGrid(q),
           NEW w, Merging(side, bits, over, w), w.tick # Window!NoTick \/ w.rest # {}
    PROVE  LET v == Window!Visit(side, bits, w) IN
           Merging(side, bits, over, v) /\ Len(v.out) = Len(w.out) + 1
<1> DEFINE v == Window!Visit(side, bits, w)
           all == AtTicks(bits) \cup over
           o == Window!Outermost(side, w.rest)
           p == Window!PriceOf(w.tick)
           on == IF side = "Buy" THEN w.tick - 1 ELSE w.tick + 1
           next == Window!Scan(side, bits, on)
<1>0. /\ w \in [tick : Int, rest : SUBSET Nat, out : Seq(Nat)]
      /\ w.tick = Window!NoTick \/ w.tick \in bits
      /\ w.rest \in SUBSET over
      /\ Sorted(side, all, Unmet(side, bits, w), w.out)
  BY DEF Merging
<1>1. w.rest # {} => o \in w.rest /\ \A q \in w.rest \ {o} : Promise!Better(side, o, q)
  <2>1. w.rest \in SUBSET Nat /\ IsFiniteSet(w.rest)
    BY <1>0, FS_Subset
  <2> QED
    BY <2>1, OutermostFinds
<1>2. \A t \in bits : t \in Grid /\ t \in Int /\ t # Window!NoTick
  BY WindowFacts DEF Grid, Window!NoTick
<1>3. \A t \in bits : /\ Window!PriceOf(t) \in Nat /\ InGrid(Window!PriceOf(t))
                      /\ Window!PriceOf(t) \notin over
  BY <1>2, PriceRises
<1>4. ASSUME w.tick # Window!NoTick
      PROVE  \A t \in bits : /\ NoBetter(side, w.tick, t) <=> (t = w.tick \/ NoBetter(side, on, t))
                             /\ ~NoBetter(side, on, w.tick)
                             /\ t # w.tick /\ NoBetter(side, w.tick, t)
                                  => Promise!Better(side, p, Window!PriceOf(t))
  <2>1. w.tick \in bits /\ w.tick \in Grid /\ w.tick \in Int
    BY <1>0, <1>2, <1>4
  <2>2. \A t \in bits : t # w.tick /\ NoBetter(side, w.tick, t)
                          => Promise!Better(side, p, Window!PriceOf(t))
    BY <1>2, <2>1, PriceRises
  <2>3. \A t \in bits : /\ NoBetter(side, w.tick, t) <=> (t = w.tick \/ NoBetter(side, on, t))
                        /\ ~NoBetter(side, on, w.tick)
    BY <1>2, <2>1 DEF NoBetter
  <2> QED
    BY <2>2, <2>3
<1>5. CASE Window!TakesGrid(side, w)
  <2>1. /\ w.tick # Window!NoTick /\ w.tick \in bits /\ w.tick \in Int
        /\ w.rest = {} \/ Promise!Better(side, p, o)
    BY <1>0, <1>2, <1>5, BetterFacts DEF Window!TakesGrid
  <2>2. v = [w EXCEPT !.tick = next, !.out = Append(@, p)]
    BY <1>5 DEF Window!Visit
  <2>3. v.tick = next /\ v.rest = w.rest /\ v.out = Append(w.out, p)
    BY <1>0, <2>2
  <2>4. LET A == {t \in bits : NoBetter(side, on, t)} IN
        IF A = {} THEN next = Window!NoTick ELSE next \in A /\ \A t \in A : NoBetter(side, next, t)
    <3>1. on \in Int
      BY <2>1
    <3> HIDE DEF on
    <3>2. PICK x : x = on
      OBVIOUS
    <3> QED
      BY <3>1, <3>2, ScanFinds
  <2> HIDE DEF on
  <2>5. {t \in bits : NoBetter(side, w.tick, t)} = {w.tick} \cup {t \in bits : NoBetter(side, on, t)}
    BY <1>4, <2>1
  <2>6. (IF next = Window!NoTick THEN {} ELSE {t \in bits : NoBetter(side, next, t)})
        = {t \in bits : NoBetter(side, on, t)}
    <3>1. CASE {t \in bits : NoBetter(side, on, t)} = {}
      BY <2>4, <3>1
    <3>2. CASE {t \in bits : NoBetter(side, on, t)} # {}
      <4>1. next \in bits /\ next # Window!NoTick /\ NoBetter(side, on, next)
        BY <1>2, <2>4, <3>2
      <4>2. \A t \in bits : NoBetter(side, on, t) => NoBetter(side, next, t)
        BY <2>4, <3>2
      <4>3. \A t \in bits : NoBetter(side, next, t) => NoBetter(side, on, t)
        <5>1. on \in Int /\ next \in Int /\ \A t \in bits : t \in Int
          BY <1>2, <2>1, <4>1 DEF on
        <5> QED
          BY <4>1, <5>1 DEF NoBetter
      <4> QED
        BY <4>1, <4>2, <4>3
    <3> QED
      BY <3>1, <3>2
  <2> DEFINE N == {t \in bits : NoBetter(side, on, t)}
  <2>7. Unmet(side, bits, v) = AtTicks(N) \cup w.rest
    <3>1. next # Window!NoTick => AtTicks({t \in bits : NoBetter(side, next, t)}) = AtTicks(N)
      BY <2>6
    <3>2. next = Window!NoTick => AtTicks(N) = {}
      <4>1. next = Window!NoTick => N = {}
        BY <2>6
      <4> QED
        BY <4>1 DEF AtTicks
    <3> HIDE DEF N, next
    <3> QED
      BY <2>3, <3>1, <3>2 DEF Unmet
  <2>8. Unmet(side, bits, w) = {p} \cup AtTicks(N) \cup w.rest
    <3>1. AtTicks({t \in bits : NoBetter(side, w.tick, t)}) = {p} \cup AtTicks(N)
      BY <2>5 DEF AtTicks
    <3> QED
      BY <2>1, <3>1 DEF Unmet
  <2>9. \A q \in AtTicks(N) \cup w.rest : Promise!Better(side, p, q)
    <3>1. \A t \in N : t \in bits /\ NoBetter(side, on, t)
      OBVIOUS
    <3>2. \A t \in N : Promise!Better(side, p, Window!PriceOf(t))
      BY <1>4, <2>1, <3>1
    <3>3. \A q \in w.rest : Promise!Better(side, p, q)
      <4>1. p \in Int /\ w.rest \subseteq Int
        BY <1>0, <1>3, <2>1
      <4> HIDE DEF p, o
      <4> QED
        BY <1>1, <2>1, <4>1, BetterFacts
    <3> QED
      BY <3>2, <3>3 DEF AtTicks
  <2>10. p \in Nat /\ ~Promise!Better(side, p, p)
    BY <1>3, <2>1, BetterFacts
  <2> HIDE DEF p, N, all, v, next
  <2>11. Unmet(side, bits, v) = Unmet(side, bits, w) \ {p} /\ p \in Unmet(side, bits, w)
    BY <2>7, <2>8, <2>9, <2>10
  <2>12. Sorted(side, all, Unmet(side, bits, v), v.out) /\ Len(v.out) = Len(w.out) + 1
    <3>1. \A q \in Unmet(side, bits, w) \ {p} : Promise!Better(side, p, q)
      BY <2>7, <2>9, <2>11
    <3> QED
      BY <1>0, <2>3, <2>11, <3>1, SortedGrows
  <2>13. next = Window!NoTick \/ next \in bits
    BY <2>4
  <2>14. v \in [tick : Int, rest : SUBSET Nat, out : Seq(Nat)]
    <3>1. next \in Int
      BY <1>2, <2>13 DEF Window!NoTick
    <3>2. Append(w.out, p) \in Seq(Nat)
      BY <1>0, <2>10
    <3> QED
      BY <1>0, <2>2, <3>1, <3>2
  <2> QED
    BY <1>0, <2>3, <2>12, <2>13, <2>14 DEF Merging, all, v
<1>6. CASE ~Window!TakesGrid(side, w)
  <2>1. /\ w.rest # {} /\ o \in w.rest /\ o \in Nat
        /\ w.tick # Window!NoTick => ~Promise!Better(side, p, o)
    BY <1>0, <1>1, <1>6, BetterFacts DEF Window!TakesGrid
  <2>2. v = [w EXCEPT !.rest = @ \ {o}, !.out = Append(@, o)]
    BY <1>6 DEF Window!Visit
  <2>3. v.tick = w.tick /\ v.rest = w.rest \ {o} /\ v.out = Append(w.out, o)
    BY <1>0, <2>2
  <2> DEFINE G == IF w.tick = Window!NoTick THEN {}
                  ELSE AtTicks({t \in bits : NoBetter(side, w.tick, t)})
  <2>4. Unmet(side, bits, w) = G \cup w.rest /\ Unmet(side, bits, v) = G \cup (w.rest \ {o})
    BY <2>3 DEF Unmet
  <2>5. \A q \in G : q \notin over /\ Promise!Better(side, o, q)
    <3> SUFFICES ASSUME w.tick # Window!NoTick, NEW t \in bits, NoBetter(side, w.tick, t)
                 PROVE  Window!PriceOf(t) \notin over /\ Promise!Better(side, o, Window!PriceOf(t))
      BY DEF AtTicks
    <3>1. p \in Int /\ p # o /\ Window!PriceOf(t) \in Int /\ Window!PriceOf(t) \notin over
      BY <1>0, <1>3, <2>1
    <3>2. t = w.tick \/ Promise!Better(side, p, Window!PriceOf(t))
      BY <1>4
    <3>3. Promise!Better(side, o, p)
      <4> HIDE DEF p, o
      <4> QED
        BY <2>1, <3>1, BetterFacts
    <3>4. CASE t = w.tick
      BY <3>1, <3>3, <3>4
    <3>5. CASE Promise!Better(side, p, Window!PriceOf(t))
      <4> HIDE DEF p, o
      <4> QED
        BY <2>1, <3>1, <3>3, <3>5, BetterFacts
    <3> QED
      BY <3>2, <3>4, <3>5
  <2> HIDE DEF G, o, all, v, p
  <2>6. Unmet(side, bits, v) = Unmet(side, bits, w) \ {o} /\ o \in Unmet(side, bits, w)
    BY <1>0, <2>1, <2>4, <2>5
  <2>7. \A q \in Unmet(side, bits, w) \ {o} : Promise!Better(side, o, q)
    BY <1>1, <2>1, <2>4, <2>5
  <2>8. Sorted(side, all, Unmet(side, bits, v), v.out) /\ Len(v.out) = Len(w.out) + 1
    BY <1>0, <2>3, <2>6, <2>7, SortedGrows
  <2>9. v \in [tick : Int, rest : SUBSET Nat, out : Seq(Nat)]
    <3>1. Append(w.out, o) \in Seq(Nat) /\ w.rest \ {o} \in SUBSET Nat
      BY <1>0, <2>1
    <3> QED
      BY <1>0, <2>2, <3>1
  <2>10. v.rest \in SUBSET over
    BY <1>0, <2>3
  <2> QED
    BY <1>0, <2>3, <2>8, <2>9, <2>10 DEF Merging, all, v
<1> QED
  BY <1>5, <1>6

Goes(side, bits, w) ==
    IF w.tick = Window!NoTick /\ w.rest = {} THEN w ELSE Window!Visit(side, bits, w)

Merges(side, bits, over, k, f) ==
    f = [n \in 0..k |->
           IF n = 0 THEN [tick |-> Window!FirstTick(side, bits), rest |-> over, out |-> << >>]
           ELSE IF f[n - 1].tick = Window!NoTick /\ f[n - 1].rest = {} THEN f[n - 1]
           ELSE Window!Visit(side, bits, f[n - 1])]

LEMMA TicksFinite ==
    ASSUME Window!WindowConstants, NEW bits \in SUBSET Grid
    PROVE  /\ IsFiniteSet(bits) /\ IsFiniteSet(AtTicks(bits)) /\ AtTicks(bits) \subseteq Nat
<1>1. IsFiniteSet(bits)
  <2>1. PICK n \in Int : n = Window!Ticks - 1
    BY WindowFacts
  <2>2. IsFiniteSet(0..n)
    <3>1. 0 \in Int
      OBVIOUS
    <3> QED
      BY ONLY <2>1, <3>1, FS_Interval
  <2> QED
    BY <2>1, <2>2, FS_Subset DEF Grid
<1>2. IsFiniteSet(AtTicks(bits))
  <2> DEFINE f == [t \in bits |-> Window!PriceOf(t)]
  <2>1. f \in Surjection(bits, AtTicks(bits))
    BY DEF Surjection, AtTicks
  <2> QED
    BY <1>1, <2>1, FS_Surjection
<1>3. \A t \in bits : Window!PriceOf(t) \in Nat
  BY PriceAtTick
<1> QED
  BY <1>1, <1>2, <1>3 DEF AtTicks

LEMMA MergeStarts ==
    ASSUME Window!WindowConstants, NEW side, NEW bits \in SUBSET Grid,
           NEW over \in SUBSET Nat, IsFiniteSet(over)
    PROVE  Merging(side, bits, over,
                   [tick |-> Window!FirstTick(side, bits), rest |-> over, out |-> << >>])
<1> DEFINE w == [tick |-> Window!FirstTick(side, bits), rest |-> over, out |-> << >>]
           from == IF side = "Buy" THEN Window!Ticks - 1 ELSE 0
<1>1. from \in Int /\ \A t \in bits : t \in Int /\ NoBetter(side, from, t) /\ t # Window!NoTick
  BY WindowFacts DEF Grid, NoBetter, Window!NoTick
<1>2. {t \in bits : NoBetter(side, from, t)} = bits
  BY <1>1
<1>3. IF bits = {} THEN w.tick = Window!NoTick
      ELSE w.tick \in bits /\ \A t \in bits : NoBetter(side, w.tick, t)
  <2>1. PICK x \in Int : x = from
    BY <1>1
  <2>2. LET s == Window!Scan(side, bits, x)
            A == {t \in bits : NoBetter(side, x, t)} IN
        IF A = {} THEN s = Window!NoTick ELSE s \in A /\ \A t \in A : NoBetter(side, s, t)
    BY ScanFinds
  <2>3. w.tick = Window!Scan(side, bits, x)
    BY <2>1 DEF Window!FirstTick
  <2> QED
    BY <1>2, <2>1, <2>2, <2>3
<1>4. w.tick \in Int /\ (w.tick = Window!NoTick \/ w.tick \in bits)
  BY <1>1, <1>3 DEF Window!NoTick
<1>5. Unmet(side, bits, w) = AtTicks(bits) \cup over
  <2>1. CASE bits = {}
    BY <1>3, <2>1 DEF Unmet, AtTicks
  <2>2. CASE bits # {}
    <3>1. {t \in bits : NoBetter(side, w.tick, t)} = bits /\ w.tick # Window!NoTick
      BY <1>1, <1>3, <2>2
    <3> QED
      BY <3>1 DEF Unmet
  <2> QED
    BY <2>1, <2>2
<1>6. w \in [tick : Int, rest : SUBSET Nat, out : Seq(Nat)]
  BY <1>4
<1>7. w.rest = over /\ w.out = << >>
  OBVIOUS
<1> HIDE DEF w
<1>8. Sorted(side, AtTicks(bits) \cup over, Unmet(side, bits, w), w.out)
  BY <1>5, <1>7 DEF Sorted, Listed
<1> QED
  BY <1>4, <1>6, <1>7, <1>8 DEF Merging, w

(* collect shows the prices in the window and beside it that rank first. *)
LEMMA CollectIs ==
    ASSUME Window!WindowConstants, NEW side, NEW bits \in SUBSET Grid,
           NEW over \in SUBSET Nat, IsFiniteSet(over), \A q \in over : ~InGrid(q)
    PROVE  LET s == Window!Collect(side, bits, over) IN
           s = Promise!Ranked(side, AtTicks(bits) \cup over) /\ s \in Seq(AtTicks(bits) \cup over)
<1> DEFINE all == AtTicks(bits) \cup over
           R == [tick : Int, rest : SUBSET Nat, out : Seq(Nat)]
           D == {w \in R : Merging(side, bits, over, w)}
           F == [w \in D |-> Goes(side, bits, w)]
           a == [tick |-> Window!FirstTick(side, bits), rest |-> over, out |-> << >>]
           f == CHOOSE f : Merges(side, bits, over, Depth, f)
<1>0. Depth \in Nat \ {0} /\ Depth \in Nat
  BY DEF Window!WindowConstants
<1>1. a \in D
  BY MergeStarts DEF Merging
<1>2. \A w : Merging(side, bits, over, w) =>
          /\ Merging(side, bits, over, Goes(side, bits, w))
          /\ \/ w.tick = Window!NoTick /\ w.rest = {} /\ Goes(side, bits, w) = w
             \/ Len(Goes(side, bits, w).out) = Len(w.out) + 1
  BY VisitMerges DEF Goes
<1>3. F \in [D -> D]
  BY <1>2 DEF Merging
<1>4. \E g : Merges(side, bits, over, Depth, g)
  <2>1. PICK g : Iterated(D, a, F, Depth, g)
    <3> HIDE DEF D, F, a
    <3> QED
      BY <1>0, <1>1, <1>3, Iterates
  <2>2. ASSUME NEW n \in 0..Depth
        PROVE  g[n] = IF n = 0 THEN a ELSE Goes(side, bits, g[n - 1])
    <3>1. CASE n = 0
      BY <2>1, <3>1 DEF Iterated
    <3>2. CASE n # 0
      <4>1. n \in 1..Depth /\ n - 1 \in 0..Depth
        BY <1>0, <3>2
      <4>2. g[n - 1] \in D /\ g[n] = F[g[n - 1]]
        BY <2>1, <4>1 DEF Iterated
      <4> QED
        BY <3>2, <4>2
    <3> QED
      BY <3>1, <3>2
  <2>3. g = [n \in 0..Depth |-> IF n = 0 THEN a ELSE Goes(side, bits, g[n - 1])]
    <3> HIDE DEF D, a
    <3> QED
      BY <2>1, <2>2 DEF Iterated
  <2>4. Merges(side, bits, over, Depth, g)
    BY <2>3 DEF Merges, Goes
  <2> QED
    BY <2>4
<1>5. Merges(side, bits, over, Depth, f)
  BY <1>4
<1>6. Window!Collect(side, bits, over) = f[Depth].out
  BY Zenon DEF Window!Collect, Merges
<1> HIDE DEF f, D, F, a
<1>7. f[0] = a /\ \A n \in 1..Depth : f[n] = Goes(side, bits, f[n - 1])
  <2>1. f = [n \in 0..Depth |-> IF n = 0 THEN a ELSE Goes(side, bits, f[n - 1])]
    BY <1>5 DEF Merges, Goes, a
  <2>2. 0 \in 0..Depth /\ \A n \in 1..Depth : n \in 0..Depth /\ n # 0
    BY <1>0
  <2>3. \A n \in 0..Depth : f[n] = IF n = 0 THEN a ELSE Goes(side, bits, f[n - 1])
    BY <2>1
  <2> QED
    BY <2>2, <2>3
<1> DEFINE Ends(w) == w.tick = Window!NoTick /\ w.rest = {}
           T == {n \in Nat : n <= Depth => /\ Merging(side, bits, over, f[n])
                                           /\ Len(f[n].out) = n \/ (Ends(f[n]) /\ Len(f[n].out) <= n)}
<1>8. T = Nat
  <2>1. 0 \in T
    <3>1. Merging(side, bits, over, f[0]) /\ f[0].out = << >>
      BY <1>1, <1>7 DEF D, a
    <3> QED
      BY <3>1
  <2>2. ASSUME NEW n \in Nat, n \in T PROVE n + 1 \in T
    <3> SUFFICES ASSUME n + 1 <= Depth
                 PROVE  /\ Merging(side, bits, over, f[n + 1])
                        /\ Len(f[n + 1].out) = n + 1 \/ (Ends(f[n + 1]) /\ Len(f[n + 1].out) <= n + 1)
      OBVIOUS
    <3>1. n + 1 \in 1..Depth /\ (n + 1) - 1 = n /\ n <= Depth
      BY <1>0
    <3>2. Merging(side, bits, over, f[n]) /\ (Len(f[n].out) = n \/ (Ends(f[n]) /\ Len(f[n].out) <= n))
      BY <2>2, <3>1
    <3>3. f[n + 1] = Goes(side, bits, f[n])
      BY <1>7, <3>1
    <3>4. Merging(side, bits, over, f[n + 1])
      BY <1>2, <3>2, <3>3
    <3>5. \/ Ends(f[n]) /\ f[n + 1] = f[n]
          \/ Len(f[n + 1].out) = Len(f[n].out) + 1
      BY <1>2, <3>2, <3>3
    <3>6. Len(f[n].out) \in Nat
      BY <3>2 DEF Merging
    <3>7. ~Ends(f[n]) => Len(f[n].out) = n
      BY <3>2
    <3>8. Ends(f[n]) => f[n + 1] = f[n]
      BY <3>3 DEF Goes
    <3> HIDE DEF Ends
    <3> QED
      BY <3>2, <3>4, <3>5, <3>6, <3>7, <3>8
  <2> HIDE DEF T
  <2>3. T \in SUBSET Nat
    BY DEF T
  <2> QED
    BY <2>1, <2>2, <2>3, SetInduction
<1>9. PICK w : w = f[Depth]
  OBVIOUS
<1>10. Merging(side, bits, over, w) /\ (Len(w.out) = Depth \/ (Ends(w) /\ Len(w.out) <= Depth))
  BY <1>0, <1>8, <1>9
<1>11. Sorted(side, all, Unmet(side, bits, w), w.out)
  BY <1>10 DEF Merging
<1>12. Ends(w) => Listed(w.out) = all
  <2>1. Ends(w) => Unmet(side, bits, w) = {}
    BY DEF Unmet
  <2> QED
    BY <1>11, <2>1 DEF Sorted
<1>13. all \in SUBSET Int /\ IsFiniteSet(all)
  <2>1. IsFiniteSet(AtTicks(bits)) /\ AtTicks(bits) \subseteq Nat
    BY TicksFinite
  <2>2. IsFiniteSet(all)
    BY <2>1, FS_Union
  <2>3. \A x \in all : x \in Nat
    BY <2>1
  <2> QED
    BY <2>2, <2>3
<1>14. Len(w.out) <= Depth /\ (Len(w.out) = Depth \/ Listed(w.out) = all)
  BY <1>0, <1>10, <1>12
<1> HIDE DEF all
<1>15. PICK s : s = w.out
  OBVIOUS
<1>16. /\ s \in Seq(all) /\ \A i, j \in 1..Len(s) : i < j => Promise!Better(side, s[i], s[j])
       /\ \A i \in 1..Len(s) : \A q \in all \ Listed(s) : Promise!Better(side, s[i], q)
  BY <1>11, <1>15 DEF Sorted
<1>17. s = Promise!Ranked(side, all)
  BY <1>0, <1>13, <1>14, <1>15, <1>16, RankedIs
<1> QED
  BY <1>6, <1>9, <1>15, <1>16, <1>17 DEF all

-----------------------------------------------------------------------------
(* While no order has been turned down, or the id table has room for every reference, every *)
(* order of the pool is found by its reference.                                             *)
RoomForAll ==
    IsFiniteSet(Refs) /\ \A size \in Sizes : Cardinality(Refs) <= (size.orders * 7) \div 10

AllKnown(b) == \A i \in DOMAIN b.orders : /\ b.orders[i].id \in DOMAIN b.ids
                                         /\ b.ids[b.orders[i].id] = i

Known(b) == b.rejected = 0 \/ RoomForAll => AllKnown(b)

LEMMA NeverFull ==
    ASSUME RoomForAll, NEW b, BookInv(b), NEW ref \in Refs, ref \notin DOMAIN b.ids,
           b.size.orders \in Nat
    PROVE  ~TableFull(b)
<1>1. b.size \in Sizes /\ DOMAIN b.ids \cup {ref} \in SUBSET Refs
  BY DEF BookInv, Sound, PoolsFit, IdsFit
<1>2. IsFiniteSet(DOMAIN b.ids) /\ Cardinality(DOMAIN b.ids \cup {ref}) <= Cardinality(Refs)
  BY <1>1, FS_Subset DEF RoomForAll
<1>3. /\ Cardinality(DOMAIN b.ids \cup {ref}) = Cardinality(DOMAIN b.ids) + 1
      /\ Cardinality(DOMAIN b.ids) \in Nat /\ Cardinality(Refs) \in Nat
  BY <1>2, FS_AddElement, FS_CardinalityType DEF RoomForAll
<1>4. Cardinality(Refs) <= (b.size.orders * 7) \div 10 /\ (b.size.orders * 7) \div 10 \in Int
  BY <1>1 DEF RoomForAll
<1> QED
  BY <1>2, <1>3, <1>4 DEF TableFull

LEMMA AddKnows ==
    ASSUME HybridConstants, NEW b, BookInv(b), Known(b), NEW ref \in Refs, Fresh(b, ref),
           NEW side \in Sides, NEW px \in Nat \ {0}, NEW qty \in Nat
    PROVE  Known(Add(b, ref, side, px, qty))
<1>1. PICK c, oi : c = Add(b, ref, side, px, qty) /\ oi = Seqs!Last(b.freeOrders)
  OBVIOUS
<1>2. \/ c = b
      \/ TurnedDown(c, b)
      \/ AddsOrder(c, b, oi, ref, side, px, qty)
  BY <1>1, AddKeeps
<1>3. b.rejected \in Nat /\ \A i \in DOMAIN b.orders : b.orders[i].id # ref
  BY DEF BookInv, Sound, Fresh
<1>4. CASE TurnedDown(c, b)
  <2>1. c.rejected # 0
    BY <1>3, <1>4 DEF TurnedDown
  <2>2. c.orders = b.orders /\ c.ids = b.ids
    BY <1>4 DEF TurnedDown
  <2> QED
    BY <1>1, <2>1, <2>2 DEF Known, AllKnown
<1>5. CASE AddsOrder(c, b, oi, ref, side, px, qty)
  <2>1. CASE c.ids = Put(b.ids, ref, oi) /\ c.rejected = b.rejected
    <3>1. DOMAIN c.ids = DOMAIN b.ids \cup {ref}
      BY <2>1 DEF Put
    <3>2. \A r \in DOMAIN c.ids : c.ids[r] = IF r = ref THEN oi ELSE b.ids[r]
      BY <2>1 DEF Put
    <3>3. \A i \in DOMAIN b.orders : c.orders[i].id = b.orders[i].id
      BY <1>5 DEF AddsOrder, KeptOrder, SameOrder
    <3>4. DOMAIN c.orders = DOMAIN b.orders \cup {oi} /\ c.orders[oi].id = ref
      BY <1>5 DEF AddsOrder
    <3>5. Known(c)
      BY <1>3, <2>1, <3>1, <3>2, <3>3, <3>4 DEF Known, AllKnown
    <3> QED
      BY <1>1, <3>5
  <2>2. CASE c.ids = b.ids /\ c.rejected = b.rejected + 1 /\ TableFull(b)
    <3>1. c.rejected # 0
      BY <1>3, <2>2
    <3>2. ~RoomForAll
      <4>1. ref \notin DOMAIN b.ids
        BY <1>3 DEF BookInv, IdsFit
      <4>2. b.size.orders \in Nat
        BY DEF HybridConstants, BookInv, Sound, PoolsFit
      <4> QED
        BY <2>2, <4>1, <4>2, NeverFull
    <3> QED
      BY <1>1, <3>1, <3>2 DEF Known, AllKnown
  <2> QED
    BY <1>5, <2>1, <2>2 DEF AddsOrder
<1> QED
  BY <1>1, <1>2, <1>4, <1>5

LEMMA TakingKnows ==
    ASSUME NEW b, BookInv(b), Known(b), NEW ref \in DOMAIN b.ids,
           NEW c, TakesOut(c, b, b.ids[ref], ref)
    PROVE  Known(c)
<1>1. DOMAIN c.ids = DOMAIN b.ids \ {ref} /\ \A r \in DOMAIN c.ids : c.ids[r] = b.ids[r]
  BY DEF TakesOut, Without
<1>2. \A i \in DOMAIN c.orders : c.orders[i].id = b.orders[i].id
  BY DEF TakesOut, KeptOrder, SameOrder
<1>3. DOMAIN c.orders = DOMAIN b.orders \ {b.ids[ref]} /\ c.rejected = b.rejected
  BY DEF TakesOut
<1> QED
  BY <1>1, <1>2, <1>3 DEF Known, AllKnown

LEMMA ShrinkingKnows ==
    ASSUME NEW b, Known(b), NEW c, NEW oi, NEW q, TakesShares(c, b, oi, q)
    PROVE  Known(c)
<1>1. DOMAIN c.orders = DOMAIN b.orders /\ \A i \in DOMAIN c.orders : c.orders[i].id = b.orders[i].id
  BY DEF TakesShares
<1>2. c.ids = b.ids /\ c.rejected = b.rejected
  BY DEF TakesShares
<1> QED
  BY <1>1, <1>2 DEF Known, AllKnown

LEMMA SoundAndKnown ==
    ASSUME HybridConstants
    PROVE  Spec => [](BookInv(book) /\ Known(book))
<1>1. Init => BookInv(book) /\ Known(book)
  <2> SUFFICES ASSUME NEW size \in Sizes, book = Empty(size) PROVE BookInv(book) /\ Known(book)
    BY DEF Init
  <2>1. DOMAIN book.orders = {} /\ BookInv(book)
    BY EmptyStarts, EmptyParts
  <2> QED
    BY <2>1 DEF Known, AllKnown
<1>2. ASSUME BookInv(book), Known(book), BookInv(book)', [Next]_book PROVE Known(book)'
  <2>0. Prices \subseteq Nat \ {0} /\ Quantities \subseteq Nat
    BY <1>2, ConstantFacts
  <2>1. ASSUME NEW ref \in Refs, NEW side \in Sides, NEW px \in Prices, NEW qty \in Quantities,
               OnAdd(ref, side, px, qty)
        PROVE  Known(book')
    <3>1. px \in Nat \ {0} /\ qty \in Nat
      BY <2>0
    <3> QED
      BY <1>2, <2>1, <3>1, AddKnows DEF OnAdd
  <2>2. ASSUME NEW ref \in Refs, NEW qty \in Quantities, OnReduce(ref, qty) PROVE Known(book')
    <3>1. qty \in Nat
      BY <2>0
    <3>2. \/ book' = book
          \/ ref \in DOMAIN book.ids /\ TakesOut(book', book, book.ids[ref], ref)
          \/ TakesShares(book', book, book.ids[ref], qty)
      BY <1>2, <2>2, <3>1, ReduceKeeps DEF OnReduce
    <3> QED
      BY <1>2, <3>2, TakingKnows, ShrinkingKnows
  <2>3. ASSUME NEW ref \in Refs, OnRemove(ref) PROVE Known(book')
    <3>1. \/ book' = book
          \/ ref \in DOMAIN book.ids /\ TakesOut(book', book, book.ids[ref], ref)
      BY <1>2, <2>3, RemovalKeeps DEF OnRemove
    <3> QED
      BY <1>2, <3>1, TakingKnows
  <2>4. ASSUME NEW old \in Refs, NEW new \in Refs, NEW px \in Prices, NEW qty \in Quantities,
               OnReplace(old, new, px, qty)
        PROVE  Known(book')
    <3>1. px \in Nat \ {0} /\ qty \in Nat
      BY <2>0
    <3>2. PICK r : r = Remove(book, old)
      OBVIOUS
    <3>3. CASE old \notin DOMAIN book.ids
      BY <1>2, <2>4, <3>3 DEF OnReplace, Replace
    <3>4. CASE old \in DOMAIN book.ids
      <4>1. BookInv(r) /\ TakesOut(r, book, book.ids[old], old)
        BY <1>2, <3>2, <3>4, RemoveKeeps
      <4>2. Known(r)
        BY <1>2, <3>4, <4>1, TakingKnows
      <4>3. PICK side : side = book.orders[book.ids[old]].side
        OBVIOUS
      <4>4. side \in Sides
        BY <1>2, <3>4, <4>3 DEF BookInv, Sound, IdsFit, Queues, EntryFits, Entry
      <4>5. Fresh(r, new) /\ book' = Add(r, new, side, px, qty)
        BY <2>4, <3>2, <3>4, <4>3 DEF OnReplace, Replace
      <4> QED
        BY <3>1, <4>1, <4>2, <4>4, <4>5, AddKnows
    <3> QED
      BY <3>3, <3>4
  <2>5. ASSUME NEW side \in Sides, OnQuery(side) PROVE Known(book')
    <3>1. DOMAIN book = Fields
      BY <1>2 DEF BookInv, Sound
    <3>2. PICK h : h = [book.hint EXCEPT ![side] = Window!Refreshed(side, book.bits[side], @)]
      OBVIOUS
    <3>3. book' = [book EXCEPT !.hint = h]
      BY <2>5, <3>1, <3>2 DEF OnQuery, Query
    <3>4. book'.orders = book.orders /\ book'.ids = book.ids /\ book'.rejected = book.rejected
      BY <3>1, <3>3, HintMoves
    <3> QED
      BY <1>2, <3>4 DEF Known, AllKnown
  <2>6. ASSUME Clear PROVE Known(book')
    <3>1. book.size \in Sizes /\ book.rejected \in Nat /\ book.nextSeq \in Nat
      BY <1>2 DEF BookInv, Sound, PoolsFit, Queues
    <3>2. book' = Emptied(book.size, book.rejected, book.nextSeq)
      BY <2>6 DEF Clear, Emptied
    <3>3. DOMAIN book'.orders = {}
      BY <1>2, <3>1, <3>2, EmptyKeeps
    <3> QED
      BY <3>3 DEF Known, AllKnown
  <2>7. CASE UNCHANGED book
    BY <1>2, <2>7
  <2> QED
    BY <1>2, <2>1, <2>2, <2>3, <2>4, <2>5, <2>6, <2>7 DEF Next
<1>3. BookInv(book) /\ Known(book) /\ BookInv(book)' /\ [Next]_book => Known(book)'
  BY <1>2
<1>4. Spec => []BookInv(book)
  BY BookIsSound
<1> QED
  BY <1>1, <1>3, <1>4, PTL DEF Spec

LEMMA HeldIs ==
    ASSUME HybridConstants, NEW b, BookInv(b), NEW s \in Sides
    PROVE  /\ Held(b, s) = AtTicks(b.bits[s]) \cup DOMAIN b.over[s]
           /\ b.bits[s] \in SUBSET Grid /\ DOMAIN b.over[s] \in SUBSET Nat
           /\ IsFiniteSet(DOMAIN b.over[s]) /\ \A q \in DOMAIN b.over[s] : ~InGrid(q)
<1> DEFINE bits == b.bits[s]
           over == DOMAIN b.over[s]
<1>0. /\ Window!WindowConstants
      /\ bits = {t \in Grid : b.slot[s][t] # Nil}
      /\ IsFiniteSet(over) /\ over \subseteq Nat \ {0}
      /\ \A q \in over : ~InGrid(q) /\ b.over[s][q] # Nil
  BY DEF HybridConstants, BookInv, Sound, Marked
<1>1. ASSUME NEW q \in over PROVE q \in Held(b, s)
  <2>1. q \in Nat /\ Lookup(b, s, q) # Nil
    BY <1>0 DEF Lookup
  <2> QED
    BY <2>1, HeldIsFound
<1>2. ASSUME NEW t \in bits PROVE Window!PriceOf(t) \in Held(b, s)
  <2> DEFINE q == Window!PriceOf(t)
  <2>1. q \in Nat /\ InGrid(q) /\ TickOf(q) = t
    BY <1>0, PriceAtTick
  <2> HIDE DEF q
  <2>2. Lookup(b, s, q) # Nil
    BY <1>0, <2>1 DEF Lookup
  <2>3. q \in Held(b, s)
    BY <2>1, <2>2, HeldIsFound
  <2> QED
    BY <2>3 DEF q
<1>3. ASSUME NEW q \in Held(b, s) PROVE q \in AtTicks(bits) \/ q \in over
  <2>1. q \in Nat /\ Lookup(b, s, q) # Nil
    BY HeldIsFound
  <2>2. CASE InGrid(q)
    <3>1. TickOf(q) \in Grid /\ Window!PriceOf(TickOf(q)) = q
      BY <1>0, <2>1, <2>2, TickAtPrice
    <3>2. TickOf(q) \in bits
      BY <1>0, <2>1, <2>2, <3>1 DEF Lookup
    <3> QED
      BY <3>1, <3>2 DEF AtTicks
  <2>3. CASE ~InGrid(q)
    BY <2>1, <2>3 DEF Lookup
  <2> QED
    BY <2>2, <2>3
<1>4. Held(b, s) = AtTicks(bits) \cup over
  BY <1>1, <1>2, <1>3 DEF AtTicks
<1> QED
  BY <1>0, <1>4

(* Promise's operators, for the orders a book finds by reference. *)
LEMMA PromiseIs ==
    /\ \A s, p : Promise!At(s, p) = {r \in DOMAIN View(book) : View(book)[r].side = s /\ View(book)[r].price = p}
    /\ \A s : Promise!Quoted(s) = {View(book)[r].price : r \in {r \in DOMAIN View(book) : View(book)[r].side = s}}
  BY DEF Promise!At, Promise!Quoted, View

LEMMA PromiseLevel ==
    ASSUME NEW s, NEW p
    PROVE  Promise!Level(s, p) =
           [price |-> p, orders |-> Cardinality(Promise!At(s, p)),
            qty |-> SumOf(View(book), Promise!At(s, p))]
<1>1. \A S : Promise!MapThenSumSet(LAMBDA r : [ref \in DOMAIN book.ids |-> OrderIn(book, book.ids[ref])][r].qty, S)
             = SumOf(View(book), S)
  BY Zenon DEF Promise!MapThenSumSet, Promise!MapThenFoldSet, MapThenSumSet, MapThenFoldSet, SumOf, View
<1>2. \A S : Promise!Cardinality(S) = Cardinality(S)
  BY PromiseCardinality
<1> QED
  BY Zenon, <1>1, <1>2 DEF Promise!Level

(* What rests at a price, by reference and in the pool. *)
LEMMA KnownLevel ==
    ASSUME BookInv(book), AllKnown(book), NEW s \in Sides,
           NEW p, p \in Held(book, s)
    PROVE  LET li == Lookup(book, s, p) IN
           /\ book.levels[li].price = p
           /\ book.levels[li].qty = SumOf(View(book), Promise!At(s, p))
           /\ book.levels[li].orders = Cardinality(Promise!At(s, p))
<1>1. PICK li, A : li = Lookup(book, s, p) /\ A = Promise!At(s, p)
  OBVIOUS
<1>2. /\ p \in Nat /\ Lookup(book, s, p) # Nil
  BY HeldIsFound
<1>3. /\ li \in DOMAIN book.levels /\ book.levels[li].price = p
      /\ \A i \in OnLevel(book.orders, li) : book.orders[i].side = s /\ PriceAt(book, i) = p
  BY <1>1, <1>2, LevelSide
<1>4. /\ book.levels[li].qty = SumOf(book.orders, OnLevel(book.orders, li))
      /\ book.levels[li].orders = Cardinality(OnLevel(book.orders, li))
  BY <1>3 DEF BookInv, Sound, Queues, LevelFits, TotalsFit
<1>5. A = {r \in DOMAIN book.ids : /\ book.orders[book.ids[r]].side = s
                                   /\ PriceAt(book, book.ids[r]) = p}
  <2>1. DOMAIN View(book) = DOMAIN book.ids
    BY DEF View
  <2>2. \A r \in DOMAIN book.ids : /\ View(book)[r].side = book.orders[book.ids[r]].side
                                   /\ View(book)[r].price = PriceAt(book, book.ids[r])
    BY DEF View, OrderIn, PriceAt
  <2> QED
    BY <1>1, <2>1, <2>2, PromiseIs
<1>6. \A r \in DOMAIN book.ids : /\ book.ids[r] \in DOMAIN book.orders
                                 /\ book.orders[book.ids[r]].id = r
  BY DEF BookInv, IdsFit
<1>7. \A i \in DOMAIN book.orders : /\ book.orders[i].id \in DOMAIN book.ids
                                    /\ book.ids[book.orders[i].id] = i
                                    /\ book.orders[i].side \in Sides
                                    /\ Lookup(book, book.orders[i].side, PriceAt(book, i)) = book.orders[i].level
  BY DEF AllKnown, BookInv, Sound, Found, Queues, EntryFits, Entry, PriceAt
<1>8. OnLevel(book.orders, li) = Moved(book.ids, A)
  <2>1. ASSUME NEW i \in OnLevel(book.orders, li) PROVE i \in Moved(book.ids, A)
    <3>1. /\ i \in DOMAIN book.orders /\ book.orders[i].side = s /\ PriceAt(book, i) = p
      BY <1>3 DEF OnLevel
    <3>2. book.orders[i].id \in A /\ book.ids[book.orders[i].id] = i
      BY <1>5, <1>7, <3>1
    <3> QED
      BY <3>2 DEF Moved
  <2>2. ASSUME NEW r \in A PROVE book.ids[r] \in OnLevel(book.orders, li)
    BY <1>1, <1>5, <1>6, <1>7 DEF OnLevel
  <2> QED
    BY <2>1, <2>2 DEF Moved
<1>9. \A x, y \in A : book.ids[x] = book.ids[y] => x = y
  BY <1>5, <1>6
<1>10. IsFiniteSet(A)
  <2> DEFINE g == [i \in OnLevel(book.orders, li) |-> book.orders[i].id]
  <2>1. g \in Surjection(OnLevel(book.orders, li), A)
    <3>1. \A i \in OnLevel(book.orders, li) : g[i] \in A
      BY <1>3, <1>5, <1>7 DEF OnLevel
    <3>2. \A r \in A : \E i \in OnLevel(book.orders, li) : g[i] = r
      BY <1>5, <1>6, <1>8 DEF Moved
    <3> QED
      BY <3>1, <3>2 DEF Surjection
  <2>2. IsFiniteSet(OnLevel(book.orders, li))
    BY LevelCounts DEF BookInv, Sound
  <2> QED
    BY <2>1, <2>2, FS_Surjection
<1>11. Cardinality(Moved(book.ids, A)) = Cardinality(A)
  BY <1>9, <1>10, SizeMoved
<1>12. SumOf(book.orders, Moved(book.ids, A)) = SumOf(View(book), A)
  <2>1. \A x \in A : book.orders[book.ids[x]].qty = View(book)[x].qty
    BY <1>5 DEF View, OrderIn
  <2>2. \A x \in A : View(book)[x].qty \in Nat
    <3>1. \A i \in DOMAIN book.orders : book.orders[i].qty \in Nat
      BY DEF BookInv, Sound, Queues, EntryFits, Entry
    <3> QED
      BY <1>5, <1>6, <2>1, <3>1
  <2>3. Counts(View(book), A)
    BY <1>10, <2>2 DEF Counts
  <2> QED
    BY <1>9, <2>1, <2>3, SumMoved
<1> QED
  BY <1>1, <1>3, <1>4, <1>8, <1>11, <1>12

LEMMA QuotedIsHeld ==
    ASSUME BookInv(book), AllKnown(book), NEW s \in Sides
    PROVE  Promise!Quoted(s) = Held(book, s)
<1>1. DOMAIN View(book) = DOMAIN book.ids
  BY DEF View
<1>2. \A r \in DOMAIN book.ids : /\ View(book)[r].side = book.orders[book.ids[r]].side
                                 /\ View(book)[r].price = PriceAt(book, book.ids[r])
                                 /\ book.ids[r] \in DOMAIN book.orders
  BY DEF View, OrderIn, PriceAt, BookInv, IdsFit
<1>3. \A i \in DOMAIN book.orders : /\ book.orders[i].id \in DOMAIN book.ids
                                    /\ book.ids[book.orders[i].id] = i
  BY DEF AllKnown
<1>4. ASSUME NEW q \in Promise!Quoted(s) PROVE q \in Held(book, s)
  <2>1. PICK r \in DOMAIN book.ids : View(book)[r].side = s /\ q = View(book)[r].price
    BY <1>1, PromiseIs
  <2> QED
    BY <1>2, <2>1 DEF Held
<1>5. ASSUME NEW q \in Held(book, s) PROVE q \in Promise!Quoted(s)
  <2>1. PICK i \in DOMAIN book.orders : book.orders[i].side = s /\ q = PriceAt(book, i)
    BY DEF Held
  <2>2. PICK r \in DOMAIN View(book) : View(book)[r].side = s /\ View(book)[r].price = q
    BY <1>1, <1>2, <1>3, <2>1
  <2> QED
    BY <2>2, PromiseIs
<1> QED
  BY <1>4, <1>5

LEMMA SnapshotRecounts ==
    ASSUME HybridConstants, BookInv(book), AllKnown(book), NEW s \in Sides
    PROVE  Snapshot(book, s) = Promise!Shown(s)
<1> DEFINE ps == Window!Collect(s, book.bits[s], DOMAIN book.over[s])
<1>1. ps = Promise!Ranked(s, Held(book, s)) /\ ps \in Seq(Held(book, s))
  <2>1. Window!WindowConstants
    BY DEF HybridConstants
  <2>2. PICK bits, over : bits = book.bits[s] /\ over = DOMAIN book.over[s]
    OBVIOUS
  <2>3. /\ bits \in SUBSET Grid /\ over \in SUBSET Nat /\ IsFiniteSet(over)
        /\ \A q \in over : ~InGrid(q)
        /\ Held(book, s) = AtTicks(bits) \cup over
    BY <2>2, HeldIs
  <2>4. LET c == Window!Collect(s, bits, over) IN
        c = Promise!Ranked(s, AtTicks(bits) \cup over) /\ c \in Seq(AtTicks(bits) \cup over)
    BY <2>1, <2>3, CollectIs
  <2> QED
    BY <2>2, <2>3, <2>4
<1>2. Promise!Quoted(s) = Held(book, s)
  BY QuotedIsHeld
<1> HIDE DEF ps
<1>3. ASSUME NEW i \in DOMAIN ps
      PROVE  LET l == book.levels[Lookup(book, s, ps[i])] IN
             [price |-> l.price, qty |-> l.qty, orders |-> l.orders] = Promise!Level(s, ps[i])
  <2>1. ps[i] \in Held(book, s)
    BY <1>1
  <2>2. PICK p, l : p = ps[i] /\ l = book.levels[Lookup(book, s, ps[i])]
    OBVIOUS
  <2>3. l.price = p /\ l.qty = SumOf(View(book), Promise!At(s, p)) /\ l.orders = Cardinality(Promise!At(s, p))
    BY <2>1, <2>2, KnownLevel
  <2>4. Promise!Level(s, p) =
           [price |-> p, orders |-> Cardinality(Promise!At(s, p)),
            qty |-> SumOf(View(book), Promise!At(s, p))]
    BY PromiseLevel
  <2> QED
    BY <2>2, <2>3, <2>4
<1>4. Snapshot(book, s) = [i \in DOMAIN ps |-> Promise!Level(s, ps[i])]
  BY <1>3 DEF Snapshot, ps
<1> QED
  BY <1>1, <1>2, <1>4 DEF Promise!Shown

LEMMA StrandedIs == NoneStranded <=> AllKnown(book)
  BY DEF NoneStranded, AllKnown

(* An order that is linked can be found by its reference, in a book of any size whose id table has *)
(* room for every reference, however often its pools run out of orders or levels, and in any book  *)
(* until it turns an order down: only the id table's refusal, which comes last, strands one.       *)
THEOREM OrdersAreFound ==
    ASSUME HybridConstants
    PROVE  Spec => [](book.rejected = 0 \/ RoomForAll => NoneStranded)
<1>1. BookInv(book) /\ Known(book) => (book.rejected = 0 \/ RoomForAll => NoneStranded)
  BY StrandedIs DEF Known
<1>2. Spec => [](BookInv(book) /\ Known(book))
  BY SoundAndKnown
<1> QED
  BY <1>1, <1>2, PTL

(* The snapshot is a recount of the resting orders, level by level and best first: what collect    *)
(* merges from window and overflow map, and the totals link, unlink and reduce keep on each level. *)
(* It holds whatever the pools and the id table have turned down, before and after, wherever no    *)
(* order is linked that cannot be found.                                                           *)
THEOREM SnapshotIsRecount ==
    ASSUME HybridConstants
    PROVE  Spec => [](NoneStranded => ShowsItsOrders)
<1>1. BookInv(book) => (NoneStranded => ShowsItsOrders)
  BY SnapshotRecounts, StrandedIs DEF ShowsItsOrders
<1>2. Spec => [](BookInv(book) /\ Known(book))
  BY SoundAndKnown
<1> QED
  BY <1>1, <1>2, PTL

(* The same of the best price: it is one at which an order rests that can be acted on, and *)
(* kInvalidPrice only when the side is empty, whatever the hint was worth.                 *)
THEOREM BestRests ==
    ASSUME HybridConstants
    PROVE  Spec => [](NoneStranded => BestIsResting)
<1>1. BookInv(book) => (NoneStranded => BestIsResting)
  <2> SUFFICES ASSUME BookInv(book), AllKnown(book), NEW s \in Sides
               PROVE  BestPrice(book, s) \in
                      (IF Promise!Quoted(s) = {} THEN {Promise!kInvalidPrice} ELSE Promise!Quoted(s))
    BY StrandedIs DEF BestIsResting
  <2>1. Promise!kInvalidPrice = Window!kInvalidPrice
    BY DEF Promise!kInvalidPrice, Window!kInvalidPrice
  <2> QED
    BY <2>1, QuotedIsHeld, BestIsFound
<1>2. Spec => [](BookInv(book) /\ Known(book))
  BY SoundAndKnown
<1> QED
  BY <1>1, <1>2, PTL
=============================================================================

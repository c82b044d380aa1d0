-------------------------- MODULE BookCrossval_proofs --------------------------
(***********************************************************************************)
(* The four books of BookCrossval beside each other.  The map and the flat book    *)
(* are functions of the orders they hold (MapIs, FlatIs), up to a stale best tick; *)
(* the pooled two share their levels (PooledBooks_proofs); and a book that has     *)
(* turned nothing down holds the map book's orders (Follow), so that the four      *)
(* snapshots are recounts of the same thing.                                       *)
(***********************************************************************************)
EXTENDS PooledBooks_proofs

-----------------------------------------------------------------------------
(* What rests, by reference, and what a recount of it gives. *)
At(V, s, p) == {r \in DOMAIN V : V[r].side = s /\ V[r].price = p}
Quoted(V, s) == {V[r].price : r \in {r \in DOMAIN V : V[r].side = s}}

Sum(q, n) == [qty |-> q, orders |-> n]
Tally(V, s, p) == Sum(HP!SumOf(V, At(V, s, p)), Cardinality(At(V, s, p)))

Recount(V, s) ==
    LET ps == HP!Promise!Ranked(s, Quoted(V, s)) IN
    [i \in DOMAIN ps |-> [price |-> ps[i], orders |-> Tally(V, s, ps[i]).orders,
                          qty |-> Tally(V, s, ps[i]).qty]]

Rests(s, p, q) == [side |-> s, price |-> p, qty |-> q]

IsView(V) ==
    /\ V = [r \in DOMAIN V |-> V[r]] /\ IsFiniteSet(DOMAIN V)
    /\ \A r \in DOMAIN V : /\ V[r] = Rests(V[r].side, V[r].price, V[r].qty)
                           /\ V[r].side \in HP!Sides
                           /\ V[r].price \in Nat \ {0} /\ V[r].qty \in Nat \ {0}

(* What of the aggregates changes, and which prices are quoted, when something does. *)
TallyMoves(V, W, side, px, x) ==
    \A s, p : Tally(W, s, p) = IF s = side /\ p = px THEN x ELSE Tally(V, s, p)
Quotes(V, W, side, px) ==
    \A s : Quoted(W, s) = IF s = side THEN Quoted(V, s) \cup {px} ELSE Quoted(V, s)
QuotesNot(V, W, side, px) ==
    \A s : Quoted(W, s) = IF s = side THEN Quoted(V, s) \ {px} ELSE Quoted(V, s)

LEMMA RestsParts ==
    \A s, p, q : Rests(s, p, q).side = s /\ Rests(s, p, q).price = p /\ Rests(s, p, q).qty = q
  BY DEF Rests

LEMMA SumParts == \A q, n : Sum(q, n).qty = q /\ Sum(q, n).orders = n
  BY DEF Sum

LEMMA SameFinite ==
    /\ \A S : HP!IsFiniteSet(S) <=> IsFiniteSet(S)
    /\ \A S : HP!Cardinality(S) = Cardinality(S)
  BY Zenon DEF HP!Cardinality, Cardinality, HP!IsFiniteSet, IsFiniteSet

LEMMA AtCounts ==
    ASSUME NEW V, IsView(V), NEW s, NEW p
    PROVE  /\ IsFiniteSet(At(V, s, p)) /\ HP!Counts(V, At(V, s, p)) /\ Cardinality(At(V, s, p)) \in Nat
           /\ HP!SumOf(V, At(V, s, p)) \in Nat
           /\ p \in Quoted(V, s) <=> At(V, s, p) # {}
           /\ p \in Quoted(V, s) <=> Cardinality(At(V, s, p)) # 0
<1>1. At(V, s, p) \in SUBSET DOMAIN V /\ IsFiniteSet(DOMAIN V)
  BY DEF At, IsView
<1>2. IsFiniteSet(At(V, s, p)) /\ Cardinality(At(V, s, p)) \in Nat
  BY <1>1, FS_Subset, FS_CardinalityType
<1>3. \A r \in At(V, s, p) : V[r].qty \in Nat
  BY <1>1 DEF IsView
<1>4. HP!Counts(V, At(V, s, p))
  BY <1>2, <1>3, SameFinite DEF HP!Counts
<1>5. HP!SumOf(V, At(V, s, p)) \in Nat
  BY <1>4, HP!SumIsNat
<1>6. p \in Quoted(V, s) <=> At(V, s, p) # {}
  BY DEF Quoted, At
<1>7. At(V, s, p) = {} <=> Cardinality(At(V, s, p)) = 0
  BY <1>2, FS_EmptySet
<1> QED
  BY <1>2, <1>4, <1>5, <1>6, <1>7

LEMMA QuotedFinite ==
    ASSUME NEW V, IsView(V), NEW s
    PROVE  IsFiniteSet(Quoted(V, s)) /\ Quoted(V, s) \subseteq Nat \ {0}
<1> DEFINE D == {r \in DOMAIN V : V[r].side = s}
           f == [r \in D |-> V[r].price]
<1>1. IsFiniteSet(D)
  BY FS_Subset DEF IsView
<1>2. f \in Surjection(D, Quoted(V, s))
  BY DEF Surjection, Quoted
<1>3. IsFiniteSet(Quoted(V, s))
  BY <1>1, <1>2, FS_Surjection
<1> QED
  BY <1>3 DEF Quoted, IsView

(* An order joins. *)
LEMMA ViewPut ==
    ASSUME NEW V, IsView(V), NEW ref, ref \notin DOMAIN V, NEW side \in HP!Sides,
           NEW px \in Nat \ {0}, NEW qty \in Nat \ {0}
    PROVE  LET W == HP!Put(V, ref, Rests(side, px, qty)) IN
           /\ IsView(W) /\ DOMAIN W = DOMAIN V \cup {ref} /\ Quotes(V, W, side, px)
           /\ TallyMoves(V, W, side, px,
                         Sum(Tally(V, side, px).qty + qty, Tally(V, side, px).orders + 1))
<1> DEFINE W == HP!Put(V, ref, Rests(side, px, qty))
<1>1. /\ DOMAIN W = DOMAIN V \cup {ref} /\ W = [r \in DOMAIN W |-> W[r]]
      /\ W[ref] = Rests(side, px, qty) /\ \A r \in DOMAIN V : r # ref /\ W[r] = V[r]
  BY DEF HP!Put
<1> HIDE DEF W
<1>2. W[ref].side = side /\ W[ref].price = px /\ W[ref].qty = qty
  BY <1>1, RestsParts
<1>3. IsView(W)
  <2>1. IsFiniteSet(DOMAIN W)
    BY <1>1, FS_AddElement DEF IsView
  <2>2. ASSUME NEW r \in DOMAIN W
        PROVE  /\ W[r] = Rests(W[r].side, W[r].price, W[r].qty)
               /\ W[r].side \in HP!Sides
               /\ W[r].price \in Nat \ {0} /\ W[r].qty \in Nat \ {0}
    <3>1. CASE r = ref
      BY <1>1, <1>2, <3>1
    <3>2. CASE r # ref
      <4>1. r \in DOMAIN V /\ W[r] = V[r]
        BY <1>1, <3>2
      <4> QED
        BY <4>1 DEF IsView
    <3> QED
      BY <3>1, <3>2
  <2> QED
    BY <1>1, <2>1, <2>2 DEF IsView
<1>4. ASSUME NEW s
      PROVE  Quoted(W, s) = IF s = side THEN Quoted(V, s) \cup {px} ELSE Quoted(V, s)
  BY <1>1, <1>2 DEF Quoted
<1>5. ASSUME NEW s, NEW p
      PROVE  Tally(W, s, p) =
             IF s = side /\ p = px THEN Sum(Tally(V, s, p).qty + qty, Tally(V, s, p).orders + 1)
             ELSE Tally(V, s, p)
  <2> DEFINE A == At(V, s, p)
  <2>1. /\ IsFiniteSet(A) /\ HP!Counts(V, A) /\ Cardinality(A) \in Nat
    BY AtCounts
  <2>2. ref \notin A /\ \A r \in A : W[r].qty = V[r].qty
    BY <1>1 DEF At
  <2>3. At(W, s, p) = IF s = side /\ p = px THEN A \cup {ref} ELSE A
    BY <1>1, <1>2 DEF At
  <2> HIDE DEF A
  <2>4. HP!SumOf(W, A) = HP!SumOf(V, A) /\ HP!Counts(W, A)
    <3>1. HP!SumOf(W, A) = HP!SumOf(V, A)
      BY <2>1, <2>2, HP!SumSame
    <3> QED
      BY <2>1, <2>2, <3>1 DEF HP!Counts
  <2>5. CASE s = side /\ p = px
    <3>1. HP!SumOf(W, A \cup {ref}) = W[ref].qty + HP!SumOf(W, A)
      BY <1>2, <2>2, <2>4, HP!SumWith
    <3>2. Cardinality(A \cup {ref}) = Cardinality(A) + 1
      BY <2>1, <2>2, FS_AddElement
    <3>3. HP!SumOf(V, A) \in Nat
      BY AtCounts DEF A
    <3> QED
      BY <1>2, <2>3, <2>4, <2>5, <3>1, <3>2, <3>3, SumParts DEF Tally, A
  <2>6. CASE ~(s = side /\ p = px)
    BY <2>3, <2>4, <2>6 DEF Tally, A
  <2> QED
    BY <2>5, <2>6
<1>6. /\ IsView(W) /\ DOMAIN W = DOMAIN V \cup {ref} /\ Quotes(V, W, side, px)
      /\ TallyMoves(V, W, side, px,
                    Sum(Tally(V, side, px).qty + qty, Tally(V, side, px).orders + 1))
  BY <1>1, <1>3, <1>4, <1>5 DEF Quotes, TallyMoves
<1> QED
  BY <1>6 DEF W

(* An order leaves. *)
LEMMA ViewWithout ==
    ASSUME NEW V, IsView(V), NEW ref \in DOMAIN V, NEW W, W = HP!Without(V, ref)
    PROVE  LET side == V[ref].side
               px == V[ref].price
               t == Tally(V, side, px) IN
           /\ IsView(W) /\ DOMAIN W = DOMAIN V \ {ref}
           /\ IF t.orders = 1 THEN QuotesNot(V, W, side, px) ELSE Quotes(V, W, side, px)
           /\ TallyMoves(V, W, side, px, Sum(t.qty - V[ref].qty, t.orders - 1))
<1>1. /\ DOMAIN W = DOMAIN V \ {ref} /\ W = [r \in DOMAIN W |-> W[r]]
      /\ \A r \in DOMAIN W : W[r] = V[r]
  BY DEF HP!Without
<1>2. IsView(W)
  <2>1. IsFiniteSet(DOMAIN W)
    BY <1>1, FS_Subset DEF IsView
  <2> QED
    BY <1>1, <2>1 DEF IsView
<1>3. ASSUME NEW s, NEW p
      PROVE  Tally(W, s, p) =
             IF s = V[ref].side /\ p = V[ref].price
             THEN Sum(Tally(V, s, p).qty - V[ref].qty, Tally(V, s, p).orders - 1)
             ELSE Tally(V, s, p)
  <2> DEFINE A == At(V, s, p)
             B == At(W, s, p)
  <2>1. /\ IsFiniteSet(A) /\ HP!Counts(V, A) /\ HP!Counts(W, B) /\ Cardinality(A) \in Nat
        /\ HP!SumOf(W, B) \in Nat
    BY <1>2, AtCounts
  <2>2. B = IF s = V[ref].side /\ p = V[ref].price THEN A \ {ref} ELSE A
    BY <1>1 DEF At
  <2>3. \A r \in B : V[r].qty = W[r].qty
    BY <1>1 DEF At
  <2>4. ref \in A <=> s = V[ref].side /\ p = V[ref].price
    BY DEF At
  <2> HIDE DEF A, B
  <2>5. HP!SumOf(V, B) = HP!SumOf(W, B)
    BY <2>1, <2>3, HP!SumSame
  <2>6. CASE s = V[ref].side /\ p = V[ref].price
    <3>1. HP!SumOf(V, A) = V[ref].qty + HP!SumOf(V, A \ {ref})
      BY <2>1, <2>4, <2>6, HP!SumWithout
    <3>2. Cardinality(A \ {ref}) = Cardinality(A) - 1
      BY <2>1, <2>4, <2>6, FS_RemoveElement
    <3>3. V[ref].qty \in Nat
      BY DEF IsView
    <3> QED
      BY <2>1, <2>2, <2>5, <2>6, <3>1, <3>2, <3>3, SumParts DEF Tally, A, B
  <2>7. CASE ~(s = V[ref].side /\ p = V[ref].price)
    BY <2>2, <2>5, <2>7 DEF Tally, A, B
  <2> QED
    BY <2>6, <2>7
<1>4. ASSUME NEW s
      PROVE  Quoted(W, s) =
             IF s = V[ref].side /\ Tally(V, s, V[ref].price).orders = 1
             THEN Quoted(V, s) \ {V[ref].price} ELSE Quoted(V, s)
  <2>1. ASSUME NEW p
        PROVE  /\ p \in Quoted(W, s) <=> Tally(W, s, p).orders # 0
               /\ p \in Quoted(V, s) <=> Tally(V, s, p).orders # 0
               /\ Tally(V, s, p).orders \in Nat
    BY <1>2, AtCounts, SumParts DEF Tally
  <2>2. ASSUME NEW p
        PROVE  Tally(W, s, p).orders =
               IF s = V[ref].side /\ p = V[ref].price THEN Tally(V, s, p).orders - 1
               ELSE Tally(V, s, p).orders
    BY <1>3, SumParts
  <2>3. s = V[ref].side => V[ref].price \in Quoted(V, s)
    BY DEF Quoted
  <2>4. ASSUME NEW p
        PROVE  p \in Quoted(W, s) <=>
               /\ p \in Quoted(V, s)
               /\ ~(s = V[ref].side /\ p = V[ref].price /\ Tally(V, s, p).orders = 1)
    BY <2>1, <2>2, <2>3
  <2> QED
    BY <2>4
<1>5. V[ref].price \in Quoted(V, V[ref].side)
  BY DEF Quoted
<1>6. CASE Tally(V, V[ref].side, V[ref].price).orders = 1
  <2>1. QuotesNot(V, W, V[ref].side, V[ref].price)
    BY <1>4, <1>6 DEF QuotesNot
  <2> QED
    BY <1>1, <1>2, <1>3, <1>6, <2>1 DEF TallyMoves
<1>7. CASE Tally(V, V[ref].side, V[ref].price).orders # 1
  <2>1. Quotes(V, W, V[ref].side, V[ref].price)
    BY <1>4, <1>5, <1>7 DEF Quotes
  <2> QED
    BY <1>1, <1>2, <1>3, <1>7, <2>1 DEF TallyMoves
<1> QED
  BY <1>6, <1>7

(* An order loses shares. *)
Less(V, ref, q) == [V EXCEPT ![ref].qty = @ - q]

LEMMA ViewLess ==
    ASSUME NEW V, IsView(V), NEW ref \in DOMAIN V, NEW q \in Nat, q < V[ref].qty,
           NEW W, W = Less(V, ref, q)
    PROVE  LET side == V[ref].side
               px == V[ref].price
               t == Tally(V, side, px) IN
           /\ IsView(W) /\ DOMAIN W = DOMAIN V /\ Quotes(V, W, side, px)
           /\ TallyMoves(V, W, side, px, Sum(t.qty - q, t.orders))
<1>0. V[ref] = Rests(V[ref].side, V[ref].price, V[ref].qty) /\ V[ref].qty \in Nat
  BY DEF IsView
<1>1. /\ DOMAIN W = DOMAIN V /\ W = [r \in DOMAIN W |-> W[r]]
      /\ \A r \in DOMAIN V : r # ref => W[r] = V[r]
      /\ W[ref] = Rests(V[ref].side, V[ref].price, V[ref].qty - q)
  <2>1. W[ref] = [V[ref] EXCEPT !.qty = @ - q]
    BY DEF Less
  <2>2. W[ref] = Rests(V[ref].side, V[ref].price, V[ref].qty - q)
    BY <1>0, <2>1 DEF Rests
  <2> QED
    BY <2>2 DEF Less
<1>2. \A r \in DOMAIN V : /\ W[r].side = V[r].side /\ W[r].price = V[r].price
                          /\ W[r].qty = IF r = ref THEN V[r].qty - q ELSE V[r].qty
  BY <1>1, RestsParts
<1>3. IsView(W)
  <2>1. ASSUME NEW r \in DOMAIN W
        PROVE  /\ W[r] = Rests(W[r].side, W[r].price, W[r].qty)
               /\ W[r].side \in HP!Sides
               /\ W[r].price \in Nat \ {0} /\ W[r].qty \in Nat \ {0}
    <3>1. CASE r = ref
      <4>1. W[r].qty \in Nat \ {0}
        <5>1. PICK v : v = V[ref].qty
          OBVIOUS
        <5>2. W[r].qty = v - q
          BY <1>2, <3>1, <5>1
        <5>3. v \in Nat /\ q < v
          BY <1>0, <5>1
        <5> QED
          BY <5>2, <5>3
      <4>2. W[r] = Rests(W[r].side, W[r].price, W[r].qty)
        BY <1>1, <3>1, RestsParts
      <4> QED
        BY <1>2, <3>1, <4>1, <4>2 DEF IsView
    <3>2. CASE r # ref
      <4>1. r \in DOMAIN V /\ W[r] = V[r]
        BY <1>1, <3>2
      <4> QED
        BY <4>1 DEF IsView
    <3> QED
      BY <3>1, <3>2
  <2> QED
    BY <1>1, <2>1 DEF IsView
<1>4. ASSUME NEW s PROVE Quoted(W, s) = Quoted(V, s)
  BY <1>1, <1>2 DEF Quoted
<1>5. ASSUME NEW s, NEW p
      PROVE  Tally(W, s, p) =
             IF s = V[ref].side /\ p = V[ref].price
             THEN Sum(Tally(V, s, p).qty - q, Tally(V, s, p).orders)
             ELSE Tally(V, s, p)
  <2> DEFINE A == At(V, s, p)
             B == A \ {ref}
  <2>1. HP!Counts(V, A) /\ HP!Counts(V, B) /\ At(W, s, p) = A /\ HP!Counts(W, A)
    <3>1. At(W, s, p) = A
      BY <1>1, <1>2 DEF At
    <3>2. HP!Counts(V, A) /\ HP!Counts(W, A)
      BY <1>3, <3>1, AtCounts
    <3>3. HP!Counts(V, B)
      BY <3>2, SameFinite, FS_Subset DEF HP!Counts
    <3> QED
      BY <3>1, <3>2, <3>3
  <2>2. ref \in A <=> s = V[ref].side /\ p = V[ref].price
    BY DEF At
  <2>3. \A r \in B : W[r].qty = V[r].qty
    BY <1>2 DEF At
  <2> HIDE DEF A, B
  <2>4. HP!SumOf(W, B) = HP!SumOf(V, B) /\ HP!SumOf(V, B) \in Nat
    <3>1. HP!SumOf(V, B) \in Nat
      BY <2>1, HP!SumIsNat
    <3>2. HP!SumOf(W, B) = HP!SumOf(V, B)
      BY <2>1, <2>3, HP!SumSame
    <3> QED
      BY <3>1, <3>2
  <2>5. CASE s = V[ref].side /\ p = V[ref].price
    <3>1. HP!SumOf(V, A) = V[ref].qty + HP!SumOf(V, B)
      BY <2>1, <2>2, <2>5, HP!SumWithout DEF B
    <3>2. HP!SumOf(W, A) = W[ref].qty + HP!SumOf(W, B)
      <4>1. HP!Counts(W, A) /\ ref \in A
        BY <2>1, <2>2, <2>5
      <4>2. HP!SumOf(W, A) = W[ref].qty + HP!SumOf(W, A \ {ref})
        BY <4>1, HP!SumWithout
      <4> QED
        BY <4>2 DEF B
    <3>3. W[ref].qty = V[ref].qty - q
      BY <1>2
    <3>4. HP!SumOf(W, A) = HP!SumOf(V, A) - q
      BY <1>0, <2>4, <3>1, <3>2, <3>3
    <3> QED
      BY <2>1, <2>5, <3>4, SumParts DEF Tally, A
  <2>6. CASE ~(s = V[ref].side /\ p = V[ref].price)
    <3>1. B = A
      BY <2>2, <2>6 DEF B
    <3> QED
      BY <2>1, <2>4, <2>6, <3>1 DEF Tally, A
  <2> QED
    BY <2>5, <2>6
<1>6. V[ref].price \in Quoted(V, V[ref].side)
  BY DEF Quoted
<1>7. Quotes(V, W, V[ref].side, V[ref].price)
  BY <1>4, <1>6 DEF Quotes
<1> QED
  BY <1>1, <1>3, <1>5, <1>7 DEF TallyMoves

-----------------------------------------------------------------------------
(* The aggregates of a side, by price. *)
LevelsOf(V) == [s \in HP!Sides |-> [p \in Quoted(V, s) |-> Tally(V, s, p)]]

LEMMA TallyIs ==
    ASSUME NEW V, IsView(V), NEW s, NEW p
    PROVE  /\ Tally(V, s, p) = Sum(Tally(V, s, p).qty, Tally(V, s, p).orders)
           /\ Tally(V, s, p).qty \in Nat /\ Tally(V, s, p).orders \in Nat
           /\ p \in Quoted(V, s) <=> Tally(V, s, p).orders # 0
           /\ p \notin Quoted(V, s) => Tally(V, s, p) = Sum(0, 0)
<1>1. /\ HP!Counts(V, At(V, s, p)) /\ Cardinality(At(V, s, p)) \in Nat
      /\ HP!SumOf(V, At(V, s, p)) \in Nat
      /\ p \in Quoted(V, s) <=> At(V, s, p) # {}
      /\ p \in Quoted(V, s) <=> Cardinality(At(V, s, p)) # 0
  BY AtCounts
<1>2. HP!SumOf(V, {}) = 0
  BY <1>1, HP!SumIsNat
<1>3. p \notin Quoted(V, s) => Tally(V, s, p) = Sum(0, 0)
  BY <1>1, <1>2 DEF Tally
<1> QED
  BY <1>1, <1>3, SumParts DEF Tally

(* An order of the view is a part of the aggregate at its price. *)
LEMMA TallyHas ==
    ASSUME NEW V, IsView(V), NEW ref \in DOMAIN V
    PROVE  /\ V[ref].side \in HP!Sides /\ V[ref].price \in Nat \ {0} /\ V[ref].qty \in Nat \ {0}
           /\ V[ref].price \in Quoted(V, V[ref].side)
  BY DEF IsView, Quoted

LEMMA NoView ==
    /\ IsView(<< >>) /\ DOMAIN << >> = {} /\ \A s : Quoted(<< >>, s) = {}
<1>1. DOMAIN << >> = {} /\ << >> = [r \in DOMAIN << >> |-> << >>[r]]
  OBVIOUS
<1> QED
  BY <1>1, FS_EmptySet DEF IsView, Quoted

(* The first prices of a finite set are prices of it. *)
LEMMA RankedIn ==
    ASSUME NEW side, NEW ps \in SUBSET Nat, IsFiniteSet(ps)
    PROVE  HP!Promise!Ranked(side, ps) \in Seq(ps)
<1> DEFINE bits == {t \in HP!Grid : HP!Window!PriceOf(t) \in ps}
           over == {p \in ps : ~HP!InGrid(p)}
<1>0. HP!Window!WindowConstants
  BY HybridConstants DEF HP!HybridConstants
<1>1. HP!AtTicks(bits) \cup over = ps
  <2>1. ASSUME NEW p \in ps, HP!InGrid(p) PROVE p \in HP!AtTicks(bits)
    <3>1. HP!TickOf(p) \in HP!Grid /\ HP!Window!PriceOf(HP!TickOf(p)) = p
      BY <1>0, <2>1, HP!TickAtPrice
    <3> QED
      BY <3>1 DEF HP!AtTicks
  <2>2. HP!AtTicks(bits) \subseteq ps
    BY DEF HP!AtTicks
  <2> QED
    BY <2>1, <2>2
<1>2. bits \in SUBSET HP!Grid /\ over \in SUBSET Nat /\ IsFiniteSet(over) /\ \A q \in over : ~HP!InGrid(q)
  BY FS_Subset
<1>3. HP!IsFiniteSet(over)
  BY <1>2, SameFinite
<1> HIDE DEF bits, over
<1>4. /\ HP!Window!Collect(side, bits, over) = HP!Promise!Ranked(side, HP!AtTicks(bits) \cup over)
      /\ HP!Window!Collect(side, bits, over) \in Seq(HP!AtTicks(bits) \cup over)
  BY <1>0, <1>2, <1>3, HP!CollectIs
<1> QED
  BY <1>1, <1>4

-----------------------------------------------------------------------------
(* The map book keeps the aggregates of its orders. *)
MapIs(b, V) == b = [orders |-> V, levels |-> LevelsOf(V)] /\ IsView(V)

LEMMA MapSame ==
    ASSUME NEW b, NEW i, NEW o
    PROVE  /\ Map!Put(b, i, o) = HP!Put(b, i, o) /\ Map!Without(b, i) = HP!Without(b, i)
  BY Zenon DEF Map!Put, HP!Put, Map!Without, HP!Without

LEMMA MapSides == Map!Sides = HP!Sides
  BY DEF Map!Sides, HP!Sides, Map!Promise!Sides, HP!Promise!Sides

LEMMA LevelsPut ==
    ASSUME NEW V, NEW W, NEW side \in HP!Sides, NEW px, NEW x,
           Quotes(V, W, side, px), TallyMoves(V, W, side, px, x)
    PROVE  LevelsOf(W) = [LevelsOf(V) EXCEPT ![side] = HP!Put(LevelsOf(V)[side], px, x)]
<1> DEFINE X == [LevelsOf(V) EXCEPT ![side] = HP!Put(LevelsOf(V)[side], px, x)]
<1>q. \A s : Quoted(W, s) = IF s = side THEN Quoted(V, s) \cup {px} ELSE Quoted(V, s)
  BY DEF Quotes
<1>t. \A s, p : Tally(W, s, p) = IF s = side /\ p = px THEN x ELSE Tally(V, s, p)
  BY DEF TallyMoves
<1>1. \A s \in HP!Sides : LevelsOf(V)[s] = [p \in Quoted(V, s) |-> Tally(V, s, p)]
  BY DEF LevelsOf
<1>2. X = [s \in HP!Sides |-> IF s = side THEN HP!Put(LevelsOf(V)[side], px, x) ELSE LevelsOf(V)[s]]
  BY DEF LevelsOf
<1>3. HP!Put(LevelsOf(V)[side], px, x) = [p \in Quoted(W, side) |-> Tally(W, side, p)]
  BY <1>1, <1>q, <1>t DEF HP!Put
<1>4. ASSUME NEW s \in HP!Sides, s # side
      PROVE  LevelsOf(V)[s] = [p \in Quoted(W, s) |-> Tally(W, s, p)]
  BY <1>1, <1>4, <1>q, <1>t
<1> HIDE DEF X
<1>5. X = [s \in HP!Sides |-> [p \in Quoted(W, s) |-> Tally(W, s, p)]]
  BY <1>2, <1>3, <1>4
<1> QED
  BY <1>5 DEF LevelsOf, X

LEMMA LevelsDrop ==
    ASSUME NEW V, NEW W, NEW side \in HP!Sides, NEW px,
           QuotesNot(V, W, side, px), \E x : TallyMoves(V, W, side, px, x)
    PROVE  LevelsOf(W) = [LevelsOf(V) EXCEPT ![side] = HP!Without(LevelsOf(V)[side], px)]
<1> DEFINE X == [LevelsOf(V) EXCEPT ![side] = HP!Without(LevelsOf(V)[side], px)]
<1>x. PICK x : TallyMoves(V, W, side, px, x)
  OBVIOUS
<1>q. \A s : Quoted(W, s) = IF s = side THEN Quoted(V, s) \ {px} ELSE Quoted(V, s)
  BY DEF QuotesNot
<1>t. \A s, p : Tally(W, s, p) = IF s = side /\ p = px THEN x ELSE Tally(V, s, p)
  BY <1>x DEF TallyMoves
<1>1. \A s \in HP!Sides : LevelsOf(V)[s] = [p \in Quoted(V, s) |-> Tally(V, s, p)]
  BY DEF LevelsOf
<1>2. X = [s \in HP!Sides |-> IF s = side THEN HP!Without(LevelsOf(V)[side], px) ELSE LevelsOf(V)[s]]
  BY DEF LevelsOf
<1>3. HP!Without(LevelsOf(V)[side], px) = [p \in Quoted(W, side) |-> Tally(W, side, p)]
  <2>1. LevelsOf(V)[side] = [p \in Quoted(V, side) |-> Tally(V, side, p)] /\ Quoted(W, side) = Quoted(V, side) \ {px}
    BY <1>1, <1>q
  <2>2. \A p \in Quoted(W, side) : Tally(W, side, p) = Tally(V, side, p)
    BY <2>1, <1>t
  <2> QED
    BY <2>1, <2>2 DEF HP!Without
<1>4. ASSUME NEW s \in HP!Sides, s # side
      PROVE  LevelsOf(V)[s] = [p \in Quoted(W, s) |-> Tally(W, s, p)]
  BY <1>1, <1>4, <1>q, <1>t
<1> HIDE DEF X
<1>5. X = [s \in HP!Sides |-> [p \in Quoted(W, s) |-> Tally(W, s, p)]]
  BY <1>2, <1>3, <1>4
<1> QED
  BY <1>5 DEF LevelsOf, X

(* What an event does to the orders it can reach, V, and to the count of rejections, n: the *)
(* new ones are W and m.                                                                    *)
Added(V, ref, side, px, qty) == IF qty = 0 THEN V ELSE HP!Put(V, ref, Rests(side, px, qty))
AddTo(V, n, W, m, ref, side, px, qty) ==
    \/ W = Added(V, ref, side, px, qty) /\ m = n
    \/ qty # 0 /\ W = V /\ m = n + 1
Gone(V, ref) == IF ref \in DOMAIN V THEN HP!Without(V, ref) ELSE V
Fewer(V, ref, qty) == IF ref \in DOMAIN V /\ qty < V[ref].qty THEN Less(V, ref, qty) ELSE Gone(V, ref)
ReplaceIn(V, n, W, m, old, new, px, qty) ==
    IF old \in DOMAIN V THEN AddTo(HP!Without(V, old), n, W, m, new, V[old].side, px, qty)
    ELSE W = V /\ m = n

LEMMA MapAdds ==
    ASSUME NEW b, NEW V, MapIs(b, V), NEW ref, ref \notin DOMAIN V, NEW side \in HP!Sides,
           NEW px \in Nat \ {0}, NEW qty \in Nat
    PROVE  MapIs(Map!Add(b, ref, side, px, qty), Added(V, ref, side, px, qty))
<1>1. CASE qty = 0
  BY <1>1 DEF Map!Add, Added
<1>2. CASE qty # 0
  <2> DEFINE W == HP!Put(V, ref, Rests(side, px, qty))
             x == Sum(Tally(V, side, px).qty + qty, Tally(V, side, px).orders + 1)
             L == LevelsOf(V)
  <2>0. b.orders = V /\ b.levels = L /\ b = [orders |-> V, levels |-> L] /\ IsView(V)
    BY DEF MapIs
  <2>v. IsView(V)
    BY DEF MapIs
  <2>1. /\ IsView(W) /\ DOMAIN W = DOMAIN V \cup {ref} /\ Quotes(V, W, side, px)
        /\ TallyMoves(V, W, side, px, x)
    <3>1. qty \in Nat \ {0}
      BY <1>2
    <3>2. LET U == HP!Put(V, ref, Rests(side, px, qty)) IN
          /\ IsView(U) /\ DOMAIN U = DOMAIN V \cup {ref} /\ Quotes(V, U, side, px)
          /\ TallyMoves(V, U, side, px,
                        Sum(Tally(V, side, px).qty + qty, Tally(V, side, px).orders + 1))
      BY <2>v, <3>1, ViewPut
    <3> QED
      BY <3>2
  <2>3. L[side] = [p \in Quoted(V, side) |-> Tally(V, side, p)]
    BY DEF LevelsOf
  <2> HIDE DEF W, x
  <2>4. LevelsOf(W) = [L EXCEPT ![side] = HP!Put(L[side], px, x)]
    BY <2>1, LevelsPut
  <2> HIDE DEF L
  <2>5. Map!LevelAt(b, side, px) = Tally(V, side, px)
    <3>1. px \in DOMAIN b.levels[side] <=> px \in Quoted(V, side)
      BY <2>0, <2>3
    <3>2. CASE px \in Quoted(V, side)
      BY <2>0, <2>3, <3>1, <3>2 DEF Map!LevelAt
    <3>3. CASE px \notin Quoted(V, side)
      BY <2>0, <3>1, <3>3, TallyIs DEF Map!LevelAt, Sum
    <3> QED
      BY <3>2, <3>3
  <2>6. [qty |-> Map!LevelAt(b, side, px).qty + qty, orders |-> Map!LevelAt(b, side, px).orders + 1] = x
    BY <2>5 DEF x, Sum
  <2>7. Map!SetLevel(b, side, px, x) = [orders |-> V, levels |-> LevelsOf(W)]
    <3>1. Map!SetLevel(b, side, px, x) = [orders |-> V, levels |-> [L EXCEPT ![side] = Map!Put(L[side], px, x)]]
      BY <2>0 DEF Map!SetLevel
    <3> QED
      BY <2>4, <3>1, MapSame
  <2>8. Map!Add(b, ref, side, px, qty) =
        [Map!SetLevel(b, side, px, x) EXCEPT !.orders = Map!Put(@, ref, Rests(side, px, qty))]
    BY <1>2, <2>6 DEF Map!Add, Rests
  <2>9. Map!Add(b, ref, side, px, qty) = [orders |-> Map!Put(V, ref, Rests(side, px, qty)), levels |-> LevelsOf(W)]
    BY <2>7, <2>8
  <2>10. Map!Put(V, ref, Rests(side, px, qty)) = W
    BY MapSame DEF W
  <2> QED
    BY <1>2, <2>1, <2>9, <2>10 DEF MapIs, Added, W
<1> QED
  BY <1>1, <1>2

LEMMA MapDetaches ==
    ASSUME NEW b, NEW V, MapIs(b, V), NEW ref \in DOMAIN V
    PROVE  MapIs(Map!Detach(b, ref), HP!Without(V, ref))
<1> DEFINE W == HP!Without(V, ref)
           s0 == V[ref].side
           p0 == V[ref].price
           q0 == V[ref].qty
           L == LevelsOf(V)
           x == Sum(Tally(V, s0, p0).qty - q0, Tally(V, s0, p0).orders - 1)
<1>0. b.orders = V /\ b.levels = L /\ b = [orders |-> V, levels |-> L] /\ IsView(V)
  BY DEF MapIs
<1>a. s0 \in HP!Sides /\ p0 \in Nat \ {0} /\ q0 \in Nat \ {0} /\ p0 \in Quoted(V, s0)
  BY <1>0, TallyHas
<1>1. /\ IsView(W)
      /\ IF Tally(V, s0, p0).orders = 1 THEN QuotesNot(V, W, s0, p0) ELSE Quotes(V, W, s0, p0)
      /\ TallyMoves(V, W, s0, p0, x)
  BY <1>0, ViewWithout
<1>b. L[s0] = [p \in Quoted(V, s0) |-> Tally(V, s0, p)]
  BY <1>a DEF LevelsOf
<1>2. Map!LevelAt(b, s0, p0) = Tally(V, s0, p0)
  BY <1>0, <1>a, <1>b DEF Map!LevelAt
<1>3. Tally(V, s0, p0).orders \in Nat
  BY <1>0, TallyIs
<1>4. Map!Detach(b, ref) =
      [(IF x.orders = 0 THEN [b EXCEPT !.levels[s0] = Map!Without(@, p0)]
        ELSE Map!SetLevel(b, s0, p0, x)) EXCEPT !.orders = Map!Without(@, ref)]
  BY <1>0, <1>2 DEF Map!Detach, Sum
<1>5. x.orders = 0 <=> Tally(V, s0, p0).orders = 1
  BY <1>3, SumParts
<1>6. Map!Without(V, ref) = W
  BY MapSame
<1> HIDE DEF W, x, L, s0, p0, q0
<1>7. CASE x.orders = 0
  <2>1. LevelsOf(W) = [L EXCEPT ![s0] = HP!Without(L[s0], p0)]
    <3>1. QuotesNot(V, W, s0, p0) /\ \E y : TallyMoves(V, W, s0, p0, y)
      BY <1>1, <1>5, <1>7
    <3>s. s0 \in HP!Sides
      BY <1>a
    <3>p. PICK s \in HP!Sides : s = s0
      BY <3>s
    <3>q. PICK p, U : p = p0 /\ U = W
      OBVIOUS
    <3>2. LevelsOf(U) = [LevelsOf(V) EXCEPT ![s] = HP!Without(LevelsOf(V)[s], p)]
      <4>1. QuotesNot(V, U, s, p) /\ \E y : TallyMoves(V, U, s, p, y)
        BY <3>1, <3>p, <3>q
      <4> QED
        BY ONLY LevelsDrop, <4>1, s \in HP!Sides
    <3> QED
      BY <3>2, <3>p, <3>q DEF L
  <2>2. [b EXCEPT !.levels[s0] = Map!Without(@, p0)] = [orders |-> V, levels |-> [L EXCEPT ![s0] = Map!Without(L[s0], p0)]]
    BY <1>0
  <2>3. Map!Without(L[s0], p0) = HP!Without(L[s0], p0)
    BY MapSame
  <2>4. Map!Detach(b, ref) = [orders |-> Map!Without(V, ref), levels |-> LevelsOf(W)]
    BY <1>4, <1>7, <2>1, <2>2, <2>3
  <2> QED
    BY <1>1, <1>6, <2>4 DEF MapIs, W
<1>8. CASE x.orders # 0
  <2>1. LevelsOf(W) = [L EXCEPT ![s0] = HP!Put(L[s0], p0, x)]
    <3>1. Quotes(V, W, s0, p0) /\ TallyMoves(V, W, s0, p0, x)
      BY <1>1, <1>5, <1>8
    <3>2. LevelsOf(W) = [LevelsOf(V) EXCEPT ![s0] = HP!Put(LevelsOf(V)[s0], p0, x)]
      BY <1>a, <3>1, LevelsPut, SMTT(30)
    <3> QED
      BY <3>2 DEF L
  <2>2. Map!SetLevel(b, s0, p0, x) = [orders |-> V, levels |-> [L EXCEPT ![s0] = Map!Put(L[s0], p0, x)]]
    BY <1>0 DEF Map!SetLevel
  <2>3. Map!Put(L[s0], p0, x) = HP!Put(L[s0], p0, x)
    BY MapSame
  <2>4. Map!Detach(b, ref) = [orders |-> Map!Without(V, ref), levels |-> LevelsOf(W)]
    BY <1>4, <1>8, <2>1, <2>2, <2>3
  <2> QED
    BY <1>1, <1>6, <2>4 DEF MapIs, W
<1> QED
  BY <1>7, <1>8

LEMMA MapShrinks ==
    ASSUME NEW b, NEW V, MapIs(b, V), NEW ref \in DOMAIN V, NEW qty \in Nat, qty < V[ref].qty
    PROVE  MapIs(Map!Reduce(b, ref, qty), Less(V, ref, qty))
<1> DEFINE W == Less(V, ref, qty)
           s0 == V[ref].side
           p0 == V[ref].price
           L == LevelsOf(V)
           x == Sum(Tally(V, s0, p0).qty - qty, Tally(V, s0, p0).orders)
<1>0. b.orders = V /\ b.levels = L /\ b = [orders |-> V, levels |-> L] /\ IsView(V)
  BY DEF MapIs
<1>a. s0 \in HP!Sides /\ p0 \in Nat \ {0} /\ V[ref].qty \in Nat /\ p0 \in Quoted(V, s0)
  BY <1>0, TallyHas
<1>1. IsView(W) /\ Quotes(V, W, s0, p0) /\ TallyMoves(V, W, s0, p0, x)
  BY <1>0, ViewLess
<1>b. L[s0] = [p \in Quoted(V, s0) |-> Tally(V, s0, p)] /\ s0 \in DOMAIN L
  BY <1>a DEF LevelsOf
<1>d. ~(qty >= V[ref].qty)
  BY <1>a
<1>2. Map!Reduce(b, ref, qty) = [orders |-> Less(V, ref, qty),
                                 levels |-> [L EXCEPT ![s0][p0].qty = @ - qty]]
  BY <1>0, <1>d DEF Map!Reduce, Less
<1>3. [Tally(V, s0, p0) EXCEPT !.qty = @ - qty] = x
  <2>1. Tally(V, s0, p0) = Sum(Tally(V, s0, p0).qty, Tally(V, s0, p0).orders)
    BY <1>0, TallyIs
  <2>2. \A c, n : [Sum(c, n) EXCEPT !.qty = @ - qty] = Sum(c - qty, n)
    BY DEF Sum
  <2> QED
    BY <2>1, <2>2
<1>t. L[s0][p0] = Tally(V, s0, p0)
  BY <1>a, <1>b
<1> HIDE DEF W, x, L, s0, p0
<1>4. [L EXCEPT ![s0][p0].qty = @ - qty] = [L EXCEPT ![s0] = HP!Put(L[s0], p0, x)]
  <2>1. [L EXCEPT ![s0][p0].qty = @ - qty] = [L EXCEPT ![s0] = [L[s0] EXCEPT ![p0] = [L[s0][p0] EXCEPT !.qty = @ - qty]]]
    OBVIOUS
  <2>2. [L[s0][p0] EXCEPT !.qty = @ - qty] = x
    BY <1>3, <1>t
  <2>3. [L[s0] EXCEPT ![p0] = x] = HP!Put(L[s0], p0, x)
    BY <1>a, <1>b DEF HP!Put
  <2> QED
    BY <2>1, <2>2, <2>3
<1>5. LevelsOf(W) = [L EXCEPT ![s0] = HP!Put(L[s0], p0, x)]
  BY <1>1, <1>a, LevelsPut DEF L
<1> QED
  BY <1>1, <1>2, <1>4, <1>5 DEF MapIs, W

-----------------------------------------------------------------------------
(* What each event does to the map book. *)
LEMMA BookConstants ==
    /\ \A px \in Prices : px \in Nat \ {0}
    /\ \A qty \in Quantities : qty \in Nat
    /\ Depth \in Nat \ {0} /\ MaxAdds \in Nat /\ MaxRejected \in Nat
  BY HybridConstants, ConstantsAssumption DEF HP!HybridConstants, HP!Promise!BookConstants

LEMMA MapEmpty == MapIs(Map!Empty, << >>)
<1>1. LevelsOf(<< >>) = [s \in HP!Sides |-> << >>]
  <2>1. ASSUME NEW s \in HP!Sides PROVE [p \in Quoted(<< >>, s) |-> Tally(<< >>, s, p)] = << >>
    BY NoView
  <2> QED
    BY <2>1 DEF LevelsOf
<1> QED
  BY <1>1, MapSides, NoView DEF MapIs, Map!Empty

LEMMA MapAddStep ==
    ASSUME NEW V, MapIs(map, V), NEW ref, NEW side \in Map!Sides, NEW px \in Prices,
           NEW qty \in Quantities, Map!OnAdd(ref, side, px, qty)
    PROVE  ref \notin DOMAIN V /\ MapIs(map', Added(V, ref, side, px, qty))
<1>1. map.orders = V /\ ref \notin DOMAIN map.orders /\ map' = Map!Add(map, ref, side, px, qty)
  BY DEF MapIs, Map!OnAdd
<1>2. ref \notin DOMAIN V /\ side \in HP!Sides /\ px \in Nat \ {0} /\ qty \in Nat
  BY <1>1, MapSides, BookConstants
<1>3. MapIs(Map!Add(map, ref, side, px, qty), Added(V, ref, side, px, qty))
  BY <1>2, MapAdds
<1> QED
  BY <1>1, <1>2, <1>3

LEMMA MapRemoves ==
    ASSUME NEW b, NEW V, MapIs(b, V), NEW ref
    PROVE  MapIs(Map!Remove(b, ref), Gone(V, ref))
<1>1. b.orders = V
  BY DEF MapIs
<1>2. CASE ref \in DOMAIN V
  <2>1. MapIs(Map!Detach(b, ref), HP!Without(V, ref))
    BY <1>2, MapDetaches
  <2> QED
    BY <1>1, <1>2, <2>1 DEF Map!Remove, Gone
<1> QED
  BY <1>1, <1>2 DEF Map!Remove, Gone

LEMMA MapReduceStep ==
    ASSUME NEW V, MapIs(map, V), NEW ref, NEW qty \in Quantities, Map!OnReduce(ref, qty)
    PROVE  MapIs(map', Fewer(V, ref, qty))
<1>1. map.orders = V /\ map' = Map!Reduce(map, ref, qty) /\ qty \in Nat /\ IsView(V)
  BY BookConstants DEF MapIs, Map!OnReduce
<1>2. CASE ref \notin DOMAIN V
  BY <1>1, <1>2 DEF Map!Reduce, Fewer, Gone
<1>3. CASE ref \in DOMAIN V /\ qty < V[ref].qty
  <2>1. MapIs(Map!Reduce(map, ref, qty), Less(V, ref, qty))
    BY <1>1, <1>3, MapShrinks
  <2> QED
    BY <1>1, <1>3, <2>1 DEF Fewer
<1>4. CASE ref \in DOMAIN V /\ ~(qty < V[ref].qty)
  <2>1. MapIs(Map!Detach(map, ref), HP!Without(V, ref))
    BY <1>4, MapDetaches
  <2>2. qty >= V[ref].qty
    BY <1>1, <1>4, TallyHas
  <2> QED
    BY <1>1, <1>4, <2>1, <2>2 DEF Map!Reduce, Fewer, Gone
<1> QED
  BY <1>2, <1>3, <1>4

LEMMA MapReplaceStep ==
    ASSUME NEW V, MapIs(map, V), NEW old, NEW new, NEW px \in Prices, NEW qty \in Quantities,
           Map!OnReplace(old, new, px, qty)
    PROVE  /\ new \notin DOMAIN V \ {old}
           /\ MapIs(map', IF old \in DOMAIN V
                          THEN Added(HP!Without(V, old), new, V[old].side, px, qty) ELSE V)
<1>1. /\ map.orders = V /\ new \notin DOMAIN V \ {old} /\ IsView(V)
      /\ map' = Map!Replace(map, old, new, px, qty)
  BY DEF MapIs, Map!OnReplace
<1>2. CASE old \in DOMAIN V
  <2>1. MapIs(Map!Detach(map, old), HP!Without(V, old))
    BY <1>2, MapDetaches
  <2>2. /\ new \notin DOMAIN HP!Without(V, old) /\ V[old].side \in HP!Sides
        /\ px \in Nat \ {0} /\ qty \in Nat
    BY <1>1, <1>2, TallyHas, BookConstants DEF HP!Without
  <2>3. MapIs(Map!Add(Map!Detach(map, old), new, V[old].side, px, qty),
              Added(HP!Without(V, old), new, V[old].side, px, qty))
    BY <2>1, <2>2, MapAdds
  <2> QED
    BY <1>1, <1>2, <2>3 DEF Map!Replace
<1> QED
  BY <1>1, <1>2 DEF Map!Replace

-----------------------------------------------------------------------------
(* What the abstract book says of the map book. *)
LEMMA MapPromise ==
    /\ \A s : Map!Promise!Quoted(s) = Quoted(map.orders, s)
    /\ \A s : Map!Promise!Shown(s) = Recount(map.orders, s)
    /\ Map!Promise!kInvalidPrice = 0
    /\ \A s, ps : Map!Promise!Ranked(s, ps) = HP!Promise!Ranked(s, ps)
<1>1. \A s : Map!Promise!Quoted(s) = Quoted(map.orders, s)
  BY Zenon DEF Map!Promise!Quoted, Quoted
<1>2. \A s, ps : Map!Promise!Ranked(s, ps) = HP!Promise!Ranked(s, ps)
  BY Zenon DEF Map!Promise!Ranked, HP!Promise!Ranked, Map!Promise!Better,
     HP!Promise!Better, Map!Promise!Cardinality, HP!Promise!Cardinality,
     Map!Promise!IsFiniteSet, HP!Promise!IsFiniteSet, Map!Promise!Min, HP!Promise!Min
<1>3. \A s, p : Map!Promise!Level(s, p) =
        [price |-> p, orders |-> Tally(map.orders, s, p).orders, qty |-> Tally(map.orders, s, p).qty]
  <2>1. \A s, p : Map!Promise!At(s, p) = At(map.orders, s, p)
    BY Zenon DEF Map!Promise!At, At
  <2>2. \A S : Map!Promise!Cardinality(S) = Cardinality(S)
    BY Zenon DEF Map!Promise!Cardinality, Cardinality, Map!Promise!IsFiniteSet, IsFiniteSet
  <2>3. \A S : Map!Promise!MapThenSumSet(LAMBDA r : map.orders[r].qty, S) = HP!SumOf(map.orders, S)
    BY Zenon DEF Map!Promise!MapThenSumSet, Map!Promise!MapThenFoldSet, HP!MapThenSumSet,
       HP!MapThenFoldSet, HP!SumOf
  <2>4. \A s, p : Map!Promise!Level(s, p) = [price |-> p, orders |-> Cardinality(At(map.orders, s, p)),
                                             qty |-> HP!SumOf(map.orders, At(map.orders, s, p))]
    BY Zenon, <2>1, <2>2, <2>3 DEF Map!Promise!Level
  <2> QED
    BY <2>4, SumParts DEF Tally
<1>4. \A s : Map!Promise!Shown(s) = Recount(map.orders, s)
  BY <1>1, <1>2, <1>3 DEF Map!Promise!Shown, Recount
<1> QED
  BY <1>1, <1>2, <1>4 DEF Map!Promise!kInvalidPrice

LEMMA MapShows == ASSUME MapIs(map, map.orders) PROVE Map!ShowsItsOrders
<1> DEFINE V == map.orders
<1>1. map.levels = LevelsOf(V) /\ IsView(V)
  BY DEF MapIs
<1>2. ASSUME NEW s \in HP!Sides
      PROVE  /\ Map!Snapshot(map, s) = Recount(V, s)
             /\ Map!BestPrice(map, s) = Map!Promise!Best(s)
  <2>1. map.levels[s] = [p \in Quoted(V, s) |-> Tally(V, s, p)]
    BY <1>1 DEF LevelsOf
  <2>2. DOMAIN map.levels[s] = Quoted(V, s)
    BY <2>1
  <2> DEFINE ps == HP!Promise!Ranked(s, Quoted(V, s))
  <2>3. ps \in Seq(Quoted(V, s))
    <3>1. IsFiniteSet(Quoted(V, s)) /\ Quoted(V, s) \in SUBSET Nat
      BY <1>1, QuotedFinite
    <3> QED
      BY <3>1, RankedIn
  <2>4. Map!Promise!Ranked(s, DOMAIN map.levels[s]) = ps
    BY <2>2, MapPromise
  <2> HIDE DEF ps
  <2>5. \A i \in DOMAIN ps : ps[i] \in Quoted(V, s)
    BY <2>3
  <2>6. \A i \in DOMAIN ps : map.levels[s][ps[i]] = Tally(V, s, ps[i])
    BY <2>1, <2>5
  <2>7. Map!Snapshot(map, s) = [i \in DOMAIN ps |-> [price |-> ps[i], qty |-> Tally(V, s, ps[i]).qty,
                                                      orders |-> Tally(V, s, ps[i]).orders]]
    BY <2>4, <2>6 DEF Map!Snapshot
  <2>8. Recount(V, s) = [i \in DOMAIN ps |-> [price |-> ps[i], orders |-> Tally(V, s, ps[i]).orders,
                                               qty |-> Tally(V, s, ps[i]).qty]]
    BY DEF Recount, ps
  <2>9. Map!BestPrice(map, s) = Map!Promise!Best(s)
    BY <2>2, MapPromise DEF Map!BestPrice, Map!Promise!Best
  <2> QED
    BY <2>7, <2>8, <2>9
<1> QED
  BY <1>2, MapSides, MapPromise DEF Map!ShowsItsOrders

LEMMA MapIsOwn == ASSUME NEW V, MapIs(map, V) PROVE map.orders = V
  BY DEF MapIs

LEMMA MapsOrders == ASSUME NEW b, NEW V, MapIs(b, V) PROVE b.orders = V
  BY DEF MapIs

LEMMA MapInit == Init => MapIs(map, map.orders)
  BY MapEmpty, MapIsOwn DEF Init, Map!Empty

LEMMA MapStays == ASSUME MapIs(map, map.orders), [Next]_books PROVE MapIs(map, map.orders)'
<1> DEFINE V == map.orders
<1>0. MapIs(map, V) /\ IsView(V)
  BY DEF MapIs
<1>w. SUFFICES \E W : MapIs(map', W)
  BY DEF MapIs
<1> HIDE DEF V
<1>1. CASE AddEvent
  BY <1>0, <1>1, MapAddStep DEF AddEvent
<1>2. CASE ReduceEvent
  BY <1>0, <1>2, MapReduceStep DEF ReduceEvent
<1>3. CASE DeleteEvent
  BY <1>0, <1>3, MapRemoves DEF DeleteEvent, Map!OnRemove
<1>4. CASE ReplaceEvent
  BY <1>0, <1>4, MapReplaceStep DEF ReplaceEvent
<1>5. CASE AskBest \/ UNCHANGED books
  BY <1>0, <1>5 DEF AskBest, books
<1>6. CASE ClearAll
  BY <1>6, MapEmpty DEF ClearAll, Map!Clear
<1> QED
  BY <1>1, <1>2, <1>3, <1>4, <1>5, <1>6 DEF Next

LEMMA MapHolds == Spec => []MapIs(map, map.orders)
  BY MapInit, MapStays, PTL DEF Spec

(* What the events do is what the abstract book does. *)
LEMMA MapSteps ==
    ASSUME MapIs(map, map.orders), [Next]_books PROVE [Map!Promise!Next]_(Map!Promise!vars)
<1> DEFINE V == map.orders
<1>0. MapIs(map, V) /\ V = map.orders /\ IsView(V)
  BY DEF MapIs
<1>s. Map!Promise!Sides = Map!Sides
  BY DEF Map!Sides
<1>p. /\ \A f, i, o : Map!Promise!Put(f, i, o) = HP!Put(f, i, o)
      /\ \A f, i : Map!Promise!Without(f, i) = HP!Without(f, i)
  BY Zenon DEF Map!Promise!Put, HP!Put, Map!Promise!Without, HP!Without
<1> HIDE DEF V
<1>1. CASE AddEvent
  <2>1. PICK ref \in Refs, side \in Map!Sides, px \in Prices, qty \in Quantities :
             Map!OnAdd(ref, side, px, qty)
    BY <1>1 DEF AddEvent
  <2>2. ref \notin DOMAIN V /\ map'.orders = Added(V, ref, side, px, qty)
    <3>1. PICK W : W = Added(V, ref, side, px, qty)
      OBVIOUS
    <3>2. ref \notin DOMAIN V /\ MapIs(map', W)
      BY <1>0, <2>1, <3>1, MapAddStep
    <3> QED
      BY <3>1, <3>2, MapsOrders
  <2>3. Map!Promise!Add(ref, side, px, qty)
    BY <1>0, <1>p, <2>2 DEF Map!Promise!Add, Map!Promise!Join, Added, Rests
  <2> QED
    BY <1>0, <1>s, <2>2, <2>3 DEF Map!Promise!Next
<1>2. CASE ReduceEvent
  <2>1. PICK ref \in Refs, qty \in Quantities : Map!OnReduce(ref, qty)
    BY <1>2 DEF ReduceEvent
  <2>2. map'.orders = Fewer(V, ref, qty)
    BY <1>0, <2>1, MapReduceStep DEF MapIs
  <2>3. CASE ref \in DOMAIN V
    <3>1. qty >= V[ref].qty <=> ~(qty < V[ref].qty)
      BY <1>0, <2>3, TallyHas, BookConstants
    <3>2. Map!Promise!Reduce(ref, qty)
      BY <1>0, <1>p, <2>2, <2>3, <3>1 DEF Map!Promise!Reduce, Fewer, Gone, Less
    <3> QED
      BY <1>0, <2>3, <3>2 DEF Map!Promise!Next
  <2>4. CASE ref \notin DOMAIN V
    BY <1>0, <2>2, <2>4 DEF Fewer, Gone, Map!Promise!vars
  <2> QED
    BY <2>3, <2>4
<1>3. CASE DeleteEvent
  <2>1. PICK ref \in Refs : Map!OnRemove(ref)
    BY <1>3 DEF DeleteEvent
  <2>2. map'.orders = Gone(V, ref)
    BY <1>0, <2>1, MapRemoves DEF MapIs, Map!OnRemove
  <2>3. CASE ref \in DOMAIN V
    <3>2. Map!Promise!Remove(ref)
      BY <1>0, <1>p, <2>2, <2>3 DEF Map!Promise!Remove, Gone
    <3> QED
      BY <1>0, <2>3, <3>2 DEF Map!Promise!Next
  <2>4. CASE ref \notin DOMAIN V
    BY <1>0, <2>2, <2>4 DEF Gone, Map!Promise!vars
  <2> QED
    BY <2>3, <2>4
<1>4. CASE ReplaceEvent
  <2>1. PICK old \in Refs, new \in Refs, px \in Prices, qty \in Quantities :
             Map!OnReplace(old, new, px, qty)
    BY <1>4 DEF ReplaceEvent
  <2>2. /\ new \notin DOMAIN V \ {old}
        /\ map'.orders = IF old \in DOMAIN V
                         THEN Added(HP!Without(V, old), new, V[old].side, px, qty) ELSE V
    <3>1. /\ new \notin DOMAIN V \ {old}
           /\ MapIs(map', IF old \in DOMAIN V
                          THEN Added(HP!Without(V, old), new, V[old].side, px, qty) ELSE V)
      BY <1>0, <2>1, MapReplaceStep
    <3> QED
      BY <3>1 DEF MapIs
  <2>3. CASE old \in DOMAIN V
    <3>1. new \in (Refs \ DOMAIN V) \cup {old}
      BY <2>2
    <3>2. Map!Promise!Replace(old, new, px, qty)
      BY <1>0, <1>p, <2>2, <2>3 DEF Map!Promise!Replace, Map!Promise!Join, Added, Rests
    <3> QED
      BY <1>0, <2>3, <3>1, <3>2 DEF Map!Promise!Next
  <2>4. CASE old \notin DOMAIN V
    BY <1>0, <2>2, <2>4 DEF Map!Promise!vars
  <2> QED
    BY <2>3, <2>4
<1>5. CASE AskBest \/ UNCHANGED books
  BY <1>5 DEF AskBest, books, Map!Promise!vars
<1>6. CASE ClearAll
  <2>1. Map!Promise!Clear
    BY <1>6 DEF ClearAll, Map!Clear, Map!Empty, Map!Promise!Clear
  <2> QED
    BY <2>1 DEF Map!Promise!Next
<1> QED
  BY <1>1, <1>2, <1>3, <1>4, <1>5, <1>6 DEF Next

LEMMA MapIsBook == Spec => Map!ImplementsBook
<1>1. Init => Map!Promise!Init
  BY DEF Init, Map!Empty, Map!Promise!Init
<1> QED
  BY <1>1, MapSteps, MapHolds, PTL DEF Spec, Map!ImplementsBook, Map!Promise!Spec

-----------------------------------------------------------------------------
(* The flat book's window is the hybrid book's. *)
LEMMA FlatWindow ==
    ASSUME NEW p, NEW s, NEW h, NEW t, NEW bits
    PROVE  /\ Flat!InGrid(p) <=> HP!InGrid(p)
           /\ Flat!TickOf(p) = HP!TickOf(p) /\ Flat!Window!PriceOf(t) = HP!Window!PriceOf(t)
           /\ Flat!Window!Improved(s, h, t) = HP!Window!Improved(s, h, t)
           /\ Flat!Window!Forgotten(h, t) = HP!Window!Forgotten(h, t)
           /\ Flat!Window!Ticks = HP!Window!Ticks /\ Flat!Window!NoTick = HP!Window!NoTick
<1>1. /\ Flat!InGrid(p) <=> HP!InGrid(p)
      /\ Flat!TickOf(p) = HP!TickOf(p) /\ Flat!Window!PriceOf(t) = HP!Window!PriceOf(t)
  BY Zenon DEF Flat!InGrid, HP!InGrid, Flat!TickOf, HP!TickOf, Flat!Window!Floor, HP!Window!Floor,
               Flat!Window!Ticks, HP!Window!Ticks, Flat!Window!InGrid, HP!Window!InGrid,
               Flat!Window!TickOf, HP!Window!TickOf, Flat!Window!PriceOf, HP!Window!PriceOf
<1>2. Flat!Window!Improved(s, h, t) = HP!Window!Improved(s, h, t)
  BY Zenon DEF Flat!Window!Improved, HP!Window!Improved, Flat!Window!NoTick, HP!Window!NoTick,
               Flat!Window!Max, HP!Window!Max, Flat!Window!Min, HP!Window!Min
<1>3. Flat!Window!Forgotten(h, t) = HP!Window!Forgotten(h, t)
  BY Zenon DEF Flat!Window!Forgotten, HP!Window!Forgotten, Flat!Window!NoTick, HP!Window!NoTick
<1>4. Flat!Window!Ticks = HP!Window!Ticks /\ Flat!Window!NoTick = HP!Window!NoTick
  BY Zenon DEF Flat!Window!Ticks, HP!Window!Ticks, Flat!Window!Floor, HP!Window!Floor,
               Flat!Window!NoTick, HP!Window!NoTick
<1> QED
  BY <1>1, <1>2, <1>3, <1>4, Zenon

LEMMA FlatAnswers ==
    ASSUME NEW s, NEW h, NEW bits, NEW over
    PROVE  /\ Flat!Window!Refreshed(s, bits, h) = HP!Window!Refreshed(s, bits, h)
           /\ Flat!Window!BestOf(s, h, over) = HP!Window!BestOf(s, h, over)
           /\ Flat!Window!Collect(s, bits, over) = HP!Window!Collect(s, bits, over)
<1>1. Flat!Window!Refreshed(s, bits, h) = HP!Window!Refreshed(s, bits, h)
  BY Zenon DEF Flat!Window!Refreshed, HP!Window!Refreshed, Flat!Window!FirstTick,
               HP!Window!FirstTick, Flat!Window!Scan, HP!Window!Scan, Flat!Window!ScanDown,
               HP!Window!ScanDown, Flat!Window!ScanUp, HP!Window!ScanUp, Flat!Window!NoTick,
               HP!Window!NoTick, Flat!Window!Ticks, HP!Window!Ticks, Flat!Window!Floor,
               HP!Window!Floor, Flat!Window!Max, HP!Window!Max, Flat!Window!Min, HP!Window!Min
<1>2. Flat!Window!BestOf(s, h, over) = HP!Window!BestOf(s, h, over)
  <2>1. Flat!Window!Outermost(s, over) = HP!Window!Outermost(s, over)
    BY Zenon DEF Flat!Window!Outermost, HP!Window!Outermost, Flat!Window!Max, HP!Window!Max,
                 Flat!Window!Min, HP!Window!Min
  <2>2. \A p, q : Flat!Window!Better(s, p, q) <=> HP!Window!Better(s, p, q)
    BY Zenon DEF Flat!Window!Better, HP!Window!Better
  <2>3. Flat!Window!PriceOf(h) = HP!Window!PriceOf(h)
    BY Zenon DEF Flat!Window!PriceOf, HP!Window!PriceOf, Flat!Window!Floor, HP!Window!Floor
  <2>4. Flat!Window!kInvalidPrice = HP!Window!kInvalidPrice /\ Flat!Window!NoTick = HP!Window!NoTick
    BY Zenon DEF Flat!Window!kInvalidPrice, HP!Window!kInvalidPrice, Flat!Window!NoTick, HP!Window!NoTick
  <2> QED
    BY <2>1, <2>2, <2>3, <2>4, Zenon DEF Flat!Window!BestOf, HP!Window!BestOf
<1>3. Flat!Window!Collect(s, bits, over) = HP!Window!Collect(s, bits, over)
  BY Zenon DEF Flat!Window!Collect, HP!Window!Collect, Flat!Window!Visit, HP!Window!Visit,
     Flat!Window!TakesGrid, HP!Window!TakesGrid, Flat!Window!FirstTick,
     HP!Window!FirstTick, Flat!Window!Scan, HP!Window!Scan, Flat!Window!ScanDown,
     HP!Window!ScanDown, Flat!Window!ScanUp, HP!Window!ScanUp, Flat!Window!NoTick,
     HP!Window!NoTick, Flat!Window!Max, HP!Window!Max, Flat!Window!Min, HP!Window!Min,
     Flat!Window!Outermost, HP!Window!Outermost, Flat!Window!Better, HP!Window!Better,
     Flat!Window!PriceOf, HP!Window!PriceOf, Flat!Window!Floor, HP!Window!Floor,
     Flat!Window!Ticks, HP!Window!Ticks
<1> QED
  BY <1>1, <1>2, <1>3

LEMMA FlatSides == Flat!Sides = HP!Sides
  BY DEF Flat!Sides, HP!Sides, Flat!Promise!Sides, HP!Promise!Sides

LEMMA FlatMaps ==
    ASSUME NEW f, NEW i, NEW o
    PROVE  Flat!Put(f, i, o) = HP!Put(f, i, o) /\ Flat!Without(f, i) = HP!Without(f, i)
  BY Zenon DEF Flat!Put, HP!Put, Flat!Without, HP!Without

LEMMA WindowIs == HP!Window!WindowConstants
  BY HybridConstants DEF HP!HybridConstants

LEMMA InWindow ==
    ASSUME NEW px \in Nat, HP!InGrid(px)
    PROVE  HP!TickOf(px) \in HP!Grid /\ HP!Window!PriceOf(HP!TickOf(px)) = px
  BY WindowIs, HP!TickAtPrice

LEMMA AtWindow ==
    ASSUME NEW t \in HP!Grid
    PROVE  /\ HP!Window!PriceOf(t) \in Nat /\ HP!InGrid(HP!Window!PriceOf(t))
           /\ HP!TickOf(HP!Window!PriceOf(t)) = t
  BY WindowIs, HP!PriceAtTick

-----------------------------------------------------------------------------
(* The flat book of the orders V. *)
GridOf(V) == [s \in HP!Sides |-> [t \in HP!Grid |-> Tally(V, s, HP!Window!PriceOf(t))]]
BitsOf(V) == [s \in HP!Sides |-> {t \in HP!Grid : HP!Window!PriceOf(t) \in Quoted(V, s)}]
Outside(V, s) == {p \in Quoted(V, s) : ~HP!InGrid(p)}
OverOf(V) == [s \in HP!Sides |-> [p \in Outside(V, s) |-> Tally(V, s, p)]]

HintsAt(hint, V) ==
    /\ hint = [s \in HP!Sides |-> hint[s]]
    /\ \A s \in HP!Sides : hint[s] = HP!Window!NoTick \/ hint[s] \in BitsOf(V)[s]

FlatFields == {"capacity", "ids", "rejected", "grid", "bits", "hint", "over"}
FlatOf(b, V) ==
    /\ DOMAIN b = FlatFields
    /\ b.ids = V /\ b.grid = GridOf(V) /\ b.bits = BitsOf(V) /\ b.over = OverOf(V)
FlatIs(b, V) == /\ IsView(V) /\ FlatOf(b, V) /\ HintsAt(b.hint, V)
                /\ b.rejected \in Nat

LEMMA GridSet ==
    ASSUME NEW V, NEW W, NEW side \in HP!Sides, NEW px \in Nat, NEW x, HP!InGrid(px),
           TallyMoves(V, W, side, px, x)
    PROVE  GridOf(W) = [GridOf(V) EXCEPT ![side] = [GridOf(V)[side] EXCEPT ![HP!TickOf(px)] = x]]
<1> DEFINE t0 == HP!TickOf(px)
           X == [GridOf(V) EXCEPT ![side] = [GridOf(V)[side] EXCEPT ![t0] = x]]
<1>1. t0 \in HP!Grid /\ HP!Window!PriceOf(t0) = px
  BY InWindow
<1>2. \A t \in HP!Grid : HP!Window!PriceOf(t) = px <=> t = t0
  BY <1>1, AtWindow
<1>t. \A s, p : Tally(W, s, p) = IF s = side /\ p = px THEN x ELSE Tally(V, s, p)
  BY DEF TallyMoves
<1> HIDE DEF t0
<1>3. \A s \in HP!Sides : GridOf(V)[s] = [t \in HP!Grid |-> Tally(V, s, HP!Window!PriceOf(t))]
  BY DEF GridOf
<1>4. X = [s \in HP!Sides |-> IF s = side THEN [GridOf(V)[side] EXCEPT ![t0] = x] ELSE GridOf(V)[s]]
  BY DEF GridOf
<1>5. ASSUME NEW s \in HP!Sides
      PROVE  [t \in HP!Grid |-> Tally(W, s, HP!Window!PriceOf(t))] =
             IF s = side THEN [GridOf(V)[side] EXCEPT ![t0] = x] ELSE GridOf(V)[s]
  <2>1. CASE s # side
    BY <1>3, <1>t, <2>1
  <2>2. CASE s = side
    <3>1. [GridOf(V)[side] EXCEPT ![t0] = x] =
          [t \in HP!Grid |-> IF t = t0 THEN x ELSE Tally(V, side, HP!Window!PriceOf(t))]
      BY <1>3
    <3>2. \A t \in HP!Grid : Tally(W, side, HP!Window!PriceOf(t)) =
                             IF t = t0 THEN x ELSE Tally(V, side, HP!Window!PriceOf(t))
      BY <1>2, <1>t
    <3> QED
      BY <2>2, <3>1, <3>2
  <2> QED
    BY <2>1, <2>2
<1> QED
  BY <1>4, <1>5 DEF GridOf, t0

LEMMA GridStays ==
    ASSUME NEW V, NEW W, NEW side, NEW px, NEW x, ~HP!InGrid(px), TallyMoves(V, W, side, px, x)
    PROVE  GridOf(W) = GridOf(V)
<1>1. \A t \in HP!Grid : HP!Window!PriceOf(t) # px
  BY AtWindow
<1>2. \A s \in HP!Sides, t \in HP!Grid : Tally(W, s, HP!Window!PriceOf(t)) = Tally(V, s, HP!Window!PriceOf(t))
  BY <1>1 DEF TallyMoves
<1> QED
  BY <1>2 DEF GridOf

LEMMA BitsMove ==
    ASSUME NEW V, NEW W, NEW side \in HP!Sides, NEW px \in Nat
    PROVE  /\ Quotes(V, W, side, px) =>
                BitsOf(W) = IF HP!InGrid(px)
                            THEN [BitsOf(V) EXCEPT ![side] = BitsOf(V)[side] \cup {HP!TickOf(px)}]
                            ELSE BitsOf(V)
           /\ QuotesNot(V, W, side, px) =>
                BitsOf(W) = IF HP!InGrid(px)
                            THEN [BitsOf(V) EXCEPT ![side] = BitsOf(V)[side] \ {HP!TickOf(px)}]
                            ELSE BitsOf(V)
<1>1. HP!InGrid(px) => \A t \in HP!Grid : HP!Window!PriceOf(t) = px <=> t = HP!TickOf(px)
  BY InWindow, AtWindow
<1>2. ~HP!InGrid(px) => \A t \in HP!Grid : HP!Window!PriceOf(t) # px
  BY AtWindow
<1>3. HP!InGrid(px) => HP!TickOf(px) \in HP!Grid
  BY InWindow
<1>4. \A s \in HP!Sides : BitsOf(V)[s] = {t \in HP!Grid : HP!Window!PriceOf(t) \in Quoted(V, s)}
  BY DEF BitsOf
<1>x. \A y : [BitsOf(V) EXCEPT ![side] = y] = [s \in HP!Sides |-> IF s = side THEN y ELSE BitsOf(V)[s]]
  BY DEF BitsOf
<1>5. ASSUME Quotes(V, W, side, px)
      PROVE  BitsOf(W) = IF HP!InGrid(px)
                         THEN [BitsOf(V) EXCEPT ![side] = BitsOf(V)[side] \cup {HP!TickOf(px)}]
                         ELSE BitsOf(V)
  <2>1. \A s : Quoted(W, s) = IF s = side THEN Quoted(V, s) \cup {px} ELSE Quoted(V, s)
    BY <1>5 DEF Quotes
  <2>2. CASE HP!InGrid(px)
    <3>1. \A s \in HP!Sides : {t \in HP!Grid : HP!Window!PriceOf(t) \in Quoted(W, s)}
            = IF s = side THEN BitsOf(V)[side] \cup {HP!TickOf(px)} ELSE BitsOf(V)[s]
      BY <1>1, <1>3, <1>4, <2>1, <2>2
    <3> QED
      BY <1>x, <2>2, <3>1 DEF BitsOf
  <2>3. CASE ~HP!InGrid(px)
    <3>1. \A s \in HP!Sides : {t \in HP!Grid : HP!Window!PriceOf(t) \in Quoted(W, s)} = BitsOf(V)[s]
      BY <1>2, <1>4, <2>1, <2>3
    <3> QED
      BY <2>3, <3>1 DEF BitsOf
  <2> QED
    BY <2>2, <2>3
<1>6. ASSUME QuotesNot(V, W, side, px)
      PROVE  BitsOf(W) = IF HP!InGrid(px)
                         THEN [BitsOf(V) EXCEPT ![side] = BitsOf(V)[side] \ {HP!TickOf(px)}]
                         ELSE BitsOf(V)
  <2>1. \A s : Quoted(W, s) = IF s = side THEN Quoted(V, s) \ {px} ELSE Quoted(V, s)
    BY <1>6 DEF QuotesNot
  <2>2. CASE HP!InGrid(px)
    <3>1. \A s \in HP!Sides : {t \in HP!Grid : HP!Window!PriceOf(t) \in Quoted(W, s)}
            = IF s = side THEN BitsOf(V)[side] \ {HP!TickOf(px)} ELSE BitsOf(V)[s]
      BY <1>1, <1>3, <1>4, <2>1, <2>2
    <3> QED
      BY <1>x, <2>2, <3>1 DEF BitsOf
  <2>3. CASE ~HP!InGrid(px)
    <3>1. \A s \in HP!Sides : {t \in HP!Grid : HP!Window!PriceOf(t) \in Quoted(W, s)} = BitsOf(V)[s]
      BY <1>2, <1>4, <2>1, <2>3
    <3> QED
      BY <2>3, <3>1 DEF BitsOf
  <2> QED
    BY <2>2, <2>3
<1> QED
  BY <1>5, <1>6

(* Only the aggregate of one price changes. *)
Moves(V, W, side, px) == \E x : TallyMoves(V, W, side, px, x)

PutAt(f, side, px, x) == [f EXCEPT ![side] = HP!Put(f[side], px, x)]

LEMMA OverPut ==
    ASSUME NEW V, NEW W, NEW side \in HP!Sides, NEW px, NEW x, ~HP!InGrid(px),
           Quotes(V, W, side, px), TallyMoves(V, W, side, px, x)
    PROVE  OverOf(W) = PutAt(OverOf(V), side, px, x)
<1>q. \A s : Outside(W, s) = IF s = side THEN Outside(V, s) \cup {px} ELSE Outside(V, s)
  BY DEF Quotes, Outside
<1>t. \A s, p : Tally(W, s, p) = IF s = side /\ p = px THEN x ELSE Tally(V, s, p)
  BY DEF TallyMoves
<1>1. \A s \in HP!Sides : OverOf(V)[s] = [p \in Outside(V, s) |-> Tally(V, s, p)]
  BY DEF OverOf
<1>2. \A y : [OverOf(V) EXCEPT ![side] = y] = [s \in HP!Sides |-> IF s = side THEN y ELSE OverOf(V)[s]]
  BY DEF OverOf
<1>3. ASSUME NEW s \in HP!Sides
      PROVE  [p \in Outside(W, s) |-> Tally(W, s, p)]
             = IF s = side THEN HP!Put(OverOf(V)[side], px, x) ELSE OverOf(V)[s]
  <2>1. CASE s = side
    <3>1. HP!Put(OverOf(V)[side], px, x)
          = [p \in Outside(V, s) \cup {px} |-> IF p = px THEN x ELSE Tally(V, s, p)]
      BY <1>1, <2>1 DEF HP!Put
    <3> QED
      BY <1>q, <1>t, <2>1, <3>1
  <2>2. CASE s # side
    BY <1>q, <1>t, <1>1, <2>2
  <2> QED
    BY <2>1, <2>2
<1> QED
  BY <1>2, <1>3 DEF OverOf, PutAt

DroppedAt(f, side, px) == [f EXCEPT ![side] = HP!Without(f[side], px)]

LEMMA OverDrop ==
    ASSUME NEW V, NEW W, NEW side \in HP!Sides, NEW px, ~HP!InGrid(px),
           QuotesNot(V, W, side, px), Moves(V, W, side, px)
    PROVE  OverOf(W) = DroppedAt(OverOf(V), side, px)
<1>x. PICK x : TallyMoves(V, W, side, px, x)
  BY DEF Moves
<1>q. \A s : Outside(W, s) = IF s = side THEN Outside(V, s) \ {px} ELSE Outside(V, s)
  BY DEF QuotesNot, Outside
<1>t. \A s, p : Tally(W, s, p) = IF s = side /\ p = px THEN x ELSE Tally(V, s, p)
  BY <1>x DEF TallyMoves
<1>1. \A s \in HP!Sides : OverOf(V)[s] = [p \in Outside(V, s) |-> Tally(V, s, p)]
  BY DEF OverOf
<1>2. \A y : [OverOf(V) EXCEPT ![side] = y] = [s \in HP!Sides |-> IF s = side THEN y ELSE OverOf(V)[s]]
  BY DEF OverOf
<1>3. ASSUME NEW s \in HP!Sides
      PROVE  [p \in Outside(W, s) |-> Tally(W, s, p)]
             = IF s = side THEN HP!Without(OverOf(V)[side], px) ELSE OverOf(V)[s]
  <2>1. CASE s = side
    <3>1. HP!Without(OverOf(V)[side], px) = [p \in Outside(V, s) \ {px} |-> Tally(V, s, p)]
      BY <1>1, <2>1 DEF HP!Without
    <3>2. \A p \in Outside(V, s) \ {px} : Tally(W, s, p) = Tally(V, s, p)
      BY <1>t
    <3> QED
      BY <1>q, <2>1, <3>1, <3>2
  <2>2. CASE s # side
    BY <1>q, <1>t, <1>1, <2>2
  <2> QED
    BY <2>1, <2>2
<1> QED
  BY <1>2, <1>3 DEF OverOf, DroppedAt

LEMMA OverStays ==
    ASSUME NEW V, NEW W, NEW side \in HP!Sides, NEW px, HP!InGrid(px),
           Quotes(V, W, side, px) \/ QuotesNot(V, W, side, px), Moves(V, W, side, px)
    PROVE  OverOf(W) = OverOf(V)
<1>1. \A s : Outside(W, s) = Outside(V, s)
  BY DEF Quotes, QuotesNot, Outside
<1>2. \A s : \A p \in Outside(V, s) : Tally(W, s, p) = Tally(V, s, p)
  BY DEF Moves, TallyMoves, Outside
<1> QED
  BY <1>1, <1>2 DEF OverOf

(* The book b has become that of the orders W, which its id table does not show yet. *)
Became(c, b, W) ==
    /\ DOMAIN c = FlatFields /\ c.grid = GridOf(W) /\ c.bits = BitsOf(W) /\ c.over = OverOf(W)
    /\ HintsAt(c.hint, W) /\ c.rejected = b.rejected /\ c.ids = b.ids /\ c.capacity = b.capacity

LEMMA FlatParts ==
    ASSUME NEW b, NEW V, FlatIs(b, V)
    PROVE  /\ b.ids = V /\ b.grid = GridOf(V) /\ b.bits = BitsOf(V) /\ b.over = OverOf(V)
           /\ DOMAIN b = FlatFields
           /\ DOMAIN b.grid = HP!Sides /\ DOMAIN b.bits = HP!Sides
           /\ DOMAIN b.hint = HP!Sides /\ DOMAIN b.over = HP!Sides
           /\ IsView(V) /\ b.rejected \in Nat
<1>1. DOMAIN GridOf(V) = HP!Sides /\ DOMAIN BitsOf(V) = HP!Sides /\ DOMAIN OverOf(V) = HP!Sides
  BY DEF GridOf, BitsOf, OverOf
<1>2. DOMAIN b.hint = HP!Sides
  BY DEF FlatIs, HintsAt
<1> QED
  BY <1>1, <1>2 DEF FlatIs, FlatOf

LEMMA FlatBecame ==
    ASSUME NEW b, NEW V, FlatIs(b, V), NEW W, IsView(W), NEW c, Became(c, b, W)
    PROVE  /\ FlatIs([c EXCEPT !.ids = W], W)
           /\ [c EXCEPT !.ids = W].rejected = b.rejected /\ [c EXCEPT !.ids = W].capacity = b.capacity
<1> DEFINE d == [c EXCEPT !.ids = W]
<1>1. b.rejected \in Nat
  BY FlatParts
<1>2. /\ DOMAIN d = FlatFields /\ d.ids = W /\ d.grid = c.grid /\ d.bits = c.bits /\ d.over = c.over
      /\ d.hint = c.hint /\ d.rejected = c.rejected /\ d.capacity = c.capacity
  BY DEF Became, FlatFields
<1> HIDE DEF d
<1>3. FlatIs(d, W) /\ d.rejected = b.rejected /\ d.capacity = b.capacity
  BY <1>1, <1>2 DEF FlatIs, FlatOf, Became
<1> QED
  BY <1>3 DEF d

LEMMA HintImproves ==
    ASSUME NEW V, NEW W, NEW hint, HintsAt(hint, V), NEW side \in HP!Sides, NEW px \in Nat,
           HP!InGrid(px), Quotes(V, W, side, px)
    PROVE  HintsAt([hint EXCEPT ![side] = HP!Window!Improved(side, hint[side], HP!TickOf(px))], W)
<1> DEFINE t == HP!TickOf(px)
           h == HP!Window!Improved(side, hint[side], t)
<1>1. t \in HP!Grid /\ HP!Grid \subseteq Int
  BY InWindow, WindowIs, HP!WindowFacts DEF HP!Grid
<1>2. /\ BitsOf(W) = [BitsOf(V) EXCEPT ![side] = BitsOf(V)[side] \cup {t}]
      /\ DOMAIN BitsOf(V) = HP!Sides /\ BitsOf(V)[side] \subseteq HP!Grid
  <2>1. BitsOf(W) = IF HP!InGrid(px)
                    THEN [BitsOf(V) EXCEPT ![side] = BitsOf(V)[side] \cup {HP!TickOf(px)}]
                    ELSE BitsOf(V)
    BY BitsMove
  <2> QED
    BY <2>1 DEF BitsOf
<1>3. hint[side] = HP!Window!NoTick \/ hint[side] \in BitsOf(V)[side]
  BY DEF HintsAt
<1> HIDE DEF t
<1>4. h \in {t, hint[side]} /\ (hint[side] = HP!Window!NoTick => h = t)
  <2>1. CASE hint[side] = HP!Window!NoTick
    BY <2>1 DEF HP!Window!Improved
  <2>2. CASE hint[side] # HP!Window!NoTick
    <3>1. hint[side] \in Int /\ t \in Int
      BY <1>1, <1>2, <1>3, <2>2
    <3>2. HP!Window!Max({hint[side], t}) \in {hint[side], t} /\ HP!Window!Min({hint[side], t}) \in {hint[side], t}
      BY <3>1, HP!MaxOfTwo
    <3> QED
      BY <2>2, <3>2 DEF HP!Window!Improved
  <2> QED
    BY <2>1, <2>2
<1>5. h \in BitsOf(W)[side]
  BY <1>2, <1>3, <1>4
<1> HIDE DEF h
<1>6. \A s \in HP!Sides : s # side => BitsOf(W)[s] = BitsOf(V)[s]
  BY <1>2
<1> QED
  BY <1>5, <1>6 DEF HintsAt, h, t

LEMMA HintForgets ==
    ASSUME NEW V, NEW W, NEW hint, HintsAt(hint, V), NEW side \in HP!Sides, NEW px \in Nat,
           HP!InGrid(px), QuotesNot(V, W, side, px)
    PROVE  HintsAt([hint EXCEPT ![side] = HP!Window!Forgotten(hint[side], HP!TickOf(px))], W)
<1> DEFINE t == HP!TickOf(px)
<1>2. /\ BitsOf(W) = [BitsOf(V) EXCEPT ![side] = BitsOf(V)[side] \ {t}] /\ DOMAIN BitsOf(V) = HP!Sides
  <2>1. BitsOf(W) = IF HP!InGrid(px)
                    THEN [BitsOf(V) EXCEPT ![side] = BitsOf(V)[side] \ {HP!TickOf(px)}]
                    ELSE BitsOf(V)
    BY BitsMove, SMTT(30)
  <2> QED
    BY <2>1 DEF BitsOf
<1> HIDE DEF t
<1> DEFINE h == HP!Window!Forgotten(hint[side], t)
<1>4. h = HP!Window!NoTick \/ h \in BitsOf(W)[side]
  BY <1>2 DEF HP!Window!Forgotten, HintsAt
<1> HIDE DEF h
<1>6. \A s \in HP!Sides : s # side => BitsOf(W)[s] = BitsOf(V)[s]
  BY <1>2
<1> QED
  BY <1>4, <1>6 DEF HintsAt, h, t

LEMMA HintsKept ==
    ASSUME NEW V, NEW W, NEW hint, HintsAt(hint, V), \A s : Quoted(V, s) \subseteq Quoted(W, s)
    PROVE  HintsAt(hint, W)
<1>1. \A s \in HP!Sides : BitsOf(V)[s] \subseteq BitsOf(W)[s]
  BY DEF BitsOf
<1> QED
  BY <1>1 DEF HintsAt

-----------------------------------------------------------------------------
(* deposit moves one aggregate, in the window or in the overflow map. *)
LEMMA SumChanges ==
    ASSUME NEW V, IsView(V), NEW s, NEW p, NEW qty
    PROVE  /\ Flat!More(Tally(V, s, p), qty) = Sum(Tally(V, s, p).qty + qty, Tally(V, s, p).orders + 1)
           /\ Flat!Less(Tally(V, s, p), qty) = Sum(Tally(V, s, p).qty - qty, Tally(V, s, p).orders - 1)
           /\ Flat!None = Sum(0, 0)
  BY DEF Flat!More, Flat!Less, Flat!None, Sum

(* What stands at a price in the window, or beside it. *)
LEMMA FlatAt ==
    ASSUME NEW b, NEW V, FlatIs(b, V), NEW side \in HP!Sides, NEW px \in Nat
    PROVE  /\ HP!InGrid(px) => /\ HP!TickOf(px) \in HP!Grid /\ DOMAIN b.grid[side] = HP!Grid
                               /\ b.grid[side][HP!TickOf(px)] = Tally(V, side, px)
           /\ ~HP!InGrid(px) =>
                /\ px \in DOMAIN b.over[side] <=> px \in Quoted(V, side)
                /\ px \in Quoted(V, side) => b.over[side][px] = Tally(V, side, px)
                /\ px \notin Quoted(V, side) => Tally(V, side, px) = Flat!None
<1>0. b.grid = GridOf(V) /\ b.over = OverOf(V) /\ IsView(V)
  BY FlatParts
<1>1. /\ GridOf(V)[side] = [t \in HP!Grid |-> Tally(V, side, HP!Window!PriceOf(t))]
      /\ OverOf(V)[side] = [p \in Outside(V, side) |-> Tally(V, side, p)]
  BY DEF GridOf, OverOf
<1>2. ASSUME HP!InGrid(px)
      PROVE  /\ HP!TickOf(px) \in HP!Grid /\ DOMAIN b.grid[side] = HP!Grid
             /\ b.grid[side][HP!TickOf(px)] = Tally(V, side, px)
  <2>1. HP!TickOf(px) \in HP!Grid /\ HP!Window!PriceOf(HP!TickOf(px)) = px
    BY <1>2, InWindow
  <2> QED
    BY <1>0, <1>1, <2>1
<1>3. ASSUME ~HP!InGrid(px)
      PROVE  /\ px \in DOMAIN b.over[side] <=> px \in Quoted(V, side)
             /\ px \in Quoted(V, side) => b.over[side][px] = Tally(V, side, px)
             /\ px \notin Quoted(V, side) => Tally(V, side, px) = Flat!None
  <2>1. px \in Outside(V, side) <=> px \in Quoted(V, side)
    BY <1>3 DEF Outside
  <2>2. px \notin Quoted(V, side) => Tally(V, side, px) = Sum(0, 0)
    BY <1>0, TallyIs
  <2> QED
    BY <1>0, <1>1, <2>1, <2>2 DEF Flat!None, Sum
<1> QED
  BY <1>2, <1>3

LEMMA FlatArrives ==
    ASSUME NEW b, NEW V, FlatIs(b, V), NEW side \in HP!Sides, NEW px \in Nat, NEW qty,
           NEW W, Quotes(V, W, side, px),
           TallyMoves(V, W, side, px, Sum(Tally(V, side, px).qty + qty, Tally(V, side, px).orders + 1))
    PROVE  Became(Flat!Arrive(b, side, px, qty), b, W)
<1> DEFINE t == HP!TickOf(px)
           x == Sum(Tally(V, side, px).qty + qty, Tally(V, side, px).orders + 1)
           c == Flat!Arrive(b, side, px, qty)
<1>0. /\ b.ids = V /\ b.grid = GridOf(V) /\ b.bits = BitsOf(V) /\ b.over = OverOf(V)
      /\ DOMAIN b = FlatFields
      /\ DOMAIN b.grid = HP!Sides /\ DOMAIN b.bits = HP!Sides
      /\ DOMAIN b.hint = HP!Sides /\ DOMAIN b.over = HP!Sides
      /\ IsView(V) /\ HintsAt(b.hint, V)
  BY FlatParts DEF FlatIs
<1>1. Flat!More(Tally(V, side, px), qty) = x
  BY <1>0, SumChanges
<1>2. TallyMoves(V, W, side, px, x) /\ Quotes(V, W, side, px)
  OBVIOUS
<1>3. CASE HP!InGrid(px)
  <2>1. b.grid[side][t] = Tally(V, side, px) /\ t \in DOMAIN b.grid[side]
    BY <1>3, FlatAt
  <2>2. c = [b EXCEPT !.grid[side][t] = x, !.bits[side] = b.bits[side] \cup {t},
                      !.hint[side] = HP!Window!Improved(side, b.hint[side], t)]
    <3>1. c = [b EXCEPT !.grid[side][t] = Flat!More(b.grid[side][t], qty),
                        !.bits[side] = b.bits[side] \cup {t},
                        !.hint[side] = Flat!Window!Improved(side, b.hint[side], t)]
      BY <1>3, FlatWindow DEF Flat!Arrive
    <3>2. Flat!More(b.grid[side][t], qty) = x
      BY <1>1, <2>1
    <3>3. Flat!Window!Improved(side, b.hint[side], t) = HP!Window!Improved(side, b.hint[side], t)
      BY FlatWindow
    <3> HIDE DEF c, x, t
    <3> QED
      BY <3>1, <3>2, <3>3
  <2> HIDE DEF c, x, t
  <2>3. /\ DOMAIN c = FlatFields
        /\ c.grid = [b.grid EXCEPT ![side] = [b.grid[side] EXCEPT ![t] = x]]
        /\ c.bits = [b.bits EXCEPT ![side] = b.bits[side] \cup {t}]
        /\ c.hint = [b.hint EXCEPT ![side] = HP!Window!Improved(side, b.hint[side], t)]
        /\ c.over = b.over /\ c.rejected = b.rejected /\ c.ids = b.ids /\ c.capacity = b.capacity
    BY <1>0, <2>2 DEF FlatFields
  <2>4. GridOf(W) = [GridOf(V) EXCEPT ![side] = [GridOf(V)[side] EXCEPT ![HP!TickOf(px)] = x]]
    BY <1>2, <1>3, GridSet
  <2>5. BitsOf(W) = [BitsOf(V) EXCEPT ![side] = BitsOf(V)[side] \cup {t}]
    <3>1. BitsOf(W) = IF HP!InGrid(px)
                    THEN [BitsOf(V) EXCEPT ![side] = BitsOf(V)[side] \cup {HP!TickOf(px)}]
                    ELSE BitsOf(V)
      BY <1>2, BitsMove
    <3> QED
      BY <1>3, <3>1 DEF t
  <2>6. OverOf(W) = OverOf(V)
    BY <1>2, <1>3, OverStays DEF Moves
  <2>7. HintsAt([b.hint EXCEPT ![side] = HP!Window!Improved(side, b.hint[side], HP!TickOf(px))], W)
    BY <1>0, <1>2, <1>3, HintImproves
  <2>8. Became(c, b, W)
    BY <1>0, <2>3, <2>4, <2>5, <2>6, <2>7 DEF Became, t
  <2> QED
    BY <2>8 DEF c
<1>4. CASE ~HP!InGrid(px)
  <2>1. (IF px \in DOMAIN b.over[side] THEN b.over[side][px] ELSE Flat!None) = Tally(V, side, px)
    BY <1>4, FlatAt
  <2>2. c = [b EXCEPT !.over[side] = HP!Put(b.over[side], px, x)]
    <3>1. c = [b EXCEPT !.over[side] = Flat!Put(b.over[side], px, Flat!More(
                 IF px \in DOMAIN b.over[side] THEN b.over[side][px] ELSE Flat!None, qty))]
      BY <1>4, FlatWindow DEF Flat!Arrive
    <3> QED
      BY <1>1, <2>1, <3>1, FlatMaps
  <2> HIDE DEF c, x, t
  <2>3. /\ DOMAIN c = FlatFields
        /\ c.over = [b.over EXCEPT ![side] = HP!Put(b.over[side], px, x)]
        /\ c.grid = b.grid /\ c.bits = b.bits /\ c.hint = b.hint
        /\ c.rejected = b.rejected /\ c.ids = b.ids /\ c.capacity = b.capacity
    BY <1>0, <2>2 DEF FlatFields
  <2>4. GridOf(W) = GridOf(V)
    BY <1>2, <1>4, GridStays
  <2>5. BitsOf(W) = BitsOf(V)
    <3>1. BitsOf(W) = IF HP!InGrid(px)
                    THEN [BitsOf(V) EXCEPT ![side] = BitsOf(V)[side] \cup {HP!TickOf(px)}]
                    ELSE BitsOf(V)
      BY <1>2, BitsMove
    <3> QED
      BY <1>4, <3>1
  <2>6. OverOf(W) = [OverOf(V) EXCEPT ![side] = HP!Put(OverOf(V)[side], px, x)]
    <3>1. OverOf(W) = PutAt(OverOf(V), side, px, x)
      BY <1>2, <1>4, OverPut
    <3> QED
      BY <3>1 DEF PutAt
  <2>7. HintsAt(b.hint, W)
    <3>1. \A s : Quoted(V, s) \subseteq Quoted(W, s)
      BY <1>2 DEF Quotes
    <3> QED
      BY <1>0, <3>1, HintsKept
  <2>8. Became(c, b, W)
    BY <1>0, <2>3, <2>4, <2>5, <2>6, <2>7 DEF Became
  <2> QED
    BY <2>8 DEF c
<1> QED
  BY <1>3, <1>4

LEMMA FlatDeparts ==
    ASSUME NEW b, NEW V, FlatIs(b, V), NEW side \in HP!Sides, NEW px \in Nat, NEW qty,
           px \in Quoted(V, side), NEW W,
           IF Tally(V, side, px).orders = 1 THEN QuotesNot(V, W, side, px) ELSE Quotes(V, W, side, px),
           TallyMoves(V, W, side, px, Sum(Tally(V, side, px).qty - qty, Tally(V, side, px).orders - 1))
    PROVE  Became(Flat!Depart(b, side, px, qty), b, W)
<1> DEFINE t == HP!TickOf(px)
           x == Sum(Tally(V, side, px).qty - qty, Tally(V, side, px).orders - 1)
           c == Flat!Depart(b, side, px, qty)
           last == Tally(V, side, px).orders = 1
<1>0. /\ b.ids = V /\ b.grid = GridOf(V) /\ b.bits = BitsOf(V) /\ b.over = OverOf(V)
      /\ DOMAIN b = FlatFields
      /\ DOMAIN b.grid = HP!Sides /\ DOMAIN b.bits = HP!Sides
      /\ DOMAIN b.hint = HP!Sides /\ DOMAIN b.over = HP!Sides
      /\ IsView(V) /\ HintsAt(b.hint, V)
  BY FlatParts DEF FlatIs
<1>1. Flat!Less(Tally(V, side, px), qty) = x
  BY <1>0, SumChanges
<1>2. /\ TallyMoves(V, W, side, px, x)
      /\ last => QuotesNot(V, W, side, px)
      /\ ~last => Quotes(V, W, side, px) /\ \A s : Quoted(W, s) = Quoted(V, s)
  <2>1. last => QuotesNot(V, W, side, px)
    OBVIOUS
  <2>2. ~last => Quotes(V, W, side, px)
    OBVIOUS
  <2>3. Quotes(V, W, side, px) => \A s : Quoted(W, s) = Quoted(V, s)
    BY DEF Quotes
  <2> QED
    BY <2>1, <2>2, <2>3
<1>5. Moves(V, W, side, px)
  BY <1>2 DEF Moves
<1>3. CASE HP!InGrid(px)
  <2>1. b.grid[side][t] = Tally(V, side, px) /\ t \in DOMAIN b.grid[side]
    BY <1>3, FlatAt
  <2>2. c = [b EXCEPT !.grid[side][t] = x,
                      !.bits[side] = IF last THEN b.bits[side] \ {t} ELSE b.bits[side],
                      !.hint[side] = IF last THEN HP!Window!Forgotten(b.hint[side], t) ELSE b.hint[side]]
    <3>1. c = [b EXCEPT !.grid[side][t] = Flat!Less(b.grid[side][t], qty),
                        !.bits[side] = IF b.grid[side][t].orders = 1 THEN b.bits[side] \ {t} ELSE b.bits[side],
                        !.hint[side] = IF b.grid[side][t].orders = 1
                                       THEN Flat!Window!Forgotten(b.hint[side], t) ELSE b.hint[side]]
      <4>1. Flat!InGrid(px) /\ Flat!TickOf(px) = t
        BY <1>3, FlatWindow
      <4> HIDE DEF t, x
      <4> QED
        BY <4>1, Zenon DEF Flat!Depart
    <3>2. Flat!Less(b.grid[side][t], qty) = x /\ (b.grid[side][t].orders = 1 <=> last)
      BY <1>1, <2>1
    <3>3. Flat!Window!Forgotten(b.hint[side], t) = HP!Window!Forgotten(b.hint[side], t)
      BY FlatWindow
    <3> HIDE DEF c, x, t, last
    <3> QED
      BY <3>1, <3>2, <3>3
  <2> HIDE DEF c, x, t, last
  <2>3. /\ DOMAIN c = FlatFields
        /\ c.grid = [b.grid EXCEPT ![side] = [b.grid[side] EXCEPT ![t] = x]]
        /\ c.bits = [b.bits EXCEPT ![side] = IF last THEN b.bits[side] \ {t} ELSE b.bits[side]]
        /\ c.hint = [b.hint EXCEPT ![side] = IF last THEN HP!Window!Forgotten(b.hint[side], t) ELSE b.hint[side]]
        /\ c.over = b.over /\ c.rejected = b.rejected /\ c.ids = b.ids /\ c.capacity = b.capacity
    <3>1. PICK y, z : /\ y = IF last THEN b.bits[side] \ {t} ELSE b.bits[side]
                      /\ z = IF last THEN HP!Window!Forgotten(b.hint[side], t) ELSE b.hint[side]
      OBVIOUS
    <3>2. c = [b EXCEPT !.grid[side][t] = x, !.bits[side] = y, !.hint[side] = z]
      BY <2>2, <3>1
    <3>3. /\ DOMAIN c = FlatFields
          /\ c.grid = [b.grid EXCEPT ![side] = [b.grid[side] EXCEPT ![t] = x]]
          /\ c.bits = [b.bits EXCEPT ![side] = y]
          /\ c.hint = [b.hint EXCEPT ![side] = z]
          /\ c.over = b.over /\ c.rejected = b.rejected /\ c.ids = b.ids /\ c.capacity = b.capacity
      BY <1>0, <3>2 DEF FlatFields
    <3> QED
      BY <3>1, <3>3
  <2>4. GridOf(W) = [GridOf(V) EXCEPT ![side] = [GridOf(V)[side] EXCEPT ![HP!TickOf(px)] = x]]
    <3>1. PICK y : y = x
      OBVIOUS
    <3>2. TallyMoves(V, W, side, px, y)
      BY <1>2, <3>1
    <3>3. GridOf(W) = [GridOf(V) EXCEPT ![side] = [GridOf(V)[side] EXCEPT ![HP!TickOf(px)] = y]]
      BY <1>3, <3>2, GridSet
    <3> QED
      BY <3>1, <3>3
  <2>5. OverOf(W) = OverOf(V)
    BY <1>2, <1>3, <1>5, OverStays
  <2>6. CASE last
    <3>1. BitsOf(W) = [BitsOf(V) EXCEPT ![side] = BitsOf(V)[side] \ {HP!TickOf(px)}]
      <4>1. BitsOf(W) = IF HP!InGrid(px)
                        THEN [BitsOf(V) EXCEPT ![side] = BitsOf(V)[side] \ {HP!TickOf(px)}]
                        ELSE BitsOf(V)
        BY <1>2, <2>6, BitsMove
      <4> QED
        BY <1>3, <4>1
    <3>2. HintsAt([b.hint EXCEPT ![side] = HP!Window!Forgotten(b.hint[side], HP!TickOf(px))], W)
      BY <1>0, <1>2, <1>3, <2>6, HintForgets
    <3>3. Became(c, b, W)
      BY <1>0, <2>3, <2>4, <2>5, <2>6, <3>1, <3>2 DEF Became, t
    <3> QED
      BY <3>3 DEF c
  <2>7. CASE ~last
    <3>1. BitsOf(W) = BitsOf(V)
      BY <1>2, <2>7 DEF BitsOf
    <3>2. HintsAt(b.hint, W)
      BY <1>0, <3>1 DEF HintsAt
    <3>3. c.bits = BitsOf(V) /\ c.hint = b.hint
      <4>1. c.bits = b.bits
        <5>1. c.bits = [b.bits EXCEPT ![side] = b.bits[side]]
          BY <2>3, <2>7
        <5>2. b.bits = [s \in HP!Sides |-> b.bits[s]]
          BY <1>0 DEF BitsOf
        <5> QED
          BY <5>1, <5>2
      <4>2. c.hint = b.hint
        <5>1. c.hint = [b.hint EXCEPT ![side] = b.hint[side]]
          BY <2>3, <2>7
        <5>2. b.hint = [s \in HP!Sides |-> b.hint[s]]
          BY <1>0 DEF HintsAt
        <5> QED
          BY <5>1, <5>2
      <4> QED
        BY <1>0, <4>1, <4>2
    <3>4. Became(c, b, W)
      BY <1>0, <2>3, <2>4, <2>5, <3>1, <3>2, <3>3 DEF Became, t
    <3> QED
      BY <3>4 DEF c
  <2> QED
    BY <2>6, <2>7
<1>4. CASE ~HP!InGrid(px)
  <2>1. px \in DOMAIN b.over[side] /\ b.over[side][px] = Tally(V, side, px)
    BY <1>4, FlatAt
  <2>2. c = IF last THEN [b EXCEPT !.over[side] = Flat!Without(b.over[side], px)]
            ELSE [b EXCEPT !.over[side][px] = Flat!Less(b.over[side][px], qty)]
    BY <1>4, <2>1, FlatWindow DEF Flat!Depart
  <2> HIDE DEF c, x, t, last
  <2>4. GridOf(W) = GridOf(V)
    BY <1>2, <1>4, GridStays
  <2>5. BitsOf(W) = BitsOf(V)
    <3>1. last => BitsOf(W) = IF HP!InGrid(px)
                    THEN [BitsOf(V) EXCEPT ![side] = BitsOf(V)[side] \ {HP!TickOf(px)}]
                    ELSE BitsOf(V)
      BY <1>2, BitsMove
    <3>2. ~last => BitsOf(W) = BitsOf(V)
      BY <1>2 DEF BitsOf
    <3> QED
      BY <1>4, <3>1, <3>2
  <2>6. HintsAt(b.hint, W)
    BY <1>0, <2>5 DEF HintsAt
  <2>7. /\ DOMAIN c = FlatFields /\ c.grid = b.grid /\ c.bits = b.bits /\ c.hint = b.hint
        /\ c.rejected = b.rejected /\ c.ids = b.ids /\ c.capacity = b.capacity
    BY <1>0, <2>2 DEF FlatFields
  <2>8. CASE last
    <3>1. OverOf(W) = [OverOf(V) EXCEPT ![side] = HP!Without(OverOf(V)[side], px)]
      <4>1. OverOf(W) = DroppedAt(OverOf(V), side, px)
        BY <1>2, <1>4, <1>5, <2>8, OverDrop
      <4> QED
        BY <4>1 DEF DroppedAt
    <3>2. c.over = [b.over EXCEPT ![side] = HP!Without(b.over[side], px)]
      BY <1>0, <2>2, <2>8, FlatMaps DEF FlatFields
    <3>3. Became(c, b, W)
      BY <1>0, <2>4, <2>5, <2>6, <2>7, <3>1, <3>2 DEF Became
    <3> QED
      BY <3>3 DEF c
  <2>9. CASE ~last
    <3>1. OverOf(W) = [OverOf(V) EXCEPT ![side] = HP!Put(OverOf(V)[side], px, x)]
      <4>1. OverOf(W) = PutAt(OverOf(V), side, px, x)
        BY <1>2, <1>4, <2>9, OverPut
      <4> QED
        BY <4>1 DEF PutAt
    <3>2. c.over = [b.over EXCEPT ![side] = [b.over[side] EXCEPT ![px] = x]]
      BY <1>0, <1>1, <2>1, <2>2, <2>9 DEF FlatFields
    <3>3. HP!Put(OverOf(V)[side], px, x) = [OverOf(V)[side] EXCEPT ![px] = x]
      <4>1. px \in Outside(V, side) /\ OverOf(V)[side] = [p \in Outside(V, side) |-> Tally(V, side, p)]
        BY <1>4 DEF Outside, OverOf
      <4> QED
        BY <4>1 DEF HP!Put
    <3>4. Became(c, b, W)
      BY <1>0, <2>4, <2>5, <2>6, <2>7, <3>1, <3>2, <3>3 DEF Became
    <3> QED
      BY <3>4 DEF c
  <2> QED
    BY <2>8, <2>9
<1> QED
  BY <1>3, <1>4

-----------------------------------------------------------------------------
(* What each call does to the flat book. *)
LEMMA FlatRejects ==
    ASSUME NEW b, NEW V, FlatIs(b, V)
    PROVE  LET c == [b EXCEPT !.rejected = @ + 1] IN FlatIs(c, V) /\ c.ids = V /\ c.rejected = b.rejected + 1
<1> DEFINE c == [b EXCEPT !.rejected = @ + 1]
<1>1. DOMAIN b = FlatFields /\ b.rejected \in Nat /\ b.ids = V
  BY FlatParts
<1>2. /\ DOMAIN c = FlatFields /\ c.ids = b.ids /\ c.grid = b.grid /\ c.bits = b.bits
      /\ c.over = b.over /\ c.hint = b.hint /\ c.rejected = b.rejected + 1
  BY <1>1 DEF FlatFields
<1> HIDE DEF c
<1>3. FlatIs(c, V)
  BY <1>1, <1>2 DEF FlatIs, FlatOf
<1> QED
  BY <1>1, <1>2, <1>3 DEF c

LEMMA FlatAdds ==
    ASSUME NEW b, NEW V, FlatIs(b, V), NEW ref, ref \notin DOMAIN V, NEW side \in HP!Sides,
           NEW px \in Nat \ {0}, NEW qty \in Nat
    PROVE  LET c == Flat!Add(b, ref, side, px, qty) IN
           FlatIs(c, c.ids) /\ AddTo(V, b.rejected, c.ids, c.rejected, ref, side, px, qty)
<1> DEFINE c == Flat!Add(b, ref, side, px, qty)
           full == Flat!Cardinality(DOMAIN b.ids) + 1 > (b.capacity * 7) \div 10
<1>0. b.ids = V /\ IsView(V) /\ b.rejected \in Nat
  BY FlatParts
<1>v. IsView(V)
  BY <1>0
<1>1. CASE qty = 0
  <2>1. c = b
    BY <1>1 DEF Flat!Add
  <2> HIDE DEF c
  <2>2. FlatIs(c, c.ids) /\ AddTo(V, b.rejected, c.ids, c.rejected, ref, side, px, qty)
    BY <1>0, <1>1, <2>1 DEF AddTo, Added
  <2> QED
    BY <2>2 DEF c
<1>2. CASE qty # 0 /\ full
  <2>1. c = [b EXCEPT !.rejected = @ + 1]
    BY <1>2 DEF Flat!Add
  <2>2. LET d == [b EXCEPT !.rejected = @ + 1] IN FlatIs(d, V) /\ d.ids = V /\ d.rejected = b.rejected + 1
    BY FlatRejects
  <2>3. FlatIs(c, V) /\ c.ids = V /\ c.rejected = b.rejected + 1
    BY <2>1, <2>2
  <2> HIDE DEF c
  <2>4. FlatIs(c, c.ids) /\ AddTo(V, b.rejected, c.ids, c.rejected, ref, side, px, qty)
    BY <1>2, <2>3 DEF AddTo
  <2> QED
    BY <2>4 DEF c
<1>3. CASE qty # 0 /\ ~full
  <2> DEFINE W == HP!Put(V, ref, Rests(side, px, qty))
             a == Flat!Arrive(b, side, px, qty)
  <2>1. c = [a EXCEPT !.ids = Flat!Put(@, ref, [side |-> side, price |-> px, qty |-> qty])]
    BY <1>3 DEF Flat!Add
  <2>2. /\ IsView(W) /\ Quotes(V, W, side, px)
        /\ TallyMoves(V, W, side, px, Sum(Tally(V, side, px).qty + qty, Tally(V, side, px).orders + 1))
    <3>1. qty \in Nat \ {0}
      BY <1>3
    <3>2. LET U == HP!Put(V, ref, Rests(side, px, qty)) IN
          /\ IsView(U) /\ DOMAIN U = DOMAIN V \cup {ref} /\ Quotes(V, U, side, px)
          /\ TallyMoves(V, U, side, px,
                        Sum(Tally(V, side, px).qty + qty, Tally(V, side, px).orders + 1))
      BY <1>v, <3>1, ViewPut
    <3> QED
      BY <3>2
  <2> HIDE DEF W, a, c
  <2>3. Became(a, b, W)
    BY <2>2, FlatArrives DEF a
  <2>4. /\ FlatIs([a EXCEPT !.ids = W], W)
        /\ [a EXCEPT !.ids = W].rejected = b.rejected /\ [a EXCEPT !.ids = W].capacity = b.capacity
    BY <2>2, <2>3, FlatBecame
  <2>5. a.ids = V
    BY <1>0, <2>3 DEF Became
  <2>6. Flat!Put(V, ref, [side |-> side, price |-> px, qty |-> qty]) = W
    BY FlatMaps DEF W, Rests
  <2>7. c = [a EXCEPT !.ids = W]
    BY <2>1, <2>5, <2>6
  <2>8. FlatIs(c, W) /\ c.rejected = b.rejected
    BY <2>4, <2>7
  <2>9. c.ids = W
    BY <2>8, FlatParts
  <2>10. FlatIs(c, c.ids) /\ AddTo(V, b.rejected, c.ids, c.rejected, ref, side, px, qty)
    BY <1>3, <2>8, <2>9 DEF AddTo, Added, W
  <2> QED
    BY <2>10 DEF c
<1> QED
  BY <1>1, <1>2, <1>3

LEMMA FlatTakes ==
    ASSUME NEW b, NEW V, FlatIs(b, V), NEW ref \in DOMAIN V
    PROVE  LET c == Flat!Remove(b, ref) IN
           FlatIs(c, HP!Without(V, ref)) /\ c.rejected = b.rejected
<1> DEFINE c == Flat!Remove(b, ref)
           W == HP!Without(V, ref)
           s0 == V[ref].side
           p0 == V[ref].price
           q0 == V[ref].qty
           a == Flat!Depart(b, s0, p0, q0)
<1>0. b.ids = V /\ IsView(V)
  BY FlatParts
<1>1. s0 \in HP!Sides /\ p0 \in Nat \ {0} /\ p0 \in Quoted(V, s0)
  BY <1>0, TallyHas
<1>2. /\ IsView(W)
      /\ IF Tally(V, s0, p0).orders = 1 THEN QuotesNot(V, W, s0, p0) ELSE Quotes(V, W, s0, p0)
      /\ TallyMoves(V, W, s0, p0, Sum(Tally(V, s0, p0).qty - q0, Tally(V, s0, p0).orders - 1))
  BY <1>0, ViewWithout
<1>3. c = [a EXCEPT !.ids = Flat!Without(@, ref)]
  BY <1>0 DEF Flat!Remove
<1>4. Flat!Without(V, ref) = W
  BY FlatMaps
<1> HIDE DEF W, s0, p0, q0, c, a
<1>5. Became(a, b, W)
  <2>1. PICK s, p, q : s = s0 /\ p = p0 /\ q = q0
    OBVIOUS
  <2>2. /\ s \in HP!Sides /\ p \in Nat /\ p \in Quoted(V, s)
        /\ IF Tally(V, s, p).orders = 1 THEN QuotesNot(V, W, s, p) ELSE Quotes(V, W, s, p)
        /\ TallyMoves(V, W, s, p, Sum(Tally(V, s, p).qty - q, Tally(V, s, p).orders - 1))
    BY <1>1, <1>2, <2>1
  <2>3. Became(Flat!Depart(b, s, p, q), b, W)
    BY ONLY FlatDeparts, <2>2, FlatIs(b, V)
  <2> QED
    BY <2>1, <2>3 DEF a
<1>6. FlatIs([a EXCEPT !.ids = W], W) /\ [a EXCEPT !.ids = W].rejected = b.rejected
  BY <1>2, <1>5, FlatBecame
<1>7. a.ids = V
  BY <1>0, <1>5 DEF Became
<1>8. c = [a EXCEPT !.ids = W]
  BY <1>3, <1>4, <1>7
<1>9. FlatIs(c, W) /\ c.rejected = b.rejected
  BY <1>6, <1>8
<1> QED
  BY <1>9 DEF c, W

LEMMA FlatRemoves ==
    ASSUME NEW b, NEW V, FlatIs(b, V), NEW ref
    PROVE  LET c == Flat!Remove(b, ref) IN FlatIs(c, Gone(V, ref)) /\ c.rejected = b.rejected
<1>1. b.ids = V
  BY FlatParts
<1>2. CASE ref \in DOMAIN V
  <2>1. LET c == Flat!Remove(b, ref) IN
           FlatIs(c, HP!Without(V, ref)) /\ c.rejected = b.rejected
    BY <1>2, FlatTakes
  <2> QED
    BY <1>2, <2>1 DEF Gone
<1>3. CASE ref \notin DOMAIN V
  BY <1>1, <1>3 DEF Flat!Remove, Gone
<1> QED
  BY <1>2, <1>3

LEMMA FlatShrinks ==
    ASSUME NEW b, NEW V, FlatIs(b, V), NEW ref \in DOMAIN V, NEW qty \in Nat, qty < V[ref].qty
    PROVE  LET c == Flat!Reduce(b, ref, qty) IN
           FlatIs(c, Less(V, ref, qty)) /\ c.rejected = b.rejected
<1> DEFINE c == Flat!Reduce(b, ref, qty)
           W == Less(V, ref, qty)
           s0 == V[ref].side
           p0 == V[ref].price
           t == HP!TickOf(p0)
           x == Sum(Tally(V, s0, p0).qty - qty, Tally(V, s0, p0).orders)
<1>0. /\ b.ids = V /\ b.grid = GridOf(V) /\ b.bits = BitsOf(V) /\ b.over = OverOf(V)
      /\ DOMAIN b = FlatFields
      /\ DOMAIN b.grid = HP!Sides /\ DOMAIN b.over = HP!Sides
      /\ IsView(V) /\ HintsAt(b.hint, V) /\ b.rejected \in Nat
  BY FlatParts DEF FlatIs
<1>v. IsView(V)
  BY <1>0
<1>1. /\ s0 \in HP!Sides /\ p0 \in Nat \ {0} /\ p0 \in Nat /\ p0 \in Quoted(V, s0)
      /\ ~(qty >= V[ref].qty)
  BY <1>v, TallyHas
<1>2. IsView(W) /\ Quotes(V, W, s0, p0) /\ TallyMoves(V, W, s0, p0, x)
  BY <1>v, ViewLess
<1>3. \A s : Quoted(W, s) = Quoted(V, s)
  BY <1>1, <1>2 DEF Quotes
<1>4. BitsOf(W) = BitsOf(V)
  BY <1>3 DEF BitsOf
<1>5. [Tally(V, s0, p0) EXCEPT !.qty = @ - qty] = x
  <2>1. Tally(V, s0, p0) = Sum(Tally(V, s0, p0).qty, Tally(V, s0, p0).orders)
    BY <1>v, TallyIs
  <2>2. \A d, n : [Sum(d, n) EXCEPT !.qty = @ - qty] = Sum(d - qty, n)
    BY DEF Sum
  <2> QED
    BY <2>1, <2>2
<1>6. Flat!InGrid(p0) <=> HP!InGrid(p0)
  BY FlatWindow
<1>7. Flat!TickOf(p0) = t
  BY FlatWindow
<1>8. CASE HP!InGrid(p0)
  <2>1. b.grid[s0][t] = Tally(V, s0, p0) /\ t \in DOMAIN b.grid[s0]
    <3>1. PICK s \in HP!Sides, p \in Nat : s = s0 /\ p = p0
      BY <1>1
    <3>2. HP!InGrid(p) => /\ HP!TickOf(p) \in HP!Grid /\ DOMAIN b.grid[s] = HP!Grid
                          /\ b.grid[s][HP!TickOf(p)] = Tally(V, s, p)
      BY FlatAt
    <3> QED
      BY <1>8, <3>1, <3>2
  <2>2. c = [b EXCEPT !.ids[ref].qty = @ - qty, !.grid[s0][t].qty = @ - qty]
    BY <1>0, <1>1, <1>6, <1>7, <1>8 DEF Flat!Reduce
  <2>3. [b.grid[s0][t] EXCEPT !.qty = @ - qty] = x
    BY <1>5, <2>1
  <2> HIDE DEF c, W, s0, p0, t, x
  <2>4. /\ DOMAIN c = FlatFields
        /\ c.ids = [V EXCEPT ![ref].qty = @ - qty]
        /\ c.grid = [b.grid EXCEPT ![s0] = [b.grid[s0] EXCEPT ![t] = [b.grid[s0][t] EXCEPT !.qty = @ - qty]]]
        /\ c.bits = b.bits /\ c.over = b.over /\ c.hint = b.hint /\ c.rejected = b.rejected
    BY <1>0, <2>2 DEF FlatFields
  <2>5. GridOf(W) = [GridOf(V) EXCEPT ![s0] = [GridOf(V)[s0] EXCEPT ![t] = x]]
    <3>1. PICK p \in Nat : p = p0
      BY <1>1
    <3>2. TallyMoves(V, W, s0, p, x) /\ HP!InGrid(p) /\ s0 \in HP!Sides
      BY <1>1, <1>2, <1>8, <3>1
    <3>3. GridOf(W) = [GridOf(V) EXCEPT ![s0] = [GridOf(V)[s0] EXCEPT ![HP!TickOf(p)] = x]]
      BY <3>2, GridSet
    <3> QED
      BY <3>1, <3>3 DEF t
  <2>6. OverOf(W) = OverOf(V)
    BY <1>1, <1>2, <1>8, OverStays DEF Moves
  <2>7. c.ids = W /\ c.grid = GridOf(W)
    BY <1>0, <2>3, <2>4, <2>5 DEF W, Less
  <2>8. HintsAt(b.hint, W)
    BY <1>0, <1>4 DEF HintsAt
  <2>9. FlatIs(c, W) /\ c.rejected = b.rejected
    BY <1>0, <1>2, <1>4, <2>4, <2>6, <2>7, <2>8 DEF FlatIs, FlatOf
  <2> QED
    BY <2>9 DEF c, W
<1>9. CASE ~HP!InGrid(p0)
  <2>1. p0 \in DOMAIN b.over[s0] /\ b.over[s0][p0] = Tally(V, s0, p0)
    <3>1. PICK s \in HP!Sides, p \in Nat : s = s0 /\ p = p0
      BY <1>1
    <3>2. ~HP!InGrid(p) =>
                /\ p \in DOMAIN b.over[s] <=> p \in Quoted(V, s)
                /\ p \in Quoted(V, s) => b.over[s][p] = Tally(V, s, p)
                /\ p \notin Quoted(V, s) => Tally(V, s, p) = Flat!None
      BY FlatAt
    <3> QED
      BY <1>1, <1>9, <3>1, <3>2
  <2>2. c = [b EXCEPT !.ids[ref].qty = @ - qty, !.over[s0][p0].qty = @ - qty]
    BY <1>0, <1>1, <1>6, <1>9 DEF Flat!Reduce
  <2>3. [b.over[s0][p0] EXCEPT !.qty = @ - qty] = x
    BY <1>5, <2>1
  <2> HIDE DEF c, W, s0, p0, t, x
  <2>4. /\ DOMAIN c = FlatFields
        /\ c.ids = [V EXCEPT ![ref].qty = @ - qty]
        /\ c.over = [b.over EXCEPT ![s0] = [b.over[s0] EXCEPT ![p0] = [b.over[s0][p0] EXCEPT !.qty = @ - qty]]]
        /\ c.bits = b.bits /\ c.grid = b.grid /\ c.hint = b.hint /\ c.rejected = b.rejected
    BY <1>0, <2>2 DEF FlatFields
  <2>5. OverOf(W) = [OverOf(V) EXCEPT ![s0] = HP!Put(OverOf(V)[s0], p0, x)]
    <3>1. OverOf(W) = PutAt(OverOf(V), s0, p0, x)
      BY <1>1, <1>2, <1>9, OverPut
    <3> QED
      BY <3>1 DEF PutAt
  <2>6. HP!Put(OverOf(V)[s0], p0, x) = [OverOf(V)[s0] EXCEPT ![p0] = x]
    <3>1. p0 \in Outside(V, s0) /\ OverOf(V)[s0] = [p \in Outside(V, s0) |-> Tally(V, s0, p)]
      BY <1>1, <1>9 DEF Outside, OverOf
    <3> QED
      BY <3>1 DEF HP!Put
  <2>7. c.ids = W /\ c.over = OverOf(W)
    <3>1. c.over = [b.over EXCEPT ![s0] = [b.over[s0] EXCEPT ![p0] = x]]
      BY <2>3, <2>4
    <3>2. c.over = OverOf(W)
      BY <1>0, <2>5, <2>6, <3>1
    <3> QED
      BY <2>4, <3>2 DEF W, Less
  <2>8. HintsAt(b.hint, W)
    BY <1>0, <1>4 DEF HintsAt
  <2>g. GridOf(W) = GridOf(V)
    BY <1>2, <1>9, GridStays
  <2>9. FlatIs(c, W) /\ c.rejected = b.rejected
    BY <1>0, <1>2, <1>4, <2>4, <2>g, <2>7, <2>8 DEF FlatIs, FlatOf
  <2> QED
    BY <2>9 DEF c, W
<1> QED
  BY <1>8, <1>9

LEMMA FlatReduces ==
    ASSUME NEW b, NEW V, FlatIs(b, V), NEW ref, NEW qty \in Nat
    PROVE  LET c == Flat!Reduce(b, ref, qty) IN
           FlatIs(c, Fewer(V, ref, qty)) /\ c.rejected = b.rejected
<1>1. b.ids = V /\ IsView(V)
  BY FlatParts
<1>2. CASE ref \notin DOMAIN V
  BY <1>1, <1>2 DEF Flat!Reduce, Fewer, Gone
<1>3. CASE ref \in DOMAIN V /\ qty < V[ref].qty
  <2>1. LET c == Flat!Reduce(b, ref, qty) IN
           FlatIs(c, Less(V, ref, qty)) /\ c.rejected = b.rejected
    BY <1>3, FlatShrinks
  <2> QED
    BY <1>3, <2>1 DEF Fewer
<1>4. CASE ref \in DOMAIN V /\ ~(qty < V[ref].qty)
  <2>1. LET c == Flat!Remove(b, ref) IN FlatIs(c, Gone(V, ref)) /\ c.rejected = b.rejected
    BY FlatRemoves
  <2>2. qty >= V[ref].qty
    BY <1>1, <1>4, TallyHas
  <2>3. Flat!Reduce(b, ref, qty) = Flat!Remove(b, ref)
    BY <1>1, <1>4, <2>2 DEF Flat!Reduce
  <2>4. Fewer(V, ref, qty) = Gone(V, ref)
    BY <1>4 DEF Fewer
  <2> QED
    BY <2>1, <2>3, <2>4
<1> QED
  BY <1>2, <1>3, <1>4

LEMMA FlatReplaces ==
    ASSUME NEW b, NEW V, FlatIs(b, V), NEW old, NEW new, new \notin DOMAIN V \ {old},
           NEW px \in Nat \ {0}, NEW qty \in Nat
    PROVE  LET c == Flat!Replace(b, old, new, px, qty) IN
           FlatIs(c, c.ids) /\ ReplaceIn(V, b.rejected, c.ids, c.rejected, old, new, px, qty)
<1>1. b.ids = V /\ IsView(V)
  BY FlatParts
<1>v. IsView(V)
  BY <1>1
<1>2. CASE old \notin DOMAIN V
  <2>1. Flat!Replace(b, old, new, px, qty) = b
    BY <1>1, <1>2 DEF Flat!Replace
  <2> QED
    BY <1>1, <1>2, <2>1 DEF ReplaceIn
<1>3. CASE old \in DOMAIN V
  <2> DEFINE d == Flat!Remove(b, old)
             U == HP!Without(V, old)
             s0 == V[old].side
  <2>1. FlatIs(d, U) /\ d.rejected = b.rejected
    BY <1>3, FlatTakes
  <2>2. new \notin DOMAIN U /\ s0 \in HP!Sides
    BY <1>3, <1>v, TallyHas DEF HP!Without
  <2>3. Flat!Replace(b, old, new, px, qty) = Flat!Add(d, new, s0, px, qty)
    BY <1>1, <1>3 DEF Flat!Replace
  <2> HIDE DEF d, U, s0
  <2>4. LET c == Flat!Add(d, new, s0, px, qty) IN
        FlatIs(c, c.ids) /\ AddTo(U, d.rejected, c.ids, c.rejected, new, s0, px, qty)
    BY <2>1, <2>2, FlatAdds
  <2> QED
    BY <1>3, <2>1, <2>3, <2>4 DEF ReplaceIn, U, s0
<1> QED
  BY <1>2, <1>3

LEMMA FlatQueries ==
    ASSUME NEW b, NEW V, FlatIs(b, V), NEW side \in HP!Sides
    PROVE  LET c == Flat!Query(b, side) IN FlatIs(c, V) /\ c.rejected = b.rejected
<1> DEFINE c == Flat!Query(b, side)
           h == HP!Window!Refreshed(side, b.bits[side], b.hint[side])
<1>0. /\ b.ids = V /\ b.grid = GridOf(V) /\ b.bits = BitsOf(V) /\ b.over = OverOf(V)
      /\ DOMAIN b = FlatFields /\ DOMAIN b.hint = HP!Sides
      /\ IsView(V) /\ HintsAt(b.hint, V) /\ b.rejected \in Nat
  BY FlatParts DEF FlatIs
<1>1. h = HP!Window!NoTick \/ h \in b.bits[side]
  <2>1. PICK bits, hint : bits = b.bits[side] /\ hint = b.hint[side]
    OBVIOUS
  <2>2. bits \in SUBSET HP!Grid /\ (hint = HP!Window!NoTick \/ hint \in bits)
    BY <1>0, <2>1 DEF HintsAt, BitsOf
  <2>3. LET k == HP!Window!Refreshed(side, bits, hint) IN
        IF bits = {} THEN k = HP!Window!NoTick ELSE k \in bits
    BY <2>2, WindowIs, HP!RefreshedIn
  <2> QED
    BY <2>1, <2>3
<1>2. c = [b EXCEPT !.hint[side] = h]
  BY FlatAnswers DEF Flat!Query
<1> HIDE DEF h, c
<1>3. /\ DOMAIN c = FlatFields /\ c.ids = b.ids /\ c.grid = b.grid /\ c.bits = b.bits
      /\ c.over = b.over /\ c.rejected = b.rejected /\ c.hint = [b.hint EXCEPT ![side] = h]
  BY <1>0, <1>2 DEF FlatFields
<1>4. HintsAt(c.hint, V)
  BY <1>0, <1>1, <1>3 DEF HintsAt
<1>5. FlatIs(c, V) /\ c.rejected = b.rejected
  BY <1>0, <1>3, <1>4 DEF FlatIs, FlatOf
<1> QED
  BY <1>5 DEF c

LEMMA FlatEmpty ==
    ASSUME NEW n
    PROVE  LET c == Flat!Empty(n) IN
           DOMAIN c = FlatFields /\ c.ids = << >> /\ c.rejected = 0 /\ FlatIs(c, << >>)
<1> DEFINE c == Flat!Empty(n)
<1>0. /\ Flat!Sides = HP!Sides /\ Flat!Window!Ticks = HP!Window!Ticks
      /\ Flat!Window!NoTick = HP!Window!NoTick
  BY FlatSides, FlatWindow
<1>1. /\ DOMAIN c = FlatFields /\ c.ids = << >> /\ c.rejected = 0
      /\ c.grid = [side \in HP!Sides |-> [t \in HP!Grid |-> Flat!None]]
      /\ c.bits = [side \in HP!Sides |-> {}]
      /\ c.hint = [side \in HP!Sides |-> HP!Window!NoTick]
      /\ c.over = [side \in HP!Sides |-> << >>]
  BY <1>0 DEF Flat!Empty, FlatFields, HP!Grid
<1>2. GridOf(<< >>) = [side \in HP!Sides |-> [t \in HP!Grid |-> Flat!None]]
  <2>1. \A s, p : Tally(<< >>, s, p) = Flat!None
    BY NoView, TallyIs DEF Flat!None, Sum
  <2> QED
    BY <2>1 DEF GridOf
<1>3. BitsOf(<< >>) = [side \in HP!Sides |-> {}]
  BY NoView DEF BitsOf
<1>4. OverOf(<< >>) = [side \in HP!Sides |-> << >>]
  <2>1. ASSUME NEW s \in HP!Sides PROVE [p \in Outside(<< >>, s) |-> Tally(<< >>, s, p)] = << >>
    <3>1. Outside(<< >>, s) = {}
      BY NoView DEF Outside
    <3> QED
      BY <3>1
  <2> QED
    BY <2>1 DEF OverOf
<1> HIDE DEF c
<1>5. HintsAt(c.hint, << >>)
  BY <1>1 DEF HintsAt
<1>6. FlatIs(c, << >>)
  BY <1>1, <1>2, <1>3, <1>4, <1>5, NoView DEF FlatIs, FlatOf
<1> QED
  BY <1>1, <1>6 DEF c

LEMMA FlatClears ==
    ASSUME NEW b, NEW V, FlatIs(b, V)
    PROVE  LET c == [Flat!Empty(b.capacity) EXCEPT !.rejected = b.rejected] IN
           FlatIs(c, << >>) /\ c.rejected = b.rejected
<1> DEFINE e == Flat!Empty(b.capacity)
           c == [e EXCEPT !.rejected = b.rejected]
<1>0. b.rejected \in Nat
  BY FlatParts
<1>1. DOMAIN e = FlatFields /\ e.ids = << >> /\ FlatIs(e, << >>)
  BY FlatEmpty
<1> HIDE DEF e
<1>2. /\ DOMAIN c = FlatFields /\ c.ids = e.ids /\ c.grid = e.grid /\ c.bits = e.bits
      /\ c.over = e.over /\ c.hint = e.hint /\ c.rejected = b.rejected
  BY <1>1 DEF FlatFields
<1> HIDE DEF c
<1>3. FlatIs(c, << >>) /\ c.rejected = b.rejected
  BY <1>0, <1>1, <1>2 DEF FlatIs, FlatOf
<1> QED
  BY <1>3 DEF c, e

LEMMA QuotedParts ==
    ASSUME NEW V, IsView(V), NEW s \in HP!Sides
    PROVE  /\ BitsOf(V)[s] \in SUBSET HP!Grid
           /\ Outside(V, s) \in SUBSET Nat /\ IsFiniteSet(Outside(V, s)) /\ HP!IsFiniteSet(Outside(V, s))
           /\ \A q \in Outside(V, s) : ~HP!InGrid(q)
           /\ HP!AtTicks(BitsOf(V)[s]) \cup Outside(V, s) = Quoted(V, s)
<1>0. IsFiniteSet(Quoted(V, s)) /\ Quoted(V, s) \subseteq Nat \ {0}
  BY QuotedFinite
<1>1. BitsOf(V)[s] = {t \in HP!Grid : HP!Window!PriceOf(t) \in Quoted(V, s)}
  BY DEF BitsOf
<1>2. Outside(V, s) \subseteq Quoted(V, s)
  BY DEF Outside
<1>3. IsFiniteSet(Outside(V, s))
  BY <1>0, <1>2, FS_Subset
<1>4. HP!AtTicks(BitsOf(V)[s]) \cup Outside(V, s) = Quoted(V, s)
  <2>1. ASSUME NEW p \in Quoted(V, s), HP!InGrid(p) PROVE p \in HP!AtTicks(BitsOf(V)[s])
    <3>1. HP!TickOf(p) \in HP!Grid /\ HP!Window!PriceOf(HP!TickOf(p)) = p
      BY <1>0, <2>1, InWindow
    <3> QED
      BY <1>1, <3>1 DEF HP!AtTicks
  <2>2. HP!AtTicks(BitsOf(V)[s]) \subseteq Quoted(V, s)
    BY <1>1 DEF HP!AtTicks
  <2>3. Outside(V, s) = {p \in Quoted(V, s) : ~HP!InGrid(p)}
    BY DEF Outside
  <2> QED
    BY <2>1, <2>2, <2>3
<1> QED
  BY <1>0, <1>1, <1>2, <1>3, <1>4, SameFinite DEF Outside

LEMMA FlatPromise ==
    /\ \A s : Flat!Promise!Quoted(s) = Quoted(flat.ids, s)
    /\ \A s : Flat!Promise!Shown(s) = Recount(flat.ids, s)
    /\ Flat!Promise!kInvalidPrice = 0
<1>1. \A s : Flat!Promise!Quoted(s) = Quoted(flat.ids, s)
  BY Zenon DEF Flat!Promise!Quoted, Quoted
<1>2. \A s, ps : Flat!Promise!Ranked(s, ps) = HP!Promise!Ranked(s, ps)
  BY Zenon DEF Flat!Promise!Ranked, HP!Promise!Ranked, Flat!Promise!Better,
     HP!Promise!Better, Flat!Promise!Cardinality, HP!Promise!Cardinality,
     Flat!Promise!IsFiniteSet, HP!Promise!IsFiniteSet, Flat!Promise!Min, HP!Promise!Min
<1>3. \A s, p : Flat!Promise!Level(s, p) =
        [price |-> p, orders |-> Tally(flat.ids, s, p).orders, qty |-> Tally(flat.ids, s, p).qty]
  <2>1. \A s, p : Flat!Promise!At(s, p) = At(flat.ids, s, p)
    BY Zenon DEF Flat!Promise!At, At
  <2>2. \A S : Flat!Promise!Cardinality(S) = Cardinality(S)
    BY Zenon DEF Flat!Promise!Cardinality, Cardinality, Flat!Promise!IsFiniteSet, IsFiniteSet
  <2>3. \A S : Flat!Promise!MapThenSumSet(LAMBDA r : flat.ids[r].qty, S) = HP!SumOf(flat.ids, S)
    BY Zenon DEF Flat!Promise!MapThenSumSet, Flat!Promise!MapThenFoldSet, HP!MapThenSumSet,
       HP!MapThenFoldSet, HP!SumOf
  <2>4. \A s, p : Flat!Promise!Level(s, p) = [price |-> p, orders |-> Cardinality(At(flat.ids, s, p)),
                                             qty |-> HP!SumOf(flat.ids, At(flat.ids, s, p))]
    BY Zenon, <2>1, <2>2, <2>3 DEF Flat!Promise!Level
  <2> QED
    BY <2>4, SumParts DEF Tally
<1>4. \A s : Flat!Promise!Shown(s) = Recount(flat.ids, s)
  BY <1>1, <1>2, <1>3 DEF Flat!Promise!Shown, Recount
<1> QED
  BY <1>1, <1>4 DEF Flat!Promise!kInvalidPrice

LEMMA FlatSnapshot ==
    ASSUME NEW b, NEW V, FlatIs(b, V), NEW s \in HP!Sides
    PROVE  Flat!Snapshot(b, s) = Recount(V, s)
<1> DEFINE ps == HP!Promise!Ranked(s, Quoted(V, s))
<1>0. b.bits = BitsOf(V) /\ b.over = OverOf(V) /\ IsView(V)
  BY FlatParts
<1>1. DOMAIN b.over[s] = Outside(V, s)
  BY <1>0 DEF OverOf
<1>2. Flat!Window!Collect(s, b.bits[s], DOMAIN b.over[s]) = ps /\ ps \in Seq(Quoted(V, s))
  <2>1. PICK bits, over : bits = BitsOf(V)[s] /\ over = Outside(V, s)
    OBVIOUS
  <2>2. /\ bits \in SUBSET HP!Grid /\ over \in SUBSET Nat /\ HP!IsFiniteSet(over)
        /\ \A q \in over : ~HP!InGrid(q)
        /\ HP!AtTicks(bits) \cup over = Quoted(V, s)
    BY <1>0, <2>1, QuotedParts
  <2>3. LET c == HP!Window!Collect(s, bits, over) IN
        c = HP!Promise!Ranked(s, HP!AtTicks(bits) \cup over) /\ c \in Seq(HP!AtTicks(bits) \cup over)
    BY <2>2, WindowIs, HP!CollectIs
  <2>4. Flat!Window!Collect(s, bits, over) = HP!Window!Collect(s, bits, over)
    BY FlatAnswers
  <2> QED
    BY <1>0, <1>1, <2>1, <2>2, <2>3, <2>4
<1> HIDE DEF ps
<1> DEFINE Agg(px) == IF Flat!InGrid(px) THEN b.grid[s][Flat!TickOf(px)] ELSE b.over[s][px]
<1>3. ASSUME NEW i \in DOMAIN ps PROVE Agg(ps[i]) = Tally(V, s, ps[i])
  <2>1. ps[i] \in Quoted(V, s)
    BY <1>2
  <2>2. PICK p \in Nat : p = ps[i] /\ p \in Quoted(V, s)
    BY <1>0, <2>1, QuotedFinite
  <2>3. /\ HP!InGrid(p) => b.grid[s][HP!TickOf(p)] = Tally(V, s, p)
        /\ ~HP!InGrid(p) => b.over[s][p] = Tally(V, s, p)
    BY <2>2, FlatAt
  <2>4. (Flat!InGrid(p) <=> HP!InGrid(p)) /\ Flat!TickOf(p) = HP!TickOf(p)
    BY FlatWindow
  <2> QED
    BY <2>2, <2>3, <2>4
<1>4. Flat!Snapshot(b, s) = [i \in DOMAIN ps |-> [price |-> ps[i], qty |-> Agg(ps[i]).qty,
                                                   orders |-> Agg(ps[i]).orders]]
  BY <1>2 DEF Flat!Snapshot
<1> HIDE DEF Agg
<1>5. Recount(V, s) = [i \in DOMAIN ps |-> [price |-> ps[i], orders |-> Tally(V, s, ps[i]).orders,
                                             qty |-> Tally(V, s, ps[i]).qty]]
  BY DEF Recount, ps
<1> QED
  BY <1>3, <1>4, <1>5

LEMMA FlatBest ==
    ASSUME NEW b, NEW V, FlatIs(b, V), NEW s \in HP!Sides
    PROVE  IF Quoted(V, s) = {} THEN Flat!BestPrice(b, s) = 0 ELSE Flat!BestPrice(b, s) \in Quoted(V, s)
<1>1. PICK bits, over, hint : bits = BitsOf(V)[s] /\ over = Outside(V, s) /\ hint = b.hint[s]
  OBVIOUS
<1>2. b.bits[s] = bits /\ DOMAIN b.over[s] = over /\ IsView(V) /\ HintsAt(b.hint, V)
  <2>1. b.bits = BitsOf(V) /\ b.over = OverOf(V) /\ IsView(V)
    BY FlatParts
  <2>2. DOMAIN OverOf(V)[s] = Outside(V, s)
    BY DEF OverOf
  <2> QED
    BY <1>1, <2>1, <2>2 DEF FlatIs
<1>3. /\ bits \in SUBSET HP!Grid /\ over \in SUBSET Nat /\ IsFiniteSet(over) /\ HP!IsFiniteSet(over)
      /\ HP!AtTicks(bits) \cup over = Quoted(V, s)
  BY <1>1, <1>2, QuotedParts
<1>4. hint = HP!Window!NoTick \/ hint \in bits
  BY <1>1, <1>2 DEF HintsAt
<1> DEFINE h == HP!Window!Refreshed(s, bits, hint)
<1>5. IF bits = {} THEN h = HP!Window!NoTick ELSE h \in bits
  BY <1>3, <1>4, WindowIs, HP!RefreshedIn
<1>6. over # {} => HP!Window!Outermost(s, over) \in over
  BY <1>3, HP!OutermostIn
<1>7. Flat!BestPrice(b, s) = HP!Window!BestOf(s, h, over)
  <2>1. Flat!Window!Refreshed(s, bits, hint) = h
    BY FlatAnswers
  <2>2. Flat!Window!BestOf(s, h, over) = HP!Window!BestOf(s, h, over)
    BY FlatAnswers
  <2> QED
    BY <1>1, <1>2, <2>1, <2>2 DEF Flat!BestPrice
<1>8. HP!Window!NoTick \notin bits
  BY <1>3, WindowIs, HP!WindowFacts DEF HP!Grid, HP!Window!NoTick
<1>9. bits = {} => HP!AtTicks(bits) = {}
  BY DEF HP!AtTicks
<1>10. h \in bits => HP!Window!PriceOf(h) \in Quoted(V, s)
  BY <1>3 DEF HP!AtTicks
<1> HIDE DEF h
<1>11. CASE bits = {}
  BY <1>3, <1>5, <1>6, <1>7, <1>9, <1>11 DEF HP!Window!BestOf, HP!Window!kInvalidPrice
<1>12. CASE bits # {}
  BY <1>3, <1>5, <1>6, <1>7, <1>8, <1>10, <1>12 DEF HP!Window!BestOf
<1> QED
  BY <1>11, <1>12

LEMMA FlatFind == ASSUME NEW b, NEW V, FlatIs(b, V) PROVE b.ids = V
  BY FlatParts

(* What each event does to the flat book. *)
LEMMA FlatAddStep ==
    ASSUME NEW V, FlatIs(flat, V), NEW ref, NEW side \in HP!Sides, NEW px \in Prices,
           NEW qty \in Quantities, Flat!OnAdd(ref, side, px, qty)
    PROVE  /\ ref \notin DOMAIN V /\ FlatIs(flat', flat'.ids)
           /\ AddTo(V, flat.rejected, flat'.ids, flat'.rejected, ref, side, px, qty)
<1>1. ref \notin DOMAIN V /\ flat' = Flat!Add(flat, ref, side, px, qty)
  BY FlatFind DEF Flat!OnAdd
<1>2. px \in Nat \ {0} /\ qty \in Nat
  BY BookConstants
<1>3. LET c == Flat!Add(flat, ref, side, px, qty) IN
      FlatIs(c, c.ids) /\ AddTo(V, flat.rejected, c.ids, c.rejected, ref, side, px, qty)
  BY <1>1, <1>2, FlatAdds
<1> QED
  BY <1>1, <1>3

LEMMA FlatReplaceStep ==
    ASSUME NEW V, FlatIs(flat, V), NEW old, NEW new, NEW px \in Prices, NEW qty \in Quantities,
           Flat!OnReplace(old, new, px, qty)
    PROVE  /\ new \notin DOMAIN V \ {old} /\ FlatIs(flat', flat'.ids)
           /\ ReplaceIn(V, flat.rejected, flat'.ids, flat'.rejected, old, new, px, qty)
<1>1. new \notin DOMAIN V \ {old} /\ flat' = Flat!Replace(flat, old, new, px, qty)
  BY FlatFind DEF Flat!OnReplace
<1>2. px \in Nat \ {0} /\ qty \in Nat
  BY BookConstants
<1>3. LET c == Flat!Replace(flat, old, new, px, qty) IN
      FlatIs(c, c.ids) /\ ReplaceIn(V, flat.rejected, c.ids, c.rejected, old, new, px, qty)
  BY <1>1, <1>2, FlatReplaces
<1> QED
  BY <1>1, <1>3

LEMMA FlatReduceStep ==
    ASSUME NEW V, FlatIs(flat, V), NEW ref, NEW qty \in Quantities, Flat!OnReduce(ref, qty)
    PROVE  FlatIs(flat', Fewer(V, ref, qty)) /\ flat'.rejected = flat.rejected
<1>1. qty \in Nat /\ flat' = Flat!Reduce(flat, ref, qty)
  BY BookConstants DEF Flat!OnReduce
<1>2. LET c == Flat!Reduce(flat, ref, qty) IN
      FlatIs(c, Fewer(V, ref, qty)) /\ c.rejected = flat.rejected
  BY <1>1, FlatReduces
<1> QED
  BY <1>1, <1>2

LEMMA FlatRemoveStep ==
    ASSUME NEW V, FlatIs(flat, V), NEW ref, Flat!OnRemove(ref)
    PROVE  FlatIs(flat', Gone(V, ref)) /\ flat'.rejected = flat.rejected
<1>1. flat' = Flat!Remove(flat, ref)
  BY DEF Flat!OnRemove
<1>2. LET c == Flat!Remove(flat, ref) IN FlatIs(c, Gone(V, ref)) /\ c.rejected = flat.rejected
  BY FlatRemoves
<1> QED
  BY <1>1, <1>2

LEMMA FlatQueryStep ==
    ASSUME NEW V, FlatIs(flat, V), NEW side \in HP!Sides, Flat!OnQuery(side)
    PROVE  FlatIs(flat', V) /\ flat'.rejected = flat.rejected
<1>1. flat' = Flat!Query(flat, side)
  BY DEF Flat!OnQuery
<1>2. LET c == Flat!Query(flat, side) IN FlatIs(c, V) /\ c.rejected = flat.rejected
  BY FlatQueries
<1> QED
  BY <1>1, <1>2

LEMMA FlatClearStep ==
    ASSUME NEW V, FlatIs(flat, V), Flat!Clear
    PROVE  FlatIs(flat', << >>) /\ flat'.rejected = flat.rejected
<1>1. flat' = [Flat!Empty(flat.capacity) EXCEPT !.rejected = flat.rejected]
  BY DEF Flat!Clear
<1>2. LET c == [Flat!Empty(flat.capacity) EXCEPT !.rejected = flat.rejected] IN
      FlatIs(c, << >>) /\ c.rejected = flat.rejected
  BY FlatClears
<1> QED
  BY <1>1, <1>2

LEMMA FlatInit == Init => FlatIs(flat, flat.ids) /\ flat.ids = << >> /\ flat.rejected = 0
<1> SUFFICES ASSUME Init PROVE FlatIs(flat, flat.ids) /\ flat.ids = << >> /\ flat.rejected = 0
  OBVIOUS
<1>1. PICK n : flat = Flat!Empty(n)
  BY DEF Init
<1>2. LET c == Flat!Empty(n) IN
      DOMAIN c = FlatFields /\ c.ids = << >> /\ c.rejected = 0 /\ FlatIs(c, << >>)
  BY FlatEmpty
<1> QED
  BY <1>1, <1>2

LEMMA FlatStays == ASSUME FlatIs(flat, flat.ids), [Next]_books PROVE FlatIs(flat, flat.ids)'
<1>0. PICK V : V = flat.ids /\ FlatIs(flat, V)
  OBVIOUS
<1>w. SUFFICES \E W : FlatIs(flat', W)
  <2> SUFFICES ASSUME NEW W, FlatIs(flat', W) PROVE FlatIs(flat', flat'.ids)
    OBVIOUS
  <2> QED
    BY FlatFind
<1>1. CASE AddEvent
  <2>1. PICK ref \in Refs, side \in HP!Sides, px \in Prices, qty \in Quantities :
             Flat!OnAdd(ref, side, px, qty)
    BY <1>1, MapSides DEF AddEvent
  <2> QED
    BY <1>0, <2>1, FlatAddStep
<1>2. CASE ReduceEvent
  BY <1>0, <1>2, FlatReduceStep DEF ReduceEvent
<1>3. CASE DeleteEvent
  BY <1>0, <1>3, FlatRemoveStep DEF DeleteEvent
<1>4. CASE ReplaceEvent
  <2>1. PICK old \in Refs, new \in Refs, px \in Prices, qty \in Quantities :
             Flat!OnReplace(old, new, px, qty)
    BY <1>4 DEF ReplaceEvent
  <2> QED
    BY <1>0, <2>1, FlatReplaceStep
<1>5. CASE AskBest
  <2>1. PICK side \in HP!Sides : Flat!OnQuery(side)
    BY <1>5, MapSides DEF AskBest
  <2> QED
    BY <1>0, <2>1, FlatQueryStep
<1>6. CASE ClearAll
  BY <1>0, <1>6, FlatClearStep DEF ClearAll
<1>7. CASE UNCHANGED books
  BY <1>0, <1>7 DEF books
<1> QED
  BY <1>1, <1>2, <1>3, <1>4, <1>5, <1>6, <1>7 DEF Next

LEMMA FlatHolds == Spec => []FlatIs(flat, flat.ids)
<1>1. Init => FlatIs(flat, flat.ids)
  BY FlatInit
<1> QED
  BY <1>1, FlatStays, PTL DEF Spec

LEMMA FlatShows ==
    FlatIs(flat, flat.ids) => Flat!ShowsItsOrders /\ Flat!BestIsResting /\ Flat!DropsAreCounted
<1> SUFFICES ASSUME FlatIs(flat, flat.ids)
             PROVE  Flat!ShowsItsOrders /\ Flat!BestIsResting /\ Flat!DropsAreCounted
  OBVIOUS
<1>0. PICK V : V = flat.ids /\ FlatIs(flat, V)
  OBVIOUS
<1>1. Flat!ShowsItsOrders
  BY <1>0, FlatSnapshot, FlatPromise, FlatSides DEF Flat!ShowsItsOrders
<1>2. Flat!BestIsResting
  <2>1. ASSUME NEW s \in HP!Sides
        PROVE  IF Quoted(V, s) = {} THEN Flat!BestPrice(flat, s) = 0
               ELSE Flat!BestPrice(flat, s) \in Quoted(V, s)
    BY <1>0, FlatBest
  <2> QED
    BY <1>0, <2>1, FlatPromise, FlatSides DEF Flat!BestIsResting
<1>3. Flat!DropsAreCounted
  <2> SUFFICES ASSUME NEW ref \in Refs, NEW side \in HP!Sides, NEW px \in Prices,
                      NEW qty \in Quantities \ {0}, ref \notin DOMAIN flat.ids
               PROVE  LET b == Flat!Add(flat, ref, side, px, qty) IN
                      (ref \in DOMAIN b.ids) # (b.rejected = flat.rejected + 1)
    BY FlatSides DEF Flat!DropsAreCounted
  <2> DEFINE c == Flat!Add(flat, ref, side, px, qty)
  <2>1. AddTo(V, flat.rejected, c.ids, c.rejected, ref, side, px, qty)
    <3>1. px \in Nat \ {0} /\ qty \in Nat /\ ref \notin DOMAIN V
      BY <1>0, BookConstants
    <3>2. LET d == Flat!Add(flat, ref, side, px, qty) IN
          FlatIs(d, d.ids) /\ AddTo(V, flat.rejected, d.ids, d.rejected, ref, side, px, qty)
      BY <1>0, <3>1, FlatAdds
    <3> QED
      BY <3>2
  <2>2. flat.rejected \in Nat
    BY <1>0, FlatParts
  <2> HIDE DEF c
  <2>3. CASE c.ids = Added(V, ref, side, px, qty) /\ c.rejected = flat.rejected
    <3>1. ref \in DOMAIN c.ids
      BY <2>3 DEF Added, HP!Put
    <3> QED
      BY <2>2, <2>3, <3>1 DEF c
  <2>4. CASE c.ids = V /\ c.rejected = flat.rejected + 1
    BY <1>0, <2>2, <2>4 DEF c
  <2> QED
    BY <2>1, <2>3, <2>4 DEF AddTo
<1> QED
  BY <1>1, <1>2, <1>3

(* What the events do to the flat book is what the abstract book may do. *)
LEMMA FlatSteps ==
    ASSUME FlatIs(flat, flat.ids), [Next]_books PROVE [Flat!Promise!Next]_(Flat!Promise!vars)
<1>0. PICK V : FlatIs(flat, V) /\ V = flat.ids /\ IsView(V)
  BY FlatParts
<1>s. Flat!Promise!Sides = HP!Sides
  BY FlatSides DEF Flat!Sides
<1>p. /\ \A f, i, o : Flat!Promise!Put(f, i, o) = HP!Put(f, i, o)
      /\ \A f, i : Flat!Promise!Without(f, i) = HP!Without(f, i)
  BY Zenon DEF Flat!Promise!Put, HP!Put, Flat!Promise!Without, HP!Without
<1>1. CASE AddEvent
  <2>1. PICK ref \in Refs, side \in HP!Sides, px \in Prices, qty \in Quantities :
             Flat!OnAdd(ref, side, px, qty)
    BY <1>1, MapSides DEF AddEvent
  <2>2. /\ ref \notin DOMAIN V
        /\ AddTo(V, flat.rejected, flat'.ids, flat'.rejected, ref, side, px, qty)
    BY <1>0, <2>1, FlatAddStep
  <2>3. Flat!Promise!Add(ref, side, px, qty)
    BY <1>0, <1>p, <2>2 DEF Flat!Promise!Add, Flat!Promise!Join, AddTo, Added, Rests
  <2> QED
    BY <1>0, <1>s, <2>2, <2>3 DEF Flat!Promise!Next
<1>2. CASE ReduceEvent
  <2>1. PICK ref \in Refs, qty \in Quantities : Flat!OnReduce(ref, qty)
    BY <1>2 DEF ReduceEvent
  <2>2. flat'.ids = Fewer(V, ref, qty) /\ flat'.rejected = flat.rejected
    BY <1>0, <2>1, FlatReduceStep, FlatFind
  <2>3. CASE ref \in DOMAIN V
    <3>1. qty >= V[ref].qty <=> ~(qty < V[ref].qty)
      BY <1>0, <2>3, TallyHas, BookConstants
    <3>2. Flat!Promise!Reduce(ref, qty)
      BY <1>0, <1>p, <2>2, <2>3, <3>1 DEF Flat!Promise!Reduce, Fewer, Gone, Less
    <3> QED
      BY <1>0, <2>3, <3>2 DEF Flat!Promise!Next
  <2>4. CASE ref \notin DOMAIN V
    BY <1>0, <2>2, <2>4 DEF Fewer, Gone, Flat!Promise!vars
  <2> QED
    BY <2>3, <2>4
<1>3. CASE DeleteEvent
  <2>1. PICK ref \in Refs : Flat!OnRemove(ref)
    BY <1>3 DEF DeleteEvent
  <2>2. flat'.ids = Gone(V, ref) /\ flat'.rejected = flat.rejected
    BY <1>0, <2>1, FlatRemoveStep, FlatFind
  <2>3. CASE ref \in DOMAIN V
    <3>2. Flat!Promise!Remove(ref)
      BY <1>0, <1>p, <2>2, <2>3 DEF Flat!Promise!Remove, Gone
    <3> QED
      BY <1>0, <2>3, <3>2 DEF Flat!Promise!Next
  <2>4. CASE ref \notin DOMAIN V
    BY <1>0, <2>2, <2>4 DEF Gone, Flat!Promise!vars
  <2> QED
    BY <2>3, <2>4
<1>4. CASE ReplaceEvent
  <2>1. PICK old \in Refs, new \in Refs, px \in Prices, qty \in Quantities :
             Flat!OnReplace(old, new, px, qty)
    BY <1>4 DEF ReplaceEvent
  <2>2. /\ new \notin DOMAIN V \ {old}
        /\ ReplaceIn(V, flat.rejected, flat'.ids, flat'.rejected, old, new, px, qty)
    BY <1>0, <2>1, FlatReplaceStep
  <2>3. CASE old \in DOMAIN V
    <3>1. new \in (Refs \ DOMAIN V) \cup {old}
      BY <2>2
    <3>2. Flat!Promise!Replace(old, new, px, qty)
      BY <1>0, <1>p, <2>2, <2>3
         DEF Flat!Promise!Replace, Flat!Promise!Join, ReplaceIn, AddTo, Added, Rests
    <3> QED
      BY <1>0, <2>3, <3>1, <3>2 DEF Flat!Promise!Next
  <2>4. CASE old \notin DOMAIN V
    BY <1>0, <2>2, <2>4 DEF ReplaceIn, Flat!Promise!vars
  <2> QED
    BY <2>3, <2>4
<1>5. CASE AskBest
  <2>1. PICK side \in HP!Sides : Flat!OnQuery(side)
    BY <1>5, MapSides DEF AskBest
  <2>2. flat'.ids = V /\ flat'.rejected = flat.rejected
    BY <1>0, <2>1, FlatQueryStep, FlatFind
  <2> QED
    BY <1>0, <2>2 DEF Flat!Promise!vars
<1>6. CASE ClearAll
  <2>1. flat'.ids = << >> /\ flat'.rejected = flat.rejected
    BY <1>0, <1>6, FlatClearStep, FlatFind DEF ClearAll
  <2>2. Flat!Promise!Clear
    BY <2>1 DEF Flat!Promise!Clear
  <2> QED
    BY <2>2 DEF Flat!Promise!Next
<1>7. CASE UNCHANGED books
  BY <1>7 DEF books, Flat!Promise!vars
<1> QED
  BY <1>1, <1>2, <1>3, <1>4, <1>5, <1>6, <1>7 DEF Next

LEMMA FlatIsBook == Spec => Flat!ImplementsBook
<1>1. Init => Flat!Promise!Init
  BY FlatInit DEF Flat!Promise!Init
<1> QED
  BY <1>1, FlatSteps, FlatHolds, PTL DEF Spec, Flat!ImplementsBook, Flat!Promise!Spec

-----------------------------------------------------------------------------
(* What IntrusiveBook shows of its sorted vectors. *)
Priced(v, L, n) == [j \in 1..n |-> L[v[j]].price]

(* The vector of a side goes through the prices held there, best first. *)
GoesThrough(v, L, h, s) ==
    /\ v \in Seq(Nat)
    /\ \A j \in 1..Len(v) : /\ L[v[j]].price \in HP!Held(h, s) /\ L[v[j]].price \in Nat
                            /\ HP!Lookup(h, s, L[v[j]].price) = v[j]
    /\ \A p \in HP!Held(h, s) : \E j \in 1..Len(v) : L[v[j]].price = p
    /\ \A j, k \in 1..Len(v) : j < k => Outranks(s, L[v[j]].price, L[v[k]].price)

LEMMA SidePrices ==
    ASSUME NEW i, NEW h, Twin(i, h), HP!BookInv(h), NEW s \in HP!Sides,
           NEW v, v = i.index[s], NEW L, L = h.levels
    PROVE  GoesThrough(v, L, h, s)
<1>0. /\ HP!Sound(h) /\ HP!Found(h) /\ Lists(v, L, s, OnSide(h, s))
  BY DEF Twin, Indexed, HP!BookInv, HP!Sound
<1>1. /\ v \in Seq(Nat) /\ \A j \in 1..Len(v) : v[j] \in OnSide(h, s)
      /\ \A l \in OnSide(h, s) : \E j \in 1..Len(v) : v[j] = l
      /\ \A j, k \in 1..Len(v) : j < k => Outranks(s, L[v[j]].price, L[v[k]].price)
      /\ \A l \in OnSide(h, s) : L[l].price \in Nat
  BY <1>0 DEF Lists, HP!Listed, RankedBy
<1>2. \A l \in DOMAIN L : l # HP!Nil
  BY <1>0, LevelPrices
<1>3. /\ \A p \in Nat : HP!Lookup(h, s, p) # HP!Nil => p \in HP!Held(h, s)
      /\ \A p \in HP!Held(h, s) : p \in Nat /\ HP!Lookup(h, s, p) # HP!Nil
  BY HP!HeldIsFound
<1>4. ASSUME NEW j \in 1..Len(v)
      PROVE  /\ L[v[j]].price \in HP!Held(h, s) /\ L[v[j]].price \in Nat
             /\ HP!Lookup(h, s, L[v[j]].price) = v[j]
  <2>1. v[j] \in OnSide(h, s)
    BY <1>1
  <2>2. v[j] \in DOMAIN L /\ HP!Lookup(h, s, L[v[j]].price) = v[j]
    BY <2>1 DEF OnSide
  <2>. QED  BY <1>1, <1>2, <1>3, <2>1, <2>2
<1>5. ASSUME NEW p \in HP!Held(h, s) PROVE \E j \in 1..Len(v) : L[v[j]].price = p
  <2>1. PICK l : l = HP!Lookup(h, s, p)
    OBVIOUS
  <2>2. l \in DOMAIN L /\ L[l].price = p
    BY <1>0, <1>3, <2>1 DEF HP!Found
  <2>3. l \in OnSide(h, s)
    BY <2>1, <2>2 DEF OnSide
  <2>. QED  BY <1>1, <2>2, <2>3
<1>. QED  BY <1>1, <1>4, <1>5 DEF GoesThrough

LEMMA OutranksIs ==
    ASSUME NEW s, NEW p \in Nat, NEW q \in Nat
    PROVE  /\ Outranks(s, p, q) <=> HP!Promise!Better(s, p, q)
           /\ Outranks(s, p, q) <=> Intrusive!Promise!Better(s, p, q)
           /\ Outranks(s, p, q) => p # q /\ ~Outranks(s, q, p)
BY DEF Outranks, HP!Promise!Better, Intrusive!Promise!Better

LEMMA HeldFinite ==
    ASSUME NEW i, NEW h, Twin(i, h), HP!BookInv(h), NEW s \in HP!Sides
    PROVE  HP!IsFiniteSet(HP!Held(h, s)) /\ HP!Held(h, s) \in SUBSET Nat
<1>1. PICK v, L : v = i.index[s] /\ L = h.levels
  OBVIOUS
<1>2. /\ v \in Seq(Nat) /\ Len(v) \in Nat
      /\ \A j \in 1..Len(v) : L[v[j]].price \in HP!Held(h, s) /\ L[v[j]].price \in Nat
      /\ \A p \in HP!Held(h, s) : \E j \in 1..Len(v) : L[v[j]].price = p
      /\ \A j, k \in 1..Len(v) : j < k => Outranks(s, L[v[j]].price, L[v[k]].price)
  <2>1. /\ v \in Seq(Nat)
        /\ \A j \in 1..Len(v) : /\ L[v[j]].price \in HP!Held(h, s) /\ L[v[j]].price \in Nat
                                /\ HP!Lookup(h, s, L[v[j]].price) = v[j]
        /\ \A p \in HP!Held(h, s) : \E j \in 1..Len(v) : L[v[j]].price = p
        /\ \A j, k \in 1..Len(v) : j < k => Outranks(s, L[v[j]].price, L[v[k]].price)
    <3>1. GoesThrough(v, L, h, s)
      BY <1>1, SidePrices
    <3>. QED  BY <3>1 DEF GoesThrough
  <2>2. Len(v) \in Nat
    BY <2>1
  <2>. QED  BY <2>1, <2>2
<1>3. PICK w, n : w = Priced(v, L, Len(v)) /\ n = Len(v) /\ n \in Nat
  BY <1>2
<1>4. \A j \in 1..n : w[j] = L[v[j]].price /\ w[j] \in Nat
  BY <1>2, <1>3 DEF Priced
<1>5. ASSUME NEW j \in 1..n, NEW k \in 1..n, w[j] = w[k] PROVE j = k
  <2>1. j < k => Outranks(s, w[j], w[k])
    BY <1>2, <1>3, <1>4
  <2>2. k < j => Outranks(s, w[k], w[j])
    BY <1>2, <1>3, <1>4
  <2>3. w[j] \in Nat /\ w[k] \in Nat
    BY <1>4
  <2>. QED  BY <1>5, <2>1, <2>2, <2>3, OutranksIs
<1>6. HP!IsFiniteSet(HP!Moved(w, 1..n))
  BY <1>3, <1>5, HP!SizeOfList
<1>7. HP!Moved(w, 1..n) = HP!Held(h, s)
  BY <1>2, <1>3, <1>4 DEF HP!Moved
<1>8. \A p \in HP!Held(h, s) : p \in Nat
  BY <1>2, <1>3
<1>. QED  BY <1>6, <1>7, <1>8

LEMMA FirstPrices ==
    ASSUME NEW i, NEW h, Twin(i, h), HP!BookInv(h), NEW s \in HP!Sides,
           NEW v, v = i.index[s],
           NEW n, n = IF Depth <= Len(v) THEN Depth ELSE Len(v),
           NEW w, w = Priced(v, h.levels, n)
    PROVE  w = HP!Promise!Ranked(s, HP!Held(h, s))
<1>1. PICK L, H : L = h.levels /\ H = HP!Held(h, s)
  OBVIOUS
<1>2. /\ v \in Seq(Nat) /\ Len(v) \in Nat
      /\ \A j \in 1..Len(v) : L[v[j]].price \in H /\ L[v[j]].price \in Nat
      /\ \A p \in H : \E j \in 1..Len(v) : L[v[j]].price = p
      /\ \A j, k \in 1..Len(v) : j < k => Outranks(s, L[v[j]].price, L[v[k]].price)
  <2>1. /\ v \in Seq(Nat)
        /\ \A j \in 1..Len(v) : /\ L[v[j]].price \in HP!Held(h, s) /\ L[v[j]].price \in Nat
                                /\ HP!Lookup(h, s, L[v[j]].price) = v[j]
        /\ \A p \in HP!Held(h, s) : \E j \in 1..Len(v) : L[v[j]].price = p
        /\ \A j, k \in 1..Len(v) : j < k => Outranks(s, L[v[j]].price, L[v[k]].price)
    <3>1. GoesThrough(v, L, h, s)
      BY <1>1, SidePrices
    <3>. QED  BY <3>1 DEF GoesThrough
  <2>2. Len(v) \in Nat
    BY <2>1
  <2>. QED  BY <1>1, <2>1, <2>2
<1>3. HP!IsFiniteSet(H) /\ H \in SUBSET Nat
  BY <1>1, HeldFinite
<1>4. Depth \in Nat \ {0}
  BY BookConstants
<1>5. n \in Nat /\ n <= Len(v) /\ n <= Depth /\ (n = Depth \/ n = Len(v))
  BY <1>2, <1>4
<1>6. \A j \in 1..n : j \in 1..Len(v)
  BY <1>2, <1>5
<1>7. /\ w \in Seq(H) /\ Len(w) = n
      /\ \A j \in 1..n : w[j] = L[v[j]].price /\ w[j] \in Nat /\ w[j] \in H
  <2>1. w = [j \in 1..n |-> L[v[j]].price]
    BY <1>1 DEF Priced
  <2>2. \A j \in 1..n : L[v[j]].price \in H /\ L[v[j]].price \in Nat
    BY <1>2, <1>6
  <2>3. w \in Seq(H) /\ Len(w) = n
    BY <1>5, <2>1, <2>2
  <2>. QED  BY <2>1, <2>2, <2>3
<1>8. ASSUME NEW j \in 1..n, NEW k \in 1..n, j < k PROVE HP!Promise!Better(s, w[j], w[k])
  <2>1. Outranks(s, w[j], w[k])
    <3>1. \A a, b \in 1..Len(v) : a < b => Outranks(s, L[v[a]].price, L[v[b]].price)
      BY <1>2
    <3>2. j \in 1..Len(v) /\ k \in 1..Len(v)
      BY <1>6
    <3>3. Outranks(s, L[v[j]].price, L[v[k]].price)
      BY <1>8, <3>1, <3>2
    <3>4. w[j] = L[v[j]].price /\ w[k] = L[v[k]].price
      BY <1>7
    <3>. QED  BY <3>3, <3>4
  <2>. QED  BY <1>7, <2>1, OutranksIs
<1>9. ASSUME NEW j \in 1..n, NEW q \in H \ HP!Listed(w) PROVE HP!Promise!Better(s, w[j], q)
  <2>1. PICK k \in 1..Len(v) : L[v[k]].price = q
    BY <1>2
  <2>2. k > n
    <3>1. SUFFICES ASSUME k <= n PROVE FALSE
      BY <1>5, <1>2
    <3>2. k \in 1..n
      BY <3>1, <1>5
    <3>. QED  BY <1>7, <2>1, <3>2 DEF HP!Listed
  <2>3. j \in 1..Len(v) /\ j < k
    BY <1>5, <1>6, <2>2
  <2>4. Outranks(s, w[j], q)
    BY <1>2, <1>7, <2>1, <2>3
  <2>5. q \in Nat /\ w[j] \in Nat
    BY <1>3, <1>7
  <2>. QED  BY <2>4, <2>5, OutranksIs
<1>10. n = Len(v) => HP!Listed(w) = H
  <2>. SUFFICES ASSUME n = Len(v) PROVE HP!Listed(w) = H
    OBVIOUS
  <2>1. HP!Listed(w) = {w[j] : j \in 1..n}
    BY <1>7 DEF HP!Listed
  <2>2. ASSUME NEW p \in H PROVE \E j \in 1..n : w[j] = p
    <3>1. PICK j \in 1..Len(v) : L[v[j]].price = p
      BY <1>2
    <3>. QED  BY <1>7, <3>1
  <2>. QED  BY <1>7, <2>1, <2>2
<1>11. H \in SUBSET Int
  BY <1>3
<1>12. w = HP!Promise!Ranked(s, H)
  <2>1. Len(w) = n /\ n <= Depth /\ (n = Depth \/ n = Len(v))
    BY <1>5, <1>7
  <2>2. \A j, k \in 1..Len(w) : j < k => HP!Promise!Better(s, w[j], w[k])
    BY <1>8, <2>1
  <2>3. \A j \in 1..Len(w) : \A q \in H \ HP!Listed(w) : HP!Promise!Better(s, w[j], q)
    BY <1>9, <2>1
  <2>4. Len(w) <= Depth /\ (Len(w) = Depth \/ HP!Listed(w) = H)
    BY <1>10, <2>1
  <2>5. w \in Seq(H)
    BY <1>7
  <2>. QED  BY ONLY <1>3, <1>4, <1>11, <2>2, <2>3, <2>4, <2>5, HP!RankedIs
<1>. QED  BY <1>1, <1>12

TopFits(s, ps, p) == p \in ps /\ \A q \in ps \ {p} : Intrusive!Promise!Better(s, p, q)

LEMMA TopIs ==
    ASSUME NEW s, NEW ps \in SUBSET Nat, NEW p, TopFits(s, ps, p)
    PROVE  Intrusive!Promise!Top(s, ps) = p
<1>1. ASSUME NEW q, TopFits(s, ps, q) PROVE q = p
  <2>. SUFFICES ASSUME q # p PROVE FALSE
    OBVIOUS
  <2>1. p \in ps /\ q \in ps
    BY <1>1 DEF TopFits
  <2>2. Intrusive!Promise!Better(s, p, q) /\ Intrusive!Promise!Better(s, q, p)
    BY <1>1, <2>1 DEF TopFits
  <2>. QED  BY <2>1, <2>2 DEF Intrusive!Promise!Better
<1>2. (CHOOSE q : TopFits(s, ps, q)) = p
  BY <1>1
<1>3. Intrusive!Promise!Top(s, ps) = CHOOSE q : TopFits(s, ps, q)
  BY Zenon DEF Intrusive!Promise!Top, TopFits
<1>. QED  BY <1>2, <1>3

LEMMA TwinPromiseIs ==
    ASSUME TwinBooks
    PROVE  /\ \A s : Intrusive!Promise!Quoted(s) = Quoted(HP!View(hybrid), s)
           /\ \A s : Intrusive!Promise!Shown(s) = Recount(HP!View(hybrid), s)
           /\ Intrusive!Promise!kInvalidPrice = 0
<1>0. IView(intrusive) = HP!View(hybrid)
  BY TwinView DEF TwinBooks
<1>1. \A s : Intrusive!Promise!Quoted(s) = Quoted(IView(intrusive), s)
  BY Zenon DEF Intrusive!Promise!Quoted, Quoted, IView
<1>2. \A s, ps : Intrusive!Promise!Ranked(s, ps) = HP!Promise!Ranked(s, ps)
  BY Zenon DEF Intrusive!Promise!Ranked, HP!Promise!Ranked, Intrusive!Promise!Better,
     HP!Promise!Better, Intrusive!Promise!Cardinality, HP!Promise!Cardinality,
     Intrusive!Promise!IsFiniteSet, HP!Promise!IsFiniteSet, Intrusive!Promise!Min, HP!Promise!Min
<1>3. \A s, p : Intrusive!Promise!Level(s, p) =
        [price |-> p, orders |-> Tally(IView(intrusive), s, p).orders,
         qty |-> Tally(IView(intrusive), s, p).qty]
  <2>1. \A s, p : Intrusive!Promise!At(s, p) = At(IView(intrusive), s, p)
    BY Zenon DEF Intrusive!Promise!At, At, IView
  <2>2. \A S : Intrusive!Promise!Cardinality(S) = Cardinality(S)
    BY Zenon DEF Intrusive!Promise!Cardinality, Cardinality, Intrusive!Promise!IsFiniteSet, IsFiniteSet
  <2>3. \A s, p : Intrusive!Promise!Level(s, p) =
            [price |-> p, orders |-> Intrusive!Promise!Cardinality(Intrusive!Promise!At(s, p)),
             qty |-> HP!SumOf(IView(intrusive), Intrusive!Promise!At(s, p))]
    BY Zenon DEF Intrusive!Promise!Level, Intrusive!Promise!MapThenSumSet,
       Intrusive!Promise!MapThenFoldSet, HP!MapThenSumSet, HP!MapThenFoldSet, HP!SumOf, IView
  <2>4. \A s, p : Intrusive!Promise!Level(s, p) =
            [price |-> p, orders |-> Cardinality(At(IView(intrusive), s, p)),
             qty |-> HP!SumOf(IView(intrusive), At(IView(intrusive), s, p))]
    BY <2>1, <2>2, <2>3, Zenon
  <2> QED
    BY <2>4, SumParts DEF Tally
<1>4. \A s : Intrusive!Promise!Shown(s) = Recount(IView(intrusive), s)
  BY <1>1, <1>2, <1>3 DEF Intrusive!Promise!Shown, Recount
<1>. QED  BY <1>0, <1>1, <1>4 DEF Intrusive!Promise!kInvalidPrice

LEMMA HybridPromiseIs ==
    /\ \A s : HP!Promise!Quoted(s) = Quoted(HP!View(hybrid), s)
    /\ \A s : HP!Promise!Shown(s) = Recount(HP!View(hybrid), s)
<1>1. \A s : HP!Promise!Quoted(s) = Quoted(HP!View(hybrid), s)
  BY Zenon DEF HP!Promise!Quoted, Quoted, HP!View
<1>3. \A s, p : HP!Promise!Level(s, p) =
        [price |-> p, orders |-> Tally(HP!View(hybrid), s, p).orders,
         qty |-> Tally(HP!View(hybrid), s, p).qty]
  <2>1. \A s, p : HP!Promise!At(s, p) = At(HP!View(hybrid), s, p)
    BY Zenon DEF HP!Promise!At, At, HP!View
  <2>2. \A S : HP!Cardinality(S) = Cardinality(S)
    BY Zenon DEF HP!Cardinality, Cardinality, HP!IsFiniteSet, IsFiniteSet
  <2>3. \A s, p : HP!Promise!Level(s, p) =
            [price |-> p, orders |-> HP!Cardinality(HP!Promise!At(s, p)),
             qty |-> HP!SumOf(HP!View(hybrid), HP!Promise!At(s, p))]
    BY HP!PromiseLevel
  <2>4. \A s, p : HP!Promise!Level(s, p) =
            [price |-> p, orders |-> Cardinality(At(HP!View(hybrid), s, p)),
             qty |-> HP!SumOf(HP!View(hybrid), At(HP!View(hybrid), s, p))]
    BY <2>1, <2>2, <2>3, Zenon
  <2> QED
    BY <2>4, SumParts DEF Tally
<1>4. \A s : HP!Promise!Shown(s) = Recount(HP!View(hybrid), s)
  BY <1>1, <1>3 DEF HP!Promise!Shown, Recount
<1>. QED  BY <1>1, <1>4

LEMMA TwinSnapshot ==
    ASSUME TwinBooks, HP!AllKnown(hybrid), NEW s \in HP!Sides
    PROVE  Intrusive!Snapshot(intrusive, s) = HP!Promise!Shown(s)
<1>0. /\ Twin(intrusive, hybrid) /\ HP!BookInv(hybrid) /\ intrusive.levels = hybrid.levels
  BY DEF TwinBooks, Twin
<1>1. PICK v, L : v = intrusive.index[s] /\ L = hybrid.levels
  OBVIOUS
<1>2. GoesThrough(v, L, hybrid, s)
  BY <1>0, <1>1, SidePrices
<1>3. v \in Seq(Nat) /\ Len(v) \in Nat
  BY <1>2 DEF GoesThrough
<1>4. PICK n : n = IF Depth <= Len(v) THEN Depth ELSE Len(v)
  OBVIOUS
<1>5. n \in Nat /\ n <= Len(v)
  BY <1>3, <1>4, BookConstants
<1>6. Intrusive!Min({Depth, Len(v)}) = n
  <2>1. \A x, y : Intrusive!Min({x, y}) = HP!Promise!Min({x, y})
    BY Zenon DEF Intrusive!Min, HP!Promise!Min
  <2>2. Depth \in Int /\ Len(v) \in Int
    BY <1>3, BookConstants
  <2>3. HP!Promise!Min({Depth, Len(v)}) = IF Depth <= Len(v) THEN Depth ELSE Len(v)
    BY <2>2, HP!PromiseMin
  <2>. QED  BY <1>4, <2>1, <2>3
<1>7. PICK w : w = Priced(v, hybrid.levels, n)
  OBVIOUS
<1>8. w = HP!Promise!Ranked(s, HP!Held(hybrid, s))
  BY <1>0, <1>1, <1>4, <1>7, FirstPrices
<1>9. DOMAIN w = 1..n /\ \A j \in 1..n : w[j] = L[v[j]].price
  BY <1>1, <1>7 DEF Priced
<1>10. HP!Promise!Quoted(s) = HP!Held(hybrid, s)
  BY <1>0, HP!QuotedIsHeld
<1>11. HP!Promise!Shown(s) = [j \in 1..n |-> HP!Promise!Level(s, w[j])]
  BY <1>8, <1>9, <1>10 DEF HP!Promise!Shown
<1>12. ASSUME NEW j \in 1..n
       PROVE  [price |-> L[v[j]].price, qty |-> L[v[j]].qty, orders |-> L[v[j]].orders]
                = HP!Promise!Level(s, w[j])
  <2>1. PICK p, l : p = w[j] /\ l = v[j]
    OBVIOUS
  <2>2. p \in HP!Held(hybrid, s) /\ HP!Lookup(hybrid, s, p) = l
    <3>1. j \in 1..Len(v)
      BY <1>3, <1>5
    <3>2. /\ L[v[j]].price \in HP!Held(hybrid, s)
          /\ HP!Lookup(hybrid, s, L[v[j]].price) = v[j]
      BY <1>2, <3>1 DEF GoesThrough
    <3>3. w[j] = L[v[j]].price
      BY <1>9
    <3>. QED  BY <2>1, <3>2, <3>3
  <2>3. /\ hybrid.levels[HP!Lookup(hybrid, s, p)].price = p
        /\ hybrid.levels[HP!Lookup(hybrid, s, p)].qty = HP!SumOf(HP!View(hybrid), HP!Promise!At(s, p))
        /\ hybrid.levels[HP!Lookup(hybrid, s, p)].orders = HP!Cardinality(HP!Promise!At(s, p))
    BY <1>0, <2>2, HP!KnownLevel
  <2>4. HP!Promise!Level(s, p) =
           [price |-> p, orders |-> HP!Cardinality(HP!Promise!At(s, p)),
            qty |-> HP!SumOf(HP!View(hybrid), HP!Promise!At(s, p))]
    BY HP!PromiseLevel
  <2>. QED  BY <1>1, <2>1, <2>2, <2>3, <2>4
<1>13. Intrusive!Snapshot(intrusive, s) =
          [j \in 1..n |-> [price |-> L[v[j]].price, qty |-> L[v[j]].qty, orders |-> L[v[j]].orders]]
  BY <1>0, <1>1, <1>6 DEF Intrusive!Snapshot
<1>. QED  BY <1>11, <1>12, <1>13

LEMMA TwinBest ==
    ASSUME TwinBooks, HP!AllKnown(hybrid), NEW s \in HP!Sides
    PROVE  Intrusive!BestPrice(intrusive, s) = Intrusive!Promise!Best(s)
<1>0. /\ Twin(intrusive, hybrid) /\ HP!BookInv(hybrid) /\ intrusive.levels = hybrid.levels
  BY DEF TwinBooks, Twin
<1>1. PICK v, L, H : v = intrusive.index[s] /\ L = hybrid.levels /\ H = HP!Held(hybrid, s)
  OBVIOUS
<1>2. GoesThrough(v, L, hybrid, s)
  BY <1>0, <1>1, SidePrices
<1>3. /\ v \in Seq(Nat) /\ Len(v) \in Nat
      /\ \A j \in 1..Len(v) : L[v[j]].price \in H /\ L[v[j]].price \in Nat
      /\ \A p \in H : \E j \in 1..Len(v) : L[v[j]].price = p
      /\ \A j, k \in 1..Len(v) : j < k => Outranks(s, L[v[j]].price, L[v[k]].price)
  BY <1>1, <1>2 DEF GoesThrough
<1>4. Intrusive!Promise!Quoted(s) = H
  BY <1>0, <1>1, HP!QuotedIsHeld, HybridPromiseIs, TwinPromiseIs
<1>5. CASE v = << >>
  <2>1. H = {}
    BY <1>3, <1>5
  <2>. QED  BY <1>1, <1>4, <1>5, <2>1 DEF Intrusive!BestPrice, Intrusive!Promise!Best
<1>6. CASE v # << >>
  <2>1. 1 \in 1..Len(v) /\ Head(v) = v[1]
    BY <1>3, <1>6
  <2>2. PICK p : p = L[v[1]].price
    OBVIOUS
  <2>3. p \in H /\ p \in Nat
    BY <1>3, <2>1, <2>2
  <2>4. ASSUME NEW q \in H \ {p} PROVE Intrusive!Promise!Better(s, p, q)
    <3>1. PICK j \in 1..Len(v) : L[v[j]].price = q
      BY <1>3
    <3>2. j # 1 /\ 1 < j
      BY <1>3, <2>2, <3>1
    <3>3. Outranks(s, p, q) /\ q \in Nat
      BY <1>3, <2>1, <2>2, <3>1, <3>2
    <3>. QED  BY <2>3, <3>3, OutranksIs
  <2>5. H \in SUBSET Nat
    BY <1>0, <1>1, HeldFinite
  <2>6. Intrusive!Promise!Top(s, H) = p
    <3>1. TopFits(s, H, p)
      BY <2>3, <2>4 DEF TopFits
    <3>. QED  BY <2>5, <3>1, TopIs
  <2>7. Intrusive!BestPrice(intrusive, s) = p
    BY <1>0, <1>1, <1>6, <2>1, <2>2 DEF Intrusive!BestPrice
  <2>. QED  BY <1>4, <2>3, <2>6, <2>7 DEF Intrusive!Promise!Best
<1>. QED  BY <1>5, <1>6

(* IntrusiveBook shows a recount of its orders, by the levels it shares with HybridBook. *)
LEMMA TwinStranded ==
    ASSUME TwinBooks
    PROVE  /\ Intrusive!NoneStranded <=> HP!AllKnown(hybrid)
           /\ Intrusive!NoneStranded <=> Hybrid!NoneStranded
<1>0. Bared(intrusive.orders, hybrid.orders) /\ intrusive.ids = hybrid.ids
  BY DEF TwinBooks, Twin
<1>1. /\ DOMAIN intrusive.orders = DOMAIN hybrid.orders
      /\ \A oi \in DOMAIN hybrid.orders : intrusive.orders[oi].id = hybrid.orders[oi].id
  BY <1>0, UnstampedIs DEF Bared
<1>2. Intrusive!NoneStranded <=> HP!AllKnown(hybrid)
  BY <1>0, <1>1 DEF Intrusive!NoneStranded, HP!AllKnown
<1>. QED  BY <1>2, SameStranded, HP!StrandedIs

LEMMA IntrusiveShows == Spec => [](Intrusive!NoneStranded => Intrusive!ShowsItsOrders)
<1>1. ASSUME TwinBooks, Intrusive!NoneStranded
      PROVE  Intrusive!ShowsItsOrders
  <2>1. HP!AllKnown(hybrid)
    BY <1>1, TwinStranded
  <2>2. \A s \in HP!Sides : Intrusive!Snapshot(intrusive, s) = HP!Promise!Shown(s)
    BY <1>1, <2>1, TwinSnapshot
  <2>3. \A s \in HP!Sides : Intrusive!BestPrice(intrusive, s) = Intrusive!Promise!Best(s)
    BY <1>1, <2>1, TwinBest
  <2>4. \A s : HP!Promise!Shown(s) = Intrusive!Promise!Shown(s)
    BY <1>1, HybridPromiseIs, TwinPromiseIs
  <2>. QED  BY <2>2, <2>3, <2>4, EventFacts DEF Intrusive!ShowsItsOrders
<1>. QED  BY <1>1, TwinsHold, PTL

-----------------------------------------------------------------------------
(* What each call does to the orders HybridBook can reach. *)
LEMMA ViewAddTo ==
    ASSUME NEW b, HP!BookInv(b), NEW ref \in Refs, NEW side \in HP!Sides, NEW px \in Nat \ {0},
           NEW qty \in Nat, NEW c, c = HP!Add(b, ref, side, px, qty)
    PROVE  AddTo(HP!View(b), b.rejected, HP!View(c), c.rejected, ref, side, px, qty)
<1>1. HP!Kept(HP!View(b), HP!View(c), b.rejected, c.rejected, ref, side, px, qty)
  BY HybridConstants, HP!ViewOfAdd
<1>2. HP!Resting3(side, px, qty) = Rests(side, px, qty)
  BY DEF HP!Resting3, Rests
<1>. QED  BY <1>1, <1>2 DEF HP!Kept, AddTo, Added

LEMMA ViewRemoves ==
    ASSUME NEW b, HP!BookInv(b), NEW ref, NEW c, c = HP!Remove(b, ref)
    PROVE  HP!View(c) = Gone(HP!View(b), ref) /\ c.rejected = b.rejected
<1>0. DOMAIN HP!View(b) = DOMAIN b.ids /\ HP!IdsFit(b)
  BY DEF HP!View, HP!BookInv
<1>1. \/ ref \notin DOMAIN b.ids /\ c = b
      \/ ref \in DOMAIN b.ids /\ HP!TakesOut(c, b, b.ids[ref], ref)
  BY HybridConstants, HP!RemovalKeeps
<1>2. CASE ref \notin DOMAIN b.ids /\ c = b
  BY <1>0, <1>2 DEF Gone
<1>3. CASE ref \in DOMAIN b.ids /\ HP!TakesOut(c, b, b.ids[ref], ref)
  <2>1. HP!View(c) = HP!Without(HP!View(b), ref) /\ c.rejected = b.rejected
    BY <1>0, <1>3, HP!ViewRemoved
  <2>. QED  BY <1>0, <1>3, <2>1 DEF Gone
<1>. QED  BY <1>1, <1>2, <1>3

LEMMA ViewReduces ==
    ASSUME NEW b, HP!BookInv(b), NEW ref, NEW qty \in Nat, NEW c, c = HP!Reduce(b, ref, qty)
    PROVE  HP!View(c) = Fewer(HP!View(b), ref, qty) /\ c.rejected = b.rejected
<1>0. DOMAIN HP!View(b) = DOMAIN b.ids /\ HP!IdsFit(b)
  BY DEF HP!View, HP!BookInv
<1>1. \/ ref \notin DOMAIN b.ids /\ c = b
      \/ /\ ref \in DOMAIN b.ids /\ qty >= b.orders[b.ids[ref]].qty
         /\ HP!TakesOut(c, b, b.ids[ref], ref)
      \/ /\ ref \in DOMAIN b.ids /\ qty < b.orders[b.ids[ref]].qty
         /\ HP!TakesShares(c, b, b.ids[ref], qty)
  BY HybridConstants, HP!ReduceKeeps
<1>2. ref \in DOMAIN b.ids =>
        /\ HP!View(b)[ref].qty = b.orders[b.ids[ref]].qty
        /\ b.orders[b.ids[ref]].qty \in Nat
  BY <1>0 DEF HP!View, HP!OrderIn, HP!IdsFit, HP!BookInv, HP!Sound, HP!Queues, HP!EntryFits, HP!Entry
<1>3. CASE ref \notin DOMAIN b.ids /\ c = b
  BY <1>0, <1>3 DEF Fewer, Gone
<1>4. CASE /\ ref \in DOMAIN b.ids /\ qty >= b.orders[b.ids[ref]].qty
           /\ HP!TakesOut(c, b, b.ids[ref], ref)
  <2>1. HP!View(c) = HP!Without(HP!View(b), ref) /\ c.rejected = b.rejected
    BY <1>0, <1>4, HP!ViewRemoved
  <2>2. ~(qty < HP!View(b)[ref].qty)
    BY <1>2, <1>4
  <2>. QED  BY <1>0, <1>4, <2>1, <2>2 DEF Fewer, Gone
<1>5. CASE /\ ref \in DOMAIN b.ids /\ qty < b.orders[b.ids[ref]].qty
           /\ HP!TakesShares(c, b, b.ids[ref], qty)
  <2>1. HP!View(c) = HP!Shrunk(HP!View(b), ref, qty) /\ c.rejected = b.rejected
    BY <1>0, <1>5, HP!ViewShrinks
  <2>2. HP!Shrunk(HP!View(b), ref, qty) = Less(HP!View(b), ref, qty)
    BY DEF HP!Shrunk, Less
  <2>. QED  BY <1>0, <1>2, <1>5, <2>1, <2>2 DEF Fewer
<1>. QED  BY <1>1, <1>3, <1>4, <1>5

LEMMA ViewReplaces ==
    ASSUME NEW b, HP!BookInv(b), NEW old, NEW new \in Refs, NEW px \in Nat \ {0}, NEW qty \in Nat,
           NEW c, c = HP!Replace(b, old, new, px, qty)
    PROVE  ReplaceIn(HP!View(b), b.rejected, HP!View(c), c.rejected, old, new, px, qty)
<1>0. DOMAIN HP!View(b) = DOMAIN b.ids /\ HP!IdsFit(b)
  BY DEF HP!View, HP!BookInv
<1>1. CASE old \notin DOMAIN b.ids
  BY <1>0, <1>1 DEF HP!Replace, ReplaceIn
<1>2. CASE old \in DOMAIN b.ids
  <2>1. PICK r, side : r = HP!Remove(b, old) /\ side = b.orders[b.ids[old]].side
    OBVIOUS
  <2>2. HP!BookInv(r) /\ HP!TakesOut(r, b, b.ids[old], old)
    BY <1>2, <2>1, HybridConstants, HP!RemoveKeeps
  <2>3. HP!View(r) = HP!Without(HP!View(b), old) /\ r.rejected = b.rejected
    BY <1>0, <1>2, <2>2, HP!ViewRemoved
  <2>4. side \in HP!Sides /\ HP!View(b)[old].side = side
    BY <1>0, <1>2, <2>1
       DEF HP!View, HP!OrderIn, HP!IdsFit, HP!BookInv, HP!Sound, HP!Queues, HP!EntryFits, HP!Entry
  <2>5. c = HP!Add(r, new, side, px, qty)
    BY <1>2, <2>1 DEF HP!Replace
  <2>6. AddTo(HP!View(r), r.rejected, HP!View(c), c.rejected, new, side, px, qty)
    BY <2>2, <2>4, <2>5, ViewAddTo
  <2>. QED  BY <1>0, <1>2, <2>3, <2>4, <2>6 DEF ReplaceIn
<1>. QED  BY <1>1, <1>2

LEMMA ViewQueries ==
    ASSUME NEW b, HP!BookInv(b), NEW side \in HP!Sides, NEW c, c = HP!Query(b, side)
    PROVE  HP!View(c) = HP!View(b) /\ c.rejected = b.rejected
<1>1. c.orders = b.orders /\ c.levels = b.levels /\ c.ids = b.ids /\ c.rejected = b.rejected
  BY HybridConstants, HP!QueryKeeps
<1>. QED  BY <1>1, HP!ViewKept

LEMMA ViewEmpties ==
    ASSUME NEW size \in Sizes, NEW r \in Nat, NEW ns \in Nat, NEW c, c = HP!Emptied(size, r, ns)
    PROVE  HP!View(c) = << >> /\ c.rejected = r
<1>1. c.ids = << >> /\ c.rejected = r
  BY HybridConstants, HP!EmptyKeeps
<1>2. DOMAIN << >> = {} /\ \A f : DOMAIN f = {} => << >> = [x \in {} |-> f[x]]
  OBVIOUS
<1>. QED  BY <1>1, <1>2 DEF HP!View

-----------------------------------------------------------------------------
(* What every design holds, event by event. *)

(* A design that has turned nothing down holds the orders that MapBook holds. *)
Follow == /\ flat.rejected = 0 => flat.ids = map.orders
          /\ hybrid.rejected = 0 => HP!View(hybrid) = map.orders

(* What each design reaches before and after a call, W and X, as MapBook's V and U do. *)
Led(V, n, W, U, m, X) == n \in Nat /\ (n = 0 => W = V) => (m = 0 => X = U)

LEMMA AddLeads ==
    ASSUME NEW V, NEW n, NEW W, NEW X, NEW m, NEW ref, NEW side, NEW px, NEW qty,
           AddTo(W, n, X, m, ref, side, px, qty)
    PROVE  Led(V, n, W, Added(V, ref, side, px, qty), m, X)
  BY DEF Led, AddTo

LEMMA ReplaceLeads ==
    ASSUME NEW V, NEW n, NEW W, NEW X, NEW m, NEW old, NEW new, NEW px, NEW qty,
           ReplaceIn(W, n, X, m, old, new, px, qty),
           NEW U, U = IF old \in DOMAIN V THEN Added(HP!Without(V, old), new, V[old].side, px, qty) ELSE V
    PROVE  Led(V, n, W, U, m, X)
<1>. SUFFICES ASSUME n \in Nat, n = 0 => W = V, m = 0 PROVE X = U
  BY DEF Led
<1>1. CASE old \in DOMAIN W
  <2>1. AddTo(HP!Without(W, old), n, X, m, new, W[old].side, px, qty)
    BY <1>1 DEF ReplaceIn
  <2>2. n = 0 /\ X = Added(HP!Without(W, old), new, W[old].side, px, qty)
    BY <2>1 DEF AddTo
  <2>. QED  BY <1>1, <2>2
<1>2. CASE old \notin DOMAIN W
  BY <1>2 DEF ReplaceIn
<1>. QED  BY <1>1, <1>2

LEMMA FollowsLed ==
    ASSUME NEW V, NEW U, NEW W, NEW X, NEW Y, NEW Z, Follow, V = map.orders, U = map'.orders,
           W = flat.ids, X = flat'.ids, Y = HP!View(hybrid), Z = HP!View(hybrid'),
           flat.rejected \in Nat, hybrid.rejected \in Nat,
           Led(V, flat.rejected, W, U, flat'.rejected, X),
           Led(V, hybrid.rejected, Y, U, hybrid'.rejected, Z)
    PROVE  Follow'
<1>1. flat'.rejected = 0 => flat'.ids = map'.orders
  BY DEF Follow, Led
<1>2. hybrid'.rejected = 0 => HP!View(hybrid') = map'.orders
  BY DEF Follow, Led
<1>. QED  BY <1>1, <1>2 DEF Follow

LEMMA FollowSteps ==
    ASSUME Follow, MapIs(map, map.orders), FlatIs(flat, flat.ids), HP!BookInv(hybrid), [Next]_books
    PROVE  Follow'
<1> DEFINE V == map.orders
           W == flat.ids
           Y == HP!View(hybrid)
           Leads(U) == /\ map'.orders = U
                       /\ Led(V, flat.rejected, W, U, flat'.rejected, flat'.ids)
                       /\ Led(V, hybrid.rejected, Y, U, hybrid'.rejected, HP!View(hybrid'))
<1>0. /\ MapIs(map, V) /\ FlatIs(flat, W) /\ V = map.orders /\ W = flat.ids /\ Y = HP!View(hybrid)
      /\ flat.rejected \in Nat /\ hybrid.rejected \in Nat
  BY FlatParts DEF HP!BookInv, HP!Sound
<1>q. ASSUME NEW U, Leads(U) PROVE Follow'
  BY <1>0, <1>q, FollowsLed
<1> HIDE DEF V, W, Y
<1>1. CASE AddEvent
  <2>1. PICK ref \in Refs, side \in HP!Sides, px \in Prices, qty \in Quantities :
             /\ Map!OnAdd(ref, side, px, qty) /\ Flat!OnAdd(ref, side, px, qty)
             /\ Hybrid!OnAdd(ref, side, px, qty)
    BY <1>1, MapSides DEF AddEvent
  <2>2. px \in Nat \ {0} /\ qty \in Nat /\ side \in Map!Sides
    BY EventFacts
  <2>3. PICK U : U = Added(V, ref, side, px, qty)
    OBVIOUS
  <2>4. map'.orders = U
    BY <1>0, <2>1, <2>2, <2>3, MapAddStep, MapsOrders
  <2>5. AddTo(W, flat.rejected, flat'.ids, flat'.rejected, ref, side, px, qty)
    BY <1>0, <2>1, FlatAddStep
  <2>6. hybrid' = HP!Add(hybrid, ref, side, px, qty)
    BY <2>1, SameAdd DEF Hybrid!OnAdd
  <2>7. AddTo(Y, hybrid.rejected, HP!View(hybrid'), hybrid'.rejected, ref, side, px, qty)
    BY <1>0, <2>2, <2>6, ViewAddTo
  <2>8. Leads(U)
    BY <2>3, <2>4, <2>5, <2>7, AddLeads
  <2>. QED  BY <1>q, <2>8
<1>2. CASE ReduceEvent
  <2>1. PICK ref \in Refs, qty \in Quantities :
             Map!OnReduce(ref, qty) /\ Flat!OnReduce(ref, qty) /\ Hybrid!OnReduce(ref, qty)
    BY <1>2 DEF ReduceEvent
  <2>2. qty \in Nat
    BY EventFacts
  <2>3. map'.orders = Fewer(V, ref, qty)
    BY <1>0, <2>1, MapReduceStep, MapsOrders
  <2>4. flat'.ids = Fewer(W, ref, qty) /\ flat'.rejected = flat.rejected
    BY <1>0, <2>1, FlatReduceStep, FlatFind
  <2>5. hybrid' = HP!Reduce(hybrid, ref, qty)
    BY <2>1, SameReduce DEF Hybrid!OnReduce
  <2>6. HP!View(hybrid') = Fewer(Y, ref, qty) /\ hybrid'.rejected = hybrid.rejected
    BY <1>0, <2>2, <2>5, ViewReduces
  <2>7. Leads(Fewer(V, ref, qty))
    BY <2>3, <2>4, <2>6 DEF Led
  <2>. QED  BY <1>q, <2>7
<1>3. CASE DeleteEvent
  <2>1. PICK ref \in Refs : Map!OnRemove(ref) /\ Flat!OnRemove(ref) /\ Hybrid!OnRemove(ref)
    BY <1>3 DEF DeleteEvent
  <2>2. map'.orders = Gone(V, ref)
    BY <1>0, <2>1, MapRemoves, MapsOrders DEF Map!OnRemove
  <2>3. flat'.ids = Gone(W, ref) /\ flat'.rejected = flat.rejected
    BY <1>0, <2>1, FlatRemoveStep, FlatFind
  <2>4. hybrid' = HP!Remove(hybrid, ref)
    BY <2>1, SameRemove DEF Hybrid!OnRemove
  <2>5. HP!View(hybrid') = Gone(Y, ref) /\ hybrid'.rejected = hybrid.rejected
    BY <1>0, <2>4, ViewRemoves
  <2>6. Leads(Gone(V, ref))
    BY <2>2, <2>3, <2>5 DEF Led
  <2>. QED  BY <1>q, <2>6
<1>4. CASE ReplaceEvent
  <2>1. PICK old \in Refs, new \in Refs, px \in Prices, qty \in Quantities :
             /\ Map!OnReplace(old, new, px, qty) /\ Flat!OnReplace(old, new, px, qty)
             /\ Hybrid!OnReplace(old, new, px, qty)
    BY <1>4 DEF ReplaceEvent
  <2>2. px \in Nat \ {0} /\ qty \in Nat
    BY EventFacts
  <2>3. PICK U : U = IF old \in DOMAIN V
                     THEN Added(HP!Without(V, old), new, V[old].side, px, qty) ELSE V
    OBVIOUS
  <2>4. map'.orders = U
    BY <1>0, <2>1, <2>3, MapReplaceStep, MapsOrders
  <2>5. ReplaceIn(W, flat.rejected, flat'.ids, flat'.rejected, old, new, px, qty)
    BY <1>0, <2>1, FlatReplaceStep
  <2>6. hybrid' = HP!Replace(hybrid, old, new, px, qty)
    BY <2>1, SameReplace DEF Hybrid!OnReplace
  <2>7. ReplaceIn(Y, hybrid.rejected, HP!View(hybrid'), hybrid'.rejected, old, new, px, qty)
    BY <1>0, <2>2, <2>6, ViewReplaces
  <2>8. Leads(U)
    BY <2>3, <2>4, <2>5, <2>7, ReplaceLeads
  <2>. QED  BY <1>q, <2>8
<1>5. CASE AskBest
  <2>1. PICK side \in HP!Sides : Flat!OnQuery(side) /\ Hybrid!OnQuery(side)
    BY <1>5, MapSides DEF AskBest
  <2>2. map' = map
    BY <1>5 DEF AskBest
  <2>3. flat'.ids = W /\ flat'.rejected = flat.rejected
    BY <1>0, <2>1, FlatQueryStep, FlatFind
  <2>4. hybrid' = HP!Query(hybrid, side)
    BY <2>1, SameQuery DEF Hybrid!OnQuery
  <2>5. HP!View(hybrid') = Y /\ hybrid'.rejected = hybrid.rejected
    BY <1>0, <2>4, ViewQueries
  <2>6. Leads(V)
    BY <1>0, <2>2, <2>3, <2>5 DEF Led
  <2>. QED  BY <1>q, <2>6
<1>6. CASE ClearAll
  <2>1. PICK r, ns, z : r = hybrid.rejected /\ ns = hybrid.nextSeq /\ z = hybrid.size
    OBVIOUS
  <2>2. r \in Nat /\ ns \in Nat /\ z \in Sizes
    BY <2>1 DEF HP!BookInv, HP!Sound, HP!PoolsFit, HP!Queues
  <2>3. hybrid' = HP!Emptied(z, r, ns)
    BY <1>6, <2>1, SameEmpty DEF ClearAll, Hybrid!Clear, HP!Emptied
  <2>4. HP!View(hybrid') = << >> /\ hybrid'.rejected = r
    BY <2>2, <2>3, ViewEmpties
  <2>5. map'.orders = << >>
    BY <1>6, MapEmpty, MapsOrders DEF ClearAll, Map!Clear
  <2>6. flat'.ids = << >> /\ flat'.rejected = flat.rejected
    BY <1>0, <1>6, FlatClearStep, FlatFind DEF ClearAll
  <2>7. Leads(<< >>)
    BY <2>4, <2>5, <2>6 DEF Led
  <2>. QED  BY <1>q, <2>7
<1>7. CASE UNCHANGED books
  BY <1>7 DEF books, Follow
<1>. QED  BY <1>1, <1>2, <1>3, <1>4, <1>5, <1>6, <1>7 DEF Next

LEMMA FollowHolds == Spec => []Follow
<1>1. ASSUME Init PROVE Follow
  <2>1. map.orders = << >>
    BY <1>1, MapEmpty, MapsOrders DEF Init
  <2>2. flat.ids = << >>
    BY <1>1, FlatInit
  <2>3. PICK size \in Sizes : hybrid = HP!Empty(size)
    BY <1>1, SameEmpty DEF Init, Sizes
  <2>4. hybrid.ids = << >>
    BY <2>3, HybridConstants, HP!EmptyStarts
  <2>5. DOMAIN << >> = {} /\ \A f : DOMAIN f = {} => << >> = [x \in {} |-> f[x]]
    OBVIOUS
  <2>6. HP!View(hybrid) = << >>
    BY <2>4, <2>5 DEF HP!View
  <2>. QED  BY <2>1, <2>2, <2>6 DEF Follow
<1>. QED  BY <1>1, FollowSteps, MapHolds, FlatHolds, TwinsHold, PTL DEF Spec, TwinBooks

(* The four snapshots of a side, one recount. *)
LEMMA AllShow ==
    ASSUME TwinBooks, HP!AllKnown(hybrid), MapIs(map, map.orders), FlatIs(flat, flat.ids),
           flat.ids = map.orders, HP!View(hybrid) = map.orders, NEW s \in HP!Sides
    PROVE  /\ Map!Snapshot(map, s) = Recount(map.orders, s)
           /\ Intrusive!Snapshot(intrusive, s) = Recount(map.orders, s)
           /\ Flat!Snapshot(flat, s) = Recount(map.orders, s)
           /\ Hybrid!Snapshot(hybrid, s) = Recount(map.orders, s)
<1>0. s \in Map!Sides /\ HP!BookInv(hybrid)
  BY EventFacts DEF TwinBooks
<1>1. Map!Snapshot(map, s) = Recount(map.orders, s)
  BY <1>0, MapShows, MapPromise DEF Map!ShowsItsOrders
<1>2. HP!Promise!Shown(s) = Recount(map.orders, s)
  BY HybridPromiseIs
<1>3. Intrusive!Snapshot(intrusive, s) = Recount(map.orders, s)
  BY <1>2, TwinSnapshot
<1>4. Flat!Snapshot(flat, s) = Recount(map.orders, s)
  BY FlatSnapshot
<1>5. HP!Snapshot(hybrid, s) = Recount(map.orders, s)
  BY <1>0, <1>2, HybridConstants, HP!SnapshotRecounts
<1>6. Hybrid!Snapshot(hybrid, s) = HP!Snapshot(hybrid, s)
  BY SameSnapshot
<1>. QED  BY <1>1, <1>3, <1>4, <1>5, <1>6

LEMMA GateOpens ==
    ASSUME TwinBooks, HP!Known(hybrid), MapIs(map, map.orders), FlatIs(flat, flat.ids), Follow
    PROVE  Gate
<1>1. intrusive.rejected = hybrid.rejected /\ hybrid.rejected \in Nat /\ flat.rejected \in Nat
  BY FlatParts DEF TwinBooks, Twin, HP!BookInv, HP!Sound
<1>. SUFFICES ASSUME intrusive.rejected + flat.rejected + hybrid.rejected = 0
              PROVE  /\ Passes
                     /\ {DOMAIN intrusive.ids, DOMAIN flat.ids, DOMAIN hybrid.ids} = {DOMAIN map.orders}
  BY DEF Gate
<1>2. intrusive.rejected = 0 /\ flat.rejected = 0 /\ hybrid.rejected = 0
  BY <1>1
<1>3. flat.ids = map.orders /\ HP!View(hybrid) = map.orders
  BY <1>2 DEF Follow
<1>4. HP!AllKnown(hybrid)
  BY <1>2 DEF HP!Known
<1>5. Agree
  <2>1. SUFFICES ASSUME NEW s \in HP!Sides
                 PROVE  {Intrusive!Snapshot(intrusive, s), Flat!Snapshot(flat, s),
                         Hybrid!Snapshot(hybrid, s)} = {Map!Snapshot(map, s)}
    BY EventFacts DEF Agree
  <2>2. PICK r : r = Recount(map.orders, s)
    OBVIOUS
  <2>3. /\ Map!Snapshot(map, s) = r /\ Intrusive!Snapshot(intrusive, s) = r
        /\ Flat!Snapshot(flat, s) = r /\ Hybrid!Snapshot(hybrid, s) = r
    BY <1>3, <1>4, <2>2, AllShow
  <2>. QED  BY <2>3
<1>6. PICK D : D = DOMAIN map.orders
  OBVIOUS
<1>7. DOMAIN intrusive.ids = D /\ DOMAIN flat.ids = D /\ DOMAIN hybrid.ids = D
  BY <1>3, <1>6 DEF HP!View, TwinBooks, Twin
<1>. QED  BY <1>2, <1>5, <1>6, <1>7 DEF Passes

LEMMA GateHolds == Spec => []Gate
<1>1. HP!Spec => [](HP!BookInv(hybrid) /\ HP!Known(hybrid))
  BY HybridConstants, HP!SoundAndKnown
<1>. QED  BY <1>1, GateOpens, HybridSteps, TwinsHold, MapHolds, FlatHolds, FollowHolds, PTL

-----------------------------------------------------------------------------
(* book_crossval.cpp's verdict, at every event of every tape and not only those of *)
(* the day it was run on: as long as no design turns an order down, the four show  *)
(* the same snapshots and hold the same orders, whatever the window, the pools and *)
(* the depth compared, and however far a cached best tick has fallen behind.       *)
THEOREM GateStaysOpen == Spec => []Gate
  BY GateHolds, PTL

(* Each design's snapshot and, but for HybridBook's, its best price are what a       *)
(* recount of the orders it can still find gives, whatever it has turned down.  A    *)
(* pooled design that holds an order it cannot find is excepted, and FlatBook, which *)
(* asks its id table first, needs no exception.                                      *)
THEOREM BooksShowTheirOrders == Spec => []ShowTheirOrders
<1>1. MapIs(map, map.orders) => Map!ShowsItsOrders
  BY MapShows
<1>. QED  BY <1>1, MapHolds, FlatHolds, FlatShows, HybridShows, IntrusiveShows, PTL
          DEF ShowTheirOrders

(* When the exception cannot arise: a pooled design that has turned nothing down, or *)
(* whose id table has room for every reference, finds every order it holds, however  *)
(* often its pools of orders and levels have run out.                                *)
THEOREM NoneAreStranded ==
    Spec => [](hybrid.rejected = 0 \/ RoomForAll => Intrusive!NoneStranded /\ Hybrid!NoneStranded)
<1>1. TwinBooks => (Intrusive!NoneStranded <=> Hybrid!NoneStranded)
  BY TwinStranded
<1>. QED  BY <1>1, HybridFinds, TwinsHold, PTL

(* The lists through the pools' entries are well formed, and no entry is lost, shared *)
(* or freed twice, in both pooled designs, whose free lists hand the same entries out *)
(* again after any sequence of adds, cancels, replaces and clears.                    *)
THEOREM PoolsStayWhole == Spec => []PoolsWhole
  BY IntrusivePools, HybridHolds, PTL DEF PoolsWhole

(* HybridBook's insertion stamps are the order of its lists, whatever events the  *)
(* four books are driven by: the lists are sound, and comparing the stamps of two *)
(* orders at a price answers which comes first, as shares_ahead_of takes it to.   *)
THEOREM StampsOrderQueues == Spec => []StampsAreQueueOrder
  BY HybridHolds, PTL DEF StampsAreQueueOrder

(* The cached tick of the two windowed designs never names a price at which nothing *)
(* rests, nor none when something does, whether the tick was improved, forgotten or *)
(* searched for again by the last call: HybridBook's while no order is stranded.    *)
THEOREM BestStaysResting == Spec => []BestIsResting
  BY FlatHolds, FlatShows, HybridShows, PTL DEF BestIsResting

(* Whatever order the bounded designs are told of next, each either finds it by its *)
(* reference afterwards or has counted it as rejected: the drop is never silent.    *)
THEOREM DropsStayCounted == Spec => []DropsAreCounted
  BY IntrusiveDrops, FlatHolds, FlatShows, HybridHolds, PTL DEF DropsAreCounted

(* Each design implements the abstract book: event by event, the orders it can find by *)
(* reference change as OrderBook's do, or an add was turned down and counted.          *)
THEOREM BooksImplementBook == Spec => ImplementBook
  BY MapIsBook, IntrusiveIsBook, FlatIsBook, HybridHolds, PTL DEF ImplementBook
=============================================================================

-------------------------- MODULE PooledBooks_proofs --------------------------
(*************************************************************************************)
(* The two pooled books in the comparison.  What is proved of the hybrid book        *)
(* alone (HybridBook_proofs) holds of the one compared, step by step; and the        *)
(* intrusive book walks in step with it, entry for entry of their pools (Twin): its  *)
(* lists are the hybrid book's without the stamps, and its sorted vectors of levels, *)
(* searched by bisection, go through the prices that the hybrid book finds by its    *)
(* window and its overflow map (Indexed).  What holds of the one's pools, lists and  *)
(* orders is then carried over to the other's.                                       *)
(*************************************************************************************)
EXTENDS BookCrossval, Sequences, FiniteSetTheorems, WellFoundedInduction, TLAPS

-----------------------------------------------------------------------------
(* The operators of the hybrid book that is compared are those it is proved of. *)
HP == INSTANCE HybridBook_proofs WITH book <- hybrid

LEMMA SameWindows ==
    ASSUME NEW p, NEW s, NEW h, NEW t, NEW bits
    PROVE  /\ Hybrid!InGrid(p) <=> HP!InGrid(p)
           /\ Hybrid!TickOf(p) = HP!TickOf(p)
           /\ Hybrid!Window!Improved(s, h, t) = HP!Window!Improved(s, h, t)
           /\ Hybrid!Window!Forgotten(h, t) = HP!Window!Forgotten(h, t)
           /\ Hybrid!Nil = HP!Nil
<1>1. (Hybrid!InGrid(p) <=> HP!InGrid(p)) /\ Hybrid!TickOf(p) = HP!TickOf(p)
  BY Zenon DEF Hybrid!InGrid, HP!InGrid, Hybrid!TickOf, HP!TickOf, Hybrid!Window!Floor, HP!Window!Floor,
               Hybrid!Window!Ticks, HP!Window!Ticks, Hybrid!Window!InGrid, HP!Window!InGrid,
               Hybrid!Window!TickOf, HP!Window!TickOf
<1>2. Hybrid!Window!Improved(s, h, t) = HP!Window!Improved(s, h, t)
  BY Zenon DEF Hybrid!Window!Improved, HP!Window!Improved, Hybrid!Window!NoTick, HP!Window!NoTick,
               Hybrid!Window!Max, HP!Window!Max, Hybrid!Window!Min, HP!Window!Min
<1>3. Hybrid!Window!Forgotten(h, t) = HP!Window!Forgotten(h, t)
  BY Zenon DEF Hybrid!Window!Forgotten, HP!Window!Forgotten, Hybrid!Window!NoTick, HP!Window!NoTick
<1>4. Hybrid!Nil = HP!Nil
  BY Zenon DEF Hybrid!Nil, HP!Nil
<1>. QED  BY <1>1, <1>2, <1>3, <1>4, Zenon

LEMMA SamePools ==
    ASSUME NEW b, NEW i, NEW o, NEW x
    PROVE  /\ Hybrid!Put(b, i, o) = HP!Put(b, i, o) /\ Hybrid!Without(b, i) = HP!Without(b, i)
           /\ Hybrid!Extended(b, o) = HP!Extended(b, o)
           /\ Hybrid!Seqs!Last(x) = HP!Seqs!Last(x)
           /\ Hybrid!TakeLevel(b, i) = HP!TakeLevel(b, i)
           /\ Hybrid!ReturnLevel(b, i) = HP!ReturnLevel(b, i)
           /\ Hybrid!Link(b, i, o) = HP!Link(b, i, o)
           /\ Hybrid!Unlink(b, i) = HP!Unlink(b, i)
           /\ Hybrid!ReturnOrder(b, i) = HP!ReturnOrder(b, i)
           /\ Hybrid!Shrink(b, i, x) = HP!Shrink(b, i, x)
<1>1. /\ Hybrid!Put(b, i, o) = HP!Put(b, i, o) /\ Hybrid!Without(b, i) = HP!Without(b, i)
      /\ Hybrid!Extended(b, o) = HP!Extended(b, o)
      /\ Hybrid!Seqs!Last(x) = HP!Seqs!Last(x)
  BY Zenon DEF Hybrid!Put, HP!Put, Hybrid!Without, HP!Without, Hybrid!Extended, HP!Extended,
               Hybrid!Seqs!Last, HP!Seqs!Last
<1>2. Hybrid!TakeLevel(b, i) = HP!TakeLevel(b, i)
  BY Zenon DEF Hybrid!TakeLevel, HP!TakeLevel, Hybrid!Put, HP!Put, Hybrid!Nil, HP!Nil,
               Hybrid!Seqs!Last, HP!Seqs!Last, Hybrid!Seqs!Front, HP!Seqs!Front
<1>3. Hybrid!ReturnLevel(b, i) = HP!ReturnLevel(b, i)
  BY Zenon DEF Hybrid!ReturnLevel, HP!ReturnLevel, Hybrid!Without, HP!Without
<1>4. Hybrid!Link(b, i, o) = HP!Link(b, i, o)
  BY Zenon DEF Hybrid!Link, HP!Link, Hybrid!Put, HP!Put, Hybrid!Extended, HP!Extended, Hybrid!Nil, HP!Nil,
               Hybrid!Seqs!Last, HP!Seqs!Last, Hybrid!Seqs!Front, HP!Seqs!Front
<1>5. Hybrid!Unlink(b, i) = HP!Unlink(b, i)
  BY Zenon DEF Hybrid!Unlink, HP!Unlink, Hybrid!Nil, HP!Nil
<1>6. Hybrid!ReturnOrder(b, i) = HP!ReturnOrder(b, i)
  BY Zenon DEF Hybrid!ReturnOrder, HP!ReturnOrder
<1>7. Hybrid!Shrink(b, i, x) = HP!Shrink(b, i, x)
  BY Zenon DEF Hybrid!Shrink, HP!Shrink
<1>. QED  BY <1>1, <1>2, <1>3, <1>4, <1>5, <1>6, <1>7, Zenon

LEMMA SameLookup == ASSUME NEW b, NEW s, NEW p PROVE Hybrid!Lookup(b, s, p) = HP!Lookup(b, s, p)
  BY SameWindows, Zenon DEF Hybrid!Lookup, HP!Lookup

LEMMA SameDrop == ASSUME NEW b, NEW s, NEW i PROVE Hybrid!DropLevel(b, s, i) = HP!DropLevel(b, s, i)
  BY Zenon DEF Hybrid!DropLevel, HP!DropLevel, Hybrid!ReturnLevel, HP!ReturnLevel, Hybrid!Without,
               HP!Without, Hybrid!Nil, HP!Nil, Hybrid!InGrid, HP!InGrid, Hybrid!TickOf, HP!TickOf,
               Hybrid!Window!Forgotten, HP!Window!Forgotten, Hybrid!Window!NoTick, HP!Window!NoTick,
               Hybrid!Window!Floor, HP!Window!Floor, Hybrid!Window!Ticks, HP!Window!Ticks,
               Hybrid!Window!InGrid, HP!Window!InGrid, Hybrid!Window!TickOf, HP!Window!TickOf

LEMMA SameWithLevel ==
    ASSUME NEW b, NEW s, NEW p PROVE Hybrid!WithLevel(b, s, p) = HP!WithLevel(b, s, p)
<1>1. Hybrid!Lookup(b, s, p) = HP!Lookup(b, s, p)
  BY SameLookup
<1>2. \A h, t : Hybrid!Window!Improved(s, h, t) = HP!Window!Improved(s, h, t)
  BY SameWindows
<1>3. /\ Hybrid!InGrid(p) <=> HP!InGrid(p)
      /\ Hybrid!TickOf(p) = HP!TickOf(p) /\ Hybrid!Nil = HP!Nil
  BY SameWindows
<1>4. /\ Hybrid!TakeLevel(b, p) = HP!TakeLevel(b, p)
      /\ Hybrid!Seqs!Last(b.freeLevels) = HP!Seqs!Last(b.freeLevels)
  BY SamePools
<1>5. \A f, k, v : Hybrid!Put(f, k, v) = HP!Put(f, k, v)
  BY SamePools
<1>. QED  BY <1>1, <1>2, <1>3, <1>4, <1>5, Zenon DEF Hybrid!WithLevel, HP!WithLevel

LEMMA SameAdd ==
    ASSUME NEW b, NEW r, NEW s, NEW p, NEW q PROVE Hybrid!Add(b, r, s, p, q) = HP!Add(b, r, s, p, q)
<1> DEFINE x == Hybrid!WithLevel(b, s, p)
           o == [id |-> r, side |-> s, qty |-> q, seq |-> b.nextSeq]
           k == Hybrid!Link(x, Hybrid!Lookup(x, s, p), o)
<1>1. x = HP!WithLevel(b, s, p)
  BY SameWithLevel
<1>. HIDE DEF x
<1>2. k = HP!Link(x, HP!Lookup(x, s, p), o)
  BY SameLookup, SamePools
<1>3. Hybrid!Lookup(b, s, p) = HP!Lookup(b, s, p) /\ Hybrid!Nil = HP!Nil
  BY SameLookup, SameWindows
<1>4. /\ Hybrid!Seqs!Last(b.freeOrders) = HP!Seqs!Last(b.freeOrders)
      /\ \A f, i, v : Hybrid!Put(f, i, v) = HP!Put(f, i, v)
  BY SamePools
<1> DEFINE full == b.freeOrders = << >> \/ (Hybrid!Lookup(b, s, p) = Hybrid!Nil /\ b.freeLevels = << >>)
           last == Hybrid!Seqs!Last(b.freeOrders)
           stamped == [k EXCEPT !.nextSeq = @ + 1]
           over == Hybrid!Cardinality(DOMAIN b.ids) + 1 > (b.size.orders * 7) \div 10
<1>c. Hybrid!Cardinality(DOMAIN b.ids) = HP!Cardinality(DOMAIN b.ids)
  BY Zenon DEF Hybrid!Cardinality, HP!Cardinality, Hybrid!IsFiniteSet, HP!IsFiniteSet
<1>5. Hybrid!Add(b, r, s, p, q) = IF q = 0 THEN b
                                ELSE IF full THEN [b EXCEPT !.rejected = @ + 1]
                                ELSE IF over THEN [stamped EXCEPT !.rejected = @ + 1]
                                ELSE [stamped EXCEPT !.ids = Hybrid!Put(@, r, last)]
  BY Zenon DEF Hybrid!Add, x
<1>6. HP!Add(b, r, s, p, q) = IF q = 0 THEN b
                              ELSE IF full THEN [b EXCEPT !.rejected = @ + 1]
                              ELSE IF over THEN [stamped EXCEPT !.rejected = @ + 1]
                              ELSE [stamped EXCEPT !.ids = HP!Put(@, r, last)]
  <2>1. HP!Seqs!Last(b.freeOrders) = last
    BY <1>4
  <2>2. full = (b.freeOrders = << >> \/ (HP!Lookup(b, s, p) = HP!Nil /\ b.freeLevels = << >>))
    BY <1>3
  <2>. HIDE DEF k, full, last
  <2>. QED  BY <1>1, <1>2, <1>c, <2>1, <2>2 DEF HP!Add
<1>7. HP!Put(stamped.ids, r, last) = Hybrid!Put(stamped.ids, r, last)
  BY <1>4
<1>. HIDE DEF full, stamped, over, last, k
<1>. QED  BY <1>5, <1>6, <1>7

LEMMA SameRemove == ASSUME NEW b, NEW r PROVE Hybrid!Remove(b, r) = HP!Remove(b, r)
<1>1. ASSUME NEW i PROVE Hybrid!Unlinked(b, i) = HP!Unlinked(b, i)
  <2> DEFINE u == Hybrid!Unlink(b, i)
             o == b.orders[i]
  <2>1. u = HP!Unlink(b, i)
    BY SamePools
  <2>2. HP!Unlinked(b, i) = IF u.levels[o.level].orders = 0
                            THEN HP!DropLevel(u, o.side, o.level) ELSE u
    BY <2>1 DEF HP!Unlinked
  <2>3. Hybrid!DropLevel(u, o.side, o.level) = HP!DropLevel(u, o.side, o.level)
    BY SameDrop
  <2>. QED  BY <2>2, <2>3, Zenon DEF Hybrid!Unlinked
<1>2. \A c, i : Hybrid!ReturnOrder(c, i) = HP!ReturnOrder(c, i)
  BY SamePools
<1>3. \A c, i : Hybrid!Without(c, i) = HP!Without(c, i)
  BY SamePools
<1>4. Hybrid!Unlinked(b, b.ids[r]) = HP!Unlinked(b, b.ids[r])
  BY <1>1
<1>. QED  BY <1>2, <1>3, <1>4, Zenon DEF Hybrid!Remove, HP!Remove

LEMMA SameReduce ==
    ASSUME NEW b, NEW r, NEW q PROVE Hybrid!Reduce(b, r, q) = HP!Reduce(b, r, q)
<1>1. Hybrid!Remove(b, r) = HP!Remove(b, r) /\ Hybrid!Shrink(b, b.ids[r], q) = HP!Shrink(b, b.ids[r], q)
  BY SameRemove, SamePools
<1>. QED  BY <1>1, Zenon DEF Hybrid!Reduce, HP!Reduce

LEMMA SameReplace ==
    ASSUME NEW b, NEW r, NEW n, NEW p, NEW q
    PROVE  Hybrid!Replace(b, r, n, p, q) = HP!Replace(b, r, n, p, q)
<1>1. Hybrid!Remove(b, r) = HP!Remove(b, r)
  BY SameRemove
<1>2. \A c, s : Hybrid!Add(c, n, s, p, q) = HP!Add(c, n, s, p, q)
  BY SameAdd
<1>. QED  BY <1>1, <1>2, Zenon DEF Hybrid!Replace, HP!Replace

LEMMA SameRefreshed ==
    ASSUME NEW s, NEW bits, NEW h PROVE Hybrid!Window!Refreshed(s, bits, h) = HP!Window!Refreshed(s, bits, h)
  BY Zenon DEF Hybrid!Window!Refreshed, HP!Window!Refreshed, Hybrid!Window!FirstTick,
               HP!Window!FirstTick, Hybrid!Window!Scan, HP!Window!Scan, Hybrid!Window!ScanDown,
               HP!Window!ScanDown, Hybrid!Window!ScanUp, HP!Window!ScanUp, Hybrid!Window!NoTick,
               HP!Window!NoTick, Hybrid!Window!Ticks, HP!Window!Ticks, Hybrid!Window!Floor,
               HP!Window!Floor, Hybrid!Window!Max, HP!Window!Max, Hybrid!Window!Min, HP!Window!Min

LEMMA SameQuery == ASSUME NEW b, NEW s PROVE Hybrid!Query(b, s) = HP!Query(b, s)
<1>1. \A bits, h : Hybrid!Window!Refreshed(s, bits, h) = HP!Window!Refreshed(s, bits, h)
  BY SameRefreshed
<1>. QED  BY <1>1, Zenon DEF Hybrid!Query, HP!Query

LEMMA SameBestOf ==
    ASSUME NEW s, NEW h, NEW v PROVE Hybrid!Window!BestOf(s, h, v) = HP!Window!BestOf(s, h, v)
<1>1. Hybrid!Window!Outermost(s, v) = HP!Window!Outermost(s, v)
  BY Zenon DEF Hybrid!Window!Outermost, HP!Window!Outermost, Hybrid!Window!Max, HP!Window!Max,
               Hybrid!Window!Min, HP!Window!Min
<1>2. \A p, q : Hybrid!Window!Better(s, p, q) <=> HP!Window!Better(s, p, q)
  BY Zenon DEF Hybrid!Window!Better, HP!Window!Better
<1>3. Hybrid!Window!PriceOf(h) = HP!Window!PriceOf(h)
  BY Zenon DEF Hybrid!Window!PriceOf, HP!Window!PriceOf, Hybrid!Window!Floor, HP!Window!Floor
<1>4. Hybrid!Window!kInvalidPrice = HP!Window!kInvalidPrice /\ Hybrid!Window!NoTick = HP!Window!NoTick
  BY Zenon DEF Hybrid!Window!kInvalidPrice, HP!Window!kInvalidPrice, Hybrid!Window!NoTick, HP!Window!NoTick
<1>. QED  BY <1>1, <1>2, <1>3, <1>4, Zenon DEF Hybrid!Window!BestOf, HP!Window!BestOf

LEMMA SameBest == ASSUME NEW b, NEW s PROVE Hybrid!BestPrice(b, s) = HP!BestPrice(b, s)
<1>1. \A bits, h : Hybrid!Window!Refreshed(s, bits, h) = HP!Window!Refreshed(s, bits, h)
  BY SameRefreshed
<1>2. \A h, v : Hybrid!Window!BestOf(s, h, v) = HP!Window!BestOf(s, h, v)
  BY SameBestOf
<1>. QED  BY <1>1, <1>2, Zenon DEF Hybrid!BestPrice, HP!BestPrice

LEMMA SameEmpty == ASSUME NEW z PROVE Hybrid!Empty(z) = HP!Empty(z)
  BY Zenon DEF Hybrid!Empty, HP!Empty, Hybrid!Extended, HP!Extended, Hybrid!NewPool, HP!NewPool,
               Hybrid!Stack, HP!Stack, Hybrid!Sides, HP!Sides, Hybrid!Promise!Sides, HP!Promise!Sides,
               Hybrid!Nil, HP!Nil, Hybrid!Window!Ticks, HP!Window!Ticks, Hybrid!Window!Floor,
               HP!Window!Floor, Hybrid!Window!NoTick, HP!Window!NoTick

LEMMA SameConstants == Hybrid!HybridConstants <=> HP!HybridConstants
  BY DEF Hybrid!HybridConstants, HP!HybridConstants, Hybrid!Promise!BookConstants,
         HP!Promise!BookConstants, Hybrid!Window!WindowConstants, HP!Window!WindowConstants

LEMMA SameSides == Hybrid!Sides = HP!Sides
  BY Zenon DEF Hybrid!Sides, HP!Sides, Hybrid!Promise!Sides, HP!Promise!Sides

LEMMA SameSpec == Hybrid!Spec <=> HP!Spec
<1>1. \A z : Hybrid!Empty(z) = HP!Empty(z)
  BY SameEmpty
<1>2. /\ \A b, r, s, p, q : Hybrid!Add(b, r, s, p, q) = HP!Add(b, r, s, p, q)
      /\ \A b, r : Hybrid!Remove(b, r) = HP!Remove(b, r)
      /\ \A b, r, q : Hybrid!Reduce(b, r, q) = HP!Reduce(b, r, q)
      /\ \A b, r, n, p, q : Hybrid!Replace(b, r, n, p, q) = HP!Replace(b, r, n, p, q)
      /\ \A b, s : Hybrid!Query(b, s) = HP!Query(b, s)
  BY SameAdd, SameRemove, SameReduce, SameReplace, SameQuery
<1>3. Hybrid!Init <=> HP!Init
  BY <1>1 DEF Hybrid!Init, HP!Init
<1>4. Hybrid!Sides = HP!Sides
  BY SameSides
<1>5. /\ \A b, r : Hybrid!Fresh(b, r) <=> HP!Fresh(b, r)
      /\ Hybrid!MayAdd <=> HP!MayAdd
  BY Zenon DEF Hybrid!Fresh, HP!Fresh, Hybrid!MayAdd, HP!MayAdd
<1>6. /\ \A r, s, p, q : Hybrid!OnAdd(r, s, p, q) <=> HP!OnAdd(r, s, p, q)
      /\ \A r, q : Hybrid!OnReduce(r, q) <=> HP!OnReduce(r, q)
      /\ \A r : Hybrid!OnRemove(r) <=> HP!OnRemove(r)
      /\ \A s : Hybrid!OnQuery(s) <=> HP!OnQuery(s)
  BY <1>2, <1>5 DEF Hybrid!OnAdd, HP!OnAdd, Hybrid!OnReduce, HP!OnReduce, Hybrid!OnRemove,
     HP!OnRemove, Hybrid!OnQuery, HP!OnQuery
<1>7. \A r, n, p, q : Hybrid!OnReplace(r, n, p, q) <=> HP!OnReplace(r, n, p, q)
  BY <1>2, <1>5 DEF Hybrid!OnReplace, HP!OnReplace
<1>8. Hybrid!Clear <=> HP!Clear
  BY <1>1 DEF Hybrid!Clear, HP!Clear
<1>9. Hybrid!Next <=> HP!Next
  BY <1>4, <1>6, <1>7, <1>8 DEF Hybrid!Next, HP!Next
<1>10. [Hybrid!Next]_hybrid <=> [HP!Next]_hybrid
  BY <1>9
<1> QED
  BY <1>3, <1>10, PTL DEF Hybrid!Spec, HP!Spec

LEMMA SameSnapshot == ASSUME NEW b, NEW s PROVE Hybrid!Snapshot(b, s) = HP!Snapshot(b, s)
<1>9. \A bits, over : Hybrid!Window!Collect(s, bits, over) = HP!Window!Collect(s, bits, over)
  BY Zenon DEF Hybrid!Window!Collect, HP!Window!Collect, Hybrid!Window!Visit, HP!Window!Visit,
     Hybrid!Window!TakesGrid, HP!Window!TakesGrid, Hybrid!Window!FirstTick,
     HP!Window!FirstTick, Hybrid!Window!Scan, HP!Window!Scan, Hybrid!Window!ScanDown,
     HP!Window!ScanDown, Hybrid!Window!ScanUp, HP!Window!ScanUp, Hybrid!Window!NoTick,
     HP!Window!NoTick, Hybrid!Window!Max, HP!Window!Max, Hybrid!Window!Min, HP!Window!Min,
     Hybrid!Window!Outermost, HP!Window!Outermost, Hybrid!Window!Better, HP!Window!Better,
     Hybrid!Window!PriceOf, HP!Window!PriceOf, Hybrid!Window!Floor, HP!Window!Floor,
     Hybrid!Window!Ticks, HP!Window!Ticks
<1>10. \A p : Hybrid!Lookup(b, s, p) = HP!Lookup(b, s, p)
  BY SameLookup
<1> QED
  BY <1>9, <1>10, Zenon DEF Hybrid!Snapshot, HP!Snapshot

LEMMA SamePromise ==
    /\ \A s : Hybrid!Promise!Shown(s) = HP!Promise!Shown(s)
    /\ \A s : Hybrid!Promise!Quoted(s) = HP!Promise!Quoted(s)
    /\ Hybrid!Promise!kInvalidPrice = HP!Promise!kInvalidPrice
<1>1. \A s : Hybrid!Promise!Quoted(s) = HP!Promise!Quoted(s)
  BY Zenon DEF Hybrid!Promise!Quoted, HP!Promise!Quoted, Hybrid!OrderIn, HP!OrderIn
<1>2. \A s, ps : Hybrid!Promise!Ranked(s, ps) = HP!Promise!Ranked(s, ps)
  BY Zenon DEF Hybrid!Promise!Ranked, HP!Promise!Ranked, Hybrid!Promise!Better,
     HP!Promise!Better, Hybrid!Promise!Cardinality, HP!Promise!Cardinality,
     Hybrid!Promise!IsFiniteSet, HP!Promise!IsFiniteSet, Hybrid!Promise!Min, HP!Promise!Min
<1>3. \A s, p : Hybrid!Promise!Level(s, p) = HP!Promise!Level(s, p)
  BY Zenon DEF Hybrid!Promise!Level, HP!Promise!Level, Hybrid!Promise!At, HP!Promise!At,
     Hybrid!Promise!Cardinality, HP!Promise!Cardinality, Hybrid!Promise!IsFiniteSet,
     HP!Promise!IsFiniteSet, Hybrid!Promise!MapThenSumSet, HP!Promise!MapThenSumSet,
     Hybrid!Promise!MapThenFoldSet, HP!Promise!MapThenFoldSet, Hybrid!OrderIn, HP!OrderIn
<1>4. \A s : Hybrid!Promise!Shown(s) = HP!Promise!Shown(s)
  BY <1>1, <1>2, <1>3 DEF Hybrid!Promise!Shown, HP!Promise!Shown
<1>5. Hybrid!Promise!kInvalidPrice = HP!Promise!kInvalidPrice
  BY Zenon DEF Hybrid!Promise!kInvalidPrice, HP!Promise!kInvalidPrice
<1> QED
  BY <1>1, <1>4, <1>5

LEMMA SamePromiseSpec == Hybrid!Promise!Spec <=> HP!Promise!Spec
<1>1. Hybrid!Promise!Init <=> HP!Promise!Init
  BY Zenon DEF Hybrid!Promise!Init, HP!Promise!Init, Hybrid!OrderIn, HP!OrderIn
<1>2. Hybrid!Promise!vars = HP!Promise!vars
  BY Zenon DEF Hybrid!Promise!vars, HP!Promise!vars, Hybrid!OrderIn, HP!OrderIn
<1>3. (UNCHANGED Hybrid!Promise!vars) <=> (UNCHANGED HP!Promise!vars)
  BY Zenon DEF Hybrid!Promise!vars, HP!Promise!vars, Hybrid!OrderIn, HP!OrderIn
<1>4. Hybrid!Promise!Next <=> HP!Promise!Next
  <2>1. \A r, s, p, q : Hybrid!Promise!Add(r, s, p, q) <=> HP!Promise!Add(r, s, p, q)
  BY Zenon DEF Hybrid!Promise!Add, HP!Promise!Add, Hybrid!Promise!Join, HP!Promise!Join,
     Hybrid!Promise!Put, HP!Promise!Put, Hybrid!OrderIn, HP!OrderIn
  <2>2. \A r, q : Hybrid!Promise!Reduce(r, q) <=> HP!Promise!Reduce(r, q)
  BY Zenon DEF Hybrid!Promise!Reduce, HP!Promise!Reduce, Hybrid!Promise!Without,
     HP!Promise!Without, Hybrid!OrderIn, HP!OrderIn
  <2>3. \A r : Hybrid!Promise!Remove(r) <=> HP!Promise!Remove(r)
  BY Zenon DEF Hybrid!Promise!Remove, HP!Promise!Remove, Hybrid!Promise!Without,
     HP!Promise!Without, Hybrid!OrderIn, HP!OrderIn
  <2>4. \A o, n, p, q : Hybrid!Promise!Replace(o, n, p, q) <=> HP!Promise!Replace(o, n, p, q)
  BY ZenonT(30) DEF Hybrid!Promise!Replace, HP!Promise!Replace, Hybrid!Promise!Join,
     HP!Promise!Join, Hybrid!Promise!Put, HP!Promise!Put, Hybrid!Promise!Without,
     HP!Promise!Without, Hybrid!OrderIn, HP!OrderIn
  <2>5. Hybrid!Promise!Clear <=> HP!Promise!Clear
  BY Zenon DEF Hybrid!Promise!Clear, HP!Promise!Clear, Hybrid!OrderIn, HP!OrderIn
  <2>6. Hybrid!Promise!Sides = HP!Promise!Sides
  BY Zenon DEF Hybrid!Promise!Sides, HP!Promise!Sides
  <2> QED
    BY <2>1, <2>2, <2>3, <2>4, <2>5, <2>6 DEF Hybrid!Promise!Next, HP!Promise!Next
<1>5. [Hybrid!Promise!Next]_(Hybrid!Promise!vars) <=> [HP!Promise!Next]_(HP!Promise!vars)
  BY <1>3, <1>4
<1> QED
  BY <1>1, <1>5, PTL DEF Hybrid!Promise!Spec, HP!Promise!Spec

LEMMA SameLists == Hybrid!ListsSound <=> HP!ListsSound
  BY Zenon DEF Hybrid!ListsSound, HP!ListsSound, Hybrid!ListsAreSound, HP!ListsAreSound,
     Hybrid!Walk, HP!Walk, Hybrid!Resting, HP!Resting, Hybrid!Cardinality, HP!Cardinality,
     Hybrid!IsFiniteSet, HP!IsFiniteSet, Hybrid!Seqs!ToSet, HP!Seqs!ToSet, Hybrid!Seqs!Last,
     HP!Seqs!Last, Hybrid!Nil, HP!Nil, Hybrid!MapThenSumSet, HP!MapThenSumSet,
     Hybrid!MapThenFoldSet, HP!MapThenFoldSet

LEMMA SameWhole == Hybrid!PoolsWhole <=> HP!PoolsWhole
<1>1. Hybrid!PoolsAreWhole(hybrid) <=> HP!PoolsAreWhole(hybrid)
  BY Zenon DEF Hybrid!PoolsAreWhole, HP!PoolsAreWhole, Hybrid!IsInjective, HP!IsInjective,
     Hybrid!Seqs!ToSet, HP!Seqs!ToSet
<1>2. /\ \A s, p : Hybrid!Lookup(hybrid, s, p) = HP!Lookup(hybrid, s, p)
      /\ Hybrid!Sides = HP!Sides /\ Hybrid!Nil = HP!Nil
  BY SameLookup, SameSides, SameWindows
<1>3. \A l : Hybrid!Resting(hybrid, l) = HP!Resting(hybrid, l)
  BY Zenon DEF Hybrid!Resting, HP!Resting
<1> QED
  BY <1>1, <1>2, <1>3 DEF Hybrid!PoolsWhole, HP!PoolsWhole

LEMMA SameStamps == Hybrid!StampsAreQueueOrder <=> HP!StampsAreQueueOrder
<1>1. \A r : Hybrid!SharesAheadOf(hybrid, r) = HP!SharesAheadOf(hybrid, r)
  BY Zenon DEF Hybrid!SharesAheadOf, HP!SharesAheadOf, Hybrid!Walk, HP!Walk, Hybrid!Seqs!Last,
     HP!Seqs!Last, Hybrid!Nil, HP!Nil, Hybrid!Cardinality, HP!Cardinality, Hybrid!IsFiniteSet,
     HP!IsFiniteSet, Hybrid!MapThenSumSet, HP!MapThenSumSet, Hybrid!MapThenFoldSet,
     HP!MapThenFoldSet
<1>2. \A l : Hybrid!Resting(hybrid, l) = HP!Resting(hybrid, l)
  BY Zenon DEF Hybrid!Resting, HP!Resting
<1>3. \A S : Hybrid!MapThenSumSet(LAMBDA oi : hybrid.orders[oi].qty, S)
             = HP!MapThenSumSet(LAMBDA oi : hybrid.orders[oi].qty, S)
  BY Zenon DEF Hybrid!MapThenSumSet, HP!MapThenSumSet, Hybrid!MapThenFoldSet, HP!MapThenFoldSet
<1> QED
  BY <1>1, <1>2, <1>3, Zenon DEF Hybrid!StampsAreQueueOrder, HP!StampsAreQueueOrder

LEMMA SameShows == Hybrid!ShowsItsOrders <=> HP!ShowsItsOrders
  BY SameSides, SamePromise, SameSnapshot, Zenon DEF Hybrid!ShowsItsOrders, HP!ShowsItsOrders

LEMMA SameResting == Hybrid!BestIsResting <=> HP!BestIsResting
  BY SameSides, SamePromise, SameBest, Zenon DEF Hybrid!BestIsResting, HP!BestIsResting

LEMMA SameDrops == Hybrid!DropsAreCounted <=> HP!DropsAreCounted
<1>1. \A b, r : Hybrid!Fresh(b, r) <=> HP!Fresh(b, r)
  BY Zenon DEF Hybrid!Fresh, HP!Fresh
<1>2. \A b, r, s, p, q : Hybrid!Add(b, r, s, p, q) = HP!Add(b, r, s, p, q)
  BY SameAdd
<1> QED
  BY <1>1, <1>2, SameSides DEF Hybrid!DropsAreCounted, HP!DropsAreCounted

-----------------------------------------------------------------------------
(* A step of the comparison is a step of each book it compares. *)
LEMMA HybridSteps == Spec => HP!Spec
<1>1. Init => Hybrid!Init
  BY DEF Init, Hybrid!Init, Sizes
<1>2. Map!Sides = Hybrid!Sides
  BY DEF Map!Sides, Map!Promise!Sides, Hybrid!Sides, Hybrid!Promise!Sides
<1>3. [Next]_books => [Hybrid!Next]_hybrid
  BY <1>2 DEF Next, books, AddEvent, ReduceEvent, DeleteEvent, ReplaceEvent, AskBest, ClearAll,
              Hybrid!Next
<1>4. Spec => Hybrid!Spec
  BY <1>1, <1>3, PTL DEF Spec, Hybrid!Spec
<1> QED
  BY <1>4, SameSpec, PTL

LEMMA HybridConstants == HP!HybridConstants
  BY ConstantsAssumption, SameConstants

(* The hybrid book in the comparison. *)
LEMMA HybridHolds ==
    Spec => /\ [](Hybrid!ListsSound /\ Hybrid!PoolsWhole)
            /\ []Hybrid!StampsAreQueueOrder /\ []Hybrid!DropsAreCounted
            /\ Hybrid!ImplementsBook
<1>1. HP!Spec => []HP!ListsSound /\ []HP!PoolsWhole /\ []HP!StampsAreQueueOrder /\ []HP!DropsAreCounted
  <2>1. HP!Spec => []HP!ListsSound
    BY HybridConstants, HP!ListsStaySound
  <2>2. HP!Spec => []HP!PoolsWhole
    BY HybridConstants, HP!PoolsStayWhole
  <2>3. HP!Spec => []HP!StampsAreQueueOrder
    BY HybridConstants, HP!StampsStayQueueOrder
  <2>4. HP!Spec => []HP!DropsAreCounted
    BY HybridConstants, HP!DropsStayCounted
  <2> QED
    BY <2>1, <2>2, <2>3, <2>4, PTL
<1>2. HP!Spec => HP!ImplementsBook
  BY HybridConstants, HP!HybridIsBook
<1>3. Hybrid!ImplementsBook <=> HP!ImplementsBook
  BY SamePromiseSpec DEF Hybrid!ImplementsBook, HP!ImplementsBook
<1> QED
  BY <1>1, <1>2, <1>3, HybridSteps, SameLists, SameWhole, SameStamps, SameDrops, PTL

(* The id tables of the pooled designs have room for every reference. *)
RoomForAll ==
    /\ IsFiniteSet(Refs)
    /\ \A build \in Builds : Cardinality(Refs) <= (build.pool.orders * 7) \div 10

LEMMA SameStranded == Hybrid!NoneStranded <=> HP!NoneStranded
  BY Zenon DEF Hybrid!NoneStranded, HP!NoneStranded

LEMMA HybridShows ==
    Spec => [](Hybrid!NoneStranded => Hybrid!ShowsItsOrders /\ Hybrid!BestIsResting)
<1>1. HP!Spec => [](HP!NoneStranded => HP!ShowsItsOrders)
  BY HybridConstants, HP!SnapshotIsRecount
<1>2. HP!Spec => [](HP!NoneStranded => HP!BestIsResting)
  BY HybridConstants, HP!BestRests
<1> QED
  BY <1>1, <1>2, HybridSteps, SameStranded, SameShows, SameResting, PTL

LEMMA HybridFinds == Spec => [](hybrid.rejected = 0 \/ RoomForAll => Hybrid!NoneStranded)
<1>1. RoomForAll => HP!RoomForAll
  <2>1. \A S : HP!Cardinality(S) = Cardinality(S) /\ (HP!IsFiniteSet(S) <=> IsFiniteSet(S))
    BY Zenon DEF HP!Cardinality, Cardinality, HP!IsFiniteSet, IsFiniteSet
  <2> QED
    BY <2>1 DEF RoomForAll, HP!RoomForAll, Sizes
<1>2. HP!Spec => [](hybrid.rejected = 0 \/ HP!RoomForAll => HP!NoneStranded)
  BY HybridConstants, HP!OrdersAreFound
<1> QED
  BY <1>1, <1>2, HybridSteps, SameStranded, PTL

-----------------------------------------------------------------------------
(* IntrusiveBook keeps the levels of a side in a vector, best first, and finds *)
(* them by bisection.                                                          *)
Outranks(s, p, q) == IF s = "Buy" THEN p > q ELSE p < q

RankedBy(v, L, s) ==
    \A j, k \in 1..Len(v) : j < k => Outranks(s, L[v[j]].price, L[v[k]].price)

(* v lists the levels S, best first. *)
Lists(v, L, s, S) ==
    /\ v \in Seq(Nat) /\ HP!Listed(v) = S /\ RankedBy(v, L, s)
    /\ \A li \in S : L[li].price \in Nat

Before(v, L, s, px, i) == Outranks(s, L[v[i]].price, px)

Halved(v, L, s, px, f, lo, hi) ==
    LET mid == (lo + hi) \div 2 IN
    IF lo >= hi THEN lo
    ELSE IF Before(v, L, s, px, mid) THEN f[<<mid + 1, hi>>] ELSE f[<<lo, mid>>]

Bisects(v, L, s, px, f) ==
    f = [lohi \in (1..(Len(v) + 1)) \X (1..(Len(v) + 1)) |->
            Halved(v, L, s, px, f, lohi[1], lohi[2])]

LEMMA PositionIs ==
    ASSUME NEW b, NEW s, NEW px
    PROVE  Intrusive!Position(b, s, px) =
           (CHOOSE f : Bisects(b.index[s], b.levels, s, px, f))[<<1, Len(b.index[s]) + 1>>]
BY Zenon DEF Intrusive!Position, Bisects, Halved, Before, Outranks, Intrusive!Promise!Better

(* What the bisection answers, from lo to hi, when the first p - 1 levels come before px. *)
Clamped(p, lo, hi) == IF lo >= hi \/ p <= lo THEN lo ELSE IF p >= hi THEN hi ELSE p

LEMMA Halfway ==
    ASSUME NEW lo \in Nat, NEW hi \in Nat, lo < hi
    PROVE  (lo + hi) \div 2 \in Nat /\ lo <= (lo + hi) \div 2 /\ (lo + hi) \div 2 < hi
OBVIOUS

LEMMA BisectionEnds ==
    ASSUME NEW v \in Seq(Nat), NEW L, NEW s, NEW px, NEW p \in 1..(Len(v) + 1),
           \A i \in 1..Len(v) : Before(v, L, s, px, i) <=> i < p
    PROVE  \E f : Bisects(v, L, s, px, f)
<1> DEFINE n == Len(v)
           D == 1..(n + 1)
           f == [lohi \in D \X D |-> Clamped(p, lohi[1], lohi[2])]
<1>1. ASSUME NEW lo \in D, NEW hi \in D
      PROVE  f[<<lo, hi>>] = Halved(v, L, s, px, f, lo, hi)
  <2>1. PICK mid : mid = (lo + hi) \div 2
    OBVIOUS
  <2>2. f[<<lo, hi>>] = Clamped(p, lo, hi)
    OBVIOUS
  <2>3. CASE lo >= hi
    BY <2>2, <2>3 DEF Clamped, Halved
  <2>4. CASE lo < hi
    <3>1. mid \in Nat /\ lo <= mid /\ mid < hi
      BY <2>1, <2>4, Halfway
    <3>2. mid \in 1..n /\ mid + 1 \in D /\ mid \in D
      BY <3>1
    <3>3. f[<<mid + 1, hi>>] = Clamped(p, mid + 1, hi) /\ f[<<lo, mid>>] = Clamped(p, lo, mid)
      BY <3>2
    <3>4. mid < p => Clamped(p, lo, hi) = Clamped(p, mid + 1, hi)
      BY <2>4, <3>1, <3>2 DEF Clamped
    <3>5. ~(mid < p) => Clamped(p, lo, hi) = Clamped(p, lo, mid)
      BY <2>4, <3>1, <3>2 DEF Clamped
    <3>6. Before(v, L, s, px, mid) <=> mid < p
      BY <3>2
    <3>. HIDE DEF f
    <3> QED
      BY <2>1, <2>2, <2>4, <3>3, <3>4, <3>5, <3>6 DEF Halved
  <2> QED
    BY <2>3, <2>4
<1>2. Bisects(v, L, s, px, f)
  <2>2. \A r \in D \X D : r[1] \in D /\ r[2] \in D /\ r = <<r[1], r[2]>>
    OBVIOUS
  <2>3. \A r \in D \X D : f[r] = Halved(v, L, s, px, f, r[1], r[2])
    BY <1>1, <2>2
  <2>4. f = [lohi \in D \X D |-> f[lohi]]
    OBVIOUS
  <2>. HIDE DEF f
  <2> QED
    BY <2>3, <2>4 DEF Bisects
<1> QED
  BY <1>2

LEMMA BisectionFinds ==
    ASSUME NEW v \in Seq(Nat), NEW L, NEW s, NEW px, NEW p \in 1..(Len(v) + 1),
           \A i \in 1..Len(v) : Before(v, L, s, px, i) <=> i < p,
           NEW f, Bisects(v, L, s, px, f)
    PROVE  f[<<1, Len(v) + 1>>] = p
<1> DEFINE n == Len(v)
           D == 1..(n + 1)
           T == {d \in Nat : \A lo, hi \in D : hi - lo <= d => f[<<lo, hi>>] = Clamped(p, lo, hi)}
<1>1. ASSUME NEW lo \in D, NEW hi \in D PROVE f[<<lo, hi>>] = Halved(v, L, s, px, f, lo, hi)
  <2>0. <<lo, hi>> \in D \X D /\ <<lo, hi>>[1] = lo /\ <<lo, hi>>[2] = hi
    OBVIOUS
  <2>1. PICK r : r = <<lo, hi>> /\ r \in D \X D /\ r[1] = lo /\ r[2] = hi
    BY <2>0, Zenon
  <2>2. f[r] = Halved(v, L, s, px, f, r[1], r[2])
    BY <2>1 DEF Bisects
  <2> QED
    BY <2>1, <2>2
<1>2. 0 \in T
  <2> SUFFICES ASSUME NEW lo \in D, NEW hi \in D, hi - lo <= 0
               PROVE  f[<<lo, hi>>] = Clamped(p, lo, hi)
    OBVIOUS
  <2>1. lo >= hi
    OBVIOUS
  <2> QED
    BY <1>1, <2>1 DEF Halved, Clamped
<1>3. ASSUME NEW d \in Nat, d \in T PROVE d + 1 \in T
  <2> SUFFICES ASSUME NEW lo \in D, NEW hi \in D, hi - lo <= d + 1
               PROVE  f[<<lo, hi>>] = Clamped(p, lo, hi)
    OBVIOUS
  <2>1. PICK mid : mid = (lo + hi) \div 2
    OBVIOUS
  <2>2. CASE lo >= hi
    BY <1>1, <2>2 DEF Clamped, Halved
  <2>3. CASE lo < hi
    <3>1. mid \in Nat /\ lo <= mid /\ mid < hi
      BY <2>1, <2>3, Halfway
    <3>2. mid \in 1..n /\ mid + 1 \in D /\ mid \in D
      BY <3>1
    <3>3. f[<<mid + 1, hi>>] = Clamped(p, mid + 1, hi) /\ f[<<lo, mid>>] = Clamped(p, lo, mid)
      <4>1. hi - (mid + 1) <= d /\ mid - lo <= d
        BY <3>1, <3>2
      <4> QED
        BY <1>3, <3>2, <4>1
    <3>4. mid < p => Clamped(p, lo, hi) = Clamped(p, mid + 1, hi)
      BY <2>3, <3>1, <3>2 DEF Clamped
    <3>5. ~(mid < p) => Clamped(p, lo, hi) = Clamped(p, lo, mid)
      BY <2>3, <3>1, <3>2 DEF Clamped
    <3>6. Before(v, L, s, px, mid) <=> mid < p
      BY <3>2
    <3> QED
      BY <1>1, <2>1, <2>3, <3>3, <3>4, <3>5, <3>6 DEF Halved
  <2> QED
    BY <2>2, <2>3
<1>4. T = Nat
  <2> HIDE DEF T
  <2>1. T \in SUBSET Nat
    BY DEF T
  <2> QED
    BY <1>2, <1>3, <2>1, HP!SetInduction
<1>5. \A lo, hi \in D : hi - lo <= n => f[<<lo, hi>>] = Clamped(p, lo, hi)
  <2>1. n \in Nat
    OBVIOUS
  <2> HIDE DEF n
  <2>2. n \in T
    BY <1>4, <2>1
  <2> QED
    BY <2>2
<1>6. f[<<1, n + 1>>] = Clamped(p, 1, n + 1)
  BY <1>5
<1> QED
  BY <1>6 DEF Clamped

(* lower_bound_pos: the levels before it are those whose price ranks before px. *)
LEMMA PositionParts ==
    ASSUME NEW b, NEW s, NEW S, Lists(b.index[s], b.levels, s, S), NEW px \in Nat,
           NEW v, v = b.index[s]
    PROVE  /\ Intrusive!Position(b, s, px) \in 1..(Len(v) + 1)
           /\ \A i \in 1..Len(v) :
                 Outranks(s, b.levels[v[i]].price, px) <=> i < Intrusive!Position(b, s, px)
<1> DEFINE L == b.levels
           n == Len(v)
           T == {i \in 1..(n + 1) : i = n + 1 \/ ~Before(v, L, s, px, i)}
<1>0. /\ v \in Seq(Nat) /\ RankedBy(v, L, s) /\ n \in Nat
      /\ \A i \in 1..n : L[v[i]].price \in Nat
  BY DEF Lists, HP!Listed
<1>1. n + 1 \in T /\ T \in SUBSET Nat
  BY <1>0
<1>2. PICK p \in T : \A i \in T : p <= i
  <2> HIDE DEF T
  <2> QED
    BY <1>1, HP!LeastNat
<1>3. p \in 1..(n + 1)
  OBVIOUS
<1>4. ASSUME NEW i \in 1..n PROVE Before(v, L, s, px, i) <=> i < p
  <2>1. CASE i < p
    BY <1>0, <1>2, <1>4, <2>1
  <2>2. CASE i = p
    BY <1>0, <1>4, <2>2
  <2>3. CASE p < i
    <3>1. p \in 1..n /\ ~Before(v, L, s, px, p)
      BY <1>0, <1>3, <1>4, <2>3
    <3>2. Outranks(s, L[v[p]].price, L[v[i]].price)
      BY <1>0, <1>4, <2>3, <3>1 DEF RankedBy
    <3>3. L[v[p]].price \in Nat /\ L[v[i]].price \in Nat
      BY <1>0, <1>4, <3>1
    <3>4. ~Outranks(s, L[v[p]].price, px)
      BY <3>1 DEF Before
    <3>5. ~Outranks(s, L[v[i]].price, px)
      <4>1. PICK x \in Nat, y \in Nat : x = L[v[p]].price /\ y = L[v[i]].price
        BY <3>3
      <4>2. Outranks(s, x, y) /\ ~Outranks(s, x, px)
        BY <3>2, <3>4, <4>1
      <4>3. ~Outranks(s, y, px)
        BY <4>2 DEF Outranks
      <4> QED
        BY <4>1, <4>3
    <3> QED
      BY <1>3, <1>4, <2>3, <3>5 DEF Before
  <2> QED
    BY <1>0, <1>3, <1>4, <2>1, <2>2, <2>3
<1> HIDE DEF T
<1>5. \E f : Bisects(v, L, s, px, f)
  BY <1>0, <1>3, <1>4, BisectionEnds
<1>6. PICK f : f = (CHOOSE g : Bisects(v, L, s, px, g)) /\ Bisects(v, L, s, px, f)
  BY <1>5
<1>7. f[<<1, n + 1>>] = p
  BY <1>0, <1>3, <1>4, <1>6, BisectionFinds
<1>8. Intrusive!Position(b, s, px) = p
  BY <1>6, <1>7, PositionIs
<1> QED
  BY <1>3, <1>4, <1>8 DEF Before

LEMMA LevelAtPosition ==
    ASSUME NEW b, NEW s, NEW S, Lists(b.index[s], b.levels, s, S), NEW px \in Nat
    PROVE  /\ Intrusive!HasLevel(b, s, px) <=> \E li \in S : b.levels[li].price = px
           /\ \A li \in S : b.levels[li].price = px =>
                 /\ Intrusive!Position(b, s, px) \in 1..Len(b.index[s])
                 /\ b.index[s][Intrusive!Position(b, s, px)] = li
<1>1. PICK v : v = b.index[s]
  OBVIOUS
<1>2. PICK p : p = Intrusive!Position(b, s, px)
  OBVIOUS
<1>3. PICK L : L = b.levels
  OBVIOUS
<1>4. /\ v \in Seq(Nat) /\ RankedBy(v, L, s) /\ Len(v) \in Nat
      /\ S = {v[i] : i \in 1..Len(v)}
      /\ \A i \in 1..Len(v) : L[v[i]].price \in Nat
  BY <1>1, <1>3 DEF Lists, HP!Listed
<1>5. p \in 1..(Len(v) + 1) /\ \A i \in 1..Len(v) : Outranks(s, L[v[i]].price, px) <=> i < p
  BY <1>1, <1>2, <1>3, PositionParts
<1>6. Intrusive!HasLevel(b, s, px) <=> p <= Len(v) /\ L[v[p]].price = px
  BY <1>1, <1>2, <1>3 DEF Intrusive!HasLevel
<1>7. ASSUME NEW i \in 1..Len(v), L[v[i]].price = px PROVE i = p
  <2>1. ~Outranks(s, px, px)
    BY DEF Outranks
  <2>2. ~(i < p)
    BY <1>5, <1>7, <2>1
  <2>3. ASSUME p < i PROVE FALSE
    <3>1. p \in 1..Len(v)
      BY <1>4, <1>5, <1>7, <2>3
    <3>2. Outranks(s, L[v[p]].price, px)
      BY <1>4, <1>7, <2>3, <3>1 DEF RankedBy
    <3> QED
      BY <1>5, <3>1, <3>2
  <2> QED
    BY <1>4, <1>5, <1>7, <2>2, <2>3
<1>8. ASSUME NEW li \in S, L[li].price = px PROVE p \in 1..Len(v) /\ v[p] = li
  <2>1. PICK i \in 1..Len(v) : v[i] = li
    BY <1>4
  <2> QED
    BY <1>7, <1>8, <2>1
<1>9. p <= Len(v) => p \in 1..Len(v) /\ v[p] \in S
  BY <1>4, <1>5
<1> QED
  BY <1>1, <1>2, <1>3, <1>6, <1>8, <1>9

Inserted(v, p, x) == [i \in 1..(Len(v) + 1) |-> IF i < p THEN v[i] ELSE IF i = p THEN x ELSE v[i - 1]]

Deleted(v, p) == [i \in 1..(Len(v) - 1) |-> IF i < p THEN v[i] ELSE v[i + 1]]

Joined(a, c) == a \o c

(* e is a with c put after it. *)
Continues(e, a, c) ==
    /\ e \in Seq(Nat) /\ Len(e) = Len(a) + Len(c)
    /\ \A i \in 1..Len(a) : e[i] = a[i]
    /\ \A i \in 1..Len(c) : e[Len(a) + i] = c[i]

LEMMA Concatenated ==
    ASSUME NEW a \in Seq(Nat), NEW c \in Seq(Nat), NEW d, d = Joined(a, c)
    PROVE  Continues(d, a, c)
<1> DEFINE e == a \o c
           m == Len(a)
           n == Len(c)
<1>1. /\ e \in Seq(Nat) /\ Len(e) = m + n /\ m \in Nat /\ n \in Nat
  OBVIOUS
<1>2. ASSUME NEW i \in 1..m PROVE e[i] = a[i]
  OBVIOUS
<1>3. ASSUME NEW i \in 1..n PROVE e[m + i] = c[i]
  <2>1. m + i \in 1..(m + n) /\ ~(m + i <= m) /\ (m + i) - m = i
    BY <1>1
  <2> QED
    BY <1>1, <2>1
<1>4. d = e
  BY DEF Joined
<1> HIDE DEF e
<1> QED
  BY <1>1, <1>2, <1>3, <1>4 DEF Continues

LEMMA InsertIs ==
    ASSUME NEW v \in Seq(Nat), NEW p \in 1..(Len(v) + 1), NEW x \in Nat
    PROVE  Intrusive!Seqs!InsertAt(v, p, x) = Inserted(v, p, x) /\ Inserted(v, p, x) \in Seq(Nat)
           /\ Len(Inserted(v, p, x)) = Len(v) + 1
<1> DEFINE a == SubSeq(v, 1, p - 1)
           c == SubSeq(v, p, Len(v))
           w == Inserted(v, p, x)
<1>1. /\ a \in Seq(Nat) /\ Len(a) = p - 1 /\ \A i \in 1..(p - 1) : a[i] = v[i]
  OBVIOUS
<1>2. /\ c \in Seq(Nat) /\ Len(c) = Len(v) - p + 1 /\ \A i \in 1..(Len(v) - p + 1) : c[i] = v[p + i - 1]
  OBVIOUS
<1>3. Intrusive!Seqs!InsertAt(v, p, x) = a \o <<x>> \o c
  BY DEF Intrusive!Seqs!InsertAt
<1> HIDE DEF a, c
<1>4. PICK d : d = Joined(a, <<x>>)
  OBVIOUS
<1>5. d \in Seq(Nat) /\ Len(d) = p /\ d[p] = x /\ \A i \in 1..(p - 1) : d[i] = v[i]
  <2>1. <<x>> \in Seq(Nat) /\ Len(<<x>>) = 1 /\ <<x>>[1] = x
    OBVIOUS
  <2>2. PICK y : y = <<x>>
    OBVIOUS
  <2>3. a \in Seq(Nat) /\ y \in Seq(Nat) /\ d = Joined(a, y)
    BY <1>1, <1>4, <2>1, <2>2
  <2>4. Continues(d, a, y)
    BY <2>3, Concatenated
  <2>5. Len(a) = p - 1 /\ Len(y) = 1 /\ y[1] = x
    BY <1>1, <2>1, <2>2
  <2>6. d \in Seq(Nat) /\ Len(d) = p
    BY <2>4, <2>5 DEF Continues
  <2>7. d[p] = x
    <3>1. \A i \in 1..Len(y) : d[Len(a) + i] = y[i]
      BY <2>4 DEF Continues
    <3>2. 1 \in 1..Len(y) /\ Len(a) + 1 = p
      BY <2>5
    <3> QED
      BY <2>5, <3>1, <3>2
  <2>8. \A i \in 1..(p - 1) : d[i] = v[i]
    BY <1>1, <2>4, <2>5 DEF Continues
  <2> QED
    BY <2>6, <2>7, <2>8
<1>6. PICK e : e = Joined(d, c)
  OBVIOUS
<1>7. /\ e \in Seq(Nat) /\ Len(e) = Len(v) + 1 /\ \A i \in 1..p : e[i] = d[i]
      /\ \A i \in 1..(Len(v) - p + 1) : e[p + i] = c[i]
  <2>1. c \in Seq(Nat) /\ d \in Seq(Nat)
    BY <1>2, <1>5
  <2>2. Continues(e, d, c)
    BY <1>6, <2>1, Concatenated
  <2>3. Len(d) = p /\ Len(c) = Len(v) - p + 1 /\ Len(v) \in Nat
    BY <1>2, <1>5
  <2>4. e \in Seq(Nat) /\ Len(e) = Len(v) + 1
    BY <2>2, <2>3 DEF Continues
  <2> QED
    BY <2>2, <2>3, <2>4 DEF Continues
<1>8. ASSUME NEW i \in (p + 1)..(Len(v) + 1) PROVE e[i] = v[i - 1]
  <2>1. i - p \in 1..(Len(v) - p + 1) /\ p + (i - p) = i /\ p + (i - p) - 1 = i - 1
    OBVIOUS
  <2>2. e[p + (i - p)] = c[i - p] /\ c[i - p] = v[p + (i - p) - 1]
    BY <1>2, <1>7, <2>1
  <2> QED
    BY <2>1, <2>2
<1>9. ASSUME NEW i \in 1..(Len(v) + 1) PROVE e[i] = w[i]
  <2>1. w[i] = IF i < p THEN v[i] ELSE IF i = p THEN x ELSE v[i - 1]
    BY DEF Inserted
  <2>2. i < p => e[i] = v[i]
    BY <1>5, <1>7
  <2>3. i = p => e[i] = x
    BY <1>5, <1>7
  <2>4. p < i => e[i] = v[i - 1]
    BY <1>8
  <2> QED
    BY <2>1, <2>2, <2>3, <2>4
<1>10. e = w
  <2>1. e = [i \in 1..(Len(v) + 1) |-> e[i]]
    BY <1>7
  <2>2. w = [i \in 1..(Len(v) + 1) |-> w[i]]
    BY DEF Inserted
  <2> HIDE DEF w
  <2> QED
    BY <1>9, <2>1, <2>2
<1> QED
  BY <1>3, <1>4, <1>6, <1>7, <1>10 DEF Joined

LEMMA DeleteIs ==
    ASSUME NEW v \in Seq(Nat), NEW p \in 1..Len(v)
    PROVE  Intrusive!Seqs!RemoveAt(v, p) = Deleted(v, p) /\ Deleted(v, p) \in Seq(Nat)
           /\ Len(Deleted(v, p)) = Len(v) - 1
<1> DEFINE a == SubSeq(v, 1, p - 1)
           c == SubSeq(v, p + 1, Len(v))
           w == Deleted(v, p)
<1>1. /\ a \in Seq(Nat) /\ Len(a) = p - 1 /\ \A i \in 1..(p - 1) : a[i] = v[i]
  OBVIOUS
<1>2. /\ c \in Seq(Nat) /\ Len(c) = Len(v) - p /\ \A i \in 1..(Len(v) - p) : c[i] = v[p + i]
  OBVIOUS
<1>3. Intrusive!Seqs!RemoveAt(v, p) = a \o c
  BY DEF Intrusive!Seqs!RemoveAt
<1> HIDE DEF a, c
<1>6. PICK e : e = Joined(a, c)
  OBVIOUS
<1>7. /\ e \in Seq(Nat) /\ Len(e) = Len(v) - 1 /\ \A i \in 1..(p - 1) : e[i] = a[i]
      /\ \A i \in 1..(Len(v) - p) : e[(p - 1) + i] = c[i]
  <2>1. a \in Seq(Nat) /\ c \in Seq(Nat)
    BY <1>1, <1>2
  <2>2. Continues(e, a, c)
    BY <1>6, <2>1, Concatenated
  <2>3. Len(a) = p - 1 /\ Len(c) = Len(v) - p /\ Len(v) \in Nat
    BY <1>1, <1>2
  <2>4. e \in Seq(Nat) /\ Len(e) = Len(v) - 1
    BY <2>2, <2>3 DEF Continues
  <2> QED
    BY <2>2, <2>3, <2>4 DEF Continues
<1>8. ASSUME NEW i \in p..(Len(v) - 1) PROVE e[i] = v[i + 1]
  <2>1. i - p + 1 \in 1..(Len(v) - p) /\ (p - 1) + (i - p + 1) = i /\ p + (i - p + 1) = i + 1
    OBVIOUS
  <2>2. e[(p - 1) + (i - p + 1)] = c[i - p + 1] /\ c[i - p + 1] = v[p + (i - p + 1)]
    BY <1>2, <1>7, <2>1
  <2> QED
    BY <2>1, <2>2
<1>9. ASSUME NEW i \in 1..(Len(v) - 1) PROVE e[i] = w[i]
  <2>1. w[i] = IF i < p THEN v[i] ELSE v[i + 1]
    BY DEF Deleted
  <2>2. i < p => e[i] = v[i]
    BY <1>1, <1>7
  <2>3. ~(i < p) => e[i] = v[i + 1]
    BY <1>8
  <2> QED
    BY <2>1, <2>2, <2>3
<1>10. e = w
  <2>1. e = [i \in 1..(Len(v) - 1) |-> e[i]]
    BY <1>7
  <2>2. w = [i \in 1..(Len(v) - 1) |-> w[i]]
    BY DEF Deleted
  <2> HIDE DEF w
  <2> QED
    BY <1>9, <2>1, <2>2
<1> QED
  BY <1>3, <1>6, <1>7, <1>10 DEF Joined

(* A level is put where the bisection says, or taken from there. *)
LEMMA ListsInsert ==
    ASSUME NEW v, NEW L, NEW s, NEW S, Lists(v, L, s, S), NEW px \in Nat,
           NEW p \in 1..(Len(v) + 1),
           \A i \in 1..Len(v) : Outranks(s, L[v[i]].price, px) <=> i < p,
           NEW li \in Nat, NEW L2, L2[li].price = px,
           \A x \in S : L2[x].price = L[x].price /\ L[x].price # px,
           NEW w, w = Inserted(v, p, li)
    PROVE  Lists(w, L2, s, S \cup {li})
<1> DEFINE n == Len(v)
<1>0. /\ v \in Seq(Nat) /\ n \in Nat /\ S = {v[i] : i \in 1..n}
      /\ \A i \in 1..n : v[i] \in S /\ L[v[i]].price \in Nat
      /\ RankedBy(v, L, s)
  BY SMTT(30) DEF Lists, HP!Listed
<1>1. w \in Seq(Nat) /\ Len(w) = n + 1
  BY <1>0, InsertIs
<1>2. \A i \in 1..(n + 1) : w[i] = IF i < p THEN v[i] ELSE IF i = p THEN li ELSE v[i - 1]
  BY DEF Inserted
<1>3. HP!Listed(w) = S \cup {li}
  <2>1. ASSUME NEW i \in 1..(n + 1) PROVE w[i] \in S \cup {li}
    <3>1. i < p => i \in 1..n
      BY <1>0
    <3>2. ~(i < p) /\ i # p => i - 1 \in 1..n
      BY <1>0
    <3>3. w[i] = IF i < p THEN v[i] ELSE IF i = p THEN li ELSE v[i - 1]
      BY <1>2
    <3> HIDE DEF n
    <3> QED
      BY <1>0, <3>1, <3>2, <3>3
  <2>2. li \in HP!Listed(w)
    BY <1>1, <1>2 DEF HP!Listed
  <2>3. ASSUME NEW i \in 1..n PROVE v[i] \in HP!Listed(w)
    <3>1. CASE i < p
      <4>1. i \in 1..(n + 1) /\ w[i] = v[i]
        BY <1>0, <1>2, <3>1
      <4> QED
        BY <1>1, <4>1 DEF HP!Listed
    <3>2. CASE ~(i < p)
      <4>1. i + 1 \in 1..(n + 1) /\ ~(i + 1 < p) /\ i + 1 # p /\ (i + 1) - 1 = i
        BY <1>0, <3>2
      <4>2. w[i + 1] = v[i]
        BY <1>2, <4>1
      <4> QED
        BY <1>1, <4>1, <4>2 DEF HP!Listed
    <3> QED
      BY <3>1, <3>2
  <2>4. \A x \in HP!Listed(w) : x \in S \cup {li}
    BY <1>1, <2>1 DEF HP!Listed
  <2>5. \A x \in S : x \in HP!Listed(w)
    BY <1>0, <2>3
  <2> QED
    BY <2>2, <2>4, <2>5
<1>4. \A i \in 1..n : L2[v[i]].price = L[v[i]].price /\ L[v[i]].price # px
  BY <1>0
<1>4a. \A x, y \in 1..n : x < y => Outranks(s, L2[v[x]].price, L2[v[y]].price)
  <2>1. \A x, y \in 1..n : x < y => Outranks(s, L[v[x]].price, L[v[y]].price)
    BY <1>0 DEF RankedBy
  <2> QED
    BY <1>4, <2>1
<1>5. ASSUME NEW j \in 1..(n + 1), NEW k \in 1..(n + 1), j < k
      PROVE  Outranks(s, L2[w[j]].price, L2[w[k]].price)
  <2> HIDE DEF n
  <2>1. CASE k < p
    <3>0. j \in 1..n /\ k \in 1..n /\ j < p
      BY <1>0, <1>5, <2>1 DEF n
    <3>1. w[j] = v[j] /\ w[k] = v[k]
      BY <1>2, <2>1, <3>0
    <3>2. Outranks(s, L2[v[j]].price, L2[v[k]].price)
      BY <1>5, <1>4a, <3>0
    <3> QED
      BY <3>1, <3>2
  <2>2. CASE j < p /\ k = p
    <3>1. j \in 1..n /\ w[j] = v[j] /\ w[k] = li
      BY <1>0, <1>2, <1>5, <2>2
    <3>2. Outranks(s, L[v[j]].price, px)
      BY <2>2, <3>1 DEF n
    <3> QED
      BY <1>4, <3>1, <3>2
  <2>3. CASE j < p /\ p < k
    <3>1. j \in 1..n /\ k - 1 \in 1..n /\ w[j] = v[j] /\ w[k] = v[k - 1] /\ j < k - 1
      BY <1>0, <1>2, <1>5, <2>3
    <3>2. Outranks(s, L2[v[j]].price, L2[v[k - 1]].price)
      BY <1>4a, <3>1
    <3> QED
      BY <3>1, <3>2
  <2>4. CASE j = p
    <3>1. k - 1 \in 1..n /\ ~(k - 1 < p) /\ w[j] = li /\ w[k] = v[k - 1]
      BY <1>0, <1>2, <1>5, <2>4
    <3>2. PICK q \in Nat : q = L[v[k - 1]].price
      BY <1>0, <3>1
    <3>3. ~Outranks(s, q, px) /\ q # px
      BY <1>4, <3>1, <3>2 DEF n
    <3>4. Outranks(s, px, q)
      BY <3>3 DEF Outranks
    <3> QED
      BY <1>4, <3>1, <3>2, <3>4
  <2>5. CASE p < j
    <3>1. j - 1 \in 1..n /\ k - 1 \in 1..n /\ w[j] = v[j - 1] /\ w[k] = v[k - 1] /\ j - 1 < k - 1
      BY <1>0, <1>2, <1>5, <2>5
    <3>2. Outranks(s, L2[v[j - 1]].price, L2[v[k - 1]].price)
      BY <1>4a, <3>1
    <3> QED
      BY <3>1, <3>2
  <2> QED
    BY <1>0, <1>5, <2>1, <2>2, <2>3, <2>4, <2>5
<1>6. \A x \in S \cup {li} : L2[x].price \in Nat
  BY DEF Lists
<1> QED
  BY <1>1, <1>3, <1>5, <1>6 DEF Lists, RankedBy

LEMMA ListsDelete ==
    ASSUME NEW v, NEW L, NEW s, NEW S, Lists(v, L, s, S),
           NEW p \in 1..Len(v), NEW L2, \A x \in S \ {v[p]} : L2[x].price = L[x].price,
           NEW w, w = Deleted(v, p)
    PROVE  Lists(w, L2, s, S \ {v[p]})
<1> DEFINE n == Len(v)
           li == v[p]
<1>0. /\ v \in Seq(Nat) /\ n \in Nat /\ S = {v[i] : i \in 1..n}
      /\ \A i \in 1..n : v[i] \in S /\ L[v[i]].price \in Nat
      /\ RankedBy(v, L, s)
  BY DEF Lists, HP!Listed
<1>1. w \in Seq(Nat) /\ Len(w) = n - 1
  BY <1>0, DeleteIs
<1>2. \A i \in 1..(n - 1) : w[i] = IF i < p THEN v[i] ELSE v[i + 1]
  BY DEF Deleted
<1>3. ASSUME NEW j \in 1..n, NEW k \in 1..n, j < k PROVE v[j] # v[k]
  <2>1. Outranks(s, L[v[j]].price, L[v[k]].price)
    BY <1>0, <1>3 DEF RankedBy
  <2>2. L[v[j]].price \in Nat
    BY <1>0
  <2>3. ~Outranks(s, L[v[j]].price, L[v[j]].price)
    BY <2>2 DEF Outranks
  <2> QED
    BY <2>1, <2>3
<1>4. \A i \in 1..n : i # p => v[i] # li
  BY <1>0, <1>3
<1>5. ASSUME NEW i \in 1..(n - 1) PROVE w[i] \in S \ {li}
  <2>1. CASE i < p
    <3>1. i \in 1..n /\ i # p
      BY <1>0, <2>1
    <3> QED
      BY <1>0, <1>2, <1>4, <2>1, <3>1
  <2>2. CASE ~(i < p)
    <3>1. i + 1 \in 1..n /\ i + 1 # p
      BY <1>0, <2>2
    <3> QED
      BY <1>0, <1>2, <1>4, <2>2, <3>1
  <2> QED
    BY <2>1, <2>2
<1>6. HP!Listed(w) = S \ {li}
  <2>1. ASSUME NEW i \in 1..n, v[i] # li PROVE v[i] \in HP!Listed(w)
    <3>1. CASE i < p
      <4>1. i \in 1..(n - 1) /\ w[i] = v[i]
        BY <1>0, <1>2, <3>1
      <4> QED
        BY <1>1, <4>1 DEF HP!Listed
    <3>2. CASE ~(i < p)
      <4>1. i # p
        BY <2>1
      <4>2. i - 1 \in 1..(n - 1) /\ ~(i - 1 < p) /\ (i - 1) + 1 = i
        BY <1>0, <3>2, <4>1
      <4>3. w[i - 1] = v[i]
        BY <1>2, <4>2
      <4> QED
        BY <1>1, <4>2, <4>3 DEF HP!Listed
    <3> QED
      BY <3>1, <3>2
  <2>2. \A x \in S \ {li} : x \in HP!Listed(w)
    BY <1>0, <2>1
  <2>3. \A x \in HP!Listed(w) : x \in S \ {li}
    BY <1>1, <1>5 DEF HP!Listed
  <2> QED
    BY <2>2, <2>3
<1>7. \A i \in 1..(n - 1) : L2[w[i]].price = L[w[i]].price
  BY <1>5
<1>8. ASSUME NEW j \in 1..(n - 1), NEW k \in 1..(n - 1), j < k
      PROVE  Outranks(s, L2[w[j]].price, L2[w[k]].price)
  <2>1. PICK x \in 1..n, y \in 1..n : x < y /\ w[j] = v[x] /\ w[k] = v[y]
    <3>1. CASE k < p
      <4>1. j \in 1..n /\ k \in 1..n /\ j < p
        BY <1>0, <1>8, <3>1
      <4> QED
        BY <1>2, <1>8, <3>1, <4>1
    <3>2. CASE j < p /\ ~(k < p)
      <4>1. j \in 1..n /\ k + 1 \in 1..n /\ j < k + 1
        BY <1>0, <1>8
      <4> QED
        BY <1>2, <3>2, <4>1
    <3>3. CASE ~(j < p)
      <4>1. j + 1 \in 1..n /\ k + 1 \in 1..n /\ j + 1 < k + 1 /\ ~(k < p)
        BY <1>0, <1>8, <3>3
      <4> QED
        BY <1>2, <3>3, <4>1
    <3> QED
      BY <1>8, <3>1, <3>2, <3>3
  <2>2. Outranks(s, L[v[x]].price, L[v[y]].price)
    BY <1>0, <2>1 DEF RankedBy
  <2> QED
    BY <1>7, <2>1, <2>2
<1>9. \A x \in S \ {li} : L2[x].price \in Nat
  BY DEF Lists
<1> QED
  BY <1>1, <1>6, <1>8, <1>9 DEF Lists, RankedBy

(* A change of the levels that moves no price. *)
LEMMA ListsKept ==
    ASSUME NEW v, NEW L, NEW s, NEW S, Lists(v, L, s, S),
           NEW L2, \A x \in S : L2[x].price = L[x].price
    PROVE  Lists(v, L2, s, S)
<1>1. \A i \in 1..Len(v) : v[i] \in S
  BY DEF Lists, HP!Listed
<1> QED
  BY <1>1 DEF Lists, RankedBy

-----------------------------------------------------------------------------
(* What the pool operations make of a record that is a pool and more. *)
PoolFields == {"size", "orders", "levels", "freeOrders", "freeLevels"}

IFields == PoolFields \cup {"index", "ids", "rejected"}

LEMMA PoolOps ==
    ASSUME NEW b, NEW i, NEW o, NEW x
    PROVE  /\ Intrusive!Put(b, i, o) = HP!Put(b, i, o) /\ Intrusive!Without(b, i) = HP!Without(b, i)
           /\ Intrusive!Extended(b, o) = HP!Extended(b, o)
           /\ Intrusive!Seqs!Last(x) = HP!Seqs!Last(x)
           /\ Intrusive!TakeLevel(b, i) = HP!TakeLevel(b, i)
           /\ Intrusive!ReturnLevel(b, i) = HP!ReturnLevel(b, i)
           /\ Intrusive!Link(b, i, o) = HP!Link(b, i, o)
           /\ Intrusive!Unlink(b, i) = HP!Unlink(b, i)
           /\ Intrusive!ReturnOrder(b, i) = HP!ReturnOrder(b, i)
           /\ Intrusive!Shrink(b, i, x) = HP!Shrink(b, i, x)
<1>1. /\ Intrusive!Put(b, i, o) = HP!Put(b, i, o) /\ Intrusive!Without(b, i) = HP!Without(b, i)
      /\ Intrusive!Extended(b, o) = HP!Extended(b, o)
      /\ Intrusive!Seqs!Last(x) = HP!Seqs!Last(x)
  BY Zenon DEF Intrusive!Put, HP!Put, Intrusive!Without, HP!Without, Intrusive!Extended, HP!Extended,
               Intrusive!Seqs!Last, HP!Seqs!Last
<1>2. Intrusive!TakeLevel(b, i) = HP!TakeLevel(b, i)
  BY Zenon DEF Intrusive!TakeLevel, HP!TakeLevel, Intrusive!Put, HP!Put, Intrusive!Nil, HP!Nil,
               Intrusive!Seqs!Last, HP!Seqs!Last, Intrusive!Seqs!Front, HP!Seqs!Front
<1>3. Intrusive!ReturnLevel(b, i) = HP!ReturnLevel(b, i)
  BY Zenon DEF Intrusive!ReturnLevel, HP!ReturnLevel, Intrusive!Without, HP!Without
<1>4. Intrusive!Link(b, i, o) = HP!Link(b, i, o)
  BY Zenon DEF Intrusive!Link, HP!Link, Intrusive!Put, HP!Put, Intrusive!Extended, HP!Extended, Intrusive!Nil, HP!Nil,
               Intrusive!Seqs!Last, HP!Seqs!Last, Intrusive!Seqs!Front, HP!Seqs!Front
<1>5. Intrusive!Unlink(b, i) = HP!Unlink(b, i)
  BY Zenon DEF Intrusive!Unlink, HP!Unlink, Intrusive!Nil, HP!Nil
<1>6. Intrusive!ReturnOrder(b, i) = HP!ReturnOrder(b, i)
  BY Zenon DEF Intrusive!ReturnOrder, HP!ReturnOrder
<1>7. Intrusive!Shrink(b, i, x) = HP!Shrink(b, i, x)
  BY Zenon DEF Intrusive!Shrink, HP!Shrink
<1>. QED  BY <1>1, <1>2, <1>3, <1>4, <1>5, <1>6, <1>7, Zenon

LEMMA TakeLevelFields ==
    ASSUME NEW b, DOMAIN b = IFields, NEW px
    PROVE  LET c == HP!TakeLevel(b, px) IN
           /\ DOMAIN c = IFields /\ c.size = b.size
           /\ c.orders = b.orders /\ c.freeOrders = b.freeOrders
           /\ c.levels = HP!Put(b.levels, HP!Seqs!Last(b.freeLevels), HP!NewLevel(px))
           /\ c.freeLevels = HP!Seqs!Front(b.freeLevels)
           /\ c.index = b.index /\ c.ids = b.ids /\ c.rejected = b.rejected
  BY DEF HP!TakeLevel, IFields, PoolFields, HP!NewLevel

LEMMA ReturnLevelFields ==
    ASSUME NEW b, DOMAIN b = IFields, NEW li
    PROVE  LET c == HP!ReturnLevel(b, li) IN
           /\ DOMAIN c = IFields /\ c.size = b.size
           /\ c.orders = b.orders /\ c.freeOrders = b.freeOrders
           /\ c.levels = HP!Without(b.levels, li)
           /\ c.freeLevels = Append(b.freeLevels, li)
           /\ c.index = b.index /\ c.ids = b.ids /\ c.rejected = b.rejected
  BY DEF HP!ReturnLevel, IFields, PoolFields

(* The entry t of P, if it is one, is followed by oi. *)
Chained(P, t, oi) == IF t = HP!Nil THEN P ELSE [P EXCEPT ![t].next = oi]

LEMMA LinkFields ==
    ASSUME NEW b, DOMAIN b = IFields, NEW li \in DOMAIN b.levels, NEW order
    PROVE  LET c == HP!Link(b, li, order)
               oi == HP!Seqs!Last(b.freeOrders)
               t == b.levels[li].tail IN
           /\ DOMAIN c = IFields /\ c.size = b.size
           /\ c.freeOrders = HP!Seqs!Front(b.freeOrders) /\ c.freeLevels = b.freeLevels
           /\ c.orders = HP!Put(Chained(b.orders, t, oi), oi,
                                HP!Extended(order, [prev |-> t, next |-> HP!Nil, level |-> li]))
           /\ c.levels = HP!LinkedLevels(b.levels, li, oi, order.qty)
           /\ c.index = b.index /\ c.ids = b.ids /\ c.rejected = b.rejected
  BY DEF HP!Link, IFields, PoolFields, HP!LinkedLevels, Chained

(* The neighbours of oi close over it. *)
ClosedUp(P, oi) ==
    [k \in DOMAIN P \ {oi} |->
        [P[k] EXCEPT !.next = IF k = P[oi].prev THEN P[oi].next ELSE @,
                     !.prev = IF k = P[oi].next THEN P[oi].prev ELSE @]]

LEMMA UnlinkFields ==
    ASSUME NEW b, DOMAIN b = IFields, NEW oi \in DOMAIN b.orders
    PROVE  LET c == HP!Unlink(b, oi)
               o == b.orders[oi] IN
           /\ DOMAIN c = IFields /\ c.size = b.size
           /\ c.freeOrders = b.freeOrders /\ c.freeLevels = b.freeLevels
           /\ c.orders = ClosedUp(b.orders, oi)
           /\ c.levels = HP!UnlinkedLevels(b.levels, o)
           /\ c.index = b.index /\ c.ids = b.ids /\ c.rejected = b.rejected
  BY DEF HP!Unlink, IFields, PoolFields, HP!UnlinkedLevels, ClosedUp

LEMMA ReturnOrderFields ==
    ASSUME NEW b, DOMAIN b = IFields, NEW oi
    PROVE  LET c == HP!ReturnOrder(b, oi) IN
           /\ DOMAIN c = IFields /\ c.size = b.size
           /\ c.orders = b.orders /\ c.levels = b.levels
           /\ c.freeOrders = Append(b.freeOrders, oi) /\ c.freeLevels = b.freeLevels
           /\ c.index = b.index /\ c.ids = b.ids /\ c.rejected = b.rejected
  BY DEF HP!ReturnOrder, IFields, PoolFields

LEMMA ShrinkFields ==
    ASSUME NEW b, DOMAIN b = IFields, NEW oi \in DOMAIN b.orders, NEW q,
           b.orders[oi].level \in DOMAIN b.levels
    PROVE  LET c == HP!Shrink(b, oi, q) IN
           /\ DOMAIN c = IFields /\ c.size = b.size
           /\ HP!Shrinks(b.orders, b.levels, oi, q, c.orders, c.levels)
           /\ c.freeOrders = b.freeOrders /\ c.freeLevels = b.freeLevels
           /\ c.index = b.index /\ c.ids = b.ids /\ c.rejected = b.rejected
<1> DEFINE c == HP!Shrink(b, oi, q)
           O == b.orders
           L == b.levels
           li == O[oi].level
           u == [O[oi] EXCEPT !.qty = O[oi].qty - q]
           v == [L[li] EXCEPT !.qty = L[li].qty - q]
<1>1. /\ DOMAIN c = IFields /\ c.size = b.size
      /\ c.freeOrders = b.freeOrders /\ c.freeLevels = b.freeLevels
      /\ c.index = b.index /\ c.ids = b.ids /\ c.rejected = b.rejected
      /\ c.orders = [O EXCEPT ![oi] = u] /\ c.levels = [L EXCEPT ![li] = v]
  BY DEF HP!Shrink, IFields, PoolFields
<1> HIDE DEF c, u, v
<1>2. /\ DOMAIN c.orders = DOMAIN O /\ DOMAIN c.levels = DOMAIN L
      /\ c.orders[oi] = u /\ c.levels[li] = v
      /\ \A i \in DOMAIN O \ {oi} : c.orders[i] = O[i]
      /\ \A l \in DOMAIN L \ {li} : c.levels[l] = L[l]
  BY <1>1
<1>3. HP!Shrinks(O, L, oi, q, c.orders, c.levels)
  BY <1>2, Zenon DEF HP!Shrinks, u, v
<1> QED
  BY <1>1, <1>3 DEF c

-----------------------------------------------------------------------------
(* IntrusiveBook, driven by the same events, is HybridBook without the stamps and *)
(* with vectors of levels in the place of the window and the overflow map.        *)
Unstamped(o) == [id |-> o.id, side |-> o.side, qty |-> o.qty,
                 prev |-> o.prev, next |-> o.next, level |-> o.level]

Bared(P, O) == DOMAIN P = DOMAIN O /\ \A i \in DOMAIN O : P[i] = Unstamped(O[i])

LEMMA UnstampedIs ==
    ASSUME NEW o
    PROVE  /\ Unstamped(o).id = o.id /\ Unstamped(o).side = o.side /\ Unstamped(o).qty = o.qty
           /\ Unstamped(o).prev = o.prev /\ Unstamped(o).next = o.next
           /\ Unstamped(o).level = o.level
           /\ DOMAIN Unstamped(o) = {"id", "side", "qty", "prev", "next", "level"}
  BY DEF Unstamped

LEMMA SameBare ==
    ASSUME NEW o, NEW x, DOMAIN x = {"id", "side", "qty", "prev", "next", "level"},
           x = [k \in DOMAIN x |-> x[k]],
           x.id = o.id, x.side = o.side, x.qty = o.qty, x.prev = o.prev, x.next = o.next,
           x.level = o.level
    PROVE  x = Unstamped(o)
<1> DEFINE u == Unstamped(o)
<1>1. /\ DOMAIN u = DOMAIN x /\ u = [k \in DOMAIN u |-> u[k]]
      /\ \A k \in DOMAIN x : u[k] = x[k]
  BY DEF Unstamped
<1> HIDE DEF u
<1>2. u = x
  BY <1>1
<1> QED
  BY <1>2 DEF u

LEMMA BareRelinked ==
    ASSUME NEW o \in HP!Entry, NEW n
    PROVE  [Unstamped(o) EXCEPT !.next = n] = Unstamped([o EXCEPT !.next = n])
<1> DEFINE x == [Unstamped(o) EXCEPT !.next = n]
           y == [o EXCEPT !.next = n]
<1>1. /\ DOMAIN x = {"id", "side", "qty", "prev", "next", "level"}
      /\ x = [k \in DOMAIN x |-> x[k]]
      /\ x.id = o.id /\ x.side = o.side /\ x.qty = o.qty /\ x.prev = o.prev /\ x.next = n
      /\ x.level = o.level
  BY DEF Unstamped
<1>2. /\ y.id = o.id /\ y.side = o.side /\ y.qty = o.qty /\ y.prev = o.prev /\ y.next = n
      /\ y.level = o.level
  BY DEF HP!Entry
<1> HIDE DEF x, y
<1>3. x = Unstamped(y)
  BY <1>1, <1>2, SameBare
<1> QED
  BY <1>3 DEF x, y

Closing(o, n, p) == [o EXCEPT !.next = n, !.prev = p]

LEMMA BareClosed ==
    ASSUME NEW o \in HP!Entry, NEW n, NEW p
    PROVE  Closing(Unstamped(o), n, p) = Unstamped(Closing(o, n, p))
<1> DEFINE x == [Unstamped(o) EXCEPT !.next = n, !.prev = p]
           y == [o EXCEPT !.next = n, !.prev = p]
<1>1. /\ DOMAIN x = {"id", "side", "qty", "prev", "next", "level"}
      /\ x = [k \in DOMAIN x |-> x[k]]
      /\ x.id = o.id /\ x.side = o.side /\ x.qty = o.qty /\ x.prev = p /\ x.next = n
      /\ x.level = o.level
  BY DEF Unstamped
<1>2. /\ y.id = o.id /\ y.side = o.side /\ y.qty = o.qty /\ y.prev = p /\ y.next = n
      /\ y.level = o.level
  BY DEF HP!Entry
<1> HIDE DEF x, y
<1>3. x = Unstamped(y)
  BY <1>1, <1>2, SameBare
<1> QED
  BY <1>3 DEF x, y, Closing

LEMMA BareShrunk ==
    ASSUME NEW o \in HP!Entry, NEW n
    PROVE  [Unstamped(o) EXCEPT !.qty = n] = Unstamped([o EXCEPT !.qty = n])
<1> DEFINE x == [Unstamped(o) EXCEPT !.qty = n]
           y == [o EXCEPT !.qty = n]
<1>1. /\ DOMAIN x = {"id", "side", "qty", "prev", "next", "level"}
      /\ x = [k \in DOMAIN x |-> x[k]]
      /\ x.id = o.id /\ x.side = o.side /\ x.qty = n /\ x.prev = o.prev /\ x.next = o.next
      /\ x.level = o.level
  BY DEF Unstamped
<1>2. /\ y.id = o.id /\ y.side = o.side /\ y.qty = n /\ y.prev = o.prev /\ y.next = o.next
      /\ y.level = o.level
  BY DEF HP!Entry
<1> HIDE DEF x, y
<1>3. x = Unstamped(y)
  BY <1>1, <1>2, SameBare
<1> QED
  BY <1>3 DEF x, y

LEMMA BareEntry ==
    ASSUME NEW ref, NEW side, NEW qty, NEW seq, NEW t, NEW li
    PROVE  HP!Extended([id |-> ref, side |-> side, qty |-> qty],
                       [prev |-> t, next |-> HP!Nil, level |-> li])
             = Unstamped(HP!NewEntry(ref, side, qty, seq, t, li))
<1> DEFINE a == [id |-> ref, side |-> side, qty |-> qty]
           m == [prev |-> t, next |-> HP!Nil, level |-> li]
           e == HP!NewEntry(ref, side, qty, seq, t, li)
           x == HP!Extended(a, m)
<1>1. /\ DOMAIN a = {"id", "side", "qty"} /\ DOMAIN m = {"prev", "next", "level"}
      /\ a.id = ref /\ a.side = side /\ a.qty = qty
      /\ m.prev = t /\ m.next = HP!Nil /\ m.level = li
  OBVIOUS
<1> HIDE DEF a, m
<1>2. /\ x = [k \in DOMAIN a \cup DOMAIN m |-> IF k \in DOMAIN m THEN m[k] ELSE a[k]]
  BY DEF HP!Extended
<1>3. /\ DOMAIN x = {"id", "side", "qty", "prev", "next", "level"}
      /\ x = [k \in DOMAIN x |-> x[k]]
      /\ x.id = ref /\ x.side = side /\ x.qty = qty /\ x.prev = t /\ x.next = HP!Nil /\ x.level = li
  BY <1>1, <1>2
<1>4. /\ e.id = ref /\ e.side = side /\ e.qty = qty /\ e.prev = t /\ e.next = HP!Nil /\ e.level = li
  BY DEF HP!NewEntry
<1> HIDE DEF x, e
<1>5. x = Unstamped(e)
  BY <1>3, <1>4, SameBare
<1> QED
  BY <1>5 DEF x, e, a, m

(* The levels of a side, as HybridBook finds them. *)
OnSide(h, s) == {li \in DOMAIN h.levels : HP!Lookup(h, s, h.levels[li].price) = li}

Indexed(x, h) == /\ DOMAIN x = HP!Sides
                 /\ \A s \in HP!Sides : Lists(x[s], h.levels, s, OnSide(h, s))

Twin(i, h) ==
    /\ DOMAIN i = IFields
    /\ i.size = h.size /\ i.levels = h.levels
    /\ i.freeOrders = h.freeOrders /\ i.freeLevels = h.freeLevels
    /\ i.ids = h.ids /\ i.rejected = h.rejected
    /\ Bared(i.orders, h.orders) /\ Indexed(i.index, h)

(* What an order's place in its list, and the levels it stands on, ask of a twin. *)
LEMMA IndexedKept ==
    ASSUME NEW x, NEW h, Indexed(x, h), NEW g, DOMAIN g.levels = DOMAIN h.levels,
           \A l \in DOMAIN h.levels : g.levels[l].price = h.levels[l].price
                                      /\ h.levels[l].price \in Nat,
           \A s \in HP!Sides, p \in Nat : HP!Lookup(g, s, p) = HP!Lookup(h, s, p)
    PROVE  Indexed(x, g)
<1> SUFFICES ASSUME NEW s \in HP!Sides PROVE Lists(x[s], g.levels, s, OnSide(g, s))
  BY DEF Indexed
<1>1. OnSide(g, s) = OnSide(h, s)
  BY DEF OnSide
<1>2. \A l \in OnSide(h, s) : g.levels[l].price = h.levels[l].price
  BY DEF OnSide
<1>3. Lists(x[s], h.levels, s, OnSide(h, s))
  BY DEF Indexed
<1>. QED  BY <1>1, <1>2, <1>3, ListsKept

LEMMA LevelPrices ==
    ASSUME NEW h, HP!Sound(h)
    PROVE  /\ \A l \in DOMAIN h.levels : l \in Nat /\ l # HP!Nil /\ h.levels[l].price \in Nat \ {0}
           /\ DOMAIN h = HP!Fields /\ HP!Marked(h) /\ HP!Found(h)
           /\ HP!Queues(h.orders, h.levels, h.nextSeq)
           /\ \A l \in DOMAIN h.levels : h.levels[l] \in HP!LevelEntry
           /\ \A i \in DOMAIN h.orders : h.orders[i] \in HP!Entry /\ h.orders[i].level \in DOMAIN h.levels
<1>1. /\ DOMAIN h = HP!Fields /\ HP!Marked(h) /\ HP!Found(h)
      /\ HP!Queues(h.orders, h.levels, h.nextSeq)
  BY DEF HP!Sound
<1>2. /\ DOMAIN h.levels \subseteq Nat
      /\ \A l \in DOMAIN h.levels : HP!LevelFits(h.orders, h.levels, l)
      /\ \A i \in DOMAIN h.orders : HP!EntryFits(h.orders, h.levels, h.nextSeq, i)
  BY <1>1 DEF HP!Queues
<1>3. /\ \A l \in DOMAIN h.levels : h.levels[l] \in HP!LevelEntry
      /\ \A i \in DOMAIN h.orders : h.orders[i] \in HP!Entry /\ h.orders[i].level \in DOMAIN h.levels
  BY <1>2 DEF HP!LevelFits, HP!EntryFits
<1>4. \A l \in DOMAIN h.levels : l \in Nat /\ l # HP!Nil /\ h.levels[l].price \in Nat \ {0}
  BY <1>2, <1>3 DEF HP!Nil, HP!LevelEntry
<1>. QED  BY <1>1, <1>3, <1>4

(* The bisection finds the level that the window or the overflow map holds. *)
LEMMA TwinHas ==
    ASSUME NEW i, NEW h, Twin(i, h), HP!Found(h), \A l \in DOMAIN h.levels : l # HP!Nil,
           NEW s \in HP!Sides, NEW px \in Nat
    PROVE  /\ Intrusive!HasLevel(i, s, px) <=> HP!Lookup(h, s, px) # HP!Nil
           /\ HP!Lookup(h, s, px) # HP!Nil =>
                 /\ Intrusive!Position(i, s, px) \in 1..Len(i.index[s])
                 /\ i.index[s][Intrusive!Position(i, s, px)] = HP!Lookup(h, s, px)
<1>1. i.levels = h.levels /\ Lists(i.index[s], i.levels, s, OnSide(h, s))
  BY DEF Twin, Indexed
<1>2. /\ Intrusive!HasLevel(i, s, px) <=> \E li \in OnSide(h, s) : h.levels[li].price = px
      /\ \A li \in OnSide(h, s) : h.levels[li].price = px =>
            /\ Intrusive!Position(i, s, px) \in 1..Len(i.index[s])
            /\ i.index[s][Intrusive!Position(i, s, px)] = li
  <2>1. PICK S : S = OnSide(h, s)
    OBVIOUS
  <2>2. /\ Intrusive!HasLevel(i, s, px) <=> \E li \in S : i.levels[li].price = px
        /\ \A li \in S : i.levels[li].price = px =>
            /\ Intrusive!Position(i, s, px) \in 1..Len(i.index[s])
            /\ i.index[s][Intrusive!Position(i, s, px)] = li
    <3>1. Lists(i.index[s], i.levels, s, S)
      BY <1>1, <2>1
    <3>. QED  BY ONLY <3>1, px \in Nat, LevelAtPosition
  <2>. QED  BY <1>1, <2>1, <2>2
<1>3. HP!Found(h) /\ \A l \in DOMAIN h.levels : l # HP!Nil
  OBVIOUS
<1>4. HP!Lookup(h, s, px) # HP!Nil => /\ HP!Lookup(h, s, px) \in OnSide(h, s)
                                      /\ h.levels[HP!Lookup(h, s, px)].price = px
  <2> SUFFICES ASSUME HP!Lookup(h, s, px) # HP!Nil
               PROVE  /\ HP!Lookup(h, s, px) \in OnSide(h, s)
                      /\ h.levels[HP!Lookup(h, s, px)].price = px
    OBVIOUS
  <2>1. PICK li : li = HP!Lookup(h, s, px)
    OBVIOUS
  <2>2. li \in DOMAIN h.levels /\ h.levels[li].price = px
    BY <1>3, <2>1 DEF HP!Found
  <2>. QED  BY <2>1, <2>2 DEF OnSide
<1>5. \A li \in OnSide(h, s) : h.levels[li].price = px =>
         HP!Lookup(h, s, px) = li /\ li # HP!Nil
  BY <1>3 DEF OnSide
<1>. QED  BY <1>2, <1>4, <1>5

LEMMA IndexMoves ==
    ASSUME NEW b, DOMAIN b = IFields, NEW s, NEW w
    PROVE  LET c == [b EXCEPT !.index[s] = w] IN
           /\ DOMAIN c = IFields /\ c.size = b.size /\ c.orders = b.orders /\ c.levels = b.levels
           /\ c.freeOrders = b.freeOrders /\ c.freeLevels = b.freeLevels
           /\ c.ids = b.ids /\ c.rejected = b.rejected
           /\ c.index = [b.index EXCEPT ![s] = w]
  BY DEF IFields, PoolFields

LEMMA IRejects ==
    ASSUME NEW b, DOMAIN b = IFields
    PROVE  LET c == [b EXCEPT !.rejected = @ + 1] IN
           /\ DOMAIN c = IFields /\ c.size = b.size /\ c.orders = b.orders /\ c.levels = b.levels
           /\ c.freeOrders = b.freeOrders /\ c.freeLevels = b.freeLevels
           /\ c.ids = b.ids /\ c.rejected = b.rejected + 1 /\ c.index = b.index
  BY DEF IFields, PoolFields

LEMMA IIdsChange ==
    ASSUME NEW b, DOMAIN b = IFields, NEW m
    PROVE  LET c == [b EXCEPT !.ids = m] IN
           /\ DOMAIN c = IFields /\ c.size = b.size /\ c.orders = b.orders /\ c.levels = b.levels
           /\ c.freeOrders = b.freeOrders /\ c.freeLevels = b.freeLevels
           /\ c.ids = m /\ c.rejected = b.rejected /\ c.index = b.index
  BY DEF IFields, PoolFields

(* A new level is found on its side and on no other. *)
LEMMA SideGains ==
    ASSUME NEW h, HP!Sound(h), NEW s \in HP!Sides, NEW px \in Nat \ {0},
           HP!Lookup(h, s, px) = HP!Nil, NEW li \in Nat, li \notin DOMAIN h.levels,
           NEW g, DOMAIN g.levels = DOMAIN h.levels \cup {li}, g.levels[li].price = px,
           \A l \in DOMAIN h.levels : g.levels[l] = h.levels[l],
           HP!Places(g, h, s, px, li)
    PROVE  /\ OnSide(g, s) = OnSide(h, s) \cup {li}
           /\ \A u \in HP!Sides \ {s} : OnSide(g, u) = OnSide(h, u)
           /\ \A u \in HP!Sides : \A l \in OnSide(h, u) :
                 g.levels[l].price = h.levels[l].price /\ (u = s => h.levels[l].price # px)
<1>1. /\ HP!Found(h) /\ \A l \in DOMAIN h.levels : l # HP!Nil /\ h.levels[l].price \in Nat
  BY LevelPrices
<1>2. \A u \in HP!Sides, p \in Nat :
         HP!Lookup(g, u, p) = IF u = s /\ p = px THEN li ELSE HP!Lookup(h, u, p)
  BY DEF HP!Places
<1>3. ASSUME NEW u \in HP!Sides, NEW l \in DOMAIN h.levels
      PROVE  l \in OnSide(g, u) <=> l \in OnSide(h, u)
  <2>1. HP!Lookup(g, u, h.levels[l].price)
          = IF u = s /\ h.levels[l].price = px THEN li ELSE HP!Lookup(h, u, h.levels[l].price)
    BY <1>1, <1>2
  <2>2. l # li /\ l # HP!Nil /\ g.levels[l] = h.levels[l]
    BY <1>1
  <2>. QED  BY <2>1, <2>2 DEF OnSide
<1>4. li \in OnSide(g, s)
  BY <1>2 DEF OnSide
<1>5. ASSUME NEW u \in HP!Sides \ {s} PROVE li \notin OnSide(g, u)
  <2>1. HP!Lookup(g, u, px) = HP!Lookup(h, u, px)
    BY <1>2
  <2>2. li # HP!Nil
    BY DEF HP!Nil
  <2>3. HP!Lookup(h, u, px) # HP!Nil => HP!Lookup(h, u, px) \in DOMAIN h.levels
    BY <1>1 DEF HP!Found
  <2>. QED  BY <2>1, <2>2, <2>3 DEF OnSide
<1>6. \A u : OnSide(g, u) \subseteq DOMAIN h.levels \cup {li} /\ OnSide(h, u) \subseteq DOMAIN h.levels
  BY DEF OnSide
<1>7. OnSide(g, s) = OnSide(h, s) \cup {li}
  BY <1>3, <1>4, <1>6
<1>8. \A u \in HP!Sides \ {s} : OnSide(g, u) = OnSide(h, u)
  <2> SUFFICES ASSUME NEW u \in HP!Sides \ {s} PROVE OnSide(g, u) = OnSide(h, u)
    OBVIOUS
  <2>1. \A l \in DOMAIN h.levels : l \in OnSide(g, u) <=> l \in OnSide(h, u)
    BY <1>3
  <2>2. li \notin OnSide(g, u)
    BY <1>5
  <2>. QED  BY <1>6, <2>1, <2>2
<1>9. ASSUME NEW u \in HP!Sides, NEW l \in OnSide(h, u)
      PROVE  g.levels[l].price = h.levels[l].price /\ (u = s => h.levels[l].price # px)
  BY <1>1 DEF OnSide
<1>. QED  BY <1>7, <1>8, <1>9

LEMMA TwinOpened ==
    ASSUME NEW i, NEW h, Twin(i, h), HP!Sound(h), NEW s \in HP!Sides, NEW px \in Nat \ {0},
           HP!Lookup(h, s, px) = HP!Nil => h.freeLevels # << >>
    PROVE  Twin(Intrusive!WithLevel(i, s, px), HP!WithLevel(h, s, px))
<1>1. Intrusive!HasLevel(i, s, px) <=> HP!Lookup(h, s, px) # HP!Nil
  BY LevelPrices, TwinHas
<1>2. CASE HP!Lookup(h, s, px) # HP!Nil
  <2>1. Intrusive!WithLevel(i, s, px) = i
    BY <1>1, <1>2 DEF Intrusive!WithLevel
  <2>2. HP!WithLevel(h, s, px) = h
    BY <1>2 DEF HP!WithLevel
  <2>. QED  BY <2>1, <2>2
<1>3. CASE HP!Lookup(h, s, px) = HP!Nil
  <2>0. /\ DOMAIN i = IFields /\ i.size = h.size /\ i.levels = h.levels
        /\ i.freeOrders = h.freeOrders /\ i.freeLevels = h.freeLevels
        /\ i.ids = h.ids /\ i.rejected = h.rejected
        /\ Bared(i.orders, h.orders) /\ Indexed(i.index, h)
    BY DEF Twin
  <2>1. PICK li : li = HP!Seqs!Last(h.freeLevels)
    OBVIOUS
  <2>2. PICK pos : pos = Intrusive!Position(i, s, px)
    OBVIOUS
  <2>3. PICK t : t = HP!TakeLevel(i, px)
    OBVIOUS
  <2>4. PICK w : w = Intrusive!Seqs!InsertAt(t.index[s], pos, li)
    OBVIOUS
  <2>5. PICK c : c = [t EXCEPT !.index[s] = w]
    OBVIOUS
  <2>6. Intrusive!WithLevel(i, s, px) = c
    <3>1. Intrusive!TakeLevel(i, px) = t /\ Intrusive!Seqs!Last(i.freeLevels) = li
      BY <2>0, <2>1, <2>3, PoolOps
    <3>2. Intrusive!WithLevel(i, s, px)
            = [t EXCEPT !.index[s] = Intrusive!Seqs!InsertAt(@, pos, li)]
      BY <1>1, <1>3, <2>2, <3>1 DEF Intrusive!WithLevel
    <3>. QED  BY <2>4, <2>5, <3>2
  <2>7. /\ DOMAIN t = IFields /\ t.size = i.size
        /\ t.orders = i.orders /\ t.freeOrders = i.freeOrders
        /\ t.levels = HP!Put(i.levels, HP!Seqs!Last(i.freeLevels), HP!NewLevel(px))
        /\ t.freeLevels = HP!Seqs!Front(i.freeLevels)
        /\ t.index = i.index /\ t.ids = i.ids /\ t.rejected = i.rejected
    BY <2>0, <2>3, TakeLevelFields
  <2>8. /\ DOMAIN c = IFields /\ c.size = t.size /\ c.orders = t.orders /\ c.levels = t.levels
        /\ c.freeOrders = t.freeOrders /\ c.freeLevels = t.freeLevels
        /\ c.ids = t.ids /\ c.rejected = t.rejected
        /\ c.index = [t.index EXCEPT ![s] = w]
    BY <2>5, <2>7, IndexMoves
  <2>9. PICK g : g = HP!WithLevel(h, s, px)
    OBVIOUS
  <2>10. /\ DOMAIN h = HP!Fields /\ HP!Marked(h) /\ HP!Found(h)
         /\ HP!Queues(h.orders, h.levels, h.nextSeq)
         /\ HP!Window!WindowConstants
    BY LevelPrices, HybridConstants DEF HP!HybridConstants
  <2>11. li \in Nat /\ li \notin DOMAIN h.levels
    <3>1. /\ HP!Stacked(h.freeLevels, h.size.levels, DOMAIN h.levels)
          /\ h.size.levels \in Nat /\ h.freeLevels # << >>
      BY <1>3, HybridConstants DEF HP!Sound, HP!PoolsFit, HP!HybridConstants
    <3>2. li \in 0..(h.size.levels - 1) /\ li \notin DOMAIN h.levels
      BY <2>1, <3>1, HP!StackGivesOut
    <3>. QED  BY <3>1, <3>2
  <2>12. /\ DOMAIN g = HP!Fields /\ g.size = h.size
         /\ g.orders = h.orders /\ g.freeOrders = h.freeOrders
         /\ g.levels = HP!Put(h.levels, li, HP!NewLevel(px))
         /\ g.freeLevels = HP!Seqs!Front(h.freeLevels)
         /\ HP!SameCounts(g, h) /\ HP!Marked(g) /\ HP!Places(g, h, s, px, li)
    BY <1>3, <2>1, <2>9, <2>10, <2>11, HP!WithLevelParts
  <2>13. /\ DOMAIN g.levels = DOMAIN h.levels \cup {li} /\ g.levels[li].price = px
         /\ \A l \in DOMAIN h.levels : g.levels[l] = h.levels[l]
    <3>1. /\ DOMAIN HP!Put(h.levels, li, HP!NewLevel(px)) = DOMAIN h.levels \cup {li}
          /\ HP!Put(h.levels, li, HP!NewLevel(px))[li] = HP!NewLevel(px)
          /\ \A l \in DOMAIN h.levels : HP!Put(h.levels, li, HP!NewLevel(px))[l] = h.levels[l]
      BY <2>11 DEF HP!Put
    <3>2. HP!NewLevel(px).price = px
      BY DEF HP!NewLevel
    <3>. QED  BY <2>12, <3>1, <3>2
  <2>14. /\ OnSide(g, s) = OnSide(h, s) \cup {li}
         /\ \A u \in HP!Sides \ {s} : OnSide(g, u) = OnSide(h, u)
         /\ \A u \in HP!Sides : \A l \in OnSide(h, u) :
               g.levels[l].price = h.levels[l].price /\ (u = s => h.levels[l].price # px)
    BY <1>3, <2>11, <2>12, <2>13, SideGains
  <2>15. PICK v : v = i.index[s]
    OBVIOUS
  <2>16. PICK S : S = OnSide(h, s)
    OBVIOUS
  <2>17. Lists(v, h.levels, s, S)
    BY <2>0, <2>15, <2>16 DEF Indexed
  <2>18. Lists(i.index[s], i.levels, s, S)
    BY <2>0, <2>15, <2>17
  <2>19. /\ pos \in 1..(Len(v) + 1)
         /\ \A k \in 1..Len(v) : Outranks(s, i.levels[v[k]].price, px) <=> k < pos
    BY <2>2, <2>15, <2>18, PositionParts
  <2>20. v \in Seq(Nat)
    BY <2>17 DEF Lists
  <2>21. w = Inserted(v, pos, li)
    BY <2>4, <2>7, <2>11, <2>15, <2>19, <2>20, InsertIs
  <2>22. \A k \in 1..Len(v) : Outranks(s, h.levels[v[k]].price, px) <=> k < pos
    BY <2>0, <2>19
  <2>23. PICK L2 : L2 = g.levels
    OBVIOUS
  <2>24. L2[li].price = px /\ \A x \in S : L2[x].price = h.levels[x].price /\ h.levels[x].price # px
    BY <2>13, <2>14, <2>16, <2>23
  <2>25. PICK L : L = h.levels
    OBVIOUS
  <2>26. Lists(w, L2, s, S \cup {li})
    <3>1. /\ Lists(v, L, s, S) /\ \A k \in 1..Len(v) : Outranks(s, L[v[k]].price, px) <=> k < pos
          /\ \A x \in S : L2[x].price = L[x].price /\ L[x].price # px
          /\ L2[li].price = px /\ px \in Nat
      BY <2>17, <2>22, <2>24, <2>25
    <3>. QED  BY ONLY <2>11, <2>19, <2>21, <3>1, ListsInsert
  <2>27. Indexed(c.index, g)
    <3>1. DOMAIN c.index = HP!Sides /\ c.index[s] = w
          /\ \A u \in HP!Sides \ {s} : c.index[u] = i.index[u]
      BY <2>0, <2>7, <2>8 DEF Indexed
    <3>2. ASSUME NEW u \in HP!Sides \ {s} PROVE Lists(i.index[u], g.levels, u, OnSide(g, u))
      <4>1. Lists(i.index[u], h.levels, u, OnSide(h, u))
        BY <2>0 DEF Indexed
      <4>2. \A x \in OnSide(h, u) : g.levels[x].price = h.levels[x].price
        BY <2>14
      <4>3. Lists(i.index[u], g.levels, u, OnSide(h, u))
        BY <4>1, <4>2, ListsKept
      <4>. QED  BY <2>14, <4>3
    <3>3. Lists(w, g.levels, s, OnSide(g, s))
      BY <2>14, <2>16, <2>23, <2>26
    <3>. QED  BY <3>1, <3>2, <3>3 DEF Indexed
  <2>28. Twin(c, g)
    <3>1. /\ DOMAIN c = IFields /\ c.size = g.size /\ c.levels = g.levels
          /\ c.freeOrders = g.freeOrders /\ c.freeLevels = g.freeLevels
          /\ c.ids = g.ids /\ c.rejected = g.rejected /\ Bared(c.orders, g.orders)
      BY <2>0, <2>1, <2>7, <2>8, <2>12 DEF HP!SameCounts
    <3>. QED  BY <2>27, <3>1 DEF Twin
  <2>. QED  BY <2>6, <2>9, <2>28
<1>. QED  BY <1>2, <1>3

-----------------------------------------------------------------------------
(* Linking an order to the tail of its level, in both books. *)
Rechained(o, k, t, oi) == IF k = t THEN [o EXCEPT !.next = oi] ELSE o

LEMMA LinkedOrders ==
    ASSUME NEW P, NEW t, NEW oi, oi \notin DOMAIN P, HP!Nil \notin DOMAIN P,
           t = HP!Nil \/ t \in DOMAIN P, NEW e, NEW P2,
           P2 = HP!Put(Chained(P, t, oi), oi, e)
    PROVE  /\ \A k : k \in DOMAIN P2 <=> k \in DOMAIN P \/ k = oi
           /\ P2[oi] = e
           /\ \A k \in DOMAIN P : P2[k] = Rechained(P[k], k, t, oi)
<1> DEFINE n == [P[t] EXCEPT !.next = oi]
           Q == [P EXCEPT ![t] = n]
<1>1. CASE t = HP!Nil
  BY <1>1 DEF HP!Put, Chained, Rechained
<1>2. CASE t # HP!Nil
  <2>1. [P EXCEPT ![t].next = oi] = Q
    OBVIOUS
  <2>2. P2 = HP!Put(Q, oi, e)
    BY <1>2, <2>1 DEF Chained
  <2>3. DOMAIN Q = DOMAIN P /\ Q[t] = n /\ \A k \in DOMAIN P \ {t} : Q[k] = P[k]
    BY <1>2
  <2>. HIDE DEF Q, n
  <2>4. /\ DOMAIN P2 = DOMAIN Q \cup {oi} /\ P2[oi] = e
        /\ \A k \in DOMAIN Q : P2[k] = Q[k]
    BY <2>2, <2>3 DEF HP!Put
  <2>5. \A k \in DOMAIN P : P2[k] = IF k = t THEN n ELSE P[k]
    BY <2>3, <2>4
  <2>6. ASSUME NEW k \in DOMAIN P
        PROVE  P2[k] = Rechained(P[k], k, t, oi)
    BY <2>5 DEF n, Rechained
  <2>. QED  BY <2>3, <2>4, <2>6
<1>. QED  BY <1>1, <1>2

LEMMA BareLink ==
    ASSUME NEW O, NEW L, NEW ns, HP!Queues(O, L, ns), NEW oi \in Nat, oi \notin DOMAIN O,
           NEW li \in DOMAIN L, NEW O2, NEW L2, HP!Joins(O, L, oi, li, O2, L2),
           NEW ref, NEW side, NEW qty, NEW seq,
           O2[oi] = HP!NewEntry(ref, side, qty, seq, L[li].tail, li),
           NEW P, Bared(P, O), NEW t, t = L[li].tail, NEW P2,
           P2 = HP!Put(Chained(P, t, oi), oi,
                       HP!Extended([id |-> ref, side |-> side, qty |-> qty],
                                   [prev |-> t, next |-> HP!Nil, level |-> li]))
    PROVE  Bared(P2, O2)
<1>1. PICK e : e = HP!Extended([id |-> ref, side |-> side, qty |-> qty],
                               [prev |-> t, next |-> HP!Nil, level |-> li])
  OBVIOUS
<1>2. e = Unstamped(O2[oi])
  BY <1>1, BareEntry
<1>3. /\ DOMAIN O \subseteq Nat /\ \A k \in DOMAIN O : O[k] \in HP!Entry
      /\ t = HP!Nil \/ t \in DOMAIN O
  <2>1. /\ DOMAIN O \subseteq Nat /\ \A k \in DOMAIN O : HP!EntryFits(O, L, ns, k)
        /\ HP!LevelFits(O, L, li)
    BY DEF HP!Queues
  <2>2. t = HP!Nil \/ t \in HP!OnLevel(O, li)
    BY <2>1 DEF HP!LevelFits, HP!EndsFit
  <2>. QED  BY <2>1, <2>2 DEF HP!EntryFits, HP!OnLevel
<1>4. DOMAIN P = DOMAIN O /\ \A k \in DOMAIN O : P[k] = Unstamped(O[k])
  BY DEF Bared
<1>5. oi \notin DOMAIN P /\ HP!Nil \notin DOMAIN P /\ (t = HP!Nil \/ t \in DOMAIN P)
  BY <1>3, <1>4 DEF HP!Nil
<1>6. P2 = HP!Put(Chained(P, t, oi), oi, e)
  BY <1>1
<1>7. /\ \A k : k \in DOMAIN P2 <=> k \in DOMAIN P \/ k = oi
      /\ P2[oi] = e
      /\ \A k \in DOMAIN P : P2[k] = Rechained(P[k], k, t, oi)
  BY ONLY <1>5, <1>6, LinkedOrders
<1>8. /\ DOMAIN O2 = DOMAIN O \cup {oi}
      /\ \A k \in DOMAIN O : O2[k] = Rechained(O[k], k, t, oi)
  BY DEF HP!Joins, Rechained
<1>9. ASSUME NEW k \in DOMAIN O PROVE P2[k] = Unstamped(O2[k])
  <2>1. PICK o \in HP!Entry : o = O[k]
    BY <1>3
  <2>2. [Unstamped(o) EXCEPT !.next = oi] = Unstamped([o EXCEPT !.next = oi])
    BY <2>1, BareRelinked
  <2>3. P2[k] = IF k = t THEN [Unstamped(o) EXCEPT !.next = oi] ELSE Unstamped(o)
    BY <1>4, <1>7, <2>1 DEF Rechained
  <2>4. O2[k] = IF k = t THEN [o EXCEPT !.next = oi] ELSE o
    BY <1>8, <2>1 DEF Rechained
  <2>. QED  BY <2>2, <2>3, <2>4
<1>. QED  BY <1>2, <1>4, <1>7, <1>8, <1>9 DEF Bared

(* What linking order q in at level li leaves of the rest of a hybrid book. *)
LinkedIn(g, b, li, q) ==
    /\ DOMAIN g = HP!Fields /\ g.size = b.size
    /\ g.freeOrders = HP!Seqs!Front(b.freeOrders) /\ g.freeLevels = b.freeLevels
    /\ g.levels = HP!LinkedLevels(b.levels, li, HP!Seqs!Last(b.freeOrders), q.qty)
    /\ HP!SameWindow(g, b) /\ HP!SameCounts(g, b)

LEMMA LinkKeeps ==
    ASSUME NEW b, DOMAIN b = HP!Fields, NEW li \in DOMAIN b.levels, NEW q,
           NEW g, g = HP!Link(b, li, q)
    PROVE  LinkedIn(g, b, li, q)
<1>1. /\ DOMAIN HP!Link(b, li, q) = HP!Fields /\ HP!Link(b, li, q).size = b.size
      /\ HP!Link(b, li, q).freeOrders = HP!Seqs!Front(b.freeOrders)
      /\ HP!Link(b, li, q).freeLevels = b.freeLevels
      /\ HP!Link(b, li, q).levels
            = HP!LinkedLevels(b.levels, li, HP!Seqs!Last(b.freeOrders), q.qty)
      /\ HP!SameWindow(HP!Link(b, li, q), b) /\ HP!SameCounts(HP!Link(b, li, q), b)
  BY HP!LinkParts
<1>. QED  BY <1>1 DEF LinkedIn

LEMMA TwinLinked ==
    ASSUME NEW i, NEW h, Twin(i, h), HP!Sound(h), NEW ref \in Refs, NEW side \in HP!Sides,
           NEW qty \in Nat \ {0}, NEW li \in DOMAIN h.levels,
           HP!Lookup(h, side, h.levels[li].price) = li, h.freeOrders # << >>
    PROVE  Twin(Intrusive!Link(i, li, [id |-> ref, side |-> side, qty |-> qty]),
                HP!Stamped(h, li, ref, side, qty))
<1>0. /\ DOMAIN i = IFields /\ i.size = h.size /\ i.levels = h.levels
      /\ i.freeOrders = h.freeOrders /\ i.freeLevels = h.freeLevels
      /\ i.ids = h.ids /\ i.rejected = h.rejected
      /\ Bared(i.orders, h.orders) /\ Indexed(i.index, h)
  BY DEF Twin
<1>1. /\ \A l \in DOMAIN h.levels : l \in Nat /\ l # HP!Nil /\ h.levels[l].price \in Nat
      /\ DOMAIN h = HP!Fields /\ HP!Marked(h) /\ HP!Found(h)
      /\ HP!Queues(h.orders, h.levels, h.nextSeq) /\ h.nextSeq \in Nat
      /\ h.levels[li] \in HP!LevelEntry
  BY LevelPrices DEF HP!Queues
<1>2. PICK oi : oi = HP!Seqs!Last(h.freeOrders)
  OBVIOUS
<1>3. oi \in Nat /\ oi \notin DOMAIN h.orders
  <2>1. /\ HP!Stacked(h.freeOrders, h.size.orders, DOMAIN h.orders) /\ h.size.orders \in Nat
    BY HybridConstants DEF HP!Sound, HP!PoolsFit, HP!HybridConstants
  <2>2. oi \in 0..(h.size.orders - 1) /\ oi \notin DOMAIN h.orders
    BY <1>2, <2>1, HP!StackGivesOut
  <2>. QED  BY <2>1, <2>2
<1>4. PICK ns : ns = h.nextSeq
  OBVIOUS
<1>5. PICK g : g = HP!Link(h, li, [id |-> ref, side |-> side, qty |-> qty, seq |-> ns])
  OBVIOUS
<1>6. PICK o : o = [id |-> ref, side |-> side, qty |-> qty]
  OBVIOUS
<1>7. PICK c : c = HP!Link(i, li, o)
  OBVIOUS
<1>8. PICK d : d = [g EXCEPT !.nextSeq = @ + 1]
  OBVIOUS
<1>9. /\ DOMAIN g = HP!Fields /\ g.size = h.size
      /\ g.freeOrders = HP!Seqs!Front(h.freeOrders) /\ g.freeLevels = h.freeLevels
      /\ g.levels = HP!LinkedLevels(h.levels, li, oi, qty)
      /\ HP!SameWindow(g, h) /\ HP!SameCounts(g, h)
  <2>1. PICK q : q = [id |-> ref, side |-> side, qty |-> qty, seq |-> ns]
    OBVIOUS
  <2>2. q.qty = qty
    BY <2>1
  <2>3. DOMAIN h = HP!Fields /\ g = HP!Link(h, li, q)
    BY <1>1, <1>5, <2>1
  <2>4. LinkedIn(g, h, li, q)
    BY <2>3, LinkKeeps
  <2>. QED  BY <1>2, <2>2, <2>4 DEF LinkedIn
<1>10. /\ HP!Joins(h.orders, h.levels, oi, li, g.orders, g.levels)
       /\ g.orders[oi] = HP!NewEntry(ref, side, qty, ns, h.levels[li].tail, li)
  <2>1. PICK last : last = HP!Seqs!Last(h.freeOrders)
    OBVIOUS
  <2>2. /\ DOMAIN h = HP!Fields /\ HP!Queues(h.orders, h.levels, ns) /\ ns \in Nat
        /\ HP!Seqs!Last(h.freeOrders) \in Nat /\ HP!Seqs!Last(h.freeOrders) \notin DOMAIN h.orders
    BY <1>1, <1>2, <1>3, <1>4
  <2>3. LET j == HP!Link(h, li, [id |-> ref, side |-> side, qty |-> qty, seq |-> ns]) IN
        /\ HP!Joins(h.orders, h.levels, HP!Seqs!Last(h.freeOrders), li, j.orders, j.levels)
        /\ j.orders[HP!Seqs!Last(h.freeOrders)]
             = HP!NewEntry(ref, side, qty, ns, h.levels[li].tail, li)
    BY ONLY <2>2, ref \in Refs, side \in HP!Sides, qty \in Nat \ {0}, li \in DOMAIN h.levels,
            HP!LinkJoins, SMTT(40)
  <2>. QED  BY <1>2, <1>5, <2>3
<1>11. /\ DOMAIN c = IFields /\ c.size = i.size
       /\ c.freeOrders = HP!Seqs!Front(i.freeOrders) /\ c.freeLevels = i.freeLevels
       /\ c.orders = HP!Put(Chained(i.orders, i.levels[li].tail, oi), oi,
                            HP!Extended(o, [prev |-> i.levels[li].tail, next |-> HP!Nil,
                                            level |-> li]))
       /\ c.levels = HP!LinkedLevels(i.levels, li, oi, o.qty)
       /\ c.index = i.index /\ c.ids = i.ids /\ c.rejected = i.rejected
  <2>1. li \in DOMAIN i.levels /\ oi = HP!Seqs!Last(i.freeOrders)
    BY <1>0, <1>2
  <2>. QED  BY <1>0, <1>7, <2>1, LinkFields
<1>12. Bared(c.orders, g.orders)
  <2>1. PICK t : t = h.levels[li].tail
    OBVIOUS
  <2>2. c.orders = HP!Put(Chained(i.orders, t, oi), oi,
                          HP!Extended([id |-> ref, side |-> side, qty |-> qty],
                                      [prev |-> t, next |-> HP!Nil, level |-> li]))
    BY <1>0, <1>6, <1>11, <2>1
  <2>3. PICK O : O = h.orders
    OBVIOUS
  <2>4. PICK L : L = h.levels
    OBVIOUS
  <2>5. PICK O2 : O2 = g.orders
    OBVIOUS
  <2>6. PICK L2 : L2 = g.levels
    OBVIOUS
  <2>7. PICK P : P = i.orders
    OBVIOUS
  <2>8. PICK P2 : P2 = c.orders
    OBVIOUS
  <2>9. /\ HP!Queues(O, L, ns) /\ oi \in Nat /\ oi \notin DOMAIN O /\ li \in DOMAIN L
        /\ HP!Joins(O, L, oi, li, O2, L2)
        /\ O2[oi] = HP!NewEntry(ref, side, qty, ns, L[li].tail, li)
        /\ Bared(P, O) /\ t = L[li].tail
    BY <1>0, <1>1, <1>3, <1>4, <1>10, <2>1, <2>3, <2>4, <2>5, <2>6, <2>7
  <2>10. P2 = HP!Put(Chained(P, t, oi), oi,
                     HP!Extended([id |-> ref, side |-> side, qty |-> qty],
                                 [prev |-> t, next |-> HP!Nil, level |-> li]))
    BY <2>2, <2>7, <2>8
  <2>11. Bared(P2, O2)
    BY ONLY <2>9, <2>10, BareLink
  <2>. QED  BY <2>5, <2>8, <2>11
<1>13. /\ d.size = g.size /\ d.orders = g.orders /\ d.levels = g.levels
       /\ d.freeOrders = g.freeOrders /\ d.freeLevels = g.freeLevels
       /\ d.ids = g.ids /\ d.rejected = g.rejected /\ HP!SameWindow(d, g)
  BY <1>8, <1>9, HP!StampMoves
<1>14. /\ DOMAIN d.levels = DOMAIN h.levels
       /\ \A l \in DOMAIN h.levels : d.levels[l].price = h.levels[l].price
  <2>1. /\ DOMAIN g.levels = DOMAIN h.levels /\ g.levels[li] = HP!WithTail(h.levels[li], oi, qty)
        /\ \A l \in DOMAIN h.levels \ {li} : g.levels[l] = h.levels[l]
    <3>1. PICK L : L = h.levels
      OBVIOUS
    <3>. QED  BY <1>1, <1>9, <3>1, HP!LinkLevel
  <2>2. HP!WithTail(h.levels[li], oi, qty).price = h.levels[li].price
    BY DEF HP!WithTail
  <2>. QED  BY <1>13, <2>1, <2>2
<1>15. Indexed(c.index, d)
  <2>1. HP!SameWindow(d, h)
    BY <1>9, <1>13 DEF HP!SameWindow
  <2>2. \A s, p : HP!Lookup(d, s, p) = HP!Lookup(h, s, p)
    BY <2>1, HP!SameLookup
  <2>3. Indexed(i.index, d)
    BY <1>0, <1>1, <1>14, <2>2, IndexedKept
  <2>. QED  BY <1>11, <2>3
<1>16. o.qty = qty
  BY <1>6
<1>17. Twin(c, d)
  BY <1>0, <1>9, <1>11, <1>12, <1>13, <1>15, <1>16 DEF Twin, HP!SameCounts
<1>18. c = Intrusive!Link(i, li, o)
  BY <1>7, PoolOps
<1>19. d = HP!Stamped(h, li, ref, side, qty)
  BY <1>4, <1>5, <1>8 DEF HP!Stamped
<1>. QED  BY <1>6, <1>17, <1>18, <1>19

SamePool(c, b) == /\ c.size = b.size /\ c.orders = b.orders /\ c.levels = b.levels
                  /\ c.freeOrders = b.freeOrders /\ c.freeLevels = b.freeLevels

LEMMA TwinKept ==
    ASSUME NEW i, NEW h, Twin(i, h), NEW c, DOMAIN c = IFields, SamePool(c, i), c.index = i.index,
           NEW g, SamePool(g, h), \A s, p : HP!Lookup(g, s, p) = HP!Lookup(h, s, p),
           c.ids = g.ids, c.rejected = g.rejected
    PROVE  Twin(c, g)
<1>1. Indexed(c.index, g)
  <2>1. g.levels = h.levels
    BY DEF SamePool
  <2>2. \A s : OnSide(g, s) = OnSide(h, s)
    BY <2>1 DEF OnSide
  <2>. QED  BY <2>1, <2>2 DEF Twin, Indexed
<1>. QED  BY <1>1 DEF Twin, SamePool

LEMMA TwinAdd ==
    ASSUME NEW i, NEW h, Twin(i, h), HP!BookInv(h), NEW ref \in Refs, NEW side \in HP!Sides,
           NEW px \in Nat \ {0}, NEW qty \in Nat
    PROVE  Twin(Intrusive!Add(i, ref, side, px, qty), HP!Add(h, ref, side, px, qty))
<1> DEFINE Full == h.freeOrders = << >>
                   \/ (HP!Lookup(h, side, px) = HP!Nil /\ h.freeLevels = << >>)
<1>0. /\ HP!Sound(h) /\ DOMAIN h = HP!Fields
      /\ DOMAIN i = IFields /\ i.size = h.size /\ i.levels = h.levels
      /\ i.freeOrders = h.freeOrders /\ i.freeLevels = h.freeLevels
      /\ i.ids = h.ids /\ i.rejected = h.rejected
  BY DEF HP!BookInv, HP!Sound, Twin
<1>1. Intrusive!HasLevel(i, side, px) <=> HP!Lookup(h, side, px) # HP!Nil
  BY <1>0, LevelPrices, TwinHas
<1>2. CASE qty = 0
  BY <1>2 DEF Intrusive!Add, HP!Add
<1>3. CASE qty # 0 /\ Full
  <2>1. PICK c : c = [i EXCEPT !.rejected = @ + 1]
    OBVIOUS
  <2>2. PICK g : g = [h EXCEPT !.rejected = @ + 1]
    OBVIOUS
  <2>3. Intrusive!Add(i, ref, side, px, qty) = c
    BY <1>0, <1>1, <1>3, <2>1 DEF Intrusive!Add
  <2>4. HP!Add(h, ref, side, px, qty) = g
    BY <1>3, <2>2 DEF HP!Add
  <2>5. /\ DOMAIN c = IFields /\ c.size = i.size /\ c.orders = i.orders /\ c.levels = i.levels
        /\ c.freeOrders = i.freeOrders /\ c.freeLevels = i.freeLevels
        /\ c.ids = i.ids /\ c.rejected = i.rejected + 1 /\ c.index = i.index
    BY <1>0, <2>1, IRejects
  <2>6. /\ g.size = h.size /\ g.orders = h.orders /\ g.levels = h.levels
        /\ g.freeOrders = h.freeOrders /\ g.freeLevels = h.freeLevels
        /\ g.ids = h.ids /\ g.rejected = h.rejected + 1 /\ HP!SameWindow(g, h)
    BY <1>0, <2>2, HP!RejectionCounts
  <2>7. \A s, p : HP!Lookup(g, s, p) = HP!Lookup(h, s, p)
    BY <2>6, HP!SameLookup
  <2>8. SamePool(c, i) /\ SamePool(g, h) /\ c.ids = g.ids /\ c.rejected = g.rejected
    BY <1>0, <2>5, <2>6 DEF SamePool
  <2>9. Twin(c, g)
    BY <2>5, <2>7, <2>8, TwinKept
  <2>. QED  BY <2>3, <2>4, <2>9
<1>4. CASE qty # 0 /\ ~Full
  <2>1. PICK ir : ir = Intrusive!WithLevel(i, side, px)
    OBVIOUS
  <2>2. PICK hr : hr = HP!WithLevel(h, side, px)
    OBVIOUS
  <2>3. Twin(ir, hr)
    BY <1>0, <1>4, <2>1, <2>2, TwinOpened
  <2>4. PICK li : li = HP!Lookup(hr, side, px)
    OBVIOUS
  <2>5. /\ HP!Sound(hr) /\ li \in DOMAIN hr.levels /\ hr.levels[li].price = px
        /\ hr.freeOrders = h.freeOrders /\ hr.size = h.size /\ HP!SameCounts(hr, h)
    BY <1>0, <1>4, <2>2, <2>4, HybridConstants, HP!Readied
  <2>6. li # HP!Nil
    BY <2>5, LevelPrices
  <2>7. ir.index[side][Intrusive!Position(ir, side, px)] = li
    <3>1. HP!Found(hr) /\ \A l \in DOMAIN hr.levels : l # HP!Nil
      BY <2>5, LevelPrices
    <3>. QED  BY <2>3, <2>4, <2>6, <3>1, TwinHas
  <2>8. PICK o : o = [id |-> ref, side |-> side, qty |-> qty]
    OBVIOUS
  <2>9. PICK c : c = Intrusive!Link(ir, li, o)
    OBVIOUS
  <2>10. PICK g : g = HP!Stamped(hr, li, ref, side, qty)
    OBVIOUS
  <2>11. Twin(c, g)
    BY <1>4, <2>3, <2>4, <2>5, <2>8, <2>9, <2>10, TwinLinked
  <2>12. DOMAIN g = HP!Fields /\ HP!Sound(g) /\ g.ids = h.ids
    <3>1. HP!Lookup(hr, side, hr.levels[li].price) = li /\ hr.freeOrders # << >>
      BY <1>4, <2>4, <2>5
    <3>2. HP!Sound(g) /\ g.ids = hr.ids
      BY <1>4, <2>5, <2>10, <3>1, HybridConstants, HP!Linked
    <3>. QED  BY <2>5, <3>2 DEF HP!Sound, HP!SameCounts
  <2>13. PICK oi : oi = HP!Seqs!Last(h.freeOrders)
    OBVIOUS
  <2>14. PICK m : m = HP!Put(h.ids, ref, oi)
    OBVIOUS
  <2>15. Intrusive!Cardinality(DOMAIN h.ids) = HP!Cardinality(DOMAIN h.ids)
    BY Zenon DEF Intrusive!Cardinality, HP!Cardinality, Intrusive!IsFiniteSet, HP!IsFiniteSet
  <2>16. DOMAIN c = IFields /\ c.ids = h.ids /\ c.rejected = g.rejected
    BY <2>11, <2>12 DEF Twin
  <2>17. Intrusive!Add(i, ref, side, px, qty) =
           IF HP!TableFull(h) THEN [c EXCEPT !.rejected = @ + 1] ELSE [c EXCEPT !.ids = m]
    <3>1. Intrusive!Put(c.ids, ref, Intrusive!Seqs!Last(i.freeOrders)) = m
      BY <1>0, <2>13, <2>14, <2>16, PoolOps
    <3>2. Intrusive!Add(i, ref, side, px, qty) =
            IF Intrusive!Cardinality(DOMAIN i.ids) + 1 > (i.size.orders * 7) \div 10
            THEN [c EXCEPT !.rejected = @ + 1]
            ELSE [c EXCEPT !.ids = Intrusive!Put(@, ref, Intrusive!Seqs!Last(i.freeOrders))]
      BY <1>0, <1>1, <1>4, <2>1, <2>7, <2>8, <2>9 DEF Intrusive!Add
    <3>3. [c EXCEPT !.ids = Intrusive!Put(@, ref, Intrusive!Seqs!Last(i.freeOrders))]
            = [c EXCEPT !.ids = m]
      BY <3>1
    <3>4. HP!TableFull(h) <=> Intrusive!Cardinality(DOMAIN i.ids) + 1 > (i.size.orders * 7) \div 10
      BY <1>0, <2>15 DEF HP!TableFull
    <3>. QED  BY <3>2, <3>3, <3>4
  <2>18. HP!Add(h, ref, side, px, qty) =
           IF HP!TableFull(h) THEN [g EXCEPT !.rejected = @ + 1] ELSE [g EXCEPT !.ids = m]
    <3>1. HP!Put(g.ids, ref, HP!Seqs!Last(h.freeOrders)) = m
      BY <2>12, <2>13, <2>14
    <3>2. g = [HP!Link(hr, li, [id |-> ref, side |-> side, qty |-> qty, seq |-> h.nextSeq])
               EXCEPT !.nextSeq = @ + 1]
      BY <2>5, <2>10 DEF HP!Stamped, HP!SameCounts
    <3>3. HP!Add(h, ref, side, px, qty) =
            IF HP!TableFull(h) THEN [g EXCEPT !.rejected = @ + 1]
            ELSE [g EXCEPT !.ids = HP!Put(@, ref, HP!Seqs!Last(h.freeOrders))]
      BY <1>4, <2>2, <2>4, <3>2 DEF HP!Add, HP!TableFull
    <3>4. [g EXCEPT !.ids = HP!Put(@, ref, HP!Seqs!Last(h.freeOrders))] = [g EXCEPT !.ids = m]
      BY <3>1
    <3>. QED  BY <3>3, <3>4
  <2>19. CASE HP!TableFull(h)
    <3>1. PICK x : x = [c EXCEPT !.rejected = @ + 1]
      OBVIOUS
    <3>2. PICK y : y = [g EXCEPT !.rejected = @ + 1]
      OBVIOUS
    <3>3. /\ DOMAIN x = IFields /\ SamePool(x, c) /\ x.index = c.index
          /\ x.ids = c.ids /\ x.rejected = c.rejected + 1
      BY <2>16, <3>1, IRejects DEF SamePool
    <3>4. /\ SamePool(y, g) /\ y.ids = g.ids /\ y.rejected = g.rejected + 1
          /\ HP!SameWindow(y, g)
      BY <2>12, <3>2, HP!RejectionCounts DEF SamePool
    <3>5. \A s, p : HP!Lookup(y, s, p) = HP!Lookup(g, s, p)
      BY <3>4, HP!SameLookup
    <3>6. x.ids = y.ids /\ x.rejected = y.rejected
      BY <2>12, <2>16, <3>3, <3>4
    <3>7. Twin(x, y)
      BY <2>11, <3>3, <3>4, <3>5, <3>6, TwinKept
    <3>. QED  BY <2>17, <2>18, <2>19, <3>1, <3>2, <3>7
  <2>20. CASE ~HP!TableFull(h)
    <3>1. PICK x : x = [c EXCEPT !.ids = m]
      OBVIOUS
    <3>2. PICK y : y = [g EXCEPT !.ids = m]
      OBVIOUS
    <3>3. /\ DOMAIN x = IFields /\ SamePool(x, c) /\ x.index = c.index
          /\ x.ids = m /\ x.rejected = c.rejected
      BY <2>16, <3>1, IIdsChange DEF SamePool
    <3>4. /\ SamePool(y, g) /\ y.ids = m /\ y.rejected = g.rejected
          /\ HP!SameWindow(y, g)
      BY <2>12, <3>2, HP!IdsChange DEF SamePool
    <3>5. \A s, p : HP!Lookup(y, s, p) = HP!Lookup(g, s, p)
      BY <3>4, HP!SameLookup
    <3>6. x.ids = y.ids /\ x.rejected = y.rejected
      BY <2>16, <3>3, <3>4
    <3>7. Twin(x, y)
      BY <2>11, <3>3, <3>4, <3>5, <3>6, TwinKept
    <3>. QED  BY <2>17, <2>18, <2>20, <3>1, <3>2, <3>7
  <2>. QED  BY <2>19, <2>20
<1>. QED  BY <1>2, <1>3, <1>4

-----------------------------------------------------------------------------
(* Taking an order out of its level, in both books. *)
LEMMA BareLeave ==
    ASSUME NEW O, NEW L, NEW oi \in DOMAIN O, NEW O2, NEW L2, HP!Leaves(O, L, oi, O2, L2),
           \A k \in DOMAIN O : O[k] \in HP!Entry, NEW P, Bared(P, O), NEW P2,
           P2 = ClosedUp(P, oi)
    PROVE  Bared(P2, O2)
<1>1. DOMAIN P = DOMAIN O /\ \A k \in DOMAIN O : P[k] = Unstamped(O[k])
  BY DEF Bared
<1>2. P[oi].next = O[oi].next /\ P[oi].prev = O[oi].prev
  BY <1>1, UnstampedIs
<1>3. DOMAIN O2 = DOMAIN O \ {oi} /\ DOMAIN P2 = DOMAIN O \ {oi}
  BY <1>1 DEF HP!Leaves, ClosedUp
<1>4. ASSUME NEW k \in DOMAIN O \ {oi} PROVE P2[k] = Unstamped(O2[k])
  <2>1. PICK o \in HP!Entry : o = O[k]
    OBVIOUS
  <2>2. PICK n : n = IF k = O[oi].prev THEN O[oi].next ELSE o.next
    OBVIOUS
  <2>3. PICK p : p = IF k = O[oi].next THEN O[oi].prev ELSE o.prev
    OBVIOUS
  <2>4. O2[k] = Closing(o, n, p)
    <3>1. O2[k] = [O[k] EXCEPT !.next = IF k = O[oi].prev THEN O[oi].next ELSE @,
                               !.prev = IF k = O[oi].next THEN O[oi].prev ELSE @]
      BY DEF HP!Leaves
    <3>. QED  BY <2>1, <2>2, <2>3, <3>1 DEF HP!Entry, Closing
  <2>5. P2[k] = Closing(Unstamped(o), n, p)
    <3>1. P2[k] = [Unstamped(o) EXCEPT !.next = IF k = O[oi].prev THEN O[oi].next ELSE @,
                                       !.prev = IF k = O[oi].next THEN O[oi].prev ELSE @]
      BY <1>1, <1>2, <2>1 DEF ClosedUp
    <3>2. Unstamped(o).next = o.next /\ Unstamped(o).prev = o.prev
      BY UnstampedIs
    <3>. QED  BY <2>2, <2>3, <3>1, <3>2 DEF Unstamped, Closing
  <2>6. Closing(Unstamped(o), n, p) = Unstamped(Closing(o, n, p))
    BY <2>1, BareClosed
  <2>. QED  BY <2>4, <2>5, <2>6
<1>. QED  BY <1>3, <1>4 DEF Bared

LEMMA LevelsUnlinked ==
    ASSUME NEW L, NEW o
    PROVE  HP!UnlinkedLevels(L, Unstamped(o)) = HP!UnlinkedLevels(L, o)
<1>1. PICK u : u = Unstamped(o)
  OBVIOUS
<1>2. u.qty = o.qty /\ u.prev = o.prev /\ u.next = o.next /\ u.level = o.level
  BY <1>1, UnstampedIs
<1>3. HP!UnlinkedLevels(L, u) = HP!UnlinkedLevels(L, o)
  BY <1>2 DEF HP!UnlinkedLevels
<1>. QED  BY <1>1, <1>3

(* An order off its list, its entry not yet handed back. *)
LEMMA TwinUnlinked ==
    ASSUME NEW i, NEW h, Twin(i, h), HP!Sound(h), NEW oi \in DOMAIN h.orders
    PROVE  LET c == HP!Unlink(i, oi)
               g == HP!Unlink(h, oi) IN
           /\ Twin(c, g) /\ DOMAIN g = HP!Fields /\ HP!Found(g) /\ HP!Marked(g)
           /\ g.levels[h.orders[oi].level].price \in Nat \ {0}
           /\ DOMAIN g.levels = DOMAIN h.levels /\ h.orders[oi].level \in DOMAIN h.levels
           /\ h.orders[oi].side \in HP!Sides
           /\ HP!Lookup(g, h.orders[oi].side, g.levels[h.orders[oi].level].price)
                = h.orders[oi].level
<1>0. /\ DOMAIN i = IFields /\ i.size = h.size /\ i.levels = h.levels
      /\ i.freeOrders = h.freeOrders /\ i.freeLevels = h.freeLevels
      /\ i.ids = h.ids /\ i.rejected = h.rejected
      /\ Bared(i.orders, h.orders) /\ Indexed(i.index, h)
  BY DEF Twin
<1>1. /\ \A l \in DOMAIN h.levels : l \in Nat /\ l # HP!Nil /\ h.levels[l].price \in Nat \ {0}
      /\ DOMAIN h = HP!Fields /\ HP!Marked(h) /\ HP!Found(h)
      /\ HP!Queues(h.orders, h.levels, h.nextSeq)
      /\ \A l \in DOMAIN h.levels : h.levels[l] \in HP!LevelEntry
      /\ \A k \in DOMAIN h.orders : h.orders[k] \in HP!Entry /\ h.orders[k].level \in DOMAIN h.levels
  BY LevelPrices
<1>2. PICK c : c = HP!Unlink(i, oi)
  OBVIOUS
<1>3. PICK g : g = HP!Unlink(h, oi)
  OBVIOUS
<1>4. PICK o : o = h.orders[oi]
  OBVIOUS
<1>5. DOMAIN i.orders = DOMAIN h.orders /\ i.orders[oi] = Unstamped(o)
  BY <1>0, <1>4 DEF Bared
<1>6. /\ DOMAIN c = IFields /\ c.size = i.size
      /\ c.freeOrders = i.freeOrders /\ c.freeLevels = i.freeLevels
      /\ c.orders = ClosedUp(i.orders, oi)
      /\ c.levels = HP!UnlinkedLevels(i.levels, i.orders[oi])
      /\ c.index = i.index /\ c.ids = i.ids /\ c.rejected = i.rejected
  BY <1>0, <1>2, <1>5, UnlinkFields
<1>7. /\ DOMAIN g = HP!Fields /\ g.size = h.size
      /\ g.freeOrders = h.freeOrders /\ g.freeLevels = h.freeLevels
      /\ g.levels = HP!UnlinkedLevels(h.levels, o)
      /\ HP!SameWindow(g, h) /\ HP!SameCounts(g, h)
  BY <1>1, <1>3, <1>4, HP!UnlinkParts
<1>8. HP!Leaves(h.orders, h.levels, oi, g.orders, g.levels)
  BY <1>1, <1>3, HP!UnlinkLeaves
<1>9. Bared(c.orders, g.orders)
  <2>1. PICK P : P = i.orders
    OBVIOUS
  <2>2. PICK P2 : P2 = c.orders
    OBVIOUS
  <2>3. PICK O : O = h.orders
    OBVIOUS
  <2>4. PICK O2 : O2 = g.orders
    OBVIOUS
  <2>5. HP!Leaves(O, h.levels, oi, O2, g.levels) /\ Bared(P, O)
        /\ oi \in DOMAIN O /\ \A k \in DOMAIN O : O[k] \in HP!Entry
    BY <1>0, <1>1, <1>8, <2>1, <2>3, <2>4
  <2>6. P2 = ClosedUp(P, oi)
    BY <1>6, <2>1, <2>2
  <2>7. Bared(P2, O2)
    BY <2>5, <2>6, BareLeave
  <2>. QED  BY <2>2, <2>4, <2>7
<1>10. c.levels = g.levels
  BY <1>0, <1>5, <1>6, <1>7, LevelsUnlinked
<1>11. /\ DOMAIN g.levels = DOMAIN h.levels
       /\ \A l \in DOMAIN h.levels : g.levels[l].price = h.levels[l].price
  <2>1. o.level \in DOMAIN h.levels /\ h.levels[o.level] \in HP!LevelEntry
    BY <1>1, <1>4
  <2>2. /\ DOMAIN g.levels = DOMAIN h.levels /\ g.levels[o.level] = HP!ClosedOver(h.levels[o.level], o)
        /\ \A l \in DOMAIN h.levels \ {o.level} : g.levels[l] = h.levels[l]
    <3>1. PICK L : L = h.levels
      OBVIOUS
    <3>. QED  BY <1>7, <2>1, <3>1, HP!UnlinkLevel
  <2>3. HP!ClosedOver(h.levels[o.level], o).price = h.levels[o.level].price
    BY DEF HP!ClosedOver
  <2>. QED  BY <2>2, <2>3
<1>12. \A s, p : HP!Lookup(g, s, p) = HP!Lookup(h, s, p)
  BY <1>7, HP!SameLookup
<1>13. HP!Marked(g)
  BY <1>1, <1>7, HP!SameLookup
<1>14. Indexed(c.index, g)
  <2>1. \A l \in DOMAIN h.levels : g.levels[l].price = h.levels[l].price
                                     /\ h.levels[l].price \in Nat
    BY <1>1, <1>11
  <2>2. Indexed(i.index, g)
    BY <1>0, <1>11, <1>12, <2>1, IndexedKept
  <2>. QED  BY <1>6, <2>2
<1>15. Twin(c, g)
  BY <1>0, <1>6, <1>7, <1>9, <1>10, <1>14 DEF Twin, HP!SameCounts
<1>16. /\ DOMAIN g.orders = DOMAIN h.orders \ {oi}
       /\ \A k \in DOMAIN h.orders \ {oi} : HP!SameOrder(g.orders[k], h.orders[k])
  <2>1. PICK ns : ns = h.nextSeq
    OBVIOUS
  <2>2. \A k \in DOMAIN h.orders \ {oi} : HP!SameOrder(g.orders[k], h.orders[k])
    BY <1>1, <1>8, <2>1, HP!LeaveQueues
  <2>3. DOMAIN g.orders = DOMAIN h.orders \ {oi}
    BY <1>8 DEF HP!Leaves
  <2>. QED  BY <2>2, <2>3
<1>17. HP!Found(g)
  <2>1. \A k \in DOMAIN g.orders :
           /\ g.orders[k].side \in HP!Sides /\ g.orders[k].level \in DOMAIN h.levels
           /\ HP!Lookup(h, g.orders[k].side, h.levels[g.orders[k].level].price) = g.orders[k].level
    <3>1. \A k \in DOMAIN h.orders : h.orders[k].side \in HP!Sides
      BY <1>1 DEF HP!Entry
    <3>. QED  BY <1>1, <1>16, <3>1 DEF HP!SameOrder, HP!Found
  <2>2. /\ \A s \in HP!Sides, p \in Nat : HP!Lookup(g, s, p) = HP!Lookup(h, s, p)
        /\ \A l \in DOMAIN h.levels : g.levels[l].price = h.levels[l].price /\ h.levels[l].price \in Nat
    BY <1>1, <1>11, <1>12
  <2>. QED  BY <1>1, <1>11, <2>1, <2>2, HP!FoundKept
<1>18. /\ o.side \in HP!Sides /\ o.level \in DOMAIN h.levels
       /\ HP!Lookup(h, o.side, h.levels[o.level].price) = o.level
  BY <1>1, <1>4 DEF HP!Entry, HP!Found
<1>19. g.levels[o.level].price = h.levels[o.level].price /\ h.levels[o.level].price \in Nat \ {0}
  BY <1>1, <1>11, <1>18
<1>. QED  BY <1>2, <1>3, <1>4, <1>7, <1>11, <1>12, <1>13, <1>15, <1>17, <1>18, <1>19

(* A level that is dropped is lost to its side and to no other. *)
LEMMA SideLoses ==
    ASSUME NEW h, HP!Found(h), NEW s \in HP!Sides, NEW li \in DOMAIN h.levels, NEW px,
           px = h.levels[li].price, HP!Lookup(h, s, px) = li,
           \A l \in DOMAIN h.levels : l # HP!Nil /\ h.levels[l].price \in Nat,
           NEW g, DOMAIN g.levels = DOMAIN h.levels \ {li},
           \A l \in DOMAIN h.levels \ {li} : g.levels[l] = h.levels[l],
           HP!Places(g, h, s, px, HP!Nil)
    PROVE  /\ OnSide(g, s) = OnSide(h, s) \ {li} /\ li \in OnSide(h, s)
           /\ \A u \in HP!Sides \ {s} : OnSide(g, u) = OnSide(h, u)
<1>1. \A u \in HP!Sides, p \in Nat :
         HP!Lookup(g, u, p) = IF u = s /\ p = px THEN HP!Nil ELSE HP!Lookup(h, u, p)
  BY DEF HP!Places
<1>2. li \in OnSide(h, s)
  BY DEF OnSide
<1>3. ASSUME NEW u \in HP!Sides, NEW l \in DOMAIN h.levels \ {li}
      PROVE  l \in OnSide(g, u) <=> l \in OnSide(h, u)
  <2>1. HP!Lookup(g, u, h.levels[l].price)
          = IF u = s /\ h.levels[l].price = px THEN HP!Nil ELSE HP!Lookup(h, u, h.levels[l].price)
    BY <1>1
  <2>2. l # li /\ l # HP!Nil /\ g.levels[l] = h.levels[l]
    OBVIOUS
  <2>. QED  BY <2>1, <2>2 DEF OnSide
<1>4. ASSUME NEW u \in HP!Sides \ {s} PROVE li \notin OnSide(h, u)
  BY DEF HP!Found, OnSide
<1>5. \A u : OnSide(g, u) \subseteq DOMAIN h.levels \ {li} /\ OnSide(h, u) \subseteq DOMAIN h.levels
  BY DEF OnSide
<1>6. OnSide(g, s) = OnSide(h, s) \ {li}
  <2>1. \A l \in DOMAIN h.levels \ {li} : l \in OnSide(g, s) <=> l \in OnSide(h, s)
    BY <1>3
  <2>. QED  BY <1>5, <2>1
<1>7. ASSUME NEW u \in HP!Sides \ {s} PROVE OnSide(g, u) = OnSide(h, u)
  <2>1. \A l \in DOMAIN h.levels \ {li} : l \in OnSide(g, u) <=> l \in OnSide(h, u)
    BY <1>3
  <2>2. li \notin OnSide(h, u)
    BY <1>4
  <2>. QED  BY <1>5, <2>1, <2>2
<1>. QED  BY <1>2, <1>6, <1>7

(* drop_level: the bisection finds the level it is asked to drop. *)
LEMMA TwinDropped ==
    ASSUME NEW i, NEW h, Twin(i, h), HP!Found(h), HP!Marked(h), DOMAIN h = HP!Fields,
           \A l \in DOMAIN h.levels : l # HP!Nil /\ h.levels[l].price \in Nat,
           NEW s \in HP!Sides, NEW li \in DOMAIN h.levels, h.levels[li].price \in Nat \ {0},
           HP!Lookup(h, s, h.levels[li].price) = li
    PROVE  Twin(Intrusive!DropLevel(i, s, li), HP!DropLevel(h, s, li))
<1>0. /\ DOMAIN i = IFields /\ i.size = h.size /\ i.levels = h.levels
      /\ i.freeOrders = h.freeOrders /\ i.freeLevels = h.freeLevels
      /\ i.ids = h.ids /\ i.rejected = h.rejected
      /\ Bared(i.orders, h.orders) /\ Indexed(i.index, h)
  BY DEF Twin
<1>1. PICK px \in Nat \ {0} : px = h.levels[li].price
  OBVIOUS
<1>2. PICK pos : pos = Intrusive!Position(i, s, px)
  OBVIOUS
<1>3. PICK v : v = i.index[s]
  OBVIOUS
<1>4. HP!Lookup(h, s, px) = li /\ li # HP!Nil
  BY <1>1
<1>5. pos \in 1..Len(v) /\ v[pos] = li
  BY <1>1, <1>2, <1>3, <1>4, TwinHas
<1>6. PICK r : r = HP!ReturnLevel(i, li)
  OBVIOUS
<1>7. PICK w : w = Intrusive!Seqs!RemoveAt(r.index[s], pos)
  OBVIOUS
<1>8. PICK c : c = [r EXCEPT !.index[s] = w]
  OBVIOUS
<1>9. Lists(v, h.levels, s, OnSide(h, s)) /\ v \in Seq(Nat)
  BY <1>0, <1>3 DEF Indexed, Lists
<1>10. Intrusive!DropLevel(i, s, li) = c
  <2>1. Intrusive!ReturnLevel(i, li) = r
    BY <1>6, PoolOps
  <2>2. Intrusive!DropLevel(i, s, li) = [r EXCEPT !.index[s] = Intrusive!Seqs!RemoveAt(@, pos)]
    BY <1>0, <1>1, <1>2, <1>3, <1>5, <1>9, <2>1 DEF Intrusive!DropLevel
  <2>. QED  BY <1>7, <1>8, <2>2
<1>11. /\ DOMAIN r = IFields /\ r.size = i.size /\ r.orders = i.orders /\ r.freeOrders = i.freeOrders
       /\ r.levels = HP!Without(i.levels, li) /\ r.freeLevels = Append(i.freeLevels, li)
       /\ r.index = i.index /\ r.ids = i.ids /\ r.rejected = i.rejected
  BY <1>0, <1>6, ReturnLevelFields
<1>12. /\ DOMAIN c = IFields /\ c.size = r.size /\ c.orders = r.orders /\ c.levels = r.levels
       /\ c.freeOrders = r.freeOrders /\ c.freeLevels = r.freeLevels
       /\ c.ids = r.ids /\ c.rejected = r.rejected
       /\ c.index = [r.index EXCEPT ![s] = w]
  BY <1>8, <1>11, IndexMoves
<1>13. PICK g : g = HP!DropLevel(h, s, li)
  OBVIOUS
<1>14. /\ DOMAIN g = HP!Fields /\ g.size = h.size
       /\ g.orders = h.orders /\ g.freeOrders = h.freeOrders
       /\ g.levels = HP!Without(h.levels, li)
       /\ g.freeLevels = Append(h.freeLevels, li)
       /\ HP!SameCounts(g, h) /\ HP!Marked(g) /\ HP!Places(g, h, s, px, HP!Nil)
  <2>1. HP!Window!WindowConstants
    BY HybridConstants DEF HP!HybridConstants
  <2>. QED  BY <1>1, <1>13, <2>1, HP!DropLevelParts
<1>15. /\ DOMAIN g.levels = DOMAIN h.levels \ {li}
       /\ \A l \in DOMAIN h.levels \ {li} : g.levels[l] = h.levels[l]
  BY <1>14 DEF HP!Without
<1>16. /\ OnSide(g, s) = OnSide(h, s) \ {li}
       /\ \A u \in HP!Sides \ {s} : OnSide(g, u) = OnSide(h, u)
  BY <1>1, <1>4, <1>14, <1>15, SideLoses
<1>17. w = Deleted(v, pos)
  BY <1>3, <1>5, <1>7, <1>9, <1>11, DeleteIs
<1>18. Lists(w, g.levels, s, OnSide(g, s))
  <2>1. PICK L : L = h.levels
    OBVIOUS
  <2>2. PICK L2 : L2 = g.levels
    OBVIOUS
  <2>3. PICK S : S = OnSide(h, s)
    OBVIOUS
  <2>4. \A x \in S \ {v[pos]} : L2[x].price = L[x].price
    <3>1. S \subseteq DOMAIN h.levels
      BY <2>3 DEF OnSide
    <3>. QED  BY <1>5, <1>15, <2>1, <2>2, <3>1
  <2>5. Lists(v, L, s, S)
    BY <1>9, <2>1, <2>3
  <2>6. Lists(w, L2, s, S \ {v[pos]})
    BY ONLY <1>5, <1>17, <2>4, <2>5, ListsDelete
  <2>. QED  BY <1>5, <1>16, <2>2, <2>3, <2>6
<1>19. Indexed(c.index, g)
  <2>1. DOMAIN c.index = HP!Sides /\ c.index[s] = w
        /\ \A u \in HP!Sides \ {s} : c.index[u] = i.index[u]
    BY <1>0, <1>11, <1>12 DEF Indexed
  <2>2. ASSUME NEW u \in HP!Sides \ {s} PROVE Lists(i.index[u], g.levels, u, OnSide(g, u))
    <3>1. Lists(i.index[u], h.levels, u, OnSide(h, u))
      BY <1>0 DEF Indexed
    <3>2. OnSide(g, u) = OnSide(h, u) /\ OnSide(g, u) \subseteq DOMAIN g.levels
      BY <1>16 DEF OnSide
    <3>3. \A x \in OnSide(h, u) : g.levels[x].price = h.levels[x].price
      BY <1>15, <3>2
    <3>4. Lists(i.index[u], g.levels, u, OnSide(h, u))
      BY <3>1, <3>3, ListsKept
    <3>. QED  BY <3>2, <3>4
  <2>. QED  BY <1>18, <2>1, <2>2 DEF Indexed
<1>20. Twin(c, g)
  BY <1>0, <1>11, <1>12, <1>14, <1>19 DEF Twin, HP!SameCounts
<1>. QED  BY <1>10, <1>13, <1>20

LEMMA TwinRemove ==
    ASSUME NEW i, NEW h, Twin(i, h), HP!BookInv(h), NEW ref
    PROVE  Twin(Intrusive!Remove(i, ref), HP!Remove(h, ref))
<1>0. /\ HP!Sound(h) /\ HP!IdsFit(h) /\ DOMAIN h = HP!Fields
      /\ DOMAIN i = IFields /\ i.ids = h.ids /\ Bared(i.orders, h.orders)
  BY DEF HP!BookInv, HP!Sound, Twin
<1>1. CASE ref \notin DOMAIN h.ids
  BY <1>0, <1>1 DEF Intrusive!Remove, HP!Remove
<1>2. CASE ref \in DOMAIN h.ids
  <2>1. PICK oi \in DOMAIN h.orders : oi = h.ids[ref]
    BY <1>0, <1>2 DEF HP!IdsFit
  <2>2. PICK o : o = h.orders[oi]
    OBVIOUS
  <2>3. i.orders[oi].level = o.level /\ i.orders[oi].side = o.side
    <3>1. i.orders[oi] = Unstamped(o)
      BY <1>0, <2>2 DEF Bared
    <3>. QED  BY <3>1, UnstampedIs
  <2>4. PICK c : c = HP!Unlink(i, oi)
    OBVIOUS
  <2>5. PICK g : g = HP!Unlink(h, oi)
    OBVIOUS
  <2>6. /\ Twin(c, g) /\ DOMAIN g = HP!Fields /\ HP!Found(g) /\ HP!Marked(g)
        /\ g.levels[o.level].price \in Nat \ {0}
        /\ DOMAIN g.levels = DOMAIN h.levels /\ o.level \in DOMAIN h.levels
        /\ o.side \in HP!Sides
        /\ HP!Lookup(g, o.side, g.levels[o.level].price) = o.level
    BY <1>0, <2>2, <2>4, <2>5, TwinUnlinked
  <2>7. PICK d : d = IF g.levels[o.level].orders = 0 THEN Intrusive!DropLevel(c, o.side, o.level) ELSE c
    OBVIOUS
  <2>8. PICK e : e = IF g.levels[o.level].orders = 0 THEN HP!DropLevel(g, o.side, o.level) ELSE g
    OBVIOUS
  <2>9. \A l \in DOMAIN g.levels : l # HP!Nil /\ g.levels[l].price \in Nat
    <3>1. \A l \in DOMAIN h.levels : l # HP!Nil
      BY <1>0, LevelPrices
    <3>2. \A l \in DOMAIN g.levels : g.levels[l].price \in Nat
      <4>1. DOMAIN h.levels = DOMAIN g.levels
        BY <2>6
      <4>2. HP!Leaves(h.orders, h.levels, oi, g.orders, g.levels)
        <5>1. PICK ns : ns = h.nextSeq /\ HP!Queues(h.orders, h.levels, ns)
          BY <1>0 DEF HP!Sound
        <5>. QED  BY <1>0, <2>5, <5>1, HP!UnlinkLeaves
      <4>3. \A l \in DOMAIN h.levels : h.levels[l].price \in Nat
        BY <1>0, LevelPrices
      <4>. QED  BY <2>2, <2>6, <4>1, <4>2, <4>3 DEF HP!Leaves
    <3>. QED  BY <2>6, <3>1, <3>2
  <2>10. Twin(d, e) /\ DOMAIN e = HP!Fields
    <3>1. CASE g.levels[o.level].orders = 0
      <4>1. Twin(d, e)
        BY <2>6, <2>7, <2>8, <2>9, <3>1, TwinDropped
      <4>2. DOMAIN e = HP!Fields
        <5>1. HP!Window!WindowConstants
          BY HybridConstants DEF HP!HybridConstants
        <5>. QED  BY <2>6, <2>8, <3>1, <5>1, HP!DropLevelParts
      <4>. QED  BY <4>1, <4>2
    <3>2. CASE g.levels[o.level].orders # 0
      BY <2>6, <2>7, <2>8, <3>2
    <3>. QED  BY <3>1, <3>2
  <2>11. PICK m : m = HP!Without(h.ids, ref)
    OBVIOUS
  <2>12. e.ids = h.ids
    <3>1. HP!SameCounts(g, h)
      BY <1>0, <2>5, HP!UnlinkParts
    <3>2. HP!SameCounts(e, g)
      <4>1. HP!Window!WindowConstants
        BY HybridConstants DEF HP!HybridConstants
      <4>2. HP!SameCounts(HP!DropLevel(g, o.side, o.level), g)
        BY <2>6, <4>1, HP!DropLevelParts
      <4>. QED  BY <2>8, <4>2 DEF HP!SameCounts
    <3>. QED  BY <3>1, <3>2 DEF HP!SameCounts
  <2>13. PICK x : x = HP!ReturnOrder(d, oi)
    OBVIOUS
  <2>14. PICK y : y = HP!ReturnOrder(e, oi)
    OBVIOUS
  <2>15. DOMAIN d = IFields /\ d.ids = h.ids /\ d.size = e.size /\ d.levels = e.levels
         /\ d.freeOrders = e.freeOrders /\ d.freeLevels = e.freeLevels /\ d.rejected = e.rejected
         /\ Bared(d.orders, e.orders) /\ Indexed(d.index, e)
    BY <2>10, <2>12 DEF Twin
  <2>16. /\ DOMAIN x = IFields /\ x.size = d.size /\ x.orders = d.orders /\ x.levels = d.levels
         /\ x.freeOrders = Append(d.freeOrders, oi) /\ x.freeLevels = d.freeLevels
         /\ x.index = d.index /\ x.ids = d.ids /\ x.rejected = d.rejected
    BY <2>13, <2>15, ReturnOrderFields
  <2>17. /\ DOMAIN y = HP!Fields /\ y.size = e.size /\ y.orders = e.orders /\ y.levels = e.levels
         /\ y.freeOrders = Append(e.freeOrders, oi) /\ y.freeLevels = e.freeLevels
         /\ HP!SameWindow(y, e) /\ HP!SameCounts(y, e)
    BY <2>10, <2>14, HP!ReturnOrderParts
  <2>18. PICK a : a = [x EXCEPT !.ids = m]
    OBVIOUS
  <2>19. PICK b : b = [y EXCEPT !.ids = m]
    OBVIOUS
  <2>20. /\ DOMAIN a = IFields /\ SamePool(a, x) /\ a.index = x.index
         /\ a.ids = m /\ a.rejected = x.rejected
    BY <2>16, <2>18, IIdsChange DEF SamePool
  <2>21. /\ SamePool(b, y) /\ b.ids = m /\ b.rejected = y.rejected /\ HP!SameWindow(b, y)
    BY <2>17, <2>19, HP!IdsChange DEF SamePool
  <2>22. Twin(a, b)
    <3>1. \A s, p : HP!Lookup(b, s, p) = HP!Lookup(e, s, p)
      <4>1. HP!SameWindow(b, e)
        BY <2>17, <2>21 DEF HP!SameWindow
      <4>. QED  BY <4>1, HP!SameLookup
    <3>2. b.levels = e.levels
      BY <2>17, <2>21 DEF SamePool
    <3>3. \A s : OnSide(b, s) = OnSide(e, s)
      BY <3>1, <3>2 DEF OnSide
    <3>4. Indexed(a.index, b)
      BY <2>15, <2>16, <2>20, <3>2, <3>3 DEF Indexed
    <3>5. a.rejected = b.rejected
      BY <2>15, <2>16, <2>17, <2>20, <2>21 DEF HP!SameCounts
    <3>. QED  BY <2>15, <2>16, <2>17, <2>20, <2>21, <3>4, <3>5 DEF Twin, SamePool
  <2>23. Intrusive!Remove(i, ref) = a
    <3>1. Intrusive!Unlink(i, oi) = c
      BY <2>4, PoolOps
    <3>2. Intrusive!ReturnOrder(d, oi) = x /\ Intrusive!Without(x.ids, ref) = m
      BY <2>11, <2>13, <2>15, <2>16, PoolOps
    <3>3. c.levels = g.levels
      BY <2>6 DEF Twin
    <3>4. Intrusive!Remove(i, ref) = [x EXCEPT !.ids = Intrusive!Without(@, ref)]
      BY <1>0, <1>2, <2>1, <2>3, <2>7, <3>1, <3>2, <3>3 DEF Intrusive!Remove
    <3>. QED  BY <2>18, <3>2, <3>4
  <2>24. HP!Remove(h, ref) = b
    <3>1. HP!Unlinked(h, oi) = e
      BY <2>2, <2>5, <2>8 DEF HP!Unlinked
    <3>2. HP!Without(y.ids, ref) = m
      BY <2>11, <2>12, <2>17 DEF HP!SameCounts
    <3>3. HP!Remove(h, ref) = [y EXCEPT !.ids = HP!Without(@, ref)]
      BY <1>2, <2>1, <2>14, <3>1 DEF HP!Remove
    <3>. QED  BY <2>19, <3>2, <3>3
  <2>. QED  BY <2>22, <2>23, <2>24
<1>. QED  BY <1>1, <1>2

-----------------------------------------------------------------------------
(* Taking shares from an order, in both books. *)
ShrunkLevels(L, li, q) == [L EXCEPT ![li].qty = @ - q]

LEMMA BareShrinks ==
    ASSUME NEW O, NEW L, NEW oi \in DOMAIN O, NEW q, NEW O2, NEW L2,
           HP!Shrinks(O, L, oi, q, O2, L2), \A k \in DOMAIN O : O[k] \in HP!Entry,
           NEW P, Bared(P, O), NEW P2, NEW M, NEW M2, HP!Shrinks(P, M, oi, q, P2, M2)
    PROVE  Bared(P2, O2)
<1>1. DOMAIN P = DOMAIN O /\ \A k \in DOMAIN O : P[k] = Unstamped(O[k])
  BY DEF Bared
<1>2. DOMAIN P2 = DOMAIN O2 /\ DOMAIN O2 = DOMAIN O
  BY <1>1 DEF HP!Shrinks
<1>3. PICK o \in HP!Entry : o = O[oi]
  OBVIOUS
<1>4. PICK n : n = o.qty - q
  OBVIOUS
<1>5. O2[oi] = [o EXCEPT !.qty = n]
  BY <1>3, <1>4 DEF HP!Shrinks
<1>6. P2[oi] = [Unstamped(o) EXCEPT !.qty = n]
  <2>1. P[oi] = Unstamped(o) /\ Unstamped(o).qty = o.qty
    BY <1>1, <1>3, UnstampedIs
  <2>. QED  BY <1>4, <2>1 DEF HP!Shrinks
<1>7. [Unstamped(o) EXCEPT !.qty = n] = Unstamped([o EXCEPT !.qty = n])
  BY <1>3, BareShrunk
<1>8. P2[oi] = Unstamped(O2[oi])
  BY <1>5, <1>6, <1>7
<1>9. ASSUME NEW k \in DOMAIN O \ {oi} PROVE P2[k] = Unstamped(O2[k])
  BY <1>1 DEF HP!Shrinks
<1>. QED  BY <1>2, <1>8, <1>9 DEF Bared

LEMMA TwinShrunk ==
    ASSUME NEW i, NEW h, Twin(i, h), HP!Sound(h), NEW oi \in DOMAIN h.orders, NEW q
    PROVE  Twin(HP!Shrink(i, oi, q), HP!Shrink(h, oi, q))
<1>0. /\ DOMAIN i = IFields /\ i.size = h.size /\ i.levels = h.levels
      /\ i.freeOrders = h.freeOrders /\ i.freeLevels = h.freeLevels
      /\ i.ids = h.ids /\ i.rejected = h.rejected
      /\ Bared(i.orders, h.orders) /\ Indexed(i.index, h)
  BY DEF Twin
<1>1. /\ \A l \in DOMAIN h.levels : h.levels[l].price \in Nat
      /\ DOMAIN h = HP!Fields
      /\ \A l \in DOMAIN h.levels : h.levels[l] \in HP!LevelEntry
      /\ \A k \in DOMAIN h.orders : h.orders[k] \in HP!Entry /\ h.orders[k].level \in DOMAIN h.levels
  BY LevelPrices
<1>2. PICK c : c = HP!Shrink(i, oi, q)
  OBVIOUS
<1>3. PICK g : g = HP!Shrink(h, oi, q)
  OBVIOUS
<1>4. PICK li : li = h.orders[oi].level
  OBVIOUS
<1>5. DOMAIN i.orders = DOMAIN h.orders /\ i.orders[oi].level = li /\ li \in DOMAIN h.levels
  <2>1. DOMAIN i.orders = DOMAIN h.orders /\ i.orders[oi] = Unstamped(h.orders[oi])
    BY <1>0 DEF Bared
  <2>. QED  BY <1>1, <1>4, <2>1, UnstampedIs
<1>6. /\ DOMAIN c = IFields /\ c.size = i.size
      /\ HP!Shrinks(i.orders, i.levels, oi, q, c.orders, c.levels)
      /\ c.freeOrders = i.freeOrders /\ c.freeLevels = i.freeLevels
      /\ c.index = i.index /\ c.ids = i.ids /\ c.rejected = i.rejected
  <2>1. oi \in DOMAIN i.orders /\ i.orders[oi].level \in DOMAIN i.levels
    BY <1>0, <1>5
  <2>. QED  BY <1>0, <1>2, <2>1, ShrinkFields
<1>7. /\ DOMAIN g = HP!Fields /\ g.size = h.size
      /\ HP!Shrinks(h.orders, h.levels, oi, q, g.orders, g.levels)
      /\ g.freeOrders = h.freeOrders /\ g.freeLevels = h.freeLevels
      /\ HP!SameWindow(g, h) /\ HP!SameCounts(g, h)
  BY <1>1, <1>3, HP!ShrinkParts
<1>8. c.levels = ShrunkLevels(i.levels, li, q) /\ g.levels = ShrunkLevels(h.levels, li, q)
  <2>1. c.levels = ShrunkLevels(i.levels, i.orders[oi].level, q)
    BY <1>0, <1>2 DEF HP!Shrink, ShrunkLevels, IFields, PoolFields
  <2>2. g.levels = ShrunkLevels(h.levels, h.orders[oi].level, q)
    BY <1>1, <1>3 DEF HP!Shrink, ShrunkLevels, HP!Fields
  <2>. QED  BY <1>4, <1>5, <2>1, <2>2
<1>9. Bared(c.orders, g.orders)
  <2>1. PICK O : O = h.orders
    OBVIOUS
  <2>2. PICK P : P = i.orders
    OBVIOUS
  <2>3. PICK O2 : O2 = g.orders
    OBVIOUS
  <2>4. PICK P2 : P2 = c.orders
    OBVIOUS
  <2>5. /\ oi \in DOMAIN O /\ HP!Shrinks(O, h.levels, oi, q, O2, g.levels)
        /\ Bared(P, O) /\ HP!Shrinks(P, i.levels, oi, q, P2, c.levels)
        /\ \A k \in DOMAIN O : O[k] \in HP!Entry
    BY <1>0, <1>1, <1>6, <1>7, <2>1, <2>2, <2>3, <2>4
  <2>6. Bared(P2, O2)
    BY <2>5, BareShrinks
  <2>. QED  BY <2>3, <2>4, <2>6
<1>10. /\ DOMAIN g.levels = DOMAIN h.levels
       /\ \A l \in DOMAIN h.levels : g.levels[l].price = h.levels[l].price /\ h.levels[l].price \in Nat
  <2>1. g.levels[li].price = h.levels[li].price
    BY <1>1, <1>4, <1>5, <1>7 DEF HP!Shrinks, HP!LevelEntry
  <2>. QED  BY <1>1, <1>4, <1>7, <2>1 DEF HP!Shrinks
<1>11. \A s, p : HP!Lookup(g, s, p) = HP!Lookup(h, s, p)
  BY <1>7, HP!SameLookup
<1>12. Indexed(c.index, g)
  <2>1. Indexed(i.index, g)
    BY <1>0, <1>10, <1>11, IndexedKept
  <2>. QED  BY <1>6, <2>1
<1>13. Twin(c, g)
  BY <1>0, <1>6, <1>7, <1>8, <1>9, <1>12 DEF Twin, HP!SameCounts
<1>. QED  BY <1>2, <1>3, <1>13

LEMMA TwinReduce ==
    ASSUME NEW i, NEW h, Twin(i, h), HP!BookInv(h), NEW ref, NEW qty
    PROVE  Twin(Intrusive!Reduce(i, ref, qty), HP!Reduce(h, ref, qty))
<1>0. /\ HP!Sound(h) /\ HP!IdsFit(h) /\ i.ids = h.ids /\ Bared(i.orders, h.orders)
  BY DEF HP!BookInv, Twin
<1>1. CASE ref \notin DOMAIN h.ids
  BY <1>0, <1>1 DEF Intrusive!Reduce, HP!Reduce
<1>2. CASE ref \in DOMAIN h.ids
  <2>1. PICK oi \in DOMAIN h.orders : oi = h.ids[ref]
    BY <1>0, <1>2 DEF HP!IdsFit
  <2>2. i.orders[oi].qty = h.orders[oi].qty
    <3>1. i.orders[oi] = Unstamped(h.orders[oi])
      BY <1>0, <2>1 DEF Bared
    <3>. QED  BY <3>1, UnstampedIs
  <2>3. Intrusive!Shrink(i, oi, qty) = HP!Shrink(i, oi, qty)
    BY PoolOps
  <2>4. CASE qty >= h.orders[oi].qty
    <3>1. Intrusive!Reduce(i, ref, qty) = Intrusive!Remove(i, ref)
      BY <1>0, <1>2, <2>1, <2>2, <2>4 DEF Intrusive!Reduce
    <3>2. HP!Reduce(h, ref, qty) = HP!Remove(h, ref)
      BY <1>2, <2>1, <2>4 DEF HP!Reduce
    <3>. QED  BY <3>1, <3>2, TwinRemove
  <2>5. CASE ~(qty >= h.orders[oi].qty)
    <3>1. Intrusive!Reduce(i, ref, qty) = HP!Shrink(i, oi, qty)
      BY <1>0, <1>2, <2>1, <2>2, <2>3, <2>5 DEF Intrusive!Reduce
    <3>2. HP!Reduce(h, ref, qty) = HP!Shrink(h, oi, qty)
      BY <1>2, <2>1, <2>5 DEF HP!Reduce
    <3>3. Twin(HP!Shrink(i, oi, qty), HP!Shrink(h, oi, qty))
      BY <1>0, <2>1, TwinShrunk
    <3>. QED  BY <3>1, <3>2, <3>3
  <2>. QED  BY <2>4, <2>5
<1>. QED  BY <1>1, <1>2

LEMMA TwinReplace ==
    ASSUME NEW i, NEW h, Twin(i, h), HP!BookInv(h), NEW old, NEW new \in Refs,
           NEW px \in Nat \ {0}, NEW qty \in Nat
    PROVE  Twin(Intrusive!Replace(i, old, new, px, qty), HP!Replace(h, old, new, px, qty))
<1>0. /\ HP!Sound(h) /\ HP!IdsFit(h) /\ i.ids = h.ids /\ Bared(i.orders, h.orders)
  BY DEF HP!BookInv, Twin
<1>1. CASE old \notin DOMAIN h.ids
  BY <1>0, <1>1 DEF Intrusive!Replace, HP!Replace
<1>2. CASE old \in DOMAIN h.ids
  <2>1. PICK oi \in DOMAIN h.orders : oi = h.ids[old]
    BY <1>0, <1>2 DEF HP!IdsFit
  <2>2. PICK side : side = h.orders[oi].side
    OBVIOUS
  <2>3. i.orders[oi].side = side /\ side \in HP!Sides
    <3>1. i.orders[oi] = Unstamped(h.orders[oi])
      BY <1>0, <2>1 DEF Bared
    <3>2. h.orders[oi] \in HP!Entry
      BY <1>0, <2>1, LevelPrices
    <3>. QED  BY <2>2, <3>1, <3>2, UnstampedIs DEF HP!Entry
  <2>4. PICK j : j = Intrusive!Remove(i, old)
    OBVIOUS
  <2>5. PICK k : k = HP!Remove(h, old)
    OBVIOUS
  <2>6. Twin(j, k)
    BY <2>4, <2>5, TwinRemove
  <2>7. HP!BookInv(k)
    BY <2>5, HybridConstants, HP!RemovalKeeps
  <2>8. Intrusive!Replace(i, old, new, px, qty) = Intrusive!Add(j, new, side, px, qty)
    BY <1>0, <1>2, <2>1, <2>3, <2>4 DEF Intrusive!Replace
  <2>9. HP!Replace(h, old, new, px, qty) = HP!Add(k, new, side, px, qty)
    BY <1>2, <2>1, <2>2, <2>5 DEF HP!Replace
  <2>10. Twin(Intrusive!Add(j, new, side, px, qty), HP!Add(k, new, side, px, qty))
    BY <2>3, <2>6, <2>7, TwinAdd
  <2>. QED  BY <2>8, <2>9, <2>10
<1>. QED  BY <1>1, <1>2

LEMMA TwinQuery ==
    ASSUME NEW i, NEW h, Twin(i, h), DOMAIN h = HP!Fields, NEW side
    PROVE  Twin(i, HP!Query(h, side))
<1>1. PICK hint : hint = [h.hint EXCEPT ![side] = HP!Window!Refreshed(side, h.bits[side], @)]
  OBVIOUS
<1>2. PICK g : g = [h EXCEPT !.hint = hint]
  OBVIOUS
<1>3. HP!Query(h, side) = g
  BY <1>1, <1>2 DEF HP!Query, HP!Fields
<1>4. /\ SamePool(g, h) /\ g.ids = h.ids /\ g.rejected = h.rejected
      /\ g.slot = h.slot /\ g.over = h.over
  BY <1>2, HP!HintMoves DEF SamePool
<1>5. \A s, p : HP!Lookup(g, s, p) = HP!Lookup(h, s, p)
  BY <1>4 DEF HP!Lookup
<1>6. /\ DOMAIN i = IFields /\ SamePool(i, i) /\ i.index = i.index
      /\ i.ids = g.ids /\ i.rejected = g.rejected
  BY <1>4 DEF Twin, SamePool
<1>7. Twin(i, g)
  BY <1>4, <1>5, <1>6, TwinKept
<1>. QED  BY <1>3, <1>7

(* An intrusive book with nothing in it, whatever it has counted. *)
Cleared(size, r) == [Intrusive!Empty(size) EXCEPT !.rejected = r]

LEMMA IEmptyFields ==
    ASSUME NEW size
    PROVE  LET b == Intrusive!Empty(size) IN
           /\ DOMAIN b = IFields /\ b.size = size /\ b.orders = << >> /\ b.levels = << >>
           /\ b.freeOrders = HP!Stack(size.orders) /\ b.freeLevels = HP!Stack(size.levels)
           /\ b.index = [side \in HP!Sides |-> << >>] /\ b.ids = << >> /\ b.rejected = 0
           /\ b = [k \in DOMAIN b |-> b[k]]
<1> DEFINE x == [side \in HP!Sides |-> << >>]
           e == << >>
           so == HP!Stack(size.orders)
           sv == HP!Stack(size.levels)
           p == [size |-> size, orders |-> e, levels |-> e, freeOrders |-> so, freeLevels |-> sv]
           m == [index |-> x, ids |-> e, rejected |-> 0]
           b == Intrusive!Empty(size)
<1>0. /\ Intrusive!Stack(size.orders) = so /\ Intrusive!Stack(size.levels) = sv
      /\ [side \in Intrusive!Sides |-> << >>] = x
  BY Zenon DEF Intrusive!Stack, HP!Stack, Intrusive!Sides, Intrusive!Promise!Sides,
               HP!Sides, HP!Promise!Sides
<1>1. b = [k \in DOMAIN p \cup DOMAIN m |-> IF k \in DOMAIN m THEN m[k] ELSE p[k]]
  BY <1>0, Zenon DEF Intrusive!Empty, Intrusive!NewPool, Intrusive!Extended
<1> HIDE DEF x, e, so, sv
<1>2. /\ DOMAIN p = {"size", "orders", "levels", "freeOrders", "freeLevels"}
      /\ DOMAIN m = {"index", "ids", "rejected"}
  OBVIOUS
<1>3. /\ p.size = size /\ p.orders = e /\ p.levels = e /\ p.freeOrders = so /\ p.freeLevels = sv
      /\ m.index = x /\ m.ids = e /\ m.rejected = 0
  OBVIOUS
<1> HIDE DEF p, m, b
<1>4. /\ DOMAIN b = IFields /\ b.size = size /\ b.orders = e /\ b.levels = e
      /\ b.freeOrders = so /\ b.freeLevels = sv
      /\ b.index = x /\ b.ids = e /\ b.rejected = 0
  BY <1>1, <1>2, <1>3 DEF IFields, PoolFields
<1>5. b = [k \in DOMAIN b |-> b[k]]
  BY <1>1
<1>. QED  BY <1>4, <1>5 DEF b, x, e, so, sv

LEMMA TwinEmpties ==
    ASSUME NEW size, NEW r \in Nat, NEW ns, NEW i, i = Cleared(size, r),
           NEW h, h = HP!Emptied(size, r, ns)
    PROVE  Twin(i, h)
<1>1. PICK e : e = Intrusive!Empty(size)
  OBVIOUS
<1>2. /\ DOMAIN e = IFields /\ e.size = size /\ e.orders = << >> /\ e.levels = << >>
      /\ e.freeOrders = HP!Stack(size.orders) /\ e.freeLevels = HP!Stack(size.levels)
      /\ e.index = [side \in HP!Sides |-> << >>] /\ e.ids = << >>
  BY <1>1, IEmptyFields
<1>3. PICK f : f = HP!Empty(size)
  OBVIOUS
<1>4. /\ DOMAIN f = HP!Fields /\ f.size = size /\ f.orders = << >> /\ f.levels = << >>
      /\ f.freeOrders = HP!Stack(size.orders) /\ f.freeLevels = HP!Stack(size.levels)
      /\ f.ids = << >>
  BY <1>3, HP!EmptyParts
<1>5. i = [e EXCEPT !.rejected = r]
  BY <1>1 DEF Cleared
<1>6. h = [f EXCEPT !.rejected = r, !.nextSeq = ns]
  BY <1>3 DEF HP!Emptied
<1>7. /\ DOMAIN i = IFields /\ i.size = e.size /\ i.orders = e.orders /\ i.levels = e.levels
      /\ i.freeOrders = e.freeOrders /\ i.freeLevels = e.freeLevels /\ i.index = e.index
      /\ i.ids = e.ids /\ i.rejected = r
  BY <1>2, <1>5 DEF IFields, PoolFields
<1>8. /\ h.size = f.size /\ h.orders = f.orders /\ h.levels = f.levels
      /\ h.freeOrders = f.freeOrders /\ h.freeLevels = f.freeLevels
      /\ h.ids = f.ids /\ h.rejected = r
  BY <1>4, <1>6 DEF HP!Fields
<1>9. DOMAIN << >> = {}
  OBVIOUS
<1>10. Bared(i.orders, h.orders)
  BY <1>2, <1>4, <1>7, <1>8, <1>9 DEF Bared
<1>11. Indexed(i.index, h)
  <2>1. \A s \in HP!Sides : OnSide(h, s) = {} /\ i.index[s] = << >>
    BY <1>2, <1>4, <1>7, <1>8, <1>9 DEF OnSide
  <2>2. HP!Listed(<< >>) = {} /\ << >> \in Seq(Nat)
    BY DEF HP!Listed
  <2>3. \A s \in HP!Sides : Lists(<< >>, h.levels, s, {})
    BY <2>2 DEF Lists, RankedBy
  <2>4. DOMAIN i.index = HP!Sides
    BY <1>2, <1>7
  <2>. QED  BY <2>1, <2>3, <2>4 DEF Indexed
<1>12. /\ i.size = h.size /\ i.levels = h.levels /\ i.freeOrders = h.freeOrders
       /\ i.freeLevels = h.freeLevels /\ i.ids = h.ids /\ i.rejected = h.rejected
  BY <1>2, <1>4, <1>7, <1>8
<1>. QED  BY <1>7, <1>10, <1>11, <1>12 DEF Twin

LEMMA TwinInit ==
    ASSUME Init PROVE Twin(intrusive, hybrid) /\ HP!BookInv(hybrid)
<1>1. PICK build \in Builds : intrusive = Intrusive!Empty(build.pool) /\ hybrid = Hybrid!Empty(build.pool)
  BY DEF Init
<1>2. PICK size : size = build.pool /\ size \in Sizes
  BY DEF Sizes
<1>3. PICK e : e = Intrusive!Empty(size)
  OBVIOUS
<1>4. e.rejected = 0 /\ e = [k \in DOMAIN e |-> e[k]]
  BY <1>3, IEmptyFields
<1>5. [e EXCEPT !.rejected = 0] = e
  BY <1>4
<1>6. e = Cleared(size, 0)
  BY <1>3, <1>5 DEF Cleared
<1>7. PICK f : f = HP!Empty(size)
  OBVIOUS
<1>8. f.rejected = 0 /\ f.nextSeq = 1
  BY <1>7, HP!EmptyParts
<1>9. f = [k \in DOMAIN f |-> f[k]]
  BY <1>7 DEF HP!Empty, HP!Extended
<1>10. [f EXCEPT !.rejected = 0, !.nextSeq = 1] = f
  BY <1>8, <1>9
<1>11. f = HP!Emptied(size, 0, 1)
  BY <1>7, <1>10 DEF HP!Emptied
<1>12. Twin(e, f)
  <2>1. 0 \in Nat
    OBVIOUS
  <2>. QED  BY <2>1, <1>6, <1>11, TwinEmpties
<1>13. HP!BookInv(f)
  BY <1>2, <1>7, HybridConstants, HP!EmptyStarts
<1>14. intrusive = e /\ hybrid = f
  BY <1>1, <1>2, <1>3, <1>7, SameEmpty
<1>. QED  BY <1>12, <1>13, <1>14

-----------------------------------------------------------------------------
(* Step by step the two books stay twins. *)
TwinBooks == Twin(intrusive, hybrid) /\ HP!BookInv(hybrid)

LEMMA EventFacts ==
    /\ Map!Sides = HP!Sides /\ Intrusive!Sides = HP!Sides
    /\ \A p \in Prices : p \in Nat \ {0}
    /\ \A q \in Quantities : q \in Nat
<1>1. Map!Sides = HP!Sides /\ Intrusive!Sides = HP!Sides
  BY DEF Map!Sides, Map!Promise!Sides, HP!Sides, HP!Promise!Sides, Intrusive!Sides, Intrusive!Promise!Sides
<1>2. Prices \subseteq Nat \ {0} /\ Quantities \subseteq Nat
  BY HybridConstants, HP!ConstantFacts
<1>. QED  BY <1>1, <1>2

LEMMA TwinSteps ==
    ASSUME TwinBooks, [Next]_books PROVE Twin(intrusive', hybrid')
<1>0. /\ Twin(intrusive, hybrid) /\ HP!BookInv(hybrid) /\ DOMAIN hybrid = HP!Fields
      /\ intrusive.rejected = hybrid.rejected /\ intrusive.size = hybrid.size
      /\ hybrid.rejected \in Nat
  BY DEF TwinBooks, HP!BookInv, HP!Sound, Twin
<1>1. CASE AddEvent
  <2>1. PICK ref \in Refs, side \in Map!Sides, px \in Prices, qty \in Quantities :
             Intrusive!OnAdd(ref, side, px, qty) /\ Hybrid!OnAdd(ref, side, px, qty)
    BY <1>1 DEF AddEvent
  <2>2. /\ intrusive' = Intrusive!Add(intrusive, ref, side, px, qty)
        /\ hybrid' = HP!Add(hybrid, ref, side, px, qty)
    BY <2>1, SameAdd DEF Intrusive!OnAdd, Hybrid!OnAdd
  <2>3. ref \in Refs /\ side \in HP!Sides /\ px \in Nat \ {0} /\ qty \in Nat
    BY EventFacts
  <2>. QED  BY <1>0, <2>2, <2>3, TwinAdd
<1>2. CASE ReduceEvent
  <2>1. PICK ref \in Refs, qty \in Quantities :
             Intrusive!OnReduce(ref, qty) /\ Hybrid!OnReduce(ref, qty)
    BY <1>2 DEF ReduceEvent
  <2>2. /\ intrusive' = Intrusive!Reduce(intrusive, ref, qty)
        /\ hybrid' = HP!Reduce(hybrid, ref, qty)
    BY <2>1, SameReduce DEF Intrusive!OnReduce, Hybrid!OnReduce
  <2>. QED  BY <1>0, <2>2, TwinReduce
<1>3. CASE DeleteEvent
  <2>1. PICK ref \in Refs : Intrusive!OnRemove(ref) /\ Hybrid!OnRemove(ref)
    BY <1>3 DEF DeleteEvent
  <2>2. intrusive' = Intrusive!Remove(intrusive, ref) /\ hybrid' = HP!Remove(hybrid, ref)
    BY <2>1, SameRemove DEF Intrusive!OnRemove, Hybrid!OnRemove
  <2>. QED  BY <1>0, <2>2, TwinRemove
<1>4. CASE ReplaceEvent
  <2>1. PICK old \in Refs, new \in Refs, px \in Prices, qty \in Quantities :
             Intrusive!OnReplace(old, new, px, qty) /\ Hybrid!OnReplace(old, new, px, qty)
    BY <1>4 DEF ReplaceEvent
  <2>2. /\ intrusive' = Intrusive!Replace(intrusive, old, new, px, qty)
        /\ hybrid' = HP!Replace(hybrid, old, new, px, qty)
    BY <2>1, SameReplace DEF Intrusive!OnReplace, Hybrid!OnReplace
  <2>3. new \in Refs /\ px \in Nat \ {0} /\ qty \in Nat
    BY EventFacts
  <2>. QED  BY <1>0, <2>2, <2>3, TwinReplace
<1>5. CASE AskBest
  <2>1. PICK side : Hybrid!OnQuery(side)
    BY <1>5 DEF AskBest
  <2>2. intrusive' = intrusive /\ hybrid' = HP!Query(hybrid, side)
    BY <1>5, <2>1, SameQuery DEF AskBest, Hybrid!OnQuery
  <2>. QED  BY <1>0, <2>2, TwinQuery
<1>6. CASE ClearAll
  <2>1. PICK r, ns, z : r \in Nat /\ r = hybrid.rejected /\ ns = hybrid.nextSeq /\ z = hybrid.size
    BY <1>0
  <2>2. intrusive' = Cleared(z, r)
    BY <1>0, <1>6, <2>1 DEF ClearAll, Intrusive!Clear, Cleared
  <2>3. hybrid' = HP!Emptied(z, r, ns)
    BY <1>6, <2>1, SameEmpty DEF ClearAll, Hybrid!Clear, HP!Emptied
  <2>. QED  BY <2>1, <2>2, <2>3, TwinEmpties
<1>7. CASE UNCHANGED books
  BY <1>0, <1>7 DEF books
<1>. QED  BY <1>1, <1>2, <1>3, <1>4, <1>5, <1>6, <1>7 DEF Next

(* Event by event IntrusiveBook has the pools, the table and the levels that *)
(* HybridBook has.                                                           *)
LEMMA TwinsHold == Spec => []TwinBooks
<1>1. Init => TwinBooks
  BY TwinInit DEF TwinBooks
<1>2. HP!Spec => []HP!BookInv(hybrid)
  BY HybridConstants, HP!BookIsSound
<1>3. TwinBooks /\ HP!BookInv(hybrid)' /\ [Next]_books => TwinBooks'
  BY TwinSteps DEF TwinBooks
<1>. QED  BY <1>1, <1>2, <1>3, HybridSteps, PTL DEF Spec

-----------------------------------------------------------------------------
(* What holds of the lists of one of the two pooled books holds of the other's. *)
Nexts(O, L, li, s) == IF s = << >> THEN L[li].head ELSE O[HP!Seqs!Last(s)].next

Longest(O, L, li, s) ==
    IF Nexts(O, L, li, s) = HP!Nil THEN s ELSE Append(s, Nexts(O, L, li, s))

Followed(O, L, li, f, n) == IF n = 0 THEN << >> ELSE Longest(O, L, li, f[n - 1])

LEMMA StepsAre ==
    ASSUME NEW O, NEW L, NEW li, NEW k \in Nat, NEW f
    PROVE  HP!Steps(O, L, li, k, f) <=>
           f = [n \in 0..k |-> IF n = 0 THEN << >> ELSE Longest(O, L, li, f[n - 1])]
BY DEF HP!Steps, Longest, Nexts

LEMMA StepsDetermine ==
    ASSUME NEW O, NEW P, NEW L, NEW li, NEW k \in Nat,
           NEW f, HP!Steps(O, L, li, k, f), NEW g, HP!Steps(P, L, li, k, g),
           \A n \in 0..k : Longest(P, L, li, f[n]) = Longest(O, L, li, f[n])
    PROVE  g[k] = f[k]
<1> DEFINE T == {n \in Nat : n <= k => g[n] = f[n]}
<1>1. PICK F : F = [n \in 0..k |-> IF n = 0 THEN << >> ELSE Longest(O, L, li, f[n - 1])]
  OBVIOUS
<1>2. PICK G : G = [n \in 0..k |-> IF n = 0 THEN << >> ELSE Longest(P, L, li, g[n - 1])]
  OBVIOUS
<1>3. f = F /\ g = G
  BY <1>1, <1>2, StepsAre
<1>4. 0 \in T
  <2>1. F[0] = << >> /\ G[0] = << >>
    BY <1>1, <1>2
  <2>. QED  BY <1>3, <2>1
<1>5. ASSUME NEW n \in Nat, n \in T PROVE n + 1 \in T
  <2>. SUFFICES ASSUME n + 1 <= k PROVE g[n + 1] = f[n + 1]
    OBVIOUS
  <2>1. n \in 0..k /\ n + 1 \in 0..k /\ n + 1 # 0 /\ (n + 1) - 1 = n
    OBVIOUS
  <2>2. F[n + 1] = Longest(O, L, li, f[n]) /\ G[n + 1] = Longest(P, L, li, g[n])
    BY <1>1, <1>2, <2>1
  <2>3. g[n] = f[n]
    BY <1>5, <2>1
  <2>. QED  BY <1>3, <2>1, <2>2, <2>3
<1>6. T = Nat
  <2>. HIDE DEF T
  <2>1. T \in SUBSET Nat
    BY DEF T
  <2>. QED  BY <1>4, <1>5, <2>1, HP!SetInduction
<1>. QED  BY <1>6

LEMMA StepsChange ==
    ASSUME NEW O, NEW P, NEW L, NEW li, NEW k \in Nat, NEW f, HP!Steps(O, L, li, k, f),
           \A n \in 0..k : Longest(P, L, li, f[n]) = Longest(O, L, li, f[n])
    PROVE  HP!Steps(P, L, li, k, f)
<1>1. ASSUME NEW n \in 0..k PROVE Followed(O, L, li, f, n) = Followed(P, L, li, f, n)
  <2>1. CASE n = 0
    BY <2>1 DEF Followed
  <2>2. CASE n # 0
    <3>1. n - 1 \in 0..k
      BY <2>2
    <3>. QED  BY <2>2, <3>1 DEF Followed
  <2>. QED  BY <2>1, <2>2
<1>2. f = [n \in 0..k |-> Followed(O, L, li, f, n)]
  BY StepsAre DEF Followed
<1>3. [n \in 0..k |-> Followed(O, L, li, f, n)] = [n \in 0..k |-> Followed(P, L, li, f, n)]
  BY <1>1
<1>4. f = [n \in 0..k |-> Followed(P, L, li, f, n)]
  BY <1>2, <1>3
<1>. QED  BY <1>4, StepsAre DEF Followed

LEMMA TwinWalk ==
    ASSUME NEW i, NEW h, Twin(i, h), HP!Sound(h), NEW li \in DOMAIN h.levels, NEW k \in Nat
    PROVE  Intrusive!Walk(i, li, k) = HP!Walk(h, li, k)
<1> DEFINE w == CHOOSE g : HP!Steps(i.orders, i.levels, li, k, g)
<1>1. Intrusive!Walk(i, li, k) = w[k]
  BY Zenon DEF Intrusive!Walk, HP!Steps, Intrusive!Nil, HP!Nil, Intrusive!Seqs!Last, HP!Seqs!Last
<1>2. PICK O, P, L, ns : O = h.orders /\ P = i.orders /\ L = h.levels /\ ns = h.nextSeq
  OBVIOUS
<1>3. L = i.levels /\ Bared(P, O) /\ HP!Queues(h.orders, h.levels, ns)
  BY <1>2 DEF Twin, HP!Sound
<1>4. PICK f : /\ HP!Steps(h.orders, h.levels, li, k, f) /\ HP!Walk(h, li, k) = f[k]
               /\ \A n \in 0..k :
                    /\ HP!Chain(h.orders, h.levels, li, f[n])
                    /\ \/ Len(f[n]) = n
                       \/ HP!Longer(h.orders, h.levels, li, f[n]) = f[n]
  BY <1>3, HP!WalkSteps
<1>5. ASSUME NEW n \in 0..k PROVE Longest(P, L, li, f[n]) = Longest(O, L, li, f[n])
  <2>1. PICK s : s = f[n]
    OBVIOUS
  <2>2. s \in Seq(HP!OnLevel(O, li))
    BY <1>2, <1>4, <2>1 DEF HP!Chain
  <2>3. s # << >> => HP!Seqs!Last(s) \in HP!OnLevel(O, li)
    BY <2>2 DEF HP!Seqs!Last
  <2>4. s # << >> => P[HP!Seqs!Last(s)].next = O[HP!Seqs!Last(s)].next
    BY <1>3, <2>3, UnstampedIs DEF Bared, HP!OnLevel
  <2>5. Nexts(P, L, li, s) = Nexts(O, L, li, s)
    BY <2>4 DEF Nexts
  <2>. QED  BY <2>1, <2>5 DEF Longest
<1>6. HP!Steps(O, L, li, k, f)
  BY <1>2, <1>4
<1>7. HP!Steps(P, L, li, k, f)
  BY <1>5, <1>6, StepsChange
<1>8. PICK g : g = w /\ HP!Steps(P, L, li, k, g)
  <2>1. HP!Steps(i.orders, i.levels, li, k, f)
    BY <1>2, <1>3, <1>7
  <2>2. HP!Steps(i.orders, i.levels, li, k, w)
    BY <2>1
  <2>. HIDE DEF w
  <2>. QED  BY <1>2, <1>3, <2>2
<1>. HIDE DEF w
<1>9. g[k] = f[k]
  BY <1>5, <1>6, <1>8, StepsDetermine
<1>. QED  BY <1>1, <1>4, <1>8, <1>9

LEMMA TwinLists ==
    ASSUME NEW i, NEW h, Twin(i, h), HP!BookInv(h) PROVE Intrusive!ListsAreSound(i)
<1>0. /\ HP!Sound(h) /\ i.levels = h.levels /\ Bared(i.orders, h.orders)
      /\ DOMAIN i.orders = DOMAIN h.orders
  BY DEF HP!BookInv, Twin, Bared
<1>1. PICK O, P, L, ns : O = h.orders /\ P = i.orders /\ L = h.levels /\ ns = h.nextSeq
  OBVIOUS
<1>2. /\ HP!Queues(h.orders, h.levels, ns) /\ HP!Queues(O, L, ns)
      /\ \A l \in DOMAIN h.levels : HP!OnLevel(h.orders, l) # {}
  BY <1>0, <1>1 DEF HP!Sound, HP!BookInv
<1>3. HP!ListsAreSound(h)
  BY <1>2, HP!ListsFollow
<1>4. \A x \in DOMAIN O : /\ P[x].level = O[x].level /\ P[x].prev = O[x].prev
                          /\ P[x].next = O[x].next /\ P[x].qty = O[x].qty
  BY <1>0, <1>1, UnstampedIs DEF Bared
<1>5. PICK k : k = Cardinality(DOMAIN O) /\ k \in Nat
  <2>1. HP!IsFiniteSet(DOMAIN O)
    BY <1>2 DEF HP!Queues
  <2>2. IsFiniteSet(DOMAIN O)
    BY <2>1, Zenon DEF HP!IsFiniteSet, IsFiniteSet
  <2>. QED  BY <2>2, FS_CardinalityType
<1>6. Intrusive!Cardinality(DOMAIN i.orders) = k /\ HP!Cardinality(DOMAIN h.orders) = k
  <2>1. \A S : Intrusive!Cardinality(S) = Cardinality(S) /\ HP!Cardinality(S) = Cardinality(S)
    BY Zenon DEF Intrusive!Cardinality, HP!Cardinality, Cardinality, Intrusive!IsFiniteSet,
                 HP!IsFiniteSet, IsFiniteSet
  <2>. QED  BY <1>0, <1>1, <1>5, <2>1
<1>. SUFFICES ASSUME NEW l \in DOMAIN i.levels
              PROVE  LET V == i.levels[l]
                         list == Intrusive!Walk(i, l, Intrusive!Cardinality(DOMAIN i.orders)) IN
                     /\ Intrusive!Seqs!ToSet(list) = Intrusive!Resting(i, l)
                     /\ Len(list) = V.orders /\ V.orders > 0
                     /\ V.tail = Intrusive!Seqs!Last(list)
                     /\ \A j \in DOMAIN list :
                           /\ i.orders[list[j]].prev = IF j = 1 THEN Intrusive!Nil ELSE list[j - 1]
                           /\ i.orders[list[j]].next = IF j = Len(list) THEN Intrusive!Nil ELSE list[j + 1]
                     /\ V.qty = Intrusive!MapThenSumSet(LAMBDA oi : i.orders[oi].qty,
                                                       Intrusive!Resting(i, l))
  BY Zenon DEF Intrusive!ListsAreSound
<1>7. PICK s : s = HP!Walk(h, l, k)
  OBVIOUS
<1>8. Intrusive!Walk(i, l, k) = s /\ l \in DOMAIN h.levels
  BY <1>0, <1>1, <1>5, <1>7, TwinWalk
<1>9. /\ HP!Seqs!ToSet(s) = HP!Resting(h, l) /\ Len(s) = L[l].orders /\ L[l].orders > 0
      /\ L[l].tail = HP!Seqs!Last(s)
      /\ \A j \in DOMAIN s : /\ O[s[j]].prev = IF j = 1 THEN HP!Nil ELSE s[j - 1]
                             /\ O[s[j]].next = IF j = Len(s) THEN HP!Nil ELSE s[j + 1]
      /\ L[l].qty = HP!MapThenSumSet(LAMBDA oi : h.orders[oi].qty, HP!Resting(h, l))
  <2>1. l \in DOMAIN h.levels
    BY <1>0
  <2>2. LET V == h.levels[l]
            list == HP!Walk(h, l, HP!Cardinality(DOMAIN h.orders)) IN
        /\ HP!Seqs!ToSet(list) = HP!Resting(h, l)
        /\ Len(list) = V.orders /\ V.orders > 0
        /\ V.tail = HP!Seqs!Last(list)
        /\ \A j \in DOMAIN list :
              /\ h.orders[list[j]].prev = IF j = 1 THEN HP!Nil ELSE list[j - 1]
              /\ h.orders[list[j]].next = IF j = Len(list) THEN HP!Nil ELSE list[j + 1]
        /\ V.qty = HP!MapThenSumSet(LAMBDA oi : h.orders[oi].qty, HP!Resting(h, l))
    BY <1>3, <2>1, Zenon DEF HP!ListsAreSound
  <2>3. HP!Walk(h, l, HP!Cardinality(DOMAIN h.orders)) = s
    BY <1>6, <1>7
  <2>. QED  BY <1>1, <2>2, <2>3
<1>10. /\ Intrusive!Seqs!ToSet(s) = HP!Seqs!ToSet(s) /\ Intrusive!Seqs!Last(s) = HP!Seqs!Last(s)
       /\ Intrusive!Nil = HP!Nil
  BY Zenon DEF Intrusive!Seqs!ToSet, HP!Seqs!ToSet, Intrusive!Seqs!Last, HP!Seqs!Last,
               Intrusive!Nil, HP!Nil
<1>11. /\ Intrusive!Resting(i, l) = HP!Resting(h, l) /\ HP!Resting(h, l) = HP!OnLevel(O, l)
  BY <1>0, <1>1, <1>4 DEF Intrusive!Resting, HP!Resting, HP!OnLevel
<1>12. \A j \in DOMAIN s : s[j] \in DOMAIN O
  BY <1>9, <1>11 DEF HP!Seqs!ToSet, HP!OnLevel
<1>13. L[l].qty = Intrusive!MapThenSumSet(LAMBDA oi : i.orders[oi].qty, Intrusive!Resting(i, l))
  <2>1. PICK S : S = HP!OnLevel(O, l)
    OBVIOUS
  <2>2. HP!Counts(O, S) /\ \A x \in S : P[x].qty = O[x].qty
    BY <1>2, <1>4, <2>1, HP!LevelCounts DEF HP!OnLevel
  <2>3. HP!SumOf(P, S) = HP!SumOf(O, S)
    BY <2>2, HP!SumSame
  <2>4. HP!MapThenSumSet(LAMBDA oi : h.orders[oi].qty, S) = HP!SumOf(O, S)
    BY <1>1 DEF HP!SumOf
  <2>5. Intrusive!MapThenSumSet(LAMBDA oi : i.orders[oi].qty, S) = HP!SumOf(P, S)
    BY <1>1, Zenon DEF HP!SumOf, Intrusive!MapThenSumSet, HP!MapThenSumSet,
                       Intrusive!MapThenFoldSet, HP!MapThenFoldSet
  <2>. QED  BY <1>9, <1>11, <2>1, <2>3, <2>4, <2>5
<1>14. i.levels[l] = L[l] /\ Intrusive!Walk(i, l, Intrusive!Cardinality(DOMAIN i.orders)) = s
  BY <1>0, <1>1, <1>6, <1>8
<1>15. \A j \in DOMAIN s :
          /\ i.orders[s[j]].prev = IF j = 1 THEN Intrusive!Nil ELSE s[j - 1]
          /\ i.orders[s[j]].next = IF j = Len(s) THEN Intrusive!Nil ELSE s[j + 1]
  BY <1>1, <1>4, <1>9, <1>10, <1>12
<1>16. Intrusive!Seqs!ToSet(s) = Intrusive!Resting(i, l) /\ L[l].tail = Intrusive!Seqs!Last(s)
  BY <1>9, <1>10, <1>11
<1>. QED  BY <1>9, <1>13, <1>14, <1>15, <1>16

(* Every level is on one side, and the vector of that side lists it. *)
LEMMA TwinPools ==
    ASSUME NEW i, NEW h, Twin(i, h), HP!BookInv(h)
    PROVE  /\ Intrusive!PoolsAreWhole(i)
           /\ DOMAIN i.levels = UNION {Intrusive!Seqs!ToSet(i.index[s]) : s \in Intrusive!Sides}
<1>0. /\ HP!Sound(h) /\ i.levels = h.levels /\ Bared(i.orders, h.orders)
      /\ DOMAIN i.orders = DOMAIN h.orders /\ i.size = h.size
      /\ i.freeOrders = h.freeOrders /\ i.freeLevels = h.freeLevels /\ Indexed(i.index, h)
      /\ HP!PoolsFit(h) /\ HP!Found(h)
  BY DEF HP!BookInv, Twin, Bared, HP!Sound
<1>1. Intrusive!PoolsAreWhole(i)
  <2>1. HP!PoolsAreWhole(h)
    BY <1>0 DEF HP!PoolsFit, HP!Stacked, HP!PoolsAreWhole
  <2>2. \A s : /\ Intrusive!IsInjective(s) <=> HP!IsInjective(s)
               /\ Intrusive!Seqs!ToSet(s) = HP!Seqs!ToSet(s)
    BY Zenon DEF Intrusive!IsInjective, HP!IsInjective, Intrusive!Seqs!ToSet, HP!Seqs!ToSet
  <2>. QED  BY <1>0, <2>1, <2>2 DEF Intrusive!PoolsAreWhole, HP!PoolsAreWhole
<1>2. \A s \in HP!Sides : Intrusive!Seqs!ToSet(i.index[s]) = OnSide(h, s)
  <2>1. \A s \in HP!Sides : i.index[s] \in Seq(Nat) /\ HP!Listed(i.index[s]) = OnSide(h, s)
    BY <1>0 DEF Indexed, Lists
  <2>. QED  BY <2>1 DEF HP!Listed, Intrusive!Seqs!ToSet
<1>3. DOMAIN h.levels = UNION {OnSide(h, s) : s \in HP!Sides}
  <2>1. \A l \in DOMAIN h.levels : \E s \in HP!Sides : l \in OnSide(h, s)
    BY <1>0 DEF HP!Found, OnSide
  <2>2. \A s \in HP!Sides : OnSide(h, s) \subseteq DOMAIN h.levels
    BY DEF OnSide
  <2>. QED  BY <2>1, <2>2
<1>4. Intrusive!Sides = HP!Sides
  BY EventFacts
<1>. QED  BY <1>0, <1>1, <1>2, <1>3, <1>4

(* IntrusiveBook's lists are well formed and its pools whole, as HybridBook's are. *)
LEMMA IntrusivePools == Spec => [](Intrusive!ListsSound /\ Intrusive!PoolsWhole)
<1>1. TwinBooks => Intrusive!ListsSound /\ Intrusive!PoolsWhole
  BY TwinLists, TwinPools DEF TwinBooks, Intrusive!ListsSound, Intrusive!PoolsWhole
<1>. QED  BY <1>1, TwinsHold, PTL

(* The orders a reference finds in IntrusiveBook. *)
IView(i) == [ref \in DOMAIN i.ids |-> Intrusive!OrderIn(i, i.ids[ref])]

LEMMA TwinOrder ==
    ASSUME NEW i, NEW h, Twin(i, h), NEW oi \in DOMAIN h.orders
    PROVE  Intrusive!OrderIn(i, oi) = HP!OrderIn(h, oi)
<1>1. i.orders[oi] = Unstamped(h.orders[oi]) /\ i.levels = h.levels
  BY DEF Twin, Bared
<1>2. /\ i.orders[oi].side = h.orders[oi].side /\ i.orders[oi].qty = h.orders[oi].qty
      /\ i.orders[oi].level = h.orders[oi].level
  BY <1>1, UnstampedIs
<1>. QED  BY <1>1, <1>2 DEF Intrusive!OrderIn, HP!OrderIn

LEMMA TwinView ==
    ASSUME NEW i, NEW h, Twin(i, h), HP!BookInv(h)
    PROVE  IView(i) = HP!View(h)
<1>1. i.ids = h.ids /\ \A ref \in DOMAIN h.ids : h.ids[ref] \in DOMAIN h.orders
  BY DEF Twin, HP!BookInv, HP!IdsFit
<1>2. \A ref \in DOMAIN h.ids : Intrusive!OrderIn(i, h.ids[ref]) = HP!OrderIn(h, h.ids[ref])
  BY <1>1, TwinOrder
<1>. QED  BY <1>1, <1>2 DEF IView, HP!View

LEMMA TwinFresh ==
    ASSUME NEW i, NEW h, Twin(i, h), NEW ref
    PROVE  Intrusive!Fresh(i, ref) <=> HP!Fresh(h, ref)
<1>1. \A oi \in DOMAIN h.orders : i.orders[oi].id = h.orders[oi].id
  BY UnstampedIs DEF Twin, Bared
<1>. QED  BY <1>1 DEF Intrusive!Fresh, HP!Fresh, Twin, Bared

LEMMA IntrusiveDrops == Spec => []Intrusive!DropsAreCounted
<1>1. ASSUME TwinBooks, HP!DropsAreCounted PROVE Intrusive!DropsAreCounted
  <2>. SUFFICES ASSUME NEW ref \in Refs, NEW side \in HP!Sides, NEW px \in Prices,
                       NEW qty \in Quantities \ {0}, Intrusive!Fresh(intrusive, ref)
                PROVE  LET b == Intrusive!Add(intrusive, ref, side, px, qty) IN
                       (ref \in DOMAIN b.ids) # (b.rejected = intrusive.rejected + 1)
    BY EventFacts DEF Intrusive!DropsAreCounted
  <2>0. /\ Twin(intrusive, hybrid) /\ HP!BookInv(hybrid)
        /\ px \in Nat \ {0} /\ qty \in Nat
    BY <1>1, EventFacts DEF TwinBooks
  <2>1. HP!Fresh(hybrid, ref)
    BY <2>0, TwinFresh
  <2>2. PICK c : c = HP!Add(hybrid, ref, side, px, qty)
    OBVIOUS
  <2>3. PICK b : b = Intrusive!Add(intrusive, ref, side, px, qty)
    OBVIOUS
  <2>4. Twin(b, c)
    BY <2>0, <2>2, <2>3, TwinAdd
  <2>5. (ref \in DOMAIN c.ids) # (c.rejected = hybrid.rejected + 1)
    BY <1>1, <2>1, <2>2 DEF HP!DropsAreCounted
  <2>6. b.ids = c.ids /\ b.rejected = c.rejected /\ intrusive.rejected = hybrid.rejected
    BY <1>1, <2>4 DEF Twin, TwinBooks
  <2>. QED  BY <2>3, <2>5, <2>6
<1>2. HP!Spec => []HP!DropsAreCounted
  BY HybridConstants, HP!DropsStayCounted
<1>. QED  BY <1>1, <1>2, TwinsHold, HybridSteps, PTL

LEMMA SameBooks ==
    ASSUME TwinBooks
    PROVE  /\ [ref \in DOMAIN intrusive.ids |-> Intrusive!OrderIn(intrusive, intrusive.ids[ref])]
                = [ref \in DOMAIN hybrid.ids |-> HP!OrderIn(hybrid, hybrid.ids[ref])]
           /\ intrusive.rejected = hybrid.rejected
BY TwinView DEF TwinBooks, IView, HP!View, Twin

LEMMA TwinPromise ==
    ASSUME TwinBooks, TwinBooks'
    PROVE  [HP!Promise!Next]_(HP!Promise!vars) => [Intrusive!Promise!Next]_(Intrusive!Promise!vars)
<1>1. /\ [ref \in DOMAIN intrusive.ids |-> Intrusive!OrderIn(intrusive, intrusive.ids[ref])]
           = [ref \in DOMAIN hybrid.ids |-> HP!OrderIn(hybrid, hybrid.ids[ref])]
      /\ intrusive.rejected = hybrid.rejected
  BY SameBooks
<1>2. /\ [ref \in DOMAIN intrusive'.ids |-> Intrusive!OrderIn(intrusive', intrusive'.ids[ref])]
           = [ref \in DOMAIN hybrid'.ids |-> HP!OrderIn(hybrid', hybrid'.ids[ref])]
      /\ intrusive'.rejected = hybrid'.rejected
  BY TwinView DEF TwinBooks, IView, HP!View, Twin
<1>3. /\ \A f, i, o : Intrusive!Promise!Put(f, i, o) = HP!Promise!Put(f, i, o)
      /\ \A f, i : Intrusive!Promise!Without(f, i) = HP!Promise!Without(f, i)
      /\ Intrusive!Promise!Sides = HP!Promise!Sides
  BY Zenon DEF Intrusive!Promise!Put, HP!Promise!Put, Intrusive!Promise!Without, HP!Promise!Without,
               Intrusive!Promise!Sides, HP!Promise!Sides
<1>4. \A r, s, p, q : HP!Promise!Add(r, s, p, q) => Intrusive!Promise!Add(r, s, p, q)
  BY <1>1, <1>2, <1>3 DEF Intrusive!Promise!Add, HP!Promise!Add, Intrusive!Promise!Join, HP!Promise!Join
<1>5. \A r, q : HP!Promise!Reduce(r, q) => Intrusive!Promise!Reduce(r, q)
  BY <1>1, <1>2, <1>3 DEF Intrusive!Promise!Reduce, HP!Promise!Reduce
<1>6. \A r : HP!Promise!Remove(r) => Intrusive!Promise!Remove(r)
  BY <1>1, <1>2, <1>3 DEF Intrusive!Promise!Remove, HP!Promise!Remove
<1>7. \A r, n, p, q : HP!Promise!Replace(r, n, p, q) => Intrusive!Promise!Replace(r, n, p, q)
  BY <1>1, <1>2, <1>3 DEF Intrusive!Promise!Replace, HP!Promise!Replace, Intrusive!Promise!Join, HP!Promise!Join
<1>8. HP!Promise!Clear => Intrusive!Promise!Clear
  BY <1>1, <1>2, <1>3 DEF Intrusive!Promise!Clear, HP!Promise!Clear
<1>9. HP!Promise!Next => Intrusive!Promise!Next
  BY <1>1, <1>3, <1>4, <1>5, <1>6, <1>7, <1>8 DEF Intrusive!Promise!Next, HP!Promise!Next
<1>10. (UNCHANGED HP!Promise!vars) => UNCHANGED Intrusive!Promise!vars
  BY <1>1, <1>2 DEF Intrusive!Promise!vars, HP!Promise!vars
<1>. QED  BY <1>9, <1>10

LEMMA IntrusiveIsBook == Spec => Intrusive!ImplementsBook
<1>1. TwinBooks /\ HP!Promise!Init => Intrusive!Promise!Init
  BY SameBooks DEF Intrusive!Promise!Init, HP!Promise!Init
<1>2. TwinBooks /\ TwinBooks' /\ [HP!Promise!Next]_(HP!Promise!vars)
        => [Intrusive!Promise!Next]_(Intrusive!Promise!vars)
  BY TwinPromise
<1>3. HP!Spec => HP!Promise!Spec
  BY HybridConstants, HP!HybridIsBook DEF HP!ImplementsBook
<1>. QED  BY <1>1, <1>2, <1>3, TwinsHold, HybridSteps, PTL
          DEF HP!Promise!Spec, Intrusive!Promise!Spec, Intrusive!ImplementsBook
=============================================================================

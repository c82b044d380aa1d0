------------------------- MODULE StrategyEval_proofs -------------------------
(*********************************************************************************************)
(* StrategyEval, the market makers under their drivers, for every book that                  *)
(* HybridBook can be built as, every tape and every policy.                                  *)
(*                                                                                           *)
(* The argument.  A change waits no longer than the latency (Delayed), and                   *)
(* without latency one that an event decides lands at the end of that event, so              *)
(* nothing is in flight between two (Grounded) and the switches are what the                 *)
(* policy made of the last touch (Informed).  A side of the maker is written out             *)
(* by its parts (SideOf, QuoteOf, PosOf), and each call of on_event by what it does          *)
(* to them.  The naive pass of sim_mm is then the naive maker part by part, given            *)
(* that a query does not change what the book tells of an event's order (Tells), that        *)
(* "Always" never switches a side off, and that a naive quote is whole (Passing).            *)
(*                                                                                           *)
(* The queue positions need the book.  It is the one HybridBook_proofs is about (HP),        *)
(* operator by operator, so it is well formed at every event, and what rests at a price      *)
(* before a stamp (Ahead) moves with an event as EventAdvances says.  A position is then     *)
(* exact (Exact, Queued): it joins so, and a trade, a cancel or a delete takes from it       *)
(* what it takes from the level.  That a fill comes in its turn, and that nothing behind     *)
(* trades first when heads only are executed, is read off it.  And the naive maker leads: on *)
(* each side by at least what the two quotes are apart (Leading, Gap), which no trade and no *)
(* requote makes more than the naive maker gains.                                            *)
(*********************************************************************************************)
EXTENDS StrategyEval, TLAPS

(* A maker's side, by its parts. *)
QuoteOf(a, p, r, f, w, n) == [active |-> a, px |-> p, remaining |-> r,
                              inFlight |-> f, wait |-> w, wantActive |-> n]

SideOf(q, s) == [quote |-> q, pos |-> s]

(* A position, by its parts. *)
PosOf(a, j, b) == [ahead |-> a, joinSeq |-> j, behind |-> b]

IsPos(s) == s = PosOf(s.ahead, s.joinSeq, s.behind)

(* A quote: its change in flight waits no longer than the latency. *)
IsQuote(q, l) ==
    /\ q = QuoteOf(q.active, q.px, q.remaining, q.inFlight, q.wait, q.wantActive)
    /\ q.active \in BOOLEAN /\ q.inFlight \in BOOLEAN /\ q.wantActive \in BOOLEAN
    /\ q.wait \in Nat /\ q.wait <= l

IsSide(m, l) == m = SideOf(m.quote, m.pos) /\ IsQuote(m.quote, l) /\ IsPos(m.pos)

(* FALSE and TRUE, where a side holds them. *)
Off == FALSE
On == TRUE

LEMMA QuoteParts ==
    ASSUME NEW a, NEW p, NEW r, NEW f, NEW w, NEW n, NEW s
    PROVE  LET m == SideOf(QuoteOf(a, p, r, f, w, n), s) IN
           /\ m.quote = QuoteOf(a, p, r, f, w, n) /\ m.pos = s
           /\ m.quote.active = a /\ m.quote.px = p /\ m.quote.remaining = r
           /\ m.quote.inFlight = f /\ m.quote.wait = w /\ m.quote.wantActive = n
  BY DEF SideOf, QuoteOf

(* The ways in which MarketMaker changes a side, named. *)
Moved(m, x) == [m EXCEPT !.pos = x]
Flying(m, x) == [m EXCEPT !.quote.inFlight = x]
Waiting(m, x) == [m EXCEPT !.quote.wait = x]
Having(m, x) == [m EXCEPT !.quote.remaining = x]
Switched(m, x, y) == [m EXCEPT !.quote.active = x, !.pos = y]
Spent(m, x, y, z) == [m EXCEPT !.quote.remaining = x, !.quote.active = y, !.pos = z]
Changing(m, x, y, z) ==
    [m EXCEPT !.quote.inFlight = x, !.quote.wantActive = y, !.quote.wait = z]
Placed(q, x, y, z) == [q EXCEPT !.active = x, !.px = y, !.remaining = z]

LEMMA QuoteChanges ==
    ASSUME NEW a, NEW p, NEW r, NEW f, NEW w, NEW n, NEW s
    PROVE  LET q == QuoteOf(a, p, r, f, w, n)
               m == SideOf(q, s) IN
           /\ \A x : Moved(m, x) = SideOf(q, x)
           /\ \A x : Flying(m, x) = SideOf(QuoteOf(a, p, r, x, w, n), s)
           /\ \A x : Waiting(m, x) = SideOf(QuoteOf(a, p, r, f, x, n), s)
           /\ \A x : Having(m, x) = SideOf(QuoteOf(a, p, x, f, w, n), s)
           /\ \A x, y : Switched(m, x, y) = SideOf(QuoteOf(x, p, r, f, w, n), y)
           /\ \A x, y, z : Spent(m, x, y, z) = SideOf(QuoteOf(y, p, x, f, w, n), z)
           /\ \A x, y, z : Changing(m, x, y, z) = SideOf(QuoteOf(a, p, r, x, z, y), s)
<1> DEFINE q == QuoteOf(a, p, r, f, w, n)
           m == SideOf(q, s)
<1>. HIDE DEF q
<1>1. ASSUME NEW x PROVE Moved(m, x) = SideOf(q, x)
  BY DEF SideOf, Moved
<1>2. ASSUME NEW x PROVE Flying(m, x) = SideOf(QuoteOf(a, p, r, x, w, n), s)
  <2>1. Flying(m, x) = SideOf([q EXCEPT !.inFlight = x], s)
    BY DEF SideOf, Flying
  <2>. QED  BY <2>1 DEF q, QuoteOf
<1>3. ASSUME NEW x PROVE Waiting(m, x) = SideOf(QuoteOf(a, p, r, f, x, n), s)
  <2>1. Waiting(m, x) = SideOf([q EXCEPT !.wait = x], s)
    BY DEF SideOf, Waiting
  <2>. QED  BY <2>1 DEF q, QuoteOf
<1>4. ASSUME NEW x PROVE Having(m, x) = SideOf(QuoteOf(a, p, x, f, w, n), s)
  <2>1. Having(m, x) = SideOf([q EXCEPT !.remaining = x], s)
    BY DEF SideOf, Having
  <2>. QED  BY <2>1 DEF q, QuoteOf
<1>5. ASSUME NEW x, NEW y PROVE Switched(m, x, y) = SideOf(QuoteOf(x, p, r, f, w, n), y)
  <2>1. Switched(m, x, y) = [[m EXCEPT !.quote.active = x] EXCEPT !.pos = y]
    BY DEF Switched
  <2>2. [m EXCEPT !.quote.active = x] = SideOf([q EXCEPT !.active = x], s)
    BY DEF SideOf
  <2>3. [q EXCEPT !.active = x] = QuoteOf(x, p, r, f, w, n)
    BY DEF q, QuoteOf
  <2>4. [SideOf(QuoteOf(x, p, r, f, w, n), s) EXCEPT !.pos = y] = SideOf(QuoteOf(x, p, r, f, w, n), y)
    BY DEF SideOf
  <2>. HIDE DEF m
  <2>. QED  BY <2>1, <2>2, <2>3, <2>4, Zenon
<1>6. ASSUME NEW x, NEW y, NEW z
      PROVE  Spent(m, x, y, z) = SideOf(QuoteOf(y, p, x, f, w, n), z)
  <2>1. Spent(m, x, y, z)
          = [[[m EXCEPT !.quote.remaining = x] EXCEPT !.quote.active = y] EXCEPT !.pos = z]
    BY DEF Spent
  <2>2. [m EXCEPT !.quote.remaining = x] = SideOf(QuoteOf(a, p, x, f, w, n), s)
    BY <1>4 DEF Having
  <2>3. [SideOf(QuoteOf(a, p, x, f, w, n), s) EXCEPT !.quote.active = y]
          = SideOf([QuoteOf(a, p, x, f, w, n) EXCEPT !.active = y], s)
    BY DEF SideOf
  <2>4. [QuoteOf(a, p, x, f, w, n) EXCEPT !.active = y] = QuoteOf(y, p, x, f, w, n)
    BY DEF QuoteOf
  <2>5. [SideOf(QuoteOf(y, p, x, f, w, n), s) EXCEPT !.pos = z] = SideOf(QuoteOf(y, p, x, f, w, n), z)
    BY DEF SideOf
  <2>. HIDE DEF m
  <2>. QED  BY <2>1, <2>2, <2>3, <2>4, <2>5, Zenon
<1>7. ASSUME NEW x, NEW y, NEW z
      PROVE  Changing(m, x, y, z) = SideOf(QuoteOf(a, p, r, x, z, y), s)
  <2>1. Changing(m, x, y, z)
          = [[[m EXCEPT !.quote.inFlight = x] EXCEPT !.quote.wantActive = y] EXCEPT !.quote.wait = z]
    BY DEF Changing
  <2>2. [m EXCEPT !.quote.inFlight = x] = SideOf(QuoteOf(a, p, r, x, w, n), s)
    BY <1>2 DEF Flying
  <2>3. [SideOf(QuoteOf(a, p, r, x, w, n), s) EXCEPT !.quote.wantActive = y]
          = SideOf([QuoteOf(a, p, r, x, w, n) EXCEPT !.wantActive = y], s)
    BY DEF SideOf
  <2>4. [QuoteOf(a, p, r, x, w, n) EXCEPT !.wantActive = y] = QuoteOf(a, p, r, x, w, y)
    BY DEF QuoteOf
  <2>5. [SideOf(QuoteOf(a, p, r, x, w, y), s) EXCEPT !.quote.wait = z]
          = SideOf([QuoteOf(a, p, r, x, w, y) EXCEPT !.wait = z], s)
    BY DEF SideOf
  <2>6. [QuoteOf(a, p, r, x, w, y) EXCEPT !.wait = z] = QuoteOf(a, p, r, x, z, y)
    BY DEF QuoteOf
  <2>. HIDE DEF m
  <2>. QED  BY <2>1, <2>2, <2>3, <2>4, <2>5, <2>6, Zenon
<1>. QED  BY <1>1, <1>2, <1>3, <1>4, <1>5, <1>6, <1>7, Zenon DEF q

LEMMA QuotePlaced ==
    ASSUME NEW a, NEW p, NEW r, NEW f, NEW w, NEW n, NEW x, NEW y, NEW z
    PROVE  Placed(QuoteOf(a, p, r, f, w, n), x, y, z) = QuoteOf(x, y, z, f, w, n)
<1> DEFINE q == QuoteOf(a, p, r, f, w, n)
<1>1. Placed(q, x, y, z) = [[[q EXCEPT !.active = x] EXCEPT !.px = y] EXCEPT !.remaining = z]
  BY DEF Placed
<1>2. [q EXCEPT !.active = x] = QuoteOf(x, p, r, f, w, n)
  BY DEF QuoteOf
<1>3. [QuoteOf(x, p, r, f, w, n) EXCEPT !.px = y] = QuoteOf(x, y, r, f, w, n)
  BY DEF QuoteOf
<1>4. [QuoteOf(x, y, r, f, w, n) EXCEPT !.remaining = z] = QuoteOf(x, y, z, f, w, n)
  BY DEF QuoteOf
<1>. QED  BY <1>1, <1>2, <1>3, <1>4, Zenon

LEMMA PosParts ==
    ASSUME NEW a, NEW j, NEW b
    PROVE  /\ PosOf(a, j, b).ahead = a /\ PosOf(a, j, b).joinSeq = j /\ PosOf(a, j, b).behind = b
  BY DEF PosOf

LEMMA PosChanges ==
    ASSUME NEW a, NEW j, NEW b
    PROVE  LET p == PosOf(a, j, b) IN
           /\ \A x, y : JoinQueue(p, x, y) = PosOf(x, y, b)
           /\ Leave(p) = PosOf(0, j, b)
           /\ \A x, y : OnExecution(p, x, y)
                          = PosOf(Max({0, a - y}), j, b \/ (a > 0 /\ ~IsAhead(p, x)))
           /\ \A x, y : OnCancel(p, x, y)
                          = IF IsAhead(p, x) THEN PosOf(Max({0, a - y}), j, b) ELSE p
<1>. SUFFICES ASSUME NEW x, NEW y
     PROVE  LET p == PosOf(a, j, b) IN
            /\ JoinQueue(p, x, y) = PosOf(x, y, b)
            /\ Leave(p) = PosOf(0, j, b)
            /\ OnExecution(p, x, y)
                  = PosOf(Max({0, a - y}), j, b \/ (a > 0 /\ ~IsAhead(p, x)))
            /\ OnCancel(p, x, y)
                  = IF IsAhead(p, x) THEN PosOf(Max({0, a - y}), j, b) ELSE p
  BY Zenon
<1>1. JoinQueue(PosOf(a, j, b), x, y) = PosOf(x, y, b)
  <2>1. JoinQueue(PosOf(a, j, b), x, y) = [[PosOf(a, j, b) EXCEPT !.ahead = x] EXCEPT !.joinSeq = y]
    BY DEF JoinQueue
  <2>2. [PosOf(a, j, b) EXCEPT !.ahead = x] = PosOf(x, j, b)
    BY DEF PosOf
  <2>3. [PosOf(x, j, b) EXCEPT !.joinSeq = y] = PosOf(x, y, b)
    BY DEF PosOf
  <2>. QED  BY <2>1, <2>2, <2>3, Zenon
<1>2. Leave(PosOf(a, j, b)) = PosOf(0, j, b)
  BY DEF PosOf, Leave
<1>3. ASSUME NEW u, NEW v
      PROVE  [PosOf(a, j, b) EXCEPT !.ahead = u, !.behind = v] = PosOf(u, j, v)
  <2>1. [PosOf(a, j, b) EXCEPT !.ahead = u, !.behind = v]
          = [[PosOf(a, j, b) EXCEPT !.ahead = u] EXCEPT !.behind = v]
    OBVIOUS
  <2>2. [PosOf(a, j, b) EXCEPT !.ahead = u] = PosOf(u, j, b)
    BY DEF PosOf
  <2>3. [PosOf(u, j, b) EXCEPT !.behind = v] = PosOf(u, j, v)
    BY DEF PosOf
  <2>. QED  BY <2>1, <2>2, <2>3, Zenon
<1>4. \A u : [PosOf(a, j, b) EXCEPT !.ahead = u] = PosOf(u, j, b)
  BY DEF PosOf
<1>5. PosOf(a, j, b).ahead = a /\ PosOf(a, j, b).behind = b
  BY DEF PosOf
<1>6. OnExecution(PosOf(a, j, b), x, y)
        = [PosOf(a, j, b) EXCEPT !.ahead = Max({0, a - y}),
                                 !.behind = b \/ (a > 0 /\ ~IsAhead(PosOf(a, j, b), x))]
  BY <1>5, Zenon DEF OnExecution
<1>7. OnCancel(PosOf(a, j, b), x, y)
        = IF IsAhead(PosOf(a, j, b), x) THEN [PosOf(a, j, b) EXCEPT !.ahead = Max({0, a - y})]
          ELSE PosOf(a, j, b)
  BY <1>5, Zenon DEF OnCancel
<1>. QED  BY <1>1, <1>2, <1>3, <1>4, <1>6, <1>7, Zenon

LEMMA SideParts ==
    ASSUME NEW l \in Nat, NEW m, IsSide(m, l)
    PROVE  \E a \in BOOLEAN, f \in BOOLEAN, n \in BOOLEAN, w \in Nat : \E p, r, h, j, k :
              m = SideOf(QuoteOf(a, p, r, f, w, n), PosOf(h, j, k)) /\ w <= l
  BY DEF IsSide, IsQuote, IsPos

LEMMA IsSideOf ==
    ASSUME NEW l \in Nat, NEW a \in BOOLEAN, NEW f \in BOOLEAN, NEW n \in BOOLEAN, NEW w \in Nat,
           NEW p, NEW r, NEW h, NEW j, NEW k, w <= l
    PROVE  IsSide(SideOf(QuoteOf(a, p, r, f, w, n), PosOf(h, j, k)), l)
  BY QuoteParts, PosParts DEF IsSide, IsQuote, IsPos

LEMMA MaxZero ==
    ASSUME NEW x \in Int
    PROVE  /\ Max({0, x}) \in Nat /\ Max({0, x}) >= x
           /\ x <= 0 => Max({0, x}) = 0
           /\ x >= 0 => Max({0, x}) = x
<1>1. \E y \in {0, x} : \A z \in {0, x} : y >= z
  BY DEF Max
<1>2. Max({0, x}) \in {0, x} /\ \A z \in {0, x} : Max({0, x}) >= z
  BY <1>1 DEF Max
<1>. QED  BY <1>2

LEMMA MinOfTwo ==
    ASSUME NEW x \in Int, NEW y \in Int
    PROVE  /\ Min({x, y}) = IF x <= y THEN x ELSE y
<1>1. \E u \in {x, y} : \A z \in {x, y} : u <= z
  OBVIOUS
<1>2. Min({x, y}) \in {x, y} /\ \A z \in {x, y} : Min({x, y}) <= z
  BY <1>1 DEF Min
<1>. QED  BY <1>2

LEMMA AgedParts ==
    ASSUME NEW l \in Nat, NEW m, IsSide(m, l), NEW d \in Nat
    PROVE  LET v == Aged(m, d) IN
           /\ IsSide(v, l) /\ v.pos = m.pos
           /\ v.quote.active = m.quote.active /\ v.quote.px = m.quote.px
           /\ v.quote.remaining = m.quote.remaining /\ v.quote.inFlight = m.quote.inFlight
           /\ v.quote.wantActive = m.quote.wantActive /\ v.quote.wait <= m.quote.wait
           /\ m.quote.wait <= d => v.quote.wait = 0
<1>s. PICK a \in BOOLEAN, f \in BOOLEAN, n \in BOOLEAN, w \in Nat : \E p, r, h, j, k :
         m = SideOf(QuoteOf(a, p, r, f, w, n), PosOf(h, j, k)) /\ w <= l
  BY SideParts
<1>1. PICK p, r, h, j, k :
         m = SideOf(QuoteOf(a, p, r, f, w, n), PosOf(h, j, k)) /\ w <= l
  BY <1>s
<1>2. m.quote.wait = w
  BY <1>1, QuoteParts
<1>3. Max({0, w - d}) \in Nat /\ Max({0, w - d}) <= w /\ (w <= d => Max({0, w - d}) = 0)
  BY MaxZero
<1>4. Aged(m, d) = Waiting(m, Max({0, w - d}))
  BY <1>2 DEF Aged, Waiting
<1>5. Aged(m, d) = SideOf(QuoteOf(a, p, r, f, Max({0, w - d}), n), PosOf(h, j, k))
  BY <1>1, <1>4, QuoteChanges
<1>6. IsSide(Aged(m, d), l)
  BY <1>1, <1>3, <1>5, IsSideOf
<1>. QED  BY <1>1, <1>3, <1>5, <1>6, QuoteParts

LEMMA LandParts ==
    ASSUME NEW l \in Nat, NEW m, IsSide(m, l), NEW b, NEW side
    PROVE  LET v == LandIfDue(m, b, side) IN
           /\ IsSide(v, l) /\ v.pos.behind = m.pos.behind
           /\ ~m.quote.inFlight \/ m.quote.wait > 0 => v = m
           /\ m.quote.inFlight /\ m.quote.wait = 0 =>
                 /\ ~v.quote.inFlight /\ v.quote.wait = 0
                 /\ v.quote.active = m.quote.wantActive
                 /\ v.quote.active => /\ v.quote.px = Best(b, side)
                                      /\ v.quote.remaining = QuoteSize
                                      /\ v.pos.ahead = RestingAt(b, side, Best(b, side))
                                      /\ v.pos.joinSeq = b.nextSeq
<1>s. PICK a \in BOOLEAN, f \in BOOLEAN, n \in BOOLEAN, w \in Nat : \E p, r, h, j, k :
         m = SideOf(QuoteOf(a, p, r, f, w, n), PosOf(h, j, k)) /\ w <= l
  BY SideParts
<1>1. PICK p, r, h, j, k :
         m = SideOf(QuoteOf(a, p, r, f, w, n), PosOf(h, j, k)) /\ w <= l
  BY <1>s
<1>2. m.quote.wait = w /\ m.quote.inFlight = f /\ m.quote.wantActive = n /\ m.pos.behind = k
  BY <1>1, QuoteParts, PosParts
<1>0. On \in BOOLEAN /\ Off \in BOOLEAN /\ On /\ ~Off
  BY DEF On, Off
<1>3. CASE ~m.quote.inFlight \/ m.quote.wait > 0
  <2>1. LandIfDue(m, b, side) = m
    BY <1>3 DEF LandIfDue
  <2>. QED  BY <1>3, <2>1, <1>2
<1>4. CASE m.quote.inFlight /\ m.quote.wait = 0
  <2> DEFINE landed == Flying(m, Off)
             bp == Best(b, side)
  <2>1. landed = SideOf(QuoteOf(a, p, r, Off, w, n), PosOf(h, j, k))
    BY <1>1, QuoteChanges
  <2>2. /\ landed.quote = QuoteOf(a, p, r, Off, w, n) /\ landed.pos = PosOf(h, j, k)
    BY <2>1, QuoteParts
  <2>. HIDE DEF landed
  <2>3. CASE n
    <3>1. LandIfDue(m, b, side) = Join(landed, b, side)
      BY <1>2, <1>4, <2>3 DEF LandIfDue, landed, Flying, Off
    <3>2. Join(landed, b, side)
             = SideOf(Placed(landed.quote, On, bp, QuoteSize),
                      JoinQueue(landed.pos, RestingAt(b, side, bp), b.nextSeq))
      BY DEF Join, SideOf, Placed, On
    <3>3. Placed(landed.quote, On, bp, QuoteSize)
             = QuoteOf(On, bp, QuoteSize, Off, w, n)
      BY <2>2, QuotePlaced
    <3>4. JoinQueue(landed.pos, RestingAt(b, side, bp), b.nextSeq)
             = PosOf(RestingAt(b, side, bp), b.nextSeq, k)
      BY <2>2, PosChanges
    <3>5. LandIfDue(m, b, side) = SideOf(QuoteOf(On, bp, QuoteSize, Off, w, n),
                                         PosOf(RestingAt(b, side, bp), b.nextSeq, k))
      BY <3>1, <3>2, <3>3, <3>4
    <3>. HIDE DEF bp
    <3>6. IsSide(SideOf(QuoteOf(On, bp, QuoteSize, Off, w, n),
                        PosOf(RestingAt(b, side, bp), b.nextSeq, k)), l)
      BY <1>0, <1>1, IsSideOf
    <3>7. LET v == LandIfDue(m, b, side) IN
          /\ v.quote.active = On /\ v.quote.px = bp /\ v.quote.remaining = QuoteSize
          /\ v.quote.inFlight = Off /\ v.quote.wait = w
          /\ v.pos.ahead = RestingAt(b, side, bp) /\ v.pos.joinSeq = b.nextSeq
          /\ v.pos.behind = k
      BY <3>5, QuoteParts, PosParts
    <3>. QED  BY <3>5, <3>6, <3>7, <1>0, <1>2, <1>4, <2>3 DEF bp
  <2>4. CASE ~n
    <3>1. LandIfDue(m, b, side) = Switched(landed, Off, Leave(landed.pos))
      BY <1>2, <1>4, <2>4 DEF LandIfDue, landed, Flying, Switched, Off
    <3>2. Leave(landed.pos) = PosOf(0, j, k)
      BY <2>2, PosChanges
    <3>3. LandIfDue(m, b, side) = SideOf(QuoteOf(Off, p, r, Off, w, n), PosOf(0, j, k))
      BY <3>1, <3>2, <2>1, QuoteChanges
    <3>4. IsSide(SideOf(QuoteOf(Off, p, r, Off, w, n), PosOf(0, j, k)), l)
      BY <1>0, <1>1, IsSideOf
    <3>5. LET v == LandIfDue(m, b, side) IN
          /\ v.quote.active = Off /\ v.quote.inFlight = Off /\ v.quote.wait = w
          /\ v.pos.behind = k
      BY <3>3, QuoteParts, PosParts
    <3>. QED  BY <3>3, <3>4, <3>5, <1>0, <1>2, <1>4, <2>4
  <2>. QED  BY <2>3, <2>4
<1>. QED  BY <1>2, <1>3, <1>4

LEMMA DecideParts ==
    ASSUME NEW l \in Nat, NEW m, IsSide(m, l), NEW b, NEW side,
           latency = l, allow[side] \in BOOLEAN
    PROVE  LET v == Decide(m, b, side) IN
           /\ IsSide(v, l) /\ v.pos = m.pos
           /\ v.quote.active = m.quote.active /\ v.quote.px = m.quote.px
           /\ v.quote.remaining = m.quote.remaining
           /\ \/ m.quote.inFlight
              \/ m.quote.active = allow[side] /\ (m.quote.active => m.quote.px = Best(b, side))
              => v = m
           /\ ~m.quote.inFlight
              /\ ~(m.quote.active = allow[side] /\ (m.quote.active => m.quote.px = Best(b, side)))
              => v.quote.inFlight /\ v.quote.wait = l /\ v.quote.wantActive = allow[side]
<1>s. PICK a \in BOOLEAN, f \in BOOLEAN, n \in BOOLEAN, w \in Nat : \E p, r, h, j, k :
         m = SideOf(QuoteOf(a, p, r, f, w, n), PosOf(h, j, k)) /\ w <= l
  BY SideParts
<1>1. PICK p, r, h, j, k :
         m = SideOf(QuoteOf(a, p, r, f, w, n), PosOf(h, j, k)) /\ w <= l
  BY <1>s
<1> DEFINE agrees == m.quote.active = allow[side] /\ (m.quote.active => m.quote.px = Best(b, side))
<1>2. CASE m.quote.inFlight \/ agrees
  <2>1. Decide(m, b, side) = m
    BY <1>2 DEF Decide
  <2>. QED  BY <1>2, <2>1
<1>3. CASE ~(m.quote.inFlight \/ agrees)
  <2> DEFINE on == allow[side]
  <2>1. Decide(m, b, side) = Changing(m, On, on, l)
    BY <1>3 DEF Decide, Changing, On
  <2>2. on \in BOOLEAN /\ On \in BOOLEAN /\ On /\ l <= l
    BY DEF On
  <2>. HIDE DEF on
  <2>3. Decide(m, b, side) = SideOf(QuoteOf(a, p, r, On, l, on), PosOf(h, j, k))
    BY <1>1, <2>1, QuoteChanges
  <2>4. IsSide(SideOf(QuoteOf(a, p, r, On, l, on), PosOf(h, j, k)), l)
    BY <2>2, IsSideOf
  <2>5. LET v == Decide(m, b, side) IN
        /\ v.quote.inFlight = On /\ v.quote.wait = l /\ v.quote.wantActive = on
        /\ v.quote.active = a /\ v.quote.px = p /\ v.quote.remaining = r /\ v.pos = PosOf(h, j, k)
    BY <2>3, QuoteParts
  <2>6. /\ m.quote.active = a /\ m.quote.px = p /\ m.quote.remaining = r
        /\ m.pos = PosOf(h, j, k)
    BY <1>1, QuoteParts
  <2>. QED  BY <1>3, <2>2, <2>3, <2>4, <2>5, <2>6 DEF on
<1>. QED  BY <1>2, <1>3

(* The end of an event, where the book is two-sided: what is decided and is due lands. *)
Late(m, b, side) == LandIfDue(Decide(m, b, side), b, side)

LEMMA LateParts ==
    ASSUME NEW l \in Nat, NEW m, IsSide(m, l), NEW b, NEW side,
           latency = l, allow[side] \in BOOLEAN
    PROVE  LET v == Late(m, b, side) IN
           /\ IsSide(v, l)
           /\ v.quote.inFlight => v.quote.wait > 0
           /\ l = 0 /\ ~m.quote.inFlight =>
                 /\ ~v.quote.inFlight
                 /\ v.quote.active = allow[side]
                 /\ v.quote.active => v.quote.px = Best(b, side)
                 /\ m.quote.active = allow[side] /\ (m.quote.active => m.quote.px = Best(b, side))
                       => v = m
                 /\ ~(m.quote.active = allow[side]
                      /\ (m.quote.active => m.quote.px = Best(b, side))) /\ v.quote.active
                       => v.quote.remaining = QuoteSize
                          /\ v.pos.ahead = RestingAt(b, side, Best(b, side))
<1> DEFINE u == Decide(m, b, side)
           v == LandIfDue(u, b, side)
           agrees == m.quote.active = allow[side] /\ (m.quote.active => m.quote.px = Best(b, side))
<1>1. /\ IsSide(u, l)
      /\ m.quote.inFlight \/ agrees => u = m
      /\ ~m.quote.inFlight /\ ~agrees
         => u.quote.inFlight /\ u.quote.wait = l /\ u.quote.wantActive = allow[side]
  BY DecideParts
<1>. HIDE DEF u
<1>2. /\ IsSide(v, l)
      /\ ~u.quote.inFlight \/ u.quote.wait > 0 => v = u
      /\ u.quote.inFlight /\ u.quote.wait = 0 =>
            /\ ~v.quote.inFlight /\ v.quote.wait = 0
            /\ v.quote.active = u.quote.wantActive
            /\ v.quote.active => /\ v.quote.px = Best(b, side)
                                 /\ v.quote.remaining = QuoteSize
                                 /\ v.pos.ahead = RestingAt(b, side, Best(b, side))
  BY <1>1, LandParts
<1>3. Late(m, b, side) = v
  BY DEF Late, u
<1>4. u.quote.wait \in Nat /\ u.quote.inFlight \in BOOLEAN
  BY <1>1 DEF IsSide, IsQuote
<1>. HIDE DEF v
<1>5. v.quote.inFlight => v.quote.wait > 0
  BY <1>2, <1>4
<1>6. ASSUME l = 0, ~m.quote.inFlight, agrees
      PROVE  v = m
  BY <1>1, <1>2, <1>6
<1>7. ASSUME l = 0, ~m.quote.inFlight, ~agrees
      PROVE  /\ ~v.quote.inFlight /\ v.quote.active = allow[side]
             /\ v.quote.active => /\ v.quote.px = Best(b, side)
                                  /\ v.quote.remaining = QuoteSize
                                  /\ v.pos.ahead = RestingAt(b, side, Best(b, side))
  BY <1>1, <1>2, <1>7
<1>. QED  BY <1>2, <1>3, <1>5, <1>6, <1>7

LEMMA FilledParts ==
    ASSUME NEW l \in Nat, NEW m, IsSide(m, l), NEW shares
    PROVE  LET v == Filled(m, shares) IN
           /\ IsSide(v, l) /\ v.pos.behind = m.pos.behind
           /\ v.quote.px = m.quote.px /\ v.quote.inFlight = m.quote.inFlight
           /\ v.quote.wait = m.quote.wait
           /\ shares < m.quote.remaining => /\ v.quote.active = m.quote.active
                                            /\ v.quote.remaining = m.quote.remaining - shares
                                            /\ v.pos = m.pos
           /\ ~(shares < m.quote.remaining) => /\ ~v.quote.active /\ v.quote.remaining = 0
                                               /\ v.pos.ahead = 0
<1>s. PICK a \in BOOLEAN, f \in BOOLEAN, n \in BOOLEAN, w \in Nat : \E p, r, h, j, k :
         m = SideOf(QuoteOf(a, p, r, f, w, n), PosOf(h, j, k)) /\ w <= l
  BY SideParts
<1>1. PICK p, r, h, j, k :
         m = SideOf(QuoteOf(a, p, r, f, w, n), PosOf(h, j, k)) /\ w <= l
  BY <1>s
<1>2. m.quote.remaining = r /\ m.pos = PosOf(h, j, k) /\ m.quote.active = a /\ m.quote.px = p
      /\ m.quote.inFlight = f /\ m.quote.wait = w
  BY <1>1, QuoteParts
<1>3. CASE shares < m.quote.remaining
  <2>1. Filled(m, shares) = Having(m, r - shares)
    BY <1>2, <1>3 DEF Filled, Having
  <2>2. Filled(m, shares) = SideOf(QuoteOf(a, p, r - shares, f, w, n), PosOf(h, j, k))
    BY <1>1, <2>1, QuoteChanges
  <2>3. IsSide(SideOf(QuoteOf(a, p, r - shares, f, w, n), PosOf(h, j, k)), l)
    BY <1>1, IsSideOf
  <2>. QED  BY <1>2, <1>3, <2>2, <2>3, QuoteParts
<1>4. CASE ~(shares < m.quote.remaining)
  <2>1. Filled(m, shares) = Spent(m, 0, Off, Leave(m.pos))
    BY <1>2, <1>4 DEF Filled, Spent, Off
  <2>2. Leave(m.pos) = PosOf(0, j, k)
    BY <1>2, PosChanges
  <2>3. PICK none \in Nat : none = 0
    OBVIOUS
  <2>4. Filled(m, shares) = SideOf(QuoteOf(Off, p, none, f, w, n), PosOf(none, j, k))
    BY <1>1, <2>1, <2>2, <2>3, QuoteChanges
  <2>5. Off \in BOOLEAN /\ ~Off
    BY DEF Off
  <2>6. IsSide(SideOf(QuoteOf(Off, p, none, f, w, n), PosOf(none, j, k)), l)
    BY <1>1, <2>5, IsSideOf
  <2>. QED  BY <1>2, <1>4, <2>3, <2>4, <2>5, <2>6, QuoteParts, PosParts
<1>. QED  BY <1>3, <1>4

(* Where a position is moved to by an event, whatever is filled. *)
Shifted(model, m, side, pre, e) ==
    IF ~m.quote.active \/ pre.side # side \/ pre.price # m.quote.px THEN m.pos
    ELSE IF e.type = "Execute"
    THEN IF model = "Naive" THEN m.pos ELSE OnExecution(m.pos, pre.seq, e.shares)
    ELSE OnCancel(m.pos, pre.seq, IF e.type = "Cancel" THEN e.shares ELSE pre.qty)

LEMMA StepForm ==
    ASSUME NEW model, NEW m, NEW side, NEW pre, NEW e
    PROVE  StepSide(model, m, side, pre, e)
             = IF FillOf(model, m, side, pre, e) = 0 THEN Moved(m, Shifted(model, m, side, pre, e))
               ELSE Filled(Moved(m, Shifted(model, m, side, pre, e)), FillOf(model, m, side, pre, e))
  BY Zenon DEF StepSide, Moved, Shifted

LEMMA IsPosOf ==
    ASSUME NEW h, NEW j, NEW k PROVE IsPos(PosOf(h, j, k))
  BY PosParts DEF IsPos

LEMMA PosMoves ==
    ASSUME NEW s, IsPos(s), NEW x, NEW y
    PROVE  /\ IsPos(OnExecution(s, x, y)) /\ OnExecution(s, x, y).ahead = Max({0, s.ahead - y})
           /\ IsPos(OnCancel(s, x, y))
           /\ \/ OnCancel(s, x, y).ahead = s.ahead
              \/ OnCancel(s, x, y).ahead = Max({0, s.ahead - y})
<1>1. PICK h, j, k : s = PosOf(h, j, k)
  BY DEF IsPos
<1>2. s.ahead = h
  BY <1>1, PosParts
<1>3. PICK c : c = (k \/ (h > 0 /\ ~IsAhead(s, x)))
  OBVIOUS
<1> DEFINE less == Max({0, h - y})
<1>4. OnExecution(s, x, y) = PosOf(less, j, c)
  <2>1. OnExecution(PosOf(h, j, k), x, y)
          = PosOf(less, j, k \/ (h > 0 /\ ~IsAhead(PosOf(h, j, k), x)))
    BY PosChanges
  <2>. QED  BY <1>1, <1>3, <2>1, Zenon
<1>5. OnCancel(s, x, y) = IF IsAhead(s, x) THEN PosOf(less, j, k) ELSE s
  <2>1. OnCancel(PosOf(h, j, k), x, y)
          = IF IsAhead(PosOf(h, j, k), x) THEN PosOf(less, j, k) ELSE PosOf(h, j, k)
    BY PosChanges
  <2>. QED  BY <1>1, <2>1, Zenon
<1>. HIDE DEF less
<1>6. IsPos(PosOf(less, j, c)) /\ IsPos(PosOf(less, j, k))
  BY IsPosOf
<1>7. PosOf(less, j, c).ahead = less /\ PosOf(less, j, k).ahead = less
  BY PosParts
<1>8. IsPos(OnExecution(s, x, y)) /\ OnExecution(s, x, y).ahead = less
  BY <1>4, <1>6, <1>7, Zenon
<1>9. IsPos(OnCancel(s, x, y)) /\ (OnCancel(s, x, y).ahead = s.ahead \/ OnCancel(s, x, y).ahead = less)
  <2>1. CASE IsAhead(s, x)
    BY <1>5, <1>6, <1>7, <2>1
  <2>2. CASE ~IsAhead(s, x)
    BY <1>5, <2>2
  <2>. QED  BY <2>1, <2>2
<1>. QED  BY <1>2, <1>8, <1>9 DEF less

LEMMA ShiftedPos ==
    ASSUME NEW l \in Nat, NEW m, IsSide(m, l), NEW model, NEW side, NEW pre, NEW e
    PROVE  LET s == Shifted(model, m, side, pre, e) IN
           /\ IsPos(s)
           /\ \/ s.ahead = m.pos.ahead
              \/ s.ahead = Max({0, m.pos.ahead - e.shares})
              \/ s.ahead = Max({0, m.pos.ahead - pre.qty})
<1> DEFINE s == Shifted(model, m, side, pre, e)
<1>0. IsPos(m.pos)
  BY DEF IsSide
<1> DEFINE Fits(x) == /\ IsPos(x)
                      /\ \/ x.ahead = m.pos.ahead
                         \/ x.ahead = Max({0, m.pos.ahead - e.shares})
                         \/ x.ahead = Max({0, m.pos.ahead - pre.qty})
<1>1. Fits(m.pos)
  BY <1>0
<1>2. Fits(OnExecution(m.pos, pre.seq, e.shares))
  BY <1>0, PosMoves
<1>3. Fits(OnCancel(m.pos, pre.seq, e.shares))
  BY <1>0, PosMoves
<1>4. Fits(OnCancel(m.pos, pre.seq, pre.qty))
  <2>1. PICK c : c = pre.qty
    OBVIOUS
  <2>2. /\ IsPos(OnCancel(m.pos, pre.seq, c))
        /\ \/ OnCancel(m.pos, pre.seq, c).ahead = m.pos.ahead
           \/ OnCancel(m.pos, pre.seq, c).ahead = Max({0, m.pos.ahead - c})
    BY <1>0, PosMoves
  <2>. QED  BY <2>1, <2>2
<1>5. \/ s = m.pos \/ s = OnExecution(m.pos, pre.seq, e.shares)
      \/ s = OnCancel(m.pos, pre.seq, e.shares) \/ s = OnCancel(m.pos, pre.seq, pre.qty)
  BY DEF Shifted
<1>. HIDE DEF s
<1>6. Fits(s)
  BY <1>1, <1>2, <1>3, <1>4, <1>5
<1>. QED  BY <1>6 DEF s

LEMMA ShiftedParts ==
    ASSUME NEW l \in Nat, NEW m, IsSide(m, l), NEW model, NEW side, NEW pre, NEW e
    PROVE  LET s == Shifted(model, m, side, pre, e)
               v == Moved(m, s) IN
           IsSide(v, l) /\ v.quote = m.quote /\ v.pos = s
<1> DEFINE s == Shifted(model, m, side, pre, e)
<1>1. IsPos(s)
  BY ShiftedPos
<1>. HIDE DEF s
<1>s. PICK a \in BOOLEAN, f \in BOOLEAN, n \in BOOLEAN, w \in Nat : \E p, r, h, j, k :
         m = SideOf(QuoteOf(a, p, r, f, w, n), PosOf(h, j, k)) /\ w <= l
  BY SideParts
<1>2. PICK p, r, h, j, k :
         m = SideOf(QuoteOf(a, p, r, f, w, n), PosOf(h, j, k)) /\ w <= l
  BY <1>s
<1>3. Moved(m, s) = SideOf(QuoteOf(a, p, r, f, w, n), s)
  BY <1>2, QuoteChanges
<1>4. m.quote = QuoteOf(a, p, r, f, w, n)
  BY <1>2, QuoteParts
<1>5. Moved(m, s).quote = m.quote /\ Moved(m, s).pos = s
  BY <1>3, <1>4, QuoteParts
<1>6. IsSide(Moved(m, s), l)
  BY <1>1, <1>3, <1>4, <1>5 DEF IsSide
<1>. QED  BY <1>1, <1>5, <1>6 DEF s

LEMMA StepParts ==
    ASSUME NEW l \in Nat, NEW m, IsSide(m, l), NEW model, NEW side, NEW pre, NEW e
    PROVE  LET v == StepSide(model, m, side, pre, e)
               shares == FillOf(model, m, side, pre, e)
               s == Shifted(model, m, side, pre, e) IN
           /\ IsSide(v, l) /\ v.pos.behind = s.behind
           /\ v.quote.px = m.quote.px /\ v.quote.inFlight = m.quote.inFlight
           /\ v.quote.wait = m.quote.wait
           /\ shares = 0 => v.quote = m.quote /\ v.pos = s
           /\ shares # 0 /\ shares < m.quote.remaining =>
                 /\ v.quote.active = m.quote.active
                 /\ v.quote.remaining = m.quote.remaining - shares /\ v.pos = s
           /\ shares # 0 /\ ~(shares < m.quote.remaining) =>
                 /\ ~v.quote.active /\ v.quote.remaining = 0 /\ v.pos.ahead = 0
<1> DEFINE s == Shifted(model, m, side, pre, e)
           u == Moved(m, s)
           shares == FillOf(model, m, side, pre, e)
           v == StepSide(model, m, side, pre, e)
<1>1. v = IF shares = 0 THEN u ELSE Filled(u, shares)
  BY StepForm
<1>2. IsSide(u, l) /\ u.quote = m.quote /\ u.pos = s
  BY ShiftedParts
<1>. HIDE DEF u, s, shares, v
<1>3. CASE shares = 0
  BY <1>1, <1>2, <1>3 DEF u, s, shares, v
<1>4. CASE shares # 0
  <2>1. v = Filled(u, shares)
    BY <1>1, <1>4
  <2>2. /\ IsSide(v, l) /\ v.pos.behind = u.pos.behind
        /\ v.quote.px = u.quote.px /\ v.quote.inFlight = u.quote.inFlight
        /\ v.quote.wait = u.quote.wait
        /\ shares < u.quote.remaining => /\ v.quote.active = u.quote.active
                                         /\ v.quote.remaining = u.quote.remaining - shares
                                         /\ v.pos = u.pos
        /\ ~(shares < u.quote.remaining) => /\ ~v.quote.active /\ v.quote.remaining = 0
                                            /\ v.pos.ahead = 0
    BY <1>2, <2>1, FilledParts
  <2>. QED  BY <1>2, <1>4, <2>2 DEF u, s, shares, v
<1>. QED  BY <1>3, <1>4

-----------------------------------------------------------------------------
(* The parts of on_event: a side when the event is read, after it, and at the end. *)
Early(m, b, d, side) == Arrived(Aged(m, d), b, side)

PreOf(b, e) == CHOOSE p \in Resolved(b, e) : TRUE

Stepped(model, m, side, b, e) ==
    IF Resolved(b, e) = {} THEN m ELSE StepSide(model, m, side, PreOf(b, e), e)

Ended(m, b, side) == IF TwoSided(b) THEN Late(m, b, side) ELSE m

LEMMA EventForm ==
    ASSUME NEW e, NEW d, OnEvent(e, d), NEW model \in Models, NEW side \in Sides
    PROVE  LET early == Early(maker[model][side], Asked(book), d, side) IN
           /\ maker[model][side]' = Ended(Stepped(model, early, side, Asked(book), e), book', side)
           /\ book' = Asked(Apply(Asked(book), e)) /\ latency' = latency
<1> DEFINE before == Asked(book)
           pres == Resolved(before, e)
           after == Asked(Apply(before, e))
           pre == CHOOSE p \in pres : TRUE
           opened == TwoSided(after)
           early == [mo \in Models |-> [si \in Sides |->
                        Arrived(Aged(maker[mo][si], d), before, si)]]
           Step(mo, si) == IF pres = {} THEN early[mo][si]
                           ELSE StepSide(mo, early[mo][si], si, pre, e)
           Last(m, si) == IF opened THEN LandIfDue(Decide(m, after, si), after, si) ELSE m
<1>1. /\ book' = after /\ latency' = latency
      /\ maker' = [mo \in Models |-> [si \in Sides |-> Last(Step(mo, si), si)]]
  BY Zenon DEF OnEvent
<1>2. early[model][side] = Early(maker[model][side], before, d, side)
  BY Zenon DEF Early
<1>3. Step(model, side) = Stepped(model, early[model][side], side, before, e)
  BY Zenon DEF Stepped, PreOf
<1>4. Last(Step(model, side), side) = Ended(Step(model, side), after, side)
  BY Zenon DEF Ended, Late
<1>5. maker'[model][side] = Last(Step(model, side), side)
  <2>. HIDE DEF Last, Step
  <2>. QED  BY <1>1
<1>. HIDE DEF Last, Step, early
<1>. QED  BY <1>1, <1>2, <1>3, <1>4, <1>5

LEMMA EarlyParts ==
    ASSUME NEW l \in Nat, NEW m, IsSide(m, l), NEW b, NEW d \in Nat, NEW side
    PROVE  LET v == Early(m, b, d, side) IN
           /\ IsSide(v, l)
           /\ ~m.quote.inFlight => /\ ~v.quote.inFlight /\ v.pos = m.pos
                                   /\ v.quote.active = m.quote.active /\ v.quote.px = m.quote.px
                                   /\ v.quote.remaining = m.quote.remaining
<1> DEFINE u == Aged(m, d)
           v == LandIfDue(u, b, side)
<1>1. /\ IsSide(u, l) /\ u.pos = m.pos
      /\ u.quote.active = m.quote.active /\ u.quote.px = m.quote.px
      /\ u.quote.remaining = m.quote.remaining /\ u.quote.inFlight = m.quote.inFlight
  BY AgedParts
<1>. HIDE DEF u
<1>2. IsSide(v, l) /\ (~u.quote.inFlight \/ u.quote.wait > 0 => v = u)
  BY <1>1, LandParts
<1>3. Early(m, b, d, side) = IF TwoSided(b) THEN v ELSE u
  BY DEF Early, Arrived, u
<1>. HIDE DEF v
<1>. QED  BY <1>1, <1>2, <1>3

LEMMA SteppedParts ==
    ASSUME NEW l \in Nat, NEW model, NEW m, IsSide(m, l), NEW side, NEW b, NEW e
    PROVE  LET v == Stepped(model, m, side, b, e) IN
           /\ IsSide(v, l) /\ v.quote.px = m.quote.px
           /\ v.quote.inFlight = m.quote.inFlight /\ v.quote.wait = m.quote.wait
<1>1. Stepped(model, m, side, b, e)
         = IF Resolved(b, e) = {} THEN m ELSE StepSide(model, m, side, PreOf(b, e), e)
  BY DEF Stepped
<1>2. LET v == StepSide(model, m, side, PreOf(b, e), e) IN
      /\ IsSide(v, l) /\ v.quote.px = m.quote.px
      /\ v.quote.inFlight = m.quote.inFlight /\ v.quote.wait = m.quote.wait
  BY StepParts
<1>. QED  BY <1>1, <1>2

LEMMA EndedParts ==
    ASSUME NEW l \in Nat, NEW m, IsSide(m, l), NEW b, NEW side,
           latency = l, allow[side] \in BOOLEAN
    PROVE  LET v == Ended(m, b, side) IN
           /\ IsSide(v, l)
           /\ TwoSided(b) /\ v.quote.inFlight => v.quote.wait > 0
<1>1. IsSide(Late(m, b, side), l)
      /\ (Late(m, b, side).quote.inFlight => Late(m, b, side).quote.wait > 0)
  BY LateParts
<1>. QED  BY <1>1 DEF Ended

(* The delay of every change is what the policy of the run has it be, and every side is *)
(* a quote and a position.                                                              *)
Delayed == /\ policy \in Policies /\ latency = policy.latency
           /\ allow \in [Sides -> BOOLEAN]
           /\ \A model \in Models, side \in Sides : IsSide(maker[model][side], latency)

LatencyIsNat == latency \in Nat

LEMMA DelayedIsNat == Delayed => LatencyIsNat
  BY PolicyAssumption DEF Delayed, LatencyIsNat

LEMMA InitDelayed == Init => Delayed
<1>. SUFFICES ASSUME Init PROVE Delayed
  OBVIOUS
<1>1. /\ policy \in Policies /\ latency = policy.latency /\ latency \in Nat
      /\ allow \in [Sides -> BOOLEAN]
  BY PolicyAssumption DEF Init, MakerInit
<1>2. ASSUME NEW model \in Models, NEW side \in Sides
      PROVE  IsSide(maker[model][side], latency)
  <2>1. PICK none \in Nat : none = 0
    OBVIOUS
  <2>2. On \in BOOLEAN /\ Off \in BOOLEAN
    BY DEF On, Off
  <2>3. maker[model][side] = SideOf(QuoteOf(Off, none, none, Off, none, On), PosOf(none, none, Off))
    BY <2>1 DEF Init, MakerInit, Idle, NewPosition, SideOf, QuoteOf, PosOf, On, Off
  <2>. QED  BY <1>1, <2>1, <2>2, <2>3, IsSideOf
<1>. QED  BY <1>1, <1>2 DEF Delayed

LEMMA NextIsEvent ==
    ASSUME Next
    PROVE  \E e : Event(e) /\ \E d \in Elapsed : OnEvent(e, d)
  BY Zenon DEF Next, AddEvent, ExecuteEvent, CancelEvent, DeleteEvent, ReplaceEvent, Event

LEMMA AllowsIsPolicy ==
    ASSUME SetQuoting, allow \in [Sides -> BOOLEAN]
    PROVE  allow' \in [Sides -> BOOLEAN]
<1>1. ASSUME NEW t PROVE Allows(t) \in [Sides -> BOOLEAN]
  <2> DEFINE off == IF policy.mode = "HeavyOnly"
                    THEN [Buy |-> AskHeavy(t, policy.threshold), Sell |-> BidHeavy(t, policy.threshold)]
                    ELSE [Buy |-> BidHeavy(t, policy.threshold), Sell |-> AskHeavy(t, policy.threshold)]
  <2>1. Allows(t) = [side \in Sides |-> ~off[side]]
    BY Zenon DEF Allows
  <2>. HIDE DEF off
  <2>. QED  BY <2>1
<1>. QED  BY <1>1, Zenon DEF SetQuoting

LEMMA SideAfterEvent ==
    ASSUME Delayed, NEW e, NEW d \in Elapsed, OnEvent(e, d), NEW model \in Models, NEW side \in Sides
    PROVE  /\ IsSide(maker[model][side]', latency)
           /\ TwoSided(book') /\ maker[model][side]'.quote.inFlight
                 => maker[model][side]'.quote.wait > 0
<1> DEFINE early == Early(maker[model][side], Asked(book), d, side)
           step == Stepped(model, early, side, Asked(book), e)
<1>1. maker[model][side]' = Ended(step, book', side)
  BY EventForm
<1>2. PICK l \in Nat : l = latency
  BY DelayedIsNat DEF LatencyIsNat
<1>3. IsSide(maker[model][side], l) /\ allow[side] \in BOOLEAN /\ d \in Nat
  BY <1>2, MakerAssumption DEF Delayed
<1>4. IsSide(early, l)
  BY <1>3, EarlyParts
<1>. HIDE DEF early
<1>5. IsSide(step, l)
  BY <1>4, SteppedParts
<1>. HIDE DEF step
<1>6. PICK b : b = book'
  OBVIOUS
<1>7. LET v == Ended(step, b, side) IN
      IsSide(v, l) /\ (TwoSided(b) /\ v.quote.inFlight => v.quote.wait > 0)
  BY <1>2, <1>3, <1>5, EndedParts
<1>. QED  BY <1>1, <1>2, <1>6, <1>7

LEMMA NextDelayed == Delayed /\ [Next]_vars => Delayed'
<1>. SUFFICES ASSUME Delayed, [Next]_vars PROVE Delayed'
  OBVIOUS
<1>1. CASE UNCHANGED vars
  BY <1>1 DEF Delayed, vars
<1>2. CASE Next
  <2>0. PICK e : Event(e) /\ \E d \in Elapsed : OnEvent(e, d)
    BY <1>2, NextIsEvent
  <2>1. PICK d \in Elapsed : OnEvent(e, d)
    BY <2>0
  <2>2. /\ policy' \in Policies /\ latency' = policy'.latency
        /\ latency' = latency /\ allow' \in [Sides -> BOOLEAN]
    BY <2>0, <2>1, AllowsIsPolicy DEF Delayed, OnEvent, Event
  <2>3. ASSUME NEW model \in Models, NEW side \in Sides
        PROVE  IsSide(maker[model][side]', latency')
    BY <2>1, <2>2, SideAfterEvent
  <2>. QED  BY <2>2, <2>3 DEF Delayed
<1>. QED  BY <1>1, <1>2

(* No change of a quote is forgotten or put off: the market maker holds one at a time, *)
(* lands it as soon as it is due and the book is two-sided, and waits no longer than   *)
(* the latency, for every tape, book and latency.                                      *)
THEOREM NothingPutOff == Spec => []LandsWhenDue
<1> DEFINE Landed == \A model \in Models, side \in Sides :
                        TwoSided(book) /\ maker[model][side].quote.inFlight
                           => maker[model][side].quote.wait > 0
<1>1. Init => Delayed /\ Landed
  BY InitDelayed DEF Init, MakerInit, Idle
<1>2. Delayed /\ Landed /\ [Next]_vars => Delayed' /\ Landed'
  <2>. SUFFICES ASSUME Delayed, Landed, [Next]_vars PROVE Landed'
    BY NextDelayed
  <2>1. CASE UNCHANGED vars
    BY <2>1 DEF vars, TwoSided, Best
  <2>2. CASE Next
    <3>0. PICK e : \E d \in Elapsed : OnEvent(e, d)
      BY <2>2, NextIsEvent
    <3>1. PICK d \in Elapsed : OnEvent(e, d)
      BY <3>0
    <3>2. ASSUME NEW model \in Models, NEW side \in Sides
          PROVE  TwoSided(book') /\ maker[model][side]'.quote.inFlight
                    => maker[model][side]'.quote.wait > 0
      BY <3>1, SideAfterEvent
    <3>. QED  BY <3>2
  <2>. QED  BY <2>1, <2>2
<1>3. Delayed /\ Landed => LandsWhenDue
  BY DEF Delayed, LandsWhenDue, IsSide, IsQuote
<1>. QED  BY <1>1, <1>2, <1>3, PTL DEF Spec

-----------------------------------------------------------------------------
LEMMA NothingBest ==
    ASSUME NEW b, NEW side, b.hint[side] = Book!Window!NoTick, b.bits[side] = {},
           DOMAIN b.over[side] = {}
    PROVE  Best(b, side) = Book!Promise!kInvalidPrice
<1>1. Book!Window!Refreshed(side, {}, Book!Window!NoTick) = Book!Window!NoTick
  BY DEF Book!Window!Refreshed, Book!Window!FirstTick, Book!Window!Scan, Book!Window!ScanDown,
         Book!Window!ScanUp, Book!Window!NoTick
<1>2. Book!Window!BestOf(side, Book!Window!NoTick, {}) = Book!Window!kInvalidPrice
  BY DEF Book!Window!BestOf
<1>3. Book!Window!kInvalidPrice = Book!Promise!kInvalidPrice
  BY DEF Book!Window!kInvalidPrice, Book!Promise!kInvalidPrice
<1>. QED  BY <1>1, <1>2, <1>3 DEF Best, Book!BestPrice

LEMMA EmptyParts ==
    ASSUME NEW size, NEW side \in Sides
    PROVE  LET b == Book!Empty(size) IN
           /\ b.hint[side] = Book!Window!NoTick /\ b.bits[side] = {}
           /\ DOMAIN b.over[side] = {}
<1> DEFINE more == [slot |-> [s \in Book!Sides |-> [t \in 0..(Book!Window!Ticks - 1) |-> Book!Nil]],
                    bits |-> [s \in Book!Sides |-> {}],
                    hint |-> [s \in Book!Sides |-> Book!Window!NoTick],
                    over |-> [s \in Book!Sides |-> << >>],
                    ids |-> << >>, rejected |-> 0, nextSeq |-> 1]
<1>1. Book!Empty(size) = Book!Extended(Book!NewPool(size), more)
  BY DEF Book!Empty
<1>2. /\ "hint" \in DOMAIN more /\ "bits" \in DOMAIN more /\ "over" \in DOMAIN more
      /\ more.hint[side] = Book!Window!NoTick /\ more.bits[side] = {}
      /\ more.over[side] = << >>
  BY DEF Sides
<1>. HIDE DEF more
<1>3. ASSUME NEW f, f \in DOMAIN more
      PROVE  Book!Extended(Book!NewPool(size), more)[f] = more[f]
  BY <1>3 DEF Book!Extended
<1>. QED  BY <1>1, <1>2, <1>3

(* With no latency nothing is ever in flight between two events, and the switches are *)
(* what the policy made of the last touch there was.                                  *)
Grounded == latency = 0 => \A model \in Models, side \in Sides : ~maker[model][side].quote.inFlight

Informed == policy.mode # "Always" /\ Valid(TouchOf(book)) => allow = Allows(TouchOf(book))

LEMMA InitGrounded == Init => Grounded /\ Informed
<1>. SUFFICES ASSUME Init PROVE Grounded /\ Informed
  OBVIOUS
<1>1. Grounded
  BY DEF Init, MakerInit, Idle, Grounded
<1>2. Informed
  <2>1. PICK size \in Sizes : book = Book!Empty(size)
    BY DEF Init, MakerInit
  <2>2. \A side \in Sides : Best(book, side) = Book!Promise!kInvalidPrice
    BY <2>1, EmptyParts, NothingBest
  <2>3. "Buy" \in Sides
    BY DEF Sides, Book!Sides, Book!Promise!Sides
  <2>4. ~TwoSided(book)
    BY <2>2, <2>3 DEF TwoSided
  <2>5. TouchOf(book) = NoTouch
    BY <2>4 DEF TouchOf
  <2>6. ~Valid(NoTouch)
    BY DEF Valid, NoTouch
  <2>. QED  BY <2>5, <2>6 DEF Informed
<1>. QED  BY <1>1, <1>2

(* What an event without latency leaves a side as. *)
LEMMA SideAtOnce ==
    ASSUME Delayed, Grounded, latency = 0, NEW e, NEW d \in Elapsed, OnEvent(e, d),
           NEW model \in Models, NEW side \in Sides
    PROVE  LET q == maker[model][side]'.quote IN
           /\ ~q.inFlight
           /\ TwoSided(book') => /\ q.active = allow[side]
                                 /\ q.active => q.px = Best(book', side)
<1> DEFINE early == Early(maker[model][side], Asked(book), d, side)
           step == Stepped(model, early, side, Asked(book), e)
<1>1. maker[model][side]' = Ended(step, book', side)
  BY EventForm
<1>2. PICK l \in Nat : l = latency
  BY DelayedIsNat DEF LatencyIsNat
<1>3. /\ IsSide(maker[model][side], l) /\ allow[side] \in BOOLEAN /\ d \in Nat
      /\ ~maker[model][side].quote.inFlight
  BY <1>2, MakerAssumption DEF Delayed, Grounded
<1>4. IsSide(early, l) /\ ~early.quote.inFlight
  BY <1>3, EarlyParts
<1>. HIDE DEF early
<1>5. IsSide(step, l) /\ ~step.quote.inFlight
  BY <1>4, SteppedParts
<1>. HIDE DEF step
<1>6. PICK b : b = book'
  OBVIOUS
<1>7. LET v == Late(step, b, side) IN
      ~v.quote.inFlight /\ v.quote.active = allow[side]
      /\ (v.quote.active => v.quote.px = Best(b, side))
  BY <1>2, <1>3, <1>5, LateParts
<1>8. Ended(step, b, side) = IF TwoSided(b) THEN Late(step, b, side) ELSE step
  BY DEF Ended
<1>. QED  BY <1>1, <1>5, <1>6, <1>7, <1>8

LEMMA NextGrounded == Delayed /\ Grounded /\ Informed /\ [Next]_vars => Grounded' /\ Informed'
<1>. SUFFICES ASSUME Delayed, Grounded, Informed, [Next]_vars PROVE Grounded' /\ Informed'
  OBVIOUS
<1>1. CASE UNCHANGED vars
  BY <1>1 DEF Grounded, Informed, Allows, vars
<1>2. CASE Next
  <2>0. PICK e : Event(e) /\ \E d \in Elapsed : OnEvent(e, d)
    BY <1>2, NextIsEvent
  <2>1. PICK d \in Elapsed : OnEvent(e, d)
    BY <2>0
  <2>2. policy' = policy /\ latency' = latency
    BY <2>0, <2>1 DEF OnEvent, Event
  <2>3. Grounded'
    BY <2>1, <2>2, SideAtOnce DEF Grounded
  <2>4. Informed'
    <3>1. policy.mode # "Always" /\ Valid(TouchOf(book')) => allow' = Allows(TouchOf(book'))
      BY <2>0 DEF Event, SetQuoting
    <3>2. Allows(TouchOf(book))' = Allows(TouchOf(book'))
      BY <2>2 DEF Allows
    <3>. QED  BY <2>2, <3>1, <3>2 DEF Informed
  <2>. QED  BY <2>3, <2>4
<1>. QED  BY <1>1, <1>2

(* "You can only act on information you have already seen": without latency every event *)
(* that leaves the book two-sided leaves each quote on or off as the touch of the event *)
(* before decided, at the best price of now, and nothing in flight.                     *)
THEOREM ActsOnWhatItSaw == Spec => OneEventLate
<1>1. Init => Delayed /\ Grounded /\ Informed
  BY InitDelayed, InitGrounded
<1>2. Delayed /\ Grounded /\ Informed /\ [Next]_vars => (Delayed /\ Grounded /\ Informed)'
  BY NextDelayed, NextGrounded
<1>3. Delayed /\ Grounded /\ Informed /\ [Next]_vars =>
      [latency = 0 /\ TwoSided(book') =>
       \A model \in Models, side \in Sides :
           LET q == maker[model][side].quote' IN
           /\ q.active = allow[side] /\ ~q.inFlight
           /\ Valid(TouchOf(book)) /\ policy.mode # "Always" => q.active = Allows(TouchOf(book))[side]
           /\ q.active => q.px = Best(book', side)]_vars
  <2>. SUFFICES ASSUME Delayed, Grounded, Informed, Next, latency = 0, TwoSided(book'),
                       NEW model \in Models, NEW side \in Sides
       PROVE  LET q == maker[model][side].quote' IN
              /\ q.active = allow[side] /\ ~q.inFlight
              /\ Valid(TouchOf(book)) /\ policy.mode # "Always"
                    => q.active = Allows(TouchOf(book))[side]
              /\ q.active => q.px = Best(book', side)
    OBVIOUS
  <2>0. PICK e : \E d \in Elapsed : OnEvent(e, d)
    BY NextIsEvent
  <2>1. PICK d \in Elapsed : OnEvent(e, d)
    BY <2>0
  <2>. QED  BY <2>1, SideAtOnce DEF Informed
<1>. QED  BY <1>1, <1>2, <1>3, PTL DEF Spec, OneEventLate

-----------------------------------------------------------------------------
(* What sim_mm's pass keeps of a quote. *)
PlainOf(a, p, r) == [active |-> a, px |-> p, remaining |-> r]

Plain(q) == PlainOf(q.active, q.px, q.remaining)

(* A quote that is on has shares, at most those it was placed with. *)
Whole(q) == q.active => q.remaining \in Nat /\ q.remaining > 0 /\ q.remaining <= QuoteSize

LEMMA PlainParts ==
    ASSUME NEW a, NEW p, NEW r
    PROVE  LET q == PlainOf(a, p, r) IN q.active = a /\ q.px = p /\ q.remaining = r
  BY DEF PlainOf

(* hit: whether a quote is still on, with these shares left. *)
More(left) == left > 0

LEMMA HitMisses ==
    ASSUME NEW q, NEW side, NEW pre, NEW e, ~q.active \/ pre.side # side \/ pre.price # q.px
    PROVE  Hit(q, side, pre, e) = q
  BY DEF Hit

LeftOf(q, e) == q.remaining - Min({q.remaining, e.shares})

LEMMA HitLands ==
    ASSUME NEW q, q = Plain(q), NEW side, NEW pre, NEW e,
           q.active, pre.side = side, pre.price = q.px
    PROVE  Hit(q, side, pre, e) = PlainOf(More(LeftOf(q, e)), q.px, LeftOf(q, e))
<1> DEFINE z == LeftOf(q, e)
           c == More(z)
<1>. HIDE DEF z, c
<1>1. [q EXCEPT !.remaining = z, !.active = c] = PlainOf(c, q.px, z)
  <2>1. PICK a, p, r : q = PlainOf(a, p, r) /\ p = q.px
    BY DEF Plain
  <2>2. [q EXCEPT !.remaining = z, !.active = c] = [[q EXCEPT !.remaining = z] EXCEPT !.active = c]
    OBVIOUS
  <2>3. [PlainOf(a, p, r) EXCEPT !.remaining = z] = PlainOf(a, p, z)
    BY DEF PlainOf
  <2>4. [PlainOf(a, p, z) EXCEPT !.active = c] = PlainOf(c, p, z)
    BY DEF PlainOf
  <2>. QED  BY <2>1, <2>2, <2>3, <2>4, Zenon
<1>2. Hit(q, side, pre, e) = [q EXCEPT !.remaining = z, !.active = c]
  BY Zenon DEF Hit, More, c, z, LeftOf
<1>. QED  BY <1>1, <1>2 DEF z, c

LEMMA RequoteParts ==
    ASSUME NEW q, NEW target
    PROVE  Requote(q, target)
             = IF q.active /\ q.px = target THEN q ELSE PlainOf(On, target, QuoteSize)
  BY Zenon DEF Requote, PlainOf, On

(* The shares a naive quote is filled for. *)
LEMMA NaiveFill ==
    ASSUME NEW m, NEW side, NEW pre, NEW e
    PROVE  FillOf("Naive", m, side, pre, e)
             = IF ~m.quote.active \/ pre.side # side \/ e.type # "Execute" THEN 0
               ELSE IF Swept(m, side, pre, e) \/ pre.price = m.quote.px
               THEN Min({e.shares, m.quote.remaining}) ELSE 0
  BY DEF FillOf

(* An execution is of a number of shares. *)
Counted(e) == e.type = "Execute" => e.shares \in Nat

SweptFill(m, side, pre, e) == FillOf("Naive", m, side, pre, e) > 0 /\ Swept(m, side, pre, e)

LEMMA StepSame ==
    ASSUME NEW l \in Nat, NEW m, IsSide(m, l), Whole(m.quote), NEW side, NEW pre, NEW e,
           Counted(e), ~SweptFill(m, side, pre, e)
    PROVE  LET v == StepSide("Naive", m, side, pre, e) IN
           Plain(v.quote) = IF e.type = "Execute" THEN Hit(Plain(m.quote), side, pre, e)
                            ELSE Plain(m.quote)
<1> DEFINE v == StepSide("Naive", m, side, pre, e)
           shares == FillOf("Naive", m, side, pre, e)
           a == m.quote.active
           p == m.quote.px
           r == m.quote.remaining
<1>0. a \in BOOLEAN
  BY DEF IsSide, IsQuote
<1>00. PICK k : k = Min({r, e.shares})
  OBVIOUS
<1>01. PICK c : c = More(r - k)
  OBVIOUS
<1>02. ~a \/ pre.side # side \/ pre.price # p
         => Hit(Plain(m.quote), side, pre, e) = Plain(m.quote)
  BY HitMisses, PlainParts DEF Plain
<1>03. a /\ pre.side = side /\ pre.price = p
         => Hit(Plain(m.quote), side, pre, e) = PlainOf(c, p, r - k)
  <2> DEFINE q == Plain(m.quote)
  <2>1. q.active = a /\ q.px = p /\ q.remaining = r
    BY PlainParts DEF Plain
  <2>2. q = Plain(q)
    BY <2>1, Zenon DEF Plain
  <2>3. LeftOf(q, e) = r - k
    BY <1>00, <2>1 DEF LeftOf
  <2>. HIDE DEF q
  <2>. SUFFICES ASSUME a, pre.side = side, pre.price = p
       PROVE  Hit(q, side, pre, e) = PlainOf(c, p, r - k)
    BY DEF q
  <2>4. q.active /\ pre.side = side /\ pre.price = q.px
    BY <2>1
  <2>5. Hit(q, side, pre, e) = PlainOf(More(LeftOf(q, e)), q.px, LeftOf(q, e))
    BY <2>2, <2>4, HitLands
  <2>. QED  BY <1>01, <2>1, <2>3, <2>5
<1>1. /\ v.quote.px = p
      /\ shares = 0 => v.quote = m.quote
      /\ shares # 0 /\ shares < r => v.quote.active = a /\ v.quote.remaining = r - shares
      /\ shares # 0 /\ ~(shares < r) => ~v.quote.active /\ v.quote.remaining = 0
  BY StepParts
<1>2. v.quote.active \in BOOLEAN
  BY StepParts DEF IsSide, IsQuote
<1>3. shares = IF ~a \/ pre.side # side \/ e.type # "Execute" THEN 0
               ELSE IF Swept(m, side, pre, e) \/ pre.price = p THEN Min({e.shares, r}) ELSE 0
  BY NaiveFill
<1>4. CASE ~a \/ pre.side # side \/ e.type # "Execute"
  <2>1. shares = 0
    BY <1>3, <1>4
  <2>2. v.quote = m.quote
    BY <1>1, <2>1
  <2>3. Plain(v.quote) = Plain(m.quote)
    BY <2>2
  <2>. QED  BY <1>02, <1>4, <2>3
<1>5. CASE a /\ pre.side = side /\ e.type = "Execute"
  <2>1. e.shares \in Nat /\ r \in Nat /\ r > 0
    BY <1>5 DEF Whole, Counted
  <2>2. k \in Nat /\ k <= r /\ k = Min({e.shares, r})
    <3>1. Min({r, e.shares}) = IF r <= e.shares THEN r ELSE e.shares
      BY <2>1, MinOfTwo
    <3>2. {e.shares, r} = {r, e.shares}
      OBVIOUS
    <3>. QED  BY <1>00, <2>1, <3>1, <3>2
  <2>3. CASE pre.price # p
    <3>1. shares = 0
      BY <1>3, <1>5, <2>1, <2>2, <2>3 DEF SweptFill
    <3>2. v.quote = m.quote
      BY <1>1, <3>1
    <3>3. Plain(v.quote) = Plain(m.quote)
      BY <3>2
    <3>. QED  BY <1>02, <1>5, <2>3, <3>3
  <2>4. CASE pre.price = p
    <3>1. shares = k
      BY <1>3, <1>5, <2>2, <2>4
    <3>2. v.quote.remaining = r - k
      BY <1>1, <2>1, <2>2, <3>1
    <3>3. v.quote.active = c
      <4>1. CASE k < r
        <5>1. r - k > 0
          BY <2>1, <2>2, <4>1
        <5>2. CASE k = 0
          BY <1>01, <1>1, <1>5, <3>1, <5>1, <5>2 DEF More
        <5>3. CASE k # 0
          BY <1>01, <1>1, <1>5, <3>1, <4>1, <5>1, <5>3 DEF More
        <5>. QED  BY <5>2, <5>3
      <4>2. CASE ~(k < r)
        BY <1>01, <1>1, <1>2, <2>1, <2>2, <3>1, <4>2 DEF More
      <4>. QED  BY <4>1, <4>2
    <3>4. Hit(Plain(m.quote), side, pre, e) = PlainOf(c, p, r - k)
      BY <1>03, <1>5, <2>4
    <3>5. Plain(v.quote) = PlainOf(c, p, r - k)
      BY <1>1, <3>2, <3>3, Zenon DEF Plain
    <3>. QED  BY <1>5, <3>4, <3>5
  <2>. QED  BY <2>3, <2>4
<1>. QED  BY <1>0, <1>4, <1>5

LEMMA SteppedSame ==
    ASSUME NEW l \in Nat, NEW m, IsSide(m, l), Whole(m.quote), NEW side, NEW b, NEW e,
           Counted(e), Resolved(b, e) # {} => ~SweptFill(m, side, PreOf(b, e), e)
    PROVE  Plain(Stepped("Naive", m, side, b, e).quote)
             = IF Resolved(b, e) # {} /\ e.type = "Execute"
               THEN Hit(Plain(m.quote), side, PreOf(b, e), e) ELSE Plain(m.quote)
<1>1. CASE Resolved(b, e) = {}
  BY <1>1 DEF Stepped
<1>2. CASE Resolved(b, e) # {}
  <2>1. Stepped("Naive", m, side, b, e) = StepSide("Naive", m, side, PreOf(b, e), e)
    BY <1>2 DEF Stepped
  <2>2. PICK pre : pre = PreOf(b, e)
    OBVIOUS
  <2>3. Plain(StepSide("Naive", m, side, pre, e).quote)
          = IF e.type = "Execute" THEN Hit(Plain(m.quote), side, pre, e) ELSE Plain(m.quote)
    BY <1>2, <2>2, StepSame
  <2>. QED  BY <1>2, <2>1, <2>2, <2>3
<1>. QED  BY <1>1, <1>2

LEMMA LateSame ==
    ASSUME NEW l \in Nat, NEW m, IsSide(m, l), NEW b, NEW side,
           l = 0, latency = l, allow[side] = On, ~m.quote.inFlight
    PROVE  Plain(Late(m, b, side).quote) = Requote(Plain(m.quote), Best(b, side))
<1> DEFINE v == Late(m, b, side)
           target == Best(b, side)
           q == Plain(m.quote)
<1>. HIDE DEF v, target, q
<1>1. allow[side] \in BOOLEAN
  BY DEF On
<1>2. /\ v.quote.active = TRUE /\ v.quote.px = target
      /\ m.quote.active = TRUE /\ m.quote.px = target => v = m
      /\ ~(m.quote.active = TRUE /\ m.quote.px = target) => v.quote.remaining = QuoteSize
  <2>1. /\ v.quote.active = allow[side]
        /\ v.quote.active => v.quote.px = target
        /\ m.quote.active = allow[side] /\ (m.quote.active => m.quote.px = target) => v = m
        /\ ~(m.quote.active = allow[side] /\ (m.quote.active => m.quote.px = target))
              /\ v.quote.active => v.quote.remaining = QuoteSize
    BY <1>1, LateParts DEF v, target
  <2>2. v.quote.active = TRUE
    BY <2>1 DEF On
  <2>3. allow[side] = TRUE
    BY DEF On
  <2>. QED  BY <2>1, <2>2, <2>3, Zenon
<1>3. q.active = m.quote.active /\ q.px = m.quote.px
  BY PlainParts DEF Plain, q
<1>4. Requote(q, target)
        = IF q.active /\ q.px = target THEN q ELSE PlainOf(On, target, QuoteSize)
  BY RequoteParts
<1>5. m.quote.active \in BOOLEAN
  BY DEF IsSide, IsQuote
<1>6. CASE m.quote.active = TRUE /\ m.quote.px = target
  <2>1. Requote(q, target) = q
    BY <1>3, <1>4, <1>6
  <2>2. v = m
    BY <1>2, <1>6
  <2>. QED  BY <2>1, <2>2 DEF v, target, q
<1>7. CASE ~(m.quote.active = TRUE /\ m.quote.px = target)
  <2>1. Requote(q, target) = PlainOf(On, target, QuoteSize)
    BY <1>3, <1>4, <1>5, <1>7
  <2>2. Plain(v.quote) = PlainOf(On, target, QuoteSize)
    BY <1>2, <1>7, Zenon DEF Plain, On
  <2>. QED  BY <2>1, <2>2 DEF v, target, q
<1>. QED  BY <1>6, <1>7

(* A quote is never filled for more than it has left, nor for more than was executed. *)
LEMMA FillBound ==
    ASSUME NEW l \in Nat, NEW model \in Models, NEW m, IsSide(m, l), Whole(m.quote),
           NEW side, NEW pre, NEW e, Counted(e), model = "QueueAware" => m.pos.ahead \in Nat
    PROVE  LET shares == FillOf(model, m, side, pre, e) IN
           /\ shares \in Nat
           /\ shares # 0 => /\ m.quote.active /\ pre.side = side /\ e.type = "Execute"
                            /\ shares <= m.quote.remaining /\ shares <= e.shares
<1> DEFINE shares == FillOf(model, m, side, pre, e)
           r == m.quote.remaining
<1>1. CASE ~m.quote.active \/ pre.side # side \/ e.type # "Execute"
  BY <1>1 DEF FillOf
<1>2. CASE ~(~m.quote.active \/ pre.side # side \/ e.type # "Execute")
  <2>1. e.shares \in Nat /\ r \in Nat
    BY <1>2 DEF Counted, Whole
  <2>2. Min({e.shares, r}) = IF e.shares <= r THEN e.shares ELSE r
    BY <2>1, MinOfTwo
  <2>3. shares = Min({e.shares, r}) \/ shares = 0
        \/ (model # "Naive" /\ shares = Reached(m.pos, e.shares, r))
    BY <1>2 DEF FillOf
  <2>4. CASE model # "Naive" /\ shares = Reached(m.pos, e.shares, r)
    <3>1. m.pos.ahead \in Nat
      BY <2>4 DEF Models
    <3>2. CASE e.shares <= m.pos.ahead
      BY <1>2, <2>1, <2>4, <3>2 DEF Reached
    <3>3. CASE ~(e.shares <= m.pos.ahead)
      <4>1. shares = Min({e.shares - m.pos.ahead, r})
        BY <2>4, <3>3 DEF Reached
      <4>2. Min({e.shares - m.pos.ahead, r})
              = IF e.shares - m.pos.ahead <= r THEN e.shares - m.pos.ahead ELSE r
        BY <2>1, <3>1, MinOfTwo
      <4>. QED  BY <1>2, <2>1, <3>1, <3>3, <4>1, <4>2
    <3>. QED  BY <3>2, <3>3
  <2>. QED  BY <1>2, <2>1, <2>2, <2>3, <2>4
<1>. QED  BY <1>1, <1>2

LEMMA StepWhole ==
    ASSUME NEW l \in Nat, NEW model \in Models, NEW m, IsSide(m, l), Whole(m.quote),
           NEW side, NEW pre, NEW e, Counted(e), model = "QueueAware" => m.pos.ahead \in Nat
    PROVE  Whole(StepSide(model, m, side, pre, e).quote)
<1> DEFINE shares == FillOf(model, m, side, pre, e)
           v == StepSide(model, m, side, pre, e)
<1>1. /\ shares \in Nat
      /\ shares # 0 => m.quote.active /\ shares <= m.quote.remaining
  BY FillBound
<1>2. /\ shares = 0 => v.quote = m.quote
      /\ shares # 0 /\ shares < m.quote.remaining =>
            v.quote.active = m.quote.active /\ v.quote.remaining = m.quote.remaining - shares
      /\ shares # 0 /\ ~(shares < m.quote.remaining) => ~v.quote.active
  BY StepParts
<1>. HIDE DEF shares, v
<1>3. CASE shares = 0
  BY <1>2, <1>3 DEF v
<1>4. CASE shares # 0 /\ shares < m.quote.remaining
  <2>1. m.quote.remaining \in Nat /\ m.quote.remaining <= QuoteSize
    BY <1>1, <1>4 DEF Whole
  <2>2. QuoteSize \in Nat
    BY MakerAssumption
  <2>3. v.quote.remaining = m.quote.remaining - shares
    BY <1>2, <1>4
  <2>4. v.quote.remaining \in Nat /\ v.quote.remaining > 0 /\ v.quote.remaining <= QuoteSize
    BY <1>1, <1>4, <2>1, <2>2, <2>3
  <2>5. Whole(v.quote)
    BY <2>4 DEF Whole
  <2>. QED  BY <2>5 DEF v
<1>5. CASE shares # 0 /\ ~(shares < m.quote.remaining)
  BY <1>2, <1>5 DEF Whole, v
<1>. QED  BY <1>3, <1>4, <1>5

-----------------------------------------------------------------------------
(* No operation of the book adds or removes one of its members. *)
LEMMA PoolKeeps ==
    ASSUME NEW b, NEW x, NEW y
    PROVE  /\ DOMAIN Book!TakeLevel(b, x) = DOMAIN b /\ DOMAIN Book!ReturnLevel(b, x) = DOMAIN b
           /\ DOMAIN Book!Unlink(b, x) = DOMAIN b /\ DOMAIN Book!ReturnOrder(b, x) = DOMAIN b
           /\ DOMAIN Book!Shrink(b, x, y) = DOMAIN b
<1>1. DOMAIN Book!TakeLevel(b, x) = DOMAIN b
  BY Zenon DEF Book!TakeLevel
<1>2. DOMAIN Book!ReturnLevel(b, x) = DOMAIN b
  BY Zenon DEF Book!ReturnLevel
<1>3. DOMAIN Book!Unlink(b, x) = DOMAIN b
  BY Zenon DEF Book!Unlink
<1>4. DOMAIN Book!ReturnOrder(b, x) = DOMAIN b
  BY Zenon DEF Book!ReturnOrder
<1>5. DOMAIN Book!Shrink(b, x, y) = DOMAIN b
  BY Zenon DEF Book!Shrink
<1>. QED  BY <1>1, <1>2, <1>3, <1>4, <1>5

LEMMA LinkKeeps ==
    ASSUME NEW b, NEW li, NEW order
    PROVE  DOMAIN Book!Link(b, li, order) = DOMAIN b
  BY Zenon DEF Book!Link

LEMMA QueryKeeps ==
    ASSUME NEW b, NEW side
    PROVE  /\ DOMAIN Book!Query(b, side) = DOMAIN b
           /\ \A f \in DOMAIN b \ {"hint"} : Book!Query(b, side)[f] = b[f]
  BY DEF Book!Query

LEMMA AddKeeps ==
    ASSUME NEW b, NEW ref, NEW side, NEW px, NEW qty
    PROVE  DOMAIN Book!Add(b, ref, side, px, qty) = DOMAIN b
<1> DEFINE ready == Book!WithLevel(b, side, px)
           order == [id |-> ref, side |-> side, qty |-> qty, seq |-> b.nextSeq]
           link == Book!Link(ready, Book!Lookup(ready, side, px), order)
           linked == [link EXCEPT !.nextSeq = @ + 1]
<1>1. DOMAIN ready = DOMAIN b
  <2>1. DOMAIN Book!TakeLevel(b, px) = DOMAIN b
    BY PoolKeeps
  <2>. QED  BY <2>1, Zenon DEF Book!WithLevel
<1>2. DOMAIN link = DOMAIN b
  BY <1>1, LinkKeeps
<1>. HIDE DEF link
<1>3. DOMAIN linked = DOMAIN b
  BY <1>2, Zenon
<1>4. \/ Book!Add(b, ref, side, px, qty) = b
      \/ Book!Add(b, ref, side, px, qty) = [b EXCEPT !.rejected = @ + 1]
      \/ Book!Add(b, ref, side, px, qty) = [linked EXCEPT !.rejected = @ + 1]
      \/ Book!Add(b, ref, side, px, qty)
            = [linked EXCEPT !.ids = Book!Put(@, ref, Book!Seqs!Last(b.freeOrders))]
  BY Zenon DEF Book!Add, link
<1>. HIDE DEF linked
<1>. QED  BY <1>3, <1>4, Zenon

LEMMA RemoveKeeps ==
    ASSUME NEW b, NEW ref
    PROVE  DOMAIN Book!Remove(b, ref) = DOMAIN b
<1>1. ASSUME NEW c, NEW side, NEW li PROVE DOMAIN Book!DropLevel(c, side, li) = DOMAIN c
  <2>1. DOMAIN Book!ReturnLevel(c, li) = DOMAIN c
    BY PoolKeeps
  <2>. QED  BY <2>1, Zenon DEF Book!DropLevel
<1>2. ASSUME NEW oi PROVE DOMAIN Book!Unlinked(b, oi) = DOMAIN b
  <2>1. DOMAIN Book!Unlink(b, oi) = DOMAIN b
    BY PoolKeeps
  <2>. QED  BY <1>1, <2>1, Zenon DEF Book!Unlinked
<1>3. DOMAIN Book!ReturnOrder(Book!Unlinked(b, b.ids[ref]), b.ids[ref]) = DOMAIN b
  BY <1>2, PoolKeeps
<1>. QED  BY <1>3, Zenon DEF Book!Remove

LEMMA ApplyKeeps ==
    ASSUME NEW b, NEW e, e.type \in {"Add", "Execute", "Cancel", "Delete", "Replace"}
    PROVE  DOMAIN Apply(b, e) = DOMAIN b
<1>1. ASSUME NEW ref, NEW qty PROVE DOMAIN Book!Reduce(b, ref, qty) = DOMAIN b
  <2>1. DOMAIN Book!Shrink(b, b.ids[ref], qty) = DOMAIN b
    BY PoolKeeps
  <2>2. DOMAIN Book!Remove(b, ref) = DOMAIN b
    BY RemoveKeeps
  <2>. QED  BY <2>1, <2>2, Zenon DEF Book!Reduce
<1>2. ASSUME NEW old, NEW new, NEW px, NEW qty PROVE DOMAIN Book!Replace(b, old, new, px, qty) = DOMAIN b
  <2>1. DOMAIN Book!Remove(b, old) = DOMAIN b
    BY RemoveKeeps
  <2>2. DOMAIN Book!Add(Book!Remove(b, old), new, b.orders[b.ids[old]].side, px, qty)
          = DOMAIN Book!Remove(b, old)
    BY AddKeeps
  <2>. QED  BY <2>1, <2>2, Zenon DEF Book!Replace
<1>. QED  BY <1>1, <1>2, AddKeeps, RemoveKeeps DEF Apply

(* The members that tell what an event's order is. *)
Tells(b) == "ids" \in DOMAIN b /\ "orders" \in DOMAIN b /\ "levels" \in DOMAIN b

LEMMA AskedTells ==
    ASSUME NEW b, Tells(b)
    PROVE  /\ Tells(Asked(b)) /\ \A e : Resolved(Asked(b), e) = Resolved(b, e)
<1> DEFINE a == Asked(b)
<1>1. DOMAIN a = DOMAIN b
  BY QueryKeeps DEF Asked
<1>2. a.ids = b.ids /\ a.orders = b.orders /\ a.levels = b.levels
  <2> DEFINE c == Book!Query(b, "Buy")
  <2>1. Tells(c) /\ c.ids = b.ids /\ c.orders = b.orders /\ c.levels = b.levels
    BY QueryKeeps DEF Tells
  <2>. HIDE DEF c
  <2>2. LET d == Book!Query(c, "Sell") IN
        d.ids = c.ids /\ d.orders = c.orders /\ d.levels = c.levels
    BY <2>1, QueryKeeps DEF Tells
  <2>. QED  BY <2>1, <2>2 DEF c, Asked
<1>. HIDE DEF a
<1>3. \A oi : Book!OrderIn(a, oi) = Book!OrderIn(b, oi)
  BY <1>2, Zenon DEF Book!OrderIn
<1>4. \A e : Resolved(a, e) = Resolved(b, e)
  BY <1>2, <1>3, Zenon DEF Resolved
<1>. QED  BY <1>1, <1>4 DEF Tells, a

(* What a tape goes on with. *)
Kinds == {"Add", "Execute", "Cancel", "Delete", "Replace"}

LEMMA NextIsOfTape ==
    ASSUME Next
    PROVE  \E e : /\ Event(e) /\ e.type \in Kinds /\ Counted(e)
                  /\ \E d \in Elapsed : OnEvent(e, d)
<1>0. Quantities \subseteq Nat
  BY MakerAssumption DEF Book!HybridConstants, Book!Promise!BookConstants
<1>1. ASSUME NEW e \in Adds PROVE e.type \in Kinds /\ Counted(e)
  BY DEF Adds, Kinds, Counted
<1>2. ASSUME NEW e \in Reductions("Execute") PROVE e.type \in Kinds /\ Counted(e)
  BY <1>0 DEF Reductions, Kinds, Counted
<1>3. ASSUME NEW e \in Reductions("Cancel") PROVE e.type \in Kinds /\ Counted(e)
  BY DEF Reductions, Kinds, Counted
<1>4. ASSUME NEW e \in Deletes PROVE e.type \in Kinds /\ Counted(e)
  BY DEF Deletes, Kinds, Counted
<1>5. ASSUME NEW e \in Replaces PROVE e.type \in Kinds /\ Counted(e)
  BY DEF Replaces, Kinds, Counted
<1>6. PICK e : Event(e) /\ e.type \in Kinds /\ Counted(e)
  BY <1>1, <1>2, <1>3, <1>4, <1>5, Zenon
     DEF Next, AddEvent, ExecuteEvent, CancelEvent, DeleteEvent, ReplaceEvent
<1>. QED  BY <1>6 DEF Event

LEMMA FillForm ==
    ASSUME NEW e, NEW d, OnEvent(e, d), NEW model \in Models
    PROVE  fill'[model] =
              IF Resolved(Asked(book), e) = {} THEN NoFill
              ELSE FillRecord(model,
                              [side \in Sides |-> Early(maker[model][side], Asked(book), d, side)],
                              PreOf(Asked(book), e), e)
<1> DEFINE before == Asked(book)
           early == [mo \in Models |-> [si \in Sides |->
                        Arrived(Aged(maker[mo][si], d), before, si)]]
<1>1. fill' = [mo \in Models |->
                 IF Resolved(before, e) = {} THEN NoFill
                 ELSE FillRecord(mo, early[mo], CHOOSE p \in Resolved(before, e) : TRUE, e)]
  BY Zenon DEF OnEvent
<1>2. early[model] = [side \in Sides |-> Early(maker[model][side], before, d, side)]
  BY Zenon DEF Early
<1>3. (CHOOSE p \in Resolved(before, e) : TRUE) = PreOf(before, e)
  BY Zenon DEF PreOf
<1>. HIDE DEF early
<1>. QED  BY <1>1, <1>2, <1>3

(* A sweep of a naive quote is in the record of its fill. *)
LEMMA SweepShows ==
    ASSUME NEW early, NEW pre, NEW e, NEW side \in Sides, SweptFill(early[side], side, pre, e)
    PROVE  LET f == FillRecord("Naive", early, pre, e) IN f # NoFill /\ f.swept
<1> DEFINE hit == {s \in Sides : FillOf("Naive", early[s], s, pre, e) > 0}
<1>1. ASSUME NEW s \in hit PROVE s = pre.side
  <2>1. FillOf("Naive", early[s], s, pre, e) > 0
    OBVIOUS
  <2>2. ~(0 > 0)
    OBVIOUS
  <2>3. CASE pre.side # s
    <3>1. FillOf("Naive", early[s], s, pre, e) = 0
      BY <2>3, Zenon DEF FillOf
    <3>. QED  BY <2>1, <2>2, <3>1, Zenon
  <2>. QED  BY <2>3
<1>2. side \in hit
  BY DEF SweptFill
<1>. HIDE DEF hit
<1>3. (CHOOSE s \in hit : TRUE) = side
  BY <1>1, <1>2
<1>4. FillRecord("Naive", early, pre, e)
        = [side |-> side, price |-> early[side].quote.px,
           qty |-> FillOf("Naive", early[side], side, pre, e),
           stale |-> early[side].quote.inFlight, swept |-> Swept(early[side], side, pre, e),
           joinSeq |-> early[side].pos.joinSeq]
  <2>1. hit # {}
    BY <1>2
  <2>2. FillRecord("Naive", early, pre, e)
          = IF hit = {} THEN NoFill
            ELSE LET s == CHOOSE s \in hit : TRUE
                     m == early[s] IN
                 [side |-> s, price |-> m.quote.px, qty |-> FillOf("Naive", m, s, pre, e),
                  stale |-> m.quote.inFlight, swept |-> Swept(m, s, pre, e),
                  joinSeq |-> m.pos.joinSeq]
    BY Zenon DEF FillRecord, hit
  <2>. QED  BY <2>1, <2>2, <1>3, Zenon
<1>5. LET f == FillRecord("Naive", early, pre, e) IN
      f.side = side /\ f.swept = Swept(early[side], side, pre, e)
  BY <1>4
<1>6. NoFill.side \notin Sides
  BY DEF NoFill, Sides, Book!Sides, Book!Promise!Sides
<1>. QED  BY <1>5, <1>6 DEF SweptFill

-----------------------------------------------------------------------------
(* What SameNaive rests on: the book's members are there, a policy that always quotes *)
(* never switches a side off, and without latency a naive quote has shares left.      *)
AlwaysOn == policy.mode = "Always" => \A side \in Sides : allow[side] = TRUE

NaiveWhole == latency = 0 => \A side \in Sides : Whole(maker["Naive"][side].quote)

Passing == Tells(book) /\ AlwaysOn /\ NaiveWhole

LEMMA InitPassing == Init => Passing
<1>. SUFFICES ASSUME Init PROVE Passing
  OBVIOUS
<1>1. PICK size \in Sizes : book = Book!Empty(size)
  BY DEF Init, MakerInit
<1>2. Tells(Book!Empty(size))
  <2>1. \A more : DOMAIN Book!Extended(Book!NewPool(size), more)
                     = DOMAIN Book!NewPool(size) \cup DOMAIN more
    BY Zenon DEF Book!Extended
  <2>2. {"orders", "levels"} \subseteq DOMAIN Book!NewPool(size)
    BY DEF Book!NewPool
  <2> DEFINE more == [slot |-> [s \in Book!Sides |-> [t \in 0..(Book!Window!Ticks - 1) |-> Book!Nil]],
                      bits |-> [s \in Book!Sides |-> {}],
                      hint |-> [s \in Book!Sides |-> Book!Window!NoTick],
                      over |-> [s \in Book!Sides |-> << >>],
                      ids |-> << >>, rejected |-> 0, nextSeq |-> 1]
  <2>3. Book!Empty(size) = Book!Extended(Book!NewPool(size), more)
    BY DEF Book!Empty
  <2>4. "ids" \in DOMAIN more
    OBVIOUS
  <2>. HIDE DEF more
  <2>. QED  BY <2>1, <2>2, <2>3, <2>4 DEF Tells
<1>3. AlwaysOn /\ NaiveWhole
  BY DEF Init, MakerInit, Idle, AlwaysOn, NaiveWhole, Whole, Models
<1>. QED  BY <1>1, <1>2, <1>3 DEF Passing

LEMMA TellsAfter ==
    ASSUME NEW b, Tells(b), NEW e, e.type \in Kinds
    PROVE  Tells(Asked(Apply(Asked(b), e)))
<1> DEFINE a == Asked(b)
           c == Apply(a, e)
<1>1. Tells(a)
  BY AskedTells
<1>. HIDE DEF a
<1>2. DOMAIN c = DOMAIN a
  BY ApplyKeeps DEF Kinds
<1>. HIDE DEF c
<1>3. Tells(c)
  BY <1>1, <1>2 DEF Tells
<1>4. Tells(Asked(c))
  BY <1>3, AskedTells
<1>. QED  BY <1>4 DEF c, a

(* Without latency a naive side is, before what it decides last, a quote with shares. *)
LEMMA NaiveBefore ==
    ASSUME NEW l, l = 0, NEW m, IsSide(m, l), ~m.quote.inFlight, Whole(m.quote),
           NEW b, NEW c, NEW d \in Nat, NEW side, NEW e, Counted(e)
    PROVE  LET early == Early(m, b, d, side)
               step == Stepped("Naive", early, side, c, e) IN
           /\ IsSide(early, l) /\ Plain(early.quote) = Plain(m.quote) /\ Whole(early.quote)
           /\ IsSide(step, l) /\ ~step.quote.inFlight /\ Whole(step.quote)
<1> DEFINE early == Early(m, b, d, side)
           step == Stepped("Naive", early, side, c, e)
<1>1. l \in Nat
  OBVIOUS
<1>2. /\ IsSide(early, l) /\ ~early.quote.inFlight
      /\ early.quote.active = m.quote.active /\ early.quote.px = m.quote.px
      /\ early.quote.remaining = m.quote.remaining
  BY <1>1, EarlyParts
<1>. HIDE DEF early
<1>3. Plain(early.quote) = Plain(m.quote) /\ Whole(early.quote)
  BY <1>2 DEF Plain, Whole
<1>4. IsSide(step, l) /\ ~step.quote.inFlight
  BY <1>1, <1>2, SteppedParts
<1>5. Whole(step.quote)
  <2>1. "Naive" \in Models /\ "Naive" # "QueueAware"
    BY DEF Models
  <2>2. PICK pre : pre = PreOf(c, e)
    OBVIOUS
  <2>3. Whole(StepSide("Naive", early, side, pre, e).quote)
    BY <1>1, <1>2, <1>3, <2>1, StepWhole
  <2>. QED  BY <1>3, <2>2, <2>3 DEF Stepped
<1>. QED  BY <1>2, <1>3, <1>4, <1>5 DEF early

LEMMA NextPassing == Delayed /\ Grounded /\ Passing /\ [Next]_vars => Passing'
<1>. SUFFICES ASSUME Delayed, Grounded, Passing, [Next]_vars PROVE Passing'
  OBVIOUS
<1>1. CASE UNCHANGED vars
  BY <1>1 DEF Passing, Tells, AlwaysOn, NaiveWhole, vars
<1>2. CASE Next
  <2>1. PICK e : /\ Event(e) /\ e.type \in Kinds /\ Counted(e) /\ \E d \in Elapsed : OnEvent(e, d)
    BY <1>2, NextIsOfTape
  <2>2. PICK d \in Elapsed : OnEvent(e, d)
    BY <2>1
  <2>3. Tells(book')
    <3>1. book' = Asked(Apply(Asked(book), e))
      BY <2>2 DEF OnEvent
    <3>. QED  BY <2>1, <3>1, TellsAfter DEF Passing
  <2>4. AlwaysOn'
    <3>1. policy' = policy /\ (policy.mode = "Always" => allow' = allow)
      BY <2>1, Zenon DEF Event, SetQuoting
    <3>. QED  BY <3>1 DEF AlwaysOn, Passing
  <2>5. NaiveWhole'
    <3>1. latency' = latency
      BY <2>2 DEF OnEvent
    <3>. SUFFICES ASSUME latency = 0, NEW side \in Sides
         PROVE  Whole(maker["Naive"][side]'.quote)
      BY <3>1 DEF NaiveWhole
    <3> DEFINE m == maker["Naive"][side]
               early == Early(m, Asked(book), d, side)
               step == Stepped("Naive", early, side, Asked(book), e)
    <3>2. "Naive" \in Models
      BY DEF Models
    <3>3. PICK l : l = latency
      OBVIOUS
    <3>4. /\ IsSide(m, l) /\ ~m.quote.inFlight /\ Whole(m.quote) /\ allow[side] \in BOOLEAN
          /\ d \in Nat /\ l = 0 /\ l \in Nat
      BY <3>2, <3>3, MakerAssumption DEF Delayed, Grounded, Passing, NaiveWhole
    <3>5. IsSide(step, l) /\ ~step.quote.inFlight /\ Whole(step.quote)
      BY <2>1, <3>4, NaiveBefore
    <3>6. maker["Naive"][side]' = Ended(step, book', side)
      BY <2>2, <3>2, EventForm
    <3>. HIDE DEF step
    <3>7. PICK b : b = book'
      OBVIOUS
    <3>8. Whole(Late(step, b, side).quote)
      <4> DEFINE v == Late(step, b, side)
                 agrees == /\ step.quote.active = allow[side]
                           /\ step.quote.active => step.quote.px = Best(b, side)
      <4>1. /\ agrees => v = step
            /\ ~agrees /\ v.quote.active => v.quote.remaining = QuoteSize
        BY <3>3, <3>4, <3>5, LateParts
      <4>. HIDE DEF v, agrees
      <4>2. QuoteSize \in Nat /\ QuoteSize > 0 /\ QuoteSize <= QuoteSize
        BY MakerAssumption
      <4>3. Whole(v.quote)
        BY <3>5, <4>1, <4>2 DEF Whole
      <4>. QED  BY <4>3 DEF v
    <3>9. Whole(Ended(step, b, side).quote)
      BY <3>5, <3>8 DEF Ended
    <3>. QED  BY <3>6, <3>7, <3>9
  <2>. QED  BY <2>3, <2>4, <2>5 DEF Passing
<1>. QED  BY <1>1, <1>2

(* What the pass makes of a side. *)
AfterPass(q, side, b, e) ==
    IF Resolved(b, e) # {} /\ e.type = "Execute" THEN Hit(q, side, PreOf(b, e), e) ELSE q

LEMMA PassForm ==
    ASSUME NEW e, PlainPass(e), Tells(book), NEW side \in Sides
    PROVE  LET q == AfterPass(plain[side], side, Asked(book), e) IN
           plain[side]' = IF TwoSided(book') THEN Requote(q, Best(book', side)) ELSE q
<1> DEFINE pres == IF e.type = "Execute" THEN Resolved(book, e) ELSE {}
           After(s) == IF pres = {} THEN plain[s]
                       ELSE Hit(plain[s], s, CHOOSE p \in pres : TRUE, e)
           q == AfterPass(plain[side], side, Asked(book), e)
<1>1. plain' = [s \in Sides |-> IF TwoSided(book') THEN Requote(After(s), Best(book', s))
                                ELSE After(s)]
  BY Zenon DEF PlainPass
<1>2. Resolved(Asked(book), e) = Resolved(book, e)
  BY AskedTells
<1>3. After(side) = q
  <2>1. CASE e.type = "Execute"
    <3>1. pres = Resolved(Asked(book), e)
      BY <1>2, <2>1
    <3>. HIDE DEF pres
    <3>2. (CHOOSE p \in pres : TRUE) = PreOf(Asked(book), e)
      BY <3>1 DEF PreOf
    <3>. QED  BY <2>1, <3>1, <3>2 DEF AfterPass
  <2>2. CASE e.type # "Execute"
    BY <2>2 DEF AfterPass
  <2>. QED  BY <2>1, <2>2
<1>. HIDE DEF After, q
<1>4. plain'[side] = IF TwoSided(book') THEN Requote(After(side), Best(book', side)) ELSE After(side)
  BY <1>1
<1>. QED  BY <1>3, <1>4 DEF q

(* sim_mm's naive pass, written out on its own, is the market maker with naive fills and  *)
(* no latency: whatever the tape, after an event the pass's quotes are the maker's again, *)
(* unless the event swept one of the maker's, which the pass does not model.              *)
THEOREM PassIsNaiveMaker == Spec => SameNaive
<1>1. Init => Delayed /\ Grounded /\ Informed /\ Passing
  BY InitDelayed, InitGrounded, InitPassing
<1>2. Delayed /\ Grounded /\ Informed /\ Passing /\ [Next]_vars
         => (Delayed /\ Grounded /\ Informed /\ Passing)'
  BY NextDelayed, NextGrounded, NextPassing
<1>3. Delayed /\ Grounded /\ Passing /\ [Next]_vars =>
      [latency = 0 /\ policy.mode = "Always" /\ Same =>
          Same' \/ (fill["Naive"] # NoFill /\ fill["Naive"].swept)']_vars
  <2>. SUFFICES ASSUME Delayed, Grounded, Passing, Next,
                       latency = 0, policy.mode = "Always", Same
       PROVE  Same' \/ (fill["Naive"] # NoFill /\ fill["Naive"].swept)'
    OBVIOUS
  <2>1. PICK e : /\ Event(e) /\ e.type \in Kinds /\ Counted(e) /\ \E d \in Elapsed : OnEvent(e, d)
    BY NextIsOfTape
  <2>2. PICK d \in Elapsed : OnEvent(e, d)
    BY <2>1
  <2> DEFINE before == Asked(book)
             Early1(side) == Early(maker["Naive"][side], before, d, side)
             pre == PreOf(before, e)
  <2>3. "Naive" \in Models
    BY DEF Models
  <2>4. PICK l \in Nat : l = latency /\ l = 0
    OBVIOUS
  <2>5. CASE \E side \in Sides : Resolved(before, e) # {} /\ SweptFill(Early1(side), side, pre, e)
    <3>1. PICK side \in Sides : Resolved(before, e) # {} /\ SweptFill(Early1(side), side, pre, e)
      BY <2>5
    <3> DEFINE early == [s \in Sides |-> Early(maker["Naive"][s], before, d, s)]
    <3>2. fill'["Naive"] = FillRecord("Naive", early, pre, e)
      BY <2>2, <2>3, <3>1, FillForm
    <3>3. early[side] = Early1(side)
      OBVIOUS
    <3>. HIDE DEF early, Early1
    <3>4. SweptFill(early[side], side, pre, e)
      BY <3>1, <3>3
    <3>. HIDE DEF pre
    <3>5. fill'["Naive"] # NoFill /\ fill'["Naive"].swept
      BY <3>2, <3>4, SweepShows
    <3>. QED  BY <3>5
  <2>6. CASE ~ \E side \in Sides :
                   Resolved(before, e) # {} /\ SweptFill(Early1(side), side, pre, e)
    <3>. SUFFICES ASSUME NEW side \in Sides
         PROVE  plain'[side] = Plain(maker["Naive"][side]'.quote)
      BY DEF Same, Plain, PlainOf
    <3> DEFINE m == maker["Naive"][side]
               early == Early1(side)
               step == Stepped("Naive", early, side, before, e)
               q == AfterPass(plain[side], side, before, e)
    <3>1. /\ IsSide(m, l) /\ ~m.quote.inFlight /\ Whole(m.quote) /\ d \in Nat
          /\ allow[side] = TRUE
      BY <2>3, <2>4, MakerAssumption DEF Delayed, Grounded, Passing, NaiveWhole, AlwaysOn
    <3>2. /\ IsSide(early, l) /\ Plain(early.quote) = Plain(m.quote) /\ Whole(early.quote)
          /\ IsSide(step, l) /\ ~step.quote.inFlight
      BY <2>1, <2>4, <3>1, NaiveBefore
    <3>3. plain[side] = Plain(m.quote)
      BY DEF Same, Plain, PlainOf
    <3>4. Resolved(before, e) # {} => ~SweptFill(early, side, pre, e)
      BY <2>6
    <3>. HIDE DEF early
    <3>5. Plain(step.quote) = q
      <4>1. Plain(step.quote)
              = IF Resolved(before, e) # {} /\ e.type = "Execute"
                THEN Hit(Plain(early.quote), side, pre, e) ELSE Plain(early.quote)
        BY <2>1, <3>2, <3>4, SteppedSame
      <4>. QED  BY <3>2, <3>3, <4>1 DEF AfterPass
    <3>6. plain'[side] = IF TwoSided(book') THEN Requote(q, Best(book', side)) ELSE q
      <4>1. plain[side]' = IF TwoSided(book') THEN Requote(q, Best(book', side)) ELSE q
        BY <2>1, PassForm DEF Event, Passing
      <4>. QED  BY <4>1
    <3>7. maker["Naive"][side]' = Ended(step, book', side)
      BY <2>2, <2>3, EventForm DEF early
    <3>. HIDE DEF step, q
    <3>8. PICK b : b = book'
      OBVIOUS
    <3>9. Plain(Late(step, b, side).quote) = Requote(Plain(step.quote), Best(b, side))
      <4>1. allow[side] = On
        BY <3>1 DEF On
      <4>2. latency = l /\ l = 0 /\ l \in Nat
        BY <2>4
      <4>3. IsSide(step, l) /\ ~step.quote.inFlight
        BY <3>2
      <4>. HIDE <3>1, <2>4
      <4>. QED  BY <4>1, <4>2, <4>3, LateSame
    <3>10. Plain(Ended(step, b, side).quote)
             = IF TwoSided(b) THEN Requote(q, Best(b, side)) ELSE q
      BY <3>5, <3>9 DEF Ended
    <3>. QED  BY <3>6, <3>7, <3>8, <3>10
  <2>. QED  BY <2>5, <2>6
<1>. QED  BY <1>1, <1>2, <1>3, PTL DEF Spec, SameNaive

-----------------------------------------------------------------------------
(* The book the maker trades on is the one HybridBook_proofs is about, with the constants *)
(* the maker gives it: operator by operator the two instances are the same.               *)
HP == INSTANCE HybridBook_proofs WITH Depth <- 1, MaxRejected <- 0

LEMMA SameWindows ==
    ASSUME NEW p, NEW s, NEW h, NEW t, NEW bits
    PROVE  /\ Book!InGrid(p) <=> HP!InGrid(p)
           /\ Book!TickOf(p) = HP!TickOf(p)
           /\ Book!Window!Improved(s, h, t) = HP!Window!Improved(s, h, t)
           /\ Book!Window!Forgotten(h, t) = HP!Window!Forgotten(h, t)
           /\ Book!Nil = HP!Nil
<1>1. (Book!InGrid(p) <=> HP!InGrid(p)) /\ Book!TickOf(p) = HP!TickOf(p)
  BY Zenon DEF Book!InGrid, HP!InGrid, Book!TickOf, HP!TickOf, Book!Window!Floor, HP!Window!Floor,
               Book!Window!Ticks, HP!Window!Ticks, Book!Window!InGrid, HP!Window!InGrid,
               Book!Window!TickOf, HP!Window!TickOf
<1>2. Book!Window!Improved(s, h, t) = HP!Window!Improved(s, h, t)
  BY Zenon DEF Book!Window!Improved, HP!Window!Improved, Book!Window!NoTick, HP!Window!NoTick,
               Book!Window!Max, HP!Window!Max, Book!Window!Min, HP!Window!Min
<1>3. Book!Window!Forgotten(h, t) = HP!Window!Forgotten(h, t)
  BY Zenon DEF Book!Window!Forgotten, HP!Window!Forgotten, Book!Window!NoTick, HP!Window!NoTick
<1>4. Book!Nil = HP!Nil
  BY Zenon DEF Book!Nil, HP!Nil
<1>. QED  BY <1>1, <1>2, <1>3, <1>4, Zenon

LEMMA SamePools ==
    ASSUME NEW b, NEW i, NEW o, NEW x
    PROVE  /\ Book!Put(b, i, o) = HP!Put(b, i, o) /\ Book!Without(b, i) = HP!Without(b, i)
           /\ Book!Extended(b, o) = HP!Extended(b, o)
           /\ Book!Seqs!Last(x) = HP!Seqs!Last(x)
           /\ Book!TakeLevel(b, i) = HP!TakeLevel(b, i)
           /\ Book!ReturnLevel(b, i) = HP!ReturnLevel(b, i)
           /\ Book!Link(b, i, o) = HP!Link(b, i, o)
           /\ Book!Unlink(b, i) = HP!Unlink(b, i)
           /\ Book!ReturnOrder(b, i) = HP!ReturnOrder(b, i)
           /\ Book!Shrink(b, i, x) = HP!Shrink(b, i, x)
<1>1. /\ Book!Put(b, i, o) = HP!Put(b, i, o) /\ Book!Without(b, i) = HP!Without(b, i)
      /\ Book!Extended(b, o) = HP!Extended(b, o)
      /\ Book!Seqs!Last(x) = HP!Seqs!Last(x)
  BY Zenon DEF Book!Put, HP!Put, Book!Without, HP!Without, Book!Extended, HP!Extended,
               Book!Seqs!Last, HP!Seqs!Last
<1>2. Book!TakeLevel(b, i) = HP!TakeLevel(b, i)
  BY Zenon DEF Book!TakeLevel, HP!TakeLevel, Book!Put, HP!Put, Book!Nil, HP!Nil,
               Book!Seqs!Last, HP!Seqs!Last, Book!Seqs!Front, HP!Seqs!Front
<1>3. Book!ReturnLevel(b, i) = HP!ReturnLevel(b, i)
  BY Zenon DEF Book!ReturnLevel, HP!ReturnLevel, Book!Without, HP!Without
<1>4. Book!Link(b, i, o) = HP!Link(b, i, o)
  BY Zenon DEF Book!Link, HP!Link, Book!Put, HP!Put, Book!Extended, HP!Extended, Book!Nil, HP!Nil,
               Book!Seqs!Last, HP!Seqs!Last, Book!Seqs!Front, HP!Seqs!Front
<1>5. Book!Unlink(b, i) = HP!Unlink(b, i)
  BY Zenon DEF Book!Unlink, HP!Unlink, Book!Nil, HP!Nil
<1>6. Book!ReturnOrder(b, i) = HP!ReturnOrder(b, i)
  BY Zenon DEF Book!ReturnOrder, HP!ReturnOrder
<1>7. Book!Shrink(b, i, x) = HP!Shrink(b, i, x)
  BY Zenon DEF Book!Shrink, HP!Shrink
<1>. QED  BY <1>1, <1>2, <1>3, <1>4, <1>5, <1>6, <1>7, Zenon

LEMMA SameLookup == ASSUME NEW b, NEW s, NEW p PROVE Book!Lookup(b, s, p) = HP!Lookup(b, s, p)
  BY SameWindows, Zenon DEF Book!Lookup, HP!Lookup

LEMMA SameDrop == ASSUME NEW b, NEW s, NEW i PROVE Book!DropLevel(b, s, i) = HP!DropLevel(b, s, i)
  BY Zenon DEF Book!DropLevel, HP!DropLevel, Book!ReturnLevel, HP!ReturnLevel, Book!Without,
               HP!Without, Book!Nil, HP!Nil, Book!InGrid, HP!InGrid, Book!TickOf, HP!TickOf,
               Book!Window!Forgotten, HP!Window!Forgotten, Book!Window!NoTick, HP!Window!NoTick,
               Book!Window!Floor, HP!Window!Floor, Book!Window!Ticks, HP!Window!Ticks,
               Book!Window!InGrid, HP!Window!InGrid, Book!Window!TickOf, HP!Window!TickOf

LEMMA SameWithLevel ==
    ASSUME NEW b, NEW s, NEW p PROVE Book!WithLevel(b, s, p) = HP!WithLevel(b, s, p)
<1>1. Book!Lookup(b, s, p) = HP!Lookup(b, s, p)
  BY SameLookup
<1>2. \A h, t : Book!Window!Improved(s, h, t) = HP!Window!Improved(s, h, t)
  BY SameWindows
<1>3. /\ Book!InGrid(p) <=> HP!InGrid(p)
      /\ Book!TickOf(p) = HP!TickOf(p) /\ Book!Nil = HP!Nil
  BY SameWindows
<1>4. /\ Book!TakeLevel(b, p) = HP!TakeLevel(b, p)
      /\ Book!Seqs!Last(b.freeLevels) = HP!Seqs!Last(b.freeLevels)
  BY SamePools
<1>5. \A f, k, v : Book!Put(f, k, v) = HP!Put(f, k, v)
  BY SamePools
<1>. QED  BY <1>1, <1>2, <1>3, <1>4, <1>5, Zenon DEF Book!WithLevel, HP!WithLevel

LEMMA SameAdd ==
    ASSUME NEW b, NEW r, NEW s, NEW p, NEW q PROVE Book!Add(b, r, s, p, q) = HP!Add(b, r, s, p, q)
<1> DEFINE x == Book!WithLevel(b, s, p)
           o == [id |-> r, side |-> s, qty |-> q, seq |-> b.nextSeq]
           k == Book!Link(x, Book!Lookup(x, s, p), o)
<1>1. x = HP!WithLevel(b, s, p)
  BY SameWithLevel
<1>. HIDE DEF x
<1>2. k = HP!Link(x, HP!Lookup(x, s, p), o)
  BY SameLookup, SamePools
<1>3. Book!Lookup(b, s, p) = HP!Lookup(b, s, p) /\ Book!Nil = HP!Nil
  BY SameLookup, SameWindows
<1>4. /\ Book!Seqs!Last(b.freeOrders) = HP!Seqs!Last(b.freeOrders)
      /\ \A f, i, v : Book!Put(f, i, v) = HP!Put(f, i, v)
  BY SamePools
<1> DEFINE full == b.freeOrders = << >> \/ (Book!Lookup(b, s, p) = Book!Nil /\ b.freeLevels = << >>)
           last == Book!Seqs!Last(b.freeOrders)
           stamped == [k EXCEPT !.nextSeq = @ + 1]
           over == Book!Cardinality(DOMAIN b.ids) + 1 > (b.size.orders * 7) \div 10
<1>c. Book!Cardinality(DOMAIN b.ids) = HP!Cardinality(DOMAIN b.ids)
  BY Zenon DEF Book!Cardinality, HP!Cardinality, Book!IsFiniteSet, HP!IsFiniteSet
<1>5. Book!Add(b, r, s, p, q) = IF q = 0 THEN b
                                ELSE IF full THEN [b EXCEPT !.rejected = @ + 1]
                                ELSE IF over THEN [stamped EXCEPT !.rejected = @ + 1]
                                ELSE [stamped EXCEPT !.ids = Book!Put(@, r, last)]
  BY Zenon DEF Book!Add, x
<1>6. HP!Add(b, r, s, p, q) = IF q = 0 THEN b
                              ELSE IF full THEN [b EXCEPT !.rejected = @ + 1]
                              ELSE IF over THEN [stamped EXCEPT !.rejected = @ + 1]
                              ELSE [stamped EXCEPT !.ids = HP!Put(@, r, last)]
  <2>1. HP!Seqs!Last(b.freeOrders) = last
    BY <1>4
  <2>2. full = (b.freeOrders = << >> \/ (HP!Lookup(b, s, p) = HP!Nil /\ b.freeLevels = << >>))
    BY <1>3
  <2>. HIDE DEF k, full, last
  <2>. QED  BY <1>1, <1>2, <1>c, <2>1, <2>2 DEF HP!Add
<1>7. HP!Put(stamped.ids, r, last) = Book!Put(stamped.ids, r, last)
  BY <1>4
<1>. HIDE DEF full, stamped, over, last, k
<1>. QED  BY <1>5, <1>6, <1>7

LEMMA SameRemove == ASSUME NEW b, NEW r PROVE Book!Remove(b, r) = HP!Remove(b, r)
<1>1. ASSUME NEW i PROVE Book!Unlinked(b, i) = HP!Unlinked(b, i)
  <2> DEFINE u == Book!Unlink(b, i)
             o == b.orders[i]
  <2>1. u = HP!Unlink(b, i)
    BY SamePools
  <2>2. HP!Unlinked(b, i) = IF u.levels[o.level].orders = 0
                            THEN HP!DropLevel(u, o.side, o.level) ELSE u
    BY <2>1 DEF HP!Unlinked
  <2>3. Book!DropLevel(u, o.side, o.level) = HP!DropLevel(u, o.side, o.level)
    BY SameDrop
  <2>. QED  BY <2>2, <2>3, Zenon DEF Book!Unlinked
<1>2. \A c, i : Book!ReturnOrder(c, i) = HP!ReturnOrder(c, i)
  BY SamePools
<1>3. \A c, i : Book!Without(c, i) = HP!Without(c, i)
  BY SamePools
<1>4. Book!Unlinked(b, b.ids[r]) = HP!Unlinked(b, b.ids[r])
  BY <1>1
<1>. QED  BY <1>2, <1>3, <1>4, Zenon DEF Book!Remove, HP!Remove

LEMMA SameReduce ==
    ASSUME NEW b, NEW r, NEW q PROVE Book!Reduce(b, r, q) = HP!Reduce(b, r, q)
<1>1. Book!Remove(b, r) = HP!Remove(b, r) /\ Book!Shrink(b, b.ids[r], q) = HP!Shrink(b, b.ids[r], q)
  BY SameRemove, SamePools
<1>. QED  BY <1>1, Zenon DEF Book!Reduce, HP!Reduce

LEMMA SameReplace ==
    ASSUME NEW b, NEW r, NEW n, NEW p, NEW q
    PROVE  Book!Replace(b, r, n, p, q) = HP!Replace(b, r, n, p, q)
<1>1. Book!Remove(b, r) = HP!Remove(b, r)
  BY SameRemove
<1>2. \A c, s : Book!Add(c, n, s, p, q) = HP!Add(c, n, s, p, q)
  BY SameAdd
<1>. QED  BY <1>1, <1>2, Zenon DEF Book!Replace, HP!Replace

LEMMA SameRefreshed ==
    ASSUME NEW s, NEW bits, NEW h PROVE Book!Window!Refreshed(s, bits, h) = HP!Window!Refreshed(s, bits, h)
  BY Zenon DEF Book!Window!Refreshed, HP!Window!Refreshed, Book!Window!FirstTick,
               HP!Window!FirstTick, Book!Window!Scan, HP!Window!Scan, Book!Window!ScanDown,
               HP!Window!ScanDown, Book!Window!ScanUp, HP!Window!ScanUp, Book!Window!NoTick,
               HP!Window!NoTick, Book!Window!Ticks, HP!Window!Ticks, Book!Window!Floor,
               HP!Window!Floor, Book!Window!Max, HP!Window!Max, Book!Window!Min, HP!Window!Min

LEMMA SameQuery == ASSUME NEW b, NEW s PROVE Book!Query(b, s) = HP!Query(b, s)
<1>1. \A bits, h : Book!Window!Refreshed(s, bits, h) = HP!Window!Refreshed(s, bits, h)
  BY SameRefreshed
<1>. QED  BY <1>1, Zenon DEF Book!Query, HP!Query

LEMMA SameBestOf ==
    ASSUME NEW s, NEW h, NEW v PROVE Book!Window!BestOf(s, h, v) = HP!Window!BestOf(s, h, v)
<1>1. Book!Window!Outermost(s, v) = HP!Window!Outermost(s, v)
  BY Zenon DEF Book!Window!Outermost, HP!Window!Outermost, Book!Window!Max, HP!Window!Max,
               Book!Window!Min, HP!Window!Min
<1>2. \A p, q : Book!Window!Better(s, p, q) <=> HP!Window!Better(s, p, q)
  BY Zenon DEF Book!Window!Better, HP!Window!Better
<1>3. Book!Window!PriceOf(h) = HP!Window!PriceOf(h)
  BY Zenon DEF Book!Window!PriceOf, HP!Window!PriceOf, Book!Window!Floor, HP!Window!Floor
<1>4. Book!Window!kInvalidPrice = HP!Window!kInvalidPrice /\ Book!Window!NoTick = HP!Window!NoTick
  BY Zenon DEF Book!Window!kInvalidPrice, HP!Window!kInvalidPrice, Book!Window!NoTick, HP!Window!NoTick
<1>. QED  BY <1>1, <1>2, <1>3, <1>4, Zenon DEF Book!Window!BestOf, HP!Window!BestOf

LEMMA SameBest == ASSUME NEW b, NEW s PROVE Book!BestPrice(b, s) = HP!BestPrice(b, s)
<1>1. \A bits, h : Book!Window!Refreshed(s, bits, h) = HP!Window!Refreshed(s, bits, h)
  BY SameRefreshed
<1>2. \A h, v : Book!Window!BestOf(s, h, v) = HP!Window!BestOf(s, h, v)
  BY SameBestOf
<1>. QED  BY <1>1, <1>2, Zenon DEF Book!BestPrice, HP!BestPrice

LEMMA SameEmpty == ASSUME NEW z PROVE Book!Empty(z) = HP!Empty(z)
  BY Zenon DEF Book!Empty, HP!Empty, Book!Extended, HP!Extended, Book!NewPool, HP!NewPool,
               Book!Stack, HP!Stack, Book!Sides, HP!Sides, Book!Promise!Sides, HP!Promise!Sides,
               Book!Nil, HP!Nil, Book!Window!Ticks, HP!Window!Ticks, Book!Window!Floor,
               HP!Window!Floor, Book!Window!NoTick, HP!Window!NoTick

LEMMA SameConstants == Book!HybridConstants <=> HP!HybridConstants
  BY Zenon DEF Book!HybridConstants, HP!HybridConstants, Book!Promise!BookConstants,
               HP!Promise!BookConstants, Book!Window!WindowConstants, HP!Window!WindowConstants,
               Book!Window!Floor, HP!Window!Floor

LEMMA SameOrderIn == ASSUME NEW b, NEW i PROVE Book!OrderIn(b, i) = HP!OrderIn(b, i)
  BY Zenon DEF Book!OrderIn, HP!OrderIn

-----------------------------------------------------------------------------
LEMMA SameSides == Sides = HP!Sides
  BY Zenon DEF Sides, Book!Sides, HP!Sides, Book!Promise!Sides, HP!Promise!Sides

(* The orders of a price and side that were stamped before j, and their shares. *)
InFront(b, side, px, j) ==
    {i \in DOMAIN b.orders : /\ b.orders[i].side = side /\ HP!PriceAt(b, i) = px
                             /\ b.orders[i].seq < j}

Ahead(b, side, px, j) == HP!SumOf(b.orders, InFront(b, side, px, j))

LEMMA OrderFacts ==
    ASSUME NEW b, HP!BookInv(b), NEW i \in DOMAIN b.orders
    PROVE  /\ b.orders[i].seq \in Nat /\ b.orders[i].seq < b.nextSeq
           /\ b.orders[i].qty \in Nat /\ b.orders[i].qty > 0
           /\ b.orders[i].side \in HP!Sides /\ HP!PriceAt(b, i) \in Nat
           /\ b.nextSeq \in Nat
           /\ HP!Lookup(b, b.orders[i].side, HP!PriceAt(b, i)) = b.orders[i].level
           /\ b.orders[i].level # HP!Nil
<1>1. /\ HP!Queues(b.orders, b.levels, b.nextSeq) /\ HP!Found(b)
  BY DEF HP!BookInv, HP!Sound
<1>2. HP!EntryFits(b.orders, b.levels, b.nextSeq, i) /\ b.nextSeq \in Nat /\ DOMAIN b.levels \subseteq Nat
  BY <1>1 DEF HP!Queues
<1>3. b.orders[i] \in HP!Entry /\ b.orders[i].level \in DOMAIN b.levels /\ b.orders[i].seq < b.nextSeq
  BY <1>2 DEF HP!EntryFits
<1>4. HP!LevelFits(b.orders, b.levels, b.orders[i].level)
  BY <1>1, <1>3 DEF HP!Queues
<1>5. b.levels[b.orders[i].level].price \in Nat
  BY <1>4 DEF HP!LevelFits, HP!LevelEntry
<1>6. HP!Lookup(b, b.orders[i].side, HP!PriceAt(b, i)) = b.orders[i].level
  BY <1>1 DEF HP!Found, HP!PriceAt
<1>7. b.orders[i].level # HP!Nil
  BY <1>2, <1>3 DEF HP!Nil
<1>. QED  BY <1>2, <1>3, <1>5, <1>6, <1>7 DEF HP!Entry, HP!PriceAt

LEMMA AheadCounts ==
    ASSUME NEW b, HP!BookInv(b), NEW S, S \subseteq DOMAIN b.orders
    PROVE  HP!Counts(b.orders, S) /\ HP!SumOf(b.orders, S) \in Nat /\ HP!SumOf(b.orders, {}) = 0
<1>1. HP!Queues(b.orders, b.levels, b.nextSeq)
  BY DEF HP!BookInv, HP!Sound
<1>2. HP!Counts(b.orders, S)
  BY <1>1, HP!LevelCounts
<1>. QED  BY <1>2, HP!SumIsNat

LEMMA FrontIsOnLevel ==
    ASSUME NEW b, HP!BookInv(b), NEW side \in Sides, NEW px \in Nat, NEW j
    PROVE  InFront(b, side, px, j) =
              IF HP!Lookup(b, side, px) = HP!Nil THEN {}
              ELSE {i \in HP!OnLevel(b.orders, HP!Lookup(b, side, px)) : b.orders[i].seq < j}
<1> DEFINE li == HP!Lookup(b, side, px)
<1>0. side \in HP!Sides
  BY SameSides
<1>1. ASSUME NEW i \in InFront(b, side, px, j) PROVE li # HP!Nil /\ i \in HP!OnLevel(b.orders, li)
  BY OrderFacts DEF InFront, HP!OnLevel
<1>2. ASSUME li # HP!Nil, NEW i \in HP!OnLevel(b.orders, li)
      PROVE  i \in DOMAIN b.orders /\ b.orders[i].side = side /\ HP!PriceAt(b, i) = px
  BY <1>0, <1>2, HP!LevelSide DEF HP!OnLevel
<1>. HIDE DEF li
<1>3. CASE li = HP!Nil
  BY <1>1, <1>3 DEF li
<1>4. CASE li # HP!Nil
  <2>1. InFront(b, side, px, j) = {i \in HP!OnLevel(b.orders, li) : b.orders[i].seq < j}
    BY <1>1, <1>2, <1>4 DEF InFront
  <2>. QED  BY <1>4, <2>1 DEF li
<1>. QED  BY <1>3, <1>4

LEMMA RestingIsAhead ==
    ASSUME NEW b, HP!BookInv(b), NEW side \in Sides, NEW px \in Nat, NEW j
    PROVE  RestingAhead(b, side, px, j) = Ahead(b, side, px, j)
<1> DEFINE li == HP!Lookup(b, side, px)
           S == {oi \in Book!Resting(b, li) : b.orders[oi].seq < j}
<1>1. Book!Lookup(b, side, px) = li /\ Book!Nil = HP!Nil
  BY SameLookup, SameWindows
<1>2. S = {i \in HP!OnLevel(b.orders, li) : b.orders[i].seq < j}
  BY DEF Book!Resting, HP!OnLevel
<1>. HIDE DEF S, li
<1>3. MapThenSumSet(LAMBDA oi : b.orders[oi].qty, S) = HP!SumOf(b.orders, S)
  BY Zenon DEF HP!SumOf, MapThenSumSet, HP!MapThenSumSet, MapThenFoldSet, HP!MapThenFoldSet
<1>4. RestingAhead(b, side, px, j)
        = IF li = HP!Nil THEN 0 ELSE MapThenSumSet(LAMBDA oi : b.orders[oi].qty, S)
  BY <1>1, Zenon DEF RestingAhead, S
<1>5. InFront(b, side, px, j) = IF li = HP!Nil THEN {} ELSE S
  BY <1>2, FrontIsOnLevel DEF li
<1>6. HP!SumOf(b.orders, {}) = 0
  BY AheadCounts
<1>. QED  BY <1>3, <1>4, <1>5, <1>6 DEF Ahead

(* What a quote that joins is told: all that rests at the price is ahead. *)
LEMMA RestingIsAll ==
    ASSUME NEW b, HP!BookInv(b), NEW side \in Sides, NEW px \in Nat
    PROVE  RestingAt(b, side, px) = Ahead(b, side, px, b.nextSeq)
<1> DEFINE li == HP!Lookup(b, side, px)
           S == HP!OnLevel(b.orders, li)
<1>0. side \in HP!Sides
  BY SameSides
<1>1. RestingAt(b, side, px) = IF li = HP!Nil THEN 0 ELSE b.levels[li].qty
  <2>1. Book!Lookup(b, side, px) = li /\ Book!Nil = HP!Nil
    BY SameLookup, SameWindows
  <2>. QED  BY <2>1 DEF RestingAt
<1>2. InFront(b, side, px, b.nextSeq) = IF li = HP!Nil THEN {} ELSE S
  <2>1. PICK j : j = b.nextSeq
    OBVIOUS
  <2>2. InFront(b, side, px, j)
          = IF li = HP!Nil THEN {} ELSE {i \in S : b.orders[i].seq < j}
    BY FrontIsOnLevel
  <2>3. \A i \in S : b.orders[i].seq < j
    BY <2>1, OrderFacts DEF HP!OnLevel
  <2>. HIDE DEF li, S
  <2>. QED  BY <2>1, <2>2, <2>3
<1>3. HP!SumOf(b.orders, {}) = 0
  BY AheadCounts
<1>4. li # HP!Nil => b.levels[li].qty = HP!SumOf(b.orders, S)
  <2>1. li # HP!Nil => li \in DOMAIN b.levels
    BY <1>0, HP!LevelSide
  <2>. HIDE DEF li
  <2>2. li \in DOMAIN b.levels => HP!LevelFits(b.orders, b.levels, li)
    BY DEF HP!BookInv, HP!Sound, HP!Queues
  <2>. QED  BY <2>1, <2>2 DEF HP!LevelFits, HP!TotalsFit
<1>. HIDE DEF li, S
<1>. QED  BY <1>1, <1>2, <1>3, <1>4 DEF Ahead

(* How the shares in front change with the orders. *)
LEMMA AheadAfterAdd ==
    ASSUME NEW b, HP!BookInv(b), NEW c, NEW oi, NEW ref, NEW s, NEW p, NEW q,
           HP!AddsOrder(c, b, oi, ref, s, p, q), NEW side, NEW px, NEW j \in Nat, j <= b.nextSeq
    PROVE  Ahead(c, side, px, j) = Ahead(b, side, px, j)
<1>1. /\ DOMAIN c.orders = DOMAIN b.orders \cup {oi} /\ oi \notin DOMAIN b.orders
      /\ c.orders[oi].seq = b.nextSeq
      /\ \A i \in DOMAIN b.orders : HP!KeptOrder(c, b, i)
  BY DEF HP!AddsOrder
<1>2. b.nextSeq \in Nat
  BY DEF HP!BookInv, HP!Sound, HP!Queues
<1>3. InFront(c, side, px, j) = InFront(b, side, px, j)
  BY <1>1, <1>2 DEF InFront, HP!KeptOrder, HP!SameOrder
<1>4. InFront(b, side, px, j) \subseteq DOMAIN b.orders
  BY DEF InFront
<1>5. \A i \in InFront(b, side, px, j) : c.orders[i].qty = b.orders[i].qty
  BY <1>1, <1>4 DEF HP!KeptOrder, HP!SameOrder
<1>6. HP!Counts(b.orders, InFront(b, side, px, j))
  BY <1>4, AheadCounts
<1>. QED  BY <1>3, <1>5, <1>6, HP!SumSame DEF Ahead

LEMMA AheadAfterTake ==
    ASSUME NEW b, HP!BookInv(b), NEW c, NEW oi, NEW ref, HP!TakesOut(c, b, oi, ref),
           NEW side, NEW px, NEW j
    PROVE  IF oi \in InFront(b, side, px, j)
           THEN Ahead(b, side, px, j) = b.orders[oi].qty + Ahead(c, side, px, j)
           ELSE Ahead(c, side, px, j) = Ahead(b, side, px, j)
<1> DEFINE S == InFront(b, side, px, j)
<1>1. /\ oi \in DOMAIN b.orders /\ DOMAIN c.orders = DOMAIN b.orders \ {oi}
      /\ \A i \in DOMAIN c.orders : HP!KeptOrder(c, b, i)
  BY DEF HP!TakesOut
<1>2. InFront(c, side, px, j) = S \ {oi}
  BY <1>1 DEF InFront, HP!KeptOrder, HP!SameOrder
<1>3. S \subseteq DOMAIN b.orders
  BY DEF InFront
<1>. HIDE DEF S
<1>4. \A i \in S \ {oi} : c.orders[i].qty = b.orders[i].qty
  BY <1>1, <1>3 DEF HP!KeptOrder, HP!SameOrder
<1>5. HP!Counts(b.orders, S) /\ HP!Counts(b.orders, S \ {oi})
  BY <1>3, AheadCounts
<1>6. HP!SumOf(c.orders, S \ {oi}) = HP!SumOf(b.orders, S \ {oi})
  BY <1>4, <1>5, HP!SumSame
<1>7. oi \in S => HP!SumOf(b.orders, S) = b.orders[oi].qty + HP!SumOf(b.orders, S \ {oi})
  BY <1>5, HP!SumWithout
<1>8. oi \notin S => S \ {oi} = S
  OBVIOUS
<1>. QED  BY <1>2, <1>6, <1>7, <1>8 DEF Ahead, S

LEMMA AheadAfterShrink ==
    ASSUME NEW b, HP!BookInv(b), NEW c, HP!BookInv(c), NEW oi \in DOMAIN b.orders, NEW q \in Nat,
           HP!TakesShares(c, b, oi, q), NEW side, NEW px, NEW j
    PROVE  IF oi \in InFront(b, side, px, j)
           THEN Ahead(b, side, px, j) = q + Ahead(c, side, px, j)
           ELSE Ahead(c, side, px, j) = Ahead(b, side, px, j)
<1> DEFINE S == InFront(b, side, px, j)
<1>1. /\ DOMAIN c.orders = DOMAIN b.orders
      /\ \A i \in DOMAIN b.orders :
          /\ c.orders[i].side = b.orders[i].side
          /\ c.orders[i].seq = b.orders[i].seq /\ HP!PriceAt(c, i) = HP!PriceAt(b, i)
          /\ c.orders[i].qty = IF i = oi THEN b.orders[i].qty - q ELSE b.orders[i].qty
  BY DEF HP!TakesShares
<1>2. InFront(c, side, px, j) = S
  BY <1>1 DEF InFront
<1>3. S \subseteq DOMAIN b.orders
  BY DEF InFront
<1>. HIDE DEF S
<1>4. \A i \in S \ {oi} : c.orders[i].qty = b.orders[i].qty
  BY <1>1, <1>3
<1>5. HP!Counts(b.orders, S) /\ HP!Counts(b.orders, S \ {oi}) /\ HP!Counts(c.orders, S)
  BY <1>1, <1>3, AheadCounts
<1>6. HP!SumOf(c.orders, S \ {oi}) = HP!SumOf(b.orders, S \ {oi})
  BY <1>4, <1>5, HP!SumSame
<1>7. oi \in S => /\ HP!SumOf(b.orders, S) = b.orders[oi].qty + HP!SumOf(b.orders, S \ {oi})
                  /\ HP!SumOf(c.orders, S) = c.orders[oi].qty + HP!SumOf(c.orders, S \ {oi})
  BY <1>5, HP!SumWithout
<1>8. oi \notin S => S \ {oi} = S
  OBVIOUS
<1>9. /\ c.orders[oi].qty = b.orders[oi].qty - q /\ b.orders[oi].qty \in Nat
      /\ HP!SumOf(b.orders, S \ {oi}) \in Nat
  <2>1. S \ {oi} \subseteq DOMAIN b.orders
    BY <1>3
  <2>. QED  BY <1>1, <2>1, OrderFacts, AheadCounts
<1>10. CASE oi \in S
  BY <1>2, <1>6, <1>7, <1>9, <1>10 DEF Ahead, S
<1>11. CASE oi \notin S
  BY <1>2, <1>6, <1>8, <1>11 DEF Ahead, S
<1>. QED  BY <1>10, <1>11 DEF S

-----------------------------------------------------------------------------
LEMMA Constants ==
    /\ HP!HybridConstants /\ Prices \subseteq Nat \ {0} /\ Quantities \subseteq Nat
    /\ QuoteSize \in Nat \ {0} /\ Listings \subseteq Sides \X Prices \X Quantities
    /\ Elapsed \subseteq Nat
<1>1. HP!HybridConstants
  BY MakerAssumption, SameConstants
<1>2. Prices \subseteq Nat \ {0} /\ Quantities \subseteq Nat
  BY <1>1, HP!ConstantFacts
<1>. QED  BY <1>1, <1>2, MakerAssumption

(* An event that a tape may go on with over the book b. *)
OfTape(b, e) ==
    /\ e.type \in Kinds
    /\ e.type = "Add" => /\ e.ref \in Refs /\ e.side \in Sides
                         /\ e.price \in Prices /\ e.shares \in Quantities
    /\ e.type # "Add" => e.ref \in DOMAIN b.ids
    /\ e.type \in {"Execute", "Cancel"} =>
          e.shares \in Quantities /\ e.shares <= b.orders[b.ids[e.ref]].qty
    /\ e.type = "Replace" => e.new \in Refs /\ e.price \in Prices /\ e.shares \in Quantities

LEMMA NextIsOfBook ==
    ASSUME Next
    PROVE  \E e : /\ Event(e) /\ e.type \in Kinds /\ Counted(e) /\ OfTape(book, e)
                  /\ \E d \in Elapsed : OnEvent(e, d)
<1>0. \A l \in Listings : l[1] \in Sides /\ l[2] \in Prices /\ l[3] \in Quantities
  BY Constants
<1>1. ASSUME NEW e \in Adds PROVE OfTape(book, e) /\ Counted(e)
  <2>1. PICK ref \in Refs, l \in Listings :
           e = [type |-> "Add", ref |-> ref, side |-> l[1], price |-> l[2], shares |-> l[3]]
    BY DEF Adds
  <2>. QED  BY <1>0, <2>1 DEF OfTape, Kinds, Counted
<1>2. ASSUME NEW type \in {"Execute", "Cancel"}, NEW e \in Reductions(type)
      PROVE  OfTape(book, e) /\ Counted(e)
  <2>1. PICK ref \in DOMAIN book.ids : \E q \in Quantities :
           q <= Left(ref) /\ e = [type |-> type, ref |-> ref, shares |-> q]
    BY DEF Reductions, InBook
  <2>2. PICK q \in Quantities : q <= Left(ref) /\ e = [type |-> type, ref |-> ref, shares |-> q]
    BY <2>1
  <2>3. e.type = type /\ e.ref = ref /\ e.shares = q /\ q \in Nat
    BY <2>2, Constants
  <2>. QED  BY <2>2, <2>3 DEF OfTape, Kinds, Left, Counted
<1>3. ASSUME NEW e \in Deletes PROVE OfTape(book, e) /\ Counted(e)
  <2>1. PICK ref \in DOMAIN book.ids : e = [type |-> "Delete", ref |-> ref]
    BY DEF Deletes, InBook
  <2>. QED  BY <2>1 DEF OfTape, Kinds, Counted
<1>4. ASSUME NEW e \in Replaces PROVE OfTape(book, e) /\ Counted(e)
  <2>1. PICK old \in DOMAIN book.ids : \E ref \in Refs, l \in Listings :
           e = [type |-> "Replace", ref |-> old, new |-> ref, price |-> l[2], shares |-> l[3]]
    BY DEF Replaces, InBook
  <2>2. PICK ref \in Refs, l \in Listings :
           e = [type |-> "Replace", ref |-> old, new |-> ref, price |-> l[2], shares |-> l[3]]
    BY <2>1
  <2>. QED  BY <1>0, <2>2 DEF OfTape, Kinds, Counted
<1>5. PICK e : Event(e) /\ OfTape(book, e) /\ Counted(e)
  BY <1>1, <1>2, <1>3, <1>4, Zenon
     DEF Next, AddEvent, ExecuteEvent, CancelEvent, DeleteEvent, ReplaceEvent
<1>. QED  BY <1>5 DEF Event, OfTape

LEMMA AskedKeeps ==
    ASSUME NEW b, HP!BookInv(b)
    PROVE  LET c == Asked(b) IN
           /\ HP!BookInv(c) /\ c.orders = b.orders /\ c.levels = b.levels
           /\ c.ids = b.ids /\ c.nextSeq = b.nextSeq
<1> DEFINE x == HP!Query(b, "Buy")
           y == HP!Query(x, "Sell")
<1>0. HP!HybridConstants /\ "Buy" \in HP!Sides /\ "Sell" \in HP!Sides
  BY Constants DEF HP!Sides, HP!Promise!Sides
<1>1. /\ HP!BookInv(x) /\ x.orders = b.orders /\ x.levels = b.levels
      /\ x.ids = b.ids /\ x.nextSeq = b.nextSeq
  BY <1>0, HP!QueryKeeps
<1>2. Asked(b) = y
  BY SameQuery DEF Asked
<1>. HIDE DEF x
<1>3. /\ HP!BookInv(y) /\ y.orders = x.orders /\ y.levels = x.levels
      /\ y.ids = x.ids /\ y.nextSeq = x.nextSeq
  BY <1>0, <1>1, HP!QueryKeeps
<1>. QED  BY <1>1, <1>2, <1>3

(* The shares an event takes out of its order, as the position is told of them. *)
Taken(pre, e) == IF e.type \in {"Execute", "Cancel"} THEN e.shares ELSE pre.qty

(* What pre says of the order oi. *)
Names(pre, b, oi) ==
    /\ oi \in DOMAIN b.orders
    /\ pre.side = b.orders[oi].side /\ pre.price = HP!PriceAt(b, oi)
    /\ pre.qty = b.orders[oi].qty /\ pre.seq = b.orders[oi].seq /\ pre.prev = b.orders[oi].prev

LEMMA PreNames ==
    ASSUME NEW b, HP!BookInv(b), NEW e, OfTape(b, e)
    PROVE  IF e.type = "Add" THEN Resolved(b, e) = {}
           ELSE /\ Resolved(b, e) = {PreOf(b, e)} /\ Names(PreOf(b, e), b, b.ids[e.ref])
<1>1. CASE e.type = "Add"
  BY <1>1 DEF Resolved
<1>2. CASE e.type # "Add"
  <2> DEFINE oi == b.ids[e.ref]
             o == b.orders[oi]
             pre == Extended(o, Book!OrderIn(b, oi))
  <2>1. Resolved(b, e) = {pre}
    BY <1>2 DEF Resolved, OfTape
  <2>2. PreOf(b, e) = pre
    BY <2>1 DEF PreOf
  <2>3. oi \in DOMAIN b.orders
    BY <1>2 DEF OfTape, HP!BookInv, HP!IdsFit
  <2>4. o \in HP!Entry
    BY <2>3 DEF HP!BookInv, HP!Sound, HP!Queues, HP!EntryFits
  <2>5. DOMAIN o = {"id", "side", "qty", "seq", "prev", "next", "level"}
    BY <2>4 DEF HP!Entry
  <2>6. Book!OrderIn(b, oi) = [side |-> o.side, price |-> HP!PriceAt(b, oi), qty |-> o.qty]
    BY DEF Book!OrderIn, HP!PriceAt
  <2>. HIDE DEF o
  <2>7. /\ pre.side = o.side /\ pre.price = HP!PriceAt(b, oi)
        /\ pre.qty = o.qty /\ pre.seq = o.seq /\ pre.prev = o.prev
    BY <2>5, <2>6 DEF Extended
  <2>. QED  BY <1>2, <2>1, <2>2, <2>3, <2>7 DEF Names, o
<1>. QED  BY <1>1, <1>2

(* What is ahead of a stamp after an event: what was, without what the event took ahead of it. *)
Advances(b, c, pre, e) ==
    \A side \in Sides, px \in Nat, j \in Nat : j <= b.nextSeq =>
       IF e.type # "Add" /\ pre.side = side /\ pre.price = px /\ pre.seq < j
       THEN Ahead(b, side, px, j) = Taken(pre, e) + Ahead(c, side, px, j)
       ELSE Ahead(c, side, px, j) = Ahead(b, side, px, j)

LEMMA EventAdvances ==
    ASSUME NEW b, HP!BookInv(b), NEW e, OfTape(b, e)
    PROVE  LET c == Apply(b, e) IN
           /\ HP!BookInv(c) /\ b.nextSeq <= c.nextSeq
           /\ Advances(b, c, PreOf(b, e), e)
<1> DEFINE c == Apply(b, e)
           oi == b.ids[e.ref]
           pre == PreOf(b, e)
<1>0. HP!HybridConstants /\ b.nextSeq \in Nat
  BY Constants DEF HP!BookInv, HP!Sound, HP!Queues
<1>q. \A q \in Quantities : q \in Nat
  BY Constants
<1>p. \A p \in Prices : p \in Nat \ {0}
  BY Constants
<1>n. e.type # "Add" => Names(pre, b, oi) /\ e.ref \in DOMAIN b.ids
  BY PreNames DEF OfTape
<1>. HIDE DEF pre
<1>i. ASSUME NEW side, NEW px, NEW j, e.type # "Add"
      PROVE  oi \in InFront(b, side, px, j) <=> pre.side = side /\ pre.price = px /\ pre.seq < j
  BY <1>n, <1>i DEF Names, InFront
<1>a. ASSUME NEW x, HP!BookInv(x), NEW y, NEW ref \in Refs, NEW s \in HP!Sides, NEW p \in Prices,
             NEW q \in Quantities, y = HP!Add(x, ref, s, p, q)
      PROVE  /\ HP!BookInv(y) /\ x.nextSeq <= y.nextSeq
             /\ \A side, px : \A j \in Nat : j <= x.nextSeq => Ahead(y, side, px, j) = Ahead(x, side, px, j)
  <2>0. x.nextSeq \in Nat /\ p \in Nat \ {0} /\ q \in Nat
    BY <1>a, <1>q, <1>p DEF HP!BookInv, HP!Sound, HP!Queues
  <2>1. /\ HP!BookInv(y)
        /\ \/ q = 0 /\ y = x
           \/ q # 0 /\ HP!TurnedDown(y, x)
           \/ q # 0 /\ HP!AddsOrder(y, x, HP!Seqs!Last(x.freeOrders), ref, s, p, q)
    BY <1>0, <1>a, <2>0, HP!AddKeeps
  <2>2. CASE y = x
    BY <2>0, <2>1, <2>2
  <2>3. CASE HP!TurnedDown(y, x)
    BY <2>0, <2>1, <2>3 DEF HP!TurnedDown, Ahead, InFront, HP!PriceAt
  <2>4. CASE HP!AddsOrder(y, x, HP!Seqs!Last(x.freeOrders), ref, s, p, q)
    <3>1. x.nextSeq <= y.nextSeq
      BY <2>0, <2>4 DEF HP!AddsOrder
    <3>2. PICK k : k = HP!Seqs!Last(x.freeOrders)
      OBVIOUS
    <3>3. HP!AddsOrder(y, x, k, ref, s, p, q)
      BY <2>4, <3>2
    <3>4. ASSUME NEW side, NEW px, NEW j \in Nat, j <= x.nextSeq
          PROVE  Ahead(y, side, px, j) = Ahead(x, side, px, j)
      BY <1>a, <3>3, <3>4, AheadAfterAdd
    <3>. QED  BY <2>1, <3>1, <3>4
  <2>. QED  BY <2>1, <2>2, <2>3, <2>4
<1>1. CASE e.type = "Add"
  <2>1. c = HP!Add(b, e.ref, e.side, e.price, e.shares)
    BY <1>1, SameAdd DEF Apply
  <2>2. e.ref \in Refs /\ e.side \in HP!Sides /\ e.price \in Prices /\ e.shares \in Quantities
    BY <1>1, SameSides DEF OfTape
  <2>. HIDE DEF c
  <2>3. /\ HP!BookInv(c) /\ b.nextSeq <= c.nextSeq
        /\ \A side, px : \A j \in Nat : j <= b.nextSeq => Ahead(c, side, px, j) = Ahead(b, side, px, j)
    BY <1>a, <2>1, <2>2
  <2>. QED  BY <1>1, <2>3 DEF Advances, c, pre
<1>t. ASSUME NEW x, HP!TakesOut(x, b, oi, e.ref), e.type # "Add", Taken(pre, e) = b.orders[oi].qty
      PROVE  x.nextSeq = b.nextSeq /\ Advances(b, x, pre, e)
  <2>1. PICK i, r : i = oi /\ r = e.ref
    OBVIOUS
  <2>2. HP!TakesOut(x, b, i, r)
    BY <1>t, <2>1
  <2>3. ASSUME NEW side, NEW px, NEW j
        PROVE  IF i \in InFront(b, side, px, j)
               THEN Ahead(b, side, px, j) = b.orders[i].qty + Ahead(x, side, px, j)
               ELSE Ahead(x, side, px, j) = Ahead(b, side, px, j)
    BY <2>2, AheadAfterTake
  <2>. HIDE DEF oi
  <2>. QED  BY <1>t, <1>i, <2>1, <2>3 DEF Advances, HP!TakesOut
<1>2. CASE e.type \in {"Execute", "Cancel"}
  <2>1. c = HP!Reduce(b, e.ref, e.shares)
    BY <1>2, SameReduce DEF Apply
  <2>2. /\ e.ref \in DOMAIN b.ids /\ e.shares \in Nat /\ e.shares <= b.orders[oi].qty
        /\ oi \in DOMAIN b.orders /\ Taken(pre, e) = e.shares /\ e.type # "Add"
    BY <1>2, <1>q DEF OfTape, HP!BookInv, HP!IdsFit, Taken
  <2>3. b.orders[oi].qty \in Nat
    BY <2>2, OrderFacts
  <2>. HIDE DEF c
  <2>4. /\ HP!BookInv(c)
        /\ \/ e.shares >= b.orders[oi].qty /\ HP!TakesOut(c, b, oi, e.ref)
           \/ HP!TakesShares(c, b, oi, e.shares)
    BY <1>0, <2>1, <2>2, HP!ReduceKeeps
  <2>5. CASE e.shares >= b.orders[oi].qty /\ HP!TakesOut(c, b, oi, e.ref)
    <3>1. e.shares = b.orders[oi].qty
      BY <2>2, <2>3, <2>5
    <3>2. c.nextSeq = b.nextSeq /\ Advances(b, c, pre, e)
      BY <1>t, <2>2, <2>5, <3>1
    <3>. QED  BY <1>0, <2>4, <3>2 DEF c, pre
  <2>6. CASE HP!TakesShares(c, b, oi, e.shares)
    <3>1. PICK i \in DOMAIN b.orders : i = oi
      BY <2>2
    <3>2. PICK q \in Nat : q = e.shares
      BY <2>2
    <3>3. HP!TakesShares(c, b, i, q)
      BY <2>6, <3>1, <3>2
    <3>4. ASSUME NEW side, NEW px, NEW j
          PROVE  IF i \in InFront(b, side, px, j)
                 THEN Ahead(b, side, px, j) = q + Ahead(c, side, px, j)
                 ELSE Ahead(c, side, px, j) = Ahead(b, side, px, j)
      BY <2>4, <3>3, AheadAfterShrink
    <3>5. c.nextSeq = b.nextSeq
      BY <2>6 DEF HP!TakesShares
    <3>. HIDE DEF oi
    <3>6. Advances(b, c, pre, e)
      BY <1>i, <2>2, <3>1, <3>2, <3>4 DEF Advances
    <3>. QED  BY <1>0, <2>4, <3>5, <3>6 DEF c, pre
  <2>. QED  BY <2>4, <2>5, <2>6
<1>3. CASE e.type = "Delete"
  <2>1. c = HP!Remove(b, e.ref)
    BY <1>3, SameRemove DEF Apply
  <2>2. /\ e.ref \in DOMAIN b.ids /\ e.type # "Add" /\ Taken(pre, e) = b.orders[oi].qty
    BY <1>3, <1>n DEF Taken, Names
  <2>. HIDE DEF c
  <2>3. HP!BookInv(c) /\ HP!TakesOut(c, b, oi, e.ref)
    BY <1>0, <2>1, <2>2, HP!RemoveKeeps
  <2>4. c.nextSeq = b.nextSeq /\ Advances(b, c, pre, e)
    BY <1>t, <2>2, <2>3
  <2>. QED  BY <1>0, <2>3, <2>4 DEF c, pre
<1>4. CASE e.type = "Replace"
  <2> DEFINE r == HP!Remove(b, e.ref)
             s == b.orders[oi].side
  <2>1. c = HP!Replace(b, e.ref, e.new, e.price, e.shares)
    BY <1>4, SameReplace DEF Apply
  <2>2. /\ e.ref \in DOMAIN b.ids /\ e.type # "Add" /\ Taken(pre, e) = b.orders[oi].qty
        /\ e.new \in Refs /\ e.price \in Prices /\ e.shares \in Quantities
    BY <1>4, <1>n DEF Taken, Names, OfTape
  <2>3. HP!BookInv(r) /\ HP!TakesOut(r, b, oi, e.ref)
    BY <1>0, <2>2, HP!RemoveKeeps
  <2>4. s \in HP!Sides
    BY <1>n, <2>2, OrderFacts DEF Names
  <2>5. c = HP!Add(r, e.new, s, e.price, e.shares)
    BY <2>1, <2>2 DEF HP!Replace
  <2>. HIDE DEF c, r, s
  <2>6. r.nextSeq = b.nextSeq /\ Advances(b, r, pre, e)
    BY <1>t, <2>2, <2>3
  <2>7. /\ HP!BookInv(c) /\ r.nextSeq <= c.nextSeq
        /\ \A side, px : \A j \in Nat : j <= r.nextSeq => Ahead(c, side, px, j) = Ahead(r, side, px, j)
    BY <1>a, <2>2, <2>3, <2>4, <2>5
  <2>8. Advances(b, c, pre, e)
    BY <2>6, <2>7 DEF Advances
  <2>. QED  BY <2>6, <2>7, <2>8 DEF c, pre
<1>. QED  BY <1>1, <1>2, <1>3, <1>4 DEF OfTape, Kinds

-----------------------------------------------------------------------------
(* A quote that has just joined a level, and what holds of one ever after: it believes no *)
(* more to be ahead than there is, and exactly that unless the diagnostic was counted up. *)
Joined(m, b, side) ==
    /\ m.quote.px = Best(b, side)
    /\ m.pos.ahead = RestingAt(b, side, Best(b, side)) /\ m.pos.joinSeq = b.nextSeq

Exact(m, b, side) ==
    m.quote.active =>
        LET p == m.pos
            really == Ahead(b, side, m.quote.px, p.joinSeq) IN
        /\ m.quote.px \in Nat /\ p.ahead \in Nat /\ p.joinSeq \in Nat /\ p.joinSeq <= b.nextSeq
        /\ p.ahead <= really /\ (~p.behind => p.ahead = really)

LEMMA JoinedIsExact ==
    ASSUME NEW b, HP!BookInv(b), TwoSided(b), NEW side \in Sides, NEW m, Joined(m, b, side)
    PROVE  Exact(m, b, side)
<1> DEFINE px == Best(b, side)
<1>1. px = HP!BestPrice(b, side)
  BY SameBest DEF Best
<1>2. px # HP!Window!kInvalidPrice
  BY DEF TwoSided, Book!Promise!kInvalidPrice, HP!Window!kInvalidPrice
<1>3. side \in HP!Sides /\ HP!HybridConstants
  BY SameSides, Constants
<1>4. px \in HP!Held(b, side)
  BY <1>1, <1>2, <1>3, HP!BestIsFound
<1>5. px \in Nat
  BY <1>3, <1>4, HP!HeldIsFound
<1>. HIDE DEF px
<1>6. RestingAt(b, side, px) = Ahead(b, side, px, b.nextSeq)
  BY <1>5, RestingIsAll
<1>7. b.nextSeq \in Nat
  BY DEF HP!BookInv, HP!Sound, HP!Queues
<1>8. Ahead(b, side, px, b.nextSeq) \in Nat
  <2>1. InFront(b, side, px, b.nextSeq) \subseteq DOMAIN b.orders
    BY DEF InFront
  <2>. QED  BY <2>1, AheadCounts DEF Ahead
<1>9. m.quote.px = px /\ m.pos.ahead = RestingAt(b, side, px) /\ m.pos.joinSeq = b.nextSeq
  BY DEF Joined, px
<1>. QED  BY <1>5, <1>6, <1>7, <1>8, <1>9 DEF Exact

(* A side that goes on as it is, or joins or leaves. *)
GoesOn(v, m, b, side) ==
    /\ v.pos.behind = m.pos.behind
    /\ v.quote.active => \/ m.quote.active /\ v.quote.px = m.quote.px /\ v.pos = m.pos
                         \/ TwoSided(b) /\ Joined(v, b, side)

LEMMA LandGoesOn ==
    ASSUME NEW l \in Nat, NEW m, IsSide(m, l), NEW b, TwoSided(b), NEW side
    PROVE  GoesOn(LandIfDue(m, b, side), m, b, side)
<1> DEFINE v == LandIfDue(m, b, side)
<1>1. /\ IsSide(v, l) /\ v.pos.behind = m.pos.behind
      /\ ~m.quote.inFlight \/ m.quote.wait > 0 => v = m
      /\ m.quote.inFlight /\ m.quote.wait = 0 /\ v.quote.active =>
            /\ v.quote.px = Best(b, side)
            /\ v.pos.ahead = RestingAt(b, side, Best(b, side)) /\ v.pos.joinSeq = b.nextSeq
  BY LandParts
<1>2. m.quote.wait \in Nat
  BY DEF IsSide, IsQuote
<1>. HIDE DEF v
<1>. QED  BY <1>1, <1>2 DEF GoesOn, Joined, v

LEMMA EarlyGoesOn ==
    ASSUME NEW l \in Nat, NEW m, IsSide(m, l), NEW b, NEW d \in Nat, NEW side
    PROVE  GoesOn(Early(m, b, d, side), m, b, side)
<1> DEFINE u == Aged(m, d)
           v == LandIfDue(u, b, side)
<1>1. /\ IsSide(u, l) /\ u.pos = m.pos
      /\ u.quote.active = m.quote.active /\ u.quote.px = m.quote.px
  BY AgedParts
<1>. HIDE DEF u
<1>2. TwoSided(b) => GoesOn(v, u, b, side)
  BY <1>1, LandGoesOn
<1>3. Early(m, b, d, side) = IF TwoSided(b) THEN v ELSE u
  BY DEF Early, Arrived, u
<1>. HIDE DEF v
<1>. QED  BY <1>1, <1>2, <1>3 DEF GoesOn

LEMMA EndedGoesOn ==
    ASSUME NEW l \in Nat, NEW m, IsSide(m, l), NEW b, NEW side,
           latency = l, allow[side] \in BOOLEAN
    PROVE  GoesOn(Ended(m, b, side), m, b, side)
<1> DEFINE u == Decide(m, b, side)
           v == LandIfDue(u, b, side)
<1>1. /\ IsSide(u, l) /\ u.pos = m.pos
      /\ u.quote.active = m.quote.active /\ u.quote.px = m.quote.px
  BY DecideParts
<1>. HIDE DEF u
<1>2. TwoSided(b) => GoesOn(v, u, b, side)
  BY <1>1, LandGoesOn
<1>3. Ended(m, b, side) = IF TwoSided(b) THEN v ELSE m
  BY DEF Ended, Late, u
<1>. HIDE DEF v
<1>. QED  BY <1>1, <1>2, <1>3 DEF GoesOn

LEMMA GoesOnExact ==
    ASSUME NEW b, HP!BookInv(b), NEW side \in Sides, NEW m, Exact(m, b, side),
           NEW v, GoesOn(v, m, b, side)
    PROVE  Exact(v, b, side)
<1>1. CASE ~v.quote.active
  BY <1>1 DEF Exact
<1>2. CASE m.quote.active /\ v.quote.px = m.quote.px /\ v.pos = m.pos
  BY <1>2 DEF Exact
<1>3. CASE TwoSided(b) /\ Joined(v, b, side)
  BY <1>3, JoinedIsExact
<1>. QED  BY <1>1, <1>2, <1>3 DEF GoesOn

(* What a position makes of an execution and of shares that leave. *)
LEMMA PosAfter ==
    ASSUME NEW s, IsPos(s), NEW x, NEW y
    PROVE  /\ OnExecution(s, x, y).ahead = Max({0, s.ahead - y})
           /\ OnExecution(s, x, y).joinSeq = s.joinSeq
           /\ ~OnExecution(s, x, y).behind <=> ~s.behind /\ ~(s.ahead > 0 /\ ~(x < s.joinSeq))
           /\ OnCancel(s, x, y).joinSeq = s.joinSeq
           /\ ~OnCancel(s, x, y).behind <=> ~s.behind
           /\ x < s.joinSeq => OnCancel(s, x, y).ahead = Max({0, s.ahead - y})
           /\ ~(x < s.joinSeq) => OnCancel(s, x, y) = s
<1>1. PICK h, j, k : s = PosOf(h, j, k)
  BY DEF IsPos
<1>2. s.ahead = h /\ s.joinSeq = j /\ s.behind = k
  BY <1>1, PosParts
<1>3. IsAhead(s, x) <=> x < j
  BY <1>2 DEF IsAhead
<1> DEFINE less == Max({0, h - y})
           c == k \/ (h > 0 /\ ~IsAhead(s, x))
<1>4. OnExecution(s, x, y) = PosOf(less, j, c)
  <2>1. OnExecution(PosOf(h, j, k), x, y)
          = PosOf(less, j, k \/ (h > 0 /\ ~IsAhead(PosOf(h, j, k), x)))
    BY PosChanges
  <2>. QED  BY <1>1, <2>1, Zenon
<1>5. OnCancel(s, x, y) = IF IsAhead(s, x) THEN PosOf(less, j, k) ELSE s
  <2>1. OnCancel(PosOf(h, j, k), x, y)
          = IF IsAhead(PosOf(h, j, k), x) THEN PosOf(less, j, k) ELSE PosOf(h, j, k)
    BY PosChanges
  <2>. QED  BY <1>1, <2>1, Zenon
<1>6. \A z : /\ PosOf(less, j, z).ahead = less /\ PosOf(less, j, z).joinSeq = j
             /\ PosOf(less, j, z).behind = z
  BY PosParts
<1>7. OnExecution(s, x, y).behind = c
  BY <1>4, <1>6, Zenon
<1>8. ~OnExecution(s, x, y).behind <=> ~k /\ ~(h > 0 /\ ~IsAhead(s, x))
  BY <1>7, Zenon
<1>. HIDE DEF less, c
<1>9. /\ OnExecution(s, x, y).ahead = less /\ OnExecution(s, x, y).joinSeq = j
  BY <1>4, <1>6, Zenon
<1>10. CASE x < j
  <2>1. OnCancel(s, x, y) = PosOf(less, j, k)
    BY <1>3, <1>5, <1>10
  <2>. QED  BY <1>2, <1>3, <1>6, <1>8, <1>9, <1>10, <2>1, Zenon DEF less
<1>11. CASE ~(x < j)
  <2>1. OnCancel(s, x, y) = s
    BY <1>3, <1>5, <1>11
  <2>. QED  BY <1>2, <1>3, <1>8, <1>9, <1>11, <2>1, Zenon DEF less
<1>. QED  BY <1>10, <1>11

(* The step of one side keeps its position exact. *)
LEMMA StepExact ==
    ASSUME NEW l \in Nat, NEW m, IsSide(m, l), NEW side \in Sides,
           NEW b, HP!BookInv(b), NEW e, OfTape(b, e), e.type # "Add",
           Exact(m, b, side)
    PROVE  Exact(StepSide("QueueAware", m, side, PreOf(b, e), e), Apply(b, e), side)
<1> DEFINE c == Apply(b, e)
           pre == PreOf(b, e)
           oi == b.ids[e.ref]
           v == StepSide("QueueAware", m, side, pre, e)
           s == Shifted("QueueAware", m, side, pre, e)
           px == m.quote.px
           j == m.pos.joinSeq
           h == m.pos.ahead
           t == Taken(pre, e)
           was == Ahead(b, side, px, j)
           is == Ahead(c, side, px, j)
<1>1. HP!BookInv(c) /\ b.nextSeq <= c.nextSeq /\ Advances(b, c, pre, e)
  BY EventAdvances
<1>2. Names(pre, b, oi)
  BY PreNames
<1>3. v.quote.px = px /\ (v.quote.active => m.quote.active /\ v.pos = s)
  BY StepParts
<1>s. s = IF ~m.quote.active \/ pre.side # side \/ pre.price # px THEN m.pos
          ELSE IF e.type = "Execute" THEN OnExecution(m.pos, pre.seq, t)
          ELSE OnCancel(m.pos, pre.seq, t)
  BY DEF Shifted, Taken, OfTape, Kinds
<1>p. IsPos(m.pos)
  BY DEF IsSide
<1>t. t \in Nat /\ t <= pre.qty /\ pre.qty \in Nat /\ pre.seq \in Nat
  <2>1. pre.qty \in Nat /\ pre.seq \in Nat
    BY <1>2, OrderFacts DEF Names
  <2>2. e.type \in {"Execute", "Cancel"} => e.shares \in Nat /\ e.shares <= pre.qty
    BY <1>2, Constants DEF OfTape, Names
  <2>. QED  BY <2>1, <2>2 DEF Taken
<1>n. b.nextSeq \in Nat /\ c.nextSeq \in Nat
  BY <1>1 DEF HP!BookInv, HP!Sound, HP!Queues
<1>a. was \in Nat /\ is \in Nat
  <2>1. InFront(b, side, px, j) \subseteq DOMAIN b.orders /\ InFront(c, side, px, j) \subseteq DOMAIN c.orders
    BY DEF InFront
  <2>. HIDE DEF c
  <2>. QED  BY <1>1, <2>1, AheadCounts DEF Ahead
<1>. HIDE DEF v, s, pre, c, t, was, is
<1>. SUFFICES ASSUME v.quote.active PROVE Exact(v, c, side)
  BY DEF Exact, v, c, pre
<1>4. /\ m.quote.active /\ v.pos = s /\ px \in Nat /\ h \in Nat /\ j \in Nat /\ j <= b.nextSeq
      /\ h <= was /\ (~m.pos.behind => h = was)
  BY <1>3 DEF Exact, was
<1>5. IF pre.side = side /\ pre.price = px /\ pre.seq < j
      THEN was = t + is ELSE is = was
  BY <1>1, <1>4 DEF Advances, was, is, t
<1>6. ASSUME s.joinSeq = j, s.ahead \in Nat, s.ahead <= is, ~s.behind => s.ahead = is
      PROVE  Exact(v, c, side)
  <2>1. j <= c.nextSeq
    BY <1>1, <1>4, <1>n
  <2>. QED  BY <1>3, <1>4, <1>6, <2>1 DEF Exact, is
<1>7. CASE pre.side # side \/ pre.price # px
  <2>1. s = m.pos /\ is = was
    BY <1>s, <1>5, <1>7
  <2>. QED  BY <1>4, <1>6, <2>1
<1>8. CASE ~(pre.side # side \/ pre.price # px) /\ pre.seq < j
  <2>1. was = t + is
    BY <1>5, <1>8
  <2>2. /\ s.joinSeq = j /\ s.ahead = Max({0, h - t})
        /\ ~s.behind => ~m.pos.behind
    <3>1. CASE e.type = "Execute"
      <4>1. s = OnExecution(m.pos, pre.seq, t)
        BY <1>s, <1>4, <1>8, <3>1
      <4>2. s.joinSeq = j /\ s.ahead = Max({0, h - t})
        BY <1>p, <4>1, PosAfter
      <4>3. ~s.behind => ~m.pos.behind
        BY <1>p, <4>1, PosAfter
      <4>. QED  BY <4>2, <4>3
    <3>2. CASE e.type # "Execute"
      <4>1. s = OnCancel(m.pos, pre.seq, t)
        BY <1>s, <1>4, <1>8, <3>2
      <4>. QED  BY <1>p, <1>8, <4>1, PosAfter
    <3>. QED  BY <3>1, <3>2
  <2>3. h - t \in Int
    BY <1>4, <1>t
  <2>4. /\ s.ahead \in Nat /\ s.ahead >= h - t
        /\ h - t <= 0 => s.ahead = 0
        /\ h - t >= 0 => s.ahead = h - t
    BY <2>2, <2>3, MaxZero
  <2>5. s.ahead <= is /\ (h = was => s.ahead = is)
    BY <1>4, <1>t, <1>a, <2>1, <2>4
  <2>. QED  BY <1>4, <1>6, <2>2, <2>4, <2>5
<1>9. CASE ~(pre.side # side \/ pre.price # px) /\ ~(pre.seq < j)
  <2>1. is = was
    BY <1>5, <1>9
  <2>2. CASE e.type = "Execute"
    <3>1. s = OnExecution(m.pos, pre.seq, t)
      BY <1>s, <1>4, <1>9, <2>2
    <3>2. /\ s.joinSeq = j /\ s.ahead = Max({0, h - t})
          /\ ~s.behind <=> ~m.pos.behind /\ ~(h > 0 /\ ~(pre.seq < j))
      BY <1>p, <3>1, PosAfter
    <3>3. h - t \in Int
      BY <1>4, <1>t
    <3>4. /\ s.ahead \in Nat /\ (h - t <= 0 => s.ahead = 0) /\ (h - t >= 0 => s.ahead = h - t)
      BY <3>2, <3>3, MaxZero
    <3>5. s.ahead <= h
      BY <1>4, <1>t, <3>4
    <3>6. ~s.behind => h = 0 /\ h = was
      BY <1>4, <1>9, <3>2
    <3>7. s.ahead <= is /\ (~s.behind => s.ahead = is)
      BY <1>4, <1>a, <2>1, <3>4, <3>5, <3>6
    <3>. QED  BY <1>6, <3>2, <3>4, <3>7
  <2>3. CASE e.type # "Execute"
    <3>1. s = OnCancel(m.pos, pre.seq, t)
      BY <1>s, <1>4, <1>9, <2>3
    <3>2. s = m.pos
      BY <1>p, <1>9, <3>1, PosAfter
    <3>. QED  BY <1>4, <1>6, <2>1, <3>2
  <2>. QED  BY <2>2, <2>3
<1>. QED  BY <1>7, <1>8, <1>9

-----------------------------------------------------------------------------
LEMMA ExactSame ==
    ASSUME NEW b, NEW c, c.orders = b.orders, c.levels = b.levels, c.nextSeq = b.nextSeq
    PROVE  /\ \A side, px, j : Ahead(c, side, px, j) = Ahead(b, side, px, j)
           /\ \A m, side : Exact(m, b, side) => Exact(m, c, side)
<1>1. \A side, px, j : Ahead(c, side, px, j) = Ahead(b, side, px, j)
  BY DEF Ahead, InFront, HP!PriceAt
<1>. QED  BY <1>1 DEF Exact

LEMMA SteppedExact ==
    ASSUME NEW l \in Nat, NEW m, IsSide(m, l), NEW side \in Sides,
           NEW b, HP!BookInv(b), NEW e, OfTape(b, e), Exact(m, b, side)
    PROVE  Exact(Stepped("QueueAware", m, side, b, e), Apply(b, e), side)
<1> DEFINE c == Apply(b, e)
<1>1. HP!BookInv(c) /\ b.nextSeq <= c.nextSeq /\ Advances(b, c, PreOf(b, e), e)
  BY EventAdvances
<1>2. CASE e.type = "Add"
  <2>1. Resolved(b, e) = {}
    BY <1>2, PreNames
  <2>2. Stepped("QueueAware", m, side, b, e) = m
    BY <2>1 DEF Stepped
  <2>3. b.nextSeq \in Nat /\ c.nextSeq \in Nat
    BY <1>1 DEF HP!BookInv, HP!Sound, HP!Queues
  <2>. HIDE DEF c
  <2>4. Exact(m, c, side)
    <3>. SUFFICES ASSUME m.quote.active PROVE Exact(m, c, side)
      BY DEF Exact
    <3>1. /\ m.quote.px \in Nat /\ m.pos.joinSeq \in Nat /\ m.pos.joinSeq <= b.nextSeq
      BY DEF Exact
    <3>2. Ahead(c, side, m.quote.px, m.pos.joinSeq) = Ahead(b, side, m.quote.px, m.pos.joinSeq)
      BY <1>1, <1>2, <3>1 DEF Advances
    <3>3. m.pos.joinSeq <= c.nextSeq
      BY <1>1, <2>3, <3>1
    <3>. QED  BY <3>2, <3>3 DEF Exact
  <2>. QED  BY <2>2, <2>4 DEF c
<1>3. CASE e.type # "Add"
  <2>1. Resolved(b, e) # {}
    BY <1>3, PreNames
  <2>2. Stepped("QueueAware", m, side, b, e) = StepSide("QueueAware", m, side, PreOf(b, e), e)
    BY <2>1 DEF Stepped
  <2>. QED  BY <1>3, <2>2, StepExact
<1>. QED  BY <1>2, <1>3

(* Over a book that is well formed, every position is exact. *)
Queued == /\ HP!BookInv(book)
          /\ \A side \in Sides : Exact(maker["QueueAware"][side], book, side)

LEMMA InitQueued == Init => Queued
<1>. SUFFICES ASSUME Init PROVE Queued
  OBVIOUS
<1>1. PICK size \in Sizes : book = Book!Empty(size)
  BY DEF Init, MakerInit
<1>2. HP!BookInv(book)
  BY <1>1, SameEmpty, Constants, HP!EmptyStarts
<1>3. \A side \in Sides : ~maker["QueueAware"][side].quote.active
  BY DEF Init, MakerInit, Idle, Models
<1>. QED  BY <1>2, <1>3 DEF Queued, Exact

(* What an event does to the book and to a queue-aware side. *)
LEMMA EventQueued ==
    ASSUME Delayed, Queued, NEW e, NEW d \in Elapsed, OnEvent(e, d), OfTape(book, e),
           NEW side \in Sides
    PROVE  LET before == Asked(book)
               early == Early(maker["QueueAware"][side], before, d, side)
               step == Stepped("QueueAware", early, side, before, e) IN
           /\ HP!BookInv(before) /\ OfTape(before, e)
           /\ IsSide(early, latency) /\ Exact(early, before, side)
           /\ early.pos.behind = maker["QueueAware"][side].pos.behind
           /\ HP!BookInv(book') /\ Exact(step, book', side)
           /\ \A px, j : Ahead(book', side, px, j) = Ahead(Apply(before, e), side, px, j)
           /\ Exact(maker["QueueAware"][side]', book', side)
           /\ maker["QueueAware"][side]'.pos.behind = step.pos.behind
<1> DEFINE before == Asked(book)
           m == maker["QueueAware"][side]
           early == Early(m, before, d, side)
           step == Stepped("QueueAware", early, side, before, e)
           c == Apply(before, e)
           after == Asked(c)
<1>0. "QueueAware" \in Models
  BY DEF Models
<1>1. PICK l \in Nat : l = latency
  BY DelayedIsNat DEF LatencyIsNat
<1>2. IsSide(m, l) /\ allow[side] \in BOOLEAN /\ d \in Nat
  BY <1>0, <1>1, MakerAssumption DEF Delayed
<1>3. /\ HP!BookInv(before) /\ before.orders = book.orders /\ before.levels = book.levels
      /\ before.ids = book.ids /\ before.nextSeq = book.nextSeq
  BY AskedKeeps DEF Queued
<1>4. OfTape(before, e)
  BY <1>3 DEF OfTape
<1>5. Exact(m, before, side)
  BY <1>3, ExactSame DEF Queued
<1>6. maker["QueueAware"][side]' = Ended(step, book', side) /\ book' = after
  BY <1>0, EventForm
<1>. HIDE DEF before, m
<1>7. IsSide(early, l) /\ GoesOn(early, m, before, side)
  BY <1>2, EarlyParts, EarlyGoesOn
<1>8. Exact(early, before, side) /\ early.pos.behind = m.pos.behind
  <2>1. early.pos.behind = m.pos.behind
    BY <1>7 DEF GoesOn
  <2>. HIDE DEF early
  <2>2. Exact(early, before, side)
    BY <1>3, <1>5, <1>7, GoesOnExact
  <2>. QED  BY <2>1, <2>2
<1>. HIDE DEF early
<1>9. IsSide(step, l) /\ Exact(step, c, side)
  BY <1>3, <1>4, <1>7, <1>8, SteppedParts, SteppedExact
<1>10. HP!BookInv(c)
  BY <1>3, <1>4, EventAdvances
<1>. HIDE DEF step, c
<1>11. /\ HP!BookInv(after) /\ after.orders = c.orders /\ after.levels = c.levels
       /\ after.nextSeq = c.nextSeq
  BY <1>10, AskedKeeps
<1>12. /\ Exact(step, after, side)
       /\ \A px, j : Ahead(after, side, px, j) = Ahead(c, side, px, j)
  BY <1>9, <1>11, ExactSame
<1>. HIDE DEF after
<1>13. PICK b : b = book'
  OBVIOUS
<1>14. GoesOn(Ended(step, b, side), step, b, side)
  BY <1>1, <1>2, <1>9, EndedGoesOn
<1>15. Exact(Ended(step, b, side), b, side)
  BY <1>6, <1>11, <1>12, <1>13, <1>14, GoesOnExact
<1>16. Ended(step, b, side).pos.behind = step.pos.behind
  BY <1>14 DEF GoesOn
<1>. QED  BY <1>1, <1>3, <1>4, <1>6, <1>7, <1>8, <1>11, <1>12, <1>13, <1>15, <1>16
          DEF before, m, early, step, c

LEMMA NextQueued == Delayed /\ Queued /\ [Next]_vars => Queued'
<1>. SUFFICES ASSUME Delayed, Queued, [Next]_vars PROVE Queued'
  OBVIOUS
<1>1. CASE UNCHANGED vars
  <2>1. book' = book /\ maker' = maker
    BY <1>1 DEF vars
  <2>. QED  BY <2>1 DEF Queued
<1>2. CASE Next
  <2>1. PICK e : OfTape(book, e) /\ \E d \in Elapsed : OnEvent(e, d)
    BY <1>2, NextIsOfBook
  <2>2. PICK d \in Elapsed : OnEvent(e, d)
    BY <2>1
  <2>3. ASSUME NEW side \in Sides
        PROVE  HP!BookInv(book') /\ Exact(maker["QueueAware"][side]', book', side)
    BY <2>1, <2>2, EventQueued
  <2>4. "Buy" \in Sides
    BY DEF Sides, Book!Sides, Book!Promise!Sides
  <2>. QED  BY <2>3, <2>4 DEF Queued
<1>. QED  BY <1>1, <1>2

LEMMA QueuedAlways == Spec => [](Delayed /\ Queued)
<1>1. Init => Delayed /\ Queued
  BY InitDelayed, InitQueued
<1>2. Delayed /\ Queued /\ [Next]_vars => (Delayed /\ Queued)'
  BY NextDelayed, NextQueued
<1>. QED  BY <1>1, <1>2, PTL DEF Spec

(* Whatever the tape, a queue position never believes more shares to be ahead than there are, *)
(* and exactly those there are unless the diagnostic was counted up: through executions,      *)
(* cancels, deletes and replaces, of orders in front and behind, and through requotes.        *)
THEOREM PositionIsExact == Spec => []AheadIsExact
<1>1. Queued => AheadIsExact
  <2>. SUFFICES ASSUME Queued, NEW side \in Sides, maker["QueueAware"][side].quote.active
       PROVE  LET q == maker["QueueAware"][side].quote
                  p == maker["QueueAware"][side].pos
                  really == RestingAhead(book, side, q.px, p.joinSeq) IN
              p.ahead <= really /\ (~p.behind => p.ahead = really)
    BY DEF AheadIsExact
  <2> DEFINE q == maker["QueueAware"][side].quote
             p == maker["QueueAware"][side].pos
  <2>1. /\ q.px \in Nat /\ p.ahead <= Ahead(book, side, q.px, p.joinSeq)
        /\ ~p.behind => p.ahead = Ahead(book, side, q.px, p.joinSeq)
    BY DEF Queued, Exact
  <2>2. RestingAhead(book, side, q.px, p.joinSeq) = Ahead(book, side, q.px, p.joinSeq)
    BY <2>1, RestingIsAhead DEF Queued
  <2>. QED  BY <2>1, <2>2
<1>. QED  BY <1>1, QueuedAlways, PTL

(* Of a tape that executes only the heads of levels: no order that joined a level later is *)
(* executed while shares are ahead.                                                        *)
LEMMA HeadIsAhead ==
    ASSUME NEW b, HP!BookInv(b), NEW oi \in DOMAIN b.orders, b.orders[oi].prev = HP!Nil,
           NEW j \in Nat, Ahead(b, b.orders[oi].side, HP!PriceAt(b, oi), j) > 0
    PROVE  b.orders[oi].seq < j
<1> DEFINE side == b.orders[oi].side
           px == HP!PriceAt(b, oi)
           S == InFront(b, side, px, j)
<1>1. S # {}
  <2>1. HP!SumOf(b.orders, {}) = 0
    BY AheadCounts
  <2>2. ~(0 > 0)
    OBVIOUS
  <2>. QED  BY <2>1, <2>2 DEF Ahead
<1>2. PICK i \in S : TRUE
  BY <1>1
<1>3. i \in DOMAIN b.orders /\ b.orders[i].side = side /\ HP!PriceAt(b, i) = px /\ b.orders[i].seq < j
  BY <1>2 DEF InFront
<1>4. b.orders[i].level = b.orders[oi].level
  BY <1>3, OrderFacts
<1>5. i \in HP!OnLevel(b.orders, b.orders[oi].level)
  BY <1>3, <1>4 DEF HP!OnLevel
<1>6. HP!Queues(b.orders, b.levels, b.nextSeq)
  BY DEF HP!BookInv, HP!Sound
<1>7. b.orders[oi].seq <= b.orders[i].seq
  BY <1>5, <1>6, HP!FirstIsOldest
<1>8. b.orders[oi].seq \in Nat /\ b.orders[i].seq \in Nat
  BY <1>3, OrderFacts
<1>. QED  BY <1>3, <1>7, <1>8

-----------------------------------------------------------------------------
(* The step of a side by the execution of a head keeps to the queue. *)
LEMMA StepKeepsOrder ==
    ASSUME NEW l \in Nat, NEW m, IsSide(m, l), ~m.pos.behind, NEW side \in Sides,
           NEW b, HP!BookInv(b), NEW e, OfTape(b, e), Exact(m, b, side),
           e.type = "Execute" => \A p \in Resolved(b, e) : p.prev = Book!Nil
    PROVE  ~Stepped("QueueAware", m, side, b, e).pos.behind
<1> DEFINE pre == PreOf(b, e)
           v == Stepped("QueueAware", m, side, b, e)
           s == Shifted("QueueAware", m, side, pre, e)
           oi == b.ids[e.ref]
<1>1. v = m \/ (e.type # "Add" /\ v.pos.behind = s.behind)
  <2>1. CASE e.type = "Add"
    BY <2>1, PreNames DEF Stepped
  <2>2. CASE e.type # "Add"
    <3>1. v = StepSide("QueueAware", m, side, pre, e)
      BY <2>2, PreNames DEF Stepped
    <3>. QED  BY <2>2, <3>1, StepParts
  <2>. QED  BY <2>1, <2>2
<1>. HIDE DEF v
<1>. SUFFICES ASSUME e.type # "Add" PROVE ~s.behind
  BY <1>1 DEF v
<1>2. Names(pre, b, oi) /\ Resolved(b, e) = {pre}
  BY PreNames
<1>p. IsPos(m.pos)
  BY DEF IsSide
<1>. HIDE DEF pre
<1>3. CASE s = m.pos
  BY <1>3
<1>4. CASE s # m.pos /\ e.type = "Execute"
  <2>1. /\ m.quote.active /\ pre.side = side /\ pre.price = m.quote.px
        /\ s = OnExecution(m.pos, pre.seq, e.shares)
    BY <1>4 DEF Shifted
  <2>2. /\ m.pos.ahead \in Nat /\ m.pos.joinSeq \in Nat
        /\ m.pos.ahead = Ahead(b, side, m.quote.px, m.pos.joinSeq)
    BY <2>1 DEF Exact
  <2>3. oi \in DOMAIN b.orders /\ b.orders[oi].prev = HP!Nil
    BY <1>2, <1>4 DEF Names, Book!Nil, HP!Nil
  <2>4. side = b.orders[oi].side /\ m.quote.px = HP!PriceAt(b, oi) /\ pre.seq = b.orders[oi].seq
    BY <1>2, <2>1 DEF Names
  <2>5. m.pos.ahead > 0 => pre.seq < m.pos.joinSeq
    BY <2>2, <2>3, <2>4, HeadIsAhead
  <2>. HIDE DEF s
  <2>6. ~OnExecution(m.pos, pre.seq, e.shares).behind
           <=> ~m.pos.behind /\ ~(m.pos.ahead > 0 /\ ~(pre.seq < m.pos.joinSeq))
    BY <1>p, PosAfter
  <2>. QED  BY <2>1, <2>5, <2>6
<1>5. CASE s # m.pos /\ e.type # "Execute"
  <2>1. s = OnCancel(m.pos, pre.seq, IF e.type = "Cancel" THEN e.shares ELSE pre.qty)
    BY <1>5 DEF Shifted
  <2>. HIDE DEF s
  <2>. QED  BY <1>p, <2>1, PosAfter
<1>. QED  BY <1>3, <1>4, <1>5

LEMMA NextKeepsOrder ==
    Delayed /\ Queued /\ PriorityMeansNoneBehind /\ [Next]_vars => PriorityMeansNoneBehind'
<1>. SUFFICES ASSUME Delayed, Queued, PriorityMeansNoneBehind, [Next]_vars
     PROVE  PriorityMeansNoneBehind'
  OBVIOUS
<1>1. CASE UNCHANGED vars
  BY <1>1 DEF PriorityMeansNoneBehind, vars
<1>2. CASE Next
  <2>1. PICK e : OfTape(book, e) /\ \E d \in Elapsed : OnEvent(e, d)
    BY <1>2, NextIsOfBook
  <2>2. PICK d \in Elapsed : OnEvent(e, d)
    BY <2>1
  <2>. SUFFICES ASSUME fifo', NEW side \in Sides
       PROVE  ~maker'["QueueAware"][side].pos.behind
    BY DEF PriorityMeansNoneBehind
  <2> DEFINE before == Asked(book)
             m == maker["QueueAware"][side]
             early == Early(m, before, d, side)
             step == Stepped("QueueAware", early, side, before, e)
  <2>3. fifo /\ (e.type = "Execute" => \A p \in Resolved(before, e) : p.prev = Book!Nil)
    BY <2>2, Zenon DEF OnEvent
  <2>4. ~m.pos.behind
    BY <2>3 DEF PriorityMeansNoneBehind
  <2>5. /\ HP!BookInv(before) /\ OfTape(before, e)
        /\ IsSide(early, latency) /\ Exact(early, before, side)
        /\ early.pos.behind = m.pos.behind
        /\ maker["QueueAware"][side]'.pos.behind = step.pos.behind
    BY <2>1, <2>2, EventQueued
  <2>6. PICK l \in Nat : l = latency
    BY DelayedIsNat DEF LatencyIsNat
  <2>. HIDE DEF early, before
  <2>7. ~step.pos.behind
    BY <2>3, <2>4, <2>5, <2>6, StepKeepsOrder
  <2>. HIDE DEF step
  <2>. QED  BY <2>5, <2>7
<1>. QED  BY <1>1, <1>2

(* "Under strict price-time priority this should be zero": as long as the tape only executes *)
(* the heads of levels, behind_while_queued_ is never counted up.                            *)
THEOREM StrictPriority == Spec => []PriorityMeansNoneBehind
<1>1. Init => PriorityMeansNoneBehind
  <2>1. ~NewPosition.behind
    BY DEF NewPosition
  <2>. QED  BY <2>1 DEF Init, MakerInit, PriorityMeansNoneBehind, Models
<1>2. Delayed /\ Queued /\ PriorityMeansNoneBehind /\ [Next]_vars => PriorityMeansNoneBehind'
  BY NextKeepsOrder
<1>. QED  BY <1>1, <1>2, QueuedAlways, PTL DEF Spec

(* What the record of a fill says. *)
LEMMA RecordParts ==
    ASSUME NEW model, NEW early, NEW pre, NEW e, FillRecord(model, early, pre, e) # NoFill
    PROVE  \E side \in Sides :
              LET m == early[side]
                  f == FillRecord(model, early, pre, e) IN
              /\ FillOf(model, m, side, pre, e) > 0
              /\ f.side = side /\ f.price = m.quote.px /\ f.joinSeq = m.pos.joinSeq
              /\ f.swept = Swept(m, side, pre, e) /\ f.qty = FillOf(model, m, side, pre, e)
<1> DEFINE hit == {s \in Sides : FillOf(model, early[s], s, pre, e) > 0}
           side == CHOOSE s \in hit : TRUE
           f == FillRecord(model, early, pre, e)
<1>1. f = IF hit = {} THEN NoFill
          ELSE [side |-> side, price |-> early[side].quote.px,
                qty |-> FillOf(model, early[side], side, pre, e),
                stale |-> early[side].quote.inFlight, swept |-> Swept(early[side], side, pre, e),
                joinSeq |-> early[side].pos.joinSeq]
  BY Zenon DEF FillRecord
<1>2. hit # {}
  BY <1>1
<1>3. side \in hit
  BY <1>2
<1>4. side \in Sides /\ FillOf(model, early[side], side, pre, e) > 0
  BY <1>3
<1>. HIDE DEF hit, side, f
<1>5. /\ f.side = side /\ f.price = early[side].quote.px /\ f.joinSeq = early[side].pos.joinSeq
      /\ f.swept = Swept(early[side], side, pre, e)
      /\ f.qty = FillOf(model, early[side], side, pre, e)
  BY <1>1, <1>2
<1>. QED  BY <1>4, <1>5 DEF f

(* A change that was due before an event has landed, in the book before it. *)
LEMMA DueHasLanded ==
    ASSUME NEW l \in Nat, NEW m, IsSide(m, l), NEW b, TwoSided(b), NEW d \in Nat, NEW side,
           m.quote.inFlight, m.quote.wait <= d, Early(m, b, d, side).quote.active
    PROVE  LET v == Early(m, b, d, side) IN
           m.quote.wantActive /\ v.quote.px = Best(b, side) /\ v.pos.joinSeq = b.nextSeq
<1> DEFINE u == Aged(m, d)
           v == LandIfDue(u, b, side)
<1>1. /\ IsSide(u, l) /\ u.quote.inFlight /\ u.quote.wait = 0
      /\ u.quote.wantActive = m.quote.wantActive
  BY AgedParts
<1>. HIDE DEF u
<1>2. /\ v.quote.active = u.quote.wantActive
      /\ v.quote.active => v.quote.px = Best(b, side) /\ v.pos.joinSeq = b.nextSeq
  BY <1>1, LandParts
<1>3. Early(m, b, d, side) = v
  BY DEF Early, Arrived, u
<1>. HIDE DEF v
<1>. QED  BY <1>1, <1>2, <1>3

LEMMA FillOfDueLanded ==
    ASSUME Delayed, Next, NEW model \in Models, fill'[model] # NoFill
    PROVE  LET b == Asked(book)
               f == fill'[model]
               q == maker[model][f.side].quote IN
           TwoSided(b) /\ q.inFlight /\ (\A d \in Elapsed : q.wait <= d) =>
               q.wantActive /\ f.price = Best(b, f.side) /\ f.joinSeq = b.nextSeq
<1>1. PICK e : \E d \in Elapsed : OnEvent(e, d)
  BY NextIsEvent
<1>2. PICK d \in Elapsed : OnEvent(e, d)
  BY <1>1
<1> DEFINE b == Asked(book)
           pre == PreOf(b, e)
           Early1(s) == Early(maker[model][s], b, d, s)
           early == [s \in Sides |-> Early1(s)]
           f == FillRecord(model, early, pre, e)
<1>3. f # NoFill /\ fill'[model] = f
  <2>1. fill'[model] = IF Resolved(b, e) = {} THEN NoFill ELSE f
    BY <1>2, FillForm
  <2>. HIDE DEF f, b
  <2>. QED  BY <2>1
<1>4. PICK side \in Sides :
        LET m == early[side] IN
        /\ FillOf(model, m, side, pre, e) > 0
        /\ f.side = side /\ f.price = m.quote.px /\ f.joinSeq = m.pos.joinSeq
  BY <1>3, RecordParts
<1>. HIDE DEF f
<1> DEFINE was == maker[model][side]
           m == Early1(side)
<1>5. early[side] = m
  OBVIOUS
<1>. HIDE DEF early, pre
<1>6. m.quote.active
  <2>. HIDE DEF m
  <2>1. ~(0 > 0) /\ FillOf(model, m, side, pre, e) > 0
    BY <1>4, <1>5
  <2>. QED  BY <2>1, Zenon DEF FillOf
<1>7. PICK l \in Nat : l = latency
  BY DelayedIsNat DEF LatencyIsNat
<1>8. IsSide(was, l) /\ d \in Nat
  BY <1>7, MakerAssumption DEF Delayed
<1>9. ASSUME TwoSided(b), was.quote.inFlight, was.quote.wait <= d
      PROVE  was.quote.wantActive /\ m.quote.px = Best(b, side) /\ m.pos.joinSeq = b.nextSeq
  <2>1. m = Early(was, b, d, side)
    OBVIOUS
  <2>. HIDE DEF b, was, m
  <2>. QED  BY <1>6, <1>8, <1>9, <2>1, DueHasLanded
<1>. HIDE DEF m
<1>. QED  BY <1>3, <1>4, <1>5, <1>9

(* A change of a quote that is due when an event happens has landed by then: a fill of that *)
(* quote is of the new one, at the touch there was and behind all that rested there, and a  *)
(* quote that was to be pulled has no fill; for every tape, book, latency and policy.       *)
THEOREM DueLandsFirst == Spec => LandsBeforeFills
<1>1. Delayed /\ [Next]_vars =>
         [\A model \in Models : fill'[model] # NoFill =>
            LET b == Asked(book)
                f == fill'[model]
                q == maker[model][f.side].quote IN
            TwoSided(b) /\ q.inFlight /\ (\A d \in Elapsed : q.wait <= d) =>
                q.wantActive /\ f.price = Best(b, f.side) /\ f.joinSeq = b.nextSeq]_vars
  BY FillOfDueLanded
<1>. QED  BY <1>1, InitDelayed, NextDelayed, PTL DEF Spec, LandsBeforeFills

LEMMA StepInTurn ==
    ASSUME NEW l \in Nat, NEW m, IsSide(m, l), NEW side \in Sides,
           NEW b, HP!BookInv(b), NEW e, OfTape(b, e), Exact(m, b, side),
           e.type # "Add",
           FillOf("QueueAware", m, side, PreOf(b, e), e) > 0, ~Swept(m, side, PreOf(b, e), e),
           ~Stepped("QueueAware", m, side, b, e).pos.behind
    PROVE  /\ m.quote.px \in Nat /\ m.pos.joinSeq \in Nat
           /\ Ahead(Apply(b, e), side, m.quote.px, m.pos.joinSeq) = 0
<1> DEFINE c == Apply(b, e)
           pre == PreOf(b, e)
           s == Shifted("QueueAware", m, side, pre, e)
           px == m.quote.px
           j == m.pos.joinSeq
           h == m.pos.ahead
           was == Ahead(b, side, px, j)
           is == Ahead(c, side, px, j)
<1>1. HP!BookInv(c) /\ Advances(b, c, pre, e)
  BY EventAdvances
<1>2. Names(pre, b, b.ids[e.ref])
  BY PreNames
<1>3. ~s.behind
  <2>1. Stepped("QueueAware", m, side, b, e) = StepSide("QueueAware", m, side, pre, e)
    BY PreNames DEF Stepped
  <2>. QED  BY <2>1, StepParts
<1>4. /\ m.quote.active /\ pre.side = side /\ pre.price = px /\ e.type = "Execute"
      /\ Reached(m.pos, e.shares, m.quote.remaining) > 0
  <2>1. ~(0 > 0)
    OBVIOUS
  <2>. HIDE DEF pre
  <2>2. FillOf("QueueAware", m, side, pre, e) > 0 /\ ~Swept(m, side, pre, e)
    BY DEF pre
  <2>3. m.quote.active /\ pre.side = side /\ e.type = "Execute"
    BY <2>1, <2>2 DEF FillOf
  <2>4. FillOf("QueueAware", m, side, pre, e)
           = IF pre.price = px THEN Reached(m.pos, e.shares, m.quote.remaining) ELSE 0
    BY <2>2, <2>3 DEF FillOf
  <2>. QED  BY <2>1, <2>2, <2>3, <2>4
<1>5. e.shares > h
  <2>1. ~(0 > 0)
    OBVIOUS
  <2>2. ~(e.shares <= h)
    BY <1>4, <2>1 DEF Reached
  <2>3. h \in Nat /\ e.shares \in Nat
    BY <1>4, Constants DEF Exact, OfTape
  <2>. QED  BY <2>2, <2>3
<1>s. s = OnExecution(m.pos, pre.seq, e.shares)
  BY <1>4 DEF Shifted
<1>p. IsPos(m.pos)
  BY DEF IsSide
<1>a. was \in Nat /\ is \in Nat
  <2>1. InFront(b, side, px, j) \subseteq DOMAIN b.orders /\ InFront(c, side, px, j) \subseteq DOMAIN c.orders
    BY DEF InFront
  <2>. HIDE DEF c
  <2>. QED  BY <1>1, <2>1, AheadCounts DEF Ahead
<1>t. e.shares \in Nat /\ Taken(pre, e) = e.shares
  BY <1>4, Constants DEF OfTape, Taken
<1>. HIDE DEF s, pre, c, was, is
<1>6. ~m.pos.behind /\ ~(h > 0 /\ ~(pre.seq < j))
  <2>1. ~OnExecution(m.pos, pre.seq, e.shares).behind
           <=> ~m.pos.behind /\ ~(m.pos.ahead > 0 /\ ~(pre.seq < m.pos.joinSeq))
    BY <1>p, PosAfter
  <2>. QED  BY <1>3, <1>s, <2>1
<1>7. px \in Nat /\ h \in Nat /\ j \in Nat /\ j <= b.nextSeq /\ h = was
  BY <1>4, <1>6 DEF Exact, was
<1>8. IF pre.seq < j THEN was = e.shares + is ELSE is = was
  BY <1>1, <1>4, <1>7, <1>t DEF Advances, was, is
<1>9. is = 0
  BY <1>5, <1>6, <1>7, <1>8, <1>a, <1>t
<1>. QED  BY <1>7, <1>9 DEF is, c

(* A queue-aware quote that was filled was at the front of the queue: none of the shares that *)
(* were there when it joined is left, unless it was swept, or the tape did not keep to the    *)
(* queue and the diagnostic says so.                                                          *)
THEOREM FillsAreInTurn == Spec => []FilledInTurn
<1>1. Init => FilledInTurn
  BY DEF Init, MakerInit, FilledInTurn, Models
<1>2. Delayed /\ Queued /\ FilledInTurn /\ [Next]_vars => FilledInTurn'
  <2>. SUFFICES ASSUME Delayed, Queued, FilledInTurn, [Next]_vars PROVE FilledInTurn'
    OBVIOUS
  <2>1. CASE UNCHANGED vars
    <3>1. book' = book /\ maker' = maker /\ fill' = fill
      BY <2>1 DEF vars
    <3>. QED  BY <3>1 DEF FilledInTurn
  <2>2. CASE Next
    <3>1. PICK e : OfTape(book, e) /\ \E d \in Elapsed : OnEvent(e, d)
      BY <2>2, NextIsOfBook
    <3>2. PICK d \in Elapsed : OnEvent(e, d)
      BY <3>1
    <3> DEFINE before == Asked(book)
               Early1(s) == Early(maker["QueueAware"][s], before, d, s)
               early == [s \in Sides |-> Early1(s)]
               pre == PreOf(before, e)
               f == FillRecord("QueueAware", early, pre, e)
    <3>3. fill'["QueueAware"] = IF Resolved(before, e) = {} THEN NoFill ELSE f
      BY <3>2, FillForm DEF Models
    <3>4. CASE Resolved(before, e) = {} \/ f = NoFill
      BY <3>3, <3>4 DEF FilledInTurn
    <3>5. CASE Resolved(before, e) # {} /\ f # NoFill
      <4>1. PICK side \in Sides :
              LET m == early[side] IN
              /\ FillOf("QueueAware", m, side, pre, e) > 0
              /\ f.side = side /\ f.price = m.quote.px /\ f.joinSeq = m.pos.joinSeq
              /\ f.swept = Swept(m, side, pre, e)
        BY <3>5, RecordParts
      <4> DEFINE m == Early1(side)
                 step == Stepped("QueueAware", m, side, before, e)
      <4>2. early[side] = m
        OBVIOUS
      <4>. HIDE DEF f, early
      <4>3. /\ FillOf("QueueAware", m, side, pre, e) > 0
            /\ f.side = side /\ f.price = m.quote.px /\ f.joinSeq = m.pos.joinSeq
            /\ f.swept = Swept(m, side, pre, e)
        BY <4>1, <4>2
      <4>4. /\ HP!BookInv(before) /\ OfTape(before, e)
            /\ IsSide(m, latency) /\ Exact(m, before, side)
            /\ HP!BookInv(book')
            /\ \A px, j : Ahead(book', side, px, j) = Ahead(Apply(before, e), side, px, j)
            /\ maker["QueueAware"][side]'.pos.behind = step.pos.behind
        BY <3>1, <3>2, EventQueued
      <4>5. PICK l \in Nat : l = latency
        BY DelayedIsNat DEF LatencyIsNat
      <4>6. e.type # "Add"
        BY <3>5, <4>4, PreNames
      <4>. HIDE DEF m, before, Early1
      <4>7. ~Swept(m, side, pre, e) /\ ~step.pos.behind
               => /\ m.quote.px \in Nat /\ m.pos.joinSeq \in Nat
                  /\ Ahead(Apply(before, e), side, m.quote.px, m.pos.joinSeq) = 0
        BY <4>3, <4>4, <4>5, <4>6, StepInTurn
      <4>. HIDE DEF step, pre
      <4>8. PICK b : b = book'
        OBVIOUS
      <4>9. ~Swept(m, side, pre, e) /\ ~step.pos.behind
               => RestingAhead(b, side, m.quote.px, m.pos.joinSeq) = 0
        BY <4>4, <4>7, <4>8, RestingIsAhead
      <4>. QED  BY <3>3, <3>5, <4>3, <4>4, <4>8, <4>9 DEF FilledInTurn
    <3>. QED  BY <3>4, <3>5
  <2>. QED  BY <2>1, <2>2
<1>. QED  BY <1>1, <1>2, QueuedAlways, PTL DEF Spec

-----------------------------------------------------------------------------
(* The shares a quote still has, and how far the naive maker must be ahead for two quotes to *)
(* be left with q and n: it has had the difference more, or has been renewed once more.      *)
Rem(q) == IF q.active THEN q.remaining ELSE 0

Gap(q, n) == IF n <= q THEN q - n ELSE QuoteSize + q - n

LEMMA GapIsNat ==
    ASSUME NEW q \in Nat, NEW n \in Nat, n <= QuoteSize
    PROVE  Gap(q, n) \in Nat
  BY MakerAssumption DEF Gap

(* What two quotes lose to one trade of s shares: the naive one all it can, if the other loses any. *)
LEMMA GapAfterFill ==
    ASSUME NEW q \in Nat, NEW n \in Nat, NEW s \in Nat, NEW x \in Nat, NEW y \in Nat,
           n <= QuoteSize, x <= q, y <= n, x <= s,
           x = 0 \/ n = 0 \/ y = (IF s <= n THEN s ELSE n)
    PROVE  Gap(q - x, n - y) <= Gap(q, n) + y - x
<1>1. QuoteSize \in Nat
  BY MakerAssumption
<1>2. q - x \in Nat /\ n - y \in Nat
  OBVIOUS
<1>3. CASE x = 0
  BY <1>1, <1>2, <1>3 DEF Gap
<1>4. CASE n = 0
  BY <1>1, <1>2, <1>4 DEF Gap
<1>5. CASE y = (IF s <= n THEN s ELSE n)
  BY <1>1, <1>2, <1>5 DEF Gap
<1>. QED  BY <1>3, <1>4, <1>5

(* The two quotes of a side: whole, and at one price when both are there. *)
Even(m, v) == /\ Whole(m.quote) /\ Whole(v.quote)
              /\ m.quote.active /\ v.quote.active => m.quote.px = v.quote.px

Apart(m, v) == Gap(Rem(m.quote), Rem(v.quote))

LEMMA RemIsNat ==
    ASSUME NEW q, Whole(q)
    PROVE  Rem(q) \in Nat /\ Rem(q) <= QuoteSize
  BY MakerAssumption DEF Rem, Whole

Given(model, m, side, b, e) ==
    IF Resolved(b, e) = {} THEN 0 ELSE FillOf(model, m, side, PreOf(b, e), e)

LEMMA GivenBound ==
    ASSUME NEW l \in Nat, NEW model \in Models, NEW m, IsSide(m, l), Whole(m.quote),
           NEW side, NEW b, NEW e, Counted(e),
           model = "QueueAware" /\ m.quote.active => m.pos.ahead \in Nat
    PROVE  LET shares == Given(model, m, side, b, e) IN
           /\ shares \in Nat /\ shares <= Rem(m.quote)
           /\ shares # 0 => /\ Resolved(b, e) # {} /\ PreOf(b, e).side = side
                            /\ m.quote.active /\ e.shares \in Nat /\ shares <= e.shares
           /\ Rem(Stepped(model, m, side, b, e).quote) = Rem(m.quote) - shares
           /\ Whole(Stepped(model, m, side, b, e).quote)
<1> DEFINE pre == PreOf(b, e)
           shares == FillOf(model, m, side, pre, e)
           v == StepSide(model, m, side, pre, e)
<1>r. Rem(m.quote) \in Nat
  BY RemIsNat
<1>0. /\ Given(model, m, side, b, e) = IF Resolved(b, e) = {} THEN 0 ELSE shares
      /\ Stepped(model, m, side, b, e) = IF Resolved(b, e) = {} THEN m ELSE v
  BY DEF Given, Stepped
<1>. SUFFICES ASSUME Resolved(b, e) # {}
     PROVE  /\ shares \in Nat /\ shares <= Rem(m.quote)
            /\ shares # 0 => /\ pre.side = side
                             /\ m.quote.active /\ e.shares \in Nat /\ shares <= e.shares
            /\ Rem(v.quote) = Rem(m.quote) - shares
            /\ Whole(v.quote)
  BY <1>0, <1>r
<1>1. CASE ~m.quote.active
  <2>1. shares = 0
    BY <1>1 DEF FillOf
  <2>2. v.quote = m.quote
    BY <2>1, StepParts
  <2>. HIDE DEF v, shares
  <2>. QED  BY <1>r, <2>1, <2>2
<1>2. CASE m.quote.active
  <2>0. PICK p : p = pre
    OBVIOUS
  <2>. HIDE DEF pre
  <2>1. /\ shares \in Nat
        /\ shares # 0 => /\ pre.side = side /\ e.type = "Execute"
                         /\ shares <= m.quote.remaining /\ shares <= e.shares
    BY <1>2, <2>0, FillBound
  <2>2. Whole(v.quote)
    BY <1>2, <2>0, StepWhole
  <2>3. /\ shares = 0 => v.quote = m.quote
        /\ shares # 0 /\ shares < m.quote.remaining =>
              v.quote.active = m.quote.active /\ v.quote.remaining = m.quote.remaining - shares
        /\ shares # 0 /\ ~(shares < m.quote.remaining) => ~v.quote.active
    BY <2>0, StepParts
  <2>. HIDE DEF v, shares
  <2>4. m.quote.remaining \in Nat /\ Rem(m.quote) = m.quote.remaining
    BY <1>2 DEF Whole, Rem
  <2>5. shares # 0 => e.shares \in Nat
    BY <2>1 DEF Counted
  <2>6. Rem(v.quote) = Rem(m.quote) - shares
    <3>1. CASE shares = 0
      BY <1>r, <2>3, <3>1
    <3>2. CASE shares # 0 /\ shares < m.quote.remaining
      <4>1. v.quote.active /\ v.quote.remaining = m.quote.remaining - shares
        BY <1>2, <2>3, <3>2
      <4>. QED  BY <2>4, <4>1 DEF Rem
    <3>3. CASE shares # 0 /\ ~(shares < m.quote.remaining)
      <4>1. ~v.quote.active /\ shares = m.quote.remaining
        BY <2>1, <2>3, <2>4, <3>3
      <4>. QED  BY <2>4, <4>1 DEF Rem
    <3>. QED  BY <3>1, <3>2, <3>3
  <2>7. shares <= Rem(m.quote)
    BY <1>r, <2>1, <2>4
  <2>. QED  BY <1>2, <2>1, <2>2, <2>5, <2>6, <2>7
<1>. QED  BY <1>1, <1>2

(* A trade that reaches a queue-aware quote reaches the naive one at its price, from its first share. *)
LEMMA NaiveHasAll ==
    ASSUME NEW m, NEW v, NEW side, NEW b, NEW e, Even(m, v), v.quote.active, Counted(e),
           Given("QueueAware", m, side, b, e) # 0
    PROVE  Given("Naive", v, side, b, e)
              = IF e.shares <= v.quote.remaining THEN e.shares ELSE v.quote.remaining
<1> DEFINE pre == PreOf(b, e)
<1>1. Resolved(b, e) # {} /\ FillOf("QueueAware", m, side, pre, e) # 0
  BY DEF Given
<1>. HIDE DEF pre
<1>2. m.quote.active /\ pre.side = side /\ e.type = "Execute"
  BY <1>1 DEF FillOf
<1>3. Swept(m, side, pre, e) \/ pre.price = m.quote.px
  BY <1>1, <1>2 DEF FillOf
<1>4. m.quote.px = v.quote.px
  BY <1>2 DEF Even
<1>5. Swept(v, side, pre, e) \/ pre.price = v.quote.px
  BY <1>3, <1>4 DEF Swept
<1>6. FillOf("Naive", v, side, pre, e) = Min({e.shares, v.quote.remaining})
  BY <1>2, <1>5 DEF FillOf
<1>7. e.shares \in Nat /\ v.quote.remaining \in Nat
  BY <1>2 DEF Counted, Even, Whole
<1>. QED  BY <1>1, <1>6, <1>7, MinOfTwo DEF Given, pre

LEMMA MissedStays ==
    ASSUME NEW l \in Nat, NEW model, NEW m, IsSide(m, l), ~m.quote.active,
           NEW side, NEW b, NEW e
    PROVE  Stepped(model, m, side, b, e).quote = m.quote
<1>1. PICK pre : pre = PreOf(b, e)
  OBVIOUS
<1>2. FillOf(model, m, side, pre, e) = 0
  BY DEF FillOf
<1>3. StepSide(model, m, side, pre, e).quote = m.quote
  BY <1>2, StepParts
<1>. QED  BY <1>1, <1>3 DEF Stepped

LEMMA StepApart ==
    ASSUME NEW l \in Nat, NEW m, IsSide(m, l), NEW v, IsSide(v, l), Even(m, v),
           m.quote.active => m.pos.ahead \in Nat, NEW side, NEW b, NEW e, Counted(e)
    PROVE  LET x == Given("QueueAware", m, side, b, e)
               y == Given("Naive", v, side, b, e)
               sm == Stepped("QueueAware", m, side, b, e)
               sv == Stepped("Naive", v, side, b, e) IN
           /\ Even(sm, sv) /\ x \in Nat /\ y \in Nat
           /\ Apart(sm, sv) <= Apart(m, v) + y - x
<1> DEFINE x == Given("QueueAware", m, side, b, e)
           y == Given("Naive", v, side, b, e)
           sm == Stepped("QueueAware", m, side, b, e)
           sv == Stepped("Naive", v, side, b, e)
<1>0. Whole(m.quote) /\ Whole(v.quote)
  BY DEF Even
<1>1. /\ x \in Nat /\ x <= Rem(m.quote)
      /\ x # 0 => m.quote.active /\ e.shares \in Nat /\ x <= e.shares
      /\ Rem(sm.quote) = Rem(m.quote) - x /\ Whole(sm.quote)
  BY <1>0, GivenBound DEF Models
<1>2. /\ y \in Nat /\ y <= Rem(v.quote)
      /\ y # 0 => v.quote.active
      /\ Rem(sv.quote) = Rem(v.quote) - y /\ Whole(sv.quote)
  <2>1. "Naive" \in Models /\ "Naive" # "QueueAware"
    BY DEF Models
  <2>. QED  BY <1>0, <2>1, GivenBound
<1>3. sm.quote.px = m.quote.px /\ sv.quote.px = v.quote.px
  BY SteppedParts
<1>4. /\ Rem(m.quote) \in Nat /\ Rem(v.quote) \in Nat /\ Rem(v.quote) <= QuoteSize
  BY <1>0, RemIsNat
<1>5. x # 0 /\ v.quote.active => y = IF e.shares <= Rem(v.quote) THEN e.shares ELSE Rem(v.quote)
  BY NaiveHasAll DEF Rem
<1>6. ~v.quote.active => Rem(v.quote) = 0
  BY DEF Rem
<1>7. (sm.quote.active => m.quote.active) /\ (sv.quote.active => v.quote.active)
  <2>1. ~m.quote.active => sm.quote = m.quote
    BY MissedStays
  <2>2. ~v.quote.active => sv.quote = v.quote
    BY MissedStays
  <2>. HIDE DEF sm, sv
  <2>. QED  BY <2>1, <2>2
<1>. HIDE DEF x, y, sm, sv
<1>8. Even(sm, sv)
  BY <1>1, <1>2, <1>3, <1>7 DEF Even
<1>9. Gap(Rem(m.quote) - x, Rem(v.quote) - y) <= Gap(Rem(m.quote), Rem(v.quote)) + y - x
  <2>1. CASE x = 0
    <3>1. 0 \in Nat /\ x <= 0
      BY <2>1
    <3>. QED  BY <1>1, <1>2, <1>4, <2>1, <3>1, GapAfterFill
  <2>2. CASE x # 0
    <3>1. e.shares \in Nat /\ x <= e.shares
      BY <1>1, <2>2
    <3>2. Rem(v.quote) = 0 \/ y = IF e.shares <= Rem(v.quote) THEN e.shares ELSE Rem(v.quote)
      BY <1>5, <1>6, <2>2
    <3>. QED  BY <1>1, <1>2, <1>4, <3>1, <3>2, GapAfterFill
  <2>. QED  BY <2>1, <2>2
<1>. QED  BY <1>1, <1>2, <1>8, <1>9 DEF Apart, x, y, sm, sv

(* Quotes that land at once are at one price again, and no further apart. *)
LEMMA LateApart ==
    ASSUME NEW l, l = 0, latency = l, NEW m, IsSide(m, l), NEW v, IsSide(v, l), Even(m, v),
           ~m.quote.inFlight, ~v.quote.inFlight, NEW b, NEW side, allow[side] \in BOOLEAN
    PROVE  Even(Ended(m, b, side), Ended(v, b, side))
           /\ Apart(Ended(m, b, side), Ended(v, b, side)) <= Apart(m, v)
<1> DEFINE px == Best(b, side)
           Agrees(u) == u.quote.active = allow[side] /\ (u.quote.active => u.quote.px = px)
           lm == Late(m, b, side)
           lv == Late(v, b, side)
           q == Rem(m.quote)
           n == Rem(v.quote)
<1>0. l \in Nat /\ Whole(m.quote) /\ Whole(v.quote) /\ QuoteSize \in Nat /\ QuoteSize > 0
  BY MakerAssumption DEF Even
<1>1. /\ IsSide(lm, l) /\ lm.quote.active = allow[side] /\ (lm.quote.active => lm.quote.px = px)
      /\ Agrees(m) => lm = m
      /\ ~Agrees(m) /\ lm.quote.active => lm.quote.remaining = QuoteSize
  BY <1>0, LateParts
<1>2. /\ IsSide(lv, l) /\ lv.quote.active = allow[side] /\ (lv.quote.active => lv.quote.px = px)
      /\ Agrees(v) => lv = v
      /\ ~Agrees(v) /\ lv.quote.active => lv.quote.remaining = QuoteSize
  BY <1>0, LateParts
<1>3. /\ q \in Nat /\ q <= QuoteSize /\ n \in Nat /\ n <= QuoteSize
      /\ m.quote.active => q > 0
      /\ v.quote.active => n > 0
  BY <1>0, RemIsNat DEF Rem, Whole
<1>4. Gap(q, n) \in Nat
  BY <1>3, GapIsNat
<1>a. m.quote.active \in BOOLEAN /\ v.quote.active \in BOOLEAN
  BY DEF IsSide, IsQuote
<1>5. Apart(m, v) = Gap(q, n)
  BY DEF Apart
<1>. HIDE DEF lm, lv
<1>6. Whole(lm.quote) /\ Whole(lv.quote)
  BY <1>0, <1>1, <1>2 DEF Whole
<1>7. Even(lm, lv)
  BY <1>1, <1>2, <1>6 DEF Even
<1>8. ASSUME ~allow[side] PROVE Apart(lm, lv) <= Apart(m, v)
  <2>1. Rem(lm.quote) = 0 /\ Rem(lv.quote) = 0
    BY <1>1, <1>2, <1>8 DEF Rem
  <2>2. Apart(lm, lv) = 0
    BY <2>1 DEF Apart, Gap
  <2>. QED  BY <1>3, <1>4, <1>5, <2>2
<1>9. ASSUME allow[side] PROVE Apart(lm, lv) <= Apart(m, v)
  <2>0. allow[side] = TRUE
    BY <1>9
  <2>. DEFINE At(u) == u.quote.active /\ u.quote.px = px
  <2>1. Rem(lm.quote) = IF At(m) THEN q ELSE QuoteSize
    <3>1. CASE At(m)
      <4>1. Agrees(m)
        BY <1>a, <2>0, <3>1
      <4>. QED  BY <1>1, <3>1, <4>1
    <3>2. CASE ~At(m)
      <4>1. ~Agrees(m)
        BY <1>a, <2>0, <3>2
      <4>2. lm.quote.active /\ lm.quote.remaining = QuoteSize
        BY <1>1, <2>0, <4>1
      <4>. QED  BY <3>2, <4>2 DEF Rem
    <3>. QED  BY <3>1, <3>2
  <2>2. Rem(lv.quote) = IF At(v) THEN n ELSE QuoteSize
    <3>1. CASE At(v)
      <4>1. Agrees(v)
        BY <1>a, <2>0, <3>1
      <4>. QED  BY <1>2, <3>1, <4>1
    <3>2. CASE ~At(v)
      <4>1. ~Agrees(v)
        BY <1>a, <2>0, <3>2
      <4>2. lv.quote.active /\ lv.quote.remaining = QuoteSize
        BY <1>2, <2>0, <4>1
      <4>. QED  BY <3>2, <4>2 DEF Rem
    <3>. QED  BY <3>1, <3>2
  <2>3. /\ ~m.quote.active => q = 0
        /\ ~v.quote.active => n = 0
        /\ m.quote.active /\ v.quote.active => m.quote.px = v.quote.px
    BY DEF Rem, Even
  <2>. HIDE DEF q, n
  <2>4. Apart(lm, lv) = Gap(Rem(lm.quote), Rem(lv.quote))
    BY DEF Apart
  <2>5. CASE At(m) /\ At(v)
    BY <1>3, <1>4, <1>5, <2>1, <2>2, <2>4, <2>5
  <2>6. CASE ~At(m) /\ ~At(v)
    <3>1. Gap(QuoteSize, QuoteSize) = 0
      BY <1>0 DEF Gap
    <3>. QED  BY <1>3, <1>4, <1>5, <2>1, <2>2, <2>4, <2>6, <3>1
  <2>7. CASE At(m) /\ ~At(v)
    <3>1. ~v.quote.active /\ n = 0
      BY <2>3, <2>7
    <3>2. Gap(q, QuoteSize) <= Gap(q, n)
      BY <1>0, <1>3, <3>1 DEF Gap
    <3>. QED  BY <1>5, <2>1, <2>2, <2>4, <2>7, <3>2
  <2>8. CASE ~At(m) /\ At(v)
    <3>1. ~m.quote.active /\ q = 0 /\ n > 0
      BY <1>3, <2>3, <2>8
    <3>2. Gap(QuoteSize, n) <= Gap(q, n)
      BY <1>0, <1>3, <3>1 DEF Gap
    <3>. QED  BY <1>5, <2>1, <2>2, <2>4, <2>8, <3>2
  <2>. QED  BY <2>5, <2>6, <2>7, <2>8
<1>10. Apart(lm, lv) <= Apart(m, v)
  BY <1>8, <1>9, <1>a
<1>11. Ended(m, b, side) = (IF TwoSided(b) THEN lm ELSE m)
       /\ Ended(v, b, side) = (IF TwoSided(b) THEN lv ELSE v)
  BY DEF Ended, lm, lv
<1>. QED  BY <1>4, <1>5, <1>7, <1>10, <1>11

(* The record of an event's fill says of all the shares that the sides were given. *)
LEMMA RecordSums ==
    ASSUME NEW e, NEW d, OnEvent(e, d), NEW model \in Models, NEW x \in Nat, NEW y \in Nat,
           LET before == Asked(book)
               Part(side) == Given(model, Early(maker[model][side], before, d, side),
                                   side, before, e) IN
           /\ x = Part("Buy") /\ y = Part("Sell")
           /\ x # 0 => PreOf(before, e).side = "Buy"
           /\ y # 0 => PreOf(before, e).side = "Sell"
    PROVE  Shares(fill'[model]) = x + y
<1> DEFINE before == Asked(book)
           early == [side \in Sides |-> Early(maker[model][side], before, d, side)]
           pre == PreOf(before, e)
           f == FillRecord(model, early, pre, e)
           Part(side) == Given(model, Early(maker[model][side], before, d, side), side, before, e)
<1>s. Sides = {"Buy", "Sell"}
  BY DEF Sides, Book!Sides, Book!Promise!Sides
<1>1. fill'[model] = IF Resolved(before, e) = {} THEN NoFill ELSE f
  BY FillForm
<1>2. x = Part("Buy") /\ y = Part("Sell")
  OBVIOUS
<1>3. (x # 0 => pre.side = "Buy") /\ (y # 0 => pre.side = "Sell")
  OBVIOUS
<1>4. CASE Resolved(before, e) = {}
  <2>1. x = 0 /\ y = 0
    BY <1>2, <1>4 DEF Given
  <2>. QED  BY <1>1, <1>4, <2>1 DEF Shares
<1>5. CASE Resolved(before, e) # {}
  <2>0. early["Buy"] = Early(maker[model]["Buy"], before, d, "Buy")
        /\ early["Sell"] = Early(maker[model]["Sell"], before, d, "Sell")
    BY <1>s
  <2>1. x = FillOf(model, early["Buy"], "Buy", pre, e)
        /\ y = FillOf(model, early["Sell"], "Sell", pre, e)
    BY <1>2, <1>5, <2>0 DEF Given
  <2>. DEFINE hit == {s \in Sides : FillOf(model, early[s], s, pre, e) > 0}
  <2>2. CASE f = NoFill
    <3>1. hit = {}
      <4>1. (CHOOSE s \in hit : TRUE) \in hit => hit # {}
        OBVIOUS
      <4>2. ASSUME hit # {} PROVE FALSE
        <5>1. (CHOOSE s \in hit : TRUE) \in Sides
          BY <4>2
        <5>2. f.side = CHOOSE s \in hit : TRUE
          BY <4>2, Zenon DEF FillRecord
        <5>3. NoFill.side = "None"
          BY DEF NoFill
        <5>. HIDE DEF f, hit
        <5>4. f.side \in Sides /\ f.side = "None"
          BY <2>2, <5>1, <5>2, <5>3
        <5>. QED  BY <1>s, <5>4
      <4>. QED  BY <4>2
    <3>2. ~(x > 0) /\ ~(y > 0)
      BY <1>s, <2>1, <3>1
    <3>3. Shares(fill'[model]) = 0
      BY <1>1, <1>5, <2>2 DEF Shares
    <3>. HIDE DEF Part, early
    <3>4. x = 0 /\ y = 0
      BY <3>2
    <3>. QED  BY <3>3, <3>4
  <2>3. CASE f # NoFill
    <3>1. PICK side \in Sides : f.qty = FillOf(model, early[side], side, pre, e)
                                /\ FillOf(model, early[side], side, pre, e) > 0
      BY <2>3, RecordParts
    <3>2. Shares(fill'[model]) = f.qty
      BY <1>1, <1>5, <2>3 DEF Shares
    <3>. HIDE DEF early, f, pre, Part, hit
    <3>3. CASE side = "Buy"
      <4>1. f.qty = x /\ x > 0
        BY <2>1, <3>1, <3>3
      <4>2. y = 0
        BY <1>3, <4>1
      <4>. QED  BY <3>2, <4>1, <4>2
    <3>4. CASE side = "Sell"
      <4>1. f.qty = y /\ y > 0
        BY <2>1, <3>1, <3>4
      <4>2. x = 0
        BY <1>3, <4>1
      <4>. QED  BY <3>2, <4>1, <4>2
    <3>. QED  BY <1>s, <3>1, <3>3, <3>4
  <2>. QED  BY <2>2, <2>3
<1>. QED  BY <1>4, <1>5

(* With no latency: of every side the quotes are even, and the naive maker is ahead by at least *)
(* what the two sides are apart.                                                                *)
ApartOn(side) == Apart(maker["QueueAware"][side], maker["Naive"][side])

Leading == latency = 0 =>
    /\ \A side \in Sides : Even(maker["QueueAware"][side], maker["Naive"][side])
    /\ lead \in Int /\ lead >= ApartOn("Buy") + ApartOn("Sell")

LEMMA InitLeading == Init => Leading
<1>. SUFFICES ASSUME Init PROVE Leading
  OBVIOUS
<1>1. \A model \in Models, side \in Sides : ~maker[model][side].quote.active
  BY DEF Init, MakerInit, Idle
<1>2. "Buy" \in Sides /\ "Sell" \in Sides /\ "QueueAware" \in Models /\ "Naive" \in Models
  BY DEF Sides, Book!Sides, Book!Promise!Sides, Models
<1>3. ASSUME NEW side \in Sides
      PROVE  Even(maker["QueueAware"][side], maker["Naive"][side]) /\ ApartOn(side) = 0
  BY <1>1, <1>2 DEF Even, Whole, ApartOn, Apart, Rem, Gap
<1>4. lead = 0
  BY DEF Init
<1>. QED  BY <1>2, <1>3, <1>4 DEF Leading

LEMMA EarlySame ==
    ASSUME NEW l \in Nat, NEW m, IsSide(m, l), ~m.quote.inFlight, NEW v, IsSide(v, l),
           ~v.quote.inFlight, Even(m, v), NEW b, NEW d \in Nat, NEW side
    PROVE  LET em == Early(m, b, d, side)
               ev == Early(v, b, d, side) IN
           /\ IsSide(em, l) /\ IsSide(ev, l) /\ ~em.quote.inFlight /\ ~ev.quote.inFlight
           /\ Even(em, ev) /\ Apart(em, ev) = Apart(m, v)
<1> DEFINE em == Early(m, b, d, side)
           ev == Early(v, b, d, side)
<1>1. /\ IsSide(em, l) /\ ~em.quote.inFlight
      /\ em.quote.active = m.quote.active /\ em.quote.px = m.quote.px
      /\ em.quote.remaining = m.quote.remaining
  BY EarlyParts
<1>2. /\ IsSide(ev, l) /\ ~ev.quote.inFlight
      /\ ev.quote.active = v.quote.active /\ ev.quote.px = v.quote.px
      /\ ev.quote.remaining = v.quote.remaining
  BY EarlyParts
<1>. HIDE DEF em, ev
<1>3. Rem(em.quote) = Rem(m.quote) /\ Rem(ev.quote) = Rem(v.quote)
  BY <1>1, <1>2 DEF Rem
<1>4. Even(em, ev)
  BY <1>1, <1>2 DEF Even, Whole
<1>. QED  BY <1>1, <1>2, <1>3, <1>4 DEF Apart, em, ev

(* What an event does to the two quotes of a side, and gives each. *)
LEMMA SideLeads ==
    ASSUME Delayed, Grounded, Queued, Leading, latency = 0,
           NEW e, NEW d \in Elapsed, OnEvent(e, d), OfTape(book, e), Counted(e), NEW side \in Sides
    PROVE  LET before == Asked(book)
               em == Early(maker["QueueAware"][side], before, d, side)
               ev == Early(maker["Naive"][side], before, d, side)
               x == Given("QueueAware", em, side, before, e)
               y == Given("Naive", ev, side, before, e) IN
           /\ x \in Nat /\ y \in Nat
           /\ x # 0 => PreOf(before, e).side = side
           /\ y # 0 => PreOf(before, e).side = side
           /\ Even(maker["QueueAware"][side]', maker["Naive"][side]')
           /\ ApartOn(side) \in Nat
           /\ ApartOn(side)' \in Nat /\ ApartOn(side)' <= ApartOn(side) + y - x
<1> DEFINE before == Asked(book)
           m == maker["QueueAware"][side]
           v == maker["Naive"][side]
           em == Early(m, before, d, side)
           ev == Early(v, before, d, side)
           x == Given("QueueAware", em, side, before, e)
           y == Given("Naive", ev, side, before, e)
           sm == Stepped("QueueAware", em, side, before, e)
           sv == Stepped("Naive", ev, side, before, e)
<1>0. "QueueAware" \in Models /\ "Naive" \in Models /\ "Naive" # "QueueAware"
  BY DEF Models
<1>l. PICK l : l = latency
  OBVIOUS
<1>1. /\ l = 0 /\ l \in Nat /\ d \in Nat /\ allow[side] \in BOOLEAN
      /\ IsSide(m, l) /\ IsSide(v, l) /\ ~m.quote.inFlight /\ ~v.quote.inFlight
      /\ Even(m, v)
  BY <1>0, <1>l, MakerAssumption DEF Delayed, Grounded, Leading
<1>2. maker["QueueAware"][side]' = Ended(sm, book', side)
      /\ maker["Naive"][side]' = Ended(sv, book', side)
  BY <1>0, EventForm
<1>3. Exact(em, before, side)
  BY EventQueued
<1>4. ApartOn(side) = Apart(m, v)
      /\ ApartOn(side)' = Apart(maker["QueueAware"][side]', maker["Naive"][side]')
  BY DEF ApartOn
<1>. HIDE DEF before, m, v
<1>5. /\ IsSide(em, l) /\ IsSide(ev, l) /\ ~em.quote.inFlight /\ ~ev.quote.inFlight
      /\ Even(em, ev) /\ Apart(em, ev) = Apart(m, v)
  BY <1>1, EarlySame
<1>6. em.quote.active => em.pos.ahead \in Nat
  BY <1>3 DEF Exact
<1>. HIDE DEF em, ev
<1>7. Even(sm, sv) /\ x \in Nat /\ y \in Nat /\ Apart(sm, sv) <= Apart(em, ev) + y - x
  BY <1>1, <1>5, <1>6, StepApart
<1>8. IsSide(sm, l) /\ IsSide(sv, l) /\ ~sm.quote.inFlight /\ ~sv.quote.inFlight
  BY <1>1, <1>5, SteppedParts
<1>9. /\ x # 0 => PreOf(before, e).side = side
      /\ y # 0 => PreOf(before, e).side = side
  BY <1>0, <1>1, <1>5, <1>6, GivenBound DEF Even
<1>. HIDE DEF sm, sv, x, y
<1>10. PICK b : b = book'
  OBVIOUS
<1>. DEFINE lm == Ended(sm, b, side)
            lv == Ended(sv, b, side)
<1>11. Even(lm, lv) /\ Apart(lm, lv) <= Apart(sm, sv)
  BY <1>1, <1>l, <1>7, <1>8, LateApart
<1>12. maker["QueueAware"][side]' = lm /\ maker["Naive"][side]' = lv
  BY <1>2, <1>10
<1>. HIDE DEF lm, lv
<1>13. Apart(lm, lv) \in Nat /\ Apart(sm, sv) \in Nat /\ Apart(m, v) \in Nat
  BY <1>1, <1>7, <1>11, RemIsNat, GapIsNat DEF Apart, Even
<1>14. Apart(lm, lv) <= Apart(m, v) + y - x
  BY <1>5, <1>7, <1>11, <1>13
<1>15. ApartOn(side)' = Apart(lm, lv)
  BY <1>4, <1>12
<1>. QED  BY <1>4, <1>7, <1>9, <1>11, <1>12, <1>13, <1>14, <1>15 DEF x, y, em, ev, m, v, before

LEMMA NextLeading ==
    Delayed /\ Grounded /\ Queued /\ Leading /\ [Next]_vars => Leading'
<1>. SUFFICES ASSUME Delayed, Grounded, Queued, Leading, [Next]_vars PROVE Leading'
  OBVIOUS
<1>1. CASE UNCHANGED vars
  <2>1. latency' = latency /\ maker' = maker /\ lead' = lead
    BY <1>1 DEF vars
  <2>. QED  BY <2>1 DEF Leading, ApartOn
<1>2. CASE Next
  <2>1. PICK e : /\ Event(e) /\ Counted(e) /\ OfTape(book, e)
                 /\ \E d \in Elapsed : OnEvent(e, d)
    BY <1>2, NextIsOfBook
  <2>2. PICK d \in Elapsed : OnEvent(e, d)
    BY <2>1
  <2>3. latency' = latency
    BY <2>2 DEF OnEvent
  <2>. SUFFICES ASSUME latency = 0
       PROVE  /\ \A side \in Sides : Even(maker["QueueAware"][side]', maker["Naive"][side]')
              /\ lead' \in Int /\ lead' >= ApartOn("Buy")' + ApartOn("Sell")'
    BY <2>3 DEF Leading
  <2> DEFINE before == Asked(book)
             Part(model, side) == Given(model, Early(maker[model][side], before, d, side),
                                        side, before, e)
  <2>4. ASSUME NEW side \in Sides
        PROVE  /\ Part("QueueAware", side) \in Nat /\ Part("Naive", side) \in Nat
               /\ Part("QueueAware", side) # 0 => PreOf(before, e).side = side
               /\ Part("Naive", side) # 0 => PreOf(before, e).side = side
               /\ Even(maker["QueueAware"][side]', maker["Naive"][side]')
               /\ ApartOn(side) \in Nat
               /\ ApartOn(side)' \in Nat
               /\ ApartOn(side)' <= ApartOn(side) + Part("Naive", side) - Part("QueueAware", side)
    BY <2>1, <2>2, SideLeads
  <2>5. "Buy" \in Sides /\ "Sell" \in Sides /\ "QueueAware" \in Models /\ "Naive" \in Models
    BY DEF Sides, Book!Sides, Book!Promise!Sides, Models
  <2>6. PICK xb \in Nat, xs \in Nat, yb \in Nat, ys \in Nat :
           /\ xb = Part("QueueAware", "Buy") /\ xs = Part("QueueAware", "Sell")
           /\ yb = Part("Naive", "Buy") /\ ys = Part("Naive", "Sell")
    BY <2>4, <2>5
  <2>7. /\ xb # 0 => PreOf(before, e).side = "Buy"
        /\ xs # 0 => PreOf(before, e).side = "Sell"
        /\ yb # 0 => PreOf(before, e).side = "Buy"
        /\ ys # 0 => PreOf(before, e).side = "Sell"
    BY <2>4, <2>5, <2>6
  <2>8. Shares(fill'["QueueAware"]) = xb + xs
    BY <2>2, <2>5, <2>6, <2>7, RecordSums
  <2>9. Shares(fill'["Naive"]) = yb + ys
    BY <2>2, <2>5, <2>6, <2>7, RecordSums
  <2>10. lead' = lead + Shares(fill'["Naive"]) - Shares(fill'["QueueAware"])
    BY <2>1, Zenon DEF Event
  <2>11. lead \in Int /\ lead >= ApartOn("Buy") + ApartOn("Sell")
    BY DEF Leading
  <2>12. /\ ApartOn("Buy") \in Nat /\ ApartOn("Sell") \in Nat
         /\ ApartOn("Buy")' \in Nat /\ ApartOn("Sell")' \in Nat
         /\ ApartOn("Buy")' <= ApartOn("Buy") + yb - xb
         /\ ApartOn("Sell")' <= ApartOn("Sell") + ys - xs
    BY <2>4, <2>5, <2>6
  <2>13. lead' = lead + (yb + ys) - (xb + xs)
    BY <2>8, <2>9, <2>10
  <2>14. lead' \in Int /\ lead' >= ApartOn("Buy")' + ApartOn("Sell")'
    BY <2>11, <2>12, <2>13
  <2>. QED  BY <2>4, <2>14
<1>. QED  BY <1>1, <1>2

(* "The naive model overstates": whatever the tape and the policy, a maker with no latency whose *)
(* fills are naive has had at least the shares of the one that waits in the queue.               *)
THEOREM NaiveOverstates == Spec => []NaiveFillsMore
<1>1. Delayed /\ Leading => NaiveFillsMore
  <2>. SUFFICES ASSUME Leading, latency = 0 PROVE lead >= 0
    BY DEF NaiveFillsMore
  <2>1. "Buy" \in Sides /\ "Sell" \in Sides
    BY DEF Sides, Book!Sides, Book!Promise!Sides
  <2>2. ApartOn("Buy") \in Nat /\ ApartOn("Sell") \in Nat
    BY <2>1, RemIsNat, GapIsNat DEF Leading, ApartOn, Apart, Even
  <2>. QED  BY <2>2 DEF Leading
<1>2. Init => Delayed /\ Grounded /\ Queued /\ Leading /\ Informed
  BY InitDelayed, InitGrounded, InitQueued, InitLeading
<1>3. Delayed /\ Grounded /\ Informed /\ Queued /\ Leading /\ [Next]_vars
        => (Delayed /\ Grounded /\ Informed /\ Queued /\ Leading)'
  BY NextDelayed, NextGrounded, NextQueued, NextLeading
<1>. QED  BY <1>1, <1>2, <1>3, PTL DEF Spec
=============================================================================

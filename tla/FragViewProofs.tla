--------------------------- MODULE FragViewProofs ---------------------------
(***************************************************************************)
(* Proofs about FragView, for maps, terminals and windows of any size, any *)
(* lengths of its timers, and bursts of any length.                        *)
(***************************************************************************)
EXTENDS FragView, SequenceTheorems, WellFoundedInduction, TLAPS

\* A set of numbers has a least one.
LEMMA LeastOf ==
  ASSUME NEW T, T \subseteq Nat, T # {}
  PROVE  \E x \in T : \A y \in T : x <= y
<1> DEFINE before == { p \in Nat \X Nat : p[1] < p[2] }
<1>1. IsWellFoundedOn(before, Nat)
  BY NatLessThanWellFounded, Zenon DEF OpToRel
<1> HIDE DEF before
<1>2. \E x \in T : \A y \in T : <<y, x>> \notin before
  BY <1>1, WFMin, Zenon
<1>3. \A x, y \in Nat : <<y, x>> \notin before => x <= y
  BY DEF before
<1> QED
  BY <1>2, <1>3

-----------------------------------------------------------------------------
(* Division, and products that are larger when a factor is. *)

LEMMA Quotient ==
  ASSUME NEW a \in Nat, NEW b \in Nat \ {0}
  PROVE  a \div b \in Nat /\ b * (a \div b) <= a /\ a < b * (a \div b) + b
OBVIOUS

LEMMA RoundedUp ==
  ASSUME NEW a \in Nat, NEW b \in Nat \ {0}
  PROVE  /\ Up(a, b) \in Nat /\ (a > 0 => Up(a, b) > 0)
         /\ a <= b * Up(a, b) /\ b * Up(a, b) < a + b
BY DEF Up

LEMMA ProductGrows ==
  ASSUME NEW a \in Nat, NEW b \in Nat, NEW c \in Nat, a <= b
  PROVE  a * c <= b * c /\ c * a <= c * b
OBVIOUS

LEMMA FactorLess ==
  ASSUME NEW a \in Int, NEW b \in Int, NEW c \in Nat, a * c < b * c \/ c * a < c * b
  PROVE  a < b
OBVIOUS

LEMMA QuotientAtMost ==
  ASSUME NEW a \in Nat, NEW b \in Nat \ {0}, NEW c \in Nat
  PROVE  /\ a <= b * c => a \div b <= c
         /\ a < b * c => a \div b < c
         /\ b * c <= a => c <= a \div b
<1>1. a \div b \in Nat /\ b * (a \div b) <= a /\ a < b * (a \div b) + b
  BY Quotient
<1> DEFINE q == a \div b
<1> HIDE DEF q
<1>2. q \in Nat /\ b * q <= a /\ a < b * q + b
  BY <1>1 DEF q
<1>3. ASSUME a <= b * c PROVE q <= c
  <2>1. CASE q <= c
    BY <2>1
  <2>2. CASE c + 1 <= q
    <3>1. b * (c + 1) <= b * q
      BY <2>2, <1>2, ProductGrows
    <3>2. b * (c + 1) = b * c + b
      OBVIOUS
    <3> QED
      BY <3>1, <3>2, <1>2, <1>3
  <2> QED
    BY <2>1, <2>2, <1>2
<1>4. ASSUME a < b * c PROVE q < c
  <2>1. b * q < b * c
    BY <1>2, <1>4
  <2> QED
    BY <2>1, <1>2, FactorLess
<1>5. ASSUME b * c <= a PROVE c <= q
  <2>1. b * c < b * (q + 1)
    BY <1>2, <1>5
  <2>2. c < q + 1
    BY <2>1, <1>2, FactorLess
  <2> QED
    BY <2>2, <1>2
<1> QED
  BY <1>3, <1>4, <1>5 DEF q

-----------------------------------------------------------------------------
(* Layouts *)

\* Every block has its pixels: of a row at least one each, or columns that share
\* none.
Sound(l) ==
  /\ l.tileRows \in Nat \ {0} /\ l.rowSpan \in Nat \ {0}
  /\ l.blocksPerRow \in Nat \ {0} /\ l.blockPx \in Nat /\ l.perCol \in Nat
  /\ l.blockPx > 0 => l.blocksPerRow <= PxW
  /\ l.blockPx = 0 => /\ l.perCol > 0 /\ l.blocksPerRow = l.perCol * PxW
                      /\ l.tileRows = MapRows /\ l.rowSpan = 1

LEMMA Sizes ==
  /\ NBlocks \in Nat \ {0} /\ MinSpan \in Nat \ {0} /\ MinSpan <= NBlocks
  /\ Width \in Nat \ {0} /\ MapRows \in Nat \ {0}
  /\ CellW \in Nat \ {0} /\ CellH \in Nat \ {0}
  /\ PxW \in Nat \ {0} /\ PxW = Width * CellW
BY SizeAssumption DEF PxW

LEMMA TilesOK ==
  ASSUME NEW span \in 1 .. NBlocks, NEW n \in 1 .. MapRows
  PROVE  LET l == Tiles(span, n)
         IN /\ l.tileRows = MapRows \div n /\ l.tileRows \in Nat \ {0}
            /\ l.rowSpan = n /\ l.perCol = 0
            /\ l.blocksPerRow = Up(span, MapRows \div n) /\ l.blocksPerRow \in Nat \ {0}
            /\ l.blockPx = PxW \div l.blocksPerRow /\ l.blockPx \in Nat
<1> USE Sizes
<1>1. MapRows \div n \in Nat \ {0}
  <2>1. 1 <= MapRows \div n /\ MapRows \div n \in Nat
    BY Quotient, QuotientAtMost
  <2> QED
    BY <2>1
<1>2. Up(span, MapRows \div n) \in Nat \ {0}
  BY <1>1, RoundedUp
<1>3. PxW \div Up(span, MapRows \div n) \in Nat
  BY <1>2, Quotient
<1> QED
  BY <1>1, <1>2, <1>3 DEF Tiles

\* Some height fits, so there is a least one.
LEMMA SomeFits ==
  ASSUME NEW span \in 1 .. NBlocks
  PROVE  \E n \in 1 .. MapRows :
           Fits(Tiles(span, n)) /\ \A k \in 1 .. n - 1 : ~Fits(Tiles(span, k))
<1> DEFINE T == { n \in 1 .. MapRows : Fits(Tiles(span, n)) }
<1> USE Sizes
<1>1. MapRows \in T
  <2>1. MapRows \in 1 .. MapRows
    OBVIOUS
  <2>2. MapRows \div MapRows = 1
    OBVIOUS
  <2>3. Tiles(span, MapRows).tileRows = 1
    BY <2>1, <2>2, TilesOK
  <2> QED
    BY <2>1, <2>3 DEF Fits
<1>2. T \subseteq Nat /\ T # {}
  BY <1>1
<1>3. PICK n \in T : \A k \in T : n <= k
  <2> HIDE DEF T
  <2> QED
    BY <1>2, LeastOf
<1>4. n \in 1 .. MapRows /\ Fits(Tiles(span, n))
  BY <1>3
<1>5. \A k \in 1 .. n - 1 : k \in 1 .. MapRows /\ ~(n <= k)
  BY <1>4
<1> QED
  BY <1>3, <1>4, <1>5

\* Rows of one terminal row more are at most three times as long. Of the height that
\* fits a block is as wide as a pixel, because of the height before it one was
\* wider than two.
LEMMA Threefold ==
  ASSUME NEW span \in 1 .. NBlocks, NEW n \in 2 .. MapRows
  PROVE  Tiles(span, n).blocksPerRow <= 3 * Tiles(span, n - 1).blocksPerRow
<1> USE Sizes
<1> DEFINE a == MapRows \div (n - 1)
           b == MapRows \div n
           p == Up(span, a)
           q == Up(span, b)
<1>1. n \in 1 .. MapRows /\ n - 1 \in 1 .. MapRows
  OBVIOUS
<1>2. /\ a \in Nat \ {0} /\ b \in Nat \ {0} /\ p \in Nat \ {0} /\ q \in Nat \ {0}
      /\ Tiles(span, n).blocksPerRow = q /\ Tiles(span, n - 1).blocksPerRow = p
  <2>1. /\ b \in Nat \ {0} /\ q \in Nat \ {0} /\ Tiles(span, n).blocksPerRow = q
    BY <1>1, TilesOK
  <2>2. /\ a \in Nat \ {0} /\ p \in Nat \ {0} /\ Tiles(span, n - 1).blocksPerRow = p
    BY <1>1, TilesOK
  <2> QED
    BY <2>1, <2>2
<1>3. (n - 1) * a <= MapRows /\ MapRows < n * b + n
  BY Quotient
<1>4. span <= a * p /\ b * q < span + b
  BY <1>2, RoundedUp
<1> HIDE DEF a, b, p, q
<1>5. a <= 3 * b
  <2>1. (n - 1) * a < (n - 1) * (3 * b + 1)
    <3> DEFINE m == n * b
    <3>1. m \in Nat /\ 2 * b <= m
      BY <1>2, ProductGrows
    <3>2. (n - 1) * (3 * b + 1) = 3 * m - 3 * b + n - 1
      BY <1>2
    <3>3. m + n < 3 * m - 3 * b + n
      <4> HIDE DEF m
      <4> QED
        BY <3>1, <1>2
    <3>4. (n - 1) * a < m + n
      BY <1>3, <1>2
    <3> QED
      BY <3>1, <3>2, <3>3, <3>4, <1>2
  <2> QED
    BY <2>1, <1>2, FactorLess
<1>6. span <= b * (3 * p)
  <2>1. a * p <= 3 * b * p
    BY <1>2, <1>5, ProductGrows
  <2> QED
    BY <2>1, <1>2, <1>4
<1>7. b * q < b * (3 * p + 1)
  BY <1>2, <1>4, <1>6
<1>8. q < 3 * p + 1
  BY <1>2, <1>7, FactorLess
<1> QED
  BY <1>2, <1>8

\* pixLayoutFor() returns such a layout.
LEMMA LayoutSound ==
  ASSUME NEW span \in 1 .. NBlocks
  PROVE  Sound(Layout[span])
<1> USE Sizes
<1> DEFINE perRow == Up(span, MapRows)
           perCol == Up(perRow, PxW)
           Chosen(n) == Fits(Tiles(span, n)) /\ \A k \in 1 .. n - 1 : ~Fits(Tiles(span, k))
           height == CHOOSE n \in 1 .. MapRows : Chosen(n)
           shared == [tileRows |-> MapRows, rowSpan |-> 1, blocksPerRow |-> perCol * PxW,
                      blockPx |-> 0, perCol |-> perCol]
<1>1. Layout[span] = IF perRow > PxW THEN shared ELSE Tiles(span, height)
  BY Zenon DEF Layout
<1>2. perRow \in Nat \ {0}
  BY RoundedUp
<1>3. ASSUME perRow > PxW PROVE Sound(shared)
  <2> HIDE DEF perRow
  <2>1. perCol \in Nat \ {0}
    BY <1>2, RoundedUp
  <2> HIDE DEF perCol
  <2>2. perCol * PxW \in Nat \ {0}
    BY <2>1
  <2> QED
    BY <2>1, <2>2 DEF Sound
<1>4. ASSUME perRow <= PxW PROVE Sound(Tiles(span, height))
  <2>1. height \in 1 .. MapRows /\ Chosen(height)
    <3>1. \E n \in 1 .. MapRows : Chosen(n)
      BY SomeFits
    <3> HIDE DEF Chosen
    <3> QED
      BY <3>1
  <2> HIDE DEF height
  <2> DEFINE l == Tiles(span, height)
  <2>2. /\ l.tileRows \in Nat \ {0} /\ l.rowSpan = height /\ l.perCol = 0
        /\ l.blocksPerRow = Up(span, MapRows \div height)
        /\ l.blocksPerRow \in Nat \ {0}
        /\ l.blockPx = PxW \div l.blocksPerRow /\ l.blockPx \in Nat
    BY <2>1, TilesOK
  <2>3. l.blocksPerRow <= PxW
    <3>1. CASE height = 1
      <4>1. MapRows \div 1 = MapRows
        OBVIOUS
      <4> QED
        BY <1>4, <2>2, <3>1, <4>1
    <3>2. CASE height > 1
      <4> DEFINE n == height - 1
                 k == Tiles(span, n)
      <4>1. n \in 1 .. MapRows /\ n \in 1 .. height - 1 /\ height \in 2 .. MapRows
        BY <2>1, <3>2
      <4>2. /\ k.blocksPerRow \in Nat \ {0} /\ k.blockPx = PxW \div k.blocksPerRow
            /\ k.blockPx \in Nat /\ k.rowSpan = n
        BY <4>1, TilesOK
      <4>3. ~(k.blockPx <= 2 * k.rowSpan * CellH)
        BY <2>1, <4>1 DEF Fits, MaxTileAspect
      <4>4. 1 <= n * CellH
        BY <4>1
      <4>5. 3 <= k.blockPx
        <5> DEFINE m == n * CellH
        <5>1. 2 * n * CellH = 2 * m /\ m \in Nat
          BY <4>1
        <5> HIDE DEF k, n
        <5>2. 1 <= m /\ ~(k.blockPx <= 2 * m)
          BY <4>2, <4>3, <4>4, <5>1
        <5> HIDE DEF m
        <5> QED
          BY <4>2, <5>1, <5>2
      <4>6. l.blocksPerRow <= 3 * k.blocksPerRow
        BY <4>1, Threefold
      <4>7. k.blocksPerRow * k.blockPx <= PxW
        BY <4>2, Quotient
      <4>8. k.blocksPerRow * 3 <= k.blocksPerRow * k.blockPx
        BY <4>2, <4>5, ProductGrows
      <4> HIDE DEF l, k
      <4> QED
        BY <2>2, <4>2, <4>6, <4>7, <4>8
    <3> QED
      BY <2>1, <3>1, <3>2
  <2>4. l.blockPx >= 1
    BY <2>2, <2>3, QuotientAtMost
  <2> QED
    BY <2>1, <2>2, <2>3, <2>4 DEF Sound
<1>5. perRow \in Nat /\ PxW \in Nat
  BY <1>2
<1> HIDE DEF perRow
<1> QED
  BY <1>1, <1>3, <1>4, <1>5

-----------------------------------------------------------------------------
(* The invariant. *)

\* Timers of one length run out in the order in which they were started.
Sorted(q) == \A i, j \in DOMAIN q : i <= j => q[i] <= q[j]
Timers(length) == { q \in Seq(0 .. length) : Sorted(q) }

Windows(from, to) == 0 <= from /\ to <= NBlocks /\ to - from >= MinSpan

TypeOK ==
  /\ {viewFrom, viewTo, hoverFrom, hoverTo, boxFrom, boxTo} \subseteq Nat
  /\ picture \in [from : Nat, to : Nat, boxFrom : Nat, boxTo : Nat]
  /\ catching \in Timers(CatchUp) /\ settling \in Timers(Settle)

\* The picture is of the window, or a message is to come no earlier than the
\* picture may be drawn again.
InTime ==
  \/ picture.from = viewFrom /\ picture.to = viewTo
  \/ catching # <<>> /\ age + catching[Len(catching)] >= MinRedraw

IInv ==
  /\ TypeOK /\ WindowInMap /\ Windows(picture.from, picture.to) /\ InTime

LEMMA Times ==
  /\ MinRedraw \in Nat \ {0} /\ CatchUp \in Nat \ {0} /\ Settle \in Nat \ {0}
  /\ MinRedraw < CatchUp
BY TimeAssumption

LEMMA LastTimer ==
  ASSUME NEW length \in Nat, NEW q \in Timers(length), q # <<>>
  PROVE  q[Len(q)] \in 0 .. length
<1>1. q \in Seq(0 .. length) /\ Len(q) \in DOMAIN q
  BY DEF Timers
<1> QED
  BY <1>1, ElementOfSeq

\* A timer is started, runs out, or goes on.
LEMMA Started ==
  ASSUME NEW length \in Nat, NEW q \in Timers(length)
  PROVE  LET r == Append(q, length)
         IN r \in Timers(length) /\ r # <<>> /\ r[Len(r)] = length
<1> DEFINE r == Append(q, length)
<1>1. /\ q \in Seq(0 .. length) /\ Len(q) \in Nat /\ DOMAIN q = 1 .. Len(q)
      /\ Sorted(q) /\ \A i \in DOMAIN q : q[i] \in 0 .. length
  BY DEF Timers
<1>2. /\ r \in Seq(0 .. length) /\ Len(r) = Len(q) + 1 /\ DOMAIN r = 1 .. Len(r)
      /\ r[Len(r)] = length /\ \A i \in DOMAIN q : r[i] = q[i]
  BY <1>1
<1> HIDE DEF r
<1>3. Sorted(r)
  <2> SUFFICES ASSUME NEW i \in DOMAIN r, NEW j \in DOMAIN r, i <= j PROVE r[i] <= r[j]
    BY DEF Sorted
  <2>1. CASE j = Len(r)
    BY <1>1, <1>2, <2>1
  <2>2. CASE j # Len(r)
    <3>1. i \in DOMAIN q /\ j \in DOMAIN q
      BY <1>1, <1>2, <2>2
    <3>2. q[i] <= q[j]
      BY <1>1, <3>1 DEF Sorted
    <3>3. r[i] = q[i] /\ r[j] = q[j]
      BY <1>2, <3>1
    <3> QED
      BY <3>2, <3>3
  <2> QED
    BY <2>1, <2>2
<1>4. r # <<>>
  BY <1>1, <1>2
<1> QED
  BY <1>2, <1>3, <1>4 DEF r, Timers

LEMMA RunOut ==
  ASSUME NEW length \in Nat, NEW q \in Timers(length), q # <<>>
  PROVE  LET r == Tail(q)
         IN /\ r \in Timers(length)
            /\ r # <<>> => r[Len(r)] = q[Len(q)]
            /\ r = <<>> => q[Len(q)] = Head(q)
<1> DEFINE r == Tail(q)
<1>1. /\ q \in Seq(0 .. length) /\ Len(q) \in Nat \ {0} /\ DOMAIN q = 1 .. Len(q)
      /\ Head(q) = q[1] /\ Sorted(q)
  BY DEF Timers
<1>2. /\ r \in Seq(0 .. length) /\ Len(r) = Len(q) - 1 /\ DOMAIN r = 1 .. Len(q) - 1
      /\ \A i \in 1 .. Len(q) - 1 : r[i] = q[i + 1]
  BY <1>1
<1>3. r = <<>> <=> Len(q) = 1
  BY <1>1, <1>2
<1> HIDE DEF r
<1>4. Sorted(r)
  <2> SUFFICES ASSUME NEW i \in DOMAIN r, NEW j \in DOMAIN r, i <= j PROVE r[i] <= r[j]
    BY DEF Sorted
  <2> DEFINE n == Len(q)
  <2>0. n \in Nat /\ i \in 1 .. n - 1 /\ j \in 1 .. n - 1 /\ DOMAIN q = 1 .. n
    BY <1>1, <1>2
  <2> HIDE DEF n
  <2>1. i + 1 \in DOMAIN q /\ j + 1 \in DOMAIN q /\ i + 1 <= j + 1
    BY <2>0
  <2>2. q[i + 1] <= q[j + 1]
    BY <1>1, <2>1 DEF Sorted
  <2>3. r[i] = q[i + 1] /\ r[j] = q[j + 1]
    BY <1>2
  <2> QED
    BY <2>2, <2>3
<1> QED
  BY <1>1, <1>2, <1>3, <1>4 DEF r, Timers

LEMMA GoneOn ==
  ASSUME NEW length \in Nat, NEW q \in Timers(length), q # <<>> => Head(q) > 0
  PROVE  LET r == [i \in DOMAIN q |-> q[i] - 1]
         IN /\ r \in Timers(length)
            /\ q # <<>> => r # <<>> /\ r[Len(r)] = q[Len(q)] - 1
<1> DEFINE r == [i \in DOMAIN q |-> q[i] - 1]
<1>1. /\ q \in Seq(0 .. length) /\ Len(q) \in Nat /\ DOMAIN q = 1 .. Len(q)
      /\ Sorted(q) /\ \A i \in DOMAIN q : q[i] \in 0 .. length
  BY DEF Timers
<1>2. \A i \in DOMAIN q : q[i] > 0
  <2> SUFFICES ASSUME NEW i \in DOMAIN q PROVE q[i] > 0
    OBVIOUS
  <2>1. q # <<>> /\ 1 \in DOMAIN q /\ 1 <= i /\ Head(q) = q[1]
    BY <1>1
  <2>2. q[1] <= q[i]
    BY <1>1, <2>1 DEF Sorted
  <2> QED
    BY <1>1, <2>1, <2>2
<1>3. /\ r \in Seq(0 .. length) /\ Len(r) = Len(q) /\ DOMAIN r = 1 .. Len(q)
      /\ \A i \in DOMAIN q : r[i] = q[i] - 1
  <2>1. \A i \in 1 .. Len(q) : q[i] - 1 \in 0 .. length
    BY <1>1, <1>2
  <2> QED
    BY <1>1, <2>1
<1>4. q # <<>> => r # <<>> /\ Len(q) \in DOMAIN q
  BY <1>1, <1>3
<1> HIDE DEF r
<1>5. Sorted(r)
  BY <1>1, <1>3 DEF Sorted
<1> QED
  BY <1>1, <1>3, <1>4, <1>5 DEF r, Timers

-----------------------------------------------------------------------------
(* What a frame, and what a change of the window, leaves. *)

\* Where the pointer is, in the layout of the picture.
LEMMA PointerOK ==
  ASSUME IInv, NEW p \in Cell
  PROVE  /\ picture.from \in Nat /\ Sound(Painted)
         /\ p[2] \div Painted.rowSpan \in Nat
         /\ p[1] * CellW \in Nat /\ p[1] * CellW + CellW <= PxW
<1> USE Sizes
<1> DEFINE l == Painted
           x == p[1] * CellW
<1>1. /\ p[1] \in Nat /\ p[1] + 1 <= Width /\ p[2] \in Nat
  BY DEF Cell
<1>2. picture.from \in Nat /\ Sound(l)
  <2>1. picture.from \in Nat /\ picture.to - picture.from \in 1 .. NBlocks
    BY DEF IInv, TypeOK, Windows
  <2> QED
    BY <2>1, LayoutSound DEF Painted
<1>3. p[2] \div l.rowSpan \in Nat
  BY <1>1, <1>2, Quotient DEF Sound
<1>4. x \in Nat /\ x + CellW <= PxW
  <2>1. (p[1] + 1) * CellW <= Width * CellW
    BY <1>1, ProductGrows
  <2>2. (p[1] + 1) * CellW = x + CellW /\ x \in Nat
    BY <1>1
  <2> QED
    BY <2>1, <2>2
<1> QED
  BY <1>2, <1>3, <1>4

\* resolveHover() finds blocks of the map.
LEMMA ResolveOK ==
  ASSUME IInv, NEW p \in Cell \cup {Off}
  PROVE  /\ Resolve(p)[1] \in Nat /\ Resolve(p)[2] \in Nat
         /\ Resolve(p)[1] <= Resolve(p)[2] /\ Resolve(p)[2] <= NBlocks
<1> USE Sizes
<1> DEFINE l == Painted
           x == p[1] * CellW
           t == p[2] \div l.rowSpan
           row == picture.from + t * l.blocksPerRow
           last == Least(picture.from + l.tileRows * l.blocksPerRow, NBlocks)
           from == IF l.blockPx > 0 THEN ((x + CellW \div 2) * l.blocksPerRow) \div PxW
                                    ELSE x * l.perCol
           to == IF l.blockPx > 0 THEN from + 1 ELSE Least(x + CellW, PxW) * l.perCol
<1>1. Resolve(p) = IF p = Off THEN <<0, 0>>
                   ELSE IF t >= l.tileRows THEN <<0, 0>>
                   ELSE <<Least(row + from, last), Least(row + to, last)>>
  BY Zenon DEF Resolve, ResolveFrom
<1>2. CASE p = Off
  BY <1>1, <1>2
<1>3. CASE p # Off
  <2>1. /\ picture.from \in Nat /\ Sound(l) /\ t \in Nat
        /\ x \in Nat /\ x + CellW <= PxW
    BY <1>3, PointerOK
  <2> HIDE DEF l, t, x
  <2>2. row \in Nat
    <3>1. t * l.blocksPerRow \in Nat
      BY <2>1 DEF Sound
    <3> QED
      BY <2>1, <3>1
  <2>3. last \in Nat /\ last <= NBlocks
    <3>1. l.tileRows * l.blocksPerRow \in Nat
      BY <2>1 DEF Sound
    <3> QED
      BY <2>1, <3>1 DEF Least
  <2>4. from \in Nat /\ to \in Nat /\ from <= to
    <3>1. CASE l.blockPx > 0
      <4>1. CellW \div 2 \in Nat
        BY Quotient
      <4>2. (x + CellW \div 2) * l.blocksPerRow \in Nat
        BY <2>1, <4>1 DEF Sound
      <4>3. from \in Nat
        BY <3>1, <4>2, Quotient
      <4> QED
        BY <3>1, <4>3
    <3>2. CASE ~(l.blockPx > 0)
      <4>1. x <= Least(x + CellW, PxW) /\ Least(x + CellW, PxW) \in Nat
        BY <2>1 DEF Least
      <4>2. l.perCol \in Nat
        BY <2>1 DEF Sound
      <4> DEFINE e == Least(x + CellW, PxW)
      <4> HIDE DEF e
      <4>3. x * l.perCol <= e * l.perCol /\ x * l.perCol \in Nat /\ e * l.perCol \in Nat
        BY <2>1, <4>1, <4>2, ProductGrows DEF e
      <4> QED
        BY <3>2, <4>3 DEF e
    <3> QED
      BY <3>1, <3>2
  <2> HIDE DEF row, last, from, to
  <2>5. /\ Least(row + from, last) \in Nat /\ Least(row + to, last) \in Nat
        /\ Least(row + from, last) <= Least(row + to, last)
        /\ Least(row + to, last) <= NBlocks
    BY <2>2, <2>3, <2>4 DEF Least
  <2> QED
    BY <1>1, <1>3, <2>5
<1> QED
  BY <1>2, <1>3

\* A frame that is drawn, and one that is left out for one to come.
LEMMA FrameOK ==
  ASSUME IInv, NEW counts \in BOOLEAN, Frame(counts),
         pointer' \in Cell \cup {Off},
         viewFrom' \in Nat, viewTo' \in Nat, Windows(viewFrom', viewTo'),
         boxFrom' \in Nat, boxTo' \in Nat, boxFrom' <= boxTo', boxTo' <= NBlocks,
         catching' \in Timers(CatchUp), settling' \in Timers(Settle),
         \/ picture.from = viewFrom' /\ picture.to = viewTo'
         \/ age >= MinRedraw
         \/ catching' # <<>> /\ age + catching'[Len(catching')] >= MinRedraw
  PROVE  IInv'
<1> USE Sizes, Times
<1> DEFINE key == [from |-> viewFrom', to |-> viewTo', boxFrom |-> boxFrom', boxTo |-> boxTo']
           hover == Resolve(pointer')
<1>1. /\ hover[1] \in Nat /\ hover[2] \in Nat /\ hover[1] <= hover[2] /\ hover[2] <= NBlocks
  BY ResolveOK
<1>2. hoverFrom' = hover[1] /\ hoverTo' = hover[2]
  BY DEF Frame
<1>3. \/ /\ (key # picture \/ ~counts) /\ age >= MinRedraw
         /\ picture' = key /\ fresh' = TRUE /\ age' = 0
      \/ /\ ~((key # picture \/ ~counts) /\ age >= MinRedraw)
         /\ fresh' = counts /\ picture' = picture /\ age' = age
  BY DEF Frame
<1> HIDE DEF hover
<1>4. age \in 0 .. MinRedraw
  BY DEF IInv, WindowInMap
<1>5. /\ picture' \in [from : Nat, to : Nat, boxFrom : Nat, boxTo : Nat]
      /\ Windows(picture'.from, picture'.to)
  <2>1. /\ key \in [from : Nat, to : Nat, boxFrom : Nat, boxTo : Nat]
        /\ key.from = viewFrom' /\ key.to = viewTo'
    OBVIOUS
  <2>2. /\ picture \in [from : Nat, to : Nat, boxFrom : Nat, boxTo : Nat]
        /\ Windows(picture.from, picture.to)
    BY DEF IInv, TypeOK
  <2>3. CASE picture' = key
    BY <2>1, <2>3
  <2>4. CASE picture' = picture
    BY <2>2, <2>4
  <2> QED
    BY <1>3, <2>3, <2>4
<1>6. TypeOK'
  BY <1>1, <1>2, <1>5 DEF TypeOK
<1>7. WindowInMap'
  <2>1. age' \in 0 .. MinRedraw
    BY <1>3, <1>4
  <2>2. fresh' \in BOOLEAN
    BY <1>3, Zenon
  <2>3. 0 <= viewFrom' /\ viewTo' <= NBlocks /\ viewTo' - viewFrom' >= MinSpan
    BY DEF Windows
  <2>4. 0 <= hoverFrom' /\ hoverFrom' <= hoverTo' /\ hoverTo' <= NBlocks
    BY <1>1, <1>2
  <2>5. 0 <= boxFrom'
    OBVIOUS
  <2> QED
    BY <2>1, <2>2, <2>3, <2>4, <2>5, Zenon DEF WindowInMap
<1>8. InTime'
  <2>1. CASE picture' = key
    BY <2>1 DEF InTime
  <2>2. CASE picture' # key
    <3>1. picture' = picture /\ age' = age /\ ~(age >= MinRedraw)
      BY <1>3, <2>2
    <3> QED
      BY <3>1 DEF InTime
  <2> QED
    BY <2>1, <2>2
<1> QED
  BY <1>5, <1>6, <1>7, <1>8 DEF IInv

\* clamp() keeps the window in the map, whatever was asked for.
LEMMA ClampedOK ==
  ASSUME NEW from \in Int, NEW span \in MinSpan .. NBlocks, Clamped(from, span)
  PROVE  /\ viewFrom' \in Nat /\ viewTo' \in Nat /\ Windows(viewFrom', viewTo')
         /\ boxFrom' \in Nat /\ boxTo' \in Nat /\ boxFrom' <= boxTo' /\ boxTo' <= NBlocks
BY Sizes DEF Clamped, Windows, Least, Most

LEMMA WindowSpan ==
  ASSUME IInv
  PROVE  /\ viewFrom \in Nat /\ viewTo \in Nat /\ hoverFrom \in Nat /\ hoverTo \in Nat
         /\ viewTo - viewFrom \in MinSpan .. NBlocks /\ viewTo - viewFrom \in Nat \ {0}
         /\ Windows(viewFrom, viewTo)
         /\ boxFrom \in Nat /\ boxTo \in Nat /\ boxFrom <= boxTo /\ boxTo <= NBlocks
BY Sizes DEF IInv, TypeOK, WindowInMap, Windows

LEMMA ScaledOK ==
  ASSUME NEW n \in Int, NEW span \in Nat, NEW old \in Nat \ {0}
  PROVE  Scaled(n, span, old) \in Int
<1>1. CASE n >= 0
  <2>1. n * span \in Nat
    BY <1>1
  <2> QED
    BY <1>1, <2>1, Quotient DEF Scaled
<1>2. CASE n < 0
  <2>1. -n * span \in Nat
    <3>1. -n \in Nat
      BY <1>2
    <3> QED
      BY <3>1
  <2>2. (-n * span) \div old \in Nat
    BY <2>1, Quotient
  <2> QED
    BY <1>2, <2>2 DEF Scaled
<1> QED
  BY <1>1, <1>2

LEMMA ZoomOK ==
  ASSUME IInv, NEW asked \in Int, Zoom(asked)
  PROVE  /\ viewFrom' \in Nat /\ viewTo' \in Nat /\ Windows(viewFrom', viewTo')
         /\ boxFrom' \in Nat /\ boxTo' \in Nat /\ boxFrom' <= boxTo' /\ boxTo' <= NBlocks
<1> USE Sizes
<1> DEFINE span == Least(Most(asked, MinSpan), NBlocks)
           old == viewTo - viewFrom
           from == IF hoverTo > hoverFrom
                   THEN hoverFrom - Scaled(hoverFrom - viewFrom, span, old)
                   ELSE viewFrom
<1>1. Clamped(from, span)
  BY DEF Zoom, ZoomTo
<1>2. span \in MinSpan .. NBlocks /\ span \in Nat
  BY DEF Least, Most
<1>3. from \in Int
  <2>1. hoverFrom - viewFrom \in Int
    BY WindowSpan
  <2>2. Scaled(hoverFrom - viewFrom, span, old) \in Int
    <3> HIDE DEF span, old
    <3> QED
      BY <1>2, <2>1, WindowSpan, ScaledOK DEF old
  <2> QED
    BY <2>2, WindowSpan
<1> HIDE DEF span, from
<1> QED
  BY <1>1, <1>2, <1>3, ClampedOK

LEMMA RowOK ==
  ASSUME IInv
  PROVE  Row \in Nat /\ Screen \in Nat /\ Most(Row \div 4, 1) \in Nat
<1>1. picture.to - picture.from \in 1 .. NBlocks
  BY Sizes DEF IInv, TypeOK, Windows
<1>2. Row \in Nat /\ Painted.tileRows \in Nat
  BY <1>1, LayoutSound DEF Row, Painted, Sound
<1>3. Screen \in Nat
  BY <1>2 DEF Screen
<1>4. Row \div 4 \in Nat
  BY <1>2, Quotient
<1> QED
  BY <1>2, <1>3, <1>4 DEF Most

-----------------------------------------------------------------------------
(* Each message keeps the invariant. *)

\* catchUp() asks for a frame that is late enough.
LEMMA LaterOK ==
  ASSUME IInv, CatchUpLater
  PROVE  /\ catching' \in Timers(CatchUp) /\ catching' # <<>>
         /\ age + catching'[Len(catching')] >= MinRedraw
<1>1. catching \in Timers(CatchUp) /\ age \in 0 .. MinRedraw
  BY DEF IInv, TypeOK, WindowInMap
<1>2. /\ catching' \in Timers(CatchUp) /\ catching' # <<>>
      /\ catching'[Len(catching')] = CatchUp
  BY <1>1, Times, Started DEF CatchUpLater, StartTimer
<1> QED
  BY <1>1, <1>2, Times

LEMMA Others ==
  ASSUME IInv
  PROVE  /\ fresh \in BOOLEAN /\ pointer \in Cell \cup {Off} /\ age \in 0 .. MinRedraw
         /\ catching \in Timers(CatchUp) /\ settling \in Timers(Settle)
BY DEF IInv, TypeOK, WindowInMap

LEMMA InitOK == Init => IInv
<1> SUFFICES ASSUME Init PROVE IInv
  OBVIOUS
<1> USE Sizes, Times
<1>1. \A length \in Nat : <<>> \in Timers(length)
  BY DEF Timers, Sorted
<1>2. TypeOK
  BY <1>1 DEF Init, TypeOK
<1>3. WindowInMap
  <2>1. fresh \in BOOLEAN /\ pointer \in Cell \cup {Off}
    BY DEF Init
  <2>2. viewTo - viewFrom >= MinSpan /\ age \in 0 .. MinRedraw
    BY DEF Init
  <2>3. /\ 0 <= viewFrom /\ viewTo <= NBlocks
        /\ 0 <= hoverFrom /\ hoverFrom <= hoverTo /\ hoverTo <= NBlocks
        /\ 0 <= boxFrom /\ boxFrom <= boxTo /\ boxTo <= NBlocks
    BY DEF Init
  <2> QED
    BY <2>1, <2>2, <2>3, Zenon DEF WindowInMap
<1>4. Windows(picture.from, picture.to) /\ InTime
  BY DEF Init, Windows, InTime
<1> QED
  BY <1>2, <1>3, <1>4 DEF IInv

LEMMA MotionOK == ASSUME IInv, NEW p \in Cell \cup {Off}, Motion(p) PROVE IInv'
<1>1. /\ Frame(fresh) /\ CatchUpLater /\ pointer' = p
      /\ settling' = Append(settling, Settle)
      /\ viewFrom' = viewFrom /\ viewTo' = viewTo /\ boxFrom' = boxFrom /\ boxTo' = boxTo
  BY DEF Motion, StartTimer, windowVars, boxVars
<1>2. settling' \in Timers(Settle)
  BY <1>1, Others, Times, Started
<1> QED
  BY <1>1, <1>2, Others, WindowSpan, LaterOK, FrameOK

LEMMA WheelOK == ASSUME IInv, Wheel PROVE IInv'
<1>1. /\ Frame(fresh) /\ CatchUpLater /\ pointer' = pointer
      /\ settling' = Append(settling, Settle)
  BY DEF Wheel, StartTimer
<1>2. settling' \in Timers(Settle)
  BY <1>1, Others, Times, Started
<1>3. /\ viewFrom' \in Nat /\ viewTo' \in Nat /\ Windows(viewFrom', viewTo')
      /\ boxFrom' \in Nat /\ boxTo' \in Nat /\ boxFrom' <= boxTo' /\ boxTo' <= NBlocks
  <2>1. ASSUME NEW by \in {Row, -Row}, Pan(by) PROVE <1>3!:
    <3>1. viewFrom + by \in Int
      BY RowOK, WindowSpan
    <3> QED
      BY <2>1, <3>1, WindowSpan, ClampedOK DEF Pan
  <2>2. ASSUME Zoom((viewTo - viewFrom) * 2) PROVE <1>3!:
    <3>1. (viewTo - viewFrom) * 2 \in Int
      BY WindowSpan
    <3> QED
      BY <2>2, <3>1, ZoomOK
  <2>3. ASSUME Zoom((viewTo - viewFrom) \div 2) PROVE <1>3!:
    <3>1. (viewTo - viewFrom) \div 2 \in Int
      BY WindowSpan, Quotient
    <3> QED
      BY <2>3, <3>1, ZoomOK
  <2> QED
    BY <2>1, <2>2, <2>3 DEF Wheel
<1> QED
  BY <1>1, <1>2, <1>3, Others, LaterOK, FrameOK

LEMMA KeyOK == ASSUME IInv, Key PROVE IInv'
<1>1. Frame(fresh) /\ CatchUpLater /\ pointer' = pointer /\ settling' = settling
  BY DEF Key
<1>2. /\ viewFrom' \in Nat /\ viewTo' \in Nat /\ Windows(viewFrom', viewTo')
      /\ boxFrom' \in Nat /\ boxTo' \in Nat /\ boxFrom' <= boxTo' /\ boxTo' <= NBlocks
  <2>1. ASSUME NEW by \in {Row, Screen, Most(Row \div 4, 1)}, Pan(by) \/ Pan(-by)
        PROVE  <1>2!:
    <3>1. viewFrom + by \in Int /\ viewFrom + -by \in Int
      BY RowOK, WindowSpan
    <3>2. CASE Pan(by)
      BY <3>1, <3>2, WindowSpan, ClampedOK DEF Pan
    <3>3. CASE Pan(-by)
      BY <3>1, <3>3, WindowSpan, ClampedOK DEF Pan
    <3> QED
      BY <2>1, <3>2, <3>3
  <2>2. ASSUME Zoom((viewTo - viewFrom) * 2) PROVE <1>2!:
    <3>1. (viewTo - viewFrom) * 2 \in Int
      BY WindowSpan
    <3> QED
      BY <2>2, <3>1, ZoomOK
  <2>3. ASSUME Zoom((viewTo - viewFrom) \div 2) PROVE <1>2!:
    <3>1. (viewTo - viewFrom) \div 2 \in Int
      BY WindowSpan, Quotient
    <3> QED
      BY <2>3, <3>1, ZoomOK
  <2>4. ASSUME Clamped(0, NBlocks) PROVE <1>2!:
    <3>1. NBlocks \in MinSpan .. NBlocks /\ 0 \in Int
      BY Sizes
    <3> QED
      BY <2>4, <3>1, ClampedOK
  <2>5. ASSUME Clamped(NBlocks - (viewTo - viewFrom), viewTo - viewFrom) PROVE <1>2!:
    <3>1. NBlocks - (viewTo - viewFrom) \in Int
      BY Sizes, WindowSpan
    <3> QED
      BY <2>5, <3>1, WindowSpan, ClampedOK
  <2> QED
    BY <2>1, <2>2, <2>3, <2>4, <2>5 DEF Key
<1> QED
  BY <1>1, <1>2, Others, LaterOK, FrameOK

LEMMA HoverSettledOK == ASSUME IInv, HoverSettled PROVE IInv'
<1>1. /\ Frame(fresh) /\ pointer' = pointer /\ catching' = catching
      /\ settling # <<>> /\ settling' = Tail(settling)
      /\ viewFrom' = viewFrom /\ viewTo' = viewTo
      /\ \/ boxFrom' = hoverFrom /\ boxTo' = hoverTo
         \/ boxFrom' = boxFrom /\ boxTo' = boxTo
  BY DEF HoverSettled, windowVars, boxVars
<1>2. settling' \in Timers(Settle)
  BY <1>1, Others, Times, RunOut
<1>3. boxFrom' \in Nat /\ boxTo' \in Nat /\ boxFrom' <= boxTo' /\ boxTo' <= NBlocks
  BY <1>1 DEF IInv, TypeOK, WindowInMap
<1>4. InTime
  BY DEF IInv
<1> QED
  BY <1>1, <1>2, <1>3, <1>4, Others, WindowSpan, FrameOK DEF InTime

\* The last frame that was asked for is drawn.
LEMMA CaughtUpOK == ASSUME IInv, CaughtUp PROVE IInv'
<1>1. /\ Frame(fresh) /\ pointer' = pointer /\ settling' = settling
      /\ catching # <<>> /\ Head(catching) = 0 /\ catching' = Tail(catching)
      /\ viewFrom' = viewFrom /\ viewTo' = viewTo /\ boxFrom' = boxFrom /\ boxTo' = boxTo
  BY DEF CaughtUp, windowVars, boxVars
<1>2. /\ catching' \in Timers(CatchUp)
      /\ catching' # <<>> => catching'[Len(catching')] = catching[Len(catching)]
      /\ catching' = <<>> => catching[Len(catching)] = 0
  BY <1>1, Others, Times, RunOut
<1>3. \/ picture.from = viewFrom' /\ picture.to = viewTo'
      \/ age >= MinRedraw
      \/ catching' # <<>> /\ age + catching'[Len(catching')] >= MinRedraw
  <2>1. InTime /\ age \in 0 .. MinRedraw /\ MinRedraw \in Nat
    BY Others, Times DEF IInv
  <2> QED
    BY <1>1, <1>2, <2>1 DEF InTime
<1> QED
  BY <1>1, <1>2, <1>3, Others, WindowSpan, FrameOK

LEMMA ScanDoneOK == ASSUME IInv, ScanDone PROVE IInv'
<1>1. /\ Frame(FALSE) /\ pointer' = pointer /\ settling' = settling /\ catching' = catching
      /\ viewFrom' = viewFrom /\ viewTo' = viewTo /\ boxFrom' = boxFrom /\ boxTo' = boxTo
  BY DEF ScanDone, windowVars, boxVars, timerVars
<1>2. InTime
  BY DEF IInv
<1> QED
  BY <1>1, <1>2, Others, WindowSpan, FrameOK DEF InTime

LEMMA PassOK == ASSUME IInv, Pass PROVE IInv'
<1>1. /\ catching # <<>> => Head(catching) > 0
      /\ settling # <<>> => Head(settling) > 0
      /\ catching' = [i \in DOMAIN catching |-> catching[i] - 1]
      /\ settling' = [i \in DOMAIN settling |-> settling[i] - 1]
      /\ age' = Least(age + 1, MinRedraw)
      /\ viewFrom' = viewFrom /\ viewTo' = viewTo /\ boxFrom' = boxFrom /\ boxTo' = boxTo
      /\ hoverFrom' = hoverFrom /\ hoverTo' = hoverTo
      /\ picture' = picture /\ fresh' = fresh /\ pointer' = pointer
  BY DEF Pass, windowVars, hoverVars, boxVars
<1>2. /\ catching' \in Timers(CatchUp)
      /\ catching # <<>> => /\ catching' # <<>>
                            /\ catching'[Len(catching')] = catching[Len(catching)] - 1
  BY <1>1, Others, Times, GoneOn
<1>3. settling' \in Timers(Settle)
  BY <1>1, Others, Times, GoneOn
<1>4. TypeOK'
  BY <1>1, <1>2, <1>3 DEF IInv, TypeOK
<1>5. age' \in 0 .. MinRedraw /\ (age' = age + 1 \/ age' = MinRedraw)
  BY <1>1, Others, Times DEF Least
<1>6. WindowInMap'
  <2>1. WindowInMap
    BY DEF IInv
  <2> QED
    BY <1>1, <1>5, <2>1, Zenon DEF WindowInMap
<1>7. InTime'
  <2>1. InTime
    BY DEF IInv
  <2>2. CASE picture.from = viewFrom /\ picture.to = viewTo
    BY <1>1, <2>2 DEF InTime
  <2>3. CASE catching # <<>> /\ age + catching[Len(catching)] >= MinRedraw
    <3> DEFINE left == catching[Len(catching)]
               later == catching'[Len(catching')]
    <3>1. catching' # <<>> /\ later = left - 1
      BY <1>2, <2>3
    <3>2. later \in Nat
      BY <1>2, <3>1, Times, LastTimer
    <3>3. left \in Int
      BY <2>3, Others, Times, LastTimer
    <3>4. age + left >= MinRedraw
      BY <2>3
    <3> HIDE DEF left, later
    <3>5. age' + later >= MinRedraw
      <4>1. age \in Int /\ MinRedraw \in Int
        BY Others, Times
      <4>2. later = left - 1
        BY <3>1
      <4>3. CASE age' = age + 1
        BY <3>3, <3>4, <4>1, <4>2, <4>3
      <4>4. CASE age' = MinRedraw
        BY <3>2, <4>1, <4>4
      <4> QED
        BY <1>5, <4>3, <4>4
    <3> QED
      BY <3>1, <3>5 DEF InTime, later
  <2> QED
    BY <2>1, <2>2, <2>3 DEF InTime
<1>8. Windows(picture.from, picture.to)'
  BY <1>1 DEF IInv
<1> QED
  BY <1>4, <1>6, <1>7, <1>8 DEF IInv

\* No step breaks the invariant.
LEMMA NextOK == ASSUME IInv, [Next]_vars PROVE IInv'
<1>1. CASE Next
  BY <1>1, MotionOK, WheelOK, KeyOK, HoverSettledOK, CaughtUpOK, ScanDoneOK, PassOK DEF Next
<1>2. CASE UNCHANGED vars
  <2> USE <1>2 DEF vars, windowVars, pictureVars, hoverVars, boxVars, timerVars
  <2>1. TypeOK'
    BY DEF IInv, TypeOK
  <2>2. WindowInMap'
    BY DEF IInv, WindowInMap
  <2>3. InTime' /\ Windows(picture.from, picture.to)'
    BY DEF IInv, InTime
  <2> QED
    BY <2>1, <2>2, <2>3 DEF IInv
<1> QED
  BY <1>1, <1>2

LEMMA InvariantKept == Spec => []IInv
<1>1. Init => IInv
  BY InitOK
<1>2. IInv /\ [Next]_vars => IInv'
  BY NextOK
<1> QED
  BY <1>1, <1>2, PTL DEF Spec

\* Whatever is scrolled, zoomed and pointed at, in whichever order and at whatever
\* times: the window stays in the map, and when no frame is to come any more the
\* picture is of the window. (applyZoom(), pan(), clamp(), catchUp() and
\* pixelBlockMap())
THEOREM ScreenRight == Spec => []ViewRight
<1>1. IInv => ViewRight
  BY DEF IInv, InTime, ViewRight, PictureFollows
<1> QED
  BY <1>1, InvariantKept, PTL

-----------------------------------------------------------------------------
(* What is under the pointer. *)

\* The block in the middle of a cell has a pixel in the cell. With cells of one
\* pixel it need not, as the two divisions round differently.
LEMMA MiddleDrawn ==
  ASSUME CellW > 1, NEW x \in Nat, x + CellW <= PxW,
         NEW n \in Nat \ {0}, n <= PxW
  PROVE  LET j == ((x + CellW \div 2) * n) \div PxW
         IN /\ j \in 0 .. n - 1
            /\ \E i \in x .. x + CellW - 1 : /\ (j * PxW) \div n <= i
                                             /\ i < ((j + 1) * PxW) \div n
<1> USE Sizes
<1> DEFINE y == x + CellW \div 2
           j == (y * n) \div PxW
           left == (j * PxW) \div n
           right == ((j + 1) * PxW) \div n
<1>1. y \in Nat /\ x + 1 <= y /\ y <= x + CellW - 1
  OBVIOUS
<1>2. y < PxW
  BY <1>1
<1> HIDE DEF y
<1>3. y * n \in Nat /\ y * n < PxW * n
  <2>1. y + 1 <= PxW /\ y + 1 \in Nat
    BY <1>1, <1>2
  <2>2. (y + 1) * n <= PxW * n
    BY <2>1, ProductGrows
  <2>3. (y + 1) * n = y * n + n /\ y * n \in Nat
    BY <1>1
  <2> QED
    BY <2>2, <2>3
<1>4. j \in Nat /\ PxW * j <= y * n /\ y * n < PxW * j + PxW
  BY <1>3, Quotient
<1>5. j < n
  BY <1>3, QuotientAtMost
<1> HIDE DEF j
<1>6. j * PxW \in Nat /\ (j + 1) * PxW = j * PxW + PxW /\ j * PxW = PxW * j /\ n * y = y * n
  BY <1>1, <1>4
<1>7. left \in Nat /\ right \in Nat /\ n * left <= j * PxW
  BY <1>6, Quotient
<1>8. left <= y
  BY <1>1, <1>4, <1>6, QuotientAtMost
<1>9. y <= right
  BY <1>1, <1>4, <1>6, QuotientAtMost
<1>10. left + 1 <= right
  <2> HIDE DEF left
  <2>1. n * (left + 1) = n * left + n /\ n * left \in Nat
    BY <1>7
  <2>2. n * (left + 1) <= (j + 1) * PxW
    BY <1>6, <1>7, <2>1
  <2>3. left + 1 \in Nat /\ (j + 1) * PxW \in Nat
    BY <1>6, <1>7
  <2> QED
    BY <2>2, <2>3, QuotientAtMost
<1> HIDE DEF left, right
<1>11. \E i \in x .. x + CellW - 1 : left <= i /\ i < right
  <2>1. CASE y < right
    BY <1>1, <1>8, <2>1
  <2>2. CASE y = right
    <3>1. y - 1 \in x .. x + CellW - 1 /\ left <= y - 1 /\ y - 1 < right
      BY <1>1, <1>7, <1>10, <2>2
    <3> QED
      BY <3>1
  <2> QED
    BY <1>1, <1>7, <1>9, <2>1, <2>2
<1>12. j \in 0 .. n - 1
  BY <1>4, <1>5
<1> QED
  BY <1>11, <1>12, Zenon DEF left, right, j, y

\* resolveHover() finds what paintBlocks() or paintAggregated() drew there, as far as
\* the window of the picture goes.
LEMMA ResolvedDrawn ==
  ASSUME IInv, CellW > 1, NEW p \in Cell \cup {Off},
         NEW b \in Resolve(p)[1] .. Resolve(p)[2] - 1, b < picture.to
  PROVE  p # Off /\ b \in DrawnIn(p)
<1> USE Sizes
<1> DEFINE l == Painted
           x == p[1] * CellW
           t == p[2] \div l.rowSpan
           row == picture.from + t * l.blocksPerRow
           last == Least(picture.from + l.tileRows * l.blocksPerRow, NBlocks)
           from == IF l.blockPx > 0 THEN ((x + CellW \div 2) * l.blocksPerRow) \div PxW
                                    ELSE x * l.perCol
           to == IF l.blockPx > 0 THEN from + 1 ELSE Least(x + CellW, PxW) * l.perCol
           here(j) == IF l.blockPx > 0
                      THEN \E i \in x .. x + CellW - 1 :
                             /\ (j * PxW) \div l.blocksPerRow <= i
                             /\ i < ((j + 1) * PxW) \div l.blocksPerRow
                      ELSE j \div l.perCol \in x .. x + CellW - 1
<1>1. Resolve(p) = IF p = Off THEN <<0, 0>>
                   ELSE IF t >= l.tileRows THEN <<0, 0>>
                   ELSE <<Least(row + from, last), Least(row + to, last)>>
  BY Zenon DEF Resolve, ResolveFrom
<1>2. /\ p # Off
      /\ Resolve(p) = <<Least(row + from, last), Least(row + to, last)>>
  <2>1. Resolve(p) # <<0, 0>>
    OBVIOUS
  <2> QED
    BY <1>1, <2>1
<1>3. /\ picture.from \in Nat /\ Sound(l) /\ t \in Nat
      /\ x \in Nat /\ x + CellW <= PxW
  BY <1>2, PointerOK
<1>4. DrawnIn(p) = { row + j : j \in { j \in 0 .. l.blocksPerRow - 1 :
                                         row + j < picture.to /\ here(j) } }
  BY Zenon DEF DrawnIn
<1> HIDE DEF l, t, x
<1>5. row \in Nat
  <2>1. t * l.blocksPerRow \in Nat
    BY <1>3 DEF Sound
  <2> QED
    BY <1>3, <2>1
<1>6. last \in Nat
  <2>1. l.tileRows * l.blocksPerRow \in Nat
    BY <1>3 DEF Sound
  <2> QED
    BY <1>3, <2>1 DEF Least
<1> HIDE DEF row, last
<1>7. ASSUME NEW j \in Nat, j \in 0 .. l.blocksPerRow - 1, here(j), b = row + j
      PROVE  b \in DrawnIn(p)
  <2> HIDE DEF here
  <2> QED
    BY <1>4, <1>7
<1>8. ASSUME from \in Nat, to \in Nat
      PROVE  b - row \in from .. to - 1
  <2> HIDE DEF from, to
  <2> QED
    BY <1>2, <1>5, <1>6, <1>8 DEF Least
<1>9. CASE l.blockPx > 0
  <2>1. from \in 0 .. l.blocksPerRow - 1 /\ here(from)
    <3> DEFINE n == l.blocksPerRow
               middle == ((x + CellW \div 2) * n) \div PxW
               there(j) == \E i \in x .. x + CellW - 1 : /\ (j * PxW) \div n <= i
                                                        /\ i < ((j + 1) * PxW) \div n
    <3>1. n \in Nat \ {0} /\ n <= PxW
      BY <1>3, <1>9 DEF Sound
    <3>2. middle \in 0 .. n - 1 /\ there(middle)
      <4> HIDE DEF n
      <4> QED
        BY <1>3, <3>1, MiddleDrawn
    <3>3. from = middle /\ \A j : here(j) <=> there(j)
      BY <1>9, Zenon
    <3> HIDE DEF middle, there, here, from
    <3> QED
      BY <3>2, <3>3, Zenon
  <2>2. from \in Nat /\ to = from + 1
    <3>1. to = from + 1
      BY <1>9, Zenon
    <3>2. l.blocksPerRow \in Nat
      BY <1>3 DEF Sound
    <3> HIDE DEF from, to, here
    <3> QED
      BY <2>1, <3>1, <3>2
  <2> HIDE DEF from, to, here
  <2>3. b = row + from
    BY <1>5, <1>8, <2>2
  <2> QED
    BY <1>2, <1>7, <2>1, <2>2, <2>3
<1>10. CASE ~(l.blockPx > 0)
  <2>1. l.perCol \in Nat \ {0} /\ l.blocksPerRow = l.perCol * PxW
    BY <1>3, <1>10 DEF Sound
  <2> DEFINE e == x + CellW
  <2>2. e \in Nat /\ e <= PxW
    BY <1>3
  <2>3. from = x * l.perCol /\ to = e * l.perCol
    BY <1>3, <1>10 DEF Least
  <2> HIDE DEF e, from, to
  <2>4. x * l.perCol \in Nat /\ e * l.perCol \in Nat
    BY <1>3, <2>1, <2>2
  <2> DEFINE j == b - row
  <2>5. j \in from .. to - 1
    BY <1>8, <2>3, <2>4
  <2> HIDE DEF j
  <2>6. j \in Nat /\ l.perCol * x <= j /\ j < l.perCol * e
    BY <1>3, <2>1, <2>2, <2>3, <2>4, <2>5
  <2>7. j \div l.perCol \in Nat /\ x <= j \div l.perCol /\ j \div l.perCol < e
    BY <1>3, <2>1, <2>2, <2>6, Quotient, QuotientAtMost
  <2>8. here(j)
    BY <1>3, <1>10, <2>7 DEF e
  <2>9. j \in 0 .. l.blocksPerRow - 1
    <3>1. l.perCol * e <= l.perCol * PxW /\ l.perCol * PxW \in Nat /\ l.perCol * e \in Nat
      BY <2>1, <2>2, ProductGrows
    <3> QED
      BY <2>1, <2>6, <3>1
  <2>10. b = row + j
    BY <1>5 DEF j
  <2> HIDE DEF here
  <2> QED
    BY <1>2, <1>7, <2>6, <2>8, <2>9, <2>10
<1> QED
  BY <1>9, <1>10

\* Where a column of pixels stands for several blocks, resolveHover() finds all that
\* paintAggregated() drew under the cell.
LEMMA DrawnResolved ==
  ASSUME IInv, NEW p \in Cell, p # Off, Painted.blockPx = 0, NEW b \in DrawnIn(p)
  PROVE  b \in Resolve(p)[1] .. Resolve(p)[2] - 1
<1> USE Sizes
<1> DEFINE l == Painted
           x == p[1] * CellW
           t == p[2] \div l.rowSpan
           row == picture.from + t * l.blocksPerRow
           last == Least(picture.from + l.tileRows * l.blocksPerRow, NBlocks)
           here(j) == j \div l.perCol \in x .. x + CellW - 1
           e == x + CellW
<1>1. /\ picture.from \in Nat /\ Sound(l) /\ t \in Nat
      /\ x \in Nat /\ e \in Nat /\ e <= PxW
  BY PointerOK
<1>2. /\ l.perCol \in Nat \ {0} /\ l.blocksPerRow = l.perCol * PxW /\ l.blocksPerRow \in Nat
      /\ l.tileRows = MapRows /\ l.rowSpan = 1
  BY <1>1 DEF Sound
<1>3. t = p[2] /\ t + 1 <= l.tileRows
  <2>1. p[2] \in 0 .. MapRows - 1
    BY DEF Cell
  <2>2. p[2] \div 1 = p[2]
    BY <2>1
  <2> QED
    BY <1>2, <2>1, <2>2
<1>4. Resolve(p) = <<Least(row + x * l.perCol, last), Least(row + Least(e, PxW) * l.perCol, last)>>
  <2>1. ~(l.blockPx > 0) /\ ~(t >= l.tileRows)
    BY <1>1, <1>2, <1>3
  <2> QED
    BY <2>1, Zenon DEF Resolve, ResolveFrom
<1>5. Least(e, PxW) = e
  BY <1>1 DEF Least
<1>6. PICK j \in 0 .. l.blocksPerRow - 1 : b = row + j /\ row + j < picture.to /\ here(j)
  <2>1. DrawnIn(p) = { row + j : j \in { j \in 0 .. l.blocksPerRow - 1 :
                                           row + j < picture.to /\ here(j) } }
    <3>1. ~(l.blockPx > 0)
      BY <1>1
    <3> QED
      BY <3>1, Zenon DEF DrawnIn
  <2> HIDE DEF here, row, l
  <2> QED
    BY <2>1
<1>7. picture.to \in Nat /\ picture.to <= NBlocks
  BY DEF IInv, TypeOK, Windows
<1> HIDE DEF l, t, x, e
<1>8. /\ t * l.blocksPerRow \in Nat /\ (t + 1) * l.blocksPerRow = t * l.blocksPerRow + l.blocksPerRow
      /\ (t + 1) * l.blocksPerRow <= l.tileRows * l.blocksPerRow
      /\ l.tileRows * l.blocksPerRow \in Nat
  BY <1>1, <1>2, <1>3, ProductGrows
<1>9. row \in Nat /\ last \in Nat /\ row + j < last
  BY <1>1, <1>2, <1>6, <1>7, <1>8 DEF Least
<1> HIDE DEF row, last
<1>10. x * l.perCol \in Nat /\ e * l.perCol \in Nat /\ x * l.perCol <= j /\ j < e * l.perCol
  <2>1. j \in Nat /\ j \div l.perCol \in Nat /\ x <= j \div l.perCol /\ j \div l.perCol + 1 <= e
    BY <1>1, <1>2, <1>6, Quotient DEF e
  <2> DEFINE q == j \div l.perCol
  <2>2. l.perCol * q <= j /\ j < l.perCol * q + l.perCol
    BY <1>2, <2>1, Quotient
  <2> HIDE DEF q
  <2>3. q \in Nat /\ x <= q /\ q + 1 <= e
    BY <2>1 DEF q
  <2>4. x * l.perCol <= q * l.perCol /\ (q + 1) * l.perCol <= e * l.perCol
    BY <1>1, <1>2, <2>3, ProductGrows
  <2>5. /\ x * l.perCol \in Nat /\ e * l.perCol \in Nat /\ q * l.perCol \in Nat
        /\ q * l.perCol = l.perCol * q /\ (q + 1) * l.perCol = q * l.perCol + l.perCol
    BY <1>1, <1>2, <2>3
  <2> QED
    BY <1>2, <2>1, <2>2, <2>4, <2>5
<1>11. /\ Least(row + x * l.perCol, last) \in Nat /\ Least(row + e * l.perCol, last) \in Nat
       /\ Least(row + x * l.perCol, last) <= row + j
       /\ row + j < Least(row + e * l.perCol, last)
  BY <1>6, <1>9, <1>10 DEF Least
<1> QED
  BY <1>4, <1>5, <1>6, <1>9, <1>11

\* On a terminal with cells of more than one pixel, whatever was scrolled and zoomed
\* since the last picture: the blocks named under the pointer, as far as they are in
\* the window of the picture they were looked up in, are drawn there where the pointer
\* is, and where blocks share columns none that is drawn there is missing.
\* (resolveHover(), paintBlocks() and paintAggregated())
THEOREM PointerTellsTruth ==
  ASSUME CellW > 1
  PROVE  Spec => PointsAtDrawn
<1> DEFINE Right == \/ Pass
                    \/ pointer' = Off /\ Named' = {}
                    \/ /\ pointer' # Off
                       /\ Named' \cap Window \subseteq DrawnIn(pointer')
                       /\ Painted.blockPx = 0 => DrawnIn(pointer') \subseteq Named'
<1>1. ASSUME IInv, [Next]_vars, ~Pass, vars' # vars
      PROVE  Right
  <2>1. /\ pointer' \in Cell \cup {Off}
        /\ hoverFrom' = Resolve(pointer')[1] /\ hoverTo' = Resolve(pointer')[2]
    <3>1. pointer \in Cell \cup {Off}
      BY <1>1, Others
    <3>2. ASSUME NEW p \in Cell \cup {Off}, Motion(p) PROVE <2>1!:
      BY <3>2 DEF Motion, Frame
    <3>3. ASSUME Wheel \/ Key \/ HoverSettled \/ CaughtUp PROVE <2>1!:
      BY <3>1, <3>3 DEF Wheel, Key, HoverSettled, CaughtUp, Frame
    <3>4. ASSUME ScanDone PROVE <2>1!:
      BY <3>1, <3>4 DEF ScanDone, Frame
    <3> QED
      BY <1>1, <3>2, <3>3, <3>4 DEF Next
  <2>2. CASE pointer' = Off
    <3>1. Resolve(pointer') = <<0, 0>>
      BY <2>2 DEF Resolve, ResolveFrom
    <3>2. Named' = {}
      BY <2>1, <3>1 DEF Named
    <3> QED
      BY <2>2, <3>2
  <2>3. CASE pointer' # Off
    <3>1. pointer' \in Cell
      BY <2>1, <2>3
    <3>2. ASSUME NEW b \in Named' \cap Window PROVE b \in DrawnIn(pointer')
      <4>1. b \in Resolve(pointer')[1] .. Resolve(pointer')[2] - 1
        BY <2>1 DEF Named
      <4>2. b < picture.to
        <5>1. picture.from \in Nat /\ picture.to \in Nat
          BY <1>1 DEF IInv, TypeOK, Windows
        <5> QED
          BY <5>1 DEF Window
      <4> QED
        BY <1>1, <2>1, <4>1, <4>2, ResolvedDrawn
    <3>3. ASSUME Painted.blockPx = 0, NEW b \in DrawnIn(pointer') PROVE b \in Named'
      <4>1. b \in Resolve(pointer')[1] .. Resolve(pointer')[2] - 1
        BY <1>1, <2>3, <3>1, <3>3, DrawnResolved
      <4> QED
        BY <2>1, <4>1 DEF Named
    <3> QED
      BY <2>3, <3>2, <3>3
  <2> QED
    BY <2>2, <2>3
<1>2. IInv /\ [Next]_vars => [Right]_vars
  <2> HIDE DEF Right
  <2>1. Pass => Right
    BY DEF Right
  <2> QED
    BY <1>1, <2>1
<1> QED
  BY <1>2, InvariantKept, PTL DEF Spec, PointsAtDrawn
=============================================================================

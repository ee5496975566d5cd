--------------------------- MODULE SlabWhoProofs ---------------------------
(***************************************************************************)
(* Proofs about SlabWho, for any number of readers of the two files and    *)
(* tables of any length: what a reader has of a table that is printed in   *)
(* pieces and made anew whenever somebody asks for it.                     *)
(***************************************************************************)
EXTENDS MCMonitors, SequenceTheorems, TLAPS

Places == {"closed", "between", "show", "full", "last", "end", "read"}

\* Who is inside a piece has walk_lock.
Inside == {"show", "full", "last", "end"}

\* A list, of whatever it has in it.
IsTable(t) == t \in Seq({ t[i] : i \in DOMAIN t })

\* The first rows of a table.
First(t, n) == [i \in 1 .. n |-> t[i]]

\* What a reader has is the table to where it came, unless that was made anew.
HasRows(e, t) ==
  /\ e.pos = 0 => e.lines = <<>>
  /\ e.pos > 0 /\ ~e.redone => e.pos <= Len(t) + 1 /\ e.lines = First(t, e.pos - 1)

\* A piece shows rows there are, and the file ends behind the last one.
AtRow(e, t) ==
  /\ e.pc \in {"show", "full"} => e.pos <= Len(t)
  /\ e.pc = "last" => e.pos > 0
  /\ e.pc \in {"end", "read"} => e.pos > 0 /\ (e.redone \/ e.pos > Len(t))

IsReader(e) ==
  e \in [pc : Places, pos : Nat, lines : {e.lines}, redone : BOOLEAN]

ReaderOK(r) == /\ IsReader(reader[r])
               /\ HasRows(reader[r], Who!Rows(r)) /\ AtRow(reader[r], Who!Rows(r))
               /\ reader[r].pc \in Inside => lock = r

\* What no step disturbs unless it is about that reader, the lock or the tables.
ReadersInv == /\ IsTable(caches) /\ IsTable(sites)
              /\ reader = [r \in Reader |-> reader[r]]
              /\ \A r \in Reader : ReaderOK(r)

USE DEF Inside

-----------------------------------------------------------------------------
(* Tables and what was read of them. *)

LEMMA OrderIsTable ==
  ASSUME NEW S, NEW room \in Nat, NEW t \in Who!Orders(S, room)
  PROVE  IsTable(t)
<1>1. PICK n \in 0 .. room : t \in [1 .. n -> S]
  BY DEF Who!Orders, Who!BoundedSeq, Who!SeqOf
<1>2. n \in Nat
  BY <1>1
<1>3. t \in [1 .. n -> { t[i] : i \in DOMAIN t }]
  BY <1>1
<1> QED
  BY <1>2, <1>3 DEF IsTable

LEMMA NoRowsYet == ASSUME NEW t PROVE First(t, 0) = <<>>
BY DEF First

LEMMA AllRows == ASSUME NEW t, IsTable(t) PROVE First(t, Len(t)) = t
BY DEF First, IsTable

\* One more row is read.
LEMMA RowRead ==
  ASSUME NEW t, IsTable(t), NEW n \in 1 .. Len(t)
  PROVE  First(t, n - 1) \o <<t[n]>> = First(t, n)
<1> DEFINE S == { t[i] : i \in DOMAIN t }
<1>1. t \in Seq(S) /\ t \in [1 .. Len(t) -> S] /\ Len(t) \in Nat
  BY DEF IsTable
<1>2. First(t, n - 1) \in Seq(S) /\ Len(First(t, n - 1)) = n - 1
  <2>1. \A i \in 1 .. n - 1 : t[i] \in S
    <3> HIDE DEF S
    <3> QED
      BY <1>1
  <2> HIDE DEF S
  <2>2. First(t, n - 1) \in [1 .. n - 1 -> S]
    BY <2>1 DEF First
  <2>3. n - 1 \in Nat
    BY <1>1
  <2> QED
    BY <2>2, <2>3
<1>3. t[n] \in S
  BY <1>1
<1> HIDE DEF S
<1> DEFINE one == <<t[n]>>
<1>4. one \in Seq(S) /\ Len(one) = 1 /\ one[1] = t[n]
  BY <1>3
<1> HIDE DEF one
<1> DEFINE some == First(t, n - 1)
           both == some \o one
<1>a. some \in Seq(S) /\ Len(some) = n - 1
  BY <1>2
<1> HIDE DEF some, both
<1>b. /\ both \in Seq(S) /\ Len(both) = Len(some) + Len(one)
      /\ \A i \in 1 .. Len(some) + Len(one) :
           both[i] = IF i <= Len(some) THEN some[i] ELSE one[i - Len(some)]
  BY <1>a, <1>4, ConcatProperties DEF both
<1>5. /\ both \in Seq(S) /\ Len(both) = n
      /\ \A i \in 1 .. n : both[i] = IF i <= n - 1 THEN some[i] ELSE one[i - (n - 1)]
  <2>1. n \in Nat /\ Len(some) + Len(one) = n
    BY <1>1, <1>a, <1>4
  <2> QED
    BY <1>a, <1>b, <2>1
<1>6. \A i \in 1 .. n : both[i] = t[i]
  <2> SUFFICES ASSUME NEW i \in 1 .. n PROVE both[i] = t[i]
    OBVIOUS
  <2>1. CASE i <= n - 1
    BY <1>5, <2>1 DEF First, some
  <2>2. CASE i = n
    BY <1>4, <1>5, <2>2
  <2> QED
    BY <2>1, <2>2
<1>7. both = [i \in 1 .. n |-> t[i]]
  BY <1>5, <1>6
<1> QED
  BY <1>7 DEF both, one, some, First

ReadsRow(d, e, p, n, l) == d = [e EXCEPT !.lines = l, !.pos = n, !.pc = p]
Begins(d, e, p, n, b) == d = [e EXCEPT !.redone = b, !.pos = n, !.pc = p]

LEMMA RowIsRead ==
  ASSUME NEW e, IsReader(e), NEW p \in Places, NEW n \in Nat, NEW l,
         NEW d, ReadsRow(d, e, p, n, l)
  PROVE  IsReader(d) /\ d.pc = p /\ d.pos = n /\ d.lines = l /\ d.redone = e.redone
<1> DEFINE L == {e.lines, l}
<1>1. e \in [pc : Places, pos : Nat, lines : L, redone : BOOLEAN] /\ l \in L
  BY DEF IsReader
<1> HIDE DEF L
<1>2. /\ d \in [pc : Places, pos : Nat, lines : L, redone : BOOLEAN]
      /\ d.pc = p /\ d.pos = n /\ d.lines = l /\ d.redone = e.redone
  BY <1>1 DEF ReadsRow
<1>3. IsReader(d)
  BY <1>2 DEF IsReader
<1> QED
  BY <1>2, <1>3

LEMMA PieceBegins ==
  ASSUME NEW e, IsReader(e), NEW p \in Places, NEW n \in Nat, NEW b \in BOOLEAN,
         NEW d, Begins(d, e, p, n, b)
  PROVE  IsReader(d) /\ d.pc = p /\ d.pos = n /\ d.lines = e.lines /\ d.redone = b
<1> DEFINE L == {e.lines}
<1>1. e \in [pc : Places, pos : Nat, lines : L, redone : BOOLEAN]
  BY DEF IsReader
<1> HIDE DEF L
<1>2. /\ d \in [pc : Places, pos : Nat, lines : L, redone : BOOLEAN]
      /\ d.pc = p /\ d.pos = n /\ d.lines = e.lines /\ d.redone = b
  BY <1>1 DEF Begins
<1>3. IsReader(d)
  BY <1>2 DEF IsReader
<1> QED
  BY <1>2, <1>3

LEMMA PieceEnds ==
  ASSUME NEW e, IsReader(e), NEW p \in Places,
         NEW d, d = [e EXCEPT !.pc = p]
  PROVE  IsReader(d) /\ d.pc = p /\ d.pos = e.pos /\ d.lines = e.lines
            /\ d.redone = e.redone
<1> DEFINE L == {e.lines}
<1>1. e \in [pc : Places, pos : Nat, lines : L, redone : BOOLEAN]
  BY DEF IsReader
<1> HIDE DEF L
<1>2. /\ d \in [pc : Places, pos : Nat, lines : L, redone : BOOLEAN]
      /\ d.pc = p /\ d.pos = e.pos /\ d.lines = e.lines /\ d.redone = e.redone
  BY <1>1
<1>3. IsReader(d)
  BY <1>2 DEF IsReader
<1> QED
  BY <1>2, <1>3

LEMMA ClosedIsReader ==
  /\ IsReader(Who!Closed) /\ Who!Closed.pc = "closed" /\ Who!Closed.pos = 0
  /\ Who!Closed.lines = <<>>
BY DEF Who!Closed, IsReader, Places

\* A reader of a table that stays as it is, by itself or not.
LEMMA SameReader ==
  ASSUME NEW r \in Reader, ReaderOK(r), reader'[r] = reader[r], UNCHANGED <<caches,
     sites>>,
         reader[r].pc \in Inside => lock' = lock
  PROVE  ReaderOK(r)'
<1>1. Who!Rows(r)' = Who!Rows(r)
  BY DEF Who!Rows
<1> QED
  BY <1>1 DEF ReaderOK

-----------------------------------------------------------------------------
(* Steps. *)

\* A step that is of one reader only keeps what is so if it does for that one.
LEMMA OfOneReader ==
  ASSUME ReadersInv, NEW r \in Reader, NEW e, UNCHANGED <<caches, sites>>,
         reader' = [reader EXCEPT ![r] = e],
         IsReader(e), HasRows(e, Who!Rows(r)), AtRow(e, Who!Rows(r)),
         e.pc \in Inside => lock' = r,
         lock' = lock \/ lock = r
  PROVE  ReadersInv'
<1>1. reader' = [o \in Reader |-> reader'[o]] /\ reader'[r] = e
      /\ \A o \in Reader : o # r => reader'[o] = reader[o]
  BY DEF ReadersInv
<1>2. IsTable(caches)' /\ IsTable(sites)'
  BY DEF ReadersInv
<1>3. ReaderOK(r)'
  <2>1. Who!Rows(r)' = Who!Rows(r)
    BY DEF Who!Rows
  <2> QED
    BY <1>1, <2>1 DEF ReaderOK
<1>4. ASSUME NEW o \in Reader, o # r PROVE ReaderOK(o)'
  <2>1. ReaderOK(o) /\ reader'[o] = reader[o]
    BY <1>1, <1>4 DEF ReadersInv
  <2>2. reader[o].pc \in Inside => lock' = lock
    BY <1>4, <2>1 DEF ReaderOK
  <2> QED
    BY <2>1, <2>2, SameReader
<1> QED
  BY <1>1, <1>2, <1>3, <1>4 DEF ReadersInv

LEMMA OpenInv == ASSUME ReadersInv, NEW r \in Reader, Who!Open(r) PROVE ReadersInv'
<1> DEFINE e == [Who!Closed EXCEPT !.pc = "between"]
<1>1. reader' = [reader EXCEPT ![r] = e] /\ UNCHANGED <<caches, sites, lock>>
  BY DEF Who!Open, Who!tables
<1>a. IsReader(e) /\ e.pc = "between" /\ e.pos = 0 /\ e.lines = <<>>
  BY ClosedIsReader, PieceEnds DEF Places
<1> HIDE DEF e
<1>2. IsReader(e) /\ HasRows(e, Who!Rows(r)) /\ AtRow(e, Who!Rows(r)) /\ e.pc \notin Inside
  BY <1>a DEF HasRows, AtRow
<1> QED
  BY <1>1, <1>2, OfOneReader

LEMMA CloseInv == ASSUME ReadersInv, NEW r \in Reader, Who!Close(r) PROVE ReadersInv'
<1>1. reader' = [reader EXCEPT ![r] = Who!Closed] /\ UNCHANGED <<caches, sites, lock>>
  BY DEF Who!Close, Who!tables
<1>2. /\ IsReader(Who!Closed) /\ HasRows(Who!Closed, Who!Rows(r))
      /\ AtRow(Who!Closed, Who!Rows(r))
      /\ Who!Closed.pc \notin Inside
  BY ClosedIsReader DEF HasRows, AtRow
<1> QED
  BY <1>1, <1>2, OfOneReader

LEMMA ContinueInv == ASSUME ReadersInv, NEW r \in Reader, Who!Continue(r) PROVE ReadersInv'
<1> DEFINE e == [reader[r] EXCEPT !.pc = "show"]
<1>1. /\ reader' = [reader EXCEPT ![r] = e] /\ UNCHANGED <<caches, sites, lock>>
      /\ reader[r].pc = "full" /\ ReaderOK(r)
  BY DEF Who!Continue, Who!At, Who!tables, ReadersInv
<1>2. /\ IsReader(e) /\ e.pc = "show" /\ e.pos = reader[r].pos
      /\ e.lines = reader[r].lines /\ e.redone = reader[r].redone
  BY <1>1, PieceEnds DEF ReaderOK, Places
<1> HIDE DEF e
<1>3. HasRows(e, Who!Rows(r)) /\ AtRow(e, Who!Rows(r)) /\ lock = r
  BY <1>1, <1>2 DEF ReaderOK, HasRows, AtRow
<1> QED
  BY <1>1, <1>2, <1>3, OfOneReader

LEMMA StopInv == ASSUME ReadersInv, NEW r \in Reader, Who!Stop(r) PROVE ReadersInv'
<1> DEFINE e == [reader[r] EXCEPT !.pc = IF @ = "end" THEN "read" ELSE "between"]
<1>1. /\ reader' = [reader EXCEPT ![r] = e] /\ UNCHANGED <<caches, sites>>
      /\ reader[r].pc \in {"full", "last", "end"} /\ ReaderOK(r)
  BY DEF Who!Stop, Who!At, Who!tables, ReadersInv
<1>2. /\ IsReader(e) /\ e.pc = IF reader[r].pc = "end" THEN "read" ELSE "between"
      /\ e.pos = reader[r].pos /\ e.lines = reader[r].lines /\ e.redone = reader[r].redone
  <2> DEFINE p == IF reader[r].pc = "end" THEN "read" ELSE "between"
  <2>1. p \in Places /\ IsReader(reader[r])
    BY <1>1 DEF ReaderOK, Places
  <2>2. e = [reader[r] EXCEPT !.pc = p]
    OBVIOUS
  <2> HIDE DEF p, e
  <2>3. /\ IsReader(e) /\ e.pc = p
        /\ e.pos = reader[r].pos /\ e.lines = reader[r].lines /\ e.redone = reader[r].redone
    BY <2>1, <2>2, PieceEnds
  <2> QED
    BY <2>3 DEF p
<1> HIDE DEF e
<1>3. HasRows(e, Who!Rows(r)) /\ AtRow(e, Who!Rows(r)) /\ lock = r /\ e.pc \notin Inside
  BY <1>1, <1>2 DEF ReaderOK, HasRows, AtRow
<1> QED
  BY <1>1, <1>2, <1>3, OfOneReader

LEMMA ShowInv == ASSUME ReadersInv, NEW r \in Reader, Who!Show(r) PROVE ReadersInv'
<1> DEFINE at == reader[r].pos
           here == IF at = 0 THEN <<>> ELSE <<Who!Rows(r)[at]>>
           e == [reader[r] EXCEPT !.lines = @ \o here, !.pos = at + 1,
                                  !.pc = IF at + 1 > Len(Who!Rows(r)) THEN "last" ELSE "full"]
<1>1. /\ reader' = [reader EXCEPT ![r] = e] /\ UNCHANGED <<caches, sites, lock>>
      /\ reader[r].pc = "show" /\ ReaderOK(r)
  BY DEF Who!Show, Who!At, Who!tables, ReadersInv
<1>2. /\ IsReader(e) /\ e.pos = at + 1
      /\ e.pc = IF at + 1 > Len(Who!Rows(r)) THEN "last" ELSE "full"
      /\ e.lines = reader[r].lines \o here /\ e.redone = reader[r].redone
  <2> DEFINE p == IF at + 1 > Len(Who!Rows(r)) THEN "last" ELSE "full"
             n == at + 1
             l == reader[r].lines \o here
  <2>1. IsReader(reader[r]) /\ p \in Places /\ n \in Nat
    BY <1>1 DEF ReaderOK, IsReader, Places
  <2>2. ReadsRow(e, reader[r], p, n, l)
    BY DEF ReadsRow
  <2> HIDE DEF p, n, l, e
  <2>3. IsReader(e) /\ e.pc = p /\ e.pos = n /\ e.lines = l /\ e.redone = reader[r].redone
    BY <2>1, <2>2, RowIsRead
  <2> QED
    BY <2>3 DEF p, n, l
<1>3. /\ at \in Nat /\ at <= Len(Who!Rows(r)) /\ lock = r
      /\ IsTable(Who!Rows(r)) /\ Len(Who!Rows(r)) \in Nat
  <2>1. IsTable(Who!Rows(r))
    BY DEF Who!Rows, ReadersInv
  <2> QED
    BY <1>1, <2>1 DEF ReaderOK, IsReader, AtRow, IsTable
<1>4. ~reader[r].redone => reader[r].lines \o here = First(Who!Rows(r), at)
  <2>1. CASE at = 0
    BY <1>1, <2>1, NoRowsYet DEF ReaderOK, HasRows
  <2>2. CASE at # 0 /\ ~reader[r].redone
    <3>1. reader[r].lines = First(Who!Rows(r), at - 1) /\ here = <<Who!Rows(r)[at]>>
      BY <1>1, <1>3, <2>2 DEF ReaderOK, HasRows
    <3>2. at \in 1 .. Len(Who!Rows(r))
      BY <1>3, <2>2
    <3> QED
      BY <1>3, <3>1, <3>2, RowRead
  <2> QED
    BY <2>1, <2>2
<1> HIDE DEF e, here, at
<1>6. HasRows(e, Who!Rows(r)) /\ AtRow(e, Who!Rows(r))
  BY <1>2, <1>3, <1>4 DEF HasRows, AtRow
<1> QED
  BY <1>1, <1>2, <1>3, <1>6, OfOneReader

\* Tables that are made anew have been made so for all who are half way through.
LEMMA StartInv ==
  ASSUME Who!TableAssumption, Who!ReaderAssumption, Who!FileAssumption,
         ReadersInv, NEW r \in Reader, Who!Start(r)
  PROVE  ReadersInv'
<1> DEFINE row == reader[r].pos
           again(o) == reader[o].pos > 0 /\
                         IF File[o] = "slabwho" THEN walked # "fresh"
                         ELSE File[r] = "sites" /\ attributed # "fresh"
           end == row > Len(IF File[r] = "slabwho" THEN caches' ELSE sites')
           e(o) == [reader[o] EXCEPT !.redone = @ \/ again(o),
                        !.pos = IF o = r THEN row ELSE @,
                        !.pc = IF o # r THEN @ ELSE IF end THEN "end" ELSE "show"]
<1>1. /\ reader[r].pc = "between" /\ lock = None /\ lock' = r /\ Who!Refresh(r)
      /\ reader' = [o \in Reader |-> e(o)]
  BY DEF Who!Start, Who!StartAt, Who!At
<1>2. /\ walked # "fresh" \/ UNCHANGED caches
      /\ (File[r] = "sites" /\ attributed # "fresh") \/ UNCHANGED sites
  BY <1>1 DEF Who!Refresh
<1>3. IsTable(caches)' /\ IsTable(sites)'
  <2>1. \A s : caches' \in Who!Sorted(s) => IsTable(caches')
    BY OrderIsTable DEF Who!TableAssumption, Who!Sorted
  <2>2. \A rows : sites' \in Who!SortedSites(rows) => IsTable(sites')
    BY OrderIsTable DEF Who!TableAssumption, Who!SortedSites
  <2>3. UNCHANGED caches \/ \E s : caches' \in Who!Sorted(s)
    BY <1>1 DEF Who!Refresh
  <2>4. UNCHANGED sites \/ \E rows : sites' \in Who!SortedSites(rows)
    BY <1>1 DEF Who!Refresh
  <2> QED
    BY <2>1, <2>2, <2>3, <2>4 DEF ReadersInv
<1>4. \A o \in Reader : again(o) \/ reader[o].pos = 0 \/ Who!Rows(o)' = Who!Rows(o)
  <2> SUFFICES ASSUME NEW o \in Reader
               PROVE  again(o) \/ reader[o].pos = 0 \/ Who!Rows(o)' = Who!Rows(o)
    OBVIOUS
  <2>1. reader[o].pos \in Nat
    BY DEF ReadersInv, ReaderOK, IsReader
  <2> QED
    BY <1>2, <2>1 DEF Who!FileAssumption, Who!Rows
<1>5. ASSUME NEW o \in Reader
      PROVE  /\ ReaderOK(o)
             /\ IsReader(reader'[o]) /\ reader'[o].pos = reader[o].pos
             /\ reader'[o].pc = IF o # r THEN reader[o].pc ELSE IF end THEN "end" ELSE "show"
             /\ reader'[o].lines = reader[o].lines
             /\ reader'[o].redone = (reader[o].redone \/ again(o))
             /\ o # r => reader[o].pc \notin Inside
  <2>1. ReaderOK(o)
    BY DEF ReadersInv
  <2>2. reader'[o] = e(o)
    BY <1>1
  <2>3. /\ IsReader(e(o)) /\ e(o).pos = reader[o].pos
        /\ e(o).pc = IF o # r THEN reader[o].pc ELSE IF end THEN "end" ELSE "show"
        /\ e(o).lines = reader[o].lines /\ e(o).redone = (reader[o].redone \/ again(o))
    <3> DEFINE p == IF o # r THEN reader[o].pc ELSE IF end THEN "end" ELSE "show"
               n == IF o = r THEN row ELSE reader[o].pos
               d == reader[o].redone \/ again(o)
    <3>1. Begins(e(o), reader[o], p, n, d)
      BY DEF Begins
    <3>2. n = reader[o].pos
      OBVIOUS
    <3>3. IsReader(reader[o]) /\ p \in Places /\ d \in BOOLEAN /\ n \in Nat
      BY <2>1 DEF ReaderOK, IsReader, Places
    <3> HIDE DEF p, n, d, e
    <3>4. /\ IsReader(e(o)) /\ e(o).pc = p /\ e(o).pos = n /\ e(o).lines = reader[o].lines
          /\ e(o).redone = d
      BY <3>1, <3>3, PieceBegins
    <3> QED
      BY <3>2, <3>4 DEF p, d
  <2>4. o # r => reader[o].pc \notin Inside
    <3>1. reader[o].pc \in Inside => lock = o
      BY <2>1 DEF ReaderOK
    <3> QED
      BY <1>1, <3>1 DEF Who!ReaderAssumption
  <2> QED
    BY <2>1, <2>2, <2>3, <2>4
<1>6. end <=> row > Len(Who!Rows(r)')
  BY DEF Who!Rows
<1>7. \A o \in Reader : IsTable(Who!Rows(o)') /\ Len(Who!Rows(o)') \in Nat
  BY <1>3 DEF Who!Rows, IsTable
<1> HIDE DEF again, end, e
<1>8. ASSUME NEW o \in Reader PROVE ReaderOK(o)'
  <2> DEFINE t == Who!Rows(o)
             f == reader'[o]
  <2>1. again(o) \in BOOLEAN
    BY DEF again
  <2>2. IsReader(f)
    BY <1>5
  <2>a. /\ reader[o].pos \in Nat /\ reader[o].redone \in BOOLEAN
        /\ HasRows(reader[o], t) /\ AtRow(reader[o], t)
        /\ again(o) => reader[o].pos > 0
    BY <1>5 DEF ReaderOK, IsReader, again
  <2>b. /\ f.pos = reader[o].pos /\ f.lines = reader[o].lines
        /\ f.redone = (reader[o].redone \/ again(o))
        /\ o # r => f.pc = reader[o].pc
    BY <1>5
  <2>c. again(o) \/ reader[o].pos = 0 \/ t' = t
    BY <1>4
  <2> HIDE DEF f, t
  <2>3. HasRows(f, t')
    BY <2>1, <2>a, <2>b, <2>c DEF HasRows
  <2>4. AtRow(f, t')
    <3>1. CASE o = r
      <4>1. f.pc = IF end THEN "end" ELSE "show"
        BY <1>5, <3>1 DEF f
      <4>2. (end <=> f.pos > Len(t')) /\ Len(t') \in Nat /\ f.pos \in Nat
        BY <1>6, <1>7, <2>a, <2>b, <3>1 DEF t
      <4> QED
        BY <4>1, <4>2 DEF AtRow
    <3>2. CASE o # r
      <4>1. reader[o].pc \notin Inside
        BY <1>5, <3>2
      <4>2. reader[o].pos = 0 => reader[o].pc # "read"
        BY <2>a DEF AtRow
      <4> QED
        BY <2>1, <2>a, <2>b, <2>c, <3>2, <4>1, <4>2 DEF AtRow
    <3> QED
      BY <3>1, <3>2
  <2>5. f.pc \in Inside => lock' = o
    BY <1>1, <1>5 DEF f
  <2> QED
    BY <2>2, <2>3, <2>4, <2>5 DEF ReaderOK, f, t
<1>9. reader' = [o \in Reader |-> reader'[o]]
  BY <1>1
<1> QED
  BY <1>3, <1>8, <1>9 DEF ReadersInv

LEMMA ReadersInitially == Who!Init => ReadersInv
<1> SUFFICES ASSUME Who!Init PROVE ReadersInv
  OBVIOUS
<1>1. IsTable(<<>>)
  BY DEF IsTable
<1>2. \A r \in Reader : reader[r] = Who!Closed
  BY DEF Who!Init
<1>3. \A t : IsReader(Who!Closed) /\ HasRows(Who!Closed, t) /\ AtRow(Who!Closed, t)
  BY DEF Who!Closed, IsReader, HasRows, AtRow, Places
<1>4. Who!Closed.pc \notin Inside
  BY DEF Who!Closed
<1>5. \A r \in Reader : ReaderOK(r)
  BY <1>2, <1>3, <1>4 DEF ReaderOK
<1> QED
  BY <1>1, <1>5 DEF Who!Init, ReadersInv

LEMMA ReadersStep ==
  ASSUME Who!TableAssumption, Who!ReaderAssumption, Who!FileAssumption, ReadersInv,
     [Who!Next]_(Who!vars)
  PROVE  ReadersInv'
<1>1. ASSUME NEW r \in Reader,
             \/ Who!Open(r) \/ Who!Start(r) \/ Who!Show(r)
             \/ Who!Continue(r) \/ Who!Stop(r) \/ Who!Close(r)
      PROVE  ReadersInv'
  BY <1>1, OpenInv, StartInv, ShowInv, ContinueInv, StopInv, CloseInv
<1>2. ASSUME UNCHANGED <<caches, sites, lock, reader>> PROVE ReadersInv'
  <2>1. \A r \in Reader : ReaderOK(r)'
    BY <1>2, SameReader DEF ReadersInv
  <2> QED
    BY <1>2, <2>1 DEF ReadersInv
<1>3. CASE Who!Expire
  BY <1>2, <1>3 DEF Who!Expire
<1>4. CASE UNCHANGED Who!vars
  BY <1>2, <1>4 DEF Who!vars, Who!tables
<1> QED
  BY <1>1, <1>3, <1>4 DEF Who!Next

LEMMA ReadToEnd == ReadersInv => Who!LineForEachRow
<1> SUFFICES ASSUME ReadersInv, NEW r \in Reader
             PROVE  /\ Who!At(r, "read") /\ ~reader[r].redone => reader[r].lines = Who!Rows(r)
                    /\ Who!At(r, "show") => reader[r].pos <= Len(Who!Rows(r))
  BY DEF Who!LineForEachRow
<1>1. ReaderOK(r) /\ IsTable(Who!Rows(r))
  BY DEF ReadersInv, Who!Rows
<1>2. Who!At(r, "read") /\ ~reader[r].redone =>
        /\ reader[r].pos = Len(Who!Rows(r)) + 1
        /\ reader[r].lines = First(Who!Rows(r), reader[r].pos - 1)
  <2>1. Len(Who!Rows(r)) \in Nat
    BY <1>1 DEF IsTable
  <2> QED
    BY <1>1, <2>1 DEF Who!At, ReaderOK, IsReader, HasRows, AtRow
<1>3. Len(Who!Rows(r)) \in Nat
  BY <1>1 DEF IsTable
<1>4. Who!At(r, "show") => reader[r].pos <= Len(Who!Rows(r))
  BY <1>1 DEF Who!At, ReaderOK, AtRow
<1> QED
  BY <1>1, <1>2, <1>3, <1>4, AllRows

-----------------------------------------------------------------------------
\* A step of the specification in which either the map or the module runs.
LEMMA StepOfWho ==
  ASSUME [NextOfOne]_<<vars, whoVars, component>> PROVE [Who!Next]_(Who!vars)
<1>1. OnlyMap \/ UNCHANGED <<vars, whoVars, component>> => UNCHANGED Who!vars
  BY DEF OnlyMap, whoVars, Who!vars, Who!tables
<1>2. NextOfOne => OnlyMap \/ Who!Next
  BY DEF NextOfOne, Who!Next
<1> QED
  BY <1>1, <1>2

\* A file that was read to its end while its table was not made anew has a line for
\* each row, in order, for any number of readers of either file, pieces of any
\* length and whoever has the tables made anew meanwhile; and a table that is made
\* anew, of any other length, is not read behind its end. (slabwho_start(),
\* slabwho_next(), slabwho_show(), slabwho_stop() and those of the sites)
THEOREM FilesShowTables == SpecOfOne => []LineForEachRow
<1>1. InitOfOne => ReadersInv
  BY ReadersInitially DEF InitOfOne
<1>2. ReadersInv /\ [NextOfOne]_<<vars, whoVars, component>> => ReadersInv'
  BY StepOfWho, ReadersStep, MonitorsAssumption
<1>3. ReadersInv => LineForEachRow
  BY ReadToEnd DEF LineForEachRow
<1> QED
  BY <1>1, <1>2, <1>3, PTL DEF SpecOfOne
=============================================================================

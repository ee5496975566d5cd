------------------------------- MODULE PageMap -------------------------------
(***************************************************************************)
(* What fragview makes of the flags of a machine's pages: the class of a   *)
(* page, the numbers of a pageblock, which blocks are hostages, what is    *)
(* reported of them and how they are drawn with characters.                *)
(*                                                                         *)
(* A block's numbers are a function from classes to counts. Shares are     *)
(* compared without dividing.                                              *)
(***************************************************************************)
EXTENDS Integers, FiniteSets, SequencesExt

CONSTANTS
  PagesPerBlock,
  Ranges         \* of page frames that are RAM, in order

PagesAssumption == PagesPerBlock \in Nat \ {0}
RangesAssumption == Ranges \in Seq([first : Nat, last : Nat]) /\ Ranges # <<>>

Least(m, n) == IF m < n THEN m ELSE n
Up(m, n) == (m + n - 1) \div n

-----------------------------------------------------------------------------
(* classify(): a page's flags decide by the first rule that fits. *)

Rule(all, any, class) == [all |-> all, any |-> any, class |-> class]

Rules == <<
  Rule({}, {"nopage", "offline"}, "absent"),
  Rule({}, {"buddy"}, "free"),
  Rule({}, {"slab"}, "slab"),
  Rule({}, {"pgtable"}, "pgtable"),
  Rule({}, {"reserved"}, "reserved"),
  Rule({"lru"}, {"anon", "ksm"}, "anon"),
  Rule({"lru"}, {"swapbacked"}, "shmem"),
  Rule({}, {"lru"}, "cache"),
  Rule({}, {"private"}, "arc"),
  Rule({}, {"comp_head", "comp_tail"}, "compound"),
  Rule({}, {"arch1", "arch2"}, "uncached") >>

Classify(flags) ==
  LET fits == SelectSeq(Rules, LAMBDA r : r.all \subseteq flags /\ r.any \cap flags # {})
  IN IF flags = {} THEN "kernel" ELSE IF fits = <<>> THEN "unknown" ELSE fits[1].class

\* In the order of the constants; "absent" comes before them.
Known == << "free", "cache", "shmem", "anon", "arc", "slab", "pgtable", "compound",
            "uncached", "kernel", "reserved", "unknown" >>
KnownClass == ToSet(Known)
Class == KnownClass \cup {"absent"}

Movers == {"free", "cache", "shmem", "anon"}
Immovable(class, movable) ==
  /\ class \in KnownClass \ Movers
  /\ class = "arc" => ~movable

Pinning(movable) == { k \in Class : Immovable(k, movable) }

-----------------------------------------------------------------------------
(* newBlockMap() and refreshInto(). *)

FirstPFN == (Ranges[1].first \div PagesPerBlock) * PagesPerBlock
\* Variant of the next definition: no room for what is left of a block.
WholeBlocks(first, last) == (last - first) \div PagesPerBlock
Blocks(first, last) == (last - first) \div PagesPerBlock + 1
BlockCount == Blocks(Ranges[1].first, Ranges[Len(Ranges)].last)
Block == 0 .. BlockCount - 1

InRAM(pfn) == \E i \in DOMAIN Ranges : Ranges[i].first <= pfn /\ pfn <= Ranges[i].last
StartPFN(b) == FirstPFN + b * PagesPerBlock

NoPages == [k \in Class |-> 0]
\* words: the flags of pages, one for each.
Tally(words) ==
  LET class == [i \in DOMAIN words |-> Classify(words[i])]
  IN [k \in Class |-> Cardinality({ i \in DOMAIN words : class[i] = k })]

Total(c, classes) == MapThenSumSet(LAMBDA k : c[k], classes)

-----------------------------------------------------------------------------
(* summarise() *)

\* Of the classes the one with most pages, the first in this order of them.
FirstMost(c, order, classes) ==
  LET most == Max({ c[k] : k \in classes })
  IN order[Min({ i \in DOMAIN order : order[i] \in classes /\ c[order[i]] = most })]

View(c, movable) ==
  LET known == Total(c, KnownClass)
      used == known - c["free"]
      stuck == Total(c, Pinning(movable))
  IN [valid   |-> known > 0,
      empty   |-> used = 0,
      pick    |-> IF stuck > 0 THEN FirstMost(c, Known, Pinning(movable))
                  ELSE FirstMost(c, <<"free", "anon", "shmem", "cache">>, Movers),
      movable |-> stuck = 0,
      hostage |-> stuck > 0 /\ 8 * used < known]

Views(counts, movable) == [b \in DOMAIN counts |-> View(counts[b], movable)]
Hostages(counts, movable) == { b \in DOMAIN counts : View(counts[b], movable).hostage }
PagesIn(counts, blocks, class) == MapThenSumSet(LAMBDA b : counts[b][class], blocks)
FreeIn(counts, blocks) == PagesIn(counts, blocks, "free")

-----------------------------------------------------------------------------
(* cellFor() and blockMap(). Of the height of a cell only zero is told from
   the rest, which is all that hostages have. *)

\* Variant of the next definition: as most of its blocks are.
CellAveraged(views, from, to, byClass) ==
  LET shown == { b \in from .. to - 1 : b \in DOMAIN views /\ views[b].valid }
      votes == [k \in KnownClass |-> Cardinality({ b \in shown : views[b].pick = k })]
      hostage == { b \in shown : views[b].hostage }
  IN [colour |-> IF 2 * Cardinality(hostage) > Cardinality(shown) THEN "hostage" ELSE "free",
      empty  |-> \A b \in shown : views[b].empty]

Cell(views, from, to, byClass) ==
  LET shown == { b \in from .. to - 1 : b \in DOMAIN views /\ views[b].valid }
      votes == [k \in KnownClass |-> Cardinality({ b \in shown : views[b].pick = k })]
      pick == FirstMost(votes, Known, KnownClass)
      moves == { b \in shown : views[b].movable }
  IN [colour |-> IF shown = {} THEN "none"
                 ELSE IF \E b \in shown : views[b].hostage THEN "hostage"
                 ELSE IF byClass \/ pick = "free" THEN pick
                 ELSE IF 2 * Cardinality(moves) > Cardinality(shown) THEN "movable"
                 ELSE "pinned",
      empty  |-> \A b \in shown : views[b].empty]

\* Blocks in a cell, and the cells of a window: the first block of each.
PerCell(from, to, cells) == LET up == Up(to - from, cells) IN IF up > 1 THEN up ELSE 1
Cells(from, to, cells) ==
  LET per == PerCell(from, to, cells)
  IN { first \in { from + n * per : n \in 0 .. cells - 1 } : first < to }

-----------------------------------------------------------------------------
(* hostageReport() *)

OwnersOf(c, movable) == { k \in Pinning(movable) : c[k] > 0 }

\* Blocks that would be free without the pages of these classes.
Ceiling(counts, movable, classes) ==
  { b \in Hostages(counts, movable) : OwnersOf(counts[b], movable) \subseteq classes }

\* Variant of the next definition: a block is put to the last of its owners.
HostageReportLast(counts, movable) ==
  LET blocks == Hostages(counts, movable)
      owners(b) == OwnersOf(counts[b], movable)
      kind(n) == { b \in blocks : Cardinality(owners(b)) = n }
  IN [blocks  |-> Cardinality(blocks),
      free    |-> FreeIn(counts, blocks),
      byClass |-> [k \in Class |-> PagesIn(counts, blocks, k)],
      sole    |-> [k \in Class |-> Cardinality({ b \in blocks : k \in owners(b) })],
      kinds   |-> [n \in 1 .. Len(Known) |-> Cardinality(kind(n))],
      mixed   |-> Cardinality(blocks \ kind(1))]

HostageReport(counts, movable) ==
  LET blocks == Hostages(counts, movable)
      owners(b) == OwnersOf(counts[b], movable)
      kind(n) == { b \in blocks : Cardinality(owners(b)) = n }
  IN [blocks  |-> Cardinality(blocks),
      free    |-> FreeIn(counts, blocks),
      byClass |-> [k \in Class |-> IF Immovable(k, movable)
                                   THEN PagesIn(counts, blocks, k) ELSE 0],
      sole    |-> [k \in Class |-> Cardinality({ b \in blocks : owners(b) = {k} })],
      kinds   |-> [n \in 1 .. Len(Known) |-> Cardinality(kind(n))],
      mixed   |-> Cardinality(blocks \ (kind(0) \cup kind(1)))]

-----------------------------------------------------------------------------
(* The free lists: unusableIndex(), for the highest order and in percent. *)

Ladder(orders, upTo) == MapThenSumSet(LAMBDA o : orders[o + 1] * 2 ^ o, 0 .. upTo)
Unusable(orders) ==
  LET top == Len(orders) - 1 IN
  IF top < 0 \/ Ladder(orders, top) = 0 THEN 0
  ELSE (100 * Ladder(orders, top - 1)) \div Ladder(orders, top)
=============================================================================

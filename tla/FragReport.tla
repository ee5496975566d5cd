----------------------------- MODULE FragReport -----------------------------
(***************************************************************************)
(* From machines to a verdict. In each guest fragview -dump reads the      *)
(* flags of the pages, prints how many hostage blocks there are and writes *)
(* a snapshot. On the host fragview -cmp reads the snapshots one after     *)
(* another, measures each, groups them by build and judges what was        *)
(* asserted of two builds. Whether a machine can move ARC data is a global *)
(* of the program in either place.                                         *)
(*                                                                         *)
(* Text is a sequence of words. Medians are kept doubled, the numbers of   *)
(* an assertion in hundredths.                                             *)
(***************************************************************************)
EXTENDS PageMap, TLC

CONSTANTS
  Guests,     \* one after another: label, movable, memories, orders, stats
  Buffer,     \* pages read at once
  EndPFN,     \* the end of the file of flags
  Changes,    \* of a page, while they are read; one at most
  Assertions, \* lists of them
  Value,      \* of a number
  None

BufferAssumption == Buffer \in Nat /\ Buffer >= PagesPerBlock
EndAssumption == EndPFN = Ranges[Len(Ranges)].last + 1
GuestsAssumption ==
  /\ Len(Guests) \in Nat \ {0}
  /\ \A i \in 1 .. Len(Guests) : \A m \in Guests[i].memories : DOMAIN m = 0 .. EndPFN - 1

VARIABLES
  phase,
  guest, memory, still, \* the machine, its pages, and whether they stay as they are
  blk, counts,          \* how far the sweep is, and its numbers
  movable,              \* the global
  files, printed,       \* of the guests
  measured, groups,     \* of the host
  verdicts, status      \* what is said in the end

guestVars == <<guest, memory, still, blk, counts, files, printed>>
hostVars == <<measured, groups, verdicts, status>>
vars == <<phase, movable, guestVars, hostVars>>

-----------------------------------------------------------------------------
(* In a guest: main() with -dump. *)

Boot ==
  /\ phase = "boot"
  /\ guest' = guest + 1
  /\ memory' \in Guests[guest'].memories
  /\ still' = TRUE
  /\ movable' = Guests[guest'].movable
  /\ blk' = 0 /\ counts' = [b \in Block |-> NoPages]
  /\ phase' = "scan"
  /\ UNCHANGED <<files, printed, hostVars>>

\* The flags of the b-th block's pages, of those that were read from pfn on.
\* Variant of the next definition: each block begins at the buffer's begin.
WordsAtStart(pfn, read, b) ==
  [ j \in 1 .. Least(PagesPerBlock, read) |-> memory[pfn + j - 1] ]
Words(pfn, read, b) ==
  LET start == StartPFN(b)
      n == Least(PagesPerBlock, pfn + read - start)
  IN [ j \in 1 .. n |-> memory[start + j - 1] ]

\* A step of refreshInto(): a block of which the first page is no RAM is empty,
\* else as many blocks are read as the buffer and the range have room for. The
\* file may end in the last.
ReadBlocks ==
  /\ phase = "scan" /\ blk < BlockCount
  /\ LET pfn == StartPFN(blk)
         want == Least(Buffer \div PagesPerBlock, BlockCount - blk)
         read == Least(want * PagesPerBlock, EndPFN - pfn)
     IN IF InRAM(pfn)
        THEN /\ counts' = [b \in Block |-> IF b \in blk .. blk + want - 1
                                           THEN Tally(Words(pfn, read, b)) ELSE counts[b]]
             /\ blk' = blk + want
        ELSE blk' = blk + 1 /\ UNCHANGED counts
  /\ UNCHANGED <<phase, movable, guest, memory, still, files, printed, hostVars>>

Swept == phase = "scan" /\ blk = BlockCount

\* Nothing is published then, and nobody is told.
ReadBlocksFails ==
  /\ phase = "scan" /\ blk < BlockCount /\ InRAM(StartPFN(blk))
  /\ blk' = BlockCount /\ counts' = [b \in Block |-> NoPages] /\ still' = FALSE
  /\ UNCHANGED <<phase, movable, guest, memory, files, printed, hostVars>>

Change ==
  /\ phase = "scan" /\ still
  /\ \E c \in Changes : memory' = [memory EXCEPT ![c.pfn] = c.flags]
  /\ still' = FALSE
  /\ UNCHANGED <<phase, movable, guest, blk, counts, files, printed, hostVars>>

\* toSnapshot()
\* Variant of the next definition: the global is left out.
SnapshotWithoutMovable ==
  [label |-> Guests[guest].label, counts |-> counts, movable |-> FALSE,
   orders |-> Guests[guest].orders, stats |-> Guests[guest].stats]
Snapshot ==
  [label |-> Guests[guest].label, counts |-> counts, movable |-> movable,
   orders |-> Guests[guest].orders, stats |-> Guests[guest].stats]

Dump ==
  /\ Swept
  /\ files' = Append(files, Snapshot)
  /\ printed' = Append(printed,
       [hostage |-> Cardinality(Hostages(counts, movable)),
        pinned  |-> FreeIn(counts, Hostages(counts, movable))])
  /\ phase' = IF guest = Len(Guests) THEN "host" ELSE "boot"
  /\ UNCHANGED <<movable, guest, memory, still, blk, counts, hostVars>>

-----------------------------------------------------------------------------
(* On the host: measure() and groupSnapshots(). *)

\* fields(); what stats holds goes through as it is.
Fields(f, moves) ==
  LET hostages == Hostages(f.counts, moves)
      in(class) == PagesIn(f.counts, hostages, class)
      top == Len(f.orders)
      own == [mixed    |-> Cardinality({ b \in Block :
                                           Cardinality(OwnersOf(f.counts[b], moves)) > 1 }),
              hostage  |-> Cardinality(hostages),
              pinned   |-> FreeIn(f.counts, hostages),
              slab_in  |-> in("slab"),
              arc_in   |-> in("arc"),
              order10  |-> IF top = 0 THEN 0 ELSE f.orders[top],
              unusable |-> Unusable(f.orders),
              blocks   |-> BlockCount]
  IN [ key \in DOMAIN own \cup DOMAIN f.stats |->
         IF key \in DOMAIN own THEN own[key] ELSE f.stats[key] ]

\* strings.Cut()
Cut(text, word) ==
  LET at == { i \in DOMAIN text : text[i] = word }
      i == CHOOSE i \in at : \A j \in at : i <= j
  IN IF at = {} THEN [found |-> FALSE, before |-> text, after |-> <<>>]
     ELSE [found |-> TRUE, before |-> SubSeq(text, 1, i - 1),
           after |-> SubSeq(text, i + 1, Len(text))]

\* readSnapshot() sets the global, then the frame is measured.
ReadSnapshot ==
  /\ phase = "host" /\ Len(measured) < Len(files)
  /\ LET f == files[Len(measured) + 1]
         build == Cut(f.label, "/").before
         fields == Fields(f, movable')
     IN /\ movable' = f.movable
        /\ measured' = Append(measured, fields)
        /\ groups' = [ g \in DOMAIN groups \cup {build} |->
                        IF g # build THEN groups[g]
                        ELSE IF g \in DOMAIN groups THEN Append(groups[g], fields)
                        ELSE <<fields>> ]
  /\ UNCHANGED <<phase, guestVars, verdicts, status>>

Exit(code) == phase' = "done" /\ status' = code

\* A file that is missing, of another version or of another number of blocks.
ReadSnapshotFails ==
  /\ phase = "host" /\ Len(measured) < Len(files)
  /\ Exit(1)
  /\ UNCHANGED <<movable, guestVars, measured, groups, verdicts>>

Get(seed, key) == IF key \in DOMAIN seed THEN seed[key] ELSE 0

\* median(), doubled
Median(xs) ==
  LET s == SortSeq(xs, <)  n == Len(xs)  half == n \div 2
  IN IF n = 0 THEN 0 ELSE IF n % 2 = 1 THEN 2 * s[half + 1] ELSE s[half] + s[half + 1]

\* Numbers in their order.
Ascending(S) ==
  [ i \in 1 .. Cardinality(S) |->
      CHOOSE p \in S : Cardinality({ q \in S : q < p }) = i - 1 ]

MedianOf(seeds, key, places) ==
  LET order == Ascending(places)
  IN Median([ i \in DOMAIN order |-> Get(seeds[order[i]], key) ])

\* Only keys of a build's first seed have a median.
MedianIn(seeds, key) ==
  IF key \in DOMAIN seeds[1] THEN MedianOf(seeds, key, DOMAIN seeds) ELSE 0

-----------------------------------------------------------------------------
(* parseExpectation() *)

IsNumber(text) == Len(text) = 1 /\ text[1] \in DOMAIN Value
Number(text) == IF IsNumber(text) THEN Value[text[1]] ELSE 0

Parse(spec) ==
  LET m == Cut(spec, ":")
      op == IF Contains(m.after, "<=") THEN "<=" ELSE ">="
      pair == Cut(m.after, op)
      names == Cut(pair.before, "->")
      skip == names.after # <<>> /\ Last(names.after) = "?skip"
      gated == Cut(pair.after, "@")
      gate == Cut(gated.after, ":")
      bounds == Cut(gate.after, ":")
      wellFormed == /\ m.found /\ pair.found /\ names.found
                    /\ IsNumber(gated.before)
                    /\ gated.found => gate.found /\ IsNumber(bounds.before)
                    /\ bounds.found => IsNumber(bounds.after)
  IN IF ~wellFormed THEN None ELSE
     [metric |-> Last(m.before), from |-> names.before,
      to |-> IF skip THEN Front(names.after) ELSE names.after,
      atMost |-> op = "<=", bound |-> Number(gated.before), skip |-> skip,
      gate |-> IF gated.found THEN Last(gate.before) ELSE "",
      floor |-> Number(bounds.before), ceiling |-> Number(bounds.after)]

-----------------------------------------------------------------------------
(* judge() *)

\* pairedBelow(): the pairs that are kept.
Pairs(from, to) == 1 .. Least(Len(from), Len(to))
Below(seed, e) == 100 * Get(seed, e.metric) < e.ceiling
Kept(from, to, e) == { i \in Pairs(from, to) : Below(from[i], e) }

\* Variant of the next definition: a saturated seed is dropped from one side.
BothOneSided(from, to, e) ==
  IF e.ceiling = 0 \/ Kept(from, to, e) = {}
  THEN <<MedianIn(from, e.metric), MedianIn(to, e.metric)>>
  ELSE <<MedianOf(from, e.metric, Kept(from, to, e)), MedianIn(to, e.metric)>>

\* The two medians; of all seeds if all of them are saturated.
Both(from, to, e) ==
  IF e.ceiling = 0 \/ Kept(from, to, e) = {}
  THEN <<MedianIn(from, e.metric), MedianIn(to, e.metric)>>
  ELSE <<MedianOf(from, e.metric, Kept(from, to, e)),
         MedianOf(to, e.metric, Kept(from, to, e))>>

Missing(gs, e) == {e.from, e.to} \ DOMAIN gs

\* The gate, if it is named, is the median of all machines of a build.
JudgeGated(gs, all, capped, e) ==
  IF Missing(gs, e) # {}
  THEN [e |-> e, missing |-> TRUE, nosignal |-> FALSE, ok |-> FALSE]
  ELSE
    LET from == gs[e.from]
        a == Both(from, gs[e.to], e)[1]
        b == Both(from, gs[e.to], e)[2]
        gauge == IF e.gate = "" THEN a ELSE MedianIn(all[e.from], e.gate)
        nosignal == \/ a = 0
                    \/ e.floor > 0 /\ 50 * gauge < e.floor
                    \/ capped /\ e.ceiling > 0 /\ 50 * gauge >= e.ceiling
    IN [e |-> e, missing |-> FALSE, nosignal |-> nosignal,
        ok |-> ~nosignal /\ IF e.atMost THEN 100 * b <= e.bound * a
                                        ELSE 100 * b >= e.bound * a]

\* Variant of the next definition: the ceiling is left to pairedBelow().
JudgeUncapped(gs, e) == JudgeGated(gs, gs, FALSE, e)
Judge(gs, e) == JudgeGated(gs, gs, TRUE, e)

\* Variant of the next definition: nothing that was measured fails.
FatalIfFalse(v) == v.missing \/ (~v.nosignal /\ ~v.ok)
Fatal(v) == v.missing \/ IF v.nosignal THEN ~v.e.skip ELSE ~v.ok

\* verdictMarkdown()
Mark(v) == IF v.nosignal THEN "warning" ELSE IF v.ok THEN "check" ELSE "cross"

Compared == phase = "host" /\ Len(measured) = Len(files)

\* Output that cannot be written ends the program before the verdict does.
Conclude ==
  /\ Compared
  /\ \E asserted \in Assertions :
       IF \E i \in DOMAIN asserted : Parse(asserted[i]) = None
       THEN Exit(1) /\ UNCHANGED verdicts
       ELSE /\ verdicts' = [ i \in DOMAIN asserted |-> Judge(groups, Parse(asserted[i])) ]
            /\ Exit(IF \E i \in DOMAIN verdicts' : Fatal(verdicts'[i]) THEN 1 ELSE 0)
  /\ UNCHANGED <<movable, guestVars, measured, groups>>

WriteFails == Compared /\ Exit(1) /\ UNCHANGED <<movable, guestVars, measured, groups, verdicts>>

-----------------------------------------------------------------------------
Init ==
  /\ phase = "boot" /\ guest = 0 /\ memory = <<>> /\ still = TRUE
  /\ blk = 0 /\ counts = <<>> /\ movable = FALSE
  /\ files = <<>> /\ printed = <<>>
  /\ measured = <<>> /\ groups = <<>>
  /\ verdicts = None /\ status = None

Next == \/ Boot \/ ReadBlocks \/ ReadBlocksFails \/ Change \/ Dump
        \/ ReadSnapshot \/ ReadSnapshotFails \/ Conclude \/ WriteFails

Spec == Init /\ [][Next]_vars

-----------------------------------------------------------------------------
\* Of the pageblocks from the one of the first frame of RAM to the one of the last
\* frame, those there is no counter for.
Pageblocks(first, last) == 0 .. last \div PagesPerBlock - first \div PagesPerBlock
LeftOut(first, last) == { b \in Pageblocks(first, last) : b >= Blocks(first, last) }

\* The comment on blockMap, "one counter per class for every pageblock", is true but
\* of one block: the last one has none when less of it is RAM than what is missing
\* in front of the first frame, as frames are counted from the first one and blocks
\* from where its block begins.
CounterForEach ==
  \A first \in 0 .. EndPFN : \A last \in first .. EndPFN :
    LeftOut(first, last) = IF last % PagesPerBlock < first % PagesPerBlock
                           THEN {last \div PagesPerBlock - first \div PagesPerBlock} ELSE {}

\* While memory stays as it is, every page of a block that begins in RAM and has a
\* counter is counted in its own block and in one class, wherever the buffer and the
\* file end. Of a block that does not begin in RAM all pages are counted or none, as
\* its place in the buffer has it.
CountsAreCensus ==
  LET first == Ranges[1].first
      last == Ranges[Len(Ranges)].last
      class == [ p \in DOMAIN memory |-> Classify(memory[p]) ]
      census(b) ==
        [ k \in Class |-> Cardinality({ p \in StartPFN(b) .. StartPFN(b + 1) - 1 :
                                          p < EndPFN /\ class[p] = k }) ]
  IN Swept /\ still =>
       /\ CounterForEach
       /\ \A b \in Pageblocks(first, last) \ LeftOut(first, last) :
            counts[b] = census(b) \/ (counts[b] = NoPages /\ ~InRAM(StartPFN(b)))

\* The parts of hostageReport(), counted one by one, agree with each other and
\* with the ceilings it prints: alone in a block, mixed, and all of them.
ReportAdds ==
  Swept =>
    LET r == HostageReport(counts, movable)
        pinning == Pinning(movable)
        ceiling(classes) == Cardinality(Ceiling(counts, movable, classes))
    IN /\ \A k \in pinning : r.sole[k] = ceiling({k}) /\ r.byClass[k] >= r.sole[k]
       /\ Total(r.sole, Class) + r.mixed = r.blocks
       /\ MapThenSumSet(LAMBDA n : r.kinds[n], DOMAIN r.kinds) = r.blocks
       /\ ceiling(pinning) = r.blocks
       /\ r.free + Total(r.byClass, pinning) <= r.blocks * PagesPerBlock

\* The comment on cellFor(): no hostage hides among its neighbours, in a window
\* of any place and size on a screen of any size; and nothing else is red.
HostagesSeen ==
  Swept =>
    \A views \in { Views(counts, movable) },
       from \in Block, to \in 1 .. BlockCount, cells \in 1 .. BlockCount, byClass \in BOOLEAN :
      from < to =>
        LET per == PerCell(from, to, cells)
            red == { c \in Cells(from, to, cells) :
                       Cell(views, c, c + per, byClass).colour = "hostage" }
            hostages == { b \in from .. to - 1 : views[b].hostage }
        IN /\ \A b \in hostages : \E c \in red : b \in c .. c + per - 1
           /\ \A c \in red : \E b \in c .. c + per - 1 :
                b < BlockCount /\ views[b].hostage

\* A comparison measures of each machine what the machine itself printed, from
\* whatever machines the snapshots read before it came.
MeasuredAsDumped ==
  \A i \in DOMAIN measured :
    /\ measured[i].hostage = printed[i].hostage
    /\ measured[i].pinned = printed[i].pinned

\* The exit status says what the table's marks say, and a verdict is the one that
\* the machines would get without those whose baseline was saturated, if any is left:
\* they are dropped from both builds. Only a gate that is named, be it the metric
\* itself, is read off all machines, saturated or not.
Unsaturated(e) ==
  [ g \in DOMAIN groups |->
      LET kept == Ascending(Kept(groups[e.from], groups[e.to], e))
      IN IF g \in {e.from, e.to} THEN [ i \in DOMAIN kept |-> groups[g][kept[i]] ]
                                 ELSE groups[g] ]
JudgedFairly ==
  phase = "done" /\ verdicts # None =>
    /\ status = 0 <=> \A i \in DOMAIN verdicts :
                        \/ Mark(verdicts[i]) = "check"
                        \/ Mark(verdicts[i]) = "warning" /\ verdicts[i].e.skip
    /\ \A i \in DOMAIN verdicts :
         LET e == verdicts[i].e IN
         e.ceiling > 0 /\ ~verdicts[i].missing =>
           (Kept(groups[e.from], groups[e.to], e) # {}
              => verdicts[i] = JudgeGated(Unsaturated(e), groups, TRUE, e))

\* If the baseline of every pair was saturated pairedBelow() keeps them all, and then
\* the metric says nothing, whatever the other build has: a baseline at its cap
\* measures the request, not the patch. (With another metric as gate it may.)
CapSaysNothing ==
  phase = "done" /\ verdicts # None =>
    \A i \in DOMAIN verdicts :
      LET e == verdicts[i].e IN
      e.ceiling > 0 /\ e.gate \in {"", e.metric} /\ ~verdicts[i].missing =>
        LET from == groups[e.from]
            to == groups[e.to]
        IN Kept(from, to, e) = {} /\ Len(from) <= Len(to) => verdicts[i].nosignal
=============================================================================

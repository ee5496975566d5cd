------------------------------ MODULE FreeScan ------------------------------
(***************************************************************************)
(* The free scanner of compaction with compaction-large-folio.patch: a     *)
(* folio waits for a free page of its order, blocks are scanned downwards  *)
(* and sampled with a stride, what is free is isolated.                    *)
(*                                                                         *)
(* Memory stays as it is while it is scanned; a page is known by its first *)
(* frame. Isolating a page may fail, and the zone lock be contended.       *)
(***************************************************************************)
EXTENDS Integers, FiniteSets, Sequences

CONSTANTS
  FreeBlocks,  \* pageblocks of the zone
  BlockOrder,  \* pages of a block, as a power of two
  Layouts,     \* what the zone may look like: [frame -> kind and order], heads only
  ClusterOrder, \* COMPACT_CLUSTER_MAX, as a power of two
  FreeLimit,   \* COMPACT_FREE_LIMIT
  Folios       \* orders of the folios that want a target, one after another

BlockPages == 2 ^ BlockOrder
Order == 0 .. BlockOrder

VARIABLES
  layout,
  freepages,   \* heads of what is isolated, by order
  nrFree, nrMigrate, \* cc->nr_freepages, cc->nr_migratepages
  freePfn,     \* cc->free_pfn
  contended,   \* cc->contended
  folio,       \* folios served so far
  alloc,       \* what compaction_alloc() is at
  scan,        \* and the scan of a block
  taken,       \* frames of pages given to folios (history)
  gave         \* how the last search ended (history)

ccVars == <<freepages, nrFree, nrMigrate, freePfn, contended>>
vars == <<layout, ccVars, folio, alloc, scan, taken, gave>>

Min2(m, n) == IF m < n THEN m ELSE n
AlignUp(n, to) == ((n + to - 1) \div to) * to
BlockOf(pfn) == pfn \div BlockPages
Frames(h, order) == h .. h + 2 ^ order - 1
\* Pages of the first n folios.
PagesOf[n \in 0 .. Len(Folios)] == IF n = 0 THEN 0 ELSE PagesOf[n - 1] + 2 ^ Folios[n]

SizeAssumption ==
  /\ FreeBlocks \in Nat \ {0} /\ {BlockOrder, ClusterOrder, FreeLimit} \subseteq Nat
  /\ Folios \in Seq(Order)

\* A zone is made of pages that share no frame.
Zone(l, kinds) ==
  /\ DOMAIN l \subseteq Nat /\ l \in [DOMAIN l -> [kind : kinds, order : Order]]
  /\ \A g, h \in DOMAIN l :
       g # h => Frames(g, l[g].order) \cap Frames(h, l[h].order) = {}
LayoutAssumption == \A l \in Layouts : Zone(l, {"free", "compound", "used"})

AtPc(pc) == alloc.pc = pc
\* compact_scanners_met()
Met == freePfn < 0

-----------------------------------------------------------------------------
Wanted == Folios[folio + 1]

\* compact_has_free_order() and compact_free_enough()
HasFreeOrder(lists, order) == \E o \in Order : o >= order /\ lists[o] # <<>>
\* Variant of the next definition: the limit holds between the calls only.
FreeEnoughOfOrder(lists, free, order) == free >= nrMigrate /\ HasFreeOrder(lists, order)
FreeEnough(lists, free, order) ==
  free >= nrMigrate /\ (HasFreeOrder(lists, order) \/ free >= FreeLimit)

\* compaction_alloc(), when it is called for a folio.
CompactionAlloc ==
  /\ AtPc("idle") /\ folio < Len(Folios)
  /\ alloc' = [pc |-> "look", calls |-> 0, pfn |-> freePfn, free |-> nrFree]
  /\ gave' = "none"
  /\ UNCHANGED <<layout, ccVars, folio, scan, taken>>

Served(lists, n) ==
  /\ freepages' = lists
  /\ nrFree' = nrFree - n /\ nrMigrate' = nrMigrate - 2 ^ Wanted
  /\ folio' = folio + 1
  /\ alloc' = [alloc EXCEPT !.pc = "idle"]

\* The first page of the least order that is enough, the rest of which goes
\* back to the lists.
TakeTarget ==
  /\ AtPc("look") /\ HasFreeOrder(freepages, Wanted)
  /\ LET o == CHOOSE o \in Order : /\ o >= Wanted /\ freepages[o] # <<>>
                                   /\ \A p \in Wanted .. o - 1 : freepages[p] = <<>>
         h == Head(freepages[o])
     IN /\ Served([p \in Order |->
             IF p = o THEN Tail(freepages[o])
             ELSE IF p \in Wanted .. o - 1 THEN <<h + 2 ^ p>> \o freepages[p]
             ELSE freepages[p]], 2 ^ Wanted)
        /\ taken' = taken \cup Frames(h, Wanted)
  /\ gave' = "target"
  /\ UNCHANGED <<layout, freePfn, contended, scan>>

\* No target: the folio does not move, and the pass goes on with the next.
\* (compaction_alloc() and migrate_pages_batch())
NoTarget(why) ==
  /\ folio' = folio + 1 /\ alloc' = [alloc EXCEPT !.pc = "idle"]
  /\ gave' = why
  /\ UNCHANGED <<layout, ccVars, scan, taken>>

\* Variant of the next definition: nobody asks whether a call got anywhere.
NeverStuck == FALSE
\* A call that changed nothing, but for the first.
Stuck == alloc.calls > 1 /\ alloc.pfn = freePfn /\ alloc.free = nrFree
Ends == { why \in {"single", "contended", "met", "limit", "no progress"} :
  /\ alloc.calls > 0
  /\ why = "single" => Wanted = 0
  /\ why = "contended" => contended
  /\ why = "met" => Met
  /\ why = "limit" => nrFree >= FreeLimit
  /\ why = "no progress" => Stuck }

GiveUp ==
  /\ AtPc("look") /\ ~HasFreeOrder(freepages, Wanted)
  /\ \E why \in Ends : NoTarget(why)

\* isolate_freepages(): the search goes on where it ended, with the stride of a
\* new one. fast_isolate_freepages() is not modelled; it may find nothing.
IsolateFreepages ==
  /\ AtPc("look") /\ ~HasFreeOrder(freepages, Wanted) /\ Ends = {}
  /\ \E stride \in {1, 2 ^ ClusterOrder} :
       scan' = [pfn |-> freePfn, start |-> freePfn, stride |-> stride, isolated |-> 0]
  /\ alloc' = [pc |-> IF Met \/ nrFree >= FreeLimit THEN "look" ELSE "scan",
            calls |-> Min2(alloc.calls + 1, 2), pfn |-> freePfn, free |-> nrFree]
  /\ UNCHANGED <<layout, ccVars, folio, taken, gave>>

-----------------------------------------------------------------------------
(* isolate_freepages_block() *)

EndOfBlock == (BlockOf(scan.start) + 1) * BlockPages

\* Variant of the next definition: to the end of the page, as before.
OntoUnaligned(past) == past - 1
\* Where the loop goes on from, before it adds the stride.
Onto(past) == AlignUp(past, scan.stride) - scan.stride

Sampled(pfn) == scan' = [scan EXCEPT !.pfn = pfn + scan.stride]
IsHead(pfn) == pfn \in DOMAIN layout
Scanning == AtPc("scan") /\ scan.pfn < EndOfBlock
NoChange == UNCHANGED <<layout, freepages, nrFree, nrMigrate, freePfn, contended, folio,
                        taken, gave>>

\* A compound page is passed over, if it begins here: a tail knows no order.
PassCompound ==
  /\ Scanning
  /\ IsHead(scan.pfn) /\ layout[scan.pfn].kind = "compound"
  /\ Sampled(Onto(scan.pfn + 2 ^ layout[scan.pfn].order))
  /\ UNCHANGED alloc /\ NoChange

CompoundTail(pfn) ==
  \E h \in DOMAIN layout : layout[h].kind = "compound" /\ pfn \in Frames(h, layout[h].order)
PassTail ==
  /\ Scanning
  /\ ~IsHead(scan.pfn) /\ CompoundTail(scan.pfn)
  /\ Sampled(Onto(scan.pfn + 1))
  /\ UNCHANGED alloc /\ NoChange

IsFree(pfn) == IsHead(pfn) /\ layout[pfn].kind = "free"
PassUsed ==
  /\ Scanning
  /\ ~IsFree(scan.pfn)
  /\ ~CompoundTail(scan.pfn)
  /\ Sampled(scan.pfn)
  /\ UNCHANGED alloc /\ NoChange

Isolate ==
  /\ Scanning /\ IsFree(scan.pfn)
  /\ LET o == layout[scan.pfn].order
         past == scan.pfn + 2 ^ o
         lists == [freepages EXCEPT ![o] = Append(@, scan.pfn)]
         free == nrFree + 2 ^ o
         stop == FreeEnough(lists, free, Wanted)
     IN /\ freepages' = lists /\ nrFree' = free
        /\ layout' = [h \in DOMAIN layout |->
                        IF h = scan.pfn THEN [layout[h] EXCEPT !.kind = "isolated"]
                                        ELSE layout[h]]
        /\ scan' = [scan EXCEPT !.isolated = @ + 1,
                                !.pfn = IF stop THEN past ELSE Onto(past) + scan.stride]
        /\ alloc' = [alloc EXCEPT !.pc = IF stop THEN "scanned" ELSE "scan"]
  /\ UNCHANGED <<nrMigrate, freePfn, contended, folio, taken, gave>>

\* The watermark does not allow it, or the lock is contended.
IsolateFails ==
  /\ Scanning
  /\ \/ IsFree(scan.pfn) /\ UNCHANGED contended
     \/ ~contended /\ contended' = TRUE
  /\ alloc' = [alloc EXCEPT !.pc = "scanned"]
  /\ UNCHANGED <<layout, freepages, nrFree, nrMigrate, freePfn, folio, scan, taken, gave>>

BlockScanned ==
  /\ AtPc("scan") /\ scan.pfn >= EndOfBlock
  /\ alloc' = [alloc EXCEPT !.pc = "scanned"]
  /\ UNCHANGED <<layout, ccVars, folio, scan, taken, gave>>

\* isolate_freepages() after a block: on to the block before it, which is the
\* last one once the scanners meet, with a stride that is doubled if nothing
\* was found.
NextBlock ==
  /\ AtPc("scanned")
  /\ LET pfn == Min2(scan.pfn, EndOfBlock)
         before == (BlockOf(scan.start) - 1) * BlockPages
         whole == pfn = EndOfBlock
     IN IF FreeEnough(freepages, nrFree, Wanted) \/ ~whole \/ before < 0
        THEN /\ freePfn' = IF whole THEN before ELSE pfn
             /\ alloc' = [alloc EXCEPT !.pc = "look"] /\ UNCHANGED scan
        ELSE /\ scan' = [pfn |-> before, start |-> before, isolated |-> 0,
                         stride |-> IF scan.isolated > 0 THEN 1
                                    ELSE Min2(2 ^ ClusterOrder, 2 * scan.stride)]
             /\ alloc' = [alloc EXCEPT !.pc = "scan"] /\ UNCHANGED freePfn
  /\ UNCHANGED <<layout, freepages, nrFree, nrMigrate, contended, folio, taken, gave>>

-----------------------------------------------------------------------------
Init ==
  /\ layout \in Layouts
  /\ freepages = [o \in Order |-> <<>>] /\ nrFree = 0
  /\ nrMigrate = PagesOf[Len(Folios)]
  /\ freePfn = (FreeBlocks - 1) * BlockPages
  /\ contended = FALSE /\ folio = 0
  /\ alloc = [pc |-> "idle", calls |-> 0, pfn |-> 0, free |-> 0]
  /\ scan = [pfn |-> 0, start |-> 0, stride |-> 1, isolated |-> 0]
  /\ taken = {} /\ gave = "none"

Next == \/ CompactionAlloc \/ TakeTarget \/ GiveUp \/ IsolateFreepages
        \/ PassCompound \/ PassTail \/ PassUsed \/ Isolate \/ IsolateFails
        \/ BlockScanned \/ NextBlock

Spec == Init /\ [][Next]_vars
\* The pass goes on.
LivelyScan == Spec /\ WF_vars(Next)

-----------------------------------------------------------------------------
Isolated == UNION { Frames(h, layout[h].order) :
                      h \in { h \in DOMAIN layout : layout[h].kind = "isolated" } }
Listed == UNION { UNION { Frames(freepages[o][i], o) : i \in DOMAIN freepages[o] } :
                    o \in Order }

\* The claims of the patch: of a block that is scanned from an aligned frame no
\* free page that begins on a sample is passed over, whatever compound and free
\* pages of other sizes are between them; never is more isolated than the limit,
\* or what is to be migrated, and one page; and every frame isolated is on a list
\* or was given to one folio.
ScannedWell ==
  /\ AtPc("scan") /\ scan.start % scan.stride = 0 =>
       \A h \in scan.start .. scan.pfn - 1 : h % scan.stride = 0 => ~IsFree(h)
  /\ nrFree < (IF nrMigrate < FreeLimit THEN FreeLimit ELSE nrMigrate) + BlockPages
  /\ nrFree = Cardinality(Listed)
  /\ Listed \cup taken = Isolated /\ Listed \cap taken = {}

\* Whatever the zone holds, a folio is answered.
SearchEnds == alloc.pc # "idle" ~> alloc.pc = "idle"
=============================================================================

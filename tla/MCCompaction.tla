---------------------------- MODULE MCCompaction ----------------------------
(***************************************************************************)
(* Two parts of compaction: the passes over mobile caches and the free     *)
(* scanner. They share nothing: each behaviour is one of MobileCaches, or  *)
(* one of FreeScan, while the other component stays in an initial state.   *)
(***************************************************************************)
EXTENDS MobileCaches, TLC

CONSTANTS FreeBlocks, BlockOrder, Layouts, ClusterOrder, FreeLimit, Folios

VARIABLES layout, freepages, nrFree, nrMigrate, freePfn, contended, folio, alloc, scan,
          taken, gave
VARIABLE component

Scan == INSTANCE FreeScan
ASSUME ScanAssumption == Scan!SizeAssumption /\ Scan!LayoutAssumption
scanVars == <<layout, freepages, nrFree, nrMigrate, freePfn, contended, folio, alloc, scan,
              taken, gave>>

-----------------------------------------------------------------------------
(* Two blocks of eight pages. *)

F(o) == [kind |-> "free", order |-> o]
C(o) == [kind |-> "compound", order |-> o]
U == [kind |-> "used", order |-> 0]

\* All blocks of so many pages.
AllOf[n \in 0 .. 2] ==
  IF n = 0 THEN {<<F(0)>>, <<U>>}
           ELSE {<<F(n)>>, <<C(n)>>} \cup { x \o y : x, y \in AllOf[n - 1] }

Laid(pages) ==
  LET start == [i \in DOMAIN pages |->
                  FoldSeq(LAMBDA x, n : n + 2 ^ x.order, 0, SubSeq(pages, 1, i - 1))]
  IN [h \in Range(start) |-> pages[CHOOSE i \in DOMAIN pages : start[i] = h]]

\* The lower half of each block is mixed. Its third quarter takes every form, its
\* last one holds a folio and a free pair or is torn. Three more: an upper half that
\* is one free page, one that is two folios of which the last is free, and a zone of
\* many free pages below the order that is wanted.
Mixed == <<U, F(0), F(1), C(2)>>
Thirds == { x \o y : x \in AllOf[1], y \in {<<C(1)>>, <<F(0), U>>} } \cup {<<F(2)>>, <<C(2)>>}
SomeLayouts ==
  { Laid(Mixed \o x \o y) : x \in Thirds, y \in {<<C(1), F(1)>>, <<U, F(0), U, U>>} }
  \cup { Laid(Mixed \o <<F(3)>>), Laid(Mixed \o <<C(2), F(2)>>),
         Laid([i \in 1 .. 8 |-> F(0)] \o [i \in 1 .. 4 |-> F(1)]) }
Orders == <<0, 2>>

-----------------------------------------------------------------------------
InCaches == component = "caches"
InScan == component = "scan"
NoScan == UNCHANGED <<scanVars, component>>
NoCaches == UNCHANGED <<vars, component>>

InitOfOne ==
  /\ component \in {"caches", "scan"}
  /\ Init /\ Scan!Init
  /\ InCaches => layout = CHOOSE l \in Layouts : TRUE

NextOfOne ==
  \/ \E c \in Cache :
       \/ (InCaches /\ Create(c) /\ NoScan)
       \/ (InCaches /\ kmem_cache_setup_mobility(c) /\ NoScan)
       \/ (InCaches /\ Publish(c) /\ NoScan)
       \/ (InCaches /\ FirstSlab(c) /\ NoScan) \/ (InCaches /\ Close(c) /\ NoScan)
       \/ \E n \in Node, count \in 0 .. MaxPartial : InCaches /\ Churn(c, n, count) /\ NoScan
       \/ (InCaches /\ LockSlab(c) /\ NoScan)
       \/ (InCaches /\ kmem_cache_teardown_mobility(c) /\ NoScan)
       \/ (InCaches /\ Destroyed(c) /\ NoScan)
  \/ (InCaches /\ PlugWait /\ NoScan) \/ (InCaches /\ PlugBegin /\ NoScan)
  \/ (InCaches /\ PlugSlab /\ NoScan) \/ (InCaches /\ PlugEnd /\ NoScan)
  \/ \E t \in Task :
       \/ \E nodes \in NodeSets :
            \/ (InCaches /\ Start(t, nodes) /\ NoScan)
            \/ \E c \in Cache : InCaches /\ StartDirect(t, c, nodes) /\ NoScan
       \/ (InCaches /\ EnterPass(t) /\ NoScan) \/ (InCaches /\ NextCache(t) /\ NoScan)
       \/ (InCaches /\ Consider(t) /\ NoScan) \/ (InCaches /\ AllocFail(t) /\ NoScan)
       \/ (InCaches /\ AllocDone(t) /\ NoScan)
       \/ \E n \in Node, freed \in 0 .. MaxPartial, more \in 0 .. 1 :
            InCaches /\ WorkNode(t, n, freed, more) /\ NoScan
       \/ (InCaches /\ Judge(t) /\ NoScan) \/ (InCaches /\ LeavePass(t) /\ NoScan)
  \/ (InScan /\ Scan!CompactionAlloc /\ NoCaches) \/ (InScan /\ Scan!TakeTarget /\ NoCaches)
  \/ (InScan /\ Scan!GiveUp /\ NoCaches) \/ (InScan /\ Scan!IsolateFreepages /\ NoCaches)
  \/ (InScan /\ Scan!PassCompound /\ NoCaches) \/ (InScan /\ Scan!PassTail /\ NoCaches)
  \/ (InScan /\ Scan!PassUsed /\ NoCaches) \/ (InScan /\ Scan!Isolate /\ NoCaches)
  \/ (InScan /\ Scan!IsolateFails /\ NoCaches) \/ (InScan /\ Scan!BlockScanned /\ NoCaches)
  \/ (InScan /\ Scan!NextBlock /\ NoCaches)

\* The fairness of MobileCaches, and of FreeScan.
SpecOfOne ==
  /\ InitOfOne /\ [][NextOfOne]_<<vars, scanVars, component>>
  /\ \A c \in Cache : WF_vars(InCaches /\ Publish(c)) /\ SF_vars(InCaches /\ Destroying(c))
  /\ SF_vars(InCaches /\ Plugging)
  /\ \A t \in Task : SF_vars(InCaches /\ EnterPass(t)) /\ WF_vars(InCaches /\ Inside(t))
  /\ \A t \in Pass : WF_vars(InCaches /\ Begin(t))
  /\ WF_scanVars(InScan /\ Scan!Next)

\* FreeScan's ScannedWell: what the samples may not pass over, and how much is
\* isolated. (isolate_freepages_block())
ScannedWell == Scan!ScannedWell

\* FreeScan's SearchEnds: a folio is answered. (compaction_alloc())
SearchEnds == Scan!SearchEnds
=============================================================================

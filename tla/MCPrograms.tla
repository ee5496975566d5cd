----------------------------- MODULE MCPrograms -----------------------------
(***************************************************************************)
(* The Go programs: those that load and check a machine (Workers,          *)
(* MmapCheck), the scan of fragview (FragScan), and its snapshots and      *)
(* comparisons (FragReport); and what fills the pages of ZFS files that    *)
(* they read (PageFill). They share nothing: each behaviour is one of one  *)
(* of them, while the others stay in an initial state.                     *)
(***************************************************************************)
EXTENDS Workers, TLC

CONSTANTS
  NBlocks, MaxShare, Scanner, First, Nothing,
  PagesPerBlock, Ranges, Guests, Buffer, EndPFN, Changes, Assertions, Value,
  Checks, Seconds, Stall,
  Pages, Parts, Ahead, Filler, Writer, Piece

VARIABLES counts, scratch, cursor, wantFull, paused, share, scan, owed
VARIABLES phase, guest, pages, still, blk, census, movable, files, printed, measured,
          groups, verdicts, status
VARIABLES check, outcome, out, place, writer, inject, file, cached, want, got, t, stalled,
          idle, progress
VARIABLES resident, uptodate, lock, bytes, range, at
VARIABLE component

Scan == INSTANCE FragScan
Report == INSTANCE FragReport WITH memory <- pages, counts <- census
Mmap == INSTANCE MmapCheck WITH result <- outcome, pc <- place, still <- stalled
Fill == INSTANCE PageFill WITH cached <- resident, data <- bytes

scanVars == <<counts, scratch, cursor, wantFull, paused, share, scan, owed>>
reportVars == <<phase, guest, pages, still, blk, census, movable, files, printed, measured,
                groups, verdicts, status>>
mmapVars == <<check, outcome, out, place, writer, inject, file, cached, want, got, t,
              stalled, idle, progress>>
fillVars == <<resident, uptodate, lock, bytes, range, at>>

ASSUME ProgramsAssumption ==
  /\ Scan!SizeAssumption /\ Scan!ScannerAssumption /\ Scan!NothingAssumption
  /\ Report!PagesAssumption /\ Report!RangesAssumption
  /\ Report!BufferAssumption /\ Report!EndAssumption /\ Report!GuestsAssumption
  /\ Mmap!SecondsAssumption
  /\ Fill!SizesAssumption /\ Fill!TasksAssumption

-----------------------------------------------------------------------------
(* The machines of a comparison. Blocks of 18 pages: two used ones leave a
   hostage. The first block begins outside RAM and the fourth one in a hole, the
   last one ends with it. *)

HoledRAM == << [first |-> 1, last |-> 53], [first |-> 60, last |-> 80] >>
InHoledRAM(p) == \E i \in DOMAIN HoledRAM : HoledRAM[i].first <= p /\ p <= HoledRAM[i].last

Slab == {"slab"}
Arc == {"private", "comp_head"}
Lru == {"lru", "uptodate"}
Busy == [i \in 1 .. 9 |-> Lru]

PageOf(pattern, p) ==
  IF ~InHoledRAM(p) THEN {"nopage"}
  ELSE IF (p % 18) + 1 \in DOMAIN pattern THEN pattern[(p % 18) + 1] ELSE {"buddy"}
Memory(patterns) == [p \in 0 .. 80 |-> PageOf(patterns[(p \div 18) + 1], p)]

Machine(build, moves, memories, huge) ==
  [label |-> <<build, "/", "warm">>, movable |-> moves,
   memories |-> { Memory(m) : m \in memories }, orders |-> <<3, 1>>,
   stats |-> [hugepages |-> huge]]

SomeMachines == <<
  Machine("stock", FALSE, { << <<>>, <<Arc>>, <<Slab, Arc>>, <<>>, <<Slab>> >>,
                            << <<Arc>>, <<Lru>>, <<Slab>>, <<>>, <<>> >> }, 4),
  Machine("patched", TRUE, { << <<>>, <<Arc>>, <<Slab, Arc>>, <<Slab>>, <<>> >>,
                             << <<>>, <<Arc>>, Busy, <<Arc>>, <<>> >> }, 5),
  Machine("stock", FALSE, { << <<Slab>>, <<Arc, Slab>>, <<{}, {"mmap"}>>,
                               <<{"anon", "lru"}>>, <<Slab>> >> }, 9),
  Machine("patched", TRUE, { << <<>>, <<Arc>>, <<Slab>>, <<>>, <<>> >> }, 1),
  Machine("patched", TRUE, { << <<>>, <<Arc>>, <<>>, <<Slab>>, <<>> >> }, 2) >>

SomeChanges == { [pfn |-> 40, flags |-> Slab] }

Hundredths == ("0" :> 0) @@ ("0.5" :> 50) @@ ("0.8" :> 80) @@ ("1" :> 100)
                @@ ("3" :> 300) @@ ("9" :> 900)

SomeAssertions == {
  << <<"hostage", ":", "stock", "->", "patched", "<=", "0.8">>,
     <<"pinned", ":", "stock", "->", "patched", "?skip", "<=", "0.5", "@",
       "slab_in", ":", "3">> >>,
  << <<"hugepages", ":", "stock", "->", "patched", ">=", "1", "@", "hugepages", ":", "0",
       ":", "9">> >>,
  << <<"hugepages", ":", "stock", "->", "patched", "<=", "9", "@", "hugepages", ":", "0",
       ":", "3">> >>,
  << <<"hugepages", ":", "stock", "->", "patched", ">=", "0.5", "@", "mixed", ":", "1",
       ":", "9">> >>,
  << <<"hugepages", ":", "stock", "->", "patched", ">=", "1", "@", "", ":", "1", ":", "9">> >>,
  << <<"hostage", ":", "stock", "->", "mainline", "<=", "1">> >>,
  << <<"typo", ":", "stock", "->", "patched", "<=", "1">> >>,
  << <<"hostage", ":", "stock", "->", "patched", "<", "1">> >>,
  << <<"mixed", ":", "stock", "->", "patched", "<=", "1">>,
     <<"arc_in", ":", "patched", "->", "stock", "?skip", ">=", "1">> >> }

-----------------------------------------------------------------------------
InWorkers == component = "workers"
InScan == component = "scan"
InReport == component = "report"
InMmap == component = "mmap"
InFill == component = "fill"
OnlyWorkers == UNCHANGED <<scanVars, reportVars, mmapVars, fillVars, component>>
OnlyScan == UNCHANGED <<vars, reportVars, mmapVars, fillVars, component>>
OnlyReport == UNCHANGED <<vars, scanVars, mmapVars, fillVars, component>>
OnlyMmap == UNCHANGED <<vars, scanVars, reportVars, fillVars, component>>
OnlyFill == UNCHANGED <<vars, scanVars, reportVars, mmapVars, component>>

InitOfOne ==
  /\ component \in {"workers", "scan", "report", "mmap", "fill"}
  /\ Init /\ Scan!Init /\ Report!Init /\ Mmap!Init /\ Fill!Init
  /\ ~InWorkers => program = CHOOSE p \in Programs : TRUE
  /\ ~InScan => share = 1 /\ owed = {}
  /\ ~InMmap => check = CHOOSE c \in Checks : TRUE

NextOfOne ==
  \/ \E w \in Worker :
       \/ (InWorkers /\ Claim(w) /\ OnlyWorkers) \/ (InWorkers /\ WriteFile(w) /\ OnlyWorkers)
       \/ (InWorkers /\ ReadFile(w) /\ OnlyWorkers) \/ (InWorkers /\ CopySpan(w) /\ OnlyWorkers)
       \/ (InWorkers /\ ReadSpan(w) /\ OnlyWorkers)
       \/ (InWorkers /\ WriteChunk(w) /\ OnlyWorkers)
       \/ (InWorkers /\ CloseFile(w) /\ OnlyWorkers) \/ (InWorkers /\ Fails(w) /\ OnlyWorkers)
       \/ (InWorkers /\ Send(w) /\ OnlyWorkers) \/ (InWorkers /\ Verified(w) /\ OnlyWorkers)
       \/ (InWorkers /\ Differs(w) /\ OnlyWorkers) \/ (InWorkers /\ Swap(w) /\ OnlyWorkers)
       \/ (InWorkers /\ Look(w) /\ OnlyWorkers) \/ (InWorkers /\ CopyRange(w) /\ OnlyWorkers)
       \/ (InWorkers /\ OpenFails(w) /\ OnlyWorkers)
       \/ (InWorkers /\ CopyFails(w) /\ OnlyWorkers)
       \/ (InWorkers /\ Copied(w) /\ OnlyWorkers) \/ (InWorkers /\ Store(w) /\ OnlyWorkers)
       \/ (InWorkers /\ Touch(w) /\ OnlyWorkers)
  \/ (InWorkers /\ PrepareFails /\ OnlyWorkers)
  \/ (InWorkers /\ HotPass /\ OnlyWorkers) \/ (InWorkers /\ HogPass /\ OnlyWorkers)
  \/ (InWorkers /\ TouchAll /\ OnlyWorkers) \/ (InWorkers /\ NextPass /\ OnlyWorkers)
  \/ (InWorkers /\ Return /\ OnlyWorkers) \/ (InWorkers /\ Expire /\ OnlyWorkers)
  \/ \E s \in Scanner :
       \/ (InScan /\ Scan!Begin(s) /\ OnlyScan) \/ (InScan /\ Scan!Read(s) /\ OnlyScan)
       \/ (InScan /\ Scan!ReadFails(s) /\ OnlyScan) \/ (InScan /\ Scan!Publish(s) /\ OnlyScan)
       \/ (InScan /\ Scan!Advance(s) /\ OnlyScan) \/ (InScan /\ Scan!Done(s) /\ OnlyScan)
       \/ (InScan /\ Scan!Tick(s) /\ OnlyScan)
  \/ (InScan /\ Scan!Compact /\ OnlyScan) \/ (InScan /\ Scan!TogglePause /\ OnlyScan)
  \/ (InScan /\ Scan!Faster /\ OnlyScan) \/ (InScan /\ Scan!Slower /\ OnlyScan)
  \/ (InReport /\ Report!Boot /\ OnlyReport) \/ (InReport /\ Report!ReadBlocks /\ OnlyReport)
  \/ (InReport /\ Report!ReadBlocksFails /\ OnlyReport)
  \/ (InReport /\ Report!Change /\ OnlyReport) \/ (InReport /\ Report!Dump /\ OnlyReport)
  \/ (InReport /\ Report!ReadSnapshot /\ OnlyReport)
  \/ (InReport /\ Report!ReadSnapshotFails /\ OnlyReport)
  \/ (InReport /\ Report!Conclude /\ OnlyReport) \/ (InReport /\ Report!WriteFails /\ OnlyReport)
  \/ (InMmap /\ Mmap!Open /\ OnlyMmap) \/ (InMmap /\ Mmap!StartWriter /\ OnlyMmap)
  \/ (InMmap /\ Mmap!Write /\ OnlyMmap) \/ (InMmap /\ Mmap!Willneed /\ OnlyMmap)
  \/ (InMmap /\ Mmap!Wait /\ OnlyMmap) \/ (InMmap /\ Mmap!Punch /\ OnlyMmap)
  \/ (InMmap /\ Mmap!Compare /\ OnlyMmap) \/ (InMmap /\ Mmap!Fails /\ OnlyMmap)
  \/ (InMmap /\ Mmap!Begin /\ OnlyMmap) \/ (InMmap /\ Mmap!Progress /\ OnlyMmap)
  \/ (InMmap /\ Mmap!Second /\ OnlyMmap) \/ (InMmap /\ Mmap!WriteFails /\ OnlyMmap)
  \/ \E task \in Ahead :
       \/ (InFill /\ Fill!TryRange(task) /\ OnlyFill)
       \/ \E held \in BOOLEAN : (InFill /\ Fill!HoldPiece(task, held) /\ OnlyFill)
       \/ (InFill /\ Fill!FillNext(task) /\ OnlyFill)
       \/ (InFill /\ Fill!ExitRange(task) /\ OnlyFill)
       \/ \E keep \in BOOLEAN : (InFill /\ Fill!LeaveUntaken(task, keep) /\ OnlyFill)
       \/ (InFill /\ Fill!EndReadahead(task) /\ OnlyFill)
       \/ \E from, to \in 0..Pages : (InFill /\ Fill!WillNeed(task, from, to) /\ OnlyFill)
  \/ \E task \in Filler :
       \/ (InFill /\ Fill!UnlockForRange(task) /\ OnlyFill)
       \/ (InFill /\ Fill!RangeForPage(task) /\ OnlyFill)
       \/ (InFill /\ Fill!LockPage(task) /\ OnlyFill) \/ (InFill /\ Fill!FillOne(task) /\ OnlyFill)
       \/ (InFill /\ Fill!EndFill(task) /\ OnlyFill)
       \/ \E p \in Fill!Page : \/ (InFill /\ Fill!StartFault(task, p) /\ OnlyFill)
                             \/ (InFill /\ Fill!StartRead(task, p) /\ OnlyFill)
  \/ \E task \in Writer :
       \/ (InFill /\ Fill!RangeForWrite(task) /\ OnlyFill)
       \/ (InFill /\ Fill!WriteFile(task) /\ OnlyFill)
       \/ (InFill /\ Fill!UpdatePage(task) /\ OnlyFill)
       \/ (InFill /\ Fill!EndWrite(task) /\ OnlyFill)
       \/ \E kind \in {"write", "punch"}, span \in Fill!Runs :
            (InFill /\ Fill!StartWrite(task, kind, span) /\ OnlyFill)
  \/ \E p \in Fill!Page : (InFill /\ Fill!Drop(p) /\ OnlyFill)

\* The fairness of Workers, of FragScan and of PageFill.
SpecOfOne ==
  /\ InitOfOne /\ [][NextOfOne]_<<vars, scanVars, reportVars, mmapVars, fillVars, component>>
  /\ WF_vars(InWorkers /\ Main) /\ WF_vars(InWorkers /\ Expire)
  /\ \A w \in Worker : WF_vars(InWorkers /\ Work(w))
  /\ \A s \in Scanner : WF_scanVars(InScan /\ Scan!Work(s))
  /\ \A task \in Ahead : WF_fillVars(InFill /\ Fill!Reading(task))
  /\ \A task \in Filler : SF_fillVars(InFill /\ Fill!Filling(task))
  /\ \A task \in Writer : SF_fillVars(InFill /\ Fill!Writing(task))

-----------------------------------------------------------------------------
\* Workers' Returns: every pool comes to an end. (wg.Wait() of the programs)
Returned == InWorkers => Returns

\* FragScan's CountsOfTheirBlock: no block shows another's pages. (scan())
CountsOfTheirBlock == Scan!CountsOfTheirBlock

\* FragScan's SweepServed and Refreshed: a request for the whole map is served, and
\* every block is read again and again. (key(), scan())
Rescanned == Scan!SweepServed /\ (InScan => Scan!Refreshed)

\* FragReport's CountsAreCensus and ReportAdds: each page is counted once, where it
\* is, and what is reported of the counts adds up. (refreshInto(), hostageReport())
CountsAreCensus == Report!CountsAreCensus /\ Report!ReportAdds

\* FragReport's HostagesSeen: each hostage is drawn, and nothing else as one.
\* (cellFor(), blockMap())
HostagesSeen == Report!HostagesSeen

\* FragReport's MeasuredAsDumped: the host finds what the guest printed.
\* (readSnapshot(), measure())
MeasuredAsDumped == Report!MeasuredAsDumped

\* FragReport's JudgedFairly: the verdict says what the table says, of machines that
\* were not saturated if there are any. (judge())
JudgedFairly == Report!JudgedFairly

\* FragReport's CapSaysNothing: saturated machines alone show nothing. (judge())
CapSaysNothing == Report!CapSaysNothing

\* MmapCheck's ToldTrue: faults and hangs there are, and no others, are reported.
\* (subpage(), zeropage(), deadlock())
ToldTrue == Mmap!ToldTrue

\* PageFill's PageShowsFile: mmap and pread() show the same file. (zpl_readahead(),
\* zfs_fillpage(), update_pages())
PageShowsFile == Fill!PageShowsFile

\* PageFill's BatchOfOneState: no write shows in some of a batch's pages only.
\* (zfs_fillpages())
BatchOfOneState == Fill!BatchOfOneState

\* PageFill's AllEnd: page locks and range locks are not waited for in a circle.
\* (zpl_readahead(), zfs_getpage(), mappedread())
AllEnd == InFill => Fill!AllEnd
=============================================================================

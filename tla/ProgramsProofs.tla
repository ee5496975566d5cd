--------------------------- MODULE ProgramsProofs ---------------------------
(***************************************************************************)
(* Proofs about the programs: the scan of fragview (FragScan), for a map   *)
(* of any size, slices of any size and any number of goroutines that might *)
(* scan; mmapcheck (MmapCheck), for a hang of any length; what fragview    *)
(* makes of any machines (FragReport); the programs that load and check a  *)
(* machine, for any number of goroutines, files and units (Workers); and   *)
(* all of them side by side, with the pages of the files (PageFill).       *)
(***************************************************************************)
EXTENDS MCPrograms, FiniteSetTheorems, WellFoundedInduction, TLAPS

-----------------------------------------------------------------------------
(* FragScan. *)

\* The chain of scans is one chain.
OneScan == \A s \in Scanner : ~Scan!At(s, "none") => s = First

\* What a scan has in its hands: a slice of the map that is not empty, of which
\* the part it has read is in scratch space, each block in its place.
HasRead(s) ==
  /\ scan[s].from <= scan[s].next /\ scan[s].next <= scan[s].to
  /\ \A b \in scan[s].from .. scan[s].next - 1 : scratch[b - scan[s].from] = b

ScanInv ==
  /\ Scan!TypeOK /\ OneScan /\ Scan!CountsOfTheirBlock
  /\ \A s \in Scanner : Scan!At(s, "read") => HasRead(s)

Places == {"none", "start", "read", "published", "failed", "done", "waiting"}

LEMMA IdleIsState == Scan!Idle \in Scan!ScanState
BY ProgramsAssumption DEF Scan!SizeAssumption, Scan!Idle, Scan!ScanState

\* What a field of a scan is, and what remains when its place changes.
LEMMA Fields ==
  ASSUME NEW r \in Scan!ScanState
  PROVE  /\ r.pc \in Places /\ r.full \in BOOLEAN /\ r.step \in Nat
         /\ r.from \in 0 .. NBlocks /\ r.to \in 0 .. NBlocks /\ r.next \in 0 .. NBlocks
BY DEF Scan!ScanState, Places

LEMMA NewPlace ==
  ASSUME NEW r \in Scan!ScanState, NEW p \in Places
  PROVE  /\ [r EXCEPT !.pc = p] \in Scan!ScanState
         /\ [r EXCEPT !.pc = p].pc = p
         /\ [r EXCEPT !.pc = p].from = r.from
         /\ [r EXCEPT !.pc = p].to = r.to
         /\ [r EXCEPT !.pc = p].next = r.next
BY DEF Scan!ScanState, Places

LEMMA NewLate ==
  ASSUME NEW r \in Scan!ScanState
  PROVE  /\ [r EXCEPT !.late = TRUE] \in Scan!ScanState
         /\ [r EXCEPT !.late = TRUE].pc = r.pc
         /\ [r EXCEPT !.late = TRUE].from = r.from
         /\ [r EXCEPT !.late = TRUE].to = r.to
         /\ [r EXCEPT !.late = TRUE].next = r.next
BY DEF Scan!ScanState

\* A step that only changes what scans are at, and none of them to reading, breaks
\* nothing.
LEMMA ScanOn ==
  ASSUME ScanInv, NEW s \in Scanner, ~Scan!At(s, "none"),
         NEW e \in Scan!ScanState, e.pc \notin {"none", "read"},
         scan' = [scan EXCEPT ![s] = e],
         UNCHANGED <<scratch, paused, share>>,
         counts' \in [Scan!Block -> Scan!Block \cup {Nothing}], Scan!CountsOfTheirBlock',
         cursor' \in Scan!Block, wantFull' \in BOOLEAN, owed' \subseteq Scan!Block
  PROVE  ScanInv'
<1>1. scan' \in [Scanner -> Scan!ScanState] /\ scan'[s] = e
      /\ \A u \in Scanner : u # s => scan'[u] = scan[u]
  BY DEF ScanInv, Scan!TypeOK
<1>2. Scan!TypeOK'
  BY <1>1 DEF ScanInv, Scan!TypeOK
<1>3. OneScan'
  BY <1>1 DEF ScanInv, OneScan, Scan!At
<1>4. \A u \in Scanner : Scan!At(u, "read")' => HasRead(u)'
  BY <1>1 DEF ScanInv, Scan!At, HasRead
<1> QED
  BY <1>2, <1>3, <1>4 DEF ScanInv

LEMMA ScanInitOK == Scan!Init => ScanInv
<1> SUFFICES ASSUME Scan!Init PROVE ScanInv
  OBVIOUS
<1> USE ProgramsAssumption
    DEF Scan!SizeAssumption, Scan!ScannerAssumption, Scan!NothingAssumption
<1>1. scan \in [Scanner -> Scan!ScanState]
  <2>1. \A p \in {"none", "start"} : [Scan!Idle EXCEPT !.pc = p] \in Scan!ScanState
    BY IdleIsState, NewPlace DEF Places
  <2> QED
    BY <2>1 DEF Scan!Init
<1>2. share \in Nat \ {0} /\ 0 \in Scan!Block
  BY DEF Scan!Init, Scan!Block
<1>3. Scan!TypeOK
  BY <1>1, <1>2 DEF Scan!TypeOK, Scan!Init
<1>4. OneScan /\ Scan!CountsOfTheirBlock
  BY DEF OneScan, Scan!CountsOfTheirBlock, Scan!At, Scan!Idle, Scan!Init
<1>5. \A s \in Scanner : ~Scan!At(s, "read")
  BY DEF Scan!At, Scan!Idle, Scan!Init
<1> QED
  BY <1>3, <1>4, <1>5 DEF ScanInv

\* The slice a scan takes is within the map, and not empty.
LEMMA SliceInMap ==
  ASSUME Scan!TypeOK, NEW s \in Scanner, Scan!Begin(s)
  PROVE  /\ scan'[s].from \in Scan!Block /\ scan'[s].to \in 1 .. NBlocks
         /\ scan'[s].from < scan'[s].to /\ scan'[s].next = scan'[s].from
         /\ scan'[s].step \in Nat /\ scan'[s].full \in BOOLEAN /\ scan'[s].late = FALSE
         /\ scan'[s].pc \in {"read", "done"}
         /\ \A u \in Scanner : u # s => scan'[u] = scan[u]
         /\ scan' \in [Scanner -> Scan!ScanState]
<1> DEFINE chunk == IF wantFull THEN NBlocks ELSE Scan!Most(NBlocks \div share, 1)
           from == IF wantFull THEN 0 ELSE cursor
<1> USE ProgramsAssumption DEF Scan!SizeAssumption
<1>1. NBlocks \div share \in Nat
  BY DEF Scan!TypeOK
<1>2. chunk \in Nat \ {0} /\ from \in Scan!Block
  BY <1>1 DEF Scan!TypeOK, Scan!Most, Scan!Block
<1>3. /\ Scan!Least(from + chunk, NBlocks) \in 1 .. NBlocks
      /\ from < Scan!Least(from + chunk, NBlocks)
  <2> HIDE DEF chunk, from
  <2> QED
    BY <1>2 DEF Scan!Least, Scan!Block
<1>4. scan' = [scan EXCEPT ![s] =
        [pc |-> IF wantFull \/ ~paused THEN "read" ELSE "done",
         from |-> from, to |-> Scan!Least(from + chunk, NBlocks), next |-> from,
         full |-> wantFull, step |-> chunk, late |-> FALSE]]
  BY DEF Scan!Begin
<1> HIDE DEF chunk, from
<1> QED
  BY <1>2, <1>3, <1>4 DEF Scan!TypeOK, Scan!Block, Scan!ScanState

LEMMA ScanStepOK ==
  ASSUME ScanInv, [Scan!Next]_(Scan!vars)
  PROVE  ScanInv'
<1> USE ProgramsAssumption
    DEF Scan!SizeAssumption, Scan!ScannerAssumption, Scan!NothingAssumption, ScanInv
<1>1. ASSUME NEW s \in Scanner, Scan!Begin(s) PROVE ScanInv'
  <2>1. Scan!TypeOK'
    BY <1>1, SliceInMap DEF Scan!Begin, Scan!TypeOK
  <2>2. OneScan' /\ Scan!CountsOfTheirBlock'
    BY <1>1, SliceInMap DEF Scan!Begin, Scan!At, OneScan, Scan!CountsOfTheirBlock
  <2>3. \A u \in Scanner : Scan!At(u, "read")' => HasRead(u)'
    <3>1. \A u \in Scanner : u # s => ~Scan!At(u, "read")'
      BY <1>1, SliceInMap DEF Scan!Begin, Scan!At, OneScan
    <3>2. HasRead(s)'
      <4>1. /\ scan'[s].from \in Scan!Block /\ scan'[s].to \in 1 .. NBlocks
            /\ scan'[s].from < scan'[s].to /\ scan'[s].next = scan'[s].from
        BY <1>1, SliceInMap
      <4> QED
        BY <4>1 DEF HasRead, Scan!Block
    <3> QED
      BY <3>1, <3>2
  <2> QED
    BY <2>1, <2>2, <2>3
<1>2. ASSUME NEW s \in Scanner, Scan!Read(s) PROVE ScanInv'
  <2>1. /\ scan[s].from \in 0 .. NBlocks /\ scan[s].next \in 0 .. NBlocks - 1
        /\ scan[s].from <= scan[s].next /\ scan[s].next + 1 <= scan[s].to
    <3>1. scan[s] \in Scan!ScanState /\ HasRead(s) /\ scan[s].next < scan[s].to
      BY <1>2 DEF Scan!Read, Scan!TypeOK
    <3> QED
      BY <3>1, Fields DEF HasRead
  <2>2. /\ scan'[s] = [scan[s] EXCEPT !.next = scan[s].next + 1]
        /\ \A u \in Scanner \ {s} : scan'[u] = scan[u]
    BY <1>2 DEF Scan!Read, Scan!TypeOK
  <2>3. Scan!TypeOK'
    <3>1. scratch' \in [Scan!Block -> Scan!Block \cup {Nothing}]
      BY <1>2, <2>1 DEF Scan!Read, Scan!TypeOK, Scan!Block
    <3>2. scan'[s] \in Scan!ScanState
      BY <2>1, <2>2 DEF Scan!TypeOK, Scan!ScanState
    <3>3. scan' \in [Scanner -> Scan!ScanState]
      BY <1>2, <2>2, <3>2 DEF Scan!Read, Scan!TypeOK
    <3> QED
      BY <1>2, <3>1, <3>3 DEF Scan!Read, Scan!TypeOK
  <2>4. OneScan' /\ Scan!CountsOfTheirBlock'
    BY <1>2, <2>2 DEF Scan!Read, Scan!TypeOK, Scan!At, OneScan, Scan!CountsOfTheirBlock
  <2>5. HasRead(s)'
    <3>1. scan'[s].from = scan[s].from /\ scan'[s].to = scan[s].to
          /\ scan'[s].next = scan[s].next + 1
      BY <2>2 DEF Scan!TypeOK
    <3>2. ASSUME NEW b \in scan[s].from .. scan[s].next
          PROVE  scratch'[b - scan[s].from] = b
      <4> DEFINE i == scan[s].next - scan[s].from
      <4>1. i \in Scan!Block /\ b - scan[s].from \in Scan!Block /\ i \in Int
        BY <2>1 DEF Scan!Block
      <4>2. scratch' = [scratch EXCEPT ![i] = scan[s].next]
        BY <1>2 DEF Scan!Read
      <4>3. /\ scratch' \in [Scan!Block -> Scan!Block \cup {Nothing}]
            /\ DOMAIN scratch = Scan!Block
        BY <2>3 DEF Scan!TypeOK
      <4>4. CASE b = scan[s].next
        BY <4>1, <4>2, <4>3, <4>4
      <4>5. CASE b # scan[s].next
        <5>1. b \in scan[s].from .. scan[s].next - 1 /\ b - scan[s].from # i
          BY <2>1, <4>5
        <5>2. scratch[b - scan[s].from] = b
          BY <1>2, <5>1 DEF Scan!Read, HasRead
        <5> QED
          BY <4>1, <4>2, <4>3, <5>1, <5>2
      <4> QED
        BY <4>4, <4>5
    <3> QED
      BY <2>1, <3>1, <3>2 DEF HasRead
  <2>6. \A u \in Scanner : u # s => ~Scan!At(u, "read")'
    BY <1>2, <2>2 DEF Scan!Read, OneScan, Scan!At
  <2> QED
    BY <2>3, <2>4, <2>5, <2>6
<1>3. ASSUME NEW s \in Scanner, Scan!Publish(s) PROVE ScanInv'
  <2>1. /\ HasRead(s) /\ scan[s].next = scan[s].to
        /\ scan[s] \in Scan!ScanState /\ Scan!At(s, "read")
    BY <1>3 DEF Scan!Publish, Scan!TypeOK
  <2>2. \A b \in Scan!Range(s) : scratch[b - scan[s].from] = b /\ b \in Scan!Block
    BY <2>1, Fields DEF HasRead, Scan!Range, Scan!Block
  <2>3. Scan!CountsOfTheirBlock'
    BY <1>3, <2>2 DEF Scan!Publish, Scan!CountsOfTheirBlock
  <2>4. counts' \in [Scan!Block -> Scan!Block \cup {Nothing}]
    BY <1>3, <2>2 DEF Scan!Publish, Scan!TypeOK
  <2>5. owed' \subseteq Scan!Block
    BY <1>3 DEF Scan!Publish, Scan!TypeOK
  <2> QED
    BY <1>3, <2>1, <2>3, <2>4, <2>5, ScanOn, NewPlace
       DEF Scan!Publish, Scan!Go, Scan!At, Places, Scan!TypeOK
<1>4. ASSUME NEW s \in Scanner, Scan!Advance(s) PROVE ScanInv'
  <2>1. Scan!Following(s) \in Scan!Block
    <3>1. scan[s].step \in Nat
      BY Fields DEF Scan!TypeOK
    <3> QED
      BY <3>1 DEF Scan!Following, Scan!TypeOK, Scan!Block
  <2> QED
    BY <1>4, <2>1, ScanOn, NewPlace
       DEF Scan!Advance, Scan!AdvanceTo, Scan!Go, Scan!At, Places, Scan!TypeOK,
           Scan!CountsOfTheirBlock
<1>5. ASSUME NEW s \in Scanner, Scan!ReadFails(s) \/ Scan!Done(s) \/ Scan!Tick(s) PROVE ScanInv'
  <2>1. scan[s] \in Scan!ScanState /\ Scan!Idle \in Scan!ScanState
    BY IdleIsState DEF Scan!TypeOK
  <2>2. owed' \subseteq Scan!Block /\ ~Scan!At(s, "none")
        /\ UNCHANGED <<counts, scratch, cursor, wantFull, paused, share>>
    BY <1>5 DEF Scan!ReadFails, Scan!Done, Scan!Tick, Scan!At, Scan!TypeOK
  <2>3. PICK e \in {[scan[s] EXCEPT !.pc = "failed"], [Scan!Idle EXCEPT !.pc = "waiting"],
                    [scan[s] EXCEPT !.pc = "start"]} : scan' = [scan EXCEPT ![s] = e]
    BY <1>5 DEF Scan!ReadFails, Scan!Done, Scan!Tick, Scan!Go
  <2>4. e \in Scan!ScanState /\ e.pc \notin {"none", "read"}
    <3>1. \A r \in Scan!ScanState, p \in {"failed", "waiting", "start"} :
            /\ [r EXCEPT !.pc = p] \in Scan!ScanState
            /\ [r EXCEPT !.pc = p].pc \notin {"none", "read"}
      BY NewPlace DEF Places
    <3> QED
      BY <2>1, <2>3, <3>1
  <2> QED
    BY <2>2, <2>3, <2>4, ScanOn DEF Scan!TypeOK, Scan!CountsOfTheirBlock
<1>6. CASE Scan!Compact
  <2>1. /\ owed' \subseteq Scan!Block /\ wantFull' = TRUE
        /\ UNCHANGED <<counts, scratch, cursor, paused, share>>
        /\ \/ scan' = scan
           \/ scan' = [s \in Scanner |-> [scan[s] EXCEPT !.late = TRUE]]
    BY <1>6 DEF Scan!Compact, Scan!RequestOf, Scan!TypeOK
  <2>2. \A s \in Scanner :
          /\ scan'[s] \in Scan!ScanState /\ scan'[s].pc = scan[s].pc
          /\ scan'[s].from = scan[s].from /\ scan'[s].to = scan[s].to
          /\ scan'[s].next = scan[s].next
    <3> TAKE s \in Scanner
    <3>1. scan[s] \in Scan!ScanState
      BY DEF Scan!TypeOK
    <3>2. scan'[s] = scan[s] \/ scan'[s] = [scan[s] EXCEPT !.late = TRUE]
      BY <2>1
    <3> QED
      BY <3>1, <3>2, NewLate
  <2>3. Scan!TypeOK'
    BY <2>1, <2>2 DEF Scan!TypeOK
  <2> QED
    BY <2>1, <2>2, <2>3 DEF OneScan, Scan!At, HasRead, Scan!CountsOfTheirBlock
<1>7. CASE Scan!TogglePause \/ Scan!Faster \/ Scan!Slower
  <2>1. share' \in Nat \ {0} /\ paused' \in BOOLEAN
        /\ UNCHANGED <<counts, scratch, cursor, wantFull, scan, owed>>
    <3>1. share \in Nat \ {0} /\ paused \in BOOLEAN
      BY DEF Scan!TypeOK
    <3>2. ASSUME share > 1 PROVE share \div 2 \in Nat \ {0}
      BY <3>1, <3>2
    <3>3. share * 2 \in Nat \ {0}
      BY <3>1
    <3> QED
      BY <1>7, <3>1, <3>2, <3>3 DEF Scan!TogglePause, Scan!Faster, Scan!Slower
  <2> QED
    BY <2>1 DEF Scan!TypeOK, OneScan, Scan!At, HasRead, Scan!CountsOfTheirBlock
<1>8. CASE UNCHANGED Scan!vars
  BY <1>8 DEF Scan!vars, Scan!TypeOK, OneScan, Scan!At, HasRead, Scan!CountsOfTheirBlock
<1> QED
  BY <1>1, <1>2, <1>3, <1>4, <1>5, <1>6, <1>7, <1>8 DEF Scan!Next, Scan!Work, Scan!Keys

LEMMA ScanInvariance == Scan!Spec => []ScanInv
<1>1. Scan!Init => ScanInv
  BY ScanInitOK
<1>2. ScanInv /\ [Scan!Next]_(Scan!vars) => ScanInv'
  BY ScanStepOK
<1> QED
  BY <1>1, <1>2, PTL DEF Scan!Spec

\* One part of the map is never painted with pages that were read from another,
\* whatever keys come while a scan runs and wherever a slice is cut. (scan(),
\* refreshInto())
THEOREM ScansPaintTheirBlocks == Scan!Spec => []CountsOfTheirBlock
<1>1. ScanInv => CountsOfTheirBlock
  BY DEF ScanInv, CountsOfTheirBlock
<1>2. Scan!Spec => []ScanInv
  BY ScanInvariance
<1> QED
  BY <1>1, <1>2, PTL

-----------------------------------------------------------------------------
(* MmapCheck. *)

\* What is expected of the file is what is in it, and what the write that is on its
\* way will put there; nothing is compared before it has.
Expected ==
  /\ check = "deadlock" => place \in {"open", "watch"}
  /\ place = "watch" => check = "deadlock"
  /\ place \in {"open", "inject"} => writer = "none"
  /\ place \in {"punch", "compare"} => writer # "writes"
  /\ want = IF writer = "writes" THEN [file EXCEPT ![Mmap!Written(check)] = "W"] ELSE file

\* The seconds without progress are those since the last, once a second has been
\* counted; within a second in which somebody got on, they are of old.
Both == {"writers", "readers"}
Watched ==
  /\ t \in Nat /\ stalled \in Nat /\ progress \in Nat /\ idle \subseteq Both
  /\ IF idle = Both THEN t - progress = stalled ELSE progress = t + 1
  /\ outcome = "none" => stalled < Stall
  /\ outcome = "stalled" => idle = Both /\ stalled >= Stall
  /\ outcome = "ok" /\ check = "deadlock" => idle = Both /\ stalled < Stall

MmapInv == Expected /\ Watched /\ Mmap!FaultsFound

LEMMA MmapInitOK == Mmap!Init => MmapInv
<1> SUFFICES ASSUME Mmap!Init PROVE MmapInv
  OBVIOUS
<1>1. Expected /\ Mmap!FaultsFound
  BY DEF Mmap!Init, Expected, Mmap!FaultsFound
<1>2. Watched
  BY ProgramsAssumption DEF Mmap!Init, Mmap!SecondsAssumption, Watched, Both
<1> QED
  BY <1>1, <1>2 DEF MmapInv

\* What a step that leaves the seconds as they are breaks of them: nothing.
LEMMA SecondsKept ==
  ASSUME Watched, UNCHANGED <<check, t, stalled, idle, progress>>,
         \/ outcome' = outcome \/ outcome' = "error"
         \/ outcome' = "ok" /\ check # "deadlock"
  PROVE  Watched'
BY DEF Watched

LEMMA MmapStepOK ==
  ASSUME MmapInv, [Mmap!Next]_(Mmap!vars)
  PROVE  MmapInv'
<1> USE DEF MmapInv
<1>1. CASE Mmap!Open \/ Mmap!Willneed
  <2>1. Expected' /\ outcome' = "none"
    BY <1>1 DEF Mmap!Open, Mmap!Willneed, Mmap!Goes, Mmap!At, Mmap!Running, Expected
  <2> QED
    BY <1>1, <2>1, SecondsKept
       DEF Mmap!Open, Mmap!Willneed, Mmap!Goes, Mmap!At, Mmap!Running, Mmap!watch,
           Mmap!FaultsFound
<1>2. CASE Mmap!StartWriter
  <2>1. Expected' /\ outcome' = "none"
    BY <1>2 DEF Mmap!StartWriter, Mmap!Starts, Mmap!Goes, Mmap!At, Mmap!Running, Expected
  <2> QED
    BY <1>2, <2>1, SecondsKept
       DEF Mmap!StartWriter, Mmap!Goes, Mmap!At, Mmap!Running, Mmap!watch, Mmap!FaultsFound
<1>3. CASE Mmap!Write
  <2>1. Expected' /\ outcome' = "none"
    BY <1>3 DEF Mmap!Write, Mmap!Running, Expected
  <2> QED
    BY <1>3, <2>1, SecondsKept DEF Mmap!Write, Mmap!Running, Mmap!watch, Mmap!FaultsFound
<1>4. CASE Mmap!Wait
  <2>1. Expected' /\ outcome' = "none"
    BY <1>4 DEF Mmap!Wait, Mmap!Goes, Mmap!At, Mmap!Running, Expected
  <2> QED
    BY <1>4, <2>1, SecondsKept
       DEF Mmap!Wait, Mmap!Goes, Mmap!At, Mmap!Running, Mmap!watch, Mmap!FaultsFound
<1>5. CASE Mmap!Punch
  <2>1. Expected' /\ outcome' = "none"
    BY <1>5 DEF Mmap!Punch, Mmap!Goes, Mmap!At, Mmap!Running, Expected
  <2> QED
    BY <1>5, <2>1, SecondsKept
       DEF Mmap!Punch, Mmap!Goes, Mmap!At, Mmap!Running, Mmap!watch, Mmap!FaultsFound
<1>6. CASE Mmap!Compare
  <2>1. Expected' /\ check # "deadlock" /\ want = file
    BY <1>6 DEF Mmap!Compare, Mmap!At, Mmap!Running, Expected
  <2>2. Mmap!FaultsFound'
    BY <1>6, <2>1 DEF Mmap!Compare, Mmap!FaultsFound
  <2> QED
    BY <1>6, <2>1, <2>2, SecondsKept DEF Mmap!Compare, Mmap!watch
<1>7. CASE Mmap!Fails \/ Mmap!WriteFails
  <2>1. Expected' /\ outcome' = "error"
    BY <1>7 DEF Mmap!Fails, Mmap!WriteFails, Expected
  <2> QED
    BY <1>7, <2>1, SecondsKept DEF Mmap!Fails, Mmap!WriteFails, Mmap!watch, Mmap!FaultsFound
<1>8. CASE Mmap!Begin
  <2>1. Expected' /\ outcome' = "none"
    BY <1>8 DEF Mmap!Begin, Mmap!Goes, Mmap!At, Mmap!Running, Expected
  <2> QED
    BY <1>8, <2>1, SecondsKept
       DEF Mmap!Begin, Mmap!Goes, Mmap!At, Mmap!Running, Mmap!watch, Mmap!FaultsFound
<1>9. CASE Mmap!Progress
  <2>1. Expected' /\ outcome' = "none"
    BY <1>9 DEF Mmap!Progress, Mmap!program, Mmap!At, Mmap!Running, Expected
  <2>2. idle' \subseteq Both /\ idle' # Both /\ progress' = t + 1
    BY <1>9 DEF Mmap!Progress, Watched
  <2> QED
    BY <1>9, <2>1, <2>2
       DEF Mmap!Progress, Mmap!program, Mmap!At, Mmap!Running, Mmap!FaultsFound, Watched
<1>10. CASE Mmap!Second
  <2>1. Expected' /\ check = "deadlock" /\ check' = check
    BY <1>10 DEF Mmap!Second, Mmap!At, Mmap!Running, Expected
  <2>2. Watched'
    <3>1. /\ outcome = "none" /\ t' = t + 1 /\ progress' = progress /\ idle' = Both
          /\ stalled' = IF idle = Both THEN stalled + 1 ELSE 0
          /\ outcome' = IF stalled' >= Stall THEN "stalled"
                        ELSE IF t' = Seconds THEN "ok" ELSE "none"
      BY <1>10 DEF Mmap!Second, Mmap!Stood, Mmap!At, Mmap!Running, Both
    <3>2. /\ t' \in Nat /\ stalled' \in Nat /\ progress' \in Nat
          /\ t' - progress' = stalled'
      BY <3>1 DEF Watched
    <3>3. Stall \in Nat
      BY ProgramsAssumption DEF Mmap!SecondsAssumption
    <3> QED
      BY <3>1, <3>2, <3>3 DEF Watched
  <2> QED
    BY <2>1, <2>2 DEF Mmap!FaultsFound
<1>11. CASE UNCHANGED Mmap!vars
  BY <1>11 DEF Mmap!vars, Mmap!program, Mmap!watch, Expected, Watched, Mmap!FaultsFound
<1> QED
  BY <1>1, <1>2, <1>3, <1>4, <1>5, <1>6, <1>7, <1>8, <1>9, <1>10, <1>11 DEF Mmap!Next

LEMMA InvToldTrue == MmapInv => ToldTrue
BY ProgramsAssumption
   DEF MmapInv, Watched, Mmap!SecondsAssumption, ToldTrue, Mmap!ToldTrue, Mmap!HangShown

\* The program reports the pages that show something else than the file, and no
\* others, and a hang if there is one, whenever its write lands and however long a
\* hang is to last. (subpage(), zeropage(), deadlock())
THEOREM FaultsAreTold == Mmap!Spec => []ToldTrue
<1>1. Mmap!Init => MmapInv
  BY MmapInitOK
<1>2. MmapInv /\ [Mmap!Next]_(Mmap!vars) => MmapInv'
  BY MmapStepOK
<1> QED
  BY <1>1, <1>2, InvToldTrue, PTL DEF Mmap!Spec

-----------------------------------------------------------------------------
(* Sums over finite sets. A sum is a recursion over the subsets of what is
   summed, one of which is the whole. It has a value because a least counter-
   example would have a smaller one, and what is said of it is shown alike. *)

\* Of some numbers one is the least.
LEMMA LeastOf ==
  ASSUME NEW T, T \subseteq Nat, T # {}
  PROVE  \E x \in T : \A y \in T : x <= y
<1> DEFINE before == { p \in Nat \X Nat : p[1] < p[2] }
<1>1. IsWellFoundedOn(before, Nat)
  BY NatLessThanWellFounded, Zenon DEF OpToRel
<1> HIDE DEF before
<1>2. \E x \in T : \A y \in T : <<y, x>> \notin before
  BY <1>1, WFMin, Zenon
<1>3. \A x, y \in Nat : <<y, x>> \notin before => x <= y
  BY DEF before
<1> QED
  BY <1>2, <1>3

\* What holds of a finite set if it holds of its smaller subsets holds of it.
Inherited(D, V) == \A s \in SUBSET D : (\A x \in s : s \ {x} \in V) => s \in V

LEMMA OnSubsets ==
  ASSUME NEW D, IsFiniteSet(D), NEW V, Inherited(D, V)
  PROVE  SUBSET D \subseteq V
<1> DEFINE T == { n \in Nat : \E s \in SUBSET D : s \notin V /\ Cardinality(s) = n }
<1>1. \A s \in SUBSET D : IsFiniteSet(s) /\ Cardinality(s) \in Nat
  BY FS_Subset, FS_CardinalityType
<1>2. SUFFICES ASSUME T # {} PROVE FALSE
  BY <1>1
<1>3. PICK n \in T : \A m \in T : n <= m
  <2>1. T \subseteq Nat
    OBVIOUS
  <2> HIDE DEF T
  <2> QED
    BY <1>2, <2>1, LeastOf
<1>4. PICK s \in SUBSET D : s \notin V /\ Cardinality(s) = n
  BY <1>3
<1>5. PICK x \in s : s \ {x} \notin V
  BY <1>4 DEF Inherited
<1>6. Cardinality(s \ {x}) = n - 1 /\ n - 1 \in Nat
  <2>1. Cardinality(s \ {x}) = n - 1
    BY <1>1, <1>4, <1>5, FS_RemoveElement
  <2> QED
    BY <1>1, <2>1
<1>7. n - 1 \in T
  BY <1>5, <1>6
<1> QED
  BY <1>3, <1>6, <1>7

\* A fold has a value: the recursion over the subsets of a finite set, which takes
\* one member out at each step, defines a function.
Folds(g, D, base, choice, step) ==
  \A s \in SUBSET D :
    g[s] = IF s = {} THEN base ELSE step[<<choice[s], g[s \ {choice[s]}]>>]

LEMMA FoldExists ==
  ASSUME NEW D, IsFiniteSet(D), NEW R, NEW base \in R,
         NEW choice, \A s \in SUBSET D : s # {} => choice[s] \in s,
         NEW step \in [D \X R -> R]
  PROVE  \E g \in [SUBSET D -> R] : Folds(g, D, base, choice, step)
<1> DEFINE Upto(n) == { s \in SUBSET D : Cardinality(s) <= n }
           Good(g, n) == /\ g \in [Upto(n) -> R]
                         /\ \A s \in Upto(n) :
                              g[s] = IF s = {} THEN base
                                     ELSE step[<<choice[s], g[s \ {choice[s]}]>>]
           T == { n \in Nat : ~ \E g : Good(g, n) }
<1>1. \A s \in SUBSET D : /\ IsFiniteSet(s) /\ Cardinality(s) \in Nat
                          /\ Cardinality(s) = 0 <=> s = {}
                          /\ Cardinality(s) <= Cardinality(D)
  BY FS_Subset, FS_CardinalityType, FS_EmptySet
<1>2. ASSUME NEW s \in SUBSET D, s # {}
      PROVE  /\ choice[s] \in D /\ s \ {choice[s]} \in SUBSET D
             /\ Cardinality(s \ {choice[s]}) = Cardinality(s) - 1
  BY <1>1, <1>2, FS_RemoveElement
<1>3. T = {}
  <2> SUFFICES ASSUME T # {} PROVE FALSE
    OBVIOUS
  <2>1. PICK n \in T : \A m \in T : n <= m
    <3>1. T \subseteq Nat
      OBVIOUS
    <3> HIDE DEF T
    <3> QED
      BY <3>1, LeastOf
  <2>2. n \in Nat /\ ~ \E g : Good(g, n)
    BY <2>1
  <2>3. CASE n = 0
    <3>1. Upto(0) = {{}}
      BY <1>1
    <3>2. Good([s \in {{}} |-> base], 0)
      <4> HIDE DEF Upto
      <4> QED
        BY <3>1
    <3> HIDE DEF Good
    <3> QED
      BY <2>2, <2>3, <3>2
  <2>4. CASE n # 0
    <3>1. PICK f : Good(f, n - 1)
      <4>1. n - 1 \in Nat /\ ~(n <= n - 1)
        BY <2>2, <2>4
      <4>2. n - 1 \notin T
        <5> HIDE DEF T
        <5> QED
          BY <2>1, <4>1
      <4> HIDE DEF Good
      <4> QED
        BY <4>1, <4>2
    <3> DEFINE g == [s \in Upto(n) |->
                       IF s \in Upto(n - 1) THEN f[s]
                       ELSE step[<<choice[s], f[s \ {choice[s]}]>>]]
    <3>2. ASSUME NEW s \in Upto(n), s # {}
          PROVE  /\ choice[s] \in D /\ s \ {choice[s]} \in Upto(n - 1)
                 /\ s \ {choice[s]} \in Upto(n)
      BY <1>1, <1>2, <2>2, <3>2
    <3>3. {} \in Upto(n - 1)
      BY <1>1, <2>2, <2>4
    <3>4. \A s \in Upto(n - 1) : f[s] \in R
      BY <3>1
    <3>5. g \in [Upto(n) -> R]
      <4> SUFFICES ASSUME NEW s \in Upto(n), s \notin Upto(n - 1)
                   PROVE  step[<<choice[s], f[s \ {choice[s]}]>>] \in R
        BY <3>4
      <4> HIDE DEF Upto, Good
      <4> QED
        BY <3>2, <3>3, <3>4
    <3>6. ASSUME NEW s \in Upto(n), s # {}
          PROVE  g[s] = step[<<choice[s], g[s \ {choice[s]}]>>]
      <4>1. g[s \ {choice[s]}] = f[s \ {choice[s]}]
        <5> HIDE DEF Upto
        <5> QED
          BY <3>2, <3>6
      <4>2. s \in Upto(n - 1) => f[s] = step[<<choice[s], f[s \ {choice[s]}]>>]
        <5> HIDE DEF Upto
        <5> QED
          BY <3>1, <3>6
      <4> HIDE DEF Upto, Good
      <4> QED
        BY <3>6, <4>1, <4>2
    <3>7. {} \in Upto(n) => g[{}] = base
      <4> HIDE DEF Upto
      <4> QED
        BY <3>1, <3>3
    <3>8. Good(g, n)
      <4> HIDE DEF g, Upto
      <4> QED
        BY <3>5, <3>6, <3>7
    <3> HIDE DEF Good
    <3> QED
      BY <2>2, <3>8
  <2> QED
    BY <2>3, <2>4
<1>4. PICK g : Good(g, Cardinality(D))
  <2>1. Cardinality(D) \in Nat
    BY FS_CardinalityType
  <2> HIDE DEF Good
  <2> QED
    BY <1>3, <2>1
<1>5. Upto(Cardinality(D)) = SUBSET D
  BY <1>1
<1> HIDE DEF Upto
<1> QED
  BY <1>4, <1>5 DEF Folds

SumOn(g, D, c) ==
  \A s \in SUBSET D : g[s] = IF s = {} THEN 0
                             ELSE c[CHOOSE x \in s : TRUE] + g[s \ {CHOOSE x \in s : TRUE}]

LEMMA SumExists ==
  ASSUME NEW D, IsFiniteSet(D), NEW c, \A k \in D : c[k] \in Nat
  PROVE  \E g \in [SUBSET D -> Nat] : SumOn(g, D, c)
<1> DEFINE choice == [s \in SUBSET D |-> CHOOSE x \in s : TRUE]
           step == [p \in D \X Nat |-> c[p[1]] + p[2]]
<1>1. \A s \in SUBSET D : s # {} => choice[s] \in s
  OBVIOUS
<1>2. \A p \in D \X Nat : p[1] \in D /\ p[2] \in Nat /\ c[p[1]] \in Nat
  OBVIOUS
<1>3. step \in [D \X Nat -> Nat]
  BY <1>2
<1>4. PICK f \in [SUBSET D -> Nat] : Folds(f, D, 0, choice, step)
  <2> HIDE DEF choice, step
  <2> QED
    BY <1>1, <1>3, FoldExists
<1>5. ASSUME NEW s \in SUBSET D, s # {}
      PROVE  f[s] = c[CHOOSE x \in s : TRUE] + f[s \ {CHOOSE x \in s : TRUE}]
  <2>1. choice[s] \in D /\ s \ {choice[s]} \in SUBSET D
    BY <1>1, <1>5
  <2>2. f[s] = step[<<choice[s], f[s \ {choice[s]}]>>]
    BY <1>4, <1>5 DEF Folds
  <2> HIDE DEF choice
  <2>3. f[s] = c[choice[s]] + f[s \ {choice[s]}]
    BY <2>1, <2>2
  <2>4. choice[s] = CHOOSE x \in s : TRUE
    BY DEF choice
  <2> QED
    BY <2>3, <2>4
<1>6. f[{}] = 0
  BY <1>4 DEF Folds
<1>7. SumOn(f, D, c)
  BY <1>5, <1>6 DEF SumOn
<1> QED
  BY <1>7

LEMMA SumUnique ==
  ASSUME NEW D, IsFiniteSet(D), NEW c, NEW f, NEW g, SumOn(f, D, c), SumOn(g, D, c)
  PROVE  f[D] = g[D]
<1> DEFINE V == { s \in SUBSET D : f[s] = g[s] }
<1>1. ASSUME NEW s \in SUBSET D, \A x \in s : s \ {x} \in V PROVE s \in V
  <2>1. CASE s = {}
    BY <2>1 DEF SumOn
  <2>2. CASE s # {}
    <3>1. PICK x \in s : x = CHOOSE y \in s : TRUE
      BY <2>2
    <3>2. f[s] = c[x] + f[s \ {x}] /\ g[s] = c[x] + g[s \ {x}]
      BY <2>2, <3>1 DEF SumOn
    <3> QED
      BY <1>1, <3>2
  <2> QED
    BY <2>1, <2>2
<1>2. Inherited(D, V)
  BY <1>1 DEF Inherited
<1>3. D \in V
  <2> HIDE DEF V
  <2> QED
    BY <1>2, OnSubsets
<1> QED
  BY <1>3

LEMMA TotalSums ==
  ASSUME NEW D, IsFiniteSet(D), NEW c, \A k \in D : c[k] \in Nat
  PROVE  \E g \in [SUBSET D -> Nat] : SumOn(g, D, c) /\ Report!Total(c, D) = g[D]
<1> DEFINE Same(g) == g = [s \in SUBSET D |-> IF s = {} THEN 0 ELSE
                             LET x == CHOOSE x \in s : TRUE IN c[x] + g[s \ {x}]]
           total == CHOOSE g : Same(g)
<1>1. Report!Total(c, D) = total[D]
  BY DEF Report!Total, Report!MapThenSumSet, Report!MapThenFoldSet
<1>2. PICK f \in [SUBSET D -> Nat] : SumOn(f, D, c)
  BY SumExists
<1>3. Same(f)
  BY <1>2 DEF SumOn
<1>4. Same(total)
  <2> HIDE DEF Same
  <2> QED
    BY <1>3
<1>5. SumOn(total, D, c)
  <2> HIDE DEF total
  <2> QED
    BY <1>4 DEF SumOn
<1> HIDE DEF total, Same
<1>6. total[D] = f[D]
  BY <1>2, <1>5, SumUnique
<1> QED
  BY <1>1, <1>2, <1>6

\* A sum is any of its parts and the sum of the rest.
LEMMA TotalOf ==
  ASSUME NEW D, IsFiniteSet(D), NEW c, \A k \in D : c[k] \in Nat
  PROVE  /\ Report!Total(c, D) \in Nat /\ Report!Total(c, {}) = 0
         /\ \A x \in D : /\ Report!Total(c, D) = c[x] + Report!Total(c, D \ {x})
                         /\ Report!Total(c, D \ {x}) \in Nat /\ c[x] <= Report!Total(c, D)
<1>1. PICK g \in [SUBSET D -> Nat] : SumOn(g, D, c)
  BY SumExists
<1>2. \A s \in SUBSET D : IsFiniteSet(s)
  BY FS_Subset
<1>3. ASSUME NEW s \in SUBSET D PROVE Report!Total(c, s) = g[s]
  <2>1. IsFiniteSet(s) /\ \A k \in s : c[k] \in Nat
    BY <1>2
  <2>3. PICK h \in [SUBSET s -> Nat] : SumOn(h, s, c) /\ Report!Total(c, s) = h[s]
    BY <2>1, TotalSums
  <2>2. SumOn(g, s, c)
    BY <1>1 DEF SumOn
  <2> QED
    BY <2>1, <2>2, <2>3, SumUnique
<1> DEFINE V == { s \in SUBSET D : \A x \in s : g[s] = c[x] + g[s \ {x}] }
<1>4. ASSUME NEW s \in SUBSET D, \A x \in s : s \ {x} \in V PROVE s \in V
  <2> SUFFICES ASSUME NEW x \in s PROVE g[s] = c[x] + g[s \ {x}]
    OBVIOUS
  <2>1. PICK y \in s : y = CHOOSE z \in s : TRUE
    OBVIOUS
  <2>2. g[s] = c[y] + g[s \ {y}]
    BY <1>1, <2>1 DEF SumOn
  <2>3. CASE x # y
    <3> DEFINE r == (s \ {y}) \ {x}
    <3>1. g[s \ {y}] = c[x] + g[r]
      BY <1>4, <2>3
    <3>2. (s \ {x}) \ {y} = r
      OBVIOUS
    <3>3. g[s \ {x}] = c[y] + g[r]
      BY <1>4, <2>3, <3>2
    <3>4. g[r] \in Nat /\ c[x] \in Nat /\ c[y] \in Nat
      BY <1>1
    <3> HIDE DEF r
    <3> QED
      BY <2>2, <3>1, <3>3, <3>4
  <2> QED
    BY <2>2, <2>3
<1>5. Inherited(D, V)
  BY <1>4 DEF Inherited
<1>6. D \in V
  <2> HIDE DEF V
  <2> QED
    BY <1>5, OnSubsets
<1>7. ASSUME NEW x \in D
      PROVE  /\ Report!Total(c, D) = c[x] + Report!Total(c, D \ {x})
             /\ Report!Total(c, D \ {x}) \in Nat /\ c[x] <= Report!Total(c, D)
  <2>1. g[D] = c[x] + g[D \ {x}]
    BY <1>6
  <2>2. g[D] = Report!Total(c, D) /\ g[D \ {x}] = Report!Total(c, D \ {x})
    BY <1>3
  <2>3. g[D \ {x}] \in Nat /\ c[x] \in Nat
    BY <1>1
  <2> QED
    BY <2>1, <2>2, <2>3
<1>8. Report!Total(c, D) \in Nat /\ Report!Total(c, {}) = 0
  BY <1>1, <1>3 DEF SumOn
<1> QED
  BY <1>7, <1>8

\* Induction over the parts of a finite set, for what is said of sums over them.
LEMMA TotalAdds ==
  ASSUME NEW D, IsFiniteSet(D), NEW c, NEW d, NEW e,
         \A k \in D : c[k] \in Nat /\ d[k] \in Nat /\ e[k] = c[k] + d[k]
  PROVE  Report!Total(e, D) = Report!Total(c, D) + Report!Total(d, D)
<1> DEFINE V == { s \in SUBSET D :
                    Report!Total(e, s) = Report!Total(c, s) + Report!Total(d, s) }
<1>1. ASSUME NEW s \in SUBSET D, \A x \in s : s \ {x} \in V PROVE s \in V
  <2>1. IsFiniteSet(s) /\ \A k \in s : c[k] \in Nat /\ d[k] \in Nat /\ e[k] \in Nat
    BY FS_Subset
  <2>2. CASE s = {}
    BY <2>1, <2>2, TotalOf
  <2>3. CASE s # {}
    <3>1. PICK x \in s : TRUE
      BY <2>3
    <3> DEFINE r == s \ {x}
    <3>2. /\ Report!Total(c, s) = c[x] + Report!Total(c, r) /\ Report!Total(c, r) \in Nat
          /\ Report!Total(d, s) = d[x] + Report!Total(d, r) /\ Report!Total(d, r) \in Nat
          /\ Report!Total(e, s) = e[x] + Report!Total(e, r)
      BY <2>1, TotalOf
    <3>3. Report!Total(e, r) = Report!Total(c, r) + Report!Total(d, r)
      BY <1>1
    <3>4. c[x] \in Nat /\ d[x] \in Nat /\ e[x] = c[x] + d[x]
      OBVIOUS
    <3> HIDE DEF r
    <3> QED
      BY <3>2, <3>3, <3>4
  <2> QED
    BY <2>2, <2>3
<1>2. Inherited(D, V)
  BY <1>1 DEF Inherited
<1>3. D \in V
  <2> HIDE DEF V
  <2> QED
    BY <1>2, OnSubsets
<1> QED
  BY <1>3

LEMMA TotalWithin ==
  ASSUME NEW D, IsFiniteSet(D), NEW c, NEW d,
         \A k \in D : c[k] \in Nat /\ d[k] \in Nat /\ c[k] <= d[k]
  PROVE  Report!Total(c, D) <= Report!Total(d, D)
<1> DEFINE rest == [k \in D |-> d[k] - c[k]]
<1>1. \A k \in D : rest[k] \in Nat /\ c[k] \in Nat /\ d[k] = c[k] + rest[k]
  OBVIOUS
<1> HIDE DEF rest
<1>2. Report!Total(d, D) = Report!Total(c, D) + Report!Total(rest, D)
  BY <1>1, TotalAdds
<1>3. Report!Total(c, D) \in Nat /\ Report!Total(rest, D) \in Nat
  BY <1>1, TotalOf
<1> QED
  BY <1>2, <1>3

LEMMA TotalSame ==
  ASSUME NEW D, IsFiniteSet(D), NEW c, NEW d, \A k \in D : c[k] \in Nat /\ c[k] = d[k]
  PROVE  Report!Total(c, D) = Report!Total(d, D)
<1>1. \A k \in D : c[k] \in Nat /\ d[k] \in Nat /\ c[k] <= d[k] /\ d[k] <= c[k]
  OBVIOUS
<1>2. Report!Total(c, D) <= Report!Total(d, D) /\ Report!Total(d, D) <= Report!Total(c, D)
  BY <1>1, TotalWithin
<1>3. Report!Total(c, D) \in Nat /\ Report!Total(d, D) \in Nat
  BY <1>1, TotalOf
<1> QED
  BY <1>2, <1>3

LEMMA TotalOfPart ==
  ASSUME NEW D, IsFiniteSet(D), NEW c, \A k \in D : c[k] \in Nat, NEW P \in SUBSET D
  PROVE  Report!Total(c, P) <= Report!Total(c, D)
<1> DEFINE V == { s \in SUBSET D : P \subseteq s => Report!Total(c, P) <= Report!Total(c, s) }
<1>1. ASSUME NEW s \in SUBSET D, \A x \in s : s \ {x} \in V, P \subseteq s
      PROVE  Report!Total(c, P) <= Report!Total(c, s)
  <2>1. IsFiniteSet(s) /\ IsFiniteSet(P) /\ \A k \in s : c[k] \in Nat
    BY FS_Subset
  <2>2. CASE s = P
    BY <2>1, <2>2, TotalOf
  <2>3. CASE s # P
    <3>1. PICK x \in s : x \notin P
      BY <1>1, <2>3
    <3> DEFINE r == s \ {x}
    <3>2. Report!Total(c, s) = c[x] + Report!Total(c, r) /\ Report!Total(c, r) \in Nat
      BY <2>1, TotalOf
    <3>3. Report!Total(c, P) <= Report!Total(c, r)
      BY <1>1, <3>1
    <3>4. c[x] \in Nat /\ Report!Total(c, P) \in Nat
      BY <2>1, <1>1, TotalOf
    <3> HIDE DEF r
    <3> QED
      BY <3>2, <3>3, <3>4
  <2> QED
    BY <2>2, <2>3
<1>2. Inherited(D, V)
  BY <1>1 DEF Inherited
<1>3. D \in V
  <2> HIDE DEF V
  <2> QED
    BY <1>2, OnSubsets
<1> QED
  BY <1>3

LEMMA TotalAtMost ==
  ASSUME NEW D, IsFiniteSet(D), NEW m \in Nat, NEW c, \A k \in D : c[k] \in Nat /\ c[k] <= m
  PROVE  Report!Total(c, D) <= Cardinality(D) * m
<1> DEFINE V == { s \in SUBSET D : Report!Total(c, s) <= Cardinality(s) * m }
<1>1. ASSUME NEW s \in SUBSET D, \A x \in s : s \ {x} \in V PROVE s \in V
  <2>1. IsFiniteSet(s) /\ \A k \in s : c[k] \in Nat
    BY FS_Subset
  <2>2. CASE s = {}
    <3>1. Report!Total(c, s) = 0 /\ Cardinality(s) = 0
      BY <2>1, <2>2, TotalOf, FS_EmptySet
    <3>2. Report!Total(c, s) <= Cardinality(s) * m
      BY <3>1
    <3> QED
      BY <3>2
  <2>3. CASE s # {}
    <3>1. PICK x \in s : TRUE
      BY <2>3
    <3> DEFINE r == s \ {x}
               n == Cardinality(r)
    <3>2. Report!Total(c, s) = c[x] + Report!Total(c, r) /\ Report!Total(c, r) \in Nat
      BY <2>1, TotalOf
    <3>3. Report!Total(c, r) <= n * m
      BY <1>1
    <3>4. c[x] \in Nat /\ c[x] <= m
      OBVIOUS
    <3>5. Cardinality(s) = n + 1 /\ n \in Nat
      <4>1. Cardinality(r) = Cardinality(s) - 1 /\ Cardinality(s) \in Nat /\ IsFiniteSet(r)
        BY <2>1, FS_RemoveElement, FS_CardinalityType
      <4> HIDE DEF r
      <4>2. Cardinality(r) \in Nat
        BY <4>1, FS_CardinalityType
      <4> QED
        BY <4>1, <4>2
    <3> HIDE DEF r, n
    <3>6. (n + 1) * m = n * m + m /\ n * m \in Nat
      BY <3>5
    <3>7. Report!Total(c, s) <= Cardinality(s) * m
      BY <3>2, <3>3, <3>4, <3>5, <3>6
    <3> QED
      BY <3>7
  <2> QED
    BY <2>2, <2>3
<1>2. Inherited(D, V)
  BY <1>1 DEF Inherited
<1>3. D \in V
  <2> HIDE DEF V
  <2> QED
    BY <1>2, OnSubsets
<1> QED
  BY <1>3

\* Sets that share nothing have as many members as their union.
LEMMA TotalApart ==
  ASSUME NEW D, IsFiniteSet(D), NEW U, IsFiniteSet(U), NEW S, \A k \in D : S[k] \in SUBSET U,
         \A k, l \in D : k # l => S[k] \cap S[l] = {},
         NEW c, \A k \in D : c[k] = Cardinality(S[k])
  PROVE  Report!Total(c, D) = Cardinality(UNION { S[k] : k \in D })
<1> DEFINE whole(s) == UNION { S[k] : k \in s }
           V == { s \in SUBSET D : Report!Total(c, s) = Cardinality(whole(s)) }
<1>1. \A k \in D : IsFiniteSet(S[k]) /\ c[k] \in Nat
  <2>1. \A k \in D : IsFiniteSet(S[k])
    BY FS_Subset
  <2> QED
    BY <2>1, FS_CardinalityType
<1>2. ASSUME NEW s \in SUBSET D, \A x \in s : s \ {x} \in V PROVE s \in V
  <2>1. IsFiniteSet(s) /\ \A k \in s : c[k] \in Nat
    BY <1>1, FS_Subset
  <2>2. CASE s = {}
    <3>1. whole(s) = {}
      BY <2>2
    <3>2. Report!Total(c, s) = Cardinality(whole(s))
      <4> HIDE DEF whole
      <4> QED
        BY <2>1, <2>2, <3>1, TotalOf, FS_EmptySet
    <3> QED
      BY <3>2
  <2>3. CASE s # {}
    <3>1. PICK x \in s : TRUE
      BY <2>3
    <3> DEFINE r == s \ {x}
    <3>2. Report!Total(c, s) = c[x] + Report!Total(c, r)
      BY <2>1, TotalOf
    <3>3. Report!Total(c, r) = Cardinality(whole(r))
      BY <1>2
    <3>4. whole(s) = S[x] \cup whole(r)
      OBVIOUS
    <3>5. S[x] \cap whole(r) = {}
      OBVIOUS
    <3>6. IsFiniteSet(whole(r)) /\ IsFiniteSet(S[x]) /\ c[x] = Cardinality(S[x])
      <4>1. whole(r) \in SUBSET U
        OBVIOUS
      <4> HIDE DEF whole, r
      <4> QED
        BY <1>1, <4>1, FS_Subset
    <3> HIDE DEF whole, r
    <3>7. Cardinality(S[x] \cup whole(r)) = c[x] + Cardinality(whole(r))
      <4>1. Cardinality(S[x] \cup whole(r))
              = Cardinality(S[x]) + Cardinality(whole(r)) - Cardinality(S[x] \cap whole(r))
        BY <3>6, FS_Union
      <4>2. Cardinality(S[x]) \in Nat /\ Cardinality(whole(r)) \in Nat
              /\ Cardinality(S[x] \cap whole(r)) = 0
        BY <3>5, <3>6, FS_CardinalityType, FS_EmptySet
      <4> QED
        BY <3>6, <4>1, <4>2
    <3>8. Report!Total(c, s) = Cardinality(whole(s))
      BY <3>2, <3>3, <3>4, <3>7
    <3> QED
      BY <3>8
  <2> QED
    BY <2>2, <2>3
<1>3. Inherited(D, V)
  BY <1>2 DEF Inherited
<1>4. D \in V
  <2> HIDE DEF V
  <2> QED
    BY <1>3, OnSubsets
<1> QED
  BY <1>4

\* Rows and columns have one sum.
Rows(n, D, E) == [b \in D |-> Report!Total(n[b], E)]
Columns(n, D, E) == [k \in E |-> Report!Total([b \in D |-> n[b][k]], D)]

LEMMA TotalTwoWays ==
  ASSUME NEW D, IsFiniteSet(D), NEW E, IsFiniteSet(E),
         NEW n, \A b \in D : \A k \in E : n[b][k] \in Nat
  PROVE  Report!Total(Columns(n, D, E), E) = Report!Total(Rows(n, D, E), D)
<1> DEFINE rows == Rows(n, D, E)
           col == [k \in E |-> [b \in D |-> n[b][k]]]
           cols == Columns(n, D, E)
<1>a. \A b \in D : rows[b] = Report!Total(n[b], E)
  BY DEF Rows
<1>b. \A k \in E : cols[k] = Report!Total(col[k], D)
  BY DEF Columns
<1>c. \A k \in E : \A b \in D : col[k][b] = n[b][k]
  OBVIOUS
<1> HIDE DEF rows, col, cols
<1> DEFINE sums(s) == [k \in E |-> Report!Total(col[k], s)]
           V == { s \in SUBSET D : Report!Total(sums(s), E) = Report!Total(rows, s) }
<1>1. /\ \A b \in D : rows[b] \in Nat
      /\ \A k \in E : \A b \in D : col[k][b] = n[b][k] /\ col[k][b] \in Nat
  <2>1. ASSUME NEW b \in D PROVE Report!Total(n[b], E) \in Nat
    BY TotalOf
  <2>2. \A b \in D : rows[b] \in Nat
    BY <1>a, <2>1
  <2> QED
    BY <1>c, <2>2
<1>2. ASSUME NEW s \in SUBSET D, NEW k \in E
      PROVE  /\ sums(s)[k] = Report!Total(col[k], s) /\ sums(s)[k] \in Nat
             /\ s = {} => sums(s)[k] = 0
             /\ \A x \in s : sums(s)[k] = n[x][k] + sums(s \ {x})[k]
  <2>1. IsFiniteSet(s) /\ \A b \in s : col[k][b] = n[b][k] /\ col[k][b] \in Nat
    BY <1>1, FS_Subset
  <2>2. \A x \in s : Report!Total(col[k], s) = col[k][x] + Report!Total(col[k], s \ {x})
    BY <2>1, TotalOf
  <2>3. Report!Total(col[k], s) \in Nat /\ Report!Total(col[k], {}) = 0
    BY <2>1, TotalOf
  <2> QED
    BY <2>1, <2>2, <2>3
<1>3. ASSUME NEW s \in SUBSET D, \A x \in s : s \ {x} \in V PROVE s \in V
  <2>1. IsFiniteSet(s) /\ \A b \in s : rows[b] \in Nat
    BY <1>1, FS_Subset
  <2>2. CASE s = {}
    <3>1. \A k \in E : sums(s)[k] = 0
      BY <1>2, <2>2
    <3>2. Report!Total(sums(s), E) <= Cardinality(E) * 0 /\ Report!Total(sums(s), E) \in Nat
      <4> HIDE DEF sums
      <4> QED
        BY <3>1, TotalAtMost, TotalOf
    <3>3. Report!Total(rows, s) = 0
      BY <2>1, <2>2, TotalOf
    <3>4. Cardinality(E) \in Nat
      BY FS_CardinalityType
    <3>5. Report!Total(sums(s), E) = Report!Total(rows, s)
      <4> HIDE DEF sums
      <4> QED
        BY <3>2, <3>3, <3>4
    <3> QED
      BY <3>5
  <2>3. CASE s # {}
    <3>1. PICK x \in s : TRUE
      BY <2>3
    <3> DEFINE r == s \ {x}
    <3>2. Report!Total(sums(r), E) = Report!Total(rows, r)
      BY <1>3
    <3>3. \A k \in E : n[x][k] \in Nat /\ sums(r)[k] \in Nat
                         /\ sums(s)[k] = n[x][k] + sums(r)[k]
      BY <1>2
    <3>4. Report!Total(sums(s), E) = Report!Total(n[x], E) + Report!Total(sums(r), E)
      <4> DEFINE all == sums(s)
                 rest == sums(r)
                 row == n[x]
      <4> HIDE DEF all, rest, row
      <4>1. \A k \in E : row[k] \in Nat /\ rest[k] \in Nat /\ all[k] = row[k] + rest[k]
        BY <3>3 DEF all, rest, row
      <4>2. Report!Total(all, E) = Report!Total(row, E) + Report!Total(rest, E)
        BY <4>1, TotalAdds
      <4> QED
        BY <4>2 DEF all, rest, row
    <3> HIDE DEF sums
    <3>5. Report!Total(rows, s) = rows[x] + Report!Total(rows, r)
      BY <2>1, TotalOf
    <3>6. Report!Total(sums(s), E) = Report!Total(rows, s)
      BY <1>a, <3>2, <3>4, <3>5
    <3> QED
      BY <3>6
  <2> QED
    BY <2>2, <2>3
<1>4. Inherited(D, V)
  BY <1>3 DEF Inherited
<1>5. D \in V
  <2> HIDE DEF V
  <2> QED
    BY <1>4, OnSubsets
<1>6. Report!Total(sums(D), E) = Report!Total(cols, E)
  <2>1. \A k \in E : sums(D)[k] \in Nat /\ sums(D)[k] = cols[k]
    BY <1>b, <1>2
  <2> HIDE DEF sums
  <2> QED
    BY <2>1, TotalSame
<1> QED
  BY <1>5, <1>6 DEF rows, cols

\* There are no more members than what is summed if each of them has one at least.
LEMMA TotalAtLeast ==
  ASSUME NEW D, IsFiniteSet(D), NEW c, \A k \in D : c[k] \in Nat,
         NEW P \in SUBSET D, \A k \in P : c[k] > 0
  PROVE  Cardinality(P) <= Report!Total(c, D)
<1> DEFINE one == [k \in D |-> IF k \in P THEN 1 ELSE 0]
           S == [k \in D |-> IF k \in P THEN {k} ELSE {}]
<1>1. \A k \in D : one[k] \in Nat /\ one[k] <= c[k]
  OBVIOUS
<1>2. \A k \in D : S[k] \in SUBSET D /\ one[k] = Cardinality(S[k])
  BY FS_Singleton, FS_EmptySet
<1>3. \A k, l \in D : k # l => S[k] \cap S[l] = {}
  OBVIOUS
<1>4. UNION { S[k] : k \in D } = P
  OBVIOUS
<1> HIDE DEF one, S
<1>5. Report!Total(one, D) = Cardinality(UNION { S[k] : k \in D })
  BY <1>2, <1>3, TotalApart
<1>6. Report!Total(one, D) <= Report!Total(c, D)
  BY <1>1, TotalWithin
<1> QED
  BY <1>4, <1>5, <1>6

LEMMA PagesInOf ==
  ASSUME NEW D, IsFiniteSet(D), NEW n, NEW k, \A b \in D : n[b][k] \in Nat,
         NEW c, \A b \in D : c[b] = n[b][k]
  PROVE  Report!PagesIn(n, D, k) = Report!Total(c, D)
<1> DEFINE Same(g) == g = [s \in SUBSET D |-> IF s = {} THEN 0 ELSE
                             LET b == CHOOSE b \in s : TRUE IN n[b][k] + g[s \ {b}]]
           total == CHOOSE g : Same(g)
<1>1. Report!PagesIn(n, D, k) = total[D]
  BY DEF Report!PagesIn, Report!MapThenSumSet, Report!MapThenFoldSet
<1>2. PICK f \in [SUBSET D -> Nat] : SumOn(f, D, c) /\ Report!Total(c, D) = f[D]
  <2>1. \A b \in D : c[b] \in Nat
    OBVIOUS
  <2> QED
    BY <2>1, TotalSums
<1>3. \A s \in SUBSET D : s # {} => (CHOOSE b \in s : TRUE) \in D
  OBVIOUS
<1>4. Same(f)
  BY <1>2, <1>3 DEF SumOn
<1>5. Same(total)
  <2> HIDE DEF Same
  <2> QED
    BY <1>4
<1>6. SumOn(total, D, c)
  <2> HIDE DEF total
  <2>1. ASSUME NEW s \in SUBSET D, s # {}
        PROVE  total[s] = c[CHOOSE b \in s : TRUE] + total[s \ {CHOOSE b \in s : TRUE}]
    BY <1>3, <1>5, <2>1
  <2>2. total[{}] = 0
    BY <1>5
  <2> QED
    BY <2>1, <2>2 DEF SumOn
<1> HIDE DEF total, Same
<1>7. total[D] = f[D]
  BY <1>2, <1>6, SumUnique
<1> QED
  BY <1>1, <1>2, <1>7

-----------------------------------------------------------------------------
(* FragReport. *)

IsList(s) == \E S : s \in Seq(S)

LEMMA Appended ==
  ASSUME NEW s, IsList(s), NEW e
  PROVE  /\ IsList(Append(s, e)) /\ Len(s) \in Nat
         /\ Len(Append(s, e)) = Len(s) + 1
         /\ \A i \in 1 .. Len(s) : Append(s, e)[i] = s[i]
         /\ Append(s, e)[Len(s) + 1] = e
<1>1. PICK S : s \in Seq(S)
  BY DEF IsList
<1>2. s \in Seq(S \cup {e})
  BY <1>1
<1>3. Append(s, e) \in Seq(S \cup {e})
  BY <1>2
<1> QED
  BY <1>2, <1>3 DEF IsList

Hostage(f) == Report!Cardinality(Report!Hostages(f.counts, f.movable))
Pinned(f) == Report!FreeIn(f.counts, Report!Hostages(f.counts, f.movable))

\* What a guest printed is what its snapshot says, and so is what was measured of it.
ReportInv ==
  /\ IsList(files) /\ IsList(printed) /\ IsList(measured)
  /\ Len(printed) = Len(files) /\ Len(measured) <= Len(files)
  /\ \A i \in 1 .. Len(files) :
       printed[i].hostage = Hostage(files[i]) /\ printed[i].pinned = Pinned(files[i])
  /\ \A i \in 1 .. Len(measured) :
       measured[i].hostage = Hostage(files[i]) /\ measured[i].pinned = Pinned(files[i])

\* What goes through as it is hides nothing of what is measured.
LEMMA FieldsOf ==
  ASSUME NEW f
  PROVE  /\ Report!Fields(f, f.movable).hostage = Hostage(f)
         /\ Report!Fields(f, f.movable).pinned = Pinned(f)
BY DEF Report!Fields, Hostage, Pinned

LEMMA ReportInitOK == Report!Init => ReportInv
BY DEF Report!Init, ReportInv, IsList

LEMMA ReportStepOK ==
  ASSUME ReportInv, [Report!Next]_(Report!vars)
  PROVE  ReportInv'
<1>1. CASE Report!Dump
  <2>1. /\ UNCHANGED measured
        /\ files' = Append(files, Report!Snapshot)
        /\ printed' = Append(printed, [hostage |-> Hostage(Report!Snapshot),
                                       pinned  |-> Pinned(Report!Snapshot)])
    BY <1>1 DEF Report!Dump, Report!hostVars, Report!Snapshot, Hostage, Pinned
  <2> HIDE DEF Report!Snapshot
  <2> QED
    BY <2>1, Appended DEF ReportInv
<1>2. CASE Report!ReadSnapshot
  <2> DEFINE f == files[Len(measured) + 1]
  <2>1. /\ UNCHANGED <<files, printed>> /\ Len(measured) < Len(files)
        /\ measured' = Append(measured, Report!Fields(f, f.movable))
    BY <1>2 DEF Report!ReadSnapshot, Report!guestVars
  <2> QED
    BY <2>1, Appended, FieldsOf DEF ReportInv
<1>3. CASE UNCHANGED <<files, printed, measured>>
  BY <1>3 DEF ReportInv
<1> QED
  BY <1>1, <1>2, <1>3
     DEF Report!Next, Report!Boot, Report!ReadBlocks, Report!ReadBlocksFails, Report!Change,
         Report!ReadSnapshotFails, Report!Conclude, Report!WriteFails,
         Report!vars, Report!guestVars, Report!hostVars

LEMMA InvMeasured == ReportInv => MeasuredAsDumped
BY DEF ReportInv, IsList, MeasuredAsDumped, Report!MeasuredAsDumped

\* What a comparison measures of a machine is what that machine printed, for any
\* machines in any order, those that can move ARC data among those that cannot.
\* (toSnapshot(), readSnapshot(), measure())
THEOREM ComparisonsMeasureMachines == Report!Spec => []MeasuredAsDumped
<1>1. Report!Init => ReportInv
  BY ReportInitOK
<1>2. ReportInv /\ [Report!Next]_(Report!vars) => ReportInv'
  BY ReportStepOK
<1> QED
  BY <1>1, <1>2, InvMeasured, PTL DEF Report!Spec

-----------------------------------------------------------------------------
(* What is said of the machines: places in a list, and medians of what is at them. *)

LEMMA AscendingIs ==
  ASSUME NEW S
  PROVE  Report!Ascending(S) =
           [ i \in 1 .. Cardinality(S) |->
               CHOOSE p \in S : Cardinality({ q \in S : q < p }) = i - 1 ]
BY DEF Report!Ascending, Report!Cardinality, Cardinality

\* Each number of a set has its place, and each place its number.
LEMMA AscendingOf ==
  ASSUME NEW S, IsFiniteSet(S), S \subseteq Nat
  PROVE  LET r == Report!Ascending(S)
         IN /\ Cardinality(S) \in Nat /\ DOMAIN r = 1 .. Cardinality(S)
            /\ \A i \in 1 .. Cardinality(S) : r[i] \in S
<1> DEFINE n == Cardinality(S)
           Below(p) == { q \in S : q < p }
           rank == [p \in S |-> Cardinality(Below(p))]
           ranks == { rank[p] : p \in S }
<1>1. n \in Nat
  BY FS_CardinalityType
<1>2. \A p \in S : IsFiniteSet(Below(p)) /\ Cardinality(Below(p)) \in Nat
  BY FS_Subset, FS_CardinalityType
<1>3. ASSUME NEW p \in S, NEW q \in S, q < p PROVE rank[q] < rank[p]
  <2>1. Below(q) \cup {q} \subseteq Below(p) /\ q \notin Below(q)
    <3>1. p \in Nat /\ q \in Nat /\ ~(q < q)
      BY <1>3
    <3>2. ASSUME NEW x \in S, x < q \/ x = q PROVE x < p
      BY <1>3, <3>1, <3>2
    <3> QED
      BY <3>1, <3>2, <1>3
  <2>2. Cardinality(Below(q) \cup {q}) = Cardinality(Below(q)) + 1
    BY <1>2, <2>1, FS_AddElement
  <2>3. Cardinality(Below(q) \cup {q}) <= Cardinality(Below(p))
    BY <1>2, <2>1, FS_Subset
  <2> QED
    BY <1>2, <2>2, <2>3
<1>8. \A p \in S : rank[p] = Cardinality(Below(p))
  OBVIOUS
<1>4. rank \in [S -> 0 .. n - 1]
  <2>1. ASSUME NEW p \in S PROVE Cardinality(Below(p)) \in 0 .. n - 1
    <3>1. Below(p) \subseteq S \ {p}
      OBVIOUS
    <3>2. Cardinality(S \ {p}) = n - 1 /\ IsFiniteSet(S \ {p})
      BY FS_RemoveElement
    <3>3. Cardinality(Below(p)) <= n - 1
      BY <3>1, <3>2, FS_Subset
    <3> HIDE DEF n, Below
    <3> QED
      BY <1>1, <1>2, <3>3
  <2> QED
    BY <2>1
<1> HIDE DEF Below
<1>5. \A p, q \in S : rank[p] = rank[q] => p = q
  <2> HIDE DEF rank
  <2>1. \A p \in S : rank[p] \in 0 .. n - 1
    BY <1>4
  <2> HIDE DEF n
  <2> QED
    BY <1>1, <1>3, <2>1
<1>6. ranks = 0 .. n - 1
  <2>1. IsFiniteSet(0 .. n - 1) /\ Cardinality(0 .. n - 1) = n
    <3> HIDE DEF n
    <3> QED
      BY <1>1, FS_Interval
  <2>2. rank \in Injection(S, 0 .. n - 1)
    <3> HIDE DEF rank, n
    <3> QED
      BY <1>4, <1>5 DEF Injection, IsInjective
  <2>3. rank \in Bijection(S, ranks)
    <3>1. rank \in [S -> ranks]
      OBVIOUS
    <3>2. \A k \in ranks : \E p \in S : rank[p] = k
      OBVIOUS
    <3> HIDE DEF rank, ranks
    <3> QED
      BY <1>5, <3>1, <3>2 DEF Bijection, Injection, Surjection, IsInjective
  <2>4. ranks \subseteq 0 .. n - 1
    <3> HIDE DEF rank, n
    <3> QED
      BY <1>4
  <2> HIDE DEF rank, ranks
  <2>5. Cardinality(ranks) = n
    <3>1. ExistsBijection(S, ranks)
      BY <2>3 DEF ExistsBijection
    <3> QED
      BY <3>1, FS_Bijection
  <2> DEFINE all == 0 .. n - 1
  <2>6. ranks \subseteq all /\ IsFiniteSet(all) /\ Cardinality(ranks) = Cardinality(all)
    BY <2>1, <2>4, <2>5
  <2> HIDE DEF all, n
  <2>7. ranks = all
    BY <2>6, FS_Subset
  <2> QED
    BY <2>7 DEF all
<1>7. ASSUME NEW i \in 1 .. n PROVE Report!Ascending(S)[i] \in S
  <2>1. i - 1 \in ranks
    <3> HIDE DEF n, ranks
    <3> QED
      BY <1>1, <1>6, <1>7
  <2>2. \E p \in S : Cardinality({ q \in S : q < p }) = i - 1
    <3>1. PICK p \in S : rank[p] = i - 1
      BY <2>1 DEF ranks
    <3>2. Cardinality(Below(p)) = i - 1
      BY <1>8, <3>1
    <3> QED
      BY <3>2 DEF Below
  <2>3. (CHOOSE p \in S : Cardinality({ q \in S : q < p }) = i - 1) \in S
    BY <2>2
  <2> QED
    BY <1>7, <2>3, AscendingIs
<1> QED
  BY <1>1, <1>7, AscendingIs

\* The first numbers are in their order.
LEMMA AscendingFirst ==
  ASSUME NEW n \in Nat
  PROVE  Report!Ascending(1 .. n) = [i \in 1 .. n |-> i]
<1>1. Cardinality(1 .. n) = n
  BY FS_Interval
<1>2. ASSUME NEW p \in 1 .. n PROVE Cardinality({ q \in 1 .. n : q < p }) = p - 1
  <2>1. { q \in 1 .. n : q < p } = 1 .. p - 1
    OBVIOUS
  <2>2. Cardinality(1 .. p - 1) = p - 1
    BY FS_Interval
  <2> QED
    BY <2>1, <2>2
<1>3. ASSUME NEW i \in 1 .. n
      PROVE  (CHOOSE p \in 1 .. n : Cardinality({ q \in 1 .. n : q < p }) = i - 1) = i
  <2>1. \A p \in 1 .. n : Cardinality({ q \in 1 .. n : q < p }) = i - 1 <=> p = i
    BY <1>2
  <2> QED
    BY <2>1
<1> QED
  BY <1>1, <1>3, AscendingIs

\* The seeds of a build at some places have the median of these places.
LEMMA MedianOfThese ==
  ASSUME NEW seeds, NEW key, NEW K, IsFiniteSet(K), K \subseteq Nat
  PROVE  LET n == Cardinality(K)
             these == [i \in 1 .. n |-> seeds[Report!Ascending(K)[i]]]
         IN Report!MedianOf(these, key, 1 .. n) = Report!MedianOf(seeds, key, K)
<1> DEFINE n == Cardinality(K)
           r == Report!Ascending(K)
           these == [i \in 1 .. n |-> seeds[r[i]]]
           all == Report!Ascending(1 .. n)
<1>1. n \in Nat /\ DOMAIN r = 1 .. n
  BY AscendingOf
<1> HIDE DEF n
<1>2. all = [i \in 1 .. n |-> i]
  BY <1>1, AscendingFirst
<1> HIDE DEF r, all
<1>3. [i \in DOMAIN all |-> Report!Get(these[all[i]], key)]
        = [i \in DOMAIN r |-> Report!Get(seeds[r[i]], key)]
  BY <1>1, <1>2
<1> HIDE DEF these
<1>4. Report!MedianOf(these, key, 1 .. n) = Report!MedianOf(seeds, key, K)
  BY <1>3 DEF Report!MedianOf, all, r
<1> QED
  BY <1>4 DEF n, these, r

LEMMA Positive == ASSUME NEW x, x > 0 PROVE x # 0
<1> SUFFICES ASSUME x = 0 PROVE FALSE
  OBVIOUS
<1>1. 0 > 0
  BY Zenon
<1>2. ~(0 > 0)
  OBVIOUS
<1> QED
  BY <1>1, <1>2, Zenon

\* There are pairs of machines whose baseline was not saturated.
SomeKept(e) ==
  /\ \A g \in DOMAIN groups : IsList(groups[g])
  /\ Report!Missing(groups, e) = {}
  /\ e.ceiling # 0
  /\ Report!Kept(groups[e.from], groups[e.to], e) # {}

\* Without the machines whose baseline was saturated the verdict is the same, but
\* for a gate that is named.
LEMMA WithoutSaturated ==
  ASSUME NEW e, SomeKept(e)
  PROVE  Report!Judge(groups, e) = Report!JudgeGated(Report!Unsaturated(e), groups, TRUE, e)
<1> DEFINE from == groups[e.from]
           to == groups[e.to]
           K == Report!Kept(from, to, e)
           r == Report!Ascending(K)
           n == Cardinality(K)
           U == Report!Unsaturated(e)
           from2 == [i \in 1 .. n |-> from[r[i]]]
           to2 == [i \in 1 .. n |-> to[r[i]]]
<1>1. e.from \in DOMAIN groups /\ e.to \in DOMAIN groups
  BY DEF SomeKept, Report!Missing
<1>2. Len(from) \in Nat /\ Len(to) \in Nat
  <2>1. IsList(from) /\ IsList(to)
    BY <1>1 DEF SomeKept
  <2> HIDE DEF from, to
  <2> QED
    BY <2>1 DEF IsList
<1>3. /\ K \subseteq 1 .. Report!Least(Len(from), Len(to))
      /\ Report!Least(Len(from), Len(to)) \in Nat
  BY <1>2 DEF Report!Kept, Report!Pairs, Report!Least
<1>4. IsFiniteSet(K) /\ K \subseteq Nat /\ K # {}
  <2>3. K # {}
    BY DEF SomeKept
  <2> DEFINE least == Report!Least(Len(from), Len(to))
  <2> HIDE DEF least, K
  <2>1. K \subseteq 1 .. least /\ least \in Nat
    BY <1>3 DEF least
  <2>2. IsFiniteSet(1 .. least)
    BY <2>1, FS_Interval
  <2> QED
    <3>1. K \in SUBSET (1 .. least)
      BY <2>1
    <3>2. IsFiniteSet(K)
      BY <2>2, <3>1, FS_Subset, Zenon
    <3>3. K \subseteq Nat
      BY <2>1
    <3> QED
      BY <2>3, <3>2, <3>3
<1>5. n \in Nat \ {0} /\ DOMAIN r = 1 .. n /\ \A i \in 1 .. n : r[i] \in K
  <2> HIDE DEF K
  <2>1. n # 0
    BY <1>4, FS_EmptySet
  <2> QED
    BY <1>4, <2>1, AscendingOf
<1>6. U[e.from] = from2 /\ U[e.to] = to2 /\ DOMAIN U = DOMAIN groups
  <2>1. U = [ g \in DOMAIN groups |->
                IF g \in {e.from, e.to} THEN [ i \in DOMAIN r |-> groups[g][r[i]] ]
                                        ELSE groups[g] ]
    BY DEF Report!Unsaturated
  <2> HIDE DEF U, r, n
  <2> QED
    BY <1>1, <1>5, <2>1
<1>7. Len(from2) = n /\ Len(to2) = n
  <2> HIDE DEF n
  <2> QED
    BY <1>5
<1>8. Report!Kept(from2, to2, e) = 1 .. n
  <2>1. Report!Pairs(from2, to2) = 1 .. n
    <3> HIDE DEF n, from2, to2
    <3> QED
      BY <1>5, <1>7 DEF Report!Pairs, Report!Least
  <2>2. \A i \in 1 .. n : Report!Below(from2[i], e)
    <3>1. \A p \in K : Report!Below(from[p], e)
      BY DEF Report!Kept
    <3> HIDE DEF K, n, r
    <3> QED
      BY <1>5, <3>1
  <2> HIDE DEF n, from2, to2
  <2> QED
    BY <2>1, <2>2 DEF Report!Kept
<1>9. /\ Report!MedianOf(from2, e.metric, 1 .. n) = Report!MedianOf(from, e.metric, K)
      /\ Report!MedianOf(to2, e.metric, 1 .. n) = Report!MedianOf(to, e.metric, K)
  <2> HIDE DEF K, from, to
  <2> QED
    BY <1>4, MedianOfThese
<1>10. Report!Both(from2, to2, e) = Report!Both(from, to, e)
  <2>1. e.ceiling # 0
    BY DEF SomeKept
  <2>2. 1 .. n # {}
    <3> HIDE DEF n
    <3>1. 1 \in 1 .. n
      BY <1>5
    <3> QED
      BY <3>1
  <2> HIDE DEF n, from2, to2, from, to
  <2> QED
    BY <1>4, <1>8, <1>9, <2>1, <2>2 DEF Report!Both, K
<1>11. Report!Missing(U, e) = {}
  BY <1>1, <1>6 DEF Report!Missing
<1> HIDE DEF from2, to2, U, K, n, r
<1> QED
  BY <1>6, <1>10, <1>11 DEF Report!Judge, Report!JudgeGated, SomeKept, U

\* Verdicts are judged of the builds there are, and the status says what they say.
JudgeInv ==
  /\ \A g \in DOMAIN groups : IsList(groups[g])
  /\ phase # "done" => verdicts = None
  /\ phase = "done" /\ verdicts # None =>
       /\ \A i \in DOMAIN verdicts : verdicts[i] = Report!Judge(groups, verdicts[i].e)
       /\ status = 0 <=> \A i \in DOMAIN verdicts : ~Report!Fatal(verdicts[i])
\* Of a build that is missing there is no more to say.
LEMMA MissingSays ==
  ASSUME NEW gs, NEW e
  PROVE  LET v == Report!Judge(gs, e)
         IN IF Report!Missing(gs, e) = {} THEN v.missing = FALSE
            ELSE v.missing = TRUE /\ v.nosignal = FALSE /\ v.ok = FALSE
<1>1. CASE Report!Missing(gs, e) = {}
  BY <1>1 DEF Report!Judge, Report!JudgeGated
<1>2. CASE Report!Missing(gs, e) # {}
  <2>1. Report!Judge(gs, e) = [e |-> e, missing |-> TRUE, nosignal |-> FALSE, ok |-> FALSE]
    BY <1>2, Zenon DEF Report!Judge, Report!JudgeGated
  <2> QED
    BY <1>2, <2>1
<1> QED
  BY <1>1, <1>2

LEMMA JudgeInitOK == Report!Init => JudgeInv
BY DEF Report!Init, JudgeInv, IsList

LEMMA JudgeStepOK ==
  ASSUME JudgeInv, [Report!Next]_(Report!vars)
  PROVE  JudgeInv'
<1>1. CASE Report!ReadSnapshot
  <2>1. /\ phase = "host" /\ phase' = "host" /\ verdicts' = verdicts
        /\ \E build, fields : groups' = [ g \in DOMAIN groups \cup {build} |->
                        IF g # build THEN groups[g]
                        ELSE IF g \in DOMAIN groups THEN Append(groups[g], fields)
                        ELSE <<fields>> ]
    BY <1>1 DEF Report!ReadSnapshot
  <2>2. PICK build, fields : groups' = [ g \in DOMAIN groups \cup {build} |->
                        IF g # build THEN groups[g]
                        ELSE IF g \in DOMAIN groups THEN Append(groups[g], fields)
                        ELSE <<fields>> ]
    BY <2>1
  <2>3. IsList(<<fields>>)
    <3>1. <<fields>> \in Seq({fields})
      OBVIOUS
    <3> QED
      BY <3>1 DEF IsList
  <2>4. \A g \in DOMAIN groups : IsList(Append(groups[g], fields))
    BY Appended DEF JudgeInv
  <2>5. \A g \in DOMAIN groups' : IsList(groups'[g])
    BY <2>2, <2>3, <2>4 DEF JudgeInv
  <2> QED
    BY <2>1, <2>5 DEF JudgeInv
<1>2. CASE Report!Conclude
  <2>1. /\ phase = "host" /\ phase' = "done" /\ groups' = groups /\ verdicts = None
    BY <1>2 DEF Report!Conclude, Report!Compared, Report!Exit, JudgeInv
  <2>2. PICK asserted \in Assertions :
          IF \E i \in DOMAIN asserted : Report!Parse(asserted[i]) = None
          THEN Report!Exit(1) /\ UNCHANGED verdicts
          ELSE /\ verdicts' = [ i \in DOMAIN asserted |->
                                  Report!Judge(groups, Report!Parse(asserted[i])) ]
               /\ Report!Exit(IF \E i \in DOMAIN verdicts' : Report!Fatal(verdicts'[i])
                              THEN 1 ELSE 0)
    BY <1>2 DEF Report!Conclude
  <2>3. CASE verdicts' = None
    BY <2>1, <2>3 DEF JudgeInv
  <2>4. CASE verdicts' # None
    <3>1. /\ verdicts' = [ i \in DOMAIN asserted |->
                             Report!Judge(groups, Report!Parse(asserted[i])) ]
          /\ status' = IF \E i \in DOMAIN verdicts' : Report!Fatal(verdicts'[i]) THEN 1 ELSE 0
      BY <2>1, <2>2, <2>4 DEF Report!Exit
    <3>2. \A x : Report!Judge(groups, x).e = x
      BY DEF Report!Judge, Report!JudgeGated
    <3>3. \A i \in DOMAIN verdicts' :
            verdicts'[i] = Report!Judge(groups, verdicts'[i].e)
      BY <3>1, <3>2
    <3> QED
      BY <2>1, <3>1, <3>3 DEF JudgeInv
  <2> QED
    BY <2>3, <2>4
<1>3. CASE Report!ReadSnapshotFails \/ Report!WriteFails
  BY <1>3 DEF Report!ReadSnapshotFails, Report!WriteFails, Report!Compared, Report!Exit, JudgeInv
<1>4. CASE \/ Report!Boot \/ Report!ReadBlocks \/ Report!ReadBlocksFails \/ Report!Change
           \/ Report!Dump \/ UNCHANGED Report!vars
  <2>1. /\ UNCHANGED <<groups, verdicts, status>>
        /\ phase' = "done" <=> phase = "done"
    BY <1>4 DEF Report!Boot, Report!ReadBlocks, Report!ReadBlocksFails, Report!Change,
                Report!Dump, Report!Swept, Report!hostVars, Report!vars
  <2> QED
    BY <2>1 DEF JudgeInv
<1> QED
  BY <1>1, <1>2, <1>3, <1>4 DEF Report!Next

LEMMA InvJudged == JudgeInv => JudgedFairly
<1> SUFFICES ASSUME JudgeInv, phase = "done", verdicts # None
             PROVE  JudgedFairly
  BY DEF JudgedFairly, Report!JudgedFairly
<1>1. ASSUME NEW i \in DOMAIN verdicts
      PROVE  ~Report!Fatal(verdicts[i])
               <=> \/ Report!Mark(verdicts[i]) = "check"
                   \/ Report!Mark(verdicts[i]) = "warning" /\ verdicts[i].e.skip
  <2> DEFINE v == verdicts[i]
  <2>1. v.missing => ~v.nosignal /\ ~v.ok
    <3>1. v = Report!Judge(groups, v.e)
      BY DEF JudgeInv
    <3> HIDE DEF v
    <3> QED
      BY <3>1, MissingSays
  <2> HIDE DEF v
  <2>2. ~Report!Fatal(v) <=> \/ Report!Mark(v) = "check"
                             \/ Report!Mark(v) = "warning" /\ v.e.skip
    BY <2>1 DEF Report!Fatal, Report!Mark
  <2> QED
    BY <2>2 DEF v
<1>2. ASSUME NEW i \in DOMAIN verdicts, verdicts[i].e.ceiling > 0, ~verdicts[i].missing,
             LET e == verdicts[i].e IN Report!Kept(groups[e.from], groups[e.to], e) # {}
      PROVE  LET e == verdicts[i].e
             IN verdicts[i] = Report!JudgeGated(Report!Unsaturated(e), groups, TRUE, e)
  <2> DEFINE e == verdicts[i].e
  <2>1. verdicts[i] = Report!Judge(groups, e)
    BY DEF JudgeInv
  <2>2. Report!Missing(groups, e) = {}
    BY <1>2, <2>1, MissingSays
  <2> HIDE DEF e
  <2>3. Report!Judge(groups, e) = Report!JudgeGated(Report!Unsaturated(e), groups, TRUE, e)
    BY <1>2, <2>2, Positive, WithoutSaturated, Zenon DEF JudgeInv, SomeKept, e
  <2> QED
    BY <2>1, <2>3 DEF e
<1> QED
  BY <1>1, <1>2 DEF JudgeInv, JudgedFairly, Report!JudgedFairly

\* For any builds of any machines and any assertions: the exit status says what the
\* marks say, and a verdict is the one the machines would get without those whose
\* baseline was saturated, if any are left, where only a gate that is named is still
\* read off all of them. (judge(), pairedBelow(), fatal())
THEOREM VerdictsAreFair == Report!Spec => []JudgedFairly
<1>1. Report!Init => JudgeInv
  BY JudgeInitOK
<1>2. JudgeInv /\ [Report!Next]_(Report!vars) => JudgeInv'
  BY JudgeStepOK
<1> QED
  BY <1>1, <1>2, InvJudged, PTL DEF Report!Spec

-----------------------------------------------------------------------------
(* What is drawn of a sweep: hostages in a window of any place and size. *)

LEMMA KnownFinite ==
  /\ IsFiniteSet(Report!KnownClass) /\ Cardinality(Report!KnownClass) <= 12
  /\ IsFiniteSet(Report!Class) /\ Report!KnownClass \subseteq Report!Class
  /\ "free" \in Report!KnownClass /\ "hostage" \notin Report!KnownClass
  /\ DOMAIN Report!Known = 1 .. 12 /\ \A i \in 1 .. 12 : Report!Known[i] \in Report!KnownClass
<1> DEFINE known == Report!Known
<1>1. DOMAIN known = 1 .. 12 /\ Len(known) = 12
  BY DEF Report!Known
<1>2. known[1] = "free" /\ \A i \in 1 .. 12 : known[i] # "hostage"
  BY DEF Report!Known
<1>3. Report!KnownClass = { known[i] : i \in 1 .. 12 }
  BY <1>1 DEF Report!KnownClass, Report!ToSet
<1>4. known \in [1 .. 12 -> Report!KnownClass]
  <2>1. known = [i \in 1 .. 12 |-> known[i]]
    BY DEF Report!Known
  <2> HIDE DEF known
  <2> QED
    BY <1>1, <1>3, <2>1
<1> HIDE DEF known
<1>5. known \in Surjection(1 .. 12, Report!KnownClass)
  BY <1>3, <1>4 DEF Surjection
<1>6. IsFiniteSet(1 .. 12) /\ Cardinality(1 .. 12) = 12
  <2>1. 1 \in Int /\ 12 \in Int /\ ~(1 > 12) /\ 12 - 1 + 1 = 12
    OBVIOUS
  <2> QED
    BY <2>1, FS_Interval
<1>7. IsFiniteSet(Report!KnownClass) /\ Cardinality(Report!KnownClass) <= 12
  BY <1>5, <1>6, FS_Surjection
<1>8. IsFiniteSet(Report!Class)
  BY <1>7, FS_Singleton, FS_Union DEF Report!Class
<1> QED
  BY <1>1, <1>2, <1>3, <1>7, <1>8 DEF Report!Class, known

Census == { c \in [Report!Class -> Nat] :
              Report!Total(c, Report!KnownClass) <= PagesPerBlock }

\* A hostage has pages, so it is looked at.
LEMMA HostageValid ==
  ASSUME NEW c \in Census, NEW m, Report!View(c, m).hostage
  PROVE  Report!View(c, m).valid
<1> DEFINE known == Report!Total(c, Report!KnownClass)
<1>1. known \in Nat /\ c["free"] <= known /\ c["free"] \in Nat
  BY KnownFinite, TotalOf DEF Census
<1>2. 8 * (known - c["free"]) < known
  BY DEF Report!View
<1> HIDE DEF known
<1>3. known > 0
  BY <1>1, <1>2
<1> QED
  BY <1>3 DEF Report!View, known

\* Some number of finitely many is the greatest, and some index the first of it.
LEMMA FirstMostKnown ==
  ASSUME NEW votes \in [Report!KnownClass -> Nat]
  PROVE  Report!FirstMost(votes, Report!Known, Report!KnownClass) \in Report!KnownClass
<1> DEFINE S == { votes[k] : k \in Report!KnownClass }
           most == Report!Max(S)
           whole == Report!Total(votes, Report!KnownClass)
           known == Report!Known
           T == { i \in DOMAIN known : known[i] \in Report!KnownClass /\ votes[known[i]] = most }
<1>1. whole \in Nat /\ \A x \in S : x \in Nat /\ x <= whole
  <2>1. whole \in Nat /\ \A k \in Report!KnownClass : votes[k] <= whole
    BY KnownFinite, TotalOf
  <2> HIDE DEF whole
  <2> QED
    BY <2>1
<1>2. \E x \in S : \A y \in S : x >= y
  <2> DEFINE below == { whole - x : x \in S }
  <2>1. below \subseteq Nat /\ below # {}
    BY <1>1, KnownFinite
  <2>2. PICK d \in below : \A e \in below : d <= e
    <3> HIDE DEF below
    <3> QED
      BY <2>1, LeastOf
  <2>3. PICK x \in S : d = whole - x
    BY <2>2
  <2>4. ASSUME NEW y \in S PROVE x >= y
    <3>1. whole - x <= whole - y
      BY <2>2, <2>3
    <3> HIDE DEF S, whole
    <3> QED
      BY <1>1, <3>1
  <2> QED
    BY <2>4
<1>3. most \in S
  <2> HIDE DEF S
  <2> QED
    BY <1>2 DEF Report!Max
<1>4. T \subseteq Nat /\ T # {}
  <2>1. PICK k \in Report!KnownClass : votes[k] = most
    BY <1>3
  <2>2. PICK j \in 1 .. 12 : known[j] = k
    BY KnownFinite DEF Report!KnownClass, Report!ToSet
  <2>3. DOMAIN known = 1 .. 12
    BY KnownFinite
  <2> HIDE DEF most, known
  <2> QED
    BY <2>1, <2>2, <2>3
<1>5. Report!Min(T) \in T
  <2> HIDE DEF T
  <2> QED
    BY <1>4, LeastOf DEF Report!Min
<1>6. Report!FirstMost(votes, known, Report!KnownClass) = known[Report!Min(T)]
  BY DEF Report!FirstMost
<1> HIDE DEF known, most
<1> QED
  BY <1>5, <1>6 DEF known

\* Any block of a window is in one of its cells.
LEMMA CellOf ==
  ASSUME NEW from \in Nat, NEW to \in Nat, NEW cells \in Nat \ {0}, NEW b \in from .. to - 1
  PROVE  \E c \in Report!Cells(from, to, cells) :
           /\ b \in c .. c + Report!PerCell(from, to, cells) - 1
           /\ Report!PerCell(from, to, cells) \in Nat
<1> DEFINE per == Report!PerCell(from, to, cells)
           n == (b - from) \div per
<1>1. to - from <= cells * Report!Up(to - from, cells) /\ Report!Up(to - from, cells) \in Nat
  BY DEF Report!Up
<1>2. per \in Nat \ {0} /\ to - from <= cells * per
  BY <1>1 DEF Report!PerCell
<1> HIDE DEF per
<1>3. n \in Nat /\ n * per <= b - from /\ b - from < n * per + per
  BY <1>2
<1> HIDE DEF n
<1>4. n < cells
  <2>1. n * per < cells * per
    BY <1>2, <1>3
  <2> QED
    BY <1>2, <1>3, <2>1
<1>5. from + n * per \in { from + m * per : m \in 0 .. cells - 1 }
  BY <1>3, <1>4
<1>6. n * per \in Nat /\ from + n * per < to /\ b \in from + n * per .. from + n * per + per - 1
  BY <1>2, <1>3
<1>7. from + n * per \in Report!Cells(from, to, cells)
  BY <1>5, <1>6 DEF Report!Cells, per
<1> QED
  BY <1>2, <1>6, <1>7 DEF per

\* A cell is red if and only if a hostage is in it.
LEMMA RedCell ==
  ASSUME NEW numbers \in [Report!Block -> Census], NEW m, NEW c \in Int, NEW n \in Int,
         NEW byClass
  PROVE  LET views == Report!Views(numbers, m) IN
         Report!Cell(views, c, c + n, byClass).colour = "hostage"
           <=> \E b \in c .. c + n - 1 : b \in Report!Block /\ views[b].hostage
<1> DEFINE views == Report!Views(numbers, m)
           d == c + n
           shown == { b \in c .. d - 1 : b \in DOMAIN views /\ views[b].valid }
           votes == [k \in Report!KnownClass |->
                       Report!Cardinality({ b \in shown : views[b].pick = k })]
           moves == { b \in shown : views[b].movable }
           pick == Report!FirstMost(votes, Report!Known, Report!KnownClass)
           red == \E b \in shown : views[b].hostage
           cell == Report!Cell(views, c, d, byClass)
<1>1. DOMAIN views = Report!Block
  BY DEF Report!Views
<1>2. \A b \in Report!Block : views[b].hostage => views[b].valid
  BY HostageValid DEF Report!Views
<1>3. red <=> \E b \in c .. d - 1 : b \in Report!Block /\ views[b].hostage
  BY <1>1, <1>2
<1>4. cell.colour = IF shown = {} THEN "none" ELSE IF red THEN "hostage"
                    ELSE IF byClass \/ pick = "free" THEN pick
                    ELSE IF 2 * Report!Cardinality(moves) > Report!Cardinality(shown)
                         THEN "movable" ELSE "pinned"
  BY DEF Report!Cell
<1>5. pick # "hostage"
  <2>1. IsFiniteSet(shown)
    <3>1. IsFiniteSet(c .. d - 1) /\ shown \subseteq c .. d - 1
      BY FS_Interval
    <3> HIDE DEF shown
    <3> QED
      BY <3>1, FS_Subset
  <2>2. \A k \in Report!KnownClass :
          Report!Cardinality({ b \in shown : views[b].pick = k }) \in Nat
    BY <2>1, FS_Subset, FS_CardinalityType DEF Report!Cardinality, Cardinality
  <2>3. votes \in [Report!KnownClass -> Nat]
    BY <2>2
  <2> HIDE DEF votes
  <2> QED
    BY <2>3, FirstMostKnown, KnownFinite
<1>6. red => shown # {}
  OBVIOUS
<1> HIDE DEF views, d, shown, votes, moves, pick, red, cell
<1>7. cell.colour = "hostage" <=> red
  BY <1>4, <1>5, <1>6
<1> QED
  BY <1>3, <1>7 DEF cell, views, d

LEMMA RangesOK == /\ PagesPerBlock \in Nat \ {0} /\ Buffer \in Nat /\ Report!BlockCount \in Int
                  /\ Report!FirstPFN \in Nat /\ EndPFN \in Nat
<1>1. /\ Len(Ranges) \in Nat \ {0}
      /\ \A i \in 1 .. Len(Ranges) : Ranges[i] \in [first : Nat, last : Nat]
  <2> DEFINE OneRange == [first : Nat, last : Nat]
  <2>1. Ranges \in Seq(OneRange) /\ Ranges # <<>>
    BY ProgramsAssumption DEF ProgramsAssumption, Report!RangesAssumption
  <2>2. Len(Ranges) \in Nat /\ Len(Ranges) # 0
    BY <2>1
  <2>3. \A i \in 1 .. Len(Ranges) : Ranges[i] \in [first : Nat, last : Nat]
    <3> HIDE DEF OneRange
    <3>1. \A i \in 1 .. Len(Ranges) : Ranges[i] \in OneRange
      BY <2>1
    <3> QED
      BY <3>1 DEF OneRange
  <2> QED
    BY <2>2, <2>3
<1>2. Ranges[1].first \in Nat /\ Ranges[Len(Ranges)].last \in Nat
  BY <1>1
<1>3. PagesPerBlock \in Nat \ {0} /\ Buffer \in Nat /\ EndPFN = Ranges[Len(Ranges)].last + 1
  BY ProgramsAssumption
     DEF ProgramsAssumption, Report!PagesAssumption, Report!BufferAssumption, Report!EndAssumption
<1>4. Report!BlockCount \in Int /\ Report!FirstPFN \in Nat
  BY <1>2, <1>3 DEF Report!BlockCount, Report!Blocks, Report!FirstPFN
<1> QED
  BY <1>2, <1>3, <1>4

LEMMA SweptHostages ==
  ASSUME phase = "scan" => census \in [Report!Block -> Census]
  PROVE  HostagesSeen
<1> SUFFICES ASSUME census \in [Report!Block -> Census],
                    NEW from \in Report!Block, NEW to \in 1 .. Report!BlockCount,
                    NEW cells \in 1 .. Report!BlockCount, NEW byClass \in BOOLEAN, from < to
             PROVE  LET views == Report!Views(census, movable)
                        per == Report!PerCell(from, to, cells)
                        red == { c \in Report!Cells(from, to, cells) :
                                   Report!Cell(views, c, c + per, byClass).colour = "hostage" }
                        hostages == { b \in from .. to - 1 : views[b].hostage }
                    IN /\ \A b \in hostages : \E c \in red : b \in c .. c + per - 1
                       /\ \A c \in red : \E b \in c .. c + per - 1 :
                            b < Report!BlockCount /\ views[b].hostage
  BY DEF HostagesSeen, Report!HostagesSeen, Report!Swept
<1> DEFINE views == Report!Views(census, movable)
           per == Report!PerCell(from, to, cells)
<1>1. from \in Nat /\ to \in Nat /\ cells \in Nat \ {0} /\ per \in Int
  BY RangesOK DEF Report!Block, Report!PerCell, Report!Up
<1>2. \A c \in Report!Cells(from, to, cells) : c \in Int /\ c + per \in Int
  BY <1>1 DEF Report!Cells
<1>5. \A c \in Report!Cells(from, to, cells) :
        Report!Cell(views, c, c + per, byClass).colour = "hostage"
          <=> \E b \in c .. c + per - 1 : b \in Report!Block /\ views[b].hostage
  <2> HIDE DEF per
  <2> QED
    BY <1>1, <1>2, RedCell
<1> HIDE DEF per, views
<1>3. ASSUME NEW b \in from .. to - 1, views[b].hostage
      PROVE  \E c \in Report!Cells(from, to, cells) :
               /\ Report!Cell(views, c, c + per, byClass).colour = "hostage"
               /\ b \in c .. c + per - 1
  <2>1. PICK c \in Report!Cells(from, to, cells) : b \in c .. c + per - 1
    BY <1>1, CellOf DEF per
  <2>2. b \in Report!Block
    BY <1>1, RangesOK DEF Report!Block
  <2> QED
    BY <1>3, <1>5, <2>1, <2>2
<1>4. ASSUME NEW c \in Report!Cells(from, to, cells),
             Report!Cell(views, c, c + per, byClass).colour = "hostage"
      PROVE  \E b \in c .. c + per - 1 : b < Report!BlockCount /\ views[b].hostage
  <2>1. PICK b \in c .. c + per - 1 : b \in Report!Block /\ views[b].hostage
    BY <1>4, <1>5
  <2> QED
    BY <2>1, RangesOK DEF Report!Block
<1> QED
  BY <1>3, <1>4 DEF per, views

-----------------------------------------------------------------------------
(* The sweep of a guest. *)

CensusAt(m, s) ==
  LET class == [ p \in DOMAIN m |-> Report!Classify(m[p]) ]
  IN [ k \in Report!Class |-> Cardinality({ p \in s .. s + PagesPerBlock - 1 :
                                              p < EndPFN /\ class[p] = k }) ]

\* The pages that are read of a block are those of the block that are in the file.
LEMMA TallyIsCensus ==
  ASSUME NEW m, DOMAIN m = 0 .. EndPFN - 1, NEW s \in Nat, NEW n \in Int,
         n = Report!Least(PagesPerBlock, EndPFN - s)
  PROVE  LET words == [ j \in 1 .. n |-> m[s + j - 1] ]
         IN Report!Tally(words) = CensusAt(m, s) /\ Report!Tally(words) \in Census
<1> DEFINE words == [ j \in 1 .. n |-> m[s + j - 1] ]
           class == [ p \in DOMAIN m |-> Report!Classify(m[p]) ]
           X(k) == { i \in 1 .. n : Report!Classify(words[i]) = k }
           Y(k) == { p \in s .. s + PagesPerBlock - 1 : p < EndPFN /\ class[p] = k }
<1>1. PagesPerBlock \in Nat \ {0} /\ EndPFN \in Nat
  BY RangesOK
<1>2. ASSUME NEW k
      PROVE  Cardinality(X(k)) = Cardinality(Y(k)) /\ Cardinality(X(k)) \in Nat
  <2> DEFINE f == [ i \in X(k) |-> s + i - 1 ]
  <2>1. \A i \in 1 .. n : s + i - 1 \in s .. s + PagesPerBlock - 1 /\ s + i - 1 < EndPFN
    BY <1>1 DEF Report!Least
  <2>2. ASSUME NEW p \in s .. s + PagesPerBlock - 1, p < EndPFN
        PROVE  p - s + 1 \in 1 .. n /\ p = s + (p - s + 1) - 1 /\ p \in DOMAIN m
    BY <1>1, <2>2 DEF Report!Least
  <2>3. \A i \in 1 .. n : words[i] = m[s + i - 1] /\ s + i - 1 \in DOMAIN m
    BY <1>1, <2>1
  <2>4. \A i \in X(k) : f[i] = s + i - 1 /\ f[i] \in Y(k)
    <3> HIDE DEF words
    <3> QED
      BY <2>1, <2>3
  <2>5. ASSUME NEW p \in Y(k) PROVE \E i \in X(k) : f[i] = p
    <3>1. p - s + 1 \in 1 .. n /\ p = s + (p - s + 1) - 1 /\ p \in DOMAIN m
      BY <2>2
    <3>2. words[p - s + 1] = m[p]
      BY <2>3, <3>1
    <3>3. p - s + 1 \in X(k)
      <4> HIDE DEF words
      <4> QED
        BY <3>1, <3>2
    <3> HIDE DEF X, Y
    <3> QED
      BY <3>1, <3>3
  <2>6. \A i, j \in X(k) : f[i] = f[j] => i = j
    BY DEF Report!Least
  <2>7. f \in Bijection(X(k), Y(k))
    <3> HIDE DEF X, Y
    <3>1. f \in [X(k) -> Y(k)]
      BY <2>4
    <3> HIDE DEF f
    <3> QED
      BY <2>5, <2>6, <3>1 DEF Bijection, Injection, Surjection, IsInjective
  <2>8. ExistsBijection(X(k), Y(k))
    <3> HIDE DEF X, Y, f
    <3> QED
      BY <2>7 DEF ExistsBijection
  <2>9. IsFiniteSet(X(k))
    <3>1. IsFiniteSet(1 .. n) /\ X(k) \subseteq 1 .. n
      BY FS_Interval
    <3> HIDE DEF X
    <3> QED
      BY <3>1, FS_Subset
  <2> HIDE DEF X, Y
  <2> QED
    BY <2>8, <2>9, FS_Bijection, FS_CardinalityType
<1>3. Report!Tally(words) = [k \in Report!Class |-> Cardinality(X(k))]
  <2> DEFINE of == [ i \in DOMAIN words |-> Report!Classify(words[i]) ]
             Z(k) == { i \in DOMAIN words : of[i] = k }
  <2>1. Report!Tally(words) = [k \in Report!Class |-> Report!Cardinality(Z(k))]
    BY DEF Report!Tally
  <2>2. ASSUME NEW k PROVE Z(k) = X(k)
    <3>1. DOMAIN words = 1 .. n
      OBVIOUS
    <3> HIDE DEF words
    <3> QED
      BY <3>1
  <2>3. ASSUME NEW k PROVE Report!Cardinality(X(k)) = Cardinality(X(k))
    BY DEF Report!Cardinality, Cardinality
  <2> HIDE DEF X, Z, words
  <2> QED
    BY <2>1, <2>2, <2>3
<1>4. CensusAt(m, s) = [k \in Report!Class |-> Cardinality(Y(k))]
  BY DEF CensusAt
<1>5. Report!Total(Report!Tally(words), Report!KnownClass) <= PagesPerBlock
  <2> DEFINE S == [k \in Report!KnownClass |-> X(k)]
             c == Report!Tally(words)
  <2>1. IsFiniteSet(1 .. n) /\ Cardinality(1 .. n) <= PagesPerBlock
    <3>1. IsFiniteSet(1 .. n) /\ Cardinality(1 .. n) = IF 1 > n THEN 0 ELSE n - 1 + 1
      <4>1. 1 \in Int /\ n \in Int
        OBVIOUS
      <4> QED
        BY <4>1, FS_Interval, Zenon
    <3> QED
      BY <1>1, <3>1 DEF Report!Least
  <2>2. \A k \in Report!KnownClass : S[k] \in SUBSET (1 .. n) /\ c[k] = Cardinality(S[k])
    BY <1>3, KnownFinite
  <2>3. \A k, l \in Report!KnownClass : k # l => S[k] \cap S[l] = {}
    OBVIOUS
  <2>4. UNION { S[k] : k \in Report!KnownClass } \in SUBSET (1 .. n)
    BY <2>2
  <2> HIDE DEF S, c, X, words
  <2> DEFINE U == 1 .. n
             D == Report!KnownClass
  <2>5. Report!Total(c, D) = Cardinality(UNION { S[k] : k \in D })
    <3>1. IsFiniteSet(D) /\ IsFiniteSet(U)
      BY <2>1, KnownFinite
    <3>2. \A k \in D : S[k] \in SUBSET U
      BY <2>2
    <3>3. \A k \in D : c[k] = Cardinality(S[k])
      BY <2>2
    <3>4. \A k, l \in D : k # l => S[k] \cap S[l] = {}
      BY <2>3
    <3> HIDE DEF U, D
    <3> QED
      BY <3>1, <3>2, <3>3, <3>4, TotalApart
  <2> DEFINE W == UNION { S[k] : k \in Report!KnownClass }
  <2>6. W \in SUBSET (1 .. n)
    BY <2>4
  <2> HIDE DEF W
  <2>7. Cardinality(W) <= Cardinality(1 .. n) /\ Cardinality(W) \in Nat
          /\ Cardinality(1 .. n) \in Nat
    BY <2>1, <2>6, FS_Subset, FS_CardinalityType
  <2> QED
    BY <1>1, <2>1, <2>5, <2>7 DEF W, c
<1> HIDE DEF X, Y, words
<1> QED
  BY <1>2, <1>3, <1>4, <1>5 DEF Census, words

Counted(numbers, m, b) ==
  \/ numbers[b] = CensusAt(m, Report!StartPFN(b))
  \/ numbers[b] = Report!NoPages /\ ~Report!InRAM(Report!StartPFN(b))

\* A sweep has counted the blocks before the one it is at, and nothing behind it.
SweepInv ==
  /\ phase = "boot" => guest \in 0 .. Len(Guests) - 1
  /\ phase = "scan" =>
       /\ guest \in 1 .. Len(Guests) /\ blk \in Nat
       /\ DOMAIN pages = 0 .. EndPFN - 1
       /\ census \in [Report!Block -> Census]
       /\ \A b \in Report!Block : b >= blk => census[b] = Report!NoPages
       /\ still => \A b \in Report!Block : b < blk => Counted(census, pages, b)

LEMMA NothingCounted == [b \in Report!Block |-> Report!NoPages] \in [Report!Block -> Census]
<1> DEFINE none == Report!NoPages
<1>1. none \in [Report!Class -> Nat] /\ \A k \in Report!KnownClass : none[k] = 0
  BY KnownFinite DEF Report!NoPages
<1> HIDE DEF none
<1>2. Report!Total(none, Report!KnownClass) <= Cardinality(Report!KnownClass) * 0
  BY <1>1, KnownFinite, TotalAtMost
<1>3. Cardinality(Report!KnownClass) \in Nat /\ Report!Total(none, Report!KnownClass) \in Nat
  BY <1>1, KnownFinite, TotalOf, FS_CardinalityType
<1>4. none \in Census
  BY <1>1, <1>2, <1>3, RangesOK DEF Census
<1> QED
  BY <1>4 DEF none

LEMMA SweepInitOK == Report!Init => SweepInv
BY ProgramsAssumption DEF Report!Init, SweepInv, ProgramsAssumption, Report!GuestsAssumption

\* Whatever the buffer has room for, of each block it holds the pages that the file has.
LEMMA BlockInBuffer ==
  ASSUME NEW f \in Nat, NEW a \in Nat, NEW w \in Nat, NEW b \in a .. a + w - 1,
         NEW n, n = Report!Least(PagesPerBlock,
                      f + a * PagesPerBlock
                        + Report!Least(w * PagesPerBlock, EndPFN - (f + a * PagesPerBlock))
                        - (f + b * PagesPerBlock))
  PROVE  n \in Int /\ n = Report!Least(PagesPerBlock, EndPFN - (f + b * PagesPerBlock))
<1> DEFINE x == a * PagesPerBlock
           y == b * PagesPerBlock
           z == w * PagesPerBlock
<1>1. PagesPerBlock \in Nat \ {0} /\ EndPFN \in Nat /\ b \in Nat
  BY RangesOK
<1>2. x \in Nat /\ y \in Nat /\ z \in Nat
  BY <1>1
<1>3. x + z - y >= PagesPerBlock
  <2>1. (a + w - b) * PagesPerBlock = x + z - y
    BY <1>1
  <2>2. a + w - b \in Nat \ {0}
    BY <1>1
  <2>3. (a + w - b) * PagesPerBlock >= PagesPerBlock
    BY <1>1, <2>2
  <2> HIDE DEF x, y, z
  <2> QED
    BY <1>2, <2>1, <2>3
<1> HIDE DEF x, y, z
<1>4. n = Report!Least(PagesPerBlock, f + x + Report!Least(z, EndPFN - (f + x)) - (f + y))
  BY DEF x, y, z
<1>5. n \in Int /\ n = Report!Least(PagesPerBlock, EndPFN - (f + y))
  BY <1>1, <1>2, <1>3, <1>4 DEF Report!Least
<1> QED
  BY <1>5 DEF y

LEMMA ReadBlocksOK ==
  ASSUME SweepInv, Report!ReadBlocks
  PROVE  SweepInv'
<1> DEFINE pfn == Report!StartPFN(blk)
           room == Report!Least(Buffer \div PagesPerBlock, Report!BlockCount - blk)
           size == Report!Least(room * PagesPerBlock, EndPFN - pfn)
<1>1. /\ phase = "scan" /\ blk < Report!BlockCount /\ blk \in Nat
      /\ UNCHANGED <<phase, guest, pages, still>>
      /\ DOMAIN pages = 0 .. EndPFN - 1
      /\ census \in [Report!Block -> Census]
      /\ guest \in 1 .. Len(Guests)
  BY DEF Report!ReadBlocks, SweepInv
<1>2. CASE ~Report!InRAM(pfn)
  <2>1. blk' = blk + 1 /\ UNCHANGED census
    BY <1>2 DEF Report!ReadBlocks
  <2>2. blk \in Report!Block /\ census[blk] = Report!NoPages
    BY <1>1, RangesOK DEF SweepInv, Report!Block
  <2>3. Counted(census, pages, blk)
    BY <1>2, <2>2 DEF Counted
  <2> HIDE DEF pfn, room, size
  <2>4. \A b \in Report!Block : b < blk + 1 => b < blk \/ b = blk
    BY <1>1, RangesOK DEF Report!Block
  <2>5. \A b \in Report!Block : b >= blk + 1 => b >= blk
    BY <1>1, RangesOK DEF Report!Block
  <2> QED
    BY <1>1, <2>1, <2>3, <2>4, <2>5 DEF SweepInv
<1>3. CASE Report!InRAM(pfn)
  <2> DEFINE words(b) == Report!Words(pfn, size, b)
             tally(b) == IF b \in blk .. blk + room - 1 THEN Report!Tally(words(b)) ELSE census[b]
  <2>1. /\ census' = [b \in Report!Block |-> tally(b)]
        /\ blk' = blk + room
    BY <1>3 DEF Report!ReadBlocks
  <2>2. room \in Nat /\ blk + room <= Report!BlockCount
    <3>1. Buffer \div PagesPerBlock \in Nat
      BY RangesOK
    <3> QED
      BY <1>1, <3>1, RangesOK DEF Report!Least
  <2>3. ASSUME NEW b \in Report!Block, b \in blk .. blk + room - 1
        PROVE  /\ Report!Tally(words(b)) = CensusAt(pages, Report!StartPFN(b))
               /\ Report!Tally(words(b)) \in Census
    <3> DEFINE s == Report!StartPFN(b)
               n == Report!Least(PagesPerBlock, pfn + size - s)
    <3>1. s = Report!FirstPFN + b * PagesPerBlock /\ s \in Nat
      BY RangesOK DEF Report!StartPFN, Report!Block
    <3>2. n \in Int /\ n = Report!Least(PagesPerBlock, EndPFN - s)
      <4>1. pfn = Report!FirstPFN + blk * PagesPerBlock
        BY DEF Report!StartPFN
      <4>2. n = Report!Least(PagesPerBlock,
                  Report!FirstPFN + blk * PagesPerBlock
                    + Report!Least(room * PagesPerBlock,
                                   EndPFN - (Report!FirstPFN + blk * PagesPerBlock))
                    - (Report!FirstPFN + b * PagesPerBlock))
        BY <3>1, <4>1
      <4>3. /\ Report!FirstPFN \in Nat /\ blk \in Nat /\ room \in Nat
            /\ b \in blk .. blk + room - 1
        BY <1>1, <2>2, <2>3, RangesOK
      <4> HIDE DEF n, s, room
      <4>4. n \in Int /\ n = Report!Least(PagesPerBlock,
                                 EndPFN - (Report!FirstPFN + b * PagesPerBlock))
        BY <4>2, <4>3, BlockInBuffer
      <4> QED
        BY <3>1, <4>4
    <3>3. words(b) = [ j \in 1 .. n |-> pages[s + j - 1] ]
      BY DEF Report!Words
    <3> DEFINE w == [ j \in 1 .. n |-> pages[s + j - 1] ]
    <3> HIDE DEF s, n
    <3>4. Report!Tally(w) = CensusAt(pages, s) /\ Report!Tally(w) \in Census
      BY <1>1, <3>1, <3>2, TallyIsCensus
    <3> HIDE DEF words, w
    <3> QED
      BY <3>3, <3>4 DEF s, w
  <2> HIDE DEF words, room, size, pfn
  <2>4. census' \in [Report!Block -> Census]
    BY <1>1, <2>1, <2>3
  <2>5. ASSUME NEW b \in Report!Block, b >= blk' PROVE census'[b] = Report!NoPages
    <3>1. b \in Int /\ b >= blk /\ b \notin blk .. blk + room - 1
      BY <1>1, <2>1, <2>2, <2>5, RangesOK DEF Report!Block
    <3> QED
      BY <1>1, <2>1, <3>1 DEF SweepInv
  <2>6. ASSUME still', NEW b \in Report!Block, b < blk' PROVE Counted(census', pages', b)
    <3>1. CASE b \in blk .. blk + room - 1
      BY <1>1, <2>1, <2>3, <3>1 DEF Counted
    <3>2. CASE b \notin blk .. blk + room - 1
      <4>1. b < blk
        BY <1>1, <2>1, <2>2, <2>6, <3>2, RangesOK DEF Report!Block
      <4>2. Counted(census, pages, b)
        BY <1>1, <2>6, <4>1 DEF SweepInv
      <4> QED
        BY <1>1, <2>1, <3>2, <4>2 DEF Counted
    <3> QED
      BY <3>1, <3>2
  <2>7. blk' \in Nat
    BY <1>1, <2>1, <2>2
  <2> QED
    BY <1>1, <2>4, <2>5, <2>6, <2>7 DEF SweepInv
<1> HIDE DEF pfn
<1> QED
  BY <1>2, <1>3

LEMMA SweepStepOK ==
  ASSUME SweepInv, [Report!Next]_(Report!vars)
  PROVE  SweepInv'
<1>1. CASE Report!Boot
  <2>1. /\ phase = "boot" /\ guest \in 0 .. Len(Guests) - 1
        /\ phase' = "scan" /\ guest' = guest + 1 /\ blk' = 0
        /\ pages' \in Guests[guest'].memories
        /\ census' = [b \in Report!Block |-> Report!NoPages]
    BY <1>1 DEF Report!Boot, SweepInv
  <2>2. Len(Guests) \in Nat
    BY ProgramsAssumption DEF ProgramsAssumption, Report!GuestsAssumption
  <2>3. guest' \in 1 .. Len(Guests)
    BY <2>1, <2>2
  <2>4. DOMAIN pages' = 0 .. EndPFN - 1
    BY <2>1, <2>3, ProgramsAssumption DEF ProgramsAssumption, Report!GuestsAssumption
  <2>5. census' \in [Report!Block -> Census]
    BY <2>1, NothingCounted
  <2>6. \A b \in Report!Block : census'[b] = Report!NoPages /\ ~(b < 0)
    BY <2>1, RangesOK DEF Report!Block
  <2> QED
    BY <2>1, <2>3, <2>4, <2>5, <2>6 DEF SweepInv
<1>2. CASE Report!ReadBlocks
  BY <1>2, ReadBlocksOK
<1>3. CASE Report!ReadBlocksFails
  <2>1. /\ phase = "scan" /\ blk \in Nat /\ blk < Report!BlockCount
        /\ blk' = Report!BlockCount /\ still' = FALSE
        /\ census' = [b \in Report!Block |-> Report!NoPages]
        /\ UNCHANGED <<phase, guest, pages>>
    BY <1>3 DEF Report!ReadBlocksFails, SweepInv
  <2>2. census' \in [Report!Block -> Census] /\ blk' \in Nat
    BY <2>1, NothingCounted, RangesOK
  <2> QED
    BY <2>1, <2>2 DEF SweepInv
<1>4. CASE Report!Change
  <2>1. phase = "scan" /\ still' = FALSE /\ UNCHANGED <<phase, guest, blk, census>>
        /\ DOMAIN pages' = DOMAIN pages
    BY <1>4 DEF Report!Change
  <2> QED
    BY <2>1 DEF SweepInv
<1>5. CASE Report!Dump
  <2>1. phase = "scan" /\ UNCHANGED guest
        /\ phase' = IF guest = Len(Guests) THEN "host" ELSE "boot"
    BY <1>5 DEF Report!Dump, Report!Swept
  <2>2. Len(Guests) \in Nat
    BY ProgramsAssumption DEF ProgramsAssumption, Report!GuestsAssumption
  <2> QED
    BY <2>1, <2>2 DEF SweepInv
<1>6. CASE phase' \notin {"boot", "scan"}
  BY <1>6 DEF SweepInv
<1>7. CASE UNCHANGED <<phase, guest, blk, pages, census, still>>
  BY <1>7 DEF SweepInv
<1> QED
  BY <1>1, <1>2, <1>3, <1>4, <1>5, <1>6, <1>7
     DEF Report!Next, Report!ReadSnapshot, Report!ReadSnapshotFails, Report!Conclude,
         Report!WriteFails, Report!Exit, Report!vars, Report!guestVars, Report!hostVars

(* Quotients and remainders. *)

LEMMA Division ==
  ASSUME NEW a \in Nat, NEW b \in Nat \ {0}
  PROVE  /\ a \div b \in Nat /\ a % b \in 0 .. b - 1 /\ a = b * (a \div b) + (a % b)
         /\ b * (a \div b) <= a /\ a < b * (a \div b) + b
OBVIOUS

LEMMA ProductGrows ==
  ASSUME NEW a \in Nat, NEW b \in Nat, NEW c \in Nat, a <= b
  PROVE  a * c <= b * c /\ c * a <= c * b
OBVIOUS

\* Products of different factors are apart.
LEMMA ProductStep ==
  ASSUME NEW a \in Nat, NEW b \in Nat, NEW c \in Nat, a < b
  PROVE  c * a + c <= c * b
<1>1. c * (a + 1) <= c * b
  BY ProductGrows
<1>2. c * (a + 1) = c * a + c
  OBVIOUS
<1> QED
  BY <1>1, <1>2

\* A number has one quotient and one remainder.
LEMMA Digits ==
  ASSUME NEW b \in Nat \ {0}, NEW q \in Nat, NEW r \in 0 .. b - 1
  PROVE  (b * q + r) \div b = q /\ (b * q + r) % b = r
<1> DEFINE a == b * q + r
           d == a \div b
           m == a % b
<1>1. a \in Nat
  OBVIOUS
<1>2. d \in Nat /\ m \in 0 .. b - 1 /\ a = b * d + m
  <2> HIDE DEF a
  <2> QED
    BY <1>1, Division
<1> HIDE DEF d, m
<1>3. ASSUME d < q PROVE FALSE
  <2>1. b * d + b <= b * q
    BY <1>2, <1>3, ProductStep
  <2> QED
    BY <1>2, <2>1
<1>4. ASSUME q < d PROVE FALSE
  <2>1. b * q + b <= b * d
    BY <1>2, <1>4, ProductStep
  <2> QED
    BY <1>2, <2>1
<1>5. d = q
  BY <1>2, <1>3, <1>4
<1>6. m = r
  BY <1>2, <1>5
<1> QED
  BY <1>5, <1>6 DEF d, m

\* Wherever RAM begins and ends, there is no counter for the last pageblock if less of
\* it is RAM than is missing in front of the first frame, and one for each other.
LEMMA CountersThereAre ==
  ASSUME NEW low \in Nat, NEW high \in Nat, low <= high
  PROVE  Report!LeftOut(low, high) =
           IF high % PagesPerBlock < low % PagesPerBlock
           THEN {high \div PagesPerBlock - low \div PagesPerBlock} ELSE {}
<1> DEFINE n == PagesPerBlock
           q == low \div n
           r == low % n
           p == high \div n
           s == high % n
           d == p - q
<1>1. n \in Nat \ {0}
  BY RangesOK
<1>2. /\ q \in Nat /\ r \in 0 .. n - 1 /\ low = n * q + r
      /\ p \in Nat /\ s \in 0 .. n - 1 /\ high = n * p + s
  <2> HIDE DEF n
  <2> QED
    BY <1>1, Division
<1>3. Report!Pageblocks(low, high) = 0 .. d
  BY DEF Report!Pageblocks
<1>4. Report!Blocks(low, high) = (high - low) \div n + 1
  BY DEF Report!Blocks
<1> DEFINE blocks == Report!Blocks(low, high)
<1>5. Report!LeftOut(low, high) = { b \in 0 .. d : b >= blocks }
  BY <1>3 DEF Report!LeftOut
<1> HIDE DEF n, q, r, p, s, blocks
<1>6. q <= p
  <2>1. ASSUME p < q PROVE FALSE
    <3>1. n * p + n <= n * q
      BY <1>1, <1>2, <2>1, ProductStep
    <3> QED
      BY <1>1, <1>2, <3>1
  <2> QED
    BY <1>2, <2>1
<1>7. d \in Nat /\ n * d = n * p - n * q
  BY <1>1, <1>2, <1>6
<1> HIDE DEF d
<1>8. CASE s < r
  <2>1. d # 0
    <3>1. d = 0 => n * d = 0
      BY <1>1
    <3> QED
      BY <1>1, <1>2, <1>7, <1>8, <3>1
  <2>2. d - 1 \in Nat /\ n * (d - 1) = n * d - n
    BY <1>1, <1>7, <2>1
  <2>3. n + s - r \in 0 .. n - 1
    BY <1>1, <1>2, <1>8
  <2>4. high - low = n * (d - 1) + (n + s - r)
    BY <1>1, <1>2, <1>7, <2>2
  <2>5. (high - low) \div n = d - 1
    BY <1>1, <2>2, <2>3, <2>4, Digits
  <2>6. blocks = d
    BY <1>4, <1>7, <2>5 DEF blocks
  <2>7. { b \in 0 .. d : b >= blocks } = {d}
    BY <1>7, <2>6
  <2> QED
    BY <1>5, <1>8, <2>7 DEF n, q, r, p, s, d
<1>9. CASE ~(s < r)
  <2>1. s - r \in 0 .. n - 1
    BY <1>1, <1>2, <1>9
  <2>2. high - low = n * d + (s - r)
    BY <1>1, <1>2, <1>7
  <2>3. (high - low) \div n = d
    BY <1>1, <1>7, <2>1, <2>2, Digits
  <2>4. { b \in 0 .. d : b >= blocks } = {}
    BY <1>4, <1>7, <2>3 DEF blocks
  <2> QED
    BY <1>5, <1>9, <2>4 DEF n, r, s
<1> QED
  BY <1>8, <1>9

\* A block of which a page was read is counted as memory was.
LEMMA SweptCensus == SweepInv => Report!CountsAreCensus
<1> DEFINE low == Ranges[1].first
           high == Ranges[Len(Ranges)].last
<1>4. Report!CounterForEach
  <2>1. ASSUME NEW f \in 0 .. EndPFN, NEW l \in f .. EndPFN
        PROVE  f \in Nat /\ l \in Nat /\ f <= l
    BY RangesOK
  <2> QED
    BY <2>1, CountersThereAre DEF Report!CounterForEach
<1>5. Report!Pageblocks(low, high) \ Report!LeftOut(low, high) \subseteq Report!Block
  BY RangesOK DEF Report!Pageblocks, Report!LeftOut, Report!Block, Report!BlockCount
<1> SUFFICES ASSUME SweepInv, Report!Swept, still, NEW b \in Report!Block
             PROVE  LET class == [ p \in DOMAIN pages |-> Report!Classify(pages[p]) ]
                    IN \/ census[b] =
                            [ k \in Report!Class |->
                                Report!Cardinality(
                                  { p \in Report!StartPFN(b) .. Report!StartPFN(b + 1) - 1 :
                                      p < EndPFN /\ class[p] = k }) ]
                       \/ census[b] = Report!NoPages /\ ~Report!InRAM(Report!StartPFN(b))
  BY <1>4, <1>5 DEF Report!CountsAreCensus
<1>1. Counted(census, pages, b)
  BY RangesOK DEF SweepInv, Report!Swept, Report!Block
<1>2. Report!StartPFN(b + 1) - 1 = Report!StartPFN(b) + PagesPerBlock - 1
  BY RangesOK DEF Report!StartPFN, Report!Block
<1>3. \A S : Report!Cardinality(S) = Cardinality(S)
  BY DEF Report!Cardinality, Cardinality
<1> QED
  BY <1>1, <1>2, <1>3 DEF Counted, CensusAt

-----------------------------------------------------------------------------
(* The report on hostages. *)

LEMMA BlocksFinite == IsFiniteSet(Report!Block)
BY RangesOK, FS_Interval DEF Report!Block

\* What is known of each hostage.
LEMMA OfHostages ==
  ASSUME NEW n \in [Report!Block -> Census], NEW m
  PROVE  /\ Report!Hostages(n, m) \subseteq Report!Block /\ IsFiniteSet(Report!Hostages(n, m))
         /\ Report!Pinning(m) \subseteq Report!KnownClass \ {"free"}
         /\ \A k \in Report!Pinning(m) : Report!Immovable(k, m)
         /\ IsFiniteSet(Report!Pinning(m))
         /\ \A b \in Report!Hostages(n, m) :
              /\ Report!OwnersOf(n[b], m) # {} /\ IsFiniteSet(Report!OwnersOf(n[b], m))
              /\ Report!OwnersOf(n[b], m) \subseteq Report!Pinning(m)
              /\ \A k \in Report!Class : n[b][k] \in Nat
              /\ n[b]["free"] + Report!Total(n[b], Report!Pinning(m)) <= PagesPerBlock
              /\ Report!Total(n[b], Report!Pinning(m)) \in Nat
<1> DEFINE pinning == Report!Pinning(m)
           hostages == Report!Hostages(n, m)
<1>1. hostages \subseteq Report!Block
  BY DEF Report!Hostages
<1>2. pinning \subseteq Report!KnownClass \ {"free"} /\ \A k \in pinning : Report!Immovable(k, m)
  BY DEF Report!Pinning, Report!Immovable, Report!Movers
<1>3. IsFiniteSet(hostages) /\ IsFiniteSet(pinning)
  <2> HIDE DEF hostages, pinning
  <2>1. pinning \in SUBSET Report!KnownClass
    BY <1>2
  <2> QED
    BY <1>1, <2>1, BlocksFinite, KnownFinite, FS_Subset
<1>4. ASSUME NEW b \in hostages
      PROVE  /\ Report!OwnersOf(n[b], m) # {} /\ IsFiniteSet(Report!OwnersOf(n[b], m))
             /\ Report!OwnersOf(n[b], m) \subseteq pinning
             /\ \A k \in Report!Class : n[b][k] \in Nat
             /\ n[b]["free"] + Report!Total(n[b], pinning) <= PagesPerBlock
             /\ Report!Total(n[b], pinning) \in Nat
  <2> DEFINE c == n[b]
             owners == Report!OwnersOf(c, m)
  <2>1. /\ c \in [Report!Class -> Nat] /\ Report!Total(c, Report!KnownClass) <= PagesPerBlock
        /\ Report!Total(c, pinning) > 0
    BY <1>1 DEF Census, Report!Hostages, Report!View
  <2>2. owners = { k \in pinning : c[k] > 0 }
    BY DEF Report!OwnersOf
  <2> HIDE DEF c, owners, hostages, pinning
  <2>3. owners \in SUBSET pinning
    BY <2>2
  <2>4. \A k \in pinning : c[k] \in Nat
    BY <1>2, <2>1, KnownFinite
  <2>5. IsFiniteSet(owners) /\ Report!Total(c, pinning) \in Nat
    BY <1>3, <2>3, <2>4, FS_Subset, TotalOf
  <2>6. owners # {}
    <3>1. CASE owners = {}
      <4>1. \A k \in pinning : c[k] \in Nat /\ c[k] <= 0
        BY <2>2, <2>4, <3>1
      <4>2. Report!Total(c, pinning) <= Cardinality(pinning) * 0
        BY <1>3, <4>1, TotalAtMost
      <4>3. Cardinality(pinning) \in Nat
        BY <1>3, FS_CardinalityType
      <4> QED
        BY <2>1, <2>5, <4>2, <4>3
    <3> QED
      BY <3>1
  <2>7. c["free"] + Report!Total(c, pinning) <= PagesPerBlock
    <3> DEFINE D == Report!KnownClass
    <3>1. IsFiniteSet(D) /\ "free" \in D /\ \A k \in D : c[k] \in Nat
      BY <2>1, KnownFinite
    <3>2. pinning \in SUBSET (D \ {"free"})
      BY <1>2
    <3>3. IsFiniteSet(D \ {"free"}) /\ \A k \in D \ {"free"} : c[k] \in Nat
      BY <3>1, FS_RemoveElement
    <3> HIDE DEF D
    <3>4. /\ Report!Total(c, D) = c["free"] + Report!Total(c, D \ {"free"})
          /\ Report!Total(c, D \ {"free"}) \in Nat
      BY <3>1, TotalOf
    <3>5. Report!Total(c, pinning) <= Report!Total(c, D \ {"free"})
      BY <3>2, <3>3, TotalOfPart
    <3>6. Report!Total(c, D) <= PagesPerBlock /\ c["free"] \in Nat
      BY <2>1, <3>1 DEF D
    <3> QED
      BY <2>5, <3>4, <3>5, <3>6, RangesOK
  <2> QED
    BY <2>1, <2>3, <2>5, <2>6, <2>7 DEF c, owners
<1> QED
  BY <1>1, <1>2, <1>3, <1>4

\* The parts of the report agree with each other.
LEMMA ReportOf ==
  ASSUME NEW n \in [Report!Block -> Census], NEW m
  PROVE  LET r == Report!HostageReport(n, m)
             pinning == Report!Pinning(m)
             ceiling(classes) == Cardinality(Report!Ceiling(n, m, classes))
         IN /\ \A k \in pinning : r.sole[k] = ceiling({k}) /\ r.byClass[k] >= r.sole[k]
            /\ Report!Total(r.sole, Report!Class) + r.mixed = r.blocks
            /\ Report!Total(r.kinds, DOMAIN r.kinds) = r.blocks
            /\ ceiling(pinning) = r.blocks
            /\ r.free + Report!Total(r.byClass, pinning) <= r.blocks * PagesPerBlock
<1> DEFINE r == Report!HostageReport(n, m)
           H == Report!Hostages(n, m)
           P == Report!Pinning(m)
           own == [b \in H |-> Report!OwnersOf(n[b], m)]
           kind(i) == { b \in H : Cardinality(own[b]) = i }
           alone(k) == { b \in H : own[b] = {k} }
<1>1. /\ H \subseteq Report!Block /\ IsFiniteSet(H) /\ IsFiniteSet(P)
      /\ P \subseteq Report!KnownClass \ {"free"} /\ P \subseteq Report!Class
      /\ \A k \in P : Report!Immovable(k, m)
  BY OfHostages, KnownFinite
<1>2. \A b \in H : /\ own[b] = Report!OwnersOf(n[b], m)
                   /\ own[b] # {} /\ IsFiniteSet(own[b]) /\ own[b] \subseteq P
                   /\ \A k \in Report!Class : n[b][k] \in Nat
                   /\ \A k \in own[b] : n[b][k] > 0
                   /\ n[b]["free"] + Report!Total(n[b], P) <= PagesPerBlock
                   /\ Report!Total(n[b], P) \in Nat
  <2>1. \A b \in H : \A k \in Report!OwnersOf(n[b], m) : n[b][k] > 0
    BY DEF Report!OwnersOf
  <2> QED
    BY <2>1, OfHostages
<1>3. \A S : Report!Cardinality(S) = Cardinality(S)
  BY DEF Report!Cardinality, Cardinality
<1>4. /\ r.blocks = Cardinality(H)
      /\ r.free = Report!PagesIn(n, H, "free")
      /\ \A k \in P : r.byClass[k] = Report!PagesIn(n, H, k)
      /\ r.sole = [k \in Report!Class |-> Cardinality(alone(k))]
      /\ r.kinds = [i \in 1 .. 12 |-> Cardinality(kind(i))]
      /\ r.mixed = Cardinality(H \ (kind(0) \cup kind(1)))
  <2>1. Len(Report!Known) = 12
    BY DEF Report!Known
  <2>2. \A k : alone(k) = { b \in H : Report!OwnersOf(n[b], m) = {k} }
    OBVIOUS
  <2>3. \A i : kind(i) = { b \in H : Report!Cardinality(Report!OwnersOf(n[b], m)) = i }
    BY <1>3
  <2>4. /\ r.blocks = Report!Cardinality(H)
        /\ r.free = Report!FreeIn(n, H)
        /\ r.byClass = [k \in Report!Class |-> IF Report!Immovable(k, m)
                                               THEN Report!PagesIn(n, H, k) ELSE 0]
        /\ r.sole = [k \in Report!Class |->
             Report!Cardinality({ b \in H : Report!OwnersOf(n[b], m) = {k} })]
        /\ r.kinds = [i \in 1 .. Len(Report!Known) |->
             Report!Cardinality({ b \in H : Report!Cardinality(Report!OwnersOf(n[b], m)) = i })]
        /\ r.mixed = Report!Cardinality(
             H \ ({ b \in H : Report!Cardinality(Report!OwnersOf(n[b], m)) = 0 }
                    \cup { b \in H : Report!Cardinality(Report!OwnersOf(n[b], m)) = 1 }))
    BY DEF Report!HostageReport
  <2> HIDE DEF r, H, P, own, kind, alone
  <2>5. \A k \in P : r.byClass[k] = Report!PagesIn(n, H, k)
    BY <1>1, <2>4
  <2>6. r.free = Report!PagesIn(n, H, "free")
    BY <2>4 DEF Report!FreeIn
  <2> QED
    BY <1>3, <2>1, <2>2, <2>3, <2>4, <2>5, <2>6
<1>5. \A classes : Report!Ceiling(n, m, classes) = { b \in H : own[b] \subseteq classes }
  BY DEF Report!Ceiling
<1> HIDE DEF r, H, P, own
<1>6. \A k : IsFiniteSet(alone(k)) /\ alone(k) \in SUBSET H
  BY <1>1, FS_Subset
<1>7. Report!Ceiling(n, m, P) = H /\ \A k \in P : Report!Ceiling(n, m, {k}) = alone(k)
  <2>1. \A k : { b \in H : own[b] \subseteq {k} } = alone(k)
    BY <1>2
  <2>2. { b \in H : own[b] \subseteq P } = H
    BY <1>2
  <2> HIDE DEF alone
  <2> QED
    BY <1>5, <2>1, <2>2
<1>8. ASSUME NEW k \in P PROVE r.byClass[k] >= r.sole[k]
  <2> DEFINE c == [b \in H |-> n[b][k]]
  <2>1. \A b \in H : c[b] = n[b][k] /\ c[b] \in Nat /\ n[b][k] \in Nat
    BY <1>1, <1>2
  <2>2. \A b \in alone(k) : c[b] > 0
    BY <1>2
  <2> HIDE DEF c
  <2>3. Report!PagesIn(n, H, k) = Report!Total(c, H)
    BY <1>1, <2>1, PagesInOf
  <2>4. Cardinality(alone(k)) <= Report!Total(c, H)
    <3> HIDE DEF alone
    <3> QED
      BY <1>1, <1>6, <2>1, <2>2, TotalAtLeast
  <2>5. r.sole[k] = Cardinality(alone(k)) /\ Cardinality(alone(k)) \in Nat
    <3> HIDE DEF alone
    <3> QED
      BY <1>1, <1>4, <1>6, FS_CardinalityType
  <2>6. Report!Total(c, H) \in Nat
    BY <1>1, <2>1, TotalOf
  <2> HIDE DEF alone
  <2> QED
    BY <1>4, <2>3, <2>4, <2>5, <2>6
<1>9. Report!Total(r.sole, Report!Class) + r.mixed = r.blocks
  <2> DEFINE S == [k \in Report!Class |-> alone(k)]
             D == Report!Class
             one == UNION { S[k] : k \in D }
             sole == r.sole
  <2>1. IsFiniteSet(D) /\ IsFiniteSet(H)
    BY <1>1, KnownFinite
  <2>2. \A k \in D : S[k] \in SUBSET H
    OBVIOUS
  <2>3. \A k, l \in D : k # l => S[k] \cap S[l] = {}
    OBVIOUS
  <2>4. \A k \in D : sole[k] = Cardinality(S[k])
    <3> HIDE DEF alone
    <3> QED
      BY <1>4
  <2>5. one = kind(1) /\ kind(0) = {}
    <3>1. \A b \in H : Cardinality(own[b]) = 1 <=> \E k \in D : own[b] = {k}
      <4>1. \A b \in H : Cardinality(own[b]) = 1 <=> \E k : own[b] = {k}
        BY <1>2, FS_Singleton
      <4>2. \A b \in H : \A k : own[b] = {k} => k \in D
        BY <1>1, <1>2
      <4> QED
        BY <4>1, <4>2
    <3>2. \A b \in H : Cardinality(own[b]) # 0
      BY <1>2, FS_EmptySet
    <3>3. \A b : b \in one <=> \E k \in D : b \in alone(k)
      OBVIOUS
    <3> QED
      BY <3>1, <3>2, <3>3
  <2> HIDE DEF S, D, sole
  <2>6. Report!Total(sole, D) = Cardinality(one)
    BY <2>1, <2>2, <2>3, <2>4, TotalApart
  <2> HIDE DEF one
  <2>7. kind(1) \in SUBSET H
    OBVIOUS
  <2> HIDE DEF kind
  <2>8. Cardinality(H \ kind(1)) = Cardinality(H) - Cardinality(kind(1))
    <3>1. H \cap kind(1) = kind(1)
      BY <2>7
    <3> QED
      BY <2>1, <3>1, FS_Difference
  <2>9. Cardinality(H) \in Nat /\ Cardinality(kind(1)) \in Nat
    BY <2>1, <2>7, FS_Subset, FS_CardinalityType
  <2>10. r.mixed = Cardinality(H \ kind(1))
    BY <1>4, <2>5
  <2> QED
    BY <1>4, <2>5, <2>6, <2>8, <2>9, <2>10 DEF D, sole
<1>10. Report!Total(r.kinds, DOMAIN r.kinds) = r.blocks
  <2> DEFINE D == 1 .. 12
             S == [i \in D |-> kind(i)]
             kinds == r.kinds
  <2>1. IsFiniteSet(D) /\ IsFiniteSet(H) /\ DOMAIN kinds = D
    <3>1. DOMAIN kinds = D
      <4> HIDE DEF kind
      <4> QED
        BY <1>4
    <3>2. 1 \in Int /\ 12 \in Int
      OBVIOUS
    <3> QED
      BY <1>1, <3>1, <3>2, FS_Interval
  <2>2. \A i \in D : S[i] \in SUBSET H
    OBVIOUS
  <2>3. \A i, j \in D : i # j => S[i] \cap S[j] = {}
    OBVIOUS
  <2>4. \A i \in D : kinds[i] = Cardinality(S[i])
    <3> HIDE DEF kind
    <3> QED
      BY <1>4
  <2>5. UNION { S[i] : i \in D } = H
    <3>1. \A b \in H : Cardinality(own[b]) \in D
      <4>1. ASSUME NEW b \in H PROVE Cardinality(own[b]) \in D
        <5>1. own[b] \in SUBSET Report!KnownClass
          BY <1>1, <1>2
        <5>2. Cardinality(own[b]) <= Cardinality(Report!KnownClass)
          BY <5>1, KnownFinite, FS_Subset
        <5>3. Cardinality(own[b]) \in Nat /\ Cardinality(own[b]) # 0
          BY <1>2, FS_CardinalityType, FS_EmptySet
        <5>4. Cardinality(Report!KnownClass) \in Nat /\ Cardinality(Report!KnownClass) <= 12
          BY KnownFinite, FS_CardinalityType
        <5> QED
          BY <5>2, <5>3, <5>4
      <4> QED
        BY <4>1
    <3>2. \A b : b \in UNION { S[i] : i \in D } <=> \E i \in D : b \in kind(i)
      OBVIOUS
    <3> HIDE DEF D
    <3> QED
      BY <3>1, <3>2
  <2> HIDE DEF S, D, kinds
  <2>6. Report!Total(kinds, D) = Cardinality(H)
    BY <2>1, <2>2, <2>3, <2>4, <2>5, TotalApart
  <2> QED
    BY <1>4, <2>1, <2>6 DEF kinds
<1>11. r.free + Report!Total(r.byClass, P) <= r.blocks * PagesPerBlock
  <2> DEFINE free == [b \in H |-> n[b]["free"]]
             rows == Rows(n, H, P)
             cols == Columns(n, H, P)
             both == [b \in H |-> free[b] + rows[b]]
             byClass == r.byClass
  <2>1. \A b \in H : /\ free[b] = n[b]["free"] /\ rows[b] = Report!Total(n[b], P)
                     /\ free[b] \in Nat /\ rows[b] \in Nat /\ both[b] = free[b] + rows[b]
                     /\ n[b]["free"] \in Nat /\ both[b] \in Nat /\ both[b] <= PagesPerBlock
    BY <1>2, KnownFinite DEF Rows
  <2>2. \A b \in H : \A k \in P : n[b][k] \in Nat
    BY <1>1, <1>2
  <2>3. ASSUME NEW k \in P PROVE byClass[k] = cols[k] /\ byClass[k] \in Nat
    <3> DEFINE c == [b \in H |-> n[b][k]]
    <3>1. \A b \in H : c[b] = n[b][k] /\ n[b][k] \in Nat /\ c[b] \in Nat
      BY <2>2
    <3>2. cols[k] = Report!Total(c, H)
      BY DEF Columns
    <3> HIDE DEF c, cols
    <3>3. Report!PagesIn(n, H, k) = Report!Total(c, H) /\ Report!Total(c, H) \in Nat
      BY <1>1, <3>1, PagesInOf, TotalOf
    <3> QED
      BY <1>4, <3>2, <3>3
  <2>4. Report!Total(cols, P) = Report!Total(rows, H)
    BY <1>1, <2>2, TotalTwoWays
  <2> HIDE DEF free, rows, both, cols, byClass
  <2>5. Report!Total(byClass, P) = Report!Total(rows, H)
    <3>1. Report!Total(byClass, P) = Report!Total(cols, P)
      BY <1>1, <2>3, TotalSame
    <3> QED
      BY <2>4, <3>1
  <2>6. r.free = Report!Total(free, H)
    <3>1. \A b \in H : free[b] = n[b]["free"] /\ n[b]["free"] \in Nat
      BY <2>1
    <3>2. Report!PagesIn(n, H, "free") = Report!Total(free, H)
      BY <1>1, <3>1, PagesInOf
    <3> QED
      BY <1>4, <3>2
  <2>7. Report!Total(both, H) = Report!Total(free, H) + Report!Total(rows, H)
    BY <1>1, <2>1, TotalAdds
  <2>8. Report!Total(both, H) <= Cardinality(H) * PagesPerBlock
    BY <1>1, <2>1, TotalAtMost, RangesOK
  <2> QED
    BY <1>4, <2>5, <2>6, <2>7, <2>8 DEF byClass
<1>12. \A k \in P : r.sole[k] = Cardinality(Report!Ceiling(n, m, {k}))
  <2> HIDE DEF alone, kind
  <2> QED
    BY <1>1, <1>4, <1>7
<1> HIDE DEF alone, kind
<1> QED
  BY <1>4, <1>7, <1>8, <1>9, <1>10, <1>11, <1>12 DEF r, P

LEMMA SweptReport == SweepInv => Report!ReportAdds
<1> SUFFICES ASSUME SweepInv, Report!Swept PROVE Report!ReportAdds
  BY DEF Report!ReportAdds
<1>1. census \in [Report!Block -> Census]
  BY DEF SweepInv, Report!Swept
<1>2. \A S : Report!Cardinality(S) = Cardinality(S)
  BY DEF Report!Cardinality, Cardinality
<1> DEFINE r == Report!HostageReport(census, movable)
<1>3. Report!MapThenSumSet(LAMBDA i : r.kinds[i], DOMAIN r.kinds)
        = Report!Total(r.kinds, DOMAIN r.kinds)
  BY DEF Report!Total
<1> QED
  BY <1>1, <1>2, <1>3, ReportOf DEF Report!ReportAdds

LEMMA SweepInvariance == Report!Spec => []SweepInv
<1>1. Report!Init => SweepInv
  BY SweepInitOK
<1>2. SweepInv /\ [Report!Next]_(Report!vars) => SweepInv'
  BY SweepStepOK
<1> QED
  BY <1>1, <1>2, PTL DEF Report!Spec

LEMMA InvHostages == SweepInv => HostagesSeen
BY SweptHostages DEF SweepInv

LEMMA InvCensus == SweepInv => CountsAreCensus
BY SweptCensus, SweptReport DEF CountsAreCensus

\* For a machine of any size, any buffer and any pages: each page of a block that
\* begins in RAM is counted once, in its block and in its class, and the report on
\* hostages adds up. Only the last block is left out, and only if less of it is RAM
\* than is missing before the first frame. (newBlockMap(), refreshInto(),
\* hostageReport())
THEOREM SweepsAreCensuses == Report!Spec => []CountsAreCensus
BY SweepInvariance, InvCensus, PTL

\* In a window of any place and size, drawn in any number of cells, no hostage hides
\* among its neighbours and nothing else is red. (cellFor(), blockMap())
THEOREM HostagesAreSeen == Report!Spec => []HostagesSeen
BY SweepInvariance, InvHostages, PTL

-----------------------------------------------------------------------------
(* Workers: what is divided among them. *)

USE DEF Least, Most

LEMMA SizesOK ==
  /\ Jobs \in Nat \ {0} /\ Files \in Nat \ {0} /\ Size \in Nat \ {0} /\ Passes \in Nat \ {0}
  /\ Chunk \in Nat \ {0} /\ Span \in Nat \ {0} /\ Step \in Nat \ {0} /\ Arena \in Nat \ {0}
  /\ PinPart \in Nat \ {0} /\ Rounds \in Nat \ {0} /\ Share \in 0 .. Size
BY SizeAssumption, ShareAssumption

LEMMA RoundedUp ==
  ASSUME NEW a \in Nat, NEW b \in Nat \ {0}
  PROVE  /\ Up(a, b) \in Nat /\ (a > 0 => Up(a, b) > 0)
         /\ a <= b * Up(a, b) /\ b * Up(a, b) < a + b
BY DEF Up

\* Of a range divided into parts, the part that a number is in.
LEMMA PartOf ==
  ASSUME NEW a \in Nat, NEW x \in 0 .. a - 1, NEW b \in Nat \ {0}
  PROVE  x \div b \in 0 .. Up(a, b) - 1
<1> DEFINE q == x \div b
           u == Up(a, b)
<1>1. q \in Nat /\ b * q <= x
  BY Division
<1>2. u \in Nat /\ a <= b * u
  BY RoundedUp
<1> HIDE DEF q, u
<1>3. ASSUME u <= q PROVE FALSE
  <2>1. b * u <= b * q
    BY <1>1, <1>2, <1>3, ProductGrows
  <2> QED
    BY <1>1, <1>2, <2>1
<1> QED
  BY <1>1, <1>2, <1>3 DEF q, u

LEMMA ItemsNat == /\ Items \in Nat /\ Steps \in Nat \ {0} /\ LoadItems \in Nat /\ MapItems \in Nat
<1>1. Steps \in Nat \ {0} /\ Up(Share, Span) \in Nat
  <2>1. Share \in Nat /\ Size \in Nat /\ Size > 0
    BY SizesOK
  <2>2. Up(Share, Span) \in Nat
    BY <2>1, SizesOK, RoundedUp
  <2>3. Up(Size, Step) \in Nat /\ Up(Size, Step) > 0
    BY <2>1, SizesOK, RoundedUp
  <2> QED
    BY <2>2, <2>3 DEF Steps
<1>2. LoadItems \in Nat
  BY <1>1, SizesOK DEF LoadItems
<1>3. MapItems \in Nat
  <2> DEFINE u == Up(Share, Span)
  <2> HIDE DEF u
  <2>1. u * Files \in Nat
    BY <1>1, SizesOK DEF u
  <2> QED
    BY <2>1 DEF u, MapItems
<1> QED
  BY <1>1, <1>2, <1>3, SizesOK DEF Items

\* Every unit that map is asked for is in one of its spans.
LEMMA MapUnit ==
  ASSUME NEW f \in File, NEW x \in 0 .. Share - 1
  PROVE  \E k \in 0 .. MapItems - 1 : <<f, x>> \in MapUnits(k)
<1> DEFINE q == x \div Span
           u == Up(Share, Span)
           k == Files * q + f
<1>1. q \in 0 .. u - 1 /\ Span * q <= x /\ x < Span * q + Span /\ u \in Nat
  <2>1. Share \in Nat /\ x \in Nat
    BY SizesOK
  <2> QED
    BY <2>1, SizesOK, PartOf, Division, RoundedUp
<1>2. f \in 0 .. Files - 1
  BY DEF File
<1> HIDE DEF q, u
<1>3. k \div Files = q /\ k % Files = f
  BY <1>1, <1>2, SizesOK, Digits
<1>4. k \in Nat /\ k < u * Files
  <2>1. Files * q + Files <= Files * u /\ Files * u = u * Files
    BY <1>1, SizesOK, ProductStep
  <2> QED
    BY <1>1, <1>2, <2>1, SizesOK
<1>5. k \in 0 .. MapItems - 1
  BY <1>4, ItemsNat DEF MapItems, u
<1> HIDE DEF k
<1>6. x \in (q * Span) .. Least(q * Span + Span, Size) - 1
  <2>1. q * Span = Span * q /\ q * Span \in Nat
    BY <1>1, SizesOK
  <2> QED
    BY <1>1, <2>1, SizesOK
<1>7. MapUnits(k) = {f} \X ((q * Span) .. Least(q * Span + Span, Size) - 1)
  BY <1>3 DEF MapUnits
<1> QED
  BY <1>5, <1>6, <1>7

\* Units of a span of load are of one file, and within one step.
LEMMA LoadUnit ==
  ASSUME NEW k \in 0 .. LoadItems - 1, NEW u \in LoadUnits(k)
  PROVE  /\ u \in File \X (0 .. Size - 1)
         /\ k = Steps * u[1] + (u[2] \div Step)
<1> DEFINE r == k % Steps
           off == r * Step
           begin == (k * Step) % Arena
           room == Least(begin + Step, Arena) - begin
<1>1. k \in Nat /\ k < Files * Steps
  BY ItemsNat DEF LoadItems
<1>2. r \in 0 .. Steps - 1 /\ k \div Steps \in Nat /\ k = Steps * (k \div Steps) + r
  BY <1>1, ItemsNat, Division
<1>3. room <= Step /\ room \in Int
  <2> DEFINE n == k * Step
  <2>1. n \in Nat
    BY <1>1, SizesOK
  <2> HIDE DEF n
  <2>2. n % Arena \in 0 .. Arena - 1
    BY <2>1, SizesOK, Division
  <2>3. begin \in 0 .. Arena - 1
    BY <2>2 DEF n
  <2> HIDE DEF begin
  <2> QED
    BY <2>3, SizesOK
<1>4. u \in { k \div Steps } \X (off .. Least(off + room, Size) - 1)
  BY DEF LoadUnits
<1> DEFINE d == k \div Steps
<1> HIDE DEF r, room, d
<1>5. off \in Nat /\ off = Step * r
  BY <1>2, SizesOK
<1>6. u[1] = d /\ u[2] \in off .. Least(off + room, Size) - 1 /\ u = <<u[1], u[2]>>
  BY <1>4 DEF d
<1>7. u[2] \in 0 .. Size - 1 /\ u[2] - off \in 0 .. Step - 1
  <2> HIDE DEF off
  <2> QED
    BY <1>3, <1>5, <1>6, SizesOK
<1>8. d \in 0 .. Files - 1
  <2>1. Steps * d <= k
    BY <1>2, ItemsNat DEF d
  <2>2. ASSUME Files <= d PROVE FALSE
    <3>1. d \in Nat /\ Files * Steps <= d * Steps /\ d * Steps = Steps * d
      BY <1>2, <2>2, ItemsNat, SizesOK, ProductGrows DEF d
    <3> QED
      BY <1>1, <2>1, <3>1, ItemsNat, SizesOK
  <2> QED
    BY <1>2, <2>2, SizesOK DEF d
<1>9. u[2] \div Step = r
  <2> DEFINE e == u[2] - off
  <2>1. u[2] = Step * r + e /\ e \in 0 .. Step - 1
    BY <1>5, <1>7
  <2> HIDE DEF e
  <2>2. (Step * r + e) \div Step = r
    BY <1>2, <2>1, SizesOK, ItemsNat, Digits
  <2> QED
    BY <2>1, <2>2
<1>10. u \in File \X (0 .. Size - 1)
  BY <1>6, <1>7, <1>8 DEF File
<1>11. k = Steps * d + r
  BY <1>2 DEF d
<1> QED
  BY <1>6, <1>9, <1>10, <1>11

\* All memory is somebody's, and nobody's part is beyond it.
LEMMA PartsCover ==
  ASSUME NEW jobs \in Nat \ {0}
  PROVE  /\ UNION { Part(w, jobs) : w \in 0 .. jobs - 1 } = 0 .. Arena - 1
         /\ \A w \in 0 .. jobs - 1 : Part(w, jobs) \subseteq 0 .. Arena - 1
<1> DEFINE per == Up(Arena, jobs)
<1>1. per \in Nat \ {0} /\ Arena <= jobs * per
  BY SizesOK, RoundedUp
<1> HIDE DEF per
<1>2. \A w \in Nat : Part(w, jobs) = w * per .. Least(w * per + per, Arena) - 1
  BY DEF Part, per
<1>3. ASSUME NEW w \in 0 .. jobs - 1 PROVE Part(w, jobs) \subseteq 0 .. Arena - 1
  <2> DEFINE from == w * per
  <2>1. from \in Nat /\ w \in Nat
    BY <1>1
  <2>2. Part(w, jobs) = from .. Least(from + per, Arena) - 1
    BY <1>2, <2>1
  <2> HIDE DEF from
  <2> QED
    BY <1>1, <2>1, <2>2, SizesOK
<1>4. ASSUME NEW x \in 0 .. Arena - 1
      PROVE  \E w \in 0 .. jobs - 1 : x \in Part(w, jobs)
  <2> DEFINE w == x \div per
  <2>1. x \in Nat /\ x < Arena
    BY SizesOK
  <2>2. w \in Nat /\ per * w <= x /\ x < per * w + per
    BY <1>1, <2>1, Division
  <2> HIDE DEF w
  <2>3. w * per = per * w /\ w * per \in Nat
    BY <1>1, <2>2
  <2>4. w < jobs
    <3>1. ASSUME jobs <= w PROVE FALSE
      <4>1. jobs * per <= w * per
        BY <1>1, <2>2, <3>1, ProductGrows
      <4>2. jobs * per \in Nat
        BY <1>1
      <4> QED
        BY <1>1, <2>1, <2>2, <2>3, <4>1, <4>2, SizesOK
    <3> QED
      BY <2>2, <3>1
  <2>5. x \in Part(w, jobs)
    <3>1. x \in w * per .. Least(w * per + per, Arena) - 1
      BY <1>1, <2>1, <2>2, <2>3, SizesOK
    <3> QED
      BY <1>2, <2>2, <3>1
  <2> QED
    BY <2>2, <2>4, <2>5
<1> QED
  BY <1>3, <1>4

LEMMA RangesCover == UNION PinRanges = 0 .. Arena - 1
<1>1. ASSUME NEW off \in Offsets(Arena, PinPart)
      PROVE  off .. off + Least(PinPart, Arena - off) - 1 \subseteq 0 .. Arena - 1
  BY SizesOK DEF Offsets
<1>2. ASSUME NEW x \in 0 .. Arena - 1
      PROVE  \E off \in Offsets(Arena, PinPart) :
               x \in off .. off + Least(PinPart, Arena - off) - 1
  <2> DEFINE q == x \div PinPart
             off == PinPart * q + 0
  <2>1. q \in Nat /\ PinPart * q <= x /\ x < PinPart * q + PinPart
    BY SizesOK, Division
  <2> HIDE DEF q
  <2>2. off % PinPart = 0
    BY <2>1, SizesOK, Digits
  <2>3. off \in Nat /\ off <= x /\ x < off + PinPart
    BY <2>1, SizesOK
  <2> HIDE DEF off
  <2>4. off \in Offsets(Arena, PinPart)
    BY <2>2, <2>3, SizesOK DEF Offsets
  <2>5. x \in off .. off + Least(PinPart, Arena - off) - 1
    BY <2>3, SizesOK
  <2> QED
    BY <2>4, <2>5
<1> QED
  BY <1>1, <1>2 DEF PinRanges

-----------------------------------------------------------------------------
(* Workers: what is so while a program runs. *)

\* Where a worker of each program can be.
PlacesOf(p) ==
  IF p \in Channel THEN {"claim", "work", "send", "done"}
  ELSE IF p = "verify" THEN {"claim", "work", "swap", "done"}
  ELSE IF p = "map" THEN {"claim", "work", "done"}
  ELSE IF p = "clone" THEN {"look", "copy", "store", "done"}
  ELSE {"look", "done"}

\* In hand: an item is claimed and its worker has not gone on.
InHand == {"work", "send", "swap"}
HasItem(w) == pc[w] \in InHand

WorkersOK ==
  /\ result \in {"none", "ok", "error", "panic"}
  /\ pass \in Nat /\ next \in Nat /\ moved \in Nat
  /\ pc \in [Worker -> PlacesOf(program)]
  /\ item \in [Worker -> Nat] /\ part \in [Worker -> Nat]
  /\ err \in [Worker -> Failure \cup {None}]
  /\ \A w \in Worker : /\ pc[w] \in {"send", "swap", "store"} => err[w] \in Failure
                       /\ pc[w] = "copy" => item[w] \in File
  /\ errs \in Seq(Failure)
  /\ first \in Failure \cup {None}
  /\ handled \in [0 .. Most(Files, Items) - 1 -> Nat]

\* Items are handed out once in a pass, and are handled unless they are in hand or failed.
ItemsOK ==
  program \in Claiming =>
    /\ program # "read" => pass = 0
    /\ \A w \in Worker : HasItem(w) =>
         /\ item[w] < next /\ item[w] < Items /\ handled[item[w]] = pass
         /\ pc[w] = "work" => item[w] \notin failed
         /\ pc[w] # "work" => item[w] \in failed
         /\ \A v \in Worker : v # w /\ HasItem(v) => item[v] # item[w]
    /\ \A i \in 0 .. Items - 1 :
         /\ i >= next => handled[i] = pass
         /\ i < next /\ (program = "verify" \/ i \notin failed)
              => handled[i] = pass + 1 \/ \E w \in Worker : HasItem(w) /\ item[w] = i
    /\ \A i \in failed : i \in 0 .. Items - 1 /\ i < next
    /\ \A w \in Worker : pc[w] = "done" => next >= Items \/ errs # <<>>
    /\ program = "read" => pass < Passes

\* A failure is on its way to the main goroutine, or has come there.
FailuresOK ==
  /\ program \in Channel /\ failed # {} => errs # <<>> \/ \E w \in Worker : pc[w] = "send"
  /\ program = "verify" => IsFiniteSet(failed) /\ bad = Cardinality(failed)
  /\ program = "clone" /\ failed # {} => first # None \/ \E w \in Worker : pc[w] = "store"
  /\ program \notin Channel \cup {"verify", "clone"} => failed = {}
  /\ program # "verify" => bad = 0

\* What was moved is what was handled, and what of store's is under way.
UnderWay == [w \in Worker |-> IF pc[w] = "work" THEN part[w] ELSE 0]
Handled == Total(handled)
MovedOK ==
  /\ program = "verify" /\ failed = {} => moved = Size * Handled
  /\ program = "clone" => moved = Size * Handled
  /\ program = "store" =>
       /\ failed = {} => moved = Chunk * (Up(Size, Chunk) * Handled + Total(UnderWay))
       /\ \A w \in Worker : pc[w] = "work" => part[w] <= Up(Size, Chunk)
  /\ program = "hog" => /\ \E k \in Nat : moved = k * Files + item[0]
                        /\ item[0] \in 0 .. Files
                        /\ pc[0] = "done" => item[0] = Files

\* What was read and touched.
ReadOK ==
  /\ program = "map" => \A k \in 0 .. Items - 1 :
       handled[k] > 0 => MapUnits(k) \subseteq read
  /\ program \in Loads =>
       /\ IsFiniteSet(read) /\ Cardinality(read) = moved
       /\ \A u \in read : \E k \in 0 .. Items - 1 : handled[k] > 0 /\ u \in LoadUnits(k)
  /\ program = "shm" =>
       /\ touched \subseteq 0 .. Arena - 1
       /\ \A w \in Worker : pc[w] = "done" => Part(w, Jobs) \subseteq touched
  /\ program = "load" => touched \in {{}, 0 .. Arena - 1}

WorkersCore == WorkersOK /\ ItemsOK /\ FailuresOK /\ MovedOK /\ ReadOK
WorkersInv == SaidTrue /\ (Running => WorkersCore)

-----------------------------------------------------------------------------
(* Sums of what the workers did. *)

LEMMA WorkersFinite == IsFiniteSet(Worker) /\ 0 \in Worker
BY SizesOK, FS_Interval DEF Worker

LEMMA TotalIs == ASSUME NEW D, NEW f \in [D -> Nat] PROVE Total(f) = Report!Total(f, D)
<1>1. DOMAIN f = D
  OBVIOUS
<1> HIDE DEF Worker
<1> QED
  BY <1>1 DEF Total, Report!Total, MapThenSumSet, Report!MapThenSumSet, MapThenFoldSet,
              Report!MapThenFoldSet

LEMMA TotalNat ==
  ASSUME NEW D, IsFiniteSet(D), NEW f \in [D -> Nat]
  PROVE  Total(f) \in Nat
BY TotalIs, TotalOf

\* One of the numbers is another one now.
LEMMA TotalChanged ==
  ASSUME NEW D, IsFiniteSet(D), NEW f \in [D -> Nat], NEW g \in [D -> Nat], NEW x \in D,
         \A y \in D \ {x} : g[y] = f[y]
  PROVE  Total(g) + f[x] = Total(f) + g[x]
<1> DEFINE r == D \ {x}
<1>2. /\ Report!Total(f, D) = f[x] + Report!Total(f, r) /\ Report!Total(f, r) \in Nat
      /\ Report!Total(g, D) = g[x] + Report!Total(g, r) /\ Report!Total(g, r) \in Nat
  BY TotalOf
<1>3. Report!Total(g, r) = Report!Total(f, r)
  <2>1. IsFiniteSet(r) /\ \A y \in r : g[y] \in Nat /\ g[y] = f[y]
    BY FS_Subset
  <2> HIDE DEF r
  <2> QED
    BY <2>1, TotalSame
<1>4. Total(f) = Report!Total(f, D) /\ Total(g) = Report!Total(g, D)
  BY TotalIs
<1>5. f[x] \in Nat /\ g[x] \in Nat
  OBVIOUS
<1> QED
  BY <1>2, <1>3, <1>4, <1>5

LEMMA TotalOfNone ==
  ASSUME NEW D, IsFiniteSet(D), NEW f \in [D -> Nat], \A x \in D : f[x] = 0
  PROVE  Total(f) = 0
<1>1. Report!Total(f, D) <= Cardinality(D) * 0 /\ Cardinality(D) \in Nat
  BY TotalAtMost, FS_CardinalityType
<1>2. Total(f) = Report!Total(f, D) /\ Total(f) \in Nat
  BY TotalIs, TotalNat
<1> QED
  BY <1>1, <1>2

LEMMA TotalOfOnes ==
  ASSUME NEW D, IsFiniteSet(D), NEW f \in [D -> Nat], \A x \in D : f[x] = 1
  PROVE  Total(f) = Cardinality(D)
<1>1. Report!Total(f, D) <= Cardinality(D) * 1 /\ Cardinality(D) \in Nat
  BY TotalAtMost, FS_CardinalityType
<1>2. Cardinality(D) <= Report!Total(f, D)
  BY TotalAtLeast
<1>3. Total(f) = Report!Total(f, D) /\ Total(f) \in Nat
  BY TotalIs, TotalNat
<1> QED
  BY <1>1, <1>2, <1>3

\* What is handled is a number of each item, and items are finitely many.
LEMMA HandledItems ==
  ASSUME WorkersOK
  PROVE  /\ IsFiniteSet(DOMAIN handled) /\ handled \in [DOMAIN handled -> Nat]
         /\ 0 .. Items - 1 \subseteq DOMAIN handled /\ File \subseteq DOMAIN handled
         /\ Items = Files => DOMAIN handled = File
<1>1. Most(Files, Items) \in Nat /\ Items \in Nat /\ Files \in Nat
  BY SizesOK, ItemsNat
<1>2. DOMAIN handled = 0 .. Most(Files, Items) - 1
  BY DEF WorkersOK
<1>3. IsFiniteSet(0 .. Most(Files, Items) - 1)
  BY <1>1, FS_Interval
<1> QED
  BY <1>1, <1>2, <1>3 DEF WorkersOK, File

LEMMA OneMore ==
  ASSUME NEW D, IsFiniteSet(D), NEW f \in [D -> Nat], NEW x \in D
  PROVE  /\ [f EXCEPT ![x] = @ + 1] \in [D -> Nat]
         /\ Total([f EXCEPT ![x] = @ + 1]) = Total(f) + 1 /\ Total(f) \in Nat
<1>2. f[x] + 1 \in Nat /\ f[x] \in Nat
  OBVIOUS
<1> DEFINE n == f[x] + 1
           g == [f EXCEPT ![x] = n]
<1>3. g \in [D -> Nat] /\ g[x] = n /\ \A y \in D \ {x} : g[y] = f[y]
  BY <1>2
<1>4. Total(g) + f[x] = Total(f) + n
  <2> HIDE DEF g, n
  <2>1. Total(g) + f[x] = Total(f) + g[x]
    BY <1>3, TotalChanged
  <2> QED
    BY <1>3, <2>1
<1>5. Total(g) \in Nat /\ Total(f) \in Nat
  <2> HIDE DEF g
  <2> QED
    BY <1>3, TotalNat
<1>6. [f EXCEPT ![x] = @ + 1] = g
  OBVIOUS
<1> HIDE DEF g
<1>7. Total(g) = Total(f) + 1
  BY <1>2, <1>4, <1>5
<1> QED
  BY <1>3, <1>5, <1>6, <1>7

LEMMA OneMoreHandled ==
  ASSUME WorkersOK, NEW w \in Worker, item[w] \in DOMAIN handled, Handle(w)
  PROVE  /\ handled' \in [DOMAIN handled -> Nat] /\ DOMAIN handled' = DOMAIN handled
         /\ Handled' = Handled + 1 /\ Handled \in Nat
         /\ handled'[item[w]] = handled[item[w]] + 1
         /\ \A j \in DOMAIN handled : j # item[w] => handled'[j] = handled[j]
<1> DEFINE D == DOMAIN handled
<1>1. IsFiniteSet(D) /\ handled \in [D -> Nat]
  BY HandledItems
<1>2. handled' = [handled EXCEPT ![item[w]] = @ + 1]
  BY DEF Handle
<1>3. /\ [handled EXCEPT ![item[w]] = @ + 1] \in [D -> Nat]
      /\ Total([handled EXCEPT ![item[w]] = @ + 1]) = Total(handled) + 1
      /\ Total(handled) \in Nat
  <2> HIDE DEF D
  <2>1. item[w] \in D
    BY DEF D
  <2> QED
    BY <1>1, <2>1, OneMore
<1>4. Handled' = Handled + 1 /\ Handled \in Nat
  <2>1. Total(handled') = Total(handled) + 1
    BY <1>2, <1>3
  <2> QED
    BY <1>3, <2>1 DEF Handled
<1> QED
  BY <1>1, <1>2, <1>3, <1>4

-----------------------------------------------------------------------------
(* Workers: no step makes what a program says untrue. *)

\* Where a worker is says which programs it may be of.
LEMMA WhereTheyAre ==
  ASSUME WorkersOK, NEW w \in Worker
  PROVE  /\ pc[w] \in {"claim", "work"} => program \in Claiming
         /\ pc[w] = "send" => program \in Channel
         /\ pc[w] = "swap" => program = "verify"
         /\ pc[w] \in {"copy", "store"} => program = "clone"
         /\ pc[w] = "look" => program \notin Claiming
         /\ pc[w] \in PlacesOf(program)
         /\ item[w] \in Nat /\ part[w] \in Nat
BY DEF WorkersOK, PlacesOf, Claiming, Channel

LEMMA SaidWhile == ASSUME result' \in {"none", "panic"} PROVE SaidTrue'
BY DEF SaidTrue, NothingHidden, AllOnce

LEMMA ItemsSame == ASSUME program' = program PROVE Items' = Items
BY DEF Items

LEMMA UnderWaySame ==
  ASSUME \A v \in Worker : (IF pc'[v] = "work" THEN part'[v] ELSE 0)
                             = (IF pc[v] = "work" THEN part[v] ELSE 0)
  PROVE  UnderWay' = UnderWay
BY DEF UnderWay

LEMMA UnderWayNat == ASSUME WorkersOK PROVE UnderWay \in [Worker -> Nat] /\ Total(UnderWay) \in Nat
<1>1. UnderWay \in [Worker -> Nat]
  BY WhereTheyAre DEF UnderWay
<1> QED
  BY <1>1, WorkersFinite, TotalNat

\* What a step of another kind leaves alone.
LEMMA MovedSame ==
  ASSUME MovedOK, UNCHANGED <<program, moved, handled>>, UnderWay' = UnderWay,
         failed \subseteq failed', program \in Claiming,
         \A v \in Worker : pc'[v] = "work" => part'[v] = 0 \/ (pc[v] = "work" /\ part'[v] = part[v])
  PROVE  MovedOK'
<1>1. Handled' = Handled
  BY DEF Handled
<1>2. program # "clone" /\ program # "hog"
  BY DEF Claiming, Channel
<1>3. Up(Size, Chunk) >= 0
  BY SizesOK, RoundedUp
<1> QED
  BY <1>1, <1>2, <1>3 DEF MovedOK

LEMMA ReadSame ==
  ASSUME ReadOK, UNCHANGED <<program, moved, handled, read, touched>>, program \in Claiming
  PROVE  ReadOK'
<1>1. Items' = Items /\ program # "shm"
  BY ItemsSame DEF Claiming, Channel
<1> QED
  BY <1>1 DEF ReadOK

LEMMA ClaimKeeps ==
  ASSUME WorkersCore, NEW w \in Worker, Claim(w)
  PROVE  WorkersCore'
<1> USE DEF WorkersCore
<1>1. program \in Claiming /\ Items \in Nat /\ Items' = Items
  BY WhereTheyAre, ItemsNat, ItemsSame DEF Claim, At
<1>2. /\ program' = program /\ result' = result /\ pass' = pass /\ handled' = handled
      /\ failed' = failed /\ errs' = errs /\ err' = err /\ first' = first /\ bad' = bad
      /\ moved' = moved /\ read' = read /\ touched' = touched /\ next' = next + 1
      /\ pc[w] = "claim"
  BY DEF Claim, At, reports, memory, history
<1>3. WorkersOK'
  <2>1. next \in Nat /\ next' \in Nat /\ pc \in [Worker -> PlacesOf(program)]
    BY <1>2 DEF WorkersOK
  <2>2. {"work", "done"} \subseteq PlacesOf(program)
    BY <1>1 DEF PlacesOf, Claiming, Channel
  <2>3. \/ /\ pc' = [pc EXCEPT ![w] = "work"]
           /\ item' = [item EXCEPT ![w] = next] /\ part' = [part EXCEPT ![w] = 0]
        \/ pc' = [pc EXCEPT ![w] = "done"] /\ item' = item /\ part' = part
    BY DEF Claim, Go
  <2>4. /\ pc' \in [Worker -> PlacesOf(program')]
        /\ item' \in [Worker -> Nat] /\ part' \in [Worker -> Nat]
    <3>1. item \in [Worker -> Nat] /\ part \in [Worker -> Nat]
      BY DEF WorkersOK
    <3>2. [item EXCEPT ![w] = next] \in [Worker -> Nat] /\ [part EXCEPT ![w] = 0] \in [Worker -> Nat]
      BY <2>1, <3>1
    <3>3. \A p \in PlacesOf(program) : [pc EXCEPT ![w] = p] \in [Worker -> PlacesOf(program)]
      BY <2>1
    <3> QED
      BY <1>2, <2>2, <2>3, <3>1, <3>2, <3>3
  <2>5. \A v \in Worker : pc'[v] \in {"send", "swap", "store", "copy"}
                            => pc'[v] = pc[v] /\ item'[v] = item[v]
    BY <2>1, <2>3 DEF WorkersOK
  <2> QED
    BY <1>1, <1>2, <2>1, <2>4, <2>5 DEF WorkersOK
<1>4. ItemsOK'
  <2>1. CASE next < Items
    <3>1. /\ \A v \in Worker : pc'[v] = IF v = w THEN "work" ELSE pc[v]
          /\ \A v \in Worker : item'[v] = IF v = w THEN next ELSE item[v]
      BY <2>1 DEF Claim, Go, WorkersOK
    <3>2. \A v \in Worker : /\ HasItem(v)' <=> v = w \/ HasItem(v)
                            /\ HasItem(v) => v # w /\ item[v] < next
                            /\ HasItem(v) => item'[v] = item[v] /\ pc'[v] = pc[v]
      BY <1>1, <1>2, <3>1 DEF HasItem, InHand, ItemsOK
    <3>3. /\ next \in 0 .. Items - 1 /\ handled[next] = pass /\ next \notin failed
          /\ item'[w] = next /\ HasItem(w)' /\ pc'[w] = "work"
      BY <1>1, <2>1, <3>1, <3>2 DEF ItemsOK, WorkersOK
    <3>4. ASSUME NEW v \in Worker, HasItem(v)'
          PROVE  /\ item'[v] < next' /\ item'[v] < Items' /\ handled'[item'[v]] = pass'
                 /\ pc'[v] = "work" => item'[v] \notin failed'
                 /\ pc'[v] # "work" => item'[v] \in failed'
                 /\ \A x \in Worker : x # v /\ HasItem(x)' => item'[x] # item'[v]
      <4>1. CASE v = w
        BY <1>1, <1>2, <3>2, <3>3, <4>1, WhereTheyAre
      <4>2. CASE v # w
        <5>1. HasItem(v) /\ item'[v] = item[v] /\ pc'[v] = pc[v] /\ item[v] \in Nat
          BY <3>2, <3>4, <4>2, WhereTheyAre
        <5>2. /\ item[v] < next /\ item[v] < Items /\ handled[item[v]] = pass
              /\ pc[v] = "work" => item[v] \notin failed
              /\ pc[v] # "work" => item[v] \in failed
              /\ \A x \in Worker : x # v /\ HasItem(x) => item[x] # item[v]
          BY <1>1, <5>1 DEF ItemsOK
        <5> QED
          BY <1>1, <1>2, <3>2, <3>3, <5>1, <5>2
      <4> QED
        BY <4>1, <4>2
    <3>5. ASSUME NEW i \in 0 .. Items - 1
          PROVE  /\ i >= next' => handled'[i] = pass'
                 /\ i < next' /\ (program = "verify" \/ i \notin failed)
                      => handled'[i] = pass + 1 \/ \E v \in Worker : HasItem(v)' /\ item'[v] = i
      <4>1. CASE i = next
        BY <1>2, <3>3, <4>1
      <4>2. CASE i # next
        <5>1. /\ i >= next => handled[i] = pass
              /\ i < next /\ (program = "verify" \/ i \notin failed)
                   => handled[i] = pass + 1 \/ \E v \in Worker : HasItem(v) /\ item[v] = i
          BY <1>1 DEF ItemsOK
        <5>2. i < next' <=> i < next
          BY <1>2, <3>3, <4>2
        <5> QED
          BY <1>2, <3>2, <3>3, <5>1, <5>2
      <4> QED
        BY <4>1, <4>2
    <3>6. \A v \in Worker : pc'[v] = "done" => next' >= Items \/ errs' # <<>>
      <4>1. \A v \in Worker : pc'[v] = "done" => pc[v] = "done"
        BY <3>1
      <4> QED
        BY <1>1, <1>2, <2>1, <3>3, <4>1 DEF ItemsOK
    <3>7. \A i \in failed : i \in 0 .. Items - 1 /\ i < next'
      BY <1>1, <1>2, <3>3 DEF ItemsOK
    <3> QED
      BY <1>1, <1>2, <3>4, <3>5, <3>6, <3>7 DEF ItemsOK, HasItem
  <2>2. CASE ~(next < Items)
    <3>1. /\ \A v \in Worker : pc'[v] = IF v = w THEN "done" ELSE pc[v]
          /\ item' = item
      BY <2>2 DEF Claim, Go, WorkersOK
    <3>2. \A v \in Worker : HasItem(v)' <=> HasItem(v)
      BY <1>2, <3>1 DEF HasItem, InHand
    <3>3. \A v \in Worker : HasItem(v)' => pc'[v] = pc[v] /\ item'[v] = item[v]
      BY <1>2, <3>1 DEF HasItem, InHand
    <3>4. next \in Nat /\ next' >= Items /\ \A i \in 0 .. Items - 1 : i < next /\ i < next'
      BY <1>1, <1>2, <2>2 DEF WorkersOK
    <3>5. /\ program # "read" => pass = 0
          /\ \A v \in Worker : HasItem(v) =>
               /\ item[v] < next /\ item[v] < Items /\ handled[item[v]] = pass
               /\ pc[v] = "work" => item[v] \notin failed
               /\ pc[v] # "work" => item[v] \in failed
               /\ \A x \in Worker : x # v /\ HasItem(x) => item[x] # item[v]
          /\ \A i \in 0 .. Items - 1 :
               i < next /\ (program = "verify" \/ i \notin failed)
                 => handled[i] = pass + 1 \/ \E v \in Worker : HasItem(v) /\ item[v] = i
          /\ \A i \in failed : i \in 0 .. Items - 1
          /\ program = "read" => pass < Passes
      BY <1>1 DEF ItemsOK
    <3>6. ASSUME NEW v \in Worker, HasItem(v)'
          PROVE  /\ item'[v] < next' /\ item'[v] < Items' /\ handled'[item'[v]] = pass'
                 /\ pc'[v] = "work" => item'[v] \notin failed'
                 /\ pc'[v] # "work" => item'[v] \in failed'
                 /\ \A x \in Worker : x # v /\ HasItem(x)' => item'[x] # item'[v]
      <4>1. item'[v] < next'
        BY <1>1, <1>2, <3>2, <3>3, <3>4, <3>5, <3>6, WhereTheyAre
      <4> QED
        BY <1>1, <1>2, <3>2, <3>3, <3>5, <3>6, <4>1
    <3>7. ASSUME NEW i \in 0 .. Items - 1
          PROVE  /\ ~(i >= next')
                 /\ i < next' /\ (program = "verify" \/ i \notin failed)
                      => handled'[i] = pass + 1 \/ \E v \in Worker : HasItem(v)' /\ item'[v] = i
      BY <1>1, <1>2, <3>2, <3>3, <3>4, <3>5
    <3> QED
      BY <1>1, <1>2, <3>4, <3>5, <3>6, <3>7 DEF ItemsOK, HasItem
  <2> QED
    BY <2>1, <2>2
<1>5. FailuresOK'
  <2>1. \A v \in Worker : pc[v] \in {"send", "store"} => pc'[v] = pc[v]
    BY <1>2 DEF Claim, Go, WorkersOK
  <2> QED
    BY <1>2, <2>1 DEF FailuresOK
<1>6. \A v \in Worker : \/ v # w /\ pc'[v] = pc[v] /\ part'[v] = part[v]
                        \/ v = w /\ pc'[v] = "work" /\ part'[v] = 0
                        \/ v = w /\ pc'[v] = "done"
  BY DEF Claim, Go, WorkersOK
<1>7. UnderWay' = UnderWay
  BY <1>2, <1>6, UnderWaySame
<1>8. MovedOK'
  BY <1>1, <1>2, <1>6, <1>7, MovedSame
<1>9. ReadOK'
  BY <1>1, <1>2, ReadSame
<1> QED
  BY <1>3, <1>4, <1>5, <1>8, <1>9

\* An item that is done: what does not depend on how much was moved and read.
LEMMA DoneKeeps ==
  ASSUME WorkersCore, NEW w \in Worker, At(w, "work"), NEW amount \in Nat, NEW units,
         Done(w, amount, units)
  PROVE  /\ WorkersOK' /\ ItemsOK' /\ FailuresOK'
         /\ program \in Claiming /\ program' = program /\ failed' = failed /\ part' = part
         /\ Items \in Nat /\ Items' = Items /\ item[w] \in 0 .. Items - 1 /\ handled[item[w]] = pass
         /\ item[w] \in DOMAIN handled
         /\ Handled' = Handled + 1 /\ Handled \in Nat
         /\ handled'[item[w]] = handled[item[w]] + 1
         /\ \A j \in DOMAIN handled : j # item[w] => handled'[j] = handled[j]
         /\ 0 .. Items - 1 \subseteq DOMAIN handled
         /\ \A j \in DOMAIN handled : handled[j] \in Nat
         /\ read' = read \cup units /\ moved' = moved + amount /\ touched' = touched
         /\ pass \in Nat /\ moved \in Nat /\ (program # "read" => pass = 0)
         /\ \A v \in Worker : pc'[v] = IF v = w THEN "claim" ELSE pc[v]
<1> USE DEF WorkersCore
<1>1. program \in Claiming /\ Items \in Nat /\ Items' = Items
  BY WhereTheyAre, ItemsNat, ItemsSame DEF Done, At
<1>2. /\ program' = program /\ result' = result /\ pass' = pass /\ next' = next
      /\ item' = item /\ part' = part
      /\ failed' = failed /\ errs' = errs /\ err' = err /\ first' = first /\ bad' = bad
      /\ moved' = moved + amount /\ read' = read \cup units /\ touched' = touched
      /\ pc[w] = "work"
  BY DEF Done, At, reports, memory
<1>3. \A v \in Worker : pc'[v] = IF v = w THEN "claim" ELSE pc[v]
  BY DEF Done, Go, WorkersOK
<1>4. /\ item[w] < next /\ item[w] \in 0 .. Items - 1 /\ handled[item[w]] = pass
      /\ item[w] \notin failed
      /\ \A v \in Worker : v # w /\ HasItem(v) => item[v] # item[w]
  BY <1>1, <1>2, WhereTheyAre DEF ItemsOK, HasItem, InHand
<1>5. item[w] \in DOMAIN handled /\ 0 .. Items - 1 \subseteq DOMAIN handled
  BY <1>4, HandledItems
<1>6. /\ handled' \in [DOMAIN handled -> Nat] /\ DOMAIN handled' = DOMAIN handled
      /\ Handled' = Handled + 1 /\ Handled \in Nat
      /\ handled'[item[w]] = handled[item[w]] + 1
      /\ \A j \in DOMAIN handled : j # item[w] => handled'[j] = handled[j]
  BY <1>5, OneMoreHandled DEF Done
<1>7. WorkersOK'
  <2>1. pc' \in [Worker -> PlacesOf(program')]
    BY <1>1, <1>2 DEF Done, Go, WorkersOK, PlacesOf, Claiming, Channel
  <2>2. handled' \in [0 .. Most(Files, Items') - 1 -> Nat]
    BY <1>1, <1>6 DEF WorkersOK
  <2> QED
    BY <1>2, <1>3, <2>1, <2>2 DEF WorkersOK
<1>8. ItemsOK'
  <2>1. ASSUME NEW v \in Worker, HasItem(v)' PROVE v # w /\ HasItem(v)
    BY <1>3, <2>1 DEF HasItem, InHand
  <2>2. ASSUME NEW v \in Worker, HasItem(v), v # w PROVE HasItem(v)'
    BY <1>3, <2>2 DEF HasItem, InHand
  <2>3. /\ program # "read" => pass = 0
        /\ \A v \in Worker : HasItem(v) =>
             /\ item[v] < next /\ item[v] < Items /\ handled[item[v]] = pass
             /\ pc[v] = "work" => item[v] \notin failed
             /\ pc[v] # "work" => item[v] \in failed
             /\ \A x \in Worker : x # v /\ HasItem(x) => item[x] # item[v]
        /\ \A i \in 0 .. Items - 1 :
             /\ i >= next => handled[i] = pass
             /\ i < next /\ (program = "verify" \/ i \notin failed)
                  => handled[i] = pass + 1 \/ \E v \in Worker : HasItem(v) /\ item[v] = i
        /\ \A i \in failed : i \in 0 .. Items - 1 /\ i < next
        /\ \A v \in Worker : pc[v] = "done" => next >= Items \/ errs # <<>>
        /\ program = "read" => pass < Passes
    BY <1>1 DEF ItemsOK
  <2>4. ASSUME NEW v \in Worker, HasItem(v)'
        PROVE  /\ item[v] < next /\ item[v] < Items /\ handled'[item[v]] = pass
               /\ pc'[v] = "work" => item[v] \notin failed
               /\ pc'[v] # "work" => item[v] \in failed
               /\ \A x \in Worker : x # v /\ HasItem(x)' => item[x] # item[v]
    <3>1. v # w /\ HasItem(v) /\ item[v] # item[w] /\ pc'[v] = pc[v]
      BY <1>3, <1>4, <2>1, <2>4
    <3>2. item[v] \in DOMAIN handled
      BY <1>1, <1>5, <2>3, <3>1, WhereTheyAre
    <3> QED
      BY <1>6, <2>1, <2>3, <3>1, <3>2
  <2>5. ASSUME NEW i \in 0 .. Items - 1
        PROVE  /\ i >= next => handled'[i] = pass
               /\ i < next /\ (program = "verify" \/ i \notin failed)
                    => handled'[i] = pass + 1 \/ \E v \in Worker : HasItem(v)' /\ item[v] = i
    <3>1. CASE i = item[w]
      <4>1. item[w] < next /\ item[w] \in Nat /\ next \in Nat
        BY <1>4 DEF WorkersOK
      <4> QED
        BY <1>4, <1>6, <3>1, <4>1
    <3>2. CASE i # item[w]
      <4>1. handled'[i] = handled[i]
        BY <1>5, <1>6, <3>2
      <4>2. ASSUME NEW v \in Worker, HasItem(v), item[v] = i PROVE HasItem(v)'
        BY <2>2, <3>2, <4>2
      <4> QED
        BY <2>3, <4>1, <4>2
    <3> QED
      BY <3>1, <3>2
  <2>6. \A v \in Worker : pc'[v] = "done" => next >= Items \/ errs # <<>>
    BY <1>3, <2>3
  <2> QED
    BY <1>1, <1>2, <2>3, <2>4, <2>5, <2>6 DEF ItemsOK, HasItem
<1>9. FailuresOK'
  <2>1. \A v \in Worker : pc[v] \in {"send", "store"} => pc'[v] = pc[v]
    BY <1>2, <1>3
  <2> QED
    BY <1>2, <2>1 DEF FailuresOK
<1>10. /\ pass \in Nat /\ moved \in Nat /\ (program # "read" => pass = 0)
       /\ \A j \in DOMAIN handled : handled[j] \in Nat
  BY <1>1, HandledItems DEF WorkersOK, ItemsOK
<1> QED
  BY <1>1, <1>2, <1>3, <1>4, <1>5, <1>6, <1>7, <1>8, <1>9, <1>10

\* The numbers of read are not counted; those of store are in its chunks.
LEMMA DoneMoves ==
  ASSUME WorkersCore, NEW w \in Worker, At(w, "work"), NEW amount \in Nat, NEW units,
         Done(w, amount, units),
         program = "verify" => amount = Size,
         program = "store" => amount = 0 /\ part[w] * Chunk >= Size
  PROVE  MovedOK'
<1> USE DEF WorkersCore
<1>1. /\ program \in Claiming /\ program' = program /\ failed' = failed /\ part' = part
      /\ Handled' = Handled + 1 /\ Handled \in Nat /\ moved' = moved + amount /\ moved \in Nat
      /\ \A v \in Worker : pc'[v] = IF v = w THEN "claim" ELSE pc[v]
  BY DoneKeeps
<1>2. program # "clone" /\ program # "hog"
  BY <1>1 DEF Claiming, Channel
<1>3. ASSUME program = "verify", failed = {} PROVE moved' = Size * Handled'
  <2>1. moved = Size * Handled
    BY <1>3 DEF MovedOK
  <2>2. Size * (Handled + 1) = Size * Handled + Size
    BY <1>1, SizesOK
  <2> QED
    BY <1>1, <1>3, <2>1, <2>2
<1>4. ASSUME program = "store"
      PROVE  /\ failed = {} => moved' = Chunk * (Up(Size, Chunk) * Handled' + Total(UnderWay)')
             /\ \A v \in Worker : pc'[v] = "work" => part'[v] <= Up(Size, Chunk)
  <2> DEFINE chunks == Up(Size, Chunk)
  <2>1. chunks \in Nat /\ Chunk * chunks < Size + Chunk /\ Size <= Chunk * chunks
    BY SizesOK, RoundedUp
  <2>2. \A v \in Worker : pc[v] = "work" => part[v] <= chunks
    BY <1>4 DEF MovedOK
  <2>3. pc[w] = "work" /\ part[w] \in Nat
    BY WhereTheyAre DEF At
  <2> HIDE DEF chunks
  <2>4. part[w] = chunks
    <3>1. ASSUME part[w] < chunks PROVE FALSE
      <4>1. Chunk * part[w] + Chunk <= Chunk * chunks /\ Chunk * part[w] = part[w] * Chunk
        BY <2>1, <2>3, <3>1, SizesOK, ProductStep
      <4> QED
        BY <1>4, <2>1, <2>3, <4>1, SizesOK
    <3> QED
      BY <2>1, <2>2, <2>3, <3>1
  <2>5. Total(UnderWay') + chunks = Total(UnderWay) /\ Total(UnderWay) \in Nat /\ Total(UnderWay') \in Nat
    <3>1. UnderWay \in [Worker -> Nat] /\ Total(UnderWay) \in Nat
      BY UnderWayNat
    <3>2. WorkersOK'
      BY DoneKeeps
    <3>3. UnderWay' \in [Worker -> Nat]
      BY <1>1, WhereTheyAre DEF UnderWay
    <3>4. Total(UnderWay') \in Nat
      BY <3>3, WorkersFinite, TotalNat
    <3>5. UnderWay[w] = chunks /\ UnderWay'[w] = 0
      BY <1>1, <2>3, <2>4 DEF UnderWay
    <3>6. \A v \in Worker \ {w} : UnderWay'[v] = UnderWay[v]
      BY <1>1 DEF UnderWay
    <3>7. Total(UnderWay') + UnderWay[w] = Total(UnderWay) + UnderWay'[w]
      BY <3>1, <3>3, <3>6, WorkersFinite, TotalChanged
    <3> QED
      BY <3>1, <3>4, <3>5, <3>7
  <2>6. ASSUME failed = {} PROVE moved' = Chunk * (chunks * Handled' + Total(UnderWay'))
    <3>1. moved = Chunk * (chunks * Handled + Total(UnderWay))
      BY <1>4, <2>6 DEF MovedOK, chunks
    <3>2. chunks * (Handled + 1) = chunks * Handled + chunks
      BY <1>1, <2>1
    <3>3. chunks * Handled' + Total(UnderWay') = chunks * Handled + Total(UnderWay)
      <4> DEFINE h == chunks * Handled
      <4>1. h \in Nat
        BY <1>1, <2>1
      <4> HIDE DEF h
      <4>2. chunks * Handled' = h + chunks
        BY <1>1, <3>2 DEF h
      <4> QED
        BY <2>1, <2>5, <4>1, <4>2 DEF h
    <3> QED
      BY <1>1, <1>4, <3>1, <3>3
  <2>7. \A v \in Worker : pc'[v] = "work" => part'[v] <= chunks
    BY <1>1, <2>2
  <2> QED
    BY <2>6, <2>7 DEF chunks
<1> QED
  BY <1>1, <1>2, <1>3, <1>4 DEF MovedOK

\* Units that are read for an item that was not done yet are new.
LEMMA DoneReads ==
  ASSUME WorkersCore, NEW w \in Worker, At(w, "work"), NEW amount \in Nat, NEW units,
         Done(w, amount, units),
         program = "map" => units = MapUnits(item[w]),
         program \in Loads => units \subseteq LoadUnits(item[w]) /\ amount = Cardinality(units)
  PROVE  ReadOK'
<1> USE DEF WorkersCore
<1>1. /\ program \in Claiming /\ program' = program /\ Items' = Items /\ Items \in Nat
      /\ item[w] \in 0 .. Items - 1 /\ handled[item[w]] = pass
      /\ handled'[item[w]] = handled[item[w]] + 1
      /\ \A j \in DOMAIN handled : j # item[w] => handled'[j] = handled[j]
      /\ \A j \in DOMAIN handled : handled[j] \in Nat
      /\ 0 .. Items - 1 \subseteq DOMAIN handled
      /\ read' = read \cup units /\ moved' = moved + amount /\ touched' = touched
      /\ pass \in Nat /\ moved \in Nat /\ (program # "read" => pass = 0)
  BY DoneKeeps
<1>2. program # "shm" /\ (program \in Loads => program # "read" /\ Items = LoadItems)
  BY <1>1 DEF Claiming, Channel, Loads, Items
<1>3. ASSUME program = "map", NEW k \in 0 .. Items - 1, handled'[k] > 0
      PROVE  MapUnits(k) \subseteq read'
  <2>1. CASE k = item[w]
    BY <1>1, <1>3, <2>1
  <2>2. CASE k # item[w]
    <3>1. handled[k] > 0
      BY <1>1, <1>3, <2>2
    <3>2. MapUnits(k) \subseteq read
      BY <1>3, <3>1 DEF ReadOK
    <3> QED
      BY <1>1, <3>2
  <2> QED
    BY <2>1, <2>2
<1>4. ASSUME program \in Loads
      PROVE  /\ IsFiniteSet(read') /\ Cardinality(read') = moved'
             /\ \A u \in read' : \E k \in 0 .. Items - 1 : handled'[k] > 0 /\ u \in LoadUnits(k)
  <2>1. /\ IsFiniteSet(read) /\ Cardinality(read) = moved
        /\ \A u \in read : \E k \in 0 .. Items - 1 : handled[k] > 0 /\ u \in LoadUnits(k)
    BY <1>4 DEF ReadOK
  <2>2. item[w] \in 0 .. LoadItems - 1 /\ handled[item[w]] = 0
    BY <1>1, <1>2, <1>4
  <2>3. units \subseteq LoadUnits(item[w]) /\ amount = Cardinality(units)
    BY <1>4
  <2>4. IsFiniteSet(units)
    <3>1. units \subseteq File \X (0 .. Size - 1)
      BY <2>2, <2>3, LoadUnit
    <3>2. IsFiniteSet(File) /\ IsFiniteSet(0 .. Size - 1)
      BY SizesOK, FS_Interval DEF File
    <3> QED
      BY <3>1, <3>2, FS_Product, FS_Subset
  <2>5. ASSUME NEW u \in units, u \in read PROVE FALSE
    <3>1. PICK k \in 0 .. Items - 1 : handled[k] > 0 /\ u \in LoadUnits(k)
      BY <2>1, <2>5
    <3>2. k = Steps * u[1] + (u[2] \div Step)
      BY <1>2, <1>4, <3>1, LoadUnit
    <3>3. u \in LoadUnits(item[w])
      BY <2>3
    <3>4. item[w] = Steps * u[1] + (u[2] \div Step)
      BY <2>2, <3>3, LoadUnit
    <3> QED
      BY <2>2, <3>1, <3>2, <3>4
  <2>6. read \cap units = {}
    BY <2>5
  <2>7. IsFiniteSet(read \cup units) /\ Cardinality(read \cup units) = Cardinality(read) + Cardinality(units)
    <3>1. Cardinality(read \cap units) = 0
      BY <2>6, FS_EmptySet
    <3>2. Cardinality(read) \in Nat /\ Cardinality(units) \in Nat
      BY <2>1, <2>4, FS_CardinalityType
    <3> QED
      BY <2>1, <2>4, <3>1, <3>2, FS_Union
  <2>8. ASSUME NEW u \in read'
        PROVE  \E k \in 0 .. Items - 1 : handled'[k] > 0 /\ u \in LoadUnits(k)
    <3>1. CASE u \in units
      BY <1>1, <2>2, <2>3, <3>1
    <3>2. CASE u \in read
      <4>1. PICK k \in 0 .. Items - 1 : handled[k] > 0 /\ u \in LoadUnits(k)
        BY <2>1, <3>2
      <4>2. handled'[k] > 0
        BY <1>1, <2>2, <4>1
      <4> QED
        BY <4>1, <4>2
    <3> QED
      BY <1>1, <2>8, <3>1, <3>2
  <2> QED
    BY <1>1, <2>1, <2>3, <2>7, <2>8
<1>5. (program = "load" => touched \in {{}, 0 .. Arena - 1})
  BY DEF ReadOK
<1> QED
  BY <1>1, <1>2, <1>3, <1>4, <1>5 DEF ReadOK

LEMMA DonesKeep ==
  ASSUME WorkersCore, NEW w \in Worker,
         WriteFile(w) \/ ReadFile(w) \/ CopySpan(w) \/ ReadSpan(w) \/ CloseFile(w) \/ Verified(w)
  PROVE  WorkersCore'
<1>1. ASSUME NEW amount \in Nat, NEW units, At(w, "work"), Done(w, amount, units),
             program = "verify" => amount = Size,
             program = "store" => amount = 0 /\ part[w] * Chunk >= Size,
             program = "map" => units = MapUnits(item[w]),
             program \in Loads => units \subseteq LoadUnits(item[w]) /\ amount = Cardinality(units)
      PROVE  WorkersCore'
  <2>1. WorkersOK' /\ ItemsOK' /\ FailuresOK'
    BY <1>1, DoneKeeps
  <2>2. MovedOK'
    BY <1>1, DoneMoves
  <2>3. ReadOK'
    BY <1>1, DoneReads
  <2> QED
    BY <2>1, <2>2, <2>3 DEF WorkersCore
<1>2. Size \in Nat /\ Loads = {"load", "direct"}
  BY SizesOK DEF Loads
<1>3. CASE WriteFile(w)
  <2>1. program = "write" /\ At(w, "work") /\ Done(w, 0, {})
    BY <1>3 DEF WriteFile
  <2> QED
    BY <1>1, <1>2, <2>1
<1>4. CASE ReadFile(w)
  <2>1. PICK n \in {0, Size} : program = "read" /\ At(w, "work") /\ Done(w, n, {})
    BY <1>4 DEF ReadFile
  <2>2. n \in Nat
    BY <1>2
  <2> QED
    BY <1>1, <1>2, <2>1, <2>2
<1>5. CASE CopySpan(w)
  <2>1. program = "map" /\ At(w, "work")
        /\ Done(w, Cardinality(MapUnits(item[w])), MapUnits(item[w]))
    BY <1>5 DEF CopySpan
  <2>2. Cardinality(MapUnits(item[w])) \in Nat
    <3>1. item[w] \in Nat
      BY WhereTheyAre DEF WorkersCore
    <3> DEFINE k == item[w]
               off == (k \div Files) * Span
    <3>2. off \in Nat
      <4>1. k \div Files \in Nat
        BY <3>1, SizesOK, Division
      <4> HIDE DEF k
      <4> QED
        BY <4>1, SizesOK
    <3>3. MapUnits(k) = { k % Files } \X (off .. Least(off + Span, Size) - 1)
      BY DEF MapUnits
    <3> DEFINE last == Least(off + Span, Size) - 1
               one == k % Files
    <3>4. last \in Int
      <4> HIDE DEF off
      <4> QED
        BY <3>2, SizesOK
    <3> HIDE DEF off, last, one
    <3>5. IsFiniteSet(off .. last) /\ IsFiniteSet({one})
      <4>1. off \in Int
        BY <3>2
      <4>2. IsFiniteSet(off .. last)
        BY <3>4, <4>1, FS_Interval
      <4>3. IsFiniteSet({one})
        BY FS_Singleton
      <4> QED
        BY <4>2, <4>3
    <3>6. IsFiniteSet({one} \X (off .. last))
      BY <3>5, FS_Product
    <3>7. MapUnits(k) = {one} \X (off .. last)
      BY <3>3 DEF last, one
    <3> QED
      BY <3>6, <3>7, FS_CardinalityType
  <2> QED
    BY <1>1, <1>2, <2>1, <2>2
<1>6. CASE ReadSpan(w)
  <2>1. PICK short \in BOOLEAN :
          LET all == LoadUnits(item[w])
              units == IF short THEN { u \in all : \A v \in all : u[2] <= v[2] } ELSE all
          IN Done(w, Cardinality(units), units)
    BY <1>6 DEF ReadSpan
  <2> DEFINE all == LoadUnits(item[w])
             units == IF short THEN { u \in all : \A v \in all : u[2] <= v[2] } ELSE all
  <2>2. program \in Loads /\ At(w, "work") /\ Done(w, Cardinality(units), units)
    BY <1>6, <2>1 DEF ReadSpan
  <2>3. units \subseteq all
    OBVIOUS
  <2>4. IsFiniteSet(units)
    <3>1. item[w] \in 0 .. LoadItems - 1
      <4>1. pc[w] = "work" /\ item[w] \in Nat /\ Items \in Nat /\ program \in Claiming
        BY <2>2, WhereTheyAre, ItemsNat DEF At, WorkersCore
      <4>2. item[w] < Items /\ Items = LoadItems
        BY <2>2, <4>1 DEF WorkersCore, ItemsOK, HasItem, InHand, Items, Loads
      <4> QED
        BY <4>1, <4>2
    <3>2. all \subseteq File \X (0 .. Size - 1)
      BY <3>1, LoadUnit
    <3>3. IsFiniteSet(File) /\ IsFiniteSet(0 .. Size - 1)
      BY SizesOK, FS_Interval DEF File
    <3> HIDE DEF all, units
    <3> QED
      BY <2>3, <3>2, <3>3, FS_Product, FS_Subset
  <2> HIDE DEF units
  <2>5. Cardinality(units) \in Nat
    BY <2>4, FS_CardinalityType
  <2> QED
    BY <1>1, <1>2, <2>2, <2>3, <2>5
<1>7. CASE CloseFile(w)
  <2>1. program = "store" /\ At(w, "work") /\ part[w] * Chunk >= Size /\ Done(w, 0, {})
    BY <1>7 DEF CloseFile
  <2> QED
    BY <1>1, <1>2, <2>1
<1>8. CASE Verified(w)
  <2>1. program = "verify" /\ At(w, "work") /\ Done(w, Size, {})
    BY <1>8 DEF Verified
  <2> QED
    BY <1>1, <1>2, <2>1
<1> QED
  BY <1>3, <1>4, <1>5, <1>6, <1>7, <1>8

\* A failure is noted by the one that has the item.
LEMMA ReportsKeep ==
  ASSUME WorkersCore, NEW w \in Worker,
         Fails(w) \/ Differs(w) \/ OpenFails(w) \/ CopyFails(w)
  PROVE  WorkersCore'
<1> USE DEF WorkersCore
<1> DEFINE Form == {"any", "wrapped", "text", "path"}
<1>1. PICK kind \in Form, p \in {"send", "swap", "store"} :
        /\ Reports(w, kind, p) /\ Running
        /\ \/ p = "send" /\ program \in Channel /\ pc[w] = "work" /\ UNCHANGED <<bad, moved>>
           \/ p = "swap" /\ program = "verify" /\ pc[w] = "work" /\ bad' = bad + 1 /\ moved' \in Nat
           \/ p = "store" /\ program = "clone" /\ pc[w] = "copy" /\ UNCHANGED <<bad, moved>>
  <2>1. moved \in Nat /\ Size \in Nat
    BY SizesOK DEF WorkersOK
  <2>2. ASSUME Fails(w)
        PROVE  Running /\ Reports(w, "any", "send") /\ program \in Channel /\ pc[w] = "work"
               /\ UNCHANGED <<bad, moved>>
    BY <2>2 DEF Fails, At
  <2>3. ASSUME Differs(w)
        PROVE  /\ Running /\ program = "verify" /\ pc[w] = "work" /\ bad' = bad + 1
               /\ moved' \in Nat
               /\ Reports(w, "wrapped", "swap") \/ Reports(w, "text", "swap")
    <3>1. \/ Reports(w, "wrapped", "swap") /\ UNCHANGED moved
          \/ \E n \in {0, Size} : Reports(w, "text", "swap") /\ moved' = moved + n
      BY <2>3 DEF Differs
    <3> QED
      BY <2>1, <2>3, <3>1 DEF Differs, At
  <2>4. ASSUME OpenFails(w) \/ CopyFails(w)
        PROVE  /\ Running /\ pc[w] = "copy" /\ UNCHANGED <<bad, moved>> /\ program = "clone"
               /\ Reports(w, "path", "store") \/ Reports(w, "wrapped", "store")
    <3>1. pc[w] = "copy"
      BY <2>4 DEF OpenFails, CopyFails, At
    <3> QED
      BY <2>4, <3>1, WhereTheyAre DEF OpenFails, CopyFails, At
  <2> QED
    BY <2>2, <2>3, <2>4
<1>2. /\ program' = program /\ result' = result /\ pass' = pass /\ next' = next
      /\ item' = item /\ part' = part /\ failed' = failed \cup {item[w]}
      /\ errs' = errs /\ first' = first /\ handled' = handled
      /\ read' = read /\ touched' = touched
      /\ err' = [err EXCEPT ![w] = [kind |-> kind, item |-> item[w]]]
      /\ pc' = [pc EXCEPT ![w] = p]
  BY <1>1 DEF Reports, SawFail, Go, memory
<1>3. /\ \A v \in Worker : pc'[v] = IF v = w THEN p ELSE pc[v]
      /\ Items' = Items /\ Items \in Nat /\ item[w] \in Nat /\ part[w] \in Nat
      /\ p \in PlacesOf(program)
  BY <1>1, <1>2, ItemsSame, ItemsNat, WhereTheyAre DEF WorkersOK, PlacesOf, Channel
<1>4. WorkersOK'
  <2>1. [kind |-> kind, item |-> item[w]] \in Failure
    BY <1>1, <1>3 DEF Failure
  <2> DEFINE e == [kind |-> kind, item |-> item[w]]
  <2> HIDE DEF e
  <2>2. e \in Failure /\ err' = [err EXCEPT ![w] = e]
    BY <1>2, <2>1 DEF e
  <2>3. err' \in [Worker -> Failure \cup {None}] /\ err'[w] \in Failure
        /\ \A v \in Worker : v # w => err'[v] = err[v]
    BY <2>2 DEF WorkersOK
  <2>4. pc' \in [Worker -> PlacesOf(program')]
    BY <1>2, <1>3 DEF WorkersOK
  <2>5. \A v \in Worker : /\ pc'[v] \in {"send", "swap", "store"} => err'[v] \in Failure
                          /\ pc'[v] = "copy" => item[v] \in File
    BY <1>1, <1>3, <2>3 DEF WorkersOK
  <2>6. moved' \in Nat
    BY <1>1 DEF WorkersOK
  <2> QED
    BY <1>2, <1>3, <2>3, <2>4, <2>5, <2>6 DEF WorkersOK
<1>5. ASSUME program \in Claiming
      PROVE  /\ pc[w] = "work" /\ p \in {"send", "swap"}
             /\ item[w] \in 0 .. Items - 1 /\ item[w] < next /\ item[w] \notin failed
             /\ \A v \in Worker : HasItem(v)' <=> HasItem(v)
             /\ \A v \in Worker : v # w /\ HasItem(v) => item[v] # item[w]
  <2>1. pc[w] = "work" /\ p \in {"send", "swap"}
    BY <1>1, <1>5 DEF Claiming, Channel
  <2>2. \A v \in Worker : HasItem(v)' <=> HasItem(v)
    BY <1>3, <2>1 DEF HasItem, InHand
  <2> QED
    BY <1>3, <1>5, <2>1, <2>2 DEF ItemsOK, HasItem, InHand
<1>6. ItemsOK'
  <2> SUFFICES ASSUME program \in Claiming PROVE ItemsOK'
    BY <1>2 DEF ItemsOK
  <2>1. /\ program # "read" => pass = 0
        /\ \A v \in Worker : HasItem(v) =>
             /\ item[v] < next /\ item[v] < Items /\ handled[item[v]] = pass
             /\ pc[v] = "work" => item[v] \notin failed
             /\ pc[v] # "work" => item[v] \in failed
             /\ \A x \in Worker : x # v /\ HasItem(x) => item[x] # item[v]
        /\ \A i \in 0 .. Items - 1 :
             /\ i >= next => handled[i] = pass
             /\ i < next /\ (program = "verify" \/ i \notin failed)
                  => handled[i] = pass + 1 \/ \E v \in Worker : HasItem(v) /\ item[v] = i
        /\ \A i \in failed : i \in 0 .. Items - 1 /\ i < next
        /\ \A v \in Worker : pc[v] = "done" => next >= Items \/ errs # <<>>
        /\ program = "read" => pass < Passes
    BY DEF ItemsOK
  <2>2. ASSUME NEW v \in Worker, HasItem(v)'
        PROVE  /\ pc'[v] = "work" => item[v] \notin failed'
               /\ pc'[v] # "work" => item[v] \in failed'
    <3>1. CASE v = w
      BY <1>1, <1>2, <1>3, <1>5, <3>1
    <3>2. CASE v # w
      BY <1>2, <1>3, <1>5, <2>1, <2>2, <3>2
    <3> QED
      BY <3>1, <3>2
  <2>3. \A v \in Worker : pc'[v] = "done" => next >= Items \/ errs # <<>>
    BY <1>3, <1>5, <2>1
  <2>4. \A i \in failed' : i \in 0 .. Items - 1 /\ i < next
    BY <1>2, <1>5, <2>1
  <2>5. ASSUME NEW i \in 0 .. Items - 1
        PROVE  i < next /\ (program = "verify" \/ i \notin failed')
                 => handled[i] = pass + 1 \/ \E v \in Worker : HasItem(v)' /\ item[v] = i
    BY <1>2, <1>5, <2>1
  <2>6. \A v \in Worker : HasItem(v)' =>
           /\ item[v] < next /\ item[v] < Items /\ handled[item[v]] = pass
           /\ \A x \in Worker : x # v /\ HasItem(x)' => item[x] # item[v]
    BY <1>5, <2>1
  <2> QED
    BY <1>2, <1>3, <2>1, <2>2, <2>3, <2>4, <2>5, <2>6 DEF ItemsOK, HasItem
<1>7. FailuresOK'
  <2>1. program \in Channel \cup {"verify", "clone"} /\ pc'[w] = p
    BY <1>1, <1>3
  <2>2. program \in Channel => pc'[w] = "send"
    BY <1>1, <2>1 DEF Channel
  <2>3. program = "clone" => pc'[w] = "store"
    BY <1>1, <2>1 DEF Channel
  <2>4. ASSUME program = "verify" PROVE IsFiniteSet(failed') /\ bad' = Cardinality(failed')
    <3>1. item[w] \notin failed /\ bad' = bad + 1
      BY <1>1, <1>5, <2>4 DEF Claiming, Channel
    <3>2. IsFiniteSet(failed) /\ bad = Cardinality(failed)
      BY <2>4 DEF FailuresOK
    <3> QED
      BY <1>2, <3>1, <3>2, FS_AddElement
  <2>5. program # "verify" => bad' = 0
    BY <1>1 DEF FailuresOK
  <2> QED
    BY <1>2, <2>1, <2>2, <2>3, <2>4, <2>5 DEF FailuresOK
<1>8. MovedOK'
  <2>1. failed' # {} /\ Handled' = Handled
    BY <1>2 DEF Handled
  <2>2. program = "clone" => moved' = moved
    BY <1>1 DEF Channel
  <2>3. program # "hog"
    BY <1>1 DEF Channel
  <2>4. program = "store" => \A v \in Worker : pc'[v] = "work" => part[v] <= Up(Size, Chunk)
    BY <1>1, <1>3 DEF MovedOK
  <2> QED
    BY <1>2, <2>1, <2>2, <2>3, <2>4 DEF MovedOK
<1>9. ReadOK'
  <2>1. program # "shm"
    BY <1>1 DEF Channel
  <2>2. program \in Loads => moved' = moved
    BY <1>1 DEF Loads
  <2> QED
    BY <1>2, <1>3, <2>1, <2>2 DEF ReadOK
<1> QED
  BY <1>4, <1>6, <1>7, <1>8, <1>9

LEMMA SendKeeps == ASSUME WorkersCore, NEW w \in Worker, Send(w) PROVE WorkersCore'
<1> USE DEF WorkersCore
<1>1. /\ program' = program /\ result' = result /\ pass' = pass /\ next' = next
      /\ item' = item /\ part' = part /\ failed' = failed /\ err' = err
      /\ first' = first /\ bad' = bad /\ handled' = handled /\ moved' = moved
      /\ read' = read /\ touched' = touched /\ errs' = Append(errs, err[w])
      /\ pc[w] = "send" /\ program \in Channel /\ Items' = Items /\ Items \in Nat
  BY WhereTheyAre, ItemsSame, ItemsNat DEF Send, At, memory, history
<1>2. /\ \A v \in Worker : pc'[v] = IF v = w THEN "done" ELSE pc[v]
      /\ pc' \in [Worker -> PlacesOf(program)]
  BY <1>1 DEF Send, Go, WorkersOK, PlacesOf
<1>3. errs' \in Seq(Failure) /\ errs' # <<>>
  <2>1. err[w] \in Failure /\ errs \in Seq(Failure)
    BY <1>1 DEF WorkersOK
  <2> QED
    BY <1>1, <2>1
<1>4. WorkersOK'
  BY <1>1, <1>2, <1>3 DEF WorkersOK
<1>5. program \in Claiming /\ program # "verify"
  BY <1>1 DEF Claiming, Channel
<1>6. ItemsOK'
  <2>1. \A v \in Worker : /\ HasItem(v)' <=> v # w /\ HasItem(v)
                          /\ HasItem(v)' => pc'[v] = pc[v]
    BY <1>2 DEF HasItem, InHand
  <2>2. HasItem(w) /\ item[w] \in failed
    BY <1>1, <1>5 DEF HasItem, InHand, ItemsOK
  <2>3. ASSUME NEW i \in 0 .. Items - 1, i < next, i \notin failed
        PROVE  handled[i] = pass + 1 \/ \E v \in Worker : HasItem(v)' /\ item[v] = i
    <3>1. handled[i] = pass + 1 \/ \E v \in Worker : HasItem(v) /\ item[v] = i
      BY <1>5, <2>3 DEF ItemsOK
    <3> QED
      BY <2>1, <2>2, <2>3, <3>1
  <2>4. ASSUME NEW v \in Worker, HasItem(v)'
        PROVE  /\ item[v] < next /\ item[v] < Items /\ handled[item[v]] = pass
               /\ pc'[v] = "work" => item[v] \notin failed
               /\ pc'[v] # "work" => item[v] \in failed
               /\ \A x \in Worker : x # v /\ HasItem(x)' => item[x] # item[v]
    BY <1>5, <2>1, <2>4 DEF ItemsOK
  <2>5. /\ program # "read" => pass = 0
        /\ \A i \in 0 .. Items - 1 : i >= next => handled[i] = pass
        /\ \A i \in failed : i \in 0 .. Items - 1 /\ i < next
        /\ program = "read" => pass < Passes
    BY <1>5 DEF ItemsOK
  <2> QED
    BY <1>1, <1>3, <1>5, <2>3, <2>4, <2>5 DEF ItemsOK, HasItem
<1>7. FailuresOK'
  BY <1>1, <1>3, <1>5 DEF FailuresOK, Channel
<1>8. UnderWay' = UnderWay
  BY <1>1, <1>2, UnderWaySame
<1>9. MovedOK'
  BY <1>1, <1>2, <1>5, <1>8, MovedSame
<1>10. ReadOK'
  BY <1>1, <1>5, ReadSame
<1> QED
  BY <1>4, <1>6, <1>7, <1>9, <1>10

\* verify() goes on after a file that differs.
LEMMA SwapKeeps ==
  ASSUME WorkersCore, NEW w \in Worker, Swap(w), result' = "none"
  PROVE  WorkersCore'
<1> USE DEF WorkersCore
<1>1. /\ program' = program /\ pass' = pass /\ next' = next
      /\ item' = item /\ part' = part /\ failed' = failed /\ err' = err /\ errs' = errs
      /\ bad' = bad /\ moved' = moved /\ read' = read /\ touched' = touched
      /\ pc[w] = "swap" /\ program = "verify" /\ Items' = Items /\ Items \in Nat
      /\ result = "none" /\ Handle(w)
  BY WhereTheyAre, ItemsSame, ItemsNat DEF Swap, At, Running, memory
<1>2. /\ first' = (IF first = None THEN err[w] ELSE first) /\ pc' = [pc EXCEPT ![w] = "claim"]
  BY <1>1 DEF Swap, Into, Go
<1>3. /\ \A v \in Worker : pc'[v] = IF v = w THEN "claim" ELSE pc[v]
      /\ pc' \in [Worker -> PlacesOf(program)]
  BY <1>1, <1>2 DEF WorkersOK, PlacesOf, Channel
<1>4. first' \in Failure \cup {None}
  BY <1>1, <1>2 DEF WorkersOK
<1>5. program \in Claiming
  BY <1>1 DEF Claiming
<1>6. /\ HasItem(w) /\ item[w] \in failed /\ item[w] \in 0 .. Items - 1 /\ handled[item[w]] = pass
      /\ item[w] < next
      /\ \A v \in Worker : v # w /\ HasItem(v) => item[v] # item[w]
  BY <1>1, <1>5, WhereTheyAre DEF HasItem, InHand, ItemsOK
<1>7. item[w] \in DOMAIN handled /\ 0 .. Items - 1 \subseteq DOMAIN handled
  BY <1>6, HandledItems
<1>8. /\ handled' \in [DOMAIN handled -> Nat]
      /\ handled'[item[w]] = handled[item[w]] + 1
      /\ \A j \in DOMAIN handled : j # item[w] => handled'[j] = handled[j]
  BY <1>1, <1>7, OneMoreHandled
<1>9. WorkersOK'
  <2>1. handled' \in [0 .. Most(Files, Items') - 1 -> Nat]
    BY <1>1, <1>8 DEF WorkersOK
  <2> QED
    BY <1>1, <1>3, <1>4, <2>1 DEF WorkersOK
<1>10. ItemsOK'
  <2>1. \A v \in Worker : /\ HasItem(v)' <=> v # w /\ HasItem(v)
                          /\ HasItem(v)' => pc'[v] = pc[v]
    BY <1>3 DEF HasItem, InHand
  <2>2. ASSUME NEW i \in 0 .. Items - 1
        PROVE  /\ i >= next => handled'[i] = pass
               /\ i < next => handled'[i] = pass + 1 \/ \E v \in Worker : HasItem(v)' /\ item[v] = i
    <3>1. /\ i >= next => handled[i] = pass
          /\ i < next => handled[i] = pass + 1 \/ \E v \in Worker : HasItem(v) /\ item[v] = i
      BY <1>1, <1>5 DEF ItemsOK
    <3>2. CASE i = item[w]
      <4>1. next \in Nat
        BY DEF WorkersOK
      <4> QED
        BY <1>6, <1>8, <3>2, <4>1
    <3>3. CASE i # item[w]
      BY <1>7, <1>8, <2>1, <3>1, <3>3
    <3> QED
      BY <3>2, <3>3
  <2>3. ASSUME NEW v \in Worker, HasItem(v)'
        PROVE  /\ item[v] < next /\ item[v] < Items /\ handled'[item[v]] = pass
               /\ pc'[v] = "work" => item[v] \notin failed
               /\ pc'[v] # "work" => item[v] \in failed
               /\ \A x \in Worker : x # v /\ HasItem(x)' => item[x] # item[v]
    <3>1. /\ item[v] < next /\ item[v] < Items /\ handled[item[v]] = pass
          /\ pc[v] = "work" => item[v] \notin failed
          /\ pc[v] # "work" => item[v] \in failed
          /\ \A x \in Worker : x # v /\ HasItem(x) => item[x] # item[v]
      BY <1>5, <2>1, <2>3 DEF ItemsOK
    <3>2. item[v] \in DOMAIN handled /\ item[v] # item[w]
      BY <1>1, <1>6, <1>7, <2>1, <2>3, <3>1, WhereTheyAre
    <3> QED
      BY <1>8, <2>1, <2>3, <3>1, <3>2
  <2>4. /\ pass = 0
        /\ \A i \in failed : i \in 0 .. Items - 1 /\ i < next
        /\ \A v \in Worker : pc'[v] = "done" => next >= Items \/ errs # <<>>
    BY <1>1, <1>3, <1>5 DEF ItemsOK
  <2> QED
    BY <1>1, <1>5, <2>2, <2>3, <2>4 DEF ItemsOK, HasItem
<1>11. FailuresOK'
  BY <1>1 DEF FailuresOK, Channel
<1>12. MovedOK'
  <2>1. failed # {}
    BY <1>6
  <2> QED
    BY <1>1, <2>1 DEF MovedOK
<1>13. ReadOK'
  BY <1>1 DEF ReadOK, Loads
<1> QED
  BY <1>9, <1>10, <1>11, <1>12, <1>13

\* A chunk more of the file that a worker of store has.
LEMMA ChunkKeeps == ASSUME WorkersCore, NEW w \in Worker, WriteChunk(w) PROVE WorkersCore'
<1> USE DEF WorkersCore
<1>1. /\ program' = program /\ result' = result /\ pass' = pass /\ next' = next
      /\ pc' = pc /\ item' = item /\ failed' = failed /\ err' = err /\ errs' = errs
      /\ first' = first /\ bad' = bad /\ handled' = handled /\ moved' = moved + Chunk
      /\ read' = read /\ touched' = touched
      /\ program = "store" /\ pc[w] = "work" /\ part[w] * Chunk < Size
      /\ part' = [part EXCEPT ![w] = @ + 1]
  BY DEF WriteChunk, At, reports, memory, history
<1>2. moved \in Nat /\ part \in [Worker -> Nat] /\ part[w] \in Nat /\ Items' = Items
  BY <1>1, ItemsSame DEF WorkersOK
<1>3. /\ part' \in [Worker -> Nat] /\ part'[w] = part[w] + 1
      /\ \A v \in Worker : v # w => part'[v] = part[v]
  BY <1>1, <1>2
<1>4. WorkersOK'
  BY <1>1, <1>2, <1>3, SizesOK DEF WorkersOK
<1>5. ItemsOK' /\ FailuresOK'
  BY <1>1, <1>2 DEF ItemsOK, HasItem, FailuresOK
<1>6. ReadOK'
  BY <1>1, <1>2 DEF ReadOK, Loads
<1>7. Total(UnderWay') = Total(UnderWay) + 1 /\ Total(UnderWay) \in Nat
  <2>1. UnderWay \in [Worker -> Nat] /\ Total(UnderWay) \in Nat
    BY UnderWayNat
  <2>2. UnderWay' \in [Worker -> Nat] /\ UnderWay'[w] = UnderWay[w] + 1 /\ UnderWay[w] \in Nat
        /\ \A v \in Worker \ {w} : UnderWay'[v] = UnderWay[v]
    BY <1>1, <1>2, <1>3 DEF UnderWay
  <2>3. Total(UnderWay') + UnderWay[w] = Total(UnderWay) + UnderWay'[w]
    BY <2>1, <2>2, WorkersFinite, TotalChanged
  <2>4. Total(UnderWay') \in Nat
    BY <2>2, WorkersFinite, TotalNat
  <2> QED
    BY <2>1, <2>2, <2>3, <2>4
<1>8. part[w] + 1 <= Up(Size, Chunk)
  <2> DEFINE chunks == Up(Size, Chunk)
  <2>1. chunks \in Nat /\ Size <= Chunk * chunks
    BY SizesOK, RoundedUp
  <2> HIDE DEF chunks
  <2>2. ASSUME chunks <= part[w] PROVE FALSE
    <3>1. Chunk * chunks <= Chunk * part[w] /\ Chunk * part[w] = part[w] * Chunk
      BY <1>2, <2>1, <2>2, SizesOK, ProductGrows
    <3> QED
      BY <1>1, <1>2, <2>1, <3>1, SizesOK
  <2> QED
    BY <1>2, <2>1, <2>2 DEF chunks
<1>9. MovedOK'
  <2> DEFINE h == Up(Size, Chunk) * Handled
             t0 == Total(UnderWay)
  <2>1. Handled' = Handled /\ Handled \in Nat
    BY <1>1, HandledItems, TotalNat DEF Handled
  <2>2. h \in Nat
    <3>1. Up(Size, Chunk) \in Nat
      BY SizesOK, RoundedUp
    <3> QED
      BY <2>1, <3>1
  <2>3. failed = {} => moved = Chunk * (h + t0)
    BY <1>1 DEF MovedOK
  <2>4. t0 \in Nat /\ Total(UnderWay') = t0 + 1
    BY <1>7
  <2> HIDE DEF h, t0
  <2>5. Chunk * (h + (t0 + 1)) = Chunk * (h + t0) + Chunk
    BY <2>2, <2>4, SizesOK
  <2>6. failed = {} => moved' = Chunk * (Up(Size, Chunk) * Handled' + Total(UnderWay'))
    BY <1>1, <2>1, <2>3, <2>4, <2>5 DEF h
  <2>7. \A v \in Worker : pc'[v] = "work" => part'[v] <= Up(Size, Chunk)
    BY <1>1, <1>3, <1>8 DEF MovedOK
  <2> QED
    BY <1>1, <2>6, <2>7 DEF MovedOK
<1> QED
  BY <1>4, <1>5, <1>6, <1>9

\* Nothing is claimed by clone, hot, hog and shm, and they do not look at what they read.
LEMMA UnclaimedKeep ==
  ASSUME program \notin Claiming, program' = program
  PROVE  /\ ItemsOK'
         /\ program \notin Channel \cup Loads \cup {"verify", "map", "store", "load"}
         /\ Items' = Items /\ Items = Files
         /\ program # "shm" => ReadOK'
BY DEF ItemsOK, ReadOK, Claiming, Channel, Loads, Items

LEMMA CloneKeeps ==
  ASSUME WorkersCore, NEW w \in Worker,
         \/ Look(w) \/ CopyRange(w) \/ Copied(w)
         \/ Store(w) /\ result' = "none"
  PROVE  WorkersCore'
<1> USE DEF WorkersCore
<1>1. /\ program = "clone" /\ program' = program /\ pass' = pass /\ next' = next
      /\ failed' = failed /\ err' = err /\ errs' = errs /\ bad' = bad
      /\ read' = read /\ result' = result
  <2>1. pc[w] \in {"look", "copy", "store"} /\ result = "none"
    BY DEF Look, CopyRange, Copied, Store, At, Running
  <2>2. pc[w] = "look" => program = "clone"
    BY DEF Look, CopyRange, Copied, Store, At
  <2>3. program = "clone"
    BY <2>1, <2>2, WhereTheyAre
  <2> QED
    BY <2>1, <2>3 DEF Look, CopyRange, Copied, Store, reports, memory, history
<1>2. /\ program \notin Claiming /\ ItemsOK' /\ ReadOK' /\ Items' = Items /\ Items = Files
      /\ program \notin Channel \cup Loads \cup {"verify", "map", "store", "load", "hog"}
  BY <1>1, UnclaimedKeep DEF Claiming, Channel
<1>3. /\ item \in [Worker -> Nat] /\ part \in [Worker -> Nat] /\ moved \in Nat
      /\ pc \in [Worker -> PlacesOf(program)] /\ handled \in [0 .. Most(Files, Items) - 1 -> Nat]
      /\ first \in Failure \cup {None} /\ DOMAIN handled = 0 .. Most(Files, Items) - 1
      /\ err \in [Worker -> Failure \cup {None}] /\ w \in Nat
  BY SizesOK DEF WorkersOK, Worker
<1>4. {"look", "copy", "store", "done"} \subseteq PlacesOf(program)
  BY <1>1 DEF PlacesOf, Channel
<1>5. ASSUME NEW p \in {"look", "copy", "done"}, pc' = [pc EXCEPT ![w] = p],
             item' \in [Worker -> Nat], part' \in [Worker -> Nat],
             p = "copy" => item'[w] \in File,
             \A v \in Worker : v # w => item'[v] = item[v],
             moved' \in Nat, handled' \in [DOMAIN handled -> Nat], first' \in Failure \cup {None}
      PROVE  WorkersOK'
  <2>1. pc' \in [Worker -> PlacesOf(program')]
    BY <1>1, <1>3, <1>4, <1>5
  <2>2. \A v \in Worker : /\ pc'[v] \in {"send", "swap", "store"} => v # w /\ pc[v] = pc'[v]
                          /\ pc'[v] = "copy" => item'[v] \in File
    BY <1>3, <1>5 DEF WorkersOK
  <2> QED
    BY <1>1, <1>2, <1>3, <1>5, <2>1, <2>2 DEF WorkersOK
<1>6. CASE Look(w)
  <2>1. LookOn(w, first = None /\ ~expired, "copy")
        /\ moved' = moved /\ handled' = handled /\ first' = first
    BY <1>6 DEF Look, reports, history
  <2> DEFINE goOn == first = None /\ ~expired
  <2>2. \/ /\ item[w] < Files /\ item' = item /\ part' = [part EXCEPT ![w] = 0]
           /\ pc' = [pc EXCEPT ![w] = IF goOn THEN "copy" ELSE "done"]
        \/ pc' = [pc EXCEPT ![w] = "done"] /\ item' = item /\ part' = part
        \/ pc' = pc /\ item' = [item EXCEPT ![w] = w] /\ part' = part
    BY <2>1 DEF LookOn, Go
  <2>3. pc[w] = "look"
    BY <1>6 DEF Look, At
  <2>4. PICK p \in {"look", "copy", "done"} :
          pc' = [pc EXCEPT ![w] = p] /\ (p = "copy" => item' = item /\ item[w] < Files)
    <3>1. CASE /\ item[w] < Files /\ item' = item
               /\ pc' = [pc EXCEPT ![w] = IF goOn THEN "copy" ELSE "done"]
      BY <3>1
    <3>2. CASE pc' = [pc EXCEPT ![w] = "done"]
      BY <3>2
    <3>3. CASE pc' = pc
      <4>1. pc' = [pc EXCEPT ![w] = "look"]
        BY <1>3, <2>3, <3>3
      <4> QED
        BY <4>1
    <3> QED
      BY <2>2, <3>1, <3>2, <3>3
  <2>5. /\ item' \in [Worker -> Nat] /\ part' \in [Worker -> Nat]
        /\ \A v \in Worker : v # w => item'[v] = item[v]
    BY <1>3, <2>2
  <2>6. p = "copy" => item'[w] \in File
    BY <1>3, <2>4, SizesOK DEF File
  <2>7. WorkersOK'
    <3>1. handled' \in [DOMAIN handled -> Nat] /\ moved' \in Nat /\ first' \in Failure \cup {None}
      BY <1>3, <2>1
    <3> QED
      BY <1>5, <2>4, <2>5, <2>6, <3>1
  <2>8. FailuresOK'
    <3>1. \A v \in Worker : pc[v] = "store" => pc'[v] = "store"
      BY <1>3, <2>3, <2>4
    <3> QED
      BY <1>1, <1>2, <2>1, <3>1 DEF FailuresOK, Channel
  <2>9. MovedOK'
    <3>1. Handled' = Handled
      BY <2>1 DEF Handled
    <3> QED
      BY <1>1, <2>1, <3>1 DEF MovedOK
  <2> QED
    BY <1>2, <2>7, <2>8, <2>9
<1>7. CASE CopyRange(w)
  <2>1. PICK n \in 1 .. Size - part[w] : part' = [part EXCEPT ![w] = @ + n]
    BY <1>7 DEF CopyRange
  <2>2. /\ pc' = pc /\ item' = item /\ moved' = moved /\ handled' = handled /\ first' = first
        /\ pc[w] = "copy"
    BY <1>7 DEF CopyRange, At, reports, history
  <2>3. part' \in [Worker -> Nat]
    <3>1. n \in Nat /\ part[w] \in Nat
      BY <1>3, SizesOK
    <3> QED
      BY <1>3, <2>1, <3>1
  <2>4. WorkersOK'
    BY <1>1, <1>2, <2>2, <2>3 DEF WorkersOK
  <2>5. FailuresOK'
    BY <1>1, <2>2 DEF FailuresOK
  <2>6. MovedOK'
    <3>1. Handled' = Handled
      BY <2>2 DEF Handled
    <3> QED
      BY <1>1, <2>2, <3>1 DEF MovedOK
  <2> QED
    BY <1>2, <2>4, <2>5, <2>6
<1>8. CASE Copied(w)
  <2>1. /\ Handle(w) /\ moved' = moved + Size /\ item' = [item EXCEPT ![w] = @ + Jobs]
        /\ pc' = [pc EXCEPT ![w] = "look"] /\ part' = part /\ first' = first /\ pc[w] = "copy"
    BY <1>8 DEF Copied, At, Go, reports
  <2>2. item[w] \in File
    BY <2>1 DEF WorkersOK
  <2>3. item[w] \in DOMAIN handled
    BY <2>2, HandledItems
  <2>4. handled' \in [DOMAIN handled -> Nat] /\ Handled' = Handled + 1 /\ Handled \in Nat
    BY <2>1, <2>3, OneMoreHandled
  <2>5. /\ item' \in [Worker -> Nat] /\ \A v \in Worker : v # w => item'[v] = item[v]
        /\ moved' \in Nat
    BY <1>3, <2>1, SizesOK
  <2>6. WorkersOK'
    <3>1. part' \in [Worker -> Nat] /\ first' \in Failure \cup {None}
      BY <1>3, <2>1
    <3>2. "look" \in {"look", "copy", "done"} /\ "look" # "copy"
      OBVIOUS
    <3> QED
      BY <1>5, <2>1, <2>4, <2>5, <3>1, <3>2
  <2>7. FailuresOK'
    <3>1. \A v \in Worker : pc[v] = "store" => pc'[v] = "store"
      BY <1>3, <2>1
    <3> QED
      BY <1>1, <1>2, <2>1, <3>1 DEF FailuresOK
  <2>8. MovedOK'
    <3>1. moved = Size * Handled
      BY <1>1 DEF MovedOK
    <3>2. Size * (Handled + 1) = Size * Handled + Size
      BY <2>4, SizesOK
    <3> QED
      BY <1>1, <2>1, <2>4, <3>1, <3>2 DEF MovedOK
  <2> QED
    BY <1>2, <2>6, <2>7, <2>8
<1>9. CASE Store(w) /\ result' = "none"
  <2>1. /\ pc[w] = "store" /\ item' = item /\ part' = part /\ moved' = moved /\ handled' = handled
        /\ Into(w, TRUE, "done")
    BY <1>9 DEF Store, At, history
  <2>2. first' = err[w] /\ pc' = [pc EXCEPT ![w] = "done"]
    BY <1>9, <2>1 DEF Into, Go
  <2>3. err[w] \in Failure /\ first' # None
    BY <2>1, <2>2, NoneAssumption DEF WorkersOK
  <2>4. WorkersOK'
    <3>1. /\ item' \in [Worker -> Nat] /\ part' \in [Worker -> Nat] /\ moved' \in Nat
          /\ \A v \in Worker : v # w => item'[v] = item[v]
          /\ first' \in Failure \cup {None} /\ handled' \in [DOMAIN handled -> Nat]
          /\ "done" \in {"look", "copy", "done"} /\ "done" # "copy"
      BY <1>3, <2>1, <2>2, <2>3
    <3> QED
      BY <1>5, <2>2, <3>1
  <2>5. FailuresOK'
    BY <1>1, <1>2, <2>3 DEF FailuresOK
  <2>6. MovedOK'
    <3>1. Handled' = Handled
      BY <2>1 DEF Handled
    <3> QED
      BY <1>1, <2>1, <3>1 DEF MovedOK
  <2> QED
    BY <1>2, <2>4, <2>5, <2>6
<1> QED
  BY <1>6, <1>7, <1>8, <1>9

\* One worker, which takes one file, or one page, after another.
LEMMA LoneKeeps == ASSUME WorkersCore, HotPass \/ HogPass PROVE WorkersCore'
<1> USE DEF WorkersCore
<1>1. PICK over \in BOOLEAN, amounts \in {{0, Size}, {1}} :
        /\ PassOver(over, amounts) /\ program \in Lone
        /\ program = "hog" => amounts = {1} /\ (over <=> item[0] = Files)
  <2>1. ASSUME HotPass
        PROVE  PassOver(item[0] \in {0, Files}, {0, Size}) /\ program = "hot" /\ program \in Lone
    BY <2>1 DEF HotPass, Lone
  <2>2. ASSUME HogPass
        PROVE  PassOver(item[0] = Files, {1}) /\ program = "hog" /\ program \in Lone
    BY <2>2 DEF HogPass, Lone
  <2>3. (item[0] \in {0, Files}) \in BOOLEAN /\ (item[0] = Files) \in BOOLEAN
    OBVIOUS
  <2> QED
    BY <2>1, <2>2, <2>3
<1> DEFINE spot == item[0] % Files
<1>2. /\ result = "none" /\ pc[0] = "look"
      /\ program' = program /\ result' = result /\ pass' = pass /\ next' = next
      /\ part' = part /\ failed' = failed /\ err' = err /\ errs' = errs /\ first' = first
      /\ bad' = bad /\ read' = read
  BY <1>1 DEF PassOver, At, Running, reports, memory
<1>3. \/ /\ over /\ pc' = [pc EXCEPT ![0] = "done"]
         /\ item' = item /\ moved' = moved /\ handled' = handled
      \/ /\ handled' = [handled EXCEPT ![spot] = @ + 1] /\ \E n \in amounts : moved' = moved + n
         /\ item' = [item EXCEPT ![0] = spot + 1] /\ pc' = pc
  BY <1>1 DEF PassOver, Go
<1>4. /\ program \notin Claiming /\ program \in {"hot", "hog"} /\ ItemsOK' /\ ReadOK'
      /\ Items' = Items /\ Items = Files
  <2>1. program \notin Claiming /\ program \in {"hot", "hog"} /\ program # "shm"
    BY <1>1 DEF Lone, Claiming, Channel
  <2> QED
    BY <1>2, <2>1, UnclaimedKeep
<1>5. /\ item \in [Worker -> Nat] /\ moved \in Nat /\ 0 \in Worker /\ item[0] \in Nat
      /\ pc \in [Worker -> PlacesOf(program)] /\ handled \in [0 .. Files - 1 -> Nat]
      /\ Most(Files, Items) = Files
  <2>1. Most(Files, Items) = Files
    BY <1>4, SizesOK
  <2> QED
    BY <2>1, WorkersFinite DEF WorkersOK
<1>6. spot \in 0 .. Files - 1 /\ spot \in Nat
  <2>1. \A n \in Nat : n % Files \in 0 .. Files - 1
    BY SizesOK, Division
  <2>2. spot \in 0 .. Files - 1
    BY <1>5, <2>1
  <2> QED
    BY <2>2, SizesOK
<1>7. WorkersOK'
  <2>1. pc' \in [Worker -> PlacesOf(program')]
    <3>1. "done" \in PlacesOf(program)
      BY <1>4 DEF PlacesOf, Channel
    <3> QED
      BY <1>2, <1>3, <1>5, <3>1
  <2>2. item' \in [Worker -> Nat]
    <3>1. [item EXCEPT ![0] = spot + 1] \in [Worker -> Nat]
      <4> HIDE DEF spot
      <4> QED
        BY <1>5, <1>6
    <3> QED
      BY <1>3, <1>5, <3>1
  <2>3. handled' \in [0 .. Files - 1 -> Nat]
    <3>1. [handled EXCEPT ![spot] = @ + 1] \in [0 .. Files - 1 -> Nat]
      <4> HIDE DEF spot
      <4> QED
        BY <1>5, <1>6
    <3> QED
      BY <1>3, <1>5, <3>1
  <2>4. moved' \in Nat
    <3>1. \A n \in amounts : n \in Nat
      BY <1>1, SizesOK
    <3> QED
      BY <1>3, <1>5, <3>1
  <2>5. \A v \in Worker : pc'[v] \notin {"send", "swap", "store", "copy"}
    BY <1>2, <1>4, <2>1 DEF PlacesOf, Channel
  <2>6. handled' \in [0 .. Most(Files, Items') - 1 -> Nat]
    BY <1>4, <1>5, <2>3
  <2> QED
    BY <1>2, <2>1, <2>2, <2>4, <2>5, <2>6 DEF WorkersOK
<1>8. FailuresOK'
  BY <1>2, <1>4 DEF FailuresOK, Channel
<1>9. ASSUME program = "hog"
      PROVE  /\ \E k \in Nat : moved' = k * Files + item'[0]
             /\ item'[0] \in 0 .. Files
             /\ pc'[0] = "done" => item'[0] = Files
  <2>1. PICK k \in Nat : moved = k * Files + item[0]
    BY <1>9 DEF MovedOK
  <2>2. item[0] \in 0 .. Files
    BY <1>9 DEF MovedOK
  <2>3. CASE /\ over /\ pc' = [pc EXCEPT ![0] = "done"] /\ item' = item /\ moved' = moved
    BY <1>1, <1>9, <2>1, <2>2, <2>3
  <2>4. CASE /\ \E n \in amounts : moved' = moved + n
             /\ item' = [item EXCEPT ![0] = spot + 1] /\ pc' = pc
    <3>1. moved' = moved + 1 /\ item'[0] = spot + 1 /\ pc'[0] = "look"
      <4> HIDE DEF spot
      <4> QED
        BY <1>1, <1>2, <1>5, <1>9, <2>4
    <3>2. CASE item[0] = Files
      <4>1. spot = 0
        <5>1. (Files * 1 + 0) % Files = 0
          BY SizesOK, Digits
        <5> QED
          BY <3>2, <5>1, SizesOK
      <4>2. (k + 1) * Files = k * Files + Files /\ k + 1 \in Nat /\ k * Files \in Nat
        BY <2>1, SizesOK
      <4> HIDE DEF spot
      <4>3. moved' = (k + 1) * Files + item'[0] /\ item'[0] = 1
        BY <2>1, <3>1, <3>2, <4>1, <4>2, SizesOK
      <4>4. \E n \in Nat : moved' = n * Files + item'[0]
        BY <4>2, <4>3
      <4>5. item'[0] \in 0 .. Files /\ pc'[0] # "done"
        BY <3>1, <4>3, SizesOK
      <4> QED
        BY <4>4, <4>5
    <3>3. CASE item[0] # Files
      <4>1. item[0] \in 0 .. Files - 1
        BY <2>2, <3>3, SizesOK
      <4>2. spot = item[0]
        <5>1. (Files * 0 + item[0]) % Files = item[0]
          BY <4>1, SizesOK, Digits
        <5> QED
          BY <4>1, <5>1, SizesOK
      <4>3. k * Files \in Nat
        BY SizesOK
      <4> HIDE DEF spot
      <4>4. item'[0] = item[0] + 1 /\ item[0] \in Nat
        BY <1>5, <3>1, <4>2
      <4>5. moved' = k * Files + item'[0]
        BY <2>1, <3>1, <4>3, <4>4, SizesOK
      <4>6. item'[0] \in 0 .. Files /\ pc'[0] # "done"
        BY <3>1, <4>1, <4>4, SizesOK
      <4> QED
        BY <4>5, <4>6
    <3> QED
      BY <3>2, <3>3
  <2> QED
    BY <1>3, <2>3, <2>4
<1>10. MovedOK'
  BY <1>2, <1>4, <1>9 DEF MovedOK
<1> QED
  BY <1>4, <1>7, <1>8, <1>10

\* Memory is touched, and time goes by.
LEMMA TouchesKeep ==
  ASSUME WorkersCore, (\E w \in Worker : Touch(w)) \/ TouchAll \/ Expire
  PROVE  WorkersCore'
<1> USE DEF WorkersCore
<1>1. /\ program' = program /\ result' = result /\ pass' = pass /\ next' = next
      /\ item' = item /\ part' = part /\ failed' = failed /\ err' = err /\ errs' = errs
      /\ first' = first /\ bad' = bad /\ read' = read /\ moved' = moved /\ handled' = handled
      /\ Items' = Items /\ Handled' = Handled
  BY ItemsSame DEF Touch, TouchAll, Expire, control, reports, memory, history, Handled
<1>2. CASE \E w \in Worker : Touch(w)
  <2>1. PICK w \in Worker : Touch(w)
    BY <1>2
  <2>2. /\ program = "shm" /\ pc[w] = "look" /\ touched' = touched \cup Part(w, Jobs)
        /\ pc' = [pc EXCEPT ![w] = "done"]
    BY <2>1 DEF Touch, At, Go
  <2>3. pc' \in [Worker -> PlacesOf(program')]
    BY <1>1, <2>2 DEF WorkersOK, PlacesOf, Channel
  <2>4. \A v \in Worker : pc'[v] \notin {"send", "swap", "store", "copy"}
    BY <1>1, <2>2, <2>3 DEF PlacesOf, Channel
  <2>5. WorkersOK'
    BY <1>1, <2>3, <2>4 DEF WorkersOK
  <2>6. ItemsOK' /\ FailuresOK' /\ MovedOK'
    BY <1>1, <2>2 DEF ItemsOK, FailuresOK, MovedOK, Claiming, Channel
  <2>7. ReadOK'
    <3>1. \A v \in Worker : pc'[v] = "done" => v = w \/ pc[v] = "done"
      BY <2>2, <2>3 DEF WorkersOK
    <3>2. touched \subseteq 0 .. Arena - 1 /\ \A v \in Worker : pc[v] = "done" => Part(v, Jobs) \subseteq touched
      BY <2>2 DEF ReadOK
    <3>3. Part(w, Jobs) \subseteq 0 .. Arena - 1
      BY SizesOK, PartsCover DEF Worker
    <3> QED
      BY <1>1, <2>2, <3>1, <3>2, <3>3 DEF ReadOK, Loads
  <2> QED
    BY <2>5, <2>6, <2>7
<1>3. CASE TouchAll
  <2>1. program = "load" /\ touched' = TouchedBy(Most(Jobs \div 4, 1)) /\ pc' = pc
    BY <1>3 DEF TouchAll, control
  <2>2. touched' = 0 .. Arena - 1
    <3>1. Most(Jobs \div 4, 1) \in Nat \ {0}
      <4>1. Jobs \div 4 \in Nat
        BY SizesOK, Division
      <4> QED
        BY <4>1
    <3> DEFINE jobs == Most(Jobs \div 4, 1)
    <3> HIDE DEF jobs
    <3>2. TouchedBy(jobs) = 0 .. Arena - 1
      BY <3>1, PartsCover DEF TouchedBy, jobs
    <3> QED
      BY <2>1, <3>2 DEF jobs
  <2>3. UnderWay' = UnderWay
    BY <1>1, <2>1, UnderWaySame
  <2> QED
    BY <1>1, <2>1, <2>2, <2>3 DEF WorkersOK, ItemsOK, HasItem, FailuresOK, MovedOK, ReadOK
<1>4. CASE Expire
  <2>1. pc' = pc /\ touched' = touched
    BY <1>4 DEF Expire, control, memory
  <2>2. UnderWay' = UnderWay
    BY <1>1, <2>1, UnderWaySame
  <2> QED
    BY <1>1, <2>1, <2>2 DEF WorkersOK, ItemsOK, HasItem, FailuresOK, MovedOK, ReadOK
<1> QED
  BY <1>2, <1>3, <1>4

\* Who is done has left nothing, and what failed is known.
LEMMA AllDoneMeans ==
  ASSUME WorkersCore, AllDone
  PROVE  /\ 0 \in Worker /\ pc[0] = "done"
         /\ \A w \in Worker : pc[w] = "done" /\ ~HasItem(w)
         /\ ~KnownBad => errs = <<>> /\ failed = {}
         /\ ~KnownBad /\ program \in Claiming =>
              /\ \A i \in 0 .. Items - 1 : handled[i] = pass + 1
              /\ program # "read" => pass = 0
<1> USE DEF WorkersCore
<1>1. 0 \in Worker /\ pc[0] = "done" /\ \A w \in Worker : pc[w] = "done" /\ ~HasItem(w)
  BY WorkersFinite DEF AllDone, HasItem, InHand
<1>2. ASSUME ~KnownBad PROVE errs = <<>> /\ failed = {}
  <2>1. /\ errs = <<>> /\ ~(bad > 0) /\ (program = "clone" => first = None)
    BY <1>2 DEF KnownBad
  <2>2. ASSUME program = "verify" PROVE failed = {}
    <3>1. IsFiniteSet(failed) /\ bad = Cardinality(failed)
      BY <2>2 DEF FailuresOK
    <3>2. Cardinality(failed) = 0
      BY <2>1, <3>1, FS_CardinalityType
    <3> QED
      BY <3>1, <3>2, FS_EmptySet
  <2> QED
    BY <1>1, <2>1, <2>2 DEF FailuresOK
<1>3. ASSUME ~KnownBad, program \in Claiming
      PROVE  /\ \A i \in 0 .. Items - 1 : handled[i] = pass + 1
             /\ program # "read" => pass = 0
  <2>1. next >= Items /\ next \in Nat /\ Items \in Nat
    BY <1>1, <1>2, <1>3, ItemsNat DEF ItemsOK, WorkersOK
  <2> QED
    BY <1>1, <1>2, <1>3, <2>1 DEF ItemsOK
<1> QED
  BY <1>1, <1>2, <1>3

LEMMA NextPassKeeps == ASSUME WorkersCore, NextPass PROVE WorkersCore'
<1> USE DEF WorkersCore
<1>1. /\ program' = program /\ result' = result /\ pass' = pass + 1 /\ next' = 0
      /\ item' = item /\ part' = part /\ failed' = failed /\ err' = err /\ errs' = errs
      /\ first' = first /\ bad' = bad /\ read' = read /\ moved' = moved /\ handled' = handled
      /\ touched' = touched /\ program = "read" /\ AllDone /\ pass + 1 < Passes
      /\ pc' = Start /\ Items' = Items /\ errs = <<>>
  BY ItemsSame DEF NextPass, reports, memory, history
<1>2. program \in Claiming /\ program \in Channel /\ program # "clone" /\ bad = 0
  BY <1>1 DEF Claiming, Channel, FailuresOK
<1>3. ~KnownBad
  BY <1>1, <1>2 DEF KnownBad
<1>4. failed = {} /\ \A i \in 0 .. Items - 1 : handled[i] = pass + 1
  BY <1>1, <1>2, <1>3, AllDoneMeans
<1>5. pc' = [w \in Worker |-> "claim"]
  BY <1>1, <1>2 DEF Start
<1>6. WorkersOK'
  <2>1. pc' \in [Worker -> PlacesOf(program')]
    BY <1>1, <1>2, <1>5 DEF PlacesOf
  <2>2. pass' \in Nat /\ next' \in Nat
    BY <1>1 DEF WorkersOK
  <2> QED
    BY <1>1, <1>5, <2>1, <2>2 DEF WorkersOK
<1>7. ItemsOK'
  BY <1>1, <1>4, <1>5 DEF ItemsOK, HasItem, InHand
<1>8. FailuresOK'
  BY <1>1, <1>2, <1>4 DEF FailuresOK
<1>9. MovedOK' /\ ReadOK'
  BY <1>1 DEF MovedOK, ReadOK, Loads
<1> QED
  BY <1>6, <1>7, <1>8, <1>9

LEMMA InitWorkers == ASSUME Init PROVE WorkersInv
<1>1. /\ result = "none" /\ pass = 0 /\ next = 0 /\ pc = Start
      /\ item = [w \in Worker |-> w] /\ part = [w \in Worker |-> 0]
      /\ err = [w \in Worker |-> None] /\ errs = <<>> /\ first = None
      /\ bad = 0 /\ moved = 0 /\ touched = {} /\ read = {} /\ failed = {}
      /\ handled = [i \in 0 .. Most(Files, Items) - 1 |-> 0]
  BY DEF Init
<1>2. SaidTrue
  BY <1>1 DEF SaidTrue, NothingHidden, AllOnce
<1>3. /\ \A w \in Worker : pc[w] \in PlacesOf(program) /\ pc[w] \in {"claim", "look", "done"}
      /\ program \in Claiming => \A w \in Worker : pc[w] = "claim"
      /\ program = "shm" => \A w \in Worker : pc[w] = "look"
      /\ program \in Lone => pc[0] = "look"
  BY <1>1, WorkersFinite DEF Start, PlacesOf, Claiming, Channel, Lone
<1>4. WorkersOK
  <2>1. \A w \in Worker : w \in Nat
    BY DEF Worker
  <2>2. item \in [Worker -> Nat] /\ part \in [Worker -> Nat] /\ err \in [Worker -> Failure \cup {None}]
    BY <1>1, <2>1
  <2>3. pc \in [Worker -> PlacesOf(program)]
    BY <1>1, <1>3 DEF Start
  <2> QED
    BY <1>1, <1>3, <2>2, <2>3 DEF WorkersOK
<1>5. \A k \in 0 .. Items - 1 : handled[k] = 0 /\ ~(k < 0)
  <2>1. 0 .. Items - 1 \subseteq DOMAIN handled
    BY <1>4, HandledItems
  <2> QED
    BY <1>1, <2>1
<1>9. ItemsOK
  BY <1>1, <1>3, <1>5, SizesOK DEF ItemsOK, HasItem, InHand
<1>6. FailuresOK
  BY <1>1, FS_EmptySet DEF FailuresOK
<1>7. MovedOK
  <2>1. Handled = 0
    <3>1. IsFiniteSet(DOMAIN handled) /\ handled \in [DOMAIN handled -> Nat]
      BY <1>4, HandledItems
    <3>2. \A i \in DOMAIN handled : handled[i] = 0
      BY <1>1
    <3> QED
      BY <3>1, <3>2, TotalOfNone DEF Handled
  <2>2. program = "store" => Total(UnderWay) = 0
    <3>1. ASSUME program = "store" PROVE \A w \in Worker : UnderWay[w] = 0
      BY <1>3, <3>1 DEF UnderWay, Claiming, Channel
    <3> QED
      BY <1>4, <3>1, UnderWayNat, WorkersFinite, TotalOfNone
  <2>3. Up(Size, Chunk) \in Nat
    BY SizesOK, RoundedUp
  <2>4. Up(Size, Chunk) * Handled = 0 /\ Size * Handled = 0 /\ Chunk * 0 = 0
    BY <2>1, <2>3, SizesOK
  <2>5. program = "store" => \A w \in Worker : pc[w] # "work"
    BY <1>3
  <2>6. program = "store" /\ failed = {} => moved = Chunk * (Up(Size, Chunk) * Handled + Total(UnderWay))
    BY <1>1, <2>2, <2>4
  <2>7. ASSUME program = "hog"
        PROVE  /\ \E k \in Nat : moved = k * Files + item[0]
               /\ item[0] \in 0 .. Files /\ pc[0] # "done"
    <3>1. item[0] = 0 /\ pc[0] = "look"
      BY <1>1, <1>3, <2>7, WorkersFinite DEF Lone
    <3>2. moved = 0 * Files + item[0] /\ item[0] \in 0 .. Files
      BY <1>1, <3>1, SizesOK
    <3> QED
      BY <3>1, <3>2
  <2> QED
    BY <1>1, <2>4, <2>5, <2>6, <2>7 DEF MovedOK
<1>8. ReadOK
  <2>1. \A k \in 0 .. Items - 1 : ~(handled[k] > 0)
    BY <1>5
  <2>2. program = "shm" => \A w \in Worker : pc[w] # "done"
    BY <1>3
  <2> QED
    BY <1>1, <2>1, <2>2, FS_EmptySet DEF ReadOK
<1> QED
  BY <1>2, <1>4, <1>6, <1>9, <1>7, <1>8 DEF WorkersInv, WorkersCore

\* What a program prints in the end, and whether it fails.
LEMMA ReturnSaysTrue == ASSUME WorkersCore, Return PROVE SaidTrue' /\ result' # "none"
<1> USE DEF WorkersCore
<1>1. /\ program' = program /\ failed' = failed /\ bad' = bad /\ moved' = moved
      /\ handled' = handled /\ touched' = touched /\ read' = read /\ AllDone
      /\ Items' = Items
      /\ result' \in {"ok", "error"}
  <2>1. result' = (IF KnownBad THEN "error" ELSE "ok") \/ result' = "error"
    BY DEF Return, Wrong
  <2>2. program' = program
    BY DEF Return
  <2> QED
    BY <2>1, <2>2, ItemsSame DEF Return, reports, history
<1>2. /\ result' = "ok" => ~KnownBad
      /\ result' = "ok" /\ program = "read" => pass + 1 >= Passes
      /\ result' = "ok" /\ program \in {"shm"} \cup Loads => pinned' = UNION PinRanges
  <2>1. result' = "ok" => ~KnownBad
    BY DEF Return, Wrong
  <2>2. ~(program = "read" /\ ~KnownBad /\ pass + 1 < Passes) /\ pass \in Nat
    BY DEF Return, Wrong, WorkersOK
  <2> QED
    BY <2>1, <2>2, SizesOK DEF Return
<1>3. NothingHidden'
  <2>1. result' = "ok" => failed = {}
    BY <1>1, <1>2, AllDoneMeans
  <2>2. program = "verify" => bad = Cardinality(failed)
    BY DEF FailuresOK
  <2> QED
    BY <1>1, <2>1, <2>2 DEF NothingHidden
<1>4. ASSUME result' = "ok" PROVE AllOnce'
  <2>1. /\ errs = <<>> /\ failed = {} /\ pc[0] = "done" /\ 0 \in Worker
        /\ \A w \in Worker : pc[w] = "done"
        /\ program \in Claiming => \A i \in 0 .. Items - 1 : handled[i] = pass + 1
        /\ program \in Claiming /\ program # "read" => pass = 0
    BY <1>1, <1>2, <1>4, AllDoneMeans
  <2>2. ASSUME program \in Claiming, NEW i \in 0 .. Items - 1
        PROVE  handled[i] = IF program = "read" THEN Passes ELSE 1
    <3>1. CASE program = "read"
      <4>1. pass + 1 >= Passes /\ pass < Passes /\ pass \in Nat
        BY <1>2, <1>4, <2>2, <3>1 DEF ItemsOK, WorkersOK
      <4> QED
        BY <2>1, <2>2, <3>1, <4>1, SizesOK
    <3>2. CASE program # "read"
      BY <2>1, <2>2, <3>2
    <3> QED
      BY <3>1, <3>2
  <2>3. ASSUME program \in {"verify", "store"} PROVE Handled = Files
    <3>1. program \in Claiming /\ Items = Files /\ program # "read"
      BY <2>3 DEF Claiming, Channel, Items, Loads
    <3>2. /\ IsFiniteSet(DOMAIN handled) /\ handled \in [DOMAIN handled -> Nat]
          /\ DOMAIN handled = File
      BY <3>1, HandledItems
    <3>3. \A i \in DOMAIN handled : handled[i] = 1
      BY <2>2, <3>1, <3>2 DEF File
    <3>4. Cardinality(File) = Files
      BY SizesOK, FS_Interval DEF File
    <3> QED
      BY <3>2, <3>3, <3>4, TotalOfOnes DEF Handled
  <2>4. program = "verify" => moved = Files * Size
    <3>1. program = "verify" => moved = Size * Handled
      BY <2>1 DEF MovedOK
    <3> QED
      BY <2>3, <3>1, SizesOK
  <2>5. program = "store" => moved = Files * (Up(Size, Chunk) * Chunk)
    <3> DEFINE chunks == Up(Size, Chunk)
    <3>1. chunks \in Nat
      BY SizesOK, RoundedUp
    <3>2. program = "store" => moved = Chunk * (chunks * Handled + Total(UnderWay))
      BY <2>1 DEF MovedOK
    <3>3. Total(UnderWay) = 0
      <4>1. \A w \in Worker : UnderWay[w] = 0
        BY <2>1 DEF UnderWay
      <4> QED
        BY <4>1, UnderWayNat, WorkersFinite, TotalOfNone
    <3> HIDE DEF chunks
    <3>4. Chunk * (chunks * Files + 0) = Files * (chunks * Chunk)
      BY <3>1, SizesOK
    <3> QED
      BY <2>3, <3>2, <3>3, <3>4 DEF chunks
  <2>6. program = "clone" => moved = Size * Total(handled)
    BY DEF MovedOK, Handled
  <2>7. ASSUME program = "hog" PROVE moved % Files = 0 /\ moved >= Files
    <3>1. PICK k \in Nat : moved = k * Files + Files
      BY <2>1, <2>7 DEF MovedOK
    <3>2. moved = Files * (k + 1) + 0 /\ k + 1 \in Nat
      BY <3>1, SizesOK
    <3>3. moved % Files = 0
      <4>1. (Files * (k + 1) + 0) % Files = 0
        BY <3>2, SizesOK, Digits
      <4> QED
        BY <3>2, <4>1
    <3>4. k * Files \in Nat
      BY SizesOK
    <3> QED
      BY <3>1, <3>3, <3>4, SizesOK
  <2>8. program \in {"shm", "load"} => touched = 0 .. Arena - 1
    <3>1. program = "load" => touched = 0 .. Arena - 1
      BY <1>1 DEF ReadOK, Loads, AllDone
    <3>2. ASSUME program = "shm" PROVE touched = 0 .. Arena - 1
      <4>1. touched \subseteq 0 .. Arena - 1 /\ \A w \in Worker : Part(w, Jobs) \subseteq touched
        BY <2>1, <3>2 DEF ReadOK
      <4>2. UNION { Part(w, Jobs) : w \in Worker } = 0 .. Arena - 1
        BY SizesOK, PartsCover DEF Worker
      <4> QED
        BY <4>1, <4>2
    <3> QED
      BY <3>1, <3>2
  <2>9. program \in {"shm"} \cup Loads => pinned' = 0 .. Arena - 1
    BY <1>2, <1>4, RangesCover
  <2>10. ASSUME program = "map" PROVE File \X (0 .. Share - 1) \subseteq read
    <3>1. Items = MapItems /\ program \in Claiming /\ program # "read"
      BY <2>10 DEF Items, Claiming
    <3>2. \A k \in 0 .. MapItems - 1 : MapUnits(k) \subseteq read
      BY <2>2, <2>10, <3>1 DEF ReadOK
    <3> QED
      BY <3>2, MapUnit
  <2>11. ASSUME program \in Loads
         PROVE  /\ Cardinality(read) = moved
                /\ moved = Files * Size => read = File \X (0 .. Size - 1)
    <3>1. /\ IsFiniteSet(read) /\ Cardinality(read) = moved
          /\ \A u \in read : \E k \in 0 .. Items - 1 : u \in LoadUnits(k)
      BY <2>11 DEF ReadOK
    <3>2. Items = LoadItems
      BY <2>11 DEF Items, Loads
    <3>3. read \subseteq File \X (0 .. Size - 1)
      BY <3>1, <3>2, LoadUnit
    <3>4. /\ IsFiniteSet(File) /\ Cardinality(File) = Files
          /\ IsFiniteSet(0 .. Size - 1) /\ Cardinality(0 .. Size - 1) = Size
      <4>1. \A n \in Nat \ {0} : IsFiniteSet(0 .. n - 1) /\ Cardinality(0 .. n - 1) = n
        BY FS_Interval
      <4> QED
        BY <4>1, SizesOK DEF File
    <3>5. /\ IsFiniteSet(File \X (0 .. Size - 1))
          /\ Cardinality(File \X (0 .. Size - 1)) = Files * Size
      BY <3>4, FS_Product
    <3> QED
      BY <3>1, <3>3, <3>5, FS_Subset
  <2>12. (Items = Items') /\ (Total(handled)' = Total(handled))
    BY <1>1
  <2> QED
    BY <1>1, <2>2, <2>4, <2>5, <2>6, <2>7, <2>8, <2>9, <2>10, <2>11, <2>12 DEF AllOnce
<1>5. result' # "ok" => AllOnce'
  BY DEF AllOnce
<1> QED
  BY <1>1, <1>3, <1>4, <1>5 DEF SaidTrue

LEMMA WorkersStep == ASSUME WorkersInv, [Next]_vars PROVE WorkersInv'
<1>1. CASE UNCHANGED vars
  BY <1>1 DEF WorkersInv, SaidTrue, NothingHidden, AllOnce, Items, Running, WorkersCore,
              WorkersOK, ItemsOK, HasItem, FailuresOK, MovedOK, Handled, UnderWay, ReadOK,
              vars, control, reports, memory, history
<1>2. CASE Next
  <2>1. Running
    BY <1>2 DEF Next, Work, Main, Claim, WriteFile, ReadFile, CopySpan, ReadSpan, WriteChunk,
                CloseFile, Fails, Send, Verified, Differs, Swap, Look, CopyRange, OpenFails,
                CopyFails, Copied, Store, Touch, PrepareFails, HotPass, HogPass, PassOver,
                TouchAll, NextPass, Return, AllDone, Expire, At
  <2>2. WorkersCore
    BY <2>1 DEF WorkersInv
  <2>3. ASSUME WorkersCore', result' = "none" PROVE WorkersInv'
    BY <2>3, SaidWhile DEF WorkersInv
  <2>4. ASSUME result' = "panic" PROVE WorkersInv'
    BY <2>4, SaidWhile DEF WorkersInv, Running
  <2>5. ASSUME NEW w \in Worker, Work(w) PROVE WorkersInv'
    <3>1. CASE Claim(w)
      <4>1. result' = "none"
        BY <2>1, <3>1 DEF Claim, Running
      <4> QED
        BY <2>2, <2>3, <3>1, <4>1, ClaimKeeps
    <3>2. CASE \/ WriteFile(w) \/ ReadFile(w) \/ CopySpan(w) \/ ReadSpan(w) \/ CloseFile(w)
               \/ Verified(w)
      <4>1. result' = "none"
        BY <2>1, <3>2 DEF WriteFile, ReadFile, CopySpan, ReadSpan, CloseFile, Verified, Done, Running
      <4> QED
        BY <2>2, <2>3, <3>2, <4>1, DonesKeep
    <3>3. CASE Fails(w) \/ Differs(w) \/ OpenFails(w) \/ CopyFails(w)
      <4>1. result' = "none"
        BY <2>1, <3>3 DEF Fails, Differs, OpenFails, CopyFails, Reports, Running
      <4> QED
        BY <2>2, <2>3, <3>3, <4>1, ReportsKeep
    <3>4. CASE Send(w)
      <4>1. result' = "none"
        BY <2>1, <3>4 DEF Send, Running
      <4> QED
        BY <2>2, <2>3, <3>4, <4>1, SendKeeps
    <3>5. CASE Swap(w) \/ Store(w)
      <4>1. result' \in {"none", "panic"}
        BY <2>1, <3>5 DEF Swap, Store, Into, Running
      <4> QED
        BY <2>2, <2>3, <2>4, <3>5, <4>1, SwapKeeps, CloneKeeps
    <3>6. CASE WriteChunk(w)
      <4>1. result' = "none"
        BY <2>1, <3>6 DEF WriteChunk, Running
      <4> QED
        BY <2>2, <2>3, <3>6, <4>1, ChunkKeeps
    <3>7. CASE Look(w) \/ CopyRange(w) \/ Copied(w)
      <4>1. result' = "none"
        BY <2>1, <3>7 DEF Look, CopyRange, Copied, Running
      <4> QED
        BY <2>2, <2>3, <3>7, <4>1, CloneKeeps
    <3>8. CASE Touch(w)
      <4>1. result' = "none"
        BY <2>1, <3>8 DEF Touch, Running
      <4> QED
        BY <2>2, <2>3, <3>8, <4>1, TouchesKeep
    <3> QED
      BY <2>5, <3>1, <3>2, <3>3, <3>4, <3>5, <3>6, <3>7, <3>8 DEF Work
  <2>6. CASE PrepareFails
    <3>1. result' = "error" /\ program' = program /\ program # "verify"
      BY <2>6 DEF PrepareFails, Loads
    <3> QED
      BY <3>1 DEF WorkersInv, SaidTrue, NothingHidden, AllOnce, Running
  <2>7. CASE HotPass \/ HogPass
    <3>1. result' = "none"
      BY <2>1, <2>7 DEF HotPass, HogPass, PassOver, Running
    <3> QED
      BY <2>2, <2>3, <2>7, <3>1, LoneKeeps
  <2>8. CASE TouchAll \/ Expire
    <3>1. result' = "none"
      BY <2>1, <2>8 DEF TouchAll, Expire, control, Running
    <3> QED
      BY <2>2, <2>3, <2>8, <3>1, TouchesKeep
  <2>9. CASE NextPass
    <3>1. result' = "none"
      BY <2>1, <2>9 DEF NextPass, Running
    <3> QED
      BY <2>2, <2>3, <2>9, <3>1, NextPassKeeps
  <2>10. CASE Return
    BY <2>2, <2>10, ReturnSaysTrue DEF WorkersInv, Running
  <2> QED
    BY <1>2, <2>5, <2>6, <2>7, <2>8, <2>9, <2>10 DEF Next, Main
<1> QED
  BY <1>1, <1>2

\* What the loading and checking programs say in the end is so, whoever of their
\* goroutines fails or finishes first: no failure is lost on its way to main(), and a
\* program that ends well has done each item exactly once in a pass, all of them.
THEOREM ProgramsSayTrue == Spec => []SaidTrue
<1>1. Init => WorkersInv
  BY InitWorkers
<1>2. WorkersInv /\ [Next]_vars => WorkersInv'
  BY WorkersStep
<1>3. WorkersInv => SaidTrue
  BY DEF WorkersInv
<1> QED
  BY <1>1, <1>2, <1>3, PTL DEF Spec

HIDE DEF Least, Most

-----------------------------------------------------------------------------
(* The pages of files, of which PageFillProofs has the proofs. *)

FillProofs == INSTANCE PageFillProofs WITH cached <- resident, data <- bytes

\* What PageFillProofs is about is what the specification below composes.
LEMMA SameFill ==
  /\ FillProofs!Assumptions
  /\ Fill!Init <=> FillProofs!Init
  /\ [Fill!Next]_(Fill!vars) => [FillProofs!Next]_(FillProofs!vars)
  /\ FillProofs!IInv => PageShowsFile /\ BatchOfOneState
<1>1. FillProofs!Assumptions
  BY ProgramsAssumption
     DEF FillProofs!Assumptions, FillProofs!SizesAssumption, FillProofs!TasksAssumption,
         Fill!SizesAssumption, Fill!TasksAssumption
<1>2. Fill!Init <=> FillProofs!Init
  BY DEF Fill!Init, FillProofs!Init, Fill!Rest, FillProofs!Rest, Fill!Page,
         FillProofs!Page, Fill!Part, FillProofs!Part, Fill!Task, FillProofs!Task,
         Fill!Unfilled, FillProofs!Unfilled
<1>3. Fill!Next <=> FillProofs!Next
  BY DEF Fill!Next, FillProofs!Next, Fill!pageVars, FillProofs!pageVars, Fill!Page,
         FillProofs!Page, Fill!Part, FillProofs!Part, Fill!Place,
         FillProofs!Place, Fill!Task, FillProofs!Task,
         Fill!PlacesOf, FillProofs!PlacesOf, Fill!Rest, FillProofs!Rest, Fill!At,
         FillProofs!At, Fill!Go, FillProofs!Go, Fill!Contended, FillProofs!Contended,
         Fill!Enter, FillProofs!Enter, Fill!Exit, FillProofs!Exit, Fill!Unfilled,
         FillProofs!Unfilled, Fill!Current, FillProofs!Current, Fill!Free,
         FillProofs!Free, Fill!Locks, FillProofs!Locks, Fill!Unlocks,
         FillProofs!Unlocks, Fill!Removed, FillProofs!Removed, Fill!Filled,
         FillProofs!Filled, Fill!WillNeed, FillProofs!WillNeed, Fill!Batch,
         FillProofs!Batch, Fill!Tried, FillProofs!Tried, Fill!WaitRange,
         FillProofs!WaitRange, Fill!TryRange, FillProofs!TryRange, Fill!HeldPiece,
         FillProofs!HeldPiece, Fill!HoldPiece, FillProofs!HoldPiece, Fill!FillNext,
         FillProofs!FillNext, Fill!ExitRange, FillProofs!ExitRange, Fill!LeaveUntaken,
         FillProofs!LeaveUntaken, Fill!EndReadahead, FillProofs!EndReadahead,
         Fill!StartFault, FillProofs!StartFault, Fill!UnlockForRange,
         FillProofs!UnlockForRange, Fill!StartRead, FillProofs!StartRead,
         Fill!RangeForPage, FillProofs!RangeForPage, Fill!LockPage,
         FillProofs!LockPage, Fill!FillOne, FillProofs!FillOne, Fill!EndFill,
         FillProofs!EndFill, Fill!Drop, FillProofs!Drop, Fill!Runs, FillProofs!Runs,
         Fill!StartWrite, FillProofs!StartWrite, Fill!RangeForWrite,
         FillProofs!RangeForWrite, Fill!WriteFile, FillProofs!WriteFile, Fill!Whole,
         FillProofs!Whole, Fill!UpdatedPage, FillProofs!UpdatedPage, Fill!UpdatePage,
         FillProofs!UpdatePage, Fill!EndWrite, FillProofs!EndWrite, Fill!Reading,
         FillProofs!Reading, Fill!Filling, FillProofs!Filling, Fill!Writing,
         FillProofs!Writing
<1>4. [Fill!Next]_(Fill!vars) => [FillProofs!Next]_(FillProofs!vars)
  BY <1>3 DEF Fill!vars, FillProofs!vars, Fill!pageVars, FillProofs!pageVars
<1>5. FillProofs!IInv => PageShowsFile /\ BatchOfOneState
  <2>1. FillProofs!PageShowsFile => PageShowsFile
    BY DEF PageShowsFile, Fill!PageShowsFile, FillProofs!PageShowsFile, Fill!Part,
           FillProofs!Part
  <2>2. FillProofs!BatchOfOneState => BatchOfOneState
    BY DEF BatchOfOneState, Fill!BatchOfOneState, FillProofs!BatchOfOneState,
           Fill!Current, FillProofs!Current, Fill!Part, FillProofs!Part
  <2> QED
    BY <1>1, <2>1, <2>2, FillProofs!InvShown DEF FillProofs!IInv
<1> QED
  BY <1>1, <1>2, <1>4, <1>5

LEMMA FillKept == Fill!Spec => []FillProofs!IInv
<1>1. Fill!Init => FillProofs!IInv
  BY SameFill, FillProofs!InitOK
<1>2. FillProofs!IInv /\ [Fill!Next]_(Fill!vars) => FillProofs!IInv'
  BY SameFill, FillProofs!NextOK
<1> QED
  BY <1>1, <1>2, PTL DEF Fill!Spec

\* update_pages() and zfs_zero_partial_page() beside zfs_getpage(), mappedread() and
\* zpl_readahead(): a page that is up to date shows the file, but for places under the
\* range lock of a writer, and nowhere what the allocator left there.
THEOREM PagesShowTheFile == Fill!Spec => []PageShowsFile
BY FillKept, SameFill, PTL

\* zpl_readahead() under the range lock it tries for: the pages it has filled show
\* one state of the file for as long as it has not let go of the range.
THEOREM BatchesOfOneState == Fill!Spec => []BatchOfOneState
BY FillKept, SameFill, PTL

-----------------------------------------------------------------------------
(* The programs side by side: a behaviour is one of one of them, of which the
   others are still in a first state. *)

LEMMA StepOfOne ==
  ASSUME NextOfOne
  PROVE  /\ [Next]_vars
         /\ [Scan!Next]_(Scan!vars) /\ [Report!Next]_(Report!vars) /\ [Mmap!Next]_(Mmap!vars)
         /\ [Fill!Next]_(Fill!vars)
<1> USE DEF fillVars, Fill!vars, Fill!pageVars
<1>1. CASE Next /\ OnlyWorkers
  BY <1>1 DEF OnlyWorkers, scanVars, reportVars, mmapVars, Scan!vars, Report!vars,
              Report!guestVars, Report!hostVars, Mmap!vars, Mmap!program, Mmap!watch
<1>2. CASE OnlyScan /\ Scan!Next
  BY <1>2 DEF OnlyScan, reportVars, mmapVars, Report!vars, Report!guestVars,
              Report!hostVars, Mmap!vars, Mmap!program, Mmap!watch
<1>3. CASE OnlyReport /\ Report!Next
  BY <1>3 DEF OnlyReport, scanVars, mmapVars, Scan!vars, Mmap!vars, Mmap!program, Mmap!watch
<1>4. CASE OnlyMmap /\ Mmap!Next
  BY <1>4 DEF OnlyMmap, scanVars, reportVars, Scan!vars, Report!vars, Report!guestVars,
              Report!hostVars
<1>5. CASE OnlyFill /\ Fill!Next
  BY <1>5 DEF OnlyFill, scanVars, reportVars, mmapVars, Scan!vars, Report!vars,
              Report!guestVars, Report!hostVars, Mmap!vars, Mmap!program, Mmap!watch
<1>6. (Next /\ OnlyWorkers) \/ (OnlyScan /\ Scan!Next) \/ (OnlyReport /\ Report!Next)
        \/ (OnlyMmap /\ Mmap!Next) \/ (OnlyFill /\ Fill!Next)
  BY DEF NextOfOne, Next, Work, Main, Scan!Next, Scan!Work, Scan!Keys, Report!Next, Mmap!Next,
         Fill!Next, Fill!Reading, Fill!Filling, Fill!Writing
<1> QED
  BY <1>1, <1>2, <1>3, <1>4, <1>5, <1>6

\* Whichever of the programs runs, it keeps what it promises: no failure is left out,
\* each block shows its own pages, sweeps count as memory was where there is a
\* counter, hostages are drawn, a comparison measures as the machines did, verdicts
\* are those of the machines that were not saturated but for a named gate, faults of
\* mappings are told, and the pages that are read show the file. (main() of the
\* programs)
THEOREM ProgramsKept ==
  SpecOfOne => [](/\ SaidTrue /\ CountsOfTheirBlock /\ CountsAreCensus /\ HostagesSeen
                  /\ MeasuredAsDumped /\ JudgedFairly /\ ToldTrue
                  /\ PageShowsFile /\ BatchOfOneState)
<1> DEFINE Inv == /\ WorkersInv /\ ScanInv /\ ReportInv /\ JudgeInv /\ SweepInv /\ MmapInv
                  /\ FillProofs!IInv
           all == <<vars, scanVars, reportVars, mmapVars, fillVars, component>>
<1>1. InitOfOne => Inv
  BY InitWorkers, ScanInitOK, ReportInitOK, JudgeInitOK, SweepInitOK, MmapInitOK,
     SameFill, FillProofs!InitOK DEF InitOfOne
<1>2. ASSUME Inv, [NextOfOne]_all PROVE Inv'
  <2>1. /\ [Next]_vars
        /\ [Scan!Next]_(Scan!vars) /\ [Report!Next]_(Report!vars) /\ [Mmap!Next]_(Mmap!vars)
        /\ [Fill!Next]_(Fill!vars)
    <3>1. CASE UNCHANGED all
      BY <3>1 DEF scanVars, reportVars, mmapVars, Scan!vars, Report!vars, Report!guestVars,
                  Report!hostVars, Mmap!vars, Mmap!program, Mmap!watch, fillVars,
                  Fill!vars, Fill!pageVars
    <3> QED
      BY <1>2, <3>1, StepOfOne
  <2> QED
    BY <1>2, <2>1, WorkersStep, ScanStepOK, ReportStepOK, JudgeStepOK, SweepStepOK,
       MmapStepOK, SameFill, FillProofs!NextOK
<1>3. Inv => /\ SaidTrue /\ CountsOfTheirBlock /\ CountsAreCensus /\ HostagesSeen
             /\ MeasuredAsDumped /\ JudgedFairly /\ ToldTrue
             /\ PageShowsFile /\ BatchOfOneState
  BY SameFill, InvToldTrue, InvMeasured, InvJudged, InvCensus, InvHostages
     DEF WorkersInv, ScanInv, CountsOfTheirBlock
<1> HIDE DEF Inv
<1> QED
  BY <1>1, <1>2, <1>3, PTL DEF SpecOfOne
=============================================================================

--------------------------- MODULE PageFillProofs ---------------------------
(***************************************************************************)
(* Proofs about PageFill, for a file of any number of pages, each of any   *)
(* number of parts, and any number of tasks of each kind.                  *)
(***************************************************************************)
EXTENDS PageFill, TLAPS

Assumptions == SizesAssumption /\ TasksAssumption

Places == {"idle", "try", "hold", "fill", "exit", "leave", "unlock", "range", "page",
           "copy", "done", "wait", "write", "update"}

\* What TypeOK says a task is.
AtState ==
  [pc : Places, first : 0..Pages, off : 0..Pages, limit : 0..Pages, stop : 0..Pages,
   span : SUBSET Place, kind : {"none", "fault", "read", "write", "punch"},
   lost : BOOLEAN]

\* Pages a task has locked: all of a batch that are not taken yet; the page of a
\* fault until the range is waited for; the page being filled.
Held(u) ==
  IF u \in Ahead THEN IF At(u, "idle") THEN {} ELSE at[u].off..at[u].stop - 1
  ELSE IF u \in Filler /\ at[u].pc \in {"unlock", "copy"} THEN {at[u].off} ELSE {}

\* What a task has of the range lock, by where it is.
RangeOf(u) ==
  IF u \in Ahead THEN IF at[u].pc \in {"hold", "fill", "exit"} THEN Batch(u) ELSE {}
  ELSE IF u \in Filler
       THEN IF at[u].pc \in {"page", "copy", "done"} THEN PlacesOf({at[u].off}) ELSE {}
       ELSE IF at[u].pc \in {"write", "update"} THEN at[u].span ELSE {}

PlaceOK(u) ==
  /\ u \in Ahead =>
       /\ at[u].pc \in {"idle", "try", "hold", "fill", "exit", "leave"}
       /\ at[u].pc # "idle" => at[u].first <= at[u].off /\ at[u].off <= at[u].stop
       /\ at[u].pc \in {"try", "hold"} => at[u].off < at[u].stop
       /\ at[u].pc = "try" => at[u].off = at[u].first
       /\ at[u].pc = "fill" => at[u].off < at[u].limit /\ at[u].limit <= at[u].stop
  /\ u \in Filler =>
       /\ at[u].pc \in {"idle", "unlock", "range", "page", "copy", "done"}
       /\ at[u].pc # "idle" => at[u].off \in Page
  /\ u \in Writer =>
       /\ at[u].pc \in {"idle", "wait", "write", "update"}
       /\ at[u].pc \in {"wait", "write"} => at[u].off = 0

TaskOK(u) ==
  /\ PlaceOK(u) /\ range[u] = RangeOf(u)
  /\ \A p \in Held(u) : lock[p] = u /\ p \in cached \ uptodate

\* A writer has its places to itself.
RangesApart ==
  \A t, u \in Task : t # u /\ range[t] \cap range[u] # {} => t \notin Writer /\ u \notin Writer

\* What a page that is up to date does not show of the file, a writer has
\* written and comes to yet.
ChangesOwned ==
  \A p \in uptodate, x \in Part : data[p][x] # "file" =>
    /\ data[p][x] = "old"
    /\ \E t \in Writer : At(t, "update") /\ <<p, x>> \in at[t].span /\ at[t].off <= p

IInv ==
  /\ TypeOK /\ (\A u \in Task : TaskOK(u))
  /\ RangesApart /\ ChangesOwned /\ BatchOfOneState

-----------------------------------------------------------------------------
(* Types. *)

LEMMA AtTyped ==
  /\ TypeOK => at \in [Task -> AtState]
  /\ TypeOK' => at' \in [Task -> AtState]
BY DEF TypeOK, AtState, Places

LEMMA FieldsOf ==
  ASSUME NEW e \in AtState
  PROVE  /\ e.pc \in Places /\ e.first \in 0..Pages /\ e.off \in 0..Pages
         /\ e.limit \in 0..Pages /\ e.stop \in 0..Pages /\ e.span \in SUBSET Place
BY DEF AtState

LEMMA NewPlace ==
  ASSUME NEW e \in AtState, NEW pc \in Places
  PROVE  /\ [e EXCEPT !.pc = pc] \in AtState
         /\ [e EXCEPT !.pc = pc].pc = pc
         /\ [e EXCEPT !.pc = pc].first = e.first
         /\ [e EXCEPT !.pc = pc].off = e.off
         /\ [e EXCEPT !.pc = pc].limit = e.limit
         /\ [e EXCEPT !.pc = pc].stop = e.stop
         /\ [e EXCEPT !.pc = pc].span = e.span
BY DEF AtState

LEMMA RestIsState == Assumptions => Rest \in AtState
BY DEF Assumptions, SizesAssumption, Rest, AtState, Places

LEMMA CurrentTyped == Current \in [Part -> {"junk", "old", "file"}] /\ \A x \in Part : Current[x] = "file"
BY DEF Current

-----------------------------------------------------------------------------
(* What a step leaves alone. *)

\* Where a task is, but for whether its page was taken out of the cache.
Stays(u) ==
  /\ at'[u].pc = at[u].pc /\ at'[u].first = at[u].first /\ at'[u].off = at[u].off
  /\ at'[u].limit = at[u].limit /\ at'[u].stop = at[u].stop /\ at'[u].span = at[u].span

\* Pages somebody else has locked stay so, in the cache and unfilled.
LocksKept(u) ==
  \A p \in Page : lock[p] = u /\ p \in cached \ uptodate =>
                    lock'[p] = u /\ p \in cached' \ uptodate'

\* A page that is up to date after a step is as it was before it, or was filled.
PagesKept ==
  \A p \in uptodate' : data'[p] = Current \/ (p \in uptodate /\ data'[p] = data[p])

LEMMA HeldInFile ==
  ASSUME Assumptions, TypeOK, NEW u \in Task, PlaceOK(u)
  PROVE  Held(u) \subseteq Page
<1>1. at[u] \in AtState
  BY AtTyped
<1>2. at[u].off \in 0..Pages /\ at[u].stop \in 0..Pages /\ Pages \in Nat
  BY <1>1, FieldsOf DEF Assumptions, SizesAssumption
<1>3. CASE u \in Ahead
  BY <1>2, <1>3 DEF Held, Page
<1>4. CASE u \in Filler
  BY <1>4 DEF Held, PlaceOK, Page, Assumptions, TasksAssumption
<1>5. CASE u \in Writer
  BY <1>5 DEF Held, Assumptions, TasksAssumption
<1> QED
  BY <1>3, <1>4, <1>5 DEF Task

\* A task that stays where it is, with its places and its pages, is as it was.
LEMMA TaskKept ==
  ASSUME Assumptions, TypeOK, NEW u \in Task, TaskOK(u),
         Stays(u), range'[u] = range[u], LocksKept(u)
  PROVE  TaskOK(u)'
<1>1. PlaceOK(u)'
  BY DEF TaskOK, PlaceOK, Stays
<1>2. RangeOf(u)' = RangeOf(u)
  BY DEF RangeOf, Stays, Batch
<1>3. Held(u)' = Held(u)
  BY DEF Held, Stays, At
<1>4. \A p \in Held(u)' : lock'[p] = u /\ p \in cached' \ uptodate'
  BY <1>3, HeldInFile DEF TaskOK, LocksKept
<1> QED
  BY <1>1, <1>2, <1>4 DEF TaskOK

\* The places of the range lock stay apart if nobody takes some that are taken.
LEMMA ApartKept ==
  ASSUME TypeOK, RangesApart, NEW t \in Task, NEW places \in SUBSET Place,
         range' = [range EXCEPT ![t] = places],
         places \subseteq range[t] \/ ~Contended(t, places)
  PROVE  RangesApart'
<1>1. range'[t] = places /\ \A u \in Task : u # t => range'[u] = range[u]
  BY DEF TypeOK
<1> SUFFICES ASSUME NEW a \in Task, NEW b \in Task, a # b,
                    range'[a] \cap range'[b] # {}
             PROVE  a \notin Writer /\ b \notin Writer
  BY DEF RangesApart
<1>2. CASE places \subseteq range[t]
  <2>1. range'[a] \subseteq range[a] /\ range'[b] \subseteq range[b]
    BY <1>1, <1>2
  <2> QED
    BY <2>1 DEF RangesApart
<1>3. CASE ~Contended(t, places)
  <2>1. \A u \in Task \ {t} : range[u] \cap places # {} => t \notin Writer /\ u \notin Writer
    BY <1>3 DEF Contended
  <2>2. CASE a = t
    BY <1>1, <2>1, <2>2
  <2>3. CASE b = t
    BY <1>1, <2>1, <2>3
  <2>4. CASE a # t /\ b # t
    BY <1>1, <2>4 DEF RangesApart
  <2> QED
    BY <2>2, <2>3, <2>4
<1> QED
  BY <1>2, <1>3

\* What writers have still to bring up to date is theirs, if writers stay.
LEMMA ChangesKept ==
  ASSUME TypeOK, ChangesOwned, PagesKept,
         \A t \in Writer : Stays(t)
  PROVE  ChangesOwned'
<1> SUFFICES ASSUME NEW p \in uptodate', NEW x \in Part, data'[p][x] # "file"
             PROVE  /\ data'[p][x] = "old"
                    /\ \E t \in Writer : At(t, "update")' /\ <<p, x>> \in at'[t].span
                                         /\ at'[t].off <= p
  BY DEF ChangesOwned
<1>1. p \in uptodate /\ data'[p] = data[p]
  BY CurrentTyped DEF PagesKept
<1>2. /\ data[p][x] = "old"
      /\ \E t \in Writer : At(t, "update") /\ <<p, x>> \in at[t].span /\ at[t].off <= p
  BY <1>1 DEF ChangesOwned
<1> QED
  BY <1>1, <1>2 DEF Stays, At

BatchOK(t) ==
  at[t].pc \in {"hold", "fill", "exit"} =>
    \A p \in (at[t].first..at[t].off - 1) \cap uptodate : data[p] = Current

LEMMA BatchKept ==
  ASSUME NEW t, BatchOK(t), PagesKept, Stays(t)
  PROVE  BatchOK(t)'
BY DEF BatchOK, PagesKept, Stays, Current

LEMMA BatchesOK ==
  /\ BatchOfOneState <=> \A t \in Ahead : BatchOK(t)
  /\ BatchOfOneState' <=> \A t \in Ahead : BatchOK(t)'
BY DEF BatchOfOneState, BatchOK

PagesTyped ==
  /\ cached \subseteq Page /\ uptodate \subseteq cached
  /\ lock \in [Page -> Task \cup {None}]
  /\ data \in [Page -> [Part -> {"junk", "old", "file"}]]

LEMMA PagesSame ==
  ASSUME UNCHANGED pageVars
  PROVE  PagesKept /\ (PagesTyped => PagesTyped') /\ \A u \in Task : LocksKept(u)
BY DEF pageVars, PagesKept, PagesTyped, LocksKept

\* One task takes a step: it is enough to look at that task, and at pages.
LEMMA StepOK ==
  ASSUME Assumptions, IInv, NEW t \in Task, NEW e \in AtState, NEW places \in SUBSET Place,
         at' = [at EXCEPT ![t] = e],
         range' = [range EXCEPT ![t] = places],
         places \subseteq range[t] \/ ~Contended(t, places),
         PagesTyped', PagesKept, \A u \in Task \ {t} : LocksKept(u),
         TaskOK(t)',
         t \in Ahead => BatchOK(t)',
         t \in Writer => ChangesOwned'
  PROVE  IInv'
<1>1. at \in [Task -> AtState] /\ range \in [Task -> SUBSET Place]
  BY AtTyped DEF IInv, TypeOK
<1>2. /\ at' \in [Task -> AtState] /\ range' \in [Task -> SUBSET Place]
      /\ \A u \in Task \ {t} : Stays(u) /\ range'[u] = range[u]
  BY <1>1 DEF Stays
<1>3. TypeOK'
  BY <1>2 DEF PagesTyped, TypeOK, AtState, Places
<1>4. \A u \in Task : TaskOK(u)'
  <2> SUFFICES ASSUME NEW u \in Task, u # t PROVE TaskOK(u)'
    OBVIOUS
  <2> QED
    BY <1>2, TaskKept DEF IInv
<1>5. RangesApart'
  BY ApartKept DEF IInv
<1>6. ChangesOwned'
  <2>1. CASE t \notin Writer
    BY <1>2, <2>1, ChangesKept DEF IInv, Task
  <2> QED
    BY <2>1
<1>7. BatchOfOneState'
  <2> SUFFICES ASSUME NEW u \in Ahead, u # t PROVE BatchOK(u)'
    BY BatchesOK
  <2> QED
    BY <1>2, BatchKept, BatchesOK DEF IInv, Task
<1> QED
  BY <1>3, <1>4, <1>5, <1>6, <1>7 DEF IInv

LEMMA InitOK == Assumptions /\ Init => IInv
<1> SUFFICES ASSUME Assumptions, Init PROVE IInv
  OBVIOUS
<1>1. TypeOK
  BY RestIsState DEF Init, TypeOK, Unfilled, AtState, Places
<1>2. ASSUME NEW u \in Task PROVE TaskOK(u)
  <2>1. at[u] = Rest /\ range[u] = {}
    BY DEF Init
  <2>2. at[u].pc = "idle"
    BY <2>1 DEF Rest
  <2>3. PlaceOK(u)
    BY <2>2 DEF PlaceOK
  <2>4. Held(u) = {} /\ RangeOf(u) = {}
    BY <2>2 DEF Held, RangeOf, At
  <2> QED
    BY <2>1, <2>3, <2>4 DEF TaskOK
<1>3. RangesApart /\ ChangesOwned /\ BatchOfOneState
  BY <1>2 DEF Init, RangesApart, ChangesOwned, BatchOfOneState
<1> QED
  BY <1>1, <1>2, <1>3 DEF IInv

\* A task that only goes to another place.
LEMMA Goes ==
  ASSUME TypeOK, NEW t \in Task, NEW pc \in Places, Go(t, pc)
  PROVE  /\ [at[t] EXCEPT !.pc = pc] \in AtState
         /\ at' = [at EXCEPT ![t] = [at[t] EXCEPT !.pc = pc]]
         /\ at'[t] = [at[t] EXCEPT !.pc = pc]
         /\ at'[t].pc = pc
         /\ at'[t].first = at[t].first /\ at'[t].off = at[t].off
         /\ at'[t].limit = at[t].limit /\ at'[t].stop = at[t].stop
         /\ at'[t].span = at[t].span
<1>1. at \in [Task -> AtState] /\ at[t] \in AtState
  BY AtTyped
<1> QED
  BY <1>1, NewPlace DEF Go

\* The range lock as a step leaves it.
LEMMA Ranges ==
  ASSUME TypeOK, NEW t \in Task
  PROVE  /\ range[t] \in SUBSET Place
         /\ range' = range => range' = [range EXCEPT ![t] = range[t]]
         /\ \A places : Enter(t, places) => range' = [range EXCEPT ![t] = places]
                                            /\ range'[t] = places
         /\ Exit(t) => range' = [range EXCEPT ![t] = {}] /\ range'[t] = {}
BY DEF TypeOK, Enter, Exit

LEMMA PagesAreTyped == TypeOK => PagesTyped
BY DEF TypeOK, PagesTyped

-----------------------------------------------------------------------------
(* Readahead. *)

LEMMA WillNeedOK ==
  ASSUME Assumptions, IInv, NEW t \in Ahead, NEW from \in 0..Pages, NEW to \in 0..Pages,
         WillNeed(t, from, to)
  PROVE  IInv'
<1> DEFINE e == [Rest EXCEPT !.pc = "try", !.first = from, !.off = from, !.stop = to]
<1>1. e \in AtState /\ e.pc = "try" /\ e.first = from /\ e.off = from /\ e.stop = to
  BY RestIsState DEF AtState, Places
<1>2. at' = [at EXCEPT ![t] = e] /\ from < to
  BY DEF WillNeed
<1> HIDE DEF e
<1>3. t \in Task /\ TypeOK /\ TaskOK(t) /\ at[t].pc = "idle"
  BY DEF Task, IInv, WillNeed, At
<1>4. at'[t] = e
  BY <1>2, <1>3 DEF TypeOK
<1>5. from..to - 1 \subseteq Page
  BY DEF Page, Assumptions, SizesAssumption
<1>6. /\ cached' = cached \cup (from..to - 1) /\ uptodate' = uptodate /\ data' = data
      /\ lock' = [p \in Page |-> IF p \in from..to - 1 THEN t ELSE lock[p]]
      /\ range' = range /\ cached \cap (from..to - 1) = {}
  BY DEF WillNeed
<1>7. PagesTyped' /\ PagesKept
  BY <1>3, <1>5, <1>6 DEF TypeOK, PagesTyped, PagesKept
<1>8. \A u \in Task \ {t} : LocksKept(u)
  BY <1>6 DEF LocksKept
<1>9. TaskOK(t)'
  <2>1. range'[t] = {}
    BY <1>3, <1>6 DEF TaskOK, RangeOf
  <2>2. Held(t)' = from..to - 1 /\ RangeOf(t)' = {}
    BY <1>1, <1>4 DEF Held, RangeOf, At
  <2>3. PlaceOK(t)'
    BY <1>1, <1>2, <1>4 DEF PlaceOK, Assumptions, TasksAssumption
  <2>4. \A p \in from..to - 1 : p \in Page /\ p \notin uptodate
    BY <1>3, <1>5, <1>6 DEF TypeOK
  <2> QED
    BY <1>6, <2>1, <2>2, <2>3, <2>4 DEF TaskOK
<1>10. BatchOK(t)' /\ t \notin Writer
  BY <1>1, <1>4 DEF BatchOK, Assumptions, TasksAssumption
<1> QED
  BY <1>1, <1>2, <1>3, <1>6, <1>7, <1>8, <1>9, <1>10, StepOK, Ranges

LEMMA TryRangeOK ==
  ASSUME Assumptions, IInv, NEW t \in Ahead, TryRange(t)
  PROVE  IInv'
<1>1. t \in Task /\ TypeOK /\ TaskOK(t) /\ at[t].pc = "try"
  BY DEF Task, IInv, TryRange, Tried, At
<1>2. t \notin Writer /\ t \notin Filler
  BY DEF Assumptions, TasksAssumption
<1>3. UNCHANGED pageVars
  BY DEF TryRange, Tried
<1>4. PagesTyped' /\ PagesKept /\ \A u \in Task : LocksKept(u)
  BY <1>1, <1>3, PagesSame, PagesAreTyped
<1>5. at[t] \in AtState
  BY <1>1, AtTyped
<1>6. PlaceOK(t) /\ range[t] = {} /\ at[t].first = at[t].off /\ at[t].off < at[t].stop
  BY <1>1 DEF TaskOK, RangeOf, PlaceOK
<1>7. CASE Contended(t, Batch(t))
  <2>1. Go(t, "leave") /\ range' = range
    BY <1>7 DEF TryRange, Tried
  <2>2. "leave" \in Places
    BY DEF Places
  <2> DEFINE e == [at[t] EXCEPT !.pc = "leave"]
  <2>3. /\ e \in AtState /\ at' = [at EXCEPT ![t] = e] /\ at'[t].pc = "leave"
        /\ at'[t].first = at[t].first /\ at'[t].off = at[t].off /\ at'[t].stop = at[t].stop
    BY <1>1, <2>1, <2>2, Goes
  <2> HIDE DEF e
  <2>4. PlaceOK(t)'
    BY <1>2, <1>6, <1>5, <2>3, FieldsOf DEF PlaceOK
  <2>5. RangeOf(t)' = {} /\ Held(t)' = Held(t)
    BY <1>1, <2>3 DEF RangeOf, Held, At
  <2>6. TaskOK(t)'
    BY <1>1, <1>3, <1>6, <2>1, <2>4, <2>5 DEF TaskOK, pageVars
  <2>7. BatchOK(t)'
    BY <2>3 DEF BatchOK
  <2> QED
    BY <1>1, <1>2, <1>4, <2>1, <2>3, <2>6, <2>7, StepOK, Ranges
<1>8. CASE ~Contended(t, Batch(t))
  <2>1. Go(t, "hold") /\ Enter(t, Batch(t))
    BY <1>8 DEF TryRange, Tried
  <2>2. "hold" \in Places
    BY DEF Places
  <2> DEFINE e == [at[t] EXCEPT !.pc = "hold"]
  <2>3. /\ e \in AtState /\ at' = [at EXCEPT ![t] = e] /\ at'[t].pc = "hold"
        /\ at'[t].first = at[t].first /\ at'[t].off = at[t].off /\ at'[t].stop = at[t].stop
    BY <1>1, <2>1, <2>2, Goes
  <2> HIDE DEF e
  <2>4. PlaceOK(t)'
    BY <1>2, <1>6, <1>5, <2>3, FieldsOf DEF PlaceOK
  <2>5. RangeOf(t)' = Batch(t) /\ Held(t)' = Held(t)
    BY <1>1, <2>3 DEF RangeOf, Held, At, Batch
  <2>6. range' = [range EXCEPT ![t] = Batch(t)] /\ range'[t] = Batch(t)
    BY <1>1, <2>1, Ranges
  <2>7. TaskOK(t)'
    BY <1>1, <1>3, <2>4, <2>5, <2>6 DEF TaskOK, pageVars
  <2>8. BatchOK(t)'
    BY <1>5, <1>6, <2>3, FieldsOf DEF BatchOK
  <2>9. Batch(t) \in SUBSET Place
    <3>1. at[t].first..at[t].stop - 1 \subseteq Page
      BY <1>5, FieldsOf DEF Page, Assumptions, SizesAssumption
    <3> QED
      BY <3>1 DEF Batch, PlacesOf, Place
  <2> QED
    BY <1>1, <1>2, <1>4, <1>8, <2>3, <2>6, <2>7, <2>8, <2>9, StepOK
<1> QED
  BY <1>7, <1>8

\* A step that leaves every page as it is.
LEMMA QuietStep ==
  ASSUME Assumptions, IInv, NEW t \in Task, NEW e \in AtState, NEW places \in SUBSET Place,
         UNCHANGED pageVars,
         at' = [at EXCEPT ![t] = e],
         range' = [range EXCEPT ![t] = places],
         places \subseteq range[t] \/ ~Contended(t, places),
         PlaceOK(t)', RangeOf(t)' = places, Held(t)' \subseteq Held(t),
         t \in Ahead => BatchOK(t)',
         t \in Writer => ~At(t, "update") \/ at[t].off = Pages
  PROVE  IInv'
<1>1. TypeOK /\ TaskOK(t)
  BY DEF IInv
<1>2. PagesTyped' /\ PagesKept /\ \A u \in Task : LocksKept(u)
  BY <1>1, PagesSame, PagesAreTyped
<1>3. TaskOK(t)'
  <2>1. range'[t] = places
    BY <1>1 DEF TypeOK
  <2> QED
    BY <1>1, <2>1 DEF TaskOK, pageVars
<1>4. ASSUME t \in Writer PROVE ChangesOwned'
  <2> SUFFICES ASSUME NEW p \in uptodate', NEW x \in Part, data'[p][x] # "file"
               PROVE  /\ data'[p][x] = "old"
                      /\ \E u \in Writer : At(u, "update")' /\ <<p, x>> \in at'[u].span
                                           /\ at'[u].off <= p
    BY DEF ChangesOwned
  <2>1. /\ p \in uptodate /\ data'[p][x] = data[p][x] /\ p \in 0..Pages - 1
        /\ Pages \in Nat
    BY <1>1 DEF pageVars, TypeOK, Page, Assumptions, SizesAssumption
  <2>2. data[p][x] = "old"
    BY <2>1 DEF IInv, ChangesOwned
  <2>3. PICK u \in Writer : At(u, "update") /\ <<p, x>> \in at[u].span /\ at[u].off <= p
    BY <2>1 DEF IInv, ChangesOwned
  <2>4. u # t
    BY <1>4, <2>1, <2>3 DEF At
  <2>5. at'[u] = at[u]
    BY <2>4 DEF Task
  <2> QED
    BY <2>1, <2>2, <2>3, <2>5 DEF At
<1> QED
  BY <1>2, <1>3, <1>4, StepOK

LEMMA ReadaheadAt ==
  ASSUME Assumptions, IInv, NEW t \in Ahead
  PROVE  /\ t \in Task /\ t \notin Writer /\ t \notin Filler
         /\ TypeOK /\ TaskOK(t) /\ PlaceOK(t) /\ range[t] = RangeOf(t) /\ BatchOK(t)
         /\ at[t] \in AtState /\ range[t] \in SUBSET Place
         /\ at[t].first \in 0..Pages /\ at[t].off \in 0..Pages
         /\ at[t].limit \in 0..Pages /\ at[t].stop \in 0..Pages /\ Pages \in Nat
<1>1. t \in Task /\ t \notin Writer /\ t \notin Filler /\ Pages \in Nat
  BY DEF Task, Assumptions, TasksAssumption, SizesAssumption
<1>2. TypeOK /\ TaskOK(t) /\ PlaceOK(t) /\ range[t] = RangeOf(t) /\ BatchOK(t)
  BY <1>1, BatchesOK DEF IInv, TaskOK
<1>3. at[t] \in AtState
  BY <1>1, <1>2, AtTyped
<1>4. range[t] \in SUBSET Place
  BY <1>1, <1>2 DEF TypeOK
<1> QED
  BY <1>1, <1>2, <1>3, <1>4, FieldsOf

LEMMA HoldPieceOK ==
  ASSUME Assumptions, IInv, NEW t \in Ahead, NEW held \in BOOLEAN, HoldPiece(t, held)
  PROVE  IInv'
<1>1. at[t].pc = "hold" /\ at[t].off < at[t].stop /\ UNCHANGED <<pageVars, range>>
  BY DEF HoldPiece, HeldPiece, At
<1>2. at[t].first <= at[t].off /\ range[t] = Batch(t)
  BY <1>1, ReadaheadAt DEF PlaceOK, RangeOf
<1>3. CASE held
  <2>1. PICK limit : limit = IF at[t].off + Piece < at[t].stop
                             THEN at[t].off + Piece ELSE at[t].stop
    OBVIOUS
  <2>2. limit \in 0..Pages /\ at[t].off < limit /\ limit <= at[t].stop
    BY <1>1, <2>1, ReadaheadAt DEF Assumptions, SizesAssumption
  <2>3. PICK e : e = [at[t] EXCEPT !.pc = "fill", !.limit = limit]
    OBVIOUS
  <2>4. /\ e \in AtState /\ e.pc = "fill" /\ e.limit = limit
        /\ e.first = at[t].first /\ e.off = at[t].off /\ e.stop = at[t].stop
    BY <2>2, <2>3, ReadaheadAt DEF AtState, Places
  <2>5. at' = [at EXCEPT ![t] = e]
    BY <1>3, <2>1, <2>3 DEF HoldPiece, HeldPiece
  <2>6. at'[t] = e
    BY <2>5, ReadaheadAt DEF TypeOK
  <2>7. PlaceOK(t)'
    BY <1>2, <2>2, <2>4, <2>6, ReadaheadAt DEF PlaceOK
  <2>8. RangeOf(t)' = range[t] /\ Held(t)' = Held(t)
    BY <1>1, <1>2, <2>4, <2>6 DEF RangeOf, Held, At, Batch
  <2>9. BatchOK(t)'
    BY <1>1, <2>4, <2>6, ReadaheadAt DEF BatchOK, pageVars, Current
  <2> QED
    BY <1>1, <2>4, <2>5, <2>7, <2>8, <2>9, ReadaheadAt, Ranges, QuietStep
<1>4. CASE ~held
  <2>1. Go(t, "exit")
    BY <1>4 DEF HoldPiece, HeldPiece, Go
  <2>2. PICK e : e = [at[t] EXCEPT !.pc = "exit"]
    OBVIOUS
  <2>3. /\ e \in AtState /\ at' = [at EXCEPT ![t] = e] /\ at'[t].pc = "exit"
        /\ at'[t].first = at[t].first /\ at'[t].off = at[t].off /\ at'[t].stop = at[t].stop
    BY <2>1, <2>2, ReadaheadAt, Goes DEF Places
  <2>4. PlaceOK(t)'
    BY <1>1, <1>2, <2>3, ReadaheadAt DEF PlaceOK
  <2>5. RangeOf(t)' = range[t] /\ Held(t)' = Held(t)
    BY <1>1, <1>2, <2>3 DEF RangeOf, Held, At, Batch
  <2>6. BatchOK(t)'
    BY <1>1, <2>3, ReadaheadAt DEF BatchOK, pageVars, Current
  <2> QED
    BY <1>1, <2>3, <2>4, <2>5, <2>6, ReadaheadAt, Ranges, QuietStep
<1> QED
  BY <1>3, <1>4

LEMMA ExitRangeOK ==
  ASSUME Assumptions, IInv, NEW t \in Ahead, ExitRange(t)
  PROVE  IInv'
<1>1. at[t].pc = "exit" /\ UNCHANGED pageVars /\ Exit(t) /\ Go(t, "leave")
  BY DEF ExitRange, At
<1>2. PICK e : e = [at[t] EXCEPT !.pc = "leave"]
  OBVIOUS
<1>3. /\ e \in AtState /\ at' = [at EXCEPT ![t] = e] /\ at'[t].pc = "leave"
      /\ at'[t].first = at[t].first /\ at'[t].off = at[t].off /\ at'[t].stop = at[t].stop
  BY <1>1, <1>2, ReadaheadAt, Goes DEF Places
<1>4. PlaceOK(t)' /\ BatchOK(t)'
  BY <1>1, <1>3, ReadaheadAt DEF PlaceOK, BatchOK
<1>5. RangeOf(t)' = {} /\ Held(t)' = Held(t)
  BY <1>1, <1>3, ReadaheadAt DEF RangeOf, Held, At
<1>6. range' = [range EXCEPT ![t] = {}]
  BY <1>1 DEF Exit
<1> QED
  BY <1>1, <1>3, <1>4, <1>5, <1>6, ReadaheadAt, QuietStep

LEMMA EndReadaheadOK ==
  ASSUME Assumptions, IInv, NEW t \in Ahead, EndReadahead(t)
  PROVE  IInv'
<1>1. /\ at[t].pc = "leave" /\ UNCHANGED <<pageVars, range>>
      /\ at' = [at EXCEPT ![t] = Rest] /\ Rest \in AtState
  BY RestIsState DEF EndReadahead, At
<1>2. at'[t].pc = "idle"
  BY <1>1, ReadaheadAt DEF TypeOK, Rest
<1>3. PlaceOK(t)' /\ BatchOK(t)'
  BY <1>2, ReadaheadAt DEF PlaceOK, BatchOK
<1>4. RangeOf(t)' = {} /\ Held(t)' = {} /\ range[t] = {}
  BY <1>1, <1>2, ReadaheadAt DEF RangeOf, Held, At
<1> QED
  BY <1>1, <1>3, <1>4, ReadaheadAt, Ranges, QuietStep

\* A page is filled by the task that has it locked.
LEMMA FilledPage ==
  ASSUME Assumptions, TypeOK, NEW t \in Task, NEW p \in Page, lock[p] = t,
         p \in cached, Filled(p), cached' = cached
  PROVE  /\ PagesTyped' /\ PagesKept /\ \A u \in Task \ {t} : LocksKept(u)
         /\ uptodate' = uptodate \cup {p} /\ data'[p] = Current
         /\ \A q \in Page : q # p => data'[q] = data[q] /\ lock'[q] = lock[q]
<1>1. /\ data' = [data EXCEPT ![p] = Current] /\ uptodate' = uptodate \cup {p}
      /\ lock' = [lock EXCEPT ![p] = None]
  BY DEF Filled, Unlocks
<1>2. \A q \in Page : q # p => data'[q] = data[q] /\ lock'[q] = lock[q]
  BY <1>1 DEF TypeOK
<1>3. data'[p] = Current
  BY <1>1 DEF TypeOK
<1>4. PagesTyped'
  BY <1>1, CurrentTyped DEF TypeOK, PagesTyped
<1>5. PagesKept
  BY <1>1, <1>2, <1>3 DEF PagesKept, TypeOK
<1>6. \A u \in Task \ {t} : LocksKept(u)
  BY <1>1, <1>2 DEF LocksKept
<1> QED
  BY <1>1, <1>2, <1>3, <1>4, <1>5, <1>6

LEMMA FillNextOK ==
  ASSUME Assumptions, IInv, NEW t \in Ahead, FillNext(t)
  PROVE  IInv'
<1>1. at[t].pc = "fill" /\ range' = range /\ cached' = cached /\ Filled(at[t].off)
  BY DEF FillNext, At
<1>2. PICK p : p = at[t].off
  OBVIOUS
<1>3. /\ at[t].first <= p /\ p < at[t].limit /\ at[t].limit <= at[t].stop
      /\ range[t] = Batch(t) /\ p \in Page
  BY <1>1, <1>2, ReadaheadAt DEF PlaceOK, RangeOf, Page
<1>4. lock[p] = t /\ p \in cached \ uptodate
  BY <1>1, <1>2, <1>3, ReadaheadAt DEF TaskOK, Held, At
<1>5. /\ PagesTyped' /\ PagesKept /\ \A u \in Task \ {t} : LocksKept(u)
      /\ uptodate' = uptodate \cup {p} /\ data'[p] = Current
      /\ \A q \in Page : q # p => data'[q] = data[q] /\ lock'[q] = lock[q]
  BY <1>1, <1>2, <1>3, <1>4, ReadaheadAt, FilledPage
<1>6. PICK pc : pc = IF p + 1 < at[t].limit THEN "fill"
                     ELSE IF at[t].limit < at[t].stop THEN "hold" ELSE "exit"
  OBVIOUS
<1>7. PICK e : e = [at[t] EXCEPT !.off = p + 1, !.pc = pc]
  OBVIOUS
<1>8. /\ e \in AtState /\ e.pc = pc /\ e.off = p + 1 /\ e.first = at[t].first
      /\ e.limit = at[t].limit /\ e.stop = at[t].stop
  <2>1. p + 1 \in 0..Pages /\ pc \in Places
    BY <1>3, <1>6, ReadaheadAt DEF Places, Page
  <2> QED
    BY <1>7, <2>1, ReadaheadAt DEF AtState
<1>9. at' = [at EXCEPT ![t] = e]
  BY <1>2, <1>6, <1>7 DEF FillNext
<1>10. at'[t] = e
  BY <1>9, ReadaheadAt DEF TypeOK
<1>11. PlaceOK(t)'
  BY <1>3, <1>6, <1>8, <1>10, ReadaheadAt DEF PlaceOK, Page
<1>12. RangeOf(t)' = range[t] /\ Held(t)' = p + 1..at[t].stop - 1
  BY <1>3, <1>6, <1>8, <1>10, ReadaheadAt DEF RangeOf, Held, At, Batch
<1>13. \A q \in p + 1..at[t].stop - 1 : lock'[q] = t /\ q \in cached' \ uptodate'
  <2> SUFFICES ASSUME NEW q \in p + 1..at[t].stop - 1
               PROVE  lock'[q] = t /\ q \in cached' \ uptodate'
    OBVIOUS
  <2>1. q \in Page /\ q # p /\ q \in p..at[t].stop - 1
    BY <1>3, ReadaheadAt DEF Page
  <2>2. q \in Held(t)
    BY <1>1, <1>2, <2>1, ReadaheadAt DEF Held, At
  <2>3. lock[q] = t /\ q \in cached \ uptodate
    BY <2>2, ReadaheadAt DEF TaskOK
  <2> QED
    BY <1>1, <1>5, <2>1, <2>3
<1>14. TaskOK(t)'
  BY <1>1, <1>11, <1>12, <1>13 DEF TaskOK
<1>15. BatchOK(t)'
  <2> SUFFICES ASSUME NEW q \in (at[t].first..p) \cap uptodate', q # p
               PROVE  data'[q] = Current
    BY <1>3, <1>5, <1>8, <1>10, ReadaheadAt DEF BatchOK, Page, Current
  <2>1. q \in (at[t].first..p - 1) \cap uptodate /\ q \in Page
    BY <1>3, <1>5, ReadaheadAt DEF Page
  <2>2. data[q] = Current
    BY <1>1, <1>2, <2>1, ReadaheadAt DEF BatchOK
  <2> QED
    BY <1>5, <2>1, <2>2
<1> QED
  BY <1>1, <1>5, <1>8, <1>9, <1>14, <1>15, ReadaheadAt, Ranges, StepOK

LEMMA LeaveUntakenOK ==
  ASSUME Assumptions, IInv, NEW t \in Ahead, NEW keep \in BOOLEAN, LeaveUntaken(t, keep)
  PROVE  IInv'
<1>1. at[t].pc = "leave" /\ range' = range /\ at[t].off < at[t].stop
  BY DEF LeaveUntaken, At
<1>2. PICK p : p = at[t].off
  OBVIOUS
<1>3. at[t].first <= p /\ p < at[t].stop /\ range[t] = {} /\ p \in Page
  BY <1>1, <1>2, ReadaheadAt DEF PlaceOK, RangeOf, Page
<1>4. lock[p] = t /\ p \in cached \ uptodate
  BY <1>1, <1>2, <1>3, ReadaheadAt DEF TaskOK, Held, At
<1>5. /\ lock' = [lock EXCEPT ![p] = None]
      /\ keep => UNCHANGED <<cached, uptodate, data>>
      /\ ~keep => /\ cached' = cached \ {p} /\ uptodate' = uptodate \ {p}
                  /\ data' = [data EXCEPT ![p] = Unfilled]
  BY <1>2 DEF LeaveUntaken, Unlocks, Removed
<1>6. \A q \in Page : q # p => /\ data'[q] = data[q] /\ lock'[q] = lock[q]
                               /\ q \in cached' <=> q \in cached
                               /\ q \in uptodate' <=> q \in uptodate
  BY <1>3, <1>5, ReadaheadAt DEF TypeOK
<1>7. PagesTyped' /\ PagesKept
  <2>1. uptodate' \subseteq uptodate /\ p \notin uptodate'
    BY <1>4, <1>5
  <2>2. PagesKept
    BY <1>3, <1>6, <2>1, ReadaheadAt DEF PagesKept, TypeOK
  <2>3. PagesTyped'
    BY <1>3, <1>4, <1>5, ReadaheadAt DEF TypeOK, PagesTyped, Unfilled
  <2> QED
    BY <2>2, <2>3
<1>8. \A u \in Task \ {t} : LocksKept(u)
  BY <1>4, <1>6 DEF LocksKept
<1>9. PICK e : e = [at[t] EXCEPT !.off = p + 1]
  OBVIOUS
<1>10. /\ e \in AtState /\ e.pc = "leave" /\ e.off = p + 1 /\ e.first = at[t].first
       /\ e.stop = at[t].stop
  BY <1>1, <1>3, <1>9, ReadaheadAt DEF AtState, Page
<1>11. at' = [at EXCEPT ![t] = e]
  BY <1>2, <1>9 DEF LeaveUntaken
<1>12. at'[t] = e
  BY <1>11, ReadaheadAt DEF TypeOK
<1>13. PlaceOK(t)' /\ BatchOK(t)'
  BY <1>3, <1>10, <1>12, ReadaheadAt DEF PlaceOK, BatchOK, Page
<1>14. RangeOf(t)' = {} /\ Held(t)' = p + 1..at[t].stop - 1
  BY <1>10, <1>12, ReadaheadAt DEF RangeOf, Held, At
<1>15. \A q \in p + 1..at[t].stop - 1 : lock'[q] = t /\ q \in cached' \ uptodate'
  <2> SUFFICES ASSUME NEW q \in p + 1..at[t].stop - 1
               PROVE  lock'[q] = t /\ q \in cached' \ uptodate'
    OBVIOUS
  <2>1. q \in Page /\ q # p /\ q \in p..at[t].stop - 1
    BY <1>3, ReadaheadAt DEF Page
  <2>2. q \in Held(t)
    BY <1>1, <1>2, <2>1, ReadaheadAt DEF Held, At
  <2>3. lock[q] = t /\ q \in cached \ uptodate
    BY <2>2, ReadaheadAt DEF TaskOK
  <2> QED
    BY <1>6, <2>1, <2>3
<1>16. TaskOK(t)'
  BY <1>1, <1>3, <1>13, <1>14, <1>15 DEF TaskOK
<1> QED
  BY <1>1, <1>7, <1>8, <1>10, <1>11, <1>13, <1>16, ReadaheadAt, Ranges, StepOK

-----------------------------------------------------------------------------
(* One page at a time. *)

LEMMA FillerAt ==
  ASSUME Assumptions, IInv, NEW t \in Filler
  PROVE  /\ t \in Task /\ t \notin Writer /\ t \notin Ahead /\ t # None
         /\ TypeOK /\ TaskOK(t) /\ PlaceOK(t) /\ range[t] = RangeOf(t)
         /\ at[t] \in AtState /\ range[t] \in SUBSET Place
         /\ at[t].pc # "idle" => at[t].off \in Page
<1>1. t \in Task /\ t \notin Writer /\ t \notin Ahead /\ t # None
  BY DEF Task, Assumptions, TasksAssumption
<1>2. TypeOK /\ TaskOK(t) /\ PlaceOK(t) /\ range[t] = RangeOf(t)
  BY <1>1 DEF IInv, TaskOK
<1>3. at[t] \in AtState
  BY <1>1, <1>2, AtTyped
<1>4. range[t] \in SUBSET Place
  BY <1>1, <1>2 DEF TypeOK
<1> QED
  BY <1>1, <1>2, <1>3, <1>4 DEF PlaceOK

\* A page that is not locked is locked by a task, and perhaps put into the cache.
LEMMA LockedPage ==
  ASSUME Assumptions, TypeOK, NEW t \in Task, NEW p \in Page, Free(p), Locks(t, p),
         p \notin uptodate, cached' = cached \cup {p}, UNCHANGED <<uptodate, data>>
  PROVE  /\ PagesTyped' /\ PagesKept /\ \A u \in Task \ {t} : LocksKept(u)
         /\ lock'[p] = t /\ p \in cached' \ uptodate'
<1>1. lock' = [lock EXCEPT ![p] = t] /\ lock[p] = None
  BY DEF Locks, Free
<1>2. lock'[p] = t /\ \A q \in Page : q # p => lock'[q] = lock[q]
  BY <1>1 DEF TypeOK
<1>3. PagesTyped' /\ PagesKept
  BY <1>1 DEF TypeOK, PagesTyped, PagesKept
<1>4. ASSUME NEW u \in Task \ {t} PROVE LocksKept(u)
  <2>1. u # None
    BY DEF Task, Assumptions, TasksAssumption
  <2> QED
    BY <1>1, <1>2, <2>1 DEF LocksKept
<1> QED
  BY <1>2, <1>3, <1>4

LEMMA StartFaultOK ==
  ASSUME Assumptions, IInv, NEW t \in Filler, NEW p \in Page, StartFault(t, p)
  PROVE  IInv'
<1>1. /\ at[t].pc = "idle" /\ p \notin uptodate /\ Free(p) /\ Locks(t, p)
      /\ cached' = cached \cup {p} /\ range' = range /\ UNCHANGED <<uptodate, data>>
  BY DEF StartFault, At
<1>2. PICK e : e = [Rest EXCEPT !.pc = "unlock", !.off = p, !.kind = "fault"]
  OBVIOUS
<1>3. e \in AtState /\ e.pc = "unlock" /\ e.off = p /\ at' = [at EXCEPT ![t] = e]
  <2>1. p \in 0..Pages
    BY DEF Page, Assumptions, SizesAssumption
  <2>2. e \in AtState /\ e.pc = "unlock" /\ e.off = p
    BY <1>2, <2>1, RestIsState DEF AtState, Places
  <2> QED
    BY <1>2, <2>2 DEF StartFault
<1>4. at'[t] = e
  BY <1>3, FillerAt DEF TypeOK
<1>5. range[t] = {}
  BY <1>1, FillerAt DEF RangeOf
<1>6. /\ PagesTyped' /\ PagesKept /\ \A u \in Task \ {t} : LocksKept(u)
      /\ lock'[p] = t /\ p \in cached' \ uptodate'
  BY <1>1, FillerAt, LockedPage
<1>7. PlaceOK(t)'
  BY <1>3, <1>4, FillerAt DEF PlaceOK
<1>8. RangeOf(t)' = {} /\ Held(t)' = {p}
  BY <1>3, <1>4, FillerAt DEF RangeOf, Held
<1>9. TaskOK(t)'
  BY <1>1, <1>5, <1>6, <1>7, <1>8 DEF TaskOK
<1> QED
  BY <1>1, <1>3, <1>6, <1>9, FillerAt, Ranges, StepOK

LEMMA UnlockForRangeOK ==
  ASSUME Assumptions, IInv, NEW t \in Filler, UnlockForRange(t)
  PROVE  IInv'
<1>1. /\ at[t].pc = "unlock" /\ Go(t, "range") /\ lock' = [lock EXCEPT ![at[t].off] = None]
      /\ UNCHANGED <<cached, uptodate, data, range>>
  BY DEF UnlockForRange, At, Unlocks
<1>2. PICK e : e = [at[t] EXCEPT !.pc = "range"]
  OBVIOUS
<1>3. /\ e \in AtState /\ at' = [at EXCEPT ![t] = e] /\ at'[t].pc = "range"
      /\ at'[t].off = at[t].off
  BY <1>1, <1>2, FillerAt, Goes DEF Places
<1>4. range[t] = {} /\ lock[at[t].off] = t /\ at[t].off \in Page
  BY <1>1, FillerAt DEF RangeOf, Held, TaskOK
<1>5. PagesTyped' /\ PagesKept
  BY <1>1, FillerAt DEF TypeOK, PagesTyped, PagesKept
<1>6. \A u \in Task \ {t} : LocksKept(u)
  BY <1>1, <1>4, FillerAt DEF LocksKept, TypeOK
<1>7. PlaceOK(t)' /\ RangeOf(t)' = {} /\ Held(t)' = {}
  BY <1>3, <1>4, FillerAt DEF PlaceOK, RangeOf, Held
<1>8. TaskOK(t)'
  BY <1>1, <1>4, <1>7 DEF TaskOK
<1> QED
  BY <1>1, <1>3, <1>5, <1>6, <1>8, FillerAt, Ranges, StepOK

LEMMA StartReadOK ==
  ASSUME Assumptions, IInv, NEW t \in Filler, NEW p \in Page, StartRead(t, p)
  PROVE  IInv'
<1>1. at[t].pc = "idle" /\ UNCHANGED <<pageVars, range>>
  BY DEF StartRead, At
<1>2. PICK e : e = [Rest EXCEPT !.pc = "range", !.off = p, !.kind = "read"]
  OBVIOUS
<1>3. e \in AtState /\ e.pc = "range" /\ e.off = p /\ at' = [at EXCEPT ![t] = e]
  <2>1. p \in 0..Pages
    BY DEF Page, Assumptions, SizesAssumption
  <2>2. e \in AtState /\ e.pc = "range" /\ e.off = p
    BY <1>2, <2>1, RestIsState DEF AtState, Places
  <2> QED
    BY <1>2, <2>2 DEF StartRead
<1>4. at'[t] = e
  BY <1>3, FillerAt DEF TypeOK
<1>5. range[t] = {}
  BY <1>1, FillerAt DEF RangeOf
<1>6. PlaceOK(t)' /\ RangeOf(t)' = {} /\ Held(t)' = {}
  BY <1>3, <1>4, FillerAt DEF PlaceOK, RangeOf, Held
<1> QED
  BY <1>1, <1>3, <1>5, <1>6, FillerAt, Ranges, QuietStep

LEMMA RangeForPageOK ==
  ASSUME Assumptions, IInv, NEW t \in Filler, RangeForPage(t)
  PROVE  IInv'
<1>1. /\ at[t].pc = "range" /\ Go(t, "page") /\ UNCHANGED pageVars
  BY DEF RangeForPage, At
<1>2. PICK places : places = PlacesOf({at[t].off})
  OBVIOUS
<1>3. ~Contended(t, places) /\ range' = [range EXCEPT ![t] = places]
  BY <1>2 DEF RangeForPage, Enter
<1>4. PICK e : e = [at[t] EXCEPT !.pc = "page"]
  OBVIOUS
<1>5. /\ e \in AtState /\ at' = [at EXCEPT ![t] = e] /\ at'[t].pc = "page"
      /\ at'[t].off = at[t].off
  BY <1>1, <1>4, FillerAt, Goes DEF Places
<1>6. at[t].off \in Page /\ places \in SUBSET Place
  BY <1>1, <1>2, FillerAt DEF PlacesOf, Place
<1>7. PlaceOK(t)' /\ RangeOf(t)' = places /\ Held(t)' = {}
  BY <1>2, <1>5, <1>6, FillerAt DEF PlaceOK, RangeOf, Held
<1> QED
  BY <1>1, <1>3, <1>5, <1>6, <1>7, FillerAt, QuietStep

LEMMA LockPageOK ==
  ASSUME Assumptions, IInv, NEW t \in Filler, LockPage(t)
  PROVE  IInv'
<1>1. at[t].pc = "page" /\ UNCHANGED <<cached, uptodate, data, range>>
  BY DEF LockPage, At
<1>2. PICK p : p = at[t].off
  OBVIOUS
<1>3. p \in Page /\ range[t] = PlacesOf({p})
  BY <1>1, <1>2, FillerAt DEF RangeOf
<1>4. CASE Go(t, "done") /\ lock' = lock
  <2>1. PICK e : e = [at[t] EXCEPT !.pc = "done"]
    OBVIOUS
  <2>2. /\ e \in AtState /\ at' = [at EXCEPT ![t] = e] /\ at'[t].pc = "done"
        /\ at'[t].off = p
    BY <1>2, <1>4, <2>1, FillerAt, Goes DEF Places
  <2>3. PlaceOK(t)' /\ RangeOf(t)' = range[t] /\ Held(t)' = {}
    BY <1>3, <2>2, FillerAt DEF PlaceOK, RangeOf, Held, PlacesOf
  <2> QED
    BY <1>1, <1>4, <2>2, <2>3, FillerAt, Ranges, QuietStep DEF pageVars
<1>5. CASE Go(t, "copy") /\ Locks(t, p) /\ Free(p) /\ p \in cached /\ p \notin uptodate
  <2>1. PICK e : e = [at[t] EXCEPT !.pc = "copy"]
    OBVIOUS
  <2>2. /\ e \in AtState /\ at' = [at EXCEPT ![t] = e] /\ at'[t].pc = "copy"
        /\ at'[t].off = p
    BY <1>2, <1>5, <2>1, FillerAt, Goes DEF Places
  <2>3. /\ PagesTyped' /\ PagesKept /\ \A u \in Task \ {t} : LocksKept(u)
        /\ lock'[p] = t /\ p \in cached' \ uptodate'
    <3>1. cached' = cached \cup {p}
      BY <1>1, <1>5
    <3> QED
      BY <1>1, <1>3, <1>5, <3>1, FillerAt, LockedPage
  <2>4. PlaceOK(t)' /\ RangeOf(t)' = range[t] /\ Held(t)' = {p}
    BY <1>3, <2>2, FillerAt DEF PlaceOK, RangeOf, Held, PlacesOf
  <2>5. TaskOK(t)'
    BY <1>1, <2>3, <2>4 DEF TaskOK
  <2> QED
    BY <1>1, <2>2, <2>3, <2>5, FillerAt, Ranges, StepOK
<1> QED
  BY <1>2, <1>4, <1>5 DEF LockPage

LEMMA FillOneOK ==
  ASSUME Assumptions, IInv, NEW t \in Filler, FillOne(t)
  PROVE  IInv'
<1>1. /\ at[t].pc = "copy" /\ range' = range /\ cached' = cached
      /\ Filled(at[t].off) /\ Go(t, "done")
  BY DEF FillOne, At
<1>2. PICK p : p = at[t].off
  OBVIOUS
<1>3. /\ p \in Page /\ range[t] = PlacesOf({p}) /\ lock[p] = t /\ p \in cached
  BY <1>1, <1>2, FillerAt DEF RangeOf, Held, TaskOK
<1>4. PICK e : e = [at[t] EXCEPT !.pc = "done"]
  OBVIOUS
<1>5. /\ e \in AtState /\ at' = [at EXCEPT ![t] = e] /\ at'[t].pc = "done"
      /\ at'[t].off = p
  BY <1>1, <1>2, <1>4, FillerAt, Goes DEF Places
<1>6. PagesTyped' /\ PagesKept /\ \A u \in Task \ {t} : LocksKept(u)
  BY <1>1, <1>2, <1>3, FillerAt, FilledPage
<1>7. PlaceOK(t)' /\ RangeOf(t)' = range[t] /\ Held(t)' = {}
  BY <1>3, <1>5, FillerAt DEF PlaceOK, RangeOf, Held, PlacesOf
<1>8. TaskOK(t)'
  BY <1>1, <1>7 DEF TaskOK
<1> QED
  BY <1>1, <1>5, <1>6, <1>8, FillerAt, Ranges, StepOK

LEMMA EndFillOK ==
  ASSUME Assumptions, IInv, NEW t \in Filler, EndFill(t)
  PROVE  IInv'
<1>1. /\ UNCHANGED pageVars /\ range' = [range EXCEPT ![t] = {}]
      /\ at' = [at EXCEPT ![t] = Rest] /\ Rest \in AtState
  BY RestIsState DEF EndFill, Exit
<1>2. at'[t].pc = "idle"
  BY <1>1, FillerAt DEF TypeOK, Rest
<1>3. PlaceOK(t)' /\ RangeOf(t)' = {} /\ Held(t)' = {}
  BY <1>2, FillerAt DEF PlaceOK, RangeOf, Held
<1> QED
  BY <1>1, <1>3, FillerAt, QuietStep

LEMMA DropOK ==
  ASSUME Assumptions, IInv, NEW p \in Page, Drop(p)
  PROVE  IInv'
<1>1. /\ lock[p] = None /\ UNCHANGED <<lock, range, at>>
      /\ cached' = cached \ {p} /\ uptodate' = uptodate \ {p}
      /\ data' = [data EXCEPT ![p] = Unfilled]
  BY DEF Drop, Free, Removed
<1>2. TypeOK
  BY DEF IInv
<1>3. \A u \in Task : Stays(u) /\ range'[u] = range[u]
  BY <1>1 DEF Stays
<1>4. PagesKept
  BY <1>1, <1>2 DEF PagesKept, TypeOK
<1>5. ASSUME NEW u \in Task PROVE LocksKept(u)
  <2>1. u # None
    BY DEF Task, Assumptions, TasksAssumption
  <2> QED
    BY <1>1, <2>1 DEF LocksKept
<1>6. TypeOK'
  BY <1>1, <1>2 DEF TypeOK, Unfilled
<1>7. \A u \in Task : TaskOK(u)'
  BY <1>2, <1>3, <1>5, TaskKept DEF IInv
<1>8. RangesApart'
  BY <1>1 DEF IInv, RangesApart
<1>9. ChangesOwned'
  BY <1>2, <1>3, <1>4, ChangesKept DEF IInv, Task
<1>10. BatchOfOneState'
  BY <1>3, <1>4, BatchKept, BatchesOK DEF IInv, Task
<1> QED
  BY <1>6, <1>7, <1>8, <1>9, <1>10 DEF IInv

-----------------------------------------------------------------------------
(* Writers. *)

LEMMA WriterAt ==
  ASSUME Assumptions, IInv, NEW t \in Writer
  PROVE  /\ t \in Task /\ t \notin Ahead /\ t \notin Filler /\ t # None
         /\ TypeOK /\ TaskOK(t) /\ PlaceOK(t) /\ range[t] = RangeOf(t)
         /\ at[t] \in AtState /\ range[t] \in SUBSET Place /\ at[t].span \in SUBSET Place
         /\ at[t].off \in 0..Pages /\ Pages \in Nat
<1>1. t \in Task /\ t \notin Ahead /\ t \notin Filler /\ t # None /\ Pages \in Nat
  BY DEF Task, Assumptions, TasksAssumption, SizesAssumption
<1>2. TypeOK /\ TaskOK(t) /\ PlaceOK(t) /\ range[t] = RangeOf(t)
  BY <1>1 DEF IInv, TaskOK
<1>3. at[t] \in AtState
  BY <1>1, <1>2, AtTyped
<1>4. range[t] \in SUBSET Place
  BY <1>1, <1>2 DEF TypeOK
<1> QED
  BY <1>1, <1>2, <1>3, <1>4, FieldsOf

LEMMA StartWriteOK ==
  ASSUME Assumptions, IInv, NEW t \in Writer, NEW kind \in {"write", "punch"},
         NEW span \in Runs, StartWrite(t, kind, span)
  PROVE  IInv'
<1>1. at[t].pc = "idle" /\ UNCHANGED <<pageVars, range>>
  BY DEF StartWrite, At
<1>2. PICK e : e = [Rest EXCEPT !.pc = "wait", !.kind = kind, !.span = span]
  OBVIOUS
<1>3. /\ e \in AtState /\ e.pc = "wait" /\ e.off = 0 /\ e.span = span
      /\ at' = [at EXCEPT ![t] = e]
  <2>1. span \in SUBSET Place
    BY DEF Runs
  <2>2. e \in AtState /\ e.pc = "wait" /\ e.off = 0 /\ e.span = span
    BY <1>2, <2>1, RestIsState DEF AtState, Places, Rest
  <2> QED
    BY <1>2, <2>2 DEF StartWrite
<1>4. at'[t] = e
  BY <1>3, WriterAt DEF TypeOK
<1>5. range[t] = {}
  BY <1>1, WriterAt DEF RangeOf
<1>6. PlaceOK(t)' /\ RangeOf(t)' = {} /\ Held(t)' = {}
  BY <1>3, <1>4, WriterAt DEF PlaceOK, RangeOf, Held
<1> QED
  BY <1>1, <1>3, <1>5, <1>6, WriterAt, Ranges, QuietStep DEF At

LEMMA RangeForWriteOK ==
  ASSUME Assumptions, IInv, NEW t \in Writer, RangeForWrite(t)
  PROVE  IInv'
<1>1. /\ at[t].pc = "wait" /\ Go(t, "write") /\ UNCHANGED pageVars
      /\ ~Contended(t, at[t].span) /\ range' = [range EXCEPT ![t] = at[t].span]
  BY DEF RangeForWrite, At, Enter
<1>2. PICK e : e = [at[t] EXCEPT !.pc = "write"]
  OBVIOUS
<1>3. /\ e \in AtState /\ at' = [at EXCEPT ![t] = e] /\ at'[t].pc = "write"
      /\ at'[t].off = at[t].off /\ at'[t].span = at[t].span
  BY <1>1, <1>2, WriterAt, Goes DEF Places
<1>4. at[t].off = 0
  BY <1>1, WriterAt DEF PlaceOK
<1>5. PlaceOK(t)' /\ RangeOf(t)' = at[t].span /\ Held(t)' = {}
  BY <1>3, <1>4, WriterAt DEF PlaceOK, RangeOf, Held
<1> QED
  BY <1>1, <1>3, <1>5, WriterAt, QuietStep DEF At

LEMMA EndWriteOK ==
  ASSUME Assumptions, IInv, NEW t \in Writer, EndWrite(t)
  PROVE  IInv'
<1>1. /\ UNCHANGED pageVars /\ range' = [range EXCEPT ![t] = {}] /\ at[t].off = Pages
      /\ at' = [at EXCEPT ![t] = Rest] /\ Rest \in AtState
  BY RestIsState DEF EndWrite, Exit
<1>2. at'[t].pc = "idle"
  BY <1>1, WriterAt DEF TypeOK, Rest
<1>3. PlaceOK(t)' /\ RangeOf(t)' = {} /\ Held(t)' = {}
  BY <1>2, WriterAt DEF PlaceOK, RangeOf, Held
<1> QED
  BY <1>1, <1>3, WriterAt, QuietStep

\* A batch under the range lock is away from what a writer has of it.
LEMMA BatchIsApart ==
  ASSUME Assumptions, IInv, NEW t \in Writer, NEW u \in Ahead,
         at[u].pc \in {"hold", "fill", "exit"},
         NEW p \in at[u].first..at[u].off - 1, NEW x \in Part
  PROVE  <<p, x>> \notin range[t]
<1>1. p \in at[u].first..at[u].stop - 1
  BY ReadaheadAt DEF PlaceOK
<1>2. <<p, x>> \in range[u]
  BY <1>1, ReadaheadAt DEF RangeOf, Batch, PlacesOf
<1> QED
  BY <1>2, ReadaheadAt, WriterAt DEF IInv, RangesApart

LEMMA WriteFileOK ==
  ASSUME Assumptions, IInv, NEW t \in Writer, WriteFile(t)
  PROVE  IInv'
<1>1. at[t].pc = "write" /\ Go(t, "update") /\ UNCHANGED <<cached, uptodate, lock, range>>
  BY DEF WriteFile, At
<1>2. PICK e : e = [at[t] EXCEPT !.pc = "update"]
  OBVIOUS
<1>3. /\ e \in AtState /\ at' = [at EXCEPT ![t] = e] /\ at'[t].pc = "update"
      /\ at'[t].off = at[t].off /\ at'[t].span = at[t].span
  BY <1>1, <1>2, WriterAt, Goes DEF Places
<1>4. at[t].off = 0 /\ range[t] = at[t].span
  BY <1>1, WriterAt DEF PlaceOK, RangeOf
<1>5. at \in [Task -> AtState] /\ TypeOK
  BY AtTyped DEF IInv
<1>6. /\ at' \in [Task -> AtState]
      /\ \A u \in Task \ {t} : at'[u] = at[u] /\ Stays(u)
  BY <1>3, <1>5 DEF Stays
<1>7. /\ \A p \in Page, x \in Part : data'[p][x] =
           IF <<p, x>> \in at[t].span /\ data[p][x] = "file" THEN "old" ELSE data[p][x]
      /\ data' \in [Page -> [Part -> {"junk", "old", "file"}]]
  <2>1. data' = [p \in Page |-> [x \in Part |->
          IF <<p, x>> \in at[t].span /\ data[p][x] = "file" THEN "old" ELSE data[p][x]]]
    BY DEF WriteFile
  <2> QED
    BY <1>5, <2>1 DEF TypeOK
<1>8. TypeOK'
  BY <1>1, <1>5, <1>6, <1>7 DEF TypeOK, AtState, Places
<1>9. \A u \in Task : TaskOK(u)'
  <2>1. ASSUME NEW u \in Task \ {t} PROVE TaskOK(u)'
    BY <1>1, <1>5, <1>6, TaskKept DEF IInv, LocksKept
  <2>2. TaskOK(t)'
    <3>1. PlaceOK(t)' /\ RangeOf(t)' = range[t] /\ Held(t)' = {}
      BY <1>3, <1>4, WriterAt DEF PlaceOK, RangeOf, Held
    <3> QED
      BY <1>1, <3>1 DEF TaskOK
  <2> QED
    BY <2>1, <2>2
<1>10. RangesApart'
  BY <1>1 DEF IInv, RangesApart
<1>11. ChangesOwned'
  <2> SUFFICES ASSUME NEW p \in uptodate', NEW x \in Part, data'[p][x] # "file"
               PROVE  /\ data'[p][x] = "old"
                      /\ \E u \in Writer : At(u, "update")' /\ <<p, x>> \in at'[u].span
                                           /\ at'[u].off <= p
    BY DEF ChangesOwned
  <2>1. p \in uptodate /\ p \in Page /\ 0 <= p
    BY <1>1, <1>5 DEF TypeOK, Page
  <2>2. CASE data[p][x] = "file"
    BY <1>3, <1>4, <1>7, <2>1, <2>2 DEF At
  <2>3. CASE data[p][x] # "file"
    <3>1. data[p][x] = "old" /\ data'[p][x] = "old"
      BY <1>7, <2>1, <2>3 DEF IInv, ChangesOwned
    <3>2. PICK u \in Writer : At(u, "update") /\ <<p, x>> \in at[u].span /\ at[u].off <= p
      BY <2>1, <2>3 DEF IInv, ChangesOwned
    <3>3. u # t /\ at'[u] = at[u]
      BY <1>1, <1>6, <3>2, WriterAt DEF At
    <3> QED
      BY <3>1, <3>2, <3>3 DEF At
  <2> QED
    BY <2>2, <2>3
<1>12. BatchOfOneState'
  <2> SUFFICES ASSUME NEW u \in Ahead, at'[u].pc \in {"hold", "fill", "exit"},
                      NEW p \in (at'[u].first..at'[u].off - 1) \cap uptodate'
               PROVE  data'[p] = Current
    BY DEF BatchOfOneState, Current
  <2>1. at'[u] = at[u] /\ u \in Task
    BY <1>6, ReadaheadAt
  <2>2. p \in (at[u].first..at[u].off - 1) \cap uptodate /\ p \in Page
    BY <1>1, <1>5, <2>1 DEF TypeOK
  <2>3. data[p] = Current
    BY <2>1, <2>2, ReadaheadAt DEF BatchOK
  <2>4. \A x \in Part : data'[p][x] = "file"
    BY <1>4, <1>7, <2>1, <2>2, <2>3, BatchIsApart, CurrentTyped
  <2>5. data'[p] \in [Part -> {"junk", "old", "file"}]
    BY <1>7, <2>2
  <2> QED
    BY <2>4, <2>5 DEF Current
<1> QED
  BY <1>8, <1>9, <1>10, <1>11, <1>12 DEF IInv

\* What a writer may do to the page it has come to: bring it up to date or take it
\* out of the cache if nobody has it locked, or pass it by if it need not change.
LEMMA PageUpdated ==
  ASSUME Assumptions, IInv, NEW t \in Writer, NEW p \in Page,
         at[t].pc = "update", at[t].off = p,
         at' \in [Task -> AtState], \A u \in Task \ {t} : Stays(u),
         at'[t].pc = "update", at'[t].off = p + 1, at'[t].span = at[t].span,
         range' = range, lock' = lock, PagesTyped',
         uptodate' \subseteq uptodate,
         \A q \in Page : q # p => /\ q \in cached' <=> q \in cached
                                  /\ q \in uptodate' <=> q \in uptodate
                                  /\ data'[q] = data[q],
         Free(p) \/ UNCHANGED <<cached, uptodate>>,
         p \in uptodate' => \A x \in Part :
            /\ data'[p][x] = "file" \/ data'[p][x] = data[p][x]
            /\ <<p, x>> \in at[t].span => data'[p][x] = "file"
  PROVE  IInv'
<1>1. TypeOK'
  BY WriterAt DEF TypeOK, PagesTyped, AtState, Places
<1>2. \A u \in Task : TaskOK(u)'
  <2>1. ASSUME NEW u \in Task \ {t} PROVE TaskOK(u)'
    <3>1. LocksKept(u)
      <4>1. u # None
        BY DEF Task, Assumptions, TasksAssumption
      <4> QED
        BY <4>1 DEF LocksKept, Free
    <3> QED
      BY <3>1, WriterAt, TaskKept DEF IInv
  <2>2. PlaceOK(t)' /\ RangeOf(t)' = range[t] /\ Held(t)' = {}
    BY WriterAt DEF PlaceOK, RangeOf, Held
  <2>3. TaskOK(t)'
    BY <2>2 DEF TaskOK
  <2> QED
    BY <2>1, <2>3
<1>3. RangesApart'
  BY DEF IInv, RangesApart
<1>4. ChangesOwned'
  <2> SUFFICES ASSUME NEW q \in uptodate', NEW x \in Part, data'[q][x] # "file"
               PROVE  /\ data'[q][x] = "old"
                      /\ \E u \in Writer : At(u, "update")' /\ <<q, x>> \in at'[u].span
                                           /\ at'[u].off <= q
    BY DEF ChangesOwned
  <2>1. q \in uptodate /\ q \in Page /\ q \in Int /\ p \in Int
    BY WriterAt DEF TypeOK, Page
  <2>2. data'[q][x] = data[q][x] /\ (q = p => <<q, x>> \notin at[t].span)
    BY <2>1
  <2>3. data[q][x] = "old"
    BY <2>1, <2>2 DEF IInv, ChangesOwned
  <2>4. PICK u \in Writer : At(u, "update") /\ <<q, x>> \in at[u].span /\ at[u].off <= q
    BY <2>1, <2>2 DEF IInv, ChangesOwned
  <2>5. CASE u = t
    <3>1. q # p /\ p <= q
      BY <2>2, <2>4, <2>5
    <3>2. p + 1 <= q
      BY <2>1, <3>1
    <3> QED
      BY <2>2, <2>3, <2>4, <2>5, <3>2 DEF At
  <2>6. CASE u # t
    BY <2>2, <2>3, <2>4, <2>6 DEF At, Stays, Task
  <2> QED
    BY <2>5, <2>6
<1>5. BatchOfOneState'
  <2> SUFFICES ASSUME NEW u \in Ahead, at'[u].pc \in {"hold", "fill", "exit"},
                      NEW q \in (at'[u].first..at'[u].off - 1) \cap uptodate'
               PROVE  data'[q] = Current
    BY DEF BatchOfOneState, Current
  <2>1. Stays(u)
    BY ReadaheadAt, WriterAt
  <2>2. q \in (at[u].first..at[u].off - 1) \cap uptodate /\ q \in Page
    BY <2>1, WriterAt DEF Stays, TypeOK
  <2>3. data[q] = Current
    BY <2>1, <2>2, ReadaheadAt DEF BatchOK, Stays
  <2>4. CASE q # p
    BY <2>2, <2>3, <2>4
  <2>5. CASE q = p
    <3>1. \A x \in Part : data'[p][x] = "file"
      BY <2>3, <2>5, CurrentTyped
    <3>2. data'[p] \in [Part -> {"junk", "old", "file"}]
      BY DEF PagesTyped
    <3> QED
      BY <2>5, <3>1, <3>2 DEF Current
  <2> QED
    BY <2>4, <2>5
<1> QED
  BY <1>1, <1>2, <1>3, <1>4, <1>5 DEF IInv

LEMMA UpdatePageOK ==
  ASSUME Assumptions, IInv, NEW t \in Writer, UpdatePage(t)
  PROVE  IInv'
<1>1. /\ at[t].pc = "update" /\ at[t].off < Pages /\ range' = range /\ lock' = lock
  BY DEF UpdatePage, UpdatedPage, At
<1>2. PICK p : p = at[t].off
  OBVIOUS
<1>3. p \in Page /\ p + 1 \in 0..Pages /\ at \in [Task -> AtState]
  BY <1>1, <1>2, WriterAt, AtTyped DEF Page
<1>4. PICK e : e = [at[t] EXCEPT !.off = p + 1]
  OBVIOUS
<1>5. e \in AtState /\ e.pc = "update" /\ e.off = p + 1 /\ e.span = at[t].span
  BY <1>1, <1>3, <1>4, WriterAt DEF AtState
<1>6. ASSUME at' = [at EXCEPT ![t].off = @ + 1]
      PROVE  /\ at' \in [Task -> AtState] /\ at'[t] = e
             /\ \A u \in Task \ {t} : Stays(u)
  <2>1. at' = [at EXCEPT ![t] = e]
    BY <1>2, <1>4, <1>6
  <2> QED
    BY <1>3, <1>5, <2>1, WriterAt DEF Stays
<1>7. PICK touched : touched = { x \in Part : <<p, x>> \in at[t].span }
  OBVIOUS
<1>8. CASE touched = {} \/ p \notin cached
  <2>1. /\ at' = [at EXCEPT ![t].off = @ + 1]
        /\ UNCHANGED <<cached, uptodate, data>>
    BY <1>2, <1>7, <1>8 DEF UpdatePage, UpdatedPage
  <2>2. p \in uptodate => \A x \in Part : <<p, x>> \notin at[t].span
    BY <1>7, <1>8, WriterAt DEF TypeOK
  <2>3. PagesTyped'
    BY <1>1, <2>1, WriterAt DEF TypeOK, PagesTyped
  <2> QED
    BY <1>1, <1>2, <1>3, <1>5, <1>6, <2>1, <2>2, <2>3, PageUpdated
<1>9. CASE touched # {} /\ p \in cached /\ Whole(t, p)
  <2>1. /\ Free(p) /\ Removed(p)
        /\ at' = [u \in Task |->
             IF u = t THEN [at[u] EXCEPT !.off = @ + 1]
             ELSE IF u \in Filler /\ at[u].kind = "fault" /\ at[u].off = p
             THEN [at[u] EXCEPT !.lost = TRUE] ELSE at[u]]
    BY <1>2, <1>7, <1>9 DEF UpdatePage, UpdatedPage
  <2>2. at'[t] = e
    BY <1>2, <1>4, <2>1, WriterAt
  <2>3. ASSUME NEW u \in Task \ {t} PROVE at'[u] \in AtState /\ Stays(u)
    <3>1. at[u] \in AtState
      BY <1>3
    <3>2. at'[u] = at[u] \/ at'[u] = [at[u] EXCEPT !.lost = TRUE]
      BY <2>1
    <3> QED
      BY <3>1, <3>2 DEF AtState, Stays
  <2>4. at' \in [Task -> AtState]
    <3>1. \A u \in Task : at'[u] \in AtState
      BY <1>5, <2>2, <2>3
    <3> QED
      BY <2>1, <3>1
  <2>5. /\ cached' = cached \ {p} /\ uptodate' = uptodate \ {p}
        /\ data' = [data EXCEPT ![p] = Unfilled]
    BY <2>1 DEF Removed
  <2>6. PagesTyped'
    BY <1>1, <1>3, <2>5, WriterAt DEF TypeOK, PagesTyped, Unfilled
  <2>7. \A q \in Page : q # p => data'[q] = data[q]
    BY <2>5, WriterAt DEF TypeOK
  <2> QED
    BY <1>1, <1>2, <1>3, <1>5, <2>1, <2>2, <2>3, <2>4, <2>5, <2>6, <2>7, PageUpdated
<1>10. CASE touched # {} /\ p \in cached /\ ~Whole(t, p)
  <2>1. Free(p) /\ at' = [at EXCEPT ![t].off = @ + 1] /\ cached' = cached
    BY <1>2, <1>7, <1>10 DEF UpdatePage, UpdatedPage
  <2>2. CASE p \notin uptodate
    <3>1. UNCHANGED <<data, uptodate>>
      BY <1>2, <1>3, <1>7, <1>10, <2>2 DEF UpdatePage, UpdatedPage
    <3>2. PagesTyped'
      BY <1>1, <2>1, <3>1, WriterAt DEF TypeOK, PagesTyped
    <3> QED
      BY <1>1, <1>2, <1>3, <1>5, <1>6, <2>1, <2>2, <3>1, <3>2, PageUpdated
  <2>3. CASE p \in uptodate
    <3>1. /\ data' = [data EXCEPT ![p] = [x \in Part |-> IF x \in touched THEN "file" ELSE @[x]]]
          /\ uptodate' = uptodate \cup {p}
      BY <1>2, <1>7, <1>10, <2>3 DEF UpdatePage, UpdatedPage
    <3>2. /\ \A q \in Page : q # p => data'[q] = data[q]
          /\ data'[p] = [x \in Part |-> IF x \in touched THEN "file" ELSE data[p][x]]
      BY <1>3, <3>1, WriterAt DEF TypeOK
    <3>3. data'[p] \in [Part -> {"junk", "old", "file"}]
      BY <1>3, <3>2, WriterAt DEF TypeOK
    <3>4. PagesTyped'
      <4>1. data' = [data EXCEPT ![p] = data'[p]]
        BY <3>1, <3>2
      <4> QED
        BY <1>1, <1>3, <2>1, <2>3, <3>1, <3>3, <4>1, WriterAt DEF TypeOK, PagesTyped
    <3>5. uptodate' = uptodate
      BY <2>3, <3>1
    <3>6. \A x \in Part : /\ data'[p][x] = "file" \/ data'[p][x] = data[p][x]
                          /\ <<p, x>> \in at[t].span => data'[p][x] = "file"
      BY <1>7, <3>2
    <3> QED
      BY <1>1, <1>2, <1>3, <1>5, <1>6, <2>1, <3>2, <3>4, <3>5, <3>6, PageUpdated
  <2> QED
    BY <2>2, <2>3
<1> QED
  BY <1>8, <1>9, <1>10

-----------------------------------------------------------------------------
LEMMA NextOK == Assumptions /\ IInv /\ [Next]_vars => IInv'
<1> SUFFICES ASSUME Assumptions, IInv, [Next]_vars PROVE IInv'
  OBVIOUS
<1>1. ASSUME NEW t \in Ahead, Reading(t) PROVE IInv'
  BY <1>1, TryRangeOK, HoldPieceOK, FillNextOK, ExitRangeOK, LeaveUntakenOK,
     EndReadaheadOK DEF Reading
<1>2. ASSUME NEW t \in Filler, Filling(t) PROVE IInv'
  BY <1>2, UnlockForRangeOK, RangeForPageOK, LockPageOK, FillOneOK, EndFillOK DEF Filling
<1>3. ASSUME NEW t \in Writer, Writing(t) PROVE IInv'
  BY <1>3, RangeForWriteOK, WriteFileOK, UpdatePageOK, EndWriteOK DEF Writing
<1>4. CASE UNCHANGED vars
  <2>1. UNCHANGED <<cached, uptodate, lock, data, range, at>>
    BY <1>4 DEF vars, pageVars
  <2>2. TypeOK' /\ RangesApart' /\ ChangesOwned' /\ BatchOfOneState'
    BY <2>1 DEF IInv, TypeOK, RangesApart, ChangesOwned, BatchOfOneState, At, Current
  <2>3. ASSUME NEW u \in Task PROVE TaskOK(u)'
    BY <2>1, TaskKept DEF IInv, Stays, LocksKept
  <2> QED
    BY <2>2, <2>3 DEF IInv
<1> QED
  BY <1>1, <1>2, <1>3, <1>4, WillNeedOK, StartFaultOK, StartReadOK, StartWriteOK, DropOK
  DEF Next

LEMMA Inductive ==
  ASSUME Assumptions PROVE Spec => []IInv
<1>1. Init => IInv
  BY InitOK
<1>2. IInv /\ [Next]_vars => IInv'
  BY NextOK
<1> QED
  BY <1>1, <1>2, PTL DEF Spec

\* What a step finds of the page cache, of the range lock and of the tasks is what
\* zpl_readahead(), zfs_getpage(), mappedread() and update_pages() mean them to hold.
THEOREM FillTypeCorrect ==
  ASSUME Assumptions PROVE Spec => []TypeOK
<1>1. IInv => TypeOK
  BY DEF IInv
<1>2. Spec => []IInv
  BY Inductive
<1> QED
  BY <1>1, <1>2, PTL

\* A place that shows something else is one a writer has changed in the file and not
\* in the page cache yet, and shows what was there before.
LEMMA InvShown == Assumptions /\ IInv => PageShowsFile
<1> SUFFICES ASSUME Assumptions, IInv, NEW p \in uptodate, NEW x \in Part, data[p][x] # "file"
             PROVE  /\ \E t \in Writer : <<p, x>> \in range[t]
                    /\ data[p][x] # "junk"
  BY DEF PageShowsFile
<1>1. PICK t \in Writer : At(t, "update") /\ <<p, x>> \in at[t].span
  BY DEF IInv, ChangesOwned
<1>2. range[t] = at[t].span
  BY <1>1, WriterAt DEF RangeOf, At
<1>3. data[p][x] = "old"
  BY DEF IInv, ChangesOwned
<1> QED
  BY <1>1, <1>2, <1>3
=============================================================================

------------------------------ MODULE Workers ------------------------------
(***************************************************************************)
(* The programs that load a test machine and check what it kept: fragload  *)
(* (write, read, hot, clone), fragspike (store, its -mode write; map, shm, *)
(* load; direct, its load -direct) and fragcheck (verify, hog). All but    *)
(* hot and hog are pools of goroutines that share a counter, or divide the *)
(* work by their number, and tell the main goroutine what went wrong over  *)
(* a channel or in an atomic value of whose type the first error decides.  *)
(*                                                                         *)
(* Data is a number of units; where a program reads a part of a file, the  *)
(* units it has read are known.                                            *)
(***************************************************************************)
EXTENDS Integers, FiniteSets, SequencesExt

CONSTANTS
  Programs,   \* those that are run
  Jobs,       \* goroutines
  Files, Size, \* files, and units of one
  Passes,     \* of read
  Chunk, Span, Step, \* units store writes, map and load read at a time
  Share,      \* units of each file map is asked for
  Arena,      \* units of memory of shm and load, a page each
  PinPart,    \* units in one range that is pinned
  Rounds,     \* passes until a deadline, at most
  None

ASSUME SizeAssumption ==
  {Jobs, Files, Size, Passes, Chunk, Span, Step, Arena, PinPart, Rounds}
    \subseteq Nat \ {0}
ASSUME ShareAssumption == Share \in 0 .. Size

\* What a goroutine has to report: an error of one of four forms, and of what.
Failure == [kind : {"any", "wrapped", "text", "path"}, item : Nat]
ASSUME NoneAssumption == None \notin Failure

Worker == 0 .. Jobs - 1
File == 0 .. Files - 1

VARIABLES
  program, result, \* result: "none" while it runs
  pass, next,      \* of read; of the files or spans, those claimed
  pc, item, part,  \* of each worker: where it is, in what, and how far
  err,             \* what it has to report
  errs, first,     \* the channel; the atomic value
  bad, moved,      \* counters
  expired,         \* the deadline
  touched, pinned, \* memory
  handled, read, failed \* what was done, read and seen to fail (history)

control == <<program, result, pass, next, pc, item, part>>
reports == <<err, errs, first, bad>>
memory == <<touched, pinned>>
history == <<handled, read, failed>>
vars == <<control, reports, moved, expired, memory, history>>

Least(m, n) == IF m < n THEN m ELSE n
Most(m, n) == IF m < n THEN n ELSE m
Up(m, n) == (m + n - 1) \div n

Channel == {"write", "read", "store", "load", "direct"}
Claiming == Channel \cup {"verify", "map"}
Lone == {"hot", "hog"}
Loads == {"load", "direct"}

-----------------------------------------------------------------------------
(* What is divided among the workers. *)

Offsets(length, by) == { o \in 0 .. length - 1 : o % by = 0 }

\* mapRead(): the spans by offset, then by file. None goes past the end of a file.
MapItems == Up(Share, Span) * Files
MapUnits(k) ==
  LET off == (k \div Files) * Span
  IN { k % Files } \X (off .. Least(off + Span, Size) - 1)

\* load(): by file, then by offset. The k-th goes into the arena at k steps, from
\* whose end it starts again, and not past that end.
Steps == Up(Size, Step)
LoadItems == Files * Steps
LoadUnits(k) ==
  LET off == (k % Steps) * Step
      place == (k * Step) % Arena
      room == Least(place + Step, Arena) - place
  IN { k \div Steps } \X (off .. Least(off + room, Size) - 1)

Items == IF program = "map" THEN MapItems
         ELSE IF program \in Loads THEN LoadItems ELSE Files

\* touch(): memory by worker, in whole pages. Here a page is a unit, so the
\* rounding up is all that is left of it.
Part(w, jobs) ==
  LET per == Up(Arena, jobs) IN w * per .. Least(w * per + per, Arena) - 1
TouchedBy(jobs) == UNION { Part(w, jobs) : w \in 0 .. jobs - 1 }

\* pin(): ranges of at most so many units.
PinRanges ==
  { off .. off + Least(PinPart, Arena - off) - 1 : off \in Offsets(Arena, PinPart) }

-----------------------------------------------------------------------------
Running == result = "none"
At(w, p) == Running /\ pc[w] = p
Go(w, p) == pc' = [pc EXCEPT ![w] = p]
Handle(w) == handled' = [handled EXCEPT ![item[w]] = @ + 1]
SawFail(w) == failed' = failed \cup {item[w]}

Start == [w \in Worker |-> IF program \in Claiming THEN "claim"
                           ELSE IF program \in Lone /\ w # 0 THEN "done" ELSE "look"]

\* Directories, files and memory are prepared before the first worker starts.
PrepareFails ==
  /\ Running /\ pc = Start /\ next = 0 /\ pass = 0 /\ moved = 0 /\ touched = {}
  /\ program \in {"write", "store", "map", "shm", "hog"} \cup Loads
  /\ item = [w \in Worker |-> w]
  /\ result' = "error"
  /\ UNCHANGED <<program, pass, next, pc, item, part, reports, moved, expired, memory,
                 history>>

\* next.Add(1)
Claim(w) ==
  /\ At(w, "claim")
  /\ next' = next + 1
  /\ IF next < Items THEN /\ item' = [item EXCEPT ![w] = next]
                          /\ part' = [part EXCEPT ![w] = 0]
                          /\ Go(w, "work")
                     ELSE Go(w, "done") /\ UNCHANGED <<item, part>>
  /\ UNCHANGED <<program, result, pass, reports, moved, expired, memory, history>>

Done(w, amount, units) ==
  /\ Handle(w) /\ moved' = moved + amount /\ read' = read \cup units
  /\ Go(w, "claim")
  /\ UNCHANGED <<program, result, pass, next, item, part, reports, expired, memory, failed>>

\* What a read of an open file says is not looked at but for its length.
WriteFile(w) == program = "write" /\ At(w, "work") /\ Done(w, 0, {})
ReadFile(w) == program = "read" /\ At(w, "work") /\ \E n \in {0, Size} : Done(w, n, {})
CopySpan(w) == /\ program = "map" /\ At(w, "work")
               /\ Done(w, Cardinality(MapUnits(item[w])), MapUnits(item[w]))
ReadSpan(w) ==
  /\ program \in Loads /\ At(w, "work")
  /\ \E short \in BOOLEAN :
       LET all == LoadUnits(item[w])
           units == IF short THEN { u \in all : \A v \in all : u[2] <= v[2] } ELSE all
       IN Done(w, Cardinality(units), units)

\* store: chunk by chunk, then the file is closed.
WriteChunk(w) ==
  /\ program = "store" /\ At(w, "work") /\ part[w] * Chunk < Size
  /\ part' = [part EXCEPT ![w] = @ + 1]
  /\ moved' = moved + Chunk
  /\ UNCHANGED <<program, result, pass, next, pc, item, reports, expired, memory, history>>
CloseFile(w) ==
  program = "store" /\ At(w, "work") /\ part[w] * Chunk >= Size /\ Done(w, 0, {})

Reports(w, kind, p) ==
  /\ err' = [err EXCEPT ![w] = [kind |-> kind, item |-> item[w]]]
  /\ SawFail(w) /\ Go(w, p)
  /\ UNCHANGED <<program, result, pass, next, item, part, errs, first, expired, memory,
                 handled, read>>

Fails(w) == /\ program \in Channel /\ At(w, "work")
            /\ Reports(w, "any", "send") /\ UNCHANGED <<bad, moved>>

\* Variant of the next definition: room for one error.
CapacityOne == 1
Capacity == Jobs

Send(w) ==
  /\ At(w, "send") /\ Len(errs) < Capacity
  /\ errs' = Append(errs, err[w])
  /\ Go(w, "done")
  /\ UNCHANGED <<program, result, pass, next, item, part, err, first, bad, moved, expired,
                 memory, history>>

-----------------------------------------------------------------------------
(* verify(): it goes on after a file that is not what it should be. *)

\* An atomic.Value takes values of one type. It keeps the first one if it is
\* swapped for nil, the last one if it is stored.
Into(w, stored, p) ==
  IF first # None /\ first.kind # err[w].kind
  THEN result' = "panic" /\ UNCHANGED <<first, pc>>
  ELSE /\ first' = IF first = None \/ stored THEN err[w] ELSE first
       /\ Go(w, p) /\ UNCHANGED result

Verified(w) == program = "verify" /\ At(w, "work") /\ Done(w, Size, {})
Differs(w) ==
  /\ program = "verify" /\ At(w, "work")
  /\ bad' = bad + 1
  /\ \/ Reports(w, "wrapped", "swap") /\ UNCHANGED moved
     \/ \E n \in {0, Size} : Reports(w, "text", "swap") /\ moved' = moved + n
Swap(w) ==
  /\ At(w, "swap")
  /\ Into(w, FALSE, "claim")
  /\ Handle(w)
  /\ UNCHANGED <<program, pass, next, item, part, err, errs, bad, moved, expired, memory,
                 read, failed>>

-----------------------------------------------------------------------------
(* clone(): worker w takes the files w, w + Jobs, ... again and again until the
   deadline or the first error. *)

LookOn(w, goOn, then) ==
  IF item[w] < Files
  THEN /\ goOn => handled[item[w]] < Rounds
       /\ part' = [part EXCEPT ![w] = 0]
       /\ Go(w, IF goOn THEN then ELSE "done") /\ UNCHANGED item
  ELSE IF expired THEN Go(w, "done") /\ UNCHANGED <<item, part>>
  ELSE item' = [item EXCEPT ![w] = w] /\ UNCHANGED <<pc, part>>

Look(w) ==
  /\ program = "clone" /\ At(w, "look")
  /\ LookOn(w, first = None /\ ~expired, "copy")
  /\ UNCHANGED <<program, result, pass, next, reports, moved, expired, memory, history>>

\* copy_file_range() copies what it likes.
CopyRange(w) ==
  /\ At(w, "copy")
  /\ \E n \in 1 .. Size - part[w] : part' = [part EXCEPT ![w] = @ + n]
  /\ UNCHANGED <<program, result, pass, next, pc, item, reports, moved, expired, memory,
                 history>>
OpenFails(w) == At(w, "copy") /\ part[w] = 0 /\ Reports(w, "path", "store")
                  /\ UNCHANGED <<bad, moved>>
CopyFails(w) == At(w, "copy") /\ part[w] < Size /\ Reports(w, "wrapped", "store")
                  /\ UNCHANGED <<bad, moved>>
Copied(w) ==
  /\ At(w, "copy") /\ part[w] = Size
  /\ Handle(w) /\ moved' = moved + Size
  /\ item' = [item EXCEPT ![w] = @ + Jobs]
  /\ Go(w, "look")
  /\ UNCHANGED <<program, result, pass, next, part, reports, expired, memory, read, failed>>
Store(w) ==
  /\ At(w, "store")
  /\ Into(w, TRUE, "done")
  /\ UNCHANGED <<program, pass, next, item, part, err, errs, bad, moved, expired, memory,
                 history>>

\* hot() and hog(): one file, or one page, after another. The deadline is looked
\* at between two passes, by hog() after the first one only.
PassOver(over, amounts) ==
  LET at == item[0] % Files
  IN /\ At(0, "look")
     /\ IF over /\ expired
        THEN Go(0, "done") /\ UNCHANGED <<item, moved, handled>>
        ELSE /\ handled[at] < Rounds
             /\ handled' = [handled EXCEPT ![at] = @ + 1]
             /\ \E n \in amounts : moved' = moved + n
             /\ item' = [item EXCEPT ![0] = at + 1]
             /\ UNCHANGED pc
     /\ UNCHANGED <<program, result, pass, next, part, reports, expired, memory, read, failed>>

HotPass == program = "hot" /\ PassOver(item[0] \in {0, Files}, {0, Size})
HogPass == program = "hog" /\ PassOver(item[0] = Files, {1})

Expire ==
  /\ Running /\ program \in {"clone"} \cup Lone /\ ~expired
  /\ expired' = TRUE
  /\ UNCHANGED <<control, reports, moved, memory, history>>

-----------------------------------------------------------------------------
(* Memory. *)

Touch(w) ==
  /\ program = "shm" /\ At(w, "look")
  /\ touched' = touched \cup Part(w, Jobs)
  /\ Go(w, "done")
  /\ UNCHANGED <<program, result, pass, next, item, part, reports, moved, expired, pinned,
                 history>>

\* load() has the arena touched while it reads into it.
TouchAll ==
  /\ Running /\ program = "load" /\ touched = {}
  /\ touched' = TouchedBy(Most(Jobs \div 4, 1))
  /\ UNCHANGED <<control, reports, moved, expired, pinned, history>>

-----------------------------------------------------------------------------
(* The main goroutine: wg.Wait(), and what it makes of it. *)

AllDone == /\ Running /\ \A w \in Worker : pc[w] = "done"
           /\ program = "load" => touched # {}

\* Variant of the next definition: the counter of the pass before is used on.
NextPassCountsOn ==
  /\ AllDone /\ program = "read" /\ errs = <<>> /\ pass + 1 < Passes
  /\ pass' = pass + 1 /\ pc' = Start
  /\ UNCHANGED <<program, result, next, item, part, reports, moved, expired, memory, history>>

NextPass ==
  /\ AllDone /\ program = "read" /\ errs = <<>> /\ pass + 1 < Passes
  /\ pass' = pass + 1 /\ next' = 0 /\ pc' = Start
  /\ UNCHANGED <<program, result, item, part, reports, moved, expired, memory, history>>

\* What went wrong, as the program knows it.
KnownBad == errs # <<>> \/ bad > 0 \/ (program = "clone" /\ first # None)

\* Variant of the next definition: the channel is not looked at.
ReturnsBlindly == bad > 0 \/ (program = "clone" /\ first # None)
Wrong == KnownBad

Return ==
  /\ AllDone /\ ~(program = "read" /\ ~Wrong /\ pass + 1 < Passes)
  /\ \/ result' = IF Wrong THEN "error" ELSE "ok"
     \/ program \in {"shm"} \cup Loads /\ ~Wrong /\ result' = "error"
  /\ pinned' = IF result' = "ok" /\ program \in {"shm"} \cup Loads
               THEN UNION PinRanges ELSE {}
  /\ UNCHANGED <<program, pass, next, pc, item, part, reports, moved, expired, touched,
                 history>>

-----------------------------------------------------------------------------
Init ==
  /\ program \in Programs /\ result = "none"
  /\ pass = 0 /\ next = 0 /\ pc = Start
  /\ item = [w \in Worker |-> w] /\ part = [w \in Worker |-> 0]
  /\ err = [w \in Worker |-> None] /\ errs = <<>> /\ first = None
  /\ bad = 0 /\ moved = 0 /\ expired = FALSE
  /\ touched = {} /\ pinned = {}
  /\ handled = [i \in 0 .. Most(Files, Items) - 1 |-> 0] /\ read = {} /\ failed = {}

Work(w) ==
  \/ Claim(w) \/ WriteFile(w) \/ ReadFile(w) \/ CopySpan(w) \/ ReadSpan(w)
  \/ WriteChunk(w) \/ CloseFile(w) \/ Fails(w) \/ Send(w)
  \/ Verified(w) \/ Differs(w) \/ Swap(w)
  \/ Look(w) \/ CopyRange(w) \/ OpenFails(w) \/ CopyFails(w) \/ Copied(w) \/ Store(w)
  \/ Touch(w)

Main == PrepareFails \/ HotPass \/ HogPass \/ TouchAll \/ NextPass \/ Return

Next == (\E w \in Worker : Work(w)) \/ Main \/ Expire

Spec == Init /\ [][Next]_vars

\* Goroutines run, and time passes.
Lively == /\ Spec /\ WF_vars(Main) /\ WF_vars(Expire)
          /\ \A w \in Worker : WF_vars(Work(w))

-----------------------------------------------------------------------------
Total(f) == MapThenSumSet(LAMBDA i : f[i], DOMAIN f)

\* Nobody's failure is lost, whoever else fails or finishes meanwhile: a program
\* that ends well has seen none, and verify() counts each file that differs.
\* (An error of a read that follows the opening of a file is not looked at by
\* read(), hot() and, after some bytes, load(): it is not seen at all.)
NothingHidden ==
  /\ result = "ok" => failed = {}
  /\ program = "verify" /\ result \in {"ok", "error"} => bad = Cardinality(failed)

\* A program that ends well has done everything, and nothing twice: each file or
\* span by exactly one worker in every pass, all memory touched and pinned, all
\* units read that were asked for unless the number it prints is short.
AllOnce ==
  result = "ok" =>
    /\ program \in Claiming =>
         \A i \in 0 .. Items - 1 : handled[i] = IF program = "read" THEN Passes ELSE 1
    /\ program = "verify" => moved = Files * Size
    /\ program = "store" => moved = Files * (Up(Size, Chunk) * Chunk)
    /\ program = "clone" => moved = Size * Total(handled)
    /\ program = "hog" => moved % Files = 0 /\ moved >= Files
    /\ program \in {"shm", "load"} => touched = 0 .. Arena - 1
    /\ program \in {"shm"} \cup Loads => pinned = 0 .. Arena - 1
    /\ program = "map" => File \X (0 .. Share - 1) \subseteq read
    /\ program \in Loads => Cardinality(read) = moved
    /\ program \in Loads /\ moved = Files * Size => read = File \X (0 .. Size - 1)

\* What a program says in the end is so: what went wrong, and what it did. (main()
\* of fragload, fragspike and fragcheck)
SaidTrue == NothingHidden /\ AllOnce

\* Every pool comes to an end, errors or not: nobody waits for room in the
\* channel or for a worker that is gone.
Returns == <>(result # "none")

\* The comment on verify(): the first mismatch is reported and the count goes on.
VerifyReports == program = "verify" => result # "panic"
=============================================================================

------------------------------ MODULE FragScan ------------------------------
(***************************************************************************)
(* The scan of fragview. A scan reads a slice of the page map off the event *)
(* loop into scratch space, publishes it under the lock, collects the      *)
(* statistics and ends with a message; the event loop answers it with the  *)
(* next scan after an interval. Keys are handled in between: they pause,   *)
(* change the size of a slice, or ask for all of the map.                  *)
(*                                                                         *)
(* A block's numbers are abstracted to which block they were read from.    *)
(***************************************************************************)
EXTENDS Integers, FiniteSets

CONSTANTS
  NBlocks,   \* blocks of the map
  MaxShare,  \* largest number of slices
  Scanner,   \* goroutines that may run scan()
  First,     \* the one Init() starts
  Nothing    \* what a block shows that was never read

Block == 0 .. NBlocks - 1

SizeAssumption == NBlocks \in Nat \ {0} /\ MaxShare \in Nat \ {0}
ScannerAssumption == First \in Scanner
NothingAssumption == Nothing \notin Block

VARIABLES
  counts,    \* what the view shows for each block
  scratch,   \* what the last reads left, by place
  cursor,    \* where the next slice begins
  wantFull,  \* somebody asked for the whole map
  paused,
  share,     \* slices the map is read in
  scan,      \* where each scan is, the range it reads, and how far it is
  owed       \* blocks not read since a request for all of them, any one
             \* of the requests being followed until it is served
             \* or lost

vars == <<counts, scratch, cursor, wantFull, paused, share, scan, owed>>

Idle == [pc |-> "none", from |-> 0, to |-> 0, next |-> 0, full |-> FALSE,
         step |-> 0, late |-> FALSE]

At(s, pc) == scan[s].pc = pc
Go(s, pc) == scan' = [scan EXCEPT ![s].pc = pc]
Least(m, n) == IF m < n THEN m ELSE n
Most(m, n) == IF m < n THEN n ELSE m

-----------------------------------------------------------------------------
(* scan(), in the steps other goroutines see it in. *)

Range(s) == scan[s].from .. scan[s].to - 1

\* Under the lock it learns what to do and takes the request with it. A paused
\* view has nothing to do.
Begin(s) ==
  /\ At(s, "start")
  /\ LET chunk == IF wantFull THEN NBlocks ELSE Most(NBlocks \div share, 1)
         from == IF wantFull THEN 0 ELSE cursor
     IN scan' = [scan EXCEPT ![s] =
          [pc |-> IF wantFull \/ ~paused THEN "read" ELSE "done",
           from |-> from, to |-> Least(from + chunk, NBlocks), next |-> from,
           full |-> wantFull, step |-> chunk, late |-> FALSE]]
  /\ wantFull' = FALSE
  /\ UNCHANGED <<counts, scratch, cursor, paused, share, owed>>

\* refreshInto(): scratch space is indexed from the start of the range.
Read(s) ==
  /\ At(s, "read") /\ scan[s].next < scan[s].to
  /\ scratch' = [scratch EXCEPT ![scan[s].next - scan[s].from] = scan[s].next]
  /\ scan' = [scan EXCEPT ![s].next = @ + 1]
  /\ UNCHANGED <<counts, cursor, wantFull, paused, share, owed>>

\* Nothing is published then, and a request for the whole map is lost.
ReadFails(s) ==
  /\ At(s, "read") /\ scan[s].next < scan[s].to
  /\ owed' = IF scan[s].full /\ ~scan[s].late THEN {} ELSE owed
  /\ Go(s, "failed")
  /\ UNCHANGED <<counts, scratch, cursor, wantFull, paused, share>>

\* The handover. What was asked for after the scan began is still owed.
Publish(s) ==
  /\ At(s, "read") /\ scan[s].next = scan[s].to
  /\ counts' = [b \in Block |-> IF b \in Range(s) THEN scratch[b - scan[s].from]
                                                   ELSE counts[b]]
  /\ owed' = IF scan[s].late THEN owed ELSE owed \ Range(s)
  /\ Go(s, "published")
  /\ UNCHANGED <<scratch, cursor, wantFull, paused, share>>

AdvanceTo(s, place, request) ==
  /\ At(s, "published") \/ At(s, "failed")
  /\ cursor' = place
  /\ wantFull' = request
  /\ Go(s, "done")
  /\ UNCHANGED <<counts, scratch, paused, share, owed>>

Following(s) ==
  IF scan[s].full \/ cursor + scan[s].step >= NBlocks THEN 0
                                                     ELSE cursor + scan[s].step

\* Variants of the next step: the map is not begun again; the request is taken
\* as served when a sweep ends, not when it begins.
AdvancePast(s) == AdvanceTo(s, Least(cursor + scan[s].step, NBlocks), wantFull)
AdvanceServed(s) == AdvanceTo(s, Following(s), wantFull /\ ~scan[s].full)

\* A slice whose read failed is passed over all the same.
Advance(s) == AdvanceTo(s, Following(s), wantFull)

\* collect() and the message that ends the scan: the event loop sets a timer.
Done(s) ==
  /\ At(s, "done")
  /\ scan' = [scan EXCEPT ![s] = [Idle EXCEPT !.pc = "waiting"]]
  /\ UNCHANGED <<counts, scratch, cursor, wantFull, paused, share, owed>>

Tick(s) ==
  /\ At(s, "waiting")
  /\ Go(s, "start")
  /\ UNCHANGED <<counts, scratch, cursor, wantFull, paused, share, owed>>

-----------------------------------------------------------------------------
(* key() *)

RequestOf(running) ==
  /\ wantFull' = TRUE
  /\ \/ /\ owed = {} /\ owed' = Block
        /\ scan' = [s \in Scanner |-> [running[s] EXCEPT !.late = TRUE]]
     \/ UNCHANGED owed /\ scan' = running
  /\ UNCHANGED <<counts, scratch, cursor, paused, share>>

\* Variant of the next step: a second scan is started at once.
CompactForking ==
  RequestOf([s \in Scanner |-> IF At(s, "none") THEN [Idle EXCEPT !.pc = "start"]
                                               ELSE scan[s]])

\* "c": memory was compacted, so all that was read is out of date. The scan
\* that runs is left alone, the next one is asked to read everything.
Compact == RequestOf(scan)

TogglePause ==
  /\ paused' = ~paused
  /\ UNCHANGED <<counts, scratch, cursor, wantFull, share, scan, owed>>

\* "+" and "-"
Faster ==
  /\ share > 1 /\ share' = share \div 2
  /\ UNCHANGED <<counts, scratch, cursor, wantFull, paused, scan, owed>>

Slower ==
  /\ share < MaxShare /\ share' = share * 2
  /\ UNCHANGED <<counts, scratch, cursor, wantFull, paused, scan, owed>>

-----------------------------------------------------------------------------
Init ==
  /\ counts = [b \in Block |-> Nothing]
  /\ scratch = [i \in Block |-> Nothing]
  /\ cursor = 0
  /\ wantFull = TRUE /\ paused = FALSE
  /\ share \in { n \in 1 .. MaxShare : \E k \in 0 .. n : n = 2 ^ k }
  /\ scan = [s \in Scanner |-> [Idle EXCEPT !.pc = IF s = First THEN "start"
                                                                ELSE "none"]]
  /\ owed \in {{}, Block}

Work(s) ==
  Begin(s) \/ Read(s) \/ ReadFails(s) \/ Publish(s) \/ Advance(s) \/ Done(s)
    \/ Tick(s)

Keys == Compact \/ TogglePause \/ Faster \/ Slower

Next == (\E s \in Scanner : Work(s)) \/ Keys

Spec == Init /\ [][Next]_vars

\* A scan never waits for anybody but for the lock, which is held for a copy.
Lively == Spec /\ \A s \in Scanner : WF_vars(Work(s))

-----------------------------------------------------------------------------
ScanState ==
  [pc : {"none", "start", "read", "published", "failed", "done", "waiting"},
   from : 0 .. NBlocks, to : 0 .. NBlocks, next : 0 .. NBlocks,
   full : BOOLEAN, step : Nat, late : BOOLEAN]

TypeOK ==
  /\ counts \in [Block -> Block \cup {Nothing}]
  /\ scratch \in [Block -> Block \cup {Nothing}]
  /\ cursor \in Block
  /\ wantFull \in BOOLEAN /\ paused \in BOOLEAN
  /\ share \in Nat \ {0}
  /\ owed \subseteq Block
  /\ scan \in [Scanner -> ScanState]

Failing == \E s \in Scanner : At(s, "failed")
Showing(b) == \E s \in Scanner : At(s, "published") /\ b \in Range(s)

\* The comment on scan(): one part of the map is never painted with pages read
\* from another.
CountsOfTheirBlock == \A b \in Block : counts[b] \in {b, Nothing}

\* A request for the whole map is served, paused or not and whatever is being
\* read when it comes, unless a read of its own sweep fails.
SweepServed == owed # {} ~> owed = {}

\* Every block is read again and again, with slices of any size and changed at
\* any time, unless the view is paused or reads fail again and again.
Refreshed == \A b \in Block : []<>paused \/ []<>Failing \/ []<>Showing(b)
=============================================================================

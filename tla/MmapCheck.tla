------------------------------ MODULE MmapCheck ------------------------------
(***************************************************************************)
(* mmapcheck, the program that looks for the faults PageFill is about: a   *)
(* hang of writers and readers (deadlock), and pages that read-ahead       *)
(* filled with other bytes than the file's (subpage, zeropage). Here the   *)
(* file system may do either, and it is the program that has to say so.    *)
(*                                                                         *)
(* Of the file's bytes those are told apart that the program treats        *)
(* differently: each is a unit, in a page.                                 *)
(***************************************************************************)
EXTENDS Integers, FiniteSets

CONSTANTS
  Checks,         \* of "deadlock", "subpage", "zeropage"
  Seconds, Stall, \* of deadlock
  None

SecondsAssumption == Seconds \in Nat \ {0} /\ Stall \in Nat \ {0}

VARIABLES
  check, result, out, \* the command, "none" while it runs, and what it prints
  pc, writer,         \* the main goroutine and the one that writes
  inject,             \* reads are delayed, so that the write takes long
  file, cached,       \* the file; what cached pages show, else None
  want, got,          \* what the program expects and what it read
  t, still, idle,     \* seconds, those without progress as it counts them, and
                      \* whether the counters of writers and readers stand still
  progress            \* the second of the last progress (history)

program == <<check, result, out, pc, writer, inject, want, got>>
watch == <<t, still, idle, progress>>
vars == <<program, watch, file, cached>>

\* Both programs touch a page so that read-ahead reaches the page cache.
Written(c) == IF c = "subpage" THEN "at" ELSE "written"
Punched == "punched"
FaultedPages(c) == IF c = "subpage" THEN {{"head", "at"}, {"last"}}
                             ELSE {{"head"}, {"written", "second"}, {"punched", "third"}}
Units(c) == UNION FaultedPages(c)
Touched(c) == IF c = "subpage" THEN {"last"} ELSE {"head"}
\* What is compared in the end.
Compared(c) == IF c = "subpage" THEN {"head", "at"} ELSE Units(c)

Running == result = "none"
At(p) == Running /\ pc = p

-----------------------------------------------------------------------------
(* subpage() and zeropage() *)

Goes(from, to) == At(from) /\ pc' = to /\ UNCHANGED <<check, result, out, watch>>

Open ==
  /\ check # "deadlock" /\ Goes("open", "inject")
  /\ cached' = [u \in Units(check) |-> IF u \in Touched(check) THEN file[u] ELSE None]
  /\ UNCHANGED <<writer, inject, want, got, file>>

\* zeropage() may go without; subpage() expects the write in any case. A variant
\* of zeropage() expects it too.
StartAlways(injected) == injected' \in {TRUE, check = "subpage"} /\ want' = [want EXCEPT ![Written(check)] = "W"]
Starts(injected) ==
  /\ injected' \in {TRUE, check = "subpage"}
  /\ want' = IF injected' THEN [want EXCEPT ![Written(check)] = "W"] ELSE want
StartWriter ==
  /\ Goes("inject", "willneed")
  /\ Starts(inject)
  /\ writer' = IF inject' THEN "writes" ELSE "none"
  /\ UNCHANGED <<got, file, cached>>

\* A change of the file reaches a page that is cached; one that is filled in the
\* meantime, where it should not be, may miss it.
Changed(f, u, to) == [f EXCEPT ![u] = IF @ = None THEN None ELSE to]
Write ==
  /\ Running /\ writer = "writes"
  /\ writer' = "done"
  /\ file' = [file EXCEPT ![Written(check)] = "W"]
  /\ cached' \in {cached, Changed(cached, Written(check), "W")}
  /\ UNCHANGED <<check, result, out, pc, inject, want, got, watch>>

Filled(f, units) == [u \in Units(check) |-> IF u \in units /\ f[u] = None THEN file[u] ELSE f[u]]
Willneed ==
  /\ Goes("willneed", "wait")
  /\ \E pages \in SUBSET FaultedPages(check) : cached' = Filled(cached, UNION pages)
  /\ UNCHANGED <<writer, inject, want, got, file>>

\* Variant of the next step: the write may still be on its way.
Hurry == Goes("wait", IF check = "subpage" THEN "compare" ELSE "punch")
           /\ inject' = FALSE /\ UNCHANGED <<writer, want, got, file, cached>>
\* <-done, and the delay is taken off.
Wait ==
  /\ Goes("wait", IF check = "subpage" THEN "compare" ELSE "punch")
  /\ writer # "writes"
  /\ inject' = FALSE
  /\ UNCHANGED <<writer, want, got, file, cached>>

Punch ==
  /\ Goes("punch", "compare")
  /\ file' = [file EXCEPT ![Punched] = "0"]
  /\ want' = [want EXCEPT ![Punched] = "0"]
  /\ cached' \in {cached, Changed(cached, Punched, "0")}
  /\ UNCHANGED <<writer, inject, got>>

Compare ==
  /\ At("compare")
  /\ got' = file
  /\ cached' = Filled(cached, Compared(check))
  /\ out' = [pread |-> { u \in Compared(check) : got'[u] # want[u] },
             mmap  |-> { u \in Compared(check) : cached'[u] # want[u] }]
  /\ result' = "ok"
  /\ UNCHANGED <<check, pc, writer, inject, want, file, watch>>

\* Any call may fail. A delay that was set stays then.
Fails ==
  /\ Running /\ pc # "watch"
  /\ result' = "error"
  /\ UNCHANGED <<check, out, pc, writer, inject, want, got, file, cached, watch>>

-----------------------------------------------------------------------------
(* deadlock(): while goroutines write and read ahead, a second after another
   is counted. *)

Begin ==
  /\ check = "deadlock" /\ Goes("open", "watch")
  /\ UNCHANGED <<writer, inject, want, got, file, cached>>

\* Writers, or readers, get on.
Progress ==
  /\ At("watch")
  /\ \E who \in idle : idle' = idle \ {who}
  /\ progress' = t + 1
  /\ UNCHANGED <<program, file, cached, t, still>>

\* Variant of the next definition: one of the two is enough.
StoodOne == idle # {}
Stood == idle = {"writers", "readers"}

Second ==
  /\ At("watch") /\ t < Seconds
  /\ t' = t + 1
  /\ still' = IF Stood THEN still + 1 ELSE 0
  /\ idle' = {"writers", "readers"}
  /\ result' = IF still' >= Stall THEN "stalled" ELSE IF t' = Seconds THEN "ok" ELSE "none"
  /\ UNCHANGED <<check, out, pc, writer, inject, want, got, file, cached, progress>>

\* pwrite() fails: the goroutine ends the program.
WriteFails ==
  /\ At("watch")
  /\ result' = "error"
  /\ UNCHANGED <<check, out, pc, writer, inject, want, got, file, cached, watch>>

-----------------------------------------------------------------------------
Init ==
  /\ check \in Checks /\ result = "none" /\ out = None
  /\ pc = "open" /\ writer = "none" /\ inject = FALSE
  /\ file = [u \in Units(check) |-> "orig"] /\ cached = [u \in Units(check) |-> None]
  /\ want = file /\ got = None
  /\ t = 0 /\ still = 0 /\ idle = {"writers", "readers"} /\ progress = 0

Next == \/ Open \/ StartWriter \/ Write \/ Willneed \/ Wait \/ Punch \/ Compare \/ Fails
        \/ Begin \/ Progress \/ Second \/ WriteFails

Spec == Init /\ [][Next]_vars

-----------------------------------------------------------------------------
\* The program finds the faults there are and no others, whenever the write it
\* holds back and the read-ahead happen: the file is what it should be, and a page
\* that shows something else is seen through the mapping.
FaultsFound ==
  result = "ok" /\ check # "deadlock" =>
    /\ out.pread = {}
    /\ out.mmap = { u \in Compared(check) : cached[u] # file[u] }

\* A hang is a hang: neither writers nor readers got on for so many seconds, and
\* one that began so many seconds before the end is seen.
HangShown ==
  /\ result = "stalled" => t - progress >= Stall
  /\ check = "deadlock" /\ result = "ok" => t - progress < Stall

\* What the program says in the end, of faults and of hangs. (subpage(),
\* zeropage(), deadlock())
ToldTrue == FaultsFound /\ HangShown
=============================================================================

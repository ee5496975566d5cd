------------------------------ MODULE PageFill ------------------------------
(***************************************************************************)
(* Who fills the cached pages of a ZFS file: a readahead batch, which the  *)
(* kernel hands over locked, a fault or a read of one page, and writers    *)
(* and hole punches that bring pages up to what they did to the file.      *)
(*                                                                         *)
(* A page has parts, a write may cover some of them only. Of the bytes at  *)
(* a place of a cached page it matters whether they are those of the file, *)
(* those of the file before some write, or whatever the allocator left     *)
(* there. Mappings are read only, so no page is dirty.                     *)
(***************************************************************************)
EXTENDS Integers, FiniteSets

CONSTANTS
  Pages,      \* pages of the file
  Parts,      \* parts of a page
  Ahead,      \* tasks in readahead
  Filler,     \* tasks that fault a page in or read through the page cache
  Writer,     \* tasks that write or punch holes
  Piece,      \* pages under one hold of dbufs: DMU_MAX_ACCESS / 2
  None

SizesAssumption ==
  Pages \in Nat \ {0} /\ Parts \in Nat \ {0} /\ Piece \in Nat \ {0}
TasksAssumption ==
  /\ Ahead \cap Filler = {} /\ Ahead \cap Writer = {} /\ Filler \cap Writer = {}
  /\ None \notin Ahead \cup Filler \cup Writer

Page == 0..Pages - 1
Part == 0..Parts - 1
Place == Page \X Part
Task == Ahead \cup Filler \cup Writer
PlacesOf(pages) == pages \X Part

VARIABLES
  cached,    \* pages in the page cache
  uptodate,  \* PageUptodate
  lock,      \* lock[p]: who has locked page p
  data,      \* data[p][x]: "junk", "old", or "file" as the DMU has it
  range,     \* range[t]: places t holds of z_rangelock
  at

pageVars == <<cached, uptodate, lock, data>>
vars == <<pageVars, range, at>>

Rest == [pc |-> "idle", first |-> 0, off |-> 0, limit |-> 0, stop |-> 0,
         span |-> {}, kind |-> "none", lost |-> FALSE]

At(t, pc) == at[t].pc = pc
Go(t, pc) == at' = [at EXCEPT ![t].pc = pc]

\* Readers share the range lock, a writer has its places to itself.
Contended(t, places) ==
  \E u \in Task \ {t} : range[u] \cap places # {} /\ (t \in Writer \/ u \in Writer)

Enter(t, places) == range' = [range EXCEPT ![t] = places]
Exit(t) == range' = [range EXCEPT ![t] = {}]

Unfilled == [x \in Part |-> "junk"]

Current == [x \in Part |-> "file"]

Free(p) == lock[p] = None
Locks(t, p) == lock' = [lock EXCEPT ![p] = t]
Unlocks(p) == lock' = [lock EXCEPT ![p] = None]

\* Page p leaves the cache.
Removed(p) ==
  /\ cached' = cached \ {p} /\ uptodate' = uptodate \ {p}
  /\ data' = [data EXCEPT ![p] = Unfilled]

\* Page p shows what the file holds, and is unlocked.
Filled(p) ==
  /\ data' = [data EXCEPT ![p] = Current]
  /\ uptodate' = uptodate \cup {p}
  /\ Unlocks(p)

-----------------------------------------------------------------------------
(* Readahead. *)

\* The kernel puts pages that are not cached into the cache, locked, and calls
\* zpl_readahead() with them.
WillNeed(t, from, to) ==
  /\ t \in Ahead /\ At(t, "idle")
  /\ from < to /\ cached \cap (from..to - 1) = {}
  /\ cached' = cached \cup (from..to - 1)
  /\ lock' = [p \in Page |-> IF p \in from..to - 1 THEN t ELSE lock[p]]
  /\ at' = [at EXCEPT ![t] = [Rest EXCEPT !.pc = "try", !.first = from, !.off = from,
                                          !.stop = to]]
  /\ UNCHANGED <<uptodate, data, range>>

Batch(t) == PlacesOf(at[t].first..at[t].stop - 1)

Tried(t, busy) ==
  /\ At(t, "try")
  /\ IF busy THEN Go(t, "leave") /\ UNCHANGED range
             ELSE Go(t, "hold") /\ Enter(t, Batch(t))
  /\ UNCHANGED pageVars

\* Variants of the next step: it waits; it goes ahead without the lock.
WaitRange(t) == ~Contended(t, Batch(t)) /\ Tried(t, FALSE)
IgnoreRange(t) == Tried(t, FALSE)

\* zfs_rangelock_tryenter(): when somebody has some of it, no page is taken.
TryRange(t) == Tried(t, Contended(t, Batch(t)))

HeldPiece(t, held, otherwise) ==
  /\ At(t, "hold") /\ at[t].off < at[t].stop
  /\ at' = IF held
           THEN [at EXCEPT ![t].pc = "fill",
                           ![t].limit = IF at[t].off + Piece < at[t].stop
                                        THEN at[t].off + Piece ELSE at[t].stop]
           ELSE [at EXCEPT ![t].pc = otherwise]
  /\ UNCHANGED <<pageVars, range>>

\* Variant of the next step: a failure goes past the end of the range lock.
HoldPieceOrOut(t, held) == HeldPiece(t, held, "leave")

\* dmu_buf_hold_array_by_bonus() of the next piece: it may fail.
HoldPiece(t, held) == HeldPiece(t, held, "exit")

\* readahead_page() takes the next page, it is filled, marked and unlocked.
FillNext(t) ==
  /\ At(t, "fill")
  /\ Filled(at[t].off)
  /\ at' = [at EXCEPT ![t].off = @ + 1,
                      ![t].pc = IF at[t].off + 1 < at[t].limit THEN "fill"
                                ELSE IF at[t].limit < at[t].stop THEN "hold" ELSE "exit"]
  /\ UNCHANGED <<cached, range>>

ExitRange(t) ==
  /\ At(t, "exit")
  /\ Exit(t) /\ Go(t, "leave")
  /\ UNCHANGED pageVars

\* read_pages() before 6.14: of the pages not taken those of the asynchronous
\* part are removed, the others stay; all are unlocked.
LeaveUntaken(t, keep) ==
  /\ At(t, "leave") /\ at[t].off < at[t].stop
  /\ Unlocks(at[t].off)
  /\ IF keep THEN UNCHANGED <<cached, uptodate, data>> ELSE Removed(at[t].off)
  /\ at' = [at EXCEPT ![t].off = @ + 1]
  /\ UNCHANGED <<range>>

EndReadahead(t) ==
  /\ At(t, "leave") /\ at[t].off = at[t].stop
  /\ at' = [at EXCEPT ![t] = Rest]
  /\ UNCHANGED <<pageVars, range>>

-----------------------------------------------------------------------------
(* One page at a time: zfs_getpage() for a fault, mappedread() for a read. *)

\* The page is put into the cache or found there unfilled; zfs_getpage() gets it
\* locked.
StartFault(t, p) ==
  /\ t \in Filler /\ At(t, "idle")
  /\ p \notin uptodate /\ Free(p)
  /\ cached' = cached \cup {p}
  /\ Locks(t, p)
  /\ at' = [at EXCEPT ![t] = [Rest EXCEPT !.pc = "unlock", !.off = p, !.kind = "fault"]]
  /\ UNCHANGED <<uptodate, data, range>>

\* The page is let go of for as long as the range lock is waited for.
UnlockForRange(t) ==
  /\ At(t, "unlock")
  /\ Unlocks(at[t].off) /\ Go(t, "range")
  /\ UNCHANGED <<cached, uptodate, data, range>>

StartRead(t, p) ==
  /\ t \in Filler /\ At(t, "idle")
  /\ at' = [at EXCEPT ![t] = [Rest EXCEPT !.pc = "range", !.off = p, !.kind = "read"]]
  /\ UNCHANGED <<pageVars, range>>

RangeForPage(t) ==
  /\ At(t, "range") /\ ~Contended(t, PlacesOf({at[t].off}))
  /\ Enter(t, PlacesOf({at[t].off})) /\ Go(t, "page")
  /\ UNCHANGED pageVars

\* The page may have been filled meanwhile, or taken out of the cache.
LockPage(t) ==
  /\ At(t, "page")
  /\ LET p == at[t].off IN
     IF at[t].lost \/ p \notin cached
     THEN Go(t, "done") /\ UNCHANGED lock
     ELSE /\ Free(p)
          /\ IF p \in uptodate THEN Go(t, "done") /\ UNCHANGED lock
                               ELSE Go(t, "copy") /\ Locks(t, p)
  /\ UNCHANGED <<cached, uptodate, data, range>>

FillOne(t) ==
  /\ At(t, "copy")
  /\ Filled(at[t].off) /\ Go(t, "done")
  /\ UNCHANGED <<cached, range>>

EndFill(t) ==
  /\ At(t, "done")
  /\ Exit(t)
  /\ at' = [at EXCEPT ![t] = Rest]
  /\ UNCHANGED pageVars

\* Reclaim or POSIX_FADV_DONTNEED: a page nobody has a reference on.
Drop(p) ==
  /\ p \in cached /\ Free(p)
  /\ \A t \in Filler : ~(at[t].kind = "fault" /\ at[t].off = p)
  /\ Removed(p)
  /\ UNCHANGED <<lock, range, at>>

-----------------------------------------------------------------------------
(* Writers. *)

Runs == { {q \in Place : from <= q[1] * Parts + q[2] /\ q[1] * Parts + q[2] < to} :
            from, to \in 0..Pages * Parts } \ {{}}

StartWrite(t, kind, span) ==
  /\ t \in Writer /\ At(t, "idle")
  /\ at' = [at EXCEPT ![t] = [Rest EXCEPT !.pc = "wait", !.kind = kind, !.span = span]]
  /\ UNCHANGED <<pageVars, range>>

RangeForWrite(t) ==
  /\ At(t, "wait") /\ ~Contended(t, at[t].span)
  /\ Enter(t, at[t].span) /\ Go(t, "write")
  /\ UNCHANGED pageVars

\* dmu_write(), or dmu_free_long_range().
WriteFile(t) ==
  /\ At(t, "write")
  /\ data' = [p \in Page |-> [x \in Part |->
       IF <<p, x>> \in at[t].span /\ data[p][x] = "file" THEN "old" ELSE data[p][x]]]
  /\ Go(t, "update")
  /\ UNCHANGED <<cached, uptodate, lock, range>>

\* What a hole takes whole is removed; whoever waits for the page finds it gone.
Whole(t, p) == at[t].kind = "punch" /\ {p} \X Part \subseteq at[t].span

UpdatedPage(t, unfilled) ==
  /\ At(t, "update") /\ at[t].off < Pages
  /\ LET p == at[t].off  touched == { x \in Part : <<p, x>> \in at[t].span } IN
     IF touched = {} \/ p \notin cached
     THEN /\ at' = [at EXCEPT ![t].off = @ + 1]
          /\ UNCHANGED <<cached, uptodate, data>>
     ELSE /\ Free(p)
          /\ IF Whole(t, p)
             THEN /\ Removed(p)
                  /\ at' = [u \in Task |->
                       IF u = t THEN [at[u] EXCEPT !.off = @ + 1]
                       ELSE IF u \in Filler /\ at[u].kind = "fault" /\ at[u].off = p
                       THEN [at[u] EXCEPT !.lost = TRUE] ELSE at[u]]
             ELSE /\ at' = [at EXCEPT ![t].off = @ + 1]
                  /\ UNCHANGED cached
                  /\ IF p \in unfilled THEN UNCHANGED <<data, uptodate>>
                     ELSE /\ data' = [data EXCEPT ![p] =
                               [x \in Part |-> IF x \in touched THEN "file" ELSE @[x]]]
                          /\ uptodate' = uptodate \cup {p}
  /\ UNCHANGED <<lock, range>>

\* Variants of the next step: no page is left to its filler; every clean page is.
UpdateEveryPage(t) == UpdatedPage(t, {})
UpdateNoPage(t) == UpdatedPage(t, Page)

\* update_pages() and zfs_zero_partial_page(), page after page: one that nobody
\* has filled is left to its filler.
UpdatePage(t) == UpdatedPage(t, Page \ uptodate)

EndWrite(t) ==
  /\ At(t, "update") /\ at[t].off = Pages
  /\ Exit(t)
  /\ at' = [at EXCEPT ![t] = Rest]
  /\ UNCHANGED pageVars

-----------------------------------------------------------------------------
Init ==
  /\ cached = {} /\ uptodate = {}
  /\ lock = [p \in Page |-> None]
  /\ data = [p \in Page |-> Unfilled]
  /\ range = [t \in Task |-> {}]
  /\ at = [t \in Task |-> Rest]

Reading(t) ==
  \/ TryRange(t) \/ (\E held \in BOOLEAN : HoldPiece(t, held)) \/ FillNext(t)
  \/ ExitRange(t) \/ (\E keep \in BOOLEAN : LeaveUntaken(t, keep)) \/ EndReadahead(t)

Filling(t) ==
  UnlockForRange(t) \/ RangeForPage(t) \/ LockPage(t) \/ FillOne(t) \/ EndFill(t)

Writing(t) == RangeForWrite(t) \/ WriteFile(t) \/ UpdatePage(t) \/ EndWrite(t)

Next ==
  \/ \E t \in Ahead : Reading(t) \/ \E from, to \in 0..Pages : WillNeed(t, from, to)
  \/ \E t \in Filler : Filling(t) \/ \E p \in Page : StartFault(t, p) \/ StartRead(t, p)
  \/ \E t \in Writer :
       Writing(t) \/ \E kind \in {"write", "punch"}, span \in Runs : StartWrite(t, kind, span)
  \/ \E p \in Page : Drop(p)

Spec == Init /\ [][Next]_vars

\* Tasks run, and whoever waits for a page or for the range gets it in the end if
\* it is free again and again.
Lively ==
  /\ Spec
  /\ \A t \in Ahead : WF_vars(Reading(t))
  /\ \A t \in Filler : SF_vars(Filling(t))
  /\ \A t \in Writer : SF_vars(Writing(t))

-----------------------------------------------------------------------------
TypeOK ==
  /\ cached \subseteq Page /\ uptodate \subseteq cached
  /\ lock \in [Page -> Task \cup {None}]
  /\ data \in [Page -> [Part -> {"junk", "old", "file"}]]
  /\ range \in [Task -> SUBSET Place]
  /\ at \in [Task -> [pc : {"idle", "try", "hold", "fill", "exit", "leave", "unlock",
                            "range", "page", "copy", "done", "wait", "write", "update"},
                      first : 0..Pages, off : 0..Pages, limit : 0..Pages,
                      stop : 0..Pages, span : SUBSET Place,
                      kind : {"none", "fault", "read", "write", "punch"},
                      lost : BOOLEAN]]

\* A page that is up to date shows what the file holds, but for places somebody
\* is writing: mmapcheck compares the two, through the mapping and by pread().
\* "the rest of the page is whatever the allocator left there, and it becomes
\* visible to mmap": it does not, not even while somebody writes.
PageShowsFile ==
  \A p \in uptodate, x \in Part :
    /\ data[p][x] # "file" => \E t \in Writer : <<p, x>> \in range[t]
    /\ data[p][x] # "junk"

\* A batch is filled from one state of the file: no write shows in some of its
\* pages and not in others.
BatchOfOneState ==
  \A t \in Ahead : at[t].pc \in {"hold", "fill", "exit"} =>
    \A p \in (at[t].first..at[t].off - 1) \cap uptodate : data[p] = Current

\* Readers have the range lock by turns, so that it may never be all free.
TakingTurns ==
  \A t \in Ahead \cup Filler : []<>(range[t] # {}) /\ []<>(range[t] = {})

Ends(t) == at[t].pc # "idle" ~> at[t].pc = "idle"

\* Nobody waits in a circle, #19447: a batch is locked while it is filled, and a
\* writer holds the range while it locks pages.
AllEnd ==
  /\ \A t \in Ahead \cup Filler : Ends(t)
  /\ TakingTurns \/ \A t \in Writer : Ends(t)
=============================================================================

------------------------------ MODULE SlabWho ------------------------------
(***************************************************************************)
(* The module slabwho: a walk over memory that says which caches hold the  *)
(* pageblocks that are nearly free, a second one over these blocks that    *)
(* says who allocated what is in them, and the two files the results are   *)
(* read from, in pieces, by readers that share the tables with each other. *)
(*                                                                         *)
(* Memory changes while it is walked, and every page is looked at once: a  *)
(* walk is given what it sees of each page, whatever that is.              *)
(***************************************************************************)
EXTENDS Integers, FiniteSets, SequencesExt

CONSTANTS
  Cache,
  Mobile,       \* caches with a move callback
  Tag,          \* codetags of allocation sites
  Zones,        \* <<first page, page after the last>> of the populated zones
  Holes,        \* pages of subsections that are not there
  BlockPages, Subsection, \* in pages
  HostageMax,   \* hostage_max
  MaxCaches, MaxSites, MaxHostage,
  MaxSeen,      \* caches, or sites, that are told apart in one block
  Slots,        \* of the hash table of sites
  Hash,         \* where a site is looked for first
  FirstWalks, Walks, \* what the first walks may see, and those after them: pairs of
                \* [page |-> kind of each page, gone |-> caches gone meanwhile]
                \* and, for the second walk, the sites of the objects on each page
  Bytes, Sizes, \* of a page, and of objects
  Reader,
  File,         \* which of the two files a reader has open
  None

Page == 0 .. Zones[Len(Zones)][2] + BlockPages - 1
Kind == Cache \cup {"free", "lru", "pinned"}
Key == Cache \X Tag

MobileAssumption == Mobile \subseteq Cache
BlockAssumption ==
  /\ {BlockPages, Subsection, MaxSeen} \subseteq Nat \ {0}
  /\ BlockPages % Subsection = 0
TableAssumption == {MaxCaches, MaxSites} \subseteq Nat
SlotsAssumption == MaxSites < Slots /\ Hash \in [Key -> 0 .. Slots - 1]
ReaderAssumption == None \notin Reader
FileAssumption == File \in [Reader -> {"slabwho", "sites"}]

VARIABLES
  stats,   \* what the last walk found
  caches, sites, \* rows of the last walk and attribution, in the order they are shown
  walked, attributed, \* "never", "fresh" or "old"
  lock,    \* walk_lock
  reader,  \* where each reader is, and what it has read
  saw      \* what the last walks saw, and the blocks of the second one (history)

tables == <<stats, caches, sites, walked, attributed, saw>>
vars == <<tables, lock, reader>>

Least(m, n) == IF m < n THEN m ELSE n
Most(m, n) == IF m < n THEN n ELSE m
Up(m, n) == (m + n - 1) \div n
Down(m, n) == m - (m % n)
One(condition) == IF condition THEN 1 ELSE 0
NoCount == [c \in Cache |-> 0]

-----------------------------------------------------------------------------
(* walk_memory() *)

BlocksFrom(z, past) ==
  LET start == Most(Down(z[1], BlockPages), past)
  IN [i \in 1 .. Up(Most(z[2] - start, 0), BlockPages) |-> start + (i - 1) * BlockPages]

\* Variant of the next definition: zones know nothing of each other.
BlocksOfZone(z, before) == BlocksFrom(z, 0)

\* Blocks of a zone; one it shares with the zone before has been looked at.
BlocksOf(z, before) ==
  BlocksFrom(z, IF before = <<>> THEN 0 ELSE Last(before) + BlockPages)

Blocks == FoldLeft(LAMBDA before, z : before \o BlocksOf(z, before), <<>>, Zones)

PagesOf(b) == [i \in 1 .. BlockPages |-> b + i - 1]

\* pfn_valid() is asked at the start of each subsection only.
Valid(b, p) == Down(p, Subsection) >= b /\ Down(p, Subsection) \notin Holes

\* One page of a block; page_cache_of() and stat_for(). A cache for which there
\* is no room is passed over, but its page is used.
LookAt(a, k) ==
  LET v == [a EXCEPT !.valid = TRUE, !.free = @ + One(k = "free"),
                     !.used = @ + One(k # "free"),
                     !.pinned = @ + One(k = "pinned")]
  IN IF k \notin Cache THEN v
     ELSE IF Contains(v.seen, k) THEN [v EXCEPT !.pages[k] = @ + 1]
     ELSE IF Len(v.seen) = MaxSeen THEN v
     ELSE IF Contains(v.rows, k)
          THEN [v EXCEPT !.seen = Append(@, k), !.pages[k] = 1]
     ELSE IF Len(v.rows) = MaxCaches THEN v
     ELSE [v EXCEPT !.seen = Append(@, k), !.pages[k] = 1, !.rows = Append(@, k)]

Looked(sight, rows, b) ==
  FoldLeft(LAMBDA a, p : IF Valid(b, p) THEN LookAt(a, sight.page[p]) ELSE a,
    [valid |-> FALSE, used |-> 0, free |-> 0, pinned |-> 0, seen |-> <<>>,
     pages |-> NoCount, rows |-> rows], PagesOf(b))

\* What a block adds to the statistics: describe() cannot tell that a cache is
\* mobile once its memory cannot be read.
Count(s, a, b, sight) ==
  LET hostage == a.used \in 1 .. HostageMax
      n == Len(a.seen)
      mobile == ToSet(a.seen) \subseteq Mobile \ sight.gone
      add(f, g) == [c \in Cache |-> f[c] + g[c]]
      each(condition) == [c \in Cache |-> One(condition /\ Contains(a.seen, c))]
  IN IF ~a.valid THEN s ELSE
     [rows |-> a.rows,
      pages |-> add(s.pages, a.pages),
      blocks |-> add(s.blocks, each(TRUE)),
      hostagePages |-> IF hostage THEN add(s.hostagePages, a.pages) ELSE s.hostagePages,
      hostageBlocks |-> add(s.hostageBlocks, each(hostage)),
      solo |-> add(s.solo, each(hostage /\ n = 1 /\ a.pinned = 0)),
      total |-> s.total + 1,
      hostages |-> s.hostages + One(hostage),
      free |-> s.free + IF hostage THEN a.free ELSE 0,
      nonslab |-> s.nonslab + One(hostage /\ a.pinned > 0),
      mobile |-> s.mobile + One(hostage /\ a.pinned = 0 /\ mobile),
      by1 |-> s.by1 + One(hostage /\ a.pinned = 0 /\ n < 2),
      by2 |-> s.by2 + One(hostage /\ a.pinned = 0 /\ n = 2),
      by3 |-> s.by3 + One(hostage /\ (a.pinned > 0 \/ n > 2)),
      list |-> IF hostage /\ Len(s.list) < MaxHostage THEN Append(s.list, b)
                                                      ELSE s.list]

Nowhere == [rows |-> <<>>, pages |-> NoCount, blocks |-> NoCount,
            hostagePages |-> NoCount, hostageBlocks |-> NoCount, solo |-> NoCount,
            total |-> 0, hostages |-> 0, free |-> 0, nonslab |-> 0, mobile |-> 0,
            by1 |-> 0, by2 |-> 0, by3 |-> 0, list |-> <<>>]

Walk(sight) ==
  FoldLeft(LAMBDA s, b : Count(s, Looked(sight, s.rows, b), b, sight), Nowhere, Blocks)

\* The orders of the members of a table.
Orders(S, room) == { r \in BoundedSeq(S, room) : ToSet(r) = S /\ IsInjective(r) }

\* sort(): by pages in hostage blocks; it says nothing of rows that are equal.
Sorted(s) ==
  { r \in Orders(ToSet(s.rows), MaxCaches) :
      \A i, j \in DOMAIN r : i < j => s.hostagePages[r[i]] >= s.hostagePages[r[j]] }

-----------------------------------------------------------------------------
(* walk_sites() *)

\* site_for(): the row of a site, or one more; 0 if there is no room.
Probe(t, key) ==
  LET at(k) == (Hash[key] + k) % Slots
      k == CHOOSE k \in 0 .. Slots - 1 :
             /\ t.slot[at(k)] = 0 \/ t.rows[t.slot[at(k)]].key = key
             /\ \A j \in 0 .. k - 1 :
                  t.slot[at(j)] # 0 /\ t.rows[t.slot[at(j)]].key # key
  IN at(k)

\* Variant of the next definition: the entry where the search begins is taken.
RowAtHash(t, key) == Hash[key]
RowOf(t, key) == Probe(t, key)

Attribute(t, key) ==
  LET i == RowOf(t, key)
      new == t.slot[i] = 0
      row == IF new THEN Len(t.rows) + 1 ELSE t.slot[i]
      u == IF new THEN [t EXCEPT !.rows = Append(@, [key |-> key, objects |-> 0,
                                                     blocks |-> 0]),
                                 !.slot[i] = row]
                  ELSE t
      first == ~Contains(t.seen, row) /\ Len(t.seen) < MaxSeen
  IN IF new /\ Len(t.rows) = MaxSites THEN t
     ELSE [u EXCEPT !.rows[row].objects = @ + 1,
                    !.rows[row].blocks = @ + One(first),
                    !.seen = IF first THEN Append(@, row) ELSE @]

\* What it sees of a page: sites of the objects that begin there.
AttributeBlock(t, b, objects) ==
  FoldLeft(LAMBDA u, p : IF Valid(b, p) THEN FoldLeft(Attribute, u, objects[p]) ELSE u,
           [t EXCEPT !.seen = <<>>], PagesOf(b))

WalkSites(list, objects) ==
  FoldLeft(LAMBDA t, b : AttributeBlock(t, b, objects),
           [rows |-> <<>>, slot |-> [i \in 0 .. Slots - 1 |-> 0], seen |-> <<>>],
           list).rows

SortedSites(rows) ==
  { r \in Orders(ToSet(rows), MaxSites) :
      \A i, j \in DOMAIN r : i < j => r[i].objects >= r[j].objects }

\* attribute_page(): objects of a slab that begin on one of its pages.
BeginOn(page, size, objects) ==
  Up(page * Bytes, size) .. Least((page * Bytes + Bytes - 1) \div size, objects - 1)

-----------------------------------------------------------------------------
(* Reading. A file is read in pieces; the lock is held for one piece. *)

At(r, pc) == reader[r].pc = pc
Rows(r) == IF File[r] = "slabwho" THEN caches ELSE sites
Closed == [pc |-> "closed", pos |-> 0, lines |-> <<>>, redone |-> FALSE]

Open(r) ==
  /\ At(r, "closed")
  /\ reader' = [reader EXCEPT ![r] = [Closed EXCEPT !.pc = "between"]]
  /\ UNCHANGED <<tables, lock>>

\* ensure_walk(), and for the second file the walk over the hostage blocks.
Refresh(r) ==
  \E w \in IF walked = "never" THEN FirstWalks ELSE Walks :
    LET walks == walked # "fresh"
        attributes == File[r] = "sites" /\ attributed # "fresh"
    IN /\ IF walks THEN stats' = Walk(w[1]) /\ caches' \in Sorted(stats')
                     ELSE UNCHANGED <<stats, caches>>
       /\ IF attributes THEN sites' \in SortedSites(WalkSites(stats'.list, w[2]))
                        ELSE UNCHANGED sites
       /\ walked' = "fresh"
       /\ attributed' = IF attributes THEN "fresh" ELSE attributed
       /\ saw' = [sight |-> IF walks THEN w[1] ELSE saw.sight,
                  objects |-> IF attributes THEN w[2] ELSE saw.objects,
                  list |-> IF attributes THEN stats'.list ELSE saw.list]

\* start(): tables may be made anew for a reader that is half way through them. It
\* ends there if its row is behind the end of this table, the old one if stale.
StartAt(r, row, stale) ==
  /\ At(r, "between") /\ lock = None
  /\ lock' = r
  /\ Refresh(r)
  /\ LET again(o) == reader[o].pos > 0 /\
                       IF File[o] = "slabwho" THEN walked # "fresh"
                       ELSE File[r] = "sites" /\ attributed # "fresh"
         table == IF stale THEN Rows(r) ELSE IF File[r] = "slabwho" THEN caches' ELSE sites'
         end == row > Len(table)
     IN reader' = [o \in Reader |->
          [reader[o] EXCEPT !.redone = @ \/ again(o),
                            !.pos = IF o = r THEN row ELSE @,
                            !.pc = IF o # r THEN @ ELSE IF end THEN "end" ELSE "show"]]

\* Variants of the next step: the row after the one it came to; and the end of the
\* table looked up before it is made anew.
StartBehind(r) == StartAt(r, IF reader[r].pos = 0 THEN 0 ELSE reader[r].pos + 1, FALSE)
StartStale(r) == StartAt(r, reader[r].pos, TRUE)
Start(r) == StartAt(r, reader[r].pos, FALSE)

\* show() and next(): position 0 is the heading.
Show(r) ==
  /\ At(r, "show")
  /\ LET at == reader[r].pos
         here == IF at = 0 THEN <<>> ELSE <<Rows(r)[at]>>
     IN reader' = [reader EXCEPT ![r].lines = @ \o here, ![r].pos = at + 1,
                                 ![r].pc = IF at + 1 > Len(Rows(r)) THEN "last" ELSE "full"]
  /\ UNCHANGED <<tables, lock>>

\* There is room for one more line.
Continue(r) ==
  /\ At(r, "full")
  /\ reader' = [reader EXCEPT ![r].pc = "show"]
  /\ UNCHANGED <<tables, lock>>

\* stop(): a piece with nothing in it ends the file.
Stop(r) ==
  /\ \E pc \in {"full", "last", "end"} : At(r, pc)
  /\ lock' = None
  /\ reader' = [reader EXCEPT ![r].pc = IF @ = "end" THEN "read" ELSE "between"]
  /\ UNCHANGED tables

Close(r) ==
  /\ At(r, "between") \/ At(r, "read")
  /\ reader' = [reader EXCEPT ![r] = Closed]
  /\ UNCHANGED <<tables, lock>>

\* refresh_ms and sites_refresh_ms pass.
Expire ==
  /\ \/ walked = "fresh" /\ walked' = "old" /\ UNCHANGED attributed
     \/ attributed = "fresh" /\ attributed' = "old" /\ UNCHANGED walked
  /\ UNCHANGED <<stats, caches, sites, lock, reader, saw>>

Init ==
  /\ stats = Nowhere /\ caches = <<>> /\ sites = <<>>
  /\ walked = "never" /\ attributed = "never"
  /\ lock = None
  /\ reader = [r \in Reader |-> Closed]
  /\ saw = [sight |-> None, objects |-> None, list |-> <<>>]

Next ==
  \/ \E r \in Reader :
       Open(r) \/ Start(r) \/ Show(r) \/ Continue(r) \/ Stop(r) \/ Close(r)
  \/ Expire

Spec == Init /\ [][Next]_vars

-----------------------------------------------------------------------------
(* The walks against what they are to find. *)

BlockSet == { b \in { Down(p, BlockPages) : p \in Page } :
                \E i \in DOMAIN Zones : Zones[i][1] < b + BlockPages /\ b < Zones[i][2] }
Within(b) == { p \in b .. b + BlockPages - 1 : Valid(b, p) }
Seen(sight, b, K) == { p \in Within(b) : sight.page[p] \in K }
Held(sight, b) ==
  Cardinality(Seen(sight, b, Kind \ {"free"})) \in 1 .. HostageMax
Holding(sight, b) == { c \in Cache : Seen(sight, b, {c}) # {} }

\* Each block is looked at once, also one that two zones share; a cache that has
\* a row is counted in full, also when another found no room; and a block counts
\* as held by one, by two or by more, as what is in it says. (walk_memory(), as
\* long as no block has more caches in it than are told apart.)
TableRight ==
  walked # "never" =>
    LET w == stats
        sight == saw.sight
        there == { b \in BlockSet : Within(b) # {} }
        held == { b \in there : Held(sight, b) }
        loose == { b \in held : Seen(sight, b, {"pinned"}) = {} }
        by(B) == Cardinality(B)
    IN /\ w.total = by(there) /\ w.hostages = by(held)
       /\ w.by1 + w.by2 + w.by3 = by(held) /\ ToSet(w.list) = held
       /\ \A c \in ToSet(caches) :
            /\ w.pages[c] = by(UNION { Seen(sight, b, {c}) : b \in there })
            /\ w.hostageBlocks[c] = by({ b \in held : c \in Holding(sight, b) })
       /\ by(UNION { Holding(sight, b) : b \in there }) <= MaxCaches =>
            /\ ToSet(caches) = UNION { Holding(sight, b) : b \in there }
            /\ \A c \in Cache :
                 w.solo[c] = by({ b \in loose : Holding(sight, b) = {c} })
            /\ w.by2 = by({ b \in loose : by(Holding(sight, b)) = 2 })
            /\ w.mobile = by({ b \in loose : Holding(sight, b) \cap sight.gone = {}
                                              /\ Holding(sight, b) \subseteq Mobile })

\* Each site has one row, with all its objects in the blocks listed; only new
\* sites are turned away when there is no more room. And an object of a slab is
\* counted on one page, the one it begins on. (walk_sites(), attribute_page())
SitesRight ==
  /\ attributed # "never" =>
       LET at(key) == { o \in ToSet(saw.list) \X Page :
                          o[2] \in Within(o[1]) /\ Contains(saw.objects[o[2]], key) }
           keys == { key \in Key : at(key) # {} }
           count(key) == FoldSet(LAMBDA o, n : n +
                           Cardinality({ i \in DOMAIN saw.objects[o[2]] :
                                           saw.objects[o[2]][i] = key }), 0, at(key))
       IN /\ \A i, j \in DOMAIN sites : sites[i].key = sites[j].key => i = j
          /\ \A i \in DOMAIN sites :
               /\ sites[i].objects = count(sites[i].key)
               /\ sites[i].blocks = Cardinality({ o[1] : o \in at(sites[i].key) })
          /\ Len(sites) = Least(Cardinality(keys), MaxSites)
  /\ \A size \in Sizes, n \in 1 .. 3 :
       LET objects == (n * Bytes) \div size
       IN \A i \in 0 .. objects - 1, page \in 0 .. n - 1 :
            i \in BeginOn(page, size, objects) <=> (i * size) \div Bytes = page

\* What either walk of memory leaves for the printout. (walk_memory(), walk_sites())
WalksRight == TableRight /\ SitesRight

\* A file read to its end while the table was not made anew has a line for each
\* row, in order, however it was cut and whatever the other file's readers did. And
\* a reader whose table was made anew, and is shorter now, does not go on behind its
\* end. (slabwho_start(), slabwho_next(), sites_start(), sites_next())
LineForEachRow ==
  \A r \in Reader :
    /\ At(r, "read") /\ ~reader[r].redone => reader[r].lines = Rows(r)
    /\ At(r, "show") => reader[r].pos <= Len(Rows(r))
=============================================================================

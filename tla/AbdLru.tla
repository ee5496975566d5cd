------------------------------- MODULE AbdLru -------------------------------
(***************************************************************************)
(* The buffers of one ARC header on the kernel's LRU. Their chunks are     *)
(* folios of one mapping; page reclaim takes them back through             *)
(* release_folio, compaction moves them through migrate_folio, and the ARC *)
(* joins, touches, reads, writes to the cache device, moves and frees them *)
(* meanwhile.                                                              *)
(*                                                                         *)
(* Everything done under the hash lock is done by one actor, Owner. User   *)
(* is what looks at the chunks without it: a reader or the cache device    *)
(* writer. A step is what happens between two points where another actor   *)
(* can get in: taking a lock, taking or dropping a reference, storing a    *)
(* pointer others follow.                                                  *)
(***************************************************************************)
EXTENDS Integers, FiniteSets

CONSTANTS
  Abd,         \* the buffers the header may have: b_pabd and b_rabd
  Chunk,       \* the scatterlist entries of all of them
  AbdOf,       \* the buffer an entry belongs to
  Folio,       \* the memory there is
  Pages,       \* pages of a folio
  Hdr,         \* places the header may be at
  Reclaimer,   \* tasks in page reclaim
  Owner, Migrator, User,
  Uses,        \* what goes on: of "touch", "read", "write", "migrate"
  Marker,      \* ABD_FILE_CACHE_PAGE
  None

Task == Reclaimer \cup {Owner, Migrator, User}

ASSUME AbdOfAssumption == AbdOf \in [Chunk -> Abd]
ASSUME PagesAssumption == Pages \in Nat \ {0}
ASSUME UsesAssumption ==
  Uses \subseteq {"touch", "read", "write", "migrate"}
ASSUME NoneAssumption ==
  None \notin Abd \cup Folio \cup Hdr \cup Task \cup {Marker} /\ Marker \notin Abd
ASSUME TasksAssumption ==
  /\ Owner # Migrator /\ Owner # User /\ Migrator # User
  /\ Reclaimer \cap {Owner, Migrator, User} = {}
ASSUME FiniteAssumption == IsFiniteSet(Reclaimer) /\ IsFiniteSet(Chunk)

VARIABLES
  sg,         \* sg[c]: the folio entry c names
  ref,        \* folio_ref_count()
  lock,       \* who holds the folio lock
  private,    \* the private word: None, Marker or the buffer
  mapped,     \* folios whose mapping is abd_lru_mapping
  data,       \* data[f]: the entry whose contents f holds
  joined,     \* buffers with ABD_FLAG_LRU
  prelocked,  \* buffers with ABD_FLAG_PRELOCKED
  mtx,        \* who holds abd_mtx
  arg,        \* abd_lru_arg
  reclaiming, \* abd_reclaiming
  hash,       \* who holds the hash lock
  hdr,        \* where the header is
  gone,       \* places whose header was moved away and freed
  resident,   \* the buffers the header has
  orphan,     \* those it left behind for the cache device writer to free
  refcnt,     \* b_refcnt, an arc_buf or an io: whatever keeps it from eviction
  writing,    \* ARC_FLAG_L2_WRITING
  bio,        \* bio[c]: the folio referenced for the write of entry c
  miscounted, \* history: the end of a bio has not dropped what its start took
  batch,      \* batch[r]: a folio the task of r has locked before it reclaims
  grab,       \* grab[t]: how far abd_sg_grab() is, for which entry and folio
  at          \* at[t]: where task t is and what it has in hand

folioVars == <<sg, ref, lock, private, mapped, data>>
abdVars == <<joined, prelocked, mtx, arg, reclaiming>>
hdrVars == <<hash, hdr, gone, resident, orphan, refcnt, writing>>
bioVars == <<bio, miscounted>>
heldVars == <<bioVars, batch, grab>>
vars == <<folioVars, abdVars, hdrVars, heldVars, at>>

Rest == [pc |-> "idle", abd |-> None, folio |-> None, spare |-> None,
         todo |-> {}, taken |-> {}]

Idle == [entry |-> None, folio |-> None, held |-> FALSE]

Chunks(as) == { c \in Chunk : AbdOf[c] \in as }
NamedBy(f) == { c \in Chunk : sg[c] = f }
Exists == resident \cup orphan
At(t, pc) == at[t].pc = pc
Go(t, pc) == at' = [at EXCEPT ![t].pc = pc]
Finish(t) == at' = [at EXCEPT ![t] = Rest]

Get(f) == ref' = [ref EXCEPT ![f] = @ + 1]
Put(f) == ref' = [ref EXCEPT ![f] = @ - 1]

-----------------------------------------------------------------------------
(* abd_sg_grab(): a reference on the folio an entry names. *)

\* Where a task goes through the entries it has yet to look at.
Grabs(t) ==
  CASE t = Owner -> {"touch", "free"}
    [] t = User -> {"pinned", "fill", "done", "free"}
    [] t \in Reclaimer -> {"siblings"}
    [] OTHER -> {}

\* The entry is read: there is no reference yet, and the folio may be gone, or
\* something else, when it is asked for one.
Look(t, c) ==
  /\ at[t].pc \in Grabs(t) /\ c \in at[t].todo /\ grab[t] = Idle
  /\ grab' = [grab EXCEPT ![t] = [entry |-> c, folio |-> sg[c], held |-> FALSE]]
  /\ UNCHANGED <<folioVars, abdVars, hdrVars, bioVars, batch, at>>

\* folio_try_get(): none on a folio that has none; then from the beginning.
TryGet(t) ==
  LET f == grab[t].folio IN
  /\ f # None /\ ~grab[t].held
  /\ IF ref[f] > 0 THEN Get(f) /\ grab' = [grab EXCEPT ![t].held = TRUE]
                   ELSE UNCHANGED ref /\ grab' = [grab EXCEPT ![t] = Idle]
  /\ UNCHANGED <<sg, lock, private, mapped, data, abdVars, hdrVars, bioVars,
                 batch, at>>

\* The entry names another folio by now.
GrabAgain(t) ==
  /\ grab[t].held /\ sg[grab[t].entry] # grab[t].folio
  /\ Put(grab[t].folio)
  /\ grab' = [grab EXCEPT ![t] = Idle]
  /\ UNCHANGED <<sg, lock, private, mapped, data, abdVars, hdrVars, bioVars,
                 batch, at>>

GrabWork(t) == (\E c \in Chunk : Look(t, c)) \/ TryGet(t) \/ GrabAgain(t)

\* Variant of the next definition: the entry is not looked at again.
GrabbedUnchecked(t, c) == grab[t].held /\ grab[t].entry = c

\* The reference is on the folio the entry names.
Grabbed(t, c) ==
  grab[t].held /\ grab[t].entry = c /\ sg[c] = grab[t].folio

\* It becomes the task's own.
Take(t) == grab' = [grab EXCEPT ![t] = Idle]

-----------------------------------------------------------------------------
(* The owner: one task at a time under the hash lock. *)

Enter ==
  /\ At(Owner, "idle") /\ hash = None
  /\ hash' = Owner
  /\ Go(Owner, "locked")
  /\ UNCHANGED <<folioVars, abdVars, hdr, gone, resident, orphan, refcnt,
                 writing, heldVars>>

Leave ==
  /\ At(Owner, "locked")
  /\ hash' = None
  /\ Finish(Owner)
  /\ UNCHANGED <<folioVars, abdVars, hdr, gone, resident, orphan, refcnt,
                 writing, heldVars>>

\* abd_alloc_chunks(), and the read that fills it: every chunk has its
\* allocation reference and one for the marker in its private word.
Load ==
  /\ At(Owner, "locked") /\ Exists = {}
  /\ \E new \in [Chunk -> { f \in Folio : ref[f] = 0 }] :
       /\ \A c, d \in Chunk : new[c] = new[d] => c = d
       /\ LET named == { new[c] : c \in Chunk } IN
          /\ sg' = new
          /\ ref' = [f \in Folio |-> IF f \in named THEN 2 ELSE ref[f]]
          /\ private' = [f \in Folio |-> IF f \in named THEN Marker
                                                        ELSE private[f]]
          /\ data' = [f \in Folio |-> IF f \in named
                                      THEN CHOOSE c \in Chunk : new[c] = f
                                      ELSE data[f]]
  /\ resident' = Abd
  /\ UNCHANGED <<lock, mapped, abdVars, hash, hdr, gone, orphan, refcnt,
                 writing, heldVars, at>>

\* abd_lru_join()
Join(a) ==
  /\ At(Owner, "locked") /\ a \in resident \ joined
  /\ mtx[a] = None
  /\ mtx' = [mtx EXCEPT ![a] = Owner]
  /\ arg' = [arg EXCEPT ![a] = hdr]
  /\ joined' = joined \cup {a}
  /\ at' = [at EXCEPT ![Owner].pc = "join", ![Owner].abd = a,
                      ![Owner].todo = Chunks({a})]
  /\ UNCHANGED <<folioVars, prelocked, reclaiming, hdrVars, heldVars>>

\* The private word is the buffer's before the folio has a mapping.
JoinPrivate(c) ==
  /\ At(Owner, "join") /\ c \in at[Owner].todo
  /\ private' = [private EXCEPT ![sg[c]] = at[Owner].abd]
  /\ at' = [at EXCEPT ![Owner].pc = "add", ![Owner].folio = sg[c],
                      ![Owner].todo = @ \ {c}]
  /\ UNCHANGED <<sg, ref, lock, mapped, data, abdVars, hdrVars, heldVars>>

\* filemap_add_folio() locks the folio and references it once per page.
JoinAdd ==
  /\ At(Owner, "add")
  /\ LET f == at[Owner].folio IN
     /\ ref' = [ref EXCEPT ![f] = @ + Pages]
     /\ lock' = [lock EXCEPT ![f] = Owner]
     /\ mapped' = mapped \cup {f}
  /\ Go(Owner, "joined")
  /\ UNCHANGED <<sg, private, data, abdVars, hdrVars, heldVars>>

\* The mapping has its references now: the one of the allocation goes.
JoinAdded ==
  /\ At(Owner, "joined")
  /\ lock' = [lock EXCEPT ![at[Owner].folio] = None]
  /\ Put(at[Owner].folio)
  /\ at' = [at EXCEPT ![Owner].pc = "join", ![Owner].folio = None]
  /\ UNCHANGED <<sg, private, mapped, data, abdVars, hdrVars, heldVars>>

\* No memory for the mapping: the chunk stays out of it, and is marked again.
JoinFail ==
  /\ At(Owner, "add")
  /\ private' = [private EXCEPT ![at[Owner].folio] = Marker]
  /\ at' = [at EXCEPT ![Owner].pc = "join", ![Owner].folio = None]
  /\ UNCHANGED <<sg, ref, lock, mapped, data, abdVars, hdrVars, heldVars>>

JoinEnd ==
  /\ At(Owner, "join") /\ at[Owner].todo = {}
  /\ mtx' = [mtx EXCEPT ![at[Owner].abd] = None]
  /\ at' = [at EXCEPT ![Owner] = [Rest EXCEPT !.pc = "locked"]]
  /\ UNCHANGED <<folioVars, joined, prelocked, arg, reclaiming, hdrVars, heldVars>>

\* abd_lru_touch(): a reference for as long as it takes to mark the folio.
Touch(c) ==
  /\ "touch" \in Uses
  /\ At(Owner, "locked") /\ AbdOf[c] \in resident \cap joined
  /\ at' = [at EXCEPT ![Owner].pc = "touch", ![Owner].todo = {c}]
  /\ UNCHANGED <<folioVars, abdVars, hdrVars, heldVars>>

TouchGrab(c) ==
  /\ At(Owner, "touch") /\ Grabbed(Owner, c) /\ Take(Owner)
  /\ at' = [at EXCEPT ![Owner].pc = "touched", ![Owner].folio = sg[c]]
  /\ UNCHANGED <<folioVars, abdVars, hdrVars, bioVars, batch>>

TouchEnd ==
  /\ At(Owner, "touched")
  /\ Put(at[Owner].folio)
  /\ at' = [at EXCEPT ![Owner] = [Rest EXCEPT !.pc = "locked"]]
  /\ UNCHANGED <<sg, lock, private, mapped, data, abdVars, hdrVars, heldVars>>

MoveBinding(h, bound) ==
  /\ At(Owner, "locked") /\ refcnt = 0 /\ ~writing
  /\ h # hdr
  /\ hdr' = h /\ gone' = gone \ {h}
  /\ at' = [at EXCEPT ![Owner].pc = "rebind", ![Owner].spare = hdr,
                      ![Owner].todo = bound]
  /\ UNCHANGED <<folioVars, abdVars, hash, resident, orphan, refcnt, writing,
                 heldVars>>

\* Variant of the next step: the buffers keep their binding.
MoveUnbound(h) == MoveBinding(h, {})

\* arc_hdr_move() of a header nobody uses: from here the hash table has the
\* copy, and the buffers are bound to it one by one.
Move(h) == MoveBinding(h, resident \cap joined)

\* abd_lru_rebind(): waits for abd_mtx.
Rebind(a) ==
  /\ At(Owner, "rebind") /\ a \in at[Owner].todo
  /\ mtx[a] = None
  /\ arg' = [arg EXCEPT ![a] = hdr]
  /\ at' = [at EXCEPT ![Owner].todo = @ \ {a}]
  /\ UNCHANGED <<folioVars, joined, prelocked, mtx, reclaiming, hdrVars, heldVars>>

\* The old header is emptied, the lock dropped and the memory freed.
MoveEnd ==
  /\ At(Owner, "rebind") /\ at[Owner].todo = {}
  /\ gone' = gone \cup {at[Owner].spare}
  /\ hash' = None
  /\ Finish(Owner)
  /\ UNCHANGED <<folioVars, abdVars, hdr, resident, orphan, refcnt, writing,
                 heldVars>>

\* arc_evict_hdr() by the evict thread, or the header's destruction.
Evict ==
  /\ At(Owner, "locked") /\ refcnt = 0
  /\ Go(Owner, "evict")
  /\ UNCHANGED <<folioVars, abdVars, hdrVars, heldVars>>

\* arc_hdr_free_on_write(): the cache device writer frees it later, and until
\* then it belongs to no header.
FreeOnWrite(a) ==
  /\ At(Owner, "evict") /\ a \in resident /\ writing
  /\ mtx[a] = None
  /\ arg' = [arg EXCEPT ![a] = None]
  /\ resident' = resident \ {a} /\ orphan' = orphan \cup {a}
  /\ UNCHANGED <<folioVars, joined, prelocked, mtx, reclaiming, hash, hdr, gone,
                 refcnt, writing, heldVars, at>>

EvictEnd ==
  /\ At(Owner, "evict") /\ resident = {}
  /\ Go(Owner, "locked")
  /\ UNCHANGED <<folioVars, abdVars, hdrVars, heldVars>>

-----------------------------------------------------------------------------
(* abd_free_chunks(), for the owner and for what the writer was left with. *)

MayFree(t, a) ==
  \/ t = Owner /\ At(Owner, "evict") /\ a \in resident /\ ~writing
  \/ t = User /\ At(User, "drain") /\ a \in orphan

\* The buffer is gone, with its mutex.
Forget(as) ==
  /\ resident' = resident \ as /\ orphan' = orphan \ as
  /\ joined' = joined \ as /\ prelocked' = prelocked \ as
  /\ mtx' = [a \in Abd |-> IF a \in as THEN None ELSE mtx[a]]
  /\ arg' = [a \in Abd |-> IF a \in as THEN None ELSE arg[a]]
  /\ reclaiming' = [a \in Abd |-> IF a \in as THEN None ELSE reclaiming[a]]

\* A buffer that never joined: marker and allocation reference go.
FreePlain(t, a) ==
  /\ MayFree(t, a) /\ a \notin joined
  /\ LET named == { sg[c] : c \in Chunks({a}) } IN
     /\ ref' = [f \in Folio |-> IF f \in named THEN ref[f] - 2 ELSE ref[f]]
     /\ private' = [f \in Folio |-> IF f \in named THEN None ELSE private[f]]
  /\ sg' = [c \in Chunk |-> IF AbdOf[c] = a THEN None ELSE sg[c]]
  /\ Forget({a})
  /\ UNCHANGED <<lock, mapped, data, hash, hdr, gone, refcnt, writing, heldVars, at>>

\* abd_lru_free_chunks() by somebody who does not hold abd_mtx yet.
FreeEnter(t, a) ==
  /\ MayFree(t, a) /\ a \in joined
  /\ mtx[a] = None
  /\ mtx' = [mtx EXCEPT ![a] = t]
  /\ at' = [at EXCEPT ![t].pc = "free", ![t].abd = a, ![t].todo = Chunks({a})]
  /\ UNCHANGED <<folioVars, joined, prelocked, arg, reclaiming, hdrVars, heldVars>>

\* What is prelocked is the reclaimer's (FreeTaken); here nothing is.
FreeGrab(t, c) ==
  /\ At(t, "free") /\ Grabbed(t, c) /\ Take(t)
  /\ at' = [at EXCEPT ![t].pc = "lock", ![t].folio = grab[t].folio]
  /\ UNCHANGED <<folioVars, abdVars, hdrVars, bioVars, batch>>

\* folio_lock() waits; migration may have repointed the entry by then.
FreeLock(t) ==
  /\ At(t, "lock")
  /\ LET f == at[t].folio IN
     /\ lock[f] = None
     /\ IF NamedBy(f) # {}
        THEN /\ lock' = [lock EXCEPT ![f] = t]
             /\ Go(t, "drop")
             /\ UNCHANGED ref
        ELSE /\ Put(f)
             /\ at' = [at EXCEPT ![t].pc = "free", ![t].folio = None]
             /\ UNCHANGED lock
  /\ UNCHANGED <<sg, private, mapped, data, abdVars, hdrVars, heldVars>>

\* References a locked and referenced chunk gives up when it is freed.
Owed(f) == IF f \in mapped THEN Pages + 2 ELSE 3

FreeDrop(t) ==
  /\ At(t, "drop")
  /\ LET f == at[t].folio IN
     /\ ref' = [ref EXCEPT ![f] = @ - Owed(f)]
     /\ mapped' = mapped \ {f}
     /\ private' = [private EXCEPT ![f] = None]
     /\ lock' = [lock EXCEPT ![f] = None]
     /\ sg' = [c \in Chunk |-> IF sg[c] = f THEN None ELSE sg[c]]
     /\ at' = [at EXCEPT ![t].pc = "free", ![t].folio = None,
                         ![t].todo = @ \ NamedBy(f)]
  /\ UNCHANGED <<data, abdVars, hdrVars, heldVars>>

FreeEnd(t) ==
  /\ At(t, "free") /\ at[t].todo = {}
  /\ Forget({at[t].abd})
  /\ at' = [at EXCEPT ![t] = [Rest EXCEPT !.pc = IF t = Owner THEN "evict"
                                                              ELSE "drain"]]
  /\ UNCHANGED <<folioVars, hash, hdr, gone, refcnt, writing, heldVars>>

-----------------------------------------------------------------------------
(* Page reclaim: shrink_folio_list() and abd_lru_release_folio(). *)

\* Taken off the kernel's own list by somebody, who has a reference.
Isolated(f) ==
  \/ \E t \in Reclaimer \cup {Migrator} : at[t].folio = f
  \/ \E r \in Reclaimer : batch[r] = f

\* The task may be in the middle of a migration batch, with folios locked.
BatchLock(r, f) ==
  /\ At(r, "idle") /\ batch[r] = None
  /\ f \in mapped /\ ~Isolated(f) /\ lock[f] = None
  /\ Get(f)
  /\ lock' = [lock EXCEPT ![f] = r]
  /\ batch' = [batch EXCEPT ![r] = f]
  /\ UNCHANGED <<sg, private, mapped, data, abdVars, hdrVars, bioVars, grab, at>>

BatchUnlock(r) ==
  /\ At(r, "idle") /\ batch[r] # None
  /\ Put(batch[r])
  /\ lock' = [lock EXCEPT ![batch[r]] = None]
  /\ batch' = [batch EXCEPT ![r] = None]
  /\ UNCHANGED <<sg, private, mapped, data, abdVars, hdrVars, bioVars, grab, at>>

Isolate(r, f) ==
  /\ At(r, "idle") /\ f \in mapped /\ ~Isolated(f)
  /\ Get(f)
  /\ at' = [at EXCEPT ![r].pc = "isolated", ![r].folio = f]
  /\ UNCHANGED <<sg, lock, private, mapped, data, abdVars, hdrVars, heldVars>>

\* folio_trylock(); whoever took it out of the mapping since is left alone.
LockFolio(r) ==
  /\ At(r, "isolated")
  /\ LET f == at[r].folio IN
     IF lock[f] = None
     THEN /\ lock' = [lock EXCEPT ![f] = r]
          /\ Go(r, IF f \in mapped THEN "release" ELSE "fail")
          /\ UNCHANGED ref
     ELSE /\ Put(f) /\ Finish(r) /\ UNCHANGED lock
  /\ UNCHANGED <<sg, private, mapped, data, abdVars, hdrVars, heldVars>>

\* Without a private word there is no buffer to ask. The count must be the
\* mapping's, the private word's and the caller's.
CheckCount(r) ==
  /\ At(r, "release")
  /\ LET f == at[r].folio IN
     at' = [at EXCEPT ![r].abd = private[f],
                      ![r].pc = IF private[f] = None THEN "remove"
                                ELSE IF ref[f] = Pages + 2 THEN "trymtx"
                                ELSE "fail"]
  /\ UNCHANGED <<folioVars, abdVars, hdrVars, heldVars>>

TryMtx(r) ==
  /\ At(r, "trymtx")
  /\ IF mtx[at[r].abd] = None
     THEN mtx' = [mtx EXCEPT ![at[r].abd] = r] /\ Go(r, "header")
     ELSE UNCHANGED mtx /\ Go(r, "fail")
  /\ UNCHANGED <<folioVars, joined, prelocked, arg, reclaiming, hdrVars, heldVars>>

HeaderLocked(r, onFailure) ==
  /\ At(r, "header")
  /\ IF arg[at[r].abd] # None /\ hash = None
     THEN /\ hash' = r
          /\ at' = [at EXCEPT ![r].pc = "siblings",
                     ![r].todo = Chunks({at[r].abd}) \ NamedBy(at[r].folio)]
          /\ UNCHANGED mtx
     ELSE /\ mtx' = onFailure
          /\ Go(r, "fail")
          /\ UNCHANGED hash
  /\ UNCHANGED <<folioVars, joined, prelocked, arg, reclaiming, hdr, gone,
                 resident, orphan, refcnt, writing, heldVars>>

\* Variant of the next step: failing, it keeps the mutex.
LockHeaderKeepingMtx(r) == HeaderLocked(r, mtx)

\* arc_lru_lock(): only tries the hash lock of the header it is bound to.
LockHeader(r) == HeaderLocked(r, [mtx EXCEPT ![at[r].abd] = None])

GrabSibling(r, c) ==
  /\ At(r, "siblings") /\ Grabbed(r, c) /\ Take(r)
  /\ at' = [at EXCEPT ![r].pc = "trylock", ![r].spare = grab[r].folio]
  /\ UNCHANGED <<folioVars, abdVars, hdrVars, bioVars, batch>>

\* A sibling somebody else has locked, or that has just been moved, ends it.
TrySibling(r) ==
  /\ At(r, "trylock")
  /\ LET f == at[r].spare IN
     IF lock[f] = None /\ NamedBy(f) # {}
     THEN /\ lock' = [lock EXCEPT ![f] = r]
          /\ at' = [at EXCEPT ![r].pc = "siblings", ![r].spare = None,
                              ![r].todo = @ \ NamedBy(f),
                              ![r].taken = @ \cup {f}]
          /\ UNCHANGED ref
     ELSE /\ Put(f)
          /\ at' = [at EXCEPT ![r].pc = "undo", ![r].spare = None]
          /\ UNCHANGED lock
  /\ UNCHANGED <<sg, private, mapped, data, abdVars, hdrVars, heldVars>>

\* All of the buffer is taken; then all of the header's other one.
SiblingsTaken(r) ==
  /\ At(r, "siblings") /\ at[r].todo = {}
  /\ IF at[r].abd \notin prelocked
     THEN /\ prelocked' = prelocked \cup {at[r].abd}
          /\ reclaiming' = [reclaiming EXCEPT ![at[r].abd] = at[r].folio]
          /\ Go(r, "evict")
     ELSE /\ prelocked' = prelocked \cup { a \in Abd : mtx[a] = r }
          /\ Go(r, "free")
          /\ UNCHANGED reclaiming
  /\ UNCHANGED <<folioVars, joined, mtx, arg, hdrVars, heldVars>>

EvictIf(r, unused, other) ==
  /\ At(r, "evict")
  /\ IF unused /\ at[r].abd \in resident /\ \A a \in other : mtx[a] = None
     THEN /\ mtx' = [a \in Abd |-> IF a \in other THEN r ELSE mtx[a]]
          /\ at' = [at EXCEPT ![r].pc = IF other = {} THEN "free" ELSE "siblings",
                              ![r].todo = Chunks(other)]
     ELSE UNCHANGED mtx /\ Go(r, "undo")
  /\ UNCHANGED <<folioVars, joined, prelocked, arg, reclaiming, hdrVars, heldVars>>

Unused == refcnt = 0 /\ ~writing
OtherOf(a) == (resident \cap joined) \ {a}

\* Variants of the next step: the header's use is not looked at; its other
\* buffer is not taken.
EvictUsed(r) == EvictIf(r, TRUE, OtherOf(at[r].abd))
EvictOneTaken(r) == EvictIf(r, Unused, {})

\* arc_lru_evict() up to abd_lru_try_prelock(): a header in use, or whose other
\* buffer's mutex is taken, is left alone.
LruEvict(r) == EvictIf(r, Unused, OtherOf(at[r].abd))

\* The header is on a list somebody walks, or too young to be evicted.
RefuseEvict(r) ==
  /\ At(r, "evict") \/ At(r, "free")
  /\ Go(r, "undo")
  /\ UNCHANGED <<folioVars, abdVars, hdrVars, heldVars>>

\* arc_evict_hdr() frees every buffer of the header. The folio reclaim asked
\* for is only detached, a buffer that never joined loses its two references,
\* the rest is locked and referenced by the reclaimer.
FreeTaken(r) ==
  /\ At(r, "free")
  /\ LET plain == { sg[c] : c \in Chunks(resident \ joined) }
         lru == { sg[c] : c \in Chunks(resident \cap joined) } \ {at[r].folio}
     IN /\ ref' = [f \in Folio |->
                     IF f \in plain THEN ref[f] - 2
                     ELSE IF f = at[r].folio THEN ref[f] - 1
                     ELSE IF f \in lru THEN ref[f] - Owed(f)
                     ELSE ref[f]]
        /\ private' = [f \in Folio |-> IF f \in plain \cup lru \cup {at[r].folio}
                                       THEN None ELSE private[f]]
        /\ mapped' = mapped \ lru
        /\ lock' = [f \in Folio |-> IF f \in lru THEN None ELSE lock[f]]
  /\ sg' = [c \in Chunk |-> IF AbdOf[c] \in resident THEN None ELSE sg[c]]
  /\ Forget(resident)
  /\ hash' = None
  /\ at' = [at EXCEPT ![r].pc = "remove", ![r].taken = {}]
  /\ UNCHANGED <<data, hdr, gone, refcnt, writing, heldVars>>

UndoFlags(r, flags) ==
  /\ At(r, "undo")
  /\ ref' = [f \in Folio |-> IF f \in at[r].taken THEN ref[f] - 1 ELSE ref[f]]
  /\ lock' = [f \in Folio |-> IF f \in at[r].taken THEN None ELSE lock[f]]
  /\ mtx' = [a \in Abd |-> IF mtx[a] = r THEN None ELSE mtx[a]]
  /\ prelocked' = flags
  /\ reclaiming' = [a \in Abd |-> IF mtx[a] = r THEN None ELSE reclaiming[a]]
  /\ hash' = None
  /\ at' = [at EXCEPT ![r].pc = "fail", ![r].taken = {}]
  /\ UNCHANGED <<sg, private, mapped, data, joined, arg, hdr, gone, resident,
                 orphan, refcnt, writing, heldVars>>

\* Variant of the next step: the flag stays.
UndoKeepingFlag(r) == UndoFlags(r, prelocked)

\* Every way back: siblings, flags, mutexes and the hash lock.
Undo(r) == UndoFlags(r, { a \in prelocked : mtx[a] # r })

PutBack(t) ==
  /\ At(t, "fail")
  /\ Put(at[t].folio)
  /\ lock' = [lock EXCEPT ![at[t].folio] = None]
  /\ Finish(t)
  /\ UNCHANGED <<sg, private, mapped, data, abdVars, hdrVars, heldVars>>

\* remove_mapping(): with the last reference but the mapping's own. One more,
\* and the folio stays behind in the mapping, without a buffer.
RemoveMapping(r) ==
  /\ At(r, "remove")
  /\ LET f == at[r].folio IN
     IF ref[f] = Pages + 1
     THEN /\ ref' = [ref EXCEPT ![f] = 0]
          /\ mapped' = mapped \ {f}
          /\ lock' = [lock EXCEPT ![f] = None]
          /\ Finish(r)
     ELSE Go(r, "fail") /\ UNCHANGED <<ref, mapped, lock>>
  /\ UNCHANGED <<sg, private, data, abdVars, hdrVars, heldVars>>

-----------------------------------------------------------------------------
(* Compaction: abd_lru_migrate_folio(). *)

MigIsolate(f) ==
  /\ "migrate" \in Uses
  /\ At(Migrator, "idle") /\ f \in mapped /\ ~Isolated(f)
  /\ Get(f)
  /\ at' = [at EXCEPT ![Migrator].pc = "isolated", ![Migrator].folio = f]
  /\ UNCHANGED <<sg, lock, private, mapped, data, abdVars, hdrVars, heldVars>>

MigLock ==
  /\ At(Migrator, "isolated")
  /\ LET f == at[Migrator].folio IN
     IF lock[f] = None
     THEN /\ lock' = [lock EXCEPT ![f] = Migrator]
          /\ Go(Migrator, IF f \in mapped THEN "migrate" ELSE "fail")
          /\ UNCHANGED ref
     ELSE Put(f) /\ Finish(Migrator) /\ UNCHANGED lock
  /\ UNCHANGED <<sg, private, mapped, data, abdVars, hdrVars, heldVars>>

\* References a folio has when only the mapping, the private word if there is
\* one, and the migration itself refer to it.
Expected(f) == Pages + (IF private[f] = None THEN 1 ELSE 2)

\* folio_migrate_mapping(): checks the count and gives dst the place of src.
MigMapping(dst) ==
  /\ At(Migrator, "migrate") /\ ref[dst] = 0
  /\ LET src == at[Migrator].folio IN
     /\ ref[src] = Expected(src)
     /\ ref' = [ref EXCEPT ![src] = @ - Pages, ![dst] = Pages + 1]
     /\ mapped' = mapped \cup {dst}
     /\ lock' = [lock EXCEPT ![dst] = Migrator]
     /\ at' = [at EXCEPT ![Migrator].pc = IF private[src] = None THEN "moved"
                                                                ELSE "copy",
                         ![Migrator].abd = private[src],
                         ![Migrator].spare = dst]
  /\ UNCHANGED <<sg, private, data, abdVars, hdrVars, heldVars>>

\* The count is wrong, or there is no memory for a copy.
MigBusy ==
  /\ At(Migrator, "migrate")
  /\ Go(Migrator, "fail")
  /\ UNCHANGED <<folioVars, abdVars, hdrVars, heldVars>>

MigContents(contents) ==
  /\ At(Migrator, "copy")
  /\ LET src == at[Migrator].folio
         dst == at[Migrator].spare
     IN /\ data' = [data EXCEPT ![dst] = contents]
        /\ private' = [private EXCEPT ![dst] = private[src], ![src] = None]
        /\ ref' = [ref EXCEPT ![src] = @ - 1, ![dst] = @ + 1]
  /\ Go(Migrator, "repoint")
  /\ UNCHANGED <<sg, lock, mapped, abdVars, hdrVars, heldVars>>

\* Variant of the next step: nothing is copied.
MigWithoutCopy == MigContents(data[at[Migrator].spare])

\* folio_copy(), and the private word with its reference.
MigCopy == MigContents(data[at[Migrator].folio])

MigRepoint ==
  /\ At(Migrator, "repoint")
  /\ sg' = [c \in Chunk |-> IF sg[c] = at[Migrator].folio
                            THEN at[Migrator].spare ELSE sg[c]]
  /\ Go(Migrator, "moved")
  /\ UNCHANGED <<ref, lock, private, mapped, data, abdVars, hdrVars, heldVars>>

MigPut(left) ==
  /\ At(Migrator, "moved")
  /\ LET src == at[Migrator].folio
         dst == at[Migrator].spare
     IN /\ ref' = [ref EXCEPT ![src] = left, ![dst] = @ - 1]
        /\ mapped' = mapped \ {src}
        /\ lock' = [lock EXCEPT ![src] = None, ![dst] = None]
  /\ Finish(Migrator)
  /\ UNCHANGED <<sg, private, data, abdVars, hdrVars, heldVars>>

\* Variant of the next step: whatever reference is left goes.
MigEndForced == MigPut(0)

\* The kernel unlocks both, lets go of src and of its own reference on dst.
MigEnd == MigPut(ref[at[Migrator].folio] - 1)

-----------------------------------------------------------------------------
(* The user: reads under a hold, or writes to the cache device. *)

\* A hold is taken, and dropped, under the hash lock.
Pin ==
  /\ "read" \in Uses
  /\ At(User, "idle") /\ hash = None /\ resident # {}
  /\ refcnt' = refcnt + 1
  /\ at' = [at EXCEPT ![User].pc = "pinned", ![User].todo = Chunks(resident)]
  /\ UNCHANGED <<folioVars, abdVars, hash, hdr, gone, resident, orphan, writing,
                 heldVars>>

\* abd_iter_map() or abd_iter_page() of the next chunk, and the end of it.
ReadGrab(c) ==
  /\ At(User, "pinned") /\ Grabbed(User, c) /\ Take(User)
  /\ at' = [at EXCEPT ![User].pc = "reading", ![User].folio = grab[User].folio,
                      ![User].taken = {c}, ![User].todo = @ \ {c}]
  /\ UNCHANGED <<folioVars, abdVars, hdrVars, bioVars, batch>>

ReadPut ==
  /\ At(User, "reading")
  /\ Put(at[User].folio)
  /\ at' = [at EXCEPT ![User].pc = "pinned", ![User].folio = None,
                      ![User].taken = {}]
  /\ UNCHANGED <<sg, lock, private, mapped, data, abdVars, hdrVars, heldVars>>

Unpin ==
  /\ At(User, "pinned") /\ at[User].todo = {} /\ hash = None
  /\ refcnt' = refcnt - 1
  /\ Finish(User)
  /\ UNCHANGED <<folioVars, abdVars, hash, hdr, gone, resident, orphan, writing,
                 heldVars>>

\* The cache device writer picks the header.
StartWrite ==
  /\ "write" \in Uses
  /\ At(User, "idle") /\ hash = None /\ resident # {}
  /\ writing' = TRUE
  /\ at' = [at EXCEPT ![User].pc = "fill", ![User].todo = Chunks(resident)]
  /\ UNCHANGED <<folioVars, abdVars, hash, hdr, gone, resident, orphan, refcnt,
                 heldVars>>

\* abd_lru_own_page()
OwnPage(f) == private[f] # None /\ (f \in mapped \/ private[f] = Marker)

WriteGrab(c) ==
  /\ At(User, "fill") \/ At(User, "done")
  /\ Grabbed(User, c) /\ Take(User)
  /\ at' = [at EXCEPT ![User].pc = IF At(User, "fill") THEN "hold" ELSE "release",
                      ![User].folio = grab[User].folio,
                      ![User].taken = {c}, ![User].todo = @ \ {c}]
  /\ UNCHANGED <<folioVars, abdVars, hdrVars, bioVars, batch>>

\* vbio_fill_cb(): a reference for the bio, unless the folio does not look like
\* ours; the iterator drops its own.
WriteHold ==
  /\ At(User, "hold")
  /\ LET f == at[User].folio IN
     IF OwnPage(f)
     THEN /\ bio' = [c \in Chunk |-> IF c \in at[User].taken THEN f ELSE bio[c]]
          /\ UNCHANGED ref
     ELSE Put(f) /\ UNCHANGED bio
  /\ at' = [at EXCEPT ![User].pc = "fill", ![User].folio = None,
                      ![User].taken = {}]
  /\ UNCHANGED <<sg, lock, private, mapped, data, abdVars, hdrVars, miscounted,
                 batch, grab>>

\* The device is done with it: vdev_disk_io_done() iterates once more.
WriteComplete ==
  /\ At(User, "fill") /\ at[User].todo = {}
  /\ at' = [at EXCEPT ![User].pc = "done", ![User].todo = Chunks(Exists)]
  /\ UNCHANGED <<folioVars, abdVars, hdrVars, heldVars>>

\* vbio_release_cb(): drops a reference on what the entry names by now, if that
\* looks like ours.
WriteRelease ==
  /\ At(User, "release")
  /\ LET f == at[User].folio
         own == OwnPage(f)
     IN /\ ref' = [ref EXCEPT ![f] = @ - (IF own THEN 2 ELSE 1)]
        /\ miscounted' = \E c \in at[User].taken : bio[c] # IF own THEN f ELSE None
  /\ bio' = [c \in Chunk |-> IF c \in at[User].taken THEN None ELSE bio[c]]
  /\ at' = [at EXCEPT ![User].pc = "done", ![User].folio = None,
                      ![User].taken = {}]
  /\ UNCHANGED <<sg, lock, private, mapped, data, abdVars, hdrVars, batch, grab>>

\* l2arc_write_done(), and then what was left on the free list.
WriteEnd ==
  /\ At(User, "done") /\ at[User].todo = {} /\ hash = None
  /\ writing' = FALSE
  /\ Go(User, "drain")
  /\ UNCHANGED <<folioVars, abdVars, hash, hdr, gone, resident, orphan, refcnt,
                 heldVars>>

DrainEnd ==
  /\ At(User, "drain") /\ orphan = {}
  /\ Finish(User)
  /\ UNCHANGED <<folioVars, abdVars, hdrVars, heldVars>>

-----------------------------------------------------------------------------
Init ==
  /\ sg = [c \in Chunk |-> None]
  /\ ref = [f \in Folio |-> 0]
  /\ lock = [f \in Folio |-> None]
  /\ private = [f \in Folio |-> None]
  /\ mapped = {}
  /\ data \in [Folio -> {None}]
  /\ joined = {} /\ prelocked = {}
  /\ mtx = [a \in Abd |-> None]
  /\ arg = [a \in Abd |-> None]
  /\ reclaiming = [a \in Abd |-> None]
  /\ hash = None
  /\ hdr \in Hdr /\ gone = Hdr \ {hdr}
  /\ resident = {} /\ orphan = {}
  /\ refcnt = 0 /\ writing = FALSE
  /\ bio = [c \in Chunk |-> None] /\ miscounted = FALSE
  /\ batch = [r \in Reclaimer |-> None]
  /\ grab = [t \in Task |-> Idle]
  /\ at = [t \in Task |-> Rest]

\* What a task goes on with once it has begun.
FreeWork(t) ==
  \/ GrabWork(t)
  \/ \E a \in Abd : FreePlain(t, a) \/ FreeEnter(t, a)
  \/ \E c \in Chunk : FreeGrab(t, c)
  \/ FreeLock(t)
  \/ FreeDrop(t)
  \/ FreeEnd(t)

OwnerWork ==
  \/ Leave
  \/ \E c \in Chunk : JoinPrivate(c) \/ TouchGrab(c)
  \/ JoinAdd \/ JoinFail \/ JoinAdded \/ JoinEnd
  \/ TouchEnd
  \/ \E a \in Abd : Rebind(a)
  \/ MoveEnd
  \/ \E a \in Abd : FreeOnWrite(a)
  \/ EvictEnd
  \/ FreeWork(Owner)

OwnerChoice ==
  \/ Enter
  \/ Load
  \/ \E a \in Abd : Join(a)
  \/ \E c \in Chunk : Touch(c)
  \/ \E h \in Hdr : Move(h)
  \/ Evict

ReclaimWork(r) ==
  \/ BatchUnlock(r) \/ GrabWork(r)
  \/ LockFolio(r) \/ CheckCount(r) \/ TryMtx(r) \/ LockHeader(r)
  \/ \E c \in Chunk : GrabSibling(r, c)
  \/ TrySibling(r) \/ SiblingsTaken(r) \/ LruEvict(r) \/ RefuseEvict(r)
  \/ FreeTaken(r) \/ Undo(r) \/ PutBack(r) \/ RemoveMapping(r)

ReclaimChoice(r) == \E f \in Folio : BatchLock(r, f) \/ Isolate(r, f)

MigrateWork ==
  \/ MigLock \/ MigBusy \/ MigCopy \/ MigRepoint \/ MigEnd
  \/ \E dst \in Folio : MigMapping(dst)
  \/ PutBack(Migrator)

MigrateChoice == \E f \in Folio : MigIsolate(f)

UserWork ==
  \/ \E c \in Chunk : ReadGrab(c) \/ WriteGrab(c)
  \/ ReadPut \/ Unpin
  \/ WriteHold \/ WriteComplete \/ WriteRelease \/ WriteEnd
  \/ DrainEnd
  \/ FreeWork(User)

UserChoice == Pin \/ StartWrite

Work ==
  \/ OwnerWork \/ OwnerChoice
  \/ \E r \in Reclaimer : ReclaimWork(r) \/ ReclaimChoice(r)
  \/ MigrateWork \/ MigrateChoice
  \/ UserWork \/ UserChoice

\* Behaviours are followed up to the first reference that is miscounted: from there
\* on a folio may be freed under whoever uses it, and anything may happen.
Stopped == miscounted /\ UNCHANGED vars

Next == (~miscounted /\ Work) \/ Stopped

Spec == Init /\ [][Next]_vars

-----------------------------------------------------------------------------
Steps == {"idle", "locked", "join", "add", "joined", "touch", "touched", "rebind",
          "evict", "free", "lock", "drop",
          "isolated", "release", "trymtx", "header", "siblings", "trylock",
          "undo", "fail", "remove", "migrate", "copy", "repoint", "moved",
          "pinned", "reading", "fill", "hold", "done", "drain"}

TypeOK ==
  /\ sg \in [Chunk -> Folio \cup {None}]
  /\ ref \in [Folio -> IF miscounted THEN Int ELSE Nat]
  /\ lock \in [Folio -> Task \cup {None}]
  /\ private \in [Folio -> Abd \cup {Marker, None}]
  /\ mapped \subseteq Folio
  /\ data \in [Folio -> Chunk \cup {None}]
  /\ joined \subseteq Abd /\ prelocked \subseteq Abd
  /\ mtx \in [Abd -> Task \cup {None}]
  /\ arg \in [Abd -> Hdr \cup {None}]
  /\ reclaiming \in [Abd -> Folio \cup {None}]
  /\ hash \in Task \cup {None}
  /\ hdr \in Hdr /\ gone \subseteq Hdr
  /\ resident \subseteq Abd /\ orphan \subseteq Abd
  /\ refcnt \in 0..1 /\ writing \in BOOLEAN
  /\ bio \in [Chunk -> Folio \cup {None}] /\ miscounted \in BOOLEAN
  /\ batch \in [Reclaimer -> Folio \cup {None}]
  /\ grab \in [Task -> [entry : Chunk \cup {None}, folio : Folio \cup {None},
                        held : BOOLEAN]]
  /\ \A t \in Task : at[t].pc \in Steps

\* References each folio should have: what the mapping, the private word, the
\* allocation and every task in the middle of something hold.
Holders(f) ==
  LET one(b) == IF b THEN 1 ELSE 0
      src == at[Migrator].folio
      dst == at[Migrator].spare
      midway == at[Migrator].pc \in {"copy", "repoint", "moved"}
  IN (IF f \in mapped /\ ~(midway /\ f = src) THEN Pages ELSE 0)
     + one(private[f] # None)
     + one(\/ f \notin mapped /\ NamedBy(f) # {}
           \/ f = at[Owner].folio /\ At(Owner, "joined"))
     + Cardinality({ t \in Reclaimer \cup {Migrator} : at[t].folio = f })
     + one(f = dst)
     + Cardinality({ r \in Reclaimer : f \in at[r].taken })
     + Cardinality({ r \in Reclaimer : at[r].spare = f })
     + Cardinality({ r \in Reclaimer : batch[r] = f })
     + one(f = at[Owner].folio /\ at[Owner].pc \notin {"add", "joined"})
     + one(f = at[User].folio)
     + Cardinality({ c \in Chunk : bio[c] = f })
     + Cardinality({ t \in Task : grab[t].held /\ grab[t].folio = f })

\* Every reference is one somebody will drop, and everybody who will drop one has
\* it, as long as no end of a bio has dropped another than its start took: no folio
\* is freed under anyone, and none is lost. (abd_sg_grab(), abd_lru_release_folio())
RefsExact == miscounted \/ \A f \in Folio : ref[f] = Holders(f)

\* The entries of a buffer name live folios that hold their contents, whoever
\* moved them; a folio nobody refers to has left the mapping, unlocked.
ChunksIntact ==
  /\ \A c \in Chunk : AbdOf[c] \in Exists =>
       \/ sg[c] # None /\ data[sg[c]] = c /\ private[sg[c]] # None
       \/ \E t \in {Owner, User} : mtx[AbdOf[c]] = t /\ c \notin at[t].todo
       \/ \E r \in Reclaimer : mtx[AbdOf[c]] = r
       \/ at[Migrator].pc = "repoint" /\ sg[c] = at[Migrator].folio
  /\ \A f \in Folio : ref[f] = 0 => f \notin mapped /\ lock[f] = None

\* What a reader looks at is the chunk it asked for, whatever happens to the
\* buffer meanwhile: it may be looking at the original of a copy, never at
\* memory of something else.
ReadsItsChunk ==
  /\ At(User, "reading") => at[User].taken = { data[at[User].folio] }
  /\ \A c \in Chunk : bio[c] # None => data[bio[c]] = c

\* A chunk survives whatever moves it, in the buffer and under those who read it.
\* (abd_lru_migrate_folio())
ChunksKept == miscounted \/ (ChunksIntact /\ ReadsItsChunk)

\* The reclaimer that reads the binding finds a header that still exists, and
\* one whose hash lock it has is the header the buffer belongs to; a header in
\* use keeps its buffers. (arc_hdr_reclaim_abd())
BindingAlive ==
  /\ refcnt > 0 => resident = Abd
  /\ \A r \in Reclaimer :
       /\ At(r, "header") /\ arg[at[r].abd] # None => arg[at[r].abd] \notin gone
       /\ hash = r => arg[at[r].abd] = hdr /\ at[r].abd \in resident

\* A task that is back where it started has left nothing locked and nothing
\* marked, and nobody has, or tries, the mutex of a buffer that is gone.
NothingLeft ==
  /\ \A f \in Folio : lock[f] # None =>
       \/ ~At(lock[f], "idle")
       \/ lock[f] \in Reclaimer /\ batch[lock[f]] = f
  /\ \A a \in Abd : mtx[a] # None => ~At(mtx[a], "idle")
  /\ hash # None => ~At(hash, "idle")
  /\ \A a \in prelocked : mtx[a] \in Reclaimer /\ hash = mtx[a]
  /\ \A a \in Abd : mtx[a] # None => a \in Exists
  /\ \A r \in Reclaimer : At(r, "trymtx") => at[r].abd \in Exists

\* The comment above abd_sg_grab(): the reference an iterator or a bio takes "is
\* what keeps a chunk from being moved or given back under them".
HeldStays == [][\A c \in Chunk : bio[c] # None /\ sg[c] = bio[c] => sg'[c] = sg[c]]_vars

\* The comment on vbio_release_cb(): it is to "drop the references vbio_fill_cb()
\* took", no more and no others.
DropsWhatItTook == ~miscounted

\* The comment on kmem_move_t: the callback is "Called under an RCU read side, so
\* it must not sleep: locks are taken with their try variants".
MoveNeverWaits ==
  At(Owner, "rebind") => \A a \in at[Owner].todo : mtx[a] = None

-----------------------------------------------------------------------------
\* Tasks are scheduled; the sleeping locks, the folio's and both mutexes, are
\* handed to whoever has waited for them; a handler does not stay under the hash
\* lock for ever, nor a migration batch locked.
Lively ==
  /\ Spec
  /\ SF_vars(~miscounted /\ OwnerWork) /\ SF_vars(~miscounted /\ Leave)
  /\ SF_vars(~miscounted /\ UserWork) /\ WF_vars(~miscounted /\ MigrateWork)
  /\ \A r \in Reclaimer : /\ WF_vars(~miscounted /\ ReclaimWork(r))
                          /\ SF_vars(~miscounted /\ BatchUnlock(r))

\* Nothing waits in a circle: the hash lock is always given back, and what a header
\* left to the writer is freed in the end, unless compaction moves the chunk being
\* freed again and again. (arc_hdr_reclaim_abd(), arc_write_done())
LetGo ==
  \/ []<>At(Migrator, "moved") \/ <>miscounted
  \/ (hash # None ~> hash = None) /\ (orphan # {} ~> orphan = {})
=============================================================================

------------------------------ MODULE SlabEvac ------------------------------
(***************************************************************************)
(* One node of a SLUB cache whose objects can be relocated: the owners     *)
(* that allocate and free, and the pass of slab_defrag_node() that takes   *)
(* the sparse slabs off the partial list and moves their objects away.     *)
(*                                                                         *)
(* A freelist is the set of a slab's free objects, the partial list the    *)
(* set of slabs on it, and slab->inuse the number of objects that are not  *)
(* on the freelist: the two change in one compare-and-exchange.            *)
(***************************************************************************)
EXTENDS Naturals, FiniteSets

CONSTANTS
  Slab,          \* pages the cache may hold
  Obj,           \* the objects those pages may be cut into
  SlabOf,        \* the page an object lies in
  Handle,        \* what the owners allocate, one object each
  None,          \* no object, no slab
  MinPartial,    \* kmem_cache.min_partial
  Occupancies,   \* values of vm.slab_defrag_occupancy, in percent
  GiveUp         \* SLAB_DEFRAG_GIVE_UP

ASSUME SlabOfAssumption == SlabOf \in [Obj -> Slab]
ASSUME NoneAssumption == None \notin Obj \cup Slab
ASSUME BoundsAssumption ==
  /\ MinPartial \in Nat
  /\ Occupancies \subseteq 1..100
  /\ GiveUp \in Nat \ {0}

VARIABLES
  page,     \* the slabs that exist
  free,     \* the objects on the freelist of their slab
  partial,  \* the slabs on the node's partial list
  at,       \* at[h]: the object that holds h, None when h is not allocated
  held,     \* the handles somebody holds, which the callback will not move
  pc,       \* where the pass is
  cand,     \* the candidates it took and has not looked at yet
  cur,      \* the slab it is emptying
  claimed,  \* the chain head..tail of that slab, and the bits set in map
  live,     \* scratch->objects as filled from what was not claimed
  todo,     \* those of them the loop has not reached
  old, new, \* the object being moved and its replacement
  moved,    \* the vacated objects collected for slab_free_bulk()
  emptied,  \* what slab_evacuate() reports
  refused   \* slabs in a row that did not come free

slabVars == <<page, free, partial>>
ownerVars == <<at, held>>
passVars == <<pc, cand, cur, claimed, live, todo, old, new, moved, emptied,
              refused>>
vars == <<slabVars, ownerVars, passVars>>

ObjectsOf(s) == { o \in Obj : SlabOf[o] = s }
FreeOf(s) == { o \in free : SlabOf[o] = s }
InUse(s) == Cardinality(ObjectsOf(s)) - Cardinality(FreeOf(s))
LiveObjects == { at[h] : h \in Handle } \ {None}

-----------------------------------------------------------------------------
(* The allocator, as far as the pass relies on it. *)

\* kmem_cache_alloc(): an object of a slab on the partial list, which leaves
\* the list with its last free object, or else of a page fetched for it.
TakeObject(o) ==
  LET s == SlabOf[o] IN
  \/ /\ o \in free /\ s \in partial
     /\ free' = free \ {o}
     /\ partial' = IF FreeOf(s) = {o} THEN partial \ {s} ELSE partial
     /\ UNCHANGED page
  \/ /\ partial = {} /\ s \notin page
     /\ page' = page \cup {s}
     /\ free' = free \cup (ObjectsOf(s) \ {o})
     /\ partial' = IF ObjectsOf(s) = {o} THEN {} ELSE {s}

\* __slab_free(): objs go on the freelist of s. A slab that had none free goes
\* (back) on the partial list; one that is now empty is given back when the
\* list is long enough, unless somebody took it off the list.
PutObjects(s, objs) ==
  LET wasFull == FreeOf(s) = {}
      isEmpty == ObjectsOf(s) \subseteq free \cup objs
  IN IF /\ isEmpty
        /\ wasFull \/ s \in partial
        /\ Cardinality(partial) >= MinPartial
     THEN /\ page' = page \ {s}
          /\ free' = free \ ObjectsOf(s)
          /\ partial' = partial \ {s}
     ELSE /\ free' = free \cup objs
          /\ partial' = IF wasFull THEN partial \cup {s} ELSE partial
          /\ UNCHANGED page

-----------------------------------------------------------------------------
(* The owners. *)

\* A new object is in use by whoever allocated it until it is let go of.
Allocate(h) ==
  /\ at[h] = None
  /\ \E o \in Obj : TakeObject(o) /\ at' = [at EXCEPT ![h] = o]
  /\ held' = held \cup {h}
  /\ UNCHANGED passVars

Hold(h) ==
  /\ at[h] # None /\ h \notin held
  /\ held' = held \cup {h}
  /\ UNCHANGED <<slabVars, at, passVars>>

LetGo(h) ==
  /\ h \in held
  /\ held' = held \ {h}
  /\ UNCHANGED <<slabVars, at, passVars>>

\* kmem_cache_free() of a cache without sheaves: straight to __slab_free().
Free(h) ==
  /\ at[h] # None
  /\ PutObjects(SlabOf[at[h]], {at[h]})
  /\ at' = [at EXCEPT ![h] = None]
  /\ held' = held \ {h}
  /\ UNCHANGED passVars

-----------------------------------------------------------------------------
(* The pass: slab_defrag_node(). *)

Sparse(s, max) == InUse(s) * 100 <= Cardinality(ObjectsOf(s)) * max

\* Variant of the next step: the candidates are noted and stay on the list.
NoteCandidates(max) ==
  /\ pc = "idle"
  /\ cand' = { s \in partial : Sparse(s, max) }
  /\ refused' = 0
  /\ pc' = "pick"
  /\ UNCHANGED <<page, free, partial, ownerVars, cur, claimed, live, todo, old,
                 new, moved, emptied>>

\* The candidates leave the partial list in one critical section.
TakeCandidates(max) ==
  /\ pc = "idle"
  /\ cand' = { s \in partial : Sparse(s, max) }
  /\ partial' = partial \ cand'
  /\ refused' = 0
  /\ pc' = "pick"
  /\ UNCHANGED <<page, free, ownerVars, cur, claimed, live, todo, old, new,
                 moved, emptied>>

Pick(s) ==
  /\ pc = "pick" /\ s \in cand
  /\ cand' = cand \ {s}
  /\ cur' = s
  /\ emptied' = FALSE
  /\ pc' = "claim"
  /\ UNCHANGED <<slabVars, ownerVars, claimed, live, todo, old, new, moved,
                 refused>>

\* Variant of the next step: one refusal too many.
CountRefusalLate(isEmptied) ==
  /\ refused' = IF isEmptied THEN 0 ELSE refused + 1
  /\ pc' = IF refused' > GiveUp THEN "restore" ELSE "pick"

\* What the loop of slab_defrag_node() makes of a slab it is done with.
CountRefusal(isEmptied) ==
  /\ refused' = IF isEmptied THEN 0 ELSE refused + 1
  /\ pc' = IF refused' >= GiveUp THEN "restore" ELSE "pick"

\* Variant of the next step: the slab stays on the list.
ClaimLeavingListed ==
  /\ claimed' = claimed \cup FreeOf(cur)
  /\ free' = free \ FreeOf(cur)
  /\ UNCHANGED <<page, partial>>

\* Everything free on the slab, taken together with its place on the list.
slab_claim_free ==
  /\ claimed' = claimed \cup FreeOf(cur)
  /\ free' = free \ FreeOf(cur)
  /\ partial' = partial \ {cur}
  /\ UNCHANGED page

\* The first claim of slab_evacuate(): what it does not get is live. Without
\* anything to hold the slab by, the slab is left alone.
Claim ==
  /\ pc = "claim"
  /\ slab_claim_free
  /\ IF claimed' = {}
     THEN /\ CountRefusal(FALSE)
          /\ cur' = None
          /\ UNCHANGED <<live, todo>>
     ELSE /\ live' = ObjectsOf(cur) \ claimed'
          /\ todo' = live'
          /\ pc' = "next"
          /\ UNCHANGED <<cur, refused>>
  /\ UNCHANGED <<ownerVars, cand, old, new, moved, emptied>>

\* The loop takes its objects in any order here; the code goes by address.
GetReplacement(o) ==
  /\ pc = "next" /\ o \in todo
  /\ \E n \in Obj : TakeObject(n) /\ new' = n
  /\ old' = o
  /\ todo' = todo \ {o}
  /\ pc' = "recheck"
  /\ UNCHANGED <<ownerVars, cand, cur, claimed, live, moved, emptied, refused>>

\* Variant of the next step: the failure ends the pass, not just the loop.
NoReplacementEndsPass ==
  /\ pc = "next" /\ todo # {} /\ partial = {}
  /\ pc' = "restore"
  /\ UNCHANGED <<slabVars, ownerVars, cand, cur, claimed, live, todo, old, new,
                 moved, emptied, refused>>

\* GFP_NOWAIT: without a partial slab the page allocator may say no.
NoReplacement ==
  /\ pc = "next" /\ todo # {} /\ partial = {}
  /\ pc' = "bulk"
  /\ UNCHANGED <<slabVars, ownerVars, cand, cur, claimed, live, todo, old, new,
                 moved, emptied, refused>>

EndOfLoop ==
  /\ pc = "next" /\ todo = {}
  /\ pc' = "bulk"
  /\ UNCHANGED <<slabVars, ownerVars, cand, cur, claimed, live, todo, old, new,
                 moved, emptied, refused>>

\* Claim what the owners freed since, and skip the object if it was among it.
Recheck ==
  /\ pc = "recheck"
  /\ slab_claim_free
  /\ pc' = IF old \in claimed' THEN "drop" ELSE "move"
  /\ UNCHANGED <<ownerVars, cand, cur, live, todo, old, new, moved, emptied,
                 refused>>

\* s->move() returns KMEM_MOVE_DONE: old was live and nobody held it. Its data
\* is in new now, and old is kept back until the slab is done with.
MoveDone(h) ==
  /\ pc = "move" /\ at[h] = old /\ h \notin held
  /\ at' = [at EXCEPT ![h] = new]
  /\ moved' = moved \cup {old}
  /\ old' = None /\ new' = None
  /\ pc' = "next"
  /\ UNCHANGED <<slabVars, held, cand, cur, claimed, live, todo, emptied,
                 refused>>

\* Variants of the next step: a refusal is not counted against the slab; it is
\* tried again; it passes for a move.
RefusalUncounted ==
  /\ pc = "move"
  /\ pc' = "drop"
  /\ live' = live \ {old}
  /\ UNCHANGED <<slabVars, ownerVars, cand, cur, claimed, todo, old, new, moved,
                 emptied, refused>>

RefusalRetried ==
  /\ pc = "move"
  /\ pc' = "drop"
  /\ todo' = todo \cup {old}
  /\ UNCHANGED <<slabVars, ownerVars, cand, cur, claimed, live, old, new, moved,
                 emptied, refused>>

RefusalIgnored ==
  /\ pc = "move"
  /\ pc' = "next"
  /\ moved' = moved \cup {old}
  /\ old' = None /\ new' = None
  /\ UNCHANGED <<slabVars, ownerVars, cand, cur, claimed, live, todo, emptied,
                 refused>>

\* Any other answer: old is held, is not in use any more, or a lock it needs is
\* taken, which can be at any time.
MoveRefused ==
  /\ pc = "move"
  /\ pc' = "drop"
  /\ UNCHANGED <<slabVars, ownerVars, cand, cur, claimed, live, todo, old, new,
                 moved, emptied, refused>>

\* Variant of the next step: the replacement nothing was moved to is forgotten.
ForgetReplacement ==
  /\ pc = "drop"
  /\ old' = None /\ new' = None
  /\ pc' = "next"
  /\ UNCHANGED <<slabVars, ownerVars, cand, cur, claimed, live, todo, moved,
                 emptied, refused>>

\* kmem_cache_free() of a replacement nothing was moved to.
DropReplacement ==
  /\ pc = "drop"
  /\ PutObjects(SlabOf[new], {new})
  /\ old' = None /\ new' = None
  /\ pc' = "next"
  /\ UNCHANGED <<ownerVars, cand, cur, claimed, live, todo, moved, emptied,
                 refused>>

\* slab_free_bulk() of the vacated objects. moved and live count distinct
\* objects of the same list, so comparing the counts compares the sets.
FreeMoved ==
  /\ pc = "bulk"
  /\ IF moved = {} THEN UNCHANGED slabVars ELSE PutObjects(cur, moved)
  /\ emptied' = (moved = live)
  /\ moved' = {}
  /\ pc' = "release"
  /\ UNCHANGED <<ownerVars, cand, cur, claimed, live, todo, old, new, refused>>

\* Let go of the slab, and judge it.
Release ==
  /\ pc = "release"
  /\ PutObjects(cur, claimed)
  /\ CountRefusal(emptied)
  /\ claimed' = {} /\ live' = {} /\ todo' = {}
  /\ cur' = None
  /\ UNCHANGED <<ownerVars, cand, old, new, moved, emptied>>

\* What the pass did not get to goes back on the partial list.
Restore ==
  /\ pc = "restore" \/ (pc = "pick" /\ cand = {})
  /\ partial' = partial \cup cand
  /\ cand' = {}
  /\ pc' = "idle"
  /\ UNCHANGED <<page, free, ownerVars, cur, claimed, live, todo, old, new,
                 moved, emptied, refused>>

-----------------------------------------------------------------------------
Init ==
  /\ page = {} /\ free = {} /\ partial = {}
  /\ at = [h \in Handle |-> None]
  /\ held = {}
  /\ pc = "idle"
  /\ cand = {} /\ cur = None
  /\ claimed = {} /\ live = {} /\ todo = {} /\ moved = {}
  /\ old = None /\ new = None
  /\ emptied = FALSE
  /\ refused = 0

Owner(h) == Allocate(h) \/ Hold(h) \/ LetGo(h) \/ Free(h)

Pass ==
  \/ \E max \in Occupancies : TakeCandidates(max)
  \/ \E s \in Slab : Pick(s)
  \/ Claim
  \/ \E o \in Obj : GetReplacement(o)
  \/ NoReplacement
  \/ EndOfLoop
  \/ Recheck
  \/ \E h \in Handle : MoveDone(h)
  \/ MoveRefused
  \/ DropReplacement
  \/ FreeMoved
  \/ Release
  \/ Restore

Next == Pass \/ \E h \in Handle : Owner(h)

Spec == Init /\ [][Next]_vars

\* The pass runs in kcompactd or in the task that asked for compaction and
\* waits for nobody: it is scheduled again as long as it can take a step.
Working == pc # "idle" /\ Pass
FairSpec == Spec /\ WF_vars(Working)

-----------------------------------------------------------------------------
TypeOK ==
  /\ page \subseteq Slab /\ partial \subseteq Slab /\ cand \subseteq Slab
  /\ free \subseteq Obj
  /\ at \in [Handle -> Obj \cup {None}]
  /\ held \subseteq Handle
  /\ pc \in {"idle", "pick", "claim", "next", "recheck", "move", "drop",
             "bulk", "release", "restore"}
  /\ cur \in Slab \cup {None}
  /\ claimed \subseteq Obj /\ live \subseteq Obj /\ todo \subseteq Obj
  /\ moved \subseteq Obj
  /\ old \in Obj \cup {None} /\ new \in Obj \cup {None}
  /\ emptied \in BOOLEAN
  /\ refused \in 0..GiveUp

\* The pass works on a slab and has claimed its free objects.
Evacuating == pc \in {"next", "recheck", "move", "drop", "bulk", "release"}

\* Every object has one holder: its freelist, the chain the pass claimed, the
\* objects it collected, the replacement it is about to fill, or one handle.
\* A second holder is an object handed out twice or freed twice, none is one
\* that is lost with its page for good.
Taken == claimed \cup moved \cup ({new} \ {None}) \cup LiveObjects
OneHolder ==
  /\ \A h1, h2 \in Handle : at[h1] = at[h2] /\ at[h1] # None => h1 = h2
  /\ free \cap Taken = {}
  /\ claimed \cap (moved \cup {new} \cup LiveObjects) = {}
  /\ moved \cap ({new} \cup LiveObjects) = {}
  /\ new \notin LiveObjects
  /\ { o \in Obj : SlabOf[o] \in page } = free \cup Taken

\* The partial list holds exactly the slabs an allocation can be served from: one
\* without a free object would be taken off no list when it empties, and one with
\* a free object that is on no list is lost to the allocator. What the pass took
\* off the list and has not claimed yet is the exception, and still has some.
Waiting == IF pc = "claim" THEN cand \cup {cur} ELSE cand
NoSlabLost ==
  /\ partial = { s \in Slab : FreeOf(s) # {} } \ Waiting
  /\ \A s \in Waiting : FreeOf(s) # {}

\* The claimed objects keep the page from going back to the page allocator
\* while the callback, the bulk free and the loop still look at it, and the
\* candidates keep theirs although their owners may free everything.
PageStays ==
  /\ cand \subseteq page
  /\ cur # None => cur \in page
  /\ Evacuating => claimed # {} /\ claimed \subseteq ObjectsOf(cur)

\* The list of live objects only goes stale one way: whatever was not claimed
\* is on it, so a slab whose every listed object was moved has none in use when
\* the pass says it is emptied.
EmptiedMeansVacated ==
  pc = "bulk" /\ moved = live => ObjectsOf(cur) \subseteq claimed \cup moved

\* Between two passes nothing is claimed, collected or set aside: with OneHolder,
\* every object that is not on a freelist belongs to an owner again.
NothingKept ==
  pc = "idle" => /\ cand = {} /\ claimed = {} /\ moved = {}
                 /\ new = None /\ cur = None

\* What the pass says of a slab is so, and what it took it gives back: the two
\* ends of slab_evacuate() and slab_defrag_node().
PassTidy == EmptiedMeansVacated /\ NothingKept

\* How the private state of the pass fits together, step by step: what the
\* other invariants need to be inductive.
PassShape ==
  /\ pc = "idle" => cand = {}
  /\ cur # None <=> pc = "claim" \/ Evacuating
  /\ cur \notin cand
  /\ ~Evacuating => claimed = {} /\ live = {} /\ todo = {} /\ moved = {}
  /\ Evacuating => ObjectsOf(cur) \subseteq claimed \cup live
  /\ moved \subseteq live /\ live \subseteq ObjectsOf(cur)
  /\ todo \subseteq live /\ todo \cap moved = {}
  /\ pc = "release" => moved = {}
  /\ new # None <=> pc \in {"recheck", "move", "drop"}
  /\ old # None <=> new # None
  /\ old # None => old \in live /\ old \notin todo /\ old \notin moved
  /\ pc = "restore" <=> refused = GiveUp /\ pc # "idle"

\* The inductive invariant of the proofs.
IInv ==
  /\ TypeOK
  /\ OneHolder
  /\ NoSlabLost
  /\ PageStays
  /\ EmptiedMeansVacated
  /\ NothingKept
  /\ PassShape

\* A pass ends, however much the owners do meanwhile.
PassEnds == pc # "idle" ~> pc = "idle"

\* To its owners the cache is a store that moves what nobody holds.
Store == INSTANCE ObjectStore WITH
           Obj <- Obj, Handle <- Handle, None <- None, at <- at, held <- held
Implements == Store!Spec
=============================================================================

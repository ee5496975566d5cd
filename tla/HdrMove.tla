------------------------------ MODULE HdrMove ------------------------------
(***************************************************************************)
(* ARC headers, which the allocator may ask to have moved: what looks them *)
(* up, holds and evicts them, and arc_hdr_move() under the bridge that     *)
(* prepares and clears up after it.                                        *)
(*                                                                         *)
(* The slot handed to the callback was taken for a live header a while     *)
(* ago. Its owner may have freed it since, and somebody else may have got  *)
(* it, so the callback finds out from the contents alone.                  *)
(***************************************************************************)
EXTENDS Integers, FiniteSets, SequencesExt

CONSTANTS
  Slot,     \* memory of the header cache
  Id,       \* identities: dva, birth
  Lock,     \* hash locks
  LockOf,   \* the lock that covers an identity
  Thread,   \* who reads through the ARC
  Mover, Evictor,
  Mark,     \* the slot of the evictor's list marker
  None

ASSUME LockOfAssumption == LockOf \in [Id -> Lock]
ASSUME MarkAssumption == Mark \in Slot
ASSUME NoneAssumption == None \notin Slot \cup Id \cup Lock
ASSUME ActorAssumption ==
  Mover # Evictor /\ {Mover, Evictor, None} \cap Thread = {} /\ None # Mover
  /\ None # Evictor

VARIABLES
  owned,    \* slots the allocator has handed out
  ident,    \* identity in the slot, None when it is empty
  refs,     \* b_refcnt of the slot, and all else that makes a header busy
  table,    \* the slot an identity hashes to
  list,     \* the sublist of its state: what may be evicted, and the marker
  hash,     \* who holds each hash lock
  sublist,  \* who holds the sublist lock
  charged,  \* ARC_SPACE_HDRS, in headers
  th,       \* th[t]: what each thread is at
  mv,       \* what the callback is at
  ev        \* the header the evictor has locked

vars == <<owned, ident, refs, table, list, hash, sublist, charged, th, mv, ev>>

Idle == [pc |-> "idle", slot |-> None, id |-> None]
Free == [pc |-> "idle", old |-> None, new |-> None, lock |-> None, rc |-> None]

Hashed == { table[i] : i \in Id } \ {None}
Unlocked(i) == hash[LockOf[i]] = None

\* list_remove()
PlaceOf(s) == CHOOSE n \in DOMAIN list : list[n] = s
Without(s) == RemoveAt(list, PlaceOf(s))

-----------------------------------------------------------------------------
(* Those who read. *)

\* arc_hdr_alloc(): constructed, so empty; this is where it is accounted for.
Alloc(t, i) ==
  /\ th[t].pc = "idle"
  /\ \E s \in Slot \ owned :
       /\ owned' = owned \cup {s}
       /\ ident' = [ident EXCEPT ![s] = None]
       /\ refs' = [refs EXCEPT ![s] = 0]
       /\ th' = [th EXCEPT ![t] = [pc |-> "new", slot |-> s, id |-> i]]
  /\ charged' = charged + 1
  /\ UNCHANGED <<table, list, hash, sublist, mv, ev>>

\* The identity is written before any lock is taken.
Identify(t) ==
  /\ th[t].pc = "new"
  /\ ident' = [ident EXCEPT ![th[t].slot] = th[t].id]
  /\ th' = [th EXCEPT ![t].pc = "insert"]
  /\ UNCHANGED <<owned, refs, table, list, hash, sublist, charged, mv, ev>>

\* buf_hash_insert(), and the io that fills it holds it; or there is one.
Insert(t) ==
  /\ th[t].pc = "insert" /\ Unlocked(th[t].id)
  /\ IF table[th[t].id] = None
     THEN /\ table' = [table EXCEPT ![th[t].id] = th[t].slot]
          /\ refs' = [refs EXCEPT ![th[t].slot] = 1]
          /\ th' = [th EXCEPT ![t].pc = "held"]
     ELSE /\ th' = [th EXCEPT ![t].pc = "beaten"]
          /\ UNCHANGED <<table, refs>>
  /\ UNCHANGED <<owned, ident, list, hash, sublist, charged, mv, ev>>

Destroyed(t, charge) ==
  /\ th[t].pc = "beaten"
  /\ ident' = [ident EXCEPT ![th[t].slot] = None]
  /\ owned' = owned \ {th[t].slot}
  /\ charged' = charge
  /\ th' = [th EXCEPT ![t] = Idle]
  /\ UNCHANGED <<refs, table, list, hash, sublist, mv, ev>>

\* Variant of the next step: nothing is refunded.
DestroyUnrefunded(t) == Destroyed(t, charged)

\* arc_hdr_destroy() of the header that came second.
Destroy(t) == Destroyed(t, charged - 1)

\* A hit: found and held under the hash lock, off the list with the first hold.
Hold(t, i) ==
  /\ th[t].pc = "idle" /\ Unlocked(i) /\ table[i] # None
  /\ LET s == table[i] IN
     /\ refs[s] = 0 => sublist = None
     /\ refs' = [refs EXCEPT ![s] = @ + 1]
     /\ list' = IF refs[s] = 0 THEN Without(s) ELSE list
     /\ th' = [th EXCEPT ![t] = [pc |-> "held", slot |-> s, id |-> i]]
  /\ UNCHANGED <<owned, ident, table, hash, sublist, charged, mv, ev>>

\* The last hold puts it back at the head of the list.
Release(t) ==
  /\ th[t].pc = "held" /\ Unlocked(th[t].id)
  /\ LET s == th[t].slot IN
     /\ refs[s] = 1 => sublist = None
     /\ refs' = [refs EXCEPT ![s] = @ - 1]
     /\ list' = IF refs[s] = 1 THEN <<s>> \o list ELSE list
  /\ th' = [th EXCEPT ![t] = Idle]
  /\ UNCHANGED <<owned, ident, table, hash, sublist, charged, mv, ev>>

-----------------------------------------------------------------------------
(* The evictor: walks towards the head, its marker behind it. *)

Walk ==
  /\ sublist = None
  /\ sublist' = Evictor
  /\ list' = Append(Without(Mark), Mark)
  /\ UNCHANGED <<owned, ident, refs, table, hash, charged, th, mv, ev>>

\* The marker passes the header, whose hash lock is only tried.
Pass ==
  /\ sublist = Evictor /\ ev = None
  /\ PlaceOf(Mark) > 1
  /\ LET n == PlaceOf(Mark)
         s == list[n - 1] IN
     /\ list' = [list EXCEPT ![n] = s, ![n - 1] = Mark]
     /\ IF Unlocked(ident[s])
        THEN ev' = s /\ hash' = [hash EXCEPT ![LockOf[ident[s]]] = Evictor]
        ELSE UNCHANGED <<ev, hash>>
  /\ UNCHANGED <<owned, ident, refs, table, sublist, charged, th, mv>>

\* arc_evict_hdr() of a header that may go altogether.
Evict ==
  /\ ev # None
  /\ table' = [table EXCEPT ![ident[ev]] = None]
  /\ list' = Without(ev)
  /\ ident' = [ident EXCEPT ![ev] = None]
  /\ owned' = owned \ {ev}
  /\ charged' = charged - 1
  /\ hash' = [hash EXCEPT ![LockOf[ident[ev]]] = None]
  /\ ev' = None
  /\ UNCHANGED <<refs, sublist, th, mv>>

Spare ==
  /\ ev # None
  /\ hash' = [hash EXCEPT ![LockOf[ident[ev]]] = None]
  /\ ev' = None
  /\ UNCHANGED <<owned, ident, refs, table, list, sublist, charged, th, mv>>

\* The batch is full, or the head reached. The marker stays where it is until
\* the next batch.
Pause ==
  /\ sublist = Evictor /\ ev = None
  /\ sublist' = None
  /\ UNCHANGED <<owned, ident, refs, table, list, hash, charged, th, mv, ev>>

Resume ==
  /\ sublist = None
  /\ sublist' = Evictor
  /\ UNCHANGED <<owned, ident, refs, table, list, hash, charged, th, mv, ev>>

-----------------------------------------------------------------------------
(* The callback. *)

\* The pass chose old while somebody had it, and spl_kmem_cache_move_cb() has
\* constructed its replacement.
Offer(old, new) ==
  /\ mv.pc = "idle"
  /\ old \in owned /\ new \notin owned
  /\ owned' = owned \cup {new}
  /\ ident' = [ident EXCEPT ![new] = None]
  /\ refs' = [refs EXCEPT ![new] = 0]
  /\ mv' = [Free EXCEPT !.pc = "look", !.old = old, !.new = new]
  /\ UNCHANGED <<table, list, hash, sublist, charged, th, ev>>

Answer(rc) == mv' = [mv EXCEPT !.pc = "answer", !.rc = rc, !.lock = None]

\* No identity: on its way in or out. Or moving is switched off.
NotLive ==
  /\ mv.pc = "look"
  /\ Answer("dont_know")
  /\ UNCHANGED <<owned, ident, refs, table, list, hash, sublist, charged, th, ev>>

\* HDR_LOCK() of what the slot says at this moment.
ReadLock ==
  /\ mv.pc = "look" /\ ident[mv.old] # None
  /\ mv' = [mv EXCEPT !.pc = "lock", !.lock = LockOf[ident[mv.old]]]
  /\ UNCHANGED <<owned, ident, refs, table, list, hash, sublist, charged, th, ev>>

TryHash ==
  /\ mv.pc = "lock"
  /\ IF hash[mv.lock] = None
     THEN /\ hash' = [hash EXCEPT ![mv.lock] = Mover]
          /\ mv' = [mv EXCEPT !.pc = "recheck"]
     ELSE Answer("later") /\ UNCHANGED hash
  /\ UNCHANGED <<owned, ident, refs, table, list, sublist, charged, th, ev>>

Rechecked(same, busy) ==
  /\ mv.pc = "recheck"
  /\ IF ~same THEN Answer("dont_know") ELSE
     IF busy THEN Answer("later") ELSE mv' = [mv EXCEPT !.pc = "list"]
  /\ hash' = IF ~same \/ busy THEN [hash EXCEPT ![mv.lock] = None] ELSE hash
  /\ UNCHANGED <<owned, ident, refs, table, list, sublist, charged, th, ev>>

SameLock == ident[mv.old] # None /\ LockOf[ident[mv.old]] = mv.lock

\* Variants of the next step: what was read without the lock is relied upon;
\* the table is not asked; a hold is.
RecheckNothing == Rechecked(ident[mv.old] # None, refs[mv.old] # 0)
RecheckUnhashed == Rechecked(SameLock, refs[mv.old] # 0)
RecheckHeld == Rechecked(SameLock /\ mv.old \in Hashed, FALSE)

\* The contents again, now that they cannot change; then whether it is in use.
Recheck == Rechecked(SameLock /\ mv.old \in Hashed, refs[mv.old] # 0)

\* Variant of the next step: it waits for the lock, as arc_hdr_move() did before
\* it had to run under rcu.
TrySublistWaits ==
  /\ mv.pc = "list" /\ sublist = None
  /\ mv' = [mv EXCEPT !.pc = "copy"] /\ sublist' = Mover
  /\ UNCHANGED <<owned, ident, refs, table, list, hash, charged, th, ev>>

\* multilist_sublist_trylock_obj() for a header that is on the list.
TrySublist ==
  /\ mv.pc = "list"
  /\ IF sublist # None
     THEN Answer("later") /\ hash' = [hash EXCEPT ![mv.lock] = None]
          /\ UNCHANGED sublist
     ELSE mv' = [mv EXCEPT !.pc = "copy"] /\ sublist' = Mover /\ UNCHANGED hash
  /\ UNCHANGED <<owned, ident, refs, table, list, charged, th, ev>>

Copied(newList) ==
  /\ mv.pc = "copy"
  /\ ident' = [ident EXCEPT ![mv.new] = ident[mv.old]]
  /\ refs' = [refs EXCEPT ![mv.new] = refs[mv.old]]
  /\ table' = [table EXCEPT ![ident[mv.old]] = mv.new]
  /\ list' = newList
  /\ sublist' = None
  /\ mv' = [mv EXCEPT !.pc = "discard"]
  /\ UNCHANGED <<owned, hash, charged, th, ev>>

\* Variants of the next step: at the head of the list; not on the list at all.
CopyToHead == Copied(<<mv.new>> \o Without(mv.old))
CopyOffList == Copied(list)

\* The copy takes the place of old in the table and in the list.
Copy == Copied([n \in DOMAIN list |-> IF list[n] = mv.old THEN mv.new ELSE list[n]])

\* buf_discard_identity(): old is as its destructor expects it.
Discard ==
  /\ mv.pc = "discard"
  /\ ident' = [ident EXCEPT ![mv.old] = None]
  /\ hash' = [hash EXCEPT ![mv.lock] = None]
  /\ Answer("yes")
  /\ UNCHANGED <<owned, refs, table, list, sublist, charged, th, ev>>

\* The bridge destroys, and the allocator frees, old when it was moved and new
\* when it was not.
Settle ==
  /\ mv.pc = "answer"
  /\ owned' = owned \ {IF mv.rc = "yes" THEN mv.old ELSE mv.new}
  /\ mv' = Free
  /\ UNCHANGED <<ident, refs, table, list, hash, sublist, charged, th, ev>>

-----------------------------------------------------------------------------
Init ==
  /\ owned = {Mark}
  /\ ident = [s \in Slot |-> None]
  /\ refs = [s \in Slot |-> 0]
  /\ table = [i \in Id |-> None]
  /\ list = <<Mark>>
  /\ hash = [l \in Lock |-> None]
  /\ sublist = None
  /\ charged = 1
  /\ th = [t \in Thread |-> Idle]
  /\ mv = Free
  /\ ev = None

Arc ==
  \/ \E t \in Thread : \/ \E i \in Id : Alloc(t, i) \/ Hold(t, i)
                       \/ Identify(t) \/ Insert(t) \/ Destroy(t) \/ Release(t)
  \/ Walk \/ Pass \/ Evict \/ Spare \/ Pause \/ Resume

Callback ==
  \/ NotLive \/ ReadLock \/ TryHash \/ Recheck \/ TrySublist
  \/ Copy \/ Discard \/ Settle

Next ==
  \/ Arc
  \/ \E old, new \in Slot : Offer(old, new)
  \/ Callback

Spec == Init /\ [][Next]_vars

\* Nothing the callback does waits for anybody.
Lively == Spec /\ WF_vars(Callback)

-----------------------------------------------------------------------------
TypeOK ==
  /\ owned \subseteq Slot
  /\ ident \in [Slot -> Id \cup {None}]
  /\ refs \in [Slot -> Nat]
  /\ table \in [Id -> Slot \cup {None}]
  /\ \A n \in DOMAIN list : list[n] \in Slot
  /\ hash \in [Lock -> {Mover, Evictor, None}]
  /\ sublist \in {Mover, Evictor, None}
  /\ charged \in Nat
  /\ th \in [Thread -> [pc : {"idle", "new", "insert", "beaten", "held"},
                        slot : Slot \cup {None}, id : Id \cup {None}]]
  /\ mv \in [pc : {"idle", "look", "lock", "recheck", "list", "copy",
                   "discard", "answer"},
             old : Slot \cup {None}, new : Slot \cup {None},
             lock : Lock \cup {None}, rc : {"yes", "later", "dont_know", None}]
  /\ ev \in Slot \cup {None}

\* Whoever holds a header by a pointer finds it there, and so does a lookup.
HeldInPlace ==
  \A t \in Thread : th[t].pc = "held" =>
    /\ th[t].slot \in owned
    /\ ident[th[t].slot] = th[t].id
    /\ table[th[t].id] = th[t].slot

\* A lookup finds a header with the identity it asked for, in memory that is the
\* header's, and every header that could be found is. Memory that went back to
\* the allocator carries no identity, so a callback offered it later can tell.
TableSound ==
  /\ \A i \in Id : table[i] # None =>
       table[i] \in owned /\ ident[table[i]] = i
  /\ \A s \in Slot : ident[s] # None =>
       \/ s \in Hashed
       \/ \E t \in Thread : th[t].slot = s /\ th[t].pc \in {"insert", "beaten"}
       \/ mv.pc = "discard" /\ mv.old = s
  /\ \A s \in Slot \ owned : ident[s] = None

\* What may be evicted is what is cached and not held, each once.
ListSound ==
  /\ \A m, n \in DOMAIN list : list[m] = list[n] => m = n
  /\ ToSet(list) = {Mark} \cup { s \in Hashed : refs[s] = 0 }

\* A header that is moved is found by a lookup, and by the evictor, at every step.
Findable == TableSound /\ ListSound

\* Every header is accounted for once, wherever it moved and however often the
\* constructor ran.
ChargedOnce ==
  charged = Cardinality(owned) - (IF mv.pc = "idle" THEN 0 ELSE 1)

\* A move is invisible in the list: same headers, same order, same place of the
\* marker the evictor goes on from.
Order == [n \in DOMAIN list |->
            IF list[n] = Mark THEN Mark ELSE ident[list[n]]]
OrderKept == [][Callback => Order' = Order]_vars

\* To those who look headers up, ARC is a store that moves what nobody holds: a move
\* is one step, after which the identity is found at the copy.
Lookups == INSTANCE ObjectStore WITH
             Obj <- Slot, Handle <- Id, None <- None, at <- table,
             held <- { i \in Id : table[i] # None /\ refs[table[i]] # 0 }
HeadersStored == Lookups!Spec

\* The allocator has its answer in the end.
Answered == mv.pc # "idle" ~> mv.pc = "idle"
=============================================================================

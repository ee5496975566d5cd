------------------------------ MODULE DnodeMove ------------------------------
(***************************************************************************)
(* dnode_move(), the other callback of ZFS that relocates. A dnode is      *)
(* reached through its handle; who uses it has a hold, which is counted,   *)
(* and so has each of its dbufs, for as long as it lives and whether it is *)
(* used or not. A dnode with no holds but those of its dbufs may move.     *)
(*                                                                         *)
(* One dnode is enough, in memory that may be given out again.             *)
(***************************************************************************)
EXTENDS Integers, FiniteSets

CONSTANTS
  Place,   \* memory of the dnode cache
  Task,    \* threads that use the dnode
  DnodeMover,
  MaxDbufs, \* bound: dbufs of the dnode
  None

DnodeAssumption ==
  /\ IsFiniteSet(Task) /\ MaxDbufs \in Nat
  /\ None \notin Task \cup Place \cup {DnodeMover, "YES"} /\ DnodeMover \notin Task

VARIABLES
  given,   \* places the allocator has handed out
  valid,   \* places with a dn_objset that passes POINTER_IS_VALID()
  handle,  \* dnh_dnode
  zrl,     \* who is in dnh_zrlock
  osLock, objsetLock, \* os_lock and os->os_lock
  mtx,     \* dn_mtx of each place
  holds, dbufs, \* dn_holds, and the dbufs among them
  task,    \* what each thread is at, and the place it believes the dnode at
  move     \* what the callback is at

vars == <<given, valid, handle, zrl, osLock, objsetLock, mtx, holds, dbufs, task, move>>
locks == <<zrl, osLock, objsetLock, mtx>>

Still == [pc |-> "idle", place |-> None]
NoMove == [pc |-> "idle", old |-> None, new |-> None, answer |-> None]

-----------------------------------------------------------------------------
(* Who uses the dnode. *)

At(t, pc) == task[t].pc = pc
Go(t, pc) == task' = [task EXCEPT ![t].pc = pc]

\* It has found the dnode, and is not done with it.
Using(t) == task[t].pc \notin {"idle", "fresh", "frees"}

\* dnode_create(): from the constructor on dn_objset is not valid; it is set
\* last of all, under os->os_lock.
Construct(t) ==
  /\ At(t, "idle") /\ handle = None /\ zrl = {} /\ \A u \in Task : ~At(u, "fresh")
  /\ \E p \in Place \ given :
       /\ given' = given \cup {p} /\ valid' = valid \ {p}
       /\ task' = [task EXCEPT ![t] = [pc |-> "fresh", place |-> p]]
  /\ UNCHANGED <<handle, locks, holds, dbufs, move>>
Create(t) ==
  /\ At(t, "fresh") /\ objsetLock = None
  /\ handle' = task[t].place /\ valid' = valid \cup {task[t].place}
  /\ holds' = 1 /\ Go(t, "holds")
  /\ UNCHANGED <<given, locks, dbufs, move>>

\* dnode_hold(): in the handle, and there under dn_mtx.
EnterHandle(t) ==
  /\ At(t, "idle") /\ handle # None /\ DnodeMover \notin zrl
  /\ zrl' = zrl \cup {t}
  /\ task' = [task EXCEPT ![t] = [pc |-> "handle", place |-> handle]]
  /\ UNCHANGED <<given, valid, handle, osLock, objsetLock, mtx, holds, dbufs, move>>
EnterMtx(t, from, to) ==
  /\ At(t, from) /\ mtx[task[t].place] = None
  /\ mtx' = [mtx EXCEPT ![task[t].place] = t] /\ Go(t, to)
  /\ UNCHANGED <<given, valid, handle, zrl, osLock, objsetLock, holds, dbufs, move>>
Hold(t) ==
  /\ At(t, "adding")
  /\ holds' = holds + 1
  /\ mtx' = [mtx EXCEPT ![task[t].place] = None]
  /\ zrl' = zrl \ {t} /\ Go(t, "holds")
  /\ UNCHANGED <<given, valid, handle, osLock, objsetLock, dbufs, move>>

\* dbuf_create() by one who has a hold; the new dbuf has one of its own.
AddDbuf(t) ==
  /\ At(t, "holds") /\ dbufs < MaxDbufs
  /\ dbufs' = dbufs + 1 /\ holds' = holds + 1
  /\ UNCHANGED <<given, valid, handle, locks, task, move>>
\* dbuf_destroy(): the dbuf is no longer counted, then its hold goes.
DropDbuf(t) ==
  /\ At(t, "handle") /\ dbufs > 0
  /\ dbufs' = dbufs - 1 /\ Go(t, "orphan")
  /\ UNCHANGED <<given, valid, handle, locks, holds, move>>

\* dnode_rele_and_unlock(): the hold, and then dn_mtx.
Rele(t) ==
  /\ At(t, "dropping")
  /\ holds' = holds - 1 /\ Go(t, "dropped")
  /\ UNCHANGED <<given, valid, handle, locks, dbufs, move>>
Unlock(t) ==
  /\ At(t, "dropped")
  /\ mtx' = [mtx EXCEPT ![task[t].place] = None]
  /\ zrl' = zrl \ {t}
  /\ task' = [task EXCEPT ![t] = Still]
  /\ UNCHANGED <<given, valid, handle, osLock, objsetLock, holds, dbufs, move>>

\* dnode_destroy(), of a dnode nobody has a hold on and in its locked handle;
\* the memory goes back afterwards.
Destroy(t) ==
  /\ At(t, "handle") /\ zrl = {t} /\ holds = 0 /\ objsetLock = None
  /\ mtx[handle] = None
  /\ valid' = valid \ {handle} /\ handle' = None
  /\ zrl' = {} /\ Go(t, "frees")
  /\ UNCHANGED <<given, osLock, objsetLock, mtx, holds, dbufs, move>>
GiveBack(t) ==
  /\ At(t, "frees")
  /\ given' = given \ {task[t].place}
  /\ task' = [task EXCEPT ![t] = Still]
  /\ UNCHANGED <<valid, handle, locks, holds, dbufs, move>>

\* Others have os_lock, or os->os_lock, for a while.
OthersLock ==
  /\ \/ osLock \in {None, "others"} /\ UNCHANGED objsetLock
        /\ osLock' = IF osLock = None THEN "others" ELSE None
     \/ objsetLock \in {None, "others"} /\ UNCHANGED osLock
        /\ objsetLock' = IF objsetLock = None THEN "others" ELSE None
  /\ UNCHANGED <<given, valid, handle, zrl, mtx, holds, dbufs, task, move>>

-----------------------------------------------------------------------------
(* dnode_move() *)

Moving(pc) == move.pc = pc
Onto(pc) == move' = [move EXCEPT !.pc = pc]
Owners == <<given, valid, handle, holds, dbufs, task>>

\* All it has taken is given back with the answer.
Refuse(answer) ==
  /\ move' = [move EXCEPT !.pc = "answered", !.answer = answer]
  /\ zrl' = zrl \ {DnodeMover}
  /\ osLock' = IF osLock = DnodeMover THEN None ELSE osLock
  /\ objsetLock' = IF objsetLock = DnodeMover THEN None ELSE objsetLock
  /\ UNCHANGED <<Owners, mtx>>

\* The place was given out when the allocator looked; that was a while ago.
OfferDnode ==
  /\ Moving("idle")
  /\ \E old \in given, new \in Place \ given :
       /\ move' = [pc |-> "offered", old |-> old, new |-> new, answer |-> None]
       /\ given' = given \cup {new}
  /\ UNCHANGED <<valid, handle, locks, holds, dbufs, task>>

TryOsLock ==
  /\ Moving("offered")
  /\ IF move.old \notin valid THEN Refuse("DONT_KNOW")
     ELSE IF osLock # None THEN Refuse("LATER")
     ELSE /\ osLock' = DnodeMover /\ Onto("os_lock")
          /\ UNCHANGED <<Owners, zrl, objsetLock, mtx>>

\* The objset cannot go now; its lock is tried as well, and os_lock left.
TryObjsetLock ==
  /\ Moving("os_lock")
  /\ IF move.old \notin valid THEN Refuse("DONT_KNOW")
     ELSE IF objsetLock # None THEN Refuse("LATER")
     ELSE /\ objsetLock' = DnodeMover /\ osLock' = None /\ Onto("objset")
          /\ UNCHANGED <<Owners, zrl, mtx>>

\* From here on nobody gets into the handle.
TryHandle ==
  /\ Moving("objset")
  /\ IF move.old \notin valid THEN Refuse("DONT_KNOW")
     ELSE IF zrl # {} THEN Refuse("LATER")
     ELSE /\ zrl' = {DnodeMover} /\ Onto("handle")
          /\ UNCHANGED <<Owners, osLock, objsetLock, mtx>>

CountHolds ==
  /\ Moving("handle")
  /\ IF holds > dbufs THEN Refuse("LATER")
     ELSE Onto("counted") /\ UNCHANGED <<Owners, locks>>

\* Variant of the next step: as it was before the patch.
IgnoreMtx ==
  /\ Moving("counted")
  /\ Onto("owner") /\ UNCHANGED <<Owners, locks>>
CheckMtx ==
  /\ Moving("counted")
  /\ IF mtx[move.old] # None THEN Refuse("LATER")
     ELSE Onto("owner") /\ UNCHANGED <<Owners, locks>>

\* dnode_move_impl(): the handle names the copy, the old place is vacated.
CopyDnode ==
  /\ Moving("owner")
  /\ handle' = move.new
  /\ valid' = (valid \ {move.old}) \cup {move.new}
  /\ move' = [move EXCEPT !.pc = "answered", !.answer = "YES"]
  /\ zrl' = {} /\ objsetLock' = None
  /\ UNCHANGED <<given, holds, dbufs, task, osLock, mtx>>

\* Whichever place is left over is destroyed and given back.
SettleDnode ==
  /\ Moving("answered")
  /\ given' = given \ {IF move.answer = "YES" THEN move.old ELSE move.new}
  /\ move' = NoMove
  /\ UNCHANGED <<valid, handle, locks, holds, dbufs, task>>

-----------------------------------------------------------------------------
Init ==
  /\ given = {} /\ handle = None
  /\ valid \in SUBSET Place  \* memory holds anything until it is constructed
  /\ zrl = {} /\ osLock = None /\ objsetLock = None
  /\ mtx = [p \in Place |-> None]
  /\ holds = 0 /\ dbufs = 0
  /\ task = [t \in Task |-> Still] /\ move = NoMove

Next ==
  \/ \E t \in Task :
       \/ Construct(t) \/ Create(t) \/ EnterHandle(t)
       \/ EnterMtx(t, "handle", "adding") \/ Hold(t)
       \/ AddDbuf(t) \/ DropDbuf(t)
       \/ EnterMtx(t, "holds", "dropping") \/ EnterMtx(t, "orphan", "dropping")
       \/ Rele(t) \/ Unlock(t) \/ Destroy(t) \/ GiveBack(t)
  \/ OthersLock
  \/ OfferDnode \/ TryOsLock \/ TryObjsetLock \/ TryHandle \/ CountHolds \/ CheckMtx
  \/ CopyDnode \/ SettleDnode

Spec == Init /\ [][Next]_vars

-----------------------------------------------------------------------------
TypeOK ==
  /\ given \subseteq Place /\ valid \subseteq Place /\ handle \in Place \cup {None}
  /\ zrl \subseteq Task \cup {DnodeMover}
  /\ mtx \in [Place -> Task \cup {None}]
  /\ holds \in Nat /\ dbufs \in Nat
  /\ task \in [Task -> [pc : {"idle", "fresh", "handle", "adding", "holds", "orphan",
                             "dropping", "dropped", "frees"},
                       place : Place \cup {None}]]
  /\ move \in [pc : {"idle", "offered", "os_lock", "objset", "handle", "counted", "owner",
                     "answered"},
               old : Place \cup {None}, new : Place \cup {None},
               answer : {None, "YES", "LATER", "DONT_KNOW"}]

\* A dnode moves under nobody: who holds it, or is on the way out of it, finds it
\* where it was, and the place that is vacated has a mutex that can be destroyed.
\* (dnode_move(), of a dnode that is being held, released, destroyed and made
\* anew meanwhile.)
MovedUnderNobody ==
  /\ \A t \in Task : Using(t) => task[t].place = handle
  /\ Moving("answered") =>
       mtx[IF move.answer = "YES" THEN move.old ELSE move.new] = None
  /\ handle # None => handle \in given

\* To those who go through the handle it is a store of one dnode, which moves when
\* nobody is on the way in or out, or in it.
Handles == INSTANCE ObjectStore WITH
             Obj <- Place, Handle <- {"dnode"}, None <- None,
             at <- [h \in {"dnode"} |-> handle],
             held <- { h \in {"dnode"} : \E t \in Task : Using(t) }
DnodeStored == Handles!Spec
=============================================================================

---------------------------- MODULE MCCallbacks ----------------------------
(***************************************************************************)
(* The two callbacks that move objects of ZFS. They share nothing: each    *)
(* behaviour is one of HdrMove, or one of DnodeMove, while the other       *)
(* component stays in an initial state.                                    *)
(* Three identities under two hash locks, two of them sharing one.         *)
(***************************************************************************)
EXTENDS HdrMove, TLC

CONSTANTS i1, i2, i3, l1, l2, Place, Task, DnodeMover, MaxDbufs
ThreeIds == {i1, i2, i3}
SharedLock == i1 :> l1 @@ i2 :> l2 @@ i3 :> l2

VARIABLES given, valid, handle, zrl, osLock, objsetLock, mtx, holds, dbufs, task, move
VARIABLE component

Dnode == INSTANCE DnodeMove
dnodeVars == <<given, valid, handle, zrl, osLock, objsetLock, mtx, holds, dbufs, task, move>>

ASSUME CallbacksAssumption == Dnode!DnodeAssumption

InHdr == component = "hdr"
InDnode == component = "dnode"
NoDnode == UNCHANGED <<dnodeVars, component>>
NoHdr == UNCHANGED <<vars, component>>

InitOfOne ==
  /\ component \in {"hdr", "dnode"}
  /\ Init /\ Dnode!Init
  /\ InHdr => valid = {}

NextOfOne ==
  \/ \E t \in Thread :
       \/ \E i \in Id : (InHdr /\ Alloc(t, i) /\ NoDnode) \/ (InHdr /\ Hold(t, i) /\ NoDnode)
       \/ (InHdr /\ Identify(t) /\ NoDnode) \/ (InHdr /\ Insert(t) /\ NoDnode)
       \/ (InHdr /\ Destroy(t) /\ NoDnode) \/ (InHdr /\ Release(t) /\ NoDnode)
  \/ (InHdr /\ Walk /\ NoDnode) \/ (InHdr /\ Pass /\ NoDnode)
  \/ (InHdr /\ Evict /\ NoDnode) \/ (InHdr /\ Spare /\ NoDnode)
  \/ (InHdr /\ Pause /\ NoDnode) \/ (InHdr /\ Resume /\ NoDnode)
  \/ \E old, new \in Slot : InHdr /\ Offer(old, new) /\ NoDnode
  \/ (InHdr /\ NotLive /\ NoDnode) \/ (InHdr /\ ReadLock /\ NoDnode)
  \/ (InHdr /\ TryHash /\ NoDnode) \/ (InHdr /\ Recheck /\ NoDnode)
  \/ (InHdr /\ TrySublist /\ NoDnode) \/ (InHdr /\ Copy /\ NoDnode)
  \/ (InHdr /\ Discard /\ NoDnode) \/ (InHdr /\ Settle /\ NoDnode)
  \/ \E t \in Task :
       \/ (InDnode /\ Dnode!Construct(t) /\ NoHdr) \/ (InDnode /\ Dnode!Create(t) /\ NoHdr)
       \/ (InDnode /\ Dnode!EnterHandle(t) /\ NoHdr) \/ (InDnode /\ Dnode!Hold(t) /\ NoHdr)
       \/ (InDnode /\ Dnode!EnterMtx(t, "handle", "adding") /\ NoHdr)
       \/ (InDnode /\ Dnode!AddDbuf(t) /\ NoHdr) \/ (InDnode /\ Dnode!DropDbuf(t) /\ NoHdr)
       \/ (InDnode /\ Dnode!EnterMtx(t, "holds", "dropping") /\ NoHdr)
       \/ (InDnode /\ Dnode!EnterMtx(t, "orphan", "dropping") /\ NoHdr)
       \/ (InDnode /\ Dnode!Rele(t) /\ NoHdr) \/ (InDnode /\ Dnode!Unlock(t) /\ NoHdr)
       \/ (InDnode /\ Dnode!Destroy(t) /\ NoHdr) \/ (InDnode /\ Dnode!GiveBack(t) /\ NoHdr)
  \/ (InDnode /\ Dnode!OthersLock /\ NoHdr) \/ (InDnode /\ Dnode!OfferDnode /\ NoHdr)
  \/ (InDnode /\ Dnode!TryOsLock /\ NoHdr) \/ (InDnode /\ Dnode!TryObjsetLock /\ NoHdr)
  \/ (InDnode /\ Dnode!TryHandle /\ NoHdr) \/ (InDnode /\ Dnode!CountHolds /\ NoHdr)
  \/ (InDnode /\ Dnode!CheckMtx /\ NoHdr) \/ (InDnode /\ Dnode!CopyDnode /\ NoHdr)
  \/ (InDnode /\ Dnode!SettleDnode /\ NoHdr)

SpecOfOne ==
  /\ InitOfOne /\ [][NextOfOne]_<<vars, dnodeVars, component>>
  /\ WF_vars(InHdr /\ Callback)

\* DnodeMove's MovedUnderNobody: a dnode moves under nobody. (dnode_move())
MovedUnderNobody == Dnode!MovedUnderNobody

\* Both callbacks keep to what the allocator promises the users of a cache: what
\* somebody holds stays, and what moves does so in one step to an object nobody
\* uses. (arc_hdr_move(), dnode_move())
ContractKept == HeadersStored /\ Dnode!DnodeStored

=============================================================================

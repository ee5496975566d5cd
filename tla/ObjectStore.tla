---------------------------- MODULE ObjectStore ----------------------------
(***************************************************************************)
(* What a cache promises the code that allocates from it: a handle keeps   *)
(* the object it was given until its owner frees it, no two handles share  *)
(* an object, and the only thing that may happen behind the owner's back   *)
(* is that the data of a handle nobody holds moves to an object nobody     *)
(* uses. It is also what the allocator expects of a callback that moves.   *)
(***************************************************************************)
EXTENDS Naturals

CONSTANTS
  Obj,      \* every object a slab of the cache may hold
  Handle,   \* the users' names for what they allocated
  None      \* no object

VARIABLES
  at,       \* at[h]: the object that holds the data of h
  held      \* the handles whose object somebody has a pointer to

vars == <<at, held>>

Used == { at[h] : h \in Handle } \ {None}

Init == at = [h \in Handle |-> None] /\ held = {}

Allocate(h) ==
  /\ at[h] = None
  /\ \E o \in Obj \ Used : at' = [at EXCEPT ![h] = o]
  /\ held' = held \cup {h}

Hold(h) ==
  /\ at[h] # None
  /\ held' = held \cup {h} /\ UNCHANGED at

LetGo(h) ==
  /\ held' = held \ {h} /\ UNCHANGED at

Free(h) ==
  /\ at[h] # None
  /\ at' = [at EXCEPT ![h] = None]
  /\ held' = held \ {h}

Relocate(h) ==
  /\ at[h] # None /\ h \notin held
  /\ \E o \in Obj \ Used : at' = [at EXCEPT ![h] = o]
  /\ UNCHANGED held

Next ==
  \E h \in Handle : Allocate(h) \/ Hold(h) \/ LetGo(h) \/ Free(h) \/ Relocate(h)

Spec == Init /\ [][Next]_vars
=============================================================================

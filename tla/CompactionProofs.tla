-------------------------- MODULE CompactionProofs --------------------------
(***************************************************************************)
(* Proofs about the two parts of compaction: about MobileCaches, for any   *)
(* caches, nodes and tasks, and about FreeScan, for a zone of any size and *)
(* layout and any folios.                                                  *)
(***************************************************************************)
EXTENDS MCCompaction, SequenceTheorems, FiniteSetTheorems, WellFoundedInduction, TLAPS

-----------------------------------------------------------------------------
(* Lists: what is linked, and taken out. *)

\* Nothing is linked twice.
Distinct(list) == \A i, j \in DOMAIN list : list[i] = list[j] => i = j

\* What is linked first.
LEMMA Linked ==
  ASSUME NEW S, NEW c \in S, NEW list \in Seq(S), Distinct(list), c \notin ToSet(list)
  PROVE  /\ <<c>> \o list \in Seq(S) /\ Distinct(<<c>> \o list)
         /\ ToSet(<<c>> \o list) = ToSet(list) \cup {c}
<1> DEFINE longer == <<c>> \o list
<1>1. <<c>> \in Seq(S) /\ Len(<<c>>) = 1 /\ <<c>>[1] = c
  OBVIOUS
<1>2. /\ longer \in Seq(S) /\ Len(longer) = 1 + Len(list)
      /\ \A i \in 1 .. 1 + Len(list) :
           longer[i] = IF i <= 1 THEN <<c>>[i] ELSE list[i - 1]
  BY <1>1, ConcatProperties
<1>3. /\ Len(list) \in Nat /\ DOMAIN list = 1 .. Len(list)
      /\ DOMAIN longer = 1 .. 1 + Len(list)
  BY <1>2, LenProperties
<1> HIDE DEF longer
<1>4. /\ longer[1] = c
      /\ \A i \in DOMAIN list : longer[i + 1] = list[i] /\ i + 1 \in DOMAIN longer
  BY <1>1, <1>2, <1>3
<1>5. \A i \in DOMAIN longer : i = 1 \/ (i - 1 \in DOMAIN list /\ longer[i] = list[i - 1])
  BY <1>1, <1>2, <1>3
<1>6. Distinct(longer)
  <2>1. \A i \in DOMAIN list : list[i] # c
    BY DEF ToSet
  <2> QED
    BY <1>3, <1>4, <1>5, <2>1 DEF Distinct
<1>7. ToSet(longer) = ToSet(list) \cup {c}
  <2>1. 1 \in DOMAIN longer /\ \A i \in DOMAIN list : i + 1 \in DOMAIN longer
    BY <1>3, <1>4
  <2>2. \A i \in DOMAIN longer : longer[i] = c \/ \E j \in DOMAIN list : longer[i] = list[j]
    BY <1>4, <1>5
  <2> QED
    BY <1>4, <2>1, <2>2 DEF ToSet
<1> QED
  BY <1>2, <1>6, <1>7 DEF longer

\* What is taken out.
LEMMA Unlinked ==
  ASSUME NEW S, NEW list \in Seq(S), Distinct(list), NEW here \in DOMAIN list
  PROVE  /\ RemoveAt(list, here) \in Seq(S) /\ Distinct(RemoveAt(list, here))
         /\ ToSet(RemoveAt(list, here)) = ToSet(list) \ {list[here]}
<1> DEFINE before == SubSeq(list, 1, here - 1)
           after == SubSeq(list, here + 1, Len(list))
           shorter == before \o after
<1>1. /\ Len(list) \in Nat /\ DOMAIN list = 1 .. Len(list) /\ here \in 1 .. Len(list)
      /\ \A i \in DOMAIN list : list[i] \in S
  BY LenProperties, ElementOfSeq
<1>2. /\ before \in Seq(S) /\ Len(before) = here - 1
      /\ \A i \in 1 .. here - 1 : before[i] = list[i]
  <2>1. 1 \in Int /\ here - 1 \in Int /\ \A i \in 1 .. here - 1 : list[i] \in S
    BY <1>1
  <2>2. /\ before \in Seq(S)
        /\ Len(before) = IF 1 <= here - 1 THEN (here - 1) - 1 + 1 ELSE 0
        /\ \A i \in 1 .. (here - 1) - 1 + 1 : before[i] = list[1 + i - 1]
    BY <2>1, SubSeqProperties
  <2> HIDE DEF before
  <2> QED
    BY <1>1, <2>2
<1>3. /\ after \in Seq(S) /\ Len(after) = Len(list) - here
      /\ \A i \in 1 .. Len(list) - here : after[i] = list[here + i]
  <2>1. /\ here + 1 \in Int /\ Len(list) \in Int
        /\ \A i \in here + 1 .. Len(list) : list[i] \in S
    BY <1>1
  <2>2. /\ after \in Seq(S)
        /\ Len(after) = IF here + 1 <= Len(list) THEN Len(list) - (here + 1) + 1 ELSE 0
        /\ \A i \in 1 .. Len(list) - (here + 1) + 1 : after[i] = list[(here + 1) + i - 1]
    BY <2>1, SubSeqProperties
  <2> HIDE DEF after
  <2>3. Len(after) = Len(list) - here /\ Len(list) - (here + 1) + 1 = Len(list) - here
    BY <1>1, <2>2
  <2>4. ASSUME NEW i \in 1 .. Len(list) - here
        PROVE  after[i] = list[here + i]
    <3>1. (here + 1) + i - 1 = here + i
      BY <1>1
    <3> QED
      BY <2>2, <2>3, <3>1
  <2> QED
    BY <2>2, <2>3, <2>4
<1> HIDE DEF before, after
<1>4. /\ shorter \in Seq(S) /\ Len(shorter) = Len(list) - 1
      /\ \A i \in 1 .. Len(list) - 1 :
           shorter[i] = IF i < here THEN list[i] ELSE list[i + 1]
  <2>1. /\ shorter \in Seq(S) /\ Len(shorter) = Len(before) + Len(after)
        /\ \A i \in 1 .. Len(before) + Len(after) :
             shorter[i] = IF i <= Len(before) THEN before[i] ELSE after[i - Len(before)]
    BY <1>2, <1>3, ConcatProperties
  <2> HIDE DEF shorter
  <2>2. ASSUME NEW i \in 1 .. Len(list) - 1
        PROVE  shorter[i] = IF i < here THEN list[i] ELSE list[i + 1]
    <3>1. CASE i < here
      BY <1>1, <1>2, <1>3, <2>1, <3>1
    <3>2. CASE ~(i < here)
      <4>1. i - (here - 1) \in 1 .. Len(list) - here /\ here + (i - (here - 1)) = i + 1
        BY <1>1, <3>2
      <4>2. shorter[i] = after[i - (here - 1)]
        BY <1>1, <1>2, <1>3, <2>1, <3>2
      <4> QED
        BY <1>3, <3>2, <4>1, <4>2
    <3> QED
      BY <3>1, <3>2
  <2> QED
    BY <1>1, <1>2, <1>3, <2>1, <2>2
<1>5. DOMAIN shorter = 1 .. Len(list) - 1
  BY <1>4, LenProperties
<1> HIDE DEF shorter
<1>6. Distinct(shorter)
  BY <1>1, <1>4, <1>5 DEF Distinct
<1>7. ToSet(shorter) = ToSet(list) \ {list[here]}
  <2>1. ASSUME NEW i \in DOMAIN shorter
        PROVE  \E j \in DOMAIN list : j # here /\ shorter[i] = list[j]
    <3>1. CASE i < here
      BY <1>1, <1>4, <1>5, <3>1
    <3>2. CASE ~(i < here)
      BY <1>1, <1>4, <1>5, <3>2
    <3> QED
      BY <3>1, <3>2
  <2>2. ASSUME NEW j \in DOMAIN list, j # here
        PROVE  \E i \in DOMAIN shorter : shorter[i] = list[j]
    <3>1. CASE j < here
      BY <1>1, <1>4, <1>5, <3>1
    <3>2. CASE j > here
      <4>1. j - 1 \in DOMAIN shorter /\ ~(j - 1 < here) /\ (j - 1) + 1 = j
        BY <1>1, <1>5, <3>2
      <4> QED
        BY <1>4, <1>5, <4>1
    <3> QED
      BY <1>1, <2>2, <3>1, <3>2
  <2>3. \A j \in DOMAIN list : j # here => list[j] # list[here]
    BY DEF Distinct
  <2> QED
    BY <2>1, <2>2, <2>3 DEF ToSet
<1>8. RemoveAt(list, here) = shorter
  BY DEF RemoveAt, shorter, before, after
<1> QED
  BY <1>4, <1>6, <1>7, <1>8

-----------------------------------------------------------------------------
Stages == {"idle", "enter", "entered", "next", "consider", "alloc", "work", "leave"}
Lives == {"none", "fresh", "checked", "live", "closing", "locked", "torn"}

\* What a task is at; how many slabs it has counted does not matter.
Doing(counts) ==
  [pc : Stages, cache : Cache \cup {None}, nodes : SUBSET Node, todo : SUBSET Node,
   before : counts]
AtOK == \E counts : at \in [Task -> Doing(counts)]

ShapeOK ==
  /\ life \in [Cache -> Lives] /\ slabs \in [Cache -> {"none", "raw", "ready"}]
  /\ move \subseteq Cache /\ mobile \in Seq(Cache)
  /\ readers \subseteq Task \cup Cache /\ mutex \in Task \cup Cache \cup {None}
  /\ AtOK

\* Who has the cpus for reading and the mutex.
HasMutex(t) == at[t].pc \in {"next", "consider", "alloc", "work", "leave"}
HasCpus(t) == HasMutex(t) \/ at[t].pc = "entered"

LocksOK ==
  /\ \A t \in Task : HasMutex(t) => mutex = t
  /\ \A t \in Task : HasCpus(t) => t \in readers
  /\ writer \in {"has", "slab"} => readers = {}

\* A cache has its callback from before its first slab until it is taken down, and
\* the mutex while it is set up.
LifeOK ==
  /\ \A c \in move : life[c] \in {"live", "closing", "locked"} /\ slabs[c] # "raw"
  /\ \A c \in Cache : life[c] = "checked" => mutex = c /\ slabs[c] = "none"

\* A task is at a cache that is listed: one over the list has found it there under
\* the mutex, one over a cache was called by its owner.
OnListed(t) ==
  IF t \in Direct
  THEN at[t].pc # "idle" =>
         at[t].pc # "next" /\ at[t].cache \in move /\ life[at[t].cache] = "live"
  ELSE /\ at[t].pc \in {"enter", "entered"} => at[t].cache = None
       /\ HasMutex(t) => at[t].cache \in move \cup {None}
       /\ at[t].pc \in {"consider", "alloc", "work"} => at[t].cache # None
TasksOK == \A t \in Task : OnListed(t)

ListOK == Distinct(mobile) /\ ToSet(mobile) = move

IInv == ShapeOK /\ LocksOK /\ LifeOK /\ TasksOK /\ ListOK

-----------------------------------------------------------------------------
\* The place of a listed cache is in the list, and there it is.
LEMMA Placed ==
  ASSUME ListOK, NEW c \in move
  PROVE  PlaceOf(c) \in DOMAIN mobile /\ mobile[PlaceOf(c)] = c
BY DEF ListOK, ToSet, PlaceOf

-----------------------------------------------------------------------------
LEMMA InitOK == ASSUME Init PROVE IInv
<1>1. at \in [Task -> Doing({0})] /\ \A t \in Task : at[t].pc = "idle"
  BY DEF Init, Rest, Doing, Stages
<1>2. ShapeOK
  BY <1>1, EmptySeq DEF Init, ShapeOK, AtOK, Lives
<1>3. LocksOK /\ LifeOK
  BY <1>1 DEF Init, LocksOK, LifeOK, HasMutex, HasCpus
<1>4. TasksOK
  BY <1>1 DEF TasksOK, OnListed, HasMutex
<1>5. ListOK
  BY DEF Init, ListOK, Distinct, ToSet
<1> QED
  BY <1>2, <1>3, <1>4, <1>5 DEF IInv

-----------------------------------------------------------------------------
(* Owners and cpus: what tasks are at stays. *)

\* A cache with a callback lives on, or nobody has its call under way.
LEMMA OwnersStep ==
  ASSUME IInv, ShapeOK', ListOK', UNCHANGED at,
         \A t \in Task : HasMutex(t) => mutex' = t /\ move \subseteq move',
         \A t \in Task : t \in readers => t \in readers',
         writer' \in {"has", "slab"} => readers' = {},
         \A c \in move' : life'[c] \in {"live", "closing", "locked"} /\ slabs'[c] # "raw",
         \A c \in Cache : life'[c] = "checked" => mutex' = c /\ slabs'[c] = "none",
         \A c \in move : life[c] = "live" /\ (\E t \in Direct : at[t].cache = c)
                         => life'[c] = "live" /\ c \in move'
  PROVE  IInv'
<1>1. \A t \in Task : HasMutex(t)' = HasMutex(t) /\ HasCpus(t)' = HasCpus(t)
  BY DEF HasMutex, HasCpus
<1>2. LocksOK'
  BY <1>1 DEF IInv, LocksOK
<1>3. LifeOK'
  BY DEF LifeOK
<1>4. TasksOK'
  <2>1. ASSUME NEW t \in Task PROVE OnListed(t)'
    <3>1. CASE t \in Direct
      BY <3>1 DEF IInv, TasksOK, OnListed
    <3>2. CASE t \notin Direct
      BY <1>1, <3>2 DEF IInv, TasksOK, OnListed
    <3> QED
      BY <3>1, <3>2
  <2> QED
    BY <2>1 DEF TasksOK
<1> QED
  BY <1>2, <1>3, <1>4 DEF IInv

LEMMA CreateOK == ASSUME IInv, NEW c \in Cache, Create(c) PROVE IInv'
<1>1. /\ life[c] = "none" /\ life' = [life EXCEPT ![c] = "fresh"] /\ c \notin move
      /\ UNCHANGED <<move, mobile, slabs, lockVars, at>>
  BY DEF Create, IInv, LifeOK
<1>2. ShapeOK' /\ ListOK'
  BY <1>1 DEF IInv, ShapeOK, ListOK, Lives, AtOK, Doing, lockVars
<1> QED
  BY <1>1, <1>2, OwnersStep DEF IInv, ShapeOK, LocksOK, LifeOK, lockVars

LEMMA SetUpOK ==
  ASSUME IInv, NEW c \in Cache, kmem_cache_setup_mobility(c) PROVE IInv'
<1>1. /\ life[c] = "fresh" /\ mutex = None /\ c \notin move
      /\ UNCHANGED <<move, mobile, slabs, readers, writer, at>>
  BY DEF kmem_cache_setup_mobility, SetUp, IInv, LifeOK
<1>2. \/ life' = [life EXCEPT ![c] = "live"] /\ mutex' = None
      \/ life' = [life EXCEPT ![c] = "checked"] /\ mutex' = c /\ slabs[c] = "none"
  BY <1>1 DEF kmem_cache_setup_mobility, SetUp
<1>3. \A t \in Task : ~HasMutex(t)
  BY <1>1, NoneAssumption DEF IInv, LocksOK
<1>4. ShapeOK' /\ ListOK'
  BY <1>1, <1>2 DEF IInv, ShapeOK, ListOK, Lives, AtOK, Doing
<1>5. \A d \in Cache : life[d] # "checked"
  BY <1>1, NoneAssumption DEF IInv, LifeOK
<1>6. \A d \in Cache : life'[d] = "checked" => mutex' = d /\ slabs'[d] = "none"
  BY <1>1, <1>2, <1>5 DEF IInv, ShapeOK
<1> QED
  BY <1>1, <1>2, <1>3, <1>4, <1>6, OwnersStep DEF IInv, ShapeOK, LocksOK, LifeOK

\* With the mutex, so that no pass is on the list.
LEMMA PublishOK == ASSUME IInv, NEW c \in Cache, Publish(c) PROVE IInv'
<1>1. /\ life[c] = "checked" /\ life' = [life EXCEPT ![c] = "live"]
      /\ move' = move \cup {c} /\ mobile' = <<c>> \o mobile
      /\ mutex' = None /\ UNCHANGED <<slabs, readers, writer, at>>
  BY DEF Publish
<1>2. mutex = c /\ slabs[c] = "none" /\ c \notin move
  BY <1>1 DEF IInv, LifeOK
<1>3. \A t \in Task : ~HasMutex(t)
  BY <1>2, NoneAssumption DEF IInv, LocksOK
<1>4. /\ mobile' \in Seq(Cache) /\ Distinct(mobile') /\ ToSet(mobile') = move'
  BY <1>1, <1>2, Linked DEF IInv, ShapeOK, ListOK
<1>5. ShapeOK' /\ ListOK'
  BY <1>1, <1>4 DEF IInv, ShapeOK, ListOK, Distinct, Lives, AtOK, Doing
<1>6. \A d \in Cache : life'[d] # "checked"
  BY <1>1, <1>2 DEF IInv, ShapeOK, LifeOK
<1> QED
  BY <1>1, <1>2, <1>3, <1>5, <1>6, OwnersStep DEF IInv, ShapeOK, LocksOK, LifeOK

LEMMA FirstSlabOK == ASSUME IInv, NEW c \in Cache, FirstSlab(c) PROVE IInv'
<1>1. /\ life[c] \in {"fresh", "live"}
      /\ slabs' = [slabs EXCEPT ![c] = IF c \in move THEN "ready" ELSE "raw"]
      /\ UNCHANGED <<life, move, mobile, lockVars, at>>
  BY DEF FirstSlab
<1>2. ShapeOK' /\ ListOK'
  BY <1>1 DEF IInv, ShapeOK, ListOK, AtOK, Doing, lockVars
<1>3. \A d \in Cache : life'[d] = "checked" => mutex' = d /\ slabs'[d] = "none"
  BY <1>1 DEF IInv, ShapeOK, LifeOK, lockVars
<1> QED
  BY <1>1, <1>2, <1>3, OwnersStep DEF IInv, ShapeOK, LocksOK, LifeOK, lockVars

\* Steps that change no state of a cache, or only count.
LEMMA LockStep ==
  ASSUME IInv, UNCHANGED <<cacheVars, mutex, at>>,
         readers' \subseteq Task \cup Cache, \A t \in Task : t \in readers => t \in readers',
         writer' \in {"has", "slab"} => readers' = {}
  PROVE  IInv'
<1>1. ShapeOK' /\ ListOK'
  BY DEF IInv, ShapeOK, ListOK, AtOK, Doing, cacheVars
<1> QED
  BY <1>1, OwnersStep DEF IInv, LocksOK, LifeOK, cacheVars

LEMMA CloseOK == ASSUME IInv, NEW c \in Cache, Close(c) PROVE IInv'
<1>1. /\ life[c] \in {"fresh", "live"} /\ life' = [life EXCEPT ![c] = "closing"]
      /\ readers' = readers \cup {c} /\ writer = None
      /\ \A t \in Direct : at[t].cache # c
      /\ UNCHANGED <<move, mobile, slabs, writer, mutex, at>>
  BY DEF Close
<1>2. ShapeOK' /\ ListOK'
  BY <1>1 DEF IInv, ShapeOK, ListOK, Lives, AtOK, Doing
<1>3. writer' \notin {"has", "slab"}
  BY <1>1, NoneAssumption
<1> QED
  BY <1>1, <1>2, <1>3, OwnersStep DEF IInv, ShapeOK, LocksOK, LifeOK
LEMMA LockSlabOK == ASSUME IInv, NEW c \in Cache, LockSlab(c) PROVE IInv'
<1>1. /\ life[c] = "closing" /\ life' = [life EXCEPT ![c] = "locked"]
      /\ UNCHANGED <<move, mobile, slabs, readers, writer, mutex, at>>
  BY DEF LockSlab
<1>2. ShapeOK' /\ ListOK'
  BY <1>1 DEF IInv, ShapeOK, ListOK, Lives, AtOK, Doing
<1> QED
  BY <1>1, <1>2, OwnersStep DEF IInv, ShapeOK, LocksOK, LifeOK

\* With the mutex, so that no pass stands on what is taken out.
LEMMA TeardownOK ==
  ASSUME IInv, NEW c \in Cache, kmem_cache_teardown_mobility(c) PROVE IInv'
<1>1. /\ life[c] = "locked" /\ life' = [life EXCEPT ![c] = "torn"] /\ move' = move \ {c}
      /\ mobile' = IF c \in move THEN RemoveAt(mobile, PlaceOf(c)) ELSE mobile
      /\ mutex = None /\ UNCHANGED <<slabs, readers, writer, mutex, at>>
  BY DEF kmem_cache_teardown_mobility, TornDown, lockVars
<1>2. \A t \in Task : ~HasMutex(t)
  BY <1>1, NoneAssumption DEF IInv, LocksOK
<1>3. mobile' \in Seq(Cache) /\ Distinct(mobile') /\ ToSet(mobile') = move'
  <2>1. CASE c \in move
    <3>1. PlaceOf(c) \in DOMAIN mobile /\ mobile[PlaceOf(c)] = c
      BY <2>1, Placed DEF IInv
    <3> QED
      BY <1>1, <2>1, <3>1, Unlinked DEF IInv, ShapeOK, ListOK
  <2>2. CASE c \notin move
    BY <1>1, <2>2 DEF IInv, ShapeOK, ListOK
  <2> QED
    BY <2>1, <2>2
<1>4. ShapeOK' /\ ListOK'
  BY <1>1, <1>3 DEF IInv, ShapeOK, ListOK, Distinct, Lives, AtOK, Doing
<1> QED
  BY <1>1, <1>2, <1>4, OwnersStep DEF IInv, ShapeOK, LocksOK, LifeOK

LEMMA DestroyedOK == ASSUME IInv, NEW c \in Cache, Destroyed(c) PROVE IInv'
<1>1. /\ life[c] = "torn" /\ life' = [life EXCEPT ![c] = "none"]
      /\ slabs' = [slabs EXCEPT ![c] = "none"] /\ readers' = readers \ {c}
      /\ UNCHANGED <<move, mobile, writer, mutex, at>>
  BY DEF Destroyed
<1>2. ShapeOK' /\ ListOK'
  BY <1>1 DEF IInv, ShapeOK, ListOK, Lives, AtOK, Doing
<1> QED
  BY <1>1, <1>2, NoneAssumption, OwnersStep DEF IInv, ShapeOK, LocksOK, LifeOK

LEMMA PluggingOK == ASSUME IInv, PlugWait \/ Plugging PROVE IInv'
<1>1. UNCHANGED <<cacheVars, readers, mutex, at>>
  BY DEF PlugWait, Plugging, PlugBegin, PlugSlab, PlugEnd
<1>2. writer' \in {"has", "slab"} => readers = {}
  BY NoneAssumption DEF PlugWait, Plugging, PlugBegin, PlugSlab, PlugEnd, IInv, LocksOK
<1> QED
  BY <1>1, <1>2, LockStep DEF IInv, ShapeOK

-----------------------------------------------------------------------------
(* Passes. *)

Becomes(t, to, c) ==
  /\ AtOK'
  /\ at'[t].pc = to /\ at'[t].cache = c
  /\ \A u \in Task : u # t => at'[u] = at[u]

\* A task that begins anew, and one that goes on with what it has.
LEMMA NewBecomes ==
  ASSUME AtOK, NEW t \in Task, NEW new \in Doing({0}), at' = [at EXCEPT ![t] = new]
  PROVE  Becomes(t, new.pc, new.cache)
<1>1. PICK counts : at \in [Task -> Doing(counts)]
  BY DEF AtOK
<1>2. at' \in [Task -> Doing(counts \cup {0})]
  BY <1>1 DEF Doing
<1> QED
  BY <1>1, <1>2 DEF Becomes, AtOK

LEMMA TaskFields ==
  ASSUME AtOK, NEW t \in Task
  PROVE  /\ at[t].pc \in Stages /\ at[t].cache \in Cache \cup {None}
BY DEF AtOK, Doing

LEMMA GoBecomes ==
  ASSUME AtOK, NEW t \in Task, NEW to \in Stages, Go(t, to)
  PROVE  Becomes(t, to, at[t].cache)
<1>1. PICK counts : at \in [Task -> Doing(counts)]
  BY DEF AtOK
<1>2. at' \in [Task -> Doing(counts)]
  BY <1>1 DEF Go, Doing
<1> QED
  BY <1>1, <1>2 DEF Becomes, AtOK, Go, Doing

\* A step of one task, whatever it does with its locks, leaves the others theirs.
LEMMA TaskStep ==
  ASSUME IInv, NEW t \in Task, NEW to \in Stages, NEW c \in Cache \cup {None},
         Becomes(t, to, c), UNCHANGED cacheVars,
         readers' \subseteq Task \cup Cache,
         mutex' = mutex \/ (mutex \in Task \cup {None} /\ mutex' \in Task \cup {None}),
         \A u \in Task : u # t => (HasMutex(u) => mutex' = u) /\ (u \in readers => u \in readers'),
         HasMutex(t)' => mutex' = t,
         HasCpus(t)' => t \in readers',
         writer' \in {"has", "slab"} => readers' = {},
         OnListed(t)'
  PROVE  IInv'
<1>1. \A u \in Task : u # t => HasMutex(u)' = HasMutex(u) /\ HasCpus(u)' = HasCpus(u)
                              /\ at'[u] = at[u]
  BY DEF Becomes, HasMutex, HasCpus
<1>2. ShapeOK'
  BY DEF IInv, ShapeOK, cacheVars, Becomes
<1>3. LocksOK'
  BY <1>1 DEF IInv, LocksOK
<1>4. TasksOK'
  <2>1. ASSUME NEW u \in Task, u # t PROVE OnListed(u)'
    BY <1>1, <2>1 DEF IInv, TasksOK, OnListed, cacheVars
  <2> QED
    BY <2>1 DEF TasksOK
<1>5. LifeOK' /\ ListOK'
  BY NoneAssumption DEF IInv, LifeOK, ListOK, Distinct, cacheVars
<1> QED
  BY <1>2, <1>3, <1>4, <1>5 DEF IInv

LEMMA StartOK ==
  ASSUME IInv, NEW t \in Task, NEW nodes \in NodeSets, Start(t, nodes) PROVE IInv'
<1> DEFINE new == [Rest EXCEPT !.pc = "enter", !.nodes = nodes]
<1>1. /\ at' = [at EXCEPT ![t] = new] /\ t \in Pass
      /\ UNCHANGED <<cacheVars, lockVars>>
  BY DEF Start
<1>2. new \in Doing({0}) /\ new.pc = "enter" /\ new.cache = None
  BY DEF Rest, NodeSets, Doing, Stages
<1>3. Becomes(t, "enter", None)
  BY <1>1, <1>2, NewBecomes DEF IInv, ShapeOK
<1>4. OnListed(t)'
  BY <1>1, <1>3, NoneAssumption DEF OnListed, HasMutex, Becomes
<1> QED
  BY <1>1, <1>3, <1>4, TaskStep
     DEF IInv, ShapeOK, LocksOK, Stages, HasMutex, HasCpus, Becomes, lockVars

LEMMA StartDirectOK ==
  ASSUME IInv, NEW t \in Task, NEW nodes \in NodeSets, NEW c \in Cache,
         StartDirect(t, c, nodes)
  PROVE  IInv'
<1> DEFINE new == [Rest EXCEPT !.pc = "enter", !.cache = c, !.nodes = nodes]
<1>1. /\ at' = [at EXCEPT ![t] = new] /\ t \in Direct /\ life[c] = "live" /\ c \in move
      /\ UNCHANGED <<cacheVars, lockVars>>
  BY DEF StartDirect
<1>2. new \in Doing({0}) /\ new.pc = "enter" /\ new.cache = c
  BY DEF Rest, NodeSets, Doing, Stages
<1>3. Becomes(t, "enter", c)
  BY <1>1, <1>2, NewBecomes DEF IInv, ShapeOK
<1>4. OnListed(t)'
  BY <1>1, <1>3 DEF OnListed, Becomes, cacheVars
<1> QED
  BY <1>1, <1>3, <1>4, TaskStep
     DEF IInv, ShapeOK, LocksOK, Stages, HasMutex, HasCpus, Becomes, lockVars

LEMMA EnterCpusOK ==
  ASSUME IInv, NEW t \in Task, At(t, "enter"), writer = None, readers' = readers \cup {t},
         Go(t, "entered"), UNCHANGED <<cacheVars, writer, mutex>>
  PROVE  IInv'
<1>1. Becomes(t, "entered", at[t].cache) /\ at[t].cache \in Cache \cup {None}
  BY GoBecomes, TaskFields DEF IInv, ShapeOK, Stages
<1>2. OnListed(t)'
  BY <1>1 DEF IInv, TasksOK, OnListed, HasMutex, At, Becomes, cacheVars
<1>3. writer' \notin {"has", "slab"}
  BY NoneAssumption
<1> QED
  BY <1>1, <1>2, <1>3, TaskStep
     DEF IInv, ShapeOK, LocksOK, Stages, HasMutex, HasCpus, Becomes

LEMMA EnterMutexOK ==
  ASSUME IInv, NEW t \in Task, At(t, "entered"), mutex = None, mutex' = t,
         Go(t, IF at[t].cache = None THEN "next" ELSE "consider"),
         UNCHANGED <<cacheVars, readers, writer>>
  PROVE  IInv'
<1> DEFINE to == IF at[t].cache = None THEN "next" ELSE "consider"
<1>1. Becomes(t, to, at[t].cache) /\ at[t].cache \in Cache \cup {None} /\ to \in Stages
  BY GoBecomes, TaskFields DEF IInv, ShapeOK, Stages
<1>2. OnListed(t)'
  <2>1. CASE t \in Direct
    <3>1. at[t].cache \in move /\ life[at[t].cache] = "live" /\ at[t].cache # None
      BY <2>1, NoneAssumption DEF IInv, ShapeOK, TasksOK, OnListed, At
    <3> QED
      BY <1>1, <2>1, <3>1 DEF OnListed, Becomes, cacheVars
  <2>2. CASE t \notin Direct
    BY <1>1, <2>2 DEF IInv, TasksOK, OnListed, At, Becomes, HasMutex
  <2> QED
    BY <2>1, <2>2
<1>3. \A u \in Task : ~HasMutex(u)
  BY NoneAssumption DEF IInv, LocksOK
<1>4. t \in readers
  BY DEF IInv, LocksOK, HasCpus, At
<1> QED
  BY <1>1, <1>2, <1>3, <1>4, TaskStep DEF IInv, ShapeOK, LocksOK

\* A step within a pass.
LEMMA InsideStep ==
  ASSUME IInv, NEW t \in Task, HasMutex(t),
         NEW to \in {"next", "consider", "alloc", "work", "leave"},
         NEW c \in Cache \cup {None}, Becomes(t, to, c),
         UNCHANGED <<cacheVars, lockVars>>, OnListed(t)'
  PROVE  IInv'
<1>1. t \in readers /\ mutex = t
  BY DEF IInv, LocksOK, HasCpus
<1>2. to \in Stages
  BY DEF Stages
<1> QED
  BY <1>1, <1>2, TaskStep DEF IInv, ShapeOK, LocksOK, lockVars

\* One that stays with its cache, or is done with it.
LEMMA SameCacheStep ==
  ASSUME IInv, NEW t \in Task, at[t].pc \in {"consider", "alloc", "work"},
         NEW to \in {"alloc", "work", Onward(t)}, Becomes(t, to, at[t].cache),
         UNCHANGED <<cacheVars, lockVars>>
  PROVE  IInv'
<1>1. HasMutex(t) /\ at[t].cache \in Cache \cup {None}
      /\ to \in {"next", "consider", "alloc", "work", "leave"}
  BY TaskFields DEF HasMutex, Onward, IInv, ShapeOK
<1>2. OnListed(t)'
  BY <1>1 DEF IInv, TasksOK, OnListed, HasMutex, Onward, Becomes, cacheVars
<1> QED
  BY <1>1, <1>2, InsideStep

LEMMA NextCacheOK == ASSUME IInv, NEW t \in Task, NextCache(t) PROVE IInv'
<1> DEFINE here == IF at[t].cache = None THEN 0 ELSE PlaceOf(at[t].cache)
<1>1. at[t].pc = "next" /\ HasMutex(t) /\ t \notin Direct /\ UNCHANGED <<cacheVars, lockVars>>
  BY DEF NextCache, At, HasMutex, IInv, TasksOK, OnListed
<1>2. at[t].cache \in move \cup {None} /\ at[t].cache \in Cache \cup {None}
  BY <1>1, TaskFields DEF IInv, TasksOK, OnListed, ShapeOK
<1>3. Len(mobile) \in Nat /\ DOMAIN mobile = 1 .. Len(mobile)
  BY LenProperties DEF IInv, ShapeOK
<1>4. here \in 0 .. Len(mobile)
  BY <1>2, <1>3, Placed DEF IInv
<1>5. CASE here = Len(mobile) /\ Go(t, "leave")
  <2>1. Becomes(t, "leave", at[t].cache)
    BY <1>5, GoBecomes DEF IInv, ShapeOK, Stages
  <2>2. OnListed(t)'
    BY <1>1, <1>2, <2>1 DEF OnListed, HasMutex, Becomes, cacheVars
  <2> QED
    BY <1>1, <1>2, <2>1, <2>2, InsideStep
<1>6. CASE /\ here # Len(mobile)
           /\ at' = [at EXCEPT ![t].pc = "consider", ![t].cache = mobile[here + 1]]
  <2> DEFINE c == mobile[here + 1]
  <2>1. here + 1 \in DOMAIN mobile
    BY <1>3, <1>4, <1>6
  <2>2. c \in move /\ c \in Cache /\ c # None
    BY <2>1, NoneAssumption DEF IInv, ListOK, ShapeOK, ToSet
  <2> HIDE DEF c, here
  <2>3. Becomes(t, "consider", c)
    <3>1. PICK counts : at \in [Task -> Doing(counts)]
      BY DEF IInv, ShapeOK, AtOK
    <3>2. at' \in [Task -> Doing(counts)]
      BY <1>6, <2>2, <3>1 DEF Doing, Stages, c
    <3> QED
      BY <1>6, <3>1, <3>2 DEF Becomes, AtOK, Doing, c
  <2>4. OnListed(t)'
    BY <1>1, <2>2, <2>3 DEF OnListed, HasMutex, Becomes, cacheVars
  <2> QED
    BY <1>1, <2>2, <2>3, <2>4, InsideStep
<1> QED
  BY <1>5, <1>6 DEF NextCache, Go

LEMMA ConsiderOK == ASSUME IInv, NEW t \in Task, Consider(t) PROVE IInv'
<1>1. at[t].pc = "consider" /\ UNCHANGED <<cacheVars, lockVars>>
  BY DEF Consider, Considered, At
<1>2. CASE Go(t, Onward(t))
  <2>1. Becomes(t, Onward(t), at[t].cache)
    BY <1>2, GoBecomes DEF IInv, ShapeOK, Stages, Onward
  <2> QED
    BY <1>1, <2>1, SameCacheStep
<1>3. ASSUME NEW before, at' = [at EXCEPT ![t].pc = "alloc", ![t].before = before]
      PROVE  IInv'
  <2>1. Becomes(t, "alloc", at[t].cache)
    <3>1. PICK counts : at \in [Task -> Doing(counts)]
      BY DEF IInv, ShapeOK, AtOK
    <3>2. at' \in [Task -> Doing(counts \cup {before})]
      BY <1>3, <3>1 DEF Doing, Stages
    <3> QED
      BY <1>3, <3>1, <3>2 DEF Becomes, AtOK, Doing
  <2> QED
    BY <1>1, <2>1, SameCacheStep
<1> QED
  BY <1>2, <1>3 DEF Consider, Considered

LEMMA AllocFailOK == ASSUME IInv, NEW t \in Task, AllocFail(t) PROVE IInv'
<1>1. Becomes(t, Onward(t), at[t].cache)
  BY GoBecomes DEF AllocFail, IInv, ShapeOK, Stages, Onward
<1> QED
  BY <1>1, SameCacheStep DEF AllocFail, At

LEMMA AllocDoneOK == ASSUME IInv, NEW t \in Task, AllocDone(t) PROVE IInv'
<1>1. Becomes(t, "work", at[t].cache)
  <2>1. PICK counts : at \in [Task -> Doing(counts)]
    BY DEF IInv, ShapeOK, AtOK
  <2>2. at' \in [Task -> Doing(counts)]
    BY <2>1 DEF AllocDone, Doing, Stages
  <2> QED
    BY <2>1, <2>2 DEF AllocDone, At, Becomes, AtOK, Doing
<1> QED
  BY <1>1, SameCacheStep DEF AllocDone, At

LEMMA WorkNodeOK ==
  ASSUME IInv, NEW t \in Task, NEW n, NEW freed, NEW more, WorkNode(t, n, freed, more)
  PROVE  IInv'
<1>1. Becomes(t, "work", at[t].cache)
  <2>1. PICK counts : at \in [Task -> Doing(counts)]
    BY DEF IInv, ShapeOK, AtOK
  <2>2. at' \in [Task -> Doing(counts)]
    BY <2>1 DEF WorkNode, Doing, Stages
  <2> QED
    BY <2>1, <2>2 DEF WorkNode, At, Becomes, AtOK, Doing
<1> QED
  BY <1>1, SameCacheStep DEF WorkNode, At

LEMMA JudgeOK == ASSUME IInv, NEW t \in Task, Judge(t) PROVE IInv'
<1>1. Becomes(t, Onward(t), at[t].cache)
  BY GoBecomes DEF Judge, IInv, ShapeOK, Stages, Onward
<1> QED
  BY <1>1, SameCacheStep DEF Judge, At

LEMMA LeavePassOK == ASSUME IInv, NEW t \in Task, LeavePass(t) PROVE IInv'
<1>1. /\ at[t].pc = "leave" /\ mutex' = None /\ readers' = readers \ {t} /\ UNCHANGED writer
      /\ at' = [at EXCEPT ![t] = Rest] /\ UNCHANGED cacheVars
  BY DEF LeavePass, LeftWith, At
<1>2. Becomes(t, "idle", None)
  <2>1. Rest \in Doing({0}) /\ Rest.pc = "idle" /\ Rest.cache = None
    BY DEF Rest, Doing, Stages
  <2> QED
    BY <1>1, <2>1, NewBecomes DEF IInv, ShapeOK
<1>3. OnListed(t)' /\ ~HasMutex(t)' /\ ~HasCpus(t)'
  BY <1>2 DEF OnListed, HasMutex, HasCpus, Becomes
<1>4. mutex = t /\ \A u \in Task : u # t => ~HasMutex(u)
  BY <1>1 DEF IInv, LocksOK, HasMutex
<1> QED
  BY <1>1, <1>2, <1>3, <1>4, TaskStep DEF IInv, ShapeOK, LocksOK, Stages

-----------------------------------------------------------------------------
\* The invariant is kept by every step.
LEMMA StepOK == ASSUME IInv, [Next]_vars PROVE IInv'
<1>1. CASE Owners
  <2>1. ASSUME NEW c \in Cache, NEW n \in Node, NEW count \in 0..MaxPartial, Churn(c, n, count)
        PROVE  IInv'
    BY <2>1, LockStep DEF Churn, lockVars, IInv, ShapeOK, LocksOK
  <2> QED
    BY <1>1, <2>1, CreateOK, SetUpOK, PublishOK, FirstSlabOK, CloseOK DEF Owners
<1>2. ASSUME NEW c \in Cache, Destroying(c) PROVE IInv'
  BY <1>2, LockSlabOK, TeardownOK, DestroyedOK DEF Destroying
<1>3. CASE PlugWait \/ Plugging
  BY <1>3, PluggingOK
<1>4. ASSUME NEW t \in Task, Begin(t) PROVE IInv'
  BY <1>4, StartOK, StartDirectOK DEF Begin
<1>5. ASSUME NEW t \in Task, EnterPass(t) PROVE IInv'
  BY <1>5, EnterCpusOK, EnterMutexOK DEF EnterPass
<1>6. ASSUME NEW t \in Task, Inside(t) PROVE IInv'
  BY <1>6, NextCacheOK, ConsiderOK, AllocFailOK, AllocDoneOK, WorkNodeOK, JudgeOK, LeavePassOK
     DEF Inside
<1>7. CASE UNCHANGED vars
  BY <1>7, LockStep DEF vars, lockVars, IInv, ShapeOK, LocksOK
<1> QED
  BY <1>1, <1>2, <1>3, <1>4, <1>5, <1>6, <1>7 DEF Next

LEMMA Invariance == Spec => []IInv
<1>1. Init => IInv
  BY InitOK
<1>2. IInv /\ [Next]_vars => IInv'
  BY StepOK
<1> QED
  BY <1>1, <1>2, PTL DEF Spec

LEMMA Kept == ASSUME IInv PROVE CachesStay
<1>1. ASSUME NEW t \in Task, NEW c \in Cache, Working(t, c)
      PROVE  /\ c \in move /\ HasMutex(t) /\ mutex = t /\ writer \notin {"has", "slab"}
             /\ \A u \in Task \ {t}, d \in Cache : ~Working(u, d)
  <2>1. HasMutex(t) /\ mutex = t /\ t \in readers
    BY <1>1 DEF Working, HasMutex, HasCpus, IInv, LocksOK
  <2>2. c \in move
    BY <1>1, <2>1, NoneAssumption DEF Working, IInv, TasksOK, OnListed
  <2>3. \A u \in Task \ {t}, d \in Cache : ~Working(u, d)
    BY <2>1 DEF Working, HasMutex, IInv, LocksOK
  <2> QED
    BY <2>1, <2>2, <2>3 DEF IInv, LocksOK
<1>2. WorkedOnStays
  BY <1>1 DEF WorkedOnStays, IInv, LifeOK
<1>3. \A i \in DOMAIN mobile : mobile[i] \in move
  BY DEF IInv, ListOK, ToSet
<1>4. ListAlive
  BY <1>3 DEF ListAlive, IInv, ListOK, Distinct, LifeOK
<1> QED
  BY <1>2, <1>4 DEF CachesStay

\* A pass works on a cache that has a callback, that no one is freeing and that no
\* cpu is leaving, and it is the only pass that does; the list it follows holds the
\* caches with a callback, each once: for any number of caches that come and go, of
\* passes over the list or over one cache, and of cpus plugged. (slab_defrag(),
\* kmem_cache_defrag(), kmem_cache_setup_mobility(), kmem_cache_teardown_mobility())
THEOREM CachesKeptForPasses == Spec => []CachesStay
<1>1. IInv => CachesStay
  BY Kept
<1> QED
  BY <1>1, Invariance, PTL

-----------------------------------------------------------------------------
(* The free scanner. *)

\* A set of numbers has a least one.
LEMMA LeastOf ==
  ASSUME NEW T, T \subseteq Nat, T # {}
  PROVE  \E x \in T : \A y \in T : x <= y
<1> DEFINE before == { p \in Nat \X Nat : p[1] < p[2] }
<1>1. IsWellFoundedOn(before, Nat)
  BY NatLessThanWellFounded, Zenon DEF OpToRel
<1> HIDE DEF before
<1>2. \E x \in T : \A y \in T : <<y, x>> \notin before
  BY <1>1, WFMin, Zenon
<1>3. \A x, y \in Nat : <<y, x>> \notin before => x <= y
  BY DEF before
<1> QED
  BY <1>2, <1>3

\* A power of two is the number of subsets of a set, and one member more doubles it.
LEMMA PowerDoubles ==
  ASSUME NEW n \in Nat
  PROVE  2 ^ n \in Nat \ {0} /\ 2 ^ (n + 1) = 2 * 2 ^ n
<1> DEFINE X == SUBSET (1 .. n)
           Z == SUBSET (1 .. n + 1)
           Y == { A \cup {n + 1} : A \in X }
<1>1. /\ IsFiniteSet(1 .. n) /\ Cardinality(1 .. n) = n
      /\ IsFiniteSet(1 .. n + 1) /\ Cardinality(1 .. n + 1) = n + 1
  BY FS_Interval
<1>2. /\ IsFiniteSet(X) /\ Cardinality(X) = 2 ^ n
      /\ IsFiniteSet(Z) /\ Cardinality(Z) = 2 ^ (n + 1)
  BY <1>1, FS_SUBSET
<1>3. Cardinality(X) \in Nat /\ Cardinality(X) # 0
  <2>1. {} \in X
    OBVIOUS
  <2> HIDE DEF X
  <2> QED
    BY <1>2, <2>1, FS_CardinalityType, FS_EmptySet
<1>4. IsFiniteSet(Y) /\ Cardinality(Y) = Cardinality(X)
  <2> DEFINE f == [A \in X |-> A \cup {n + 1}]
  <2>1. f \in [X -> Y] /\ \A y \in Y : \E A \in X : f[A] = y
    OBVIOUS
  <2>2. \A A, B \in X : f[A] = f[B] => A = B
    <3>1. \A A \in X : n + 1 \notin A
      OBVIOUS
    <3>2. ASSUME NEW A \in X, NEW B \in X, f[A] = f[B] PROVE A = B
      <4>1. A \cup {n + 1} = B \cup {n + 1}
        BY <3>2, Zenon
      <4> QED
        BY <3>1, <4>1
    <3> QED
      BY <3>2
  <2>3. ExistsBijection(X, Y)
    <3> HIDE DEF X, Y, f
    <3>1. f \in Bijection(X, Y)
      BY <2>1, <2>2 DEF Bijection, Injection, Surjection, IsInjective
    <3> QED
      BY <3>1 DEF ExistsBijection
  <2> HIDE DEF X, Y
  <2> QED
    BY <1>2, <2>3, FS_Bijection
<1>5. Z = X \cup Y /\ X \cap Y = {}
  <2>1. ASSUME NEW A \in Z PROVE A \in X \/ A \in Y
    <3>1. CASE n + 1 \in A
      <4>1. A \ {n + 1} \in X /\ (A \ {n + 1}) \cup {n + 1} = A
        BY <2>1, <3>1
      <4> QED
        BY <4>1
    <3>2. CASE n + 1 \notin A
      BY <2>1, <3>2
    <3> QED
      BY <3>1, <3>2
  <2>2. X \subseteq Z /\ Y \subseteq Z
    <3>1. 1 .. n \subseteq 1 .. n + 1 /\ n + 1 \in 1 .. n + 1
      OBVIOUS
    <3>2. X \subseteq Z
      BY <3>1
    <3>3. Y \subseteq Z
      BY <3>1
    <3> QED
      BY <3>2, <3>3
  <2>3. X \cap Y = {}
    <3>1. \A A \in X : n + 1 \notin A
      OBVIOUS
    <3>2. \A A \in Y : n + 1 \in A
      OBVIOUS
    <3> QED
      BY <3>1, <3>2
  <2> HIDE DEF X, Y, Z
  <2> QED
    BY <2>1, <2>2, <2>3
<1> HIDE DEF X, Y, Z
<1>6. Cardinality(Z) = Cardinality(X) + Cardinality(Y)
  <2>1. Cardinality(X \cap Y) = 0
    BY <1>5, FS_EmptySet
  <2>2. Cardinality(X \cup Y) = Cardinality(X) + Cardinality(Y) - Cardinality(X \cap Y)
    BY <1>2, <1>4, FS_Union
  <2> QED
    BY <1>2, <1>4, <1>5, <2>1, <2>2, FS_CardinalityType
<1> QED
  BY <1>2, <1>3, <1>4, <1>6

\* Powers grow with the exponent.
LEMMA PowerGrows ==
  ASSUME NEW m \in Nat, NEW n \in Nat, m <= n
  PROVE  2 ^ m <= 2 ^ n
<1> DEFINE T == { k \in Nat : m <= k /\ ~(2 ^ m <= 2 ^ k) }
<1> SUFFICES ASSUME n \in T PROVE FALSE
  OBVIOUS
<1>1. T \subseteq Nat /\ T # {}
  OBVIOUS
<1>2. PICK k \in T : \A l \in T : k <= l
  <2> HIDE DEF T
  <2> QED
    BY <1>1, LeastOf
<1>3. k \in Nat /\ m <= k /\ ~(2 ^ m <= 2 ^ k) /\ 2 ^ m \in Nat
  BY PowerDoubles
<1>4. k # m
  BY <1>3
<1>5. k - 1 \in Nat /\ m <= k - 1
  BY <1>3, <1>4
<1>6. k - 1 \notin T
  BY <1>2, <1>3
<1>7. 2 ^ m <= 2 ^ (k - 1)
  BY <1>5, <1>6
<1>8. 2 ^ (k - 1) \in Nat /\ 2 ^ k = 2 * 2 ^ (k - 1)
  <2>1. (k - 1) + 1 = k
    BY <1>3
  <2> QED
    BY <1>5, <2>1, PowerDoubles
<1> QED
  BY <1>3, <1>7, <1>8

\* A number between two powers is between two powers that follow each other.
LEMMA BetweenPowers ==
  ASSUME NEW m \in Nat, NEW n \in Nat, NEW k \in Nat, 2 ^ m <= k, k < 2 ^ n
  PROVE  \E p \in m .. n - 1 : 2 ^ p <= k /\ k < 2 ^ (p + 1)
<1> DEFINE T == { q \in Nat : k < 2 ^ q }
<1>1. T \subseteq Nat /\ n \in T
  OBVIOUS
<1>2. PICK q \in T : \A l \in T : q <= l
  <2> HIDE DEF T
  <2> QED
    BY <1>1, LeastOf
<1>3. q \in Nat /\ k < 2 ^ q /\ q <= n
  BY <1>1, <1>2
<1>4. m < q
  <2>1. CASE q <= m
    <3>1. 2 ^ q <= 2 ^ m /\ 2 ^ q \in Nat /\ 2 ^ m \in Nat
      BY <1>3, <2>1, PowerGrows, PowerDoubles
    <3> QED
      BY <1>3, <3>1
  <2> QED
    BY <1>3, <2>1
<1>5. q - 1 \in m .. n - 1 /\ q - 1 \in Nat /\ (q - 1) + 1 = q
  BY <1>3, <1>4
<1>6. q - 1 \notin T
  BY <1>2, <1>3
<1>7. ~(k < 2 ^ (q - 1)) /\ 2 ^ (q - 1) \in Nat
  BY <1>5, <1>6, PowerDoubles
<1>8. 2 ^ (q - 1) <= k
  BY <1>7
<1> QED
  BY <1>3, <1>5, <1>8

-----------------------------------------------------------------------------
(* Samples: the multiples of a stride. *)

LEMMA Division ==
  ASSUME NEW a \in Int, NEW b \in Nat \ {0}
  PROVE  /\ a \div b \in Int /\ a % b \in 0 .. b - 1
         /\ a = b * (a \div b) + (a % b)
OBVIOUS

LEMMA StrictMultiple ==
  ASSUME NEW b \in Nat \ {0}, NEW q \in Int, NEW r \in Int, b * q < b * r
  PROVE  b * q + b <= b * r
<1>1. q < r
  BY SMTT(30)
<1>2. r = q + 1 \/ q + 2 <= r
  BY <1>1
<1>3. b * (q + 1) = b * q + b
  OBVIOUS
<1>4. ASSUME q + 2 <= r PROVE b * (q + 1) <= b * r
  BY <1>4, SMTT(30)
<1> QED
  BY <1>2, <1>3, <1>4

LEMMA Multiple ==
  ASSUME NEW b \in Nat \ {0}, NEW q \in Int
  PROVE  b * q \in Int /\ q * b = b * q /\ (b * q) % b = 0
<1> DEFINE n == b * q
           d == n \div b
           m == n % b
<1>1. n \in Int /\ q * b = n
  OBVIOUS
<1>2. d \in Int /\ m \in 0 .. b - 1 /\ n = b * d + m
  <2> HIDE DEF n
  <2> QED
    BY <1>1, Division
<1>3. CASE m > 0
  <2>1. b * d \in Int /\ b * d < b * q
    <3> HIDE DEF d, m
    <3> QED
      BY <1>2, <1>3
  <2>2. b * d + b <= b * q
    <3> HIDE DEF d, m, n
    <3> QED
      BY <1>2, <2>1, StrictMultiple
  <2> HIDE DEF d, m
  <2> QED
    BY <1>2, <2>1, <2>2
<1> QED
  BY <1>1, <1>2, <1>3

\* From one sample to the next it is a stride.
LEMMA NextSample ==
  ASSUME NEW k \in Nat \ {0}, NEW p \in Int, NEW h \in Int, p % k = 0
  PROVE  /\ (p + k) % k = 0
         /\ h % k = 0 /\ p < h => p + k <= h
<1> DEFINE q == p \div k
           r == h \div k
<1>1. q \in Int /\ p = k * q
  BY Division
<1>2. (p + k) % k = 0
  <2>1. p + k = k * (q + 1) /\ q + 1 \in Int
    BY <1>1
  <2> HIDE DEF q
  <2> QED
    BY <2>1, Multiple
<1>3. ASSUME h % k = 0, p < h PROVE p + k <= h
  <2>1. r \in Int /\ h = k * r
    BY <1>3, Division
  <2> HIDE DEF q, r
  <2> QED
    BY <1>1, <1>3, <2>1, StrictMultiple
<1> QED
  BY <1>2, <1>3

\* Rounded up is the least sample that is not before a frame.
LEMMA RoundedUp ==
  ASSUME NEW n \in Int, NEW k \in Nat \ {0}
  PROVE  /\ Scan!AlignUp(n, k) \in Int /\ Scan!AlignUp(n, k) % k = 0
         /\ n <= Scan!AlignUp(n, k)
         /\ \A h \in Int : h % k = 0 /\ n <= h => Scan!AlignUp(n, k) <= h
<1> DEFINE q == (n + k - 1) \div k
<1>1. q \in Int /\ n + k - 1 = k * q + ((n + k - 1) % k) /\ (n + k - 1) % k \in 0 .. k - 1
  <2>1. n + k - 1 \in Int
    OBVIOUS
  <2> QED
    BY ONLY <2>1, k \in Nat \ {0}, Division
<1>2. Scan!AlignUp(n, k) = q * k
  BY DEF Scan!AlignUp
<1> HIDE DEF q
<1>3. q * k \in Int /\ (q * k) % k = 0 /\ q * k = k * q
  BY <1>1, Multiple
<1>4. n <= k * q /\ k * q <= n + k - 1
  BY <1>1, <1>3
<1>5. ASSUME NEW h \in Int, h % k = 0, n <= h PROVE q * k <= h
  <2>1. CASE h < q * k
    <3>1. h + k <= q * k
      BY <1>1, <1>3, <1>5, <2>1, NextSample
    <3> QED
      BY <1>3, <1>4, <1>5, <3>1
  <2> QED
    BY <1>3, <2>1
<1> QED
  BY <1>2, <1>3, <1>4, <1>5

-----------------------------------------------------------------------------
(* How many pages there are to migrate. *)

LEMMA SizesOK ==
         /\ BlockOrder \in Nat /\ ClusterOrder \in Nat /\ FreeLimit \in Nat
         /\ Folios \in Seq(Scan!Order) /\ Len(Folios) \in Nat
         /\ Scan!BlockPages \in Nat \ {0}
         /\ \A o \in Scan!Order :
              o \in Nat /\ 2 ^ o \in Nat \ {0} /\ 2 ^ o <= Scan!BlockPages
BY ScanAssumption, PowerDoubles, PowerGrows
   DEF Scan!SizeAssumption, Scan!Order, Scan!BlockPages

\* The numbers of pages exist: the least number of folios for which there were
\* none would be one more than a number for which there are.
LEMMA PagesExist == Scan!PagesOf[Len(Folios)] \in Nat
<1> DEFINE Counts(f, n) == /\ f \in [0 .. n -> Nat] /\ f[0] = 0
                           /\ \A k \in 1 .. n : f[k] = f[k - 1] + 2 ^ Folios[k]
           T == { n \in 0 .. Len(Folios) : ~ \E f : Counts(f, n) }
<1>1. /\ Folios \in Seq(Scan!Order) /\ Len(Folios) \in Nat
      /\ \A k \in 1 .. Len(Folios) : 2 ^ Folios[k] \in Nat
  BY SizesOK
<1>2. T = {}
  <2> SUFFICES ASSUME T # {} PROVE FALSE
    OBVIOUS
  <2>1. T \subseteq Nat
    BY <1>1
  <2>2. PICK n \in T : \A m \in T : n <= m
    <3> HIDE DEF T
    <3> QED
      BY <2>1, LeastOf
  <2>3. n \in 0 .. Len(Folios) /\ ~ \E f : Counts(f, n)
    BY <2>2
  <2>4. CASE n = 0
    <3>1. Counts([k \in 0 .. 0 |-> 0], 0)
      OBVIOUS
    <3> QED
      BY <2>3, <2>4, <3>1
  <2>5. CASE n > 0
    <3>1. n - 1 \in 0 .. Len(Folios) /\ n - 1 \notin T
      <4>1. n - 1 \in 0 .. Len(Folios) /\ ~(n <= n - 1)
        BY <1>1, <2>3, <2>5
      <4> HIDE DEF T
      <4> QED
        BY <2>2, <4>1
    <3>2. PICK f : Counts(f, n - 1)
      BY <3>1
    <3> DEFINE g == [k \in 0 .. n |-> IF k = n THEN f[n - 1] + 2 ^ Folios[n] ELSE f[k]]
    <3>3. f \in [0 .. n - 1 -> Nat] /\ f[0] = 0
          /\ \A k \in 1 .. n - 1 : f[k] = f[k - 1] + 2 ^ Folios[k]
      BY <3>2
    <3>4. g \in [0 .. n -> Nat]
      BY <1>1, <2>3, <2>5, <3>3
    <3>5. g[0] = 0
      BY <2>3, <2>5, <3>3
    <3>6. ASSUME NEW k \in 1 .. n PROVE g[k] = g[k - 1] + 2 ^ Folios[k]
      <4>1. k - 1 \in 0 .. n /\ k \in 0 .. n /\ k - 1 # n
        BY <1>1, <2>3
      <4>2. g[k - 1] = f[k - 1]
        BY <4>1
      <4> QED
        BY <3>3, <4>1, <4>2, <1>1, <2>3
    <3>7. Counts(g, n)
      <4> HIDE DEF g
      <4> QED
        BY <3>4, <3>5, <3>6
    <3> QED
      BY <2>3, <3>7
  <2> QED
    BY <1>1, <2>3, <2>4, <2>5
<1>3. PICK f : Counts(f, Len(Folios))
  <2>1. Len(Folios) \in 0 .. Len(Folios)
    BY <1>1
  <2> QED
    BY <1>2, <2>1
<1> DEFINE Same(g) == g = [n \in 0 .. Len(Folios) |->
                             IF n = 0 THEN 0 ELSE g[n - 1] + 2 ^ Folios[n]]
<1>4. Same(f)
  <2>1. /\ f \in [0 .. Len(Folios) -> Nat] /\ f[0] = 0
        /\ \A k \in 1 .. Len(Folios) : f[k] = f[k - 1] + 2 ^ Folios[k]
    BY <1>3
  <2>2. f = [n \in 0 .. Len(Folios) |-> f[n]]
    BY <2>1
  <2>3. \A n \in 0 .. Len(Folios) :
          f[n] = IF n = 0 THEN 0 ELSE f[n - 1] + 2 ^ Folios[n]
    BY <1>1, <2>1
  <2> QED
    BY <2>2, <2>3
<1>5. Same(Scan!PagesOf)
  <2>1. Scan!PagesOf = CHOOSE g : Same(g)
    BY DEF Scan!PagesOf
  <2> HIDE DEF Same
  <2> QED
    BY <1>4, <2>1
<1>6. ASSUME NEW n \in 0 .. Len(Folios)
      PROVE  Scan!PagesOf[n] = IF n = 0 THEN 0 ELSE Scan!PagesOf[n - 1] + 2 ^ Folios[n]
  BY <1>5
<1> DEFINE V == { n \in 0 .. Len(Folios) : Scan!PagesOf[n] \notin Nat }
<1>7. V = {}
  <2> SUFFICES ASSUME V # {} PROVE FALSE
    OBVIOUS
  <2>1. V \subseteq Nat
    BY <1>1
  <2>2. PICK n \in V : \A m \in V : n <= m
    <3> HIDE DEF V
    <3> QED
      BY <2>1, LeastOf
  <2>3. n \in 0 .. Len(Folios) /\ Scan!PagesOf[n] \notin Nat /\ n # 0
    BY <2>2, <1>6
  <2>4. n - 1 \in 0 .. Len(Folios) /\ n - 1 \notin V
    BY <1>1, <2>2, <2>3
  <2> QED
    BY <1>1, <1>6, <2>3, <2>4
<1> QED
  BY <1>1, <1>7

-----------------------------------------------------------------------------
(* Pages on lists. *)

IsLists(lists) == lists \in [Scan!Order -> Seq(Nat)]
\* No frame is of two pages on the lists.
Apart(lists) ==
  \A o, p \in Scan!Order : \A i \in DOMAIN lists[o], j \in DOMAIN lists[p] :
    ~(o = p /\ i = j) => Scan!Frames(lists[o][i], o) \cap Scan!Frames(lists[p][j], p) = {}
OnLists(lists) ==
  UNION { UNION { Scan!Frames(lists[o][i], o) : i \in DOMAIN lists[o] } : o \in Scan!Order }

LEMMA OnListsOf ==
  ASSUME NEW lists, NEW f
  PROVE  f \in OnLists(lists) <=>
           \E o \in Scan!Order : \E i \in DOMAIN lists[o] : f \in Scan!Frames(lists[o][i], o)
BY DEF OnLists

LEMMA FramesOf ==
  ASSUME NEW h \in Nat, NEW o \in Scan!Order
  PROVE  /\ h \in Scan!Frames(h, o) /\ Scan!Frames(h, o) \subseteq Nat
         /\ IsFiniteSet(Scan!Frames(h, o)) /\ Cardinality(Scan!Frames(h, o)) = 2 ^ o
         /\ \A f : f \in Scan!Frames(h, o) <=> f \in Nat /\ h <= f /\ f < h + 2 ^ o
<1>1. 2 ^ o \in Nat \ {0}
  BY SizesOK
<1>2. h \in Int /\ h + 2 ^ o - 1 \in Int
  BY <1>1
<1>3. /\ IsFiniteSet(h .. h + 2 ^ o - 1)
      /\ Cardinality(h .. h + 2 ^ o - 1) =
           (IF h > h + 2 ^ o - 1 THEN 0 ELSE (h + 2 ^ o - 1) - h + 1)
  BY <1>2, FS_Interval
<1> DEFINE w == 2 ^ o
<1> HIDE DEF w
<1>4. w \in Nat \ {0} /\ Scan!Frames(h, o) = h .. h + w - 1
      /\ IsFiniteSet(h .. h + w - 1)
      /\ Cardinality(h .. h + w - 1) = (IF h > h + w - 1 THEN 0 ELSE (h + w - 1) - h + 1)
  BY <1>1, <1>3 DEF w, Scan!Frames
<1>5. Cardinality(h .. h + w - 1) = w
  BY <1>4
<1> QED
  BY <1>4, <1>5 DEF w

\* A page that is isolated, put at the end of the list of its order.
LEMMA PutOn ==
  ASSUME NEW lists, IsLists(lists), Apart(lists),
         NEW o \in Scan!Order, NEW g \in Nat, Scan!Frames(g, o) \cap OnLists(lists) = {}
  PROVE  LET more == [lists EXCEPT ![o] = Append(@, g)]
         IN /\ IsLists(more) /\ Apart(more)
            /\ OnLists(more) = OnLists(lists) \cup Scan!Frames(g, o)
<1> DEFINE more == [lists EXCEPT ![o] = Append(@, g)]
           last == Len(lists[o]) + 1
<1>1. /\ more \in [Scan!Order -> Seq(Nat)] /\ lists \in [Scan!Order -> Seq(Nat)]
      /\ more[o] = Append(lists[o], g) /\ \A p \in Scan!Order : p # o => more[p] = lists[p]
  BY DEF IsLists
<1>2. /\ lists[o] \in Seq(Nat) /\ last \in DOMAIN more[o] /\ more[o][last] = g
      /\ DOMAIN more[o] = DOMAIN lists[o] \cup {last} /\ last \notin DOMAIN lists[o]
      /\ \A i \in DOMAIN lists[o] : more[o][i] = lists[o][i]
  BY <1>1
<1> HIDE DEF more, last
<1>3. ASSUME NEW p \in Scan!Order, NEW i \in DOMAIN more[p], ~(p = o /\ i = last)
      PROVE  i \in DOMAIN lists[p] /\ more[p][i] = lists[p][i]
  BY <1>1, <1>2, <1>3
<1>4. ASSUME NEW p \in Scan!Order, NEW i \in DOMAIN lists[p]
      PROVE  i \in DOMAIN more[p] /\ more[p][i] = lists[p][i] /\ ~(p = o /\ i = last)
  BY <1>1, <1>2
<1>5. ASSUME NEW p \in Scan!Order, NEW i \in DOMAIN lists[p]
      PROVE  Scan!Frames(g, o) \cap Scan!Frames(lists[p][i], p) = {}
  BY OnListsOf
<1>6. Apart(more)
  <2> SUFFICES ASSUME NEW p \in Scan!Order, NEW q \in Scan!Order, NEW i \in DOMAIN more[p],
                      NEW j \in DOMAIN more[q], ~(p = q /\ i = j)
               PROVE  Scan!Frames(more[p][i], p) \cap Scan!Frames(more[q][j], q) = {}
    BY Zenon DEF Apart
  <2>1. CASE ~(p = o /\ i = last) /\ ~(q = o /\ j = last)
    BY <2>1, <1>3 DEF Apart
  <2>2. CASE p = o /\ i = last
    <3>1. ~(q = o /\ j = last)
      BY <2>2
    <3> QED
      BY <2>2, <3>1, <1>2, <1>3, <1>5
  <2>3. CASE q = o /\ j = last
    <3>1. ~(p = o /\ i = last)
      BY <2>3
    <3> QED
      BY <2>3, <3>1, <1>2, <1>3, <1>5
  <2> QED
    BY <2>1, <2>2, <2>3
<1>7. ASSUME NEW f PROVE f \in OnLists(more) <=> f \in OnLists(lists) \cup Scan!Frames(g, o)
  <2>1. ASSUME f \in OnLists(more) PROVE f \in OnLists(lists) \cup Scan!Frames(g, o)
    <3>1. PICK p \in Scan!Order : \E i \in DOMAIN more[p] : f \in Scan!Frames(more[p][i], p)
      BY <2>1, OnListsOf
    <3> PICK i \in DOMAIN more[p] : f \in Scan!Frames(more[p][i], p)
      BY <3>1
    <3>2. CASE p = o /\ i = last
      BY <3>1, <3>2, <1>2
    <3>3. CASE ~(p = o /\ i = last)
      BY <3>1, <3>3, <1>3, OnListsOf
    <3> QED
      BY <3>2, <3>3
  <2>2. ASSUME f \in OnLists(lists) PROVE f \in OnLists(more)
    BY <2>2, <1>4, OnListsOf
  <2>3. ASSUME f \in Scan!Frames(g, o) PROVE f \in OnLists(more)
    BY <2>3, <1>2, OnListsOf
  <2> QED
    BY <2>1, <2>2, <2>3
<1> QED
  BY <1>1, <1>6, <1>7 DEF more, IsLists

\* Halves of a page, as they go back to the lists: what is left of the page at h of
\* order o, once a page of order w is taken from its front.
Split(lists, h, o, w) ==
  [p \in Scan!Order |-> IF p = o THEN Tail(lists[o])
                   ELSE IF p \in w .. o - 1 THEN <<h + 2 ^ p>> \o lists[p]
                   ELSE lists[p]]

LEMMA HalvesOf ==
  ASSUME NEW h \in Nat, NEW o \in Scan!Order, NEW w \in Scan!Order, w <= o
  PROVE  /\ Scan!Frames(h, w) \subseteq Scan!Frames(h, o)
         /\ \A p \in w .. o - 1 :
              /\ p \in Scan!Order /\ h + 2 ^ p \in Nat
              /\ Scan!Frames(h + 2 ^ p, p) \subseteq Scan!Frames(h, o) \ Scan!Frames(h, w)
              /\ \A q \in w .. o - 1 :
                   p # q => Scan!Frames(h + 2 ^ p, p) \cap Scan!Frames(h + 2 ^ q, q) = {}
         /\ \A f \in Scan!Frames(h, o) \ Scan!Frames(h, w) :
              \E p \in w .. o - 1 : f \in Scan!Frames(h + 2 ^ p, p)
<1>1. ASSUME NEW p \in w .. o - 1
      PROVE  /\ p \in Scan!Order /\ p + 1 \in Scan!Order
             /\ p \in Nat /\ p + 1 \in Nat /\ h + 2 ^ p \in Nat
             /\ 2 ^ p \in Nat \ {0} /\ 2 ^ w <= 2 ^ p /\ 2 ^ p + 2 ^ p <= 2 ^ o
             /\ 2 ^ o \in Nat /\ 2 ^ w \in Nat
  <2>1. p \in Scan!Order /\ p + 1 \in Scan!Order /\ p + 1 <= o /\ w <= p
    BY SizesOK DEF Scan!Order
  <2>2. p \in Nat /\ p + 1 \in Nat /\ w \in Nat /\ o \in Nat /\ 2 ^ p \in Nat \ {0}
        /\ 2 ^ (p + 1) \in Nat /\ 2 ^ o \in Nat /\ 2 ^ w \in Nat
    BY <2>1, SizesOK
  <2>3. 2 ^ w <= 2 ^ p /\ 2 ^ (p + 1) <= 2 ^ o
    BY <2>1, <2>2, PowerGrows
  <2>4. 2 ^ (p + 1) = 2 * 2 ^ p
    BY <2>2, PowerDoubles
  <2> QED
    BY <2>1, <2>2, <2>3, <2>4
<1>2. w \in Nat /\ o \in Nat /\ 2 ^ w <= 2 ^ o /\ 2 ^ w \in Nat \ {0} /\ 2 ^ o \in Nat
  BY SizesOK, PowerGrows
<1>3. /\ \A f : f \in Scan!Frames(h, w) <=> f \in Nat /\ h <= f /\ f < h + 2 ^ w
      /\ \A f : f \in Scan!Frames(h, o) <=> f \in Nat /\ h <= f /\ f < h + 2 ^ o
  BY FramesOf
<1>4. Scan!Frames(h, w) \subseteq Scan!Frames(h, o)
  BY <1>2, <1>3
<1>5. ASSUME NEW p \in w .. o - 1
      PROVE  \A f : f \in Scan!Frames(h + 2 ^ p, p) <=>
                      f \in Nat /\ h + 2 ^ p <= f /\ f < h + 2 ^ p + 2 ^ p
  BY <1>1, FramesOf
<1>6. ASSUME NEW p \in w .. o - 1, NEW f \in Scan!Frames(h + 2 ^ p, p)
      PROVE  f \in Scan!Frames(h, o) \ Scan!Frames(h, w)
  BY <1>1, <1>3, <1>5
<1>7. ASSUME NEW p \in w .. o - 1, NEW q \in w .. o - 1, p < q
      PROVE  Scan!Frames(h + 2 ^ p, p) \cap Scan!Frames(h + 2 ^ q, q) = {}
  <2>1. 2 ^ p + 2 ^ p <= 2 ^ q
    <3>1. p \in Nat /\ q \in Nat /\ p + 1 \in Nat /\ p + 1 <= q /\ 2 ^ p \in Nat
      BY <1>1, <1>2, <1>7
    <3>2. 2 ^ (p + 1) <= 2 ^ q /\ 2 ^ (p + 1) = 2 * 2 ^ p
      BY <3>1, PowerGrows, PowerDoubles
    <3> QED
      BY <3>1, <3>2
  <2>2. 2 ^ p \in Nat /\ 2 ^ q \in Nat
    BY <1>1
  <2> QED
    BY <1>5, <2>1, <2>2
<1>8. ASSUME NEW f \in Scan!Frames(h, o) \ Scan!Frames(h, w)
      PROVE  \E p \in w .. o - 1 : f \in Scan!Frames(h + 2 ^ p, p)
  <2>1. f - h \in Nat /\ f \in Nat /\ 2 ^ w <= f - h /\ f - h < 2 ^ o
    BY <1>2, <1>3
  <2>2. PICK p \in w .. o - 1 : 2 ^ p <= f - h /\ f - h < 2 ^ (p + 1)
    BY <1>2, <2>1, BetweenPowers
  <2>3. p \in Nat /\ 2 ^ p \in Nat /\ 2 ^ (p + 1) = 2 * 2 ^ p
    BY <1>1, PowerDoubles
  <2> QED
    BY <1>5, <2>1, <2>2, <2>3
<1>9. ASSUME NEW p \in w .. o - 1, NEW q \in w .. o - 1, p # q
      PROVE  Scan!Frames(h + 2 ^ p, p) \cap Scan!Frames(h + 2 ^ q, q) = {}
  <2>1. p < q \/ q < p
    BY <1>2, <1>9
  <2> QED
    BY <2>1, <1>7
<1> QED
  BY <1>1, <1>4, <1>6, <1>8, <1>9

LEMMA TailOf ==
  ASSUME NEW s \in Seq(Nat), s # <<>>
  PROVE  /\ Head(s) \in Nat /\ Head(s) = s[1] /\ 1 \in DOMAIN s /\ Tail(s) \in Seq(Nat)
         /\ \A i \in DOMAIN Tail(s) :
              /\ i \in Nat /\ i + 1 \in DOMAIN s /\ i + 1 # 1 /\ Tail(s)[i] = s[i + 1]
         /\ \A j \in DOMAIN s : j # 1 => j \in Nat /\ j - 1 \in DOMAIN Tail(s) /\ (j - 1) + 1 = j
OBVIOUS

\* A page that is taken from the front of a list, as far as it is needed.
LEMMA TakeOff ==
  ASSUME NEW lists, IsLists(lists), Apart(lists),
         NEW o \in Scan!Order, NEW w \in Scan!Order, w <= o, lists[o] # <<>>,
         \A p \in w .. o - 1 : lists[p] = <<>>
  PROVE  LET h == Head(lists[o])
             left == Split(lists, h, o, w)
         IN /\ h \in Nat /\ IsLists(left) /\ Apart(left)
            /\ OnLists(left) = OnLists(lists) \ Scan!Frames(h, w)
            /\ Scan!Frames(h, w) \subseteq OnLists(lists)
<1> DEFINE h == Head(lists[o])
           left == Split(lists, h, o, w)
           tail == Tail(lists[o])
           Halves == w .. o - 1
           Index(p, i) == IF p = o THEN i + 1 ELSE i
<1>1. lists \in [Scan!Order -> Seq(Nat)] /\ lists[o] \in Seq(Nat)
  BY DEF IsLists
<1>2. /\ h \in Nat /\ h = lists[o][1] /\ 1 \in DOMAIN lists[o] /\ tail \in Seq(Nat)
      /\ \A i \in DOMAIN tail :
           i \in Nat /\ i + 1 \in DOMAIN lists[o] /\ i + 1 # 1 /\ tail[i] = lists[o][i + 1]
      /\ \A j \in DOMAIN lists[o] :
           j # 1 => j \in Nat /\ j - 1 \in DOMAIN tail /\ (j - 1) + 1 = j
  BY <1>1, TailOf
<1>3. /\ Scan!Frames(h, w) \subseteq Scan!Frames(h, o)
      /\ \A p \in Halves :
           /\ p \in Scan!Order /\ h + 2 ^ p \in Nat
           /\ Scan!Frames(h + 2 ^ p, p) \subseteq Scan!Frames(h, o) \ Scan!Frames(h, w)
           /\ \A q \in Halves :
                p # q => Scan!Frames(h + 2 ^ p, p) \cap Scan!Frames(h + 2 ^ q, q) = {}
      /\ \A f \in Scan!Frames(h, o) \ Scan!Frames(h, w) :
           \E p \in Halves : f \in Scan!Frames(h + 2 ^ p, p)
  BY <1>2, HalvesOf
<1>4. o \notin Halves
  BY SizesOK
<1>5. ASSUME NEW p \in Halves
      PROVE  /\ left[p] \in Seq(Nat) /\ DOMAIN left[p] = {1} /\ left[p][1] = h + 2 ^ p
             /\ DOMAIN lists[p] = {}
  <2>1. p \in Scan!Order /\ p # o /\ lists[p] = <<>> /\ h + 2 ^ p \in Nat
    BY <1>3, <1>4
  <2>2. left[p] = <<h + 2 ^ p>> \o <<>>
    BY <2>1 DEF Split
  <2> DEFINE x == h + 2 ^ p
  <2> HIDE DEF x, left
  <2>3. left[p] = <<x>> \o <<>> /\ x \in Nat
    BY <2>1, <2>2 DEF x
  <2>4. left[p] = <<x>>
    BY <2>3
  <2>5. left[p] \in Seq(Nat) /\ DOMAIN left[p] = {1} /\ left[p][1] = x
    BY <2>3, <2>4
  <2>6. DOMAIN lists[p] = {}
    BY <2>1
  <2> QED
    BY <2>5, <2>6 DEF x
<1>6. left[o] = tail
  BY DEF Split
<1>7. ASSUME NEW p \in Scan!Order, p \notin Halves, p # o PROVE left[p] = lists[p]
  BY <1>7 DEF Split
<1>8. IsLists(left)
  <2>1. ASSUME NEW p \in Scan!Order PROVE left[p] \in Seq(Nat)
    BY <1>1, <1>2, <1>5, <1>6, <1>7
  <2>2. left = [p \in Scan!Order |-> left[p]]
    BY DEF Split
  <2> HIDE DEF left
  <2> QED
    BY <2>1, <2>2 DEF IsLists
<1> HIDE DEF h, left, tail, Halves
<1>9. ASSUME NEW p \in Scan!Order, p \notin Halves, NEW i \in DOMAIN left[p]
      PROVE  /\ Index(p, i) \in DOMAIN lists[p] /\ left[p][i] = lists[p][Index(p, i)]
             /\ ~(p = o /\ Index(p, i) = 1)
  BY <1>2, <1>6, <1>7, <1>9
<1>10. ASSUME NEW p \in Scan!Order, NEW j \in DOMAIN lists[p], ~(p = o /\ j = 1)
       PROVE  p \notin Halves /\ \E i \in DOMAIN left[p] : Index(p, i) = j
  <2>1. p \notin Halves
    BY <1>5
  <2>2. CASE p = o
    <3>1. j # 1 /\ j - 1 \in DOMAIN left[p] /\ (j - 1) + 1 = j
      BY <1>2, <1>6, <1>10, <2>2
    <3> QED
      BY <2>1, <2>2, <3>1
  <2>3. CASE p # o
    BY <1>7, <2>1, <2>3
  <2> QED
    BY <2>1, <2>2, <2>3
<1>11. ASSUME NEW p \in Scan!Order, NEW j \in DOMAIN lists[p], ~(p = o /\ j = 1)
       PROVE  Scan!Frames(lists[p][j], p) \cap Scan!Frames(h, o) = {}
  BY <1>2, <1>11 DEF Apart
<1>12. Apart(left)
  <2> SUFFICES ASSUME NEW p \in Scan!Order, NEW q \in Scan!Order, NEW i \in DOMAIN left[p],
                      NEW j \in DOMAIN left[q], ~(p = q /\ i = j)
               PROVE  Scan!Frames(left[p][i], p) \cap Scan!Frames(left[q][j], q) = {}
    BY Zenon DEF Apart
  <2>1. CASE p \in Halves /\ q \in Halves
    <3>1. i = 1 /\ j = 1 /\ p # q
      BY <1>5, <2>1
    <3> QED
      BY <1>3, <1>5, <2>1, <3>1
  <2>2. CASE p \in Halves /\ q \notin Halves
    <3>1. i = 1 /\ left[p][i] = h + 2 ^ p
      BY <1>5, <2>2
    <3>2. Scan!Frames(h + 2 ^ p, p) \subseteq Scan!Frames(h, o)
      BY <1>3, <2>2
    <3>3. Scan!Frames(left[q][j], q) \cap Scan!Frames(h, o) = {}
      BY <1>9, <1>11, <2>2
    <3> QED
      BY <3>1, <3>2, <3>3
  <2>3. CASE p \notin Halves /\ q \in Halves
    <3>1. j = 1 /\ left[q][j] = h + 2 ^ q
      BY <1>5, <2>3
    <3>2. Scan!Frames(h + 2 ^ q, q) \subseteq Scan!Frames(h, o)
      BY <1>3, <2>3
    <3>3. Scan!Frames(left[p][i], p) \cap Scan!Frames(h, o) = {}
      BY <1>9, <1>11, <2>3
    <3> QED
      BY <3>1, <3>2, <3>3
  <2>4. CASE p \notin Halves /\ q \notin Halves
    <3>1. ~(p = q /\ Index(p, i) = Index(q, j))
      <4>1. CASE p = q
        <5>1. i \in Nat /\ j \in Nat /\ i # j
          BY <1>8, <2>4, <4>1 DEF IsLists
        <5> QED
          BY <4>1, <5>1
      <4> QED
        BY <4>1
    <3>2. /\ Index(p, i) \in DOMAIN lists[p] /\ left[p][i] = lists[p][Index(p, i)]
          /\ Index(q, j) \in DOMAIN lists[q] /\ left[q][j] = lists[q][Index(q, j)]
      BY <1>9, <2>4
    <3> HIDE DEF Index
    <3> QED
      BY <3>1, <3>2 DEF Apart
  <2> QED
    BY <2>1, <2>2, <2>3, <2>4
<1>13. Scan!Frames(h, o) \subseteq OnLists(lists)
  <2> SUFFICES ASSUME NEW f \in Scan!Frames(h, o) PROVE f \in OnLists(lists)
    OBVIOUS
  <2>1. f \in Scan!Frames(lists[o][1], o) /\ 1 \in DOMAIN lists[o]
    BY <1>2
  <2> QED
    BY <2>1, OnListsOf
<1>14. ASSUME NEW f \in OnLists(left) PROVE f \in OnLists(lists) \ Scan!Frames(h, w)
  <2>1. PICK p \in Scan!Order : \E i \in DOMAIN left[p] : f \in Scan!Frames(left[p][i], p)
    BY OnListsOf
  <2>2. PICK i \in DOMAIN left[p] : f \in Scan!Frames(left[p][i], p)
    BY <2>1
  <2>3. CASE p \in Halves
    <3>1. f \in Scan!Frames(h + 2 ^ p, p)
      BY <1>5, <2>2, <2>3
    <3> QED
      BY <1>3, <1>13, <2>3, <3>1
  <2>4. CASE p \notin Halves
    <3>1. /\ Index(p, i) \in DOMAIN lists[p] /\ f \in Scan!Frames(lists[p][Index(p, i)], p)
          /\ ~(p = o /\ Index(p, i) = 1)
      BY <1>9, <2>2, <2>4
    <3> HIDE DEF Index
    <3>2. f \in OnLists(lists)
      BY <3>1, OnListsOf
    <3>3. f \notin Scan!Frames(h, o)
      BY <1>11, <3>1
    <3> QED
      BY <1>3, <3>2, <3>3
  <2> QED
    BY <2>3, <2>4
<1>15. ASSUME NEW f \in OnLists(lists), f \notin Scan!Frames(h, w) PROVE f \in OnLists(left)
  <2>1. PICK p \in Scan!Order : \E j \in DOMAIN lists[p] : f \in Scan!Frames(lists[p][j], p)
    BY OnListsOf
  <2>2. PICK j \in DOMAIN lists[p] : f \in Scan!Frames(lists[p][j], p)
    BY <2>1
  <2>3. CASE p = o /\ j = 1
    <3>1. f \in Scan!Frames(h, o) \ Scan!Frames(h, w)
      BY <1>2, <1>15, <2>2, <2>3
    <3>2. PICK q \in Halves : f \in Scan!Frames(h + 2 ^ q, q)
      BY <1>3, <3>1
    <3>3. q \in Scan!Order /\ 1 \in DOMAIN left[q] /\ left[q][1] = h + 2 ^ q
      BY <1>3, <1>5
    <3> QED
      BY <3>2, <3>3, OnListsOf
  <2>4. CASE ~(p = o /\ j = 1)
    <3>1. PICK i \in DOMAIN left[p] : Index(p, i) = j
      BY <1>10, <2>4
    <3>2. p \notin Halves
      BY <1>10, <2>4
    <3>3. left[p][i] = lists[p][j]
      BY <1>9, <3>1, <3>2
    <3> QED
      BY <2>2, <3>3, OnListsOf
  <2> QED
    BY <2>3, <2>4
<1>16. OnLists(left) = OnLists(lists) \ Scan!Frames(h, w)
  <2>1. ASSUME NEW f PROVE f \in OnLists(left) <=> f \in OnLists(lists) \ Scan!Frames(h, w)
    BY <1>14, <1>15
  <2> QED
    BY <2>1
<1>17. h \in Nat /\ Scan!Frames(h, w) \subseteq OnLists(lists)
  BY <1>2, <1>3, <1>13
<1> QED
  BY <1>8, <1>12, <1>16, <1>17 DEF h, left

-----------------------------------------------------------------------------
(* The inductive invariant. *)

Kinds == {"free", "compound", "used", "isolated"}
Pcs == {"idle", "look", "scan", "scanned"}

ScanTypeOK ==
  /\ Scan!Zone(layout, Kinds) /\ IsLists(freepages)
  /\ nrFree \in Nat /\ nrMigrate \in Int /\ freePfn \in Int
  /\ folio \in 0 .. Len(Folios) /\ (~Scan!AtPc("idle") => folio < Len(Folios))
  /\ alloc \in [pc : Pcs, calls : Nat, pfn : Int, free : Nat]
  /\ scan \in [pfn : Int, start : Int, stride : Nat \ {0}, isolated : Nat]

\* A scan that begins on a sample stays on samples, and none of them was free.
OnSamples ==
  Scan!AtPc("scan") /\ scan.start % scan.stride = 0 =>
    /\ scan.pfn % scan.stride = 0
    /\ \A h \in scan.start .. scan.pfn - 1 : h % scan.stride = 0 => ~Scan!IsFree(h)

\* While a block is scanned there is room for one page of any order.
Limit == IF nrMigrate < FreeLimit THEN FreeLimit ELSE nrMigrate
Bounded == nrFree < Limit + Scan!BlockPages /\ (Scan!AtPc("scan") => nrFree < Limit)

\* What is isolated is on a list, in one place, or was given away.
KeptOnce ==
  /\ Apart(freepages)
  /\ IsFiniteSet(Scan!Listed) /\ nrFree = Cardinality(Scan!Listed)
  /\ Scan!Listed \cup taken = Scan!Isolated /\ Scan!Listed \cap taken = {}

ScanInv == ScanTypeOK /\ OnSamples /\ Bounded /\ KeptOnce

-----------------------------------------------------------------------------
(* The folio that is served, and the steps that change no more than a place. *)

LEMMA WantedOK ==
  ASSUME ScanTypeOK, ~Scan!AtPc("idle")
  PROVE  /\ Scan!Wanted \in Scan!Order /\ 2 ^ Scan!Wanted \in Nat \ {0}
         /\ folio + 1 \in 0 .. Len(Folios)
<1>1. folio + 1 \in 1 .. Len(Folios) /\ Folios \in Seq(Scan!Order)
  BY SizesOK DEF ScanTypeOK
<1> QED
  BY <1>1, SizesOK DEF Scan!Wanted

LEMMA SameKept ==
  ASSUME KeptOnce, UNCHANGED <<layout, freepages, nrFree, taken>>
  PROVE  KeptOnce'
BY DEF KeptOnce, Apart, Scan!Listed, Scan!Isolated, Scan!Frames

LEMMA SameBound ==
  ASSUME Bounded, UNCHANGED <<nrFree, nrMigrate>>, Scan!AtPc("scan")' => nrFree < Limit
  PROVE  Bounded'
BY DEF Bounded, Limit

LEMMA NotScanning ==
  ASSUME ~Scan!AtPc("scan")'
  PROVE  OnSamples'
BY DEF OnSamples

\* A scan that has just begun.
LEMMA ScanBegun ==
  ASSUME ScanTypeOK', scan'.pfn = scan'.start
  PROVE  OnSamples'
BY DEF OnSamples, ScanTypeOK

\* On to the first sample from a frame on; what begins before it is not free.
LEMMA OntoSample ==
  ASSUME ScanTypeOK, OnSamples, Scan!AtPc("scan"), NEW past \in Int, scan.pfn <= past,
         \A h \in DOMAIN layout : Scan!IsFree(h)' => Scan!IsFree(h),
         \A h \in scan.pfn .. past - 1 : ~Scan!IsFree(h)',
         DOMAIN layout' = DOMAIN layout,
         scan'.pfn = Scan!AlignUp(past, scan.stride),
         scan'.start = scan.start, scan'.stride = scan.stride
  PROVE  OnSamples'
<1>1. scan.pfn \in Int /\ scan.start \in Int /\ scan.stride \in Nat \ {0}
  BY DEF ScanTypeOK
<1> SUFFICES ASSUME scan.start % scan.stride = 0
             PROVE  /\ scan'.pfn % scan.stride = 0
                    /\ \A h \in scan.start .. scan'.pfn - 1 : h % scan.stride = 0 => ~Scan!IsFree(h)'
  BY DEF OnSamples
<1>2. \A h \in scan.start .. scan.pfn - 1 : h % scan.stride = 0 => ~Scan!IsFree(h)
  BY DEF OnSamples
<1> DEFINE next == Scan!AlignUp(past, scan.stride)
<1>3. /\ next \in Int /\ next % scan.stride = 0 /\ past <= next
      /\ \A h \in Int : h % scan.stride = 0 /\ past <= h => next <= h
  BY <1>1, RoundedUp
<1> HIDE DEF next
<1>4. ASSUME NEW h \in scan.start .. next - 1, h % scan.stride = 0 PROVE ~Scan!IsFree(h)'
  <2>1. h < past
    BY <1>1, <1>3, <1>4
  <2>2. CASE scan.pfn <= h
    BY <1>1, <2>1, <2>2
  <2>3. CASE h < scan.pfn
    <3>1. ~Scan!IsFree(h)
      BY <1>1, <1>2, <1>4, <2>3
    <3> QED
      BY <3>1 DEF Scan!IsFree, Scan!IsHead
  <2> QED
    BY <1>1, <2>2, <2>3
<1> QED
  BY <1>3, <1>4 DEF next

-----------------------------------------------------------------------------
(* One lemma per action. *)

LEMMA CompactionAllocOK ==
  ASSUME ScanInv, Scan!CompactionAlloc
  PROVE  ScanInv'
<1> USE DEF Scan!CompactionAlloc, Scan!ccVars, Scan!AtPc
<1>1. ScanTypeOK'
  BY SizesOK DEF ScanInv, ScanTypeOK, Pcs
<1>2. OnSamples'
  BY NotScanning
<1>3. Bounded'
  BY SameBound DEF ScanInv
<1>4. KeptOnce'
  BY SameKept DEF ScanInv
<1> QED
  BY <1>1, <1>2, <1>3, <1>4 DEF ScanInv

\* An order that is enough, with every lesser one empty, is there.
LEMMA LeastOrder ==
  ASSUME ScanTypeOK, Scan!TakeTarget
  PROVE  \E o \in Scan!Order :
           /\ o >= Scan!Wanted /\ freepages[o] # <<>>
           /\ \A p \in Scan!Wanted .. o - 1 : freepages[p] = <<>>
<1> DEFINE T == { o \in Scan!Order : o >= Scan!Wanted /\ freepages[o] # <<>> }
<1>1. Scan!Wanted \in Scan!Order /\ Scan!Order \subseteq Nat
  BY WantedOK, SizesOK DEF Scan!TakeTarget, Scan!AtPc
<1>2. T \subseteq Nat /\ T # {}
  BY <1>1 DEF Scan!TakeTarget, Scan!HasFreeOrder
<1>3. PICK o \in T : \A p \in T : o <= p
  <2> HIDE DEF T
  <2> QED
    BY <1>2, LeastOf
<1>4. ASSUME NEW p \in Scan!Wanted .. o - 1 PROVE freepages[p] = <<>>
  <2>1. p \in Scan!Order /\ p >= Scan!Wanted /\ ~(o <= p)
    BY <1>1, <1>3, <1>4, SizesOK DEF Scan!Order
  <2> QED
    BY <1>3, <2>1
<1> QED
  BY <1>3, <1>4

LEMMA TakeTargetIs ==
  ASSUME ScanTypeOK, Scan!TakeTarget
  PROVE  \E o \in Scan!Order :
           /\ Scan!Wanted <= o /\ freepages[o] # <<>>
           /\ \A p \in Scan!Wanted .. o - 1 : freepages[p] = <<>>
           /\ Scan!Served(Split(freepages, Head(freepages[o]), o, Scan!Wanted), 2 ^ Scan!Wanted)
           /\ taken' = taken \cup Scan!Frames(Head(freepages[o]), Scan!Wanted)
<1> DEFINE Fits(o) == /\ o >= Scan!Wanted /\ freepages[o] # <<>>
                      /\ \A p \in Scan!Wanted .. o - 1 : freepages[p] = <<>>
           o == CHOOSE o \in Scan!Order : Fits(o)
<1>1. o \in Scan!Order /\ Fits(o)
  <2>1. \E q \in Scan!Order : Fits(q)
    BY LeastOrder
  <2> HIDE DEF Fits
  <2> QED
    BY <2>1
<1>2. /\ Scan!Served(Split(freepages, Head(freepages[o]), o, Scan!Wanted), 2 ^ Scan!Wanted)
      /\ taken' = taken \cup Scan!Frames(Head(freepages[o]), Scan!Wanted)
  BY DEF Scan!TakeTarget, Split
<1>3. Scan!Wanted \in Nat /\ o \in Nat
  BY <1>1, WantedOK, SizesOK DEF Scan!TakeTarget, Scan!AtPc
<1> HIDE DEF o
<1> QED
  BY <1>1, <1>2, <1>3

LEMMA TakeTargetOK ==
  ASSUME ScanInv, Scan!TakeTarget
  PROVE  ScanInv'
<1>1. PICK o \in Scan!Order :
        /\ Scan!Wanted <= o /\ freepages[o] # <<>>
        /\ \A p \in Scan!Wanted .. o - 1 : freepages[p] = <<>>
        /\ Scan!Served(Split(freepages, Head(freepages[o]), o, Scan!Wanted), 2 ^ Scan!Wanted)
        /\ taken' = taken \cup Scan!Frames(Head(freepages[o]), Scan!Wanted)
  BY TakeTargetIs DEF ScanInv
<1>2. /\ Scan!Wanted \in Scan!Order /\ 2 ^ Scan!Wanted \in Nat \ {0}
      /\ folio + 1 \in 0 .. Len(Folios)
  BY WantedOK DEF ScanInv, Scan!TakeTarget, Scan!AtPc
<1> DEFINE h == Head(freepages[o])
           given == Scan!Frames(h, Scan!Wanted)
           n == 2 ^ Scan!Wanted
<1>3. IsLists(freepages) /\ Apart(freepages) /\ Scan!Listed = OnLists(freepages)
      /\ Scan!Listed' = OnLists(freepages')
  BY DEF ScanInv, ScanTypeOK, KeptOnce, Scan!Listed, OnLists
<1>4. freepages' = Split(freepages, h, o, Scan!Wanted)
  BY <1>1 DEF Scan!Served
<1>5. /\ h \in Nat /\ IsLists(freepages') /\ Apart(freepages')
      /\ Scan!Listed' = Scan!Listed \ given /\ given \subseteq Scan!Listed
  BY <1>1, <1>2, <1>3, <1>4, TakeOff
<1>6. IsFiniteSet(given) /\ Cardinality(given) = n
  BY <1>2, <1>5, FramesOf
<1>7. nrFree' = nrFree - n /\ nrMigrate' = nrMigrate - n /\ folio' = folio + 1
      /\ alloc' = [alloc EXCEPT !.pc = "idle"] /\ taken' = taken \cup given
      /\ UNCHANGED <<layout, freePfn, contended, scan>>
  BY <1>1 DEF Scan!Served, Scan!TakeTarget
<1> HIDE DEF h, given, n
<1>8. n \in Nat /\ nrFree \in Nat /\ nrMigrate \in Int
  BY <1>2 DEF n, ScanInv, ScanTypeOK
<1>9. IsFiniteSet(Scan!Listed') /\ nrFree' = Cardinality(Scan!Listed') /\ nrFree' \in Nat
  <2>1. IsFiniteSet(Scan!Listed) /\ nrFree = Cardinality(Scan!Listed)
    BY DEF ScanInv, KeptOnce
  <2>2. IsFiniteSet(Scan!Listed \ given)
        /\ Cardinality(Scan!Listed \ given) =
             Cardinality(Scan!Listed) - Cardinality(Scan!Listed \cap given)
    BY <2>1, FS_Difference
  <2>3. Scan!Listed \cap given = given
    BY <1>5
  <2> QED
    BY <1>5, <1>6, <1>7, <2>1, <2>2, <2>3, FS_CardinalityType
<1>10. Scan!AtPc("idle")'
  BY <1>7 DEF Scan!AtPc, ScanInv, ScanTypeOK
<1>11. ScanTypeOK'
  <2>1. Scan!Zone(layout', Kinds)
    BY <1>7 DEF ScanInv, ScanTypeOK
  <2>2. nrMigrate' \in Int
    BY <1>7, <1>8
  <2>3. folio' \in 0 .. Len(Folios)
    BY <1>2, <1>7
  <2>4. alloc' \in [pc : Pcs, calls : Nat, pfn : Int, free : Nat]
    BY <1>7 DEF ScanInv, ScanTypeOK, Pcs
  <2>5. scan' \in [pfn : Int, start : Int, stride : Nat \ {0}, isolated : Nat] /\ freePfn' \in Int
    BY <1>7 DEF ScanInv, ScanTypeOK
  <2> QED
    BY <1>5, <1>9, <1>10, <2>1, <2>2, <2>3, <2>4, <2>5 DEF ScanTypeOK
<1>12. OnSamples'
  BY <1>10, NotScanning DEF Scan!AtPc
<1>13. Bounded'
  <2>1. nrFree < Limit + Scan!BlockPages /\ FreeLimit \in Nat /\ Scan!BlockPages \in Nat
    BY SizesOK DEF ScanInv, Bounded
  <2> QED
    BY <1>7, <1>8, <1>10, <2>1 DEF Bounded, Limit, Scan!AtPc
<1>14. KeptOnce'
  <2>1. Scan!Isolated' = Scan!Isolated
    BY <1>7 DEF Scan!Isolated
  <2>2. Scan!Listed \cup taken = Scan!Isolated /\ Scan!Listed \cap taken = {}
    BY DEF ScanInv, KeptOnce
  <2>3. Scan!Listed' \cup taken' = Scan!Isolated' /\ Scan!Listed' \cap taken' = {}
    BY <1>5, <1>7, <2>1, <2>2
  <2> QED
    BY <1>5, <1>9, <2>3 DEF KeptOnce, Apart, Scan!Frames
<1> QED
  BY <1>11, <1>12, <1>13, <1>14 DEF ScanInv

LEMMA GiveUpOK ==
  ASSUME ScanInv, Scan!GiveUp
  PROVE  ScanInv'
<1>1. PICK why : Scan!NoTarget(why)
  BY DEF Scan!GiveUp
<1>2. folio + 1 \in 0 .. Len(Folios)
  BY WantedOK DEF ScanInv, Scan!GiveUp, Scan!AtPc
<1> USE DEF Scan!NoTarget, Scan!ccVars, Scan!AtPc
<1>3. ScanTypeOK'
  BY <1>1, <1>2 DEF ScanInv, ScanTypeOK, Pcs
<1>4. Scan!AtPc("idle")'
  BY <1>1 DEF ScanInv, ScanTypeOK
<1>5. OnSamples'
  BY <1>4, NotScanning
<1>6. Bounded'
  BY <1>1, <1>4, SameBound DEF ScanInv
<1>7. KeptOnce'
  BY <1>1, SameKept DEF ScanInv
<1> QED
  BY <1>3, <1>5, <1>6, <1>7 DEF ScanInv

LEMMA IsolateFreepagesOK ==
  ASSUME ScanInv, Scan!IsolateFreepages
  PROVE  ScanInv'
<1>1. PICK stride \in {1, 2 ^ ClusterOrder} :
        scan' = [pfn |-> freePfn, start |-> freePfn, stride |-> stride, isolated |-> 0]
  BY DEF Scan!IsolateFreepages
<1>2. stride \in Nat \ {0}
  BY SizesOK, PowerDoubles
<1>3. Scan!Min2(alloc.calls + 1, 2) \in Nat
  BY DEF Scan!Min2, ScanInv, ScanTypeOK
<1> USE DEF Scan!AtPc, Scan!ccVars
<1>4. /\ alloc' = [pc |-> IF Scan!Met \/ nrFree >= FreeLimit THEN "look" ELSE "scan",
                calls |-> Scan!Min2(alloc.calls + 1, 2), pfn |-> freePfn, free |-> nrFree]
      /\ UNCHANGED <<layout, Scan!ccVars, folio, taken, gave>> /\ Scan!AtPc("look")
  BY DEF Scan!IsolateFreepages
<1>5. ScanTypeOK'
  BY <1>1, <1>2, <1>3, <1>4 DEF ScanInv, ScanTypeOK, Pcs
<1>6. OnSamples'
  BY <1>1, <1>5, ScanBegun
<1>7. Bounded'
  <2>1. Scan!AtPc("scan")' => nrFree < FreeLimit
    BY <1>4, SizesOK DEF ScanInv, ScanTypeOK
  <2>2. Scan!AtPc("scan")' => nrFree < Limit
    BY <2>1, SizesOK DEF ScanInv, ScanTypeOK, Limit
  <2> QED
    BY <1>4, <2>2, SameBound DEF ScanInv
<1>8. KeptOnce'
  BY <1>4, SameKept DEF ScanInv
<1> QED
  BY <1>5, <1>6, <1>7, <1>8 DEF ScanInv

\* A frame that is passed over: the scan goes on, and nothing else changes.
LEMMA PassOK ==
  ASSUME ScanInv, Scan!AtPc("scan"), UNCHANGED alloc, Scan!NoChange,
         NEW past \in Int, scan.pfn <= past, \A h \in scan.pfn .. past - 1 : ~Scan!IsFree(h),
         \/ scan' = [scan EXCEPT !.pfn = Scan!AlignUp(past, scan.stride)]
         \/ past = scan.pfn + 1 /\ scan' = [scan EXCEPT !.pfn = scan.pfn + scan.stride]
  PROVE  ScanInv'
<1>1. UNCHANGED <<layout, freepages, nrFree, nrMigrate, freePfn, folio, taken>>
  BY DEF Scan!NoChange
<1>2. scan.pfn \in Int /\ scan.start \in Int /\ scan.stride \in Nat \ {0} /\ scan.isolated \in Nat
  BY DEF ScanInv, ScanTypeOK
<1>3. Scan!AlignUp(past, scan.stride) \in Int
  BY <1>2, RoundedUp
<1>4. /\ scan'.pfn \in Int /\ scan'.start = scan.start /\ scan'.stride = scan.stride
      /\ scan' \in [pfn : Int, start : Int, stride : Nat \ {0}, isolated : Nat]
  BY <1>2, <1>3 DEF ScanInv, ScanTypeOK
<1>5. ScanTypeOK'
  BY <1>1, <1>4 DEF ScanInv, ScanTypeOK, Scan!AtPc
<1>6. \A h : Scan!IsFree(h)' <=> Scan!IsFree(h)
  BY <1>1 DEF Scan!IsFree, Scan!IsHead
<1>7. OnSamples'
  <2>1. CASE scan' = [scan EXCEPT !.pfn = Scan!AlignUp(past, scan.stride)]
    <3>1. scan'.pfn = Scan!AlignUp(past, scan.stride)
      BY <2>1 DEF ScanInv, ScanTypeOK
    <3> QED
      BY <1>1, <1>4, <1>6, <3>1, OntoSample DEF ScanInv
  \* One frame is passed over: it is a stride to the next sample.
  <2>2. CASE past = scan.pfn + 1 /\ scan' = [scan EXCEPT !.pfn = scan.pfn + scan.stride]
    <3> SUFFICES ASSUME scan.start % scan.stride = 0
                 PROVE  /\ scan'.pfn % scan.stride = 0
                        /\ \A h \in scan.start .. scan'.pfn - 1 :
                             h % scan.stride = 0 => ~Scan!IsFree(h)
      BY <1>4, <1>6 DEF OnSamples
    <3>1. /\ scan.pfn % scan.stride = 0
          /\ \A h \in scan.start .. scan.pfn - 1 : h % scan.stride = 0 => ~Scan!IsFree(h)
      BY DEF ScanInv, OnSamples
    <3>2. scan'.pfn = scan.pfn + scan.stride
      BY <2>2 DEF ScanInv, ScanTypeOK
    <3>3. /\ (scan.pfn + scan.stride) % scan.stride = 0
          /\ \A h \in Int : h % scan.stride = 0 /\ scan.pfn < h => scan.pfn + scan.stride <= h
      BY <1>2, <3>1, NextSample
    <3>4. ASSUME NEW h \in scan.start .. scan'.pfn - 1, h % scan.stride = 0
          PROVE  ~Scan!IsFree(h)
      <4>1. h <= scan.pfn
        BY <1>2, <3>2, <3>3, <3>4
      <4>2. CASE h = scan.pfn
        <5>1. h \in scan.pfn .. past - 1
          BY <1>2, <2>2, <4>2
        <5> QED
          BY <5>1
      <4> QED
        BY <1>2, <3>1, <3>4, <4>1, <4>2
    <3> QED
      BY <3>2, <3>3, <3>4
  <2> QED
    BY <2>1, <2>2
<1>8. Bounded'
  BY <1>1, SameBound DEF ScanInv, Bounded
<1>9. KeptOnce'
  BY <1>1, SameKept DEF ScanInv
<1> QED
  BY <1>5, <1>7, <1>8, <1>9 DEF ScanInv

\* Behind the head of a page, up to its end, no other page begins.
LEMMA NoOtherHead ==
  ASSUME ScanTypeOK, NEW g \in DOMAIN layout
  PROVE  /\ g \in Nat /\ layout[g].order \in Scan!Order /\ 2 ^ layout[g].order \in Nat \ {0}
         /\ \A h \in g .. g + 2 ^ layout[g].order - 1 : h \in DOMAIN layout => h = g
<1>1. /\ DOMAIN layout \subseteq Nat /\ layout[g] \in [kind : Kinds, order : Scan!Order]
      /\ \A h \in DOMAIN layout : h \in Nat /\ layout[h].order \in Scan!Order
      /\ \A h \in DOMAIN layout :
           g # h => Scan!Frames(g, layout[g].order) \cap Scan!Frames(h, layout[h].order) = {}
  BY DEF ScanTypeOK, Scan!Zone
<1>2. layout[g].order \in Scan!Order /\ 2 ^ layout[g].order \in Nat \ {0}
  BY <1>1, SizesOK
<1>3. ASSUME NEW h \in g .. g + 2 ^ layout[g].order - 1, h \in DOMAIN layout PROVE h = g
  <2>1. h \in Scan!Frames(g, layout[g].order)
    BY DEF Scan!Frames
  <2>2. h \in Scan!Frames(h, layout[h].order)
    BY <1>1, <1>3, FramesOf
  <2> QED
    BY <1>1, <1>3, <2>1, <2>2
<1> QED
  BY <1>1, <1>2, <1>3

\* Where the loop goes on from, a stride later.
LEMMA OntoIs ==
  ASSUME ScanTypeOK, NEW past \in Int, Scan!Sampled(Scan!Onto(past))
  PROVE  scan' = [scan EXCEPT !.pfn = Scan!AlignUp(past, scan.stride)]
<1>1. Scan!AlignUp(past, scan.stride) \in Int /\ scan.stride \in Nat
  BY RoundedUp DEF ScanTypeOK
<1>2. Scan!Onto(past) + scan.stride = Scan!AlignUp(past, scan.stride)
  BY <1>1 DEF Scan!Onto
<1> QED
  BY <1>2 DEF Scan!Sampled

LEMMA PassCompoundOK ==
  ASSUME ScanInv, Scan!PassCompound
  PROVE  ScanInv'
<1> DEFINE g == scan.pfn
           past == g + 2 ^ layout[g].order
<1>1. /\ Scan!AtPc("scan") /\ g \in DOMAIN layout /\ layout[g].kind = "compound"
      /\ Scan!Sampled(Scan!Onto(past)) /\ UNCHANGED alloc /\ Scan!NoChange
  BY DEF Scan!PassCompound, Scan!Scanning, Scan!IsHead
<1>2. /\ g \in Nat /\ 2 ^ layout[g].order \in Nat \ {0}
      /\ \A h \in g .. past - 1 : h \in DOMAIN layout => h = g
  BY <1>1, NoOtherHead DEF ScanInv
<1>3. past \in Int /\ g <= past
  BY <1>2
<1>4. \A h \in g .. past - 1 : ~Scan!IsFree(h)
  BY <1>1, <1>2 DEF Scan!IsFree, Scan!IsHead
<1> HIDE DEF past
<1>5. scan' = [scan EXCEPT !.pfn = Scan!AlignUp(past, scan.stride)]
  BY <1>1, <1>3, OntoIs DEF ScanInv
<1> QED
  BY <1>1, <1>3, <1>4, <1>5, PassOK

LEMMA PassTailOK ==
  ASSUME ScanInv, Scan!PassTail
  PROVE  ScanInv'
<1> DEFINE past == scan.pfn + 1
<1>1. /\ Scan!AtPc("scan") /\ ~Scan!IsHead(scan.pfn) /\ Scan!Sampled(Scan!Onto(past))
      /\ UNCHANGED alloc /\ Scan!NoChange
  BY DEF Scan!PassTail, Scan!Scanning
<1>2. past \in Int /\ scan.pfn <= past /\ \A h \in scan.pfn .. past - 1 : h = scan.pfn
  BY DEF ScanInv, ScanTypeOK
<1>3. \A h \in scan.pfn .. past - 1 : ~Scan!IsFree(h)
  BY <1>1, <1>2 DEF Scan!IsFree
<1> HIDE DEF past
<1>4. scan' = [scan EXCEPT !.pfn = Scan!AlignUp(past, scan.stride)]
  BY <1>1, <1>2, OntoIs DEF ScanInv
<1> QED
  BY <1>1, <1>2, <1>3, <1>4, PassOK

LEMMA PassUsedOK ==
  ASSUME ScanInv, Scan!PassUsed
  PROVE  ScanInv'
<1> DEFINE past == scan.pfn + 1
<1>1. /\ Scan!AtPc("scan") /\ ~Scan!IsFree(scan.pfn) /\ UNCHANGED alloc /\ Scan!NoChange
      /\ scan' = [scan EXCEPT !.pfn = scan.pfn + scan.stride]
  BY DEF Scan!PassUsed, Scan!Scanning, Scan!Sampled
<1>2. past \in Int /\ scan.pfn <= past /\ \A h \in scan.pfn .. past - 1 : h = scan.pfn
  BY DEF ScanInv, ScanTypeOK
<1>3. \A h \in scan.pfn .. past - 1 : ~Scan!IsFree(h)
  BY <1>1, <1>2
<1> QED
  BY <1>1, <1>2, <1>3, PassOK

LEMMA BlockScannedOK ==
  ASSUME ScanInv, Scan!BlockScanned \/ Scan!IsolateFails
  PROVE  ScanInv'
<1>1. /\ UNCHANGED <<layout, freepages, nrFree, nrMigrate, freePfn, folio, scan, taken>>
      /\ Scan!AtPc("scan") /\ alloc' = [alloc EXCEPT !.pc = "scanned"]
  BY DEF Scan!BlockScanned, Scan!IsolateFails, Scan!Scanning, Scan!ccVars
<1>2. alloc'.pc = "scanned"
  BY <1>1 DEF ScanInv, ScanTypeOK
<1>3. ScanTypeOK'
  BY <1>1 DEF ScanInv, ScanTypeOK, Pcs, Scan!AtPc
<1>4. OnSamples'
  BY <1>2, NotScanning DEF Scan!AtPc
<1>5. Bounded'
  BY <1>1, <1>2, SameBound DEF ScanInv, Scan!AtPc
<1>6. KeptOnce'
  BY <1>1, SameKept DEF ScanInv
<1> QED
  BY <1>3, <1>4, <1>5, <1>6 DEF ScanInv

\* Whether there is enough: if not, there is room for one more page.
LEMMA RoomLeft ==
  ASSUME ScanTypeOK, NEW lists, NEW free \in Nat, NEW order,
         ~Scan!FreeEnough(lists, free, order)
  PROVE  free < Limit
BY SizesOK DEF Scan!FreeEnough, Limit, ScanTypeOK

LEMMA IsolateOK ==
  ASSUME ScanInv, Scan!Isolate
  PROVE  ScanInv'
<1> DEFINE g == scan.pfn
           o == layout[g].order
           n == 2 ^ o
           past == g + n
           lists == [freepages EXCEPT ![o] = Append(@, g)]
           free == nrFree + n
           stop == Scan!FreeEnough(lists, free, Scan!Wanted)
<1>1. /\ Scan!AtPc("scan") /\ Scan!IsFree(g)
      /\ freepages' = lists /\ nrFree' = free
      /\ layout' = [h \in DOMAIN layout |->
                      IF h = g THEN [layout[h] EXCEPT !.kind = "isolated"] ELSE layout[h]]
      /\ scan' = [scan EXCEPT !.isolated = @ + 1,
                              !.pfn = IF stop THEN past ELSE Scan!Onto(past) + scan.stride]
      /\ alloc' = [alloc EXCEPT !.pc = IF stop THEN "scanned" ELSE "scan"]
      /\ UNCHANGED <<nrMigrate, freePfn, folio, taken>>
  BY Zenon DEF Scan!Isolate, Scan!Scanning
<1>2. /\ g \in DOMAIN layout /\ layout[g].kind = "free"
      /\ g \in Nat /\ o \in Scan!Order /\ n \in Nat \ {0}
      /\ \A h \in g .. past - 1 : h \in DOMAIN layout => h = g
  BY <1>1, NoOtherHead DEF ScanInv, Scan!IsFree, Scan!IsHead
<1>3. past \in Int /\ g <= past /\ free \in Nat
  BY <1>2 DEF ScanInv, ScanTypeOK
<1>4. /\ layout \in [DOMAIN layout -> [kind : Kinds, order : Scan!Order]]
      /\ \A a, b \in DOMAIN layout :
           a # b => Scan!Frames(a, layout[a].order) \cap Scan!Frames(b, layout[b].order) = {}
      /\ DOMAIN layout \subseteq Nat
  BY DEF ScanInv, ScanTypeOK, Scan!Zone
<1>5. /\ DOMAIN layout' = DOMAIN layout
      /\ layout'[g].kind = "isolated" /\ layout'[g].order = o
      /\ layout'[g] \in [kind : Kinds, order : Scan!Order]
      /\ \A h \in DOMAIN layout : h # g => layout'[h] = layout[h]
  <2>1. layout[g] \in [kind : Kinds, order : Scan!Order]
    BY <1>2, <1>4
  <2>2. layout'[g] = [layout[g] EXCEPT !.kind = "isolated"]
    BY <1>1, <1>2
  <2>3. DOMAIN layout' = DOMAIN layout
        /\ \A h \in DOMAIN layout : h # g => layout'[h] = layout[h]
    BY <1>1
  <2> QED
    BY <2>1, <2>2, <2>3 DEF Kinds
<1>6. \A h \in DOMAIN layout : layout'[h].order = layout[h].order
  BY <1>5
\* What is isolated, and what is listed.
<1>7. Scan!Frames(g, o) \cap Scan!Isolated = {}
  <2>1. ASSUME NEW h \in DOMAIN layout, layout[h].kind = "isolated"
        PROVE  Scan!Frames(g, o) \cap Scan!Frames(h, layout[h].order) = {}
    BY <1>2, <1>4, <2>1
  <2> QED
    BY <2>1 DEF Scan!Isolated
<1>8. Scan!Isolated' = Scan!Isolated \cup Scan!Frames(g, o)
  <2> DEFINE Heads == { h \in DOMAIN layout : layout[h].kind = "isolated" }
             Pages(S) == { Scan!Frames(h, layout[h].order) : h \in S }
  <2>1. { h \in DOMAIN layout' : layout'[h].kind = "isolated" } = Heads \cup {g}
    BY <1>2, <1>5
  <2>2. { Scan!Frames(h, layout'[h].order) : h \in Heads \cup {g} } = Pages(Heads \cup {g})
    BY <1>2, <1>6
  <2>3. Scan!Isolated' = UNION Pages(Heads \cup {g}) /\ Scan!Isolated = UNION Pages(Heads)
    BY <2>1, <2>2 DEF Scan!Isolated, Scan!Frames
  <2>4. Pages(Heads \cup {g}) = Pages(Heads) \cup {Scan!Frames(g, o)}
    OBVIOUS
  <2> HIDE DEF Pages, Heads
  <2> QED
    BY <2>3, <2>4
<1>9. IsLists(freepages) /\ Apart(freepages) /\ Scan!Listed = OnLists(freepages)
      /\ Scan!Listed' = OnLists(freepages')
  BY DEF ScanInv, ScanTypeOK, KeptOnce, Scan!Listed, OnLists
<1>10. /\ IsFiniteSet(Scan!Listed) /\ nrFree = Cardinality(Scan!Listed)
       /\ Scan!Listed \cup taken = Scan!Isolated /\ Scan!Listed \cap taken = {}
  BY DEF ScanInv, KeptOnce
<1>11. Scan!Frames(g, o) \cap Scan!Listed = {} /\ Scan!Frames(g, o) \cap taken = {}
  BY <1>7, <1>10
<1>12. /\ IsLists(freepages') /\ Apart(freepages')
       /\ Scan!Listed' = Scan!Listed \cup Scan!Frames(g, o)
  BY <1>1, <1>2, <1>9, <1>11, PutOn
<1>13. IsFiniteSet(Scan!Listed') /\ nrFree' = Cardinality(Scan!Listed')
  <2>1. IsFiniteSet(Scan!Frames(g, o)) /\ Cardinality(Scan!Frames(g, o)) = n
    BY <1>2, FramesOf
  <2>2. Cardinality(Scan!Listed \cap Scan!Frames(g, o)) = 0
    BY <1>11, FS_EmptySet
  <2>3. /\ IsFiniteSet(Scan!Listed \cup Scan!Frames(g, o))
        /\ Cardinality(Scan!Listed \cup Scan!Frames(g, o)) =
             Cardinality(Scan!Listed) + Cardinality(Scan!Frames(g, o))
               - Cardinality(Scan!Listed \cap Scan!Frames(g, o))
    BY <1>10, <2>1, FS_Union
  <2> HIDE DEF g, o, n
  <2> QED
    BY <1>1, <1>2, <1>10, <1>12, <2>1, <2>2, <2>3, FS_CardinalityType
<1> HIDE DEF o, n, past, lists, free, stop
<1>14. Scan!AlignUp(past, scan.stride) \in Int
       /\ Scan!Onto(past) + scan.stride = Scan!AlignUp(past, scan.stride)
  <2>1. Scan!AlignUp(past, scan.stride) \in Int /\ scan.stride \in Nat
    BY <1>3, RoundedUp DEF ScanInv, ScanTypeOK
  <2> QED
    BY <2>1 DEF Scan!Onto
<1>15. ScanTypeOK'
  <2>1. Scan!Zone(layout', Kinds)
    <3>1. layout' = [h \in DOMAIN layout' |-> layout'[h]]
      BY <1>1
    <3>2. \A h \in DOMAIN layout' : layout'[h] \in [kind : Kinds, order : Scan!Order]
      BY <1>4, <1>5
    <3>3. \A a, b \in DOMAIN layout' :
            a # b => Scan!Frames(a, layout'[a].order) \cap Scan!Frames(b, layout'[b].order) = {}
      BY <1>4, <1>5, <1>6
    <3> QED
      BY <1>4, <1>5, <3>1, <3>2, <3>3 DEF Scan!Zone
  <2>2. nrFree' \in Nat
    BY <1>1, <1>3
  <2>3. alloc' \in [pc : Pcs, calls : Nat, pfn : Int, free : Nat]
    BY <1>1 DEF ScanInv, ScanTypeOK, Pcs
  <2>4. scan' \in [pfn : Int, start : Int, stride : Nat \ {0}, isolated : Nat]
    <3> DEFINE next == IF stop THEN past ELSE Scan!Onto(past) + scan.stride
    <3>1. next \in Int
      BY <1>3, <1>14
    <3>2. scan' = [scan EXCEPT !.isolated = @ + 1, !.pfn = next]
      BY <1>1
    <3>3. scan \in [pfn : Int, start : Int, stride : Nat \ {0}, isolated : Nat]
      BY DEF ScanInv, ScanTypeOK
    <3> DEFINE more == [scan EXCEPT !.isolated = @ + 1]
    <3>4. more \in [pfn : Int, start : Int, stride : Nat \ {0}, isolated : Nat]
      BY <3>3
    <3>5. scan' = [more EXCEPT !.pfn = next]
      BY <3>2
    <3> HIDE DEF next, g, more
    <3> QED
      BY <3>1, <3>4, <3>5
  <2> QED
    BY <1>1, <1>12, <2>1, <2>2, <2>3, <2>4 DEF ScanInv, ScanTypeOK, Scan!AtPc
<1>16. OnSamples'
  <2>1. CASE stop
    <3>1. ~Scan!AtPc("scan")'
      BY <1>1, <2>1 DEF Scan!AtPc, ScanInv, ScanTypeOK
    <3> QED
      BY <3>1, NotScanning
  <2>2. CASE ~stop
    <3>1. /\ scan'.pfn = Scan!AlignUp(past, scan.stride)
          /\ scan'.start = scan.start /\ scan'.stride = scan.stride
      BY <1>1, <1>14, <2>2 DEF ScanInv, ScanTypeOK
    <3>2. \A h \in DOMAIN layout : Scan!IsFree(h)' => Scan!IsFree(h)
      BY <1>5 DEF Scan!IsFree, Scan!IsHead
    <3>3. \A h \in g .. past - 1 : ~Scan!IsFree(h)'
      BY <1>2, <1>5 DEF Scan!IsFree, Scan!IsHead, past, n
    <3> QED
      BY <1>1, <1>3, <1>5, <3>1, <3>2, <3>3, OntoSample DEF ScanInv
  <2> QED
    BY <2>1, <2>2
<1>17. Bounded'
  <2>1. Limit' = Limit
    BY <1>1 DEF Limit
  <2>2. Limit \in Int /\ Scan!BlockPages \in Nat
    BY SizesOK DEF Limit, ScanInv, ScanTypeOK
  <2>3. nrFree < Limit /\ nrFree \in Nat
    BY <1>1 DEF ScanInv, Bounded, ScanTypeOK
  <2>4. n \in Nat /\ n <= Scan!BlockPages
    BY <1>2, SizesOK DEF n
  <2>5. nrFree' < Limit + Scan!BlockPages
    BY <1>1, <2>2, <2>3, <2>4 DEF free
  <2>6. Scan!AtPc("scan")' => ~stop
    BY <1>1 DEF Scan!AtPc, ScanInv, ScanTypeOK
  <2>7. ~stop => free < Limit
    BY <1>3, RoomLeft DEF ScanInv, stop
  <2> QED
    BY <1>1, <2>1, <2>5, <2>6, <2>7 DEF Bounded
<1>18. KeptOnce'
  <2>1. Scan!Listed' \cup taken' = Scan!Isolated' /\ Scan!Listed' \cap taken' = {}
    BY <1>1, <1>8, <1>10, <1>11, <1>12
  <2> QED
    BY <1>12, <1>13, <2>1 DEF KeptOnce, Apart, Scan!Frames
<1> QED
  BY <1>15, <1>16, <1>17, <1>18 DEF ScanInv

LEMMA NextBlockOK ==
  ASSUME ScanInv, Scan!NextBlock
  PROVE  ScanInv'
<1> DEFINE pfn == Scan!Min2(scan.pfn, Scan!EndOfBlock)
           before == (Scan!BlockOf(scan.start) - 1) * Scan!BlockPages
           stride == IF scan.isolated > 0 THEN 1
                     ELSE Scan!Min2(2 ^ ClusterOrder, 2 * scan.stride)
           done == \/ Scan!FreeEnough(freepages, nrFree, Scan!Wanted)
                   \/ ~(pfn = Scan!EndOfBlock) \/ before < 0
<1>1. /\ Scan!AtPc("scanned")
      /\ IF done
         THEN /\ freePfn' = IF pfn = Scan!EndOfBlock THEN before ELSE pfn
              /\ alloc' = [alloc EXCEPT !.pc = "look"] /\ UNCHANGED scan
         ELSE /\ scan' = [pfn |-> before, start |-> before, isolated |-> 0, stride |-> stride]
              /\ alloc' = [alloc EXCEPT !.pc = "scan"] /\ UNCHANGED freePfn
      /\ UNCHANGED <<layout, freepages, nrFree, nrMigrate, folio, taken>>
  BY Zenon DEF Scan!NextBlock
<1>2. before \in Int /\ pfn \in Int
  <2>1. Scan!BlockOf(scan.start) \in Int /\ scan.pfn \in Int /\ Scan!BlockPages \in Nat
    <3>1. scan.start \in Int /\ scan.pfn \in Int /\ Scan!BlockPages \in Nat \ {0}
      BY SizesOK DEF ScanInv, ScanTypeOK
    <3> QED
      BY <3>1, Division DEF Scan!BlockOf
  <2>2. before \in Int /\ Scan!EndOfBlock \in Int
    <3> DEFINE b == Scan!BlockOf(scan.start)
    <3>1. b \in Int
      BY <2>1
    <3> HIDE DEF b
    <3>2. (b - 1) * Scan!BlockPages \in Int /\ (b + 1) * Scan!BlockPages \in Int
      BY <2>1, <3>1
    <3> QED
      BY <3>2 DEF Scan!EndOfBlock, b
  <2> QED
    BY <2>1, <2>2 DEF Scan!Min2
<1>3. stride \in Nat \ {0}
  BY SizesOK, PowerDoubles DEF Scan!Min2, ScanInv, ScanTypeOK
<1>4. done \/ nrFree < Limit
  BY RoomLeft DEF ScanInv, ScanTypeOK
<1> HIDE DEF before, pfn, stride, done
<1>5. ScanTypeOK'
  BY <1>1, <1>2, <1>3 DEF ScanInv, ScanTypeOK, Pcs, Scan!AtPc
<1>6. OnSamples'
  <2>1. CASE done
    <3>1. ~Scan!AtPc("scan")'
      BY <1>1, <2>1 DEF Scan!AtPc, ScanInv, ScanTypeOK
    <3> QED
      BY <3>1, NotScanning
  <2>2. CASE ~done
    <3>1. scan'.pfn = scan'.start
      BY <1>1, <2>2
    <3> QED
      BY <1>5, <3>1, ScanBegun
  <2> QED
    BY <2>1, <2>2
<1>7. Bounded'
  <2>1. Scan!AtPc("scan")' => nrFree < Limit
    BY <1>1, <1>4 DEF Scan!AtPc, ScanInv, ScanTypeOK
  <2> QED
    BY <1>1, <2>1, SameBound DEF ScanInv
<1>8. KeptOnce'
  BY <1>1, SameKept DEF ScanInv
<1> QED
  BY <1>5, <1>6, <1>7, <1>8 DEF ScanInv

-----------------------------------------------------------------------------
(* Theorems *)

LEMMA ScanInitOK ==
  ASSUME Scan!Init
  PROVE  ScanInv
<1>1. FreeBlocks \in Nat
  BY ScanAssumption DEF Scan!SizeAssumption
<1>2. freePfn \in Int /\ nrMigrate \in Nat
  BY <1>1, SizesOK, PagesExist DEF Scan!Init
<1>3. /\ Scan!Zone(layout, {"free", "compound", "used"})
      /\ \A h \in DOMAIN layout : layout[h].kind # "isolated"
  BY ScanAssumption DEF Scan!Init, Scan!LayoutAssumption, Scan!Zone
<1>4. Scan!Zone(layout, Kinds)
  <2>1. layout \in [DOMAIN layout -> [kind : {"free", "compound", "used"}, order : Scan!Order]]
    BY <1>3 DEF Scan!Zone
  <2>2. \A h \in DOMAIN layout : layout[h] \in [kind : Kinds, order : Scan!Order]
    BY <2>1 DEF Kinds
  <2>3. layout \in [DOMAIN layout -> [kind : Kinds, order : Scan!Order]]
    BY <2>1, <2>2
  <2> QED
    BY <1>3, <2>3 DEF Scan!Zone
<1>5. freepages = [o \in Scan!Order |-> <<>>] /\ IsLists(freepages)
  BY DEF Scan!Init, IsLists
<1>6. ScanTypeOK
  BY <1>2, <1>4, <1>5, SizesOK DEF Scan!Init, ScanTypeOK, Pcs, Scan!AtPc
<1>7. OnSamples
  BY DEF Scan!Init, OnSamples, Scan!AtPc
<1>8. Bounded
  BY <1>2, SizesOK DEF Scan!Init, Bounded, Limit, Scan!AtPc
<1>9. Scan!Listed = {} /\ Scan!Isolated = {} /\ taken = {} /\ nrFree = 0 /\ Apart(freepages)
  BY <1>3, <1>5 DEF Scan!Init, Scan!Listed, Scan!Isolated, Apart
<1>10. KeptOnce
  BY <1>9, FS_EmptySet DEF KeptOnce
<1> QED
  BY <1>6, <1>7, <1>8, <1>10 DEF ScanInv

LEMMA ScanNextOK ==
  ASSUME ScanInv, [Scan!Next]_(Scan!vars)
  PROVE  ScanInv'
<1>1. CASE Scan!CompactionAlloc
  BY <1>1, CompactionAllocOK
<1>2. CASE Scan!TakeTarget
  BY <1>2, TakeTargetOK
<1>3. CASE Scan!GiveUp
  BY <1>3, GiveUpOK
<1>4. CASE Scan!IsolateFreepages
  BY <1>4, IsolateFreepagesOK
<1>5. CASE Scan!PassCompound
  BY <1>5, PassCompoundOK
<1>6. CASE Scan!PassTail
  BY <1>6, PassTailOK
<1>7. CASE Scan!PassUsed
  BY <1>7, PassUsedOK
<1>8. CASE Scan!Isolate
  BY <1>8, IsolateOK
<1>9. CASE Scan!IsolateFails \/ Scan!BlockScanned
  BY <1>9, BlockScannedOK
<1>10. CASE Scan!NextBlock
  BY <1>10, NextBlockOK
<1>11. CASE UNCHANGED Scan!vars
  <2>1. UNCHANGED <<layout, freepages, nrFree, nrMigrate, freePfn, folio, alloc, scan, taken>>
    BY <1>11 DEF Scan!vars, Scan!ccVars
  <2>2. ScanTypeOK'
    BY <2>1 DEF ScanInv, ScanTypeOK, Scan!AtPc
  <2>3. OnSamples'
    BY <2>1 DEF ScanInv, OnSamples, Scan!AtPc, Scan!IsFree, Scan!IsHead
  <2>4. Bounded'
    BY <2>1 DEF ScanInv, Bounded, Limit, Scan!AtPc
  <2>5. KeptOnce'
    BY <2>1, SameKept DEF ScanInv
  <2> QED
    BY <2>2, <2>3, <2>4, <2>5 DEF ScanInv
<1> QED
  BY <1>1, <1>2, <1>3, <1>4, <1>5, <1>6, <1>7, <1>8, <1>9, <1>10, <1>11 DEF Scan!Next

\* Of a block that is scanned from an aligned frame no free page on a sample is
\* passed over, never is more isolated than the limit, or what is to be migrated,
\* and one page, and every frame isolated is on a list or was given to one folio.
\* (isolate_freepages_block(), compaction_alloc())
THEOREM ScanIsRight == Scan!Spec => []ScannedWell
<1>1. Scan!Init => ScanInv
  BY ScanInitOK
<1>2. ScanInv /\ [Scan!Next]_(Scan!vars) => ScanInv'
  BY ScanNextOK
<1>3. ScanInv => ScannedWell
  <2>1. Scan!Cardinality(Scan!Listed) = Cardinality(Scan!Listed)
    BY DEF Scan!Cardinality, Cardinality
  <2> QED
    BY <2>1 DEF ScanInv, OnSamples, Bounded, Limit, KeptOnce, ScannedWell, Scan!ScannedWell
<1> QED
  BY <1>1, <1>2, <1>3, PTL DEF Scan!Spec

\* A step of the run is one of MobileCaches or of FreeScan, and leaves the variables
\* of the other as they are.
LEMMA StepOfOne ==
  ASSUME [NextOfOne]_<<vars, scanVars, component>>
  PROVE  [Next]_vars /\ [Scan!Next]_(Scan!vars)
<1>1. CASE UNCHANGED <<vars, scanVars, component>>
  BY <1>1 DEF scanVars, Scan!vars, Scan!ccVars
<1>2. CASE NextOfOne
  <2>1. CASE UNCHANGED vars /\ Scan!Next
    BY <2>1
  <2>2. CASE Next /\ UNCHANGED scanVars
    BY <2>2 DEF scanVars, Scan!vars, Scan!ccVars
  <2>3. \/ UNCHANGED vars /\ Scan!Next
        \/ Next /\ UNCHANGED scanVars
    BY <1>2, Zenon DEF NextOfOne, NoScan, NoCaches, Next, Owners, Destroying, Plugging,
                       Begin, Inside, Scan!Next
  <2> QED
    BY <2>1, <2>2, <2>3
<1> QED
  BY <1>1, <1>2

\* Both hold of what the run checks, whichever of the two parts moves: a pass stands
\* on no cache that goes, and what is scanned is isolated once and not passed over.
\* (kmem_cache_teardown_mobility(), isolate_freepages_block())
THEOREM BothKept == SpecOfOne => [](CachesStay /\ ScannedWell)
<1>1. InitOfOne => Init /\ Scan!Init
  BY DEF InitOfOne
<1>2. [NextOfOne]_<<vars, scanVars, component>> => [Next]_vars /\ [Scan!Next]_(Scan!vars)
  BY StepOfOne
<1>3. Spec => []CachesStay
  BY CachesKeptForPasses
<1>4. Scan!Spec => []ScannedWell
  BY ScanIsRight
<1> QED
  BY <1>1, <1>2, <1>3, <1>4, PTL DEF SpecOfOne, Spec, Scan!Spec
=============================================================================

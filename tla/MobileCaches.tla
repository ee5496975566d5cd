---------------------------- MODULE MobileCaches ----------------------------
(***************************************************************************)
(* The caches that can relocate their objects: how one gets on the list,   *)
(* how passes go over the list or over one cache, when a cache is left     *)
(* alone, and how it is taken down meanwhile.                              *)
(*                                                                         *)
(* What a pass does to the slabs of a node is the subject of SlabEvac; of  *)
(* it only the partial slabs it returned and took are seen here.           *)
(***************************************************************************)
EXTENDS Integers, FiniteSets, SequencesExt

CONSTANTS
  Cache,
  Eligible,    \* caches whose flags allow relocation
  Node,
  Pass,        \* tasks in slab_defrag(): kcompactd, compact_node()
  Direct,      \* tasks that call kmem_cache_defrag()
  Hotplug,
  Defer,       \* SLAB_DEFRAG_DEFER
  MaxPartial,  \* bound: partial slabs of a node
  None

Task == Pass \cup Direct

ASSUME EligibleAssumption == Eligible \subseteq Cache
ASSUME DeferAssumption == Defer \in Nat \ {0}
ASSUME BoundAssumption == MaxPartial \in Nat
ASSUME NoneAssumption ==
  /\ None \notin Task \cup Cache \cup {Hotplug, "waits", "has", "slab"}
  /\ Hotplug \notin Task \cup Cache /\ Task \cap Cache = {} /\ Pass \cap Direct = {}

VARIABLES
  life,      \* none, fresh, checked, live, closing, locked or torn
  move,      \* caches with a callback: s->move
  mobile,    \* mobile_caches
  defer,     \* defrag_defer
  slabs,     \* "none", "raw" if one was made without init, "ready"
  partial,   \* partial[c][n]: nr_partial
  readers,   \* who holds cpu_hotplug_lock for reading
  writer,    \* what Hotplug is at: None, "waits", "has" it or "slab" too
  slabMutex, \* slab_mutex
  mutex,     \* mobile_caches_mutex
  at         \* at[t]: what each task is at

cacheVars == <<life, move, mobile, slabs>>
lockVars == <<readers, writer, slabMutex, mutex>>
vars == <<cacheVars, defer, partial, lockVars, at>>

Rest == [pc |-> "idle", cache |-> None, nodes |-> {}, todo |-> {}, before |-> 0]

At(t, pc) == at[t].pc = pc
Go(t, pc) == at' = [at EXCEPT ![t].pc = pc]

\* Where a cache is linked.
PlaceOf(c) == CHOOSE i \in DOMAIN mobile : mobile[i] = c

-----------------------------------------------------------------------------
(* Owners of caches. *)

Create(c) ==
  /\ life[c] = "none"
  /\ life' = [life EXCEPT ![c] = "fresh"]
  /\ defer' = [defer EXCEPT ![c] = 0]
  /\ UNCHANGED <<move, mobile, slabs, partial, lockVars, at>>

SetUp(c, able) ==
  /\ life[c] = "fresh" /\ mutex = None
  /\ IF c \notin move /\ able
     THEN life' = [life EXCEPT ![c] = "checked"] /\ mutex' = c
     ELSE life' = [life EXCEPT ![c] = "live"] /\ UNCHANGED mutex
  /\ UNCHANGED <<move, mobile, defer, slabs, partial, readers, writer, slabMutex, at>>

\* Variant of the next step: it does not look for slabs.
SetUpAnyTime(c) == SetUp(c, c \in Eligible)

\* kmem_cache_setup_mobility(), from spl_kmem_cache_set_move(): refused if the
\* flags do not allow it, or the cache already has slabs. It keeps the mutex until
\* the callbacks are there.
kmem_cache_setup_mobility(c) == SetUp(c, c \in Eligible /\ slabs[c] = "none")

Publish(c) ==
  /\ life[c] = "checked"
  /\ life' = [life EXCEPT ![c] = "live"]
  /\ move' = move \cup {c} /\ mobile' = <<c>> \o mobile
  /\ mutex' = None
  /\ UNCHANGED <<defer, slabs, partial, readers, writer, slabMutex, at>>

\* The first slab: setup_object() runs whatever is registered by then. The mutex
\* keeps nobody from allocating, but the contract of the call above does: "Call this
\* before the cache is used". A caller that has not heeded it is refused if its slab
\* was there for the check, and not expected between the check and the end.
FirstSlab(c) ==
  /\ life[c] \in {"fresh", "live"} /\ slabs[c] = "none"
  /\ slabs' = [slabs EXCEPT ![c] = IF c \in move THEN "ready" ELSE "raw"]
  /\ UNCHANGED <<life, move, mobile, defer, partial, lockVars, at>>

\* Objects come and go: full slabs become partial, partial ones full or free.
Churn(c, n, count) ==
  /\ life[c] \in {"fresh", "live"} /\ slabs[c] # "none"
  /\ count \in {partial[c][n] - 1, partial[c][n] + 1} \cap (0..MaxPartial)
  /\ partial' = [partial EXCEPT ![c][n] = count]
  /\ UNCHANGED <<cacheVars, defer, lockVars, at>>

\* kmem_cache_destroy(): the cpus, slab_mutex, and then the cache. Its owner has
\* no call of kmem_cache_defrag() under way: that call tests the callback before
\* it has the mutex, and the repository itself makes none.
Close(c) ==
  /\ life[c] \in {"fresh", "live"} /\ writer = None
  /\ \A t \in Direct : at[t].cache # c
  /\ life' = [life EXCEPT ![c] = "closing"]
  /\ readers' = readers \cup {c}
  /\ UNCHANGED <<move, mobile, defer, slabs, partial, writer, slabMutex, mutex, at>>

LockSlab(c) ==
  /\ life[c] = "closing" /\ slabMutex = None
  /\ slabMutex' = c
  /\ life' = [life EXCEPT ![c] = "locked"]
  /\ UNCHANGED <<move, mobile, defer, slabs, partial, readers, writer, mutex, at>>

TornDown(c, list) ==
  /\ life[c] = "locked" /\ mutex = None
  /\ mobile' = list
  /\ move' = move \ {c}
  /\ life' = [life EXCEPT ![c] = "torn"]
  /\ UNCHANGED <<defer, slabs, partial, lockVars, at>>

\* Variant of the next step: the cache stays on the list.
TearDownListed(c) == TornDown(c, mobile)

\* kmem_cache_teardown_mobility(): waits for the pass that is running.
kmem_cache_teardown_mobility(c) ==
  TornDown(c, IF c \in move THEN RemoveAt(mobile, PlaceOf(c)) ELSE mobile)

\* The slabs are freed, and the cache.
Destroyed(c) ==
  /\ life[c] = "torn"
  /\ life' = [life EXCEPT ![c] = "none"]
  /\ slabs' = [slabs EXCEPT ![c] = "none"]
  /\ partial' = [partial EXCEPT ![c] = [n \in Node |-> 0]]
  /\ slabMutex' = None
  /\ readers' = readers \ {c}
  /\ UNCHANGED <<move, mobile, defer, writer, mutex, at>>

-----------------------------------------------------------------------------
(* A cpu comes or goes: stops new readers, waits for those there are, and the
   callback of the slab allocator takes slab_mutex. *)

PlugWait ==
  /\ writer = None
  /\ writer' = "waits"
  /\ UNCHANGED <<cacheVars, defer, partial, readers, slabMutex, mutex, at>>

PlugBegin ==
  /\ writer = "waits" /\ readers = {}
  /\ writer' = "has"
  /\ UNCHANGED <<cacheVars, defer, partial, readers, slabMutex, mutex, at>>

PlugSlab ==
  /\ writer = "has" /\ slabMutex = None
  /\ writer' = "slab" /\ slabMutex' = Hotplug
  /\ UNCHANGED <<cacheVars, defer, partial, readers, mutex, at>>

PlugEnd ==
  /\ writer = "slab"
  /\ writer' = None /\ slabMutex' = None
  /\ UNCHANGED <<cacheVars, defer, partial, readers, mutex, at>>

-----------------------------------------------------------------------------
(* Passes. *)

NodeSets == { {n} : n \in Node } \cup {Node}

\* slab_defrag() from kcompactd or compact_node(); an occupancy of zero would
\* return at once.
Start(t, nodes) ==
  /\ At(t, "idle") /\ t \in Pass
  /\ at' = [at EXCEPT ![t] = [Rest EXCEPT !.pc = "enter", !.nodes = nodes]]
  /\ UNCHANGED <<cacheVars, defer, partial, lockVars>>

\* kmem_cache_defrag() of a cache of the caller's that has a callback as far as
\* can be told without the mutex.
StartDirect(t, c, nodes) ==
  /\ At(t, "idle") /\ t \in Direct
  /\ life[c] = "live" /\ c \in move
  /\ at' = [at EXCEPT ![t] = [Rest EXCEPT !.pc = "enter", !.cache = c,
                                          !.nodes = nodes]]
  /\ UNCHANGED <<cacheVars, defer, partial, lockVars>>

\* cpus_read_lock(), and then the mutex, in the order of those who take a cache
\* down.
EnterPass(t) ==
  /\ \/ At(t, "enter") /\ writer = None
        /\ readers' = readers \cup {t} /\ UNCHANGED mutex
        /\ Go(t, "entered")
     \/ At(t, "entered") /\ mutex = None
        /\ mutex' = t /\ UNCHANGED readers
        /\ Go(t, IF at[t].cache = None THEN "next" ELSE "consider")
  /\ UNCHANGED <<cacheVars, defer, partial, writer, slabMutex>>

\* list_for_each_entry(): what follows where the pass is now.
NextCache(t) ==
  /\ At(t, "next")
  /\ LET here == IF at[t].cache = None THEN 0 ELSE PlaceOf(at[t].cache) IN
     at' = IF here = Len(mobile)
              THEN [at EXCEPT ![t].pc = "leave"]
              ELSE [at EXCEPT ![t].pc = "consider", ![t].cache = mobile[here + 1]]
  /\ UNCHANGED <<cacheVars, defer, partial, lockVars>>

\* Where a pass over one cache, or over the list, goes from a cache.
Onward(t) == IF t \in Direct THEN "leave" ELSE "next"

slab_partial_count(c, nodes) == FoldFunctionOnSet(+, 0, partial[c], nodes)

Considered(t, left) ==
  /\ At(t, "consider")
  /\ LET c == at[t].cache IN
     IF defer[c] > 0
     THEN defer' = [defer EXCEPT ![c] = left] /\ Go(t, Onward(t))
     ELSE /\ at' = [at EXCEPT ![t].pc = "alloc",
                              ![t].before = slab_partial_count(c, at[t].nodes)]
          /\ UNCHANGED defer
  /\ UNCHANGED <<cacheVars, partial, lockVars>>

\* Variant of the next step: the passes are not counted.
ConsiderUncounted(t) == Considered(t, defer[at[t].cache])

\* kmem_cache_defrag_locked(): a cache being left alone sits this pass out.
Consider(t) == Considered(t, defer[at[t].cache] - 1)

\* No memory for the scratch space.
AllocFail(t) ==
  /\ At(t, "alloc")
  /\ Go(t, Onward(t))
  /\ UNCHANGED <<cacheVars, defer, partial, lockVars>>

AllocDone(t) ==
  /\ At(t, "alloc")
  /\ at' = [at EXCEPT ![t].pc = "work", ![t].todo = at[t].nodes]
  /\ UNCHANGED <<cacheVars, defer, partial, lockVars>>

\* slab_defrag_node(): slabs that came free are returned, the replacements may
\* have taken one.
WorkNode(t, n, freed, taken) ==
  /\ At(t, "work") /\ n \in at[t].todo
  /\ LET c == at[t].cache IN
     /\ freed \in 0..partial[c][n]
     /\ taken > 0 => partial[c][n] > 0
     /\ partial[c][n] - freed + taken <= MaxPartial
     /\ partial' = [partial EXCEPT ![c][n] = @ - freed + taken]
     /\ at' = [at EXCEPT ![t].todo = @ \ {n}]
  /\ UNCHANGED <<cacheVars, defer, lockVars>>

\* The cache did not shrink: it is left alone for a while.
Judge(t) ==
  /\ At(t, "work") /\ at[t].todo = {}
  /\ LET c == at[t].cache IN
     defer' = IF slab_partial_count(c, at[t].nodes) >= at[t].before
              THEN [defer EXCEPT ![c] = Defer] ELSE defer
  /\ Go(t, Onward(t))
  /\ UNCHANGED <<cacheVars, partial, lockVars>>

LeftWith(t, cpus) ==
  /\ At(t, "leave")
  /\ mutex' = None
  /\ readers' = cpus
  /\ at' = [at EXCEPT ![t] = Rest]
  /\ UNCHANGED <<cacheVars, defer, partial, writer, slabMutex>>

\* Variant of the next step: the cpus stay locked.
LeaveHoldingCpus(t) == LeftWith(t, readers)

LeavePass(t) == LeftWith(t, readers \ {t})

-----------------------------------------------------------------------------
Init ==
  /\ life = [c \in Cache |-> "none"]
  /\ move = {} /\ mobile = <<>>
  /\ defer = [c \in Cache |-> 0]
  /\ slabs = [c \in Cache |-> "none"]
  /\ partial = [c \in Cache |-> [n \in Node |-> 0]]
  /\ readers = {} /\ writer = None /\ slabMutex = None /\ mutex = None
  /\ at = [t \in Task |-> Rest]

Owners ==
  \E c \in Cache :
    \/ Create(c) \/ kmem_cache_setup_mobility(c) \/ Publish(c) \/ FirstSlab(c) \/ Close(c)
    \/ \E n \in Node, count \in 0..MaxPartial : Churn(c, n, count)

Destroying(c) ==
  LockSlab(c) \/ kmem_cache_teardown_mobility(c) \/ Destroyed(c)

Plugging == PlugBegin \/ PlugSlab \/ PlugEnd

Begin(t) ==
  \E nodes \in NodeSets :
    Start(t, nodes) \/ \E c \in Cache : StartDirect(t, c, nodes)

Inside(t) ==
  \/ NextCache(t) \/ Consider(t) \/ AllocFail(t) \/ AllocDone(t)
  \/ \E n \in Node, freed \in 0..MaxPartial, taken \in 0..1 :
       WorkNode(t, n, freed, taken)
  \/ Judge(t) \/ LeavePass(t)

Next ==
  \/ Owners
  \/ \E c \in Cache : Destroying(c)
  \/ PlugWait \/ Plugging
  \/ \E t \in Task : Begin(t) \/ EnterPass(t) \/ Inside(t)

Spec == Init /\ [][Next]_vars

\* Sleeping locks are handed to whoever waits, the call that sets a cache up returns,
\* a pass ends (see SlabEvac), a cpu is done coming or going, and kcompactd goes on
\* starting passes.
Lively ==
  /\ Spec
  /\ \A c \in Cache : WF_vars(Publish(c)) /\ SF_vars(Destroying(c))
  /\ SF_vars(Plugging)
  /\ \A t \in Task : SF_vars(EnterPass(t)) /\ WF_vars(Inside(t))
  /\ \A t \in Pass : WF_vars(Begin(t))

-----------------------------------------------------------------------------
TypeOK ==
  /\ life \in [Cache -> {"none", "fresh", "checked", "live", "closing", "locked", "torn"}]
  /\ move \subseteq Eligible
  /\ \A i \in DOMAIN mobile : mobile[i] \in Cache
  /\ defer \in [Cache -> 0..Defer]
  /\ slabs \in [Cache -> {"none", "raw", "ready"}]
  /\ partial \in [Cache -> [Node -> 0..MaxPartial]]
  /\ readers \subseteq Task \cup Cache
  /\ writer \in {None, "waits", "has", "slab"}
  /\ slabMutex \in Cache \cup {Hotplug, None}
  /\ mutex \in Task \cup Cache \cup {None}
  /\ at \in [Task -> [pc : {"idle", "enter", "entered", "next", "consider",
                            "alloc", "work", "leave"},
                      cache : Cache \cup {None}, nodes : SUBSET Node,
                      todo : SUBSET Node, before : Nat]]

Working(t, c) == at[t].cache = c /\ at[t].pc \in {"consider", "alloc", "work"}

\* A relocation that runs has a callback to call and a cache to work on, no cpu
\* leaves under its flush, and no other relocation runs.
WorkedOnStays ==
  \A t \in Task, c \in Cache : Working(t, c) =>
    /\ c \in move /\ life[c] # "none" /\ slabs[c] # "raw"
    /\ writer \notin {"has", "slab"}
    /\ \A u \in Task \ {t}, d \in Cache : ~Working(u, d)

\* The list has every cache that can relocate, once, and none that is being
\* freed: the next pass would follow it there.
ListAlive ==
  /\ \A i, j \in DOMAIN mobile : mobile[i] = mobile[j] => i = j
  /\ ToSet(mobile) = move
  /\ \A i \in DOMAIN mobile : life[mobile[i]] \notin {"none", "fresh", "checked", "torn"}

\* Whoever works on a cache or goes to it from the list finds it there.
CachesStay == WorkedOnStays /\ ListAlive

\* A cache that is left alone is looked at again.
Revisited ==
  \A c \in Cache :
    c \in move ~> c \notin move \/ \E t \in Task : Working(t, c) /\ At(t, "alloc")

\* Taking a cache down ends, and so does a pass, whatever cpus do.
NobodyStuck ==
  /\ \A c \in Cache : life[c] = "closing" ~> life[c] = "none"
  /\ \A t \in Task : at[t].pc # "idle" ~> at[t].pc = "idle"
=============================================================================

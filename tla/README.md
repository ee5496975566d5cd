# Relocatable slab objects for ZFS: the specifications

The repository makes the memory that ZFS pins in the Linux kernel movable or
reclaimable again. It is a set of patches to the kernel and to OpenZFS, a few
programs that show and provoke fragmentation, and the machinery that builds and
tests them in virtual machines. Nearly all that can go wrong in it is a matter of
concurrency: an allocator that takes live objects away from under their owners,
page reclaim that enters the ARC from below, a readahead batch that arrives with
its pages locked. This directory holds TLA+ specifications of those protocols, the
model-checking configurations for them, and proofs about those that relocate. It also
holds specifications of the programs the patches are judged with, because a
program that overlooks a failure makes every number it prints worthless.

    *.tla          specifications, MC*.tla instances for TLC, *Proofs.tla proofs
    *.cfg          one configuration per run
    PROJECT.json   components, runs, mutants, the map from definitions to source
                   lines, findings, hazards, theorems

To check one of them:

    tlc -workers 2 -config SlabEvac.cfg MCSlabEvac
    for m in SlabEvac Callbacks Compaction Programs PageFill AbdLru FragView SlabWho
    do tlapm ${m}Proofs.tla; done

A patch is read as the code it adds, with the context it shows; line numbers in
PROJECT.json are lines of the patch file. The code around a patch (the kernel, the
rest of OpenZFS) is not in the repository. Where a protocol depends on it, it is
modelled from how the patches use it and marked `external` in the map.

## 1. The system

### 1.1 Components

| component | where | state | operations | modelled by |
|---|---|---|---|---|
| slab evacuation | `patches/kernel/slab-object-mobility.patch` 305-700 | partial list of a node, freelists, what a pass has claimed | `slab_defrag_node`, `slab_evacuate`, `slab_claim_free` | `SlabEvac`, `SlabEvacProofs`, `ObjectStore` |
| registry of mobile caches | same, 700-984 | `mobile_caches`, `defrag_defer`, `mobile_caches_mutex`, cpu hotplug lock | `kmem_cache_setup_mobility`, teardown, `slab_defrag`, `kmem_cache_defrag` | `MobileCaches`, `CompactionProofs` |
| ARC buffers on the kernel LRU | `patches/zfs/arc-folio-lru.patch`, `filemap-exports.patch`, `arc-lru-deadlock-inject.patch` | scatterlist entries, folio references, private words, `abd_mtx`, bindings | join, touch, release_folio, migrate_folio, free, rebind, bio holds | `AbdLru`, `AbdLruProofs` |
| ARC header move, SPL bridge | `arc-hdr-mobility`, `slab-mobility`, `mobile-cache-rcu`, `arc-hdr-accounting`, `arc-move-disable`, `arc-move-counters` | identity of a header, hash table, eviction sublist, holds, space accounting | `spl_kmem_cache_move_cb`, `arc_hdr_move` | `HdrMove`, `CallbacksProofs` |
| read-ahead and page fill | `zpl-readahead-batch`, `zpl-readahead-default`, `update-pages-unfilled` | page cache of a file, range lock, dbuf holds | `zfs_getpages`, `zfs_getpage`, `mappedread`, `update_pages`, `zfs_zero_partial_page` | `PageFill`, `PageFillProofs` |
| standing of mobile caches in the SPL | `mobile-cache-flag`, `...-userspace`, `no-reclaim-account` | flags of a cache | cache creation | constant `Eligible` of `MobileCaches` |
| dnode relocation | `dnode-handles-on-linux`, `dnode-invalidate-on-construct`, `dnode-move-mutex-window` | handles, `os_lock`, the objset pointer as a marker of validity | `dnode_move` | `DnodeMove`, `CallbacksProofs` |
| dbuf move probe | `dbuf-move-probe` | counters | a callback that always refuses | not modelled |
| compaction of large folios | `compaction-large-folio` | free page scanner: position, stride, lists of isolated pages | `compaction_alloc`, `isolate_freepages`, `isolate_freepages_block` | `FreeScan`, `CompactionProofs` |
| fragview on the screen | `packages/fragview` | counts per block, a cursor, requests; window, picture, pointer, box, timers | scan, refresh, keys, wheel, hover, frame | `FragScan`, `ProgramsProofs`, `FragView`, `FragViewProofs` |
| fragview: readers and snapshots | `packages/fragview` (`kpage`, `render`, `hostage`, `snapshot`, `compare`, `frag`) | flags of pages, counts, snapshots, groups of builds | classify, read, summarise, draw with characters, `-dump`, `-cmp`, assertions | `PageMap`, `FragReport`, `ProgramsProofs` |
| slabwho | `packages/slabwho` | statistics per cache and per allocation site, their ages, `walk_lock` | `walk_memory`, `walk_sites`, reading of two files in pieces | `SlabWho`, `SlabWhoProofs` |
| load and check programs | `packages/{fragload,fragspike,fragcheck,mmapcheck}` | goroutines, a shared counter, a channel or an atomic value for errors, a deadline; counters of a watchdog | every mode of the first three; `deadlock`, `subpage`, `zeropage` | `Workers`, `MmapCheck`, `ProgramsProofs` |
| `eio-diag`, `no-kswapd-wake` | `patches/zfs` | none | a message; an allocation flag | not modelled |
| machines and packages | `nix`, `tests`, `.github` | none | build, configure, run | not modelled |

### 1.2 How they interact

    kcompactd / direct compaction / sysctl
          | slab_defrag()                              kswapd, direct reclaim
          v                                                   |
    MobileCaches --- mobile_caches_mutex, cpu lock            |
          | per cache, per node                               |
          v                                                   v
    SlabEvac --- s->move() ---> HdrMove --- abd_lru_rebind ---> AbdLru
     (claim, replace,           (hash trylock,                  (folio lock, abd_mtx,
      move, free)                sublist trylock)                hash trylock, evict)
                                                              ^
                                        compaction: migrate_folio()

    reads, writes, faults --> PageFill (page lock <-> range lock) --> DMU --> ARC

* **SlabEvac calls HdrMove** under an RCU read side through `s->move`. In `SlabEvac`
  the callback is two actions, `MoveDone` (possible only when no one holds the
  object) and `MoveRefused` (possible always). What the allocator expects of a callback
  is what it promises its users, `ObjectStore`: an object nobody holds moves, in one step,
  to memory nobody uses. Both callbacks implement it (`ContractKept`), and so does `SlabEvac`
  with a callback that does (`Implements`). `arc_hdr_move()` also answers (`Answered`).
* **MobileCaches calls SlabEvac** for each node. It needs of it that a pass ends,
  which `SlabEvac` checks (`PassEnds`) and `MobileCaches` assumes as fairness of
  `Inside`.
* **HdrMove calls AbdLru**: when a header moves, the buffers bound to it are rebound.
  The moving header is therefore also an action of `AbdLru` (`Move`, `Rebind`,
  `MoveEnd`), which is where the reclaimer can come upon a stale binding.
* **PageFill** shares with the others only the memory they compete for.
* **FragScan and FragView** are two sides of one program, with a mutex between them: a
  scan publishes counts, which makes the picture on the screen out of date (`ScanDone`).
  The view reads nothing else that a scan writes.
* **SlabWho** runs in the kernel and changes nothing there. fragview and people read its
  files; `FragView` leaves the table it shows of them out.
* **DnodeMove** is the other callback behind `s->move`. It keeps the same contract as
  `HdrMove`, by other means, and shares nothing with it.
* **FreeScan** runs in the same compaction as the passes of `MobileCaches`, before or after
  them, on other data.
* **FragReport** crosses machines: guests write snapshots, the host reads them. What goes
  across is in the snapshot and nowhere else.
* **Workers and MmapCheck** sit on top of everything: they make the system work and say in
  one exit status whether it kept what it was given. `MmapCheck` is the test of what
  `PageFill` specifies.

### 1.3 What is hard

Owners go on allocating and freeing while a pass has their slab half emptied; the
list of live objects it made goes stale from the moment it is made. The callback is
handed memory that may by now be free, or someone else's header. Reclaim arrives with
a folio lock and needs two mutexes and the locks of all sibling folios, where the ARC
arrives with the mutexes and needs the folio locks; whichever comes second must not
wait. A reference is taken on what a pointer named a moment ago, and dropped later on
what it names by then. A batch of pages is locked before the range lock is asked for,
a writer has the range lock before it locks pages. Error paths return with two
siblings of five locked. PROJECT.json lists 40 such hazards, each at its line, with the
properties that would show it going wrong.

The programs that watch have hard parts of their own: a key that comes between the parts
of a scan, a picture that is asked what is under the pointer after the view has moved
on, a file whose table is made anew while it is being read. And the programs that judge
can be wrong in a way that looks like success: a worker whose error nobody receives, a
file that no worker took, a watchdog that counts seconds while the counters it compares
move, a median of machines measured by the flags of another machine.

### 1.4 What makes each component correct

* *slab evacuation*: every object has one holder at all times; no slab is lost to the
  allocator; no page is returned while it is looked at; a pass ends; and to its
  owners the cache is an allocator that moves what nobody holds.
* *registry*: a cache is worked on by one task, with its callback in place, and not
  freed meanwhile; an object offered for relocation was initialised; locks come back
  on every way out; whoever waits gets its turn.
* *ARC buffers on the LRU*: the reference count of every folio is what its holders
  add up to; a chunk's contents survive being moved; a header in use keeps its
  buffers; reclaim never reaches a header that is gone; nobody waits in a circle.
* *header move*: what is held does not move; the table and the list stay sound,
  the list in its order; each header is charged once; the callback never blocks.
* *page fill*: a page that is up to date shows the file, never leftover memory; a
  batch shows one state of the file; page locks and the range lock do not deadlock.
* *dnode relocation*: a dnode is moved only when its holds are those of its
  dbufs, looked at under the lock that new holds need.
* *free page scanner*: from an aligned start no free page on a sample is passed over;
  what is isolated is on a list or given out, once, and never much more than the limit;
  every folio is answered.
* *fragview*: a block never shows what was read of another; a request for the whole map
  is served; a burst of input ends with the current picture; the pointer names what is
  drawn under it; the window stays within the map.
* *slabwho*: every block is looked at once, whatever the zones are; what a row says is what
  was seen, also of tables that are full; a file shows each row of one table.
* *fragview's snapshots*: a page is counted once, in its block and in one class; a hostage
  is seen whatever its neighbours are; the host finds what the guest printed; the exit
  status is what the marks say.
* *load and check programs*: no failure is lost, nothing is done twice or left out, every
  pool ends, and a fault or a hang that is there is reported, and only then.

## 2. The modules

### 2.1 ObjectStore and SlabEvac

`ObjectStore` is the abstract specification: `at[h]` is the object that holds the data
of handle `h`, and a step allocates, frees, or relocates one handle to an object nobody
uses; `held` are the handles whose object somebody has a pointer to, which stay where they are.
It is all that the owners of a cache need to know of slab evacuation, and all that slab
evacuation needs to know of a callback: `SlabEvac`, `HdrMove` (a handle is an identity, its
object the slot it hashes to) and `DnodeMove` (the handle, and where it points) implement it.

`SlabEvac` is one node of one cache. A freelist is the set of free objects, the partial
list a set of slabs. Owners `Allocate`, `Hold`, `LetGo` and `Free`; the pass runs the
code of `slab_defrag_node()`:

| action | code |
|---|---|
| `TakeCandidates` | the scan of the partial list under `list_lock`, which removes the sparse slabs from it |
| `Pick` | the head of the loop over the candidates |
| `Claim` | the first `slab_claim_free()` of `slab_evacuate()`, with the early return when nothing was free |
| `GetReplacement`, `NoReplacement` | `kmem_cache_alloc_node(GFP_NOWAIT)` and its failure, which ends the loop |
| `Recheck` | the second `slab_claim_free()` and the test whether the object was among what it got |
| `MoveDone`, `MoveRefused` | `s->move()` |
| `DropReplacement` | `kmem_cache_free()` of a replacement nothing was moved to |
| `FreeMoved` | `slab_free_bulk()` of what was vacated, and the comparison of the counts |
| `Release` | the free of the claimed chain, and the count of refusals in a row |
| `Restore` | what the pass did not get to goes back on the list |

Owners step between any two of these. A freelist and the place on the partial list
change together because the code does both under `list_lock`; the freelist alone
changes by compare-and-exchange. `PutObjects` is `__slab_free()` with the three cases the
pass relies on (the slab was full, is now empty with enough partial slabs, or neither),
`TakeObject` is the allocation path of a cache without sheaves.

What is abstracted: the order in which a slab's objects are taken (any), which slab an
allocation is served from (any partial one), the contents of objects, sheaves and the
barn (flushed before the pass; an object parked there later counts as allocated, and is
one the callback refuses), statistics.

### 2.2 HdrMove

Slots of memory with an identity in them. Threads allocate a header, write its identity,
insert it, hold and release it; the evictor walks the sublist with a marker; the
callback is offered a slot that *was* somebody's and goes through `ReadLock`, `TryHash`,
`Recheck`, `TrySublist`, `Copy` and `Discard`. `Offer` and `Settle` are the SPL's bridge,
with the constructor and the destructor it runs. Each is a step of its own because the
slot's owner can write or clear the identity between any two of them until the hash lock
is held and the contents have been looked at again.

Left out: headers that live on the cache device only and `arc_hdr_realloc()`, the
counters, the states other than one list.

### 2.3 AbdLru

One header with up to two buffers, whose chunks are folios of one mapping. `Owner` is
whoever has the hash lock (join, touch, move, evict, free); `Reclaimer` is a task in page
reclaim (`shrink_folio_list` around `abd_lru_release_folio`), `Migrator` compaction
around `abd_lru_migrate_folio`, `User` what looks at the chunks without the hash lock: a
reader under a hold or the writer of the cache device with its bios. `batch` is the
folio a task has locked before it enters reclaim, which is what
`arc-lru-deadlock-inject.patch` provokes.

References are counted to the last one: `Pages` for the mapping, one for the private
word, one for the allocation until the buffer joins, one for each task or bio. `Holders`
adds up who should have one; `RefsExact` says the count equals it.

Steps are cut where somebody else can get in: lock, reference, pointer store. Left out:
statistics, the index of a folio in the mapping, the contents of a header beyond what
keeps it from eviction.

`abd_sg_grab()` is the steps `Look` (the entry is read), `TryGet` (a reference, unless the
folio has none), and then `GrabAgain`, if the entry names another folio by now, or the step of the
caller that goes on with what it got (`Grabbed`, `Take`). `grab` says how far a task is with it.
Between `Look` and `TryGet` the folio may be freed and be another chunk's. Joining a
chunk is `JoinPrivate` (the private word), `JoinAdd` (the mapping) or `JoinFail` (the marker
again), and `JoinAdded` (unlocked, the allocation reference dropped). `OwnPage` is
`abd_lru_own_page()`, by which the start and the end of a bio (`WriteHold`, `WriteRelease`) decide
whether a folio is theirs to reference. They hold no lock.

Two things can go wrong between the start and the end of a bio: the entry is repointed after the
folio was referenced (finding B), and `OwnPage` asks between `JoinPrivate` and `JoinAdd` (finding
D). Nothing keeps a bio out of a migration or of a join, so both are behaviours of the
module. `miscounted` becomes true when the end of a bio does not drop what its start took;
from then on a folio may be freed under whoever uses it, and a behaviour is not followed further (`Stopped`).
`RefsExact` and `ChunksKept` speak of all states before that, of a bio during a migration or
a join among them.

### 2.4 MobileCaches

The list of caches, the life of a cache from creation to destruction, the tasks in
`slab_defrag()` and `kmem_cache_defrag()`, and cpu hotplug as the third party to the
locks. A pass over a node is one action that returns and takes partial slabs in any
number up to `MaxPartial`, plus what owners do to the count meanwhile (`Churn`).
`kmem_cache_setup_mobility()` is the check for slabs, which takes the mutex, and `Publish`, which sets the
callbacks and gives it back. The mutex does not keep anybody from allocating in between; that
is left to the caller ("Call this before the cache is used", 781), and `FirstSlab` does not happen
there. A caller that allocated earlier is in the model, and refused. When a
pass is started (compaction hooks, sysctl) is left open. `Close` asks for an owner with no
call of `kmem_cache_defrag()` under way on the cache it destroys: the function tests the
callback before it has the mutex and not again, so it relies on that.

### 2.5 PageFill

Pages of parts; a place of a cached page holds `"file"`, `"old"` (the file before a
write) or `"junk"` (what the allocator left). Readahead gets its pages locked and only
tries the range lock; a fault lets go of its page while it waits for the range; a
writer changes the file under the range lock and then brings cached pages up to it, one
by one. `Whole` pages of a hole are removed. The kernel's side (`WillNeed`,
`LeaveUntaken`, `Drop`) is modelled as of the kernels the patches apply to: `read_pages()`
before 6.14 removes the asynchronous part of what was not taken and unlocks all of it.

Left out: the end of the file, dirty pages of writable mappings, the window size.

### 2.6 FragScan

A scan in the steps other goroutines see: it takes the request and its slice under the
lock, reads block by block into scratch space, publishes, moves the cursor, and sends the
message whose handler starts the next scan after an interval. Keys come in between. A
block's counts are abstracted to *which* block they were read from. `Scanner` has two
members although the code starts one chain: the second is there so that a chain forked by
mistake has somewhere to run. `owed` is a history variable: for one request, chosen
freely, the blocks not published by a scan that began after it; a read that fails in its
own sweep ends it, as in the code, which forgets the request.

### 2.7 FragView

The event loop of the map drawn as pixels. Every message is followed by a frame
(`Frame`, part of each action): the pointer is looked up in the layout of the picture on
the screen, then the picture is painted if it would be another and the last one is old
enough. `Layout` is `pixLayoutFor()` in full, including columns that several blocks share,
`ResolveFrom` is `resolveHover()`, `DrawnIn` the blocks that `paintBlocks()` and
`paintAggregated()` draw in a cell, up to the end of the window, `Clamped`, `ZoomTo` and `Pan` the three functions of
these names. Timers are queues of the time left, and `Pass` lets time go on once those
that ran out have been handled.

Left out: the map drawn with characters (which is in `PageMap`), the table of caches, a change of the terminal's
size, what a block looks like, several keys in one message.

### 2.8 SlabWho

Two pure functions and a protocol. `Walk` is `walk_memory()` in one expression: a fold over
zones, blocks and pages, with `BlocksOf` for the blocks of a zone from where the last one
stopped (`done`), `Valid` for the test made at subsection starts only, `LookAt` for a page
and `Count` for what a block adds. Memory changes meanwhile, so `Walk` takes a *sight*: what
it finds on each page when it gets there, and the caches whose memory can no longer be read
when it asks for their callback. `WalkSites` is `walk_sites()` in the same way, with the
hash table of `site_for()`; it finds the tags of the objects that begin on each page.

The protocol is the reading of `/proc/slabwho` and `/proc/slabwho_sites` in pieces:
`walk_lock` is held from `Start` to `Stop`, and a table older than its age is made anew at
any `Start` in between, by a reader of either file. `saw` and `redone` are history
variables: what the last walks were given, and whether the table was made anew after this
reader had begun. `stats.rows` are the caches as the walk came upon them, `caches` the rows as
`sort()` leaves them: `Sorted` is any of the orders (`Orders`) that follow the pages in hostage blocks,
as nothing is said of rows that are equal.

Left out: names, loading and unloading, the check of the mirrored layout, an allocation of
a table that fails, zones of a second node (for which `done` begins at 0 again).

### 2.9 DnodeMove

One dnode, in memory that may be given out again, with its handle. A thread constructs and
creates it, enters the handle (`zrl`), takes `dn_mtx` to add a hold or drop one, makes and
destroys dbufs, destroys the dnode, and gives the memory back. `dnode_move()` is a step for
each lock it tries (`TryOsLock`, `TryObjsetLock`, `TryHandle`), then `CountHolds`,
`CheckMtx` (what `dnode-move-mutex-window.patch` adds) and `CopyDnode`. The marker in
`dn_objset` by which the callback knows a constructed dnode is `valid`; memory that
was never constructed has any value there. The interesting window is in `Rele` and `Unlock`: a
hold that is dropped is no longer counted while `dn_mtx` is still held.

Left out: the fields that are copied, bonus and spill buffers, several dnodes of one block,
the special dnodes of an objset.

### 2.10 FreeScan

The search for a free page for each folio of a list, as loops. Memory is a function from the
first frames of pages to their kind and order. `CompactionAlloc`, `TakeTarget`,
`IsolateFreepages` and `GiveUp` are `compaction_alloc()` with the retry the patch puts
around `isolate_freepages()`; `PassCompound`, `PassTail`, `PassUsed`, `Isolate` and
`IsolateFails` are what `isolate_freepages_block()` does with a frame, and `NextBlock` moves to the
block below with its stride. `Ends` is the set of reasons for which a search stops.

Left out: `fast_isolate_freepages()` (it may find nothing), memory that changes under the
scan, skip bits of blocks, suitability of a block, the migration scanner, of which only the
meeting at the bottom of the zone remains.

### 2.11 PageMap and FragReport

`PageMap` has no state: `Blocks` (how many counters there are), `Classify` (a list of rules, the first that fits), `View` (what is
said of a block: pick, movable, hostage), `Cell` and `Cells` (the map drawn with characters),
`HostageReport` with `Ceiling`, `Unusable` of the free lists. `FragReport` is the way of
these numbers through two programs: `Boot`, `ReadBlocks`, `Change` and `Dump` are `fragview
-dump` in one guest after another, `ReadSnapshot`, `Conclude` and their failures are `fragview
-cmp` on the host. Blocks are read in pieces of a buffer while memory may change. Whether ARC
pages count as movable is a global of either program and a field of the snapshot.
Assertions are parsed (`Parse`) from sequences of words, as `strings.Cut` would have it, and
judged with medians, gates, floors and ceilings (`Judge`); the tests of the repository always name a
gate (`tests/compare.nix`), and so do most of the assertions of the run.

Left out: statistics that go through as they are, the layout of the table that is
printed, names of caches, floating point (medians are doubled and shares compared
without dividing).

### 2.12 Workers and MmapCheck

`Workers` is one pool of goroutines that runs as any of eleven modes (`program`): seven claim
files or spans from a shared counter (`Claim`), `clone` divides them by number and goes round
until a deadline, `shm` divides memory, `hot` and `hog` are alone. Errors go through a
channel of `Jobs` places (`Send`), or through an atomic value (`Into`), which takes values
of the type of its first one only. `handled`, `read` and `failed` are history: what was done to
each item, which units were read, which were seen to fail. What the units of an item are,
where a span is read in steps or an arena filled in chunks, is a matter of arithmetic (`MapUnits`,
`LoadUnits`), as it is in the loops of the programs.

`MmapCheck` has the two checks of page contents against a file system that may fill any
uncached page with anything the file ever was, and may miss a change while it fills; and
`deadlock`, whose watchdog counts seconds in which neither counter moved.

Left out: what files are filled with, command lines, rates that are printed, `sum`.

### 2.13 Instances that unite components

`MCCallbacks` (HdrMove or DnodeMove), `MCCompaction` (MobileCaches or FreeScan), `MCMonitors`
(FragView or SlabWho) and `MCPrograms` (Workers, FragScan, FragReport, MmapCheck or PageFill) put components that share nothing into one run:
`component`, chosen in the initial state, says which of them moves, and the others stay in one
initial state. The state space is the sum of theirs, not the product, and the fairness is of the
component that moves.

## 3. The runs

Twelve runs; seven must pass, five must show a violation (section 6). Distinct states in
brackets.

| run | instance | question |
|---|---|---|
| `slab_evac` [113k] | 2 slabs of 2 objects and one of 1, 3 handles, `min_partial` 1, give up after 2, occupancies 50 and 100 | one holder, no slab lost, page kept, nothing kept between passes, pass ends, implements `ObjectStore` |
| `callbacks` [125k] | headers: 3 slots and a marker, 3 identities under 2 locks, a thread, the evictor, the callback; dnodes: 3 places, 2 threads, one dbuf | held in place, table and list sound, charged once, order kept, answered; a dnode moves under nobody; both implement `ObjectStore` |
| `abd_lru` [1.04M] | two buffers of 1 chunk, 3 folios, a reclaimer, reader, writer, compaction | references exact, chunks kept, binding alive, nothing left |
| `abd_lru_live` [142k] | one buffer of 2 chunks, 2 folios, a reclaimer, writer, compaction, a header that stays, fairness | the hash lock comes back, orphans are freed |
| `abd_lru_rebind`, `abd_lru_held`, `abd_lru_drop` | one chunk | findings A, B and D |
| `compaction` [44k] | caches: 2 of them, one of which may relocate, a pass, a direct caller, hotplug; free scanner: 2 blocks of 8 pages in 31 layouts, folios of order 0 and 2, stride up to 4, limit 4 | caches stay, revisited, nobody stuck; scanned well, search ends |
| `monitors` [973k] | map: 11 blocks, windows of 5 and more, 2 by 2 cells of 2 by 1 pixels; slabwho: 2 blocks of 3 pages, 3 caches with room for 2, 2 readers | window in map, picture follows, points at what is drawn; tables say what was seen, a line for each row |
| `frag_hover` | the map of `monitors` | finding E |
| `programs` [184k] | 2 goroutines, 3 files of 4 units, two passes; scan of 4 blocks; 5 guests of 5 blocks of 18 pages, 9 lists of assertions; 6 seconds with a stall of 2; 2 pages of 2 parts, one each of readahead, filler, writer, one page to a hold | said true, returned; counts of their block, rescanned; census, hostages seen, measured as dumped, judged fairly, a cap says nothing; told true; page shows file, a batch of one state, all end |
| `verify` | as `programs`, `fragcheck verify` alone | finding C |

What the properties say, apart from the type invariants:

* `OneHolder`: pages are exactly covered by freelists, the claimed chain, the collected
  vacated objects, the replacement in hand and the handles, without overlap.
* `NoSlabLost`: the partial list is exactly the slabs with a free object, but for those
  the pass took and has not claimed yet, which have one.
* `PageStays`: candidates and the slab being emptied keep their page although nothing
  but their free objects holds it.
* `PassTidy`: the stale list of live objects errs on the safe side only (`EmptiedMeansVacated`),
  and between passes nothing is held (`NothingKept`).
* `Implements`: refinement of `ObjectStore`, with `at` as it is. `PassEnds`: liveness of a pass.
* `RefsExact`: the count of a folio is what its holders add up to, until the end of a bio has
  miscounted, and so for `ChunksKept`: every
  entry of a joined buffer names a folio of its own with the chunk's contents,
  and a bio or a reader of a chunk looks at that chunk, be it at the original of a copy.
  `BindingAlive`: what reclaim finds through a buffer's binding is the header that exists, and
  what is held or written is not evicted. `NothingLeft`: a reclaimer outside
  its handler has no flag, mutex or folio, and no mutex it uses is of a freed buffer.
  `LetGo`: liveness of the hash lock, and of what eviction left to the writer.
* `HeldInPlace`: who holds a header finds it at its address. `Findable`: a lookup finds
  the one header of an identity, nothing else is hashed, memory that is not in use
  has no identity, and the evictor's list is sound. `OrderKept`: its order. `ChargedOnce`:
  accounting. `Answered`: the callback answers although nobody else moves.
  `MovedUnderNobody`: who has a hold on a dnode, or is on its way out of it, finds it where it
  was, and no mutex is destroyed that is held. `ContractKept`: refinement of `ObjectStore` by
  `HdrMove`, with the table as `at` and what has references as `held`, and by `DnodeMove`, with the
  handle and with whoever has a pointer, or is on the way to or from one.
* `CachesStay`: a cache a pass is at, or that is on the list, exists and has its callback,
  and its objects were all initialised. `Revisited`, `NobodyStuck`: liveness; a lock that is
  not given back on some way out stops everyone.
* `ScannedWell`: within a block entered on a sample no free page on a sample is passed over,
  what is isolated is bounded, and is on a list or in one folio. `SearchEnds`: liveness.
* `PageShowsFile`: a page up to date shows the file, and never what the allocator left;
  `BatchOfOneState`, `AllEnd`.
* `CountsOfTheirBlock`; `Rescanned`: a request for the whole map is answered by a scan
  that began after it, paused or not, and every block is published again and again.
* `ViewRight`: the window is in the map, and with no catch-up to come the picture is of
  the current window; `PointsAtDrawn`: whenever the pointer is looked up, each block named that
  is in the window of the picture is drawn there, and where a column of pixels stands for several
  blocks none that is drawn there is missing. That blocks behind the window are named too is finding E.
* `WalksRight`: the two walks against definitions by counting, whatever
  they saw. `LineForEachRow`: a
  reader that came to the end while its table stayed has every row once, in order.
* `CountsAreCensus`: counting page by page gives what the sweep in pieces gave, for every
  pageblock there is between the first and the last frame of RAM but the one without a counter;
  which one that is, if there is one, is said for every beginning and end of RAM (`CounterForEach`,
  over `Pageblocks`, which does not use the code's count). And the hostage report adds up with the ceilings
  it prints. `HostagesSeen`: in every window on a
  screen of every width a cell is red exactly if a hostage is in it. `MeasuredAsDumped`: the host
  finds the numbers the guest printed, whatever snapshot it read before. `JudgedFairly`: the
  exit status is what the marks say, and saturated seeds are dropped from both sides, whatever the
  gate; the median of a gate that is named is of all seeds, as the code has it. `CapSaysNothing`: when no
  unsaturated baseline is left the verdict is no signal, if the gate is the metric itself.
* `SaidTrue`: a program that ends well has seen no failure, has done every item once (in
  every pass), and has touched, pinned and read what it was to; verify counts each bad file.
  `Returned`: every pool ends. `ToldTrue`: mmapcheck reports the wrong bytes there are and no
  others, and a hang if and only if nothing moved for so long.

For each property of a passing run PROJECT.json names a change to the code's definition
that breaks it ("mutants"). Most of them are definitions of their own, commented
"Variant of the next step", beside the one they vary.

### 3.1 Bounds

* Three slabs are the least at which a pass has a candidate to work on, a
  slab to move to and one more that the owners fill or empty; two objects make a slab
  partial, full or empty, and slabs may differ in size. With `GiveUp = 2` a pass goes on after
  one slab that did not come free and gives up after the next; giving up with a candidate
  left is covered by the theorems of section 4.1, where `GiveUp` and the slabs are any.
* Three identities, two of them under one lock: a recheck that only compares locks would
  let the wrong one through. Three slots: two headers and a replacement, or one header, its
  replacement, and a slot that was freed and given out again. One thread suffices beside evictor and callback because
  headers cached by it earlier are what the other two work on.
* Two chunks are needed for a sibling, two buffers for the second mutex, and one folio more
  than chunks for a copy. A try fails against the owner, the writer or compaction; two
  reclaimers, and two buffers of two chunks each, are out of reach with `abd_sg_grab()` in
  steps. The two instances cover each dimension, and the theorems of
  section 4.7 any number of all three. `BufferSymmetry` exchanges
  folios, places of the header, and the two buffers together with their chunks; the run has no temporal
  property. In `abd_lru_live` the header stays where it is and nobody reads or touches it: what waits there
  waits for locks, of which moving and reading take no other.
* `Pages = 2` tells references of the mapping from the other kinds; `batch` is one folio.
* A cache that is deferred is passed over `Defer` times; 1 is enough for
  it to be counted down and tried again. `MaxPartial = 1` is enough for "no fewer than before".
  Two tasks, one of each kind, and hotplug are enough for every lock to be wanted by two.
  The second cache may not relocate, so that the list has one entry; lists of any length are
  covered by the theorem of section 4.4.
* Three places for dnodes: the dnode, a replacement, and one that was freed and given out
  again. Two threads: one drops the last hold while another enters. `MaxDbufs = 1`
  separates holds of dbufs from those of users.
* Two blocks of the free scanner: the second is reached with the stride the first left. Eight
  pages and strides up to 4 let a compound page end off the stride; the layouts take every
  form of a quarter of a block, with a free page on and off a sample behind it. The
  limit of 4 frames is met before a folio of order 2 is served, and is passed by one page.
* Two pages under holds of one page: a batch in two pieces. Two parts: a page written in
  half. With two writers a filler can starve, as parts of the range may be held by turns;
  the run has one, and the range lock's fairness is not in this repository.

* Four blocks are read at once or in slices of 2; after the first of two slices the share
  may change, and a slice of 4 is cut short by the end of the map. Two shares are enough for a
  slice to change between two scans in both ways.
* Time in `FragView` is in units of about 30 ms: 1, 2 and 3 for 40, 60 and 90 ms, of which
  it matters that each is longer than the one before. Two
  timers of each kind at a time make a burst. Eleven blocks in 2 by 2 cells and windows from 5
  on cover columns shared by blocks, rows of one and of two terminal rows, and a last row
  that is not full. Cells are two pixels wide because with one pixel to a cell the lookup
  in the middle of the cell and the division of the row round differently; no
  terminal has such cells.
* `zoom()` computes with a floating point ratio what `Scaled` computes with integers. The
  two agree for every window of up to eleven blocks; for larger ones they can differ by one
  block, which no property is about.
* Two goroutines and three files: one worker has a second file, and both fail. Three files are
  no multiple of two goroutines, a span of 3 and a chunk of 2 do not divide the size in the
  same way, and the arena of 5 is no multiple of the step nor of the pinned ranges of 4.
  `Rounds` bounds passes until a deadline, which may come at any time.
* Blocks of 18 pages: a hostage has less than an eighth used, so two pages make one and three
  do not. RAM begins one page into the first block, has a hole in which the fourth one begins, and
  ends inside the last; a buffer of 60 pages holds three blocks and a part. The guests give two
  builds seeds with and without signal, an odd and an even number of them, and more of one
  than of the other.
* Six seconds hold a stall of two at the beginning, in between and at the end.

* Two blocks of three pages: the first is on the border of two zones and has a page in
  each, the second has a hole. A block with one or two pages used is a hostage, one with
  three is not. With three caches and sites and room for two, a table is full before, in or after the
  first hostage. The first walk sees anything there may be (15552 sights), or any
  objects in two blocks that are held (3125); its tables are compared with what was there, and
  the constraint `Bound` stops there, except for the two walks that the readers go on with. One
  has two rows and one a single row, so that a table shrinks and grows under them. In the code a
  block can have more than the 64 caches the walk tells apart (`MaxSeen`); the pages of
  the others then count as used and are in nobody's row. The instance does not have that case.

Symmetry is used for folios (`abd_lru`), in a run that checks no liveness.

### 3.2 Fairness

* `SlabEvac!FairSpec`: weak fairness of the pass once begun. It runs in kcompactd or the
  compacting task and waits for nobody; owners get no fairness at all.
* `HdrMove!Lively`: weak fairness of the callback. It uses only trylocks, so nothing else
  has to move for it to answer: neither thread nor evictor is assumed to go on.
* `AbdLru!Lively`: strong fairness where a step waits for a sleeping lock (folio lock,
  `abd_mtx`, hash lock), whose kernel implementations hand over to waiters, weak fairness
  for reclaim and migration, which only try. A handler leaves the hash lock
  (`SF(Leave)`), and a migration batch is unlocked in the end (`SF(BatchUnlock)`).
  `LetGo` holds unless compaction moves chunks for ever
  (`[]<>At(Migrator, "moved")`): the free path looks again when an entry was repointed
  while it waited, and nothing bounds how often.
* `MobileCaches!Lively`: strong fairness of what waits for the mutexes and the cpu lock,
  weak fairness inside a pass, and kcompactd goes on starting passes (needed by
  `Revisited` only).
* `PageFill!Lively`: weak fairness of readahead, which never waits; strong fairness of
  fillers and writers, which wait for pages and the range. Writers are promised an end
  only if readers do not have the range by turns for ever (`TakingTurns`). If readahead
  waited for the range lock (`WaitRange`) TLC finds the deadlock of issue #19447 at once.

* `FreeScan!LivelyScan`: weak fairness of the scan, which waits for nobody; a contended lock
  ends it.
* `Workers!Lively`: weak fairness of each goroutine and of the main one, and time passes. A
  send into the channel waits for room, a `wg.Wait()` for the others.
* `FragScan!Lively`: weak fairness of a scan. It waits for the mutex, which is held for a
  copy or a frame, and for its interval. Keys get no fairness.

Whether an action is enabled, as fairness needs it, is TLC's to evaluate; there are no
proofs about it.

## 4. What is proved

Each module of proofs follows the same line: an inductive invariant `IInv`, a lemma that
`Init` establishes it, one lemma per action that the action preserves it, and from the two
`Spec => []IInv`; a theorem says what `IInv` implies. The invariants were checked with TLC
before they were proved. Where two or more components share a run, a module proves
them one by one and then the specification of the run (section 4.9).

The provers do no induction over data, as the principle needs an operator for a parameter. Where a
proof needs one it argues from a least counterexample, which is a set: `LeastOf` says that a set of
natural numbers that is not empty has a least member, `OnSubsets` that a set of finite
sets to which every set comes with the ones below it has them all. Sums over finite sets,
bijections and counts rest on these two.

### 4.1 Slab evacuation

`SlabEvacProofs` proves, for any set of slabs, any number of objects in each, any handles
and any values of the limits:

| theorem | states |
|---|---|
| `TypeCorrect` | `Spec => []TypeOK` |
| `ObjectsAccountedFor` | `Spec => []OneHolder` |
| `PageHeld` | `Spec => []PageStays` |
| `ListExact` | `Spec => []NoSlabLost` |
| `NothingLeftBehind` | `Spec => []PassTidy` |
| `EvacuationImplementsStore` | `Spec => Store!Spec` |

Assumptions: `SlabOf` maps objects to slabs, `None` is neither, `GiveUp` is a positive
number, `MinPartial` a natural one. The number of objects per slab is not
assumed finite: nothing proved counts them, `Sparse` and the `MinPartial` test may go
either way.

The argument. None of the invariants is inductive. `OneHolder` needs to know that the
replacement in hand is nobody's when the callback succeeds and that the vacated objects
are of the slab being emptied; `NoSlabLost` needs `OneHolder`, as a free that empties a
slab must not take objects of another holder with it; `PageStays` follows from
`NoSlabLost` for candidates (they keep a free object as only the pass takes from a slab
off the list) and from `OneHolder` for the current slab (the claimed objects are not free,
so it is never empty). `IInv` is their conjunction with `PassShape`, which ties the
pass's private variables to where it is. Two lemmas carry the weight: `TakeObjectLemma`
(an allocation returns an object nobody has and leaves the list exact) and
`PutObjectsLemma` (a free gives back a page only if nobody else has an object of it and
the pass has not taken it). Each action then preserves `IInv` in a lemma of its own, and
the theorems follow by temporal logic. Refinement: `Allocate`, `Free` and `MoveDone` map to
the abstract steps, all others leave `at` alone.

### 4.2 Moving headers

`CallbacksProofs` proves, for any slots, identities, hash locks and threads:

| theorem | states |
|---|---|
| `HeadersHeldInPlace` | `Spec => []HeldInPlace` |
| `HeadersFindable` | `Spec => []Findable` |
| `HeadersChargedOnce` | `Spec => []ChargedOnce` |
| `MovesKeepOrder` | `Spec => OrderKept` |
| `HeadersKeepContract` | `Spec => HeadersStored` (refinement of `ObjectStore`) |

Assumptions: every identity has a lock, the marker's slot is a slot, the actors are
different from each other and from `None`. The module begins with lemmas on lists that have
each member once (linked first or last, taken out, replaced, exchanged).

The argument. The callback is offered memory by address, so the invariant says of each slot
who may have it: it is a thread's own before it is inserted (`ThreadsOK`), it is in
the table and held by those its count adds up to (`RefsOK`), or it is the callback's, unused before
the copy or vacated after it (`MoveOK`); the four exclude each other. `IdentOK` says that
an identity in a slot that is not in the table belongs to a thread on its way in or out or
to a header just vacated, so what `Recheck` sees under the hash lock is a header of the table.
From there to the copy the lock is the callback's, so neither the holds nor the
place in the table change, and the evictor, who has chosen only what it has locked (`EvictOK`),
has chosen another header. `ListOK` makes the list exactly what is hashed and not held, which is
what makes `Copy` replace one place of it.

### 4.3 Moving dnodes

`CallbacksProofs` also proves `DnodesMoveUnderNobody == Dnode!Spec => []MovedUnderNobody` and
`DnodesKeepContract == Dnode!Spec => Dnode!DnodeStored`, the refinement of `ObjectStore`, for any
places, dbufs up to any number, and finitely many threads (the holds of users are counted, so
`DnodeAssumption` says so).

The argument. `UsersOK` says that a thread between its lookup and its last
release has the place the handle points to; `HoldsOK` that the holds are those of dbufs plus those of
threads; `LocksOK` who has `dn_mtx` and that whoever is between handle and hold is registered in
`dnh_zrlock`. With the handle locked by the callback nobody is registered, so equal counts of holds
and dbufs mean that no thread has a hold, and a thread that could still be on its way
out owns the mutex, which the last check finds free. `MoveOK` carries this from check to check, and tells
the memory of the copy, of the dnode and of freed ones apart by the objset pointer.

### 4.4 The registry of mobile caches, and the free page scanner

`CompactionProofs` proves `CachesKeptForPasses == Spec => []CachesStay`, for any caches, nodes
and tasks, from the assumptions that `MobileCaches` states of its constants. `LocksOK`
says which stages of a task have the mutex and the cpu lock, `ListOK` that the list has the
caches with a callback, each once, `LifeOK` that a cache with a callback is not torn down and
its objects are initialised, and `TasksOK` that the cache a task is at has one. Teardown takes the
callback and the place in the list under the mutex, so a task under the mutex cannot lose its cache,
and a task that has not asked for the mutex yet is the cache's owner.

It also proves `ScanIsRight == Scan!Spec => []ScannedWell`, for blocks of any order, folios of any orders,
any limit and any layout of memory. Assumptions: sizes are natural numbers, there is a block,
and a zone is made of pages that share no frame (`LayoutAssumption`); memory is given in no other
form. `ScanInv` has three parts beside the types:

* `OnSamples`: a scan that begins on a sample stays on samples, and has found none of them
  free behind it. What is passed over with a compound page is one page, so the sample after it
  (`AlignUp`, the least one not below) is the next place at which a free page could begin.
* `Bounded`: while a block is scanned, less is isolated than the limit allows, which is
  the larger of `nrMigrate` and `FreeLimit`; so one page more, of a block at most, is all that can come.
* `KeptOnce`: pages on the lists share no frame, and lists and folios together have what is isolated.
  A page is put on the list of its order (`PutOn`) because `Zone` keeps it apart from what is
  there; a folio takes the head of a list (`TakeOff`) and leaves its halves on the lists
  below, which are the rest of its frames, each in one of them.

### 4.5 The programs

`ProgramsProofs` proves of each program, for any number of goroutines, files, blocks and guests and
any sizes:

| theorem | states |
|---|---|
| `ScansPaintTheirBlocks` | `Scan!Spec => []CountsOfTheirBlock` |
| `FaultsAreTold` | `Mmap!Spec => []ToldTrue` |
| `ComparisonsMeasureMachines` | `Report!Spec => []MeasuredAsDumped` |
| `SweepsAreCensuses` | `Report!Spec => []CountsAreCensus` |
| `HostagesAreSeen` | `Report!Spec => []HostagesSeen` |
| `ProgramsSayTrue` | `Spec => []SaidTrue` |
| `VerdictsAreFair` | `Report!Spec => []JudgedFairly` |
| `ProgramsKept` | all seven, and the two of section 4.6, for the specification of the run |

Assumptions: sizes and numbers are natural and above zero where the programs divide by them or
make so many; RAM has ranges, the file of flags ends with the last of them
(`EndAssumption`), a buffer holds a block (`BufferAssumption`: 1 MiB in the code, of which a
block of 512 pages takes 4 KiB), a share of the size is no more than the size, an error is not nil.

*A scan.* The scratch space is shared by all scans. There is one scan at a time
(`OneScan`), and the part of its slice it has read is in scratch space, each block in its
place (`HasRead`).

*The watchdog.* `Watched` counts: the seconds without progress are those since the last one in
which somebody got on. `Expected` says what the file is to be at each place of a check, so
a wrong byte that is found is wrong, and none is overlooked (`FaultsFound`).

*The way of a number.* `ReportInv`: what a guest printed, and what was measured of its file, are
the same two expressions over the file, and the file has the flag by which the guest counted.

*The counters.* `CountersThereAre`: frames are counted from the first one and blocks from where its block
begins, so the number of counters is the number of pageblocks, or one less, and it is one less
exactly if the last frame is not as far into its block as the first one is into its own. The rest is
division with remainder.

*The sweep.* `SweepInv` says of the blocks behind the sweep that they are counted, of those before it
that they are zero. That a block counted from a buffer is the census of its pages is `BlockInBuffer`,
where a page keeps its place in the buffer, and `TallyIsCensus`: to count the classes of a list of pages
is to count the pages of each class, by a bijection from places to pages. The totals are sums over
finite sets of classes (`TotalOf`, `TotalAdds`, `TotalWithin`, `TotalApart`), of blocks and of rows; that
the report adds up both ways is `TotalTwoWays`. A cell of the map with a hostage in it is red because
the class that ranks first is drawn (`FirstMostKnown`, `RedCell`), and every block of the window is in
a cell (`CellOf`).

*Verdicts.* `JudgeInv`: verdicts were judged of the builds there are, and the status says what
they say. A verdict without the saturated machines is the same, with any gate, when the median of a named gate
is read off all machines in both cases (`WithoutSaturated`): what is left
of the two lists is at the places `Kept`, in ascending order (`Ascending`, of which every
place has a member because ranks are different and there are as many as places), all of
these pairs are kept again, and so the medians are of the same numbers (`MedianOfThese`). Neither what a
median is nor how an assertion is spelt matters to it; both stay as TLC computes them.

*The pools.* `SaidTrue` speaks of the end. While a program runs, `WorkersCore` says what makes it true:

* `WorkersOK`: where a goroutine of each program can be, and with what.
* `ItemsOK`: each item is handed out once in a pass; what was handed out is handled, unless it
  is in hand or failed. A goroutine ends only when there is no more, or an error waits.
* `FailuresOK`: a failure that was seen is in the hands of the goroutine that saw it, or has come
  to where `main()` looks. For `verify`, `bad` counts the files that failed.
* `MovedOK`: what was moved is the size of what was handled, and of `store`'s chunks under way. These
  are sums over items and over goroutines.
* `ReadOK`: what was read is the units of items that were handled, each once, as the spans of
  different items have no unit in common: from a unit the item is recovered by division.

At the end nobody has an item in hand, so everything is handled or failed, and a failure has come.
`PartsCover`, `RangesCover` and `MapUnits` say that the parts into which an arena or a file is
divided leave nothing out, also where the last one is shorter.

### 4.6 Read-ahead and page fill

`PageFillProofs` proves, for files of any number of pages and parts and any numbers of tasks:

| theorem | states |
|---|---|
| `FillTypeCorrect` | `Spec => []TypeOK` |
| `PagesShowTheFile` (in `ProgramsProofs`) | `Fill!Spec => []PageShowsFile` |
| `BatchesOfOneState` (in `ProgramsProofs`) | `Fill!Spec => []BatchOfOneState` |

Assumptions: `SizesAssumption` and `TasksAssumption` of `PageFill` (pages and parts are natural
numbers above zero, the sets of tasks have nobody in common).

The argument. `PageShowsFile` lets a page differ from the file under the range lock of a
writer. To keep it, the writer that leaves must have brought every page up to date, so
`ChangesOwned` says more: what a page does not show is in the span of a writer that has
written and has not come to that page yet. A fill makes a page up to date from the file
as it is; it must not miss a write that is under way, so `TaskOK` ties the range lock of a task to
where it is (`RangeOf`) and `RangesApart` keeps writers away from all others. That a filler
still has the page it fills, in the cache and not up to date, is the second half of `TaskOK`
(`Held`): readahead has every page of its batch locked from the first to the last, a fault has its page
but for the time it waits for the range. Most steps of a task leave all other tasks alone, which
`TaskKept` proves once. `BatchOfOneState` is inductive with these. The invariant and its steps are
in `PageFillProofs`; the two theorems name the properties of the run, so they are in
`ProgramsProofs`, which instantiates that module (`SameFill`).

### 4.7 ARC buffers on the kernel LRU

`AbdLruProofs` proves, for any buffers of any numbers of chunks, any folios, any identities of the
header and any tasks in reclaim:

| theorem | states |
|---|---|
| `AbdTypeCorrect` | `Spec => []TypeOK` |
| `ReferencesExact` | `Spec => []RefsExact` |
| `ChunksSurvive` | `Spec => []ChunksKept` |
| `BindingsAlive` | `Spec => []BindingAlive` |
| `NothingLeftBehind` | `Spec => []NothingLeft` |

Assumptions: those `AbdLru` states of its constants (each chunk is of a buffer, a folio has a page
or more, tasks, folios, buffers and what stands for nothing are different, chunks and
tasks in reclaim are finitely many, as references are counted). A bio may begin and end during a
migration and during a join. `AbdTypeCorrect`, `ReferencesExact` and `ChunksSurvive` hold up to the
first bio whose end has not dropped what its start took, as their properties say: findings B and D show
that there are such bios, and how they come about. `BindingsAlive` and `NothingLeftBehind` do not
depend on it.

The argument. The step in which a bio miscounts keeps everything but the count (`Shape`), and it is
the last one; before it, `IInv` is kept. No conjunct is inductive alone, since every party relies on what the others
may not do where they are. `IInv` is a conjunction by subject. `HashOK`, `MtxOK` and
`LockOK` say who has the hash lock, the mutex of a buffer and the lock of a folio, exactly
and by the step a task is at; `InHand` which folios it has in hand there. `UseOK` says when the
header is used and by whom its buffers are kept. `BindingOK` has every binding at the header, or
at its former place while the owner that moves it is rebinding. `PrivateOK`, `MappedOK` and
`ChunksOK` tie the three places a chunk is recorded in: a chunk is a folio with its
contents that is in the mapping and names the buffer, or is marked and out of it; the exceptions
are the step of compaction between the copy and the repointing (`CopyOK`), and the chunk that names the
buffer and is not in the mapping yet (`FreerOK`), which is where finding D is. `GrabOK` says that who is
looking for the folio of an entry has still to deal with the entry; of the folio it says nothing until
there is a reference, and with one the recheck of the entry makes it the chunk's. `TakenOK` says what a
reclaimer that has the header has collected so far: all chunks of the buffers it has the mutex of,
but those it comes to yet. So when it frees, it frees whole buffers. `FreerOK` is the same
for who frees a buffer chunk by chunk, `UserOK` for the reader and the writer with its bios.

`RefsExact` is a sum over all holders. It is split into what a folio has once (`Single`: the page
cache, the entry, who joins it) and what may be held several times (`Several`: cardinalities of six sets of
tasks and bios). Lemmas say how each set changes when a task takes or lets go of a folio
(`HandTaken`, `HandLetGo` and others, on the theorems about finite sets); `Unreferenced` and `Unjoined` read
the sum backwards: a folio without references is in nobody's hand, and one with no more
than the references of the page cache and of the task that looks at it may be taken, which is what
`abd_lru_release_folio()` and `folio_migrate_mapping()` conclude from a count. Each action
has a lemma; its first steps say what the step does, the rest is one step per conjunct.

### 4.8 fragview on the screen, and the files of slabwho

`FragViewProofs` proves, for maps of any number of blocks, any size of the screen and of its
cells, and any times of which the code's order is kept (`TimeAssumption`):

| theorem | states |
|---|---|
| `ScreenRight` | `Spec => []ViewRight` |
| `PointerTellsTruth` | `CellW > 1` implies `Spec => PointsAtDrawn` |

`IInv` has the window in the map, and the window of the picture with it; `InTime` says that the
picture is of the window, or a catch-up is to come not before the picture may be drawn again,
so that it will be drawn then. This needs timers of one length to run out in the order in which they
were started (`Timers`). That no window is ever wider than the map or narrower than the least is
`ClampedOK`, under which `ZoomTo` and `Pan` come out.

`PointerTellsTruth` is arithmetic. Some height of a row fits, so there is a least one (`SomeFits`,
`LeastOf`), and of that one a block is at least a pixel wide (`LayoutSound`): a row one
terminal row higher has at most three times as many blocks (`Threefold`), and of the height
before, which did not fit, a block was wider than two pixels. `MiddleDrawn` then says that the block found from the middle of the cell under
the pointer has a pixel in that cell. With cells one pixel wide the middle is the left
edge, and the two divisions may round to different blocks; a terminal has no such cells, so
the hypothesis excludes nothing. The block is drawn if it is in the window; that it is one is not said,
because it need not be (finding E).

`SlabWhoProofs` proves `FilesShowTables == SpecOfOne => []LineForEachRow`, of the specification the
run checks, for any readers, caches and tables of any length. `ReadersInv`: a reader that is at position `pos` has the first
`pos - 1` rows of its table, or the table was made anew after it began; and who is inside a piece has
`walk_lock`, so no table is made anew in the middle of one. Nothing is needed of what a walk finds but
that its rows, sorted, are a list.

### 4.9 Components together

`CallbacksKeepContract`, `BothKept`, `ProgramsKept` and `FilesShowTables` are about the specifications the runs check:

| theorem | states |
|---|---|
| `CallbacksKeepContract` | `SpecOfOne => ContractKept /\ []MovedUnderNobody` |
| `BothKept` | `SpecOfOne => [](CachesStay /\ ScannedWell)` |
| `ProgramsKept` | `SpecOfOne => []` of the seven invariants of section 4.5 and the two of section 4.6, with the exceptions `CountsAreCensus` and `JudgedFairly` name |

A step of the whole is a step of one component and leaves the others as they are
(`StepOfOne`), so their invariants are kept side by side. For a refinement it must also be
said that the component which does not move stutters.

### 4.10 Only model-checked

* `WalksRight` of `SlabWho`: folds within folds over zones, blocks and pages, and a hash table,
  compared with sets. The induction is over data at each level.
* That `Median` sorts and `Parse` cuts as the code does is in no property: `JudgedFairly` and the
  theorem about it take both as they are.
* All liveness: `PassEnds`, `LetGo`, `Answered`, `Revisited`, `NobodyStuck`, `SearchEnds`,
  `AllEnd`, `Rescanned`, `Returned`. Fairness is stated with ENABLED, which is beyond the prover's backends.
* `CapSaysNothing`: that the median of numbers of which none is below the cap is not below
  it needs an induction over the sorting in `Median`.
* The five findings, which are behaviours TLC shows.

## 5. Not modelled

* *Standing in the SPL, kswapd wake-ups, reclaim accounting*: flags passed to the
  allocator; the eligible caches are a constant.
* *dbuf move probe*, *counters*, *error diagnosis*: observe and log.
* *Zeroing of objects* (`init_on_alloc`, `init_on_free`), which the eligibility test
  excludes because it would wipe what `init` left: needs the contents of free objects.
* *Programs*: `mmapcheck sum`, which hashes a mapping; patterns, command lines, output.
* *fragview*: `pageaddr`, `flagdump` and the reading of `/proc` files (parsing, no state);
  `merge` of aliased names; colours and layout of the screen.
* *Build and tests*: no state.

## 6. Disagreements between code and comments

| | run | what |
|---|---|---|
| A | `abd_lru_rebind` | `arc_hdr_move()` must not sleep, but `abd_lru_rebind()` waits for `abd_mtx`, which a reclaimer may hold |
| B | `abd_lru_held` | a bio's reference taken between `folio_migrate_mapping()` and the repointing of the entry does not keep the chunk in place, and is dropped from another folio |
| C | `verify` | `fragcheck verify` is to report the first mismatch and go on counting (35-36), but two goroutines that find mismatches of different kinds store errors of different types in one `atomic.Value` (58 and 64 or 71), which panics |
| D | `abd_lru_drop` | a chunk that joins the mapping has the buffer in its private word (1003) before it has the mapping (1005); `abd_lru_own_page()`, asked in between by the start or the end of a bio, does not know it (675-685), so a reference is taken and not dropped, or dropped and not taken, where `vbio_release_cb()` is to "drop the references vbio_fill_cb() took" (1477) |
| E | `frag_hover` | `resolveHover()` cuts what it names at the end of the grid, not of the window (`pixmap.go` 663), so in the blank end of the last row it names blocks that were never drawn there, where "the pointer has to land on the block that was drawn where the pointer is" (`pixmap_test.go` 112) |

A join on a hit (`arc_access()`, 1729-1730) is under the hash lock, which a bio does not hold. The writer of the cache
device takes buffers that have not joined as well, and a join of one of those is what finding D needs.

Noticed while reading and not recorded as runs:

* `slab-object-mobility.patch`: 460-462 say that `emptied` is the only outcome that hands
  a page back; a slab whose other objects their owners freed goes back with `emptied`
  false, and counts as a refusal. 701-702 say a cache sits out after a pass "that cost
  work and returned no pages"; line 768 compares two unlocked counts of partial slabs, which
  owners change and which are equal after a pass that had nothing to do. 879-881 say
  teardown keeps the next relocation from starting; `kmem_cache_defrag()` tests `s->move`
  (913) before it takes the mutex and not again, which only matters to a caller that races
  with the destruction of its cache, and the repository has none. 236-240 say
  the background pass "already runs only when the fragmentation score" asks for it; the
  hook at 172-194 runs regardless.
* `packages/fragview`: `main.go` 131 says everything the view touches is guarded, where
  `cacheAliases` (174) and `focusSlab` (180) are not. `resolveHover()` names one block where a
  block has a pixel or more, though several of them may be in one cell (`pixmap.go` 623-626 say
  "one block when a block is bigger than a cell, and everything under the cell when it is not").
  A sweep whose read fails is not repeated. In a loaded
  snapshot there are no scans to redraw a frame that the rate limit skipped when the box
  settled (`hoverSettleMsg` asks for no catch-up), and key "c" still writes to
  `/proc/sys/vm/compact_memory` (`main.go` 400). The box that settles under a resting pointer
  (`main.go` 302-308) is what was looked up in the picture before the last one, where the
  comments at `pixmap.go` 670 and `render.go` 446-448 speak of the block under the pointer: a key
  between the motion and its settling moves the window, and the box is drawn elsewhere.
* `packages/fragview`, snapshots: `collect()` writes `cacheAliases` and reads `focusSlab` without
  the lock. `newBlockMap()` counts blocks from the unaligned first frame (271) where they begin at the
  aligned one (274), so that the last one can be missing, although there is to be "one counter per class for
  every pageblock" (249): with RAM from frame 1 to 36 and blocks of 18, frame 36 is in no block.
  `CountsAreCensus` says exactly when, for every beginning and end of RAM. A block whose first page is no RAM is left at zero if a read begins
  there, and counted if it lies inside a read that began before it. `-stamp` sets `taken`
  (565), which `toSnapshot()` does not write. A class renamed to `private` (`kpage.go` 96)
  keeps the name when another snapshot is read. In a comparison a metric that the
  other build lacks is zero and passes `<=`; medians are those of the keys the first seed has
  (`compare.go` 196); seeds of the longer side that have no partner are dropped silently; a
  gate's gauge is the median of all seeds, also when saturated pairs are left out (458-461), where the comment
  on `pairedBelow()` has such seeds measure the request and not the patch; and when all
  pairs are saturated and another metric is the gate, all are judged. `JudgedFairly` and `CapSaysNothing`
  name both.
* `packages/fragload`: `clone()` says the first error is the one reported (167-169), but
  stores the last one (189), and two of different types would panic as in finding C. `read()`,
  `hot()` and fragspike's `load` take a read that fails for one that ends.
* `packages/fragspike`: `load` reads into an arena that starts again from its beginning; where its size
  is no multiple of the step, the tail of the span that meets the end is not read. `mapRead` reads a
  whole span beyond the fraction it is asked for.
* `packages/mmapcheck`: the read delay stays on when a call fails between the two `zinject`
  commands; a hang that starts less than `stall` seconds before the end is reported as success.
* `compaction-large-folio.patch`: a search that ended inside a block goes on there with a new
  stride, from a frame that need not be on a sample.
* `packages/slabwho`: the header promises a line per cache, but a reader whose table was made
  anew may miss a row or see one twice, as its place is a number. A walk over memory clears
  `sites_available` (550), which only a walk over the sites sets: in between, the heading says
  `# sites 0` above rows that are still shown, and a row whose cache went out of the first
  table has the name `?`. `pinned_by_one` (690) also counts blocks that hold nothing but pages
  on the LRU. `pfn_ok` begins as false in each block, so blocks smaller than a subsection
  would be passed over.

## 7. Plan

Done: `SlabEvac` with its proofs, `MobileCaches`, `HdrMove`, `AbdLru`, `PageFill`,
`FragScan`, `FragView`, `SlabWho`, `DnodeMove`, `FreeScan`, `PageMap`, `FragReport`,
`Workers`, `MmapCheck`.

Proved: every safety property that a passing run checks, except `WalksRight`
(section 4.10): `SlabEvac`, both callbacks, the registry of mobile caches and the
free page scanner, `PageFill`, `AbdLru`, `FragScan`, `FragView`, `FragReport`, `Workers`,
`MmapCheck` and the reading of `SlabWho`.

Next, in this order:

1. **The walks**: `WalksRight`, block by block, with the fold over the pages of a block first.
2. **What is left out of a model that is there**: memory that changes under the free page scanner,
   several states of headers, the end of a file in `PageFill`.

Runs are kept to questions that are distinct; components that share nothing and can be
checked with one fairness share a run (section 2.13).

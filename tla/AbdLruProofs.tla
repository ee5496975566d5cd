---------------------------- MODULE AbdLruProofs ----------------------------
(***************************************************************************)
(* Proofs about AbdLru, for any buffers, chunks and folios, places of the  *)
(* header and tasks in reclaim. What they say holds up to the first bio    *)
(* whose end does not drop what its start took; that there are such bios   *)
(* is what the run abd_lru_drop shows.                                     *)
(***************************************************************************)
EXTENDS AbdLru, FiniteSetTheorems, TLAPS

Assumptions ==
  /\ AbdOfAssumption /\ PagesAssumption /\ UsesAssumption
  /\ NoneAssumption /\ TasksAssumption /\ FiniteAssumption

-----------------------------------------------------------------------------
(* The inductive invariant. *)

Joining == {"join", "add", "joined"}
Freeing == {"free", "lock", "drop"}
Taking == {"siblings", "trylock", "evict", "free", "undo"}
Locking == {"release", "trymtx", "header", "fail", "remove"} \cup Taking
Midway == {"copy", "repoint", "moved"}
Migrating == {"migrate", "fail"} \cup Midway
WriteSteps == {"fill", "hold", "done", "release"}

OwnerSteps ==
  {"idle", "locked", "touch", "touched", "rebind", "evict"} \cup Joining \cup Freeing
ReclaimerSteps == {"idle", "isolated"} \cup Locking
MigratorSteps == {"idle", "isolated"} \cup Migrating
UserSteps == {"idle", "pinned", "reading", "drain"} \cup WriteSteps \cup Freeing

AtState ==
  [pc : Steps, abd : Abd \cup {Marker, None}, folio : Folio \cup {None},
   spare : Folio \cup Hdr \cup {None}, todo : SUBSET (Chunk \cup Abd),
   taken : SUBSET (Folio \cup Chunk)]

GrabState ==
  [entry : Chunk \cup {None}, folio : Folio \cup {None}, held : BOOLEAN]

\* TypeOK, but for the references, which might be fewer than none, and with all
\* that a task has in hand.
Typed ==
  /\ sg \in [Chunk -> Folio \cup {None}]
  /\ ref \in [Folio -> Int]
  /\ lock \in [Folio -> Task \cup {None}]
  /\ private \in [Folio -> Abd \cup {Marker, None}]
  /\ mapped \subseteq Folio
  /\ data \in [Folio -> Chunk \cup {None}]
  /\ joined \subseteq Abd /\ prelocked \subseteq Abd
  /\ mtx \in [Abd -> Task \cup {None}]
  /\ arg \in [Abd -> Hdr \cup {None}]
  /\ reclaiming \in [Abd -> Folio \cup {None}]
  /\ hash \in Task \cup {None}
  /\ hdr \in Hdr /\ gone \subseteq Hdr
  /\ resident \subseteq Abd /\ orphan \subseteq Abd
  /\ refcnt \in 0..1 /\ writing \in BOOLEAN
  /\ bio \in [Chunk -> Folio \cup {None}] /\ miscounted \in BOOLEAN
  /\ batch \in [Reclaimer -> Folio \cup {None}]
  /\ grab \in [Task -> GrabState]
  /\ at \in [Task -> AtState]

\* Who goes where, and where one has the hash lock.
HashOK ==
  /\ at[Owner].pc \in OwnerSteps /\ (hash = Owner <=> at[Owner].pc # "idle")
  /\ at[Migrator].pc \in MigratorSteps /\ hash # Migrator
  /\ at[User].pc \in UserSteps /\ hash # User
  /\ \A r \in Reclaimer :
       at[r].pc \in ReclaimerSteps /\ (hash = r <=> at[r].pc \in Taking)

\* Where a task has a folio in hand, and which.
InHand ==
  /\ at[Owner].folio # None
       <=> at[Owner].pc \in {"add", "joined", "touched", "lock", "drop"}
  /\ at[User].folio # None
       <=> at[User].pc \in {"reading", "hold", "release", "lock", "drop"}
  /\ at[Migrator].folio # None <=> at[Migrator].pc # "idle"
  /\ at[Migrator].spare # None <=> at[Migrator].pc \in Midway
  /\ at[Migrator].spare \in Folio \cup {None}
  /\ \A r \in Reclaimer :
       /\ at[r].folio # None <=> at[r].pc # "idle"
       /\ at[r].spare # None <=> at[r].pc = "trylock"
       /\ at[r].spare \in Folio \cup {None}
       /\ at[r].taken \subseteq Folio /\ at[r].folio \notin at[r].taken
       /\ at[r].taken # {} => at[r].pc \in Taking
       /\ batch[r] # None => batch[r] # at[r].folio /\ batch[r] \notin at[r].taken
  /\ \A t \in Task : ~(t = Owner /\ At(t, "rebind")) => at[t].todo \subseteq Chunk

\* Who is looking for the folio of an entry is still to deal with that entry.
GrabOK ==
  \A t \in Task :
    /\ grab[t].held => grab[t].folio # None
    /\ grab[t] = Idle \/ (at[t].pc \in Grabs(t) /\ grab[t].entry \in at[t].todo)

\* The reclaimer of a header it has found unused.
Frees(r) ==
  At(r, "free") \/ (at[r].pc \in {"siblings", "trylock"} /\ at[r].abd \in prelocked)

\* Who uses the header, and which buffers it has meanwhile.
UseOK ==
  /\ refcnt = 1 <=> at[User].pc \in {"pinned", "reading"}
  /\ writing <=> at[User].pc \in WriteSteps
  /\ resident \cap orphan = {}
  /\ resident \in {{}, Abd} \/ at[Owner].pc \in {"evict"} \cup Freeing
  /\ refcnt = 1 => resident = Abd
  /\ at[Owner].pc \in {"evict"} \cup Freeing => refcnt = 0
  /\ at[Owner].pc \in Freeing => ~writing
  /\ at[Owner].pc \in Joining \cup Freeing => at[Owner].abd \in resident
  /\ at[User].pc \in Freeing => at[User].abd \in orphan
  /\ orphan # {} => at[User].pc \in WriteSteps \cup {"drain"} \cup Freeing
  /\ writing => Exists = Abd
  /\ \A r \in Reclaimer : Frees(r) => refcnt = 0 /\ ~writing

\* A buffer is bound to the header, or is about to be, and to no header that is gone.
BindingOK ==
  /\ hdr \notin gone
  /\ At(Owner, "rebind") => /\ at[Owner].spare \in Hdr \ (gone \cup {hdr})
                            /\ at[Owner].todo \subseteq resident \cap joined
  /\ \A a \in Abd : arg[a] # None =>
       /\ a \in resident \cap joined
       /\ \/ arg[a] = hdr
          \/ At(Owner, "rebind") /\ a \in at[Owner].todo /\ arg[a] = at[Owner].spare
  /\ \A r \in Reclaimer : at[r].pc \in Taking => arg[at[r].abd] = hdr

\* Who has the mutex of which buffer: a reclaimer of the one it began with, then of
\* all the header has.
MutexesOf(r) ==
  /\ at[r].pc \in {"trymtx", "header"} \cup Taking => at[r].abd \in Abd
  /\ at[r].pc \in {"header"} \cup Taking => mtx[at[r].abd] = r
  /\ \A a \in Abd : mtx[a] = r =>
       /\ at[r].pc \in {"header"} \cup Taking
       /\ at[r].pc \in Taking => a \in resident
       /\ a = at[r].abd \/ Frees(r) \/ At(r, "undo")
  /\ Frees(r) => \A a \in resident \cap joined : mtx[a] = r
  /\ At(r, "evict") => at[r].abd \in prelocked

MtxOK ==
  /\ joined \subseteq Exists
  /\ \A a \in prelocked : mtx[a] \in Reclaimer /\ hash = mtx[a]
  /\ \A a \in Abd :
       /\ mtx[a] # None => a \in joined
       /\ mtx[a] = Owner
            <=> at[Owner].pc \in Joining \cup Freeing /\ at[Owner].abd = a
       /\ mtx[a] = User <=> at[User].pc \in Freeing /\ at[User].abd = a
       /\ mtx[a] # Migrator
  /\ \A r \in Reclaimer : MutexesOf(r)

\* Who has which folio locked.
LockOK ==
  \A f \in Folio :
    /\ lock[f] = Owner <=> at[Owner].pc \in {"joined", "drop"} /\ at[Owner].folio = f
    /\ lock[f] = User <=> At(User, "drop") /\ at[User].folio = f
    /\ lock[f] = Migrator <=> \/ at[Migrator].pc \in Migrating /\ at[Migrator].folio = f
                              \/ at[Migrator].spare = f
    /\ \A r \in Reclaimer :
         lock[f] = r <=> \/ at[r].pc \in Locking /\ at[r].folio = f
                         \/ f \in at[r].taken \/ batch[r] = f

\* What is in the mapping, and stays there for whoever has it locked; a folio that was
\* in it and is no more has no chunk.
MappedOK ==
  /\ At(Owner, "joined") => at[Owner].folio \in mapped
  /\ at[Migrator].pc \in {"migrate"} \cup Midway => at[Migrator].folio \in mapped
  /\ at[Migrator].pc \in Midway =>
       at[Migrator].spare \in mapped /\ at[Migrator].spare # at[Migrator].folio
  /\ \A r \in Reclaimer :
       /\ batch[r] # None => batch[r] \in mapped
       /\ at[r].pc \in Locking \ {"fail"} => at[r].folio \in mapped
  /\ \A t \in Reclaimer \cup {Migrator}, c \in Chunk :
       at[t].folio # None /\ sg[c] = at[t].folio => sg[c] \in mapped

\* The chunk a folio with a buffer in its private word is for.
Repointed(f, c) ==
  At(Migrator, "repoint") /\ f = at[Migrator].spare /\ sg[c] = at[Migrator].folio

PrivateOK ==
  /\ \A f \in Folio :
       /\ f \in mapped => private[f] # Marker
       /\ private[f] \in Abd =>
            /\ f \in mapped \/ (At(Owner, "add") /\ at[Owner].folio = f)
            /\ private[f] \in joined
            /\ \E c \in Chunk : AbdOf[c] = private[f] /\ (sg[c] = f \/ Repointed(f, c))
  /\ \A r \in Reclaimer :
       /\ at[r].pc \in {"trymtx", "header"} \cup Taking => private[at[r].folio] = at[r].abd
       /\ At(r, "remove") => private[at[r].folio] = None

\* A chunk of a buffer is a folio with its contents, in the mapping with the buffer in
\* its private word, or out of it and marked, but for the one that is being added.
ChunkOK(c) ==
  /\ AbdOf[c] \notin Exists => sg[c] = None
  /\ AbdOf[c] \in Exists /\ sg[c] = None =>
       \E t \in {Owner, User} : at[t].pc \in Freeing /\ at[t].abd = AbdOf[c]
  /\ sg[c] # None =>
       /\ data[sg[c]] = c
       /\ \/ /\ sg[c] \in mapped /\ AbdOf[c] \in joined
             /\ \/ private[sg[c]] = AbdOf[c]
                \/ At(Migrator, "repoint") /\ sg[c] = at[Migrator].folio
          \/ sg[c] \notin mapped /\ private[sg[c]] = Marker
          \/ /\ At(Owner, "add") /\ sg[c] = at[Owner].folio
             /\ sg[c] \notin mapped /\ private[sg[c]] = AbdOf[c]

ChunksOK == \A c \in Chunk : ChunkOK(c)

\* Who joins a buffer to the mapping, or frees one, has come so far with its chunks.
FreerOK ==
  /\ at[Owner].pc \in Joining =>
       \A c \in at[Owner].todo : AbdOf[c] = at[Owner].abd /\ sg[c] \notin mapped
  /\ At(Owner, "add") =>
       /\ at[Owner].folio \notin mapped /\ private[at[Owner].folio] = at[Owner].abd
       /\ \E c \in Chunk \ at[Owner].todo :
            sg[c] = at[Owner].folio /\ AbdOf[c] = at[Owner].abd
  /\ \A t \in {Owner, User} :
       /\ at[t].pc \in Freeing =>
            \A c \in Chunk : c \in at[t].todo <=> AbdOf[c] = at[t].abd /\ sg[c] # None
       /\ at[t].pc \in {"lock", "drop"} =>
            \E c \in Chunk : /\ data[at[t].folio] = c /\ AbdOf[c] = at[t].abd
                             /\ At(t, "drop") => sg[c] = at[t].folio

\* What a reclaimer has taken are the chunks of the buffers it has the mutex of; all of
\* them but those it has yet to take.
TakenBy(r) ==
  /\ \A f \in at[r].taken :
       \E c \in Chunk : data[f] = c /\ sg[c] = f /\ mtx[AbdOf[c]] = r
  /\ At(r, "trylock") => data[at[r].spare] \in at[r].todo
  /\ at[r].pc \in {"siblings", "trylock"} => \A c \in at[r].todo : mtx[AbdOf[c]] = r
  /\ at[r].pc \in {"siblings", "trylock", "evict", "free"} =>
       \A c \in Chunk : mtx[AbdOf[c]] = r =>
         \/ sg[c] \in at[r].taken \cup {at[r].folio}
         \/ at[r].pc \in {"siblings", "trylock"} /\ c \in at[r].todo

TakenOK == \A r \in Reclaimer : TakenBy(r)

\* What moves from the original to the copy, and when.
CopyOK ==
  /\ At(Migrator, "copy") =>
       /\ private[at[Migrator].folio] # None /\ private[at[Migrator].spare] = None
       /\ \A t \in {Owner, User} : at[t].folio # at[Migrator].spare
       /\ \A r \in Reclaimer : at[r].spare # at[Migrator].spare
       /\ \A c \in Chunk : bio[c] # at[Migrator].spare
  /\ At(Migrator, "repoint") =>
       /\ private[at[Migrator].folio] = None /\ private[at[Migrator].spare] # None
       /\ data[at[Migrator].spare] = data[at[Migrator].folio]
  /\ At(Migrator, "moved") => private[at[Migrator].folio] = None
  /\ \A c \in Chunk :
       /\ at[Migrator].pc \in {"copy", "repoint"} => sg[c] # at[Migrator].spare
       /\ At(Migrator, "moved") => sg[c] # at[Migrator].folio

\* What is read or written is the chunk asked for, and a bio refers to it only between
\* its start and its end.
UserOK ==
  /\ At(User, "reading") => at[User].taken = { data[at[User].folio] }
  /\ at[User].pc \in {"hold", "release"} =>
       \E c \in Chunk \ at[User].todo :
         at[User].taken = {c} /\ data[at[User].folio] = c
  /\ at[User].taken # {} => at[User].pc \in {"reading", "hold", "release"}
  /\ \A c \in Chunk :
       LET pending == c \in at[User].todo \cup at[User].taken IN
       bio[c] # None =>
         /\ data[bio[c]] = c
         /\ \/ at[User].pc \in {"fill", "hold"} /\ ~pending
            \/ at[User].pc \in {"done", "release"} /\ pending

Exact == \A f \in Folio : ref[f] = Holders(f)

IInv ==
  /\ Typed /\ HashOK /\ InHand /\ GrabOK /\ UseOK /\ BindingOK /\ MtxOK /\ LockOK
  /\ MappedOK /\ PrivateOK /\ ChunksOK /\ FreerOK /\ TakenOK /\ CopyOK /\ UserOK
  /\ Exact

\* What is left of it when the end of a bio has miscounted.
Shape ==
  /\ Typed /\ HashOK /\ InHand /\ GrabOK /\ UseOK /\ BindingOK /\ MtxOK /\ LockOK
  /\ MappedOK /\ PrivateOK /\ ChunksOK /\ FreerOK /\ TakenOK /\ CopyOK /\ UserOK

Kept == Shape /\ (miscounted \/ Exact)

-----------------------------------------------------------------------------
(* Constants and types. *)

LEMMA Apart ==
  ASSUME Assumptions
  PROVE  /\ Owner \in Task /\ Migrator \in Task /\ User \in Task
         /\ Owner # Migrator /\ Owner # User /\ Migrator # User
         /\ \A r \in Reclaimer : r \in Task /\ r # Owner /\ r # Migrator /\ r # User
         /\ \A t \in Task : t # None /\ t \in Reclaimer \cup {Owner, Migrator, User}
         /\ \A a \in Abd : a # None /\ a # Marker
         /\ \A f \in Folio : f # None
         /\ \A h \in Hdr : h # None
         /\ Marker # None
         /\ \A c \in Chunk : AbdOf[c] \in Abd
         /\ Pages \in Nat /\ Pages > 0
BY DEF Assumptions, AbdOfAssumption, PagesAssumption, NoneAssumption, TasksAssumption,
Task

\* Everybody else stays where he is.
Only(t) == \A u \in Task \ {t} : at'[u] = at[u]

\* A task goes on, with something else in hand.
LEMMA Moves ==
  ASSUME IInv, NEW t \in Task, NEW e \in AtState, at' = [at EXCEPT ![t] = e]
  PROVE  at'[t] = e /\ Only(t) /\ at' \in [Task -> AtState]
BY DEF IInv, Typed, Only

LEMMA RestTyped == Rest \in AtState /\ Rest.folio = None /\ Rest.spare = None
                   /\ Rest.todo = {} /\ Rest.taken = {} /\ Rest.pc = "idle" /\ Rest.abd = None
BY DEF Rest, AtState, Steps

-----------------------------------------------------------------------------
(* The references of a folio. *)

One(b) == IF b THEN 1 ELSE 0

Named(f) == \E c \in Chunk : sg[c] = f

CacheRefs(f) ==
  IF f \in mapped /\ ~(at[Migrator].pc \in Midway /\ f = at[Migrator].folio)
  THEN Pages ELSE 0
ChunkRefs(f) ==
  One(\/ f \notin mapped /\ Named(f)
      \/ f = at[Owner].folio /\ At(Owner, "joined"))
OwnerRefs(f) == One(f = at[Owner].folio /\ at[Owner].pc \notin {"add", "joined"})

Hands(f) == { t \in Reclaimer \cup {Migrator} : at[t].folio = f }
Takers(f) == { r \in Reclaimer : f \in at[r].taken }
Grabbers(f) == { r \in Reclaimer : at[r].spare = f }
Batches(f) == { r \in Reclaimer : batch[r] = f }
Bios(f) == { c \in Chunk : bio[c] = f }
Lookers(f) == { t \in Task : grab[t].held /\ grab[t].folio = f }

\* References there is one of at most, and those of which there may be more.
Single(f) ==
  CacheRefs(f) + One(private[f] # None) + ChunkRefs(f) + One(f = at[Migrator].spare)
    + OwnerRefs(f) + One(f = at[User].folio)
Several(f) ==
  Cardinality(Hands(f)) + Cardinality(Takers(f)) + Cardinality(Grabbers(f))
    + Cardinality(Batches(f)) + Cardinality(Bios(f)) + Cardinality(Lookers(f))

LEMMA SetsAreFinite ==
  ASSUME Assumptions, NEW f
  PROVE  /\ IsFiniteSet(Hands(f)) /\ IsFiniteSet(Takers(f)) /\ IsFiniteSet(Grabbers(f))
         /\ IsFiniteSet(Batches(f)) /\ IsFiniteSet(Bios(f)) /\ IsFiniteSet(Lookers(f))
         /\ IsFiniteSet(Hands(f)') /\ IsFiniteSet(Takers(f)') /\ IsFiniteSet(Grabbers(f)')
         /\ IsFiniteSet(Batches(f)') /\ IsFiniteSet(Bios(f)') /\ IsFiniteSet(Lookers(f)')
<1>1. IsFiniteSet(Reclaimer) /\ IsFiniteSet(Chunk)
  BY DEF Assumptions, FiniteAssumption
<1>2. IsFiniteSet(Reclaimer \cup {Migrator}) /\ IsFiniteSet(Task)
  <2>1. /\ Task = ((Reclaimer \cup {Owner}) \cup {Migrator}) \cup {User}
        /\ IsFiniteSet(Reclaimer \cup {Owner})
    BY <1>1, FS_AddElement DEF Task
  <2>2. IsFiniteSet((Reclaimer \cup {Owner}) \cup {Migrator})
    BY <2>1, FS_AddElement
  <2> QED
    BY <1>1, <2>1, <2>2, FS_AddElement
<1>3. /\ Hands(f) \subseteq Reclaimer \cup {Migrator}
      /\ Hands(f)' \subseteq Reclaimer \cup {Migrator}
      /\ Takers(f) \subseteq Reclaimer /\ Takers(f)' \subseteq Reclaimer
      /\ Grabbers(f) \subseteq Reclaimer /\ Grabbers(f)' \subseteq Reclaimer
      /\ Batches(f) \subseteq Reclaimer /\ Batches(f)' \subseteq Reclaimer
      /\ Bios(f) \subseteq Chunk /\ Bios(f)' \subseteq Chunk
      /\ Lookers(f) \subseteq Task /\ Lookers(f)' \subseteq Task
  BY DEF Hands, Takers, Grabbers, Batches, Bios, Lookers
<1> QED
  BY <1>1, <1>2, <1>3, FS_Subset

\* Each holder is counted, none less than none times.
LEMMA CountsAreNat ==
  ASSUME Assumptions, NEW f
  PROVE  /\ CacheRefs(f) \in Nat /\ ChunkRefs(f) \in Nat /\ OwnerRefs(f) \in Nat
         /\ Cardinality(Hands(f)) \in Nat /\ Cardinality(Takers(f)) \in Nat
         /\ Cardinality(Grabbers(f)) \in Nat /\ Cardinality(Batches(f)) \in Nat
         /\ Cardinality(Bios(f)) \in Nat /\ Cardinality(Lookers(f)) \in Nat
<1>1. Pages \in Nat
  BY Apart
<1>2. CacheRefs(f) \in Nat /\ ChunkRefs(f) \in Nat /\ OwnerRefs(f) \in Nat
  BY <1>1 DEF CacheRefs, ChunkRefs, OwnerRefs, One
<1> QED
  BY <1>2, SetsAreFinite, FS_CardinalityType

LEMMA CountsAreNatThen ==
  ASSUME Assumptions, NEW f
  PROVE  /\ CacheRefs(f)' \in Nat /\ ChunkRefs(f)' \in Nat /\ OwnerRefs(f)' \in Nat
         /\ Cardinality(Hands(f)') \in Nat /\ Cardinality(Takers(f)') \in Nat
         /\ Cardinality(Grabbers(f)') \in Nat /\ Cardinality(Batches(f)') \in Nat
         /\ Cardinality(Bios(f)') \in Nat /\ Cardinality(Lookers(f)') \in Nat
<1>1. Pages \in Nat
  BY Apart
<1>2. CacheRefs(f)' \in Nat /\ ChunkRefs(f)' \in Nat /\ OwnerRefs(f)' \in Nat
  BY <1>1 DEF CacheRefs, ChunkRefs, OwnerRefs, One
<1> QED
  BY <1>2, SetsAreFinite, FS_CardinalityType

LEMMA HoldersAre ==
  ASSUME Assumptions, NEW f
  PROVE  /\ Holders(f) = Single(f) + Several(f) /\ Single(f) \in Nat /\ Several(f) \in Nat
         /\ Holders(f)' = Single(f)' + Several(f)' /\ Single(f)' \in Nat /\ Several(f)' \in Nat
<1>1. (NamedBy(f) # {} <=> Named(f)) /\ (NamedBy(f)' # {} <=> Named(f)')
  BY DEF NamedBy, Named
<1>2. Single(f) \in Nat /\ Several(f) \in Nat
  BY CountsAreNat DEF Single, Several, One
<1>3. Single(f)' \in Nat /\ Several(f)' \in Nat
  BY CountsAreNatThen DEF Single, Several, One
<1>4. Holders(f) = CacheRefs(f) + One(private[f] # None) + ChunkRefs(f)
            + Cardinality(Hands(f)) + One(f = at[Migrator].spare) + Cardinality(Takers(f))
            + Cardinality(Grabbers(f)) + Cardinality(Batches(f)) + OwnerRefs(f)
            + One(f = at[User].folio) + Cardinality(Bios(f)) + Cardinality(Lookers(f))
  BY <1>1 DEF Holders, CacheRefs, One, ChunkRefs, OwnerRefs, Hands, Takers, Grabbers,
       Batches,
       Bios, Lookers, Midway
<1>5. Holders(f)' = CacheRefs(f)' + One(private'[f] # None) + ChunkRefs(f)'
            + Cardinality(Hands(f)') + One(f = at'[Migrator].spare) + Cardinality(Takers(f)')
            + Cardinality(Grabbers(f)') + Cardinality(Batches(f)') + OwnerRefs(f)'
            + One(f = at'[User].folio) + Cardinality(Bios(f)') + Cardinality(Lookers(f)')
  BY <1>1 DEF Holders, CacheRefs, One, ChunkRefs, OwnerRefs, Hands, Takers, Grabbers,
       Batches,
       Bios, Lookers, Midway
<1>6. Holders(f) = Single(f) + Several(f)
  BY <1>4, CountsAreNat DEF Single, Several, One
<1>7. Holders(f)' = Single(f)' + Several(f)'
  BY <1>5, CountsAreNatThen DEF Single, Several, One
<1> QED
  BY <1>2, <1>3, <1>6, <1>7

\* A set of holders with one more, or one less.
LEMMA OneMore ==
  ASSUME NEW S, NEW T, IsFiniteSet(S), NEW x, x \notin S, T = S \cup {x}
  PROVE  Cardinality(T) = Cardinality(S) + 1
BY FS_AddElement

LEMMA OneLess ==
  ASSUME NEW S, NEW T, IsFiniteSet(S), NEW x, x \in S, T = S \ {x}
  PROVE  Cardinality(T) = Cardinality(S) - 1
BY FS_RemoveElement

LEMMA Some ==
  ASSUME NEW S, IsFiniteSet(S)
  PROVE  /\ S # {} => Cardinality(S) > 0
         /\ S = {} => Cardinality(S) = 0
<1>1. Cardinality(S) \in Nat
  BY FS_CardinalityType
<1> QED
  BY <1>1, FS_EmptySet

\* The count of a folio changes by as much as its holders do.
LEMMA Recount ==
  ASSUME Assumptions, IInv, NEW f \in Folio, NEW d \in Int, NEW e \in Int,
         Single(f)' = Single(f) + d, Several(f)' = Several(f) + e,
         ref'[f] = ref[f] + d + e
  PROVE  ref'[f] = Holders(f)'
BY HoldersAre DEF IInv, Exact

\* Tasks in reclaim and in migration have, and bios refer to, the folios they had.
LEMMA SeveralSame ==
  ASSUME \A t \in Reclaimer \cup {Migrator} : at'[t].folio = at[t].folio,
         \A r \in Reclaimer : at'[r].taken = at[r].taken /\ at'[r].spare = at[r].spare,
         batch' = batch, bio' = bio, grab' = grab
  PROVE  \A f : Several(f)' = Several(f)
<1> SUFFICES ASSUME NEW f PROVE Several(f)' = Several(f)
  OBVIOUS
<1>1. /\ Hands(f)' = Hands(f) /\ Takers(f)' = Takers(f) /\ Grabbers(f)' = Grabbers(f)
      /\ Batches(f)' = Batches(f) /\ Bios(f)' = Bios(f) /\ Lookers(f)' = Lookers(f)
  BY DEF Hands, Takers, Grabbers, Batches, Bios, Lookers
<1> QED
  BY <1>1 DEF Several

LEMMA SeveralSameFor ==
  ASSUME Assumptions, NEW t \in {Owner, User}, Only(t), batch' = batch, bio' = bio,
     grab' = grab
  PROVE  \A f : Several(f)' = Several(f)
BY Apart, SeveralSame DEF Only, Task

LEMMA SingleSame ==
  ASSUME UNCHANGED <<sg, private, mapped>>,
         \A t \in {Owner, User} : at'[t].folio = at[t].folio,
         at[Migrator].pc \in Midway => at'[Migrator].folio = at[Migrator].folio,
         at'[Migrator].spare = at[Migrator].spare,
         at'[Migrator].pc \in Midway <=> at[Migrator].pc \in Midway,
         at'[Owner].pc = "add" <=> at[Owner].pc = "add",
         at'[Owner].pc = "joined" <=> at[Owner].pc = "joined"
  PROVE  \A f : Single(f)' = Single(f)
<1> SUFFICES ASSUME NEW f PROVE Single(f)' = Single(f)
  OBVIOUS
<1>1. CacheRefs(f)' = CacheRefs(f)
  BY DEF CacheRefs
<1>2. ChunkRefs(f)' = ChunkRefs(f) /\ OwnerRefs(f)' = OwnerRefs(f)
  BY DEF ChunkRefs, OwnerRefs, One, Named, At
<1> QED
  BY <1>1, <1>2 DEF Single, One

\* Nobody takes or drops a reference.
LEMMA CountsSame ==
  ASSUME Assumptions, IInv, UNCHANGED <<sg, ref, private, mapped, batch, bio, grab>>,
         \A t \in Task : at'[t].folio = at[t].folio,
         at'[Migrator].spare = at[Migrator].spare,
         at'[Migrator].pc \in Midway <=> at[Migrator].pc \in Midway,
         at'[Owner].pc = "add" <=> at[Owner].pc = "add",
         at'[Owner].pc = "joined" <=> at[Owner].pc = "joined",
         \A r \in Reclaimer : at'[r].taken = at[r].taken /\ at'[r].spare = at[r].spare
  PROVE  Exact'
<1> SUFFICES ASSUME NEW f \in Folio PROVE ref'[f] = Holders(f)'
  BY DEF Exact
<1>1. Several(f)' = Several(f)
  BY Apart, SeveralSame
<1>2. Single(f)' = Single(f)
  BY Apart, SingleSame
<1>3. ref[f] = Holders(f)
  BY DEF IInv, Exact
<1> QED
  BY <1>1, <1>2, <1>3, HoldersAre

\* A set of holders with another, or without one, if there is reason.
LEMMA Grown ==
  ASSUME NEW S, NEW T, IsFiniteSet(S), NEW x, NEW b \in BOOLEAN, b => x \notin S,
         T = IF b THEN S \cup {x} ELSE S
  PROVE  Cardinality(T) = Cardinality(S) + One(b)
<1>1. Cardinality(S) \in Nat
  BY FS_CardinalityType
<1> QED
  BY <1>1, OneMore DEF One

LEMMA Shrunk ==
  ASSUME NEW S, NEW T, IsFiniteSet(S), NEW x, NEW b \in BOOLEAN, b => x \in S,
         T = IF b THEN S \ {x} ELSE S
  PROVE  Cardinality(T) = Cardinality(S) - One(b)
<1>1. Cardinality(S) \in Nat
  BY FS_CardinalityType
<1> QED
  BY <1>1, OneLess DEF One

\* A task in reclaim or in migration takes a folio in hand, and lets go of it.
LEMMA HandTaken ==
  ASSUME Assumptions, NEW t \in Reclaimer \cup {Migrator}, Only(t), NEW g \in Folio,
         at[t].folio = None, at'[t].folio = g, at'[t].taken = at[t].taken,
         at'[t].spare = at[t].spare, batch' = batch, bio' = bio, grab' = grab
  PROVE  \A f \in Folio : Several(f)' = Several(f) + One(f = g)
<1> SUFFICES ASSUME NEW f \in Folio PROVE Several(f)' = Several(f) + One(f = g)
  OBVIOUS
<1>1. /\ Hands(f)' = IF f = g THEN Hands(f) \cup {t} ELSE Hands(f)
      /\ t \notin Hands(f)
  BY Apart DEF Hands, Only, Task
<1>2. /\ Takers(f)' = Takers(f) /\ Grabbers(f)' = Grabbers(f)
      /\ Batches(f)' = Batches(f) /\ Bios(f)' = Bios(f) /\ Lookers(f)' = Lookers(f)
  BY DEF Lookers, Takers, Grabbers, Batches, Bios, Only, Task
<1>3. Cardinality(Hands(f)') = Cardinality(Hands(f)) + One(f = g)
  BY <1>1, SetsAreFinite, Grown
<1> QED
  BY <1>2, <1>3, CountsAreNat DEF Several, One

LEMMA HandLetGo ==
  ASSUME Assumptions, NEW t \in Reclaimer \cup {Migrator}, Only(t),
         at[t].folio \in Folio, at'[t].folio = None, batch' = batch, bio' = bio, grab' = grab,
         t \in Reclaimer => at'[t].taken = at[t].taken /\ at'[t].spare = at[t].spare
  PROVE  \A f \in Folio : Several(f)' = Several(f) - One(f = at[t].folio)
<1> SUFFICES ASSUME NEW f \in Folio
             PROVE  Several(f)' = Several(f) - One(f = at[t].folio)
  OBVIOUS
<1>1. /\ Hands(f)' = IF f = at[t].folio THEN Hands(f) \ {t} ELSE Hands(f)
      /\ f = at[t].folio => t \in Hands(f)
  BY Apart DEF Hands, Only, Task
<1>2. /\ Takers(f)' = Takers(f) /\ Grabbers(f)' = Grabbers(f)
      /\ Batches(f)' = Batches(f) /\ Bios(f)' = Bios(f) /\ Lookers(f)' = Lookers(f)
  BY Apart DEF Lookers, Takers, Grabbers, Batches, Bios, Only, Task
<1>3. Cardinality(Hands(f)') = Cardinality(Hands(f)) - One(f = at[t].folio)
  BY <1>1, SetsAreFinite, Shrunk
<1> QED
  BY <1>2, <1>3, CountsAreNat DEF Several, One

\* A task that looked at an entry does so no more.
LEMMA LookerFewer ==
  ASSUME Assumptions, NEW t \in Task, grab[t].held, grab'[t] = Idle, NEW f \in Folio,
         \A u \in Task \ {t} : grab'[u] = grab[u]
  PROVE  Cardinality(Lookers(f)') = Cardinality(Lookers(f)) - One(f = grab[t].folio)
<1>1. /\ Lookers(f)' = IF f = grab[t].folio THEN Lookers(f) \ {t} ELSE Lookers(f)
      /\ f = grab[t].folio => t \in Lookers(f)
  BY DEF Lookers, Idle
<1> QED
  BY <1>1, SetsAreFinite, Shrunk

\* A reclaimer takes a reference on a sibling; drops it; or keeps it, locked; and drops
\* those of all it took.
LEMMA SiblingGrabbed ==
  ASSUME Assumptions, NEW r \in Reclaimer, Only(r), grab[r].held, grab'[r] = Idle,
         \A u \in Task \ {r} : grab'[u] = grab[u],
         at[r].spare = None, at'[r].spare = grab[r].folio, grab[r].folio \in Folio,
         at'[r].taken = at[r].taken, at'[r].folio = at[r].folio, UNCHANGED <<batch,
            bio>>
  PROVE  \A f \in Folio : Several(f)' = Several(f)
<1> SUFFICES ASSUME NEW f \in Folio PROVE Several(f)' = Several(f)
  OBVIOUS
<1>0. r \in Task
  BY Apart
<1>1. /\ Grabbers(f)' = IF f = grab[r].folio THEN Grabbers(f) \cup {r} ELSE Grabbers(f)
      /\ r \notin Grabbers(f)
  BY Apart DEF Grabbers, Only, Task
<1>2. /\ Takers(f)' = Takers(f) /\ Hands(f)' = Hands(f)
      /\ Batches(f)' = Batches(f) /\ Bios(f)' = Bios(f)
  BY DEF Takers, Hands, Batches, Bios, Only, Task
<1>3. Cardinality(Grabbers(f)') = Cardinality(Grabbers(f)) + One(f = grab[r].folio)
  BY <1>1, SetsAreFinite, Grown
<1>4. Cardinality(Lookers(f)') = Cardinality(Lookers(f)) - One(f = grab[r].folio)
  BY <1>0, LookerFewer
<1> QED
  BY <1>2, <1>3, <1>4, CountsAreNat DEF Several, One

LEMMA SiblingLetGo ==
  ASSUME Assumptions, NEW r \in Reclaimer, Only(r),
         at[r].spare \in Folio, at'[r].spare = None, at'[r].taken = at[r].taken,
         at'[r].folio = at[r].folio, batch' = batch, bio' = bio, grab' = grab
  PROVE  \A f \in Folio : Several(f)' = Several(f) - One(f = at[r].spare)
<1> SUFFICES ASSUME NEW f \in Folio
             PROVE  Several(f)' = Several(f) - One(f = at[r].spare)
  OBVIOUS
<1>1. /\ Grabbers(f)' = IF f = at[r].spare THEN Grabbers(f) \ {r} ELSE Grabbers(f)
      /\ f = at[r].spare => r \in Grabbers(f)
  BY Apart DEF Grabbers, Only, Task
<1>2. /\ Takers(f)' = Takers(f) /\ Hands(f)' = Hands(f)
      /\ Batches(f)' = Batches(f) /\ Bios(f)' = Bios(f) /\ Lookers(f)' = Lookers(f)
  BY DEF Lookers, Takers, Hands, Batches, Bios, Only, Task
<1>3. Cardinality(Grabbers(f)') = Cardinality(Grabbers(f)) - One(f = at[r].spare)
  BY <1>1, SetsAreFinite, Shrunk
<1> QED
  BY <1>2, <1>3, CountsAreNat DEF Several, One

LEMMA SiblingKept ==
  ASSUME Assumptions, NEW r \in Reclaimer, Only(r),
         at[r].spare \in Folio, at'[r].spare = None,
         at[r].spare \notin at[r].taken, at'[r].taken = at[r].taken \cup {at[r].spare},
         at'[r].folio = at[r].folio, batch' = batch, bio' = bio, grab' = grab
  PROVE  \A f \in Folio : Several(f)' = Several(f)
<1> SUFFICES ASSUME NEW f \in Folio PROVE Several(f)' = Several(f)
  OBVIOUS
<1>1. /\ Grabbers(f)' = IF f = at[r].spare THEN Grabbers(f) \ {r} ELSE Grabbers(f)
      /\ f = at[r].spare => r \in Grabbers(f)
  BY Apart DEF Grabbers, Only, Task
<1>2. /\ Takers(f)' = IF f = at[r].spare THEN Takers(f) \cup {r} ELSE Takers(f)
      /\ f = at[r].spare => r \notin Takers(f)
  BY Apart DEF Takers, Only, Task
<1>3. Hands(f)' = Hands(f) /\ Batches(f)' = Batches(f) /\ Bios(f)' = Bios(f) /\ Lookers(f)' = Lookers(f)
  BY DEF Lookers, Hands, Batches, Bios, Only, Task
<1>4. Cardinality(Grabbers(f)') = Cardinality(Grabbers(f)) - One(f = at[r].spare)
  BY <1>1, SetsAreFinite, Shrunk
<1>5. Cardinality(Takers(f)') = Cardinality(Takers(f)) + One(f = at[r].spare)
  BY <1>2, SetsAreFinite, Grown
<1> QED
  BY <1>3, <1>4, <1>5, CountsAreNat DEF Several, One

LEMMA TakenLetGo ==
  ASSUME Assumptions, NEW r \in Reclaimer, Only(r), at'[r].taken = {},
         at'[r].spare = at[r].spare, at'[r].folio = at[r].folio,
         batch' = batch, bio' = bio, grab' = grab
  PROVE  \A f \in Folio : Several(f)' = Several(f) - One(f \in at[r].taken)
<1> SUFFICES ASSUME NEW f \in Folio
             PROVE  Several(f)' = Several(f) - One(f \in at[r].taken)
  OBVIOUS
<1>1. /\ Takers(f)' = IF f \in at[r].taken THEN Takers(f) \ {r} ELSE Takers(f)
      /\ f \in at[r].taken => r \in Takers(f)
  BY Apart DEF Takers, Only, Task
<1>2. /\ Grabbers(f)' = Grabbers(f) /\ Hands(f)' = Hands(f)
      /\ Batches(f)' = Batches(f) /\ Bios(f)' = Bios(f) /\ Lookers(f)' = Lookers(f)
  BY DEF Lookers, Grabbers, Hands, Batches, Bios, Only, Task
<1>3. CASE f \in at[r].taken
  <2>1. Cardinality(Takers(f)') = Cardinality(Takers(f)) - 1
    BY <1>1, <1>3, SetsAreFinite, OneLess
  <2> QED
    BY <1>2, <1>3, <2>1, CountsAreNat DEF Several, One
<1>4. CASE f \notin at[r].taken
  BY <1>1, <1>2, <1>4, CountsAreNat DEF Several, One
<1> QED
  BY <1>3, <1>4

\* A reclaimer has a folio locked in its batch, and lets go of it.
LEMMA BatchTaken ==
  ASSUME Assumptions, IInv, NEW r \in Reclaimer, NEW g \in Folio, batch[r] = None,
         batch' = [batch EXCEPT ![r] = g], at' = at, bio' = bio, grab' = grab
  PROVE  \A f \in Folio : Several(f)' = Several(f) + One(f = g)
<1> SUFFICES ASSUME NEW f \in Folio PROVE Several(f)' = Several(f) + One(f = g)
  OBVIOUS
<1>1. /\ Batches(f)' = IF f = g THEN Batches(f) \cup {r} ELSE Batches(f)
      /\ r \notin Batches(f)
  BY Apart DEF Batches, IInv, Typed
<1>2. /\ Takers(f)' = Takers(f) /\ Hands(f)' = Hands(f)
      /\ Grabbers(f)' = Grabbers(f) /\ Bios(f)' = Bios(f) /\ Lookers(f)' = Lookers(f)
  BY DEF Lookers, Takers, Hands, Grabbers, Bios
<1>3. Cardinality(Batches(f)') = Cardinality(Batches(f)) + One(f = g)
  BY <1>1, SetsAreFinite, Grown
<1> QED
  BY <1>2, <1>3, CountsAreNat DEF Several, One

LEMMA BatchLetGo ==
  ASSUME Assumptions, IInv, NEW r \in Reclaimer, batch[r] \in Folio,
         batch' = [batch EXCEPT ![r] = None], at' = at, bio' = bio, grab' = grab
  PROVE  \A f \in Folio : Several(f)' = Several(f) - One(f = batch[r])
<1> SUFFICES ASSUME NEW f \in Folio
             PROVE  Several(f)' = Several(f) - One(f = batch[r])
  OBVIOUS
<1>1. /\ Batches(f)' = IF f = batch[r] THEN Batches(f) \ {r} ELSE Batches(f)
      /\ f = batch[r] => r \in Batches(f)
  BY Apart DEF Batches, IInv, Typed
<1>2. /\ Takers(f)' = Takers(f) /\ Hands(f)' = Hands(f)
      /\ Grabbers(f)' = Grabbers(f) /\ Bios(f)' = Bios(f) /\ Lookers(f)' = Lookers(f)
  BY DEF Lookers, Takers, Hands, Grabbers, Bios
<1>3. Cardinality(Batches(f)') = Cardinality(Batches(f)) - One(f = batch[r])
  BY <1>1, SetsAreFinite, Shrunk
<1> QED
  BY <1>2, <1>3, CountsAreNat DEF Several, One

\* A bio refers to the folio of a chunk, and no longer.
LEMMA BioHeld ==
  ASSUME Assumptions, NEW c \in Chunk, NEW g \in Folio, bio[c] = None, bio'[c] = g,
         \A d \in Chunk \ {c} : bio'[d] = bio[d], Only(User), batch' = batch,
         grab' = grab
  PROVE  \A f \in Folio : Several(f)' = Several(f) + One(f = g)
<1> SUFFICES ASSUME NEW f \in Folio PROVE Several(f)' = Several(f) + One(f = g)
  OBVIOUS
<1>1. /\ Bios(f)' = IF f = g THEN Bios(f) \cup {c} ELSE Bios(f)
      /\ c \notin Bios(f)
  BY Apart DEF Bios
<1>2. /\ Takers(f)' = Takers(f) /\ Hands(f)' = Hands(f)
      /\ Grabbers(f)' = Grabbers(f) /\ Batches(f)' = Batches(f) /\ Lookers(f)' = Lookers(f)
  BY Apart DEF Lookers, Takers, Hands, Grabbers, Batches, Only, Task
<1>3. Cardinality(Bios(f)') = Cardinality(Bios(f)) + One(f = g)
  BY <1>1, SetsAreFinite, Grown
<1> QED
  BY <1>2, <1>3, CountsAreNat DEF Several, One

LEMMA BioLetGo ==
  ASSUME Assumptions, NEW c \in Chunk, bio[c] \in Folio, bio'[c] = None,
         \A d \in Chunk \ {c} : bio'[d] = bio[d], Only(User), batch' = batch,
         grab' = grab
  PROVE  \A f \in Folio : Several(f)' = Several(f) - One(f = bio[c])
<1> SUFFICES ASSUME NEW f \in Folio
             PROVE  Several(f)' = Several(f) - One(f = bio[c])
  OBVIOUS
<1>1. /\ Bios(f)' = IF f = bio[c] THEN Bios(f) \ {c} ELSE Bios(f)
      /\ f = bio[c] => c \in Bios(f)
  BY Apart DEF Bios
<1>2. /\ Takers(f)' = Takers(f) /\ Hands(f)' = Hands(f)
      /\ Grabbers(f)' = Grabbers(f) /\ Batches(f)' = Batches(f) /\ Lookers(f)' = Lookers(f)
  BY Apart DEF Lookers, Takers, Hands, Grabbers, Batches, Only, Task
<1>3. Cardinality(Bios(f)') = Cardinality(Bios(f)) - One(f = bio[c])
  BY <1>1, SetsAreFinite, Shrunk
<1> QED
  BY <1>2, <1>3, CountsAreNat DEF Several, One

\* A task that looks at an entry gets a reference, drops it again, or keeps it.
LEMMA LookerGot ==
  ASSUME Assumptions, NEW t \in Task, NEW g \in Folio, ~grab[t].held,
         grab'[t].held, grab'[t].folio = g,
         \A u \in Task \ {t} : grab'[u] = grab[u], UNCHANGED <<at, batch, bio>>
  PROVE  \A f \in Folio : Several(f)' = Several(f) + One(f = g)
<1> SUFFICES ASSUME NEW f \in Folio PROVE Several(f)' = Several(f) + One(f = g)
  OBVIOUS
<1>1. /\ Lookers(f)' = IF f = g THEN Lookers(f) \cup {t} ELSE Lookers(f)
      /\ t \notin Lookers(f)
  BY DEF Lookers
<1>2. /\ Takers(f)' = Takers(f) /\ Hands(f)' = Hands(f) /\ Bios(f)' = Bios(f)
      /\ Grabbers(f)' = Grabbers(f) /\ Batches(f)' = Batches(f)
  BY DEF Takers, Hands, Grabbers, Batches, Bios
<1>3. Cardinality(Lookers(f)') = Cardinality(Lookers(f)) + One(f = g)
  BY <1>1, SetsAreFinite, Grown
<1> QED
  BY <1>2, <1>3, CountsAreNat DEF Several, One

LEMMA LookerDone ==
  ASSUME Assumptions, NEW t \in Task, grab[t].held, grab'[t] = Idle,
         \A u \in Task \ {t} : grab'[u] = grab[u], UNCHANGED <<batch, bio>>,
         (t \in {Owner, User} /\ Only(t)) \/ UNCHANGED at
  PROVE  \A f \in Folio : Several(f)' = Several(f) - One(f = grab[t].folio)
<1> SUFFICES ASSUME NEW f \in Folio
             PROVE  Several(f)' = Several(f) - One(f = grab[t].folio)
  OBVIOUS
<1>1. /\ Takers(f)' = Takers(f) /\ Hands(f)' = Hands(f) /\ Bios(f)' = Bios(f)
      /\ Grabbers(f)' = Grabbers(f) /\ Batches(f)' = Batches(f)
  BY Apart DEF Takers, Hands, Grabbers, Batches, Bios, Only, Task
<1>2. Cardinality(Lookers(f)') = Cardinality(Lookers(f)) - One(f = grab[t].folio)
  BY LookerFewer
<1> QED
  BY <1>1, <1>2, CountsAreNat DEF Several, One

\* A folio of a buffer that is not in the mapping.
Plain(f, a) == \E c \in Chunk : AbdOf[c] = a /\ sg[c] = f

\* Nobody has anything to do with a folio without a reference.
LEMMA Unreferenced ==
  ASSUME Assumptions, IInv, NEW f \in Folio, ref[f] = 0
  PROVE  /\ f \notin mapped /\ private[f] = None /\ ~Named(f) /\ lock[f] = None
         /\ f # at[Owner].folio /\ f # at[User].folio /\ f # at[Migrator].folio
         /\ f # at[Migrator].spare
         /\ \A r \in Reclaimer :
              /\ f # at[r].folio /\ f # at[r].spare
              /\ f \notin at[r].taken /\ f # batch[r]
         /\ \A c \in Chunk : bio[c] # f
<1>1. Single(f) = 0 /\ Several(f) = 0
  BY HoldersAre DEF IInv, Exact
<1>2. /\ Cardinality(Hands(f)) = 0 /\ Cardinality(Takers(f)) = 0
      /\ Cardinality(Grabbers(f)) = 0 /\ Cardinality(Batches(f)) = 0
      /\ Cardinality(Bios(f)) = 0 /\ Cardinality(Lookers(f)) = 0
  <2> DEFINE h == Cardinality(Hands(f))
             k == Cardinality(Takers(f))
             g == Cardinality(Grabbers(f))
             b == Cardinality(Batches(f))
             i == Cardinality(Bios(f))
             l == Cardinality(Lookers(f))
  <2>1. h + k + g + b + i + l = 0
    BY <1>1 DEF Several
  <2>2. h \in Nat /\ k \in Nat /\ g \in Nat /\ b \in Nat /\ i \in Nat /\ l \in Nat
    BY CountsAreNat
  <2> HIDE DEF h, k, g, b, i, l
  <2>3. h = 0 /\ k = 0 /\ g = 0 /\ b = 0 /\ i = 0 /\ l = 0
    BY <2>1, <2>2
  <2> QED
    BY <2>3 DEF h, k, g, b, i, l
<1>3. Hands(f) = {} /\ Takers(f) = {} /\ Grabbers(f) = {} /\ Batches(f) = {} /\ Bios(f) = {}
  BY <1>2, SetsAreFinite, Some
<1>4. /\ f # at[Migrator].folio /\ \A c \in Chunk : bio[c] # f
      /\ \A r \in Reclaimer :
           /\ f # at[r].folio /\ f # at[r].spare
           /\ f \notin at[r].taken /\ f # batch[r]
  BY <1>3 DEF Hands, Takers, Grabbers, Batches, Bios
<1>5. /\ CacheRefs(f) = 0 /\ One(private[f] # None) = 0 /\ ChunkRefs(f) = 0
      /\ One(f = at[Migrator].spare) = 0 /\ OwnerRefs(f) = 0 /\ One(f = at[User].folio) = 0
  BY <1>1, CountsAreNat DEF Single, One
<1>6. f \notin mapped
  BY <1>4, <1>5, Apart DEF CacheRefs
<1>7. private[f] = None /\ f # at[Migrator].spare /\ f # at[User].folio
  BY <1>5 DEF One
<1>8. ~Named(f) /\ f # at[Owner].folio
  <2>1. ~Named(f) /\ ~(f = at[Owner].folio /\ At(Owner, "joined"))
    BY <1>5, <1>6 DEF ChunkRefs, One
  <2>2. At(Owner, "add") => Named(at[Owner].folio)
    BY DEF IInv, FreerOK, Named
  <2> QED
    BY <1>5, <2>1, <2>2 DEF OwnerRefs, One, At
<1>9. lock[f] = None
  BY <1>4, <1>7, <1>8, Apart DEF IInv, Typed, LockOK
<1> QED
  BY <1>4, <1>6, <1>7, <1>8, <1>9

\* A folio of a buffer that never joined.
Unjoined(f) == \E c \in Chunk : AbdOf[c] \notin joined /\ sg[c] = f

-----------------------------------------------------------------------------
(* What a step leaves as it is: it changes nothing a part of the invariant is about, or *)
(* only where its task is. *)

LEMMA GrabsAre ==
  ASSUME Assumptions
  PROVE  /\ Grabs(Owner) = {"touch", "free"}
         /\ Grabs(User) = {"pinned", "fill", "done", "free"}
         /\ Grabs(Migrator) = {}
         /\ \A r \in Reclaimer : Grabs(r) = {"siblings"}
BY Apart DEF Grabs

LEMMA GrabSame ==
  ASSUME Assumptions, IInv, NEW t \in Task, Only(t), grab' = grab,
         t = Owner /\ at[t].pc \in {"touch", "free"} => at[t].todo = {},
         t = User /\ at[t].pc \in {"pinned", "fill", "done", "free"} => at[t].todo = {},
         t \in Reclaimer /\ at[t].pc = "siblings" => at[t].todo = {}
  PROVE  GrabOK'
<1>1. grab[t] = Idle
  BY GrabsAre, Apart DEF IInv, GrabOK
<1> QED
  BY <1>1 DEF IInv, GrabOK, Only

\* A reference that is on the folio the entry names becomes the task's own.
LEMMA Grabbing ==
  ASSUME Assumptions, IInv, NEW t \in Task, NEW c \in Chunk, Grabbed(t, c), Take(t)
  PROVE  /\ grab[t].held /\ grab[t].folio = sg[c] /\ sg[c] \in Folio /\ data[sg[c]] = c
         /\ at[t].pc \in Grabs(t) /\ c \in at[t].todo
         /\ grab'[t] = Idle /\ grab' \in [Task -> GrabState]
         /\ \A u \in Task \ {t} : grab'[u] = grab[u]
<1>1. grab[t].held /\ grab[t].folio = sg[c] /\ grab[t].entry = c
  BY DEF Grabbed
<1>2. grab[t] # Idle /\ sg[c] \in Folio
  BY <1>1 DEF Idle, IInv, Typed, GrabState, GrabOK
<1>3. data[sg[c]] = c
  BY <1>2, Apart DEF IInv, ChunksOK, ChunkOK
<1>4. Idle \in GrabState
  BY DEF Idle, GrabState
<1>5. grab' = [grab EXCEPT ![t] = Idle]
  BY DEF Take
<1> QED
  BY <1>1, <1>2, <1>3, <1>4, <1>5 DEF IInv, Typed, GrabOK

LEMMA GrabbedSame ==
  ASSUME Assumptions, IInv, NEW t \in Task, Only(t), grab'[t] = Idle,
         \A u \in Task \ {t} : grab'[u] = grab[u]
  PROVE  GrabOK'
<1>1. ~Idle.held
  BY DEF Idle
<1> QED
  BY <1>1 DEF IInv, GrabOK, Only

LEMMA UseSame ==
  ASSUME Assumptions, IInv, NEW t \in Reclaimer \cup {Migrator}, Only(t),
         UNCHANGED <<refcnt, writing, resident, orphan, prelocked>>,
         t \in Reclaimer => (Frees(t)' => Frees(t))
  PROVE  UseOK'
BY Apart DEF IInv, UseOK, Frees, At, Exists, Only, Joining

LEMMA BindingSame ==
  ASSUME Assumptions, IInv, NEW t \in Task \ {Owner}, Only(t),
         UNCHANGED <<hdr, gone, resident, joined, arg>>,
         t \in Reclaimer /\ at'[t].pc \in Taking =>
           at[t].pc \in Taking /\ at'[t].abd = at[t].abd
  PROVE  BindingOK'
BY Apart DEF IInv, BindingOK, At, Only

LEMMA MtxSame ==
  ASSUME Assumptions, IInv, NEW t \in Task, Only(t),
         UNCHANGED <<joined, prelocked, mtx, hash, resident, orphan>>,
         t \in {Owner, User} =>
           /\ at[t].pc \notin Joining \cup Freeing
           /\ at'[t].pc \notin Joining \cup Freeing,
         t \in Reclaimer =>
           /\ at[t].pc \notin {"header"} \cup Taking
           /\ at'[t].pc \notin {"trymtx", "header"} \cup Taking
  PROVE  MtxOK'
BY Apart DEF IInv, MtxOK, MutexesOf, Frees, At, Taking, Exists, Only, Joining

LEMMA LockSame ==
  ASSUME Assumptions, IInv, NEW t \in {Owner, User}, Only(t), UNCHANGED <<lock, batch>>,
         at[t].pc \notin {"joined", "drop"}, at'[t].pc \notin {"joined", "drop"}
  PROVE  LockOK'
BY Apart DEF IInv, LockOK, At, Only

LEMMA MappedSame ==
  ASSUME Assumptions, IInv, NEW t \in {Owner, User}, Only(t), UNCHANGED <<mapped, sg,
     batch>>,
         at'[t].pc # "joined"
  PROVE  MappedOK'
BY Apart DEF IInv, MappedOK, At, Only

LEMMA PrivateSame ==
  ASSUME Assumptions, IInv, NEW t \in {Owner, User}, Only(t),
         UNCHANGED <<mapped, private, sg, joined>>, t = Owner => at[t].pc # "add"
  PROVE  PrivateOK'
BY Apart DEF IInv, PrivateOK, Repointed, At, Only

LEMMA ChunksSame ==
  ASSUME Assumptions, IInv, NEW t \in Task, Only(t),
         UNCHANGED <<sg, mapped, private, data, joined, resident, orphan>>,
         t \notin Reclaimer => at[t].pc \notin Freeing \cup {"add", "repoint"}
  PROVE  ChunksOK'
BY Apart DEF IInv, ChunksOK, ChunkOK, Exists, At, Only

LEMMA FreerSame ==
  ASSUME Assumptions, IInv, NEW t \in Task, Only(t), 
         UNCHANGED <<sg, mapped, private, data>>,
         t \in {Owner, User} => at'[t].pc \notin Joining \cup Freeing
  PROVE  FreerOK'
BY Apart DEF IInv, FreerOK, At, Freeing, Only, Joining

LEMMA TakenSame ==
  ASSUME Assumptions, IInv, NEW t \in Task, Only(t), UNCHANGED <<data, sg, mtx>>,
         t \in Reclaimer => at'[t].pc \notin Taking /\ at'[t].taken = {}
  PROVE  TakenOK'
BY Apart DEF IInv, TakenOK, TakenBy, At, Taking, Only

LEMMA CopySame ==
  ASSUME Assumptions, IInv, NEW t \in Task \ {Migrator}, Only(t),
         UNCHANGED <<private, data, sg, bio>>,
         at'[t].folio \in {at[t].folio, None}, at'[t].spare \in {at[t].spare, None}
  PROVE  CopyOK'
BY Apart DEF IInv, Typed, InHand, CopyOK, At, Midway, Only

LEMMA UserSame ==
  ASSUME Assumptions, IInv, NEW t \in Task \ {User}, Only(t), UNCHANGED <<data, sg,
     bio>>
  PROVE  UserOK'
BY Apart DEF IInv, UserOK, At, Only

-----------------------------------------------------------------------------
(* The owner: what it does under the hash lock keeps the invariant. *)

LEMMA EnterOK ==
  ASSUME Assumptions, IInv, Enter
  PROVE  IInv'
<1>1. /\ at[Owner].pc = "idle" /\ hash = None /\ hash' = Owner
      /\ UNCHANGED <<sg, ref, lock, private, mapped, data>>
      /\ UNCHANGED <<joined, prelocked, mtx, arg, reclaiming>>
      /\ UNCHANGED <<hdr, gone, resident, orphan, refcnt, writing, bio, batch, grab,
                       miscounted>>
  BY DEF Enter, At, folioVars, abdVars, heldVars, bioVars
<1>2. /\ at'[Owner].pc = "locked" /\ at'[Owner].abd = at[Owner].abd
      /\ at'[Owner].folio = at[Owner].folio /\ at'[Owner].spare = at[Owner].spare
      /\ at'[Owner].todo = at[Owner].todo /\ at'[Owner].taken = at[Owner].taken
      /\ Only(Owner) /\ at' \in [Task -> AtState]
  <2>1. PICK e : e = [at[Owner] EXCEPT !.pc = "locked"]
    OBVIOUS
  <2>2. /\ at[Owner] \in AtState
        /\ "locked" \in Steps
    BY <1>1, Apart, RestTyped DEF IInv, Typed, AtState, Steps, Chunks
  <2>3. /\ e \in AtState
        /\ e.pc = "locked" /\ e.abd = at[Owner].abd
        /\ e.folio = at[Owner].folio /\ e.spare = at[Owner].spare
        /\ e.todo = at[Owner].todo /\ e.taken = at[Owner].taken
    BY <2>1, <2>2, RestTyped DEF AtState
  <2>4. at' = [at EXCEPT ![Owner] = e]
    BY <2>1 DEF Enter, Go, Finish
  <2>5. Owner \in Task
    BY Apart
  <2>6. at'[Owner] = e /\ Only(Owner) /\ at' \in [Task -> AtState]
    BY <2>3, <2>4, <2>5, Moves
  <2> QED
    BY <2>3, <2>6
<1>3. Typed'
  BY <1>1, <1>2 DEF IInv, Typed, AtState, Only
<1>4. HashOK'
  BY Apart, <1>1, <1>2 DEF IInv, HashOK, OwnerSteps, MigratorSteps, UserSteps,
     ReclaimerSteps, Taking, Freeing, Locking, Midway, Migrating, WriteSteps, Only,
     Joining
<1>5. InHand'
  BY Apart, <1>1, <1>2 DEF IInv, Typed, InHand, At, Taking, Midway, Only
<1>6. UseOK'
  BY Apart, <1>1, <1>2 DEF IInv, UseOK, At, Freeing, WriteSteps, Frees, Exists, Only,
       Joining
<1>7. BindingOK'
  BY Apart, <1>1, <1>2 DEF IInv, BindingOK, At, Only
<1>8. MtxOK'
  BY Apart, <1>1, <1>2 DEF IInv, Typed, MtxOK, MutexesOf, At, Freeing, Taking, Frees,
     Exists, Only, Joining
<1>9. Exact'
  BY <1>1, <1>2, Apart, CountsSame DEF Only, IInv, HashOK, InHand, OwnerSteps, Freeing,
     Midway, Joining
<1>10. /\ LockOK' /\ MappedOK' /\ PrivateOK' /\ ChunksOK'
       /\ FreerOK' /\ TakenOK' /\ CopyOK' /\ UserOK'
  BY <1>1, <1>2, Apart, ChunksSame, CopySame, FreerSame, LockSame, MappedSame,
     PrivateSame, TakenSame, UserSame DEF Freeing, Taking, Joining
<1>11. GrabOK'
  BY <1>1, <1>2, Apart, GrabSame DEF Only
<1> QED
  BY <1>3, <1>4, <1>5, <1>6, <1>7, <1>8, <1>9, <1>10, <1>11 DEF IInv

LEMMA LeaveOK ==
  ASSUME Assumptions, IInv, Leave
  PROVE  IInv'
<1>1. /\ at[Owner].pc = "locked" /\ hash' = None
      /\ UNCHANGED <<sg, ref, lock, private, mapped, data>>
      /\ UNCHANGED <<joined, prelocked, mtx, arg, reclaiming>>
      /\ UNCHANGED <<hdr, gone, resident, orphan, refcnt, writing, bio, batch, grab,
                       miscounted>>
  BY DEF Leave, At, folioVars, abdVars, heldVars, bioVars
<1>2. /\ at'[Owner].pc = "idle" /\ at'[Owner].abd = None
      /\ at'[Owner].folio = None /\ at'[Owner].spare = None
      /\ at'[Owner].todo = {} /\ at'[Owner].taken = {}
      /\ Only(Owner) /\ at' \in [Task -> AtState]
  <2>1. PICK e : e = Rest
    OBVIOUS
  <2>2. /\ Rest \in AtState
    BY <1>1, Apart, RestTyped DEF IInv, Typed, AtState, Steps, Chunks
  <2>3. /\ e \in AtState
        /\ e.pc = "idle" /\ e.abd = None
        /\ e.folio = None /\ e.spare = None
        /\ e.todo = {} /\ e.taken = {}
    BY <2>1, <2>2, RestTyped DEF AtState
  <2>4. at' = [at EXCEPT ![Owner] = e]
    BY <2>1 DEF Leave, Go, Finish
  <2>5. Owner \in Task
    BY Apart
  <2>6. at'[Owner] = e /\ Only(Owner) /\ at' \in [Task -> AtState]
    BY <2>3, <2>4, <2>5, Moves
  <2> QED
    BY <2>3, <2>6
<1>3. Typed'
  BY <1>1, <1>2 DEF IInv, Typed, AtState, Only
<1>4. HashOK'
  BY Apart, <1>1, <1>2 DEF IInv, HashOK, OwnerSteps, UserSteps, ReclaimerSteps, Taking,
     Freeing, Locking, Midway, Migrating, WriteSteps, Only, Joining
<1>5. InHand'
  BY Apart, <1>1, <1>2 DEF IInv, Typed, InHand, At, Taking, Midway, Only
<1>6. UseOK'
  BY Apart, <1>1, <1>2 DEF IInv, UseOK, At, Freeing, WriteSteps, Frees, Exists, Only,
       Joining
<1>7. BindingOK'
  BY Apart, <1>1, <1>2 DEF IInv, Typed, BindingOK, At, Only
<1>8. MtxOK'
  BY Apart, <1>1, <1>2 DEF IInv, Typed, MtxOK, MutexesOf, At, Freeing, Taking, Frees,
     Exists, HashOK, OwnerSteps, MigratorSteps, UserSteps, ReclaimerSteps, Locking,
     Midway, Migrating, WriteSteps, Only, Joining
<1>9. Exact'
  BY <1>1, <1>2, Apart, CountsSame DEF Only, IInv, HashOK, InHand, OwnerSteps, Freeing,
     Midway, Joining
<1>10. /\ LockOK' /\ MappedOK' /\ PrivateOK' /\ ChunksOK'
       /\ FreerOK' /\ TakenOK' /\ CopyOK' /\ UserOK'
  BY <1>1, <1>2, Apart, ChunksSame, CopySame, FreerSame, LockSame, MappedSame,
     PrivateSame, TakenSame, UserSame DEF Freeing, Taking, Joining
<1>11. GrabOK'
  BY <1>1, <1>2, Apart, GrabSame DEF Only
<1> QED
  BY <1>3, <1>4, <1>5, <1>6, <1>7, <1>8, <1>9, <1>10, <1>11 DEF IInv

LEMMA JoinOK ==
  ASSUME Assumptions, IInv, NEW a \in Abd, Join(a)
  PROVE  IInv'
<1>1. /\ at[Owner].pc = "locked" /\ a \in resident \ joined
      /\ mtx[a] = None /\ mtx' = [mtx EXCEPT ![a] = Owner]
      /\ arg' = [arg EXCEPT ![a] = hdr] /\ joined' = joined \cup {a}
      /\ UNCHANGED <<sg, ref, lock, private, mapped, data>>
      /\ UNCHANGED <<hash, hdr, gone, resident, orphan, refcnt, writing>>
      /\ UNCHANGED <<prelocked, reclaiming, bio, batch, grab, miscounted>>
  BY DEF Join, At, folioVars, hdrVars, heldVars, bioVars
<1>2. /\ at'[Owner].pc = "join" /\ at'[Owner].abd = a
      /\ at'[Owner].folio = at[Owner].folio /\ at'[Owner].spare = at[Owner].spare
      /\ at'[Owner].todo = Chunks({a}) /\ at'[Owner].taken = at[Owner].taken
      /\ Only(Owner) /\ at' \in [Task -> AtState]
  <2>1. PICK e : e = [at[Owner] EXCEPT !.pc = "join", !.abd = a, !.todo = Chunks({a})]
    OBVIOUS
  <2>2. /\ at[Owner] \in AtState
        /\ "join" \in Steps
        /\ a \in Abd \cup {Marker, None}
        /\ Chunks({a}) \subseteq Chunk \cup Abd
    BY <1>1, Apart, RestTyped DEF IInv, Typed, AtState, Steps, Chunks
  <2>3. /\ e \in AtState
        /\ e.pc = "join" /\ e.abd = a
        /\ e.folio = at[Owner].folio /\ e.spare = at[Owner].spare
        /\ e.todo = Chunks({a}) /\ e.taken = at[Owner].taken
    BY <2>1, <2>2, RestTyped DEF AtState
  <2>4. at' = [at EXCEPT ![Owner] = e]
    BY <2>1 DEF Join, Go, Finish
  <2>5. Owner \in Task
    BY Apart
  <2>6. at'[Owner] = e /\ Only(Owner) /\ at' \in [Task -> AtState]
    BY <2>3, <2>4, <2>5, Moves
  <2> QED
    BY <2>3, <2>6
<1>3. Typed'
  BY <1>1, <1>2 DEF IInv, Typed, AtState, Only
<1>4. HashOK'
  BY Apart, <1>1, <1>2 DEF IInv, HashOK, OwnerSteps, Taking, Locking, Migrating,
     WriteSteps, Only, Joining
<1>5. InHand'
  BY Apart, <1>1, <1>2 DEF IInv, Typed, InHand, Taking, Midway, Only, Chunks
<1>6. UseOK'
  BY Apart, <1>1, <1>2 DEF IInv, UseOK, At, Freeing, WriteSteps, Frees, Exists, Only,
       Joining
<1>7. BindingOK'
  BY Apart, <1>1, <1>2 DEF IInv, BindingOK, At, Only
<1>8. MtxOK'
  BY Apart, <1>1, <1>2 DEF IInv, Typed, MtxOK, MutexesOf, At, Freeing, Taking, Frees,
     Exists, HashOK, OwnerSteps, MigratorSteps, UserSteps, Only, Joining
<1>9. PrivateOK'
  BY Apart, <1>1, <1>2 DEF IInv, Typed, PrivateOK, At, Repointed, Taking, Only
<1>10. ChunksOK'
  BY Apart, <1>1, <1>2 DEF IInv, ChunksOK, ChunkOK, At, Freeing, Exists, Only, Joining
<1>11. FreerOK'
  BY Apart, <1>1, <1>2 DEF IInv, Typed, FreerOK, At, Freeing, Midway, Migrating,
     WriteSteps, ChunksOK, ChunkOK, Exists, Only, Chunks, Joining
<1>12. TakenOK'
  BY Apart, <1>1, <1>2 DEF IInv, Typed, TakenOK, TakenBy, At, Only
<1>13. Exact'
  BY <1>1, <1>2, Apart, CountsSame DEF Only, IInv, HashOK, InHand, OwnerSteps, Freeing,
     Midway, Joining
<1>14. LockOK' /\ MappedOK' /\ CopyOK' /\ UserOK'
  BY <1>1, <1>2, Apart, CopySame, LockSame, MappedSame, UserSame
<1>15. GrabOK'
  BY <1>1, <1>2, Apart, GrabSame DEF Only
<1> QED
  BY <1>3, <1>4, <1>5, <1>6, <1>7, <1>8, <1>9, <1>10, <1>11, <1>12, <1>13, <1>14,
       <1>15 DEF
     IInv

LEMMA JoinPrivateOK ==
  ASSUME Assumptions, IInv, NEW c \in Chunk, JoinPrivate(c)
  PROVE  IInv'
<1>1. /\ at[Owner].pc = "join" /\ c \in at[Owner].todo
      /\ private' = [private EXCEPT ![sg[c]] = at[Owner].abd]
      /\ UNCHANGED <<sg, ref, lock, mapped, data>>
      /\ UNCHANGED <<joined, prelocked, mtx, arg, reclaiming>>
      /\ UNCHANGED <<hash, hdr, gone, resident, orphan, refcnt, writing>>
      /\ UNCHANGED <<bio, batch, grab, miscounted>>
  BY DEF JoinPrivate, At, abdVars, hdrVars, heldVars, bioVars
<1>2. /\ at'[Owner].pc = "add" /\ at'[Owner].abd = at[Owner].abd
      /\ at'[Owner].folio = sg[c] /\ at'[Owner].spare = at[Owner].spare
      /\ at'[Owner].todo = at[Owner].todo \ {c} /\ at'[Owner].taken = at[Owner].taken
      /\ Only(Owner) /\ at' \in [Task -> AtState]
  <2>1. PICK e : e = [at[Owner] EXCEPT !.pc = "add", !.folio = sg[c], !.todo = at[Owner].todo \ {c}]
    OBVIOUS
  <2>2. /\ at[Owner] \in AtState
        /\ "add" \in Steps
        /\ sg[c] \in Folio \cup {None}
        /\ at[Owner].todo \ {c} \subseteq Chunk \cup Abd
    BY <1>1, Apart, RestTyped DEF IInv, Typed, AtState, Steps, Chunks
  <2>3. /\ e \in AtState
        /\ e.pc = "add" /\ e.abd = at[Owner].abd
        /\ e.folio = sg[c] /\ e.spare = at[Owner].spare
        /\ e.todo = at[Owner].todo \ {c} /\ e.taken = at[Owner].taken
    BY <2>1, <2>2, RestTyped DEF AtState
  <2>4. at' = [at EXCEPT ![Owner] = e]
    BY <2>1 DEF JoinPrivate
  <2>5. Owner \in Task
    BY Apart
  <2>6. at'[Owner] = e /\ Only(Owner) /\ at' \in [Task -> AtState]
    BY <2>3, <2>4, <2>5, Moves
  <2> QED
    BY <2>3, <2>6
<1>a. sg[c] \in Folio /\ sg[c] \notin mapped /\ private[sg[c]] = Marker
      /\ data[sg[c]] = c /\ AbdOf[c] = at[Owner].abd /\ at[Owner].abd \in resident \cap joined
  BY <1>1, Apart DEF IInv, Typed, ChunksOK, ChunkOK, Exists, UseOK, HashOK, Freeing,
       Joining,
     FreerOK, MtxOK, MutexesOf, At
<1>b. /\ at[Migrator].pc \in Midway =>
           sg[c] # at[Migrator].spare /\ sg[c] # at[Migrator].folio
      /\ \A r \in Reclaimer : at[r].folio # None => sg[c] # at[r].folio
      /\ at[Owner].folio = None
  BY <1>1, <1>a, Apart DEF IInv, Typed, MappedOK, InHand, Joining
<1>3. Typed'
  BY Apart, <1>1, <1>2, <1>a DEF IInv, Typed, AtState, Only
<1>4. HashOK'
  BY Apart, <1>1, <1>2 DEF IInv, HashOK, OwnerSteps, MigratorSteps, UserSteps,
     ReclaimerSteps, Taking, Freeing, Joining, Locking, Midway, Migrating, WriteSteps,
     Only
<1>5. InHand'
  BY Apart, <1>1, <1>2, <1>a DEF IInv, InHand, At, Taking, Midway, Only
<1>6. UseOK'
  BY Apart, <1>1, <1>2 DEF IInv, UseOK, At, Freeing, Joining, WriteSteps, Frees,
       Exists, Only
<1>7. BindingOK'
  BY Apart, <1>1, <1>2 DEF IInv, BindingOK, At, Only
<1>8. MtxOK'
  BY Apart, <1>1, <1>2 DEF IInv, MtxOK, MutexesOf, At, Freeing, Joining, Taking, Frees,
       Exists,
     Only
<1>9. PrivateOK'
  BY Apart, <1>1, <1>2, <1>a, <1>b DEF IInv, Typed, PrivateOK, InHand, At, Repointed,
       Taking,
     Only
<1>10. ChunksOK'
  BY Apart, <1>1, <1>2, <1>a, <1>b DEF IInv, Typed, ChunksOK, ChunkOK, At, Freeing,
       Joining,
     Midway, Exists, Only
<1>11. FreerOK'
  BY Apart, <1>1, <1>2, <1>a DEF IInv, Typed, FreerOK, At, Freeing, Joining, Only
<1>12. CopyOK'
  BY Apart, <1>1, <1>2, <1>a, <1>b DEF IInv, Typed, CopyOK, At, Midway, Only
<1>13. Exact'
  <2>1. \A f \in Folio : Several(f)' = Several(f)
    BY <1>1, <1>2, Apart, SeveralSameFor
  <2>2. \A f \in Folio : Single(f)' = Single(f)
    BY <1>1, <1>2, <1>a, <1>b, Apart DEF Single, CacheRefs, ChunkRefs, OwnerRefs, One,
         Named,
       At, Only, Task, IInv, Typed
  <2>3. ASSUME NEW f \in Folio PROVE ref'[f] = Holders(f)'
    BY <1>1, <2>1, <2>2, HoldersAre DEF IInv, Exact
  <2> QED
    BY <2>3 DEF Exact
<1>14. LockOK' /\ MappedOK' /\ TakenOK' /\ UserOK'
  BY <1>1, <1>2, Apart, LockSame, MappedSame, TakenSame, UserSame
<1>15. GrabOK'
  BY <1>1, <1>2, Apart, GrabSame
<1> QED
  BY <1>3, <1>4, <1>5, <1>6, <1>7, <1>8, <1>9, <1>10, <1>11, <1>12, <1>13, <1>14, <1>15
  DEF IInv

\* The folio that is being added: nobody else has anything to do with it.
LEMMA Added ==
  ASSUME Assumptions, IInv, at[Owner].pc = "add"
  PROVE  LET f == at[Owner].folio IN
         /\ f \in Folio /\ f \notin mapped /\ private[f] = at[Owner].abd
         /\ at[Owner].abd \in resident \cap joined /\ at[Owner].abd \in Abd
         /\ \E c \in Chunk : /\ sg[c] = f /\ data[f] = c /\ AbdOf[c] = at[Owner].abd
                             /\ c \notin at[Owner].todo
         /\ \A c \in at[Owner].todo : c \in Chunk /\ sg[c] # f
         /\ lock[f] = None /\ f # at[Migrator].spare /\ f # at[Migrator].folio
         /\ \A r \in Reclaimer :
              f # at[r].folio /\ f # batch[r] /\ f \notin at[r].taken
<1> DEFINE f == at[Owner].folio
<1>1. /\ f \in Folio /\ f \notin mapped /\ private[f] = at[Owner].abd
      /\ at[Owner].abd \in resident \cap joined /\ at[Owner].abd \in Abd
  BY Apart DEF IInv, Typed, AtState, InHand, FreerOK, UseOK, MtxOK, Joining, At
<1>2. PICK c \in Chunk \ at[Owner].todo : sg[c] = f /\ AbdOf[c] = at[Owner].abd
  BY DEF IInv, FreerOK, At
<1>3. data[f] = c /\ \A d \in Chunk : sg[d] = f => d = c
  BY <1>1, <1>2, Apart DEF IInv, ChunksOK, ChunkOK
<1>4. \A d \in at[Owner].todo : d \in Chunk /\ sg[d] # f
  BY <1>3, Apart DEF IInv, InHand, At
<1>5. \A r \in Reclaimer : f # at[r].folio /\ f # batch[r]
  BY <1>1, <1>2, Apart DEF IInv, MappedOK
<1>6. \A r \in Reclaimer : f \notin at[r].taken
  BY <1>1, <1>2, <1>3, Apart DEF IInv, TakenOK, TakenBy, MtxOK, Joining
<1>7. f # at[Migrator].spare /\ f # at[Migrator].folio
  BY <1>1, <1>2, Apart DEF IInv, MappedOK, InHand
<1>8. lock[f] # User
  BY <1>1, <1>2, <1>3, Apart DEF IInv, LockOK, FreerOK, UseOK, Freeing, At
<1>9. lock[f] = None
  BY <1>1, <1>5, <1>6, <1>7, <1>8, Apart DEF IInv, Typed, LockOK, Task
<1> QED
  BY <1>1, <1>2, <1>3, <1>4, <1>5, <1>6, <1>7, <1>9

LEMMA JoinFailOK ==
  ASSUME Assumptions, IInv, JoinFail
  PROVE  IInv'
<1>1. /\ at[Owner].pc = "add"
      /\ private' = [private EXCEPT ![at[Owner].folio] = Marker]
      /\ UNCHANGED <<sg, ref, lock, mapped, data>>
      /\ UNCHANGED <<joined, prelocked, mtx, arg, reclaiming>>
      /\ UNCHANGED <<hash, hdr, gone, resident, orphan, refcnt, writing>>
      /\ UNCHANGED <<bio, batch, grab, miscounted>>
  BY DEF JoinFail, At, abdVars, hdrVars, heldVars, bioVars
<1>2. /\ at'[Owner].pc = "join" /\ at'[Owner].abd = at[Owner].abd
      /\ at'[Owner].folio = None /\ at'[Owner].spare = at[Owner].spare
      /\ at'[Owner].todo = at[Owner].todo /\ at'[Owner].taken = at[Owner].taken
      /\ Only(Owner) /\ at' \in [Task -> AtState]
  <2>1. PICK e : e = [at[Owner] EXCEPT !.pc = "join", !.folio = None]
    OBVIOUS
  <2>2. /\ at[Owner] \in AtState
        /\ "join" \in Steps
        /\ None \in Folio \cup {None}
    BY <1>1, Apart, RestTyped DEF IInv, Typed, AtState, Steps, Chunks
  <2>3. /\ e \in AtState
        /\ e.pc = "join" /\ e.abd = at[Owner].abd
        /\ e.folio = None /\ e.spare = at[Owner].spare
        /\ e.todo = at[Owner].todo /\ e.taken = at[Owner].taken
    BY <2>1, <2>2, RestTyped DEF AtState
  <2>4. at' = [at EXCEPT ![Owner] = e]
    BY <2>1 DEF JoinFail
  <2>5. Owner \in Task
    BY Apart
  <2>6. at'[Owner] = e /\ Only(Owner) /\ at' \in [Task -> AtState]
    BY <2>3, <2>4, <2>5, Moves
  <2> QED
    BY <2>3, <2>6
<1>a. /\ at[Owner].folio \in Folio /\ at[Owner].folio \notin mapped
      /\ private[at[Owner].folio] = at[Owner].abd
      /\ at[Owner].abd \in resident \cap joined /\ at[Owner].abd \in Abd
      /\ \A c \in at[Owner].todo : c \in Chunk /\ sg[c] # at[Owner].folio
      /\ at[Owner].folio # at[Migrator].spare /\ at[Owner].folio # at[Migrator].folio
      /\ \A r \in Reclaimer : at[Owner].folio # at[r].folio
  BY <1>1, Added
<1>3. Typed'
  BY Apart, <1>1, <1>2 DEF IInv, Typed, AtState, Only
<1>4. HashOK'
  BY Apart, <1>1, <1>2 DEF IInv, HashOK, OwnerSteps, MigratorSteps, UserSteps,
     ReclaimerSteps, Taking, Freeing, Joining, Locking, Midway, Migrating, WriteSteps,
     Only
<1>5. InHand'
  BY Apart, <1>1, <1>2 DEF IInv, InHand, At, Taking, Midway, Only
<1>6. UseOK'
  BY Apart, <1>1, <1>2 DEF IInv, UseOK, At, Freeing, Joining, WriteSteps, Frees,
       Exists, Only
<1>7. BindingOK'
  BY Apart, <1>1, <1>2 DEF IInv, BindingOK, At, Only
<1>8. MtxOK'
  BY Apart, <1>1, <1>2 DEF IInv, MtxOK, MutexesOf, At, Freeing, Joining, Taking, Frees,
       Exists,
     Only
<1>9. PrivateOK'
  BY Apart, <1>1, <1>2, <1>a DEF IInv, Typed, PrivateOK, At, Repointed, Taking, Only
<1>10. ChunksOK'
  BY Apart, <1>1, <1>2, <1>a DEF IInv, Typed, ChunksOK, ChunkOK, At, Freeing, Joining,
       Exists,
     Only
<1>11. FreerOK'
  BY Apart, <1>1, <1>2, <1>a DEF IInv, Typed, FreerOK, At, Freeing, Joining, Only
<1>12. CopyOK'
  BY Apart, <1>1, <1>2, <1>a DEF IInv, Typed, InHand, Midway, CopyOK, At, Only
<1>13. Exact'
  <2>1. \A f \in Folio : Several(f)' = Several(f)
    BY <1>1, <1>2, Apart, SeveralSameFor
  <2>2. \A f \in Folio : Single(f)' = Single(f)
    BY <1>1, <1>2, <1>a, Apart DEF Single, CacheRefs, ChunkRefs, OwnerRefs, One, Named,
       At, Only, Task, IInv, Typed
  <2>3. ASSUME NEW f \in Folio PROVE ref'[f] = Holders(f)'
    BY <1>1, <2>1, <2>2, HoldersAre DEF IInv, Exact
  <2> QED
    BY <2>3 DEF Exact
<1>14. LockOK' /\ MappedOK' /\ TakenOK' /\ UserOK'
  BY <1>1, <1>2, Apart, LockSame, MappedSame, TakenSame, UserSame
<1>15. GrabOK'
  BY <1>1, <1>2, Apart, GrabSame
<1> QED
  BY <1>3, <1>4, <1>5, <1>6, <1>7, <1>8, <1>9, <1>10, <1>11, <1>12, <1>13, <1>14, <1>15
  DEF IInv

LEMMA JoinEndOK ==
  ASSUME Assumptions, IInv, JoinEnd
  PROVE  IInv'
<1>1. /\ at[Owner].pc = "join" /\ at[Owner].todo = {}
      /\ mtx' = [mtx EXCEPT ![at[Owner].abd] = None]
      /\ UNCHANGED <<sg, ref, lock, private, mapped, data>>
      /\ UNCHANGED <<hash, hdr, gone, resident, orphan, refcnt, writing>>
      /\ UNCHANGED <<joined, prelocked, arg, reclaiming, bio, batch, grab, miscounted>>
  BY DEF JoinEnd, At, folioVars, hdrVars, heldVars, bioVars
<1>2. /\ at'[Owner].pc = "locked" /\ at'[Owner].abd = None
      /\ at'[Owner].folio = None /\ at'[Owner].spare = None
      /\ at'[Owner].todo = {} /\ at'[Owner].taken = {}
      /\ Only(Owner) /\ at' \in [Task -> AtState]
  <2>1. PICK e : e = [Rest EXCEPT !.pc = "locked"]
    OBVIOUS
  <2>2. /\ Rest \in AtState
        /\ "locked" \in Steps
    BY <1>1, Apart, RestTyped DEF IInv, Typed, AtState, Steps, Chunks
  <2>3. /\ e \in AtState
        /\ e.pc = "locked" /\ e.abd = None
        /\ e.folio = None /\ e.spare = None
        /\ e.todo = {} /\ e.taken = {}
    BY <2>1, <2>2, RestTyped DEF AtState
  <2>4. at' = [at EXCEPT ![Owner] = e]
    BY <2>1 DEF JoinEnd, Go, Finish
  <2>5. Owner \in Task
    BY Apart
  <2>6. at'[Owner] = e /\ Only(Owner) /\ at' \in [Task -> AtState]
    BY <2>3, <2>4, <2>5, Moves
  <2> QED
    BY <2>3, <2>6
<1>3. Typed'
  BY Apart, <1>1, <1>2 DEF IInv, Typed, AtState, Only
<1>4. HashOK'
  BY Apart, <1>1, <1>2 DEF IInv, HashOK, OwnerSteps, UserSteps, ReclaimerSteps, Taking,
     Freeing, Locking, Midway, Migrating, WriteSteps, Only, Joining
<1>5. InHand'
  BY Apart, <1>1, <1>2 DEF IInv, Typed, InHand, Taking, Midway, Only
<1>6. UseOK'
  BY Apart, <1>1, <1>2 DEF IInv, UseOK, At, Freeing, WriteSteps, Frees, Exists, Only,
       Joining
<1>7. BindingOK'
  BY Apart, <1>1, <1>2 DEF IInv, Typed, BindingOK, At, Only
<1>8. MtxOK'
  BY Apart, <1>1, <1>2 DEF IInv, Typed, MtxOK, MutexesOf, At, Frees, Exists, Only,
       Joining
<1>9. TakenOK'
  BY Apart, <1>1, <1>2 DEF IInv, TakenOK, TakenBy, At, HashOK, OwnerSteps,
     MigratorSteps, UserSteps, ReclaimerSteps, Taking, Freeing, Locking, Midway,
     Migrating, WriteSteps, InHand, Only, Joining
<1>10. Exact'
  BY <1>1, <1>2, Apart, CountsSame DEF Only, IInv, HashOK, InHand, OwnerSteps, Freeing,
     Midway, Joining
<1>11. /\ LockOK' /\ MappedOK' /\ PrivateOK' /\ ChunksOK'
       /\ FreerOK' /\ CopyOK' /\ UserOK'
  BY <1>1, <1>2, Apart, ChunksSame, CopySame, FreerSame, LockSame, MappedSame,
     PrivateSame, UserSame DEF Freeing, Joining
<1>12. GrabOK'
  BY <1>1, <1>2, Apart, GrabSame DEF Only
<1> QED
  BY <1>3, <1>4, <1>5, <1>6, <1>7, <1>8, <1>9, <1>10, <1>11, <1>12 DEF IInv

LEMMA EvictOK ==
  ASSUME Assumptions, IInv, Evict
  PROVE  IInv'
<1>1. /\ at[Owner].pc = "locked" /\ refcnt = 0
      /\ UNCHANGED <<sg, ref, lock, private, mapped, data>>
      /\ UNCHANGED <<joined, prelocked, mtx, arg, reclaiming>>
      /\ UNCHANGED <<hash, hdr, gone, resident, orphan, refcnt, writing>>
      /\ UNCHANGED <<bio, batch, grab, miscounted>>
  BY DEF Evict, At, folioVars, abdVars, hdrVars, heldVars, bioVars
<1>2. /\ at'[Owner].pc = "evict" /\ at'[Owner].abd = at[Owner].abd
      /\ at'[Owner].folio = at[Owner].folio /\ at'[Owner].spare = at[Owner].spare
      /\ at'[Owner].todo = at[Owner].todo /\ at'[Owner].taken = at[Owner].taken
      /\ Only(Owner) /\ at' \in [Task -> AtState]
  <2>1. PICK e : e = [at[Owner] EXCEPT !.pc = "evict"]
    OBVIOUS
  <2>2. /\ at[Owner] \in AtState
        /\ "evict" \in Steps
    BY <1>1, Apart, RestTyped DEF IInv, Typed, AtState, Steps, Chunks
  <2>3. /\ e \in AtState
        /\ e.pc = "evict" /\ e.abd = at[Owner].abd
        /\ e.folio = at[Owner].folio /\ e.spare = at[Owner].spare
        /\ e.todo = at[Owner].todo /\ e.taken = at[Owner].taken
    BY <2>1, <2>2, RestTyped DEF AtState
  <2>4. at' = [at EXCEPT ![Owner] = e]
    BY <2>1 DEF Evict, Go, Finish
  <2>5. Owner \in Task
    BY Apart
  <2>6. at'[Owner] = e /\ Only(Owner) /\ at' \in [Task -> AtState]
    BY <2>3, <2>4, <2>5, Moves
  <2> QED
    BY <2>3, <2>6
<1>3. Typed'
  BY <1>1, <1>2 DEF IInv, Typed, AtState, Only
<1>4. HashOK'
  BY Apart, <1>1, <1>2 DEF IInv, HashOK, OwnerSteps, MigratorSteps, UserSteps,
     ReclaimerSteps, Taking, Freeing, Locking, Midway, Migrating, WriteSteps, Only,
     Joining
<1>5. InHand'
  BY Apart, <1>1, <1>2 DEF IInv, Typed, InHand, At, Taking, Midway, Only
<1>6. UseOK'
  BY Apart, <1>1, <1>2 DEF IInv, UseOK, At, Freeing, WriteSteps, Frees, Exists, Only,
       Joining
<1>7. BindingOK'
  BY Apart, <1>1, <1>2 DEF IInv, BindingOK, At, Taking, Only
<1>8. Exact'
  BY <1>1, <1>2, Apart, CountsSame DEF Only, IInv, HashOK, InHand, OwnerSteps, Freeing,
     Midway, Joining
<1>9. /\ MtxOK' /\ LockOK' /\ MappedOK' /\ PrivateOK' /\ ChunksOK'
      /\ FreerOK' /\ TakenOK' /\ CopyOK' /\ UserOK'
  BY <1>1, <1>2, Apart, ChunksSame, CopySame, FreerSame, LockSame, MappedSame, MtxSame,
     PrivateSame, TakenSame, UserSame DEF Freeing, Taking, Joining
<1>10. GrabOK'
  BY <1>1, <1>2, Apart, GrabSame DEF Only
<1> QED
  BY <1>3, <1>4, <1>5, <1>6, <1>7, <1>8, <1>9, <1>10 DEF IInv

LEMMA EvictEndOK ==
  ASSUME Assumptions, IInv, EvictEnd
  PROVE  IInv'
<1>1. /\ at[Owner].pc = "evict" /\ resident = {}
      /\ UNCHANGED <<sg, ref, lock, private, mapped, data>>
      /\ UNCHANGED <<joined, prelocked, mtx, arg, reclaiming>>
      /\ UNCHANGED <<hash, hdr, gone, resident, orphan, refcnt, writing>>
      /\ UNCHANGED <<bio, batch, grab, miscounted>>
  BY DEF EvictEnd, At, folioVars, abdVars, hdrVars, heldVars, bioVars
<1>2. /\ at'[Owner].pc = "locked" /\ at'[Owner].abd = at[Owner].abd
      /\ at'[Owner].folio = at[Owner].folio /\ at'[Owner].spare = at[Owner].spare
      /\ at'[Owner].todo = at[Owner].todo /\ at'[Owner].taken = at[Owner].taken
      /\ Only(Owner) /\ at' \in [Task -> AtState]
  <2>1. PICK e : e = [at[Owner] EXCEPT !.pc = "locked"]
    OBVIOUS
  <2>2. /\ at[Owner] \in AtState
        /\ "locked" \in Steps
    BY <1>1, Apart, RestTyped DEF IInv, Typed, AtState, Steps, Chunks
  <2>3. /\ e \in AtState
        /\ e.pc = "locked" /\ e.abd = at[Owner].abd
        /\ e.folio = at[Owner].folio /\ e.spare = at[Owner].spare
        /\ e.todo = at[Owner].todo /\ e.taken = at[Owner].taken
    BY <2>1, <2>2, RestTyped DEF AtState
  <2>4. at' = [at EXCEPT ![Owner] = e]
    BY <2>1 DEF EvictEnd, Go, Finish
  <2>5. Owner \in Task
    BY Apart
  <2>6. at'[Owner] = e /\ Only(Owner) /\ at' \in [Task -> AtState]
    BY <2>3, <2>4, <2>5, Moves
  <2> QED
    BY <2>3, <2>6
<1>3. Typed'
  BY <1>1, <1>2 DEF IInv, Typed, AtState, Only
<1>4. HashOK'
  BY Apart, <1>1, <1>2 DEF IInv, Typed, HashOK, OwnerSteps, UserSteps, ReclaimerSteps,
     Taking, Freeing, Locking, Midway, Migrating, WriteSteps, Only, Joining
<1>5. InHand'
  BY Apart, <1>1, <1>2 DEF IInv, Typed, InHand, At, Taking, Midway, Only
<1>6. UseOK'
  BY Apart, <1>1, <1>2 DEF IInv, UseOK, At, Freeing, Frees, Exists, Only, Joining
<1>7. BindingOK'
  BY Apart, <1>1, <1>2 DEF IInv, BindingOK, At, Only
<1>8. Exact'
  BY <1>1, <1>2, Apart, CountsSame DEF Only, IInv, HashOK, InHand, OwnerSteps, Freeing,
     Midway, Joining
<1>9. /\ MtxOK' /\ LockOK' /\ MappedOK' /\ PrivateOK' /\ ChunksOK'
      /\ FreerOK' /\ TakenOK' /\ CopyOK' /\ UserOK'
  BY <1>1, <1>2, Apart, ChunksSame, CopySame, FreerSame, LockSame, MappedSame, MtxSame,
     PrivateSame, TakenSame, UserSame DEF Freeing, Taking, Joining
<1>10. GrabOK'
  BY <1>1, <1>2, Apart, GrabSame DEF Only
<1> QED
  BY <1>3, <1>4, <1>5, <1>6, <1>7, <1>8, <1>9, <1>10 DEF IInv

LEMMA MoveOK ==
  ASSUME Assumptions, IInv, NEW h \in Hdr, Move(h)
  PROVE  IInv'
<1>1. /\ at[Owner].pc = "locked" /\ h # hdr /\ hdr' = h /\ gone' = gone \ {h}
      /\ UNCHANGED <<sg, ref, lock, private, mapped, data>>
      /\ UNCHANGED <<joined, prelocked, mtx, arg, reclaiming>>
      /\ UNCHANGED <<hash, resident, orphan, refcnt, writing, bio, batch, grab,
                       miscounted>>
  BY DEF Move, MoveBinding, At, folioVars, abdVars, heldVars, bioVars
<1>2. /\ at'[Owner].pc = "rebind" /\ at'[Owner].abd = at[Owner].abd
      /\ at'[Owner].folio = at[Owner].folio /\ at'[Owner].spare = hdr
      /\ at'[Owner].todo = resident \cap joined /\ at'[Owner].taken = at[Owner].taken
      /\ Only(Owner) /\ at' \in [Task -> AtState]
  <2>1. PICK e : e = [at[Owner] EXCEPT !.pc = "rebind", !.spare = hdr,
                                !.todo = resident \cap joined]
    OBVIOUS
  <2>2. /\ at[Owner] \in AtState
        /\ "rebind" \in Steps
        /\ hdr \in Folio \cup Hdr \cup {None}
        /\ resident \cap joined \subseteq Chunk \cup Abd
    BY <1>1, Apart, RestTyped DEF IInv, Typed, AtState, Steps, Chunks
  <2>3. /\ e \in AtState
        /\ e.pc = "rebind" /\ e.abd = at[Owner].abd
        /\ e.folio = at[Owner].folio /\ e.spare = hdr
        /\ e.todo = resident \cap joined /\ e.taken = at[Owner].taken
    BY <2>1, <2>2, RestTyped DEF AtState
  <2>4. at' = [at EXCEPT ![Owner] = e]
    BY <2>1 DEF Move, MoveBinding, Go, Finish
  <2>5. Owner \in Task
    BY Apart
  <2>6. at'[Owner] = e /\ Only(Owner) /\ at' \in [Task -> AtState]
    BY <2>3, <2>4, <2>5, Moves
  <2> QED
    BY <2>3, <2>6
<1>3. Typed'
  BY <1>1, <1>2 DEF IInv, Typed, AtState, Only
<1>4. HashOK'
  BY Apart, <1>1, <1>2 DEF IInv, Typed, HashOK, OwnerSteps, UserSteps, ReclaimerSteps,
     Taking, Freeing, Locking, Midway, Migrating, WriteSteps, Only, Joining
<1>5. InHand'
  BY Apart, <1>1, <1>2 DEF IInv, Typed, InHand, At, Taking, Midway, Only
<1>6. UseOK'
  BY Apart, <1>1, <1>2 DEF IInv, UseOK, At, Freeing, Frees, Exists, Only, Joining
<1>7. BindingOK'
  BY Apart, <1>1, <1>2 DEF IInv, Typed, BindingOK, At, Taking, HashOK, OwnerSteps,
     MigratorSteps, UserSteps, ReclaimerSteps, Only, Joining
<1>8. CopyOK'
  BY Apart, <1>1, <1>2 DEF IInv, CopyOK, At, Only
<1>9. Exact'
  BY <1>1, <1>2, Apart, CountsSame DEF Only, IInv, HashOK, InHand, OwnerSteps, Freeing,
     Midway, Joining
<1>10. /\ MtxOK' /\ LockOK' /\ MappedOK' /\ PrivateOK'
       /\ ChunksOK' /\ FreerOK' /\ TakenOK' /\ UserOK'
  BY <1>1, <1>2, Apart, ChunksSame, FreerSame, LockSame, MappedSame, MtxSame,
     PrivateSame, TakenSame, UserSame DEF Freeing, Taking, Joining
<1>11. GrabOK'
  BY <1>1, <1>2, Apart, GrabSame DEF Only
<1> QED
  BY <1>3, <1>4, <1>5, <1>6, <1>7, <1>8, <1>9, <1>10, <1>11 DEF IInv

LEMMA RebindOK ==
  ASSUME Assumptions, IInv, NEW a \in Abd, Rebind(a)
  PROVE  IInv'
<1>1. /\ at[Owner].pc = "rebind" /\ a \in at[Owner].todo
      /\ arg' = [arg EXCEPT ![a] = hdr]
      /\ UNCHANGED <<sg, ref, lock, private, mapped, data>>
      /\ UNCHANGED <<hash, hdr, gone, resident, orphan, refcnt, writing>>
      /\ UNCHANGED <<joined, prelocked, mtx, reclaiming, bio, batch, grab, miscounted>>
  BY DEF Rebind, At, folioVars, hdrVars, heldVars, bioVars
<1>2. /\ at'[Owner].pc = at[Owner].pc /\ at'[Owner].abd = at[Owner].abd
      /\ at'[Owner].folio = at[Owner].folio /\ at'[Owner].spare = at[Owner].spare
      /\ at'[Owner].todo = at[Owner].todo \ {a} /\ at'[Owner].taken = at[Owner].taken
      /\ Only(Owner) /\ at' \in [Task -> AtState]
  <2>1. PICK e : e = [at[Owner] EXCEPT !.todo = at[Owner].todo \ {a}]
    OBVIOUS
  <2>2. /\ at[Owner] \in AtState
        /\ at[Owner].todo \ {a} \subseteq Chunk \cup Abd
    BY <1>1, Apart, RestTyped DEF IInv, Typed, AtState, Steps, Chunks
  <2>3. /\ e \in AtState
        /\ e.pc = at[Owner].pc /\ e.abd = at[Owner].abd
        /\ e.folio = at[Owner].folio /\ e.spare = at[Owner].spare
        /\ e.todo = at[Owner].todo \ {a} /\ e.taken = at[Owner].taken
    BY <2>1, <2>2, RestTyped DEF AtState
  <2>4. at' = [at EXCEPT ![Owner] = e]
    BY <2>1 DEF Rebind, Go, Finish
  <2>5. Owner \in Task
    BY Apart
  <2>6. at'[Owner] = e /\ Only(Owner) /\ at' \in [Task -> AtState]
    BY <2>3, <2>4, <2>5, Moves
  <2> QED
    BY <2>3, <2>6
<1>3. Typed'
  BY <1>1, <1>2 DEF IInv, Typed, AtState, Only
<1>4. HashOK'
  BY Apart, <1>1, <1>2 DEF IInv, HashOK, Only
<1>5. InHand'
  BY Apart, <1>1, <1>2 DEF IInv, Typed, InHand, At, Taking, Midway, Only
<1>6. UseOK'
  BY Apart, <1>1, <1>2 DEF IInv, UseOK, At, WriteSteps, Frees, Exists, Only, Joining
<1>7. BindingOK'
  BY Apart, <1>1, <1>2 DEF IInv, Typed, BindingOK, At, Only
<1>8. Exact'
  BY <1>1, <1>2, Apart, CountsSame DEF Only, IInv, HashOK, InHand, OwnerSteps, Freeing,
     Midway, Joining
<1>9. /\ MtxOK' /\ LockOK' /\ MappedOK' /\ PrivateOK' /\ ChunksOK'
      /\ FreerOK' /\ TakenOK' /\ CopyOK' /\ UserOK'
  BY <1>1, <1>2, Apart, ChunksSame, CopySame, FreerSame, LockSame, MappedSame, MtxSame,
     PrivateSame, TakenSame, UserSame DEF Freeing, Taking, Joining
<1>10. GrabOK'
  BY <1>1, <1>2, Apart, GrabSame DEF Only
<1> QED
  BY <1>3, <1>4, <1>5, <1>6, <1>7, <1>8, <1>9, <1>10 DEF IInv

LEMMA MoveEndOK ==
  ASSUME Assumptions, IInv, MoveEnd
  PROVE  IInv'
<1>1. /\ at[Owner].pc = "rebind" /\ at[Owner].todo = {}
      /\ gone' = gone \cup {at[Owner].spare} /\ hash' = None
      /\ UNCHANGED <<sg, ref, lock, private, mapped, data>>
      /\ UNCHANGED <<joined, prelocked, mtx, arg, reclaiming>>
      /\ UNCHANGED <<hdr, resident, orphan, refcnt, writing, bio, batch, grab,
                       miscounted>>
  BY DEF MoveEnd, At, folioVars, abdVars, heldVars, bioVars
<1>2. /\ at'[Owner].pc = "idle" /\ at'[Owner].abd = None
      /\ at'[Owner].folio = None /\ at'[Owner].spare = None
      /\ at'[Owner].todo = {} /\ at'[Owner].taken = {}
      /\ Only(Owner) /\ at' \in [Task -> AtState]
  <2>1. PICK e : e = Rest
    OBVIOUS
  <2>2. /\ Rest \in AtState
    BY <1>1, Apart, RestTyped DEF IInv, Typed, AtState, Steps, Chunks
  <2>3. /\ e \in AtState
        /\ e.pc = "idle" /\ e.abd = None
        /\ e.folio = None /\ e.spare = None
        /\ e.todo = {} /\ e.taken = {}
    BY <2>1, <2>2, RestTyped DEF AtState
  <2>4. at' = [at EXCEPT ![Owner] = e]
    BY <2>1 DEF MoveEnd, Go, Finish
  <2>5. Owner \in Task
    BY Apart
  <2>6. at'[Owner] = e /\ Only(Owner) /\ at' \in [Task -> AtState]
    BY <2>3, <2>4, <2>5, Moves
  <2> QED
    BY <2>3, <2>6
<1>3. Typed'
  BY <1>1, <1>2 DEF IInv, Typed, AtState, Only, BindingOK, At
<1>4. HashOK'
  BY Apart, <1>1, <1>2 DEF IInv, HashOK, OwnerSteps, UserSteps, ReclaimerSteps, Taking,
     Freeing, Locking, Midway, Migrating, WriteSteps, Only, Joining
<1>5. InHand'
  BY Apart, <1>1, <1>2 DEF IInv, Typed, InHand, At, Taking, Midway, Only
<1>6. UseOK'
  BY Apart, <1>1, <1>2 DEF IInv, UseOK, At, Freeing, WriteSteps, Frees, Exists, Only,
       Joining
<1>7. BindingOK'
  BY Apart, <1>1, <1>2 DEF IInv, BindingOK, At, Only
<1>8. MtxOK'
  BY Apart, <1>1, <1>2 DEF IInv, Typed, MtxOK, MutexesOf, At, Freeing, Taking, Frees,
     Exists, HashOK, OwnerSteps, MigratorSteps, UserSteps, ReclaimerSteps, Locking,
     Midway, Migrating, WriteSteps, Only, Joining
<1>9. Exact'
  BY <1>1, <1>2, Apart, CountsSame DEF Only, IInv, HashOK, InHand, OwnerSteps, Freeing,
     Midway, Joining
<1>10. /\ LockOK' /\ MappedOK' /\ PrivateOK' /\ ChunksOK'
       /\ FreerOK' /\ TakenOK' /\ CopyOK' /\ UserOK'
  BY <1>1, <1>2, Apart, ChunksSame, CopySame, FreerSame, LockSame, MappedSame,
     PrivateSame, TakenSame, UserSame DEF Freeing, Taking, Joining
<1>11. GrabOK'
  BY <1>1, <1>2, Apart, GrabSame DEF Only
<1> QED
  BY <1>3, <1>4, <1>5, <1>6, <1>7, <1>8, <1>9, <1>10, <1>11 DEF IInv

LEMMA TouchOK ==
  ASSUME Assumptions, IInv, NEW c \in Chunk, Touch(c)
  PROVE  IInv'
<1>1. /\ at[Owner].pc = "locked"
      /\ UNCHANGED <<sg, ref, lock, private, mapped, data>>
      /\ UNCHANGED <<joined, prelocked, mtx, arg, reclaiming>>
      /\ UNCHANGED <<hash, hdr, gone, resident, orphan, refcnt, writing>>
      /\ UNCHANGED <<bio, batch, grab, miscounted>>
  BY DEF Touch, At, folioVars, abdVars, hdrVars, heldVars, bioVars
<1>2. /\ at'[Owner].pc = "touch" /\ at'[Owner].abd = at[Owner].abd
      /\ at'[Owner].folio = at[Owner].folio /\ at'[Owner].spare = at[Owner].spare
      /\ at'[Owner].todo = {c} /\ at'[Owner].taken = at[Owner].taken
      /\ Only(Owner) /\ at' \in [Task -> AtState]
  <2>1. PICK e : e = [at[Owner] EXCEPT !.pc = "touch", !.todo = {c}]
    OBVIOUS
  <2>2. /\ at[Owner] \in AtState
        /\ "touch" \in Steps
        /\ {c} \subseteq Chunk \cup Abd
    BY <1>1, Apart, RestTyped DEF IInv, Typed, AtState, Steps, Chunks
  <2>3. /\ e \in AtState
        /\ e.pc = "touch" /\ e.abd = at[Owner].abd
        /\ e.folio = at[Owner].folio /\ e.spare = at[Owner].spare
        /\ e.todo = {c} /\ e.taken = at[Owner].taken
    BY <2>1, <2>2, RestTyped DEF AtState
  <2>4. at' = [at EXCEPT ![Owner] = e]
    BY <2>1 DEF Touch
  <2>5. Owner \in Task
    BY Apart
  <2>6. at'[Owner] = e /\ Only(Owner) /\ at' \in [Task -> AtState]
    BY <2>3, <2>4, <2>5, Moves
  <2> QED
    BY <2>3, <2>6
<1>3. Typed'
  BY <1>1, <1>2 DEF IInv, Typed, AtState, Only
<1>4. HashOK'
  BY Apart, <1>1, <1>2 DEF IInv, HashOK, OwnerSteps, MigratorSteps, UserSteps,
     ReclaimerSteps, Taking, Freeing, Joining, Locking, Midway, Migrating, WriteSteps,
     Only
<1>5. InHand'
  BY Apart, <1>1, <1>2 DEF IInv, InHand, At, Taking, Midway, Only
<1>6. UseOK'
  BY Apart, <1>1, <1>2 DEF IInv, UseOK, At, Freeing, Joining, WriteSteps, Frees,
       Exists, Only
<1>7. BindingOK'
  BY Apart, <1>1, <1>2 DEF IInv, BindingOK, At, Only
<1>8. Exact'
  BY <1>1, <1>2, Apart, CountsSame DEF Only, IInv, Midway
<1>9. /\ MtxOK' /\ LockOK' /\ MappedOK' /\ PrivateOK' /\ ChunksOK'
      /\ FreerOK' /\ TakenOK' /\ CopyOK' /\ UserOK'
  BY <1>1, <1>2, Apart, ChunksSame, CopySame, FreerSame, LockSame, MappedSame, MtxSame,
     PrivateSame, TakenSame, UserSame DEF Freeing, Joining, Taking
<1>10. GrabOK'
  BY <1>1, <1>2, Apart, GrabSame
<1> QED
  BY <1>3, <1>4, <1>5, <1>6, <1>7, <1>8, <1>9, <1>10 DEF IInv

LEMMA TouchGrabOK ==
  ASSUME Assumptions, IInv, NEW c \in Chunk, TouchGrab(c)
  PROVE  IInv'
<1>1. /\ at[Owner].pc = "touch" /\ Grabbed(Owner, c) /\ Take(Owner)
      /\ UNCHANGED <<sg, ref, lock, private, mapped, data>>
      /\ UNCHANGED <<joined, prelocked, mtx, arg, reclaiming>>
      /\ UNCHANGED <<hash, hdr, gone, resident, orphan, refcnt, writing>>
      /\ UNCHANGED <<bio, batch, miscounted>>
  BY DEF TouchGrab, At, folioVars, abdVars, hdrVars, heldVars, bioVars
<1>2. /\ at'[Owner].pc = "touched" /\ at'[Owner].abd = at[Owner].abd
      /\ at'[Owner].folio = sg[c] /\ at'[Owner].spare = at[Owner].spare
      /\ at'[Owner].todo = at[Owner].todo /\ at'[Owner].taken = at[Owner].taken
      /\ Only(Owner) /\ at' \in [Task -> AtState]
  <2>1. PICK e : e = [at[Owner] EXCEPT !.pc = "touched", !.folio = sg[c]]
    OBVIOUS
  <2>2. /\ at[Owner] \in AtState
        /\ "touched" \in Steps
        /\ sg[c] \in Folio \cup {None}
    BY <1>1, Apart, RestTyped DEF IInv, Typed, AtState, Steps, Chunks
  <2>3. /\ e \in AtState
        /\ e.pc = "touched" /\ e.abd = at[Owner].abd
        /\ e.folio = sg[c] /\ e.spare = at[Owner].spare
        /\ e.todo = at[Owner].todo /\ e.taken = at[Owner].taken
    BY <2>1, <2>2, RestTyped DEF AtState
  <2>4. at' = [at EXCEPT ![Owner] = e]
    BY <2>1 DEF TouchGrab
  <2>5. Owner \in Task
    BY Apart
  <2>6. at'[Owner] = e /\ Only(Owner) /\ at' \in [Task -> AtState]
    BY <2>3, <2>4, <2>5, Moves
  <2> QED
    BY <2>3, <2>6
<1>a. /\ grab[Owner].held /\ grab[Owner].folio = sg[c] /\ sg[c] \in Folio
      /\ grab'[Owner] = Idle /\ grab' \in [Task -> GrabState]
      /\ \A u \in Task \ {Owner} : grab'[u] = grab[u]
  BY <1>1, Apart, Grabbing
<1>3. Typed'
  BY <1>1, <1>2, <1>a DEF IInv, Typed, AtState, Only
<1>4. HashOK'
  BY Apart, <1>1, <1>2 DEF IInv, HashOK, OwnerSteps, MigratorSteps, UserSteps,
     ReclaimerSteps, Taking, Freeing, Joining, Locking, Midway, Migrating, WriteSteps,
     Only
<1>5. InHand'
  BY Apart, <1>1, <1>2, <1>a DEF IInv, Typed, InHand, At, Midway, Only
<1>6. UseOK'
  BY Apart, <1>1, <1>2, <1>a DEF IInv, UseOK, At, Freeing, Joining, Frees, Exists, Only
<1>7. BindingOK'
  BY Apart, <1>1, <1>2 DEF IInv, Typed, BindingOK, At, Only
<1>8. CopyOK'
  BY Apart, <1>1, <1>2, <1>a DEF IInv, CopyOK, At, Only
<1>9. Exact'
  <2>1. \A f \in Folio : Several(f)' = Several(f) - One(f = sg[c])
    BY <1>1, <1>2, <1>a, Apart, LookerDone
  <2>2. \A f \in Folio : Single(f)' = Single(f) + One(f = sg[c])
    BY <1>1, <1>2, <1>a, Apart DEF Single, CacheRefs, ChunkRefs, OwnerRefs, One, Named,
         At,
         Only, Task, IInv, InHand
  <2>3. ASSUME NEW f \in Folio PROVE ref'[f] = Holders(f)'
    BY <1>1, <1>a, <2>1, <2>2, HoldersAre, Apart DEF IInv, Typed, Exact, One
  <2> QED
    BY <2>3 DEF Exact
<1>10. /\ MtxOK' /\ LockOK' /\ MappedOK' /\ PrivateOK'
       /\ ChunksOK' /\ FreerOK' /\ TakenOK' /\ UserOK'
  BY <1>1, <1>2, Apart, ChunksSame, FreerSame, LockSame, MappedSame, MtxSame,
     PrivateSame, TakenSame, UserSame DEF Freeing, Taking, Joining
<1>11. GrabOK'
  BY <1>2, <1>a, Apart, GrabbedSame
<1> QED
  BY <1>3, <1>4, <1>5, <1>6, <1>7, <1>8, <1>9, <1>10, <1>11 DEF IInv

LEMMA TouchEndOK ==
  ASSUME Assumptions, IInv, TouchEnd
  PROVE  IInv'
<1>1. /\ at[Owner].pc = "touched" /\ at[Owner].folio \in Folio
      /\ ref' = [ref EXCEPT ![at[Owner].folio] = @ - 1]
      /\ UNCHANGED <<sg, lock, private, mapped, data>>
      /\ UNCHANGED <<joined, prelocked, mtx, arg, reclaiming>>
      /\ UNCHANGED <<hash, hdr, gone, resident, orphan, refcnt, writing>>
      /\ UNCHANGED <<bio, batch, grab, miscounted>>
  BY Apart DEF TouchEnd, Put, At, abdVars, hdrVars, IInv, Typed, AtState, InHand,
  heldVars, bioVars
<1>2. /\ at'[Owner].pc = "locked" /\ at'[Owner].abd = None
      /\ at'[Owner].folio = None /\ at'[Owner].spare = None
      /\ at'[Owner].todo = {} /\ at'[Owner].taken = {}
      /\ Only(Owner) /\ at' \in [Task -> AtState]
  <2>1. PICK e : e = [Rest EXCEPT !.pc = "locked"]
    OBVIOUS
  <2>2. /\ Rest \in AtState
        /\ "locked" \in Steps
    BY <1>1, Apart, RestTyped DEF IInv, Typed, AtState, Steps, Chunks
  <2>3. /\ e \in AtState
        /\ e.pc = "locked" /\ e.abd = None
        /\ e.folio = None /\ e.spare = None
        /\ e.todo = {} /\ e.taken = {}
    BY <2>1, <2>2, RestTyped DEF AtState
  <2>4. at' = [at EXCEPT ![Owner] = e]
    BY <2>1 DEF TouchEnd, Go, Finish
  <2>5. Owner \in Task
    BY Apart
  <2>6. at'[Owner] = e /\ Only(Owner) /\ at' \in [Task -> AtState]
    BY <2>3, <2>4, <2>5, Moves
  <2> QED
    BY <2>3, <2>6
<1>3. Typed'
  BY Apart, <1>1, <1>2 DEF IInv, Typed, AtState, Only
<1>4. HashOK'
  BY Apart, <1>1, <1>2 DEF IInv, HashOK, OwnerSteps, UserSteps, ReclaimerSteps, Taking,
     Freeing, Locking, Midway, Migrating, WriteSteps, Only, Joining
<1>5. InHand'
  BY Apart, <1>1, <1>2 DEF IInv, InHand, At, Taking, Midway, Only
<1>6. UseOK'
  BY Apart, <1>1, <1>2 DEF IInv, Typed, UseOK, At, Freeing, WriteSteps, Frees, Exists,
     Only, Joining
<1>7. BindingOK'
  BY Apart, <1>1, <1>2 DEF IInv, Typed, BindingOK, At, Only
<1>8. Exact'
  <2>1. \A f \in Folio : Several(f)' = Several(f) 
    BY <1>1, <1>2, Apart, SeveralSameFor
  <2>2. \A f \in Folio : Single(f)' = Single(f) - One(f = at[Owner].folio)
    BY <1>1, <1>2, Apart DEF Single, CacheRefs, ChunkRefs, OwnerRefs, One, Named, At,
         Only, Task, IInv, InHand
  <2>3. ASSUME NEW f \in Folio PROVE ref'[f] = Holders(f)'
    BY <1>1, <2>1, <2>2, HoldersAre, Apart DEF IInv, Typed, Exact, One
  <2> QED
    BY <2>3 DEF Exact
<1>9. /\ MtxOK' /\ LockOK' /\ MappedOK' /\ PrivateOK' /\ ChunksOK'
      /\ FreerOK' /\ TakenOK' /\ CopyOK' /\ UserOK'
  BY <1>1, <1>2, Apart, ChunksSame, CopySame, FreerSame, LockSame, MappedSame, MtxSame,
     PrivateSame, TakenSame, UserSame DEF Freeing, Taking, Joining
<1>10. GrabOK'
  BY <1>1, <1>2, Apart, GrabSame DEF Only
<1> QED
  BY <1>3, <1>4, <1>5, <1>6, <1>7, <1>8, <1>9, <1>10 DEF IInv

LEMMA JoinAddOK ==
  ASSUME Assumptions, IInv, JoinAdd
  PROVE  IInv'
<1>1. /\ at[Owner].pc = "add"
      /\ ref' = [ref EXCEPT ![at[Owner].folio] = @ + Pages]
      /\ lock' = [lock EXCEPT ![at[Owner].folio] = Owner]
      /\ mapped' = mapped \cup {at[Owner].folio}
      /\ UNCHANGED <<sg, private, data>>
      /\ UNCHANGED <<joined, prelocked, mtx, arg, reclaiming>>
      /\ UNCHANGED <<hash, hdr, gone, resident, orphan, refcnt, writing>>
      /\ UNCHANGED <<bio, batch, grab, miscounted>>
  BY DEF JoinAdd, At, abdVars, hdrVars, heldVars, bioVars
<1>2. /\ at'[Owner].pc = "joined" /\ at'[Owner].abd = at[Owner].abd
      /\ at'[Owner].folio = at[Owner].folio /\ at'[Owner].spare = at[Owner].spare
      /\ at'[Owner].todo = at[Owner].todo /\ at'[Owner].taken = at[Owner].taken
      /\ Only(Owner) /\ at' \in [Task -> AtState]
  <2>1. PICK e : e = [at[Owner] EXCEPT !.pc = "joined"]
    OBVIOUS
  <2>2. /\ at[Owner] \in AtState
        /\ "joined" \in Steps
    BY <1>1, Apart, RestTyped DEF IInv, Typed, AtState, Steps, Chunks
  <2>3. /\ e \in AtState
        /\ e.pc = "joined" /\ e.abd = at[Owner].abd
        /\ e.folio = at[Owner].folio /\ e.spare = at[Owner].spare
        /\ e.todo = at[Owner].todo /\ e.taken = at[Owner].taken
    BY <2>1, <2>2, RestTyped DEF AtState
  <2>4. at' = [at EXCEPT ![Owner] = e]
    BY <2>1 DEF JoinAdd, Go
  <2>5. Owner \in Task
    BY Apart
  <2>6. at'[Owner] = e /\ Only(Owner) /\ at' \in [Task -> AtState]
    BY <2>3, <2>4, <2>5, Moves
  <2> QED
    BY <2>3, <2>6
<1>a. /\ at[Owner].folio \in Folio /\ at[Owner].folio \notin mapped
      /\ private[at[Owner].folio] = at[Owner].abd
      /\ at[Owner].abd \in resident \cap joined /\ at[Owner].abd \in Abd
      /\ \A c \in at[Owner].todo : c \in Chunk /\ sg[c] # at[Owner].folio
      /\ lock[at[Owner].folio] = None
  BY <1>1, Added
<1>b. /\ at[Owner].folio # at[Migrator].spare /\ at[Owner].folio # at[Migrator].folio
      /\ \A r \in Reclaimer : at[Owner].folio # at[r].folio /\ at[Owner].folio # batch[r]
      /\ \A r \in Reclaimer : at[Owner].folio \notin at[r].taken
      /\ \E c \in Chunk : /\ sg[c] = at[Owner].folio /\ AbdOf[c] = at[Owner].abd
                           /\ data[at[Owner].folio] = c /\ c \notin at[Owner].todo
  BY <1>1, Added
<1>3. Typed'
  BY Apart, <1>1, <1>2, <1>a DEF IInv, Typed, AtState, Only
<1>4. HashOK'
  BY Apart, <1>1, <1>2 DEF IInv, HashOK, OwnerSteps, MigratorSteps, UserSteps,
     ReclaimerSteps, Taking, Freeing, Locking, Midway, Migrating, WriteSteps, Only,
     Joining
<1>5. InHand'
  BY Apart, <1>1, <1>2, <1>a DEF IInv, InHand, At, Taking, Midway, Only
<1>6. UseOK'
  BY Apart, <1>1, <1>2 DEF IInv, UseOK, At, Freeing, WriteSteps, Frees, Exists, Only,
       Joining
<1>7. BindingOK'
  BY Apart, <1>1, <1>2 DEF IInv, BindingOK, At, Only
<1>8. MtxOK'
  BY Apart, <1>1, <1>2 DEF IInv, MtxOK, MutexesOf, At, Freeing, Taking, Frees, Exists,
     Only, Joining
<1>9. LockOK'
  BY Apart, <1>1, <1>2, <1>a, <1>b DEF IInv, Typed, LockOK, At, Locking, Taking, Only
<1>10. MappedOK'
  BY Apart, <1>1, <1>2, <1>a, <1>b DEF IInv, Typed, MappedOK, Only
<1>11. PrivateOK'
  BY Apart, <1>1, <1>2, <1>a, <1>b DEF IInv, Typed, PrivateOK, At, Repointed, Only
<1>12. ChunksOK'
  BY Apart, <1>1, <1>2, <1>a DEF IInv, Typed, ChunksOK, ChunkOK, At, Freeing, Exists,
     Only, Joining
<1>13. FreerOK'
  BY Apart, <1>1, <1>2, <1>a DEF IInv, Typed, FreerOK, At, Freeing, WriteSteps, InHand,
     LockOK, MappedOK, ChunksOK, ChunkOK, Exists, Only, Joining
<1>14. CopyOK'
  BY Apart, <1>1, <1>2, <1>a DEF IInv, Typed, CopyOK, At, Only
<1>15. Exact'
  <2>1. \A f \in Folio : Several(f)' = Several(f) 
    BY <1>1, <1>2, Apart, SeveralSameFor
  <2>2. \A f \in Folio : Single(f)' = Single(f) + (IF f = at[Owner].folio THEN Pages ELSE 0)
    BY <1>1, <1>2, <1>a, <1>b, Apart DEF Single, CacheRefs, ChunkRefs, OwnerRefs, One,
         Named,
       At, Only, Task, IInv, InHand, Typed, AtState
  <2>3. ASSUME NEW f \in Folio PROVE ref'[f] = Holders(f)'
    BY <1>1, <1>a, <2>1, <2>2, HoldersAre, Apart DEF IInv, Typed, Exact, One
  <2> QED
    BY <2>3 DEF Exact
<1>16. TakenOK' /\ UserOK'
  BY <1>1, <1>2, Apart, TakenSame, UserSame DEF Taking
<1>17. GrabOK'
  BY <1>1, <1>2, Apart, GrabSame DEF Only
<1> QED
  BY <1>3, <1>4, <1>5, <1>6, <1>7, <1>8, <1>9, <1>10, <1>11, <1>12, <1>13, <1>14, <1>15,
     <1>16, <1>17 DEF IInv

LEMMA JoinAddedOK ==
  ASSUME Assumptions, IInv, JoinAdded
  PROVE  IInv'
<1>1. /\ at[Owner].pc = "joined" /\ at[Owner].folio \in Folio
      /\ lock' = [lock EXCEPT ![at[Owner].folio] = None]
      /\ ref' = [ref EXCEPT ![at[Owner].folio] = @ - 1]
      /\ UNCHANGED <<sg, private, mapped, data>>
      /\ UNCHANGED <<joined, prelocked, mtx, arg, reclaiming>>
      /\ UNCHANGED <<hash, hdr, gone, resident, orphan, refcnt, writing>>
      /\ UNCHANGED <<bio, batch, grab, miscounted>>
  BY Apart DEF JoinAdded, Put, At, abdVars, hdrVars, IInv, Typed, AtState, InHand,
  heldVars, bioVars
<1>2. /\ at'[Owner].pc = "join" /\ at'[Owner].abd = at[Owner].abd
      /\ at'[Owner].folio = None /\ at'[Owner].spare = at[Owner].spare
      /\ at'[Owner].todo = at[Owner].todo /\ at'[Owner].taken = at[Owner].taken
      /\ Only(Owner) /\ at' \in [Task -> AtState]
  <2>1. PICK e : e = [at[Owner] EXCEPT !.pc = "join", !.folio = None]
    OBVIOUS
  <2>2. /\ at[Owner] \in AtState
        /\ "join" \in Steps
        /\ None \in Folio \cup {None}
    BY <1>1, Apart, RestTyped DEF IInv, Typed, AtState, Steps, Chunks
  <2>3. /\ e \in AtState
        /\ e.pc = "join" /\ e.abd = at[Owner].abd
        /\ e.folio = None /\ e.spare = at[Owner].spare
        /\ e.todo = at[Owner].todo /\ e.taken = at[Owner].taken
    BY <2>1, <2>2, RestTyped DEF AtState
  <2>4. at' = [at EXCEPT ![Owner] = e]
    BY <2>1 DEF JoinAdded, Go, Finish
  <2>5. Owner \in Task
    BY Apart
  <2>6. at'[Owner] = e /\ Only(Owner) /\ at' \in [Task -> AtState]
    BY <2>3, <2>4, <2>5, Moves
  <2> QED
    BY <2>3, <2>6
<1>3. Typed'
  BY <1>1, <1>2 DEF IInv, Typed, AtState, Only
<1>4. HashOK'
  BY Apart, <1>1, <1>2 DEF IInv, Typed, HashOK, OwnerSteps, UserSteps, ReclaimerSteps,
     Locking, Midway, Migrating, WriteSteps, Only, Joining
<1>5. InHand'
  BY Apart, <1>1, <1>2 DEF IInv, InHand, At, Midway, Only
<1>6. UseOK'
  BY Apart, <1>1, <1>2 DEF IInv, Typed, UseOK, At, Freeing, Frees, Exists, Only, Joining
<1>7. BindingOK'
  BY Apart, <1>1, <1>2 DEF IInv, Typed, BindingOK, At, Only
<1>8. MtxOK'
  BY Apart, <1>1, <1>2 DEF IInv, MtxOK, MutexesOf, At, Frees, Exists, Only, Joining
<1>9. LockOK'
  BY Apart, <1>1, <1>2 DEF IInv, Typed, LockOK, At, Only
<1>10. FreerOK'
  BY Apart, <1>1, <1>2 DEF IInv, Typed, FreerOK, At, Freeing, Only, Joining
<1>11. Exact'
  <2>1. \A f \in Folio : Several(f)' = Several(f) 
    BY <1>1, <1>2, Apart, SeveralSameFor
  <2>2. \A f \in Folio : Single(f)' = Single(f) - One(f = at[Owner].folio)
    BY <1>1, <1>2, Apart DEF Single, CacheRefs, ChunkRefs, OwnerRefs, One, Named, At,
         Only, Task, IInv, InHand, MappedOK
  <2>3. ASSUME NEW f \in Folio PROVE ref'[f] = Holders(f)'
    BY <1>1, <2>1, <2>2, HoldersAre, Apart DEF IInv, Typed, Exact, One
  <2> QED
    BY <2>3 DEF Exact
<1>12. MappedOK' /\ PrivateOK' /\ ChunksOK' /\ TakenOK' /\ CopyOK' /\ UserOK'
  BY <1>1, <1>2, Apart, ChunksSame, CopySame, MappedSame, PrivateSame, TakenSame,
     UserSame DEF Freeing, Taking, Joining
<1>13. GrabOK'
  BY <1>1, <1>2, Apart, GrabSame DEF Only
<1> QED
  BY <1>3, <1>4, <1>5, <1>6, <1>7, <1>8, <1>9, <1>10, <1>11, <1>12, <1>13 DEF IInv

LEMMA FreeOnWriteOK ==
  ASSUME Assumptions, IInv, NEW a \in Abd, FreeOnWrite(a)
  PROVE  IInv'
<1>1. /\ at[Owner].pc = "evict" /\ a \in resident /\ writing /\ mtx[a] = None
      /\ arg' = [arg EXCEPT ![a] = None]
      /\ resident' = resident \ {a} /\ orphan' = orphan \cup {a}
      /\ UNCHANGED <<sg, ref, lock, private, mapped, data>>
      /\ UNCHANGED <<joined, prelocked, mtx, reclaiming>>
      /\ UNCHANGED <<hash, hdr, gone, refcnt, writing>>
      /\ UNCHANGED <<bio, batch, grab, miscounted, at>>
  BY DEF FreeOnWrite, At, folioVars, heldVars, bioVars
<1>2. Typed'
  BY <1>1 DEF IInv, Typed, AtState, Only
<1>3. HashOK'
  BY <1>1 DEF IInv, Typed, HashOK, Only
<1>4. InHand'
  BY Apart, <1>1 DEF IInv, Typed, InHand, At, Taking, Midway, Only
<1>5. UseOK'
  BY <1>1 DEF IInv, UseOK, At, WriteSteps, Frees, Exists, Only, Joining
<1>6. BindingOK'
  BY Apart, <1>1 DEF IInv, Typed, BindingOK, At, Taking, HashOK, OwnerSteps,
     MigratorSteps, UserSteps, ReclaimerSteps, Only, Joining
<1>7. MtxOK'
  BY Apart, <1>1 DEF IInv, Typed, MtxOK, MutexesOf, At, Freeing, Taking, Frees, Exists,
     Only, Joining
<1>8. LockOK'
  BY <1>1 DEF IInv, Typed, LockOK, At, Migrating, Midway, Locking, Taking, Only
<1>9. MappedOK'
  BY <1>1 DEF IInv, Typed, MappedOK, At, Midway, Locking, Taking, Only
<1>10. PrivateOK'
  BY Apart, <1>1 DEF IInv, Typed, PrivateOK, At, Repointed, Taking, Only
<1>11. ChunksOK'
  BY <1>1 DEF IInv, ChunksOK, ChunkOK, At, Exists, Only
<1>12. FreerOK'
  BY Apart, <1>1 DEF IInv, FreerOK, At, Only, Joining
<1>13. TakenOK'
  BY <1>1 DEF IInv, Typed, TakenOK, TakenBy, At, Only
<1>14. CopyOK'
  BY <1>1 DEF IInv, CopyOK, At, Only
<1>15. UserOK'
  BY <1>1 DEF IInv, UserOK, At, Only
<1>16. Exact'
  BY <1>1, Apart, CountsSame DEF IInv
<1>17. GrabOK'
  BY <1>1, Apart, GrabSame DEF Only
<1> QED
  BY <1>2, <1>3, <1>4, <1>5, <1>6, <1>7, <1>8, <1>9, <1>10, <1>11, <1>12, <1>13, <1>14,
     <1>15, <1>16, <1>17 DEF IInv

LEMMA LoadOK ==
  ASSUME Assumptions, IInv, Load
  PROVE  IInv'
<1>0. PICK new \in [Chunk -> { f \in Folio : ref[f] = 0 }] :
        /\ \A c, d \in Chunk : new[c] = new[d] => c = d
        /\ sg' = new
        /\ ref' = [f \in Folio |-> IF f \in { new[c] : c \in Chunk } THEN 2 ELSE ref[f]]
        /\ private' = [f \in Folio |-> IF f \in { new[c] : c \in Chunk } THEN Marker ELSE private[f]]
        /\ data' = [f \in Folio |-> IF f \in { new[c] : c \in Chunk }
                                     THEN CHOOSE c \in Chunk : new[c] = f ELSE data[f]]
  BY DEF Load
<1>1. /\ at[Owner].pc = "locked" /\ Exists = {} /\ hash = Owner
      /\ sg' = new
      /\ ref' = [f \in Folio |-> IF \E c \in Chunk : new[c] = f THEN 2 ELSE ref[f]]
      /\ private' = [f \in Folio |-> IF \E c \in Chunk : new[c] = f THEN Marker ELSE private[f]]
      /\ data' \in [Folio -> Chunk \cup {None}]
      /\ \A c \in Chunk : data'[new[c]] = c
      /\ \A f \in Folio : (\E c \in Chunk : new[c] = f) \/ data'[f] = data[f]
      /\ resident' = Abd
      /\ UNCHANGED <<lock, mapped>>
      /\ UNCHANGED <<joined, prelocked, mtx, arg, reclaiming>>
      /\ UNCHANGED <<hash, hdr, gone, orphan, refcnt, writing>>
      /\ UNCHANGED <<bio, batch, grab, miscounted, at>>
  <2>1. /\ at[Owner].pc = "locked" /\ Exists = {} /\ hash = Owner
        /\ UNCHANGED <<lock, mapped, joined, prelocked, mtx, arg, reclaiming, hash,
                         hdr, gone,
                        orphan, refcnt, writing, bio, batch, grab, miscounted, at>>
        /\ resident' = Abd
    BY DEF Load, At, abdVars, heldVars, bioVars, IInv, HashOK
  <2>2. /\ sg' = new
        /\ ref' = [f \in Folio |-> IF \E c \in Chunk : new[c] = f THEN 2 ELSE ref[f]]
        /\ private' = [f \in Folio |-> IF \E c \in Chunk : new[c] = f THEN Marker ELSE private[f]]
    BY <1>0
  <2>3. ASSUME NEW f \in Folio
        PROVE  /\ data'[f] \in Chunk \cup {None}
               /\ \A c \in Chunk : new[c] = f => data'[f] = c
               /\ (\E c \in Chunk : new[c] = f) \/ data'[f] = data[f]
    <3>1. CASE \E c \in Chunk : new[c] = f
      <4>1. data'[f] = CHOOSE c \in Chunk : new[c] = f
        BY <1>0, <3>1
      <4>2. data'[f] \in Chunk /\ new[data'[f]] = f
        BY <3>1, <4>1
      <4> QED
        BY <1>0, <4>2
    <3>2. CASE ~\E c \in Chunk : new[c] = f
      BY <1>0, <3>2 DEF IInv, Typed
    <3> QED
      BY <3>1, <3>2
  <2>4. data' \in [Folio -> Chunk \cup {None}]
    BY <1>0, <2>3
  <2> QED
    BY <1>0, <2>1, <2>2, <2>3, <2>4
<1>a. \A c \in Chunk :
        /\ new[c] \in Folio /\ ref[new[c]] = 0
        /\ new[c] \notin mapped /\ private[new[c]] = None /\ ~Named(new[c])
        /\ lock[new[c]] = None
        /\ new[c] # at[Owner].folio /\ new[c] # at[User].folio /\ new[c] # at[Migrator].folio
        /\ new[c] # at[Migrator].spare
        /\ \A r \in Reclaimer :
             /\ new[c] # at[r].folio /\ new[c] # at[r].spare
             /\ new[c] \notin at[r].taken /\ new[c] # batch[r]
        /\ \A d \in Chunk : bio[d] # new[c]
  <2> SUFFICES ASSUME NEW c \in Chunk, NEW f \in Folio, f = new[c], ref[f] = 0
               PROVE  /\ new[c] \notin mapped /\ private[new[c]] = None /\ ~Named(new[c])
                      /\ lock[new[c]] = None /\ new[c] # at[Owner].folio
                      /\ new[c] # at[User].folio /\ new[c] # at[Migrator].folio
                      /\ new[c] # at[Migrator].spare
                      /\ \A r \in Reclaimer :
                           /\ new[c] # at[r].folio /\ new[c] # at[r].spare
                           /\ new[c] \notin at[r].taken /\ new[c] # batch[r]
                      /\ \A d \in Chunk : bio[d] # new[c]
    BY <1>0
  <2> QED
    BY Unreferenced
<1>b. /\ \A c \in Chunk : sg[c] = None
      /\ resident = {} /\ orphan = {} /\ joined = {} /\ prelocked = {}
      /\ \A a \in Abd : mtx[a] = None
  <2>1. resident = {} /\ orphan = {} /\ joined = {}
    BY <1>1 DEF IInv, MtxOK, Exists, Joining
  <2>2. \A a \in Abd : mtx[a] = None
    BY <2>1 DEF IInv, MtxOK, Joining
  <2>3. prelocked = {}
    BY <2>2, Apart DEF IInv, Typed, MtxOK, Joining
  <2>4. \A c \in Chunk : sg[c] = None
    BY <1>1, Apart DEF IInv, Typed, ChunksOK, ChunkOK, Exists
  <2> QED
    BY <2>1, <2>2, <2>3, <2>4
<1>c. \A r \in Reclaimer : at[r].pc \notin Taking /\ at[r].taken = {}
  BY <1>1, Apart DEF IInv, HashOK, InHand
<1>d. Chunk # {} => /\ ~writing /\ refcnt = 0
                    /\ at[User].pc \notin WriteSteps \cup Freeing \cup {"pinned", "reading"}
  BY <1>1, <1>b, Apart DEF IInv, UseOK, Typed, Joining
<1>2. Typed'
  BY <1>1 DEF IInv, Typed, AtState, Only
<1>3. HashOK'
  BY <1>1, <1>a, <1>b, <1>c, <1>d DEF IInv, Typed, HashOK, Only
<1>4. InHand'
  BY Apart, <1>1 DEF IInv, Typed, InHand, At, Taking, Midway, Only
<1>5. UseOK'
  BY <1>1 DEF IInv, UseOK, At, Freeing, Frees, Exists, Only, Joining
<1>6. BindingOK'
  BY <1>1 DEF IInv, Typed, BindingOK, At, Only
<1>7. MtxOK'
  BY Apart, <1>1 DEF IInv, Typed, MtxOK, MutexesOf, At, Taking, Frees, Exists, Only,
       Joining
<1>8. LockOK'
  BY <1>1 DEF IInv, Typed, LockOK, At, Locking, Taking, Only
<1>9. MappedOK'
  BY <1>1, <1>a DEF IInv, Typed, MappedOK, At, Midway, Locking, Taking, Only
<1>10. PrivateOK'
  BY Apart, <1>1, <1>a, <1>b, <1>c, <1>d DEF IInv, Typed, PrivateOK, At, Repointed,
     Taking, HashOK, OwnerSteps, MigratorSteps, UserSteps, ReclaimerSteps, Freeing,
     Locking, Midway, Migrating, WriteSteps, InHand, LockOK, MappedOK, ChunksOK,
     ChunkOK, Exists, Only, Joining
<1>11. ChunksOK'
  BY Apart, <1>1, <1>a, <1>b, <1>c DEF IInv, ChunksOK, ChunkOK, At, Freeing, Exists,
     Only, Joining
<1>12. FreerOK'
  BY <1>1, <1>b, <1>c, <1>d DEF IInv, FreerOK, At, Freeing, Only, Joining
<1>13. TakenOK'
  BY Apart, <1>1, <1>a, <1>b, <1>c, <1>d DEF IInv, Typed, TakenOK, TakenBy, At, Taking,
     Freeing, Locking, Midway, Migrating, WriteSteps, Only, Joining
<1>14. CopyOK'
  BY <1>1, <1>a, <1>c, Apart DEF IInv, Typed, CopyOK, At, Midway, InHand, LockOK,
       MappedOK,
     ChunksOK, ChunkOK, Exists, Only
<1>15. UserOK'
  BY Apart, <1>1, <1>b, <1>d DEF IInv, Typed, UserOK, At, Only, WriteSteps
<1>16. Exact'
  <2>1. \A f \in Folio : Several(f)' = Several(f)
    BY <1>1, SeveralSame
  <2>2. ASSUME NEW f \in Folio, \E c \in Chunk : new[c] = f PROVE ref'[f] = Holders(f)'
    <3>1. f \notin mapped /\ private[f] = None /\ ~Named(f) /\ Named(f)' /\ ref[f] = 0
      BY <1>1, <1>a, <2>2 DEF Named
    <3>2. Single(f)' = Single(f) + 2
      <4>1. CacheRefs(f)' = CacheRefs(f) /\ OwnerRefs(f)' = OwnerRefs(f)
        BY <1>1 DEF CacheRefs, OwnerRefs, At
      <4>2. ChunkRefs(f) = 0 /\ ChunkRefs(f)' = 1
        BY <1>1, <3>1 DEF ChunkRefs, One, At
      <4>3. One(private[f] # None) = 0 /\ One(private'[f] # None) = 1
        BY <1>1, <2>2, <3>1, Apart DEF One
      <4> QED
        BY <1>1, <4>1, <4>2, <4>3, CountsAreNat DEF Single, One
    <3>3. ref'[f] = ref[f] + 2
      BY <1>1, <2>2, <3>1
    <3> QED
      BY <2>1, <3>2, <3>3, HoldersAre DEF IInv, Exact
  <2>3. ASSUME NEW f \in Folio, ~\E c \in Chunk : new[c] = f PROVE ref'[f] = Holders(f)'
    <3>1. ~Named(f)' /\ ~Named(f)
      BY <1>1, <1>b, <2>3, Apart DEF Named
    <3>2. Single(f)' = Single(f)
      BY <1>1, <2>3, <3>1 DEF Single, CacheRefs, OwnerRefs, ChunkRefs, At
    <3>3. ref'[f] = ref[f]
      BY <1>1, <2>3
    <3> QED
      BY <2>1, <3>2, <3>3, HoldersAre DEF IInv, Exact
  <2> QED
    BY <2>2, <2>3 DEF Exact
<1>17. GrabOK'
  BY <1>1, Apart, GrabSame DEF Only
<1> QED
  BY <1>2, <1>3, <1>4, <1>5, <1>6, <1>7, <1>8, <1>9, <1>10, <1>11, <1>12, <1>13, <1>14,
     <1>15, <1>16, <1>17 DEF IInv

-----------------------------------------------------------------------------
(* A buffer freed by the owner or by the user. *)

LEMMA FreeEnterOK ==
  ASSUME Assumptions, IInv, NEW t \in {Owner, User}, NEW a \in Abd, FreeEnter(t, a)
  PROVE  IInv'
<1>1. /\ \/ t = Owner /\ at[t].pc = "evict" /\ a \in resident /\ ~writing
         \/ t = User /\ at[t].pc = "drain" /\ a \in orphan
      /\ a \in joined /\ mtx[a] = None /\ mtx' = [mtx EXCEPT ![a] = t]
      /\ UNCHANGED <<sg, ref, lock, private, mapped, data>>
      /\ UNCHANGED <<hash, hdr, gone, resident, orphan, refcnt, writing>>
      /\ UNCHANGED <<joined, prelocked, arg, reclaiming, bio, batch, grab, miscounted>>
  BY Apart DEF FreeEnter, MayFree, At, folioVars, hdrVars, heldVars, bioVars
<1>2. /\ at'[t].pc = "free" /\ at'[t].abd = a
      /\ at'[t].folio = at[t].folio /\ at'[t].spare = at[t].spare
      /\ at'[t].todo = Chunks({a}) /\ at'[t].taken = at[t].taken
      /\ Only(t) /\ at' \in [Task -> AtState]
  <2>1. PICK e : e = [at[t] EXCEPT !.pc = "free", !.abd = a, !.todo = Chunks({a})]
    OBVIOUS
  <2>2. /\ at[t] \in AtState
        /\ "free" \in Steps
        /\ a \in Abd \cup {Marker, None}
        /\ Chunks({a}) \subseteq Chunk \cup Abd
    BY <1>1, Apart, RestTyped DEF IInv, Typed, AtState, Steps, Chunks
  <2>3. /\ e \in AtState
        /\ e.pc = "free" /\ e.abd = a
        /\ e.folio = at[t].folio /\ e.spare = at[t].spare
        /\ e.todo = Chunks({a}) /\ e.taken = at[t].taken
    BY <2>1, <2>2, RestTyped DEF AtState
  <2>4. at' = [at EXCEPT ![t] = e]
    BY <2>1 DEF FreeEnter, Go, Finish
  <2>5. t \in Task
    BY Apart
  <2>6. at'[t] = e /\ Only(t) /\ at' \in [Task -> AtState]
    BY <2>3, <2>4, <2>5, Moves
  <2> QED
    BY <2>3, <2>6
<1>3. Typed'
  BY Apart, <1>1, <1>2 DEF IInv, Typed, AtState, Only
<1>4. HashOK'
  BY Apart, <1>1, <1>2 DEF IInv, HashOK, OwnerSteps, MigratorSteps, UserSteps,
     ReclaimerSteps, Taking, Freeing, Locking, Midway, Migrating, WriteSteps, Only,
     Joining
<1>5. InHand'
  BY Apart, <1>1, <1>2 DEF IInv, InHand, At, Only, Chunks
<1>6. UseOK'
  BY Apart, <1>1, <1>2 DEF IInv, Typed, UseOK, At, Freeing, WriteSteps, Exists, Only,
       Joining
<1>7. BindingOK'
  BY Apart, <1>1, <1>2 DEF IInv, Typed, BindingOK, At, Only
<1>8. MtxOK'
  BY Apart, <1>1, <1>2 DEF IInv, Typed, MtxOK, MutexesOf, At, Freeing, Taking, Frees,
     Exists, Only, Joining
<1>9. FreerOK'
  BY Apart, <1>1, <1>2 DEF IInv, Typed, FreerOK, At, Freeing, UseOK, Exists, ChunksOK,
     ChunkOK, Only, Chunks, Joining
<1>10. TakenOK'
  BY Apart, <1>1, <1>2 DEF IInv, TakenOK, TakenBy, At, Only
<1>11. UserOK'
  BY Apart, <1>1, <1>2 DEF IInv, UserOK, At, Only
<1>12. Exact'
  BY <1>1, <1>2, Apart, CountsSame DEF Only, IInv, OwnerSteps, Freeing, Midway, Joining
<1>13. LockOK' /\ MappedOK' /\ PrivateOK' /\ ChunksOK' /\ CopyOK'
  BY <1>1, <1>2, Apart, ChunksSame, CopySame, LockSame, MappedSame, PrivateSame DEF
     Freeing, Joining
<1>14. GrabOK'
  BY <1>1, <1>2, Apart, GrabSame DEF Only
<1> QED
  BY <1>3, <1>4, <1>5, <1>6, <1>7, <1>8, <1>9, <1>10, <1>11, <1>12, <1>13,
       <1>14 DEF IInv

LEMMA FreeGrabOK ==
  ASSUME Assumptions, IInv, NEW t \in {Owner, User}, NEW c \in Chunk, FreeGrab(t, c)
  PROVE  IInv'
<1>1. /\ at[t].pc = "free" /\ Grabbed(t, c) /\ Take(t)
      /\ c \in at[t].todo /\ grab[t].folio = sg[c]
      /\ UNCHANGED <<sg, ref, lock, private, mapped, data>>
      /\ UNCHANGED <<joined, prelocked, mtx, arg, reclaiming>>
      /\ UNCHANGED <<hash, hdr, gone, resident, orphan, refcnt, writing>>
      /\ UNCHANGED <<bio, batch, miscounted>>
  BY Apart, Grabbing DEF FreeGrab, At, folioVars, abdVars, hdrVars, heldVars, bioVars
<1>2. /\ at'[t].pc = "lock" /\ at'[t].abd = at[t].abd
      /\ at'[t].folio = sg[c] /\ at'[t].spare = at[t].spare
      /\ at'[t].todo = at[t].todo /\ at'[t].taken = at[t].taken
      /\ Only(t) /\ at' \in [Task -> AtState]
  <2>1. PICK e : e = [at[t] EXCEPT !.pc = "lock", !.folio = sg[c]]
    OBVIOUS
  <2>2. /\ at[t] \in AtState
        /\ "lock" \in Steps
        /\ sg[c] \in Folio \cup {None}
    BY <1>1, Apart, RestTyped DEF IInv, Typed, AtState, Steps, Chunks
  <2>3. /\ e \in AtState
        /\ e.pc = "lock" /\ e.abd = at[t].abd
        /\ e.folio = sg[c] /\ e.spare = at[t].spare
        /\ e.todo = at[t].todo /\ e.taken = at[t].taken
    BY <2>1, <2>2, RestTyped DEF AtState
  <2>4. at' = [at EXCEPT ![t] = e]
    BY <1>1, <2>1 DEF FreeGrab
  <2>5. t \in Task
    BY Apart
  <2>6. at'[t] = e /\ Only(t) /\ at' \in [Task -> AtState]
    BY <2>3, <2>4, <2>5, Moves
  <2> QED
    BY <2>3, <2>6
<1>a. sg[c] \in Folio /\ AbdOf[c] = at[t].abd /\ data[sg[c]] = c
  BY <1>1, Apart DEF IInv, Typed, ChunksOK, ChunkOK, FreerOK, Freeing, Joining
<1>g. /\ grab[t].held /\ sg[c] \in Folio /\ data[sg[c]] = c
      /\ grab'[t] = Idle /\ grab' \in [Task -> GrabState]
      /\ \A u \in Task \ {t} : grab'[u] = grab[u]
  BY <1>1, Apart, Grabbing
<1>3. Typed'
  BY <1>1, <1>2, <1>g, <1>a DEF IInv, Typed, AtState, Only
<1>4. HashOK'
  BY Apart, <1>1, <1>2 DEF IInv, HashOK, OwnerSteps, MigratorSteps, UserSteps,
     ReclaimerSteps, Taking, Freeing, Locking, Midway, Migrating, WriteSteps, Only,
     Joining
<1>5. InHand'
  BY Apart, <1>1, <1>2, <1>a DEF IInv, InHand, At, Midway, Only
<1>6. UseOK'
  BY Apart, <1>1, <1>2 DEF IInv, Typed, UseOK, At, Freeing, WriteSteps, Frees, Exists,
     Only, Joining
<1>7. BindingOK'
  BY Apart, <1>1, <1>2 DEF IInv, Typed, BindingOK, At, Taking, Only
<1>8. MtxOK'
  BY Apart, <1>1, <1>2, <1>a DEF IInv, MtxOK, MutexesOf, At, Freeing, Frees, Exists,
     Only, Joining
<1>9. ChunksOK'
  BY Apart, <1>1, <1>2 DEF IInv, Typed, ChunksOK, ChunkOK, At, Freeing, Exists, Only,
       Joining
<1>10. FreerOK'
  BY Apart, <1>1, <1>2, <1>a DEF IInv, FreerOK, At, Freeing, Only, Joining
<1>11. CopyOK'
  BY Apart, <1>1, <1>2 DEF IInv, Typed, CopyOK, At, Only
<1>12. UserOK'
  BY Apart, <1>1, <1>2 DEF IInv, UserOK, At, Only
<1>13. Exact'
  <2>1. \A f \in Folio : Several(f)' = Several(f) - One(f = sg[c])
    BY <1>1, <1>2, Apart, <1>g, LookerDone
  <2>2. \A f \in Folio : Single(f)' = Single(f) + One(f = sg[c])
    BY <1>1, <1>2, <1>a, Apart DEF Single, CacheRefs, ChunkRefs, OwnerRefs, One, Named,
         At,
         Only, Task, IInv, InHand, HashOK, OwnerSteps, UserSteps, Freeing, WriteSteps,
         Joining
  <2>3. ASSUME NEW f \in Folio PROVE ref'[f] = Holders(f)'
    BY <1>1, <1>a, <2>1, <2>2, HoldersAre, Apart DEF IInv, Typed, Exact, One
  <2> QED
    BY <2>3 DEF Exact
<1>14. LockOK' /\ MappedOK' /\ PrivateOK' /\ TakenOK'
  BY <1>1, <1>2, Apart, LockSame, MappedSame, PrivateSame, TakenSame DEF Taking
<1>15. GrabOK'
  BY <1>2, <1>g, Apart, GrabbedSame
<1> QED
  BY <1>3, <1>4, <1>5, <1>6, <1>7, <1>8, <1>9, <1>10, <1>11, <1>12, <1>13, <1>14,
       <1>15 DEF
     IInv

LEMMA FreeLockOK ==
  ASSUME Assumptions, IInv, NEW t \in {Owner, User}, FreeLock(t), NamedBy(at[t].folio) #
     {}
  PROVE  IInv'
<1>1. /\ at[t].pc = "lock" /\ at[t].folio \in Folio /\ lock[at[t].folio] = None
      /\ Named(at[t].folio)
      /\ lock' = [lock EXCEPT ![at[t].folio] = t]
      /\ UNCHANGED <<sg, ref, private, mapped, data>>
      /\ UNCHANGED <<joined, prelocked, mtx, arg, reclaiming>>
      /\ UNCHANGED <<hash, hdr, gone, resident, orphan, refcnt, writing>>
      /\ UNCHANGED <<bio, batch, grab, miscounted>>
  BY Apart DEF FreeLock, At, abdVars, hdrVars, NamedBy, Named, IInv, Typed, AtState,
     InHand, heldVars, bioVars
<1>2. /\ at'[t].pc = "drop" /\ at'[t].abd = at[t].abd
      /\ at'[t].folio = at[t].folio /\ at'[t].spare = at[t].spare
      /\ at'[t].todo = at[t].todo /\ at'[t].taken = at[t].taken
      /\ Only(t) /\ at' \in [Task -> AtState]
  <2>1. PICK e : e = [at[t] EXCEPT !.pc = "drop"]
    OBVIOUS
  <2>2. /\ at[t] \in AtState
        /\ "drop" \in Steps
    BY <1>1, Apart, RestTyped DEF IInv, Typed, AtState, Steps, Chunks
  <2>3. /\ e \in AtState
        /\ e.pc = "drop" /\ e.abd = at[t].abd
        /\ e.folio = at[t].folio /\ e.spare = at[t].spare
        /\ e.todo = at[t].todo /\ e.taken = at[t].taken
    BY <2>1, <2>2, RestTyped DEF AtState
  <2>4. at' = [at EXCEPT ![t] = e]
    BY <2>1 DEF FreeLock, Go, Finish
  <2>5. t \in Task
    BY Apart
  <2>6. at'[t] = e /\ Only(t) /\ at' \in [Task -> AtState]
    BY <2>3, <2>4, <2>5, Moves
  <2> QED
    BY <2>3, <2>6
<1>3. Typed'
  BY <1>1, <1>2 DEF IInv, Typed, AtState, Only
<1>4. HashOK'
  BY Apart, <1>1, <1>2 DEF IInv, Typed, HashOK, OwnerSteps, MigratorSteps, UserSteps,
     ReclaimerSteps, Taking, Freeing, Locking, Midway, Migrating, WriteSteps, Only,
     Joining
<1>5. InHand'
  BY Apart, <1>1, <1>2 DEF IInv, Typed, InHand, At, Taking, Only
<1>6. UseOK'
  BY Apart, <1>1, <1>2 DEF IInv, Typed, UseOK, Freeing, WriteSteps, Frees, Exists,
       Only, Joining
<1>7. BindingOK'
  BY Apart, <1>1, <1>2 DEF IInv, Typed, BindingOK, At, Only
<1>8. MtxOK'
  BY Apart, <1>1, <1>2 DEF IInv, Typed, MtxOK, MutexesOf, At, Freeing, Frees, Exists,
     Only, Joining
<1>9. LockOK'
  BY Apart, <1>1, <1>2 DEF IInv, Typed, LockOK, At, Locking, Taking, Only
<1>10. ChunksOK'
  BY Apart, <1>1, <1>2 DEF IInv, ChunksOK, ChunkOK, At, Freeing, Exists, Only, Joining
<1>11. FreerOK'
  BY Apart, <1>1, <1>2 DEF IInv, FreerOK, At, Freeing, Only, ChunksOK, ChunkOK, Named,
       Joining
<1>12. UserOK'
  BY Apart, <1>1, <1>2 DEF IInv, UserOK, At, Only
<1>13. Exact'
  BY <1>1, <1>2, Apart, CountsSame DEF Only, IInv
<1>14. MappedOK' /\ PrivateOK' /\ TakenOK' /\ CopyOK'
  BY <1>1, <1>2, Apart, CopySame, MappedSame, PrivateSame, TakenSame DEF Taking
<1>15. GrabOK'
  BY <1>1, <1>2, Apart, GrabSame DEF Only
<1> QED
  BY <1>3, <1>4, <1>5, <1>6, <1>7, <1>8, <1>9, <1>10, <1>11, <1>12, <1>13, <1>14,
       <1>15 DEF
     IInv

LEMMA FreeLockLateOK ==
  ASSUME Assumptions, IInv, NEW t \in {Owner, User}, FreeLock(t), NamedBy(at[t].folio) =
     {}
  PROVE  IInv'
<1>1. /\ at[t].pc = "lock" /\ at[t].folio \in Folio
      /\ ref' = [ref EXCEPT ![at[t].folio] = @ - 1]
      /\ UNCHANGED <<sg, lock, private, mapped, data>>
      /\ UNCHANGED <<joined, prelocked, mtx, arg, reclaiming>>
      /\ UNCHANGED <<hash, hdr, gone, resident, orphan, refcnt, writing>>
      /\ UNCHANGED <<bio, batch, grab, miscounted>>
  BY Apart DEF FreeLock, Put, At, abdVars, hdrVars, IInv, Typed, AtState, InHand,
  heldVars, bioVars
<1>2. /\ at'[t].pc = "free" /\ at'[t].abd = at[t].abd
      /\ at'[t].folio = None /\ at'[t].spare = at[t].spare
      /\ at'[t].todo = at[t].todo /\ at'[t].taken = at[t].taken
      /\ Only(t) /\ at' \in [Task -> AtState]
  <2>1. PICK e : e = [at[t] EXCEPT !.pc = "free", !.folio = None]
    OBVIOUS
  <2>2. /\ at[t] \in AtState
        /\ "free" \in Steps
        /\ None \in Folio \cup {None}
    BY <1>1, Apart, RestTyped DEF IInv, Typed, AtState, Steps, Chunks
  <2>3. /\ e \in AtState
        /\ e.pc = "free" /\ e.abd = at[t].abd
        /\ e.folio = None /\ e.spare = at[t].spare
        /\ e.todo = at[t].todo /\ e.taken = at[t].taken
    BY <2>1, <2>2, RestTyped DEF AtState
  <2>4. at' = [at EXCEPT ![t] = e]
    BY <2>1 DEF FreeLock, Go, Finish
  <2>5. t \in Task
    BY Apart
  <2>6. at'[t] = e /\ Only(t) /\ at' \in [Task -> AtState]
    BY <2>3, <2>4, <2>5, Moves
  <2> QED
    BY <2>3, <2>6
<1>3. Typed'
  BY <1>1, <1>2 DEF IInv, Typed, AtState, Only
<1>4. HashOK'
  BY Apart, <1>1, <1>2 DEF IInv, Typed, HashOK, OwnerSteps, MigratorSteps, UserSteps,
     ReclaimerSteps, Freeing, Locking, Midway, Migrating, WriteSteps, Only, Joining
<1>5. InHand'
  BY Apart, <1>1, <1>2 DEF IInv, Typed, InHand, At, Only
<1>6. UseOK'
  BY Apart, <1>1, <1>2 DEF IInv, Typed, UseOK, Freeing, WriteSteps, Frees, Only, Joining
<1>7. BindingOK'
  BY Apart, <1>1, <1>2 DEF IInv, Typed, BindingOK, At, Taking, Only
<1>8. MtxOK'
  BY Apart, <1>1, <1>2 DEF IInv, Typed, MtxOK, MutexesOf, At, Freeing, Frees, Exists,
     Only, Joining
<1>9. ChunksOK'
  BY Apart, <1>1, <1>2 DEF IInv, Typed, ChunksOK, ChunkOK, At, Freeing, Exists, Only,
       Joining
<1>10. FreerOK'
  BY Apart, <1>1, <1>2 DEF IInv, FreerOK, At, Freeing, Only, Joining
<1>11. UserOK'
  BY Apart, <1>1, <1>2 DEF IInv, UserOK, At, Only
<1>12. Exact'
  <2>1. \A f \in Folio : Several(f)' = Several(f) 
    BY <1>1, <1>2, Apart, SeveralSameFor
  <2>2. \A f \in Folio : Single(f)' = Single(f) - One(f = at[t].folio)
    BY <1>1, <1>2, Apart DEF Single, CacheRefs, ChunkRefs, OwnerRefs, One, Named, At,
         Only, Task, IInv, InHand, HashOK, OwnerSteps, UserSteps, Freeing, WriteSteps,
         Joining
  <2>3. ASSUME NEW f \in Folio PROVE ref'[f] = Holders(f)'
    BY <1>1, <2>1, <2>2, HoldersAre, Apart DEF IInv, Typed, Exact, One
  <2> QED
    BY <2>3 DEF Exact
<1>13. LockOK' /\ MappedOK' /\ PrivateOK' /\ TakenOK' /\ CopyOK'
  BY <1>1, <1>2, Apart, CopySame, LockSame, MappedSame, PrivateSame, TakenSame DEF
     Taking
<1>14. GrabOK'
  BY <1>1, <1>2, Apart, GrabSame DEF Only
<1> QED
  BY <1>3, <1>4, <1>5, <1>6, <1>7, <1>8, <1>9, <1>10, <1>11, <1>12, <1>13,
       <1>14 DEF IInv

LEMMA FreeDropOK ==
  ASSUME Assumptions, IInv, NEW t \in {Owner, User}, FreeDrop(t)
  PROVE  IInv'
<1>1. /\ at[t].pc = "drop" /\ at[t].folio \in Folio
      /\ ref' = [ref EXCEPT ![at[t].folio] = @ - Owed(at[t].folio)]
      /\ mapped' = mapped \ {at[t].folio}
      /\ private' = [private EXCEPT ![at[t].folio] = None]
      /\ lock' = [lock EXCEPT ![at[t].folio] = None]
      /\ sg' = [c \in Chunk |-> IF sg[c] = at[t].folio THEN None ELSE sg[c]]
      /\ UNCHANGED data
      /\ UNCHANGED <<joined, prelocked, mtx, arg, reclaiming>>
      /\ UNCHANGED <<hash, hdr, gone, resident, orphan, refcnt, writing>>
      /\ UNCHANGED <<bio, batch, grab, miscounted>>
  BY Apart DEF FreeDrop, At, abdVars, hdrVars, IInv, Typed, AtState, InHand, heldVars,
  bioVars
<1>2. /\ at'[t].pc = "free" /\ at'[t].abd = at[t].abd
      /\ at'[t].folio = None /\ at'[t].spare = at[t].spare
      /\ at'[t].todo = at[t].todo \ NamedBy(at[t].folio) /\ at'[t].taken = at[t].taken
      /\ Only(t) /\ at' \in [Task -> AtState]
  <2>1. PICK e : e = [at[t] EXCEPT !.pc = "free", !.folio = None,
                            !.todo = at[t].todo \ NamedBy(at[t].folio)]
    OBVIOUS
  <2>2. /\ at[t] \in AtState
        /\ "free" \in Steps
        /\ None \in Folio \cup {None}
        /\ at[t].todo \ NamedBy(at[t].folio) \subseteq Chunk \cup Abd
    BY <1>1, Apart, RestTyped DEF IInv, Typed, AtState, Steps, Chunks
  <2>3. /\ e \in AtState
        /\ e.pc = "free" /\ e.abd = at[t].abd
        /\ e.folio = None /\ e.spare = at[t].spare
        /\ e.todo = at[t].todo \ NamedBy(at[t].folio) /\ e.taken = at[t].taken
    BY <2>1, <2>2, RestTyped DEF AtState
  <2>4. at' = [at EXCEPT ![t] = e]
    BY <2>1 DEF FreeDrop, Go, Finish
  <2>5. t \in Task
    BY Apart
  <2>6. at'[t] = e /\ Only(t) /\ at' \in [Task -> AtState]
    BY <2>3, <2>4, <2>5, Moves
  <2> QED
    BY <2>3, <2>6
<1>a. PICK c \in Chunk : data[at[t].folio] = c /\ AbdOf[c] = at[t].abd /\ sg[c] = at[t].folio
  BY <1>1 DEF IInv, FreerOK, At, Joining
<1>b. /\ lock[at[t].folio] = t /\ private[at[t].folio] # None
      /\ at[t].folio # at[Migrator].spare
      /\ at[t].folio = at[Migrator].folio => at[Migrator].pc \notin Migrating
      /\ ~(At(Owner, "joined") /\ at[Owner].folio = at[t].folio)
  BY <1>1, <1>a, Apart DEF IInv, LockOK, ChunksOK, ChunkOK, At, Migrating, Midway
<1>c. \A d \in Chunk : sg[d] = at[t].folio => d = c
  BY <1>1, <1>a, Apart DEF IInv, ChunksOK, ChunkOK
<1>d. NamedBy(at[t].folio) = {c}
  BY <1>a, <1>c DEF NamedBy
<1>3. Typed'
  BY Apart, <1>1, <1>2 DEF IInv, Typed, AtState, Owed
<1>4. HashOK'
  BY Apart, <1>1, <1>2 DEF IInv, Typed, HashOK, OwnerSteps, UserSteps, ReclaimerSteps,
     Taking, Freeing, Locking, Midway, Migrating, Only, Joining
<1>5. InHand'
  BY Apart, <1>1, <1>2 DEF IInv, InHand, At, Taking, Midway, Only
<1>6. UseOK'
  BY Apart, <1>1, <1>2 DEF IInv, UseOK, At, Freeing, WriteSteps, Frees, Only, Joining
<1>7. BindingOK'
  BY Apart, <1>1, <1>2, <1>a, <1>b, <1>c, <1>d DEF IInv, BindingOK, At, Taking, Only
<1>8. MtxOK'
  BY Apart, <1>1, <1>2 DEF IInv, MtxOK, MutexesOf, At, Freeing, Frees, Exists, Only,
       Joining
<1>9. LockOK'
  BY Apart, <1>1, <1>2 DEF IInv, Typed, LockOK, At, Locking, Taking, Only
<1>10. MappedOK'
  BY Apart, <1>1, <1>2 DEF IInv, Typed, MappedOK, At, Midway, Locking, Taking, HashOK,
     OwnerSteps, Migrating, WriteSteps, InHand, LockOK, Only, Joining
<1>11. PrivateOK'
  BY Apart, <1>1, <1>2 DEF IInv, Typed, PrivateOK, At, Repointed, Taking, HashOK,
     OwnerSteps, MigratorSteps, UserSteps, ReclaimerSteps, Freeing, Locking, Midway,
     Migrating, WriteSteps, InHand, LockOK, MappedOK, ChunksOK, Exists, Only, Joining
<1>12. ChunksOK'
  BY Apart, <1>1, <1>2, <1>a, <1>c DEF IInv, ChunksOK, ChunkOK, At, Freeing, Exists,
     Only, Joining
<1>13. FreerOK'
  BY Apart, <1>1, <1>2, <1>a, <1>b, <1>c, <1>d DEF IInv, FreerOK, At, Freeing, Locking,
     Migrating, WriteSteps, UseOK, Exists, Only, Joining
<1>14. TakenOK'
  BY Apart, <1>1, <1>2, <1>a, <1>c DEF IInv, TakenOK, TakenBy, At, HashOK, OwnerSteps,
     MigratorSteps, UserSteps, ReclaimerSteps, Taking, Freeing, Locking, Midway,
     Migrating, WriteSteps, MtxOK, MutexesOf, Frees, Exists, Only, Joining
<1>15. CopyOK'
  BY Apart, <1>1, <1>2, <1>a, <1>b, <1>d DEF IInv, CopyOK, At, HashOK, OwnerSteps,
     MigratorSteps, UserSteps, ReclaimerSteps, Taking, Freeing, Locking, Midway,
     Migrating, WriteSteps, InHand, Only, Joining
<1>16. UserOK'
  BY Apart, <1>1, <1>2 DEF IInv, Typed, UserOK, At, HashOK, OwnerSteps, MigratorSteps,
     UserSteps, ReclaimerSteps, Taking, Freeing, Locking, Midway, Migrating, WriteSteps,
     UseOK, Frees, Exists, Only, Joining
<1>17. Exact'
  <2>1. \A f \in Folio : Several(f)' = Several(f) 
    BY <1>1, <1>2, Apart, SeveralSameFor
  <2>2. \A f \in Folio : Single(f)' = Single(f) - (IF f = at[t].folio THEN Owed(f) ELSE 0)
    <3> SUFFICES ASSUME NEW f \in Folio
                 PROVE  Single(f)' = Single(f) - (IF f = at[t].folio THEN Owed(f) ELSE 0)
      OBVIOUS
    <3>1. CASE f # at[t].folio
      <4>1. Named(f)' <=> Named(f)
        BY <1>1, <3>1, Apart DEF Named
      <4> QED
        BY <1>1, <1>2, <3>1, <4>1, Apart DEF Single, CacheRefs, ChunkRefs, OwnerRefs,
             One,
           Named, At, Only, Task, IInv, InHand, HashOK, OwnerSteps, UserSteps, Freeing,
           WriteSteps, Joining
    <3>2. CASE f = at[t].folio
      <4>1. Named(f) /\ ~Named(f)'
        BY <1>1, <1>a, <3>2, Apart DEF Named
      <4>2. CacheRefs(f) + 2 + One(f \notin mapped) = Owed(f) /\ CacheRefs(f)' = 0
        BY <1>1, <1>b, <3>2, Apart DEF CacheRefs, Owed, One, Migrating
      <4>3. One(private[f] # None) = 1 /\ One(private'[f] # None) = 0
        BY <1>1, <1>b, <3>2 DEF One, IInv, Typed
      <4>4. ChunkRefs(f) = One(f \notin mapped) /\ ChunkRefs(f)' = 0
        BY <1>1, <1>2, <1>b, <3>2, <4>1, Apart DEF ChunkRefs, One, At, Only, Task
      <4>5. OwnerRefs(f) + One(f = at[User].folio) = OwnerRefs(f)' + One(f = at'[User].folio) + 1
        BY <1>1, <1>2, <1>b, <3>2, Apart DEF OwnerRefs, One, At, Only, Task
      <4>6. at'[Migrator] = at[Migrator]
        BY <1>2, Apart DEF Only, Task
      <4> QED
        BY <3>2, <4>2, <4>3, <4>4, <4>5, <4>6, CountsAreNat,
             CountsAreNatThen DEF Single, One
    <3> QED
      BY <3>1, <3>2
  <2>3. ASSUME NEW f \in Folio PROVE ref'[f] = Holders(f)'
    BY <1>1, <2>1, <2>2, HoldersAre, Apart DEF IInv, Typed, Exact, One , Owed
  <2> QED
    BY <2>3 DEF Exact
<1>18. GrabOK'
  BY <1>1, <1>2, Apart, GrabSame DEF Only
<1> QED
  BY <1>3, <1>4, <1>5, <1>6, <1>7, <1>8, <1>9, <1>10, <1>11, <1>12, <1>13, <1>14, <1>15,
     <1>16, <1>17, <1>18 DEF IInv

LEMMA FreeEndOK ==
  ASSUME Assumptions, IInv, NEW t \in {Owner, User}, FreeEnd(t)
  PROVE  IInv'
<1>1. /\ at[t].pc = "free" /\ at[t].todo = {}
      /\ resident' = resident \ {at[t].abd} /\ orphan' = orphan \ {at[t].abd}
      /\ joined' = joined \ {at[t].abd} /\ prelocked' = prelocked \ {at[t].abd}
      /\ mtx' = [a \in Abd |-> IF a = at[t].abd THEN None ELSE mtx[a]]
      /\ arg' = [a \in Abd |-> IF a = at[t].abd THEN None ELSE arg[a]]
      /\ reclaiming' = [a \in Abd |-> IF a = at[t].abd THEN None ELSE reclaiming[a]]
      /\ UNCHANGED <<sg, ref, lock, private, mapped, data>>
      /\ UNCHANGED <<hash, hdr, gone, refcnt, writing, bio, batch, grab, miscounted>>
  BY DEF FreeEnd, Forget, At, folioVars, heldVars, bioVars
<1>2. /\ at'[t].pc = (IF t = Owner THEN "evict" ELSE "drain") /\ at'[t].abd = None
      /\ at'[t].folio = None /\ at'[t].spare = None
      /\ at'[t].todo = {} /\ at'[t].taken = {}
      /\ Only(t) /\ at' \in [Task -> AtState]
  <2>1. PICK e : e = [Rest EXCEPT !.pc = (IF t = Owner THEN "evict" ELSE "drain")]
    OBVIOUS
  <2>2. /\ Rest \in AtState
        /\ (IF t = Owner THEN "evict" ELSE "drain") \in Steps
    BY <1>1, Apart, RestTyped DEF IInv, Typed, AtState, Steps, Chunks
  <2>3. /\ e \in AtState
        /\ e.pc = (IF t = Owner THEN "evict" ELSE "drain") /\ e.abd = None
        /\ e.folio = None /\ e.spare = None
        /\ e.todo = {} /\ e.taken = {}
    BY <2>1, <2>2, RestTyped DEF AtState
  <2>4. at' = [at EXCEPT ![t] = e]
    BY <2>1 DEF FreeEnd, Go, Finish
  <2>5. t \in Task
    BY Apart
  <2>6. at'[t] = e /\ Only(t) /\ at' \in [Task -> AtState]
    BY <2>3, <2>4, <2>5, Moves
  <2> QED
    BY <2>3, <2>6
<1>a. /\ at[t].abd \in Abd /\ mtx[at[t].abd] = t
      /\ \A c \in Chunk : AbdOf[c] = at[t].abd => sg[c] = None
  BY <1>1, Apart DEF IInv, Typed, MtxOK, MutexesOf, FreerOK, UseOK, Freeing, Joining
<1>b. \A r \in Reclaimer, c \in Chunk : mtx'[AbdOf[c]] = r <=> mtx[AbdOf[c]] = r
  BY <1>1, <1>a, Apart
<1>c. \A r \in Reclaimer : at'[r] = at[r] /\ at[r].todo \subseteq Chunk
  BY <1>2, Apart DEF IInv, InHand, Only
<1>3. Typed'
  BY <1>1, <1>2, <1>a DEF IInv, Typed, AtState, Only
<1>4. HashOK'
  BY Apart, <1>1, <1>2, <1>a DEF IInv, HashOK, OwnerSteps, MigratorSteps, UserSteps,
     ReclaimerSteps, Taking, Freeing, Locking, Midway, Migrating, WriteSteps, Only,
     Joining
<1>5. InHand'
  BY Apart, <1>1, <1>2 DEF IInv, InHand, At, Taking, Midway, Only
<1>6. UseOK'
  BY Apart, <1>1, <1>2 DEF IInv, UseOK, At, Freeing, WriteSteps, Frees, Exists, Only,
       Joining
<1>7. BindingOK'
  BY Apart, <1>1, <1>2 DEF IInv, Typed, BindingOK, At, Taking, HashOK, OwnerSteps,
     UserSteps, ReclaimerSteps, Locking, Midway, Migrating, WriteSteps, UseOK, Frees,
     Exists, Only, Joining
<1>8. MtxOK'
  BY Apart, <1>1, <1>2 DEF IInv, Typed, MtxOK, MutexesOf, At, Freeing, Frees, Exists,
     Only, Joining
<1>9. PrivateOK'
  BY Apart, <1>1, <1>2, <1>a DEF IInv, PrivateOK, At, Repointed, Taking, Locking,
     Midway, Migrating, WriteSteps, InHand, Only
<1>10. ChunksOK'
  BY Apart, <1>1, <1>2, <1>a DEF IInv, ChunksOK, ChunkOK, At, Exists, Only
<1>11. TakenOK'
  <2> SUFFICES ASSUME NEW r \in Reclaimer, TakenBy(r) PROVE TakenBy(r)'
    BY DEF IInv, TakenOK
  <2>1. data' = data /\ sg' = sg /\ at'[r] = at[r] /\ at[r].todo \subseteq Chunk
    BY <1>1, <1>c
  <2>2. \A c \in Chunk : mtx'[AbdOf[c]] = r <=> mtx[AbdOf[c]] = r
    BY <1>b
  <2> QED
    BY <2>1, <2>2 DEF TakenBy, At
<1>12. UserOK'
  BY Apart, <1>1, <1>2, <1>a DEF IInv, UserOK, At, Only
<1>13. Exact'
  BY <1>1, <1>2, Apart, CountsSame DEF Only, IInv, HashOK, InHand, OwnerSteps, Freeing,
     Midway, Joining
<1>14. LockOK' /\ MappedOK' /\ FreerOK' /\ CopyOK'
  BY <1>1, <1>2, Apart, CopySame, FreerSame, LockSame, MappedSame DEF Freeing, Joining
<1>15. GrabOK'
  BY <1>1, <1>2, Apart, GrabSame DEF Only
<1> QED
  BY <1>3, <1>4, <1>5, <1>6, <1>7, <1>8, <1>9, <1>10, <1>11, <1>12, <1>13, <1>14,
       <1>15 DEF
     IInv

LEMMA FreePlainOK ==
  ASSUME Assumptions, IInv, NEW t \in {Owner, User}, NEW a \in Abd, FreePlain(t, a)
  PROVE  IInv'
<1>1. /\ \/ t = Owner /\ at[t].pc = "evict" /\ a \in resident /\ ~writing
         \/ t = User /\ at[t].pc = "drain" /\ a \in orphan
      /\ a \notin joined
      /\ ref' = [f \in Folio |-> IF Plain(f, a) THEN ref[f] - 2 ELSE ref[f]]
      /\ private' = [f \in Folio |-> IF Plain(f, a) THEN None ELSE private[f]]
      /\ sg' = [c \in Chunk |-> IF AbdOf[c] = a THEN None ELSE sg[c]]
      /\ resident' = resident \ {a} /\ orphan' = orphan \ {a}
      /\ joined' = joined \ {a} /\ prelocked' = prelocked \ {a}
      /\ mtx' = [b \in Abd |-> IF b = a THEN None ELSE mtx[b]]
      /\ arg' = [b \in Abd |-> IF b = a THEN None ELSE arg[b]]
      /\ reclaiming' = [b \in Abd |-> IF b = a THEN None ELSE reclaiming[b]]
      /\ UNCHANGED <<lock, mapped, data, hash, hdr, gone, refcnt, writing, bio, batch,
                       grab, miscounted, at>>
  BY Apart DEF FreePlain, MayFree, Forget, At, Plain, Chunks, heldVars, bioVars
<1>a. \A c \in Chunk : AbdOf[c] = a =>
        /\ sg[c] \in Folio /\ sg[c] \notin mapped /\ private[sg[c]] = Marker /\ data[sg[c]] = c
        /\ Plain(sg[c], a)
  BY <1>1, Apart DEF IInv, Typed, ChunksOK, ChunkOK, PrivateOK, Exists, UseOK, Freeing,
       Plain, Joining
<1>b. \A f \in Folio : Plain(f, a) =>
        /\ f \notin mapped /\ private[f] = Marker
        /\ data[f] \in Chunk /\ AbdOf[data[f]] = a /\ sg[data[f]] = f
  BY <1>a DEF Plain
<1>c. \A b \in Abd : b = a => mtx[b] = None
  BY <1>1, Apart DEF IInv, MtxOK, MutexesOf, Joining
<1>d. \A r \in Reclaimer, c \in Chunk :
        (mtx'[AbdOf[c]] = r <=> mtx[AbdOf[c]] = r) /\ (mtx[AbdOf[c]] = r => sg'[c] = sg[c])
  BY <1>1, <1>c, Apart
<1>e. \A r \in Reclaimer : at'[r] = at[r] /\ at[r].todo \subseteq Chunk /\ data' = data
  BY <1>1, Apart DEF IInv, InHand
<1>2. Typed'
  BY <1>1, <1>a, <1>b, <1>c DEF IInv, Typed, AtState, Only
<1>3. HashOK'
  BY <1>1, <1>a, <1>b, <1>c DEF IInv, Typed, HashOK, OwnerSteps, MigratorSteps,
     UserSteps, ReclaimerSteps, Taking, Freeing, Locking, Midway, Migrating, WriteSteps,
     Only, Joining
<1>4. InHand'
  BY <1>1, <1>a, <1>b, <1>c DEF IInv, InHand, At, Taking, Midway, Only
<1>5. UseOK'
  BY Apart, <1>1, <1>a, <1>b, <1>c DEF IInv, UseOK, At, Freeing, WriteSteps, Frees,
     Exists, Only, Joining
<1>6. BindingOK'
  BY <1>1 DEF IInv, Typed, BindingOK, At, Only
<1>7. MtxOK'
  BY Apart, <1>1 DEF IInv, Typed, MtxOK, MutexesOf, At, Freeing, Taking, Frees, Exists,
     Only, Joining
<1>8. LockOK'
  BY Apart, <1>1 DEF IInv, LockOK, At, Midway, Locking, Taking, Only
<1>9. MappedOK'
  BY <1>1, <1>b, <1>c DEF IInv, MappedOK, At, Midway, Locking, Taking, Only
<1>10. PrivateOK'
  BY Apart, <1>1, <1>b DEF IInv, Typed, PrivateOK, At, Repointed, Taking,
     ReclaimerSteps, Freeing, Locking, Midway, Migrating, InHand, MappedOK, ChunksOK,
     ChunkOK, Exists, Only, Joining
<1>11. ChunksOK'
  BY Apart, <1>1, <1>a, <1>b DEF IInv, Typed, ChunksOK, ChunkOK, At, Exists, Only
<1>12. FreerOK'
  BY Apart, <1>1 DEF IInv, Typed, FreerOK, At, Freeing, Locking, Midway, Migrating,
     WriteSteps, UseOK, Frees, Exists, Only, Joining
<1>13. TakenOK'
  BY <1>d, <1>e DEF IInv, TakenOK, TakenBy, At
<1>14. CopyOK'
  BY <1>1, <1>a, <1>b, <1>c DEF IInv, Typed, CopyOK, At, HashOK, OwnerSteps,
     MigratorSteps, UserSteps, ReclaimerSteps, Taking, Freeing, Locking, Midway,
     Migrating, WriteSteps, InHand, LockOK, MappedOK, ChunksOK, ChunkOK, Exists, Only,
     Joining
<1>15. UserOK'
  BY Apart, <1>1, <1>a, <1>b, <1>c DEF IInv, Typed, UserOK, At, Locking, Midway,
     Migrating, WriteSteps, UseOK, Frees, Exists, Only, Joining
<1>16. Exact'
  <2>1. \A f : Several(f)' = Several(f)
    BY <1>1, Apart, SeveralSame
  <2>2. \A f \in Folio : Single(f)' = Single(f) - (IF Plain(f, a) THEN 2 ELSE 0)
    <3> SUFFICES ASSUME NEW f \in Folio
                 PROVE  Single(f)' = Single(f) - (IF Plain(f, a) THEN 2 ELSE 0)
      OBVIOUS
    <3>1. CASE Plain(f, a)
      <4>1. Named(f) /\ ~Named(f)'
        BY <1>1, <1>a, <3>1, Apart DEF Named, Plain, IInv, ChunksOK, ChunkOK
      <4> QED
        BY <1>1, <1>a, <3>1, <4>1, Apart DEF Single, CacheRefs, ChunkRefs, OwnerRefs,
             One, At,
           IInv, MappedOK, Plain
    <3>2. CASE ~Plain(f, a)
      <4>1. Named(f)' <=> Named(f)
        BY <1>1, <3>2, Apart DEF Named, Plain
      <4> QED
        BY <1>1, <3>2, <4>1, Apart DEF Single, CacheRefs, ChunkRefs, OwnerRefs, One, At
    <3> QED
      BY <3>1, <3>2
  <2>3. ASSUME NEW f \in Folio PROVE ref'[f] = Holders(f)'
    BY <1>1, <2>1, <2>2, HoldersAre, Apart DEF IInv, Typed, Exact
  <2> QED
    BY <2>3 DEF Exact
<1>17. GrabOK'
  BY <1>1, Apart, GrabSame DEF Only
<1> QED
  BY <1>2, <1>3, <1>4, <1>5, <1>6, <1>7, <1>8, <1>9, <1>10, <1>11, <1>12, <1>13, <1>14,
     <1>15, <1>16, <1>17 DEF IInv

-----------------------------------------------------------------------------
(* Page reclaim. *)

LEMMA BatchLockOK ==
  ASSUME Assumptions, IInv, NEW r \in Reclaimer, NEW f \in Folio, BatchLock(r, f)
  PROVE  IInv'
<1>1. /\ at[r].pc = "idle" /\ batch[r] = None /\ f \in mapped /\ lock[f] = None
      /\ \A u \in Reclaimer : f # at[u].folio /\ f # batch[u]
      /\ ref' = [ref EXCEPT ![f] = @ + 1]
      /\ lock' = [lock EXCEPT ![f] = r]
      /\ batch' = [batch EXCEPT ![r] = f]
      /\ UNCHANGED <<sg, private, mapped, data>>
      /\ UNCHANGED <<joined, prelocked, mtx, arg, reclaiming>>
      /\ UNCHANGED <<hash, hdr, gone, resident, orphan, refcnt, writing>>
      /\ UNCHANGED <<bio, grab, miscounted, at>>
  BY Apart DEF BatchLock, Isolated, Get, At, abdVars, hdrVars, heldVars, bioVars
<1>2. Typed'
  BY Apart, <1>1 DEF IInv, Typed, AtState, Only
<1>3. HashOK'
  BY <1>1 DEF IInv, HashOK, OwnerSteps, MigratorSteps, UserSteps, ReclaimerSteps,
     Taking, Freeing, Locking, Midway, Migrating, WriteSteps, Only, Joining
<1>4. InHand'
  BY Apart, <1>1 DEF IInv, Typed, InHand, At, Taking, Midway, Only
<1>5. UseOK'
  BY <1>1 DEF IInv, UseOK, At, Freeing, Frees, Exists, Only, Joining
<1>6. BindingOK'
  BY Apart, <1>1 DEF IInv, BindingOK, At, Only
<1>7. MtxOK'
  BY <1>1 DEF IInv, MtxOK, MutexesOf, At, Taking, Frees, Exists, Only, Joining
<1>8. LockOK'
  BY Apart, <1>1 DEF IInv, Typed, LockOK, At, Locking, Only
<1>9. MappedOK'
  BY <1>1 DEF IInv, Typed, MappedOK, At, Taking, Only
<1>10. PrivateOK'
  BY Apart, <1>1 DEF IInv, Typed, PrivateOK, At, Repointed, Taking, Only
<1>11. ChunksOK'
  BY <1>1 DEF IInv, ChunksOK, ChunkOK, At, Exists, Only
<1>12. FreerOK'
  BY <1>1 DEF IInv, Typed, FreerOK, At, Only, Joining
<1>13. TakenOK'
  BY Apart, <1>1 DEF IInv, Typed, TakenOK, TakenBy, At, Only
<1>14. CopyOK'
  BY <1>1 DEF IInv, Typed, CopyOK, At, Only
<1>15. UserOK'
  BY <1>1 DEF IInv, UserOK, At, Only
<1>16. Exact'
  <2>1. \A g \in Folio : Several(g)' = Several(g) + One(g = f)
    BY <1>1, BatchTaken
  <2>2. \A g \in Folio : Single(g)' = Single(g) 
    BY <1>1, SingleSame
  <2>3. ASSUME NEW g \in Folio PROVE ref'[g] = Holders(g)'
    BY <1>1, <2>1, <2>2, HoldersAre, Apart DEF IInv, Typed, Exact, One
  <2> QED
    BY <2>3 DEF Exact
<1>17. GrabOK'
  BY <1>1, Apart, GrabSame DEF Only
<1> QED
  BY <1>2, <1>3, <1>4, <1>5, <1>6, <1>7, <1>8, <1>9, <1>10, <1>11, <1>12, <1>13, <1>14,
     <1>15, <1>16, <1>17 DEF IInv

LEMMA BatchUnlockOK ==
  ASSUME Assumptions, IInv, NEW r \in Reclaimer, BatchUnlock(r)
  PROVE  IInv'
<1>1. /\ at[r].pc = "idle" /\ batch[r] \in Folio
      /\ ref' = [ref EXCEPT ![batch[r]] = @ - 1]
      /\ lock' = [lock EXCEPT ![batch[r]] = None]
      /\ batch' = [batch EXCEPT ![r] = None]
      /\ UNCHANGED <<sg, private, mapped, data>>
      /\ UNCHANGED <<joined, prelocked, mtx, arg, reclaiming>>
      /\ UNCHANGED <<hash, hdr, gone, resident, orphan, refcnt, writing>>
      /\ UNCHANGED <<bio, grab, miscounted, at>>
  BY Apart DEF BatchUnlock, Put, At, abdVars, hdrVars, IInv, Typed, heldVars, bioVars
<1>2. Typed'
  BY Apart, <1>1 DEF IInv, Typed, AtState, Only
<1>3. HashOK'
  BY <1>1 DEF IInv, Typed, HashOK, OwnerSteps, MigratorSteps, UserSteps, ReclaimerSteps,
     Taking, Freeing, Locking, Midway, Migrating, WriteSteps, Only, Joining
<1>4. InHand'
  BY Apart, <1>1 DEF IInv, InHand, At, Midway, Only
<1>5. UseOK'
  BY Apart, <1>1 DEF IInv, Typed, UseOK, At, Freeing, WriteSteps, Frees, Exists, Only,
       Joining
<1>6. BindingOK'
  BY <1>1 DEF IInv, Typed, BindingOK, At, Only
<1>7. MtxOK'
  BY <1>1 DEF IInv, Typed, MtxOK, MutexesOf, At, Freeing, Taking, Frees, Exists, Only,
       Joining
<1>8. LockOK'
  BY Apart, <1>1 DEF IInv, Typed, LockOK, At, Migrating, Midway, Locking, Taking,
     ReclaimerSteps, Freeing, WriteSteps, InHand, Only, Joining
<1>9. MappedOK'
  BY <1>1 DEF IInv, MappedOK, At, Locking, Taking, Only
<1>10. PrivateOK'
  BY <1>1 DEF IInv, PrivateOK, At, Repointed, Only
<1>11. ChunksOK'
  BY Apart, <1>1 DEF IInv, Typed, ChunksOK, ChunkOK, At, Freeing, Exists, Only, Joining
<1>12. FreerOK'
  BY <1>1 DEF IInv, FreerOK, At, Freeing, Only, Joining
<1>13. TakenOK'
  BY Apart, <1>1 DEF IInv, Typed, TakenOK, TakenBy, At, Only
<1>14. CopyOK'
  BY Apart, <1>1 DEF IInv, CopyOK, At, Only
<1>15. UserOK'
  BY <1>1 DEF IInv, Typed, UserOK, At, Only
<1>16. Exact'
  <2>1. \A f \in Folio : Several(f)' = Several(f) - One(f = batch[r])
    BY <1>1, BatchLetGo
  <2>2. \A f \in Folio : Single(f)' = Single(f) 
    BY <1>1, SingleSame
  <2>3. ASSUME NEW f \in Folio PROVE ref'[f] = Holders(f)'
    BY <1>1, <2>1, <2>2, HoldersAre, Apart DEF IInv, Typed, Exact, One
  <2> QED
    BY <2>3 DEF Exact
<1>17. GrabOK'
  BY <1>1, Apart, GrabSame DEF Only
<1> QED
  BY <1>2, <1>3, <1>4, <1>5, <1>6, <1>7, <1>8, <1>9, <1>10, <1>11, <1>12, <1>13, <1>14,
     <1>15, <1>16, <1>17 DEF IInv

LEMMA IsolateOK ==
  ASSUME Assumptions, IInv, NEW r \in Reclaimer, NEW f \in Folio, Isolate(r, f)
  PROVE  IInv'
<1>1. /\ at[r].pc = "idle" /\ f \in mapped /\ at[r].folio = None
      /\ \A u \in Reclaimer : f # at[u].folio /\ f # batch[u]
      /\ ref' = [ref EXCEPT ![f] = @ + 1]
      /\ UNCHANGED <<sg, lock, private, mapped, data>>
      /\ UNCHANGED <<joined, prelocked, mtx, arg, reclaiming>>
      /\ UNCHANGED <<hash, hdr, gone, resident, orphan, refcnt, writing>>
      /\ UNCHANGED <<bio, batch, grab, miscounted>>
  BY Apart DEF Isolate, Isolated, Get, At, abdVars, hdrVars, IInv, InHand, heldVars,
  bioVars
<1>2. /\ at'[r].pc = "isolated" /\ at'[r].abd = at[r].abd
      /\ at'[r].folio = f /\ at'[r].spare = at[r].spare
      /\ at'[r].todo = at[r].todo /\ at'[r].taken = at[r].taken
      /\ Only(r) /\ at' \in [Task -> AtState]
  <2>1. PICK e : e = [at[r] EXCEPT !.pc = "isolated", !.folio = f]
    OBVIOUS
  <2>2. /\ at[r] \in AtState
        /\ "isolated" \in Steps
        /\ f \in Folio \cup {None}
    BY <1>1, Apart, RestTyped DEF IInv, Typed, AtState, Steps, Chunks
  <2>3. /\ e \in AtState
        /\ e.pc = "isolated" /\ e.abd = at[r].abd
        /\ e.folio = f /\ e.spare = at[r].spare
        /\ e.todo = at[r].todo /\ e.taken = at[r].taken
    BY <2>1, <2>2, RestTyped DEF AtState
  <2>4. at' = [at EXCEPT ![r] = e]
    BY <2>1 DEF Isolate, Go, Finish
  <2>5. r \in Task
    BY Apart
  <2>6. at'[r] = e /\ Only(r) /\ at' \in [Task -> AtState]
    BY <2>3, <2>4, <2>5, Moves
  <2> QED
    BY <2>3, <2>6
<1>3. Typed'
  BY Apart, <1>1, <1>2 DEF IInv, Typed, AtState, Only
<1>4. HashOK'
  BY Apart, <1>1, <1>2 DEF IInv, HashOK, UserSteps, ReclaimerSteps, Taking, Freeing,
     Locking, Midway, Migrating, WriteSteps, Only, Joining
<1>5. InHand'
  BY Apart, <1>1, <1>2 DEF IInv, InHand, At, Taking, Midway, Only
<1>6. LockOK'
  BY Apart, <1>1, <1>2 DEF IInv, Typed, LockOK, At, Migrating, Midway, Locking, Taking,
     Only
<1>7. MappedOK'
  BY Apart, <1>1, <1>2 DEF IInv, Typed, MappedOK, At, Only
<1>8. PrivateOK'
  BY Apart, <1>1, <1>2 DEF IInv, PrivateOK, At, Repointed, Taking, Only
<1>9. TakenOK'
  BY Apart, <1>1, <1>2 DEF IInv, TakenOK, TakenBy, At, Only
<1>10. CopyOK'
  BY Apart, <1>1, <1>2 DEF IInv, Typed, CopyOK, At, Only
<1>11. Exact'
  <2>1. \A g \in Folio : Several(g)' = Several(g) + One(g = f)
    BY <1>1, <1>2, Apart, HandTaken
  <2>2. \A g \in Folio : Single(g)' = Single(g) 
    BY <1>1, <1>2, Apart, SingleSame DEF Only, Task
  <2>3. ASSUME NEW g \in Folio PROVE ref'[g] = Holders(g)'
    BY <1>1, <2>1, <2>2, HoldersAre, Apart DEF IInv, Typed, Exact, One
  <2> QED
    BY <2>3 DEF Exact
<1>12. UseOK' /\ BindingOK' /\ MtxOK' /\ ChunksOK' /\ FreerOK' /\ UserOK'
  BY <1>1, <1>2, Apart, BindingSame, ChunksSame, FreerSame, MtxSame, UseSame, UserSame
     DEF Frees, At, Taking, Freeing, Joining
<1>13. GrabOK'
  BY <1>1, <1>2, Apart, GrabSame DEF Only
<1> QED
  BY <1>3, <1>4, <1>5, <1>6, <1>7, <1>8, <1>9, <1>10, <1>11, <1>12, <1>13 DEF IInv

LEMMA LockFolioOK ==
  ASSUME Assumptions, IInv, NEW r \in Reclaimer, LockFolio(r), lock[at[r].folio] = None
  PROVE  IInv'
<1>1. /\ at[r].pc = "isolated" /\ at[r].folio \in Folio /\ lock[at[r].folio] = None
      /\ lock' = [lock EXCEPT ![at[r].folio] = r]
      /\ UNCHANGED <<sg, ref, private, mapped, data>>
      /\ UNCHANGED <<joined, prelocked, mtx, arg, reclaiming>>
      /\ UNCHANGED <<hash, hdr, gone, resident, orphan, refcnt, writing>>
      /\ UNCHANGED <<bio, batch, grab, miscounted>>
  BY Apart DEF LockFolio, At, abdVars, hdrVars, IInv, Typed, AtState, InHand, heldVars,
  bioVars
<1>2. /\ at'[r].pc = (IF at[r].folio \in mapped THEN "release" ELSE "fail")
      /\ at'[r].abd = at[r].abd
      /\ at'[r].folio = at[r].folio /\ at'[r].spare = at[r].spare
      /\ at'[r].todo = at[r].todo /\ at'[r].taken = at[r].taken
      /\ Only(r) /\ at' \in [Task -> AtState]
  <2>1. PICK e : e = [at[r] EXCEPT !.pc = (IF at[r].folio \in mapped THEN "release" ELSE "fail")]
    OBVIOUS
  <2>2. /\ at[r] \in AtState
        /\ (IF at[r].folio \in mapped THEN "release" ELSE "fail") \in Steps
    BY <1>1, Apart, RestTyped DEF IInv, Typed, AtState, Steps, Chunks
  <2>3. /\ e \in AtState
        /\ e.pc = (IF at[r].folio \in mapped THEN "release" ELSE "fail") /\ e.abd = at[r].abd
        /\ e.folio = at[r].folio /\ e.spare = at[r].spare
        /\ e.todo = at[r].todo /\ e.taken = at[r].taken
    BY <2>1, <2>2, RestTyped DEF AtState
  <2>4. at' = [at EXCEPT ![r] = e]
    BY <2>1 DEF LockFolio, Go, Finish
  <2>5. r \in Task
    BY Apart
  <2>6. at'[r] = e /\ Only(r) /\ at' \in [Task -> AtState]
    BY <2>3, <2>4, <2>5, Moves
  <2> QED
    BY <2>3, <2>6
<1>3. Typed'
  BY <1>1, <1>2 DEF IInv, Typed, AtState, Only
<1>4. HashOK'
  BY Apart, <1>1, <1>2 DEF IInv, Typed, HashOK, UserSteps, ReclaimerSteps, Taking,
     Locking, Midway, Migrating, Only
<1>5. InHand'
  BY Apart, <1>1, <1>2 DEF IInv, InHand, At, Taking, Only
<1>6. LockOK'
  BY Apart, <1>1, <1>2 DEF IInv, Typed, LockOK, At, Midway, Locking, Taking, Only
<1>7. MappedOK'
  BY Apart, <1>1, <1>2 DEF IInv, MappedOK, At, Midway, Locking, Only
<1>8. PrivateOK'
  BY Apart, <1>1, <1>2 DEF IInv, Typed, PrivateOK, At, Repointed, Taking, Only
<1>9. TakenOK'
  BY Apart, <1>1, <1>2 DEF IInv, TakenOK, TakenBy, At, Only
<1>10. Exact'
  BY <1>1, <1>2, Apart, CountsSame DEF Only
<1>11. UseOK' /\ BindingOK' /\ MtxOK' /\ ChunksOK' /\ FreerOK' /\ CopyOK' /\ UserOK'
  BY <1>1, <1>2, Apart, BindingSame, ChunksSame, CopySame, FreerSame, MtxSame, UseSame,
     UserSame DEF Frees, At, Taking, Freeing, Joining
<1>12. GrabOK'
  BY <1>1, <1>2, Apart, GrabSame DEF Only
<1> QED
  BY <1>3, <1>4, <1>5, <1>6, <1>7, <1>8, <1>9, <1>10, <1>11, <1>12 DEF IInv

LEMMA LockFolioFailsOK ==
  ASSUME Assumptions, IInv, NEW r \in Reclaimer, LockFolio(r), lock[at[r].folio] # None
  PROVE  IInv'
<1>1. /\ at[r].pc = "isolated" /\ at[r].folio \in Folio
      /\ ref' = [ref EXCEPT ![at[r].folio] = @ - 1]
      /\ UNCHANGED <<sg, lock, private, mapped, data>>
      /\ UNCHANGED <<joined, prelocked, mtx, arg, reclaiming>>
      /\ UNCHANGED <<hash, hdr, gone, resident, orphan, refcnt, writing>>
      /\ UNCHANGED <<bio, batch, grab, miscounted>>
  BY Apart DEF LockFolio, Put, At, abdVars, hdrVars, IInv, Typed, AtState, InHand,
  heldVars, bioVars
<1>2. /\ at'[r].pc = "idle" /\ at'[r].abd = None
      /\ at'[r].folio = None /\ at'[r].spare = None
      /\ at'[r].todo = {} /\ at'[r].taken = {}
      /\ Only(r) /\ at' \in [Task -> AtState]
  <2>1. PICK e : e = Rest
    OBVIOUS
  <2>2. /\ Rest \in AtState
    BY <1>1, Apart, RestTyped DEF IInv, Typed, AtState, Steps, Chunks
  <2>3. /\ e \in AtState
        /\ e.pc = "idle" /\ e.abd = None
        /\ e.folio = None /\ e.spare = None
        /\ e.todo = {} /\ e.taken = {}
    BY <2>1, <2>2, RestTyped DEF AtState
  <2>4. at' = [at EXCEPT ![r] = e]
    BY <2>1 DEF LockFolio, Go, Finish
  <2>5. r \in Task
    BY Apart
  <2>6. at'[r] = e /\ Only(r) /\ at' \in [Task -> AtState]
    BY <2>3, <2>4, <2>5, Moves
  <2> QED
    BY <2>3, <2>6
<1>a. at[r].taken = {} /\ at[r].spare = None
  BY <1>1 DEF IInv, InHand, Taking
<1>3. Typed'
  BY <1>1, <1>2 DEF IInv, Typed, AtState, Only
<1>4. HashOK'
  BY Apart, <1>1, <1>2 DEF IInv, HashOK, UserSteps, ReclaimerSteps, Taking, Freeing,
     Locking, Midway, Migrating, WriteSteps, Only, Joining
<1>5. InHand'
  BY Apart, <1>1, <1>2 DEF IInv, InHand, At, Only
<1>6. LockOK'
  BY Apart, <1>1, <1>2 DEF IInv, LockOK, At, Migrating, Midway, Locking, Taking,
     OwnerSteps, MigratorSteps, UserSteps, ReclaimerSteps, Freeing, WriteSteps, InHand,
     Only, Joining
<1>7. MappedOK'
  BY Apart, <1>1, <1>2 DEF IInv, MappedOK, At, Locking, Taking, Only
<1>8. PrivateOK'
  BY Apart, <1>1, <1>2 DEF IInv, PrivateOK, At, Repointed, Taking, Only
<1>9. Exact'
  <2>1. \A f \in Folio : Several(f)' = Several(f) - One(f = at[r].folio)
    <3>1. at'[r].taken = at[r].taken /\ at'[r].spare = at[r].spare
      BY <1>1, <1>2, <1>a
    <3> QED
      BY <1>1, <1>2, <3>1, HandLetGo
  <2>2. \A f \in Folio : Single(f)' = Single(f) 
    BY <1>1, <1>2, Apart, SingleSame DEF Only, Task
  <2>3. ASSUME NEW f \in Folio PROVE ref'[f] = Holders(f)'
    BY <1>1, <2>1, <2>2, HoldersAre, Apart DEF IInv, Typed, Exact, One
  <2> QED
    BY <2>3 DEF Exact
<1>10. /\ UseOK' /\ BindingOK' /\ MtxOK' /\ ChunksOK'
       /\ FreerOK' /\ TakenOK' /\ CopyOK' /\ UserOK'
  BY <1>1, <1>2, Apart, BindingSame, ChunksSame, CopySame, FreerSame, MtxSame,
     TakenSame, UseSame, UserSame DEF Frees, At, Taking, Freeing, Joining
<1>11. GrabOK'
  BY <1>1, <1>2, Apart, GrabSame DEF Only
<1> QED
  BY <1>3, <1>4, <1>5, <1>6, <1>7, <1>8, <1>9, <1>10, <1>11 DEF IInv

LEMMA CheckCountOK ==
  ASSUME Assumptions, IInv, NEW r \in Reclaimer, CheckCount(r)
  PROVE  IInv'
<1>1. /\ at[r].pc = "release" /\ at[r].folio \in Folio
      /\ UNCHANGED <<sg, ref, lock, private, mapped, data>>
      /\ UNCHANGED <<joined, prelocked, mtx, arg, reclaiming>>
      /\ UNCHANGED <<hash, hdr, gone, resident, orphan, refcnt, writing>>
      /\ UNCHANGED <<bio, batch, grab, miscounted>>
  BY Apart DEF CheckCount, At, folioVars, abdVars, hdrVars, IInv, Typed, AtState,
  InHand, heldVars, bioVars
<1>2. /\ at'[r].pc = (IF private[at[r].folio] = None THEN "remove"
                        ELSE IF ref[at[r].folio] = Pages + 2 THEN "trymtx" ELSE "fail")
      /\ at'[r].abd = private[at[r].folio]
      /\ at'[r].folio = at[r].folio /\ at'[r].spare = at[r].spare
      /\ at'[r].todo = at[r].todo /\ at'[r].taken = at[r].taken
      /\ Only(r) /\ at' \in [Task -> AtState]
  <2>1. PICK e : e = [at[r] EXCEPT !.pc = (IF private[at[r].folio] = None THEN "remove"
                        ELSE IF ref[at[r].folio] = Pages + 2 THEN "trymtx" ELSE "fail"),
                            !.abd = private[at[r].folio]]
    OBVIOUS
  <2>2. /\ at[r] \in AtState
        /\ (IF private[at[r].folio] = None THEN "remove"
                        ELSE IF ref[at[r].folio] = Pages + 2 THEN "trymtx" ELSE "fail") \in Steps
        /\ private[at[r].folio] \in Abd \cup {Marker, None}
    BY <1>1, Apart, RestTyped DEF IInv, Typed, AtState, Steps, Chunks
  <2>3. /\ e \in AtState
        /\ e.pc = (IF private[at[r].folio] = None THEN "remove"
                        ELSE IF ref[at[r].folio] = Pages + 2 THEN "trymtx" ELSE "fail")
        /\ e.abd = private[at[r].folio]
        /\ e.folio = at[r].folio /\ e.spare = at[r].spare
        /\ e.todo = at[r].todo /\ e.taken = at[r].taken
    BY <2>1, <2>2, RestTyped DEF AtState
  <2>4. at' = [at EXCEPT ![r] = e]
    BY <2>1 DEF CheckCount, Go, Finish
  <2>5. r \in Task
    BY Apart
  <2>6. at'[r] = e /\ Only(r) /\ at' \in [Task -> AtState]
    BY <2>3, <2>4, <2>5, Moves
  <2> QED
    BY <2>3, <2>6
<1>a. at'[r].pc \in {"remove", "trymtx", "fail"}
  BY <1>2
<1>b. /\ at'[r].pc = "remove" => at'[r].abd = None
      /\ at'[r].pc = "trymtx" => at'[r].abd \in Abd
  BY <1>1, <1>2, Apart DEF IInv, Typed, PrivateOK, MappedOK, Locking, Taking
<1>3. Typed'
  BY Apart, <1>1, <1>2 DEF IInv, Typed, AtState, Only
<1>4. HashOK'
  BY Apart, <1>1, <1>2 DEF IInv, HashOK, MigratorSteps, UserSteps, ReclaimerSteps,
     Taking, Freeing, Locking, Midway, Migrating, WriteSteps, Only, Joining
<1>5. InHand'
  BY Apart, <1>1, <1>2 DEF IInv, InHand, At, Taking, Only
<1>6. MtxOK'
  BY Apart, <1>1, <1>2, <1>b DEF IInv, Typed, MtxOK, MutexesOf, At, Taking, Frees,
     Exists, Only, Joining
<1>7. LockOK'
  BY Apart, <1>1, <1>2, <1>a DEF IInv, Typed, LockOK, At, Midway, Locking, Taking, Only
<1>8. MappedOK'
  BY Apart, <1>1, <1>2 DEF IInv, Typed, MappedOK, At, Locking, Taking, Only
<1>9. PrivateOK'
  BY Apart, <1>1, <1>2 DEF IInv, Typed, PrivateOK, At, Repointed, Taking, Only
<1>10. TakenOK'
  BY Apart, <1>1, <1>2 DEF IInv, Typed, TakenOK, TakenBy, At, Only
<1>11. Exact'
  BY <1>1, <1>2, Apart, CountsSame DEF Only
<1>12. UseOK' /\ BindingOK' /\ ChunksOK' /\ FreerOK' /\ CopyOK' /\ UserOK'
  BY <1>1, <1>2, Apart, BindingSame, ChunksSame, CopySame, FreerSame, UseSame, UserSame
     DEF Frees, At, Taking, Freeing, Joining
<1>13. GrabOK'
  BY <1>1, <1>2, Apart, GrabSame DEF Only
<1> QED
  BY <1>3, <1>4, <1>5, <1>6, <1>7, <1>8, <1>9, <1>10, <1>11, <1>12, <1>13 DEF IInv

LEMMA TryMtxOK ==
  ASSUME Assumptions, IInv, NEW r \in Reclaimer, TryMtx(r), mtx[at[r].abd] = None
  PROVE  IInv'
<1>1. /\ at[r].pc = "trymtx" /\ at[r].abd \in Abd /\ mtx[at[r].abd] = None
      /\ mtx' = [mtx EXCEPT ![at[r].abd] = r]
      /\ UNCHANGED <<sg, ref, lock, private, mapped, data>>
      /\ UNCHANGED <<hash, hdr, gone, resident, orphan, refcnt, writing>>
      /\ UNCHANGED <<joined, prelocked, arg, reclaiming, bio, batch, grab, miscounted>>
  BY Apart DEF TryMtx, At, folioVars, hdrVars, IInv, MtxOK, MutexesOf, heldVars,
  bioVars, Joining
<1>2. /\ at'[r].pc = "header" /\ at'[r].abd = at[r].abd
      /\ at'[r].folio = at[r].folio /\ at'[r].spare = at[r].spare
      /\ at'[r].todo = at[r].todo /\ at'[r].taken = at[r].taken
      /\ Only(r) /\ at' \in [Task -> AtState]
  <2>1. PICK e : e = [at[r] EXCEPT !.pc = "header"]
    OBVIOUS
  <2>2. /\ at[r] \in AtState
        /\ "header" \in Steps
    BY <1>1, Apart, RestTyped DEF IInv, Typed, AtState, Steps, Chunks
  <2>3. /\ e \in AtState
        /\ e.pc = "header" /\ e.abd = at[r].abd
        /\ e.folio = at[r].folio /\ e.spare = at[r].spare
        /\ e.todo = at[r].todo /\ e.taken = at[r].taken
    BY <2>1, <2>2, RestTyped DEF AtState
  <2>4. at' = [at EXCEPT ![r] = e]
    BY <1>1, <2>1 DEF TryMtx, Go
  <2>5. r \in Task
    BY Apart
  <2>6. at'[r] = e /\ Only(r) /\ at' \in [Task -> AtState]
    BY <2>3, <2>4, <2>5, Moves
  <2> QED
    BY <2>3, <2>6
<1>a. at[r].abd \in joined
  BY <1>1, Apart DEF IInv, PrivateOK, InHand, Typed, AtState
<1>3. Typed'
  BY <1>1, <1>2 DEF IInv, Typed, AtState, Only
<1>4. HashOK'
  BY Apart, <1>1, <1>2 DEF IInv, Typed, HashOK, MigratorSteps, ReclaimerSteps, Taking,
     Freeing, Locking, Midway, Migrating, WriteSteps, Only, Joining
<1>5. InHand'
  BY Apart, <1>1, <1>2 DEF IInv, InHand, At, Taking, Midway, Only
<1>6. MtxOK'
  BY Apart, <1>1, <1>2, <1>a DEF IInv, Typed, MtxOK, MutexesOf, At, Taking, Frees,
     Exists, Only, Joining
<1>7. LockOK'
  BY Apart, <1>1, <1>2 DEF IInv, Typed, LockOK, At, Migrating, Locking, Only
<1>8. MappedOK'
  BY Apart, <1>1, <1>2 DEF IInv, Typed, MappedOK, At, Locking, Taking, Only
<1>9. PrivateOK'
  BY Apart, <1>1, <1>2 DEF IInv, PrivateOK, At, Repointed, Only
<1>10. TakenOK'
  BY Apart, <1>1, <1>2 DEF IInv, Typed, TakenOK, TakenBy, At, Only
<1>11. Exact'
  BY <1>1, <1>2, Apart, CountsSame DEF Only
<1>12. UseOK' /\ BindingOK' /\ ChunksOK' /\ FreerOK' /\ CopyOK' /\ UserOK'
  BY <1>1, <1>2, Apart, BindingSame, ChunksSame, CopySame, FreerSame, UseSame, UserSame
     DEF Frees, At, Taking, Freeing, Joining
<1>13. GrabOK'
  BY <1>1, <1>2, Apart, GrabSame DEF Only
<1> QED
  BY <1>3, <1>4, <1>5, <1>6, <1>7, <1>8, <1>9, <1>10, <1>11, <1>12, <1>13 DEF IInv

LEMMA TryMtxFailsOK ==
  ASSUME Assumptions, IInv, NEW r \in Reclaimer, TryMtx(r), mtx[at[r].abd] # None
  PROVE  IInv'
<1>1. /\ at[r].pc = "trymtx" /\ at[r].abd \in Abd /\ mtx[at[r].abd] # None
      /\ UNCHANGED <<sg, ref, lock, private, mapped, data>>
      /\ UNCHANGED <<joined, prelocked, mtx, arg, reclaiming>>
      /\ UNCHANGED <<hash, hdr, gone, resident, orphan, refcnt, writing>>
      /\ UNCHANGED <<bio, batch, grab, miscounted>>
  BY Apart DEF TryMtx, At, folioVars, hdrVars, IInv, MtxOK, MutexesOf, heldVars,
  bioVars, Joining
<1>2. /\ at'[r].pc = "fail" /\ at'[r].abd = at[r].abd
      /\ at'[r].folio = at[r].folio /\ at'[r].spare = at[r].spare
      /\ at'[r].todo = at[r].todo /\ at'[r].taken = at[r].taken
      /\ Only(r) /\ at' \in [Task -> AtState]
  <2>1. PICK e : e = [at[r] EXCEPT !.pc = "fail"]
    OBVIOUS
  <2>2. /\ at[r] \in AtState
        /\ "fail" \in Steps
    BY <1>1, Apart, RestTyped DEF IInv, Typed, AtState, Steps, Chunks
  <2>3. /\ e \in AtState
        /\ e.pc = "fail" /\ e.abd = at[r].abd
        /\ e.folio = at[r].folio /\ e.spare = at[r].spare
        /\ e.todo = at[r].todo /\ e.taken = at[r].taken
    BY <2>1, <2>2, RestTyped DEF AtState
  <2>4. at' = [at EXCEPT ![r] = e]
    BY <1>1, <2>1 DEF TryMtx, Go
  <2>5. r \in Task
    BY Apart
  <2>6. at'[r] = e /\ Only(r) /\ at' \in [Task -> AtState]
    BY <2>3, <2>4, <2>5, Moves
  <2> QED
    BY <2>3, <2>6
<1>3. Typed'
  BY <1>1, <1>2 DEF IInv, Typed, AtState, Only
<1>4. HashOK'
  BY Apart, <1>1, <1>2 DEF IInv, Typed, HashOK, OwnerSteps, MigratorSteps,
     ReclaimerSteps, Taking, Freeing, Locking, WriteSteps, Only, Joining
<1>5. InHand'
  BY Apart, <1>1, <1>2 DEF IInv, InHand, At, Taking, Only
<1>6. LockOK'
  BY Apart, <1>1, <1>2 DEF IInv, Typed, LockOK, At, Migrating, Locking, Only
<1>7. MappedOK'
  BY Apart, <1>1, <1>2 DEF IInv, Typed, MappedOK, At, Locking, Only
<1>8. PrivateOK'
  BY Apart, <1>1, <1>2 DEF IInv, PrivateOK, At, Repointed, Taking, Only
<1>9. TakenOK'
  BY Apart, <1>1, <1>2 DEF IInv, TakenOK, TakenBy, At, Only
<1>10. Exact'
  BY <1>1, <1>2, Apart, CountsSame DEF Only
<1>11. UseOK' /\ BindingOK' /\ MtxOK' /\ ChunksOK' /\ FreerOK' /\ CopyOK' /\ UserOK'
  BY <1>1, <1>2, Apart, BindingSame, ChunksSame, CopySame, FreerSame, MtxSame, UseSame,
     UserSame DEF Frees, At, Taking, Freeing, Joining
<1>12. GrabOK'
  BY <1>1, <1>2, Apart, GrabSame DEF Only
<1> QED
  BY <1>3, <1>4, <1>5, <1>6, <1>7, <1>8, <1>9, <1>10, <1>11, <1>12 DEF IInv

LEMMA LockHeaderOK ==
  ASSUME Assumptions, IInv, NEW r \in Reclaimer, LockHeader(r), arg[at[r].abd] # None,
     hash = None
  PROVE  IInv'
<1>1. /\ at[r].pc = "header" /\ at[r].abd \in Abd /\ hash = None /\ arg[at[r].abd] # None
      /\ hash' = r
      /\ UNCHANGED <<sg, ref, lock, private, mapped, data>>
      /\ UNCHANGED <<joined, prelocked, mtx, arg, reclaiming>>
      /\ UNCHANGED <<hdr, gone, resident, orphan, refcnt, writing>>
      /\ UNCHANGED <<bio, batch, grab, miscounted>>
  BY Apart DEF LockHeader, HeaderLocked, At, folioVars, IInv, MtxOK, MutexesOf,
  heldVars, bioVars, Joining
<1>2. /\ at'[r].pc = "siblings" /\ at'[r].abd = at[r].abd
      /\ at'[r].folio = at[r].folio /\ at'[r].spare = at[r].spare
      /\ at'[r].todo = Chunks({at[r].abd}) \ NamedBy(at[r].folio) /\ at'[r].taken = at[r].taken
      /\ Only(r) /\ at' \in [Task -> AtState]
  <2>1. PICK e : e = [at[r] EXCEPT !.pc = "siblings",
                            !.todo = Chunks({at[r].abd}) \ NamedBy(at[r].folio)]
    OBVIOUS
  <2>2. /\ at[r] \in AtState
        /\ "siblings" \in Steps
        /\ Chunks({at[r].abd}) \ NamedBy(at[r].folio) \subseteq Chunk \cup Abd
    BY <1>1, Apart, RestTyped DEF IInv, Typed, AtState, Steps, Chunks
  <2>3. /\ e \in AtState
        /\ e.pc = "siblings" /\ e.abd = at[r].abd
        /\ e.folio = at[r].folio /\ e.spare = at[r].spare
        /\ e.todo = Chunks({at[r].abd}) \ NamedBy(at[r].folio) /\ e.taken = at[r].taken
    BY <2>1, <2>2, RestTyped DEF AtState
  <2>4. at' = [at EXCEPT ![r] = e]
    BY <2>1 DEF LockHeader, HeaderLocked, Go, Finish
  <2>5. r \in Task
    BY Apart
  <2>6. at'[r] = e /\ Only(r) /\ at' \in [Task -> AtState]
    BY <2>3, <2>4, <2>5, Moves
  <2> QED
    BY <2>3, <2>6
<1>a. mtx[at[r].abd] = r /\ arg[at[r].abd] = hdr /\ at[r].abd \in resident \cap joined
  BY <1>1, Apart DEF IInv, MtxOK, MutexesOf, BindingOK, HashOK, At, Joining
<1>b. /\ at'[r].todo \subseteq Chunk
      /\ \A c \in at'[r].todo : AbdOf[c] = at[r].abd
      /\ \A c \in Chunk : AbdOf[c] = at[r].abd /\ sg[c] # at[r].folio => c \in at'[r].todo
  BY <1>2 DEF Chunks, NamedBy
<1>c. \A c \in Chunk : mtx[AbdOf[c]] = r => AbdOf[c] = at[r].abd
  BY <1>1, Apart DEF IInv, MtxOK, MutexesOf, Frees, At, Joining
<1>d. /\ at'[r].pc = "siblings" /\ at'[r].folio = at[r].folio /\ at'[r].spare = at[r].spare
      /\ at'[r].taken = at[r].taken /\ \A t \in Task \ {r} : at'[t] = at[t]
  BY <1>2 DEF Only
<1>3. Typed'
  BY <1>1, <1>2, <1>b DEF IInv, Typed, AtState, Only
<1>4. HashOK'
  BY Apart, <1>1, <1>2 DEF IInv, Typed, HashOK, MigratorSteps, UserSteps,
     ReclaimerSteps, Taking, Freeing, Locking, Midway, Migrating, WriteSteps, Only,
     Joining
<1>5. InHand'
  BY Apart, <1>1, <1>b, <1>d DEF IInv, InHand, At, Taking
<1>6. UseOK'
  BY Apart, <1>1, <1>2 DEF IInv, UseOK, At, Freeing, WriteSteps, Frees, Exists, Taking,
     Migrating, MtxOK, MutexesOf, Only, Joining
<1>7. BindingOK'
  BY Apart, <1>1, <1>2, <1>a, <1>b DEF IInv, Typed, BindingOK, At, Only
<1>8. MtxOK'
  BY Apart, <1>1, <1>2, <1>a DEF IInv, MtxOK, MutexesOf, At, Freeing, Taking, Frees,
     Exists, Only, Joining
<1>9. LockOK'
  BY Apart, <1>1, <1>2 DEF IInv, Typed, LockOK, At, Migrating, Midway, Locking, Taking,
     Only
<1>10. MappedOK'
  BY Apart, <1>1, <1>2 DEF IInv, Typed, MappedOK, At, Midway, Locking, Only
<1>11. PrivateOK'
  BY Apart, <1>1, <1>2, <1>a DEF IInv, PrivateOK, At, Repointed, Taking, Only
<1>12. TakenOK'
  BY <1>1, <1>a, <1>b, <1>c, <1>d DEF IInv, TakenOK, TakenBy, At, Task
<1>13. Exact'
  BY <1>1, <1>2, Apart, CountsSame DEF Only
<1>14. ChunksOK' /\ FreerOK' /\ CopyOK' /\ UserOK'
  BY <1>1, <1>2, Apart, ChunksSame, CopySame, FreerSame, UserSame DEF Freeing, Joining
<1>15. GrabOK'
  BY <1>1, <1>2, Apart, GrabSame DEF Only
<1> QED
  BY <1>3, <1>4, <1>5, <1>6, <1>7, <1>8, <1>9, <1>10, <1>11, <1>12, <1>13, <1>14,
       <1>15 DEF
     IInv

LEMMA LockHeaderFailsOK ==
  ASSUME Assumptions, IInv, NEW r \in Reclaimer, LockHeader(r), ~(arg[at[r].abd] # None
     /\ hash = None)
  PROVE  IInv'
<1>1. /\ at[r].pc = "header" /\ at[r].abd \in Abd /\ mtx[at[r].abd] = r
      /\ mtx' = [mtx EXCEPT ![at[r].abd] = None]
      /\ UNCHANGED <<sg, ref, lock, private, mapped, data>>
      /\ UNCHANGED <<hash, hdr, gone, resident, orphan, refcnt, writing>>
      /\ UNCHANGED <<joined, prelocked, arg, reclaiming, bio, batch, grab, miscounted>>
  BY Apart DEF LockHeader, HeaderLocked, At, folioVars, hdrVars, IInv, MtxOK,
  MutexesOf, heldVars, bioVars, Joining
<1>2. /\ at'[r].pc = "fail" /\ at'[r].abd = at[r].abd
      /\ at'[r].folio = at[r].folio /\ at'[r].spare = at[r].spare
      /\ at'[r].todo = at[r].todo /\ at'[r].taken = at[r].taken
      /\ Only(r) /\ at' \in [Task -> AtState]
  <2>1. PICK e : e = [at[r] EXCEPT !.pc = "fail"]
    OBVIOUS
  <2>2. /\ at[r] \in AtState
        /\ "fail" \in Steps
    BY <1>1, Apart, RestTyped DEF IInv, Typed, AtState, Steps, Chunks
  <2>3. /\ e \in AtState
        /\ e.pc = "fail" /\ e.abd = at[r].abd
        /\ e.folio = at[r].folio /\ e.spare = at[r].spare
        /\ e.todo = at[r].todo /\ e.taken = at[r].taken
    BY <2>1, <2>2, RestTyped DEF AtState
  <2>4. at' = [at EXCEPT ![r] = e]
    BY <2>1 DEF LockHeader, HeaderLocked, Go, Finish
  <2>5. r \in Task
    BY Apart
  <2>6. at'[r] = e /\ Only(r) /\ at' \in [Task -> AtState]
    BY <2>3, <2>4, <2>5, Moves
  <2> QED
    BY <2>3, <2>6
<1>3. Typed'
  BY <1>1, <1>2 DEF IInv, Typed, AtState, Only
<1>4. HashOK'
  BY Apart, <1>1, <1>2 DEF IInv, Typed, HashOK, OwnerSteps, MigratorSteps, UserSteps,
     ReclaimerSteps, Taking, Freeing, Locking, Midway, Migrating, WriteSteps, Only,
     Joining
<1>5. InHand'
  BY Apart, <1>1, <1>2 DEF IInv, InHand, At, Taking, Midway, Only
<1>6. MtxOK'
  BY Apart, <1>1, <1>2 DEF IInv, Typed, MtxOK, MutexesOf, At, Freeing, Taking, Frees,
     Exists, HashOK, OwnerSteps, MigratorSteps, UserSteps, Only, Joining
<1>7. LockOK'
  BY Apart, <1>1, <1>2 DEF IInv, Typed, LockOK, At, Migrating, Midway, Locking, Taking,
     Only
<1>8. MappedOK'
  BY Apart, <1>1, <1>2 DEF IInv, MappedOK, At, Only
<1>9. PrivateOK'
  BY Apart, <1>1, <1>2 DEF IInv, Typed, PrivateOK, At, Repointed, Only
<1>10. TakenOK'
  BY Apart, <1>1, <1>2 DEF IInv, TakenOK, TakenBy, At, HashOK, MigratorSteps, Taking,
     Freeing, Locking, Midway, Migrating, WriteSteps, InHand, Only, Joining
<1>11. Exact'
  BY <1>1, <1>2, Apart, CountsSame DEF Only
<1>12. UseOK' /\ BindingOK' /\ ChunksOK' /\ FreerOK' /\ CopyOK' /\ UserOK'
  BY <1>1, <1>2, Apart, BindingSame, ChunksSame, CopySame, FreerSame, UseSame, UserSame
     DEF Frees, At, Taking, Freeing, Joining
<1>13. GrabOK'
  BY <1>1, <1>2, Apart, GrabSame DEF Only
<1> QED
  BY <1>3, <1>4, <1>5, <1>6, <1>7, <1>8, <1>9, <1>10, <1>11, <1>12, <1>13 DEF IInv

LEMMA GrabSiblingOK ==
  ASSUME Assumptions, IInv, NEW r \in Reclaimer, NEW c \in Chunk, GrabSibling(r, c)
  PROVE  IInv'
<1>1. /\ at[r].pc = "siblings" /\ Grabbed(r, c) /\ Take(r)
      /\ c \in at[r].todo /\ grab[r].folio = sg[c]
      /\ UNCHANGED <<sg, ref, lock, private, mapped, data>>
      /\ UNCHANGED <<joined, prelocked, mtx, arg, reclaiming>>
      /\ UNCHANGED <<hash, hdr, gone, resident, orphan, refcnt, writing>>
      /\ UNCHANGED <<bio, batch, miscounted>>
  BY Apart, Grabbing DEF GrabSibling, At, folioVars, abdVars, hdrVars, heldVars, bioVars
<1>2. /\ at'[r].pc = "trylock" /\ at'[r].abd = at[r].abd
      /\ at'[r].folio = at[r].folio /\ at'[r].spare = sg[c]
      /\ at'[r].todo = at[r].todo /\ at'[r].taken = at[r].taken
      /\ Only(r) /\ at' \in [Task -> AtState]
  <2>1. PICK e : e = [at[r] EXCEPT !.pc = "trylock", !.spare = sg[c]]
    OBVIOUS
  <2>2. /\ at[r] \in AtState
        /\ "trylock" \in Steps
        /\ sg[c] \in Folio \cup Hdr \cup {None}
    BY <1>1, Apart, RestTyped DEF IInv, Typed, AtState, Steps, Chunks
  <2>3. /\ e \in AtState
        /\ e.pc = "trylock" /\ e.abd = at[r].abd
        /\ e.folio = at[r].folio /\ e.spare = sg[c]
        /\ e.todo = at[r].todo /\ e.taken = at[r].taken
    BY <2>1, <2>2, RestTyped DEF AtState
  <2>4. at' = [at EXCEPT ![r] = e]
    BY <1>1, <2>1 DEF GrabSibling
  <2>5. r \in Task
    BY Apart
  <2>6. at'[r] = e /\ Only(r) /\ at' \in [Task -> AtState]
    BY <2>3, <2>4, <2>5, Moves
  <2> QED
    BY <2>3, <2>6
<1>a. mtx[AbdOf[c]] = r /\ at[r].spare = None /\ sg[c] \in Folio /\ data[sg[c]] = c
  BY <1>1, Apart, Grabbing DEF IInv, TakenOK, TakenBy, InHand
<1>g. /\ grab[r].held /\ sg[c] \in Folio /\ data[sg[c]] = c
      /\ grab'[r] = Idle /\ grab' \in [Task -> GrabState]
      /\ \A u \in Task \ {r} : grab'[u] = grab[u]
  BY <1>1, Apart, Grabbing
<1>3. Typed'
  BY <1>1, <1>2, <1>g, <1>a DEF IInv, Typed, AtState, Only
<1>4. HashOK'
  BY Apart, <1>1, <1>2, <1>a DEF IInv, HashOK, MigratorSteps, ReclaimerSteps, Taking,
     Freeing, Locking, Migrating, Only, Joining
<1>5. InHand'
  BY Apart, <1>1, <1>2, <1>a DEF IInv, InHand, At, Taking, Only
<1>6. MtxOK'
  BY Apart, <1>1, <1>2, <1>a DEF IInv, MtxOK, MutexesOf, At, Freeing, Taking, Frees,
     Exists, Only, Joining
<1>7. LockOK'
  BY Apart, <1>1, <1>2 DEF IInv, LockOK, At, Locking, Taking, Only
<1>8. MappedOK'
  BY Apart, <1>1, <1>2, <1>a DEF IInv, Typed, MappedOK, At, Midway, Locking, Taking,
     Only
<1>9. PrivateOK'
  BY Apart, <1>1, <1>2 DEF IInv, PrivateOK, At, Repointed, Taking, Only
<1>10. TakenOK'
  BY Apart, <1>1, <1>2, <1>a DEF IInv, TakenOK, TakenBy, At, Only
<1>11. CopyOK'
  BY Apart, <1>1, <1>2, <1>a DEF IInv, Typed, CopyOK, At, Only
<1>12. Exact'
  <2>1. \A f \in Folio : Several(f)' = Several(f)
    BY <1>1, <1>2, <1>a, <1>g, Apart, SiblingGrabbed
  <2>2. \A f \in Folio : Single(f)' = Single(f) 
    BY <1>1, <1>2, Apart, SingleSame DEF Only, Task
  <2>3. ASSUME NEW f \in Folio PROVE ref'[f] = Holders(f)'
    BY <1>1, <1>a, <2>1, <2>2, HoldersAre, Apart DEF IInv, Typed, Exact, One
  <2> QED
    BY <2>3 DEF Exact
<1>13. UseOK' /\ BindingOK' /\ ChunksOK' /\ FreerOK' /\ UserOK'
  BY <1>1, <1>2, Apart, BindingSame, ChunksSame, FreerSame, UseSame, UserSame DEF Frees,
     At, Taking, Freeing, Joining
<1>14. GrabOK'
  BY <1>2, <1>g, Apart, GrabbedSame
<1> QED
  BY <1>3, <1>4, <1>5, <1>6, <1>7, <1>8, <1>9, <1>10, <1>11, <1>12, <1>13,
       <1>14 DEF IInv

LEMMA TrySiblingOK ==
  ASSUME Assumptions, IInv, NEW r \in Reclaimer, TrySibling(r), lock[at[r].spare] =
     None, NamedBy(at[r].spare) # {}
  PROVE  IInv'
<1>1. /\ at[r].pc = "trylock" /\ at[r].spare \in Folio /\ lock[at[r].spare] = None
      /\ Named(at[r].spare)
      /\ lock' = [lock EXCEPT ![at[r].spare] = r]
      /\ UNCHANGED <<sg, ref, private, mapped, data>>
      /\ UNCHANGED <<joined, prelocked, mtx, arg, reclaiming>>
      /\ UNCHANGED <<hash, hdr, gone, resident, orphan, refcnt, writing>>
      /\ UNCHANGED <<bio, batch, grab, miscounted>>
  BY Apart DEF TrySibling, At, abdVars, hdrVars, Named, NamedBy, IInv, Typed, AtState,
     InHand, heldVars, bioVars
<1>2. /\ at'[r].pc = "siblings" /\ at'[r].abd = at[r].abd
      /\ at'[r].folio = at[r].folio /\ at'[r].spare = None
      /\ at'[r].todo = at[r].todo \ NamedBy(at[r].spare)
      /\ at'[r].taken = at[r].taken \cup {at[r].spare}
      /\ Only(r) /\ at' \in [Task -> AtState]
  <2>1. PICK e : e = [at[r] EXCEPT !.pc = "siblings", !.spare = None,
                            !.todo = at[r].todo \ NamedBy(at[r].spare),
                            !.taken = at[r].taken \cup {at[r].spare}]
    OBVIOUS
  <2>2. /\ at[r] \in AtState
        /\ "siblings" \in Steps
        /\ None \in Folio \cup Hdr \cup {None}
        /\ at[r].todo \ NamedBy(at[r].spare) \subseteq Chunk \cup Abd
        /\ at[r].taken \cup {at[r].spare} \subseteq Folio \cup Chunk
    BY <1>1, Apart, RestTyped DEF IInv, Typed, AtState, Steps, Chunks
  <2>3. /\ e \in AtState
        /\ e.pc = "siblings" /\ e.abd = at[r].abd
        /\ e.folio = at[r].folio /\ e.spare = None
        /\ e.todo = at[r].todo \ NamedBy(at[r].spare)
        /\ e.taken = at[r].taken \cup {at[r].spare}
    BY <2>1, <2>2, RestTyped DEF AtState
  <2>4. at' = [at EXCEPT ![r] = e]
    BY <1>1, <2>1 DEF TrySibling
  <2>5. r \in Task
    BY Apart
  <2>6. at'[r] = e /\ Only(r) /\ at' \in [Task -> AtState]
    BY <2>3, <2>4, <2>5, Moves
  <2> QED
    BY <2>3, <2>6
<1>a. /\ data[at[r].spare] \in at[r].todo /\ data[at[r].spare] \in Chunk
      /\ sg[data[at[r].spare]] = at[r].spare /\ mtx[AbdOf[data[at[r].spare]]] = r
      /\ NamedBy(at[r].spare) = {data[at[r].spare]}
  BY <1>1, Apart DEF IInv, Typed, TakenOK, TakenBy, ChunksOK, ChunkOK, At, Named,
       NamedBy
<1>b. /\ at[r].spare \notin at[r].taken /\ at[r].spare # at[r].folio /\ batch[r] # at[r].spare
      /\ at[r].taken \subseteq Folio
  BY <1>1, Apart DEF IInv, Typed, LockOK, Locking, Taking, InHand
<1>3. Typed'
  BY <1>1, <1>2, <1>b DEF IInv, Typed, AtState, Only
<1>4. HashOK'
  BY Apart, <1>1, <1>2 DEF IInv, Typed, HashOK, MigratorSteps, ReclaimerSteps, Taking,
     Freeing, Locking, Midway, Only, Joining
<1>5. InHand'
  BY Apart, <1>1, <1>2, <1>b DEF IInv, InHand, At, Taking, Only
<1>6. MtxOK'
  BY Apart, <1>1, <1>2 DEF IInv, Typed, MtxOK, MutexesOf, At, Taking, Frees, Exists,
     Only, Joining
<1>7. LockOK'
  BY Apart, <1>1, <1>2 DEF IInv, Typed, LockOK, At, Locking, Taking, Only
<1>8. MappedOK'
  BY Apart, <1>1, <1>2 DEF IInv, Typed, MappedOK, At, Midway, Locking, Taking, Only
<1>9. PrivateOK'
  BY Apart, <1>1, <1>2 DEF IInv, Typed, PrivateOK, At, Repointed, Taking, Only
<1>10. TakenOK'
  BY Apart, <1>1, <1>2, <1>a, <1>b DEF IInv, Typed, TakenOK, TakenBy, At, Only
<1>11. Exact'
  <2>1. \A f \in Folio : Several(f)' = Several(f)
    BY <1>1, <1>2, <1>b, Apart, SiblingKept
  <2>2. \A f \in Folio : Single(f)' = Single(f)
    BY <1>1, <1>2, Apart, SingleSame DEF Only, Task
  <2>3. ASSUME NEW f \in Folio PROVE ref'[f] = Holders(f)'
    BY <1>1, <2>1, <2>2, HoldersAre, Apart DEF IInv, Typed, Exact, One
  <2> QED
    BY <2>3 DEF Exact
<1>12. UseOK' /\ BindingOK' /\ ChunksOK' /\ FreerOK' /\ CopyOK' /\ UserOK'
  BY <1>1, <1>2, Apart, BindingSame, ChunksSame, CopySame, FreerSame, UseSame, UserSame
     DEF Frees, At, Taking, Freeing, Joining
<1>13. GrabOK'
  BY <1>1, <1>2, Apart, GrabSame DEF Only
<1> QED
  BY <1>3, <1>4, <1>5, <1>6, <1>7, <1>8, <1>9, <1>10, <1>11, <1>12, <1>13 DEF IInv

LEMMA TrySiblingFailsOK ==
  ASSUME Assumptions, IInv, NEW r \in Reclaimer, TrySibling(r), ~(lock[at[r].spare] =
     None /\ NamedBy(at[r].spare) # {})
  PROVE  IInv'
<1>1. /\ at[r].pc = "trylock" /\ at[r].spare \in Folio
      /\ ref' = [ref EXCEPT ![at[r].spare] = @ - 1]
      /\ UNCHANGED <<sg, lock, private, mapped, data>>
      /\ UNCHANGED <<joined, prelocked, mtx, arg, reclaiming>>
      /\ UNCHANGED <<hash, hdr, gone, resident, orphan, refcnt, writing>>
      /\ UNCHANGED <<bio, batch, grab, miscounted>>
  BY Apart DEF TrySibling, Put, At, abdVars, hdrVars, IInv, Typed, AtState, InHand,
  heldVars, bioVars
<1>2. /\ at'[r].pc = "undo" /\ at'[r].abd = at[r].abd
      /\ at'[r].folio = at[r].folio /\ at'[r].spare = None
      /\ at'[r].todo = at[r].todo /\ at'[r].taken = at[r].taken
      /\ Only(r) /\ at' \in [Task -> AtState]
  <2>1. PICK e : e = [at[r] EXCEPT !.pc = "undo", !.spare = None]
    OBVIOUS
  <2>2. /\ at[r] \in AtState
        /\ "undo" \in Steps
        /\ None \in Folio \cup Hdr \cup {None}
    BY <1>1, Apart, RestTyped DEF IInv, Typed, AtState, Steps, Chunks
  <2>3. /\ e \in AtState
        /\ e.pc = "undo" /\ e.abd = at[r].abd
        /\ e.folio = at[r].folio /\ e.spare = None
        /\ e.todo = at[r].todo /\ e.taken = at[r].taken
    BY <2>1, <2>2, RestTyped DEF AtState
  <2>4. at' = [at EXCEPT ![r] = e]
    BY <1>1, <2>1 DEF TrySibling
  <2>5. r \in Task
    BY Apart
  <2>6. at'[r] = e /\ Only(r) /\ at' \in [Task -> AtState]
    BY <2>3, <2>4, <2>5, Moves
  <2> QED
    BY <2>3, <2>6
<1>3. Typed'
  BY Apart, <1>1, <1>2 DEF IInv, Typed, AtState, Only
<1>4. HashOK'
  BY Apart, <1>1, <1>2 DEF IInv, HashOK, MigratorSteps, UserSteps, ReclaimerSteps,
     Taking, Freeing, Locking, Midway, Migrating, WriteSteps, Only, Joining
<1>5. InHand'
  BY Apart, <1>1, <1>2 DEF IInv, InHand, At, Taking, Midway, Only
<1>6. MtxOK'
  BY Apart, <1>1, <1>2 DEF IInv, MtxOK, MutexesOf, At, Taking, Frees, Exists, Only,
       Joining
<1>7. LockOK'
  BY Apart, <1>1, <1>2 DEF IInv, LockOK, At, Migrating, Midway, Locking, Taking, Only
<1>8. MappedOK'
  BY Apart, <1>1, <1>2 DEF IInv, Typed, MappedOK, At, Locking, Taking, Only
<1>9. PrivateOK'
  BY Apart, <1>1, <1>2 DEF IInv, Typed, PrivateOK, At, Repointed, Taking, Only
<1>10. TakenOK'
  BY Apart, <1>1, <1>2 DEF IInv, Typed, TakenOK, TakenBy, At, Only
<1>11. Exact'
  <2>1. \A f \in Folio : Several(f)' = Several(f) - One(f = at[r].spare)
    BY <1>1, <1>2, Apart, SiblingLetGo
  <2>2. \A f \in Folio : Single(f)' = Single(f)
    BY <1>1, <1>2, Apart, SingleSame DEF Only, Task
  <2>3. ASSUME NEW f \in Folio PROVE ref'[f] = Holders(f)'
    BY <1>1, <2>1, <2>2, HoldersAre, Apart DEF IInv, Typed, Exact, One
  <2> QED
    BY <2>3 DEF Exact
<1>12. UseOK' /\ BindingOK' /\ ChunksOK' /\ FreerOK' /\ CopyOK' /\ UserOK'
  BY <1>1, <1>2, Apart, BindingSame, ChunksSame, CopySame, FreerSame, UseSame, UserSame
     DEF Frees, At, Taking, Freeing, Joining
<1>13. GrabOK'
  BY <1>1, <1>2, Apart, GrabSame DEF Only
<1> QED
  BY <1>3, <1>4, <1>5, <1>6, <1>7, <1>8, <1>9, <1>10, <1>11, <1>12, <1>13 DEF IInv

LEMMA SiblingsTakenOK ==
  ASSUME Assumptions, IInv, NEW r \in Reclaimer, SiblingsTaken(r), at[r].abd \notin
     prelocked
  PROVE  IInv'
<1>1. /\ at[r].pc = "siblings" /\ at[r].todo = {} /\ at[r].abd \in Abd
      /\ at[r].abd \notin prelocked
      /\ mtx[at[r].abd] = r /\ hash = r
      /\ prelocked' = prelocked \cup {at[r].abd}
      /\ reclaiming' = [reclaiming EXCEPT ![at[r].abd] = at[r].folio]
      /\ UNCHANGED <<sg, ref, lock, private, mapped, data>>
      /\ UNCHANGED <<hash, hdr, gone, resident, orphan, refcnt, writing>>
      /\ UNCHANGED <<joined, mtx, arg, bio, batch, grab, miscounted>>
  BY Apart DEF SiblingsTaken, At, folioVars, hdrVars, Taking, HashOK, MtxOK, MutexesOf,
     IInv, Typed, AtState, InHand, heldVars, bioVars, Joining
<1>2. /\ at'[r].pc = "evict" /\ at'[r].abd = at[r].abd
      /\ at'[r].folio = at[r].folio /\ at'[r].spare = at[r].spare
      /\ at'[r].todo = at[r].todo /\ at'[r].taken = at[r].taken
      /\ Only(r) /\ at' \in [Task -> AtState]
  <2>1. PICK e : e = [at[r] EXCEPT !.pc = "evict"]
    OBVIOUS
  <2>2. /\ at[r] \in AtState
        /\ "evict" \in Steps
    BY <1>1, Apart, RestTyped DEF IInv, Typed, AtState, Steps, Chunks
  <2>3. /\ e \in AtState
        /\ e.pc = "evict" /\ e.abd = at[r].abd
        /\ e.folio = at[r].folio /\ e.spare = at[r].spare
        /\ e.todo = at[r].todo /\ e.taken = at[r].taken
    BY <2>1, <2>2, RestTyped DEF AtState
  <2>4. at' = [at EXCEPT ![r] = e]
    BY <1>1, <2>1 DEF SiblingsTaken, Go
  <2>5. r \in Task
    BY Apart
  <2>6. at'[r] = e /\ Only(r) /\ at' \in [Task -> AtState]
    BY <2>3, <2>4, <2>5, Moves
  <2> QED
    BY <2>3, <2>6
<1>3. Typed'
  BY Apart, <1>1, <1>2 DEF IInv, Typed, AtState, Only
<1>4. HashOK'
  BY Apart, <1>1, <1>2 DEF IInv, HashOK, UserSteps, ReclaimerSteps, Taking, Locking,
     Midway, WriteSteps, Only
<1>5. InHand'
  BY Apart, <1>1, <1>2 DEF IInv, InHand, At, Taking, Only
<1>6. UseOK'
  BY Apart, <1>1, <1>2 DEF IInv, Typed, UseOK, At, Freeing, WriteSteps, Frees, Exists,
     HashOK, OwnerSteps, MigratorSteps, ReclaimerSteps, Taking, Locking, Migrating,
     Only, Joining
<1>7. MtxOK'
  BY Apart, <1>1, <1>2 DEF IInv, Typed, MtxOK, MutexesOf, At, Freeing, Taking, Frees,
     Exists, Only, Joining
<1>8. LockOK'
  BY Apart, <1>1, <1>2 DEF IInv, LockOK, At, Migrating, Locking, Taking, Only
<1>9. MappedOK'
  BY Apart, <1>1, <1>2 DEF IInv, MappedOK, At, Locking, Taking, Only
<1>10. PrivateOK'
  BY Apart, <1>1, <1>2 DEF IInv, PrivateOK, At, Repointed, Taking, Only
<1>11. TakenOK'
  BY Apart, <1>1, <1>2 DEF IInv, Typed, TakenOK, TakenBy, At, Only
<1>12. Exact'
  BY <1>1, <1>2, Apart, CountsSame DEF Only
<1>13. BindingOK' /\ ChunksOK' /\ FreerOK' /\ CopyOK' /\ UserOK'
  BY <1>1, <1>2, Apart, BindingSame, ChunksSame, CopySame, FreerSame, UserSame DEF
     Taking, Freeing, Joining
<1>14. GrabOK'
  BY <1>1, <1>2, Apart, GrabSame DEF Only
<1> QED
  BY <1>3, <1>4, <1>5, <1>6, <1>7, <1>8, <1>9, <1>10, <1>11, <1>12, <1>13,
       <1>14 DEF IInv

LEMMA SiblingsTakenAllOK ==
  ASSUME Assumptions, IInv, NEW r \in Reclaimer, SiblingsTaken(r), at[r].abd \in
     prelocked
  PROVE  IInv'
<1>1. /\ at[r].pc = "siblings" /\ at[r].todo = {} /\ at[r].abd \in prelocked
      /\ mtx[at[r].abd] = r /\ hash = r
      /\ prelocked' = prelocked \cup { a \in Abd : mtx[a] = r }
      /\ UNCHANGED <<sg, ref, lock, private, mapped, data>>
      /\ UNCHANGED <<hash, hdr, gone, resident, orphan, refcnt, writing>>
      /\ UNCHANGED <<joined, mtx, arg, reclaiming, bio, batch, grab, miscounted>>
  BY Apart DEF SiblingsTaken, At, folioVars, hdrVars, Taking, HashOK, MtxOK, MutexesOf,
     IInv, Typed, AtState, InHand, heldVars, bioVars, Joining
<1>2. /\ at'[r].pc = "free" /\ at'[r].abd = at[r].abd
      /\ at'[r].folio = at[r].folio /\ at'[r].spare = at[r].spare
      /\ at'[r].todo = at[r].todo /\ at'[r].taken = at[r].taken
      /\ Only(r) /\ at' \in [Task -> AtState]
  <2>1. PICK e : e = [at[r] EXCEPT !.pc = "free"]
    OBVIOUS
  <2>2. /\ at[r] \in AtState
        /\ "free" \in Steps
    BY <1>1, Apart, RestTyped DEF IInv, Typed, AtState, Steps, Chunks
  <2>3. /\ e \in AtState
        /\ e.pc = "free" /\ e.abd = at[r].abd
        /\ e.folio = at[r].folio /\ e.spare = at[r].spare
        /\ e.todo = at[r].todo /\ e.taken = at[r].taken
    BY <2>1, <2>2, RestTyped DEF AtState
  <2>4. at' = [at EXCEPT ![r] = e]
    BY <1>1, <2>1 DEF SiblingsTaken, Go
  <2>5. r \in Task
    BY Apart
  <2>6. at'[r] = e /\ Only(r) /\ at' \in [Task -> AtState]
    BY <2>3, <2>4, <2>5, Moves
  <2> QED
    BY <2>3, <2>6
<1>3. Typed'
  BY <1>1, <1>2 DEF IInv, Typed, AtState, Only
<1>4. HashOK'
  BY Apart, <1>1, <1>2 DEF IInv, Typed, HashOK, UserSteps, ReclaimerSteps, Taking,
     Locking, Midway, WriteSteps, Only
<1>5. InHand'
  BY Apart, <1>1, <1>2 DEF IInv, InHand, At, Taking, Only
<1>6. UseOK'
  BY Apart, <1>1, <1>2 DEF IInv, UseOK, WriteSteps, Frees, Exists, Only, Joining
<1>7. MtxOK'
  BY Apart, <1>1, <1>2 DEF IInv, MtxOK, MutexesOf, At, Taking, Frees, Exists, Only,
       Joining
<1>8. LockOK'
  BY Apart, <1>1, <1>2 DEF IInv, LockOK, At, Migrating, Midway, Locking, Taking, Only
<1>9. MappedOK'
  BY Apart, <1>1, <1>2 DEF IInv, Typed, MappedOK, At, Midway, Locking, Taking, Only
<1>10. PrivateOK'
  BY Apart, <1>1, <1>2 DEF IInv, PrivateOK, At, Repointed, Taking, Only
<1>11. TakenOK'
  BY Apart, <1>1, <1>2 DEF IInv, TakenOK, TakenBy, At, Only
<1>12. Exact'
  BY <1>1, <1>2, Apart, CountsSame DEF Only
<1>13. BindingOK' /\ ChunksOK' /\ FreerOK' /\ CopyOK' /\ UserOK'
  BY <1>1, <1>2, Apart, BindingSame, ChunksSame, CopySame, FreerSame, UserSame DEF
     Taking, Freeing, Joining
<1>14. GrabOK'
  BY <1>1, <1>2, Apart, GrabSame DEF Only
<1> QED
  BY <1>3, <1>4, <1>5, <1>6, <1>7, <1>8, <1>9, <1>10, <1>11, <1>12, <1>13,
       <1>14 DEF IInv

LEMMA LruEvictFailsOK ==
  ASSUME Assumptions, IInv, NEW r \in Reclaimer, LruEvict(r), ~(Unused /\ at[r].abd \in
     resident /\ \A a \in OtherOf(at[r].abd) : mtx[a] = None)
  PROVE  IInv'
<1>1. /\ at[r].pc = "evict"
      /\ UNCHANGED <<sg, ref, lock, private, mapped, data>>
      /\ UNCHANGED <<joined, prelocked, mtx, arg, reclaiming>>
      /\ UNCHANGED <<hash, hdr, gone, resident, orphan, refcnt, writing>>
      /\ UNCHANGED <<bio, batch, grab, miscounted>>
  BY Apart DEF LruEvict, EvictIf, At, folioVars, abdVars, hdrVars, heldVars, bioVars
<1>2. /\ at'[r].pc = "undo" /\ at'[r].abd = at[r].abd
      /\ at'[r].folio = at[r].folio /\ at'[r].spare = at[r].spare
      /\ at'[r].todo = at[r].todo /\ at'[r].taken = at[r].taken
      /\ Only(r) /\ at' \in [Task -> AtState]
  <2>1. PICK e : e = [at[r] EXCEPT !.pc = "undo"]
    OBVIOUS
  <2>2. /\ at[r] \in AtState
        /\ "undo" \in Steps
    BY <1>1, Apart, RestTyped DEF IInv, Typed, AtState, Steps, Chunks
  <2>3. /\ e \in AtState
        /\ e.pc = "undo" /\ e.abd = at[r].abd
        /\ e.folio = at[r].folio /\ e.spare = at[r].spare
        /\ e.todo = at[r].todo /\ e.taken = at[r].taken
    BY <2>1, <2>2, RestTyped DEF AtState
  <2>4. at' = [at EXCEPT ![r] = e]
    BY <1>1, <2>1 DEF LruEvict, EvictIf, Go
  <2>5. r \in Task
    BY Apart
  <2>6. at'[r] = e /\ Only(r) /\ at' \in [Task -> AtState]
    BY <2>3, <2>4, <2>5, Moves
  <2> QED
    BY <2>3, <2>6
<1>3. Typed'
  BY <1>1, <1>2 DEF IInv, Typed, AtState, Only
<1>4. HashOK'
  BY Apart, <1>1, <1>2 DEF IInv, Typed, HashOK, MigratorSteps, UserSteps,
     ReclaimerSteps, Taking, Freeing, Locking, Midway, Migrating, WriteSteps, Only,
     Joining
<1>5. InHand'
  BY Apart, <1>1, <1>2 DEF IInv, InHand, At, Taking, Only
<1>6. MtxOK'
  BY Apart, <1>1, <1>2 DEF IInv, MtxOK, MutexesOf, At, Taking, Frees, Exists, Only,
       Joining
<1>7. LockOK'
  BY Apart, <1>1, <1>2 DEF IInv, LockOK, At, Midway, Locking, Taking, Only
<1>8. MappedOK'
  BY Apart, <1>1, <1>2 DEF IInv, Typed, MappedOK, At, Midway, Locking, Taking, Only
<1>9. PrivateOK'
  BY Apart, <1>1, <1>2 DEF IInv, PrivateOK, At, Repointed, Taking, Only
<1>10. TakenOK'
  BY Apart, <1>1, <1>2 DEF IInv, TakenOK, TakenBy, At, Only
<1>11. Exact'
  BY <1>1, <1>2, Apart, CountsSame DEF Only
<1>12. UseOK' /\ BindingOK' /\ ChunksOK' /\ FreerOK' /\ CopyOK' /\ UserOK'
  BY <1>1, <1>2, Apart, BindingSame, ChunksSame, CopySame, FreerSame, UseSame, UserSame
     DEF Frees, At, Taking, Freeing, Joining
<1>13. GrabOK'
  BY <1>1, <1>2, Apart, GrabSame DEF Only
<1> QED
  BY <1>3, <1>4, <1>5, <1>6, <1>7, <1>8, <1>9, <1>10, <1>11, <1>12, <1>13 DEF IInv

LEMMA LruEvictOnlyOK ==
  ASSUME Assumptions, IInv, NEW r \in Reclaimer, LruEvict(r), Unused, at[r].abd \in
     resident, OtherOf(at[r].abd) = {}
  PROVE  IInv'
<1>1. /\ at[r].pc = "evict" /\ refcnt = 0 /\ ~writing
      /\ \A a \in resident \cap joined : a = at[r].abd
      /\ mtx' = [a \in Abd |-> mtx[a]]
      /\ UNCHANGED <<sg, ref, lock, private, mapped, data>>
      /\ UNCHANGED <<hash, hdr, gone, resident, orphan, refcnt, writing>>
      /\ UNCHANGED <<joined, prelocked, arg, reclaiming, bio, batch, grab, miscounted>>
  BY Apart DEF LruEvict, EvictIf, Unused, OtherOf, At, folioVars, hdrVars, heldVars,
  bioVars
<1>2. /\ at'[r].pc = "free" /\ at'[r].abd = at[r].abd
      /\ at'[r].folio = at[r].folio /\ at'[r].spare = at[r].spare
      /\ at'[r].todo = {} /\ at'[r].taken = at[r].taken
      /\ Only(r) /\ at' \in [Task -> AtState]
  <2>1. PICK e : e = [at[r] EXCEPT !.pc = "free", !.todo = {}]
    OBVIOUS
  <2>2. /\ at[r] \in AtState
        /\ "free" \in Steps
    BY <1>1, Apart, RestTyped DEF IInv, Typed, AtState, Steps, Chunks
  <2>3. /\ e \in AtState
        /\ e.pc = "free" /\ e.abd = at[r].abd
        /\ e.folio = at[r].folio /\ e.spare = at[r].spare
        /\ e.todo = {} /\ e.taken = at[r].taken
    BY <2>1, <2>2, RestTyped DEF AtState
  <2>4. at' = [at EXCEPT ![r] = e]
    BY <1>1, <2>1 DEF LruEvict, EvictIf, Chunks
  <2>5. r \in Task
    BY Apart
  <2>6. at'[r] = e /\ Only(r) /\ at' \in [Task -> AtState]
    BY <2>3, <2>4, <2>5, Moves
  <2> QED
    BY <2>3, <2>6
<1>a. mtx' = mtx
  BY <1>1 DEF IInv, Typed
<1>3. Typed'
  BY <1>1, <1>2 DEF IInv, Typed, AtState, Only
<1>4. HashOK'
  BY Apart, <1>1, <1>2, <1>a DEF IInv, Typed, HashOK, MigratorSteps, UserSteps,
     ReclaimerSteps, Taking, Freeing, Locking, Midway, Migrating, WriteSteps, Only,
     Joining
<1>5. InHand'
  BY Apart, <1>1, <1>2, <1>a DEF IInv, InHand, At, Taking, Midway, Only
<1>6. UseOK'
  BY Apart, <1>1, <1>2, <1>a DEF IInv, UseOK, Freeing, WriteSteps, Frees, Exists, Only,
       Joining
<1>7. MtxOK'
  BY Apart, <1>1, <1>2, <1>a DEF IInv, MtxOK, MutexesOf, At, Taking, Frees, Exists,
       Only, Joining
<1>8. LockOK'
  BY Apart, <1>1, <1>2 DEF IInv, LockOK, At, Locking, Taking, Only
<1>9. MappedOK'
  BY Apart, <1>1, <1>2, <1>a DEF IInv, Typed, MappedOK, At, Midway, Locking, Taking,
     Only
<1>10. PrivateOK'
  BY Apart, <1>1, <1>2 DEF IInv, PrivateOK, At, Repointed, Taking, Only
<1>11. TakenOK'
  BY Apart, <1>1, <1>2, <1>a DEF IInv, Typed, TakenOK, TakenBy, At, HashOK, UserSteps,
     ReclaimerSteps, Freeing, Locking, Midway, Migrating, WriteSteps, InHand, Only,
     Joining
<1>12. Exact'
  BY <1>1, <1>2, Apart, CountsSame DEF Only, Task
<1>13. BindingOK' /\ ChunksOK' /\ FreerOK' /\ CopyOK' /\ UserOK'
  BY <1>1, <1>2, Apart, BindingSame, ChunksSame, CopySame, FreerSame, UserSame DEF
     Taking, Freeing, Joining
<1>14. GrabOK'
  BY <1>1, <1>2, Apart, GrabSame DEF Only
<1> QED
  BY <1>3, <1>4, <1>5, <1>6, <1>7, <1>8, <1>9, <1>10, <1>11, <1>12, <1>13,
       <1>14 DEF IInv

LEMMA LruEvictBothOK ==
  ASSUME Assumptions, IInv, NEW r \in Reclaimer, LruEvict(r), Unused, at[r].abd \in
     resident, OtherOf(at[r].abd) # {}, \A a \in OtherOf(at[r].abd) : mtx[a] = None
  PROVE  IInv'
<1>1. /\ at[r].pc = "evict" /\ refcnt = 0 /\ ~writing
      /\ \A a \in OtherOf(at[r].abd) : mtx[a] = None
      /\ mtx' = [a \in Abd |-> IF a \in OtherOf(at[r].abd) THEN r ELSE mtx[a]]
      /\ UNCHANGED <<sg, ref, lock, private, mapped, data>>
      /\ UNCHANGED <<hash, hdr, gone, resident, orphan, refcnt, writing>>
      /\ UNCHANGED <<joined, prelocked, arg, reclaiming, bio, batch, grab, miscounted>>
  BY Apart DEF LruEvict, EvictIf, Unused, At, folioVars, hdrVars, heldVars, bioVars
<1>2. /\ at'[r].pc = "siblings" /\ at'[r].abd = at[r].abd
      /\ at'[r].folio = at[r].folio /\ at'[r].spare = at[r].spare
      /\ at'[r].todo = Chunks(OtherOf(at[r].abd)) /\ at'[r].taken = at[r].taken
      /\ Only(r) /\ at' \in [Task -> AtState]
  <2>1. PICK e : e = [at[r] EXCEPT !.pc = "siblings", !.todo = Chunks(OtherOf(at[r].abd))]
    OBVIOUS
  <2>2. /\ at[r] \in AtState
        /\ "siblings" \in Steps
        /\ Chunks(OtherOf(at[r].abd)) \subseteq Chunk \cup Abd
    BY <1>1, Apart, RestTyped DEF IInv, Typed, AtState, Steps, Chunks
  <2>3. /\ e \in AtState
        /\ e.pc = "siblings" /\ e.abd = at[r].abd
        /\ e.folio = at[r].folio /\ e.spare = at[r].spare
        /\ e.todo = Chunks(OtherOf(at[r].abd)) /\ e.taken = at[r].taken
    BY <2>1, <2>2, RestTyped DEF AtState
  <2>4. at' = [at EXCEPT ![r] = e]
    BY <1>1, <2>1 DEF LruEvict, EvictIf
  <2>5. r \in Task
    BY Apart
  <2>6. at'[r] = e /\ Only(r) /\ at' \in [Task -> AtState]
    BY <2>3, <2>4, <2>5, Moves
  <2> QED
    BY <2>3, <2>6
<1>a. /\ at[r].abd \in prelocked /\ mtx[at[r].abd] = r /\ hash = r
      /\ \A a \in resident \cap joined : mtx'[a] = r
      /\ \A a \in OtherOf(at[r].abd) : a \in resident \cap joined
      /\ \A a \in Abd : mtx'[a] # mtx[a] =>
           mtx[a] = None /\ mtx'[a] = r /\ a \in resident \cap joined
  BY <1>1, Apart DEF IInv, Typed, MtxOK, MutexesOf, HashOK, Taking, At, OtherOf, Joining
<1>b. /\ at'[r].todo \subseteq Chunk
      /\ \A c \in at'[r].todo : mtx'[AbdOf[c]] = r
      /\ \A c \in Chunk : mtx'[AbdOf[c]] = r => mtx[AbdOf[c]] = r \/ c \in at'[r].todo
  BY <1>1, <1>2, Apart DEF Chunks
<1>c. /\ mtx'[at[r].abd] = r /\ \A a \in prelocked : mtx'[a] = mtx[a]
      /\ \A a \in Abd :
           /\ (mtx'[a] = Owner <=> mtx[a] = Owner) /\ (mtx'[a] = User <=> mtx[a] = User)
           /\ mtx'[a] # Migrator /\ (mtx'[a] # None => a \in joined)
           /\ mtx'[a] = r => a \in resident
           /\ \A u \in Reclaimer \ {r} : mtx'[a] = u <=> mtx[a] = u
  BY <1>1, <1>a, Apart DEF IInv, Typed, MtxOK, MutexesOf, Taking, At, Joining
<1>d. UNCHANGED <<sg, data, prelocked, joined, resident, orphan, hash>>
  BY <1>1
<1>3. Typed'
  BY <1>1, <1>2, <1>a, <1>b DEF IInv, Typed, AtState, Only
<1>4. HashOK'
  BY Apart, <1>1, <1>2 DEF IInv, HashOK, OwnerSteps, MigratorSteps, UserSteps,
     ReclaimerSteps, Taking, Freeing, Locking, Midway, Migrating, WriteSteps, Only,
     Joining
<1>5. InHand'
  BY Apart, <1>1, <1>2, <1>b DEF IInv, InHand, At, Taking, Only
<1>6. UseOK'
  BY Apart, <1>1, <1>2, <1>a, <1>b DEF IInv, UseOK, Only, Joining
<1>7. MtxOK'
  <2>1. /\ Only(r) /\ at'[r].pc = "siblings" /\ at'[r].abd = at[r].abd
        /\ \A u \in Reclaimer \ {r} : at'[u] = at[u]
        /\ at'[Owner] = at[Owner] /\ at'[User] = at[User]
    BY <1>2, Apart DEF Only
  <2>2. \A a \in Abd :
          /\ mtx'[a] # None => a \in joined'
          /\ mtx'[a] = Owner
               <=> at'[Owner].pc \in Joining \cup Freeing /\ at'[Owner].abd = a
          /\ mtx'[a] = User <=> at'[User].pc \in Freeing /\ at'[User].abd = a
          /\ mtx'[a] # Migrator
    BY <1>c, <1>d, <2>1 DEF IInv, MtxOK, Joining
  <2>3. /\ joined' \subseteq Exists'
        /\ \A a \in prelocked' : mtx'[a] \in Reclaimer /\ hash' = mtx'[a]
    BY <1>c, <1>d DEF IInv, MtxOK, Exists, Joining
  <2>4. ASSUME NEW u \in Reclaimer, u # r PROVE MutexesOf(u)'
    <3>1. MutexesOf(u) /\ at[u].pc \notin Taking
      BY <1>a, <2>4, Apart DEF IInv, MtxOK, HashOK, Joining
    <3> QED
      BY <1>c, <1>d, <2>1, <2>4, <3>1 DEF MutexesOf, Frees, At, Taking
  <2>5. MutexesOf(r)'
    <3>1. at[r].abd \in Abd /\ Frees(r)'
      BY <1>a, <1>d, <2>1 DEF Frees, At, IInv, Typed
    <3> QED
      BY <1>a, <1>c, <1>d, <2>1, <3>1 DEF MutexesOf, At, Taking
  <2> QED
    BY <2>2, <2>3, <2>4, <2>5 DEF MtxOK, Joining
<1>8. LockOK'
  BY Apart, <1>1, <1>2, <1>a DEF IInv, Typed, LockOK, At, Migrating, Locking, Taking,
     Only
<1>9. MappedOK'
  BY Apart, <1>1, <1>2 DEF IInv, MappedOK, At, Locking, Taking, Only
<1>10. PrivateOK'
  BY Apart, <1>1, <1>2 DEF IInv, PrivateOK, At, Repointed, Taking, Only
<1>11. TakenOK'
  <2>1. /\ at'[r].pc = "siblings" /\ at'[r].taken = at[r].taken /\ at'[r].folio = at[r].folio
        /\ \A u \in Reclaimer \ {r} : at'[u] = at[u]
    BY <1>2, Apart DEF Only
  <2>2. ASSUME NEW u \in Reclaimer, u # r PROVE TakenBy(u)'
    <3>1. TakenBy(u) /\ at[u].todo \subseteq Chunk
      BY <2>2, Apart DEF IInv, TakenOK, InHand
    <3>2. \A c \in Chunk : mtx'[AbdOf[c]] = u <=> mtx[AbdOf[c]] = u
      BY <1>c, <2>2, Apart
    <3> QED
      BY <1>d, <2>1, <2>2, <3>1, <3>2 DEF TakenBy, At
  <2>3. TakenBy(r)'
    <3>1. TakenBy(r) /\ \A c \in Chunk : mtx[AbdOf[c]] = r => mtx'[AbdOf[c]] = r
      BY <1>a, Apart DEF IInv, TakenOK
    <3> QED
      BY <1>1, <1>b, <1>d, <2>1, <3>1 DEF TakenBy, At
  <2> QED
    BY <2>2, <2>3 DEF TakenOK
<1>12. Exact'
  BY <1>1, <1>2, Apart, CountsSame DEF Only
<1>13. BindingOK' /\ ChunksOK' /\ FreerOK' /\ CopyOK' /\ UserOK'
  BY <1>1, <1>2, Apart, BindingSame, ChunksSame, CopySame, FreerSame, UserSame DEF
     Taking, Freeing, Joining
<1>14. GrabOK'
  BY <1>1, <1>2, Apart, GrabSame DEF Only
<1> QED
  BY <1>3, <1>4, <1>5, <1>6, <1>7, <1>8, <1>9, <1>10, <1>11, <1>12, <1>13,
       <1>14 DEF IInv

LEMMA RefuseEvictOK ==
  ASSUME Assumptions, IInv, NEW r \in Reclaimer, RefuseEvict(r)
  PROVE  IInv'
<1>1. /\ at[r].pc \in {"evict", "free"}
      /\ UNCHANGED <<sg, ref, lock, private, mapped, data>>
      /\ UNCHANGED <<joined, prelocked, mtx, arg, reclaiming>>
      /\ UNCHANGED <<hash, hdr, gone, resident, orphan, refcnt, writing>>
      /\ UNCHANGED <<bio, batch, grab, miscounted>>
  BY Apart DEF RefuseEvict, At, folioVars, abdVars, hdrVars, heldVars, bioVars
<1>2. /\ at'[r].pc = "undo" /\ at'[r].abd = at[r].abd
      /\ at'[r].folio = at[r].folio /\ at'[r].spare = at[r].spare
      /\ at'[r].todo = at[r].todo /\ at'[r].taken = at[r].taken
      /\ Only(r) /\ at' \in [Task -> AtState]
  <2>1. PICK e : e = [at[r] EXCEPT !.pc = "undo"]
    OBVIOUS
  <2>2. /\ at[r] \in AtState
        /\ "undo" \in Steps
    BY <1>1, Apart, RestTyped DEF IInv, Typed, AtState, Steps, Chunks
  <2>3. /\ e \in AtState
        /\ e.pc = "undo" /\ e.abd = at[r].abd
        /\ e.folio = at[r].folio /\ e.spare = at[r].spare
        /\ e.todo = at[r].todo /\ e.taken = at[r].taken
    BY <2>1, <2>2, RestTyped DEF AtState
  <2>4. at' = [at EXCEPT ![r] = e]
    BY <2>1 DEF RefuseEvict, Go, Finish
  <2>5. r \in Task
    BY Apart
  <2>6. at'[r] = e /\ Only(r) /\ at' \in [Task -> AtState]
    BY <2>3, <2>4, <2>5, Moves
  <2> QED
    BY <2>3, <2>6
<1>3. Typed'
  BY <1>1, <1>2 DEF IInv, Typed, AtState, Only
<1>4. HashOK'
  BY Apart, <1>1, <1>2 DEF IInv, HashOK, OwnerSteps, ReclaimerSteps, Taking, Freeing,
     Locking, Midway, Only, Joining
<1>5. InHand'
  BY Apart, <1>1, <1>2 DEF IInv, InHand, At, Taking, Midway, Only
<1>6. MtxOK'
  BY Apart, <1>1, <1>2 DEF IInv, MtxOK, MutexesOf, At, Freeing, Taking, Frees, Exists,
     Only, Joining
<1>7. LockOK'
  BY Apart, <1>1, <1>2 DEF IInv, LockOK, At, Migrating, Midway, Locking, Taking, Only
<1>8. MappedOK'
  BY Apart, <1>1, <1>2 DEF IInv, Typed, MappedOK, At, Locking, Taking, Only
<1>9. PrivateOK'
  BY Apart, <1>1, <1>2 DEF IInv, Typed, PrivateOK, At, Repointed, Taking, Only
<1>10. TakenOK'
  BY Apart, <1>1, <1>2 DEF IInv, Typed, TakenOK, TakenBy, At, Only
<1>11. Exact'
  BY <1>1, <1>2, Apart, CountsSame DEF Only, Task
<1>12. UseOK' /\ BindingOK' /\ ChunksOK' /\ FreerOK' /\ CopyOK' /\ UserOK'
  BY <1>1, <1>2, Apart, BindingSame, ChunksSame, CopySame, FreerSame, UseSame, UserSame
     DEF Frees, At, Taking, Freeing, Joining
<1>13. GrabOK'
  BY <1>1, <1>2, Apart, GrabSame DEF Only
<1> QED
  BY <1>3, <1>4, <1>5, <1>6, <1>7, <1>8, <1>9, <1>10, <1>11, <1>12, <1>13 DEF IInv

LEMMA UndoOK ==
  ASSUME Assumptions, IInv, NEW r \in Reclaimer, Undo(r)
  PROVE  IInv'
<1>1. /\ at[r].pc = "undo" /\ at[r].spare = None
      /\ ref' = [f \in Folio |-> IF f \in at[r].taken THEN ref[f] - 1 ELSE ref[f]]
      /\ lock' = [f \in Folio |-> IF f \in at[r].taken THEN None ELSE lock[f]]
      /\ mtx' = [a \in Abd |-> IF mtx[a] = r THEN None ELSE mtx[a]]
      /\ prelocked' = { a \in prelocked : mtx[a] # r }
      /\ reclaiming' = [a \in Abd |-> IF mtx[a] = r THEN None ELSE reclaiming[a]]
      /\ hash' = None
      /\ UNCHANGED <<sg, private, mapped, data>>
      /\ UNCHANGED <<joined, arg>>
      /\ UNCHANGED <<hdr, gone, resident, orphan, refcnt, writing>>
      /\ UNCHANGED <<bio, batch, grab, miscounted>>
  BY Apart DEF Undo, UndoFlags, At, Taking, IInv, Typed, AtState, InHand, heldVars,
  bioVars
<1>2. /\ at'[r].pc = "fail" /\ at'[r].abd = at[r].abd
      /\ at'[r].folio = at[r].folio /\ at'[r].spare = at[r].spare
      /\ at'[r].todo = at[r].todo /\ at'[r].taken = {}
      /\ Only(r) /\ at' \in [Task -> AtState]
  <2>1. PICK e : e = [at[r] EXCEPT !.pc = "fail", !.taken = {}]
    OBVIOUS
  <2>2. /\ at[r] \in AtState
        /\ "fail" \in Steps
    BY <1>1, Apart, RestTyped DEF IInv, Typed, AtState, Steps, Chunks
  <2>3. /\ e \in AtState
        /\ e.pc = "fail" /\ e.abd = at[r].abd
        /\ e.folio = at[r].folio /\ e.spare = at[r].spare
        /\ e.todo = at[r].todo /\ e.taken = {}
    BY <2>1, <2>2, RestTyped DEF AtState
  <2>4. at' = [at EXCEPT ![r] = e]
    BY <2>1 DEF Undo, UndoFlags, Go, Finish
  <2>5. r \in Task
    BY Apart
  <2>6. at'[r] = e /\ Only(r) /\ at' \in [Task -> AtState]
    BY <2>3, <2>4, <2>5, Moves
  <2> QED
    BY <2>3, <2>6
<1>a. hash = r /\ \A u \in Reclaimer \ {r} : at[u].pc \notin Taking
  BY <1>1, Apart DEF IInv, HashOK, Taking
<1>3. Typed'
  BY <1>1, <1>2, <1>a DEF IInv, Typed, AtState, Only
<1>4. HashOK'
  BY Apart, <1>1, <1>2, <1>a DEF IInv, HashOK, MigratorSteps, UserSteps, ReclaimerSteps,
     Taking, Freeing, Locking, Midway, Migrating, WriteSteps, Only, Joining
<1>5. InHand'
  BY Apart, <1>1, <1>2 DEF IInv, InHand, At, Taking, Midway, Only
<1>6. UseOK'
  BY Apart, <1>1, <1>2, <1>a DEF IInv, UseOK, At, Freeing, Frees, Exists, Only, Joining
<1>7. MtxOK'
  BY Apart, <1>1, <1>2, <1>a DEF IInv, MtxOK, MutexesOf, At, Taking, Frees, Exists,
       Only, Joining
<1>8. LockOK'
  BY Apart, <1>1, <1>2, <1>a DEF IInv, LockOK, At, Migrating, Midway, Locking, Taking,
     ReclaimerSteps, Freeing, WriteSteps, InHand, Only, Joining
<1>9. MappedOK'
  BY Apart, <1>1, <1>2, <1>a DEF IInv, Typed, MappedOK, At, Midway, Locking, Taking,
     Only
<1>10. PrivateOK'
  BY Apart, <1>1, <1>2 DEF IInv, PrivateOK, At, Repointed, Taking, Only
<1>11. TakenOK'
  BY Apart, <1>1, <1>2, <1>a DEF IInv, TakenOK, TakenBy, At, Freeing, Migrating,
     WriteSteps, InHand, Only, Joining
<1>12. Exact'
  <2>1. \A f \in Folio : Several(f)' = Several(f) - One(f \in at[r].taken)
    BY <1>1, <1>2, Apart, TakenLetGo
  <2>2. \A f \in Folio : Single(f)' = Single(f)
    BY <1>1, <1>2, Apart, SingleSame DEF Only, Task
  <2>3. ASSUME NEW f \in Folio PROVE ref'[f] = Holders(f)'
    BY <1>1, <2>1, <2>2, HoldersAre, Apart DEF IInv, Typed, Exact, One
  <2> QED
    BY <2>3 DEF Exact
<1>13. BindingOK' /\ ChunksOK' /\ FreerOK' /\ CopyOK' /\ UserOK'
  BY <1>1, <1>2, Apart, BindingSame, ChunksSame, CopySame, FreerSame, UserSame DEF
     Taking, Freeing, Joining
<1>14. GrabOK'
  BY <1>1, <1>2, Apart, GrabSame DEF Only
<1> QED
  BY <1>3, <1>4, <1>5, <1>6, <1>7, <1>8, <1>9, <1>10, <1>11, <1>12, <1>13,
       <1>14 DEF IInv

LEMMA PutBackOK ==
  ASSUME Assumptions, IInv, NEW t \in Reclaimer \cup {Migrator}, PutBack(t)
  PROVE  IInv'
<1>1. /\ at[t].pc = "fail" /\ at[t].folio \in Folio /\ lock[at[t].folio] = t
      /\ at[t].spare = None
      /\ ref' = [ref EXCEPT ![at[t].folio] = @ - 1]
      /\ lock' = [lock EXCEPT ![at[t].folio] = None]
      /\ UNCHANGED <<sg, private, mapped, data>>
      /\ UNCHANGED <<joined, prelocked, mtx, arg, reclaiming>>
      /\ UNCHANGED <<hash, hdr, gone, resident, orphan, refcnt, writing>>
      /\ UNCHANGED <<bio, batch, grab, miscounted>>
  BY Apart DEF PutBack, Put, At, abdVars, hdrVars, LockOK, Locking, Taking, Migrating,
     Midway, IInv, Typed, AtState, InHand, heldVars, bioVars
<1>2. /\ at'[t].pc = "idle" /\ at'[t].abd = None
      /\ at'[t].folio = None /\ at'[t].spare = None
      /\ at'[t].todo = {} /\ at'[t].taken = {}
      /\ Only(t) /\ at' \in [Task -> AtState]
  <2>1. PICK e : e = Rest
    OBVIOUS
  <2>2. /\ Rest \in AtState
    BY <1>1, Apart, RestTyped DEF IInv, Typed, AtState, Steps, Chunks
  <2>3. /\ e \in AtState
        /\ e.pc = "idle" /\ e.abd = None
        /\ e.folio = None /\ e.spare = None
        /\ e.todo = {} /\ e.taken = {}
    BY <2>1, <2>2, RestTyped DEF AtState
  <2>4. at' = [at EXCEPT ![t] = e]
    BY <2>1 DEF PutBack, Go, Finish
  <2>5. t \in Task
    BY Apart
  <2>6. at'[t] = e /\ Only(t) /\ at' \in [Task -> AtState]
    BY <2>3, <2>4, <2>5, Moves
  <2> QED
    BY <2>3, <2>6
<1>a. t \in Reclaimer => at[t].taken = {}
  BY <1>1, Apart DEF IInv, InHand, Taking
<1>3. Typed'
  BY <1>1, <1>2 DEF IInv, Typed, AtState, Only
<1>4. HashOK'
  BY Apart, <1>1, <1>2 DEF IInv, HashOK, MigratorSteps, UserSteps, ReclaimerSteps,
     Taking, Freeing, Locking, Midway, Migrating, WriteSteps, Only, Joining
<1>5. InHand'
  BY Apart, <1>1, <1>2 DEF IInv, InHand, At, Midway, Only
<1>6. UseOK'
  BY Apart, <1>1, <1>2 DEF IInv, UseOK, At, Freeing, WriteSteps, Frees, Exists, Only,
       Joining
<1>7. LockOK'
  BY Apart, <1>1, <1>2 DEF IInv, Typed, LockOK, At, Migrating, Midway, Locking, Taking,
     HashOK, MigratorSteps, ReclaimerSteps, Freeing, WriteSteps, InHand, Only, Joining
<1>8. MappedOK'
  BY Apart, <1>1, <1>2 DEF IInv, Typed, MappedOK, At, Midway, Locking, Taking, Only
<1>9. PrivateOK'
  BY Apart, <1>1, <1>2 DEF IInv, PrivateOK, At, Repointed, Taking, Only
<1>10. CopyOK'
  BY Apart, <1>1, <1>2 DEF IInv, CopyOK, At, Only
<1>11. Exact'
  <2>1. \A f \in Folio : Several(f)' = Several(f) - One(f = at[t].folio)
    <3>1. t \in Reclaimer => at'[t].taken = at[t].taken /\ at'[t].spare = at[t].spare
      BY <1>1, <1>2, <1>a
    <3> QED
      BY <1>1, <1>2, <3>1, HandLetGo
  <2>2. \A f \in Folio : Single(f)' = Single(f)
    BY <1>1, <1>2, Apart, SingleSame DEF Only, Task, Midway
  <2>3. ASSUME NEW f \in Folio PROVE ref'[f] = Holders(f)'
    BY <1>1, <2>1, <2>2, HoldersAre, Apart DEF IInv, Typed, Exact, One
  <2> QED
    BY <2>3 DEF Exact
<1>12. BindingOK' /\ MtxOK' /\ ChunksOK' /\ FreerOK' /\ TakenOK' /\ UserOK'
  BY <1>1, <1>2, Apart, BindingSame, ChunksSame, FreerSame, MtxSame, TakenSame, UserSame
     DEF Taking, Freeing, Joining
<1>13. GrabOK'
  BY <1>1, <1>2, Apart, GrabSame DEF Only
<1> QED
  BY <1>3, <1>4, <1>5, <1>6, <1>7, <1>8, <1>9, <1>10, <1>11, <1>12, <1>13 DEF IInv

LEMMA RemoveMappingOK ==
  ASSUME Assumptions, IInv, NEW r \in Reclaimer, RemoveMapping(r), ref[at[r].folio] =
     Pages + 1
  PROVE  IInv'
<1>1. /\ at[r].pc = "remove" /\ at[r].folio \in Folio /\ ref[at[r].folio] = Pages + 1
      /\ ref' = [ref EXCEPT ![at[r].folio] = 0]
      /\ mapped' = mapped \ {at[r].folio}
      /\ lock' = [lock EXCEPT ![at[r].folio] = None]
      /\ UNCHANGED <<sg, private, data>>
      /\ UNCHANGED <<joined, prelocked, mtx, arg, reclaiming>>
      /\ UNCHANGED <<hash, hdr, gone, resident, orphan, refcnt, writing>>
      /\ UNCHANGED <<bio, batch, grab, miscounted>>
  BY Apart DEF RemoveMapping, At, abdVars, hdrVars, IInv, Typed, AtState, InHand,
  heldVars, bioVars
<1>2. /\ at'[r].pc = "idle" /\ at'[r].abd = None
      /\ at'[r].folio = None /\ at'[r].spare = None
      /\ at'[r].todo = {} /\ at'[r].taken = {}
      /\ Only(r) /\ at' \in [Task -> AtState]
  <2>1. PICK e : e = Rest
    OBVIOUS
  <2>2. /\ Rest \in AtState
    BY <1>1, Apart, RestTyped DEF IInv, Typed, AtState, Steps, Chunks
  <2>3. /\ e \in AtState
        /\ e.pc = "idle" /\ e.abd = None
        /\ e.folio = None /\ e.spare = None
        /\ e.todo = {} /\ e.taken = {}
    BY <2>1, <2>2, RestTyped DEF AtState
  <2>4. at' = [at EXCEPT ![r] = e]
    BY <2>1 DEF RemoveMapping, Go, Finish
  <2>5. r \in Task
    BY Apart
  <2>6. at'[r] = e /\ Only(r) /\ at' \in [Task -> AtState]
    BY <2>3, <2>4, <2>5, Moves
  <2> QED
    BY <2>3, <2>6
<1>a. at[r].taken = {} /\ at[r].spare = None
  BY <1>1 DEF IInv, InHand, Taking
<1>b. /\ lock[at[r].folio] = r /\ at[r].folio \in mapped /\ private[at[r].folio] = None
      /\ ~Named(at[r].folio)
      /\ at[r].folio = at[Migrator].folio => at[Migrator].pc \notin Migrating
      /\ at[r].folio # at[Migrator].spare
      /\ ~(At(Owner, "joined") /\ at[Owner].folio = at[r].folio)
  BY <1>1, Apart DEF IInv, LockOK, MappedOK, PrivateOK, ChunksOK, ChunkOK, Locking, At,
       Named,
     Migrating, Midway
<1>c. \A u \in Reclaimer :
        batch[u] # at[r].folio /\ (u # r /\ at[u].pc \in Locking => at[u].folio # at[r].folio)
  BY <1>1, <1>b, Apart DEF IInv, LockOK, Locking, InHand
<1>3. Typed'
  BY Apart, <1>1, <1>2 DEF IInv, Typed, AtState, Only
<1>4. HashOK'
  BY Apart, <1>1, <1>2 DEF IInv, HashOK, ReclaimerSteps, Taking, Freeing, Locking,
     Midway, Migrating, WriteSteps, Only, Joining
<1>5. InHand'
  BY Apart, <1>1, <1>2 DEF IInv, InHand, At, Midway, Only
<1>6. LockOK'
  BY Apart, <1>1, <1>2, <1>b DEF IInv, Typed, LockOK, At, Migrating, Locking, Taking,
     ReclaimerSteps, InHand, Only
<1>7. MappedOK'
  BY <1>1, <1>2, <1>b, <1>c DEF IInv, MappedOK, At, Midway, Migrating, Locking, Taking,
     Only, Task, Named
<1>8. PrivateOK'
  BY Apart, <1>1, <1>2, <1>b DEF IInv, PrivateOK, At, Repointed, Taking, Only
<1>9. ChunksOK'
  BY Apart, <1>1, <1>2, <1>a, <1>b DEF IInv, Typed, ChunksOK, ChunkOK, At, Freeing,
     Exists, Locking, Midway, Migrating, WriteSteps, Only, Joining
<1>10. FreerOK'
  BY Apart, <1>1, <1>2, <1>a, <1>b DEF IInv, FreerOK, At, Freeing, Only, Joining
<1>11. Exact'
  <2>0. \A f \in Folio : ref'[f] = ref[f] - (IF f = at[r].folio THEN Pages + 1 ELSE 0)
    BY <1>1, Apart DEF IInv, Typed
  <2>1. \A f \in Folio : Several(f)' = Several(f) - One(f = at[r].folio)
    <3>1. at'[r].taken = at[r].taken /\ at'[r].spare = at[r].spare
      BY <1>1, <1>2, <1>a
    <3> QED
      BY <1>1, <1>2, <3>1, HandLetGo
  <2>2. \A f \in Folio : Single(f)' = Single(f) - (IF f = at[r].folio THEN Pages ELSE 0)
    BY <1>1, <1>2, <1>a, <1>b, Apart DEF Single, CacheRefs, ChunkRefs, OwnerRefs, One,
         At,
         Only, Task, Migrating, Named
  <2>3. ASSUME NEW f \in Folio PROVE ref'[f] = Holders(f)'
    <3>1. ref[f] = Single(f) + Several(f) /\ Single(f) \in Nat /\ Several(f) \in Nat
      BY HoldersAre DEF IInv, Exact
    <3>2. CASE f = at[r].folio
      <4>1. ref'[f] = ref[f] - (Pages + 1)
        BY <2>0, <3>2
      <4>2. Several(f)' = Several(f) - 1 /\ Single(f)' = Single(f) - Pages
        BY <2>1, <2>2, <3>2 DEF One
      <4>3. Holders(f)' = Single(f)' + Several(f)'
        BY HoldersAre
      <4>4. Pages \in Nat
        BY Apart
      <4> QED
        BY <3>1, <4>1, <4>2, <4>3, <4>4
    <3>3. CASE f # at[r].folio
      BY <2>0, <2>1, <2>2, <3>1, <3>3, HoldersAre, Apart DEF One
    <3> QED
      BY <3>2, <3>3
  <2> QED
    BY <2>3 DEF Exact
<1>12. UseOK' /\ BindingOK' /\ MtxOK' /\ TakenOK' /\ CopyOK' /\ UserOK'
  BY <1>1, <1>2, Apart, BindingSame, CopySame, MtxSame, TakenSame, UseSame, UserSame DEF
     Frees, At, Taking, Freeing, Joining
<1>13. GrabOK'
  BY <1>1, <1>2, Apart, GrabSame DEF Only
<1> QED
  BY <1>3, <1>4, <1>5, <1>6, <1>7, <1>8, <1>9, <1>10, <1>11, <1>12, <1>13 DEF IInv

LEMMA RemoveMappingFailsOK ==
  ASSUME Assumptions, IInv, NEW r \in Reclaimer, RemoveMapping(r), ref[at[r].folio] #
     Pages + 1
  PROVE  IInv'
<1>1. /\ at[r].pc = "remove"
      /\ UNCHANGED <<sg, ref, lock, private, mapped, data>>
      /\ UNCHANGED <<joined, prelocked, mtx, arg, reclaiming>>
      /\ UNCHANGED <<hash, hdr, gone, resident, orphan, refcnt, writing>>
      /\ UNCHANGED <<bio, batch, grab, miscounted>>
  BY Apart DEF RemoveMapping, At, folioVars, abdVars, hdrVars, heldVars, bioVars
<1>2. /\ at'[r].pc = "fail" /\ at'[r].abd = at[r].abd
      /\ at'[r].folio = at[r].folio /\ at'[r].spare = at[r].spare
      /\ at'[r].todo = at[r].todo /\ at'[r].taken = at[r].taken
      /\ Only(r) /\ at' \in [Task -> AtState]
  <2>1. PICK e : e = [at[r] EXCEPT !.pc = "fail"]
    OBVIOUS
  <2>2. /\ at[r] \in AtState
        /\ "fail" \in Steps
    BY <1>1, Apart, RestTyped DEF IInv, Typed, AtState, Steps, Chunks
  <2>3. /\ e \in AtState
        /\ e.pc = "fail" /\ e.abd = at[r].abd
        /\ e.folio = at[r].folio /\ e.spare = at[r].spare
        /\ e.todo = at[r].todo /\ e.taken = at[r].taken
    BY <2>1, <2>2, RestTyped DEF AtState
  <2>4. at' = [at EXCEPT ![r] = e]
    BY <1>1, <2>1 DEF RemoveMapping, Go
  <2>5. r \in Task
    BY Apart
  <2>6. at'[r] = e /\ Only(r) /\ at' \in [Task -> AtState]
    BY <2>3, <2>4, <2>5, Moves
  <2> QED
    BY <2>3, <2>6
<1>3. Typed'
  BY <1>1, <1>2 DEF IInv, Typed, AtState, Only
<1>4. HashOK'
  BY Apart, <1>1, <1>2 DEF IInv, HashOK, MigratorSteps, UserSteps, ReclaimerSteps,
     Taking, Freeing, Locking, Midway, Migrating, WriteSteps, Only, Joining
<1>5. InHand'
  BY Apart, <1>1, <1>2 DEF IInv, InHand, At, Taking, Only
<1>6. LockOK'
  BY Apart, <1>1, <1>2 DEF IInv, LockOK, At, Migrating, Midway, Locking, Taking, Only
<1>7. MappedOK'
  BY Apart, <1>1, <1>2 DEF IInv, Typed, MappedOK, At, Midway, Locking, Only
<1>8. PrivateOK'
  BY Apart, <1>1, <1>2 DEF IInv, PrivateOK, At, Repointed, Taking, Only
<1>9. TakenOK'
  BY Apart, <1>1, <1>2 DEF IInv, TakenOK, TakenBy, At, Only
<1>10. Exact'
  BY <1>1, <1>2, Apart, CountsSame DEF Only
<1>11. UseOK' /\ BindingOK' /\ MtxOK' /\ ChunksOK' /\ FreerOK' /\ CopyOK' /\ UserOK'
  BY <1>1, <1>2, Apart, BindingSame, ChunksSame, CopySame, FreerSame, MtxSame, UseSame,
     UserSame DEF Frees, At, Taking, Freeing, Joining
<1>12. GrabOK'
  BY <1>1, <1>2, Apart, GrabSame DEF Only
<1> QED
  BY <1>3, <1>4, <1>5, <1>6, <1>7, <1>8, <1>9, <1>10, <1>11, <1>12 DEF IInv

LEMMA FreeTakenOK ==
  ASSUME Assumptions, IInv, NEW r \in Reclaimer, FreeTaken(r)
  PROVE  IInv'
<1>a. /\ at[r].pc = "free" /\ at[r].folio \in Folio /\ hash = r
      /\ resident = Abd /\ orphan = {} /\ refcnt = 0 /\ ~writing
      /\ at[Owner].pc = "idle" /\ at[User].pc \in {"idle", "drain"}
      /\ \A u \in Reclaimer \ {r} : at[u].pc \notin Taking
      /\ private[at[r].folio] = at[r].abd /\ at[r].abd \in Abd /\ at[r].folio \notin at[r].taken
      /\ at[r].folio \in mapped /\ lock[at[r].folio] = r /\ at[r].taken \subseteq Folio
      /\ at[r].spare = None
  <2>1. at[r].pc = "free" /\ hash = r
    BY DEF FreeTaken, At, IInv, HashOK, Taking
  <2>2. /\ at[r].folio \in Folio /\ at[r].folio \notin at[r].taken
        /\ at[r].taken \subseteq Folio /\ at[r].spare = None
    BY <2>1, Apart DEF IInv, Typed, AtState, InHand
  <2>3. at[Owner].pc = "idle" /\ \A u \in Reclaimer \ {r} : at[u].pc \notin Taking
    BY <2>1, Apart DEF IInv, HashOK
  <2>4. at[r].abd \in Abd /\ mtx[at[r].abd] = r /\ at[r].abd \in resident
    BY <2>1 DEF IInv, MtxOK, MutexesOf, Taking, Joining
  <2>5. resident = Abd /\ orphan = {} /\ refcnt = 0 /\ ~writing
    BY <2>1, <2>3, <2>4 DEF IInv, Typed, UseOK, Freeing, Frees, At, Joining
  <2>6. at[User].pc \in {"idle", "drain"}
    BY <2>5 DEF IInv, UseOK, HashOK, UserSteps, Freeing, Joining
  <2>7. private[at[r].folio] = at[r].abd /\ at[r].folio \in mapped /\ lock[at[r].folio] = r
    BY <2>1, <2>2 DEF IInv, PrivateOK, MappedOK, LockOK, Taking, Locking
  <2> QED
    BY <2>1, <2>2, <2>3, <2>4, <2>5, <2>6, <2>7
<1>b. /\ \A c \in Chunk : /\ sg[c] \in Folio /\ data[sg[c]] = c
                          /\ AbdOf[c] \in joined => sg[c] \in at[r].taken \cup {at[r].folio}
      /\ \A f \in at[r].taken :
           f # at[r].folio /\ \E c \in Chunk : AbdOf[c] \in joined /\ f = sg[c]
  <2>1. \A c \in Chunk : sg[c] \in Folio /\ data[sg[c]] = c
    BY <1>a, Apart DEF IInv, Typed, ChunksOK, ChunkOK, Exists, Freeing, Joining
  <2>2. \A a \in Abd : a \in joined => mtx[a] = r
    BY <1>a DEF IInv, MtxOK, MutexesOf, Frees, At, Joining
  <2>3. \A a \in Abd : mtx[a] = r => a \in joined
    BY Apart DEF IInv, MtxOK, Joining
  <2>4. TakenBy(r)
    BY DEF IInv, TakenOK
  <2> QED
    BY <1>a, <2>1, <2>2, <2>3, <2>4, Apart DEF TakenBy, At
<1>c. /\ \A f : Unjoined(f) => /\ f \notin mapped /\ private[f] = Marker /\ f \in Folio
                               /\ f # at[r].folio /\ f \notin at[r].taken
  <2> SUFFICES ASSUME NEW c \in Chunk, AbdOf[c] \notin joined
               PROVE  /\ sg[c] \notin mapped /\ private[sg[c]] = Marker /\ sg[c] \in Folio
                      /\ sg[c] # at[r].folio /\ sg[c] \notin at[r].taken
    BY DEF Unjoined
  <2>1. sg[c] \notin mapped /\ private[sg[c]] = Marker /\ sg[c] \in Folio
    BY <1>a, <1>b, Apart DEF IInv, ChunksOK, ChunkOK, At
  <2> QED
    BY <1>a, <1>b, <2>1
<1>d. /\ \A f \in Folio : private[f] \in Abd => f \in at[r].taken \cup {at[r].folio}
      /\ at[Migrator].pc \notin {"copy", "repoint"}
      /\ \A f \in at[r].taken \cup {at[r].folio} :
           /\ private[f] # None /\ f # at[Migrator].spare /\ lock[f] = r
           /\ ~(at[Migrator].pc \in Migrating /\ f = at[Migrator].folio)
           /\ ~(at[Migrator].pc \in Midway /\ f = at[Migrator].folio)
           /\ \A u \in Reclaimer :
                /\ f # batch[u] /\ (u # r => f \notin at[u].taken)
                /\ u # r /\ at[u].pc \in Locking => f # at[u].folio
  <2>1. \A f \in at[r].taken \cup {at[r].folio} : lock[f] = r
    BY <1>a DEF IInv, LockOK
  <2>2. \A f \in at[r].taken \cup {at[r].folio} :
          /\ f # at[Migrator].spare
          /\ ~(at[Migrator].pc \in Migrating /\ f = at[Migrator].folio)
          /\ ~(at[Migrator].pc \in Midway /\ f = at[Migrator].folio)
          /\ \A u \in Reclaimer :
               /\ f # batch[u] /\ (u # r => f \notin at[u].taken)
               /\ u # r /\ at[u].pc \in Locking => f # at[u].folio
    BY <1>a, <2>1, Apart DEF IInv, LockOK, Migrating, InHand
  <2>3. \A f \in Folio : private[f] \in Abd => f \in at[r].taken \cup {at[r].folio}
    BY <1>b, <2>2 DEF IInv, PrivateOK, Repointed, At, Midway
  <2>4. at[Migrator].pc \notin {"copy", "repoint"}
    <3>1. ASSUME NEW f \in Folio, f \in mapped, private[f] # None, 
                 f = at[Migrator].folio \/ f = at[Migrator].spare,
                 at[Migrator].pc \in Midway
          PROVE  FALSE
      <4>1. private[f] \in Abd
        BY <3>1 DEF IInv, Typed, PrivateOK
      <4> QED
        BY <2>2, <2>3, <3>1, <4>1
    <3>2. at[Migrator].pc \in Midway =>
            /\ at[Migrator].folio \in Folio /\ at[Migrator].spare \in Folio
            /\ at[Migrator].folio \in mapped /\ at[Migrator].spare \in mapped
      BY Apart DEF IInv, Typed, AtState, InHand, MappedOK, Midway
    <3>3. /\ at[Migrator].pc = "copy" => private[at[Migrator].folio] # None
          /\ at[Migrator].pc = "repoint" => private[at[Migrator].spare] # None
      BY DEF IInv, CopyOK, At
    <3> QED
      BY <3>1, <3>2, <3>3 DEF Midway
  <2>5. \A f \in at[r].taken \cup {at[r].folio} : private[f] # None
    BY <1>a, <1>b, <2>2, <2>4, Apart DEF IInv, ChunksOK, ChunkOK, At
  <2> QED
    BY <2>1, <2>2, <2>3, <2>4, <2>5
<1>1. /\ at[r].pc = "free" /\ at[r].folio \in Folio /\ hash = r
      /\ ref' = [f \in Folio |-> IF Unjoined(f) THEN ref[f] - 2
                                  ELSE IF f = at[r].folio THEN ref[f] - 1
                                  ELSE IF f \in at[r].taken THEN ref[f] - Owed(f) ELSE ref[f]]
      /\ private' = [f \in Folio |-> IF Unjoined(f) \/ f \in at[r].taken \/ f = at[r].folio
                                      THEN None ELSE private[f]]
      /\ mapped' = mapped \ at[r].taken
      /\ lock' = [f \in Folio |-> IF f \in at[r].taken THEN None ELSE lock[f]]
      /\ sg' = [c \in Chunk |-> None]
      /\ resident' = {} /\ orphan' = {} /\ joined' = {} /\ prelocked' = {}
      /\ mtx' = [a \in Abd |-> None]
      /\ arg' = [a \in Abd |-> None]
      /\ reclaiming' = [a \in Abd |-> None]
      /\ hash' = None
      /\ UNCHANGED <<data, hdr, gone, refcnt, writing>>
      /\ UNCHANGED <<bio, batch, grab, miscounted>>
  <2>1. at[r].pc = "free" /\ at[r].folio \in Folio /\ hash = r
    BY <1>a
  <2>2. /\ hash' = None /\ UNCHANGED <<data, hdr, gone, refcnt, writing, bio, batch,
           grab, miscounted>>
    BY DEF FreeTaken, heldVars, bioVars
  <2>3. /\ resident' = {} /\ orphan' = {} /\ joined' = {} /\ prelocked' = {}
        /\ mtx' = [a \in Abd |-> None] /\ arg' = [a \in Abd |-> None]
        /\ reclaiming' = [a \in Abd |-> None]
    BY <1>a DEF FreeTaken, Forget, IInv, Typed
  <2>4. sg' = [c \in Chunk |-> None]
    BY <1>a, Apart DEF FreeTaken
  <2>5. ASSUME NEW plain, NEW lru, plain = { sg[c] : c \in Chunks(resident \ joined) },
               lru = { sg[c] : c \in Chunks(resident \cap joined) } \ {at[r].folio}
        PROVE  lru = at[r].taken /\ \A f : f \in plain <=> Unjoined(f)
    <3>1. Chunks(resident \ joined) = { c \in Chunk : AbdOf[c] \notin joined }
      BY <1>a, Apart DEF Chunks
    <3>2. Chunks(resident \cap joined) = { c \in Chunk : AbdOf[c] \in joined }
      BY <1>a, Apart DEF Chunks
    <3>3. \A f : f \in plain <=> Unjoined(f)
      BY <2>5, <3>1 DEF Unjoined
    <3>4. \A f : f \in lru <=> f # at[r].folio /\ \E c \in Chunk : AbdOf[c] \in joined /\ f = sg[c]
      BY <2>5, <3>2
    <3>5. \A f \in at[r].taken : f \in lru
      BY <1>b, <3>4
    <3>6. \A f \in lru : f \in at[r].taken
      BY <1>b, <3>4
    <3> QED
      BY <3>3, <3>5, <3>6
  <2>6. PICK plain : plain = { sg[c] : c \in Chunks(resident \ joined) }
    OBVIOUS
  <2>7. PICK lru : lru = { sg[c] : c \in Chunks(resident \cap joined) } \ {at[r].folio}
    OBVIOUS
  <2>8. lru = at[r].taken /\ \A f : f \in plain <=> Unjoined(f)
    BY <2>5, <2>6, <2>7
  <2>9. /\ ref' = [f \in Folio |-> IF f \in plain THEN ref[f] - 2
                                    ELSE IF f = at[r].folio THEN ref[f] - 1
                                    ELSE IF f \in lru THEN ref[f] - Owed(f) ELSE ref[f]]
        /\ private' = [f \in Folio |-> IF f \in plain \cup lru \cup {at[r].folio}
                                        THEN None ELSE private[f]]
        /\ mapped' = mapped \ lru
        /\ lock' = [f \in Folio |-> IF f \in lru THEN None ELSE lock[f]]
    BY <2>6, <2>7 DEF FreeTaken
  <2>10. /\ ref' = [f \in Folio |-> IF Unjoined(f) THEN ref[f] - 2
                                     ELSE IF f = at[r].folio THEN ref[f] - 1
                                     ELSE IF f \in at[r].taken THEN ref[f] - Owed(f) ELSE ref[f]]
         /\ private' = [f \in Folio |-> IF Unjoined(f) \/ f \in at[r].taken \/ f = at[r].folio
                                         THEN None ELSE private[f]]
         /\ mapped' = mapped \ at[r].taken
         /\ lock' = [f \in Folio |-> IF f \in at[r].taken THEN None ELSE lock[f]]
    BY <2>8, <2>9
  <2> QED
    BY <2>1, <2>2, <2>3, <2>4, <2>10
<1>2. /\ at'[r].pc = "remove" /\ at'[r].abd = at[r].abd
      /\ at'[r].folio = at[r].folio /\ at'[r].spare = at[r].spare
      /\ at'[r].todo = at[r].todo /\ at'[r].taken = {}
      /\ Only(r) /\ at' \in [Task -> AtState]
  <2>1. PICK e : e = [at[r] EXCEPT !.pc = "remove", !.taken = {}]
    OBVIOUS
  <2>2. /\ at[r] \in AtState
        /\ "remove" \in Steps
    BY <1>1, Apart, RestTyped DEF IInv, Typed, AtState, Steps, Chunks
  <2>3. /\ e \in AtState
        /\ e.pc = "remove" /\ e.abd = at[r].abd
        /\ e.folio = at[r].folio /\ e.spare = at[r].spare
        /\ e.todo = at[r].todo /\ e.taken = {}
    BY <2>1, <2>2, RestTyped DEF AtState
  <2>4. at' = [at EXCEPT ![r] = e]
    BY <2>1 DEF FreeTaken, Go, Finish
  <2>5. r \in Task
    BY Apart
  <2>6. at'[r] = e /\ Only(r) /\ at' \in [Task -> AtState]
    BY <2>3, <2>4, <2>5, Moves
  <2> QED
    BY <2>3, <2>6
<1>3. Typed'
  <2>1. ref' \in [Folio -> Int]
    <3>1. \A f \in Folio : Owed(f) \in Int
      BY Apart DEF Owed
    <3> QED
      BY <1>1, <3>1 DEF IInv, Typed
  <2>2. /\ private' \in [Folio -> Abd \cup {Marker, None}]
        /\ lock' \in [Folio -> Task \cup {None}]
        /\ mapped' \subseteq Folio /\ sg' \in [Chunk -> Folio \cup {None}]
        /\ data' \in [Folio -> Chunk \cup {None}]
    BY <1>1 DEF IInv, Typed
  <2>3. /\ joined' \subseteq Abd /\ prelocked' \subseteq Abd
        /\ mtx' \in [Abd -> Task \cup {None}]
        /\ arg' \in [Abd -> Hdr \cup {None}] /\ reclaiming' \in [Abd -> Folio \cup {None}]
        /\ resident' \subseteq Abd /\ orphan' \subseteq Abd
    BY <1>1
  <2>4. /\ hash' \in Task \cup {None} /\ hdr' \in Hdr /\ gone' \subseteq Hdr
        /\ refcnt' \in 0..1 /\ writing' \in BOOLEAN
        /\ bio' \in [Chunk -> Folio \cup {None}] /\ batch' \in [Reclaimer -> Folio \cup {None}]
        /\ grab' \in [Task -> GrabState] /\ miscounted' \in BOOLEAN
    BY <1>1 DEF IInv, Typed
  <2> QED
    BY <1>2, <2>1, <2>2, <2>3, <2>4 DEF Typed
<1>4. HashOK'
  BY Apart, <1>1, <1>2 DEF IInv, HashOK, MigratorSteps, UserSteps, ReclaimerSteps,
     Taking, Freeing, Locking, Midway, Migrating, WriteSteps, Only, Joining
<1>5. InHand'
  BY Apart, <1>1, <1>2 DEF IInv, InHand, At, Taking, Midway, HashOK, ReclaimerSteps,
     Locking, Migrating, Only
<1>6. UseOK'
  BY Apart, <1>1, <1>2, <1>a, <1>b, <1>c DEF IInv, UseOK, At, Freeing, WriteSteps,
     Frees, Exists, Only, Joining
<1>7. BindingOK'
  BY Apart, <1>1, <1>2, <1>a, <1>b, <1>c DEF IInv, BindingOK, At, Taking, Only
<1>8. MtxOK'
  BY Apart, <1>1, <1>2, <1>a, <1>c, <1>d DEF IInv, MtxOK, MutexesOf, At, Freeing,
     Taking, Frees, Exists, ReclaimerSteps, Locking, Midway, Migrating, WriteSteps,
     Only, Joining
<1>9. LockOK'
  <2> SUFFICES ASSUME NEW f \in Folio
               PROVE  /\ lock'[f] = Owner <=> at'[Owner].pc \in {"joined", "drop"}
                                               /\ at'[Owner].folio = f
                      /\ lock'[f] = User <=> at'[User].pc = "drop" /\ at'[User].folio = f
                      /\ lock'[f] = Migrator
                           <=> \/ at'[Migrator].pc \in Migrating /\ at'[Migrator].folio = f
                               \/ at'[Migrator].spare = f
                      /\ \A u \in Reclaimer :
                           lock'[f] = u <=> \/ at'[u].pc \in Locking /\ at'[u].folio = f
                                            \/ f \in at'[u].taken \/ batch'[u] = f
    BY DEF LockOK, At
  <2>1. /\ at'[Owner] = at[Owner] /\ at'[User] = at[User] /\ at'[Migrator] = at[Migrator]
        /\ \A u \in Reclaimer \ {r} : at'[u] = at[u]
    BY <1>2, Apart DEF Only
  <2>2. CASE f \in at[r].taken
    <3>1. lock[f] = r /\ lock'[f] = None /\ f # at[r].folio
      BY <1>1, <1>a, <1>d, <2>2
    <3>2. /\ at'[Owner].pc \notin {"joined", "drop"} /\ at'[User].pc # "drop"
      BY <1>a, <2>1
    <3>3. \A u \in Reclaimer : ~(\/ at'[u].pc \in Locking /\ at'[u].folio = f
                                 \/ f \in at'[u].taken \/ batch'[u] = f)
      BY <1>1, <1>2, <1>d, <2>1, <2>2, <3>1
    <3> QED
      BY <1>d, <2>1, <2>2, <3>1, <3>2, <3>3, Apart
  <2>3. CASE f \notin at[r].taken
    <3>1. lock'[f] = lock[f] /\ batch' = batch
      BY <1>1, <2>3
    <3>2. \A u \in Reclaimer :
            /\ f \in at'[u].taken <=> f \in at[u].taken
            /\ at'[u].folio = at[u].folio
            /\ at'[u].pc \in Locking <=> at[u].pc \in Locking
      BY <1>1, <1>2, <2>1, <2>3 DEF Locking, Taking
    <3> QED
      BY <2>1, <3>1, <3>2 DEF IInv, LockOK, At
  <2> QED
    BY <2>2, <2>3
<1>10. MappedOK'
  <2>1. /\ at'[Owner] = at[Owner] /\ at'[Migrator] = at[Migrator] /\ batch' = batch
        /\ \A u \in Reclaimer \ {r} : at'[u] = at[u]
    BY <1>1, <1>2, Apart DEF Only
  <2>2. /\ at'[r].pc \notin Locking \ {"fail"} \/ at'[r].folio = at[r].folio
        /\ \A f \in mapped : f \notin at[r].taken => f \in mapped'
    BY <1>1, <1>2 DEF Locking, Taking
  <2>3. at[Owner].pc # "joined"
    BY <1>a
  <2>4. /\ at[Migrator].pc \in {"migrate"} \cup Midway => at[Migrator].folio \in mapped'
        /\ at[Migrator].pc \in Midway =>
             at[Migrator].spare \in mapped' /\ at[Migrator].spare # at[Migrator].folio
    <3>1. at[Migrator].pc \in {"migrate"} \cup Midway => at[Migrator].folio \in mapped
      BY DEF IInv, MappedOK
    <3>2. at[Migrator].pc \in Midway =>
            at[Migrator].spare \in mapped /\ at[Migrator].spare # at[Migrator].folio
      BY DEF IInv, MappedOK
    <3>3. at[Migrator].pc \in {"migrate"} \cup Midway =>
            at[Migrator].folio \notin at[r].taken
      BY <1>d DEF Midway, Migrating
    <3>4. at[Migrator].spare \notin at[r].taken
      BY <1>d
    <3> QED
      BY <2>2, <3>1, <3>2, <3>3, <3>4
  <2>5. ASSUME NEW u \in Reclaimer
        PROVE  /\ batch[u] # None => batch[u] \in mapped'
               /\ at'[u].pc \in Locking \ {"fail"} => at'[u].folio \in mapped'
    <3>1. batch[u] # None => batch[u] \in mapped'
      BY <1>d, <2>2 DEF IInv, MappedOK
    <3>2. CASE u = r
      BY <1>a, <2>2, <3>1, <3>2
    <3>3. CASE u # r
      <4>1. at[u].pc \in Locking \ {"fail"} =>
              at[u].folio \in mapped /\ at[u].folio \notin at[r].taken
        BY <1>d, <3>3 DEF IInv, MappedOK
      <4> QED
        BY <2>1, <2>2, <3>1, <3>3, <4>1
    <3> QED
      BY <3>2, <3>3
  <2>6. ASSUME NEW t \in Reclaimer \cup {Migrator}, NEW c \in Chunk
        PROVE  at'[t].folio # None /\ sg'[c] = at'[t].folio => sg'[c] \in mapped'
    BY <1>1
  <2> QED
    BY <1>1, <2>1, <2>3, <2>4, <2>5, <2>6 DEF MappedOK, At
<1>11. PrivateOK'
  <2>1. ASSUME NEW f \in Folio
        PROVE  private'[f] \notin Abd /\ (f \in mapped' => private'[f] # Marker)
    BY <1>1, <1>d, <2>1, Apart DEF IInv, PrivateOK
  <2>2. ASSUME NEW u \in Reclaimer
        PROVE  /\ at'[u].pc \in {"trymtx", "header"} \cup Taking =>
                    private'[at'[u].folio] = at'[u].abd
               /\ at'[u].pc = "remove" => private'[at'[u].folio] = None
    <3>1. CASE u = r
      BY <1>1, <1>2, <3>1 DEF Taking
    <3>2. CASE u # r
      <4>1. at'[u] = at[u] /\ at[u].pc \notin Taking
        BY <1>2, <1>a, <3>2 DEF Only, Task
      <4>2. CASE at[u].pc \in {"trymtx", "header", "remove"}
        <5>1. at[u].folio \in Folio /\ at[u].folio \in mapped
          BY <4>2, Apart DEF IInv, Typed, MappedOK, Locking, Taking
        <5>2. private'[at[u].folio] = private[at[u].folio]
          <6>1. at[u].pc \in Locking
            BY <4>2 DEF Locking
          <6>2. at[u].folio \notin at[r].taken /\ at[u].folio # at[r].folio
            BY <1>d, <3>2, <6>1
          <6>3. ~Unjoined(at[u].folio)
            BY <1>c, <5>1
          <6> QED
            BY <1>1, <5>1, <6>2, <6>3
        <5> QED
          BY <4>1, <4>2, <5>2 DEF IInv, PrivateOK, At
      <4> QED
        BY <4>1, <4>2
    <3> QED
      BY <3>1, <3>2
  <2> QED
    BY <2>1, <2>2 DEF PrivateOK, At
<1>12. ChunksOK'
  BY <1>1, <1>2, <1>b, <1>c, <1>d DEF IInv, Typed, ChunksOK, ChunkOK, At, Freeing,
     Exists, Only, Joining
<1>13. FreerOK'
  BY Apart, <1>2, <1>a DEF FreerOK, Freeing, Joining, At, Only
<1>14. TakenOK'
  BY Apart, <1>1, <1>2 DEF IInv, TakenOK, TakenBy, At, HashOK, OwnerSteps, Taking,
     Freeing, WriteSteps, InHand, Only, Joining
<1>15. CopyOK'
  BY Apart, <1>1, <1>2, <1>a, <1>b, <1>c, <1>d DEF IInv, Typed, CopyOK, At, HashOK,
     OwnerSteps, MigratorSteps, Taking, Freeing, Locking, Midway, Migrating, WriteSteps,
     InHand, LockOK, MappedOK, ChunksOK, ChunkOK, Exists, Only, Joining
<1>16. UserOK'
  BY Apart, <1>1, <1>2, <1>a, <1>b, <1>c, <1>d DEF IInv, UserOK, At, Only
<1>17. Exact'
  <2>1. \A f \in Folio : Several(f)' = Several(f) - One(f \in at[r].taken)
    BY <1>1, <1>2, <1>a, Apart, TakenLetGo
  <2> SUFFICES ASSUME NEW f \in Folio PROVE ref'[f] = Holders(f)'
    BY DEF Exact
  <2>2. /\ OwnerRefs(f)' = OwnerRefs(f) /\ at'[Migrator] = at[Migrator] /\ at'[User] = at[User]
        /\ ~At(Owner, "joined") /\ ~At(Owner, "joined")'
    BY <1>2, <1>a, Apart DEF OwnerRefs, Only, At
  <2>3. ChunkRefs(f)' = 0
    BY <1>1, <2>2, Apart DEF ChunkRefs, Named, One
  <2>4. CASE Unjoined(f)
    <3>1. f \notin mapped /\ private[f] = Marker /\ f \notin at[r].taken
      BY <1>c, <2>4
    <3>2. ChunkRefs(f) = 1
      BY <2>4, <3>1 DEF ChunkRefs, One, Named, Unjoined
    <3>3. One(private[f] # None) = 1 /\ One(private'[f] # None) = 0
      BY <1>1, <2>4, <3>1, Apart DEF One
    <3>4. CacheRefs(f)' = 0 /\ CacheRefs(f) = 0
      BY <1>1, <3>1 DEF CacheRefs
    <3>5. Single(f)' = Single(f) - 2
      BY <2>2, <2>3, <3>2, <3>3, <3>4, CountsAreNat DEF Single, One
    <3>6. ref'[f] = ref[f] - 2 /\ Several(f)' = Several(f)
      BY <1>1, <2>1, <2>4, <3>1, HoldersAre DEF One
    <3> QED
      BY <3>5, <3>6, HoldersAre DEF IInv, Exact
  <2>5. CASE f = at[r].folio
    <3>1. f \in mapped /\ private[f] \in Abd /\ f \notin at[r].taken /\ ~Unjoined(f)
      BY <1>a, <1>c, <2>5, Apart
    <3>2. ChunkRefs(f) = 0
      BY <2>2, <3>1 DEF ChunkRefs, One
    <3>3. One(private[f] # None) = 1 /\ One(private'[f] # None) = 0
      BY <1>1, <2>5, <3>1, Apart DEF One
    <3>4. CacheRefs(f)' = CacheRefs(f)
      BY <1>1, <2>2, <3>1 DEF CacheRefs
    <3>5. Single(f)' = Single(f) - 1
      BY <2>2, <2>3, <3>2, <3>3, <3>4, CountsAreNat DEF Single, One
    <3>6. ref'[f] = ref[f] - 1 /\ Several(f)' = Several(f)
      BY <1>1, <2>1, <2>5, <3>1, HoldersAre DEF One
    <3> QED
      BY <3>5, <3>6, HoldersAre DEF IInv, Exact
  <2>6. CASE f \in at[r].taken
    <3>1. /\ f # at[r].folio /\ ~Unjoined(f) /\ private[f] # None /\ Named(f)
          /\ ~(at[Migrator].pc \in Midway /\ f = at[Migrator].folio)
      BY <1>a, <1>b, <1>c, <1>d, <2>6 DEF Named
    <3>2. ChunkRefs(f) = One(f \notin mapped)
      BY <2>2, <3>1 DEF ChunkRefs, One
    <3>3. One(private[f] # None) = 1 /\ One(private'[f] # None) = 0
      BY <1>1, <2>6, <3>1 DEF One
    <3>4. CacheRefs(f)' = 0 /\ CacheRefs(f) + 2 + One(f \notin mapped) = Owed(f)
      BY <1>1, <2>6, <3>1, Apart DEF CacheRefs, Owed, One
    <3>5. Single(f)' = Single(f) - (Owed(f) - 1)
      BY <2>2, <2>3, <3>2, <3>3, <3>4, CountsAreNat DEF Single, One
    <3>6. ref'[f] = ref[f] - Owed(f)
      BY <1>1, <2>6, <3>1
    <3>7. Several(f)' = Several(f) - 1
      BY <2>1, <2>6 DEF One
    <3>8. Owed(f) \in Nat
      BY Apart DEF Owed
    <3> QED
      BY <3>5, <3>6, <3>7, <3>8, HoldersAre DEF IInv, Exact
  <2>7. CASE ~Unjoined(f) /\ f # at[r].folio /\ f \notin at[r].taken
    <3>1. ChunkRefs(f) = 0
      BY <1>b, <2>2, <2>7 DEF ChunkRefs, One, Named, Unjoined
    <3>2. CacheRefs(f)' = CacheRefs(f) /\ private'[f] = private[f]
      BY <1>1, <2>2, <2>7 DEF CacheRefs
    <3>3. Single(f)' = Single(f)
      BY <2>2, <2>3, <3>1, <3>2 DEF Single
    <3>4. ref'[f] = ref[f] /\ Several(f)' = Several(f)
      BY <1>1, <2>1, <2>7, HoldersAre DEF One
    <3> QED
      BY <3>3, <3>4, HoldersAre DEF IInv, Exact
  <2> QED
    BY <2>4, <2>5, <2>6, <2>7
<1>18. GrabOK'
  BY <1>1, <1>2, Apart, GrabSame DEF Only
<1> QED
  BY <1>3, <1>4, <1>5, <1>6, <1>7, <1>8, <1>9, <1>10, <1>11, <1>12, <1>13, <1>14, <1>15,
     <1>16, <1>17, <1>18 DEF IInv

-----------------------------------------------------------------------------
(* Compaction. *)

LEMMA MigIsolateOK ==
  ASSUME Assumptions, IInv, NEW f \in Folio, MigIsolate(f)
  PROVE  IInv'
<1>1. /\ at[Migrator].pc = "idle" /\ f \in mapped /\ at[Migrator].folio = None
      /\ ref' = [ref EXCEPT ![f] = @ + 1]
      /\ UNCHANGED <<sg, lock, private, mapped, data>>
      /\ UNCHANGED <<joined, prelocked, mtx, arg, reclaiming>>
      /\ UNCHANGED <<hash, hdr, gone, resident, orphan, refcnt, writing>>
      /\ UNCHANGED <<bio, batch, grab, miscounted>>
  BY Apart DEF MigIsolate, Isolated, Get, At, abdVars, hdrVars, IInv, InHand, heldVars,
  bioVars
<1>2. /\ at'[Migrator].pc = "isolated" /\ at'[Migrator].abd = at[Migrator].abd
      /\ at'[Migrator].folio = f /\ at'[Migrator].spare = at[Migrator].spare
      /\ at'[Migrator].todo = at[Migrator].todo /\ at'[Migrator].taken = at[Migrator].taken
      /\ Only(Migrator) /\ at' \in [Task -> AtState]
  <2>1. PICK e : e = [at[Migrator] EXCEPT !.pc = "isolated", !.folio = f]
    OBVIOUS
  <2>2. /\ at[Migrator] \in AtState
        /\ "isolated" \in Steps
        /\ f \in Folio \cup {None}
    BY <1>1, Apart, RestTyped DEF IInv, Typed, AtState, Steps, Chunks
  <2>3. /\ e \in AtState
        /\ e.pc = "isolated" /\ e.abd = at[Migrator].abd
        /\ e.folio = f /\ e.spare = at[Migrator].spare
        /\ e.todo = at[Migrator].todo /\ e.taken = at[Migrator].taken
    BY <2>1, <2>2, RestTyped DEF AtState
  <2>4. at' = [at EXCEPT ![Migrator] = e]
    BY <2>1 DEF MigIsolate, Go, Finish
  <2>5. Migrator \in Task
    BY Apart
  <2>6. at'[Migrator] = e /\ Only(Migrator) /\ at' \in [Task -> AtState]
    BY <2>3, <2>4, <2>5, Moves
  <2> QED
    BY <2>3, <2>6
<1>3. Typed'
  BY <1>1, <1>2 DEF IInv, Typed, AtState, Only
<1>4. HashOK'
  BY Apart, <1>1, <1>2 DEF IInv, HashOK, OwnerSteps, MigratorSteps, UserSteps, Locking,
     Midway, Migrating, WriteSteps, Only, Joining
<1>5. InHand'
  BY Apart, <1>1, <1>2 DEF IInv, InHand, At, Taking, Midway, Only
<1>6. UseOK'
  BY Apart, <1>1, <1>2 DEF IInv, UseOK, At, Freeing, WriteSteps, Frees, Exists, Only,
       Joining
<1>7. LockOK'
  BY Apart, <1>1, <1>2 DEF IInv, LockOK, At, Migrating, Midway, Only
<1>8. MappedOK'
  BY Apart, <1>1, <1>2 DEF IInv, Typed, MappedOK, At, Midway, Taking, Only
<1>9. PrivateOK'
  BY Apart, <1>1, <1>2 DEF IInv, PrivateOK, At, Repointed, Only
<1>10. CopyOK'
  BY <1>1, <1>2 DEF IInv, Typed, CopyOK, At, Only
<1>11. Exact'
  <2>1. \A g \in Folio : Several(g)' = Several(g) + One(g = f)
    BY <1>1, <1>2, Apart, HandTaken
  <2>2. \A g \in Folio : Single(g)' = Single(g)
    BY <1>1, <1>2, Apart, SingleSame DEF Only, Task, Midway
  <2>3. ASSUME NEW g \in Folio PROVE ref'[g] = Holders(g)'
    BY <1>1, <2>1, <2>2, HoldersAre, Apart DEF IInv, Typed, Exact, One
  <2> QED
    BY <2>3 DEF Exact
<1>12. BindingOK' /\ MtxOK' /\ ChunksOK' /\ FreerOK' /\ TakenOK' /\ UserOK'
  BY <1>1, <1>2, Apart, BindingSame, ChunksSame, FreerSame, MtxSame, TakenSame, UserSame
     DEF Taking, Freeing, Joining
<1>13. GrabOK'
  BY <1>1, <1>2, Apart, GrabSame DEF Only
<1> QED
  BY <1>3, <1>4, <1>5, <1>6, <1>7, <1>8, <1>9, <1>10, <1>11, <1>12, <1>13 DEF IInv

LEMMA MigLockOK ==
  ASSUME Assumptions, IInv, MigLock, lock[at[Migrator].folio] = None
  PROVE  IInv'
<1>1. /\ at[Migrator].pc = "isolated" /\ at[Migrator].folio \in Folio
      /\ lock[at[Migrator].folio] = None
      /\ lock' = [lock EXCEPT ![at[Migrator].folio] = Migrator]
      /\ UNCHANGED <<sg, ref, private, mapped, data>>
      /\ UNCHANGED <<joined, prelocked, mtx, arg, reclaiming>>
      /\ UNCHANGED <<hash, hdr, gone, resident, orphan, refcnt, writing>>
      /\ UNCHANGED <<bio, batch, grab, miscounted>>
  BY Apart DEF MigLock, At, abdVars, hdrVars, IInv, Typed, AtState, InHand, heldVars,
  bioVars
<1>2. /\ at'[Migrator].pc = (IF at[Migrator].folio \in mapped THEN "migrate" ELSE "fail")
      /\ at'[Migrator].abd = at[Migrator].abd
      /\ at'[Migrator].folio = at[Migrator].folio /\ at'[Migrator].spare = at[Migrator].spare
      /\ at'[Migrator].todo = at[Migrator].todo /\ at'[Migrator].taken = at[Migrator].taken
      /\ Only(Migrator) /\ at' \in [Task -> AtState]
  <2>1. PICK e : e = [at[Migrator] EXCEPT
                        !.pc = (IF at[Migrator].folio \in mapped THEN "migrate" ELSE "fail")]
    OBVIOUS
  <2>2. /\ at[Migrator] \in AtState
        /\ (IF at[Migrator].folio \in mapped THEN "migrate" ELSE "fail") \in Steps
    BY <1>1, Apart, RestTyped DEF IInv, Typed, AtState, Steps, Chunks
  <2>3. /\ e \in AtState
        /\ e.pc = (IF at[Migrator].folio \in mapped THEN "migrate" ELSE "fail")
        /\ e.abd = at[Migrator].abd
        /\ e.folio = at[Migrator].folio /\ e.spare = at[Migrator].spare
        /\ e.todo = at[Migrator].todo /\ e.taken = at[Migrator].taken
    BY <2>1, <2>2, RestTyped DEF AtState
  <2>4. at' = [at EXCEPT ![Migrator] = e]
    BY <2>1 DEF MigLock, Go, Finish
  <2>5. Migrator \in Task
    BY Apart
  <2>6. at'[Migrator] = e /\ Only(Migrator) /\ at' \in [Task -> AtState]
    BY <2>3, <2>4, <2>5, Moves
  <2> QED
    BY <2>3, <2>6
<1>3. Typed'
  BY <1>1, <1>2 DEF IInv, Typed, AtState, Only
<1>4. HashOK'
  BY Apart, <1>1, <1>2 DEF IInv, Typed, HashOK, MigratorSteps, UserSteps,
     ReclaimerSteps, Taking, Freeing, Locking, Midway, Migrating, WriteSteps, Only,
     Joining
<1>5. InHand'
  BY Apart, <1>1, <1>2 DEF IInv, Typed, InHand, At, Taking, Midway, Only
<1>6. UseOK'
  BY Apart, <1>1, <1>2 DEF IInv, UseOK, At, Freeing, WriteSteps, Frees, Exists, Only,
       Joining
<1>7. LockOK'
  BY Apart, <1>1, <1>2 DEF IInv, Typed, LockOK, At, Migrating, Only
<1>8. MappedOK'
  BY Apart, <1>1, <1>2 DEF IInv, MappedOK, At, Midway, Taking, Only
<1>9. PrivateOK'
  BY Apart, <1>1, <1>2 DEF IInv, PrivateOK, At, Repointed, Only
<1>10. CopyOK'
  BY <1>1, <1>2 DEF IInv, Typed, CopyOK, At, Only
<1>11. Exact'
  BY <1>1, <1>2, CountsSame DEF Only, Task, Midway
<1>12. BindingOK' /\ MtxOK' /\ ChunksOK' /\ FreerOK' /\ TakenOK' /\ UserOK'
  BY <1>1, <1>2, Apart, BindingSame, ChunksSame, FreerSame, MtxSame, TakenSame, UserSame
     DEF Taking, Freeing, Joining
<1>13. GrabOK'
  BY <1>1, <1>2, Apart, GrabSame DEF Only
<1> QED
  BY <1>3, <1>4, <1>5, <1>6, <1>7, <1>8, <1>9, <1>10, <1>11, <1>12, <1>13 DEF IInv

LEMMA MigLockFailsOK ==
  ASSUME Assumptions, IInv, MigLock, lock[at[Migrator].folio] # None
  PROVE  IInv'
<1>1. /\ at[Migrator].pc = "isolated" /\ at[Migrator].folio \in Folio
      /\ ref' = [ref EXCEPT ![at[Migrator].folio] = @ - 1]
      /\ UNCHANGED <<sg, lock, private, mapped, data>>
      /\ UNCHANGED <<joined, prelocked, mtx, arg, reclaiming>>
      /\ UNCHANGED <<hash, hdr, gone, resident, orphan, refcnt, writing>>
      /\ UNCHANGED <<bio, batch, grab, miscounted>>
  BY Apart DEF MigLock, Put, At, abdVars, hdrVars, IInv, Typed, AtState, InHand,
  heldVars, bioVars
<1>2. /\ at'[Migrator].pc = "idle" /\ at'[Migrator].abd = None
      /\ at'[Migrator].folio = None /\ at'[Migrator].spare = None
      /\ at'[Migrator].todo = {} /\ at'[Migrator].taken = {}
      /\ Only(Migrator) /\ at' \in [Task -> AtState]
  <2>1. PICK e : e = Rest
    OBVIOUS
  <2>2. /\ Rest \in AtState
    BY <1>1, Apart, RestTyped DEF IInv, Typed, AtState, Steps, Chunks
  <2>3. /\ e \in AtState
        /\ e.pc = "idle" /\ e.abd = None
        /\ e.folio = None /\ e.spare = None
        /\ e.todo = {} /\ e.taken = {}
    BY <2>1, <2>2, RestTyped DEF AtState
  <2>4. at' = [at EXCEPT ![Migrator] = e]
    BY <2>1 DEF MigLock, Go, Finish
  <2>5. Migrator \in Task
    BY Apart
  <2>6. at'[Migrator] = e /\ Only(Migrator) /\ at' \in [Task -> AtState]
    BY <2>3, <2>4, <2>5, Moves
  <2> QED
    BY <2>3, <2>6
<1>a. at[Migrator].spare = None
  BY <1>1 DEF IInv, InHand, Midway
<1>3. Typed'
  BY <1>1, <1>2 DEF IInv, Typed, AtState, Only
<1>4. HashOK'
  BY Apart, <1>1, <1>2 DEF IInv, HashOK, MigratorSteps, UserSteps, ReclaimerSteps,
     Taking, Freeing, Locking, Midway, Migrating, WriteSteps, Only, Joining
<1>5. InHand'
  BY Apart, <1>1, <1>2 DEF IInv, InHand, At, Taking, Midway, Only
<1>6. UseOK'
  BY Apart, <1>1, <1>2 DEF IInv, UseOK, At, Freeing, WriteSteps, Frees, Exists,
     Only, Joining
<1>7. LockOK'
  BY Apart, <1>1, <1>2 DEF IInv, LockOK, At, Migrating, Midway, Locking, Taking,
     ReclaimerSteps, Freeing, WriteSteps, InHand, Only, Joining
<1>8. MappedOK'
  BY Apart, <1>1, <1>2 DEF IInv, MappedOK, At, Midway, Locking, Only
<1>9. PrivateOK'
  BY Apart, <1>1, <1>2 DEF IInv, Typed, PrivateOK, At, Repointed, Only
<1>10. CopyOK'
  BY <1>1, <1>2 DEF IInv, Typed, CopyOK, At, Only
<1>11. Exact'
  <2>1. \A f \in Folio : Several(f)' = Several(f) - One(f = at[Migrator].folio)
    BY <1>1, <1>2, Apart, HandLetGo
  <2>2. \A f \in Folio : Single(f)' = Single(f)
    BY <1>1, <1>2, <1>a, Apart, SingleSame DEF Only, Task, Midway
  <2>3. ASSUME NEW f \in Folio PROVE ref'[f] = Holders(f)'
    BY <1>1, <2>1, <2>2, HoldersAre, Apart DEF IInv, Typed, Exact, One
  <2> QED
    BY <2>3 DEF Exact
<1>12. BindingOK' /\ MtxOK' /\ ChunksOK' /\ FreerOK' /\ TakenOK' /\ UserOK'
  BY <1>1, <1>2, Apart, BindingSame, ChunksSame, FreerSame, MtxSame, TakenSame, UserSame
     DEF Taking, Freeing, Joining
<1>13. GrabOK'
  BY <1>1, <1>2, Apart, GrabSame DEF Only
<1> QED
  BY <1>3, <1>4, <1>5, <1>6, <1>7, <1>8, <1>9, <1>10, <1>11, <1>12, <1>13 DEF IInv

LEMMA MigBusyOK ==
  ASSUME Assumptions, IInv, MigBusy
  PROVE  IInv'
<1>1. /\ at[Migrator].pc = "migrate"
      /\ UNCHANGED <<sg, ref, lock, private, mapped, data>>
      /\ UNCHANGED <<joined, prelocked, mtx, arg, reclaiming>>
      /\ UNCHANGED <<hash, hdr, gone, resident, orphan, refcnt, writing>>
      /\ UNCHANGED <<bio, batch, grab, miscounted>>
  BY Apart DEF MigBusy, At, folioVars, abdVars, hdrVars, heldVars, bioVars
<1>2. /\ at'[Migrator].pc = "fail" /\ at'[Migrator].abd = at[Migrator].abd
      /\ at'[Migrator].folio = at[Migrator].folio /\ at'[Migrator].spare = at[Migrator].spare
      /\ at'[Migrator].todo = at[Migrator].todo /\ at'[Migrator].taken = at[Migrator].taken
      /\ Only(Migrator) /\ at' \in [Task -> AtState]
  <2>1. PICK e : e = [at[Migrator] EXCEPT !.pc = "fail"]
    OBVIOUS
  <2>2. /\ at[Migrator] \in AtState
        /\ "fail" \in Steps
    BY <1>1, Apart, RestTyped DEF IInv, Typed, AtState, Steps, Chunks
  <2>3. /\ e \in AtState
        /\ e.pc = "fail" /\ e.abd = at[Migrator].abd
        /\ e.folio = at[Migrator].folio /\ e.spare = at[Migrator].spare
        /\ e.todo = at[Migrator].todo /\ e.taken = at[Migrator].taken
    BY <2>1, <2>2, RestTyped DEF AtState
  <2>4. at' = [at EXCEPT ![Migrator] = e]
    BY <2>1 DEF MigBusy, Go, Finish
  <2>5. Migrator \in Task
    BY Apart
  <2>6. at'[Migrator] = e /\ Only(Migrator) /\ at' \in [Task -> AtState]
    BY <2>3, <2>4, <2>5, Moves
  <2> QED
    BY <2>3, <2>6
<1>3. Typed'
  BY <1>1, <1>2 DEF IInv, Typed, AtState, Only
<1>4. HashOK'
  BY Apart, <1>1, <1>2 DEF IInv, HashOK, MigratorSteps, UserSteps, ReclaimerSteps,
     Taking, Freeing, Locking, Midway, Migrating, WriteSteps, Only, Joining
<1>5. InHand'
  BY Apart, <1>1, <1>2 DEF IInv, InHand, At, Taking, Midway, Only
<1>6. UseOK'
  BY Apart, <1>1, <1>2 DEF IInv, Typed, UseOK, At, Freeing, WriteSteps, Frees, Exists,
     Only, Joining
<1>7. LockOK'
  BY Apart, <1>1, <1>2 DEF IInv, Typed, LockOK, At, Migrating, Midway, Taking, Only
<1>8. MappedOK'
  BY Apart, <1>1, <1>2 DEF IInv, MappedOK, At, Midway, Locking, Taking, Only
<1>9. PrivateOK'
  BY Apart, <1>1, <1>2 DEF IInv, PrivateOK, At, Repointed, Only
<1>10. CopyOK'
  BY <1>1, <1>2 DEF IInv, Typed, CopyOK, At, Only
<1>11. Exact'
  BY <1>1, <1>2, CountsSame DEF Only, Task, Midway
<1>12. BindingOK' /\ MtxOK' /\ ChunksOK' /\ FreerOK' /\ TakenOK' /\ UserOK'
  BY <1>1, <1>2, Apart, BindingSame, ChunksSame, FreerSame, MtxSame, TakenSame, UserSame
     DEF Taking, Freeing, Joining
<1>13. GrabOK'
  BY <1>1, <1>2, Apart, GrabSame DEF Only
<1> QED
  BY <1>3, <1>4, <1>5, <1>6, <1>7, <1>8, <1>9, <1>10, <1>11, <1>12, <1>13 DEF IInv

LEMMA MigMappingOK ==
  ASSUME Assumptions, IInv, NEW dst \in Folio, MigMapping(dst),
     private[at[Migrator].folio] # None
  PROVE  IInv'
<1>1. /\ at[Migrator].pc = "migrate" /\ at[Migrator].folio \in Folio /\ ref[dst] = 0
      /\ at[Migrator].folio \in mapped /\ lock[at[Migrator].folio] = Migrator
      /\ ref' = [ref EXCEPT ![at[Migrator].folio] = @ - Pages, ![dst] = Pages + 1]
      /\ mapped' = mapped \cup {dst}
      /\ lock' = [lock EXCEPT ![dst] = Migrator]
      /\ UNCHANGED <<sg, private, data>>
      /\ UNCHANGED <<joined, prelocked, mtx, arg, reclaiming>>
      /\ UNCHANGED <<hash, hdr, gone, resident, orphan, refcnt, writing>>
      /\ UNCHANGED <<bio, batch, grab, miscounted>>
  BY Apart DEF MigMapping, At, abdVars, hdrVars, MappedOK, LockOK, Migrating, IInv,
     Typed, AtState, InHand, heldVars, bioVars
<1>2. /\ at'[Migrator].pc = "copy" /\ at'[Migrator].abd = private[at[Migrator].folio]
      /\ at'[Migrator].folio = at[Migrator].folio /\ at'[Migrator].spare = dst
      /\ at'[Migrator].todo = at[Migrator].todo /\ at'[Migrator].taken = at[Migrator].taken
      /\ Only(Migrator) /\ at' \in [Task -> AtState]
  <2>1. PICK e : e = [at[Migrator] EXCEPT !.pc = "copy", !.abd = private[at[Migrator].folio],
                                   !.spare = dst]
    OBVIOUS
  <2>2. /\ at[Migrator] \in AtState
        /\ "copy" \in Steps
        /\ private[at[Migrator].folio] \in Abd \cup {Marker, None}
        /\ dst \in Folio \cup Hdr \cup {None}
    BY <1>1, Apart, RestTyped DEF IInv, Typed, AtState, Steps, Chunks
  <2>3. /\ e \in AtState
        /\ e.pc = "copy" /\ e.abd = private[at[Migrator].folio]
        /\ e.folio = at[Migrator].folio /\ e.spare = dst
        /\ e.todo = at[Migrator].todo /\ e.taken = at[Migrator].taken
    BY <2>1, <2>2, RestTyped DEF AtState
  <2>4. at' = [at EXCEPT ![Migrator] = e]
    BY <2>1 DEF MigMapping, Go, Finish
  <2>5. Migrator \in Task
    BY Apart
  <2>6. at'[Migrator] = e /\ Only(Migrator) /\ at' \in [Task -> AtState]
    BY <2>3, <2>4, <2>5, Moves
  <2> QED
    BY <2>3, <2>6
<1>a. /\ dst \notin mapped /\ private[dst] = None /\ ~Named(dst) /\ lock[dst] = None
      /\ dst # at[Owner].folio /\ dst # at[User].folio /\ dst # at[Migrator].folio
      /\ dst # at[Migrator].spare
      /\ \A r \in Reclaimer :
           /\ dst # at[r].folio /\ dst # at[r].spare
           /\ dst \notin at[r].taken /\ dst # batch[r]
      /\ \A c \in Chunk : bio[c] # dst
  BY <1>1, Unreferenced
<1>b. \A c \in Chunk : sg[c] # dst
  BY <1>a DEF Named
<1>3. Typed'
  BY Apart, <1>1, <1>2 DEF IInv, Typed, AtState, Only
<1>4. HashOK'
  BY Apart, <1>1, <1>2 DEF IInv, HashOK, OwnerSteps, MigratorSteps, UserSteps,
     ReclaimerSteps, Taking, Freeing, Locking, Midway, Migrating, WriteSteps, Only,
     Joining
<1>5. InHand'
  BY Apart, <1>1, <1>2 DEF IInv, InHand, At, Taking, Midway, Only
<1>6. UseOK'
  BY Apart, <1>1, <1>2 DEF IInv, Typed, UseOK, At, Freeing, WriteSteps, Frees, Exists,
     Only, Joining
<1>7. LockOK'
  BY Apart, <1>1, <1>2, <1>a DEF IInv, Typed, LockOK, At, Migrating, Midway, Locking,
     Taking, ReclaimerSteps, Freeing, WriteSteps, InHand, Only, Joining
<1>8. MappedOK'
  BY Apart, <1>1, <1>2, <1>a DEF IInv, MappedOK, At, Only
<1>9. PrivateOK'
  BY Apart, <1>1, <1>2, <1>a DEF IInv, PrivateOK, At, Repointed, Taking, Only
<1>10. ChunksOK'
  BY Apart, <1>1, <1>2, <1>b DEF IInv, ChunksOK, ChunkOK, At, Freeing, Exists, Only,
       Joining
<1>11. FreerOK'
  BY Apart, <1>1, <1>2, <1>a, <1>b DEF IInv, Typed, FreerOK, At, Freeing, Taking,
     Locking, Midway, Migrating, WriteSteps, InHand, Only, Joining
<1>12. CopyOK'
  BY Apart, <1>1, <1>2, <1>a, <1>b DEF IInv, Typed, CopyOK, At, Only
<1>13. Exact'
  <2>1. \A f \in Folio : Several(f)' = Several(f)
    BY <1>1, <1>2, Apart, SeveralSame DEF Only, Task
  <2>2. \A f \in Folio :
          Single(f)' = Single(f) + (IF f = dst THEN Pages + 1
                                    ELSE IF f = at[Migrator].folio THEN -Pages ELSE 0)
    BY <1>1, <1>2, <1>a, Apart DEF Single, CacheRefs, ChunkRefs, OwnerRefs, One, At,
       Only, Task, Midway, Named, IInv, InHand
  <2>3. \A f \in Folio :
          ref'[f] = ref[f] + (IF f = dst THEN Pages + 1
                              ELSE IF f = at[Migrator].folio THEN -Pages ELSE 0)
    BY <1>1, <1>a, Apart DEF IInv, Typed
  <2> QED
    BY <2>1, <2>2, <2>3, HoldersAre, Apart DEF IInv, Typed, Exact
<1>14. BindingOK' /\ MtxOK' /\ TakenOK' /\ UserOK'
  BY <1>1, <1>2, Apart, BindingSame, MtxSame, TakenSame, UserSame DEF Taking, Freeing,
       Joining
<1>15. GrabOK'
  BY <1>1, <1>2, Apart, GrabSame DEF Only
<1> QED
  BY <1>3, <1>4, <1>5, <1>6, <1>7, <1>8, <1>9, <1>10, <1>11, <1>12, <1>13, <1>14,
       <1>15 DEF
     IInv

LEMMA MigMappingBareOK ==
  ASSUME Assumptions, IInv, NEW dst \in Folio, MigMapping(dst),
     private[at[Migrator].folio] = None
  PROVE  IInv'
<1>1. /\ at[Migrator].pc = "migrate" /\ at[Migrator].folio \in Folio /\ ref[dst] = 0
      /\ at[Migrator].folio \in mapped /\ lock[at[Migrator].folio] = Migrator
      /\ ref' = [ref EXCEPT ![at[Migrator].folio] = @ - Pages, ![dst] = Pages + 1]
      /\ mapped' = mapped \cup {dst}
      /\ lock' = [lock EXCEPT ![dst] = Migrator]
      /\ UNCHANGED <<sg, private, data>>
      /\ UNCHANGED <<joined, prelocked, mtx, arg, reclaiming>>
      /\ UNCHANGED <<hash, hdr, gone, resident, orphan, refcnt, writing>>
      /\ UNCHANGED <<bio, batch, grab, miscounted>>
  BY Apart DEF MigMapping, At, abdVars, hdrVars, MappedOK, LockOK, Migrating, IInv,
     Typed, AtState, InHand, heldVars, bioVars
<1>2. /\ at'[Migrator].pc = "moved" /\ at'[Migrator].abd = private[at[Migrator].folio]
      /\ at'[Migrator].folio = at[Migrator].folio /\ at'[Migrator].spare = dst
      /\ at'[Migrator].todo = at[Migrator].todo /\ at'[Migrator].taken = at[Migrator].taken
      /\ Only(Migrator) /\ at' \in [Task -> AtState]
  <2>1. PICK e : e = [at[Migrator] EXCEPT !.pc = "moved", !.abd = private[at[Migrator].folio],
                                   !.spare = dst]
    OBVIOUS
  <2>2. /\ at[Migrator] \in AtState
        /\ "moved" \in Steps
        /\ private[at[Migrator].folio] \in Abd \cup {Marker, None}
        /\ dst \in Folio \cup Hdr \cup {None}
    BY <1>1, Apart, RestTyped DEF IInv, Typed, AtState, Steps, Chunks
  <2>3. /\ e \in AtState
        /\ e.pc = "moved" /\ e.abd = private[at[Migrator].folio]
        /\ e.folio = at[Migrator].folio /\ e.spare = dst
        /\ e.todo = at[Migrator].todo /\ e.taken = at[Migrator].taken
    BY <2>1, <2>2, RestTyped DEF AtState
  <2>4. at' = [at EXCEPT ![Migrator] = e]
    BY <2>1 DEF MigMapping, Go, Finish
  <2>5. Migrator \in Task
    BY Apart
  <2>6. at'[Migrator] = e /\ Only(Migrator) /\ at' \in [Task -> AtState]
    BY <2>3, <2>4, <2>5, Moves
  <2> QED
    BY <2>3, <2>6
<1>a. /\ dst \notin mapped /\ private[dst] = None /\ ~Named(dst) /\ lock[dst] = None
      /\ dst # at[Owner].folio /\ dst # at[User].folio /\ dst # at[Migrator].folio
      /\ dst # at[Migrator].spare
      /\ \A r \in Reclaimer :
           /\ dst # at[r].folio /\ dst # at[r].spare
           /\ dst \notin at[r].taken /\ dst # batch[r]
      /\ \A c \in Chunk : bio[c] # dst
  BY <1>1, Unreferenced
<1>b. \A c \in Chunk : sg[c] # dst
  BY <1>a DEF Named
<1>3. Typed'
  BY Apart, <1>1, <1>2 DEF IInv, Typed, AtState, Only
<1>4. HashOK'
  BY Apart, <1>1, <1>2, <1>a, <1>b DEF IInv, HashOK, OwnerSteps, MigratorSteps,
     UserSteps, ReclaimerSteps, Taking, Freeing, Locking, Midway, Migrating, WriteSteps,
     Only, Joining
<1>5. InHand'
  BY Apart, <1>1, <1>2 DEF IInv, InHand, At, Midway, Only
<1>6. UseOK'
  BY Apart, <1>1, <1>2 DEF IInv, UseOK, At, WriteSteps, Frees, Exists, Only, Joining
<1>7. LockOK'
  BY Apart, <1>1, <1>2, <1>a, <1>b DEF IInv, Typed, LockOK, At, Migrating, Midway,
     Locking, Taking, Freeing, WriteSteps, InHand, Only, Joining
<1>8. MappedOK'
  BY Apart, <1>1, <1>2, <1>a, <1>b DEF IInv, MappedOK, At, Midway, Only
<1>9. PrivateOK'
  BY Apart, <1>1, <1>2, <1>a DEF IInv, PrivateOK, At, Repointed, Taking, Only
<1>10. ChunksOK'
  BY Apart, <1>1, <1>2, <1>b DEF IInv, ChunksOK, ChunkOK, At, Freeing, Exists, Only,
       Joining
<1>11. FreerOK'
  BY Apart, <1>1, <1>2, <1>a, <1>b DEF IInv, FreerOK, At, Freeing, Taking, Locking,
     Midway, Migrating, WriteSteps, InHand, Only, Joining
<1>12. CopyOK'
  BY Apart, <1>1, <1>2 DEF IInv, CopyOK, At, OwnerSteps, MigratorSteps, UserSteps,
     ReclaimerSteps, Taking, Freeing, Locking, Midway, Migrating, WriteSteps, ChunksOK,
     ChunkOK, Exists, Only, Joining
<1>13. Exact'
  <2>1. \A f \in Folio : Several(f)' = Several(f)
    BY <1>1, <1>2, Apart, SeveralSame DEF Only, Task
  <2>2. \A f \in Folio :
          Single(f)' = Single(f) + (IF f = dst THEN Pages + 1
                                    ELSE IF f = at[Migrator].folio THEN -Pages ELSE 0)
    BY <1>1, <1>2, <1>a, Apart DEF Single, CacheRefs, ChunkRefs, OwnerRefs, One, At,
       Only, Task, Midway, Named, IInv, InHand
  <2>3. \A f \in Folio :
          ref'[f] = ref[f] + (IF f = dst THEN Pages + 1
                              ELSE IF f = at[Migrator].folio THEN -Pages ELSE 0)
    BY <1>1, <1>a, Apart DEF IInv, Typed
  <2> QED
    BY <2>1, <2>2, <2>3, HoldersAre, Apart DEF IInv, Typed, Exact
<1>14. BindingOK' /\ MtxOK' /\ TakenOK' /\ UserOK'
  BY <1>1, <1>2, Apart, BindingSame, MtxSame, TakenSame, UserSame DEF Taking, Freeing,
       Joining
<1>15. GrabOK'
  BY <1>1, <1>2, Apart, GrabSame DEF Only
<1> QED
  BY <1>3, <1>4, <1>5, <1>6, <1>7, <1>8, <1>9, <1>10, <1>11, <1>12, <1>13, <1>14,
       <1>15 DEF
     IInv

LEMMA MigCopyOK ==
  ASSUME Assumptions, IInv, MigCopy
  PROVE  IInv'
<1>1. /\ at[Migrator].pc = "copy" /\ at[Migrator].folio \in Folio
      /\ at[Migrator].spare \in Folio
      /\ data' = [data EXCEPT ![at[Migrator].spare] = data[at[Migrator].folio]]
      /\ private' = [private EXCEPT ![at[Migrator].spare] = private[at[Migrator].folio],
                                    ![at[Migrator].folio] = None]
      /\ ref' = [ref EXCEPT ![at[Migrator].folio] = @ - 1, ![at[Migrator].spare] = @ + 1]
      /\ UNCHANGED <<sg, lock, mapped>>
      /\ UNCHANGED <<joined, prelocked, mtx, arg, reclaiming>>
      /\ UNCHANGED <<hash, hdr, gone, resident, orphan, refcnt, writing>>
      /\ UNCHANGED <<bio, batch, grab, miscounted>>
  BY Apart DEF MigCopy, MigContents, At, abdVars, hdrVars, Midway, IInv, Typed, AtState,
     InHand, heldVars, bioVars
<1>2. /\ at'[Migrator].pc = "repoint" /\ at'[Migrator].abd = at[Migrator].abd
      /\ at'[Migrator].folio = at[Migrator].folio /\ at'[Migrator].spare = at[Migrator].spare
      /\ at'[Migrator].todo = at[Migrator].todo /\ at'[Migrator].taken = at[Migrator].taken
      /\ Only(Migrator) /\ at' \in [Task -> AtState]
  <2>1. PICK e : e = [at[Migrator] EXCEPT !.pc = "repoint"]
    OBVIOUS
  <2>2. /\ at[Migrator] \in AtState
        /\ "repoint" \in Steps
    BY <1>1, Apart, RestTyped DEF IInv, Typed, AtState, Steps, Chunks
  <2>3. /\ e \in AtState
        /\ e.pc = "repoint" /\ e.abd = at[Migrator].abd
        /\ e.folio = at[Migrator].folio /\ e.spare = at[Migrator].spare
        /\ e.todo = at[Migrator].todo /\ e.taken = at[Migrator].taken
    BY <2>1, <2>2, RestTyped DEF AtState
  <2>4. at' = [at EXCEPT ![Migrator] = e]
    BY <2>1 DEF MigCopy, MigContents, Go, Finish
  <2>5. Migrator \in Task
    BY Apart
  <2>6. at'[Migrator] = e /\ Only(Migrator) /\ at' \in [Task -> AtState]
    BY <2>3, <2>4, <2>5, Moves
  <2> QED
    BY <2>3, <2>6
<1>a. /\ lock[at[Migrator].folio] = Migrator /\ lock[at[Migrator].spare] = Migrator
      /\ at[Migrator].folio \in mapped /\ at[Migrator].spare \in mapped
      /\ at[Migrator].folio # at[Migrator].spare
  BY <1>1, Apart DEF IInv, LockOK, MappedOK, Migrating, Midway, UseOK, At, Joining
<1>b. /\ \A r \in Reclaimer, f \in {at[Migrator].folio, at[Migrator].spare} :
           /\ f \notin at[r].taken /\ f # batch[r]
           /\ at[r].pc \in Locking => at[r].folio # f
      /\ \A f \in {at[Migrator].folio, at[Migrator].spare} :
           /\ at[Owner].pc \in {"joined", "drop"} => at[Owner].folio # f
           /\ at[User].pc = "drop" => at[User].folio # f
  BY <1>1, <1>a, Apart DEF IInv, LockOK, At
<1>c. /\ private[at[Migrator].folio] # None /\ private[at[Migrator].spare] = None
      /\ \A t \in {Owner, User} : at[t].folio # at[Migrator].spare
      /\ \A r \in Reclaimer : at[r].spare # at[Migrator].spare
      /\ \A c \in Chunk : bio[c] # at[Migrator].spare /\ sg[c] # at[Migrator].spare
  BY <1>1 DEF IInv, CopyOK, At
<1>d. private[at[Migrator].folio] \in Abd
  BY <1>1, <1>a, <1>c DEF IInv, Typed, PrivateOK
<1>3. Typed'
  BY Apart, <1>1, <1>2, <1>a, <1>b, <1>c, <1>d DEF IInv, Typed, AtState, Locking,
     Midway, Migrating, InHand, At, LockOK, Only
<1>4. HashOK'
  BY Apart, <1>1, <1>2, <1>b, <1>c, <1>d DEF IInv, HashOK, OwnerSteps, MigratorSteps,
     UserSteps, ReclaimerSteps, Taking, Freeing, Midway, Migrating, WriteSteps, Only,
     Joining
<1>5. InHand'
  BY Apart, <1>1, <1>2, <1>b, <1>c DEF IInv, InHand, At, Midway, Only
<1>6. LockOK'
  BY Apart, <1>1, <1>2 DEF IInv, LockOK, At, Migrating, Midway, Locking, Taking, Only
<1>7. MappedOK'
  BY Apart, <1>1, <1>2 DEF IInv, Typed, MappedOK, At, Midway, Locking, Only
<1>8. PrivateOK'
  <2>1. ASSUME NEW f \in Folio
        PROVE  /\ (f \in mapped => private[f] # Marker)'
               /\ (private[f] \in Abd =>
                    /\ f \in mapped \/ (At(Owner, "add") /\ at[Owner].folio = f)
                    /\ private[f] \in joined
                    /\ \E c \in Chunk :
                         AbdOf[c] = private[f] /\ (sg[c] = f \/ Repointed(f, c)))'
    <3>1. CASE f = at[Migrator].spare
      <4>1. private'[f] = private[at[Migrator].folio]
        BY <1>1, <1>a, <3>1 DEF IInv, Typed
      <4>2. /\ private[at[Migrator].folio] \in joined
            /\ \E c \in Chunk :
                 AbdOf[c] = private[at[Migrator].folio] /\ sg[c] = at[Migrator].folio
        BY <1>1, <1>d DEF IInv, PrivateOK, Repointed, At
      <4>3. \A c \in Chunk : sg[c] = at[Migrator].folio => Repointed(f, c)'
        BY <1>1, <1>2, <3>1 DEF Repointed, At
      <4>4. f \in mapped' /\ private'[f] # Marker /\ joined' = joined
        BY <1>1, <1>a, <1>d, <3>1, <4>1, Apart
      <4> QED
        BY <4>1, <4>2, <4>3, <4>4
    <3>2. CASE f = at[Migrator].folio
      BY <1>1, <1>a, <3>2, Apart DEF IInv, Typed
    <3>3. CASE f \notin {at[Migrator].folio, at[Migrator].spare}
      BY <1>1, <1>2, <3>3, Apart DEF IInv, Typed, PrivateOK, Repointed, At, Only
    <3> QED
      BY <3>1, <3>2, <3>3
  <2>2. ASSUME NEW r \in Reclaimer
        PROVE  /\ (at[r].pc \in {"trymtx", "header"} \cup Taking =>
                     private[at[r].folio] = at[r].abd)'
               /\ (At(r, "remove") => private[at[r].folio] = None)'
    <3>1. at'[r] = at[r]
      BY <1>2, Apart DEF Only
    <3>2. at[r].pc \in Locking => at[r].folio \in Folio
      BY Apart DEF IInv, Typed, AtState, InHand, Locking, Taking
    <3>3. at[r].pc \in Locking => private'[at[r].folio] = private[at[r].folio]
      BY <1>1, <1>b, <3>2 DEF IInv, Typed
    <3> QED
      BY <3>1, <3>3 DEF IInv, PrivateOK, At, Locking, Taking
  <2> QED
    BY <2>1, <2>2 DEF PrivateOK, Taking
<1>9. ChunksOK'
  BY Apart, <1>1, <1>2, <1>a, <1>b, <1>c, <1>d DEF IInv, Typed, ChunksOK, ChunkOK, At,
     Freeing, Exists, Only, Joining
<1>10. FreerOK'
  <2>1. /\ at'[Owner] = at[Owner] /\ at'[User] = at[User] /\ UNCHANGED <<sg, mapped>>
    BY <1>1, <1>2, Apart DEF Only
  <2>2. \A t \in {Owner, User} : at[t].folio \in Folio => data'[at[t].folio] = data[at[t].folio]
    BY <1>1, <1>c DEF IInv, Typed
  <2>3. \A t \in {Owner, User} : at[t].pc \in {"lock", "drop"} => at[t].folio \in Folio
    BY Apart DEF IInv, InHand, Typed, AtState
  <2>4. At(Owner, "add") => private'[at[Owner].folio] = private[at[Owner].folio]
    BY <1>1, <1>a, Apart DEF IInv, Typed, InHand, AtState, FreerOK, At
  <2> QED
    BY <2>1, <2>2, <2>3, <2>4 DEF IInv, FreerOK, At
<1>11. TakenOK'
  BY Apart, <1>1, <1>2, <1>b, <1>c, <1>d DEF IInv, Typed, TakenOK, TakenBy, At, Only
<1>12. CopyOK'
  BY <1>1, <1>2 DEF IInv, Typed, CopyOK, At, Only
<1>13. UserOK'
  BY Apart, <1>1, <1>2, <1>a, <1>c DEF IInv, UserOK, At, Only
<1>14. Exact'
  <2>0. private[at[Migrator].folio] # None /\ private[at[Migrator].spare] = None
    BY <1>1 DEF IInv, CopyOK, At
  <2>1. \A f \in Folio : Several(f)' = Several(f)
    BY <1>1, <1>2, Apart, SeveralSame DEF Only, Task
  <2>2. \A f \in Folio :
          Single(f)' = Single(f) + (IF f = at[Migrator].spare THEN 1
                                    ELSE IF f = at[Migrator].folio THEN -1 ELSE 0)
    BY <1>1, <1>2, <1>a, <2>0, Apart DEF Single, CacheRefs, ChunkRefs, OwnerRefs, One,
         At,
       Only, Task, Midway, Named, IInv, Typed
  <2>3. \A f \in Folio :
          ref'[f] = ref[f] + (IF f = at[Migrator].spare THEN 1
                              ELSE IF f = at[Migrator].folio THEN -1 ELSE 0)
    BY <1>1, <1>a, Apart DEF IInv, Typed
  <2> QED
    BY <2>1, <2>2, <2>3, HoldersAre, Apart DEF IInv, Typed, Exact
<1>15. UseOK' /\ BindingOK' /\ MtxOK'
  BY <1>1, <1>2, <1>a, <1>c, <1>d, Apart, BindingSame, MtxSame, UseSame DEF Frees, At,
     Taking, Freeing, Joining
<1>16. GrabOK'
  BY <1>1, <1>2, Apart, GrabSame DEF Only
<1> QED
  BY <1>3, <1>4, <1>5, <1>6, <1>7, <1>8, <1>9, <1>10, <1>11, <1>12, <1>13, <1>14, <1>15
    , <1>16 DEF IInv

LEMMA MigRepointOK ==
  ASSUME Assumptions, IInv, MigRepoint
  PROVE  IInv'
<1>1. /\ at[Migrator].pc = "repoint" /\ at[Migrator].folio \in Folio
      /\ at[Migrator].spare \in Folio
      /\ sg' = [c \in Chunk |-> IF sg[c] = at[Migrator].folio THEN at[Migrator].spare ELSE sg[c]]
      /\ UNCHANGED <<ref, lock, private, mapped, data>>
      /\ UNCHANGED <<joined, prelocked, mtx, arg, reclaiming>>
      /\ UNCHANGED <<hash, hdr, gone, resident, orphan, refcnt, writing>>
      /\ UNCHANGED <<bio, batch, grab, miscounted>>
  BY Apart DEF MigRepoint, At, abdVars, hdrVars, Midway, IInv, Typed, AtState, InHand,
  heldVars, bioVars
<1>2. /\ at'[Migrator].pc = "moved" /\ at'[Migrator].abd = at[Migrator].abd
      /\ at'[Migrator].folio = at[Migrator].folio /\ at'[Migrator].spare = at[Migrator].spare
      /\ at'[Migrator].todo = at[Migrator].todo /\ at'[Migrator].taken = at[Migrator].taken
      /\ Only(Migrator) /\ at' \in [Task -> AtState]
  <2>1. PICK e : e = [at[Migrator] EXCEPT !.pc = "moved"]
    OBVIOUS
  <2>2. /\ at[Migrator] \in AtState
        /\ "moved" \in Steps
    BY <1>1, Apart, RestTyped DEF IInv, Typed, AtState, Steps, Chunks
  <2>3. /\ e \in AtState
        /\ e.pc = "moved" /\ e.abd = at[Migrator].abd
        /\ e.folio = at[Migrator].folio /\ e.spare = at[Migrator].spare
        /\ e.todo = at[Migrator].todo /\ e.taken = at[Migrator].taken
    BY <2>1, <2>2, RestTyped DEF AtState
  <2>4. at' = [at EXCEPT ![Migrator] = e]
    BY <2>1 DEF MigRepoint, Go, Finish
  <2>5. Migrator \in Task
    BY Apart
  <2>6. at'[Migrator] = e /\ Only(Migrator) /\ at' \in [Task -> AtState]
    BY <2>3, <2>4, <2>5, Moves
  <2> QED
    BY <2>3, <2>6
<1>a. /\ lock[at[Migrator].folio] = Migrator /\ lock[at[Migrator].spare] = Migrator
      /\ at[Migrator].folio \in mapped /\ at[Migrator].spare \in mapped
      /\ at[Migrator].folio # at[Migrator].spare
  BY <1>1, Apart DEF IInv, LockOK, MappedOK, Migrating, Midway, UseOK, At, Joining
<1>b. /\ \A r \in Reclaimer, f \in {at[Migrator].folio, at[Migrator].spare} :
           /\ f \notin at[r].taken /\ f # batch[r]
           /\ at[r].pc \in Locking => at[r].folio # f
      /\ \A f \in {at[Migrator].folio, at[Migrator].spare} :
           /\ at[Owner].pc \in {"joined", "drop"} => at[Owner].folio # f
           /\ at[User].pc = "drop" => at[User].folio # f
  BY <1>1, <1>a, Apart DEF IInv, LockOK, At
<1>c. /\ private[at[Migrator].folio] = None /\ private[at[Migrator].spare] # None
      /\ data[at[Migrator].spare] = data[at[Migrator].folio]
      /\ \A c \in Chunk : sg[c] # at[Migrator].spare
  BY <1>1 DEF IInv, CopyOK, At
<1>d. \A c \in Chunk : sg[c] = at[Migrator].folio => private[at[Migrator].spare] = AbdOf[c]
  BY <1>1, <1>a, <1>c, Apart DEF IInv, Typed, PrivateOK, ChunksOK, ChunkOK, Repointed
<1>3. Typed'
  BY Apart, <1>1, <1>2 DEF IInv, Typed, AtState, Only
<1>4. HashOK'
  BY Apart, <1>1, <1>2, <1>a, <1>c, <1>d DEF IInv, HashOK, OwnerSteps, MigratorSteps,
     UserSteps, ReclaimerSteps, Taking, Freeing, Locking, Midway, Migrating, WriteSteps,
     Only, Joining
<1>5. InHand'
  BY Apart, <1>1, <1>2 DEF IInv, InHand, At, Taking, Midway, Only
<1>6. LockOK'
  BY Apart, <1>1, <1>2 DEF IInv, LockOK, At, Migrating, Midway, Locking, Only
<1>7. MappedOK'
  BY Apart, <1>1, <1>2 DEF IInv, MappedOK, At, Midway, Taking, Only
<1>8. PrivateOK'
  BY Apart, <1>1, <1>2, <1>c, <1>d DEF IInv, PrivateOK, At, Repointed, Taking, Only
<1>9. ChunksOK'
  BY Apart, <1>1, <1>2, <1>a, <1>b, <1>c, <1>d DEF IInv, Typed, ChunksOK, ChunkOK, At,
       Freeing,
     Exists, Only
<1>10. FreerOK'
  BY Apart, <1>1, <1>2, <1>a, <1>b, <1>c, <1>d DEF IInv, Typed, FreerOK, At, Freeing,
     Taking, Locking, Midway, Migrating, InHand, Only, Joining
<1>11. TakenOK'
  BY Apart, <1>1, <1>2, <1>b, <1>d DEF IInv, Typed, TakenOK, TakenBy, At, Taking,
     Locking, Migrating, WriteSteps, Only
<1>12. CopyOK'
  BY <1>1, <1>2, <1>a, <1>b DEF IInv, CopyOK, At, Only
<1>13. UserOK'
  BY Apart, <1>1, <1>2 DEF IInv, UserOK, At, Migrating, WriteSteps, UseOK, Frees,
     Exists, Only, Joining
<1>14. Exact'
  <2>1. \A f \in Folio : Several(f)' = Several(f)
    BY <1>1, <1>2, Apart, SeveralSame DEF Only, Task
  <2>2. \A f \in Folio : Single(f)' = Single(f)
    BY <1>1, <1>2, <1>a, Apart DEF Single, CacheRefs, ChunkRefs, OwnerRefs, One, At,
         Only, Task, Midway, Named, IInv, Typed
  <2>3. ASSUME NEW f \in Folio PROVE ref'[f] = Holders(f)'
    BY <1>1, <2>1, <2>2, HoldersAre, Apart DEF IInv, Typed, Exact, One
  <2> QED
    BY <2>3 DEF Exact
<1>15. UseOK' /\ BindingOK' /\ MtxOK'
  BY <1>1, <1>2, <1>a, <1>b, <1>c, <1>d, Apart, BindingSame, MtxSame, UseSame DEF Frees,
     At, Taking, Freeing, Joining
<1>16. GrabOK'
  BY <1>1, <1>2, Apart, GrabSame DEF Only
<1> QED
  BY <1>3, <1>4, <1>5, <1>6, <1>7, <1>8, <1>9, <1>10, <1>11, <1>12, <1>13, <1>14, <1>15
    , <1>16 DEF IInv

LEMMA MigEndOK ==
  ASSUME Assumptions, IInv, MigEnd
  PROVE  IInv'
<1>1. /\ at[Migrator].pc = "moved" /\ at[Migrator].folio \in Folio
      /\ at[Migrator].spare \in Folio
      /\ ref' = [ref EXCEPT ![at[Migrator].folio] = @ - 1, ![at[Migrator].spare] = @ - 1]
      /\ mapped' = mapped \ {at[Migrator].folio}
      /\ lock' = [lock EXCEPT ![at[Migrator].folio] = None, ![at[Migrator].spare] = None]
      /\ UNCHANGED <<sg, private, data>>
      /\ UNCHANGED <<joined, prelocked, mtx, arg, reclaiming>>
      /\ UNCHANGED <<hash, hdr, gone, resident, orphan, refcnt, writing>>
      /\ UNCHANGED <<bio, batch, grab, miscounted>>
  BY Apart DEF MigEnd, MigPut, At, abdVars, hdrVars, Midway, IInv, Typed, AtState,
     InHand, heldVars, bioVars
<1>2. /\ at'[Migrator].pc = "idle" /\ at'[Migrator].abd = None
      /\ at'[Migrator].folio = None /\ at'[Migrator].spare = None
      /\ at'[Migrator].todo = {} /\ at'[Migrator].taken = {}
      /\ Only(Migrator) /\ at' \in [Task -> AtState]
  <2>1. PICK e : e = Rest
    OBVIOUS
  <2>2. /\ Rest \in AtState
    BY <1>1, Apart, RestTyped DEF IInv, Typed, AtState, Steps, Chunks
  <2>3. /\ e \in AtState
        /\ e.pc = "idle" /\ e.abd = None
        /\ e.folio = None /\ e.spare = None
        /\ e.todo = {} /\ e.taken = {}
    BY <2>1, <2>2, RestTyped DEF AtState
  <2>4. at' = [at EXCEPT ![Migrator] = e]
    BY <2>1 DEF MigEnd, MigPut, Go, Finish
  <2>5. Migrator \in Task
    BY Apart
  <2>6. at'[Migrator] = e /\ Only(Migrator) /\ at' \in [Task -> AtState]
    BY <2>3, <2>4, <2>5, Moves
  <2> QED
    BY <2>3, <2>6
<1>a. /\ lock[at[Migrator].folio] = Migrator /\ lock[at[Migrator].spare] = Migrator
      /\ at[Migrator].folio \in mapped /\ at[Migrator].spare \in mapped
      /\ at[Migrator].folio # at[Migrator].spare
  BY <1>1, Apart DEF IInv, LockOK, MappedOK, Migrating, Midway, UseOK, At, Joining
<1>b. /\ \A r \in Reclaimer, f \in {at[Migrator].folio, at[Migrator].spare} :
           /\ f \notin at[r].taken /\ f # batch[r]
           /\ at[r].pc \in Locking => at[r].folio # f
      /\ \A f \in {at[Migrator].folio, at[Migrator].spare} :
           /\ at[Owner].pc \in {"joined", "drop"} => at[Owner].folio # f
           /\ at[User].pc = "drop" => at[User].folio # f
  BY <1>1, <1>a, Apart DEF IInv, LockOK, At
<1>c. private[at[Migrator].folio] = None /\ \A c \in Chunk : sg[c] # at[Migrator].folio
  BY <1>1 DEF IInv, CopyOK, At
<1>3. Typed'
  BY Apart, <1>1, <1>2 DEF IInv, Typed, AtState, Only
<1>4. HashOK'
  BY Apart, <1>1, <1>2, <1>a, <1>b, <1>c DEF IInv, HashOK, OwnerSteps, MigratorSteps,
     UserSteps, ReclaimerSteps, Taking, Freeing, Locking, Midway, Migrating, WriteSteps,
     Only, Joining
<1>5. InHand'
  BY Apart, <1>1, <1>2, <1>a, <1>b DEF IInv, InHand, At, Taking, Midway, Only
<1>6. LockOK'
  BY Apart, <1>1, <1>2, <1>a DEF IInv, Typed, LockOK, At, Only
<1>7. MappedOK'
  BY Apart, <1>1, <1>2, <1>b, <1>c DEF IInv, Typed, MappedOK, At, Midway, Taking, Only
<1>8. PrivateOK'
  BY Apart, <1>1, <1>2, <1>b, <1>c DEF IInv, PrivateOK, At, Repointed, Only
<1>9. ChunksOK'
  BY Apart, <1>1, <1>2, <1>a, <1>c DEF IInv, ChunksOK, ChunkOK, At, Freeing, Exists,
     Only, Joining
<1>10. FreerOK'
  BY Apart, <1>1, <1>2 DEF IInv, FreerOK, At, Freeing, Only, Joining
<1>11. CopyOK'
  BY <1>1, <1>2 DEF IInv, CopyOK, At, Only
<1>12. Exact'
  <2>1. \A f \in Folio : Several(f)' = Several(f) - One(f = at[Migrator].folio)
    BY <1>1, <1>2, Apart, HandLetGo
  <2>2. \A f \in Folio : Single(f)' = Single(f) - One(f = at[Migrator].spare)
    <3> SUFFICES ASSUME NEW f \in Folio
                 PROVE  Single(f)' = Single(f) - One(f = at[Migrator].spare)
      OBVIOUS
    <3>1. /\ at'[Owner] = at[Owner] /\ at'[User] = at[User] /\ UNCHANGED <<sg, private>>
          /\ at[Migrator].pc \in Midway /\ at'[Migrator].pc \notin Midway
          /\ One(f = at'[Migrator].spare) = 0
      BY <1>1, <1>2, Apart DEF Only, Midway, One
    <3>2. CacheRefs(f)' = CacheRefs(f)
      BY <1>1, <1>a, <3>1 DEF CacheRefs
    <3>3. ChunkRefs(f)' = ChunkRefs(f)
      BY <1>1, <1>a, <1>b, <1>c, <3>1 DEF ChunkRefs, Named, At
    <3>4. OwnerRefs(f)' = OwnerRefs(f)
      BY <3>1 DEF OwnerRefs
    <3> QED
      BY <3>1, <3>2, <3>3, <3>4, CountsAreNat DEF Single, One
  <2>3. \A f \in Folio : ref'[f] = ref[f] - One(f = at[Migrator].folio) - One(f = at[Migrator].spare)
    BY <1>1, <1>a, Apart DEF IInv, Typed, One
  <2> QED
    BY <2>1, <2>2, <2>3, HoldersAre, Apart DEF IInv, Typed, Exact, One
<1>13. UseOK' /\ BindingOK' /\ MtxOK' /\ TakenOK' /\ UserOK'
  BY <1>1, <1>2, <1>a, <1>b, <1>c, Apart, BindingSame, MtxSame, TakenSame, UseSame,
     UserSame DEF Frees, At, Taking, Freeing, Joining
<1>14. GrabOK'
  BY <1>1, <1>2, Apart, GrabSame DEF Only
<1> QED
  BY <1>3, <1>4, <1>5, <1>6, <1>7, <1>8, <1>9, <1>10, <1>11, <1>12, <1>13,
       <1>14 DEF IInv

-----------------------------------------------------------------------------
(* The user. *)

LEMMA PinOK ==
  ASSUME Assumptions, IInv, Pin
  PROVE  IInv'
<1>1. /\ at[User].pc = "idle" /\ hash = None /\ resident # {} /\ refcnt = 0
      /\ refcnt' = 1
      /\ UNCHANGED <<sg, ref, lock, private, mapped, data>>
      /\ UNCHANGED <<joined, prelocked, mtx, arg, reclaiming>>
      /\ UNCHANGED <<hash, hdr, gone, resident, orphan, writing>>
      /\ UNCHANGED <<bio, batch, grab, miscounted>>
  BY Apart DEF Pin, At, folioVars, abdVars, IInv, Typed, UseOK, heldVars, bioVars,
  Joining
<1>2. /\ at'[User].pc = "pinned" /\ at'[User].abd = at[User].abd
      /\ at'[User].folio = at[User].folio /\ at'[User].spare = at[User].spare
      /\ at'[User].todo = Chunks(resident) /\ at'[User].taken = at[User].taken
      /\ Only(User) /\ at' \in [Task -> AtState]
  <2>1. PICK e : e = [at[User] EXCEPT !.pc = "pinned", !.todo = Chunks(resident)]
    OBVIOUS
  <2>2. /\ at[User] \in AtState
        /\ "pinned" \in Steps
        /\ Chunks(resident) \subseteq Chunk \cup Abd
    BY <1>1, Apart, RestTyped DEF IInv, Typed, AtState, Steps, Chunks
  <2>3. /\ e \in AtState
        /\ e.pc = "pinned" /\ e.abd = at[User].abd
        /\ e.folio = at[User].folio /\ e.spare = at[User].spare
        /\ e.todo = Chunks(resident) /\ e.taken = at[User].taken
    BY <2>1, <2>2, RestTyped DEF AtState
  <2>4. at' = [at EXCEPT ![User] = e]
    BY <2>1 DEF Pin, Go, Finish
  <2>5. User \in Task
    BY Apart
  <2>6. at'[User] = e /\ Only(User) /\ at' \in [Task -> AtState]
    BY <2>3, <2>4, <2>5, Moves
  <2> QED
    BY <2>3, <2>6
<1>a. at[Owner].pc = "idle" /\ \A r \in Reclaimer : at[r].pc \notin Taking
  BY <1>1, Apart DEF IInv, HashOK
<1>b. resident = Abd /\ orphan = {}
  BY <1>1, <1>a DEF IInv, Typed, UseOK, Freeing, Joining
<1>3. Typed'
  BY <1>1, <1>2 DEF IInv, Typed, AtState, Only
<1>4. HashOK'
  BY Apart, <1>1, <1>2 DEF IInv, HashOK, OwnerSteps, MigratorSteps, UserSteps,
     ReclaimerSteps, Taking, Freeing, Locking, Midway, Migrating, WriteSteps, Only,
     Joining
<1>5. InHand'
  BY Apart, <1>1, <1>2 DEF IInv, InHand, At, Chunks, Only
<1>6. UseOK'
  BY Apart, <1>1, <1>2, <1>a DEF IInv, UseOK, At, Freeing, WriteSteps, Frees, Exists,
     ReclaimerSteps, Taking, Midway, Migrating, Only, Joining
<1>7. UserOK'
  BY <1>1, <1>2, <1>a, <1>b DEF IInv, Typed, UserOK, At, Only
<1>8. Exact'
  BY <1>1, <1>2, Apart, CountsSame DEF Only
<1>9. /\ BindingOK' /\ MtxOK' /\ LockOK' /\ MappedOK' /\ PrivateOK'
      /\ ChunksOK' /\ FreerOK' /\ TakenOK' /\ CopyOK'
  BY <1>1, <1>2, Apart, BindingSame, ChunksSame, CopySame, FreerSame, LockSame,
     MappedSame, MtxSame, PrivateSame, TakenSame DEF Taking, Freeing, Joining
<1>10. GrabOK'
  BY <1>1, <1>2, Apart, GrabSame DEF Only
<1> QED
  BY <1>3, <1>4, <1>5, <1>6, <1>7, <1>8, <1>9, <1>10 DEF IInv

LEMMA ReadGrabOK ==
  ASSUME Assumptions, IInv, NEW c \in Chunk, ReadGrab(c)
  PROVE  IInv'
<1>1. /\ at[User].pc = "pinned" /\ Grabbed(User, c) /\ Take(User)
      /\ c \in at[User].todo /\ grab[User].folio = sg[c]
      /\ UNCHANGED <<sg, ref, lock, private, mapped, data>>
      /\ UNCHANGED <<joined, prelocked, mtx, arg, reclaiming>>
      /\ UNCHANGED <<hash, hdr, gone, resident, orphan, refcnt, writing>>
      /\ UNCHANGED <<bio, batch, miscounted>>
  BY Apart, Grabbing DEF ReadGrab, At, folioVars, abdVars, hdrVars, heldVars, bioVars
<1>2. /\ at'[User].pc = "reading" /\ at'[User].abd = at[User].abd
      /\ at'[User].folio = sg[c] /\ at'[User].spare = at[User].spare
      /\ at'[User].todo = at[User].todo \ {c} /\ at'[User].taken = {c}
      /\ Only(User) /\ at' \in [Task -> AtState]
  <2>1. PICK e : e = [at[User] EXCEPT !.pc = "reading", !.folio = sg[c],
                               !.todo = at[User].todo \ {c}, !.taken = {c}]
    OBVIOUS
  <2>2. /\ at[User] \in AtState
        /\ "reading" \in Steps
        /\ sg[c] \in Folio \cup {None}
        /\ at[User].todo \ {c} \subseteq Chunk \cup Abd
        /\ {c} \subseteq Folio \cup Chunk
    BY <1>1, Apart, RestTyped DEF IInv, Typed, AtState, Steps, Chunks
  <2>3. /\ e \in AtState
        /\ e.pc = "reading" /\ e.abd = at[User].abd
        /\ e.folio = sg[c] /\ e.spare = at[User].spare
        /\ e.todo = at[User].todo \ {c} /\ e.taken = {c}
    BY <2>1, <2>2, RestTyped DEF AtState
  <2>4. at' = [at EXCEPT ![User] = e]
    BY <1>1, <2>1 DEF ReadGrab
  <2>5. User \in Task
    BY Apart
  <2>6. at'[User] = e /\ Only(User) /\ at' \in [Task -> AtState]
    BY <2>3, <2>4, <2>5, Moves
  <2> QED
    BY <2>3, <2>6
<1>g. /\ grab[User].held /\ sg[c] \in Folio /\ data[sg[c]] = c
      /\ grab'[User] = Idle /\ grab' \in [Task -> GrabState]
      /\ \A u \in Task \ {User} : grab'[u] = grab[u]
  BY <1>1, Apart, Grabbing
<1>3. Typed'
  BY <1>1, <1>2, <1>g DEF IInv, Typed, AtState, Only
<1>4. HashOK'
  BY Apart, <1>1, <1>2 DEF IInv, HashOK, MigratorSteps, UserSteps, ReclaimerSteps,
     Taking, Freeing, Locking, Midway, Migrating, WriteSteps, Only, Joining
<1>5. InHand'
  BY Apart, <1>1, <1>2, <1>g DEF IInv, InHand, At, Midway, Only
<1>6. UseOK'
  BY Apart, <1>1, <1>2 DEF IInv, UseOK, At, Freeing, WriteSteps, Frees, Only, Joining
<1>7. CopyOK'
  BY Apart, <1>1, <1>2 DEF IInv, CopyOK, At, Only
<1>8. UserOK'
  BY <1>1, <1>2, <1>g DEF IInv, Typed, UserOK, At, Only
<1>9. Exact'
  <2>1. \A f \in Folio : Several(f)' = Several(f) - One(f = sg[c])
    BY <1>1, <1>2, Apart, <1>g, LookerDone
  <2>2. \A f \in Folio : Single(f)' = Single(f) + One(f = sg[c])
    BY <1>1, <1>2, <1>g, Apart DEF Single, CacheRefs, ChunkRefs, OwnerRefs, One, Named,
         At,
         Only, Task, IInv, InHand
  <2>3. ASSUME NEW f \in Folio PROVE ref'[f] = Holders(f)'
    BY <1>1, <1>g, <2>1, <2>2, HoldersAre, Apart DEF IInv, Typed, Exact, One
  <2> QED
    BY <2>3 DEF Exact
<1>10. /\ BindingOK' /\ MtxOK' /\ LockOK' /\ MappedOK'
       /\ PrivateOK' /\ ChunksOK' /\ FreerOK' /\ TakenOK'
  BY <1>1, <1>2, Apart, BindingSame, ChunksSame, FreerSame, LockSame, MappedSame,
     MtxSame, PrivateSame, TakenSame DEF Taking, Freeing, Joining
<1>11. GrabOK'
  BY <1>2, <1>g, Apart, GrabbedSame
<1> QED
  BY <1>3, <1>4, <1>5, <1>6, <1>7, <1>8, <1>9, <1>10, <1>11 DEF IInv

LEMMA ReadPutOK ==
  ASSUME Assumptions, IInv, ReadPut
  PROVE  IInv'
<1>1. /\ at[User].pc = "reading" /\ at[User].folio \in Folio
      /\ ref' = [ref EXCEPT ![at[User].folio] = @ - 1]
      /\ UNCHANGED <<sg, lock, private, mapped, data>>
      /\ UNCHANGED <<joined, prelocked, mtx, arg, reclaiming>>
      /\ UNCHANGED <<hash, hdr, gone, resident, orphan, refcnt, writing>>
      /\ UNCHANGED <<bio, batch, grab, miscounted>>
  BY Apart DEF ReadPut, Put, At, abdVars, hdrVars, IInv, Typed, AtState, InHand,
  heldVars, bioVars
<1>2. /\ at'[User].pc = "pinned" /\ at'[User].abd = at[User].abd
      /\ at'[User].folio = None /\ at'[User].spare = at[User].spare
      /\ at'[User].todo = at[User].todo /\ at'[User].taken = {}
      /\ Only(User) /\ at' \in [Task -> AtState]
  <2>1. PICK e : e = [at[User] EXCEPT !.pc = "pinned", !.folio = None, !.taken = {}]
    OBVIOUS
  <2>2. /\ at[User] \in AtState
        /\ "pinned" \in Steps
        /\ None \in Folio \cup {None}
    BY <1>1, Apart, RestTyped DEF IInv, Typed, AtState, Steps, Chunks
  <2>3. /\ e \in AtState
        /\ e.pc = "pinned" /\ e.abd = at[User].abd
        /\ e.folio = None /\ e.spare = at[User].spare
        /\ e.todo = at[User].todo /\ e.taken = {}
    BY <2>1, <2>2, RestTyped DEF AtState
  <2>4. at' = [at EXCEPT ![User] = e]
    BY <2>1 DEF ReadPut, Go, Finish
  <2>5. User \in Task
    BY Apart
  <2>6. at'[User] = e /\ Only(User) /\ at' \in [Task -> AtState]
    BY <2>3, <2>4, <2>5, Moves
  <2> QED
    BY <2>3, <2>6
<1>3. Typed'
  BY <1>1, <1>2 DEF IInv, Typed, AtState, Only
<1>4. HashOK'
  BY Apart, <1>1, <1>2 DEF IInv, HashOK, OwnerSteps, UserSteps, ReclaimerSteps, Taking,
     Freeing, Locking, Midway, Migrating, WriteSteps, Only, Joining
<1>5. InHand'
  BY Apart, <1>1, <1>2 DEF IInv, InHand, At, Only
<1>6. UseOK'
  BY Apart, <1>1, <1>2 DEF IInv, UseOK, At, Freeing, WriteSteps, Frees, Only, Joining
<1>7. UserOK'
  BY <1>1, <1>2 DEF IInv, Typed, UserOK, At, Only
<1>8. Exact'
  <2>1. \A f \in Folio : Several(f)' = Several(f) 
    BY <1>1, <1>2, Apart, SeveralSameFor
  <2>2. \A f \in Folio : Single(f)' = Single(f) - One(f = at[User].folio)
    BY <1>1, <1>2, Apart DEF Single, CacheRefs, ChunkRefs, OwnerRefs, One, Named, At,
         Only, Task, IInv, InHand
  <2>3. ASSUME NEW f \in Folio PROVE ref'[f] = Holders(f)'
    BY <1>1, <2>1, <2>2, HoldersAre, Apart DEF IInv, Typed, Exact, One
  <2> QED
    BY <2>3 DEF Exact
<1>9. /\ BindingOK' /\ MtxOK' /\ LockOK' /\ MappedOK' /\ PrivateOK'
      /\ ChunksOK' /\ FreerOK' /\ TakenOK' /\ CopyOK'
  BY <1>1, <1>2, Apart, BindingSame, ChunksSame, CopySame, FreerSame, LockSame,
     MappedSame, MtxSame, PrivateSame, TakenSame DEF Taking, Freeing, Joining
<1>10. GrabOK'
  BY <1>1, <1>2, Apart, GrabSame DEF Only
<1> QED
  BY <1>3, <1>4, <1>5, <1>6, <1>7, <1>8, <1>9, <1>10 DEF IInv

LEMMA UnpinOK ==
  ASSUME Assumptions, IInv, Unpin
  PROVE  IInv'
<1>1. /\ at[User].pc = "pinned" /\ hash = None /\ refcnt = 1 /\ at[User].folio = None
      /\ at[User].todo = {}
      /\ refcnt' = 0
      /\ UNCHANGED <<sg, ref, lock, private, mapped, data>>
      /\ UNCHANGED <<joined, prelocked, mtx, arg, reclaiming>>
      /\ UNCHANGED <<hash, hdr, gone, resident, orphan, writing>>
      /\ UNCHANGED <<bio, batch, grab, miscounted>>
  BY Apart DEF Unpin, At, folioVars, abdVars, IInv, Typed, UseOK, InHand, Freeing,
  heldVars, bioVars, Joining
<1>2. /\ at'[User].pc = "idle" /\ at'[User].abd = None
      /\ at'[User].folio = None /\ at'[User].spare = None
      /\ at'[User].todo = {} /\ at'[User].taken = {}
      /\ Only(User) /\ at' \in [Task -> AtState]
  <2>1. PICK e : e = Rest
    OBVIOUS
  <2>2. /\ Rest \in AtState
    BY <1>1, Apart, RestTyped DEF IInv, Typed, AtState, Steps, Chunks
  <2>3. /\ e \in AtState
        /\ e.pc = "idle" /\ e.abd = None
        /\ e.folio = None /\ e.spare = None
        /\ e.todo = {} /\ e.taken = {}
    BY <2>1, <2>2, RestTyped DEF AtState
  <2>4. at' = [at EXCEPT ![User] = e]
    BY <2>1 DEF Unpin, Go, Finish
  <2>5. User \in Task
    BY Apart
  <2>6. at'[User] = e /\ Only(User) /\ at' \in [Task -> AtState]
    BY <2>3, <2>4, <2>5, Moves
  <2> QED
    BY <2>3, <2>6
<1>3. Typed'
  BY <1>1, <1>2 DEF IInv, Typed, AtState, Only
<1>4. HashOK'
  BY Apart, <1>1, <1>2 DEF IInv, HashOK, MigratorSteps, UserSteps, ReclaimerSteps,
     Taking, Freeing, Locking, Midway, Migrating, WriteSteps, Only, Joining
<1>5. InHand'
  BY Apart, <1>1, <1>2 DEF IInv, InHand, At, Midway, Only
<1>6. UseOK'
  BY Apart, <1>1, <1>2 DEF IInv, UseOK, Freeing, WriteSteps, Frees, Exists, Only,
       Joining
<1>7. UserOK'
  BY <1>1, <1>2 DEF IInv, Typed, UserOK, At, Only
<1>8. Exact'
  BY <1>1, <1>2, Apart, CountsSame DEF Only, IInv
<1>9. /\ BindingOK' /\ MtxOK' /\ LockOK' /\ MappedOK' /\ PrivateOK'
      /\ ChunksOK' /\ FreerOK' /\ TakenOK' /\ CopyOK'
  BY <1>1, <1>2, Apart, BindingSame, ChunksSame, CopySame, FreerSame, LockSame,
     MappedSame, MtxSame, PrivateSame, TakenSame DEF Taking, Freeing, Joining
<1>10. GrabOK'
  BY <1>1, <1>2, Apart DEF IInv, GrabOK, Only
<1> QED
  BY <1>3, <1>4, <1>5, <1>6, <1>7, <1>8, <1>9, <1>10 DEF IInv

LEMMA StartWriteOK ==
  ASSUME Assumptions, IInv, StartWrite
  PROVE  IInv'
<1>1. /\ at[User].pc = "idle" /\ hash = None /\ resident # {}
      /\ writing' = TRUE
      /\ UNCHANGED <<sg, ref, lock, private, mapped, data>>
      /\ UNCHANGED <<joined, prelocked, mtx, arg, reclaiming>>
      /\ UNCHANGED <<hash, hdr, gone, resident, orphan, refcnt>>
      /\ UNCHANGED <<bio, batch, grab, miscounted>>
  BY Apart DEF StartWrite, At, folioVars, abdVars, heldVars, bioVars
<1>2. /\ at'[User].pc = "fill" /\ at'[User].abd = at[User].abd
      /\ at'[User].folio = at[User].folio /\ at'[User].spare = at[User].spare
      /\ at'[User].todo = Chunks(resident) /\ at'[User].taken = at[User].taken
      /\ Only(User) /\ at' \in [Task -> AtState]
  <2>1. PICK e : e = [at[User] EXCEPT !.pc = "fill", !.todo = Chunks(resident)]
    OBVIOUS
  <2>2. /\ at[User] \in AtState
        /\ "fill" \in Steps
        /\ Chunks(resident) \subseteq Chunk \cup Abd
    BY <1>1, Apart, RestTyped DEF IInv, Typed, AtState, Steps, Chunks
  <2>3. /\ e \in AtState
        /\ e.pc = "fill" /\ e.abd = at[User].abd
        /\ e.folio = at[User].folio /\ e.spare = at[User].spare
        /\ e.todo = Chunks(resident) /\ e.taken = at[User].taken
    BY <2>1, <2>2, RestTyped DEF AtState
  <2>4. at' = [at EXCEPT ![User] = e]
    BY <2>1 DEF StartWrite, Go, Finish
  <2>5. User \in Task
    BY Apart
  <2>6. at'[User] = e /\ Only(User) /\ at' \in [Task -> AtState]
    BY <2>3, <2>4, <2>5, Moves
  <2> QED
    BY <2>3, <2>6
<1>a. at[Owner].pc = "idle" /\ \A r \in Reclaimer : at[r].pc \notin Taking
  BY <1>1, Apart DEF IInv, HashOK
<1>b. resident = Abd /\ orphan = {}
  BY <1>1, <1>a DEF IInv, Typed, UseOK, Freeing, Joining
<1>c. at'[User].todo = Chunk
  BY <1>2, <1>b, Apart DEF Chunks
<1>3. Typed'
  BY <1>1, <1>2 DEF IInv, Typed, AtState, Only
<1>4. HashOK'
  BY Apart, <1>1, <1>2 DEF IInv, HashOK, OwnerSteps, MigratorSteps, UserSteps,
     ReclaimerSteps, Taking, Freeing, Locking, Midway, Migrating, WriteSteps, Only,
     Joining
<1>5. InHand'
  BY Apart, <1>1, <1>2 DEF IInv, InHand, At, Midway, Chunks, Only
<1>6. UseOK'
  BY Apart, <1>1, <1>2, <1>a, <1>b DEF IInv, Typed, UseOK, At, Freeing, WriteSteps,
     Frees, Exists, ReclaimerSteps, Taking, Locking, Midway, Migrating, Only, Joining
<1>7. UserOK'
  BY <1>1, <1>2, Apart DEF IInv, UserOK, At
<1>8. Exact'
  BY <1>1, <1>2, Apart, CountsSame DEF Only
<1>9. /\ BindingOK' /\ MtxOK' /\ LockOK' /\ MappedOK' /\ PrivateOK'
      /\ ChunksOK' /\ FreerOK' /\ TakenOK' /\ CopyOK'
  BY <1>1, <1>2, Apart, BindingSame, ChunksSame, CopySame, FreerSame, LockSame,
     MappedSame, MtxSame, PrivateSame, TakenSame DEF Taking, Freeing, Joining
<1>10. GrabOK'
  BY <1>1, <1>2, Apart, GrabSame DEF Only
<1> QED
  BY <1>3, <1>4, <1>5, <1>6, <1>7, <1>8, <1>9, <1>10 DEF IInv

LEMMA WriteGrabOK ==
  ASSUME Assumptions, IInv, NEW c \in Chunk, WriteGrab(c), At(User, "fill")
  PROVE  IInv'
<1>1. /\ at[User].pc = "fill" /\ Grabbed(User, c) /\ Take(User)
      /\ c \in at[User].todo /\ grab[User].folio = sg[c]
      /\ UNCHANGED <<sg, ref, lock, private, mapped, data>>
      /\ UNCHANGED <<joined, prelocked, mtx, arg, reclaiming>>
      /\ UNCHANGED <<hash, hdr, gone, resident, orphan, refcnt, writing>>
      /\ UNCHANGED <<bio, batch, miscounted>>
  BY Apart, Grabbing DEF WriteGrab, At, folioVars, abdVars, hdrVars, heldVars, bioVars
<1>2. /\ at'[User].pc = "hold" /\ at'[User].abd = at[User].abd
      /\ at'[User].folio = sg[c] /\ at'[User].spare = at[User].spare
      /\ at'[User].todo = at[User].todo \ {c} /\ at'[User].taken = {c}
      /\ Only(User) /\ at' \in [Task -> AtState]
  <2>1. PICK e : e = [at[User] EXCEPT !.pc = "hold", !.folio = sg[c],
                               !.todo = at[User].todo \ {c}, !.taken = {c}]
    OBVIOUS
  <2>2. /\ at[User] \in AtState
        /\ "hold" \in Steps
        /\ sg[c] \in Folio \cup {None}
        /\ at[User].todo \ {c} \subseteq Chunk \cup Abd
        /\ {c} \subseteq Folio \cup Chunk
    BY <1>1, Apart, RestTyped DEF IInv, Typed, AtState, Steps, Chunks
  <2>3. /\ e \in AtState
        /\ e.pc = "hold" /\ e.abd = at[User].abd
        /\ e.folio = sg[c] /\ e.spare = at[User].spare
        /\ e.todo = at[User].todo \ {c} /\ e.taken = {c}
    BY <2>1, <2>2, RestTyped DEF AtState
  <2>4. at' = [at EXCEPT ![User] = e]
    BY <1>1, <2>1 DEF WriteGrab, At
  <2>5. User \in Task
    BY Apart
  <2>6. at'[User] = e /\ Only(User) /\ at' \in [Task -> AtState]
    BY <2>3, <2>4, <2>5, Moves
  <2> QED
    BY <2>3, <2>6
<1>g. /\ grab[User].held /\ sg[c] \in Folio /\ data[sg[c]] = c
      /\ grab'[User] = Idle /\ grab' \in [Task -> GrabState]
      /\ \A u \in Task \ {User} : grab'[u] = grab[u]
  BY <1>1, Apart, Grabbing
<1>3. Typed'
  BY <1>1, <1>2, <1>g DEF IInv, Typed, AtState, Only
<1>4. HashOK'
  BY Apart, <1>1, <1>2 DEF IInv, HashOK, OwnerSteps, MigratorSteps, UserSteps,
     ReclaimerSteps, Taking, Freeing, Locking, Midway, Migrating, WriteSteps, Only,
     Joining
<1>5. InHand'
  BY Apart, <1>1, <1>2, <1>g DEF IInv, Typed, InHand, At, Only
<1>6. UseOK'
  BY Apart, <1>1, <1>2 DEF IInv, UseOK, At, Freeing, WriteSteps, Frees, Exists, Only,
       Joining
<1>7. CopyOK'
  BY Apart, <1>1, <1>2 DEF IInv, CopyOK, At, Only
<1>8. UserOK'
  BY Apart, <1>1, <1>2, <1>g DEF IInv, Typed, UserOK, At, Only
<1>9. Exact'
  <2>1. \A f \in Folio : Several(f)' = Several(f) - One(f = sg[c])
    BY <1>1, <1>2, Apart, <1>g, LookerDone
  <2>2. \A f \in Folio : Single(f)' = Single(f) + One(f = sg[c])
    BY <1>1, <1>2, <1>g, Apart DEF Single, CacheRefs, ChunkRefs, OwnerRefs, One, Named,
         At,
         Only, Task, IInv, InHand, HashOK,
         UserSteps, WriteSteps
  <2>3. ASSUME NEW f \in Folio PROVE ref'[f] = Holders(f)'
    BY <1>1, <1>g, <2>1, <2>2, HoldersAre, Apart DEF IInv, Typed, Exact, One
  <2> QED
    BY <2>3 DEF Exact
<1>10. /\ BindingOK' /\ MtxOK' /\ LockOK' /\ MappedOK'
       /\ PrivateOK' /\ ChunksOK' /\ FreerOK' /\ TakenOK'
  BY <1>1, <1>2, Apart, BindingSame, ChunksSame, FreerSame, LockSame, MappedSame,
     MtxSame, PrivateSame, TakenSame DEF Taking, Freeing, Joining
<1>11. GrabOK'
  BY <1>2, <1>g, Apart, GrabbedSame
<1> QED
  BY <1>3, <1>4, <1>5, <1>6, <1>7, <1>8, <1>9, <1>10, <1>11 DEF IInv

LEMMA WriteGrabDoneOK ==
  ASSUME Assumptions, IInv, NEW c \in Chunk, WriteGrab(c), ~At(User, "fill")
  PROVE  IInv'
<1>1. /\ at[User].pc = "done" /\ Grabbed(User, c) /\ Take(User)
      /\ c \in at[User].todo /\ grab[User].folio = sg[c]
      /\ UNCHANGED <<sg, ref, lock, private, mapped, data>>
      /\ UNCHANGED <<joined, prelocked, mtx, arg, reclaiming>>
      /\ UNCHANGED <<hash, hdr, gone, resident, orphan, refcnt, writing>>
      /\ UNCHANGED <<bio, batch, miscounted>>
  BY Apart, Grabbing DEF WriteGrab, At, folioVars, abdVars, hdrVars, heldVars, bioVars
<1>2. /\ at'[User].pc = "release" /\ at'[User].abd = at[User].abd
      /\ at'[User].folio = sg[c] /\ at'[User].spare = at[User].spare
      /\ at'[User].todo = at[User].todo \ {c} /\ at'[User].taken = {c}
      /\ Only(User) /\ at' \in [Task -> AtState]
  <2>1. PICK e : e = [at[User] EXCEPT !.pc = "release", !.folio = sg[c],
                               !.todo = at[User].todo \ {c}, !.taken = {c}]
    OBVIOUS
  <2>2. /\ at[User] \in AtState
        /\ "release" \in Steps
        /\ sg[c] \in Folio \cup {None}
        /\ at[User].todo \ {c} \subseteq Chunk \cup Abd
        /\ {c} \subseteq Folio \cup Chunk
    BY <1>1, Apart, RestTyped DEF IInv, Typed, AtState, Steps, Chunks
  <2>3. /\ e \in AtState
        /\ e.pc = "release" /\ e.abd = at[User].abd
        /\ e.folio = sg[c] /\ e.spare = at[User].spare
        /\ e.todo = at[User].todo \ {c} /\ e.taken = {c}
    BY <2>1, <2>2, RestTyped DEF AtState
  <2>4. at' = [at EXCEPT ![User] = e]
    BY <1>1, <2>1 DEF WriteGrab, At
  <2>5. User \in Task
    BY Apart
  <2>6. at'[User] = e /\ Only(User) /\ at' \in [Task -> AtState]
    BY <2>3, <2>4, <2>5, Moves
  <2> QED
    BY <2>3, <2>6
<1>g. /\ grab[User].held /\ sg[c] \in Folio /\ data[sg[c]] = c
      /\ grab'[User] = Idle /\ grab' \in [Task -> GrabState]
      /\ \A u \in Task \ {User} : grab'[u] = grab[u]
  BY <1>1, Apart, Grabbing
<1>3. Typed'
  BY Apart, <1>1, <1>2, <1>g DEF IInv, Typed, AtState, Only
<1>4. HashOK'
  BY Apart, <1>1, <1>2 DEF IInv, HashOK, MigratorSteps, UserSteps, ReclaimerSteps,
     Taking, Freeing, Locking, Midway, Migrating, WriteSteps, Only, Joining
<1>5. InHand'
  BY Apart, <1>1, <1>2, <1>g DEF IInv, InHand, At, Midway, Only
<1>6. UseOK'
  BY Apart, <1>1, <1>2, <1>g DEF IInv, Typed, UseOK, At, Freeing, WriteSteps,
     Frees, Exists, Only, Joining
<1>7. CopyOK'
  BY Apart, <1>1, <1>2 DEF IInv, Typed, CopyOK, At, Only
<1>8. UserOK'
  BY Apart, <1>1, <1>2, <1>g DEF IInv, UserOK, At, Only
<1>9. Exact'
  <2>1. \A f \in Folio : Several(f)' = Several(f) - One(f = sg[c])
    BY <1>1, <1>2, Apart, <1>g, LookerDone
  <2>2. \A f \in Folio : Single(f)' = Single(f) + One(f = sg[c])
    BY <1>1, <1>2, <1>g, Apart DEF Single, CacheRefs, ChunkRefs, OwnerRefs, One, Named,
         At,
         Only, Task, IInv, InHand, HashOK,
         UserSteps, WriteSteps
  <2>3. ASSUME NEW f \in Folio PROVE ref'[f] = Holders(f)'
    BY <1>1, <1>g, <2>1, <2>2, HoldersAre, Apart DEF IInv, Typed, Exact, One
  <2> QED
    BY <2>3 DEF Exact
<1>10. /\ BindingOK' /\ MtxOK' /\ LockOK' /\ MappedOK'
       /\ PrivateOK' /\ ChunksOK' /\ FreerOK' /\ TakenOK'
  BY <1>1, <1>2, Apart, BindingSame, ChunksSame, FreerSame, LockSame, MappedSame,
     MtxSame, PrivateSame, TakenSame DEF Taking, Freeing, Joining
<1>11. GrabOK'
  BY <1>2, <1>g, Apart, GrabbedSame
<1> QED
  BY <1>3, <1>4, <1>5, <1>6, <1>7, <1>8, <1>9, <1>10, <1>11 DEF IInv

LEMMA WriteHoldOK ==
  ASSUME Assumptions, IInv, WriteHold
  PROVE  IInv'
<1>1. /\ at[User].pc = "hold" /\ at[User].folio \in Folio
      /\ IF OwnPage(at[User].folio)
         THEN /\ bio' = [d \in Chunk |-> IF d \in at[User].taken THEN at[User].folio
                                                                ELSE bio[d]]
              /\ ref' = ref
         ELSE bio' = bio /\ ref' = [ref EXCEPT ![at[User].folio] = @ - 1]
      /\ UNCHANGED <<sg, lock, private, mapped, data>>
      /\ UNCHANGED <<joined, prelocked, mtx, arg, reclaiming>>
      /\ UNCHANGED <<hash, hdr, gone, resident, orphan, refcnt, writing>>
      /\ UNCHANGED <<batch, grab, miscounted>>
  BY Apart DEF WriteHold, At, abdVars, hdrVars, IInv, Typed, AtState, InHand, heldVars,
  bioVars,
     Put
<1>2. /\ at'[User].pc = "fill" /\ at'[User].abd = at[User].abd
      /\ at'[User].folio = None /\ at'[User].spare = at[User].spare
      /\ at'[User].todo = at[User].todo /\ at'[User].taken = {}
      /\ Only(User) /\ at' \in [Task -> AtState]
  <2>1. PICK e : e = [at[User] EXCEPT !.pc = "fill", !.folio = None, !.taken = {}]
    OBVIOUS
  <2>2. /\ at[User] \in AtState
        /\ "fill" \in Steps
        /\ None \in Folio \cup {None}
    BY <1>1, Apart, RestTyped DEF IInv, Typed, AtState, Steps, Chunks
  <2>3. /\ e \in AtState
        /\ e.pc = "fill" /\ e.abd = at[User].abd
        /\ e.folio = None /\ e.spare = at[User].spare
        /\ e.todo = at[User].todo /\ e.taken = {}
    BY <2>1, <2>2, RestTyped DEF AtState
  <2>4. at' = [at EXCEPT ![User] = e]
    BY <2>1 DEF WriteHold, Go, Finish
  <2>5. User \in Task
    BY Apart
  <2>6. at'[User] = e /\ Only(User) /\ at' \in [Task -> AtState]
    BY <2>3, <2>4, <2>5, Moves
  <2> QED
    BY <2>3, <2>6
<1>c. PICK c \in Chunk \ at[User].todo :
        at[User].taken = {c} /\ data[at[User].folio] = c
  BY <1>1 DEF IInv, UserOK
<1>d. /\ bio[c] = None
      /\ \A d \in Chunk \ {c} : bio'[d] = bio[d]
      /\ OwnPage(at[User].folio) => bio'[c] = at[User].folio
      /\ ~OwnPage(at[User].folio) => bio'[c] = None
      /\ bio' \in [Chunk -> Folio \cup {None}]
  BY <1>1, <1>c DEF IInv, Typed, UserOK, At
<1>3. Typed'
  BY <1>1, <1>2, <1>c, <1>d DEF IInv, Typed, AtState, Only
<1>4. HashOK'
  BY Apart, <1>1, <1>2 DEF IInv, Typed, HashOK, MigratorSteps, UserSteps,
     ReclaimerSteps, Taking, Midway, Migrating, WriteSteps, Only
<1>5. InHand'
  BY Apart, <1>1, <1>2 DEF IInv, InHand, At, Midway, Only
<1>6. UseOK'
  BY Apart, <1>1, <1>2, <1>d DEF IInv, UseOK, At, Freeing, WriteSteps,
     Frees, Exists, Only, Joining
<1>7. CopyOK'
  BY Apart, <1>1, <1>2, <1>c, <1>d DEF IInv, CopyOK, At, Only
<1>8. UserOK'
  BY <1>1, <1>2, <1>c, <1>d, Apart DEF IInv, UserOK, At
<1>9. Exact'
  <2>1. \A f \in Folio : Single(f)' = Single(f) - One(f = at[User].folio)
    BY <1>1, <1>2, Apart DEF Single, CacheRefs, ChunkRefs, OwnerRefs, One, Named, At,
         Only, Task, IInv, InHand
  <2>2. CASE OwnPage(at[User].folio)
    <3>1. \A f \in Folio : Several(f)' = Several(f) + One(f = at[User].folio)
      BY <1>1, <1>2, <1>c, <1>d, <2>2, Apart, BioHeld
    <3>2. ASSUME NEW f \in Folio PROVE ref'[f] = Holders(f)'
      BY <1>1, <2>1, <2>2, <3>1, HoldersAre, Apart DEF IInv, Typed, Exact, One
    <3> QED
      BY <3>2 DEF Exact
  <2>3. CASE ~OwnPage(at[User].folio)
    <3>1. \A f \in Folio : Several(f)' = Several(f)
      BY <1>1, <1>2, <2>3, Apart, SeveralSameFor
    <3>2. ASSUME NEW f \in Folio PROVE ref'[f] = Holders(f)'
      BY <1>1, <2>1, <2>3, <3>1, HoldersAre, Apart DEF IInv, Typed, Exact, One
    <3> QED
      BY <3>2 DEF Exact
  <2> QED
    BY <2>2, <2>3
<1>10. /\ BindingOK' /\ MtxOK' /\ LockOK' /\ MappedOK'
       /\ PrivateOK' /\ ChunksOK' /\ FreerOK' /\ TakenOK'
  BY <1>1, <1>2, Apart, BindingSame, ChunksSame, FreerSame, LockSame, MappedSame,
     MtxSame, PrivateSame, TakenSame DEF Taking, Freeing, Joining
<1>11. GrabOK'
  BY <1>1, <1>2, Apart, GrabSame DEF Only
<1> QED
  BY <1>3, <1>4, <1>5, <1>6, <1>7, <1>8, <1>9, <1>10, <1>11 DEF IInv

LEMMA WriteCompleteOK ==
  ASSUME Assumptions, IInv, WriteComplete
  PROVE  IInv'
<1>1. /\ at[User].pc = "fill" /\ at[User].todo = {}
      /\ UNCHANGED <<sg, ref, lock, private, mapped, data>>
      /\ UNCHANGED <<joined, prelocked, mtx, arg, reclaiming>>
      /\ UNCHANGED <<hash, hdr, gone, resident, orphan, refcnt, writing>>
      /\ UNCHANGED <<bio, batch, grab, miscounted>>
  BY Apart DEF WriteComplete, At, folioVars, abdVars, hdrVars, heldVars, bioVars
<1>2. /\ at'[User].pc = "done" /\ at'[User].abd = at[User].abd
      /\ at'[User].folio = at[User].folio /\ at'[User].spare = at[User].spare
      /\ at'[User].todo = Chunks(Exists) /\ at'[User].taken = at[User].taken
      /\ Only(User) /\ at' \in [Task -> AtState]
  <2>1. PICK e : e = [at[User] EXCEPT !.pc = "done", !.todo = Chunks(Exists)]
    OBVIOUS
  <2>2. /\ at[User] \in AtState
        /\ "done" \in Steps
        /\ Chunks(Exists) \subseteq Chunk \cup Abd
    BY <1>1, Apart, RestTyped DEF IInv, Typed, AtState, Steps, Chunks
  <2>3. /\ e \in AtState
        /\ e.pc = "done" /\ e.abd = at[User].abd
        /\ e.folio = at[User].folio /\ e.spare = at[User].spare
        /\ e.todo = Chunks(Exists) /\ e.taken = at[User].taken
    BY <2>1, <2>2, RestTyped DEF AtState
  <2>4. at' = [at EXCEPT ![User] = e]
    BY <2>1 DEF WriteComplete, Go, Finish
  <2>5. User \in Task
    BY Apart
  <2>6. at'[User] = e /\ Only(User) /\ at' \in [Task -> AtState]
    BY <2>3, <2>4, <2>5, Moves
  <2> QED
    BY <2>3, <2>6
<1>a. writing /\ Exists = Abd
  BY <1>1 DEF IInv, UseOK, WriteSteps
<1>b. at'[User].todo = Chunk
  BY <1>2, <1>a, Apart DEF Chunks
<1>3. Typed'
  BY <1>1, <1>2, <1>a, <1>b DEF IInv, Typed, AtState, Only
<1>4. HashOK'
  BY Apart, <1>1, <1>2 DEF IInv, HashOK, UserSteps, Freeing, Locking, Midway, Migrating,
     WriteSteps, Only, Joining
<1>5. InHand'
  BY <1>1, <1>2 DEF IInv, InHand, At, Taking, Chunks, Only, Task
<1>6. UseOK'
  BY Apart, <1>1, <1>2 DEF IInv, UseOK, At, Freeing, WriteSteps, Frees, Exists, Only,
       Joining
<1>7. UserOK'
  BY <1>1, <1>2, <1>a, <1>b DEF IInv, Typed, UserOK, At, Only
<1>8. Exact'
  BY <1>1, <1>2, Apart, CountsSame DEF Only
<1>9. /\ BindingOK' /\ MtxOK' /\ LockOK' /\ MappedOK' /\ PrivateOK'
      /\ ChunksOK' /\ FreerOK' /\ TakenOK' /\ CopyOK'
  BY <1>1, <1>2, Apart, BindingSame, ChunksSame, CopySame, FreerSame, LockSame,
     MappedSame, MtxSame, PrivateSame, TakenSame DEF Taking, Freeing, Joining
<1>10. GrabOK'
  BY <1>1, <1>2, Apart, GrabSame DEF Only
<1> QED
  BY <1>3, <1>4, <1>5, <1>6, <1>7, <1>8, <1>9, <1>10 DEF IInv

LEMMA WriteReleaseOK ==
  ASSUME Assumptions, IInv, WriteRelease
  PROVE  Kept'
<1>1. /\ at[User].pc = "release" /\ at[User].folio \in Folio
      /\ ref' = [ref EXCEPT ![at[User].folio] = @ - (IF OwnPage(at[User].folio) THEN 2 ELSE 1)]
      /\ miscounted' = (\E c \in at[User].taken :
           bio[c] # IF OwnPage(at[User].folio) THEN at[User].folio ELSE None)
      /\ bio' = [d \in Chunk |-> IF d \in at[User].taken THEN None ELSE bio[d]]
      /\ UNCHANGED <<sg, lock, private, mapped, data>>
      /\ UNCHANGED <<joined, prelocked, mtx, arg, reclaiming>>
      /\ UNCHANGED <<hash, hdr, gone, resident, orphan, refcnt, writing>>
      /\ UNCHANGED <<batch, grab>>
  BY Apart DEF WriteRelease, At, abdVars, hdrVars, IInv, Typed, AtState, InHand,
  heldVars, bioVars
<1>2. /\ at'[User].pc = "done" /\ at'[User].abd = at[User].abd
      /\ at'[User].folio = None /\ at'[User].spare = at[User].spare
      /\ at'[User].todo = at[User].todo /\ at'[User].taken = {}
      /\ Only(User) /\ at' \in [Task -> AtState]
  <2>1. PICK e : e = [at[User] EXCEPT !.pc = "done", !.folio = None, !.taken = {}]
    OBVIOUS
  <2>2. /\ at[User] \in AtState
        /\ "done" \in Steps
        /\ None \in Folio \cup {None}
    BY <1>1, Apart, RestTyped DEF IInv, Typed, AtState, Steps, Chunks
  <2>3. /\ e \in AtState
        /\ e.pc = "done" /\ e.abd = at[User].abd
        /\ e.folio = None /\ e.spare = at[User].spare
        /\ e.todo = at[User].todo /\ e.taken = {}
    BY <2>1, <2>2, RestTyped DEF AtState
  <2>4. at' = [at EXCEPT ![User] = e]
    BY <2>1 DEF WriteRelease, Go, Finish
  <2>5. User \in Task
    BY Apart
  <2>6. at'[User] = e /\ Only(User) /\ at' \in [Task -> AtState]
    BY <2>3, <2>4, <2>5, Moves
  <2> QED
    BY <2>3, <2>6
<1>c. PICK c \in Chunk \ at[User].todo :
        at[User].taken = {c} /\ data[at[User].folio] = c
  BY <1>1 DEF IInv, UserOK
<1>d. /\ bio' = [d \in Chunk |-> IF d = c THEN None ELSE bio[d]]
      /\ bio' \in [Chunk -> Folio \cup {None}]
      /\ ref' \in [Folio -> Int] /\ miscounted' \in BOOLEAN
      /\ ~miscounted' => bio[c] = IF OwnPage(at[User].folio) THEN at[User].folio ELSE None
  BY <1>1, <1>c DEF IInv, Typed
<1>3. Typed'
  BY Apart, <1>1, <1>2, <1>c, <1>d DEF IInv, Typed, AtState, Only
<1>4. HashOK'
  BY Apart, <1>1, <1>2 DEF IInv, HashOK, MigratorSteps, UserSteps, ReclaimerSteps,
     Taking, Freeing, Locking, Midway, Migrating, WriteSteps, Only, Joining
<1>5. InHand'
  BY Apart, <1>1, <1>2 DEF IInv, InHand, At, Taking, Midway, Only
<1>6. UseOK'
  BY Apart, <1>1, <1>2 DEF IInv, UseOK, At, Freeing, WriteSteps, Frees, Exists, Only,
       Joining
<1>7. CopyOK'
  BY Apart, <1>1, <1>2, <1>c, <1>d DEF IInv, Typed, InHand, Midway, CopyOK, At, Only
<1>8. UserOK'
  BY <1>1, <1>2, <1>c, <1>d, Apart DEF IInv, UserOK, At
<1>9. miscounted' \/ Exact'
  <2> SUFFICES ASSUME ~miscounted' PROVE Exact'
    OBVIOUS
  <2>1. \A f \in Folio : Single(f)' = Single(f) - One(f = at[User].folio)
    BY <1>1, <1>2, Apart DEF Single, CacheRefs, ChunkRefs, OwnerRefs, One, Named, At,
         Only, Task, IInv, InHand
  <2>2. CASE OwnPage(at[User].folio)
    <3>1. \A f \in Folio : Several(f)' = Several(f) - One(f = at[User].folio)
      BY <1>1, <1>2, <1>c, <1>d, <2>2, Apart, BioLetGo
    <3>2. ASSUME NEW f \in Folio PROVE ref'[f] = Holders(f)'
      BY <1>1, <2>1, <2>2, <3>1, HoldersAre, Apart DEF IInv, Typed, Exact, One
    <3> QED
      BY <3>2 DEF Exact
  <2>3. CASE ~OwnPage(at[User].folio)
    <3>0. bio' = bio
      BY <1>d, <2>3 DEF IInv, Typed
    <3>1. \A f \in Folio : Several(f)' = Several(f)
      BY <1>1, <1>2, <3>0, Apart, SeveralSameFor
    <3>2. ASSUME NEW f \in Folio PROVE ref'[f] = Holders(f)'
      BY <1>1, <2>1, <2>3, <3>1, HoldersAre, Apart DEF IInv, Typed, Exact, One
    <3> QED
      BY <3>2 DEF Exact
  <2> QED
    BY <2>2, <2>3
<1>10. /\ BindingOK' /\ MtxOK' /\ LockOK' /\ MappedOK'
       /\ PrivateOK' /\ ChunksOK' /\ FreerOK' /\ TakenOK'
  BY <1>1, <1>2, Apart, BindingSame, ChunksSame, FreerSame, LockSame, MappedSame,
     MtxSame, PrivateSame, TakenSame DEF Taking, Freeing, Joining
<1>11. GrabOK'
  BY <1>1, <1>2, Apart, GrabSame DEF Only
<1> QED
  BY <1>3, <1>4, <1>5, <1>6, <1>7, <1>8, <1>9, <1>10, <1>11 DEF Kept, Shape

LEMMA WriteEndOK ==
  ASSUME Assumptions, IInv, WriteEnd
  PROVE  IInv'
<1>1. /\ at[User].pc = "done" /\ at[User].todo = {} /\ hash = None
      /\ writing' = FALSE
      /\ UNCHANGED <<sg, ref, lock, private, mapped, data>>
      /\ UNCHANGED <<joined, prelocked, mtx, arg, reclaiming>>
      /\ UNCHANGED <<hash, hdr, gone, resident, orphan, refcnt>>
      /\ UNCHANGED <<bio, batch, grab, miscounted>>
  BY Apart DEF WriteEnd, At, folioVars, abdVars, heldVars, bioVars
<1>2. /\ at'[User].pc = "drain" /\ at'[User].abd = at[User].abd
      /\ at'[User].folio = at[User].folio /\ at'[User].spare = at[User].spare
      /\ at'[User].todo = at[User].todo /\ at'[User].taken = at[User].taken
      /\ Only(User) /\ at' \in [Task -> AtState]
  <2>1. PICK e : e = [at[User] EXCEPT !.pc = "drain"]
    OBVIOUS
  <2>2. /\ at[User] \in AtState
        /\ "drain" \in Steps
    BY <1>1, Apart, RestTyped DEF IInv, Typed, AtState, Steps, Chunks
  <2>3. /\ e \in AtState
        /\ e.pc = "drain" /\ e.abd = at[User].abd
        /\ e.folio = at[User].folio /\ e.spare = at[User].spare
        /\ e.todo = at[User].todo /\ e.taken = at[User].taken
    BY <2>1, <2>2, RestTyped DEF AtState
  <2>4. at' = [at EXCEPT ![User] = e]
    BY <1>1, <2>1 DEF WriteEnd, Go
  <2>5. User \in Task
    BY Apart
  <2>6. at'[User] = e /\ Only(User) /\ at' \in [Task -> AtState]
    BY <2>3, <2>4, <2>5, Moves
  <2> QED
    BY <2>3, <2>6
<1>3. Typed'
  BY Apart, <1>1, <1>2 DEF IInv, Typed, AtState, Only
<1>4. HashOK'
  BY Apart, <1>1, <1>2 DEF IInv, HashOK, MigratorSteps, UserSteps, ReclaimerSteps,
     Taking, Freeing, Locking, Midway, Migrating, WriteSteps, Only, Joining
<1>5. InHand'
  BY Apart, <1>1, <1>2 DEF IInv, InHand, At, Midway, Only
<1>6. UseOK'
  BY Apart, <1>1, <1>2 DEF IInv, UseOK, At, Freeing, WriteSteps, Frees, Only, Joining
<1>7. UserOK'
  BY <1>1, <1>2 DEF IInv, Typed, UserOK, At, Only
<1>8. Exact'
  BY <1>1, <1>2, Apart, CountsSame DEF Only
<1>9. /\ BindingOK' /\ MtxOK' /\ LockOK' /\ MappedOK' /\ PrivateOK'
      /\ ChunksOK' /\ FreerOK' /\ TakenOK' /\ CopyOK'
  BY <1>1, <1>2, Apart, BindingSame, ChunksSame, CopySame, FreerSame, LockSame,
     MappedSame, MtxSame, PrivateSame, TakenSame DEF Taking, Freeing, Joining
<1>10. GrabOK'
  BY <1>1, <1>2, Apart, GrabSame DEF Only
<1> QED
  BY <1>3, <1>4, <1>5, <1>6, <1>7, <1>8, <1>9, <1>10 DEF IInv

LEMMA DrainEndOK ==
  ASSUME Assumptions, IInv, DrainEnd
  PROVE  IInv'
<1>1. /\ at[User].pc = "drain" /\ orphan = {} /\ at[User].folio = None
      /\ UNCHANGED <<sg, ref, lock, private, mapped, data>>
      /\ UNCHANGED <<joined, prelocked, mtx, arg, reclaiming>>
      /\ UNCHANGED <<hash, hdr, gone, resident, orphan, refcnt, writing>>
      /\ UNCHANGED <<bio, batch, grab, miscounted>>
  BY Apart DEF DrainEnd, At, folioVars, abdVars, hdrVars, IInv, InHand, Freeing,
  heldVars, bioVars, Joining
<1>2. /\ at'[User].pc = "idle" /\ at'[User].abd = None
      /\ at'[User].folio = None /\ at'[User].spare = None
      /\ at'[User].todo = {} /\ at'[User].taken = {}
      /\ Only(User) /\ at' \in [Task -> AtState]
  <2>1. PICK e : e = Rest
    OBVIOUS
  <2>2. /\ Rest \in AtState
    BY <1>1, Apart, RestTyped DEF IInv, Typed, AtState, Steps, Chunks
  <2>3. /\ e \in AtState
        /\ e.pc = "idle" /\ e.abd = None
        /\ e.folio = None /\ e.spare = None
        /\ e.todo = {} /\ e.taken = {}
    BY <2>1, <2>2, RestTyped DEF AtState
  <2>4. at' = [at EXCEPT ![User] = e]
    BY <2>1 DEF DrainEnd, Go, Finish
  <2>5. User \in Task
    BY Apart
  <2>6. at'[User] = e /\ Only(User) /\ at' \in [Task -> AtState]
    BY <2>3, <2>4, <2>5, Moves
  <2> QED
    BY <2>3, <2>6
<1>3. Typed'
  BY <1>1, <1>2 DEF IInv, Typed, AtState, Only
<1>4. HashOK'
  BY Apart, <1>1, <1>2 DEF IInv, HashOK, MigratorSteps, UserSteps, ReclaimerSteps,
     Taking, Freeing, Locking, Midway, Migrating, WriteSteps, Only, Joining
<1>5. InHand'
  BY Apart, <1>1, <1>2 DEF IInv, InHand, At, Midway, Only
<1>6. UseOK'
  BY Apart, <1>1, <1>2 DEF IInv, UseOK, At, Freeing, WriteSteps, Frees, Only, Joining
<1>7. UserOK'
  BY <1>1, <1>2 DEF IInv, Typed, UserOK, At, Only
<1>8. Exact'
  BY <1>1, <1>2, Apart, CountsSame DEF Only, Task, IInv
<1>9. /\ BindingOK' /\ MtxOK' /\ LockOK' /\ MappedOK' /\ PrivateOK'
      /\ ChunksOK' /\ FreerOK' /\ TakenOK' /\ CopyOK'
  BY <1>1, <1>2, Apart, BindingSame, ChunksSame, CopySame, FreerSame, LockSame,
     MappedSame, MtxSame, PrivateSame, TakenSame DEF Taking, Freeing, Joining
<1>10. GrabOK'
  BY <1>1, <1>2, Apart, GrabSame DEF Only
<1> QED
  BY <1>3, <1>4, <1>5, <1>6, <1>7, <1>8, <1>9, <1>10 DEF IInv

-----------------------------------------------------------------------------
(* What everybody does who looks for the folio of an entry. *)

LEMMA ShapeSame ==
  ASSUME Shape, UNCHANGED <<sg, lock, private, mapped, data, abdVars, hdrVars, bio,
     batch, at>>
  PROVE  /\ HashOK' /\ InHand' /\ UseOK' /\ BindingOK' /\ MtxOK' /\ LockOK' /\ MappedOK'
         /\ PrivateOK' /\ ChunksOK' /\ FreerOK' /\ TakenOK' /\ CopyOK' /\ UserOK'
<1>1. HashOK' /\ InHand' /\ UseOK' /\ BindingOK'
  BY DEF Shape, abdVars, hdrVars, HashOK, InHand, At, UseOK, Frees, Exists, BindingOK
<1>2. MtxOK' /\ LockOK' /\ MappedOK' /\ PrivateOK'
  BY DEF Shape, abdVars, hdrVars, MtxOK, MutexesOf, Frees, At, Exists, LockOK, MappedOK,
     PrivateOK, Repointed
<1>3. ChunksOK' /\ FreerOK' /\ TakenOK'
  BY DEF Shape, abdVars, hdrVars, ChunksOK, ChunkOK, Exists, At, FreerOK, TakenOK,
  TakenBy
<1>4. CopyOK' /\ UserOK'
  BY DEF Shape, abdVars, hdrVars, CopyOK, At, UserOK
<1> QED
  BY <1>1, <1>2, <1>3, <1>4

LEMMA LookOK ==
  ASSUME Assumptions, IInv, NEW t \in Task, NEW c \in Chunk, Look(t, c)
  PROVE  IInv'
<1>1. /\ at[t].pc \in Grabs(t) /\ c \in at[t].todo /\ grab[t] = Idle
      /\ grab' = [grab EXCEPT ![t] = [entry |-> c, folio |-> sg[c], held |-> FALSE]]
      /\ UNCHANGED <<sg, ref, lock, private, mapped, data, abdVars, hdrVars, bio,
                       miscounted,
                      batch, at>>
  BY DEF Look, folioVars, bioVars
<1>2. [entry |-> c, folio |-> sg[c], held |-> FALSE] \in GrabState
  BY DEF GrabState, IInv, Typed
<1>3. Typed'
  BY <1>1, <1>2 DEF IInv, Typed, abdVars, hdrVars
<1>4. GrabOK'
  BY <1>1 DEF IInv, Typed, GrabOK
<1>5. Exact'
  <2>1. \A f \in Folio : Lookers(f)' = Lookers(f)
    BY <1>1 DEF Lookers, Idle, IInv, Typed
  <2>2. \A f \in Folio : Several(f)' = Several(f)
    BY <1>1, <2>1 DEF Several, Hands, Takers, Grabbers, Batches, Bios
  <2>3. \A f \in Folio : Single(f)' = Single(f)
    BY <1>1 DEF Single, CacheRefs, ChunkRefs, OwnerRefs, One, Named, At
  <2>4. ASSUME NEW f \in Folio PROVE ref'[f] = Holders(f)'
    BY <1>1, <2>2, <2>3, HoldersAre DEF IInv, Exact
  <2> QED
    BY <2>4 DEF Exact
<1>6. Shape
  BY DEF IInv, Shape
<1> QED
  BY <1>1, <1>3, <1>4, <1>5, <1>6, ShapeSame DEF IInv

LEMMA TryGetOK ==
  ASSUME Assumptions, IInv, NEW t \in Task, TryGet(t)
  PROVE  IInv'
<1> DEFINE f == grab[t].folio
           got == [grab[t] EXCEPT !.held = TRUE]
<1>1. /\ f \in Folio /\ ~grab[t].held /\ grab[t] \in GrabState
      /\ IF ref[f] > 0 THEN ref' = [ref EXCEPT ![f] = @ + 1] /\ grab' = [grab EXCEPT ![t] = got]
                       ELSE ref' = ref /\ grab' = [grab EXCEPT ![t] = Idle]
      /\ UNCHANGED <<sg, lock, private, mapped, data, abdVars, hdrVars, bio, miscounted,
                      batch, at>>
  BY DEF TryGet, Get, bioVars, IInv, Typed, GrabState
<1>2. /\ got \in GrabState /\ got.held /\ got.folio = f /\ got.entry = grab[t].entry
      /\ Idle \in GrabState /\ ~Idle.held
  BY <1>1 DEF GrabState, Idle
<1>3. Typed'
  <2>1. ref' \in [Folio -> Int] /\ grab' \in [Task -> GrabState]
    <3>1. ref \in [Folio -> Int] /\ grab \in [Task -> GrabState] /\ f \in Folio
      BY <1>1 DEF IInv, Typed
    <3>2. CASE ref[f] > 0
      <4>1. ref' = [ref EXCEPT ![f] = @ + 1] /\ grab' = [grab EXCEPT ![t] = got]
        BY <1>1, <3>2
      <4>2. ref' \in [Folio -> Int]
        <5> HIDE DEF f, got
        <5> QED
          BY <3>1, <4>1
      <4>3. grab' \in [Task -> GrabState]
        <5> HIDE DEF got
        <5> QED
          BY <1>2, <3>1, <4>1
      <4> QED
        BY <4>2, <4>3
    <3>3. CASE ~(ref[f] > 0)
      BY <1>1, <1>2, <3>1, <3>3
    <3> QED
      BY <3>2, <3>3
  <2> QED
    BY <1>1, <2>1 DEF IInv, Typed, abdVars, hdrVars
<1>4. GrabOK'
  <2>1. grab[t] # Idle /\ f # None
    BY <1>1, Apart DEF Idle
  <2> QED
    BY <1>1, <1>2, <2>1 DEF IInv, Typed, GrabOK
<1>5. \A g \in Folio : Single(g)' = Single(g)
  BY <1>1 DEF Single, CacheRefs, ChunkRefs, OwnerRefs, One, Named, At
<1>6. Exact'
  <2>1. CASE ref[f] > 0
    <3>1. /\ grab'[t].held /\ grab'[t].folio = f
          /\ \A u \in Task \ {t} : grab'[u] = grab[u]
      BY <1>1, <1>2, <2>1 DEF IInv, Typed
    <3>2. \A g \in Folio : Several(g)' = Several(g) + One(g = f)
      BY <1>1, <3>1, LookerGot
    <3>3. ASSUME NEW g \in Folio PROVE ref'[g] = Holders(g)'
      BY <1>1, <1>5, <2>1, <3>2, HoldersAre DEF IInv, Typed, Exact, One
    <3> QED
      BY <3>3 DEF Exact
  <2>2. CASE ~(ref[f] > 0)
    <3>1. \A g \in Folio : Lookers(g)' = Lookers(g)
      BY <1>1, <1>2, <2>2 DEF Lookers, IInv, Typed
    <3>2. \A g \in Folio : Several(g)' = Several(g)
      BY <1>1, <3>1 DEF Several, Hands, Takers, Grabbers, Batches, Bios
    <3>3. ASSUME NEW g \in Folio PROVE ref'[g] = Holders(g)'
      BY <1>1, <1>5, <2>2, <3>2, HoldersAre DEF IInv, Exact
    <3> QED
      BY <3>3 DEF Exact
  <2> QED
    BY <2>1, <2>2
<1>7. Shape
  BY DEF IInv, Shape
<1> QED
  BY <1>1, <1>3, <1>4, <1>6, <1>7, ShapeSame DEF IInv

LEMMA GrabAgainOK ==
  ASSUME Assumptions, IInv, NEW t \in Task, GrabAgain(t)
  PROVE  IInv'
<1> DEFINE f == grab[t].folio
<1>1. /\ grab[t].held /\ f \in Folio
      /\ ref' = [ref EXCEPT ![f] = @ - 1] /\ grab' = [grab EXCEPT ![t] = Idle]
      /\ UNCHANGED <<sg, lock, private, mapped, data, abdVars, hdrVars, bio, miscounted,
                      batch, at>>
  BY Apart DEF GrabAgain, Put, bioVars, IInv, Typed, GrabState, GrabOK
<1>2. /\ Idle \in GrabState /\ ~Idle.held
      /\ grab'[t] = Idle /\ \A u \in Task \ {t} : grab'[u] = grab[u]
  BY <1>1 DEF GrabState, Idle, IInv, Typed
<1>3. Typed'
  BY <1>1, <1>2 DEF IInv, Typed, abdVars, hdrVars
<1>4. GrabOK'
  BY <1>1, <1>2 DEF IInv, GrabOK
<1>5. \A g \in Folio : Single(g)' = Single(g)
  BY <1>1 DEF Single, CacheRefs, ChunkRefs, OwnerRefs, One, Named, At
<1>6. Exact'
  <2>1. \A g \in Folio : Several(g)' = Several(g) - One(g = f)
    BY <1>1, <1>2, LookerDone
  <2>2. ASSUME NEW g \in Folio PROVE ref'[g] = Holders(g)'
    BY <1>1, <1>5, <2>1, HoldersAre DEF IInv, Typed, Exact, One
  <2> QED
    BY <2>2 DEF Exact
<1>7. Shape
  BY DEF IInv, Shape
<1> QED
  BY <1>1, <1>3, <1>4, <1>6, <1>7, ShapeSame DEF IInv

LEMMA GrabWorkOK ==
  ASSUME Assumptions, IInv, NEW t \in Task, GrabWork(t) PROVE IInv'
BY LookOK, TryGetOK, GrabAgainOK DEF GrabWork

-----------------------------------------------------------------------------
(* The invariant from the start, through every step. *)

LEMMA InitOK ==
  ASSUME Assumptions, Init PROVE IInv
<1>1. \A t \in Task : at[t] = Rest
  BY DEF Init
<1>2. \A t \in Task : /\ at[t].pc = "idle" /\ at[t].abd = None /\ at[t].folio = None
                      /\ at[t].spare = None /\ at[t].todo = {} /\ at[t].taken = {}
  BY <1>1, RestTyped
<1>3. Typed
  <2>1. at \in [Task -> AtState]
    BY RestTyped DEF Init
  <2>2. /\ sg \in [Chunk -> Folio \cup {None}] /\ ref \in [Folio -> Int]
        /\ lock \in [Folio -> Task \cup {None}]
        /\ private \in [Folio -> Abd \cup {Marker, None}]
        /\ mapped \subseteq Folio /\ data \in [Folio -> Chunk \cup {None}]
    BY DEF Init
  <2>3. /\ joined \subseteq Abd /\ prelocked \subseteq Abd
        /\ mtx \in [Abd -> Task \cup {None}] /\ arg \in [Abd -> Hdr \cup {None}]
        /\ reclaiming \in [Abd -> Folio \cup {None}]
        /\ resident \subseteq Abd /\ orphan \subseteq Abd
    BY DEF Init
  <2>4. /\ hash \in Task \cup {None} /\ hdr \in Hdr /\ gone \subseteq Hdr
        /\ writing \in BOOLEAN
    BY DEF Init
  <2>5. /\ refcnt \in 0..1
        /\ bio \in [Chunk -> Folio \cup {None}]
        /\ batch \in [Reclaimer -> Folio \cup {None}]
    BY DEF Init
  <2>6. Idle \in GrabState
    BY DEF Idle, GrabState
  <2>7. miscounted \in BOOLEAN /\ grab \in [Task -> GrabState]
    BY <2>6 DEF Init
  <2> QED
    BY <2>1, <2>2, <2>3, <2>4, <2>5, <2>7 DEF Typed
<1>4. HashOK /\ InHand /\ GrabOK
  BY <1>2, Apart DEF Init, GrabOK, Idle, HashOK, InHand, OwnerSteps, MigratorSteps,
       UserSteps,
     ReclaimerSteps, Taking, Midway, At, Joining
<1>5. UseOK /\ BindingOK
  BY <1>2, Apart DEF Init, UseOK, BindingOK, WriteSteps, Freeing, Taking, Frees, At,
       Joining
<1>6. MtxOK /\ LockOK
  BY <1>2, Apart DEF Init, MtxOK, MutexesOf, LockOK, Freeing, Taking, Locking,
       Migrating,
     Midway, Frees, At, Exists, Joining
<1>7. MappedOK /\ PrivateOK /\ ChunksOK
  BY <1>2, Apart DEF Init, MappedOK, PrivateOK, ChunksOK, ChunkOK, Midway, Locking,
       Taking,
     Repointed, At, Exists
<1>8. FreerOK /\ TakenOK /\ CopyOK
  BY <1>2, Apart DEF Init, FreerOK, TakenOK, TakenBy, CopyOK, Freeing, At, Joining
<1>9. UserOK
  BY <1>2, Apart DEF Init, UserOK, At
<1>10. Exact
  <2> SUFFICES ASSUME NEW f \in Folio PROVE ref[f] = Holders(f)
    BY DEF Exact
  <2>1. /\ Hands(f) = {} /\ Takers(f) = {} /\ Grabbers(f) = {} /\ Batches(f) = {}
        /\ Bios(f) = {} /\ Lookers(f) = {}
    BY <1>2, Apart DEF Idle, Lookers, Hands, Takers, Grabbers, Batches, Bios, Init
  <2>2. Several(f) = 0
    BY <2>1, SetsAreFinite, Some DEF Several
  <2>3. Single(f) = 0
    BY <1>2, Apart DEF Single, CacheRefs, ChunkRefs, OwnerRefs, One, Named, Init
  <2>4. ref[f] = 0
    BY DEF Init
  <2> QED
    BY <2>2, <2>3, <2>4, HoldersAre
<1> QED
  BY <1>3, <1>4, <1>5, <1>6, <1>7, <1>8, <1>9, <1>10 DEF IInv

LEMMA StutterOK ==
  ASSUME Kept, UNCHANGED vars PROVE Kept'
<1>1. UNCHANGED <<sg, ref, lock, private, mapped, data, abdVars, hdrVars, bio,
         miscounted, batch,
                  grab, at>>
  BY DEF vars, folioVars, heldVars, bioVars
<1>2. Typed' /\ GrabOK'
  BY <1>1 DEF Kept, Shape, Typed, abdVars, hdrVars, GrabOK
<1>3. (miscounted \/ Exact)'
  BY <1>1 DEF Kept, Exact, Holders, NamedBy, At
<1> QED
  BY <1>1, <1>2, <1>3, ShapeSame DEF Kept, Shape

LEMMA FreeWorkOK ==
  ASSUME Assumptions, IInv, NEW t \in {Owner, User}, FreeWork(t) PROVE IInv'
BY Apart, GrabWorkOK, FreePlainOK, FreeEnterOK, FreeGrabOK, FreeLockOK, FreeLockLateOK,
   FreeDropOK, FreeEndOK
DEF FreeWork

LEMMA OwnerOK ==
  ASSUME Assumptions, IInv, OwnerWork \/ OwnerChoice PROVE IInv'
<1>1. CASE OwnerWork
  BY <1>1, LeaveOK, JoinPrivateOK, JoinAddOK, JoinFailOK, JoinAddedOK, JoinEndOK,
       TouchGrabOK, TouchEndOK, RebindOK,
     MoveEndOK, FreeOnWriteOK, EvictEndOK, FreeWorkOK DEF OwnerWork
<1>2. CASE OwnerChoice
  BY <1>2, EnterOK, LoadOK, JoinOK, TouchOK, MoveOK, EvictOK DEF OwnerChoice
<1> QED
  BY <1>1, <1>2

LEMMA ReclaimerOK ==
  ASSUME Assumptions, IInv, NEW r \in Reclaimer, ReclaimWork(r) \/ ReclaimChoice(r)
  PROVE  IInv'
<1>1. CASE \/ BatchUnlock(r) \/ GrabWork(r) \/ LockFolio(r) \/ CheckCount(r)
           \/ TryMtx(r) \/ LockHeader(r)
  BY <1>1, Apart, GrabWorkOK, BatchUnlockOK, LockFolioOK, LockFolioFailsOK,
       CheckCountOK, TryMtxOK,
     TryMtxFailsOK, LockHeaderOK, LockHeaderFailsOK
<1>2. CASE (\E c \in Chunk : GrabSibling(r, c)) \/ TrySibling(r) \/ SiblingsTaken(r)
  BY <1>2, GrabSiblingOK, TrySiblingOK, TrySiblingFailsOK, SiblingsTakenOK,
     SiblingsTakenAllOK
<1>3. CASE LruEvict(r)
  <2>1. CASE /\ Unused /\ at[r].abd \in resident
             /\ \A a \in OtherOf(at[r].abd) : mtx[a] = None
    BY <1>3, <2>1, LruEvictOnlyOK, LruEvictBothOK
  <2> QED
    BY <1>3, <2>1, LruEvictFailsOK
<1>4. CASE RefuseEvict(r) \/ FreeTaken(r) \/ Undo(r) \/ PutBack(r) \/ RemoveMapping(r)
  BY <1>4, RefuseEvictOK, FreeTakenOK, UndoOK, PutBackOK, RemoveMappingOK,
     RemoveMappingFailsOK
<1>5. CASE ReclaimChoice(r)
  BY <1>5, BatchLockOK, IsolateOK DEF ReclaimChoice
<1> QED
  BY <1>1, <1>2, <1>3, <1>4, <1>5 DEF ReclaimWork

LEMMA MigratorOK ==
  ASSUME Assumptions, IInv, MigrateWork \/ MigrateChoice PROVE IInv'
<1>1. CASE MigrateWork
  BY <1>1, MigLockOK, MigLockFailsOK, MigBusyOK, MigCopyOK, MigRepointOK, MigEndOK,
     MigMappingOK, MigMappingBareOK, PutBackOK DEF MigrateWork
<1>2. CASE MigrateChoice
  BY <1>2, MigIsolateOK DEF MigrateChoice
<1> QED
  BY <1>1, <1>2

LEMMA UserStepOK ==
  ASSUME Assumptions, IInv, UserWork \/ UserChoice PROVE Kept'
<1>1. ASSUME IInv' PROVE Kept'
  BY <1>1 DEF IInv, Kept, Shape
<1>2. CASE UserWork
  BY <1>1, <1>2, ReadGrabOK, WriteGrabOK, WriteGrabDoneOK, ReadPutOK, UnpinOK,
       WriteHoldOK,
     WriteCompleteOK, WriteReleaseOK, WriteEndOK, DrainEndOK, FreeWorkOK DEF UserWork
<1>3. CASE UserChoice
  BY <1>1, <1>3, PinOK, StartWriteOK DEF UserChoice
<1> QED
  BY <1>2, <1>3

LEMMA Inductive ==
  ASSUME Assumptions PROVE Spec => []Kept
<1>1. Init => Kept
  BY InitOK DEF IInv, Kept, Shape
<1>2. ASSUME Kept, [Next]_vars PROVE Kept'
  <2>1. CASE Stopped \/ UNCHANGED vars
    BY <1>2, <2>1, StutterOK DEF Stopped
  <2>2. CASE ~miscounted /\ Work
    <3>1. IInv
      BY <1>2, <2>2 DEF IInv, Kept, Shape
    <3>2. IInv' => Kept'
      BY DEF IInv, Kept, Shape
    <3> QED
      BY <2>2, <3>1, <3>2, OwnerOK, ReclaimerOK, MigratorOK, UserStepOK DEF Work
  <2> QED
    BY <1>2, <2>1, <2>2 DEF Next
<1> QED
  BY <1>1, <1>2, PTL DEF Spec

-----------------------------------------------------------------------------
(* What follows from it. *)

\* What abd_lru_*() and arc_hdr_reclaim_abd() find in the folios, in the flags of the
\* buffers and in the header is what they mean to be there, and until a bio has miscounted no
\* folio has fewer references than none.
THEOREM AbdTypeCorrect ==
  ASSUME Assumptions PROVE Spec => []TypeOK
<1>1. Kept => TypeOK
  <2> SUFFICES ASSUME Kept PROVE TypeOK
    OBVIOUS
  <2>1. ~miscounted => \A f \in Folio : ref[f] \in Nat
    BY HoldersAre DEF Kept, Exact
  <2>2. ref \in [Folio -> IF miscounted THEN Int ELSE Nat]
    BY <2>1 DEF Kept, Shape, Typed
  <2>3. \A t \in Task : at[t].pc \in Steps
    BY DEF Kept, Shape, Typed, AtState
  <2>4. grab \in [Task -> [entry : Chunk \cup {None}, folio : Folio \cup {None},
                         held : BOOLEAN]]
    BY DEF Kept, Shape, Typed, GrabState
  <2> QED
    BY <2>2, <2>3, <2>4 DEF Kept, Shape, Typed, TypeOK
<1>2. Spec => []Kept
  BY Inductive
<1> QED
  BY <1>1, <1>2, PTL

\* Up to the first bio whose end does not drop what its start took, whoever gives up a
\* reference on a folio of an ARC buffer has it, in every place it may be given up:
\* abd_lru_join() step by step, abd_lru_free_chunks(), abd_lru_release_folio() with its
\* siblings, abd_lru_migrate_folio(), abd_sg_grab() and its retries, and the bios, before and
\* during a migration of what they refer to. That such a bio exists is shown by runs.
THEOREM ReferencesExact ==
  ASSUME Assumptions PROVE Spec => []RefsExact
<1>1. Kept => RefsExact
  BY DEF Kept, RefsExact, Exact
<1>2. Spec => []Kept
  BY Inductive
<1> QED
  BY <1>1, <1>2, PTL

\* Up to the first bio that miscounts, the entries of a buffer name live folios with their
\* contents, whoever reclaims, moves and frees folios meanwhile; what abd_sg_grab() returns is
\* the folio of the chunk asked for, although the entry may be repointed and the folio given
\* to another chunk between its two looks; and a bio refers to memory that holds its chunk
\* until it ends, be it the original of a copy.
\* (abd_lru_migrate_folio(), abd_lru_release_folio())
THEOREM ChunksSurvive ==
  ASSUME Assumptions PROVE Spec => []ChunksKept
<1>1. Kept => ChunksKept
  <2> SUFFICES ASSUME Kept, ~miscounted PROVE ChunksIntact /\ ReadsItsChunk
    BY DEF ChunksKept
  <2>0. IInv
    BY DEF Kept, Shape, IInv
  <2>1. ASSUME NEW c \in Chunk, AbdOf[c] \in Exists
        PROVE  \/ sg[c] # None /\ data[sg[c]] = c /\ private[sg[c]] # None
               \/ \E t \in {Owner, User} : mtx[AbdOf[c]] = t /\ c \notin at[t].todo
               \/ at[Migrator].pc = "repoint" /\ sg[c] = at[Migrator].folio
    <3>1. CASE sg[c] = None
      <4>1. PICK t \in {Owner, User} : at[t].pc \in Freeing /\ at[t].abd = AbdOf[c]
        BY <2>0, <2>1, <3>1 DEF IInv, ChunksOK, ChunkOK
      <4>2. mtx[AbdOf[c]] = t
        BY <2>0, <4>1, Apart DEF IInv, MtxOK
      <4>3. c \notin at[t].todo
        BY <2>0, <3>1, <4>1 DEF IInv, FreerOK
      <4> QED
        BY <2>0, <4>2, <4>3
    <3>2. CASE sg[c] # None
      BY <2>0, <2>1, <3>2, Apart DEF IInv, ChunksOK, ChunkOK, At
    <3> QED
      BY <2>0, <3>1, <3>2
  <2>2. \A f \in Folio : ref[f] = 0 => f \notin mapped /\ lock[f] = None
    BY <2>0, Unreferenced
  <2>3. \A c \in Chunk : bio[c] # None => data[bio[c]] = c
    BY <2>0 DEF IInv, UserOK
  <2> QED
    BY <2>0, <2>1, <2>2, <2>3 DEF ChunksIntact, ReadsItsChunk, IInv, UserOK
<1>2. Spec => []Kept
  BY Inductive
<1> QED
  BY <1>1, <1>2, PTL

\* arc_hdr_reclaim_abd() locks, by the binding of a buffer, a header that exists, and
\* then the one the buffer belongs to: arc_hdr_move() beside it rebinds in time.
THEOREM BindingsAlive ==
  ASSUME Assumptions PROVE Spec => []BindingAlive
<1>1. Kept => BindingAlive
  <2> SUFFICES ASSUME Kept PROVE BindingAlive
    OBVIOUS
  <2>1. refcnt > 0 => resident = Abd
    BY DEF Kept, Shape, Typed, UseOK
  <2>2. ASSUME NEW r \in Reclaimer, At(r, "header"), arg[at[r].abd] # None
        PROVE  arg[at[r].abd] \notin gone
    <3>1. at[r].abd \in Abd
      BY <2>2 DEF Kept, Shape, MtxOK, MutexesOf, At
    <3> QED
      BY <2>2, <3>1 DEF Kept, Shape, BindingOK
  <2>3. ASSUME NEW r \in Reclaimer, hash = r
        PROVE  arg[at[r].abd] = hdr /\ at[r].abd \in resident
    <3>1. at[r].pc \in Taking
      BY <2>3 DEF Kept, Shape, HashOK
    <3> QED
      BY <3>1 DEF Kept, Shape, BindingOK, MtxOK, MutexesOf
  <2> QED
    BY <2>1, <2>2, <2>3 DEF BindingAlive
<1>2. Spec => []Kept
  BY Inductive
<1> QED
  BY <1>1, <1>2, PTL

\* Every way out of abd_lru_release_folio(), abd_lru_migrate_folio() and
\* abd_lru_free_chunks() lets go of the folios and mutexes it took and of the hash lock,
\* and nobody has, or waits for, the mutex of a buffer that is freed.
THEOREM NothingLeftBehind ==
  ASSUME Assumptions PROVE Spec => []NothingLeft
<1>1. Kept => NothingLeft
  <2> SUFFICES ASSUME Kept PROVE NothingLeft
    OBVIOUS
  <2>1. ASSUME NEW f \in Folio, lock[f] # None
        PROVE  ~At(lock[f], "idle") \/ (lock[f] \in Reclaimer /\ batch[lock[f]] = f)
    <3>1. lock[f] \in Reclaimer \cup {Owner, Migrator, User}
      BY <2>1 DEF Kept, Shape, Typed, Task
    <3>2. ASSUME NEW r \in Reclaimer, lock[f] = r
          PROVE  ~At(r, "idle") \/ batch[r] = f
      BY <3>2 DEF Kept, Shape, LockOK, InHand, Locking, Taking, At
    <3>3. ASSUME lock[f] = Owner \/ lock[f] = User PROVE ~At(lock[f], "idle")
      BY <3>3 DEF Kept, Shape, LockOK, At
    <3>4. ASSUME lock[f] = Migrator PROVE ~At(Migrator, "idle")
      <4>1. at[Migrator].pc \in Migrating \/ at[Migrator].spare = f
        BY <3>4 DEF Kept, Shape, LockOK
      <4>2. f # None
        BY Apart
      <4> QED
        BY <4>1, <4>2 DEF Kept, Shape, InHand, Migrating, Midway, At
    <3> QED
      BY <3>1, <3>2, <3>3, <3>4
  <2>2. ASSUME NEW a \in Abd, mtx[a] # None PROVE ~At(mtx[a], "idle") /\ a \in Exists
    <3>1. mtx[a] \in Reclaimer \cup {Owner, User}
      BY <2>2, Apart DEF Kept, Shape, Typed, MtxOK, Task
    <3>2. CASE mtx[a] \in Reclaimer
      BY <2>2, <3>2 DEF Kept, Shape, MtxOK, MutexesOf, Taking, At
    <3>3. CASE mtx[a] \in {Owner, User}
      BY <2>2, <3>3 DEF Kept, Shape, MtxOK, Freeing, Joining, At
    <3> QED
      BY <3>1, <3>2, <3>3
  <2>3. hash # None => ~At(hash, "idle")
    BY Apart DEF Kept, Shape, Typed, HashOK, Task, Taking, At
  <2>4. \A a \in prelocked : mtx[a] \in Reclaimer /\ hash = mtx[a]
    BY DEF Kept, Shape, MtxOK
  <2>5. ASSUME NEW r \in Reclaimer, At(r, "trymtx") PROVE at[r].abd \in Exists
    <3>1. at[r].folio \in Folio /\ private[at[r].folio] = at[r].abd /\ at[r].abd \in Abd
      BY <2>5, Apart DEF Kept, Shape, Typed, AtState, InHand, PrivateOK, MtxOK,
           MutexesOf, At
    <3> QED
      BY <3>1 DEF Kept, Shape, PrivateOK, MtxOK
  <2> QED
    BY <2>1, <2>2, <2>3, <2>4, <2>5 DEF NothingLeft
<1>2. Spec => []Kept
  BY Inductive
<1> QED
  BY <1>1, <1>2, PTL
=============================================================================

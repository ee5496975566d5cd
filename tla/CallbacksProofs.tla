--------------------------- MODULE CallbacksProofs ---------------------------
(***************************************************************************)
(* Proofs about the two callbacks that move objects of ZFS, HdrMove and    *)
(* DnodeMove, for any number of threads, headers, places and dbufs; and    *)
(* that both keep to what the allocator promises the users of a cache.     *)
(***************************************************************************)
EXTENDS MCCallbacks, SequenceTheorems, FiniteSetTheorems, TLAPS

-----------------------------------------------------------------------------
(* Lists: what is linked, taken out, replaced, or changes places. *)

\* Nothing is linked twice.
Distinct(seq) == \A i, j \in DOMAIN seq : seq[i] = seq[j] => i = j

\* What is linked first.
LEMMA Linked ==
  ASSUME NEW S, NEW c \in S, NEW seq \in Seq(S), Distinct(seq), c \notin ToSet(seq)
  PROVE  /\ <<c>> \o seq \in Seq(S) /\ Distinct(<<c>> \o seq)
         /\ ToSet(<<c>> \o seq) = ToSet(seq) \cup {c}
<1> DEFINE longer == <<c>> \o seq
<1>1. <<c>> \in Seq(S) /\ Len(<<c>>) = 1 /\ <<c>>[1] = c
  OBVIOUS
<1>2. /\ longer \in Seq(S) /\ Len(longer) = 1 + Len(seq)
      /\ \A i \in 1 .. 1 + Len(seq) :
           longer[i] = IF i <= 1 THEN <<c>>[i] ELSE seq[i - 1]
  BY <1>1, ConcatProperties
<1>3. /\ Len(seq) \in Nat /\ DOMAIN seq = 1 .. Len(seq)
      /\ DOMAIN longer = 1 .. 1 + Len(seq)
  BY <1>2, LenProperties
<1> HIDE DEF longer
<1>4. /\ longer[1] = c
      /\ \A i \in DOMAIN seq : longer[i + 1] = seq[i] /\ i + 1 \in DOMAIN longer
  BY <1>1, <1>2, <1>3
<1>5. \A i \in DOMAIN longer : i = 1 \/ (i - 1 \in DOMAIN seq /\ longer[i] = seq[i - 1])
  BY <1>1, <1>2, <1>3
<1>6. Distinct(longer)
  <2>1. \A i \in DOMAIN seq : seq[i] # c
    BY DEF ToSet
  <2> QED
    BY <1>3, <1>4, <1>5, <2>1 DEF Distinct
<1>7. ToSet(longer) = ToSet(seq) \cup {c}
  <2>1. 1 \in DOMAIN longer /\ \A i \in DOMAIN seq : i + 1 \in DOMAIN longer
    BY <1>3, <1>4
  <2>2. \A i \in DOMAIN longer : longer[i] = c \/ \E j \in DOMAIN seq : longer[i] = seq[j]
    BY <1>4, <1>5
  <2> QED
    BY <1>4, <2>1, <2>2 DEF ToSet
<1> QED
  BY <1>2, <1>6, <1>7 DEF longer

\* What is taken out.
LEMMA Unlinked ==
  ASSUME NEW S, NEW seq \in Seq(S), Distinct(seq), NEW here \in DOMAIN seq
  PROVE  /\ RemoveAt(seq, here) \in Seq(S) /\ Distinct(RemoveAt(seq, here))
         /\ ToSet(RemoveAt(seq, here)) = ToSet(seq) \ {seq[here]}
<1> DEFINE before == SubSeq(seq, 1, here - 1)
           after == SubSeq(seq, here + 1, Len(seq))
           shorter == before \o after
<1>1. /\ Len(seq) \in Nat /\ DOMAIN seq = 1 .. Len(seq) /\ here \in 1 .. Len(seq)
      /\ \A i \in DOMAIN seq : seq[i] \in S
  BY LenProperties, ElementOfSeq
<1>2. /\ before \in Seq(S) /\ Len(before) = here - 1
      /\ \A i \in 1 .. here - 1 : before[i] = seq[i]
  <2>1. 1 \in Int /\ here - 1 \in Int /\ \A i \in 1 .. here - 1 : seq[i] \in S
    BY <1>1
  <2>2. /\ before \in Seq(S)
        /\ Len(before) = IF 1 <= here - 1 THEN (here - 1) - 1 + 1 ELSE 0
        /\ \A i \in 1 .. (here - 1) - 1 + 1 : before[i] = seq[1 + i - 1]
    BY <2>1, SubSeqProperties
  <2> HIDE DEF before
  <2> QED
    BY <1>1, <2>2
<1>3. /\ after \in Seq(S) /\ Len(after) = Len(seq) - here
      /\ \A i \in 1 .. Len(seq) - here : after[i] = seq[here + i]
  <2>1. /\ here + 1 \in Int /\ Len(seq) \in Int
        /\ \A i \in here + 1 .. Len(seq) : seq[i] \in S
    BY <1>1
  <2>2. /\ after \in Seq(S)
        /\ Len(after) = IF here + 1 <= Len(seq) THEN Len(seq) - (here + 1) + 1 ELSE 0
        /\ \A i \in 1 .. Len(seq) - (here + 1) + 1 : after[i] = seq[(here + 1) + i - 1]
    BY <2>1, SubSeqProperties
  <2> HIDE DEF after
  <2>3. Len(after) = Len(seq) - here /\ Len(seq) - (here + 1) + 1 = Len(seq) - here
    BY <1>1, <2>2
  <2>4. ASSUME NEW i \in 1 .. Len(seq) - here
        PROVE  after[i] = seq[here + i]
    <3>1. (here + 1) + i - 1 = here + i
      BY <1>1
    <3> QED
      BY <2>2, <2>3, <3>1
  <2> QED
    BY <2>2, <2>3, <2>4
<1> HIDE DEF before, after
<1>4. /\ shorter \in Seq(S) /\ Len(shorter) = Len(seq) - 1
      /\ \A i \in 1 .. Len(seq) - 1 :
           shorter[i] = IF i < here THEN seq[i] ELSE seq[i + 1]
  <2>1. /\ shorter \in Seq(S) /\ Len(shorter) = Len(before) + Len(after)
        /\ \A i \in 1 .. Len(before) + Len(after) :
             shorter[i] = IF i <= Len(before) THEN before[i] ELSE after[i - Len(before)]
    BY <1>2, <1>3, ConcatProperties
  <2> HIDE DEF shorter
  <2>2. ASSUME NEW i \in 1 .. Len(seq) - 1
        PROVE  shorter[i] = IF i < here THEN seq[i] ELSE seq[i + 1]
    <3>1. CASE i < here
      BY <1>1, <1>2, <1>3, <2>1, <3>1
    <3>2. CASE ~(i < here)
      <4>1. i - (here - 1) \in 1 .. Len(seq) - here /\ here + (i - (here - 1)) = i + 1
        BY <1>1, <3>2
      <4>2. shorter[i] = after[i - (here - 1)]
        BY <1>1, <1>2, <1>3, <2>1, <3>2
      <4> QED
        BY <1>3, <3>2, <4>1, <4>2
    <3> QED
      BY <3>1, <3>2
  <2> QED
    BY <1>1, <1>2, <1>3, <2>1, <2>2
<1>5. DOMAIN shorter = 1 .. Len(seq) - 1
  BY <1>4, LenProperties
<1> HIDE DEF shorter
<1>6. Distinct(shorter)
  BY <1>1, <1>4, <1>5 DEF Distinct
<1>7. ToSet(shorter) = ToSet(seq) \ {seq[here]}
  <2>1. ASSUME NEW i \in DOMAIN shorter
        PROVE  \E j \in DOMAIN seq : j # here /\ shorter[i] = seq[j]
    <3>1. CASE i < here
      BY <1>1, <1>4, <1>5, <3>1
    <3>2. CASE ~(i < here)
      BY <1>1, <1>4, <1>5, <3>2
    <3> QED
      BY <3>1, <3>2
  <2>2. ASSUME NEW j \in DOMAIN seq, j # here
        PROVE  \E i \in DOMAIN shorter : shorter[i] = seq[j]
    <3>1. CASE j < here
      BY <1>1, <1>4, <1>5, <3>1
    <3>2. CASE j > here
      <4>1. j - 1 \in DOMAIN shorter /\ ~(j - 1 < here) /\ (j - 1) + 1 = j
        BY <1>1, <1>5, <3>2
      <4> QED
        BY <1>4, <1>5, <4>1
    <3> QED
      BY <1>1, <2>2, <3>1, <3>2
  <2>3. \A j \in DOMAIN seq : j # here => seq[j] # seq[here]
    BY DEF Distinct
  <2> QED
    BY <2>1, <2>2, <2>3 DEF ToSet
<1>8. RemoveAt(seq, here) = shorter
  BY DEF RemoveAt, shorter, before, after
<1> QED
  BY <1>4, <1>6, <1>7, <1>8

\* What is linked last.
LEMMA Appended ==
  ASSUME NEW S, NEW c \in S, NEW seq \in Seq(S), Distinct(seq), c \notin ToSet(seq)
  PROVE  /\ Append(seq, c) \in Seq(S) /\ Distinct(Append(seq, c))
         /\ ToSet(Append(seq, c)) = ToSet(seq) \cup {c}
<1> DEFINE longer == Append(seq, c)
<1>1. /\ Len(seq) \in Nat /\ DOMAIN seq = 1 .. Len(seq)
      /\ longer \in Seq(S) /\ Len(longer) = Len(seq) + 1
      /\ \A i \in 1 .. Len(seq) : longer[i] = seq[i]
      /\ longer[Len(seq) + 1] = c
  BY AppendProperties, LenProperties
<1>2. DOMAIN longer = 1 .. Len(seq) + 1
  BY <1>1, LenProperties
<1> HIDE DEF longer
<1>3. \A i \in DOMAIN longer : i \in DOMAIN seq \/ i = Len(seq) + 1
  BY <1>1, <1>2
<1>4. DOMAIN seq \subseteq DOMAIN longer /\ Len(seq) + 1 \in DOMAIN longer
  BY <1>1, <1>2
<1>5. Distinct(longer)
  <2>1. \A i \in DOMAIN seq : seq[i] # c
    BY DEF ToSet
  <2> QED
    BY <1>1, <1>3, <2>1 DEF Distinct
<1>6. ToSet(longer) = ToSet(seq) \cup {c}
  BY <1>1, <1>3, <1>4 DEF ToSet
<1> QED
  BY <1>1, <1>5, <1>6 DEF longer

\* What takes the place of another.
LEMMA Replaced ==
  ASSUME NEW S, NEW old \in S, NEW new \in S, NEW seq \in Seq(S), Distinct(seq),
         old \in ToSet(seq), new \notin ToSet(seq),
         NEW other, other = [n \in DOMAIN seq |-> IF seq[n] = old THEN new ELSE seq[n]]
  PROVE  /\ other \in Seq(S) /\ Distinct(other) /\ DOMAIN other = DOMAIN seq
         /\ ToSet(other) = (ToSet(seq) \ {old}) \cup {new}
<1>1. Len(seq) \in Nat /\ DOMAIN seq = 1 .. Len(seq) /\ \A n \in DOMAIN seq : seq[n] \in S
  BY LenProperties, ElementOfSeq
<1>2. other \in [1 .. Len(seq) -> S]
  BY <1>1
<1>3. other \in Seq(S) /\ DOMAIN other = DOMAIN seq
  BY <1>1, <1>2, SeqDef
<1>4. Distinct(other)
  BY DEF Distinct, ToSet
<1>5. ToSet(other) = (ToSet(seq) \ {old}) \cup {new}
  BY DEF ToSet
<1> QED
  BY <1>3, <1>4, <1>5

\* Two neighbours change places.
LEMMA Swapped ==
  ASSUME NEW S, NEW seq \in Seq(S), Distinct(seq), NEW n \in DOMAIN seq, n > 1,
         NEW other, other = [seq EXCEPT ![n] = seq[n - 1], ![n - 1] = seq[n]]
  PROVE  other \in Seq(S) /\ Distinct(other) /\ ToSet(other) = ToSet(seq)
<1>1. Len(seq) \in Nat /\ DOMAIN seq = 1 .. Len(seq) /\ \A m \in DOMAIN seq : seq[m] \in S
  BY LenProperties, ElementOfSeq
<1>2. n - 1 \in DOMAIN seq /\ n - 1 # n
  BY <1>1
<1>3. /\ DOMAIN other = DOMAIN seq /\ other[n] = seq[n - 1] /\ other[n - 1] = seq[n]
      /\ \A m \in DOMAIN seq : m # n /\ m # n - 1 => other[m] = seq[m]
  BY <1>1, <1>2
<1>4. other \in [1 .. Len(seq) -> S]
  BY <1>1, <1>2
<1>5. other \in Seq(S)
  BY <1>1, <1>4, SeqDef
<1>6. Distinct(other)
  BY <1>2, <1>3 DEF Distinct
<1>7. ToSet(other) = ToSet(seq)
  BY <1>2, <1>3 DEF ToSet
<1> QED
  BY <1>5, <1>6, <1>7

-----------------------------------------------------------------------------
States == {"idle", "new", "insert", "beaten", "held"}
Stages == {"idle", "look", "lock", "recheck", "list", "copy", "discard", "answer"}
Answers == {"yes", "later", "dont_know", None}
ThState == [pc : States, slot : Slot \cup {None}, id : Id \cup {None}]
MvState == [pc : Stages, old : Slot \cup {None}, new : Slot \cup {None},
            lock : Lock \cup {None}, rc : Answers]

ShapeOK ==
  /\ owned \subseteq Slot /\ ident \in [Slot -> Id \cup {None}] /\ refs \in [Slot -> Nat]
  /\ table \in [Id -> Slot \cup {None}] /\ list \in Seq(Slot)
  /\ hash \in [Lock -> {Mover, Evictor, None}] /\ sublist \in {Mover, Evictor, None}
  /\ th \in [Thread -> ThState] /\ mv \in MvState /\ ev \in Slot \cup {None}

\* Who has a header of its own, who holds one that is in the table, and what the
\* callback has: memory for the copy, and memory the header has left.
Apart(t) == th[t].pc \in {"new", "insert", "beaten"}
Holds(t, s) == th[t].pc = "held" /\ th[t].slot = s
HoldersOf(s) == { t \in Thread : Holds(t, s) }
Unused(s) ==
  s = mv.new /\ (\/ mv.pc \in {"look", "lock", "recheck", "list", "copy"}
                 \/ mv.pc = "answer" /\ mv.rc # "yes")
Vacated(s) == s = mv.old /\ (mv.pc = "discard" \/ (mv.pc = "answer" /\ mv.rc = "yes"))
HasLock == mv.pc \in {"recheck", "list", "copy", "discard"}
Settled == mv.pc \in {"list", "copy"}

\* What is found is what was looked for.
TableOK == \A i \in Id : table[i] # None => table[i] \in owned /\ ident[table[i]] = i

\* What has an identity can be found, or is on its way in or out.
IdentOK ==
  /\ \A s \in Slot : ident[s] # None =>
       \/ s \in Hashed
       \/ \E t \in Thread : th[t].slot = s /\ th[t].pc \in {"insert", "beaten"}
       \/ mv.pc = "discard" /\ mv.old = s
  /\ \A s \in Slot \ owned : ident[s] = None
  /\ Mark \in owned /\ ident[Mark] = None

\* A thread's own header is nobody else's.
ThreadsOK ==
  /\ \A t \in Thread : Apart(t) =>
       /\ th[t].slot \in owned /\ th[t].slot \notin Hashed /\ th[t].slot # Mark
       /\ ~Unused(th[t].slot) /\ ~Vacated(th[t].slot)
       /\ th[t].id \in Id
       /\ ident[th[t].slot] = IF th[t].pc = "new" THEN None ELSE th[t].id
       /\ \A u \in Thread : u # t /\ Apart(u) => th[u].slot # th[t].slot
  /\ \A t \in Thread : th[t].pc = "held" =>
       th[t].id \in Id /\ th[t].slot # None /\ table[th[t].id] = th[t].slot

RefsOK ==
  \A s \in Hashed : IsFiniteSet(HoldersOf(s)) /\ refs[s] = Cardinality(HoldersOf(s))

ListOK == Distinct(list) /\ ToSet(list) = {Mark} \cup { s \in Hashed : refs[s] = 0 }

\* The callback has its own memory, a lock once it has tried one, and below the list
\* lock a header nobody holds.
MoveOK ==
  /\ mv.pc # "idle" => mv.old \in Slot /\ mv.new \in Slot /\ mv.old # mv.new
  /\ \A s \in Slot : Unused(s) =>
       s \in owned /\ s \notin Hashed /\ s # Mark /\ ident[s] = None
  /\ \A s \in Slot : Vacated(s) => s \in owned /\ s \notin Hashed /\ s # Mark
  /\ mv.pc = "answer" /\ mv.rc = "yes" => ident[mv.old] = None
  /\ mv.pc = "lock" => mv.lock \in Lock
  /\ HasLock => mv.lock \in Lock /\ hash[mv.lock] = Mover
  /\ Settled => mv.old \in Hashed /\ refs[mv.old] = 0 /\ LockOf[ident[mv.old]] = mv.lock
  /\ mv.pc = "copy" <=> sublist = Mover

\* The evictor has the lock of the header it looks at, and that of the list.
EvictOK ==
  ev # None => /\ ev \in Hashed /\ refs[ev] = 0
               /\ hash[LockOf[ident[ev]]] = Evictor /\ sublist = Evictor

ChargeOK ==
  IsFiniteSet(owned) /\ charged = Cardinality(owned) - (IF mv.pc = "idle" THEN 0 ELSE 1)

IInv ==
  /\ ShapeOK /\ TableOK /\ IdentOK /\ ThreadsOK /\ RefsOK /\ ListOK /\ MoveOK
  /\ EvictOK /\ ChargeOK

-----------------------------------------------------------------------------
\* A header in the table has the identity it is found by, and is found by no other.
LEMMA InTable ==
  ASSUME ShapeOK, TableOK, NEW s
  PROVE  s \in Hashed <=> s \in Slot /\ ident[s] \in Id /\ table[ident[s]] = s
BY NoneAssumption DEF ShapeOK, TableOK, Hashed

LEMMA Constants ==
  /\ None \notin Slot /\ None \notin Id /\ None \notin Lock
  /\ Mark \in Slot /\ Mover # Evictor /\ None # Mover /\ None # Evictor
  /\ \A i \in Id : LockOf[i] \in Lock
BY NoneAssumption, MarkAssumption, ActorAssumption, LockOfAssumption

\* A thread goes on, with what it has or with a header it has found.
Becomes(t, pc, s, i) ==
  /\ th' \in [Thread -> ThState]
  /\ th'[t].pc = pc /\ th'[t].slot = s /\ th'[t].id = i
  /\ \A u \in Thread : u # t => th'[u] = th[u]

LEMMA GoBecomes ==
  ASSUME ShapeOK, NEW t \in Thread, NEW pc \in States, th' = [th EXCEPT ![t].pc = pc]
  PROVE  Becomes(t, pc, th[t].slot, th[t].id)
BY DEF ShapeOK, Becomes, ThState

LEMMA NewBecomes ==
  ASSUME ShapeOK, NEW t \in Thread, NEW pc \in States, NEW s \in Slot \cup {None},
         NEW i \in Id \cup {None}, th' = [th EXCEPT ![t] = [pc |-> pc, slot |-> s, id |-> i]]
  PROVE  Becomes(t, pc, s, i)
BY DEF ShapeOK, Becomes, ThState

LEMMA ThFields ==
  ASSUME ShapeOK, NEW t \in Thread
  PROVE  th[t].pc \in States /\ th[t].slot \in Slot \cup {None} /\ th[t].id \in Id \cup {None}
BY DEF ShapeOK, ThState

\* The callback goes on with what it has.
MvBecomes(pc, lock, rc) ==
  /\ mv' \in MvState
  /\ mv'.pc = pc /\ mv'.lock = lock /\ mv'.rc = rc
  /\ mv'.old = mv.old /\ mv'.new = mv.new

LEMMA MvFields ==
  ASSUME ShapeOK
  PROVE  /\ mv.pc \in Stages /\ mv.lock \in Lock \cup {None} /\ mv.rc \in Answers
         /\ mv.old \in Slot \cup {None} /\ mv.new \in Slot \cup {None}
BY DEF ShapeOK, MvState

LEMMA MvOnto ==
  ASSUME ShapeOK, NEW pc \in Stages, mv' = [mv EXCEPT !.pc = pc]
  PROVE  MvBecomes(pc, mv.lock, mv.rc)
BY DEF ShapeOK, MvState, MvBecomes

LEMMA MvLock ==
  ASSUME ShapeOK, NEW pc \in Stages, NEW lock \in Lock,
         mv' = [mv EXCEPT !.pc = pc, !.lock = lock]
  PROVE  MvBecomes(pc, lock, mv.rc)
BY DEF ShapeOK, MvState, MvBecomes

LEMMA MvAnswer ==
  ASSUME ShapeOK, NEW rc \in Answers, Answer(rc)
  PROVE  MvBecomes("answer", None, rc)
BY DEF ShapeOK, MvState, MvBecomes, Answer, Stages

\* Where something listed is, and what is left when it is taken out.
LEMMA TakenOut ==
  ASSUME ShapeOK, ListOK, NEW s \in ToSet(list)
  PROVE  /\ PlaceOf(s) \in DOMAIN list /\ list[PlaceOf(s)] = s
         /\ Without(s) \in Seq(Slot) /\ Distinct(Without(s))
         /\ ToSet(Without(s)) = ToSet(list) \ {s}
<1>1. PlaceOf(s) \in DOMAIN list /\ list[PlaceOf(s)] = s
  BY DEF PlaceOf, ToSet
<1> QED
  BY <1>1, Unlinked DEF Without, ShapeOK, ListOK

LEMMA InitOK == ASSUME Init PROVE IInv
<1> USE Constants
<1>1. /\ th \in [Thread -> ThState] /\ \A t \in Thread : th[t].pc = "idle"
      /\ mv \in MvState /\ mv.pc = "idle"
  BY DEF Init, Idle, Free, ThState, MvState, States, Stages, Answers
<1>2. list \in Seq(Slot) /\ DOMAIN list = {1} /\ list[1] = Mark
  BY DEF Init
<1>3. Hashed = {}
  BY DEF Init, Hashed
<1>4. ShapeOK
  BY <1>1, <1>2 DEF Init, ShapeOK
<1>5. TableOK /\ IdentOK /\ RefsOK /\ EvictOK
  BY <1>1, <1>3 DEF Init, TableOK, IdentOK, RefsOK, EvictOK
<1>6. ThreadsOK
  BY <1>1 DEF ThreadsOK, Apart
<1>7. ListOK
  BY <1>2, <1>3 DEF ListOK, Distinct, ToSet
<1>8. MoveOK
  BY <1>1 DEF Init, MoveOK, Unused, Vacated, HasLock, Settled
<1>9. ChargeOK
  BY <1>1, FS_Singleton DEF Init, ChargeOK
<1> QED
  BY <1>4, <1>5, <1>6, <1>7, <1>8, <1>9 DEF IInv

-----------------------------------------------------------------------------
(* Steps that change no header, no thread and no place in the table. *)

LEMMA QuietStep ==
  ASSUME IInv, UNCHANGED <<owned, ident, refs, table, list, charged, th>>,
         ShapeOK', MoveOK', EvictOK',
         (mv.pc = "idle") <=> (mv'.pc = "idle"),
         mv.pc = "discard" => mv'.pc = "discard" /\ mv'.old = mv.old,
         \A s \in Slot : (Unused(s)' => Unused(s)) /\ (Vacated(s)' => Vacated(s))
  PROVE  IInv'
<1>1. Hashed' = Hashed
  BY DEF Hashed
<1>2. \A s : HoldersOf(s)' = HoldersOf(s)
  BY DEF HoldersOf, Holds
<1>3. TableOK' /\ RefsOK' /\ ListOK' /\ ChargeOK'
  BY <1>1, <1>2 DEF IInv, TableOK, RefsOK, ListOK, Distinct, ChargeOK
<1>4. IdentOK'
  BY <1>1 DEF IInv, IdentOK
<1>5. ThreadsOK'
  <2>1. \A t \in Thread : Apart(t)' = Apart(t) /\ (Apart(t) => th[t].slot \in Slot)
    BY DEF Apart, IInv, ThreadsOK, ShapeOK
  <2> QED
    BY <1>1, <2>1 DEF IInv, ThreadsOK
<1> QED
  BY <1>3, <1>4, <1>5 DEF IInv

\* The callback goes on, or answers, with its memory unused.
LEMMA MoverStep ==
  ASSUME IInv, NEW pc \in {"lock", "recheck", "list", "copy", "answer"},
         NEW lock \in Lock \cup {None}, NEW rc \in Answers,
         MvBecomes(pc, lock, rc),
         mv.pc \in {"look", "lock", "recheck", "list"}, pc = "answer" => rc # "yes",
         UNCHANGED <<owned, ident, refs, table, list, charged, th, ev>>,
         hash' \in [Lock -> {Mover, Evictor, None}],
         \A l \in Lock : hash[l] = Evictor => hash'[l] = Evictor,
         pc = "copy" => sublist' = Mover /\ sublist = None,
         pc # "copy" => sublist' = sublist,
         pc = "lock" => lock \in Lock,
         pc \in {"recheck", "list", "copy"} => lock \in Lock /\ hash'[lock] = Mover,
         pc \in {"list", "copy"} =>
           mv.old \in Hashed /\ refs[mv.old] = 0 /\ LockOf[ident[mv.old]] = lock
  PROVE  IInv'
<1> USE Constants
<1>1. Hashed' = Hashed
  BY DEF Hashed
<1>2. \A s : Unused(s)' = Unused(s) /\ ~Vacated(s)' /\ ~Vacated(s)
  BY DEF Unused, Vacated, MvBecomes
<1>3. ShapeOK'
  BY DEF IInv, ShapeOK, MvBecomes
<1>4. sublist # Mover
  BY DEF IInv, MoveOK
<1>5. MoveOK'
  BY <1>1, <1>2, <1>4 DEF IInv, MoveOK, HasLock, Settled, MvBecomes
<1>6. EvictOK'
  <2>1. ev # None => pc # "copy" /\ LockOf[ident[ev]] \in Lock
    BY InTable DEF IInv, EvictOK
  <2> QED
    BY <1>1, <2>1 DEF IInv, EvictOK
<1> QED
  BY <1>2, <1>3, <1>5, <1>6, QuietStep DEF MvBecomes

LEMMA NotLiveOK == ASSUME IInv, NotLive PROVE IInv'
<1>1. /\ mv.pc = "look"
      /\ UNCHANGED <<owned, ident, refs, table, list, charged, th, ev, hash, sublist>>
  BY DEF NotLive
<1>2. MvBecomes("answer", None, "dont_know")
  BY MvAnswer DEF NotLive, IInv, Answers
<1> QED
  BY <1>1, <1>2, MoverStep DEF IInv, ShapeOK, Answers

LEMMA ReadLockOK == ASSUME IInv, ReadLock PROVE IInv'
<1> DEFINE lock == LockOf[ident[mv.old]]
<1>1. /\ mv.pc = "look"
      /\ UNCHANGED <<owned, ident, refs, table, list, charged, th, ev, hash, sublist>>
  BY DEF ReadLock
<1>2. mv.old \in Slot
  BY <1>1 DEF IInv, MoveOK
<1>3. lock \in Lock
  BY <1>2, Constants DEF ReadLock, IInv, ShapeOK
<1>4. MvBecomes("lock", lock, mv.rc)
  BY <1>3, MvLock DEF ReadLock, IInv, Stages
<1> HIDE DEF lock
<1> QED
  BY <1>1, <1>3, <1>4, MvFields, MoverStep DEF IInv, ShapeOK

LEMMA TryHashOK == ASSUME IInv, TryHash PROVE IInv'
<1>1. mv.pc = "lock" /\ UNCHANGED <<owned, ident, refs, table, list, charged, th, ev, sublist>>
      /\ mv.lock \in Lock
  BY DEF TryHash, IInv, MoveOK
<1>2. CASE hash[mv.lock] = None
  <2>1. hash' = [hash EXCEPT ![mv.lock] = Mover] /\ MvBecomes("recheck", mv.lock, mv.rc)
    BY <1>2, MvOnto DEF TryHash, IInv, Stages
  <2>2. /\ hash' \in [Lock -> {Mover, Evictor, None}] /\ hash'[mv.lock] = Mover
        /\ \A l \in Lock : hash[l] = Evictor => hash'[l] = Evictor
    BY <1>1, <1>2, <2>1, Constants DEF IInv, ShapeOK
  <2> QED
    BY <1>1, <2>1, <2>2, MvFields, MoverStep DEF IInv
<1>3. CASE hash[mv.lock] # None
  <2>1. UNCHANGED hash /\ MvBecomes("answer", None, "later")
    BY <1>3, MvAnswer DEF TryHash, IInv, Answers
  <2> QED
    BY <1>1, <2>1, MoverStep DEF IInv, ShapeOK, Answers
<1> QED
  BY <1>2, <1>3

\* Giving the hash lock back is no matter to the evictor, who has another.
LEMMA MoverUnlocks ==
  ASSUME IInv, HasLock, hash' = [hash EXCEPT ![mv.lock] = None]
  PROVE  /\ hash' \in [Lock -> {Mover, Evictor, None}]
         /\ \A l \in Lock : hash[l] = Evictor => hash'[l] = Evictor
BY Constants DEF IInv, ShapeOK, MoveOK

LEMMA RecheckOK == ASSUME IInv, Recheck PROVE IInv'
<1> DEFINE same == SameLock /\ mv.old \in Hashed
           busy == refs[mv.old] # 0
<1>1. /\ mv.pc = "recheck"
      /\ UNCHANGED <<owned, ident, refs, table, list, charged, th, ev, sublist>>
      /\ mv.lock \in Lock /\ hash[mv.lock] = Mover /\ HasLock
  BY DEF Recheck, Rechecked, IInv, MoveOK, HasLock
<1>2. CASE same /\ ~busy
  <2>1. UNCHANGED hash /\ MvBecomes("list", mv.lock, mv.rc)
    BY <1>2, MvOnto DEF Recheck, Rechecked, IInv, Stages
  <2>2. mv.old \in Hashed /\ refs[mv.old] = 0 /\ LockOf[ident[mv.old]] = mv.lock
    BY <1>2 DEF SameLock
  <2> QED
    BY <1>1, <2>1, <2>2, MvFields, MoverStep DEF IInv, ShapeOK
<1>3. CASE ~(same /\ ~busy)
  <2>1. hash' = [hash EXCEPT ![mv.lock] = None]
    BY <1>3 DEF Recheck, Rechecked
  <2>2. \E rc \in {"later", "dont_know"} : MvBecomes("answer", None, rc)
    BY <1>3, MvAnswer DEF Recheck, Rechecked, IInv, Answers
  <2> QED
    BY <1>1, <2>1, <2>2, MoverUnlocks, MoverStep DEF Answers
<1> QED
  BY <1>2, <1>3

LEMMA TrySublistOK == ASSUME IInv, TrySublist PROVE IInv'
<1>1. mv.pc = "list" /\ UNCHANGED <<owned, ident, refs, table, list, charged, th, ev>>
      /\ mv.lock \in Lock /\ hash[mv.lock] = Mover /\ HasLock
      /\ mv.old \in Hashed /\ refs[mv.old] = 0 /\ LockOf[ident[mv.old]] = mv.lock
  BY DEF TrySublist, IInv, MoveOK, HasLock, Settled
<1>2. CASE sublist = None
  <2>1. UNCHANGED hash /\ MvBecomes("copy", mv.lock, mv.rc) /\ sublist' = Mover
    BY <1>2, MvOnto DEF TrySublist, IInv, Stages
  <2> QED
    BY <1>1, <1>2, <2>1, MvFields, MoverStep DEF IInv, ShapeOK
<1>3. CASE sublist # None
  <2>1. /\ hash' = [hash EXCEPT ![mv.lock] = None] /\ UNCHANGED sublist
        /\ MvBecomes("answer", None, "later")
    BY <1>3, MvAnswer DEF TrySublist, IInv, Answers
  <2> QED
    BY <1>1, <2>1, MoverUnlocks, MoverStep DEF Answers
<1> QED
  BY <1>2, <1>3

-----------------------------------------------------------------------------
(* The evictor. *)

\* It goes on along the list, or leaves it.
LEMMA EvictorStep ==
  ASSUME IInv, UNCHANGED <<owned, ident, refs, table, charged, th, mv>>,
         list' \in Seq(Slot), Distinct(list'), ToSet(list') = ToSet(list),
         hash' \in [Lock -> {Mover, Evictor, None}],
         \A l \in Lock : hash[l] = Mover => hash'[l] = Mover,
         sublist # Mover, sublist' \in {Evictor, None}, ev' \in Slot \cup {None}, EvictOK'
  PROVE  IInv'
<1> USE Constants
<1>1. Hashed' = Hashed /\ \A s : HoldersOf(s)' = HoldersOf(s)
  BY DEF Hashed, HoldersOf, Holds
<1>2. \A s : Unused(s)' = Unused(s) /\ Vacated(s)' = Vacated(s)
  BY DEF Unused, Vacated
<1>3. ShapeOK'
  BY DEF IInv, ShapeOK
<1>4. TableOK' /\ RefsOK' /\ ListOK' /\ ChargeOK' /\ IdentOK'
  BY <1>1 DEF IInv, TableOK, RefsOK, ListOK, ChargeOK, IdentOK
<1>5. ThreadsOK'
  <2>1. \A t \in Thread : Apart(t)' = Apart(t)
    BY DEF Apart
  <2> QED
    BY <1>1, <1>2, <2>1 DEF IInv, ThreadsOK
<1>6. MoveOK'
  BY <1>1, <1>2 DEF IInv, MoveOK, HasLock, Settled
<1> QED
  BY <1>3, <1>4, <1>5, <1>6 DEF IInv

LEMMA WalkOK == ASSUME IInv, Walk PROVE IInv'
<1> USE Constants
<1>1. /\ sublist = None /\ sublist' = Evictor /\ list' = Append(Without(Mark), Mark)
      /\ UNCHANGED <<owned, ident, refs, table, hash, charged, th, mv, ev>>
  BY DEF Walk
<1>2. Mark \in ToSet(list)
  BY DEF IInv, ListOK
<1>3. /\ Without(Mark) \in Seq(Slot) /\ Distinct(Without(Mark))
      /\ ToSet(Without(Mark)) = ToSet(list) \ {Mark}
  BY <1>2, TakenOut DEF IInv
<1>4. list' \in Seq(Slot) /\ Distinct(list') /\ ToSet(list') = ToSet(list)
  <2> DEFINE rest == Without(Mark)
  <2>1. rest \in Seq(Slot) /\ Distinct(rest) /\ ToSet(rest) = ToSet(list) \ {Mark}
    BY <1>3
  <2>2. Mark \notin ToSet(rest)
    BY <2>1
  <2> HIDE DEF rest
  <2>3. /\ Append(rest, Mark) \in Seq(Slot) /\ Distinct(Append(rest, Mark))
        /\ ToSet(Append(rest, Mark)) = ToSet(rest) \cup {Mark}
    BY <2>1, <2>2, Appended
  <2> QED
    BY <1>1, <1>2, <2>1, <2>3 DEF rest
<1>5. ev = None
  BY <1>1 DEF IInv, EvictOK
<1>6. EvictOK'
  BY <1>1, <1>5 DEF EvictOK
<1> QED
  BY <1>1, <1>4, <1>6, EvictorStep DEF IInv, ShapeOK

LEMMA PassOK == ASSUME IInv, Pass PROVE IInv'
<1> USE Constants
<1> DEFINE n == PlaceOf(Mark)
           s == list[n - 1]
<1>1. /\ sublist = Evictor /\ ev = None /\ n > 1
      /\ list' = [list EXCEPT ![n] = s, ![n - 1] = Mark]
      /\ UNCHANGED <<owned, ident, refs, table, sublist, charged, th, mv>>
  BY DEF Pass
<1>2. n \in DOMAIN list /\ list[n] = Mark
  BY TakenOut DEF IInv, ListOK
<1>3. n - 1 \in DOMAIN list /\ n - 1 # n
  BY <1>1, <1>2, LenProperties DEF IInv, ShapeOK
<1>4. list' \in Seq(Slot) /\ Distinct(list') /\ ToSet(list') = ToSet(list)
  <2>1. list' = [list EXCEPT ![n] = list[n - 1], ![n - 1] = list[n]]
    BY <1>1, <1>2
  <2>2. list \in Seq(Slot) /\ Distinct(list)
    BY DEF IInv, ShapeOK, ListOK
  <2>3. n \in DOMAIN list /\ n > 1
    BY <1>1, <1>2
  <2> HIDE DEF n
  <2>4. \A other : other = [list EXCEPT ![n] = list[n - 1], ![n - 1] = list[n]] =>
          other \in Seq(Slot) /\ Distinct(other) /\ ToSet(other) = ToSet(list)
    BY <2>2, <2>3, Swapped
  <2> QED
    BY <2>1, <2>4
<1>5. s \in Hashed /\ refs[s] = 0
  BY <1>2, <1>3 DEF IInv, ListOK, Distinct, ToSet
<1>6. s \in Slot /\ ident[s] \in Id
  BY <1>5, InTable DEF IInv
<1> HIDE DEF n, s
<1>7. CASE Unlocked(ident[s])
  <2>1. ev' = s /\ hash' = [hash EXCEPT ![LockOf[ident[s]]] = Evictor]
    BY <1>7 DEF Pass, n, s
  <2>2. LockOf[ident[s]] \in Lock /\ hash[LockOf[ident[s]]] = None
    BY <1>6, <1>7 DEF Unlocked
  <2>3. /\ hash' \in [Lock -> {Mover, Evictor, None}]
        /\ \A l \in Lock : hash[l] = Mover => hash'[l] = Mover
        /\ hash'[LockOf[ident[s]]] = Evictor
    BY <2>1, <2>2 DEF IInv, ShapeOK
  <2>4. Hashed' = Hashed
    BY <1>1 DEF Hashed
  <2>5. EvictOK'
    BY <1>1, <1>5, <2>1, <2>3, <2>4 DEF EvictOK
  <2> QED
    BY <1>1, <1>4, <1>6, <2>1, <2>3, <2>5, EvictorStep
<1>8. CASE ~Unlocked(ident[s])
  <2>1. UNCHANGED <<ev, hash>>
    BY <1>8 DEF Pass, n, s
  <2>2. EvictOK'
    BY <1>1, <2>1 DEF EvictOK
  <2> QED
    BY <1>1, <1>4, <2>1, <2>2, EvictorStep DEF IInv, ShapeOK
<1> QED
  BY <1>7, <1>8

\* What the evictor knows of the header it has locked.
LEMMA Chosen ==
  ASSUME IInv, ev # None
  PROVE  /\ ev \in Slot /\ ident[ev] \in Id /\ table[ident[ev]] = ev /\ refs[ev] = 0
         /\ LockOf[ident[ev]] \in Lock /\ hash[LockOf[ident[ev]]] = Evictor
         /\ ev \in Hashed /\ sublist = Evictor /\ ev # Mark /\ ev \in owned
BY InTable, Constants DEF IInv, EvictOK, IdentOK

LEMMA EvictorUnlocks ==
  ASSUME IInv, ev # None, hash' = [hash EXCEPT ![LockOf[ident[ev]]] = None]
  PROVE  /\ hash' \in [Lock -> {Mover, Evictor, None}]
         /\ \A l \in Lock : hash[l] = Mover => hash'[l] = Mover
BY Chosen, Constants DEF IInv, ShapeOK

LEMMA SpareOK == ASSUME IInv, Spare PROVE IInv'
<1>1. /\ ev # None /\ ev' = None /\ hash' = [hash EXCEPT ![LockOf[ident[ev]]] = None]
      /\ UNCHANGED <<owned, ident, refs, table, list, sublist, charged, th, mv>>
  BY DEF Spare
<1>2. EvictOK' /\ sublist = Evictor
  BY <1>1, Chosen DEF EvictOK
<1> QED
  BY <1>1, <1>2, EvictorUnlocks, Constants, EvictorStep DEF IInv, ShapeOK, ListOK

LEMMA PauseOK == ASSUME IInv, Pause \/ Resume PROVE IInv'
<1>1. /\ sublist \in {Evictor, None} /\ sublist' \in {Evictor, None}
      /\ UNCHANGED <<owned, ident, refs, table, list, hash, charged, th, mv, ev>>
  BY DEF Pause, Resume
<1>2. ev = None
  BY Constants DEF Pause, Resume, IInv, EvictOK
<1>3. EvictOK'
  BY <1>1, <1>2 DEF EvictOK
<1> QED
  BY <1>1, <1>3, Constants, EvictorStep DEF IInv, ShapeOK, ListOK

\* The header goes altogether: nobody holds it, nor has the callback settled for it.
LEMMA EvictionOK == ASSUME IInv, Evict PROVE IInv'
<1> USE Constants
<1> DEFINE i == ident[ev]
<1>1. /\ ev # None /\ table' = [table EXCEPT ![i] = None] /\ list' = Without(ev)
      /\ ident' = [ident EXCEPT ![ev] = None] /\ owned' = owned \ {ev}
      /\ charged' = charged - 1 /\ hash' = [hash EXCEPT ![LockOf[i]] = None] /\ ev' = None
      /\ UNCHANGED <<refs, sublist, th, mv>>
  BY DEF Evict
<1>2. /\ ev \in Slot /\ i \in Id /\ table[i] = ev /\ refs[ev] = 0
      /\ LockOf[i] \in Lock /\ hash[LockOf[i]] = Evictor
      /\ ev \in Hashed /\ sublist = Evictor /\ ev # Mark /\ ev \in owned
  BY <1>1, Chosen
<1> HIDE DEF i
<1>3. Hashed' = Hashed \ {ev}
  BY <1>1, <1>2, InTable DEF Hashed, IInv, ShapeOK, TableOK, i
<1>4. \A t \in Thread : th[t].pc = "held" => th[t].slot # ev
  <2>1. HoldersOf(ev) = {}
    <3>1. IsFiniteSet(HoldersOf(ev)) /\ Cardinality(HoldersOf(ev)) = 0
      BY <1>2 DEF IInv, RefsOK
    <3> QED
      BY <3>1, FS_EmptySet
  <2> QED
    BY <2>1 DEF HoldersOf, Holds
<1>5. list' \in Seq(Slot) /\ Distinct(list') /\ ToSet(list') = ToSet(list) \ {ev}
  BY <1>1, <1>2, TakenOut DEF IInv, ListOK
<1>6. ShapeOK'
  BY <1>1, <1>2, <1>5, EvictorUnlocks DEF IInv, ShapeOK, i
<1>7. TableOK'
  BY <1>1, <1>2 DEF IInv, ShapeOK, TableOK, i
<1>8. \A s : Unused(s)' = Unused(s) /\ Vacated(s)' = Vacated(s)
  BY <1>1 DEF Unused, Vacated
<1>9. \A s \in Slot : Unused(s) \/ Vacated(s) => s # ev
  BY <1>2 DEF IInv, MoveOK
<1>10. Settled => mv.old # ev
  BY <1>2 DEF IInv, MoveOK, Settled, HasLock, i
<1>11. IdentOK'
  BY <1>1, <1>2, <1>3 DEF IInv, ShapeOK, IdentOK
<1>12. ThreadsOK'
  <2>1. \A t \in Thread : Apart(t)' = Apart(t)
    BY <1>1 DEF Apart
  <2>2. \A t \in Thread : Apart(t) => th[t].slot # ev /\ th[t].slot \in Slot
    BY <1>2 DEF IInv, ThreadsOK, ShapeOK
  <2>3. \A t \in Thread : th[t].pc = "held" => th[t].id # i
    BY <1>2, <1>4 DEF IInv, ThreadsOK
  <2> QED
    BY <1>1, <1>2, <1>3, <1>8, <2>1, <2>2, <2>3 DEF IInv, ShapeOK, ThreadsOK
<1>13. RefsOK'
  <2>1. \A s : HoldersOf(s)' = HoldersOf(s)
    BY <1>1 DEF HoldersOf, Holds
  <2> QED
    BY <1>1, <1>3, <2>1 DEF IInv, RefsOK
<1>14. ListOK'
  BY <1>1, <1>2, <1>3, <1>5 DEF IInv, ListOK
<1>15. MoveOK'
  <2>1. HasLock => hash'[mv.lock] = Mover
    BY <1>1, EvictorUnlocks DEF IInv, MoveOK, i
  <2>2. \A s \in Slot : s # ev => ident'[s] = ident[s]
    BY <1>1 DEF IInv, ShapeOK
  <2>3. ident[mv.old] = None => ident'[mv.old] = None
    BY <1>1, <1>2 DEF IInv, ShapeOK
  <2>4. Settled => mv.old \in Slot
    BY DEF IInv, MoveOK, Settled
  <2> QED
    BY <1>1, <1>2, <1>3, <1>8, <1>9, <1>10, <2>1, <2>2, <2>3, <2>4
       DEF IInv, MoveOK, HasLock, Settled
<1>16. ChargeOK'
  BY <1>1, <1>2, FS_RemoveElement, FS_CardinalityType DEF IInv, ChargeOK
<1>17. EvictOK'
  BY <1>1 DEF EvictOK
<1> QED
  BY <1>6, <1>7, <1>11, <1>12, <1>13, <1>14, <1>15, <1>16, <1>17 DEF IInv

-----------------------------------------------------------------------------
(* Threads. *)

\* Who holds what when one thread has moved on.
LEMMA Joins ==
  ASSUME NEW t \in Thread, NEW s, NEW i, Becomes(t, "held", s, i)
  PROVE  /\ HoldersOf(s)' = HoldersOf(s) \cup {t}
         /\ \A r : r # s /\ ~Holds(t, r) => HoldersOf(r)' = HoldersOf(r)
BY DEF Becomes, HoldersOf, Holds

LEMMA Leaves ==
  ASSUME NEW t \in Thread, NEW pc, NEW s, NEW i, Becomes(t, pc, s, i), pc # "held"
  PROVE  \A r : HoldersOf(r)' = HoldersOf(r) \ {t}
BY DEF Becomes, HoldersOf, Holds

\* A thread whose header is its own, before or after, changes no count.
LEMMA CountsKept ==
  ASSUME NEW t \in Thread, th[t].pc # "held", th'[t].pc # "held",
         \A u \in Thread : u # t => th'[u] = th[u]
  PROVE  \A s : HoldersOf(s)' = HoldersOf(s)
BY DEF HoldersOf, Holds

\* A thread's own header comes, goes, or gets its identity: the table, the list, and
\* what the callback has are as they were.
LEMMA OwnStep ==
  ASSUME IInv, NEW t \in Thread, NEW pc \in {"idle", "new", "insert", "beaten"},
         NEW s \in Slot, NEW i, Becomes(t, pc, IF pc = "idle" THEN None ELSE s, i),
         th[t].pc # "held", UNCHANGED <<table, list, hash, sublist, mv, ev>>,
         s \notin Hashed, s # Mark, ~Unused(s), ~Vacated(s),
         \A u \in Thread : u # t /\ Apart(u) => th[u].slot # s,
         owned' \subseteq Slot, ident' \in [Slot -> Id \cup {None}], refs' \in [Slot -> Nat],
         \A r \in Slot : r # s => /\ r \in owned' <=> r \in owned
                                  /\ ident'[r] = ident[r] /\ refs'[r] = refs[r],
         Apart(t) => th[t].slot = s,
         pc # "idle" => i \in Id /\ s \in owned'
                        /\ ident'[s] = IF pc = "new" THEN None ELSE i,
         pc = "idle" => ident'[s] = None,
         ChargeOK'
  PROVE  IInv'
<1> USE Constants
<1>1. Hashed' = Hashed /\ \A r \in Hashed : r # s /\ r \in Slot
  BY InTable DEF Hashed, IInv
<1>2. \A r : HoldersOf(r)' = HoldersOf(r)
  BY CountsKept DEF Becomes
<1>3. \A r : Unused(r)' = Unused(r) /\ Vacated(r)' = Vacated(r)
  BY DEF Unused, Vacated
<1>4. ShapeOK'
  BY DEF IInv, ShapeOK, Becomes
<1>5. TableOK'
  <2>1. \A j \in Id : table[j] # None => table[j] \in Hashed
    BY DEF Hashed
  <2> QED
    BY <1>1, <2>1 DEF IInv, TableOK
<1>6. IdentOK'
  <2>1. ASSUME NEW r \in Slot, ident'[r] # None
        PROVE  \/ r \in Hashed
               \/ \E u \in Thread : th'[u].slot = r /\ th'[u].pc \in {"insert", "beaten"}
               \/ mv.pc = "discard" /\ mv.old = r
    <3>1. CASE r = s
      <4>1. pc \in {"insert", "beaten"}
        BY <2>1, <3>1
      <4> QED
        BY <3>1, <4>1 DEF Becomes
    <3>2. CASE r # s
      <4>1. ident[r] # None
        BY <2>1, <3>2
      <4>2. \A u \in Thread : th[u].slot = r /\ th[u].pc \in {"insert", "beaten"} => u # t
        BY <3>2 DEF Apart
      <4> QED
        BY <4>1, <4>2 DEF IInv, IdentOK, Becomes
    <3> QED
      BY <3>1, <3>2
  <2>2. \A r \in Slot \ owned' : ident'[r] = None
    BY DEF IInv, IdentOK
  <2> QED
    BY <1>1, <2>1, <2>2 DEF IInv, IdentOK
<1>7. ThreadsOK'
  <2>1. \A u \in Thread : u # t => Apart(u)' = Apart(u) /\ th'[u] = th[u]
    BY DEF Apart, Becomes
  <2>2. Apart(t)' => pc # "idle" /\ th'[t].slot = s /\ th'[t].pc = pc /\ th'[t].id = i
    BY DEF Apart, Becomes
  <2>3. \A u \in Thread : u # t /\ Apart(u) => th[u].slot \in Slot /\ th[u].slot # s
    BY DEF IInv, ThreadsOK, ShapeOK
  <2>4. th'[t].pc # "held"
    BY DEF Becomes
  <2>5. ASSUME NEW u \in Thread, Apart(u)'
        PROVE  /\ th'[u].slot \in owned' /\ th'[u].slot \notin Hashed' /\ th'[u].slot # Mark
               /\ ~Unused(th'[u].slot) /\ ~Vacated(th'[u].slot)
               /\ th'[u].id \in Id
               /\ ident'[th'[u].slot] = IF th'[u].pc = "new" THEN None ELSE th'[u].id
               /\ \A v \in Thread : v # u /\ Apart(v)' => th'[v].slot # th'[u].slot
    <3>1. CASE u = t
      BY <1>1, <2>1, <2>2, <2>3, <2>5, <3>1
    <3>2. CASE u # t
      BY <1>1, <2>1, <2>2, <2>3, <2>5, <3>2 DEF IInv, ThreadsOK
    <3> QED
      BY <3>1, <3>2
  <2>6. \A u \in Thread : th'[u].pc = "held" =>
          th'[u].id \in Id /\ th'[u].slot # None /\ table'[th'[u].id] = th'[u].slot
    BY <2>1, <2>4 DEF IInv, ThreadsOK
  <2> QED
    BY <1>3, <2>5, <2>6 DEF ThreadsOK
<1>8. RefsOK' /\ ListOK'
  BY <1>1, <1>2 DEF IInv, RefsOK, ListOK
<1>9. MoveOK'
  <2>1. \A r \in Slot : Unused(r) \/ Vacated(r) => r # s
    OBVIOUS
  <2>2. mv.pc = "answer" /\ mv.rc = "yes" => Vacated(mv.old) /\ mv.old \in Slot
    BY DEF Vacated, IInv, MoveOK
  <2>3. Settled => mv.old \in Hashed
    BY DEF IInv, MoveOK
  <2> QED
    BY <1>1, <1>3, <2>1, <2>2, <2>3 DEF IInv, MoveOK, HasLock, Settled
<1>10. EvictOK'
  BY <1>1 DEF IInv, EvictOK
<1> QED
  BY <1>4, <1>5, <1>6, <1>7, <1>8, <1>9, <1>10 DEF IInv

\* Memory that is free is nobody's.
LEMMA FreeMemory ==
  ASSUME IInv, NEW s \in Slot \ owned
  PROVE  /\ s \notin Hashed /\ s # Mark /\ ~Unused(s) /\ ~Vacated(s) /\ ident[s] = None
         /\ \A u \in Thread : Apart(u) => th[u].slot # s
<1>1. s \notin Hashed
  BY DEF IInv, TableOK, Hashed
<1>2. s # Mark /\ ident[s] = None
  BY DEF IInv, IdentOK
<1>3. ~Unused(s) /\ ~Vacated(s)
  BY DEF IInv, MoveOK
<1>4. \A u \in Thread : Apart(u) => th[u].slot # s
  BY DEF IInv, ThreadsOK
<1> QED
  BY <1>1, <1>2, <1>3, <1>4

LEMMA AllocOK == ASSUME IInv, NEW t \in Thread, NEW i \in Id, Alloc(t, i) PROVE IInv'
<1> USE Constants
<1>1. PICK s \in Slot \ owned :
        /\ owned' = owned \cup {s} /\ ident' = [ident EXCEPT ![s] = None]
        /\ refs' = [refs EXCEPT ![s] = 0]
        /\ th' = [th EXCEPT ![t] = [pc |-> "new", slot |-> s, id |-> i]]
  BY DEF Alloc
<1>2. /\ th[t].pc = "idle" /\ charged' = charged + 1
      /\ UNCHANGED <<table, list, hash, sublist, mv, ev>>
  BY DEF Alloc
<1>3. Becomes(t, "new", s, i)
  BY <1>1, NewBecomes DEF IInv, States
<1>4. ChargeOK'
  <2>1. IsFiniteSet(owned') /\ Cardinality(owned') = Cardinality(owned) + 1
        /\ Cardinality(owned) \in Nat
    BY <1>1, FS_AddElement, FS_CardinalityType DEF IInv, ChargeOK
  <2> QED
    BY <1>2, <2>1 DEF IInv, ChargeOK
<1>5. /\ owned' \subseteq Slot /\ ident' \in [Slot -> Id \cup {None}] /\ refs' \in [Slot -> Nat]
      /\ \A r \in Slot : r # s => /\ r \in owned' <=> r \in owned
                                  /\ ident'[r] = ident[r] /\ refs'[r] = refs[r]
      /\ s \in owned' /\ ident'[s] = None
  BY <1>1 DEF IInv, ShapeOK
<1>6. ~Apart(t)
  BY <1>2 DEF Apart
<1> QED
  BY <1>2, <1>3, <1>4, <1>5, <1>6, FreeMemory, OwnStep

LEMMA IdentifyOK == ASSUME IInv, NEW t \in Thread, Identify(t) PROVE IInv'
<1> USE Constants
<1> DEFINE s == th[t].slot
           i == th[t].id
<1>1. /\ th[t].pc = "new" /\ Apart(t) /\ ident' = [ident EXCEPT ![s] = i]
      /\ th' = [th EXCEPT ![t].pc = "insert"]
      /\ UNCHANGED <<owned, refs, table, list, hash, sublist, charged, mv, ev>>
  BY DEF Identify, Apart
<1>2. Becomes(t, "insert", s, i)
  BY <1>1, GoBecomes DEF IInv, States
<1>3. /\ s \in Slot /\ s \in owned /\ s \notin Hashed /\ s # Mark /\ ~Unused(s) /\ ~Vacated(s)
      /\ i \in Id /\ \A u \in Thread : u # t /\ Apart(u) => th[u].slot # s
  BY <1>1 DEF IInv, ThreadsOK, ShapeOK
<1> HIDE DEF s, i
<1>4. ident' \in [Slot -> Id \cup {None}] /\ ident'[s] = i
      /\ \A r \in Slot : r # s => ident'[r] = ident[r]
  BY <1>1, <1>3 DEF IInv, ShapeOK
<1>5. ChargeOK'
  BY <1>1 DEF IInv, ChargeOK
<1> QED
  BY <1>1, <1>2, <1>3, <1>4, <1>5, OwnStep DEF IInv, ShapeOK, s

LEMMA DestroyOK == ASSUME IInv, NEW t \in Thread, Destroy(t) PROVE IInv'
<1> USE Constants
<1> DEFINE s == th[t].slot
<1>1. /\ th[t].pc = "beaten" /\ Apart(t) /\ ident' = [ident EXCEPT ![s] = None]
      /\ owned' = owned \ {s} /\ charged' = charged - 1 /\ th' = [th EXCEPT ![t] = Idle]
      /\ UNCHANGED <<refs, table, list, hash, sublist, mv, ev>>
  BY DEF Destroy, Destroyed, Apart
<1>2. Becomes(t, "idle", None, None)
  BY <1>1, NewBecomes DEF IInv, States, Idle
<1>3. /\ s \in Slot /\ s \in owned /\ s \notin Hashed /\ s # Mark /\ ~Unused(s) /\ ~Vacated(s)
      /\ \A u \in Thread : u # t /\ Apart(u) => th[u].slot # s
  BY <1>1 DEF IInv, ThreadsOK, ShapeOK
<1> HIDE DEF s
<1>4. ident' \in [Slot -> Id \cup {None}] /\ ident'[s] = None
      /\ \A r \in Slot : r # s => ident'[r] = ident[r]
  BY <1>1, <1>3 DEF IInv, ShapeOK
<1>5. ChargeOK'
  <2>1. /\ IsFiniteSet(owned') /\ Cardinality(owned') = Cardinality(owned) - 1
        /\ Cardinality(owned) \in Nat
    BY <1>1, <1>3, FS_RemoveElement, FS_CardinalityType DEF IInv, ChargeOK
  <2> QED
    BY <1>1, <2>1 DEF IInv, ChargeOK
<1> QED
  BY <1>1, <1>2, <1>3, <1>4, <1>5, OwnStep DEF IInv, ShapeOK, s

\* The thread's own header gets its place, or there was one before it.
LEMMA InsertOK == ASSUME IInv, NEW t \in Thread, Insert(t) PROVE IInv'
<1> USE Constants
<1>0. PICK s, i : s = th[t].slot /\ i = th[t].id
  OBVIOUS
<1>1. /\ th[t].pc = "insert" /\ Apart(t) /\ hash[LockOf[i]] = None
      /\ UNCHANGED <<owned, ident, list, hash, sublist, charged, mv, ev>>
  BY <1>0 DEF Insert, Apart, Unlocked
<1>2. /\ s \in Slot /\ s \in owned /\ s \notin Hashed /\ s # Mark /\ ~Unused(s) /\ ~Vacated(s)
      /\ i \in Id /\ ident[s] = i
      /\ \A u \in Thread : u # t /\ Apart(u) => th[u].slot # s
  BY <1>0, <1>1 DEF IInv, ThreadsOK, ShapeOK
<1>3. CASE table[i] # None
  <2>1. UNCHANGED <<table, refs>> /\ Becomes(t, "beaten", s, i)
    BY <1>3, <1>0, GoBecomes DEF Insert, IInv, States
  <2>2. ChargeOK'
    BY <1>1 DEF IInv, ChargeOK
  <2>3. th[t].slot = s /\ th[t].pc # "held"
    BY <1>0, <1>1
  <2>4. /\ owned' \subseteq Slot /\ ident' \in [Slot -> Id \cup {None}]
        /\ refs' \in [Slot -> Nat]
        /\ \A r \in Slot : r # s => /\ r \in owned' <=> r \in owned
                                    /\ ident'[r] = ident[r] /\ refs'[r] = refs[r]
    BY <1>1, <2>1 DEF IInv, ShapeOK
  <2>5. s \in owned' /\ ident'[s] = i /\ UNCHANGED <<table, list, hash, sublist, mv, ev>>
    BY <1>1, <1>2, <2>1
  <2> QED
    BY <1>2, <2>1, <2>2, <2>3, <2>4, <2>5, OwnStep
<1>4. CASE table[i] = None
  <2>1. /\ table' = [table EXCEPT ![i] = s] /\ refs' = [refs EXCEPT ![s] = 1]
        /\ Becomes(t, "held", s, i)
    BY <1>4, <1>0, GoBecomes DEF Insert, IInv, States
  <2>2. Hashed' = Hashed \cup {s}
    <3>1. \A j \in Id : table'[j] = IF j = i THEN s ELSE table[j]
      BY <1>2, <2>1 DEF IInv, ShapeOK
    <3> QED
      BY <1>2, <1>4, <3>1 DEF Hashed
  <2>3. ShapeOK'
    BY <1>1, <1>2, <2>1 DEF IInv, ShapeOK, Becomes
  <2>4. TableOK'
    BY <1>1, <1>2, <2>1 DEF IInv, ShapeOK, TableOK
  <2>5. IdentOK'
    <3>1. \A u \in Thread : u # t => th'[u] = th[u]
      BY <2>1 DEF Becomes
    <3>2. ASSUME NEW r \in Slot, ident[r] # None
          PROVE  \/ r \in Hashed'
                 \/ \E u \in Thread : th'[u].slot = r /\ th'[u].pc \in {"insert", "beaten"}
                 \/ mv.pc = "discard" /\ mv.old = r
      BY <1>0, <2>2, <3>1, <3>2 DEF IInv, IdentOK
    <3> QED
      BY <1>1, <3>2 DEF IInv, IdentOK
  <2>6. \A r : Unused(r)' = Unused(r) /\ Vacated(r)' = Vacated(r)
    BY <1>1 DEF Unused, Vacated
  <2>7. ThreadsOK'
    <3>1. \A u \in Thread : u # t => Apart(u)' = Apart(u) /\ th'[u] = th[u]
      BY <2>1 DEF Apart, Becomes
    <3>2. ~Apart(t)' /\ th'[t].slot = s /\ th'[t].id = i
      BY <2>1 DEF Apart, Becomes
    <3>3. \A u \in Thread : u # t /\ th[u].pc = "held" => th[u].id # i
      BY <1>4 DEF IInv, ThreadsOK
    <3>4. table'[i] = s /\ \A j \in Id : j # i => table'[j] = table[j]
      BY <1>2, <2>1 DEF IInv, ShapeOK
    <3> QED
      BY <1>1, <1>2, <2>2, <2>6, <3>1, <3>2, <3>3, <3>4 DEF IInv, ThreadsOK
  <2>8. RefsOK' /\ refs'[s] = 1 /\ \A r \in Slot : r # s => refs'[r] = refs[r]
    <3>1. refs'[s] = 1 /\ \A r \in Slot : r # s => refs'[r] = refs[r]
      BY <1>2, <2>1 DEF IInv, ShapeOK
    <3>2. HoldersOf(s) = {}
      <4>1. \A u \in Thread : th[u].pc = "held" => th[u].slot \in Hashed
        BY DEF IInv, ThreadsOK, Hashed
      <4> QED
        BY <1>2, <4>1 DEF HoldersOf, Holds
    <3>3. HoldersOf(s)' = {t} /\ \A r : r # s => HoldersOf(r)' = HoldersOf(r)
      <4>1. \A r : ~Holds(t, r)
        BY <1>1 DEF Holds
      <4>2. /\ HoldersOf(s)' = HoldersOf(s) \cup {t}
            /\ \A r : r # s /\ ~Holds(t, r) => HoldersOf(r)' = HoldersOf(r)
        BY <2>1, Joins
      <4> QED
        BY <3>2, <4>1, <4>2
    <3>4. IsFiniteSet({t}) /\ Cardinality({t}) = 1
      BY FS_Singleton
    <3>5. \A r \in Hashed : r \in Slot /\ r # s
      BY <1>2, InTable DEF IInv
    <3>6. ASSUME NEW r \in Hashed'
          PROVE  IsFiniteSet(HoldersOf(r)') /\ refs'[r] = Cardinality(HoldersOf(r)')
      <4>1. CASE r = s
        BY <3>1, <3>3, <3>4, <4>1
      <4>2. CASE r # s
        <5>1. r \in Hashed /\ r \in Slot
          BY <2>2, <3>5, <4>2
        <5>2. HoldersOf(r)' = HoldersOf(r) /\ refs'[r] = refs[r]
          BY <3>1, <3>3, <4>2, <5>1
        <5> QED
          BY <5>1, <5>2 DEF IInv, RefsOK
      <4> QED
        BY <4>1, <4>2
    <3> QED
      BY <3>1, <3>6 DEF RefsOK
  <2>9. ListOK'
    <3>1. \A r \in Hashed : r \in Slot /\ r # s
      BY <1>2, InTable DEF IInv
    <3> QED
      BY <1>1, <2>2, <2>8, <3>1 DEF IInv, ListOK
  <2>10. MoveOK'
    <3>1. Settled => mv.old \in Hashed /\ mv.old # s /\ mv.old \in Slot
      BY <1>2 DEF IInv, MoveOK, Settled
    <3> QED
      BY <1>1, <1>2, <2>2, <2>6, <2>8, <3>1 DEF IInv, MoveOK, HasLock, Settled
  <2>11. EvictOK'
    <3>1. ev # None => ev \in Hashed /\ ev # s /\ ev \in Slot
      BY <1>2, Chosen DEF IInv
    <3> QED
      BY <1>1, <2>2, <2>8, <3>1 DEF IInv, EvictOK
  <2>12. ChargeOK'
    BY <1>1 DEF IInv, ChargeOK
  <2> QED
    BY <2>3, <2>4, <2>5, <2>7, <2>8, <2>9, <2>10, <2>11, <2>12 DEF IInv
<1> QED
  BY <1>3, <1>4

\* A hold on a header of the table comes or goes, and with the first and the last one
\* the header's place in the list. Neither the callback nor the evictor has its lock.
LEMMA HoldStep ==
  ASSUME IInv, NEW t \in Thread, NEW s \in Hashed, ~Apart(t),
         NEW pc, NEW i \in Id, NEW has, NEW asked, Becomes(t, pc, has, asked),
         pc = "idle" \/ (pc = "held" /\ has = s /\ asked = i),
         table[i] = s, Unlocked(i),
         UNCHANGED <<owned, ident, table, hash, sublist, charged, mv, ev>>,
         refs' \in [Slot -> Nat], \A r \in Slot : r # s => refs'[r] = refs[r],
         IsFiniteSet(HoldersOf(s)'), refs'[s] = Cardinality(HoldersOf(s)'),
         \A r : r # s => HoldersOf(r)' = HoldersOf(r),
         list' \in Seq(Slot), Distinct(list'),
         ToSet(list') = IF refs'[s] = 0 THEN ToSet(list) \cup {s} ELSE ToSet(list) \ {s}
  PROVE  IInv'
<1> USE Constants
<1>1. Hashed' = Hashed /\ s \in Slot /\ ident[s] = i /\ s # Mark /\ \A r \in Hashed : r \in Slot
  <2>1. s \in Slot /\ \A r \in Hashed : r \in Slot
    BY InTable DEF IInv
  <2>2. ident[s] = i /\ s # Mark
    BY <2>1 DEF IInv, TableOK, IdentOK
  <2> QED
    BY <2>1, <2>2 DEF Hashed
<1>2. \A r : Unused(r)' = Unused(r) /\ Vacated(r)' = Vacated(r)
  BY DEF Unused, Vacated
<1>3. \A u \in Thread : u # t => Apart(u)' = Apart(u) /\ th'[u] = th[u]
  BY DEF Apart, Becomes
<1>4. ~Apart(t)' /\ (th'[t].pc = "held" => th'[t].slot = s /\ th'[t].id = i)
  BY DEF Apart, Becomes
<1>5. ShapeOK'
  BY DEF IInv, ShapeOK, Becomes
<1>6. TableOK'
  BY DEF IInv, TableOK
<1>7. IdentOK'
  <2>1. ASSUME NEW u \in Thread, th[u].pc \in {"insert", "beaten"}
        PROVE  th'[u] = th[u]
    BY <1>3, <2>1 DEF Apart
  <2> QED
    BY <1>1, <2>1 DEF IInv, IdentOK
<1>8. ThreadsOK'
  <2>1. ASSUME NEW u \in Thread, Apart(u)'
        PROVE  /\ Apart(u) /\ th'[u] = th[u]
               /\ \A v \in Thread : v # u /\ Apart(v)' => Apart(v) /\ th'[v] = th[v]
    BY <1>3, <1>4, <2>1
  <2>2. \A u \in Thread : th'[u].pc = "held" =>
          th'[u].id \in Id /\ th'[u].slot # None /\ table'[th'[u].id] = th'[u].slot
    BY <1>1, <1>3, <1>4 DEF IInv, ThreadsOK
  <2> QED
    BY <1>1, <1>2, <2>1, <2>2 DEF IInv, ThreadsOK
<1>9. RefsOK'
  BY <1>1 DEF IInv, RefsOK
<1>10. ListOK'
  BY <1>1 DEF IInv, ListOK
<1>11. MoveOK'
  <2>1. Settled => mv.old # s /\ mv.old \in Hashed
    BY <1>1 DEF IInv, MoveOK, Settled, HasLock, Unlocked
  <2> QED
    BY <1>1, <1>2, <2>1 DEF IInv, MoveOK, HasLock, Settled
<1>12. EvictOK'
  <2>1. ev # None => ev # s
    BY <1>1, Chosen DEF Unlocked
  <2> QED
    BY <1>1, <2>1 DEF IInv, EvictOK
<1>13. ChargeOK'
  BY DEF IInv, ChargeOK
<1> QED
  BY <1>5, <1>6, <1>7, <1>8, <1>9, <1>10, <1>11, <1>12, <1>13 DEF IInv

LEMMA HoldOK == ASSUME IInv, NEW t \in Thread, NEW i \in Id, Hold(t, i) PROVE IInv'
<1> USE Constants
<1>0. PICK s : s = table[i]
  OBVIOUS
<1>1. /\ th[t].pc = "idle" /\ ~Apart(t) /\ Unlocked(i) /\ s \in Hashed
      /\ refs' = [refs EXCEPT ![s] = @ + 1]
      /\ list' = IF refs[s] = 0 THEN Without(s) ELSE list
      /\ th' = [th EXCEPT ![t] = [pc |-> "held", slot |-> s, id |-> i]]
      /\ UNCHANGED <<owned, ident, table, hash, sublist, charged, mv, ev>>
  BY <1>0 DEF Hold, Apart, Hashed
<1>2. s \in Slot /\ s # Mark
  BY <1>1, InTable DEF IInv, IdentOK
<1>3. Becomes(t, "held", s, i)
  BY <1>1, <1>2, NewBecomes DEF IInv, States
<1>4. /\ IsFiniteSet(HoldersOf(s)) /\ refs[s] = Cardinality(HoldersOf(s)) /\ refs[s] \in Nat
  BY <1>1, <1>2 DEF IInv, RefsOK, ShapeOK
<1>5. /\ IsFiniteSet(HoldersOf(s)') /\ Cardinality(HoldersOf(s)') = refs[s] + 1
      /\ \A r : r # s => HoldersOf(r)' = HoldersOf(r)
  <2>1. /\ HoldersOf(s)' = HoldersOf(s) \cup {t} /\ t \notin HoldersOf(s)
        /\ \A r : r # s => HoldersOf(r)' = HoldersOf(r)
    <3>1. \A r : ~Holds(t, r)
      BY <1>1 DEF Holds
    <3>2. /\ HoldersOf(s)' = HoldersOf(s) \cup {t}
          /\ \A r : r # s /\ ~Holds(t, r) => HoldersOf(r)' = HoldersOf(r)
      BY <1>3, Joins
    <3>3. t \notin HoldersOf(s)
      BY <3>1 DEF HoldersOf
    <3> QED
      BY <3>1, <3>2, <3>3
  <2> QED
    BY <1>4, <2>1, FS_AddElement
<1>6. /\ refs' \in [Slot -> Nat] /\ refs'[s] = refs[s] + 1
      /\ \A r \in Slot : r # s => refs'[r] = refs[r]
  BY <1>1, <1>2, <1>4 DEF IInv, ShapeOK
<1>7. list' \in Seq(Slot) /\ Distinct(list') /\ ToSet(list') = ToSet(list) \ {s}
  <2>1. CASE refs[s] = 0
    <3>1. s \in ToSet(list)
      BY <1>1, <2>1 DEF IInv, ListOK
    <3> QED
      BY <1>1, <2>1, <3>1, TakenOut DEF IInv
  <2>2. CASE refs[s] # 0
    BY <1>1, <1>2, <2>2 DEF IInv, ListOK, ShapeOK
  <2> QED
    BY <2>1, <2>2
<1>8. refs'[s] # 0
  BY <1>4, <1>6
<1>9. refs'[s] = Cardinality(HoldersOf(s)')
  BY <1>5, <1>6
<1> QED
  BY <1>0, <1>1, <1>3, <1>5, <1>6, <1>7, <1>8, <1>9, HoldStep

LEMMA ReleaseOK == ASSUME IInv, NEW t \in Thread, Release(t) PROVE IInv'
<1> USE Constants
<1>0. PICK s, i : s = th[t].slot /\ i = th[t].id
  OBVIOUS
<1>1. /\ th[t].pc = "held" /\ ~Apart(t) /\ Unlocked(i)
      /\ refs' = [refs EXCEPT ![s] = @ - 1]
      /\ list' = IF refs[s] = 1 THEN <<s>> \o list ELSE list
      /\ th' = [th EXCEPT ![t] = Idle]
      /\ UNCHANGED <<owned, ident, table, hash, sublist, charged, mv, ev>>
  BY <1>0 DEF Release, Apart
<1>2. i \in Id /\ table[i] = s /\ s \in Hashed
  BY <1>0, <1>1 DEF IInv, ThreadsOK, Hashed
<1>3. Becomes(t, "idle", None, None)
  BY <1>1, NewBecomes DEF IInv, States, Idle
<1>4. Holds(t, s)
  BY <1>0, <1>1 DEF Holds
<1>5. \A r : r # s => ~Holds(t, r)
  BY <1>0 DEF Holds
<1>6. s \in Slot /\ s # Mark
  BY <1>2, InTable DEF IInv, IdentOK
<1>7. /\ IsFiniteSet(HoldersOf(s)) /\ refs[s] = Cardinality(HoldersOf(s)) /\ refs[s] \in Nat
      /\ t \in HoldersOf(s)
  BY <1>2, <1>4, <1>6 DEF IInv, RefsOK, ShapeOK, HoldersOf
<1>8. /\ IsFiniteSet(HoldersOf(s)') /\ Cardinality(HoldersOf(s)') = refs[s] - 1
      /\ \A r : r # s => HoldersOf(r)' = HoldersOf(r)
  <2>3. \A r : HoldersOf(r)' = HoldersOf(r) \ {t}
    BY <1>3, Leaves
  <2>1. HoldersOf(s)' = HoldersOf(s) \ {t}
    BY <2>3
  <2>2. \A r : r # s => HoldersOf(r)' = HoldersOf(r)
    BY <1>5, <2>3 DEF HoldersOf
  <2> QED
    BY <1>7, <2>1, <2>2, FS_RemoveElement
<1>9. refs[s] > 0 /\ refs[s] - 1 \in Nat
  BY <1>7, FS_EmptySet
<1>10. /\ refs' \in [Slot -> Nat] /\ refs'[s] = refs[s] - 1
       /\ \A r \in Slot : r # s => refs'[r] = refs[r]
  BY <1>1, <1>6, <1>9 DEF IInv, ShapeOK
<1>11. s \notin ToSet(list)
  BY <1>6, <1>9 DEF IInv, ListOK
<1>12. /\ list' \in Seq(Slot) /\ Distinct(list')
       /\ ToSet(list') = IF refs'[s] = 0 THEN ToSet(list) \cup {s} ELSE ToSet(list) \ {s}
  <2>1. CASE refs[s] = 1
    BY <1>1, <1>6, <1>10, <1>11, <2>1, Linked DEF IInv, ListOK, ShapeOK
  <2>2. CASE refs[s] # 1
    BY <1>1, <1>7, <1>10, <1>11, <2>2 DEF IInv, ListOK, ShapeOK
  <2> QED
    BY <2>1, <2>2
<1>13. refs'[s] = Cardinality(HoldersOf(s)')
  BY <1>8, <1>10
<1> QED
  BY <1>1, <1>2, <1>3, <1>8, <1>10, <1>12, <1>13, HoldStep

-----------------------------------------------------------------------------
(* The callback's own steps that change memory, the table or the list. *)

\* Nobody has the memory the copy is to go to.
LEMMA OfferOK == ASSUME IInv, NEW old \in Slot, NEW new \in Slot, Offer(old, new) PROVE IInv'
<1> USE Constants
<1>1. /\ mv.pc = "idle" /\ old \in owned /\ new \notin owned /\ old # new
      /\ owned' = owned \cup {new} /\ ident' = [ident EXCEPT ![new] = None]
      /\ refs' = [refs EXCEPT ![new] = 0]
      /\ UNCHANGED <<table, list, hash, sublist, charged, th, ev>>
  BY DEF Offer
<1>2. /\ mv' \in MvState /\ mv'.pc = "look" /\ mv'.old = old /\ mv'.new = new
  BY DEF Offer, Free, MvState, Stages, Answers
<1>3. /\ new \notin Hashed /\ new # Mark /\ ident[new] = None
      /\ \A u \in Thread : Apart(u) => th[u].slot # new
  BY <1>1, FreeMemory
<1>4. Hashed' = Hashed /\ \A r \in Hashed : r \in Slot /\ r # new
  BY <1>1, <1>3, InTable DEF Hashed, IInv
<1>5. /\ \A r : HoldersOf(r)' = HoldersOf(r)
      /\ \A t \in Thread : Apart(t)' = Apart(t)
  BY <1>1 DEF HoldersOf, Holds, Apart
<1>6. \A r : (Unused(r)' <=> r = new) /\ ~Vacated(r)' /\ ~Unused(r) /\ ~Vacated(r)
  BY <1>1, <1>2 DEF Unused, Vacated
<1>7. ident' = ident /\ \A r \in Slot : r # new => refs'[r] = refs[r]
  BY <1>1, <1>3 DEF IInv, ShapeOK
<1>8. ShapeOK'
  BY <1>1, <1>2 DEF IInv, ShapeOK
<1>9. TableOK' /\ IdentOK'
  BY <1>1, <1>2, <1>4, <1>7 DEF IInv, TableOK, IdentOK
<1>10. ThreadsOK'
  BY <1>1, <1>3, <1>4, <1>5, <1>6, <1>7 DEF IInv, ThreadsOK
<1>11. RefsOK' /\ ListOK'
  BY <1>1, <1>4, <1>5, <1>7 DEF IInv, RefsOK, ListOK
<1>12. MoveOK'
  BY <1>1, <1>2, <1>3, <1>4, <1>6, <1>7 DEF IInv, MoveOK, HasLock, Settled
<1>13. EvictOK'
  BY <1>1, <1>4, <1>7 DEF IInv, EvictOK
<1>14. ChargeOK'
  <2>1. IsFiniteSet(owned') /\ Cardinality(owned') = Cardinality(owned) + 1
        /\ Cardinality(owned) \in Nat
    BY <1>1, FS_AddElement, FS_CardinalityType DEF IInv, ChargeOK
  <2> QED
    BY <1>1, <1>2, <2>1 DEF IInv, ChargeOK
<1> QED
  BY <1>8, <1>9, <1>10, <1>11, <1>12, <1>13, <1>14 DEF IInv

\* Nobody holds the header whose place is given to the copy.
LEMMA CopyOK == ASSUME IInv, Copy PROVE IInv'
<1> USE Constants
<1>1. PICK old, new, i : old = mv.old /\ new = mv.new /\ i = ident[mv.old]
  OBVIOUS
<1>2. /\ mv.pc = "copy" /\ ident' = [ident EXCEPT ![new] = i]
      /\ refs' = [refs EXCEPT ![new] = refs[old]]
      /\ table' = [table EXCEPT ![i] = new]
      /\ list' = [n \in DOMAIN list |-> IF list[n] = old THEN new ELSE list[n]]
      /\ sublist' = None /\ mv' = [mv EXCEPT !.pc = "discard"]
      /\ UNCHANGED <<owned, hash, charged, th, ev>>
  BY <1>1 DEF Copy, Copied
<1>3. MvBecomes("discard", mv.lock, mv.rc)
  BY <1>2, MvOnto DEF IInv, Stages
<1>4. /\ old \in Slot /\ new \in Slot /\ old # new
      /\ old \in Hashed /\ refs[old] = 0 /\ LockOf[i] = mv.lock
      /\ mv.lock \in Lock /\ hash[mv.lock] = Mover /\ sublist = Mover /\ ev = None
  BY <1>1, <1>2 DEF IInv, MoveOK, HasLock, Settled, EvictOK
<1>5. /\ new \in owned /\ new \notin Hashed /\ new # Mark /\ ident[new] = None /\ Unused(new)
  BY <1>1, <1>2, <1>4 DEF IInv, MoveOK, Unused
<1>6. /\ i \in Id /\ table[i] = old /\ old # Mark /\ old \in owned /\ ident[old] = i
  BY <1>1, <1>4, InTable DEF IInv, TableOK, IdentOK
<1>7. /\ \A j \in Id : table'[j] = IF j = i THEN new ELSE table[j]
      /\ \A j \in Id : j # i => table[j] # old /\ table[j] # new
      /\ \A r \in Slot : r # new => ident'[r] = ident[r] /\ refs'[r] = refs[r]
      /\ ident'[new] = i /\ refs'[new] = 0
  <2>1. \A j \in Id : j # i => table[j] # old
    BY <1>4, <1>6 DEF IInv, TableOK
  <2>2. \A j \in Id : table[j] # new
    BY <1>4, <1>5 DEF Hashed
  <2> QED
    BY <1>2, <1>4, <1>6, <2>1, <2>2 DEF IInv, ShapeOK
<1>8. Hashed' = (Hashed \ {old}) \cup {new} /\ \A r \in Hashed : r \in Slot /\ r # new
  <2>1. Hashed' = (Hashed \ {old}) \cup {new}
    BY <1>4, <1>6, <1>7 DEF Hashed
  <2> QED
    BY <1>5, <2>1, InTable DEF IInv
<1>9. \A r : HoldersOf(r)' = HoldersOf(r)
  BY <1>2 DEF HoldersOf, Holds
<1>10. \A t \in Thread : th[t].pc = "held" =>
         th[t].slot # old /\ th[t].slot # new /\ th[t].id # i
  <2>1. HoldersOf(old) = {}
    <3>1. IsFiniteSet(HoldersOf(old)) /\ Cardinality(HoldersOf(old)) = 0
      BY <1>4 DEF IInv, RefsOK
    <3> QED
      BY <3>1, FS_EmptySet
  <2>2. \A t \in Thread : th[t].pc = "held" => th[t].slot \in Hashed
    BY DEF IInv, ThreadsOK, Hashed
  <2>3. \A t \in Thread : th[t].pc = "held" => table[th[t].id] = th[t].slot
    BY DEF IInv, ThreadsOK
  <2> QED
    BY <1>5, <1>6, <2>1, <2>2, <2>3 DEF HoldersOf, Holds
<1>11. \A r : ~Unused(r)' /\ (Vacated(r)' <=> r = old)
  BY <1>1, <1>3 DEF Unused, Vacated, MvBecomes
<1>12. /\ list' \in Seq(Slot) /\ Distinct(list')
       /\ ToSet(list') = (ToSet(list) \ {old}) \cup {new}
  <2>1. old \in ToSet(list) /\ new \notin ToSet(list)
    BY <1>4, <1>5 DEF IInv, ListOK
  <2>2. list \in Seq(Slot) /\ Distinct(list)
    BY DEF IInv, ShapeOK, ListOK
  <2>3. \A other : other = [n \in DOMAIN list |-> IF list[n] = old THEN new ELSE list[n]] =>
          /\ other \in Seq(Slot) /\ Distinct(other)
          /\ ToSet(other) = (ToSet(list) \ {old}) \cup {new}
    BY <1>4, <2>1, <2>2, Replaced
  <2> QED
    BY <1>2, <2>3
<1>13. ShapeOK'
  BY <1>2, <1>3, <1>4, <1>6, <1>12 DEF IInv, ShapeOK, MvBecomes
<1>14. TableOK'
  BY <1>2, <1>5, <1>7 DEF IInv, ShapeOK, TableOK
<1>15. IdentOK'
  <2>1. ASSUME NEW r \in Slot, ident'[r] # None
        PROVE  \/ r \in Hashed'
               \/ \E t \in Thread : th'[t].slot = r /\ th'[t].pc \in {"insert", "beaten"}
               \/ mv'.pc = "discard" /\ mv'.old = r
    <3>1. CASE r = old
      BY <1>1, <1>3, <3>1 DEF MvBecomes
    <3>2. CASE r = new
      BY <1>8, <3>2
    <3>3. CASE r # old /\ r # new
      BY <1>2, <1>7, <1>8, <2>1, <3>3 DEF IInv, IdentOK
    <3> QED
      BY <3>1, <3>2, <3>3
  <2> QED
    BY <1>2, <1>5, <1>7, <2>1 DEF IInv, IdentOK
<1>16. ThreadsOK'
  <2>1. ASSUME NEW t \in Thread, Apart(t)
        PROVE  th[t].slot \in Slot /\ th[t].slot # old /\ th[t].slot # new
    BY <1>4, <1>5, <2>1 DEF IInv, ThreadsOK, ShapeOK
  <2>2. \A t \in Thread : Apart(t)' = Apart(t)
    BY <1>2 DEF Apart
  <2> QED
    BY <1>2, <1>7, <1>8, <1>10, <1>11, <2>1, <2>2 DEF IInv, ThreadsOK
<1>17. RefsOK'
  <2>1. HoldersOf(new) = {}
    BY <1>10 DEF HoldersOf, Holds
  <2>2. IsFiniteSet({}) /\ Cardinality({}) = 0
    BY FS_EmptySet
  <2>3. ASSUME NEW r \in Hashed'
        PROVE  IsFiniteSet(HoldersOf(r)') /\ refs'[r] = Cardinality(HoldersOf(r)')
    <3>1. CASE r = new
      BY <1>7, <1>9, <2>1, <2>2, <3>1
    <3>2. CASE r # new
      <4>1. r \in Hashed /\ refs'[r] = refs[r] /\ HoldersOf(r)' = HoldersOf(r)
        BY <1>7, <1>8, <1>9, <3>2
      <4> QED
        BY <4>1 DEF IInv, RefsOK
    <3> QED
      BY <3>1, <3>2
  <2> QED
    BY <2>3 DEF RefsOK
<1>18. ListOK'
  <2>1. { r \in Hashed' : refs'[r] = 0 } = ({ r \in Hashed : refs[r] = 0 } \ {old}) \cup {new}
    BY <1>7, <1>8
  <2> QED
    BY <1>6, <1>12, <2>1 DEF IInv, ListOK
<1>19. MoveOK'
  BY <1>1, <1>2, <1>3, <1>4, <1>6, <1>8, <1>11 DEF MoveOK, HasLock, Settled, MvBecomes
<1>20. EvictOK' /\ ChargeOK'
  BY <1>2, <1>3, <1>4 DEF IInv, EvictOK, ChargeOK, MvBecomes
<1> QED
  BY <1>13, <1>14, <1>15, <1>16, <1>17, <1>18, <1>19, <1>20 DEF IInv

\* What the header has left is as free memory is to be.
LEMMA DiscardOK == ASSUME IInv, Discard PROVE IInv'
<1> USE Constants
<1>1. PICK old : old = mv.old
  OBVIOUS
<1>2. /\ mv.pc = "discard" /\ ident' = [ident EXCEPT ![old] = None]
      /\ hash' = [hash EXCEPT ![mv.lock] = None]
      /\ UNCHANGED <<owned, refs, table, list, sublist, charged, th, ev>>
  BY <1>1 DEF Discard
<1>3. MvBecomes("answer", None, "yes")
  BY MvAnswer DEF Discard, IInv, Answers
<1>4. old \in Slot /\ old \notin Hashed /\ Vacated(old)
  BY <1>1, <1>2 DEF IInv, MoveOK, Vacated
<1>5. Hashed' = Hashed /\ \A r \in Hashed : r \in Slot /\ r # old
  BY <1>2, <1>4, InTable DEF Hashed, IInv
<1>6. ident'[old] = None /\ \A r \in Slot : r # old => ident'[r] = ident[r]
  BY <1>2, <1>4 DEF IInv, ShapeOK
<1>7. /\ hash' \in [Lock -> {Mover, Evictor, None}]
      /\ \A l \in Lock : hash[l] = Evictor => hash'[l] = Evictor
  BY <1>2, MoverUnlocks DEF HasLock
<1>8. /\ \A r : HoldersOf(r)' = HoldersOf(r)
      /\ \A t \in Thread : Apart(t)' = Apart(t)
      /\ \A r : (Unused(r)' <=> Unused(r)) /\ (Vacated(r)' <=> Vacated(r))
  BY <1>2, <1>3 DEF HoldersOf, Holds, Apart, Unused, Vacated, MvBecomes
<1>9. ShapeOK'
  BY <1>2, <1>3, <1>4, <1>7 DEF IInv, ShapeOK, MvBecomes
<1>10. TableOK'
  <2>1. \A j \in Id : table[j] # None => table[j] \in Hashed
    BY DEF Hashed
  <2> QED
    BY <1>2, <1>5, <1>6, <2>1 DEF IInv, TableOK
<1>11. IdentOK'
  <2>1. ASSUME NEW r \in Slot, ident'[r] # None
        PROVE  \/ r \in Hashed
               \/ \E t \in Thread : th[t].slot = r /\ th[t].pc \in {"insert", "beaten"}
    BY <1>1, <1>6, <2>1 DEF IInv, IdentOK
  <2> QED
    BY <1>2, <1>5, <1>6, <2>1 DEF IInv, IdentOK
<1>12. ThreadsOK'
  <2>1. \A t \in Thread : Apart(t) => th[t].slot \in Slot /\ th[t].slot # old
    BY <1>4 DEF IInv, ThreadsOK, ShapeOK
  <2> QED
    BY <1>2, <1>5, <1>6, <1>8, <2>1 DEF IInv, ThreadsOK
<1>13. RefsOK' /\ ListOK'
  BY <1>2, <1>5, <1>8 DEF IInv, RefsOK, ListOK
<1>14. MoveOK'
  BY <1>1, <1>2, <1>3, <1>5, <1>6, <1>8 DEF IInv, MoveOK, HasLock, Settled, MvBecomes
<1>15. EvictOK'
  <2>1. ev # None => LockOf[ident[ev]] \in Lock /\ ev \in Hashed
    BY Chosen
  <2> QED
    BY <1>2, <1>5, <1>6, <1>7, <2>1 DEF IInv, EvictOK
<1>16. ChargeOK'
  BY <1>2, <1>3 DEF IInv, ChargeOK, MvBecomes
<1> QED
  BY <1>9, <1>10, <1>11, <1>12, <1>13, <1>14, <1>15, <1>16 DEF IInv

\* The memory that is freed has nobody's header.
LEMMA SettleOK == ASSUME IInv, Settle PROVE IInv'
<1> USE Constants
<1>1. PICK s : s = IF mv.rc = "yes" THEN mv.old ELSE mv.new
  OBVIOUS
<1>2. /\ mv.pc = "answer" /\ owned' = owned \ {s} /\ mv' = Free
      /\ UNCHANGED <<ident, refs, table, list, hash, sublist, charged, th, ev>>
  BY <1>1 DEF Settle
<1>3. mv' \in MvState /\ mv'.pc = "idle"
  BY <1>2 DEF Free, MvState, Stages, Answers
<1>4. s \in Slot /\ (Unused(s) \/ Vacated(s)) /\ ident[s] = None
  BY <1>1, <1>2 DEF IInv, MoveOK, Unused, Vacated
<1>5. s \in owned /\ s \notin Hashed /\ s # Mark
  BY <1>4 DEF IInv, MoveOK
<1>6. Hashed' = Hashed
  BY <1>2 DEF Hashed
<1>7. /\ \A r : HoldersOf(r)' = HoldersOf(r)
      /\ \A t \in Thread : Apart(t)' = Apart(t)
      /\ \A r : ~Unused(r)' /\ ~Vacated(r)'
  BY <1>2, <1>3 DEF HoldersOf, Holds, Apart, Unused, Vacated
<1>8. ShapeOK'
  BY <1>2, <1>3 DEF IInv, ShapeOK
<1>9. TableOK'
  <2>1. \A j \in Id : table[j] # None => table[j] \in Hashed
    BY DEF Hashed
  <2> QED
    BY <1>2, <1>5, <2>1 DEF IInv, TableOK
<1>10. IdentOK'
  BY <1>2, <1>4, <1>5, <1>6 DEF IInv, IdentOK
<1>11. ThreadsOK'
  <2>1. \A t \in Thread : Apart(t) => th[t].slot # s
    BY <1>4 DEF IInv, ThreadsOK
  <2> QED
    BY <1>2, <1>6, <1>7, <2>1 DEF IInv, ThreadsOK
<1>12. RefsOK' /\ ListOK' /\ EvictOK'
  BY <1>2, <1>6, <1>7 DEF IInv, RefsOK, ListOK, EvictOK
<1>13. MoveOK'
  BY <1>2, <1>3, <1>7 DEF IInv, MoveOK, HasLock, Settled
<1>14. ChargeOK'
  <2>1. IsFiniteSet(owned') /\ Cardinality(owned') = Cardinality(owned) - 1
        /\ Cardinality(owned) \in Nat
    BY <1>2, <1>5, FS_RemoveElement, FS_CardinalityType DEF IInv, ChargeOK
  <2> QED
    BY <1>2, <1>3, <2>1 DEF IInv, ChargeOK
<1> QED
  BY <1>8, <1>9, <1>10, <1>11, <1>12, <1>13, <1>14 DEF IInv

-----------------------------------------------------------------------------
LEMMA StepOK == ASSUME IInv, [Next]_vars PROVE IInv'
<1>1. CASE Arc
  BY <1>1, AllocOK, HoldOK, IdentifyOK, InsertOK, DestroyOK, ReleaseOK, WalkOK, PassOK,
     EvictionOK, SpareOK, PauseOK DEF Arc
<1>2. CASE \E old, new \in Slot : Offer(old, new)
  BY <1>2, OfferOK
<1>3. CASE Callback
  BY <1>3, NotLiveOK, ReadLockOK, TryHashOK, RecheckOK, TrySublistOK, CopyOK, DiscardOK,
     SettleOK DEF Callback
<1>4. CASE UNCHANGED vars
  <2>1. \A r : /\ HoldersOf(r)' = HoldersOf(r) /\ Unused(r)' = Unused(r)
               /\ Vacated(r)' = Vacated(r) /\ Apart(r)' = Apart(r)
    BY <1>4 DEF vars, HoldersOf, Holds, Unused, Vacated, Apart
  <2>2. Hashed' = Hashed
    BY <1>4 DEF vars, Hashed
  <2>3. ShapeOK' /\ TableOK' /\ IdentOK' /\ ThreadsOK'
    BY <1>4, <2>1, <2>2 DEF vars, IInv, ShapeOK, TableOK, IdentOK, ThreadsOK
  <2>4. RefsOK' /\ ListOK' /\ MoveOK' /\ EvictOK' /\ ChargeOK'
    BY <1>4, <2>1, <2>2
       DEF vars, IInv, RefsOK, ListOK, MoveOK, HasLock, Settled, EvictOK, ChargeOK
  <2> QED
    BY <2>3, <2>4 DEF IInv
<1> QED
  BY <1>1, <1>2, <1>3, <1>4 DEF Next

LEMMA Invariance == Spec => []IInv
BY InitOK, StepOK, PTL DEF Spec

\* Whoever holds a header by a pointer finds it where it was, with the identity it was
\* looked up by: arc_hdr_move() moves no header that is in use.
THEOREM HeadersHeldInPlace == Spec => []HeldInPlace
<1>1. ASSUME IInv PROVE HeldInPlace
  BY <1>1, Constants DEF IInv, ThreadsOK, TableOK, HeldInPlace
<1> QED
  BY <1>1, Invariance, PTL

\* At every step of a move a lookup finds the header by its identity, in memory that is
\* its own, and the evictor finds what may be evicted, once each; memory that went back
\* to the allocator carries no identity for a later callback to take for a header's.
THEOREM HeadersFindable == Spec => []Findable
<1>1. ASSUME IInv PROVE TableSound
  BY <1>1 DEF IInv, TableOK, IdentOK, TableSound
<1>2. ASSUME IInv PROVE ListSound
  BY <1>2 DEF IInv, ListOK, Distinct, ListSound
<1> QED
  BY <1>1, <1>2, Invariance, PTL DEF Findable

\* A header is accounted for once, in whichever slot it is: a copy is not charged, and
\* what arc_hdr_move() leaves behind is not refunded.
THEOREM HeadersChargedOnce == Spec => []ChargedOnce
<1>1. ASSUME IInv PROVE ChargedOnce
  BY <1>1 DEF IInv, ChargeOK, ChargedOnce
<1> QED
  BY <1>1, Invariance, PTL

\* arc_hdr_move() puts the copy where the header was in the list of its state: no header
\* grows younger or older by being moved, and the evictor's marker keeps its place.
THEOREM MovesKeepOrder == Spec => OrderKept
<1>1. ASSUME IInv, Callback PROVE Order' = Order
  <2>1. CASE NotLive \/ ReadLock \/ TryHash \/ Recheck \/ TrySublist \/ Settle
    BY <2>1 DEF NotLive, ReadLock, TryHash, Recheck, Rechecked, TrySublist, Settle, Order
  <2>2. CASE Copy
    <3>1. PICK old, new, i : old = mv.old /\ new = mv.new /\ i = ident[mv.old]
      OBVIOUS
    <3>2. /\ mv.pc = "copy" /\ ident' = [ident EXCEPT ![new] = i]
          /\ list' = [n \in DOMAIN list |-> IF list[n] = old THEN new ELSE list[n]]
      BY <2>2, <3>1 DEF Copy, Copied
    <3>3. old \in Slot /\ new \in Slot /\ old \in Hashed /\ Unused(new)
      BY <1>1, <3>1, <3>2 DEF IInv, MoveOK, Settled, Unused
    <3>4. new # Mark /\ new \notin Hashed /\ old # Mark
      BY <1>1, <3>3, InTable, Constants DEF IInv, MoveOK, IdentOK
    <3>5. \A n \in DOMAIN list : list[n] # new /\ list[n] \in Slot
      BY <1>1, <3>4, ElementOfSeq DEF IInv, ListOK, ShapeOK, ToSet
    <3>6. ident'[new] = i /\ \A r \in Slot : r # new => ident'[r] = ident[r]
      BY <1>1, <3>2, <3>3 DEF IInv, ShapeOK
    <3>7. /\ DOMAIN list' = DOMAIN list
          /\ \A n \in DOMAIN list : list'[n] = IF list[n] = old THEN new ELSE list[n]
      BY <3>2
    <3>8. \A n \in DOMAIN list :
            (IF list'[n] = Mark THEN Mark ELSE ident'[list'[n]])
              = (IF list[n] = Mark THEN Mark ELSE ident[list[n]])
      BY <3>1, <3>4, <3>5, <3>6, <3>7
    <3> QED
      BY <3>7, <3>8 DEF Order
  <2>3. CASE Discard
    <3>1. ident' = [ident EXCEPT ![mv.old] = None] /\ mv.pc = "discard" /\ list' = list
      BY <2>3 DEF Discard
    <3>2. mv.old \notin Hashed /\ mv.old # Mark /\ mv.old \in Slot
      BY <1>1, <3>1 DEF IInv, MoveOK, Vacated
    <3>3. \A n \in DOMAIN list : list[n] # mv.old /\ list[n] \in Slot
      BY <1>1, <3>2, ElementOfSeq DEF IInv, ListOK, ShapeOK, ToSet
    <3>4. \A n \in DOMAIN list : ident'[list[n]] = ident[list[n]]
      BY <1>1, <3>1, <3>2, <3>3 DEF IInv, ShapeOK
    <3> QED
      BY <3>1, <3>4 DEF Order
  <2> QED
    BY <1>1, <2>1, <2>2, <2>3 DEF Callback
<1>2. ASSUME IInv, [Next]_vars PROVE [Callback => Order' = Order]_vars
  BY <1>1, <1>2
<1> QED
  BY <1>2, Invariance, PTL DEF Spec, OrderKept

-----------------------------------------------------------------------------
\* The headers of the table are in it under one identity each.
LEMMA StoredOnce ==
  ASSUME IInv, NEW i \in Id, table[i] # None
  PROVE  /\ table[i] \in Slot /\ table[i] \in Hashed /\ ident[table[i]] = i
         /\ \A j \in Id : j # i => table[j] # table[i]
BY DEF IInv, ShapeOK, TableOK, Hashed

InUse == { i \in Id : table[i] # None /\ refs[table[i]] # 0 }

\* What the refinement needs of a step: the table and who is held.
LEMMA SameStore ==
  ASSUME IInv, UNCHANGED table, \A s \in Hashed : (refs'[s] # 0) = (refs[s] # 0)
  PROVE  UNCHANGED <<table, InUse>>
BY StoredOnce DEF InUse

\* Insert(), Hold() and Release() of threads, Evict() of the evictor and Copy() of the
\* callback are steps of the store, all else is none: a header that arc_hdr_move() moves
\* is one nobody holds, goes to memory nobody uses, and no lookup sees it on its way.
THEOREM HeadersKeepContract == Spec => HeadersStored
<1> USE Constants
<1>1. Init => Lookups!Init
  BY DEF Init, Lookups!Init
<1>2. ASSUME IInv, [Next]_vars
      PROVE  [Lookups!Next]_(Lookups!vars)
  <2> USE <1>2
  <2>1. Lookups!Used = Hashed
    BY DEF Lookups!Used, Hashed
  <2>2. ASSUME UNCHANGED <<table, InUse>>
        PROVE  UNCHANGED Lookups!vars
    BY <2>2 DEF Lookups!vars, InUse
  <2>3. ASSUME NEW i \in Id, table[i] = None, NEW o \in Slot \ Hashed,
               table' = [table EXCEPT ![i] = o], InUse' = InUse \cup {i}
        PROVE  Lookups!Allocate(i)
    BY <2>1, <2>3 DEF Lookups!Allocate, InUse
  <2>4. ASSUME NEW i \in Id, table[i] # None, NEW o \in Slot \ Hashed, i \notin InUse,
               table' = [table EXCEPT ![i] = o], InUse' = InUse
        PROVE  Lookups!Relocate(i)
    BY <2>1, <2>4 DEF Lookups!Relocate, InUse
  <2>5. ASSUME NEW i \in Id, table[i] # None, table' = [table EXCEPT ![i] = None],
               InUse' = InUse \ {i}
        PROVE  Lookups!Free(i)
    BY <2>5 DEF Lookups!Free, InUse
  <2>6. ASSUME NEW i \in Id, table[i] # None, table' = table,
               InUse' = InUse \cup {i} \/ InUse' = InUse \ {i}
        PROVE  Lookups!Hold(i) \/ Lookups!LetGo(i)
    BY <2>6 DEF Lookups!Hold, Lookups!LetGo, InUse
  <2>7. ASSUME NEW t \in Thread, Insert(t), table[th[t].id] = None
        PROVE  [Lookups!Next]_(Lookups!vars)
    <3>1. PICK s, i : s = th[t].slot /\ i = th[t].id
      OBVIOUS
    <3>2. /\ table[i] = None /\ table' = [table EXCEPT ![i] = s]
          /\ refs' = [refs EXCEPT ![s] = 1] /\ Apart(t)
      BY <2>7, <3>1 DEF Insert, Apart
    <3>3. i \in Id /\ s \in Slot \ Hashed
      BY <3>1, <3>2 DEF IInv, ThreadsOK, ShapeOK
    <3>4. \A j \in Id : j # i => table'[j] = table[j] /\ table[j] # s
      BY <3>2, <3>3 DEF IInv, ShapeOK, Hashed
    <3>5. table'[i] = s /\ refs'[s] = 1 /\ \A r \in Slot : r # s => refs'[r] = refs[r]
      BY <3>2, <3>3 DEF IInv, ShapeOK
    <3>6. InUse' = InUse \cup {i}
      BY <3>2, <3>3, <3>4, <3>5, StoredOnce DEF InUse
    <3> QED
      BY <2>3, <3>2, <3>3, <3>6 DEF Lookups!Next
  <2>8. ASSUME NEW t \in Thread, NEW i \in Id, Hold(t, i)
        PROVE  [Lookups!Next]_(Lookups!vars)
    <3>1. PICK s : s = table[i]
      OBVIOUS
    <3>2. /\ table[i] # None /\ table' = table /\ refs' = [refs EXCEPT ![s] = @ + 1]
      BY <2>8, <3>1 DEF Hold
    <3>3. s \in Slot /\ \A j \in Id : j # i => table[j] # s
      BY <3>1, <3>2, StoredOnce
    <3>4. refs'[s] # 0 /\ \A r \in Slot : r # s => refs'[r] = refs[r]
      BY <3>2, <3>3 DEF IInv, ShapeOK
    <3>5. InUse' = InUse \cup {i}
      BY <3>1, <3>2, <3>3, <3>4, StoredOnce DEF InUse
    <3> QED
      BY <2>6, <3>2, <3>5 DEF Lookups!Next
  <2>9. ASSUME NEW t \in Thread, Release(t)
        PROVE  [Lookups!Next]_(Lookups!vars)
    <3>1. PICK s, i : s = th[t].slot /\ i = th[t].id
      OBVIOUS
    <3>2. /\ th[t].pc = "held" /\ table' = table /\ refs' = [refs EXCEPT ![s] = @ - 1]
      BY <2>9, <3>1 DEF Release
    <3>3. i \in Id /\ table[i] = s /\ s # None
      BY <3>1, <3>2 DEF IInv, ThreadsOK
    <3>4. s \in Slot /\ \A j \in Id : j # i => table[j] # s
      BY <3>3, StoredOnce
    <3>5. \A r \in Slot : r # s => refs'[r] = refs[r]
      BY <3>2, <3>4 DEF IInv, ShapeOK
    <3>6. InUse' = IF refs'[s] # 0 THEN InUse \cup {i} ELSE InUse \ {i}
      BY <3>2, <3>3, <3>4, <3>5, StoredOnce DEF InUse
    <3> QED
      BY <2>6, <3>2, <3>3, <3>6 DEF Lookups!Next
  <2>10. ASSUME Evict
         PROVE  [Lookups!Next]_(Lookups!vars)
    <3>1. PICK i : i = ident[ev]
      OBVIOUS
    <3>2. ev # None /\ table' = [table EXCEPT ![i] = None] /\ refs' = refs
      BY <2>10, <3>1 DEF Evict
    <3>3. i \in Id /\ table[i] = ev /\ refs[ev] = 0
      BY <3>1, <3>2, Chosen
    <3>4. InUse' = InUse \ {i}
      BY <3>2, <3>3 DEF InUse, IInv, ShapeOK
    <3> QED
      BY <2>5, <3>2, <3>3, <3>4 DEF Lookups!Next
  <2>11. ASSUME Copy
         PROVE  [Lookups!Next]_(Lookups!vars)
    <3>1. PICK old, new, i : old = mv.old /\ new = mv.new /\ i = ident[mv.old]
      OBVIOUS
    <3>2. /\ mv.pc = "copy" /\ table' = [table EXCEPT ![i] = new]
          /\ refs' = [refs EXCEPT ![new] = refs[old]]
      BY <2>11, <3>1 DEF Copy, Copied
    <3>3. /\ old \in Slot /\ new \in Slot /\ old \in Hashed /\ refs[old] = 0 /\ Unused(new)
      BY <3>1, <3>2 DEF IInv, MoveOK, Settled, Unused
    <3>4. new \notin Hashed /\ i \in Id /\ table[i] = old
      BY <3>1, <3>3, InTable DEF IInv, MoveOK
    <3>5. \A j \in Id : j # i => table'[j] = table[j] /\ table[j] # new
      BY <3>2, <3>3, <3>4 DEF IInv, ShapeOK, Hashed
    <3>6. /\ table'[i] = new /\ refs'[new] = 0
          /\ \A r \in Slot : r # new => refs'[r] = refs[r]
      BY <3>2, <3>3, <3>4 DEF IInv, ShapeOK
    <3>7. InUse' = InUse /\ i \notin InUse
      BY <3>3, <3>4, <3>5, <3>6, StoredOnce DEF InUse
    <3> QED
      BY <2>4, <3>2, <3>3, <3>4, <3>7 DEF Lookups!Next
  <2>12. ASSUME NEW t \in Thread, NEW i \in Id, Alloc(t, i)
         PROVE  UNCHANGED <<table, InUse>>
    <3>1. PICK s \in Slot \ owned : refs' = [refs EXCEPT ![s] = 0]
      BY <2>12 DEF Alloc
    <3>2. \A r \in Hashed : r \in Slot /\ r # s
      BY FreeMemory, InTable DEF IInv
    <3> QED
      BY <2>12, <3>1, <3>2, SameStore DEF Alloc, IInv, ShapeOK
  <2>13. ASSUME NEW old \in Slot, NEW new \in Slot, Offer(old, new)
         PROVE  UNCHANGED <<table, InUse>>
    <3>1. \A r \in Hashed : r \in Slot /\ r # new
      BY <2>13, FreeMemory, InTable DEF Offer, IInv
    <3> QED
      BY <2>13, <3>1, SameStore DEF Offer, IInv, ShapeOK
  <2>14. ASSUME \/ \E t \in Thread : \/ Identify(t) \/ Destroy(t)
                                     \/ Insert(t) /\ table[th[t].id] # None
                \/ Walk \/ Pass \/ Spare \/ Pause \/ Resume
                \/ NotLive \/ ReadLock \/ TryHash \/ Recheck \/ TrySublist
                \/ Discard \/ Settle \/ UNCHANGED vars
         PROVE  UNCHANGED <<table, InUse>>
    <3>1. UNCHANGED <<table, refs>>
      BY <2>14 DEF Identify, Destroy, Destroyed, Insert, Walk, Pass, Spare, Pause, Resume,
         NotLive, ReadLock, TryHash, Recheck, Rechecked, TrySublist, Discard, Settle, vars
    <3> QED
      BY <3>1, SameStore
  <2> QED
    BY <2>2, <2>7, <2>8, <2>9, <2>10, <2>11, <2>12, <2>13, <2>14 DEF Next, Arc, Callback
<1> QED
  BY <1>1, <1>2, Invariance, PTL DEF Spec, HeadersStored, Lookups!Spec

-----------------------------------------------------------------------------
(* DnodeMove. *)

\* Who has the dnode's mutex, and who has one of its holds.
Owns(t) == task[t].pc \in {"adding", "dropping", "dropped"}
Holders == { t \in Task : task[t].pc \in {"holds", "orphan", "dropping"} }
InHandle(t) == task[t].pc \in {"handle", "adding", "orphan"}
DnodeApart(t) == task[t].pc \in {"fresh", "frees"}

\* The callback at work, with the handle locked, and the memory it was given.
Locked == move.pc \in {"handle", "counted", "owner"}
DnodeSpare(p) == move.pc # "idle" /\ move.answer # "YES" /\ p = move.new
DnodeVacated(p) == move.answer = "YES" /\ p = move.old

\* The dnode is where its users think, and what has its memory is told apart from
\* what was, or will be, the dnode.
UsersOK ==
  /\ handle # None => handle \in given
  /\ \A t \in Task : Dnode!Using(t) => handle # None /\ task[t].place = handle
  /\ \A t \in Task : DnodeApart(t) =>
       /\ task[t].place \in given /\ task[t].place # handle
       /\ ~DnodeSpare(task[t].place) /\ ~DnodeVacated(task[t].place)
       /\ task[t].pc = "fresh" => handle = None
       /\ \A u \in Task : u # t /\ DnodeApart(u) =>
            task[u].place # task[t].place /\ ~(task[t].pc = "fresh" /\ task[u].pc = "fresh")

\* dn_mtx has an owner that knows it, and whoever is in the handle is registered.
LocksOK ==
  /\ \A p \in Place : mtx[p] # None => Owns(mtx[p]) /\ task[mtx[p]].place = p
  /\ \A t \in Task : Owns(t) => mtx[task[t].place] = t
  /\ \A t \in Task : InHandle(t) => t \in zrl

\* Holds are those of dbufs and of users.
HoldsOK ==
  /\ holds = dbufs + Cardinality(Holders)
  /\ handle = None => dbufs = 0

\* Memory that passes for a dnode is the dnode, and what the callback has found out.
DnodeMoveOK ==
  /\ \A p \in given : p \in valid => p = handle \/ DnodeSpare(p)
  /\ move.pc # "answered" => move.answer = None
  /\ move.pc # "idle" => move.old \in Place /\ move.new \in Place /\ move.old # move.new
  /\ move.pc # "idle" /\ move.answer # "YES" => move.new \in given /\ move.new # handle
  /\ move.answer = "YES" => move.old \in given /\ move.old # handle
  /\ move.pc \in {"offered", "os_lock", "objset"} => (move.old \in valid => move.old = handle)
  /\ Locked <=> DnodeMover \in zrl
  /\ Locked => zrl = {DnodeMover} /\ handle = move.old
  /\ move.pc \in {"counted", "owner"} => Holders = {}
  /\ move.pc = "owner" => mtx[move.old] = None

DnodeInv == Dnode!TypeOK /\ UsersOK /\ LocksOK /\ HoldsOK /\ DnodeMoveOK

-----------------------------------------------------------------------------
Places == {"idle", "fresh", "handle", "adding", "holds", "orphan", "dropping", "dropped",
           "frees"}
DnodeStages ==
  {"idle", "offered", "os_lock", "objset", "handle", "counted", "owner", "answered"}
DnodeAnswers == {None, "YES", "LATER", "DONT_KNOW"}

\* What a step of one thread changes of what threads are at.
DnodeBecomes(t, to, place) ==
  /\ task' \in [Task -> [pc : Places, place : Place \cup {None}]]
  /\ task'[t].pc = to /\ task'[t].place = place
  /\ \A u \in Task : u # t => task'[u] = task[u]

LEMMA DnodeGoBecomes ==
  ASSUME Dnode!TypeOK, NEW t \in Task, NEW to \in Places, Dnode!Go(t, to)
  PROVE  DnodeBecomes(t, to, task[t].place)
BY DEF Dnode!TypeOK, Dnode!Go, DnodeBecomes, Places

LEMMA DnodeNewBecomes ==
  ASSUME Dnode!TypeOK, NEW t \in Task, NEW to \in Places, NEW p \in Place \cup {None},
         task' = [task EXCEPT ![t] = [pc |-> to, place |-> p]]
  PROVE  DnodeBecomes(t, to, p)
BY DEF Dnode!TypeOK, DnodeBecomes, Places

LEMMA TaskFields ==
  ASSUME Dnode!TypeOK, NEW t \in Task
  PROVE  task[t].pc \in Places /\ task[t].place \in Place \cup {None}
BY DEF Dnode!TypeOK, Places

\* What a step of the callback changes of the callback.
LEMMA MoveFields ==
  ASSUME Dnode!TypeOK
  PROVE  /\ move.pc \in DnodeStages /\ move.answer \in DnodeAnswers
         /\ move.old \in Place \cup {None} /\ move.new \in Place \cup {None}
         /\ \A pc \in DnodeStages, answer \in DnodeAnswers :
              LET m == [move EXCEPT !.pc = pc, !.answer = answer] IN
              /\ m.pc = pc /\ m.answer = answer /\ m.old = move.old /\ m.new = move.new
              /\ m \in [pc : DnodeStages, old : Place \cup {None}, new : Place \cup {None},
                        answer : DnodeAnswers]
         /\ \A pc \in DnodeStages :
              LET m == [move EXCEPT !.pc = pc] IN
              /\ m.pc = pc /\ m.answer = move.answer /\ m.old = move.old /\ m.new = move.new
              /\ m \in [pc : DnodeStages, old : Place \cup {None}, new : Place \cup {None},
                        answer : DnodeAnswers]
BY DEF Dnode!TypeOK, DnodeStages, DnodeAnswers

LEMMA FewTasks == IsFiniteSet(Task)
BY CallbacksAssumption DEF Dnode!DnodeAssumption, Dnode!IsFiniteSet, IsFiniteSet

\* How the number of holders changes with one thread.
LEMMA CountHolders ==
  ASSUME NEW t \in Task, NEW to \in Places, NEW p, DnodeBecomes(t, to, p)
  PROVE  /\ IsFiniteSet(Holders) /\ Cardinality(Holders) \in Nat
         /\ Cardinality(Holders) = 0 => Holders = {}
         /\ t \in Holders => Cardinality(Holders) > 0
         /\ Holders' = IF to \in {"holds", "orphan", "dropping"} THEN Holders \cup {t}
                                                             ELSE Holders \ {t}
         /\ Cardinality(Holders \cup {t}) =
              IF t \in Holders THEN Cardinality(Holders) ELSE Cardinality(Holders) + 1
         /\ Cardinality(Holders \ {t}) =
              IF t \in Holders THEN Cardinality(Holders) - 1 ELSE Cardinality(Holders)
<1>1. IsFiniteSet(Holders)
  BY FewTasks, FS_Subset DEF Holders
<1>2. Holders' = IF to \in {"holds", "orphan", "dropping"} THEN Holders \cup {t}
                                                       ELSE Holders \ {t}
  BY DEF Holders, DnodeBecomes
<1>3. Cardinality(Holders) \in Nat /\ (Cardinality(Holders) = 0 <=> Holders = {})
  BY <1>1, FS_CardinalityType, FS_EmptySet
<1>4. /\ Cardinality(Holders \cup {t}) =
           IF t \in Holders THEN Cardinality(Holders) ELSE Cardinality(Holders) + 1
      /\ Cardinality(Holders \ {t}) =
           IF t \in Holders THEN Cardinality(Holders) - 1 ELSE Cardinality(Holders)
  BY <1>1, FS_AddElement, FS_RemoveElement
<1> QED
  BY <1>1, <1>2, <1>3, <1>4

LEMMA DnodeInitOK == ASSUME Dnode!Init PROVE DnodeInv
<1>1. /\ \A t \in Task : task[t].pc = "idle" /\ task[t].place = None
      /\ task \in [Task -> [pc : {"idle"}, place : {None}]]
      /\ move.pc = "idle" /\ move.answer = None /\ move.old = None /\ move.new = None
      /\ move \in [pc : {"idle"}, old : {None}, new : {None}, answer : {None}]
  BY DEF Dnode!Init, Dnode!Still, Dnode!NoMove
<1>2. Holders = {} /\ Cardinality(Holders) = 0
  BY <1>1, FS_EmptySet DEF Holders
<1>3. Dnode!TypeOK
  BY <1>1 DEF Dnode!Init, Dnode!TypeOK
<1>4. UsersOK /\ LocksOK
  BY <1>1 DEF Dnode!Init, UsersOK, LocksOK, Dnode!Using, Owns, DnodeApart, InHandle
<1>5. HoldsOK
  BY <1>2 DEF Dnode!Init, HoldsOK
<1>6. DnodeMoveOK
  BY <1>1, CallbacksAssumption
     DEF Dnode!Init, DnodeMoveOK, Locked, DnodeSpare, Dnode!DnodeAssumption
<1> QED
  BY <1>3, <1>4, <1>5, <1>6 DEF DnodeInv

\* Hence who holds, and how many, when one thread has moved on.
LEMMA SameHolders ==
  ASSUME NEW t \in Task, NEW to \in Places, NEW p, DnodeBecomes(t, to, p),
         t \in Holders <=> to \in {"holds", "orphan", "dropping"}
  PROVE  Holders' = Holders
BY DEF DnodeBecomes, Holders

LEMMA OneHolderMore ==
  ASSUME NEW t \in Task, NEW to \in {"holds", "orphan", "dropping"},
         NEW p, DnodeBecomes(t, to, p), t \notin Holders
  PROVE  /\ Holders' = Holders \cup {t} /\ Cardinality(Holders) \in Nat
         /\ Cardinality(Holders') = Cardinality(Holders) + 1
<1>1. to \in Places
  BY DEF Places
<1>2. Holders' = Holders \cup {t}
  BY DEF Holders, DnodeBecomes
<1>3. Cardinality(Holders) \in Nat /\ Cardinality(Holders \cup {t}) = Cardinality(Holders) + 1
  BY <1>1, CountHolders
<1> QED
  BY <1>2, <1>3

LEMMA OneHolderLess ==
  ASSUME NEW t \in Task, NEW to \in Places \ {"holds", "orphan", "dropping"},
         NEW p, DnodeBecomes(t, to, p), t \in Holders
  PROVE  /\ Holders' = Holders \ {t} /\ Cardinality(Holders) \in Nat
         /\ Cardinality(Holders) > 0
         /\ Cardinality(Holders') = Cardinality(Holders) - 1
<1>1. /\ Holders' = Holders \ {t} /\ Cardinality(Holders) \in Nat
      /\ Cardinality(Holders) > 0
      /\ Cardinality(Holders \ {t}) = Cardinality(Holders) - 1
  BY CountHolders DEF Places
<1> QED
  BY <1>1

-----------------------------------------------------------------------------
(* Threads. *)

LEMMA ConstructOK ==
  ASSUME DnodeInv, NEW t \in Task, Dnode!Construct(t) PROVE DnodeInv'
<1> USE CallbacksAssumption DEF Dnode!DnodeAssumption
<1>0. PICK p \in Place \ given : /\ given' = given \cup {p} /\ valid' = valid \ {p}
                                 /\ task' = [task EXCEPT ![t] = [pc |-> "fresh", place |-> p]]
  BY DEF Dnode!Construct
<1>1. DnodeBecomes(t, "fresh", p)
  BY <1>0, DnodeNewBecomes DEF DnodeInv, Places
<1>2. task[t].pc = "idle" /\ handle = None
      /\ UNCHANGED <<handle, zrl, mtx, holds, dbufs, move>>
  BY DEF Dnode!Construct, Dnode!At, Dnode!locks
<1>3. Dnode!TypeOK'
  BY <1>0, <1>1, <1>2 DEF DnodeInv, Dnode!TypeOK, DnodeBecomes, Places
<1>4. UsersOK'
  <2>1. \A u \in Task : DnodeApart(u) => u # t /\ task[u].place # p
    BY <1>2 DEF DnodeInv, UsersOK, DnodeApart
  <2>2. ~DnodeSpare(p) /\ ~DnodeVacated(p) /\ p # None /\ p # handle
    BY <1>2 DEF DnodeInv, Dnode!TypeOK, DnodeMoveOK, DnodeSpare, DnodeVacated
  <2>3. \A u \in Task : u # t =>
         /\ Dnode!Using(u)' = Dnode!Using(u) /\ DnodeApart(u)' = DnodeApart(u)
         /\ task'[u] = task[u]
    BY <1>1 DEF DnodeBecomes, Dnode!Using, DnodeApart
  <2>4. ~Dnode!Using(t)' /\ DnodeApart(t)' /\ task'[t].place = p
    BY <1>1 DEF DnodeBecomes, Dnode!Using, DnodeApart
  <2>5. \A u \in Task : task[u].pc # "fresh"
    BY DEF Dnode!Construct, Dnode!At
  <2>6. \A u \in Task : Dnode!Using(u)' => handle' # None /\ task'[u].place = handle'
    BY <1>2, <2>3, <2>4 DEF DnodeInv, UsersOK
  <2>7. \A q : DnodeSpare(q)' = DnodeSpare(q) /\ DnodeVacated(q)' = DnodeVacated(q)
    BY <1>2 DEF DnodeSpare, DnodeVacated
  <2> QED
    BY <1>0, <1>1, <1>2, <2>1, <2>2, <2>3, <2>4, <2>5, <2>6, <2>7
       DEF DnodeInv, UsersOK, DnodeBecomes
<1>5. LocksOK'
  BY <1>1, <1>2 DEF DnodeInv, Dnode!TypeOK, LocksOK, Owns, InHandle, DnodeBecomes
<1>6. Holders' = Holders
  BY <1>1, <1>2, CountHolders DEF Holders, Places
<1>7. HoldsOK' /\ DnodeMoveOK'
  BY <1>0, <1>2, <1>6 DEF DnodeInv, HoldsOK, DnodeMoveOK, Locked, DnodeSpare
<1> QED
  BY <1>3, <1>4, <1>5, <1>7 DEF DnodeInv

LEMMA CreateOK ==
  ASSUME DnodeInv, NEW t \in Task, Dnode!Create(t) PROVE DnodeInv'
<1> USE CallbacksAssumption DEF Dnode!DnodeAssumption
<1>1. DnodeBecomes(t, "holds", task[t].place)
  BY DnodeGoBecomes DEF DnodeInv, Dnode!Create, Places
<1>2. /\ task[t].pc = "fresh" /\ handle = None /\ handle' = task[t].place
      /\ valid' = valid \cup {task[t].place} /\ holds' = 1
      /\ UNCHANGED <<given, zrl, mtx, dbufs, move>>
  BY DEF Dnode!Create, Dnode!At, Dnode!locks, DnodeInv, UsersOK, DnodeApart
<1>3. task[t].place \in given /\ task[t].place \in Place /\ \A u \in Task : ~Dnode!Using(u)
  BY <1>2 DEF DnodeInv, UsersOK, DnodeApart, Dnode!TypeOK
<1>4. Holders = {} /\ dbufs = 0
  BY <1>2, <1>3 DEF Holders, Dnode!Using, DnodeInv, HoldsOK
<1>5. Holders' = {t} /\ Cardinality(Holders') = 1
  <2>1. /\ Holders' = Holders \cup {t}
        /\ Cardinality(Holders \cup {t}) =
             IF t \in Holders THEN Cardinality(Holders) ELSE Cardinality(Holders) + 1
    BY <1>1, CountHolders DEF Places
  <2> QED
    BY <1>4, <2>1, FS_EmptySet
<1>6. Dnode!TypeOK'
  BY <1>1, <1>2, <1>3 DEF DnodeInv, Dnode!TypeOK, DnodeBecomes, Places
<1>7. UsersOK'
  BY <1>1, <1>2, <1>3
     DEF DnodeInv, UsersOK, Dnode!Using, DnodeApart, DnodeSpare, DnodeVacated, DnodeBecomes
<1>8. LocksOK'
  BY <1>1, <1>2 DEF DnodeInv, Dnode!TypeOK, LocksOK, Owns, InHandle, DnodeBecomes
<1>9. ~Locked
  BY <1>2 DEF DnodeInv, DnodeMoveOK, Locked
<1>10. DnodeMoveOK'
  <2>1. ~DnodeSpare(task[t].place) /\ ~DnodeVacated(task[t].place)
    BY <1>2 DEF DnodeInv, UsersOK, DnodeApart
  <2>2. \A q \in given : q \in valid => DnodeSpare(q)
    BY <1>2 DEF DnodeInv, Dnode!TypeOK, DnodeMoveOK
  <2>3. move.pc \in {"offered", "os_lock", "objset"} => move.old \notin valid
    BY <1>2 DEF DnodeInv, DnodeMoveOK
  <2> QED
    BY <1>2, <1>3, <1>9, <2>1, <2>2, <2>3
       DEF DnodeInv, DnodeMoveOK, Locked, DnodeSpare, DnodeVacated
<1> QED
  BY <1>2, <1>4, <1>5, <1>6, <1>7, <1>8, <1>10 DEF DnodeInv, HoldsOK

\* A thread that has found the dnode and goes on with it, or leaves it, changes
\* nothing for the others.
LEMMA StillUsing ==
  ASSUME DnodeInv, NEW t \in Task, Dnode!Using(t),
         NEW to \in Places \ {"fresh", "frees"}, NEW p, DnodeBecomes(t, to, p),
         to # "idle" => p = task[t].place,
         UNCHANGED <<given, handle, move>>
  PROVE  UsersOK'
<1>1. \A u \in Task : u # t =>
       /\ Dnode!Using(u)' = Dnode!Using(u) /\ DnodeApart(u)' = DnodeApart(u)
       /\ task'[u] = task[u]
  BY DEF DnodeBecomes, Dnode!Using, DnodeApart
<1>2. ~DnodeApart(t)' /\ (Dnode!Using(t)' => task'[t].place = task[t].place)
  BY DEF DnodeBecomes, Dnode!Using, DnodeApart
<1>3. \A q : DnodeSpare(q)' = DnodeSpare(q) /\ DnodeVacated(q)' = DnodeVacated(q)
  BY DEF DnodeSpare, DnodeVacated
<1>4. \A u \in Task : Dnode!Using(u)' => handle' # None /\ task'[u].place = handle'
  BY <1>1, <1>2 DEF DnodeInv, UsersOK
<1>5. ASSUME NEW u \in Task, DnodeApart(u)'
      PROVE  /\ u # t /\ DnodeApart(u) /\ task'[u] = task[u]
             /\ \A v \in Task : v # u /\ DnodeApart(v)' => DnodeApart(v) /\ task'[v] = task[v]
  BY <1>1, <1>2, <1>5
<1> QED
  BY <1>3, <1>4, <1>5 DEF DnodeInv, UsersOK

\* What the callback found out stays so while none joins the holders of a dnode it
\* counted, and none takes the mutex of one it looked at.
LEMMA CallbackUnmoved ==
  ASSUME DnodeInv, UNCHANGED <<given, valid, handle, move>>,
         DnodeMover \in zrl' <=> DnodeMover \in zrl,
         Locked => zrl' = zrl,
         Locked => Holders' \subseteq Holders,
         Locked => (mtx[move.old] = None => mtx'[move.old] = None)
  PROVE  DnodeMoveOK'
<1>1. Locked' = Locked /\ \A q : DnodeSpare(q)' = DnodeSpare(q)
  BY DEF Locked, DnodeSpare
<1>2. move.pc \in {"counted", "owner"} => Locked
  BY DEF Locked
<1> QED
  BY <1>1, <1>2 DEF DnodeInv, DnodeMoveOK

LEMMA EnterMtxOK ==
  ASSUME DnodeInv, NEW t \in Task,
         NEW from \in {"handle", "holds", "orphan"}, NEW to \in {"adding", "dropping"},
         to = "adding" <=> from = "handle", Dnode!EnterMtx(t, from, to)
  PROVE  DnodeInv'
<1> USE CallbacksAssumption DEF Dnode!DnodeAssumption
<1>1. DnodeBecomes(t, to, task[t].place)
  BY DnodeGoBecomes DEF DnodeInv, Dnode!EnterMtx, Places
<1>2. /\ task[t].pc = from /\ Dnode!Using(t) /\ task[t].place = handle /\ handle \in Place
      /\ mtx[handle] = None /\ mtx' = [mtx EXCEPT ![handle] = t]
      /\ UNCHANGED <<given, valid, handle, zrl, holds, dbufs, move>>
  BY DEF Dnode!EnterMtx, Dnode!At, Dnode!Using, DnodeInv, UsersOK, Dnode!TypeOK
<1>3. Dnode!TypeOK'
  BY <1>1, <1>2 DEF DnodeInv, Dnode!TypeOK, DnodeBecomes, Places
<1>4. UsersOK'
  BY <1>1, <1>2, StillUsing DEF Places
<1>5. LocksOK'
  <2>1. mtx'[handle] = t /\ \A p \in Place : p # handle => mtx'[p] = mtx[p]
    BY <1>2 DEF DnodeInv, Dnode!TypeOK
  <2>2. Owns(t)' /\ task'[t].place = handle /\ ~Owns(t)
    BY <1>1, <1>2 DEF Owns, DnodeBecomes
  <2>3. \A u \in Task : u # t => Owns(u)' = Owns(u) /\ InHandle(u)' = InHandle(u)
                                /\ task'[u] = task[u]
    BY <1>1 DEF DnodeBecomes, Owns, InHandle
  <2>4. InHandle(t)' => InHandle(t)
    BY <1>1, <1>2 DEF InHandle, DnodeBecomes
  <2>5. \A u \in Task : Owns(u) => task[u].place # handle /\ task[u].place \in Place
    BY <1>2 DEF DnodeInv, Dnode!TypeOK, LocksOK, Owns, UsersOK, Dnode!Using
  <2> QED
    BY <1>2, <2>1, <2>2, <2>3, <2>4, <2>5 DEF DnodeInv, Dnode!TypeOK, LocksOK
<1>6. Holders' = Holders
  <2>1. t \in Holders <=> to \in {"holds", "orphan", "dropping"}
    BY <1>2 DEF Holders
  <2> QED
    BY <1>1, <2>1, SameHolders DEF Places
<1>7. HoldsOK'
  BY <1>2, <1>6 DEF DnodeInv, HoldsOK
<1>8. DnodeMoveOK'
  <2>1. move.pc # "handle" => ~Locked
    BY <1>2 DEF DnodeInv, DnodeMoveOK, LocksOK, InHandle, Holders, Locked
  <2>2. move.pc = "handle" => move.pc \notin {"counted", "owner"}
    OBVIOUS
  <2> QED
    BY <1>2, <1>6, <2>1, <2>2 DEF DnodeInv, DnodeMoveOK, Locked, DnodeSpare
<1> QED
  BY <1>3, <1>4, <1>5, <1>7, <1>8 DEF DnodeInv

LEMMA DnodeHoldOK ==
  ASSUME DnodeInv, NEW t \in Task, Dnode!Hold(t) PROVE DnodeInv'
<1> USE CallbacksAssumption DEF Dnode!DnodeAssumption
<1>1. DnodeBecomes(t, "holds", task[t].place)
  BY DnodeGoBecomes DEF DnodeInv, Dnode!Hold, Places
<1>2. /\ task[t].pc = "adding" /\ Dnode!Using(t) /\ task[t].place = handle /\ handle \in Place
      /\ mtx[handle] = t /\ mtx' = [mtx EXCEPT ![handle] = None]
      /\ holds' = holds + 1 /\ zrl' = zrl \ {t}
      /\ UNCHANGED <<given, valid, handle, dbufs, move>>
  BY DEF Dnode!Hold, Dnode!At, Dnode!Using, DnodeInv, UsersOK, Dnode!TypeOK, LocksOK, Owns
<1>3. Dnode!TypeOK'
  BY <1>1, <1>2 DEF DnodeInv, Dnode!TypeOK, DnodeBecomes, Places
<1>4. UsersOK'
  BY <1>1, <1>2, StillUsing DEF Places
<1>5. LocksOK'
  <2>1. mtx'[handle] = None /\ \A p \in Place : p # handle => mtx'[p] = mtx[p]
    BY <1>2 DEF DnodeInv, Dnode!TypeOK
  <2>2. ~Owns(t)' /\ ~InHandle(t)'
    BY <1>1 DEF Owns, InHandle, DnodeBecomes
  <2>3. \A u \in Task : u # t => Owns(u)' = Owns(u) /\ InHandle(u)' = InHandle(u)
                                /\ task'[u] = task[u]
    BY <1>1 DEF DnodeBecomes, Owns, InHandle
  <2>4. \A u \in Task : Owns(u) /\ u # t => task[u].place # handle /\ task[u].place \in Place
    BY <1>2 DEF DnodeInv, Dnode!TypeOK, LocksOK, Owns, UsersOK, Dnode!Using
  <2>5. \A p \in Place : p # handle /\ mtx[p] # None => mtx[p] # t /\ mtx[p] \in Task
    BY <1>2 DEF DnodeInv, Dnode!TypeOK, LocksOK
  <2> QED
    BY <1>2, <2>1, <2>2, <2>3, <2>4, <2>5 DEF DnodeInv, LocksOK
<1>6. HoldsOK'
  <2>1. t \notin Holders
    BY <1>2 DEF Holders
  <2>2. Cardinality(Holders) \in Nat /\ Cardinality(Holders') = Cardinality(Holders) + 1
    BY <1>1, <2>1, OneHolderMore
  <2> QED
    BY <1>2, <2>2 DEF DnodeInv, HoldsOK, Dnode!TypeOK
<1>7. DnodeMoveOK'
  <2>1. ~Locked
    BY <1>2 DEF DnodeInv, DnodeMoveOK, LocksOK, InHandle
  <2> QED
    BY <1>2, <2>1, CallbackUnmoved
<1> QED
  BY <1>3, <1>4, <1>5, <1>6, <1>7 DEF DnodeInv

LEMMA EnterHandleOK ==
  ASSUME DnodeInv, NEW t \in Task, Dnode!EnterHandle(t) PROVE DnodeInv'
<1> USE CallbacksAssumption DEF Dnode!DnodeAssumption
<1>1. /\ task[t].pc = "idle" /\ handle \in Place /\ handle # None /\ zrl' = zrl \cup {t}
      /\ DnodeMover \notin zrl
      /\ task' = [task EXCEPT ![t] = [pc |-> "handle", place |-> handle]]
      /\ UNCHANGED <<given, valid, handle, mtx, holds, dbufs, move>>
  BY DEF Dnode!EnterHandle, Dnode!At, DnodeInv, Dnode!TypeOK
<1>2. DnodeBecomes(t, "handle", handle)
  BY <1>1, DnodeNewBecomes DEF DnodeInv, Places
<1>3. Dnode!TypeOK'
  BY <1>1, <1>2 DEF DnodeInv, Dnode!TypeOK, DnodeBecomes, Places
<1>4. UsersOK'
  <2>1. \A u \in Task : u # t =>
         /\ Dnode!Using(u)' = Dnode!Using(u) /\ DnodeApart(u)' = DnodeApart(u)
         /\ task'[u] = task[u]
    BY <1>2 DEF DnodeBecomes, Dnode!Using, DnodeApart
  <2>2. ~DnodeApart(t)' /\ task'[t].place = handle
    BY <1>2 DEF DnodeBecomes, DnodeApart
  <2>3. \A q : DnodeSpare(q)' = DnodeSpare(q) /\ DnodeVacated(q)' = DnodeVacated(q)
    BY <1>1 DEF DnodeSpare, DnodeVacated
  <2>4. \A u \in Task : Dnode!Using(u)' => handle' # None /\ task'[u].place = handle'
    BY <1>1, <2>1, <2>2 DEF DnodeInv, UsersOK
  <2>5. ASSUME NEW u \in Task, DnodeApart(u)'
        PROVE  /\ u # t /\ DnodeApart(u) /\ task'[u] = task[u]
               /\ \A v \in Task : v # u /\ DnodeApart(v)' => DnodeApart(v) /\ task'[v] = task[v]
    BY <2>1, <2>2, <2>5
  <2> QED
    BY <1>1, <2>3, <2>4, <2>5 DEF DnodeInv, UsersOK
<1>5. LocksOK'
  BY <1>1, <1>2 DEF DnodeInv, Dnode!TypeOK, LocksOK, Owns, InHandle, DnodeBecomes
<1>6. Holders' = Holders
  <2>1. t \notin Holders
    BY <1>1 DEF Holders
  <2> QED
    BY <1>2, <2>1, SameHolders DEF Places
<1>7. HoldsOK'
  BY <1>1, <1>6 DEF DnodeInv, HoldsOK
<1>8. DnodeMoveOK'
  <2>1. ~Locked
    BY <1>1 DEF DnodeInv, DnodeMoveOK
  <2> QED
    BY <1>1, <1>6, <2>1, CallbackUnmoved
<1> QED
  BY <1>3, <1>4, <1>5, <1>7, <1>8 DEF DnodeInv

LEMMA AddDbufOK ==
  ASSUME DnodeInv, NEW t \in Task, Dnode!AddDbuf(t) PROVE DnodeInv'
<1>1. /\ task[t].pc = "holds" /\ Dnode!Using(t) /\ handle # None
      /\ holds' = holds + 1 /\ dbufs' = dbufs + 1
      /\ UNCHANGED <<given, valid, handle, zrl, mtx, task, move>>
  BY DEF Dnode!AddDbuf, Dnode!At, Dnode!locks, Dnode!Using, DnodeInv, UsersOK
<1>2. Dnode!TypeOK'
  BY <1>1 DEF DnodeInv, Dnode!TypeOK
<1>3. UsersOK' /\ LocksOK'
  BY <1>1
     DEF DnodeInv, UsersOK, LocksOK, Dnode!Using, DnodeApart, DnodeSpare, DnodeVacated, Owns,
         InHandle
<1>4. Holders' = Holders
  BY <1>1 DEF Holders
<1>5. Cardinality(Holders) \in Nat
  BY FewTasks, FS_Subset, FS_CardinalityType DEF Holders
<1>6. HoldsOK'
  BY <1>1, <1>4, <1>5 DEF DnodeInv, HoldsOK, Dnode!TypeOK
<1>7. DnodeMoveOK'
  BY <1>1, <1>4, CallbackUnmoved
<1> QED
  BY <1>2, <1>3, <1>6, <1>7 DEF DnodeInv

LEMMA DropDbufOK ==
  ASSUME DnodeInv, NEW t \in Task, Dnode!DropDbuf(t) PROVE DnodeInv'
<1> USE CallbacksAssumption DEF Dnode!DnodeAssumption
<1>1. DnodeBecomes(t, "orphan", task[t].place)
  BY DnodeGoBecomes DEF DnodeInv, Dnode!DropDbuf, Places
<1>2. /\ task[t].pc = "handle" /\ Dnode!Using(t) /\ handle # None
      /\ dbufs \in Nat /\ dbufs > 0 /\ dbufs' = dbufs - 1
      /\ UNCHANGED <<given, valid, handle, zrl, mtx, holds, move>>
  BY DEF Dnode!DropDbuf, Dnode!At, Dnode!locks, Dnode!Using, DnodeInv, UsersOK, Dnode!TypeOK
<1>3. Dnode!TypeOK'
  <2>1. dbufs' \in Nat
    BY <1>2
  <2> QED
    BY <1>1, <1>2, <2>1 DEF DnodeInv, Dnode!TypeOK, DnodeBecomes, Places
<1>4. UsersOK'
  BY <1>1, <1>2, StillUsing DEF Places
<1>5. LocksOK'
  BY <1>1, <1>2 DEF DnodeInv, Dnode!TypeOK, LocksOK, Owns, InHandle, DnodeBecomes
<1>6. HoldsOK'
  <2>1. t \notin Holders
    BY <1>2 DEF Holders
  <2>2. Cardinality(Holders) \in Nat /\ Cardinality(Holders') = Cardinality(Holders) + 1
    BY <1>1, <2>1, OneHolderMore
  <2> QED
    BY <1>2, <2>2 DEF DnodeInv, HoldsOK, Dnode!TypeOK
<1>7. DnodeMoveOK'
  <2>1. ~Locked
    BY <1>2 DEF DnodeInv, DnodeMoveOK, LocksOK, InHandle
  <2> QED
    BY <1>2, <2>1, CallbackUnmoved
<1> QED
  BY <1>3, <1>4, <1>5, <1>6, <1>7 DEF DnodeInv

LEMMA ReleOK ==
  ASSUME DnodeInv, NEW t \in Task, Dnode!Rele(t) PROVE DnodeInv'
<1> USE CallbacksAssumption DEF Dnode!DnodeAssumption
<1>1. DnodeBecomes(t, "dropped", task[t].place)
  BY DnodeGoBecomes DEF DnodeInv, Dnode!Rele, Places
<1>2. /\ task[t].pc = "dropping" /\ Dnode!Using(t) /\ holds \in Nat /\ holds' = holds - 1
      /\ UNCHANGED <<given, valid, handle, zrl, mtx, dbufs, move>>
  BY DEF Dnode!Rele, Dnode!At, Dnode!locks, Dnode!Using, DnodeInv, UsersOK, Dnode!TypeOK
<1>3. /\ Holders' = Holders \ {t} /\ Cardinality(Holders) \in Nat
      /\ Cardinality(Holders) > 0 /\ Cardinality(Holders') = Cardinality(Holders) - 1
  <2>1. t \in Holders
    BY <1>2 DEF Holders
  <2> QED
    BY <1>1, <2>1, OneHolderLess DEF Places
<1>4. HoldsOK' /\ holds' \in Nat
  BY <1>2, <1>3 DEF DnodeInv, HoldsOK, Dnode!TypeOK
<1>5. Dnode!TypeOK'
  BY <1>1, <1>2, <1>4 DEF DnodeInv, Dnode!TypeOK, DnodeBecomes, Places
<1>6. UsersOK'
  BY <1>1, <1>2, StillUsing DEF Places
<1>7. LocksOK'
  BY <1>1, <1>2 DEF DnodeInv, Dnode!TypeOK, LocksOK, Owns, InHandle, DnodeBecomes
<1>8. DnodeMoveOK'
  BY <1>2, <1>3, CallbackUnmoved
<1> QED
  BY <1>4, <1>5, <1>6, <1>7, <1>8 DEF DnodeInv

LEMMA UnlockOK ==
  ASSUME DnodeInv, NEW t \in Task, Dnode!Unlock(t) PROVE DnodeInv'
<1> USE CallbacksAssumption DEF Dnode!DnodeAssumption
<1>1. DnodeBecomes(t, "idle", None)
  BY DnodeNewBecomes DEF DnodeInv, Dnode!Unlock, Dnode!Still, Places
<1>2. /\ task[t].pc = "dropped" /\ Dnode!Using(t) /\ task[t].place = handle /\ handle \in Place
      /\ mtx[handle] = t /\ mtx' = [mtx EXCEPT ![handle] = None] /\ zrl' = zrl \ {t}
      /\ UNCHANGED <<given, valid, handle, holds, dbufs, move>>
  BY DEF Dnode!Unlock, Dnode!At, Dnode!Using, DnodeInv, UsersOK, Dnode!TypeOK, LocksOK, Owns
<1>3. Dnode!TypeOK'
  BY <1>1, <1>2 DEF DnodeInv, Dnode!TypeOK, DnodeBecomes, Places
<1>4. UsersOK'
  BY <1>1, <1>2, StillUsing DEF Places
<1>5. LocksOK'
  <2>1. mtx'[handle] = None /\ \A p \in Place : p # handle => mtx'[p] = mtx[p]
    BY <1>2 DEF DnodeInv, Dnode!TypeOK
  <2>2. ~Owns(t)' /\ ~InHandle(t)'
    BY <1>1 DEF Owns, InHandle, DnodeBecomes
  <2>3. \A u \in Task : u # t => Owns(u)' = Owns(u) /\ InHandle(u)' = InHandle(u)
                                /\ task'[u] = task[u]
    BY <1>1 DEF DnodeBecomes, Owns, InHandle
  <2>4. \A u \in Task : Owns(u) /\ u # t => task[u].place # handle /\ task[u].place \in Place
    BY <1>2 DEF DnodeInv, Dnode!TypeOK, LocksOK, Owns, UsersOK, Dnode!Using
  <2>5. \A p \in Place : p # handle /\ mtx[p] # None => mtx[p] # t /\ mtx[p] \in Task
    BY <1>2 DEF DnodeInv, Dnode!TypeOK, LocksOK
  <2> QED
    BY <1>2, <2>1, <2>2, <2>3, <2>4, <2>5 DEF DnodeInv, LocksOK
<1>6. Holders' = Holders
  <2>1. t \notin Holders
    BY <1>2 DEF Holders
  <2> QED
    BY <1>1, <2>1, SameHolders DEF Places
<1>7. HoldsOK'
  BY <1>2, <1>6 DEF DnodeInv, HoldsOK
<1>8. DnodeMoveOK'
  <2>1. Locked => zrl' = zrl
    BY <1>2 DEF DnodeInv, DnodeMoveOK
  <2>2. DnodeMover \in zrl' <=> DnodeMover \in zrl
    BY <1>2
  <2>3. Locked => (mtx[move.old] = None => mtx'[move.old] = None)
    BY <1>2 DEF DnodeInv, DnodeMoveOK
  <2> QED
    BY <1>2, <1>6, <2>1, <2>2, <2>3, CallbackUnmoved
<1> QED
  BY <1>3, <1>4, <1>5, <1>7, <1>8 DEF DnodeInv

LEMMA DnodeDestroyOK ==
  ASSUME DnodeInv, NEW t \in Task, Dnode!Destroy(t) PROVE DnodeInv'
<1> USE CallbacksAssumption DEF Dnode!DnodeAssumption
<1>1. DnodeBecomes(t, "frees", task[t].place)
  BY DnodeGoBecomes DEF DnodeInv, Dnode!Destroy, Places
<1>2. /\ task[t].pc = "handle" /\ Dnode!Using(t) /\ task[t].place = handle /\ handle \in Place
      /\ zrl = {t} /\ zrl' = {} /\ holds = 0 /\ mtx[handle] = None
      /\ valid' = valid \ {handle} /\ handle' = None
      /\ UNCHANGED <<given, mtx, holds, dbufs, move>>
  BY DEF Dnode!Destroy, Dnode!At, Dnode!Using, DnodeInv, UsersOK, Dnode!TypeOK
<1>3. ~Locked
  BY <1>2 DEF DnodeInv, DnodeMoveOK
<1>4. Holders = {} /\ dbufs = 0
  <2>1. /\ IsFiniteSet(Holders) /\ Cardinality(Holders) \in Nat
        /\ Cardinality(Holders) = 0 => Holders = {}
    BY <1>1, CountHolders DEF Places
  <2> QED
    BY <1>2, <2>1 DEF DnodeInv, HoldsOK, Dnode!TypeOK
<1>5. \A u \in Task : u # t => ~Dnode!Using(u)
  <2>1. \A u \in Task : u # t => ~InHandle(u)
    BY <1>2 DEF DnodeInv, LocksOK
  <2>2. \A u \in Task : ~Owns(u)
    BY <1>2 DEF DnodeInv, LocksOK, UsersOK, Dnode!Using, Owns
  <2> QED
    BY <1>4, <2>1, <2>2, TaskFields DEF Holders, Dnode!Using, Owns, InHandle, Places, DnodeInv
<1>6. Dnode!TypeOK'
  BY <1>1, <1>2 DEF DnodeInv, Dnode!TypeOK, DnodeBecomes, Places
<1>7. \A u \in Task : u # t =>
       /\ Dnode!Using(u)' = Dnode!Using(u) /\ DnodeApart(u)' = DnodeApart(u)
       /\ task'[u] = task[u]
  BY <1>1 DEF DnodeBecomes, Dnode!Using, DnodeApart
<1>8. \A q : DnodeSpare(q)' = DnodeSpare(q) /\ DnodeVacated(q)' = DnodeVacated(q)
  BY <1>2 DEF DnodeSpare, DnodeVacated
<1>9. task'[t].pc = "frees" /\ task'[t].place = handle
  BY <1>1, <1>2 DEF DnodeBecomes
<1>10. UsersOK'
  <2>1. \A u \in Task : ~Dnode!Using(u)'
    BY <1>5, <1>7, <1>9 DEF Dnode!Using
  <2>2. handle \in given /\ ~DnodeSpare(handle) /\ ~DnodeVacated(handle) /\ handle # None
    BY <1>2 DEF DnodeInv, UsersOK, DnodeMoveOK, DnodeSpare, DnodeVacated
  <2>3. \A u \in Task : u # t /\ DnodeApart(u) =>
          /\ task[u].place # handle /\ task[u].place \in given
          /\ task[u].pc # "fresh" /\ task[u].place \in Place
    BY <2>2 DEF DnodeInv, UsersOK, Dnode!TypeOK
  <2> QED
    BY <1>2, <1>7, <1>8, <1>9, <2>1, <2>2, <2>3 DEF DnodeInv, UsersOK
<1>11. LocksOK'
  <2>1. \A u \in Task : ~Owns(u)' /\ ~InHandle(u)'
    BY <1>5, <1>7, <1>9 DEF Dnode!Using, Owns, InHandle
  <2>2. \A p \in Place : mtx[p] = None
    BY <1>2, <1>5 DEF DnodeInv, Dnode!TypeOK, LocksOK, Owns, Dnode!Using
  <2> QED
    BY <1>2, <2>1, <2>2 DEF LocksOK
<1>12. HoldsOK'
  <2>1. t \notin Holders
    BY <1>2 DEF Holders
  <2>2. Holders' = Holders
    BY <1>1, <2>1, SameHolders DEF Places
  <2> QED
    BY <1>2, <1>4, <2>2 DEF DnodeInv, HoldsOK
<1>13. DnodeMoveOK'
  BY <1>2, <1>3, <1>8 DEF DnodeInv, Dnode!TypeOK, DnodeMoveOK, Locked
<1> QED
  BY <1>6, <1>10, <1>11, <1>12, <1>13 DEF DnodeInv

LEMMA GiveBackOK ==
  ASSUME DnodeInv, NEW t \in Task, Dnode!GiveBack(t) PROVE DnodeInv'
<1> USE CallbacksAssumption DEF Dnode!DnodeAssumption
<1>1. DnodeBecomes(t, "idle", None)
  BY DnodeNewBecomes DEF DnodeInv, Dnode!GiveBack, Dnode!Still, Places
<1>2. /\ task[t].pc = "frees" /\ DnodeApart(t) /\ given' = given \ {task[t].place}
      /\ UNCHANGED <<valid, handle, zrl, mtx, holds, dbufs, move>>
  BY DEF Dnode!GiveBack, Dnode!At, Dnode!locks, DnodeApart
<1>3. task[t].place # handle /\ ~DnodeSpare(task[t].place) /\ ~DnodeVacated(task[t].place)
  BY <1>2 DEF DnodeInv, UsersOK
<1>4. Dnode!TypeOK'
  BY <1>1, <1>2 DEF DnodeInv, Dnode!TypeOK, DnodeBecomes, Places
<1>5. \A u \in Task : u # t =>
       /\ Dnode!Using(u)' = Dnode!Using(u) /\ DnodeApart(u)' = DnodeApart(u)
       /\ task'[u] = task[u]
  BY <1>1 DEF DnodeBecomes, Dnode!Using, DnodeApart
<1>6. \A q : DnodeSpare(q)' = DnodeSpare(q) /\ DnodeVacated(q)' = DnodeVacated(q)
  BY <1>2 DEF DnodeSpare, DnodeVacated
<1>7. ~Dnode!Using(t)' /\ ~DnodeApart(t)'
  BY <1>1 DEF DnodeBecomes, Dnode!Using, DnodeApart
<1>8. UsersOK'
  <2>1. \A u \in Task : u # t /\ DnodeApart(u) => task[u].place # task[t].place
    BY <1>2 DEF DnodeInv, UsersOK
  <2> QED
    BY <1>2, <1>3, <1>5, <1>6, <1>7, <2>1 DEF DnodeInv, UsersOK
<1>9. LocksOK'
  BY <1>1, <1>2 DEF DnodeInv, Dnode!TypeOK, LocksOK, Owns, InHandle, DnodeBecomes
<1>10. HoldsOK'
  <2>1. t \notin Holders
    BY <1>2 DEF Holders
  <2>2. Holders' = Holders
    BY <1>1, <2>1, SameHolders DEF Places
  <2> QED
    BY <1>2, <2>2 DEF DnodeInv, HoldsOK
<1>11. DnodeMoveOK'
  <2>1. Holders' = Holders
    BY <1>1, <1>2, SameHolders DEF Places, Holders
  <2> QED
    BY <1>2, <1>3, <1>6, <2>1 DEF DnodeInv, DnodeMoveOK, Locked, DnodeSpare, DnodeVacated
<1> QED
  BY <1>4, <1>8, <1>9, <1>10, <1>11 DEF DnodeInv

\* Who has os_lock or os->os_lock says nothing of the dnode.
LEMMA OthersLockOK ==
  ASSUME DnodeInv, UNCHANGED <<given, valid, handle, zrl, mtx, holds, dbufs, task, move>>
  PROVE  DnodeInv'
BY DEF DnodeInv, Dnode!TypeOK, UsersOK, LocksOK, HoldsOK, DnodeMoveOK, Dnode!Using, Owns,
       DnodeApart, InHandle, Holders, Locked, DnodeSpare, DnodeVacated

-----------------------------------------------------------------------------
(* The callback. *)

\* What its steps leave to the users.
LEMMA LeftToUsers ==
  ASSUME DnodeInv, UNCHANGED <<holds, dbufs, task, mtx>>,
         (handle = None) <=> (handle' = None),
         \A u \in Task : u \in zrl => u \in zrl'
  PROVE  LocksOK' /\ HoldsOK' /\ Holders' = Holders
<1>1. Holders' = Holders
  BY DEF Holders
<1>2. \A u \in Task : Owns(u)' = Owns(u) /\ InHandle(u)' = InHandle(u)
  BY DEF Owns, InHandle
<1> QED
  BY <1>1, <1>2 DEF DnodeInv, Dnode!TypeOK, LocksOK, HoldsOK, Owns

LEMMA DnodeOfferOK ==
  ASSUME DnodeInv, Dnode!OfferDnode PROVE DnodeInv'
<1> USE CallbacksAssumption DEF Dnode!DnodeAssumption
<1>1. PICK old \in given, new \in Place \ given :
        /\ move' = [pc |-> "offered", old |-> old, new |-> new, answer |-> None]
        /\ given' = given \cup {new}
  BY DEF Dnode!OfferDnode
<1>2. move.pc = "idle" /\ move.answer = None
      /\ UNCHANGED <<valid, handle, zrl, mtx, holds, dbufs, task>>
  BY DEF Dnode!OfferDnode, Dnode!Moving, Dnode!locks, DnodeInv, DnodeMoveOK
<1>3. Dnode!TypeOK'
  BY <1>1, <1>2 DEF DnodeInv, Dnode!TypeOK
<1>4. /\ move'.pc = "offered" /\ move'.old = old /\ move'.new = new /\ move'.answer = None
  BY <1>1
<1>5. LocksOK' /\ HoldsOK' /\ Holders' = Holders
  BY <1>2, LeftToUsers
<1>6. /\ \A q : DnodeSpare(q)' <=> q = new
      /\ \A q : ~DnodeVacated(q)' /\ ~DnodeVacated(q) /\ ~DnodeSpare(q)
  BY <1>2, <1>4 DEF DnodeSpare, DnodeVacated
<1>7. \A u \in Task : Dnode!Using(u)' = Dnode!Using(u) /\ DnodeApart(u)' = DnodeApart(u)
  BY <1>2 DEF Dnode!Using, DnodeApart
<1>8. UsersOK'
  <2>1. \A u \in Task : DnodeApart(u) => task[u].place # new
    BY DEF DnodeInv, UsersOK
  <2> QED
    BY <1>1, <1>2, <1>6, <1>7, <2>1 DEF DnodeInv, UsersOK
<1>9. DnodeMoveOK'
  <2>1. new # handle /\ new # old /\ old \in Place /\ new \in Place /\ ~Locked /\ ~Locked'
    BY <1>2, <1>4 DEF DnodeInv, Dnode!TypeOK, UsersOK, Locked
  <2>2. old \in valid => old = handle
    BY <1>6 DEF DnodeInv, DnodeMoveOK
  <2> QED
    BY <1>1, <1>2, <1>4, <1>6, <2>1, <2>2 DEF DnodeInv, DnodeMoveOK
<1> QED
  BY <1>3, <1>5, <1>8, <1>9 DEF DnodeInv
\* The memory stays where it is, and the callback is at another stage.
LEMMA StageOK ==
  ASSUME DnodeInv, NEW pc \in DnodeStages \ {"idle"},
         move.pc # "idle", move.pc # "answered",
         NEW answer \in DnodeAnswers \ {"YES"},
         move' = [move EXCEPT !.pc = pc, !.answer = answer],
         UNCHANGED <<Dnode!Owners, mtx>>, zrl' \subseteq Task \cup {DnodeMover},
         \A u \in Task : u \in zrl => u \in zrl'
  PROVE  /\ Dnode!TypeOK' /\ UsersOK' /\ LocksOK' /\ HoldsOK' /\ Holders' = Holders
         /\ \A q : DnodeSpare(q)' = DnodeSpare(q)
         /\ move'.pc = pc /\ move'.answer = answer
         /\ move'.old = move.old /\ move'.new = move.new
<1> USE CallbacksAssumption DEF Dnode!DnodeAssumption
<1>1. /\ move'.pc = pc /\ move'.answer = answer /\ move'.old = move.old /\ move'.new = move.new
      /\ move' \in [pc : DnodeStages, old : Place \cup {None}, new : Place \cup {None},
                    answer : DnodeAnswers]
  BY MoveFields DEF DnodeInv
<1>2. UNCHANGED <<given, valid, handle, holds, dbufs, task>>
  BY DEF Dnode!Owners
<1>3. Dnode!TypeOK'
  BY <1>1, <1>2 DEF DnodeInv, Dnode!TypeOK, DnodeStages, DnodeAnswers
<1>4. /\ \A q : DnodeSpare(q)' = DnodeSpare(q)
      /\ \A q : ~DnodeVacated(q)' /\ ~DnodeVacated(q)
  BY <1>1 DEF DnodeSpare, DnodeVacated, DnodeInv, DnodeMoveOK
<1>5. UsersOK'
  BY <1>2, <1>4 DEF DnodeInv, UsersOK, Dnode!Using, DnodeApart
<1>6. LocksOK' /\ HoldsOK' /\ Holders' = Holders
  BY <1>2, LeftToUsers
<1> QED
  BY <1>1, <1>3, <1>4, <1>5, <1>6

LEMMA OntoOK ==
  ASSUME DnodeInv, NEW pc \in DnodeStages \ {"idle", "answered"}, Dnode!Onto(pc),
         move.pc # "idle", move.pc # "answered",
         UNCHANGED <<Dnode!Owners, mtx>>, zrl' \subseteq Task \cup {DnodeMover},
         \A u \in Task : u \in zrl => u \in zrl'
  PROVE  /\ Dnode!TypeOK' /\ UsersOK' /\ LocksOK' /\ HoldsOK' /\ Holders' = Holders
         /\ \A q : DnodeSpare(q)' = DnodeSpare(q)
         /\ move'.pc = pc /\ move'.answer = None
         /\ move'.old = move.old /\ move'.new = move.new
<1>1. move.answer = None /\ None \in DnodeAnswers \ {"YES"}
  BY CallbacksAssumption DEF DnodeInv, DnodeMoveOK, Dnode!DnodeAssumption, DnodeAnswers
<1>2. move' = [move EXCEPT !.pc = pc, !.answer = None]
  BY <1>1 DEF Dnode!Onto, DnodeInv, Dnode!TypeOK
<1> QED
  BY <1>1, <1>2, StageOK

LEMMA RefuseOK ==
  ASSUME DnodeInv, NEW answer \in {"LATER", "DONT_KNOW"}, Dnode!Refuse(answer),
         move.pc # "idle", move.pc # "answered"
  PROVE  DnodeInv'
<1>1. /\ move' = [move EXCEPT !.pc = "answered", !.answer = answer]
      /\ zrl' = zrl \ {DnodeMover} /\ UNCHANGED <<Dnode!Owners, mtx>>
  BY DEF Dnode!Refuse
<1>2. /\ zrl' \subseteq Task \cup {DnodeMover}
      /\ \A u \in Task : u \in zrl => u \in zrl'
  BY <1>1, CallbacksAssumption DEF DnodeInv, Dnode!TypeOK, Dnode!DnodeAssumption
<1>3. /\ Dnode!TypeOK' /\ UsersOK' /\ LocksOK' /\ HoldsOK' /\ Holders' = Holders
      /\ \A q : DnodeSpare(q)' = DnodeSpare(q)
      /\ move'.pc = "answered" /\ move'.answer = answer
      /\ move'.old = move.old /\ move'.new = move.new
  <2>1. answer \in DnodeAnswers \ {"YES"} /\ "answered" \in DnodeStages \ {"idle"}
    BY DEF DnodeAnswers, DnodeStages
  <2> QED
    BY <1>1, <1>2, <2>1, StageOK
<1>4. move.answer # "YES"
  BY CallbacksAssumption DEF DnodeInv, DnodeMoveOK, Dnode!DnodeAssumption
<1>5. DnodeMoveOK'
  BY <1>1, <1>3, <1>4 DEF DnodeInv, DnodeMoveOK, Locked, Dnode!Owners
<1> QED
  BY <1>3, <1>5 DEF DnodeInv

LEMMA TryOsLockOK ==
  ASSUME DnodeInv, Dnode!TryOsLock PROVE DnodeInv'
<1>1. move.pc = "offered"
  BY DEF Dnode!TryOsLock, Dnode!Moving
<1>2. CASE Dnode!Refuse("DONT_KNOW") \/ Dnode!Refuse("LATER")
  BY <1>1, <1>2, RefuseOK
<1>3. CASE Dnode!Onto("os_lock") /\ UNCHANGED <<Dnode!Owners, zrl, mtx>>
  <2>1. "os_lock" \in DnodeStages \ {"idle", "answered"}
    BY DEF DnodeStages
  <2>2. /\ Dnode!TypeOK' /\ UsersOK' /\ LocksOK' /\ HoldsOK'
        /\ \A q : DnodeSpare(q)' = DnodeSpare(q)
        /\ move'.pc = "os_lock" /\ move'.answer = None
        /\ move'.old = move.old /\ move'.new = move.new
    BY <1>1, <1>3, <2>1, OntoOK DEF DnodeInv, Dnode!TypeOK
  <2>3. DnodeMoveOK'
    BY <1>1, <1>3, <2>2, CallbacksAssumption
       DEF DnodeInv, DnodeMoveOK, Locked, Dnode!Owners, Dnode!DnodeAssumption
  <2> QED
    BY <2>2, <2>3 DEF DnodeInv
<1> QED
  BY <1>2, <1>3 DEF Dnode!TryOsLock

LEMMA TryObjsetLockOK ==
  ASSUME DnodeInv, Dnode!TryObjsetLock PROVE DnodeInv'
<1>1. move.pc = "os_lock"
  BY DEF Dnode!TryObjsetLock, Dnode!Moving
<1>2. CASE Dnode!Refuse("DONT_KNOW") \/ Dnode!Refuse("LATER")
  BY <1>1, <1>2, RefuseOK
<1>3. CASE Dnode!Onto("objset") /\ UNCHANGED <<Dnode!Owners, zrl, mtx>>
  <2>1. "objset" \in DnodeStages \ {"idle", "answered"}
    BY DEF DnodeStages
  <2>2. /\ Dnode!TypeOK' /\ UsersOK' /\ LocksOK' /\ HoldsOK'
        /\ \A q : DnodeSpare(q)' = DnodeSpare(q)
        /\ move'.pc = "objset" /\ move'.answer = None
        /\ move'.old = move.old /\ move'.new = move.new
    BY <1>1, <1>3, <2>1, OntoOK DEF DnodeInv, Dnode!TypeOK
  <2>3. DnodeMoveOK'
    BY <1>1, <1>3, <2>2, CallbacksAssumption
       DEF DnodeInv, DnodeMoveOK, Locked, Dnode!Owners, Dnode!DnodeAssumption
  <2> QED
    BY <2>2, <2>3 DEF DnodeInv
<1> QED
  BY <1>2, <1>3 DEF Dnode!TryObjsetLock

LEMMA TryHandleOK ==
  ASSUME DnodeInv, Dnode!TryHandle PROVE DnodeInv'
<1>1. move.pc = "objset"
  BY DEF Dnode!TryHandle, Dnode!Moving
<1>2. CASE Dnode!Refuse("DONT_KNOW") \/ Dnode!Refuse("LATER")
  BY <1>1, <1>2, RefuseOK
<1>3. CASE /\ move.old \in valid /\ zrl = {} /\ zrl' = {DnodeMover}
           /\ Dnode!Onto("handle") /\ UNCHANGED <<Dnode!Owners, mtx>>
  <2>1. "handle" \in DnodeStages \ {"idle", "answered"}
    BY DEF DnodeStages
  <2>2. /\ Dnode!TypeOK' /\ UsersOK' /\ LocksOK' /\ HoldsOK'
        /\ \A q : DnodeSpare(q)' = DnodeSpare(q)
        /\ move'.pc = "handle" /\ move'.answer = None
        /\ move'.old = move.old /\ move'.new = move.new
    BY <1>1, <1>3, <2>1, OntoOK
  <2>3. DnodeMoveOK'
    BY <1>1, <1>3, <2>2, CallbacksAssumption
       DEF DnodeInv, DnodeMoveOK, Locked, Dnode!Owners, Dnode!DnodeAssumption
  <2> QED
    BY <2>2, <2>3 DEF DnodeInv
<1> QED
  BY <1>2, <1>3 DEF Dnode!TryHandle

\* With the handle locked no more holds are of users than there are holders.
LEMMA CountHoldsOK ==
  ASSUME DnodeInv, Dnode!CountHolds PROVE DnodeInv'
<1>1. move.pc = "handle"
  BY DEF Dnode!CountHolds, Dnode!Moving
<1>2. CASE Dnode!Refuse("LATER")
  BY <1>1, <1>2, RefuseOK
<1>3. CASE ~(holds > dbufs) /\ Dnode!Onto("counted") /\ UNCHANGED <<Dnode!Owners, zrl, mtx>>
  <2>1. "counted" \in DnodeStages \ {"idle", "answered"}
    BY DEF DnodeStages
  <2>2. /\ Dnode!TypeOK' /\ UsersOK' /\ LocksOK' /\ HoldsOK' /\ Holders' = Holders
        /\ \A q : DnodeSpare(q)' = DnodeSpare(q)
        /\ move'.pc = "counted" /\ move'.answer = None
        /\ move'.old = move.old /\ move'.new = move.new
    BY <1>1, <1>3, <2>1, OntoOK DEF DnodeInv, Dnode!TypeOK
  <2>3. Holders = {}
    <3>1. IsFiniteSet(Holders)
      BY FewTasks, FS_Subset DEF Holders
    <3>2. Cardinality(Holders) \in Nat /\ (Cardinality(Holders) = 0 <=> Holders = {})
      BY <3>1, FS_CardinalityType, FS_EmptySet
    <3> QED
      BY <1>3, <3>2 DEF DnodeInv, HoldsOK, Dnode!TypeOK
  <2>4. DnodeMoveOK'
    BY <1>1, <1>3, <2>2, <2>3, CallbacksAssumption
       DEF DnodeInv, DnodeMoveOK, Locked, Dnode!Owners, Dnode!DnodeAssumption
  <2> QED
    BY <2>2, <2>4 DEF DnodeInv
<1> QED
  BY <1>2, <1>3 DEF Dnode!CountHolds, Dnode!locks

LEMMA CheckMtxOK ==
  ASSUME DnodeInv, Dnode!CheckMtx PROVE DnodeInv'
<1>1. move.pc = "counted"
  BY DEF Dnode!CheckMtx, Dnode!Moving
<1>2. CASE Dnode!Refuse("LATER")
  BY <1>1, <1>2, RefuseOK
<1>3. CASE mtx[move.old] = None /\ Dnode!Onto("owner") /\ UNCHANGED <<Dnode!Owners, zrl, mtx>>
  <2>1. "owner" \in DnodeStages \ {"idle", "answered"}
    BY DEF DnodeStages
  <2>2. /\ Dnode!TypeOK' /\ UsersOK' /\ LocksOK' /\ HoldsOK' /\ Holders' = Holders
        /\ \A q : DnodeSpare(q)' = DnodeSpare(q)
        /\ move'.pc = "owner" /\ move'.answer = None
        /\ move'.old = move.old /\ move'.new = move.new
    BY <1>1, <1>3, <2>1, OntoOK DEF DnodeInv, Dnode!TypeOK
  <2>3. DnodeMoveOK'
    BY <1>1, <1>3, <2>2, CallbacksAssumption
       DEF DnodeInv, DnodeMoveOK, Locked, Dnode!Owners, Dnode!DnodeAssumption
  <2> QED
    BY <2>2, <2>3 DEF DnodeInv
<1> QED
  BY <1>2, <1>3 DEF Dnode!CheckMtx, Dnode!locks
\* Nobody has come to use a dnode that is to be copied.
LEMMA DnodeCopyOK ==
  ASSUME DnodeInv, Dnode!CopyDnode PROVE DnodeInv'
<1> USE CallbacksAssumption DEF Dnode!DnodeAssumption
<1>1. /\ move.pc = "owner" /\ handle' = move.new
      /\ valid' = (valid \ {move.old}) \cup {move.new}
      /\ move' = [move EXCEPT !.pc = "answered", !.answer = "YES"] /\ zrl' = {}
      /\ UNCHANGED <<given, holds, dbufs, task, mtx>>
  BY DEF Dnode!CopyDnode, Dnode!Moving
<1>2. /\ move'.pc = "answered" /\ move'.answer = "YES"
      /\ move'.old = move.old /\ move'.new = move.new
      /\ move' \in [pc : DnodeStages, old : Place \cup {None}, new : Place \cup {None},
                    answer : DnodeAnswers]
  BY <1>1, MoveFields DEF DnodeInv, DnodeStages, DnodeAnswers
<1>3. /\ zrl = {DnodeMover} /\ handle = move.old /\ Holders = {} /\ mtx[move.old] = None
      /\ move.answer = None /\ move.old \in Place /\ move.new \in Place /\ move.old # move.new
      /\ move.new \in given
  BY <1>1 DEF DnodeInv, DnodeMoveOK, Locked
<1>4. handle # None /\ handle' # None /\ handle \in given
  BY <1>1, <1>3 DEF DnodeInv, UsersOK
<1>5. \A u \in Task : ~Dnode!Using(u)
  <2>1. \A u \in Task : ~InHandle(u)
    BY <1>3 DEF DnodeInv, LocksOK
  <2>2. \A u \in Task : ~Owns(u)
    BY <1>3 DEF DnodeInv, LocksOK, UsersOK, Dnode!Using, Owns
  <2> QED
    BY <1>3, <2>1, <2>2, TaskFields DEF Holders, Dnode!Using, Owns, InHandle, Places, DnodeInv
<1>6. Dnode!TypeOK'
  BY <1>1, <1>2, <1>3 DEF DnodeInv, Dnode!TypeOK, DnodeStages, DnodeAnswers
<1>7. UsersOK'
  <2>1. \A u \in Task : Dnode!Using(u)' = Dnode!Using(u) /\ DnodeApart(u)' = DnodeApart(u)
    BY <1>1 DEF Dnode!Using, DnodeApart
  <2>2. /\ \A q : DnodeSpare(q) <=> q = move.new
        /\ \A q : ~DnodeSpare(q)' /\ (DnodeVacated(q)' <=> q = handle)
    BY <1>1, <1>2, <1>3 DEF DnodeSpare, DnodeVacated
  <2>3. \A u \in Task : DnodeApart(u) => task[u].pc # "fresh" /\ task[u].place # move.new
    BY <1>4, <2>2 DEF DnodeInv, UsersOK
  <2> QED
    BY <1>1, <1>3, <1>4, <1>5, <2>1, <2>2, <2>3 DEF DnodeInv, UsersOK
<1>8. LocksOK' /\ HoldsOK' /\ Holders' = Holders
  BY <1>1, <1>3, <1>4, LeftToUsers
<1>9. DnodeMoveOK'
  <2>1. \A q \in given : q \in valid => q = move.old \/ q = move.new
    BY <1>3 DEF DnodeInv, DnodeMoveOK, DnodeSpare
  <2> QED
    BY <1>1, <1>2, <1>3, <1>4, <2>1 DEF DnodeMoveOK, Locked
<1> QED
  BY <1>6, <1>7, <1>8, <1>9 DEF DnodeInv

LEMMA DnodeSettleOK ==
  ASSUME DnodeInv, Dnode!SettleDnode PROVE DnodeInv'
<1> USE CallbacksAssumption DEF Dnode!DnodeAssumption
<1> DEFINE left == IF move.answer = "YES" THEN move.old ELSE move.new
<1>1. /\ move.pc = "answered" /\ given' = given \ {left}
      /\ move' = Dnode!NoMove /\ UNCHANGED <<valid, handle, zrl, mtx, holds, dbufs, task>>
  BY DEF Dnode!SettleDnode, Dnode!Moving, Dnode!locks
<1>2. /\ move'.pc = "idle" /\ move'.answer = None /\ move'.old = None /\ move'.new = None
      /\ move' \in [pc : {"idle"}, old : {None}, new : {None}, answer : {None}]
  BY <1>1 DEF Dnode!NoMove
<1>3. Dnode!TypeOK'
  BY <1>1, <1>2 DEF DnodeInv, Dnode!TypeOK
<1>4. LocksOK' /\ HoldsOK' /\ Holders' = Holders
  BY <1>1, LeftToUsers
<1>5. left # handle /\ \A q : (DnodeSpare(q) \/ DnodeVacated(q)) <=> q = left
  BY <1>1 DEF DnodeSpare, DnodeVacated, DnodeInv, DnodeMoveOK
<1>6. \A q : ~DnodeSpare(q)' /\ ~DnodeVacated(q)'
  BY <1>2 DEF DnodeSpare, DnodeVacated
<1>7. UsersOK'
  <2>1. \A u \in Task : Dnode!Using(u)' = Dnode!Using(u) /\ DnodeApart(u)' = DnodeApart(u)
    BY <1>1 DEF Dnode!Using, DnodeApart
  <2> HIDE DEF left
  <2> QED
    BY <1>1, <1>5, <1>6, <2>1 DEF DnodeInv, UsersOK
<1>8. DnodeMoveOK'
  <2>1. ~Locked /\ ~Locked'
    BY <1>1, <1>2 DEF Locked
  <2> HIDE DEF left
  <2> QED
    BY <1>1, <1>2, <1>5, <2>1 DEF DnodeInv, DnodeMoveOK
<1> QED
  BY <1>3, <1>4, <1>7, <1>8 DEF DnodeInv

-----------------------------------------------------------------------------
\* The invariant is kept by every step.
LEMMA DnodeStepOK == ASSUME DnodeInv, [Dnode!Next]_(Dnode!vars) PROVE DnodeInv'
<1>1. ASSUME NEW t \in Task,
             \/ Dnode!Construct(t) \/ Dnode!Create(t) \/ Dnode!EnterHandle(t)
             \/ Dnode!Hold(t) \/ Dnode!AddDbuf(t) \/ Dnode!DropDbuf(t) \/ Dnode!Rele(t)
             \/ Dnode!Unlock(t) \/ Dnode!Destroy(t) \/ Dnode!GiveBack(t)
      PROVE  DnodeInv'
  BY <1>1, ConstructOK, CreateOK, EnterHandleOK, DnodeHoldOK, AddDbufOK, DropDbufOK, ReleOK,
     UnlockOK, DnodeDestroyOK, GiveBackOK
<1>2. ASSUME NEW t \in Task, Dnode!EnterMtx(t, "handle", "adding") PROVE DnodeInv'
  BY <1>2, EnterMtxOK
<1>3. ASSUME NEW t \in Task, NEW from \in {"holds", "orphan"},
             Dnode!EnterMtx(t, from, "dropping")
      PROVE  DnodeInv'
  BY <1>3, EnterMtxOK
<1>4. CASE Dnode!OthersLock
  BY <1>4, OthersLockOK DEF Dnode!OthersLock
<1>5. CASE \/ Dnode!OfferDnode \/ Dnode!TryOsLock \/ Dnode!TryObjsetLock
           \/ Dnode!TryHandle \/ Dnode!CountHolds \/ Dnode!CheckMtx
           \/ Dnode!CopyDnode \/ Dnode!SettleDnode
  BY <1>5, DnodeOfferOK, TryOsLockOK, TryObjsetLockOK, TryHandleOK, CountHoldsOK, CheckMtxOK,
     DnodeCopyOK, DnodeSettleOK
<1>6. CASE UNCHANGED Dnode!vars
  BY <1>6, OthersLockOK DEF Dnode!vars
<1> QED
  BY <1>1, <1>2, <1>3, <1>4, <1>5, <1>6 DEF Dnode!Next

LEMMA DnodeInvariance == Dnode!Spec => []DnodeInv
<1>1. Dnode!Init => DnodeInv
  BY DnodeInitOK
<1>2. DnodeInv /\ [Dnode!Next]_(Dnode!vars) => DnodeInv'
  BY DnodeStepOK
<1> QED
  BY <1>1, <1>2, PTL DEF Dnode!Spec

\* Owners of a mutex know where the dnode is, and it is neither where it was nor where
\* it would have gone.
LEMMA LeftAlone == ASSUME DnodeInv PROVE Dnode!MovedUnderNobody
<1> USE CallbacksAssumption DEF Dnode!DnodeAssumption
<1>1. \A t \in Task : Dnode!Using(t) => task[t].place = handle
  BY DEF DnodeInv, UsersOK
<1>2. \A p \in Place : mtx[p] # None => p = handle
  BY <1>1 DEF DnodeInv, Dnode!TypeOK, LocksOK, Owns, Dnode!Using
<1>3. ASSUME move.pc = "answered"
      PROVE  mtx[IF move.answer = "YES" THEN move.old ELSE move.new] = None
  BY <1>2, <1>3 DEF DnodeInv, DnodeMoveOK
<1> QED
  BY <1>1, <1>3 DEF DnodeInv, UsersOK, Dnode!MovedUnderNobody, Dnode!Moving, Dnode!Using

\* The dnode's memory is relocated while no thread is on its way through it, for any
\* number of threads, places and dbufs: what dnode_move() finds out under the locks it
\* tries, and under dn_mtx at the end, covers holds that come and go, dbufs whose hold
\* outlives them, and a dnode that is destroyed and made anew in the same memory.
THEOREM DnodesMoveUnderNobody == Dnode!Spec => []MovedUnderNobody
<1>1. DnodeInv => MovedUnderNobody
  BY LeftAlone DEF MovedUnderNobody
<1> QED
  BY <1>1, DnodeInvariance, PTL

-----------------------------------------------------------------------------
DnodeInUse == \E t \in Task : Dnode!Using(t)

\* dnode_create() gives the handle its dnode, dnode_hold() and the last step of
\* dnode_rele() begin and end a use, dnode_destroy() frees it and dnode_move() relocates
\* it; all else leaves the store alone. What dnode_move() moves is a dnode nobody is on
\* the way to or from, and it is found at its new place from the step on that moves it.
THEOREM DnodesKeepContract == Dnode!Spec => Dnode!DnodeStored
<1>1. Dnode!Init => Dnode!Handles!Init
  BY DEF Dnode!Init, Dnode!Still, Dnode!Using, Dnode!Handles!Init
<1>2. ASSUME DnodeInv, [Dnode!Next]_(Dnode!vars)
      PROVE  [Dnode!Handles!Next]_(Dnode!Handles!vars)
  <2> USE <1>2
  <2>1. DnodeInv'
    BY DnodeStepOK
  <2>2. Dnode!Handles!Used = {handle} \ {None}
    BY DEF Dnode!Handles!Used
  <2>3. ASSUME handle' = handle, DnodeInUse' <=> DnodeInUse
        PROVE  UNCHANGED Dnode!Handles!vars
    BY <2>3 DEF Dnode!Handles!vars, DnodeInUse
  <2>4. ASSUME handle = None, handle' \in Place, DnodeInUse'
        PROVE  Dnode!Handles!Allocate("dnode")
    BY <2>2, <2>4 DEF Dnode!Handles!Allocate, DnodeInUse
  <2>5. ASSUME handle # None, handle' = handle
        PROVE  Dnode!Handles!Hold("dnode") \/ Dnode!Handles!LetGo("dnode")
    BY <2>5 DEF Dnode!Handles!Hold, Dnode!Handles!LetGo, DnodeInUse
  <2>6. ASSUME handle # None, handle' = None, ~DnodeInUse'
        PROVE  Dnode!Handles!Free("dnode")
    BY <2>6 DEF Dnode!Handles!Free, DnodeInUse
  <2>7. ASSUME handle # None, handle' \in Place, handle' # handle, ~DnodeInUse, ~DnodeInUse'
        PROVE  Dnode!Handles!Relocate("dnode")
    BY <2>2, <2>7 DEF Dnode!Handles!Relocate, DnodeInUse
  <2>8. ASSUME UNCHANGED handle
        PROVE  [Dnode!Handles!Next]_(Dnode!Handles!vars)
    <3>1. CASE handle = None
      <4>1. ~DnodeInUse /\ ~DnodeInUse'
        BY <2>1, <2>8, <3>1 DEF DnodeInUse, DnodeInv, UsersOK
      <4> QED
        BY <2>3, <2>8, <4>1
    <3>2. CASE handle # None
      BY <2>5, <2>8, <3>2 DEF Dnode!Handles!Next
    <3> QED
      BY <3>1, <3>2
  <2>9. ASSUME NEW t \in Task, Dnode!Create(t)
        PROVE  [Dnode!Handles!Next]_(Dnode!Handles!vars)
    <3>1. task[t].pc = "fresh" /\ handle' = task[t].place /\ Dnode!Go(t, "holds")
      BY <2>9 DEF Dnode!Create, Dnode!At
    <3>2. handle = None /\ handle' \in Place
      BY <3>1 DEF DnodeInv, UsersOK, DnodeApart, Dnode!TypeOK
    <3>3. Dnode!Using(t)'
      BY <3>1 DEF Dnode!Go, Dnode!Using, DnodeInv, Dnode!TypeOK
    <3> QED
      BY <2>4, <3>2, <3>3 DEF Dnode!Handles!Next, DnodeInUse
  <2>10. ASSUME NEW t \in Task, Dnode!Destroy(t)
         PROVE  [Dnode!Handles!Next]_(Dnode!Handles!vars)
    <3>1. task[t].pc = "handle" /\ handle' = None
      BY <2>10 DEF Dnode!Destroy, Dnode!At
    <3>2. handle # None
      BY <3>1 DEF DnodeInv, UsersOK, Dnode!Using
    <3>3. ~DnodeInUse'
      BY <2>1, <3>1 DEF DnodeInv, UsersOK, DnodeInUse
    <3> QED
      BY <2>6, <3>1, <3>2, <3>3 DEF Dnode!Handles!Next
  <2>11. ASSUME Dnode!CopyDnode
         PROVE  [Dnode!Handles!Next]_(Dnode!Handles!vars)
    <3>1. /\ move.pc = "owner" /\ handle' = move.new /\ UNCHANGED task
      BY <2>11 DEF Dnode!CopyDnode, Dnode!Moving
    <3>2. handle \in Place /\ handle # None /\ move.new \in Place /\ move.new # handle
      BY <3>1, MoveFields, CallbacksAssumption
         DEF DnodeInv, DnodeMoveOK, Locked, Dnode!DnodeAssumption
    <3>3. ~DnodeInUse
      <4>1. \A t \in Task : Dnode!Using(t) => task[t].place = handle
        BY DEF DnodeInv, UsersOK
      <4>2. \A t \in Task : Dnode!Using(t)' => task'[t].place = handle'
        BY <2>1 DEF DnodeInv, UsersOK
      <4> QED
        BY <3>1, <3>2, <4>1, <4>2 DEF DnodeInUse, Dnode!Using
    <3>4. ~DnodeInUse'
      BY <3>1, <3>3 DEF DnodeInUse, Dnode!Using
    <3> QED
      BY <2>7, <3>1, <3>2, <3>3, <3>4 DEF Dnode!Handles!Next
  <2>12. \/ UNCHANGED handle \/ Dnode!CopyDnode
         \/ \E t \in Task : Dnode!Create(t) \/ Dnode!Destroy(t)
    BY DEF Dnode!Next, Dnode!Construct, Dnode!EnterHandle, Dnode!EnterMtx, Dnode!Hold,
           Dnode!AddDbuf, Dnode!DropDbuf, Dnode!Rele, Dnode!Unlock, Dnode!GiveBack,
           Dnode!OthersLock, Dnode!OfferDnode, Dnode!TryOsLock, Dnode!TryObjsetLock,
           Dnode!TryHandle, Dnode!CountHolds, Dnode!CheckMtx, Dnode!SettleDnode,
           Dnode!Refuse, Dnode!Owners, Dnode!vars
  <2> QED
    BY <2>8, <2>9, <2>10, <2>11, <2>12
<1> QED
  BY <1>1, <1>2, DnodeInvariance, PTL DEF Dnode!Spec, Dnode!DnodeStored, Dnode!Handles!Spec

-----------------------------------------------------------------------------
(* Both callbacks: a behaviour is one of one of them, while the other component is
   still in a first state. *)

LEMMA StepOfOne == [NextOfOne]_<<vars, dnodeVars, component>>
                     => [Next]_vars /\ [Dnode!Next]_(Dnode!vars)
<1>1. CASE UNCHANGED <<vars, dnodeVars, component>>
  BY <1>1 DEF dnodeVars, Dnode!vars
<1>2. CASE NextOfOne
  <2>1. (Next /\ NoDnode) \/ (Dnode!Next /\ NoHdr)
    BY <1>2, Zenon DEF NextOfOne, Next, Arc, Callback, Dnode!Next
  <2> QED
    BY <2>1 DEF NoDnode, NoHdr, dnodeVars, Dnode!vars
<1> QED
  BY <1>1, <1>2

\* Whichever of the two callbacks is at work, a header or a dnode that somebody holds
\* stays where it is, and what moves does so in one step, to an object nobody uses.
\* (arc_hdr_move(), dnode_move())
THEOREM CallbacksKeepContract == SpecOfOne => ContractKept /\ []MovedUnderNobody
<1>1. InitOfOne => Init /\ Dnode!Init
  BY DEF InitOfOne
<1>2. Spec => HeadersStored
  BY HeadersKeepContract
<1>3. Dnode!Spec => Dnode!DnodeStored
  BY DnodesKeepContract
<1>4. Dnode!Spec => []MovedUnderNobody
  BY DnodesMoveUnderNobody
<1> QED
  BY <1>1, <1>2, <1>3, <1>4, StepOfOne, PTL DEF SpecOfOne, Spec, Dnode!Spec, ContractKept
=============================================================================

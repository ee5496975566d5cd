--------------------------- MODULE SlabEvacProofs ---------------------------
(***************************************************************************)
(* Proofs about SlabEvac, for any set of slabs of any sizes, any handles,  *)
(* and any values of the limits.                                           *)
(***************************************************************************)
EXTENDS SlabEvac, TLAPS

USE SlabOfAssumption, NoneAssumption

\* What an allocation of o does to the books: nobody had o, and every object of
\* every page is accounted for.
Took(o) ==
  /\ page' \subseteq Slab /\ page \subseteq page' /\ free' \subseteq Obj
  /\ o \notin Taken /\ o \notin free' /\ free' \cap Taken = {}
  /\ { x \in Obj : SlabOf[x] \in page' } = free' \cup {o} \cup Taken
  /\ partial' = { s \in Slab : FreeOf(s)' # {} } \ Waiting
  /\ \A s \in Waiting : FreeOf(s)' # {}

\* What a free of objs, all on slab s, does to them. A page it gives back is s,
\* with nobody else's objects in it, and not one a pass took off the list.
Put(s, objs) ==
  /\ page' \subseteq page /\ free' \subseteq Obj
  /\ free' \cap (Taken \ objs) = {}
  /\ { x \in Obj : SlabOf[x] \in page' } = free' \cup (Taken \ objs)
  /\ partial' = { t \in Slab : FreeOf(t)' # {} } \ Waiting
  /\ \A t \in Waiting : FreeOf(t)' # {}
  /\ \A t \in page \ page' : /\ t = s /\ t \notin Waiting
                            /\ ObjectsOf(s) \cap (Taken \ objs) = {}

\* The allocator hands out objects nobody has.
LEMMA TakeObjectLemma ==
  ASSUME TypeOK, OneHolder, NoSlabLost, NEW o \in Obj, TakeObject(o)
  PROVE  Took(o)
<1> USE DEF Took
<1> DEFINE s == SlabOf[o]
<1>0. s \in Slab
  OBVIOUS
<1>1. CASE /\ o \in free /\ s \in partial
           /\ free' = free \ {o}
           /\ partial' = IF FreeOf(s) = {o} THEN partial \ {s} ELSE partial
           /\ UNCHANGED page
  <2>1. \A t \in Slab : FreeOf(t)' = IF t = s THEN FreeOf(s) \ {o} ELSE FreeOf(t)
    BY <1>1 DEF FreeOf
  <2>2. s \notin Waiting
    BY <1>1 DEF NoSlabLost
  <2>3. Waiting \subseteq Slab
    BY DEF NoSlabLost, Waiting, FreeOf, TypeOK
  <2>4. o \in FreeOf(s)
    BY <1>1 DEF FreeOf
  <2>5. partial' = { t \in Slab : FreeOf(t)' # {} } \ Waiting
    BY <1>0, <1>1, <2>1, <2>2, <2>4 DEF NoSlabLost
  <2>6. \A t \in Waiting : FreeOf(t)' # {}
    BY <2>1, <2>2, <2>3 DEF NoSlabLost
  <2> QED
    BY <1>1, <2>5, <2>6 DEF TypeOK, OneHolder
<1>2. CASE /\ partial = {} /\ s \notin page
           /\ page' = page \cup {s}
           /\ free' = free \cup (ObjectsOf(s) \ {o})
           /\ partial' = IF ObjectsOf(s) = {o} THEN {} ELSE {s}
  <2>1. ObjectsOf(s) \cap (free \cup Taken) = {} /\ o \in ObjectsOf(s)
    BY <1>2 DEF OneHolder, ObjectsOf
  <2>2. FreeOf(s) = {}
    BY <2>1 DEF FreeOf, ObjectsOf, TypeOK
  <2>3. \A t \in Slab : FreeOf(t)' = IF t = s THEN ObjectsOf(s) \ {o}
                                             ELSE FreeOf(t)
    BY <1>2, <2>2 DEF FreeOf, ObjectsOf
  <2>4. Waiting \subseteq Slab /\ s \notin Waiting
    BY <2>2 DEF NoSlabLost, Waiting, TypeOK, FreeOf
  <2>5. partial' = { t \in Slab : FreeOf(t)' # {} } \ Waiting
    BY <1>0, <1>2, <2>1, <2>3, <2>4 DEF NoSlabLost
  <2>6. \A t \in Waiting : FreeOf(t)' # {}
    BY <2>3, <2>4 DEF NoSlabLost
  <2>7. { x \in Obj : SlabOf[x] \in page' } = free' \cup {o} \cup Taken
    BY <1>2, <2>1 DEF OneHolder, ObjectsOf
  <2> QED
    BY <1>0, <1>2, <2>1, <2>5, <2>6, <2>7 DEF TypeOK, OneHolder, ObjectsOf
<1> QED
  BY <1>1, <1>2 DEF TakeObject

\* The free path keeps the pages of what is still in use, whether or not they
\* are on the partial list.
LEMMA PutObjectsLemma ==
  ASSUME TypeOK, OneHolder, NoSlabLost, NEW s \in Slab,
         NEW objs \in SUBSET Taken, objs \subseteq ObjectsOf(s), objs # {},
         PutObjects(s, objs)
  PROVE  Put(s, objs)
<1> USE DEF Put
<1>0. Waiting \subseteq Slab
  BY DEF NoSlabLost, Waiting, FreeOf, TypeOK
<1>1. CASE /\ ObjectsOf(s) \subseteq free \cup objs
           /\ FreeOf(s) = {} \/ s \in partial
           /\ page' = page \ {s}
           /\ free' = free \ ObjectsOf(s)
           /\ partial' = partial \ {s}
  <2>1. s \notin Waiting
    BY <1>1 DEF NoSlabLost
  <2>2. \A t \in Slab : FreeOf(t)' = IF t = s THEN {} ELSE FreeOf(t)
    BY <1>1 DEF FreeOf, ObjectsOf, TypeOK
  <2>3. partial' = { t \in Slab : FreeOf(t)' # {} } \ Waiting
    BY <1>1, <2>1, <2>2 DEF NoSlabLost
  <2>4. \A t \in Waiting : FreeOf(t)' # {}
    BY <1>0, <2>1, <2>2 DEF NoSlabLost
  <2>5. ObjectsOf(s) \cap (Taken \ objs) = {}
    BY <1>1 DEF OneHolder
  <2>6. { x \in Obj : SlabOf[x] \in page' } = free' \cup (Taken \ objs)
    BY <1>1, <2>5 DEF OneHolder, ObjectsOf
  <2> QED
    BY <1>1, <2>1, <2>3, <2>4, <2>5, <2>6 DEF TypeOK, OneHolder
<1>2. CASE /\ free' = free \cup objs
           /\ partial' = IF FreeOf(s) = {} THEN partial \cup {s} ELSE partial
           /\ UNCHANGED page
  <2>1. \A t \in Slab : FreeOf(t)' = IF t = s THEN FreeOf(s) \cup objs
                                               ELSE FreeOf(t)
    BY <1>2 DEF FreeOf, ObjectsOf
  <2>2. FreeOf(s) = {} => s \notin Waiting
    BY DEF NoSlabLost
  <2>3. partial' = { t \in Slab : FreeOf(t)' # {} } \ Waiting
    BY <1>2, <2>1, <2>2 DEF NoSlabLost
  <2>4. \A t \in Waiting : FreeOf(t)' # {}
    BY <1>0, <2>1 DEF NoSlabLost
  <2>5. objs \subseteq Obj
    BY DEF ObjectsOf
  <2> QED
    BY <1>2, <2>3, <2>4, <2>5 DEF TypeOK, OneHolder
<1> QED
  BY <1>1, <1>2 DEF PutObjects

\* Claiming takes what is free on the slab, and its place on the list with it.
LEMMA ClaimFreeLemma ==
  ASSUME TypeOK, OneHolder, NoSlabLost, cur \in Slab, cur \notin cand,
         slab_claim_free
  PROVE  /\ free' = free \ FreeOf(cur) /\ claimed' = claimed \cup FreeOf(cur)
         /\ FreeOf(cur) \subseteq free \cap ObjectsOf(cur)
         /\ \A t \in Slab : FreeOf(t)' = IF t = cur THEN {} ELSE FreeOf(t)
         /\ partial' = { t \in Slab : FreeOf(t)' # {} } \ cand
         /\ \A t \in cand : FreeOf(t)' # {}
<1>1. \A t \in Slab : FreeOf(t)' = IF t = cur THEN {} ELSE FreeOf(t)
  BY DEF slab_claim_free, FreeOf
<1>2. FreeOf(cur) \subseteq free \cap ObjectsOf(cur)
  BY DEF FreeOf, ObjectsOf, TypeOK
<1>3. cand \subseteq Waiting /\ Waiting \subseteq cand \cup {cur}
  BY DEF Waiting
<1>4. partial' = { t \in Slab : FreeOf(t)' # {} } \ cand
  BY <1>1, <1>3 DEF slab_claim_free, NoSlabLost
<1>5. \A t \in cand : FreeOf(t)' # {}
  BY <1>1, <1>3 DEF NoSlabLost, TypeOK
<1> QED
  BY <1>1, <1>2, <1>4, <1>5 DEF slab_claim_free

\* Giving a handle another object, or none, changes which objects are live by
\* just that.
LEMMA LiveLemma ==
  ASSUME TypeOK, OneHolder, NEW h \in Handle, NEW o \in Obj \cup {None},
         o \notin LiveObjects, at' = [at EXCEPT ![h] = o]
  PROVE  /\ LiveObjects' = (LiveObjects \ {at[h]}) \cup ({o} \ {None})
         /\ \A h1, h2 \in Handle :
              at'[h1] = at'[h2] /\ at'[h1] # None => h1 = h2
BY DEF TypeOK, OneHolder, LiveObjects

-----------------------------------------------------------------------------
(* The steps of the owners. *)

LEMMA AllocateStep ==
  ASSUME IInv, NEW h \in Handle, Allocate(h)
  PROVE  IInv'
<1> USE DEF IInv
<1>1. PICK o \in Obj : TakeObject(o) /\ at' = [at EXCEPT ![h] = o]
  BY DEF Allocate
<1>2. Took(o)
  BY <1>1, TakeObjectLemma
<1>3. UNCHANGED passVars /\ at[h] = None /\ held' = held \cup {h}
  BY DEF Allocate
<1>4. o \notin LiveObjects /\ None \notin LiveObjects
  BY <1>2 DEF Took, Taken, LiveObjects
<1>5. /\ LiveObjects' = LiveObjects \cup {o}
      /\ \A h1, h2 \in Handle : at'[h1] = at'[h2] /\ at'[h1] # None => h1 = h2
  <2>1. (LiveObjects \ {at[h]}) \cup ({o} \ {None}) = LiveObjects \cup {o}
    BY <1>3, <1>4
  <2> QED
    BY <1>1, <1>4, <2>1, LiveLemma
<1>6. Taken' = Taken \cup {o}
  BY <1>3, <1>5 DEF Taken, passVars
<1>7. TypeOK'
  BY <1>1, <1>2, <1>3 DEF TypeOK, Took, passVars
<1>8. OneHolder'
  <2>1. /\ o \notin claimed /\ o \notin moved /\ o # new
    BY <1>2 DEF Took, Taken
  <2> QED
    BY <1>2, <1>3, <1>5, <1>6, <2>1 DEF OneHolder, Took, passVars
<1>9. NoSlabLost'
  BY <1>2, <1>3 DEF NoSlabLost, Waiting, Took, passVars, FreeOf
<1>10. PageStays' /\ EmptiedMeansVacated' /\ NothingKept' /\ PassShape'
  BY <1>2, <1>3
     DEF PageStays, EmptiedMeansVacated, NothingKept, PassShape, Evacuating,
         ObjectsOf, Took, passVars
<1> QED
  BY <1>7, <1>8, <1>9, <1>10

LEMMA FreeStep ==
  ASSUME IInv, NEW h \in Handle, Free(h)
  PROVE  IInv'
<1> USE DEF IInv
<1> DEFINE o == at[h]
<1>1. /\ UNCHANGED passVars /\ at[h] # None /\ held' = held \ {h}
      /\ PutObjects(SlabOf[o], {o}) /\ at' = [at EXCEPT ![h] = None]
  BY DEF Free
<1>2. o \in Obj /\ o \in LiveObjects /\ o \in Taken /\ None \notin LiveObjects
  BY <1>1 DEF LiveObjects, Taken, TypeOK
<1>3. Put(SlabOf[o], {o})
  <2>1. {o} \in SUBSET Taken /\ {o} \subseteq ObjectsOf(SlabOf[o]) /\ {o} # {}
    BY <1>2 DEF ObjectsOf
  <2>2. SlabOf[o] \in Slab
    BY <1>2
  <2> HIDE DEF o
  <2> QED
    BY <1>1, <2>1, <2>2, PutObjectsLemma DEF o
<1>4. /\ LiveObjects' = LiveObjects \ {o}
      /\ \A h1, h2 \in Handle : at'[h1] = at'[h2] /\ at'[h1] # None => h1 = h2
  <2>1. (LiveObjects \ {at[h]}) \cup ({None} \ {None}) = LiveObjects \ {o}
    OBVIOUS
  <2> QED
    BY <1>1, <1>2, <2>1, LiveLemma
<1>5. o \notin claimed /\ o \notin moved /\ o # new
  BY <1>2 DEF OneHolder
<1>6. Taken' = Taken \ {o}
  BY <1>1, <1>4, <1>5 DEF Taken, passVars
<1>7. TypeOK'
  BY <1>1, <1>3 DEF TypeOK, Put, PutObjects, passVars
<1>8. OneHolder'
  BY <1>1, <1>3, <1>4, <1>6 DEF OneHolder, Put, passVars
<1>9. NoSlabLost'
  BY <1>1, <1>3 DEF NoSlabLost, Waiting, Put, passVars, FreeOf
<1>10. cand \subseteq page'
  BY <1>3 DEF PageStays, Waiting, Put
<1>11. cur # None => cur \in page'
  <2>1. SUFFICES ASSUME cur # None, cur \notin page' PROVE FALSE
    OBVIOUS
  <2>2. /\ cur \notin Waiting /\ cur = SlabOf[o]
        /\ ObjectsOf(cur) \cap (Taken \ {o}) = {}
    BY <1>3, <2>1 DEF Put, PageStays
  <2>3. claimed # {} /\ claimed \subseteq ObjectsOf(cur)
    BY <2>1, <2>2 DEF PassShape, PageStays, Waiting
  <2> QED
    BY <1>5, <2>2, <2>3 DEF Taken
<1>12. PageStays' /\ EmptiedMeansVacated' /\ NothingKept' /\ PassShape'
  BY <1>1, <1>10, <1>11
     DEF PageStays, EmptiedMeansVacated, NothingKept, PassShape, Evacuating,
         ObjectsOf, passVars
<1> QED
  BY <1>7, <1>8, <1>9, <1>12

LEMMA HoldStep ==
  ASSUME IInv, NEW h \in Handle, Hold(h) \/ LetGo(h)
  PROVE  IInv'
BY DEF Hold, LetGo, IInv, TypeOK, OneHolder, Taken, LiveObjects, NoSlabLost,
       Waiting, FreeOf, PageStays, EmptiedMeansVacated, NothingKept, PassShape,
       Evacuating, ObjectsOf, slabVars, passVars

-----------------------------------------------------------------------------
(* The steps of the pass. *)

LEMMA TakeCandidatesStep ==
  ASSUME IInv, NEW max \in Occupancies, TakeCandidates(max)
  PROVE  IInv'
<1> USE DEF IInv
<1>1. cand = {} /\ Waiting = {} /\ Waiting' = cand'
  BY DEF TakeCandidates, PassShape, Waiting
<1>2. cand' \subseteq partial /\ partial' = partial \ cand'
  BY DEF TakeCandidates
<1>3. NoSlabLost'
  <2>1. \A s \in Slab : FreeOf(s)' = FreeOf(s)
    BY DEF TakeCandidates, FreeOf
  <2>2. partial = { s \in Slab : FreeOf(s) # {} }
    BY <1>1 DEF NoSlabLost
  <2> QED
    BY <1>1, <1>2, <2>1, <2>2 DEF NoSlabLost, TypeOK
<1>4. cand' \subseteq page'
  BY <1>2 DEF TakeCandidates, NoSlabLost, FreeOf, OneHolder, TypeOK
<1>5. TypeOK'
  BY <1>2, BoundsAssumption DEF TypeOK, TakeCandidates, ownerVars
<1>6. OneHolder'
  BY DEF OneHolder, Taken, LiveObjects, TakeCandidates, ownerVars
<1>7. PageStays' /\ EmptiedMeansVacated' /\ NothingKept'
  BY <1>4 DEF PageStays, EmptiedMeansVacated, NothingKept, PassShape, Evacuating,
              ObjectsOf, TakeCandidates
<1>8. PassShape'
  <2>1. ~Evacuating /\ ~Evacuating' /\ cur = None /\ None \notin cand'
    BY <1>2 DEF PassShape, Evacuating, TakeCandidates, TypeOK
  <2>2. refused' # GiveUp
    BY BoundsAssumption DEF TakeCandidates
  <2> QED
    BY <2>1, <2>2 DEF PassShape, TakeCandidates
<1> QED
  BY <1>3, <1>5, <1>6, <1>7, <1>8

LEMMA PickStep ==
  ASSUME IInv, NEW s \in Slab, Pick(s)
  PROVE  IInv'
<1> USE DEF IInv
<1>1. Waiting' = Waiting
  BY DEF Pick, Waiting
<1>2. NoSlabLost'
  BY <1>1 DEF NoSlabLost, Pick, slabVars, FreeOf
<1>3. TypeOK'
  BY DEF TypeOK, Pick, slabVars, ownerVars
<1>4. OneHolder'
  BY DEF OneHolder, Taken, LiveObjects, Pick, slabVars, ownerVars
<1>5. PageStays' /\ EmptiedMeansVacated' /\ NothingKept' /\ PassShape'
  BY NoneAssumption
     DEF PageStays, EmptiedMeansVacated, NothingKept, PassShape, Evacuating,
         ObjectsOf, Pick, slabVars
<1> QED
  BY <1>2, <1>3, <1>4, <1>5

\* The early return of slab_evacuate() is not taken: a slab that was on the
\* list has a free object, and nobody else can take it away.
LEMMA ClaimStep ==
  ASSUME IInv, Claim
  PROVE  IInv'
<1> USE DEF IInv
<1>1. /\ pc = "claim" /\ slab_claim_free /\ claimed = {} /\ cur \in Slab
      /\ cur \notin cand /\ cur \in Waiting
  BY DEF Claim, PassShape, TypeOK, Evacuating, Waiting
<1>2. /\ free' = free \ FreeOf(cur) /\ claimed' = FreeOf(cur)
      /\ FreeOf(cur) \subseteq free \cap ObjectsOf(cur)
      /\ \A t \in Slab : FreeOf(t)' = IF t = cur THEN {} ELSE FreeOf(t)
      /\ partial' = { t \in Slab : FreeOf(t)' # {} } \ cand
      /\ \A t \in cand : FreeOf(t)' # {}
  BY <1>1, ClaimFreeLemma
<1>3. claimed' # {}
  BY <1>1, <1>2 DEF NoSlabLost
<1>4. /\ live' = ObjectsOf(cur) \ claimed' /\ todo' = live'
      /\ pc' = "next"
      /\ UNCHANGED <<page, cur, refused, at, held, cand, old, new, moved, emptied>>
  BY <1>3 DEF Claim, slab_claim_free, ownerVars
<1>5. NoSlabLost'
  BY <1>2, <1>4 DEF NoSlabLost, Waiting
<1>6. TypeOK'
  BY <1>1, <1>2, <1>4 DEF TypeOK, ObjectsOf
<1>7. OneHolder'
  <2>1. Taken' = Taken \cup FreeOf(cur) /\ LiveObjects' = LiveObjects
    BY <1>1, <1>2, <1>4 DEF Taken, LiveObjects
  <2>2. moved = {} /\ new = None /\ claimed = {}
    BY <1>1 DEF PassShape, Evacuating
  <2>3. FreeOf(cur) \cap LiveObjects = {} /\ FreeOf(cur) \subseteq Obj
    BY <1>2 DEF OneHolder, Taken, TypeOK
  <2> QED
    BY <1>2, <1>4, <2>1, <2>2, <2>3 DEF OneHolder
<1>8. PageStays' /\ EmptiedMeansVacated' /\ NothingKept' /\ PassShape'
  BY <1>1, <1>2, <1>3, <1>4
     DEF PageStays, EmptiedMeansVacated, NothingKept, PassShape, Evacuating,
         ObjectsOf
<1> QED
  BY <1>5, <1>6, <1>7, <1>8

LEMMA GetReplacementStep ==
  ASSUME IInv, NEW o \in Obj, GetReplacement(o)
  PROVE  IInv'
<1> USE DEF IInv
<1>1. PICK n \in Obj : TakeObject(n) /\ new' = n
  BY DEF GetReplacement
<1>2. Took(n)
  BY <1>1, TakeObjectLemma
<1>3. /\ pc = "next" /\ o \in todo /\ old' = o /\ todo' = todo \ {o}
      /\ pc' = "recheck" /\ new = None
      /\ UNCHANGED <<at, held, cand, cur, claimed, live, moved, emptied, refused>>
  BY DEF GetReplacement, ownerVars, PassShape
<1>4. Taken' = Taken \cup {n} /\ LiveObjects' = LiveObjects
  BY <1>1, <1>3, NoneAssumption DEF Taken, LiveObjects
<1>5. n \notin claimed /\ n \notin moved /\ n \notin LiveObjects
  BY <1>2 DEF Took, Taken
<1>6. TypeOK'
  BY <1>1, <1>2, <1>3 DEF TypeOK, Took
<1>7. OneHolder'
  BY <1>1, <1>2, <1>3, <1>4, <1>5 DEF OneHolder, Took
<1>8. NoSlabLost'
  BY <1>2, <1>3 DEF NoSlabLost, Waiting, Took, FreeOf
<1>9. PageStays' /\ EmptiedMeansVacated' /\ NothingKept' /\ PassShape'
  BY <1>1, <1>2, <1>3, NoneAssumption
     DEF PageStays, EmptiedMeansVacated, NothingKept, PassShape, Evacuating,
         ObjectsOf, Took, TypeOK
<1> QED
  BY <1>6, <1>7, <1>8, <1>9

LEMMA LeaveLoopStep ==
  ASSUME IInv, NoReplacement \/ EndOfLoop \/ MoveRefused
  PROVE  IInv'
<1> USE DEF IInv
<1>1. /\ UNCHANGED <<slabVars, ownerVars, cand, cur, claimed, live, todo, old,
                     new, moved, emptied, refused>>
      /\ \/ pc = "next" /\ pc' = "bulk"
         \/ pc = "move" /\ pc' = "drop"
  BY DEF NoReplacement, EndOfLoop, MoveRefused
<1>2. TypeOK'
  BY <1>1 DEF TypeOK, slabVars, ownerVars
<1>3. OneHolder'
  BY <1>1 DEF OneHolder, Taken, LiveObjects, slabVars, ownerVars
<1>4. NoSlabLost'
  BY <1>1 DEF NoSlabLost, Waiting, FreeOf, slabVars
<1>5. PageStays' /\ NothingKept'
  BY <1>1 DEF PageStays, NothingKept, Evacuating, ObjectsOf, slabVars
<1>6. EmptiedMeansVacated'
  BY <1>1 DEF EmptiedMeansVacated, PassShape, Evacuating, ObjectsOf
<1>7. PassShape'
  BY <1>1 DEF PassShape, Evacuating, ObjectsOf
<1> QED
  BY <1>2, <1>3, <1>4, <1>5, <1>6, <1>7

LEMMA RecheckStep ==
  ASSUME IInv, Recheck
  PROVE  IInv'
<1> USE DEF IInv
<1>1. /\ pc = "recheck" /\ slab_claim_free /\ cur \in Slab /\ cur \notin cand
      /\ pc' \in {"drop", "move"} /\ Waiting = cand
      /\ UNCHANGED <<page, at, held, cand, cur, live, todo, old, new, moved,
                     emptied, refused>>
  BY DEF Recheck, slab_claim_free, PassShape, TypeOK, Evacuating, ownerVars,
         Waiting
<1>2. /\ free' = free \ FreeOf(cur) /\ claimed' = claimed \cup FreeOf(cur)
      /\ FreeOf(cur) \subseteq free \cap ObjectsOf(cur)
      /\ partial' = { t \in Slab : FreeOf(t)' # {} } \ cand
      /\ \A t \in cand : FreeOf(t)' # {}
  BY <1>1, ClaimFreeLemma
<1>3. TypeOK'
  BY <1>1, <1>2 DEF TypeOK
<1>4. OneHolder'
  <2>1. Taken' = Taken \cup FreeOf(cur) /\ LiveObjects' = LiveObjects
    BY <1>1, <1>2 DEF Taken, LiveObjects
  <2>2. FreeOf(cur) \cap Taken = {} /\ new # None
    BY <1>1, <1>2 DEF OneHolder, PassShape
  <2>3. FreeOf(cur) \cap (moved \cup {new} \cup LiveObjects) = {}
    BY <2>2 DEF Taken
  <2> QED
    BY <1>1, <1>2, <2>1, <2>3 DEF OneHolder
<1>5. NoSlabLost'
  BY <1>1, <1>2 DEF NoSlabLost, Waiting
<1>6. PageStays' /\ NothingKept' /\ EmptiedMeansVacated'
  BY <1>1, <1>2
     DEF PageStays, NothingKept, EmptiedMeansVacated, Evacuating, ObjectsOf
<1>7. PassShape'
  BY <1>1, <1>2 DEF PassShape, Evacuating, ObjectsOf
<1> QED
  BY <1>3, <1>4, <1>5, <1>6, <1>7

LEMMA MoveDoneStep ==
  ASSUME IInv, NEW h \in Handle, MoveDone(h)
  PROVE  IInv'
<1> USE DEF IInv
<1>1. /\ pc = "move" /\ at[h] = old /\ at' = [at EXCEPT ![h] = new]
      /\ moved' = moved \cup {old} /\ old' = None /\ new' = None
      /\ pc' = "next"
      /\ UNCHANGED <<page, free, partial, held, cand, cur, claimed, live, todo,
                     emptied, refused>>
  BY DEF MoveDone, slabVars
<1>2. /\ new \in Obj /\ old \in Obj /\ old \in live /\ old \notin todo
      /\ old \notin moved /\ cur # None
  BY <1>1 DEF PassShape, TypeOK, Evacuating
<1>3. old \in LiveObjects /\ new \notin LiveObjects /\ None \notin LiveObjects
  BY <1>1, <1>2, NoneAssumption DEF LiveObjects, OneHolder
<1>4. /\ LiveObjects' = (LiveObjects \ {old}) \cup {new}
      /\ \A h1, h2 \in Handle : at'[h1] = at'[h2] /\ at'[h1] # None => h1 = h2
  <2>1. {new} \ {None} = {new}
    BY <1>2, NoneAssumption
  <2> QED
    BY <1>1, <1>2, <1>3, <2>1, LiveLemma
<1>5. Taken' = Taken
  BY <1>1, <1>2, <1>3, <1>4, NoneAssumption DEF Taken
<1>6. old \notin claimed /\ new \notin claimed /\ old # new /\ new \notin moved
  BY <1>3 DEF OneHolder
<1>7. TypeOK'
  BY <1>1, <1>2 DEF TypeOK
<1>8. OneHolder'
  <2>1. None \notin claimed /\ None \notin moved' /\ None \notin LiveObjects'
    BY <1>1, <1>2, <1>3, <1>4, NoneAssumption DEF TypeOK
  <2> QED
    BY <1>1, <1>2, <1>3, <1>4, <1>5, <1>6, <2>1 DEF OneHolder
<1>9. NoSlabLost'
  BY <1>1 DEF NoSlabLost, Waiting, FreeOf
<1>10. PageStays' /\ NothingKept' /\ EmptiedMeansVacated'
  BY <1>1 DEF PageStays, NothingKept, EmptiedMeansVacated, Evacuating, ObjectsOf
<1>11. PassShape'
  BY <1>1, <1>2 DEF PassShape, Evacuating, ObjectsOf
<1> QED
  BY <1>7, <1>8, <1>9, <1>10, <1>11

LEMMA DropReplacementStep ==
  ASSUME IInv, DropReplacement
  PROVE  IInv'
<1> USE DEF IInv
<1>1. /\ pc = "drop" /\ PutObjects(SlabOf[new], {new})
      /\ old' = None /\ new' = None /\ pc' = "next"
      /\ UNCHANGED <<at, held, cand, cur, claimed, live, todo, moved, emptied,
                     refused>>
  BY DEF DropReplacement, ownerVars
<1>2. new \in Obj /\ cur # None /\ claimed # {} /\ claimed \subseteq ObjectsOf(cur)
  BY <1>1 DEF PassShape, PageStays, TypeOK, Evacuating
<1>3. Put(SlabOf[new], {new})
  <2>1. {new} \in SUBSET Taken /\ {new} \subseteq ObjectsOf(SlabOf[new])
    BY <1>2, NoneAssumption DEF ObjectsOf, Taken
  <2>2. SlabOf[new] \in Slab
    BY <1>2
  <2> QED
    BY <1>1, <2>1, <2>2, PutObjectsLemma
<1>4. new \notin claimed /\ new \notin moved /\ new \notin LiveObjects
  BY DEF OneHolder
<1>5. Taken' = Taken \ {new} /\ LiveObjects' = LiveObjects
  BY <1>1, <1>4 DEF Taken, LiveObjects
<1>6. TypeOK'
  BY <1>1, <1>3 DEF TypeOK, Put, PutObjects
<1>7. OneHolder'
  <2>1. None \notin claimed /\ None \notin moved /\ None \notin LiveObjects
    BY NoneAssumption DEF TypeOK, LiveObjects
  <2> QED
    BY <1>1, <1>3, <1>5, <2>1 DEF OneHolder, Put
<1>8. NoSlabLost'
  BY <1>1, <1>3 DEF NoSlabLost, Waiting, Put, FreeOf
<1>9. cand \subseteq page' /\ cur \in page'
  <2>1. cand \subseteq page /\ cand \subseteq Waiting /\ cur \in page
    BY <1>2 DEF PageStays, Waiting
  <2>2. cur \notin page \ page'
    <3>1. claimed \cap (Taken \ {new}) # {}
      BY <1>2, <1>4 DEF Taken
    <3> QED
      BY <1>2, <1>3, <3>1 DEF Put
  <2> QED
    BY <1>3, <2>1, <2>2 DEF Put
<1>10. PageStays' /\ NothingKept' /\ EmptiedMeansVacated'
  BY <1>1, <1>9 DEF PageStays, NothingKept, EmptiedMeansVacated, Evacuating, ObjectsOf
<1>11. PassShape'
  BY <1>1 DEF PassShape, Evacuating, ObjectsOf
<1> QED
  BY <1>6, <1>7, <1>8, <1>10, <1>11

LEMMA FreeMovedStep ==
  ASSUME IInv, FreeMoved
  PROVE  IInv'
<1> USE DEF IInv
<1>1. /\ pc = "bulk" /\ emptied' = (moved = live) /\ moved' = {}
      /\ pc' = "release"
      /\ UNCHANGED <<at, held, cand, cur, claimed, live, todo, old, new, refused>>
      /\ IF moved = {} THEN UNCHANGED <<page, free, partial>>
                       ELSE PutObjects(cur, moved)
  BY DEF FreeMoved, slabVars, ownerVars
<1>2. /\ cur \in Slab /\ claimed # {} /\ claimed \subseteq ObjectsOf(cur)
      /\ moved \subseteq ObjectsOf(cur) /\ new = None /\ moved \subseteq Taken
  BY <1>1 DEF PassShape, PageStays, TypeOK, Evacuating, Taken
<1>3. moved # {} => Put(cur, moved)
  BY <1>1, <1>2, PutObjectsLemma
<1>4. claimed \cap moved = {} /\ moved \cap LiveObjects = {} /\ None \notin moved
  BY NoneAssumption DEF OneHolder, TypeOK
<1>5. Taken' = Taken \ moved /\ LiveObjects' = LiveObjects
  BY <1>1, <1>2, <1>4 DEF Taken, LiveObjects
<1>6. /\ page' \subseteq page /\ free' \subseteq Obj /\ free' \cap Taken' = {}
      /\ { x \in Obj : SlabOf[x] \in page' } = free' \cup Taken'
      /\ partial' = { t \in Slab : FreeOf(t)' # {} } \ Waiting
      /\ \A t \in Waiting : FreeOf(t)' # {}
      /\ cur \in page' /\ cand \subseteq page'
  <2>1. cur \in page /\ cand \subseteq page /\ Waiting = cand
    BY <1>1, <1>2, NoneAssumption DEF PageStays, Waiting
  <2>2. CASE moved = {}
    <3>1. \A t \in Slab : FreeOf(t)' = FreeOf(t)
      BY <1>1, <2>2 DEF FreeOf
    <3> QED
      BY <1>1, <1>5, <2>1, <2>2, <3>1 DEF OneHolder, NoSlabLost, TypeOK
  <2>3. CASE moved # {}
    <3>1. claimed \cap (Taken \ moved) # {}
      BY <1>2, <1>4 DEF Taken
    <3>2. cur \notin page \ page'
      BY <1>2, <1>3, <2>3, <3>1 DEF Put
    <3> QED
      BY <1>3, <1>5, <2>1, <2>3, <3>2 DEF Put
  <2> QED
    BY <2>2, <2>3
<1>7. TypeOK'
  BY <1>1, <1>6 DEF TypeOK
<1>8. OneHolder'
  BY <1>1, <1>5, <1>6 DEF OneHolder
<1>9. NoSlabLost'
  BY <1>1, <1>6 DEF NoSlabLost, Waiting
<1>10. PageStays' /\ NothingKept' /\ EmptiedMeansVacated'
  BY <1>1, <1>6 DEF PageStays, NothingKept, EmptiedMeansVacated, Evacuating, ObjectsOf
<1>11. PassShape'
  BY <1>1 DEF PassShape, Evacuating, ObjectsOf
<1> QED
  BY <1>7, <1>8, <1>9, <1>10, <1>11

LEMMA ReleaseStep ==
  ASSUME IInv, Release
  PROVE  IInv'
<1> USE DEF IInv
<1>1. /\ pc = "release" /\ PutObjects(cur, claimed) /\ CountRefusal(emptied)
      /\ claimed' = {} /\ live' = {} /\ todo' = {} /\ cur' = None
      /\ UNCHANGED <<at, held, cand, old, new, moved, emptied>>
  BY DEF Release, ownerVars
<1>2. /\ cur \in Slab /\ claimed # {} /\ claimed \subseteq ObjectsOf(cur)
      /\ moved = {} /\ new = None /\ old = None /\ claimed \subseteq Taken
  BY <1>1 DEF PassShape, PageStays, TypeOK, Evacuating, Taken
<1>3. Put(cur, claimed)
  BY <1>1, <1>2, PutObjectsLemma
<1>4. Taken' = Taken \ claimed /\ LiveObjects' = LiveObjects
  BY <1>1, <1>2 DEF Taken, LiveObjects, OneHolder
<1>5. /\ refused' \in 0..GiveUp /\ pc' \in {"pick", "restore"}
      /\ pc' = "restore" <=> refused' = GiveUp
  <2>1. refused \in 0..GiveUp /\ refused # GiveUp
    BY <1>1 DEF PassShape, TypeOK
  <2> QED
    BY <1>1, <2>1, BoundsAssumption DEF CountRefusal
<1>6. TypeOK'
  BY <1>1, <1>3, <1>5 DEF TypeOK, Put, PutObjects
<1>7. OneHolder'
  BY <1>1, <1>3, <1>4 DEF OneHolder, Put
<1>8. NoSlabLost'
  BY <1>1, <1>3, <1>5 DEF NoSlabLost, Waiting, Put, FreeOf
<1>9. cand \subseteq page'
  BY <1>1, <1>3 DEF PageStays, Waiting, Put
<1>10. PageStays' /\ NothingKept' /\ EmptiedMeansVacated'
  BY <1>1, <1>5, <1>9 DEF PageStays, NothingKept, EmptiedMeansVacated, Evacuating
<1>11. PassShape'
  BY <1>1, <1>2, <1>5, NoneAssumption DEF PassShape, Evacuating, ObjectsOf, TypeOK
<1> QED
  BY <1>6, <1>7, <1>8, <1>10, <1>11

LEMMA RestoreStep ==
  ASSUME IInv, Restore
  PROVE  IInv'
<1> USE DEF IInv
<1>1. /\ pc \in {"restore", "pick"} /\ partial' = partial \cup cand /\ cand' = {}
      /\ pc' = "idle" /\ Waiting = cand /\ Waiting' = {}
      /\ UNCHANGED <<page, free, at, held, cur, claimed, live, todo, old, new,
                     moved, emptied, refused>>
  BY DEF Restore, ownerVars, Waiting
<1>2. TypeOK'
  BY <1>1 DEF TypeOK
<1>3. OneHolder'
  BY <1>1 DEF OneHolder, Taken, LiveObjects
<1>4. NoSlabLost'
  <2>1. \A t \in Slab : FreeOf(t)' = FreeOf(t)
    BY <1>1 DEF FreeOf
  <2> QED
    BY <1>1, <2>1 DEF NoSlabLost, TypeOK
<1>5. PageStays' /\ NothingKept' /\ EmptiedMeansVacated' /\ PassShape'
  BY <1>1 DEF PageStays, NothingKept, EmptiedMeansVacated, PassShape, Evacuating
<1> QED
  BY <1>2, <1>3, <1>4, <1>5

-----------------------------------------------------------------------------
(* The theorems. *)

LEMMA InitIInv == Init => IInv
<1> SUFFICES ASSUME Init PROVE IInv
  OBVIOUS
<1>1. \A s \in Slab : FreeOf(s) = {}
  BY DEF Init, FreeOf
<1>2. LiveObjects = {} /\ Waiting = {} /\ ~Evacuating
  BY DEF Init, LiveObjects, Waiting, Evacuating
<1>3. TypeOK
  <2>1. 0 \in 0..GiveUp
    BY BoundsAssumption
  <2>2. at \in [Handle -> Obj \cup {None}]
    BY DEF Init
  <2> QED
    BY <2>1, <2>2 DEF Init, TypeOK
<1>4. OneHolder
  BY <1>2, NoneAssumption DEF Init, OneHolder, Taken
<1>5. NoSlabLost
  BY <1>1, <1>2 DEF Init, NoSlabLost
<1>6. PageStays /\ EmptiedMeansVacated /\ NothingKept /\ PassShape
  BY <1>2, BoundsAssumption
     DEF Init, PageStays, EmptiedMeansVacated, NothingKept, PassShape, Evacuating
<1> QED
  BY <1>3, <1>4, <1>5, <1>6 DEF IInv

LEMMA NextIInv == IInv /\ [Next]_vars => IInv'
<1> SUFFICES ASSUME IInv, [Next]_vars PROVE IInv'
  OBVIOUS
<1>1. CASE UNCHANGED vars
  BY <1>1 DEF IInv, TypeOK, OneHolder, Taken, LiveObjects, NoSlabLost, Waiting,
              FreeOf, PageStays, EmptiedMeansVacated, NothingKept, PassShape,
              Evacuating, ObjectsOf, vars, slabVars, ownerVars, passVars
<1>2. CASE \E h \in Handle : Owner(h)
  BY <1>2, AllocateStep, FreeStep, HoldStep DEF Owner
<1>3. CASE Pass
  BY <1>3, TakeCandidatesStep, PickStep, ClaimStep, GetReplacementStep,
     LeaveLoopStep, RecheckStep, MoveDoneStep, DropReplacementStep,
     FreeMovedStep, ReleaseStep, RestoreStep
     DEF Pass
<1> QED
  BY <1>1, <1>2, <1>3 DEF Next

LEMMA Invariance == Spec => []IInv
BY InitIInv, NextIInv, PTL DEF Spec

\* The variables keep their types: among others, the count of refusals never
\* passes SLAB_DEFRAG_GIVE_UP.
THEOREM TypeCorrect == Spec => []TypeOK
<1>1. IInv => TypeOK
  BY DEF IInv
<1> QED
  BY <1>1, Invariance, PTL

\* No object is lost, freed twice or handed out twice, whatever the owners do
\* while slab_evacuate() works on their slabs.
THEOREM ObjectsAccountedFor == Spec => []OneHolder
<1>1. IInv => OneHolder
  BY DEF IInv
<1> QED
  BY <1>1, Invariance, PTL

\* The claim keeps the page: what slab_evacuate() looks at is never given back
\* to the page allocator under it.
THEOREM PageHeld == Spec => []PageStays
<1>1. IInv => PageStays
  BY DEF IInv
<1> QED
  BY <1>1, Invariance, PTL

\* The partial list stays the set of slabs with a free object, apart from the
\* candidates of the pass in flight: slab_claim_free() takes a slab that came
\* back on the list off it, and the end of the pass restores the rest.
THEOREM ListExact == Spec => []NoSlabLost
<1>1. IInv => NoSlabLost
  BY DEF IInv
<1> QED
  BY <1>1, Invariance, PTL

\* A slab whose listed objects were all moved holds nobody's object, however
\* many owners freed, and the allocator reused, objects of it meanwhile; and a
\* pass that is over has given back what it claimed, collected or allocated,
\* whether it got through slab_defrag_node() or gave up on the way.
THEOREM NothingLeftBehind == Spec => []PassTidy
<1>1. IInv => PassTidy
  BY DEF IInv, PassTidy
<1> QED
  BY <1>1, Invariance, PTL

\* The cache keeps its promise to its users through every pass: an object is
\* moved to one nobody uses, or stays.
THEOREM EvacuationImplementsStore == Spec => Implements
<1>1. Init => Store!Init
  BY DEF Init, Store!Init
<1>2. ASSUME IInv, [Next]_vars
      PROVE  [Store!Next]_(Store!vars)
  <2> USE <1>2 DEF IInv
  <2>1. Store!Used = LiveObjects
    BY DEF Store!Used, LiveObjects
  <2>2. ASSUME NEW h \in Handle, Allocate(h)
        PROVE  Store!Allocate(h)
    <3>1. PICK o \in Obj : TakeObject(o) /\ at' = [at EXCEPT ![h] = o]
      BY <2>2 DEF Allocate
    <3>2. o \notin LiveObjects
      BY <3>1, TakeObjectLemma DEF Took, Taken
    <3> QED
      BY <2>1, <2>2, <3>1, <3>2 DEF Allocate, Store!Allocate
  <2>3. ASSUME NEW h \in Handle, Free(h)
        PROVE  Store!Free(h)
    BY <2>3 DEF Free, Store!Free
  <2>4. ASSUME NEW h \in Handle, MoveDone(h)
        PROVE  Store!Relocate(h)
    <3>1. at[h] = old /\ old # None /\ new \in Obj \ LiveObjects
      BY <2>4 DEF MoveDone, PassShape, TypeOK, OneHolder
    <3> QED
      BY <2>1, <2>4, <3>1 DEF MoveDone, Store!Relocate
  <2>5. ASSUME NEW h \in Handle, Hold(h) \/ LetGo(h)
        PROVE  Store!Hold(h) \/ Store!LetGo(h)
    BY <2>5 DEF Hold, LetGo, Store!Hold, Store!LetGo
  <2>6. \/ UNCHANGED <<at, held>>
        \/ \E h \in Handle : Allocate(h) \/ Free(h) \/ MoveDone(h) \/ Hold(h) \/ LetGo(h)
    BY DEF Next, Owner, Pass, TakeCandidates, Pick, Claim,
           GetReplacement, NoReplacement, EndOfLoop, Recheck, MoveRefused,
           DropReplacement, FreeMoved, Release, Restore, ownerVars, vars
  <2> QED
    BY <2>2, <2>3, <2>4, <2>5, <2>6 DEF Store!Next, Store!vars
<1> QED
  BY <1>1, <1>2, Invariance, PTL DEF Spec, Implements, Store!Spec
=============================================================================

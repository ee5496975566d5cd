---------------------------- MODULE MCMonitors ----------------------------
(***************************************************************************)
(* What looks at a machine: the map of fragview on the screen (FragView),  *)
(* and the module slabwho (SlabWho). They share nothing: each behaviour is *)
(* one of one of them, while the other stays in its initial state.         *)
(***************************************************************************)
EXTENDS FragView, TLC

CONSTANTS
  Cache, Mobile, Tag, Zones, Holes, BlockPages, Subsection, HostageMax, MaxCaches,
  MaxSites, MaxHostage, MaxSeen, Slots, Hash, FirstWalks, Walks, Bytes, Sizes, Reader,
  File, None
CONSTANTS c1, c2, c3, t1, r1, r2

VARIABLES stats, caches, sites, walked, attributed, lock, reader, saw
VARIABLE component

Who == INSTANCE SlabWho

whoVars == <<stats, caches, sites, walked, attributed, lock, reader, saw>>

ASSUME MonitorsAssumption ==
  /\ Who!MobileAssumption /\ Who!BlockAssumption /\ Who!TableAssumption
  /\ Who!SlotsAssumption /\ Who!ReaderAssumption /\ Who!FileAssumption

-----------------------------------------------------------------------------
(* slabwho: two blocks of three pages; the first is on the border of two zones,
   the second has a hole. *)

TwoZones == <<<<1, 2>>, <<2, 5>>>>
Files == r1 :> "slabwho" @@ r2 :> "sites"

\* Sites that collide, across the end of the table too.
Colliding == [key \in Cache \X Tag |-> IF key[1] = c1 THEN 0 ELSE Slots - 1]

Pages == 0 .. 5
There == Pages \ Holes
Sort == Cache \cup {"free", "lru", "pinned"}
Sights == { [page |-> [p \in Pages |-> IF p \in There THEN k[p] ELSE "free"],
             gone |-> g] : k \in [There -> Sort], g \in {{}, {c1}} }
Objects == { [p \in Pages |-> IF p \in There THEN o[p] ELSE <<>>] :
               o \in [There -> {<<>>, <<<<c1, t1>>, <<c2, t1>>, <<c1, t1>>>>}
                                \cup { <<key>> : key \in Cache \X Tag }] }

Sight(kinds, gone) == [page |-> [p \in Pages |-> kinds[p + 1]], gone |-> gone]
On(keys) == [p \in Pages |-> keys[p + 1]]
K(c) == <<<<c, t1>>>>
TwoWalks ==
  {<<Sight(<<c1, "free", c2, c2, "free", "free">>, {}),
     On(<<K(c1), <<>>, K(c2), K(c2), <<>>, <<>>>>)>>,
   <<Sight(<<"lru", "free", "free", c3, "pinned", "free">>, {c3}),
     On(<<<<>>, <<>>, <<>>, K(c3), <<>>, <<>>>>)>>}

\* Any sight, and any objects in two blocks that are held.
AnyWalks ==
  LET w == CHOOSE w \in TwoWalks : w[1].gone = {}
  IN TwoWalks \cup { <<sight, w[2]>> : sight \in Sights }
              \cup { <<w[1], objects>> : objects \in Objects }

-----------------------------------------------------------------------------
InMap == component = "map"
InWho == component = "who"
OnlyMap == UNCHANGED <<whoVars, component>>
OnlyWho == UNCHANGED <<vars, component>>

InitOfOne == component \in {"map", "who"} /\ Init /\ Who!Init

NextOfOne ==
  \/ \E p \in Cell \cup {Off} : InMap /\ Motion(p) /\ OnlyMap
  \/ (InMap /\ Wheel /\ OnlyMap) \/ (InMap /\ Key /\ OnlyMap)
  \/ (InMap /\ HoverSettled /\ OnlyMap) \/ (InMap /\ CaughtUp /\ OnlyMap)
  \/ (InMap /\ ScanDone /\ OnlyMap) \/ (InMap /\ Pass /\ OnlyMap)
  \/ \E r \in Reader :
       \/ (InWho /\ Who!Open(r) /\ OnlyWho) \/ (InWho /\ Who!Start(r) /\ OnlyWho)
       \/ (InWho /\ Who!Show(r) /\ OnlyWho) \/ (InWho /\ Who!Continue(r) /\ OnlyWho)
       \/ (InWho /\ Who!Stop(r) /\ OnlyWho) \/ (InWho /\ Who!Close(r) /\ OnlyWho)
  \/ (InWho /\ Who!Expire /\ OnlyWho)

\* Readers go on reading the tables of two walks only.
Bound ==
  InWho => /\ saw.sight \in {None} \cup { w[1] : w \in TwoWalks }
           /\ saw.objects \in {None} \cup { w[2] : w \in TwoWalks }

SpecOfOne == InitOfOne /\ [][NextOfOne]_<<vars, whoVars, component>>

-----------------------------------------------------------------------------
\* SlabWho's WalksRight: both walks find what is there. (walk_memory(), walk_sites())
WalksRight == InWho => Who!WalksRight

\* SlabWho's LineForEachRow: a file that is read shows its table. (slabwho_start())
LineForEachRow == InWho => Who!LineForEachRow
=============================================================================

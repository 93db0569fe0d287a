------------------------- MODULE PopulationProofs -------------------------
(***************************************************************************)
(* The soup is shared correctly by any number of cells, whatever the soup  *)
(* size, the limits and the genomes: no byte has two owners and none is    *)
(* lost but to a cell that reaps itself.  The invariant adds to the        *)
(* properties what a handler in progress relies on: mal runs with no       *)
(* daughter memory left, and the inoculum fills vm.cells from the bottom.  *)
(*                                                                         *)
(* Then the slicer and the reaper, which are in step with the population:  *)
(* each lists the living cells, each once, and num_cells counts them.      *)
(* What makes this inductive is that no list holds a cell twice: a reap    *)
(* takes one entry out of each list and must leave none of the dead cell   *)
(* behind.  The limits of births and reaps follow.                         *)
(*                                                                         *)
(* Last, SegmentDivide: a resize that gives the old daughter memory back   *)
(* keeps all this true unless its own cell was reaped on the way, because  *)
(* until then what it remembers is still what the cell has (ResizeKnows).  *)
(***************************************************************************)
EXTENDS SegmentDivide, SoupMemoryProofs, SequenceTheorems, FiniteSetTheorems

Partition == NoByteShared /\ EveryByteAccounted

HandlersKnow ==
    /\ phase \in {"slice", "mal"} => ce \in Slots
    /\ phase = "mal" => md[ce].size = 0
    /\ phase = "inoculate" =>
          /\ live = 0 .. (num_cells - 1)
          /\ num_cells + req.left = NumInoculum
          /\ \A s \in Slots : md[s].size = 0

MemInv == TypeOK /\ Partition /\ HandlersKnow

---------------------------------------------------------------------------
(* The type invariant, part by part. *)
SoupTyped ==
    /\ free \subseteq Block /\ orphans \subseteq Block
    /\ live \subseteq Slots /\ copied \subseteq Slots
    /\ mm \in [Slots -> Region] /\ md \in [Slots -> Region]

ListsTyped == ring \in Seq(Slots) /\ line \in Seq(Slots) /\ num_cells \in Nat

KnobsTyped == max_cells \in CellLimits /\ num_cells_min \in ReapFloors

ControlTyped == phase \in Phases /\ ce \in Slots \cup {Nobody} /\ req \in Request

\* What every handler relies on, whoever is in progress.
SoupInv == SoupTyped /\ ListsTyped /\ KnobsTyped /\ Partition

LEMMA TypeParts ==
    /\ TypeOK <=> SoupTyped /\ ListsTyped /\ KnobsTyped /\ ControlTyped
    /\ TypeOK' <=> SoupTyped' /\ ListsTyped' /\ KnobsTyped' /\ ControlTyped'
BY DEF TypeOK, SoupTyped, ListsTyped, KnobsTyped, ControlTyped

LEMMA MemHasSoup == (MemInv => SoupInv) /\ (MemInv' => SoupInv')
BY TypeParts DEF MemInv, SoupInv

---------------------------------------------------------------------------
(* What is held, spelled out. *)
LEMMA HeldIs ==
    /\ \A r : r \in Held <=> r \in orphans \/ \E c \in live : r = mm[c] \/ (r = md[c] /\ r.size > 0)
    /\ \A r : r \in Held' <=>
          r \in orphans' \/ \E c \in live' : r = mm'[c] \/ (r = md'[c] /\ r.size > 0)
<1>1. \A c, r : r \in OwnedBy(c) <=> r = mm[c] \/ (r = md[c] /\ r.size > 0)
  BY DEF OwnedBy, MotherOf, DaughterOf
<1>2. \A c, r : r \in OwnedBy(c)' <=> r = mm'[c] \/ (r = md'[c] /\ r.size > 0)
  BY DEF OwnedBy, MotherOf, DaughterOf
<1>3. \A r : r \in Held <=> r \in orphans \/ \E c \in live : r \in OwnedBy(c)
  BY DEF Held
<1>4. \A r : r \in Held' <=> r \in orphans' \/ \E c \in live' : r \in OwnedBy(c)'
  BY DEF Held
<1> QED
  BY <1>1, <1>2, <1>3, <1>4

(* Ownership, spelled out for the state before and after a step: the mother   *)
(* and daughter memories of all living cells, and the orphans, differ.        *)
Distinct(lv, m, d, orph) ==
    /\ \A c, e \in lv : c # e => m[c] # m[e]
    /\ \A c, e \in lv : d[e].size > 0 => m[c] # d[e]
    /\ \A c, e \in lv : c # e /\ d[c].size > 0 => d[c] # d[e]
    /\ \A c \in lv : m[c] \notin orph /\ (d[c].size > 0 => d[c] \notin orph)

LEMMA NoByteSharedIs ==
    /\ NoByteShared => Held \subseteq Block /\ Separate(free, Held) /\ Distinct(live, mm, md, orphans)
    /\ Held' \subseteq Block /\ Separate(free', Held') /\ Distinct(live', mm', md', orphans')
         => NoByteShared'
<1>1. ASSUME NoByteShared PROVE Distinct(live, mm, md, orphans)
  <2>1. \A c \in live : mm[c] \in Block
    BY <1>1, HeldIs DEF NoByteShared
  <2>2. \A c \in live : mm[c].size > 0
    BY <2>1, SoupSizeAssumption DEF Block
  <2> QED
    BY <1>1, <2>2 DEF NoByteShared, Distinct, OwnedBy, MotherOf, DaughterOf
<1>2. ASSUME Held' \subseteq Block, Distinct(live', mm', md', orphans')
      PROVE  /\ \A c, e \in live' : c # e => OwnedBy(c)' \cap OwnedBy(e)' = {}
             /\ \A c \in live' : mm'[c] # md'[c] /\ OwnedBy(c)' \cap orphans' = {}
  <2>1. \A c \in live' : mm'[c] \in Block
    BY <1>2, HeldIs
  <2>2. \A c \in live' : mm'[c].size > 0
    BY <2>1, SoupSizeAssumption DEF Block
  <2> QED
    BY <1>2, <2>2 DEF Distinct, OwnedBy, MotherOf, DaughterOf
<1> QED
  BY <1>1, <1>2 DEF NoByteShared

---------------------------------------------------------------------------
(* A memory given back, empty or not, leaves the rest of the partition alone. *)
LEMMA GiveBack ==
    ASSUME NEW f \in SUBSET Block, NEW H \in SUBSET Block, NEW r \in Region,
           r.size > 0 => r \in H, Separate(f, H), Covers(f, H)
    PROVE  LET g == MemDealloc(f, r.start, r.size)
           IN  g \subseteq Block /\ Separate(g, H \ {r}) /\ Covers(g, H \ {r})
<1>1. CASE r.size > 0
  BY <1>1, DeallocKeeps
<1>2. CASE ~(r.size > 0)
  <2>1. r \notin H
    BY <1>2, SoupSizeAssumption DEF Block
  <2>2. MemDealloc(f, r.start, r.size) = f
    BY <1>2, SoupSizeAssumption DEF MemDealloc, Region
  <2>3. H \ {r} = H
    BY <2>1
  <2> QED
    BY <2>2, <2>3
<1> QED
  BY <1>1, <1>2

(* A step that touches no memory keeps the partition. *)
LEMMA MemoryUntouched ==
    Partition /\ UNCHANGED <<free, mm, md, live, orphans>> => Partition'
BY DEF Partition, NoByteShared, EveryByteAccounted, Held, OwnedBy, MotherOf, DaughterOf

(* A reap gives back exactly what the reaped cell owns. *)
LEMMA ReapKeepsPartition == SoupInv /\ Reap => Partition' /\ free' \subseteq Block
<1> SUFFICES ASSUME SoupInv, Reap PROVE Partition' /\ free' \subseteq Block
  OBVIOUS
<1> DEFINE c == Head(line)
           freed == MemDealloc(free, mm[c].start, mm[c].size)
<1>1. /\ c \in live /\ c \in Slots
      /\ mm[c] \in Region /\ md[c] \in Region
      /\ free' = MemDealloc(freed, md[c].start, md[c].size)
      /\ live' = live \ {c} /\ orphans' = orphans
      /\ \A e \in live' : mm'[e] = mm[e] /\ md'[e] = md[e]
  BY DEF Reap, SoupInv, SoupTyped
<1>2. /\ free \subseteq Block /\ Held \subseteq Block
      /\ Separate(free, Held) /\ Covers(free, Held)
      /\ Distinct(live, mm, md, orphans)
  BY NoByteSharedIs DEF SoupInv, SoupTyped, Partition, EveryByteAccounted
<1>3. mm[c] \in Held /\ (md[c].size > 0 => md[c] \in Held)
  BY <1>1, HeldIs
<1> HIDE DEF c
<1>4. freed \subseteq Block /\ Separate(freed, Held \ {mm[c]}) /\ Covers(freed, Held \ {mm[c]})
  BY <1>1, <1>2, <1>3, GiveBack
<1>5. md[c].size > 0 => md[c] \in Held \ {mm[c]}
  BY <1>1, <1>2, <1>3 DEF Distinct
<1> HIDE DEF freed
<1>6. /\ free' \subseteq Block
      /\ Separate(free', (Held \ {mm[c]}) \ {md[c]})
      /\ Covers(free', (Held \ {mm[c]}) \ {md[c]})
  <2>1. Held \ {mm[c]} \in SUBSET Block
    BY <1>2
  <2> QED
    BY <2>1, <1>1, <1>4, <1>5, GiveBack
<1>7. Held' = (Held \ {mm[c]}) \ {md[c]}
  <2>1. ASSUME NEW r \in Held' PROVE r \in (Held \ {mm[c]}) \ {md[c]}
    <3>1. r \in Held
      BY <2>1, <1>1, HeldIs
    <3>2. r.size > 0
      BY <3>1, <1>2, SoupSizeAssumption DEF Block
    <3>3. CASE r \in orphans
      BY <3>1, <3>2, <3>3, <1>1, <1>2 DEF Distinct
    <3>4. CASE \E e \in live' : r = mm[e] \/ (r = md[e] /\ r.size > 0)
      BY <3>1, <3>2, <3>4, <1>1, <1>2 DEF Distinct
    <3> QED
      BY <2>1, <3>3, <3>4, <1>1, HeldIs
  <2>2. ASSUME NEW r \in (Held \ {mm[c]}) \ {md[c]} PROVE r \in Held'
    BY <2>2, <1>1, HeldIs
  <2> QED
    BY <2>1, <2>2
<1>8. Distinct(live', mm', md', orphans')
  BY <1>1, <1>2 DEF Distinct
<1> QED
  BY <1>2, <1>6, <1>7, <1>8, NoByteSharedIs DEF Partition, EveryByteAccounted

(* A fresh region that becomes the mother memory of a new cell. *)
LEMMA BirthKeepsPartition ==
    ASSUME TypeOK, Partition, NEW at, NEW size, PlacementIn(free, at, size),
           NEW s \in Slots \ live,
           free' = Carve(free, at, size), live' = live \cup {s},
           mm' = [mm EXCEPT ![s] = Blk(at.place, size)],
           \A c \in live : md'[c] = md[c], md'[s].size = 0, orphans' = orphans
    PROVE  Partition' /\ free' \subseteq Block /\ Blk(at.place, size) \in Region
<1> DEFINE r == Blk(at.place, size)
<1>1. /\ free \subseteq Block /\ Held \subseteq Block
      /\ Separate(free, Held) /\ Covers(free, Held)
      /\ Distinct(live, mm, md, orphans)
  BY NoByteSharedIs DEF TypeOK, Partition, EveryByteAccounted
<1>2. /\ r \in Block /\ r \notin Held /\ free' \subseteq Block
      /\ Separate(free', Held \cup {r}) /\ Covers(free', Held \cup {r})
  BY <1>1, CarveKeeps
<1>3. mm'[s] = r /\ \A c \in live : mm'[c] = mm[c]
  BY DEF TypeOK
<1> HIDE DEF r
<1>4. Held' = Held \cup {r}
  <2>1. ASSUME NEW x \in Held' PROVE x \in Held \cup {r}
    BY <1>3, HeldIs
  <2>2. ASSUME NEW x \in Held \cup {r} PROVE x \in Held'
    BY <1>3, HeldIs
  <2> QED
    BY <2>1, <2>2
<1>5. r \in Region
  BY <1>2, SoupSizeAssumption DEF Block, Region
<1>6. Distinct(live', mm', md', orphans')
  <2>1. \A x \in Held : x # r
    BY <1>2
  <2>2. \A c \in live : mm[c] # r /\ (md[c].size > 0 => md[c] # r)
    BY <2>1, HeldIs
  <2>3. \A c \in live : c # s /\ mm'[c] = mm[c] /\ md'[c] = md[c]
    BY <1>3
  <2>4. ~ (md'[s].size > 0) /\ mm'[s] = r /\ live' = live \cup {s} /\ orphans' = orphans
    BY <1>3
  <2>5. r \notin orphans
    BY <2>1, HeldIs
  <2> QED
    BY <2>2, <2>3, <2>4, <2>5, <1>1 DEF Distinct
<1> QED
  BY <1>1, <1>2, <1>4, <1>5, <1>6, NoByteSharedIs DEF Partition, EveryByteAccounted, r

---------------------------------------------------------------------------
(* Without takes a member out of a list and leaves a list. *)
LEMMA WithoutIsSeq ==
    ASSUME NEW S, NEW s \in Seq(S), NEW c
    PROVE  Without(s, c) \in Seq(S)
<1> DEFINE i == CHOOSE i \in DOMAIN s : s[i] = c
           w == [j \in 1 .. (Len(s) - 1) |-> s[IF j < i THEN j ELSE j + 1]]
<1>1. CASE c \notin Members(s)
  BY <1>1 DEF Without
<1>2. CASE c \in Members(s)
  <2>1. i \in 1 .. Len(s) /\ Len(s) \in Nat /\ DOMAIN s = 1 .. Len(s)
    BY <1>2 DEF Members
  <2>2. Without(s, c) = w
    BY <1>2 DEF Without
  <2> HIDE DEF i
  <2>3. \A j \in 1 .. (Len(s) - 1) : s[IF j < i THEN j ELSE j + 1] \in S
    BY <2>1, ElementOfSeq
  <2>4. Len(s) - 1 \in Nat
    BY <2>1
  <2>5. w \in [1 .. (Len(s) - 1) -> S]
    BY <2>3
  <2> QED
    BY <2>2, <2>4, <2>5
<1> QED
  BY <1>1, <1>2

(* A birth, a reap and a turn keep the lists well formed. *)
LEMMA EnterTyped ==
    ASSUME ListsTyped, NEW s \in Slots, NEW r, Enter(s, r)
    PROVE  ListsTyped'
BY DEF ListsTyped, Enter

LEMMA ReapTyped ==
    ASSUME SoupInv, Reap
    PROVE  SoupTyped' /\ ListsTyped'
<1> DEFINE c == Head(line)
           freed == MemDealloc(free, mm[c].start, mm[c].size)
<1>1. /\ CanReap /\ c \in live /\ c \in Slots /\ line # <<>>
      /\ free' = MemDealloc(freed, md[c].start, md[c].size)
      /\ ring' = Without(ring, c) /\ line' = Tail(line) /\ num_cells' = num_cells - 1
      /\ UNCHANGED <<copied, orphans>>
      /\ live' \subseteq Slots
  BY DEF Reap, SoupInv, SoupTyped, CanReap
<1>2. mm' \in [Slots -> Region] /\ md' \in [Slots -> Region]
  <2>1. \A r \in Region : [r EXCEPT !.size = 0] \in Region
    BY SoupSizeAssumption DEF Region
  <2>2. /\ mm' = [mm EXCEPT ![c] = [mm[c] EXCEPT !.size = 0]]
        /\ md' = [md EXCEPT ![c] = [md[c] EXCEPT !.size = 0]]
    BY DEF Reap
  <2>3. mm \in [Slots -> Region] /\ md \in [Slots -> Region]
    BY DEF SoupInv, SoupTyped
  <2> HIDE DEF c
  <2>4. [mm[c] EXCEPT !.size = 0] \in Region /\ [md[c] EXCEPT !.size = 0] \in Region
    BY <1>1, <2>1, <2>3
  <2> QED
    BY <2>2, <2>3, <2>4
<1>3. ring' \in Seq(Slots) /\ line' \in Seq(Slots)
  BY <1>1, WithoutIsSeq DEF SoupInv, ListsTyped
<1>4. num_cells' \in Nat
  BY <1>1, PopulationAssumption DEF CanReap, SoupInv, ListsTyped, KnobsTyped
<1>5. free' \subseteq Block
  BY ReapKeepsPartition
<1> QED
  BY <1>1, <1>2, <1>3, <1>4, <1>5 DEF SoupTyped, ListsTyped, SoupInv

---------------------------------------------------------------------------
(* Reusable parts of a step. *)

LEMMA NoRequestTyped == NoRequest \in Request
BY DEF NoRequest, Request, Modes

LEMMA ReturnKnows == Return => ControlTyped' /\ HandlersKnow'
BY NoRequestTyped DEF Return, ControlTyped, HandlersKnow, Phases

LEMMA Untouched ==
    /\ SoupTyped /\ UNCHANGED <<memory, live, copied, orphans>> => SoupTyped'
    /\ ListsTyped /\ UNCHANGED queues => ListsTyped'
    /\ KnobsTyped /\ UNCHANGED knobs => KnobsTyped'
    /\ ControlTyped /\ UNCHANGED control => ControlTyped'
    /\ Partition /\ UNCHANGED <<memory, live, orphans>> => Partition'
BY MemoryUntouched DEF SoupTyped, ListsTyped, KnobsTyped, ControlTyped, memory, queues, knobs, control

(* A handler that may not reap, or is not about to change the soup, stays put. *)
LEMMA NothingMoves ==
    MemInv /\ UNCHANGED <<memory, live, copied, queues, orphans>>
      => SoupTyped' /\ ListsTyped' /\ Partition'
BY Untouched, TypeParts DEF MemInv

LEMMA ReapKeeps ==
    SoupInv /\ Reap => /\ SoupTyped' /\ ListsTyped' /\ Partition'
                      /\ \A s \in Slots : md[s].size = 0 => md'[s].size = 0
<1> SUFFICES ASSUME SoupInv, Reap PROVE \A s \in Slots : md[s].size = 0 => md'[s].size = 0
  BY ReapTyped, ReapKeepsPartition
<1> DEFINE c == Head(line)
<1>1. md' = [md EXCEPT ![c] = [md[c] EXCEPT !.size = 0]]
  BY DEF Reap
<1>2. md \in [Slots -> Region]
  BY DEF SoupInv, SoupTyped
<1> QED
  BY <1>1, <1>2 DEF Region

(* A newborn of the host over a fresh region: inject, accept_immigrant. *)
LEMMA SettleKeeps ==
    ASSUME MemInv, NEW at, NEW s \in AllocCell, PlacementIn(free, at, req.size),
           Settle(at, s), UNCHANGED orphans
    PROVE  SoupTyped' /\ ListsTyped' /\ Partition'
<1>1. s \in Slots \ live
  BY DEF AllocCell
<1>2. NoRegion \in Region /\ NoRegion.size = 0
  BY SoupSizeAssumption DEF NoRegion, Region, Blk, Addr
<1>3. md' = [md EXCEPT ![s] = NoRegion] /\ md \in [Slots -> Region]
  BY DEF Settle, MemInv, TypeOK
<1>4. md' \in [Slots -> Region] /\ md'[s].size = 0 /\ \A c \in live : md'[c] = md[c]
  BY <1>1, <1>2, <1>3 DEF MemInv, TypeOK
<1>5. Partition' /\ free' \subseteq Block /\ Blk(at.place, req.size) \in Region
  BY <1>1, <1>4, BirthKeepsPartition DEF Settle, Enter, MemInv
<1>6. ListsTyped'
  BY <1>1, EnterTyped, TypeParts DEF Settle, MemInv
<1>7. SoupTyped'
  BY <1>1, <1>4, <1>5 DEF SoupTyped, Settle, Enter, MemInv, TypeOK
<1> QED
  BY <1>5, <1>6, <1>7

(* Whatever a handler asks for, mem_alloc answers with a place in a free block. *)
LEMMA PlacementsInside ==
    MemInv => \A at \in Placements : PlacementIn(free, at, req.size)
BY MemAllocPlaces DEF Placements, MemInv, TypeOK, Request

LEMMA AttemptsInside ==
    ASSUME MemInv, phase = "mal", NEW found \in Attempts, NEW at \in found
    PROVE  PlacementIn(free, at, req.size)
<1>1. /\ free \in SUBSET Block /\ req.size \in Int /\ req.tol \in Int
      /\ SoupSize - 1 \in Int /\ mm[ce].start \in Int /\ req.mode \in Modes
  BY SoupSizeAssumption DEF MemInv, TypeOK, Request, HandlersKnow, Region, Addr
<1>2. CASE req.mode = "first"
  <2>1. at \in MemAlloc(free, req.size, 0, SoupSize - 1)
    BY <1>2 DEF Attempts
  <2> QED
    BY <1>1, <2>1, MemAllocPlaces
<1>3. CASE req.mode = "better"
  <2>1. at \in MemAlloc(free, req.size, -1, 0)
    BY <1>3 DEF Attempts
  <2> QED
    BY <1>1, <2>1, MemAllocPlaces
<1>4. CASE req.mode = "near"
  <2>1. at \in MemAlloc(free, req.size, mm[ce].start, req.tol)
    BY <1>4 DEF Attempts
  <2> QED
    BY <1>1, <2>1, MemAllocPlaces
<1>5. CASE req.mode = "random"
  <2>1. PICK sad \in 0 .. (SoupSize - req.size - 1) \cup {0} :
            at \in MemAlloc(free, req.size, sad, req.tol)
    BY <1>5 DEF Attempts
  <2>2. sad \in Int
    BY <1>1
  <2> QED
    BY <1>1, <2>1, <2>2, MemAllocPlaces
<1> QED
  BY <1>1, <1>2, <1>3, <1>4, <1>5 DEF Modes

---------------------------------------------------------------------------
(* The empty VM of start(). *)

LEMMA FreshPartition ==
    /\ FreshSoup \subseteq Block
    /\ Separate(FreshSoup, {}) /\ Covers(FreshSoup, {})
    /\ NoRegion \in Region /\ NoRegion.size = 0
<1>1. /\ Blk(0, SoupSize) \in Block
      /\ Blk(0, SoupSize).start = 0 /\ End(Blk(0, SoupSize)) = SoupSize
  BY SoupSizeAssumption DEF Blk, Block, Addr, End
<1>2. Bytes(Blk(0, SoupSize)) = Addr
  BY <1>1 DEF Bytes, Addr
<1>3. NoRegion \in Region /\ NoRegion.size = 0
  BY SoupSizeAssumption DEF NoRegion, Region, Blk, Addr
<1> QED
  BY <1>1, <1>2, <1>3 DEF FreshSoup, Separate, Covers

LEMMA ToPlaceTyped == ToPlace \in Request /\ 0 + ToPlace.left = NumInoculum
<1>1. ToPlace = [size |-> 0, mode |-> "better", tol |-> 0, left |-> NumInoculum]
  BY DEF ToPlace, NoRequest
<1> QED
  BY <1>1, PopulationAssumption DEF Request, Modes

LEMMA InitMem == Init => MemInv
<1> SUFFICES ASSUME Init PROVE MemInv
  OBVIOUS
<1>1. Held = {}
  BY DEF Init, Held
<1>2. NoRegions \in [Slots -> Region] /\ \A s \in Slots : NoRegions[s].size = 0
  BY FreshPartition DEF NoRegions
<1>3. TypeOK
  BY <1>2, FreshPartition, ToPlaceTyped, PopulationAssumption DEF Init, TypeOK, Phases
<1>4. Partition
  BY <1>1, FreshPartition DEF Init, Partition, NoByteShared, EveryByteAccounted
<1>5. live = 0 .. (num_cells - 1)
  BY DEF Init
<1> QED
  BY <1>2, <1>3, <1>4, <1>5, ToPlaceTyped DEF Init, MemInv, HandlersKnow

LEMMA StartKeeps == KnobsTyped /\ Start => MemInv'
<1> SUFFICES ASSUME KnobsTyped, Start PROVE MemInv'
  OBVIOUS
<1>1. Held' = {}
  BY DEF Start, Held
<1>2. NoRegions \in [Slots -> Region] /\ \A s \in Slots : NoRegions[s].size = 0
  BY FreshPartition DEF NoRegions
<1>3. TypeOK'
  BY <1>2, FreshPartition, ToPlaceTyped DEF Start, KnobsTyped, TypeOK, Phases, knobs
<1>4. Partition'
  BY <1>1, FreshPartition DEF Start, Partition, NoByteShared, EveryByteAccounted
<1>5. live' = 0 .. (num_cells' - 1)
  BY DEF Start
<1> QED
  BY <1>2, <1>3, <1>4, <1>5, ToPlaceTyped DEF Start, MemInv, HandlersKnow

LEMMA InoculateKeeps == MemInv /\ Inoculate => MemInv'
<1> SUFFICES ASSUME MemInv, Inoculate PROVE MemInv'
  OBVIOUS
<1>1. PICK size \in GenomeSizes, addr \in Addr : \E at \in Inoculated(size, addr) :
          free' = Carve(free, at, size) /\ Enter(num_cells, Blk(at.place, size))
  BY DEF Inoculate
<1>2. PICK at \in Inoculated(size, addr) :
          free' = Carve(free, at, size) /\ Enter(num_cells, Blk(at.place, size))
  BY <1>1
<1>3. /\ phase = "inoculate" /\ req.left > 0 /\ req' = [req EXCEPT !.left = @ - 1]
      /\ UNCHANGED <<md, copied, knobs, phase, ce, orphans>>
  BY DEF Inoculate
<1>4. /\ live = 0 .. (num_cells - 1) /\ num_cells + req.left = NumInoculum
      /\ \A s \in Slots : md[s].size = 0
  BY <1>3 DEF MemInv, HandlersKnow
<1>5. num_cells \in Nat /\ req \in Request /\ req.left \in Nat
  BY DEF MemInv, TypeOK, Request
<1>6. num_cells \in Slots \ live
  BY <1>3, <1>4, <1>5, PopulationAssumption DEF Slots
<1>7. PlacementIn(free, at, size)
  <2>1. size \in Int /\ addr \in Int /\ SoupSize \in Int /\ free \in SUBSET Block
    BY SoupSizeAssumption, PopulationAssumption DEF Addr, MemInv, TypeOK
  <2> QED
    BY <1>2, <2>1, MemAllocPlaces DEF Inoculated
<1>8. Partition' /\ free' \subseteq Block /\ Blk(at.place, size) \in Region
  BY <1>2, <1>3, <1>4, <1>6, <1>7, BirthKeepsPartition DEF Enter, MemInv
<1>9. ListsTyped'
  BY <1>2, <1>6, EnterTyped, TypeParts DEF MemInv
<1>10. SoupTyped'
  BY <1>2, <1>3, <1>6, <1>8 DEF SoupTyped, Enter, MemInv, TypeOK
<1>11. /\ req' \in Request /\ req'.left = req.left - 1
       /\ ControlTyped'
  BY <1>3, <1>5 DEF Request, ControlTyped, MemInv, TypeOK
<1>12. live' = 0 .. (num_cells' - 1) /\ num_cells' = num_cells + 1
  BY <1>2, <1>4, <1>5 DEF Enter
<1>13. HandlersKnow'
  BY <1>3, <1>4, <1>5, <1>11, <1>12 DEF HandlersKnow
<1> QED
  BY <1>3, <1>8, <1>9, <1>10, <1>11, <1>13, Untouched, TypeParts DEF MemInv

---------------------------------------------------------------------------
(* mal and divide. *)

LEMMA MalRequestKeeps == MemInv /\ MalRequest => MemInv'
<1> SUFFICES ASSUME MemInv, MalRequest PROVE MemInv'
  OBVIOUS
<1>1. /\ phase = "slice" /\ ce \in live /\ ce \in Slots /\ phase' = "mal"
      /\ UNCHANGED <<mm, live, queues, knobs, ce, orphans>>
      /\ free' = MemDealloc(free, md[ce].start, md[ce].size)
  BY DEF MalRequest, MemInv, TypeOK
<1>2. /\ md[ce] \in Region /\ NoRegion \in Region /\ NoRegion.size = 0
      /\ md \in [Slots -> Region]
  BY <1>1, FreshPartition DEF MemInv, TypeOK
<1>3. IF md[ce].size > 0 THEN md' = [md EXCEPT ![ce] = NoRegion] /\ copied' = copied \ {ce}
      ELSE md' = md /\ copied' = copied
  BY DEF MalRequest
<1>4. /\ md' \in [Slots -> Region] /\ md'[ce].size = 0
      /\ \A c \in Slots : c # ce => md'[c] = md[c]
      /\ copied' \subseteq Slots
  <2>1. copied \subseteq Slots
    BY DEF MemInv, TypeOK
  <2>2. CASE md[ce].size > 0
    BY <1>1, <1>2, <1>3, <2>1, <2>2
  <2>3. CASE ~ (md[ce].size > 0)
    <3>1. md[ce].size = 0
      BY <1>2, <2>3, SoupSizeAssumption DEF Region
    <3> QED
      BY <1>2, <1>3, <2>1, <2>3, <3>1
  <2> QED
    BY <2>2, <2>3
<1>5. /\ free \subseteq Block /\ Held \subseteq Block
      /\ Separate(free, Held) /\ Covers(free, Held)
      /\ Distinct(live, mm, md, orphans)
  BY NoByteSharedIs DEF MemInv, TypeOK, Partition, EveryByteAccounted
<1>6. /\ md[ce].size > 0 => md[ce] \in Held
      /\ live \subseteq Slots
  BY <1>1, HeldIs DEF MemInv, TypeOK
<1>7. /\ free' \subseteq Block /\ Separate(free', Held \ {md[ce]})
      /\ Covers(free', Held \ {md[ce]})
  BY <1>1, <1>2, <1>5, <1>6, GiveBack
<1>8. \A r \in Held : r.size > 0
  BY <1>5, SoupSizeAssumption DEF Block
<1>9. Held' = Held \ {md[ce]}
  <2>1. ASSUME NEW r \in Held' PROVE r \in Held \ {md[ce]}
    <3>1. r \in Held
      BY <1>1, <1>4, <1>6, HeldIs
    <3>2. r # md[ce]
      BY <2>1, <3>1, <1>1, <1>4, <1>5, <1>6, <1>8, HeldIs DEF Distinct
    <3> QED
      BY <3>1, <3>2
  <2>2. ASSUME NEW r \in Held \ {md[ce]} PROVE r \in Held'
    BY <1>1, <1>4, <1>6, HeldIs
  <2> QED
    BY <2>1, <2>2
<1>10. Distinct(live', mm', md', orphans')
  BY <1>1, <1>4, <1>5, <1>6 DEF Distinct
<1>11. Partition'
  BY <1>5, <1>7, <1>9, <1>10, NoByteSharedIs DEF Partition, EveryByteAccounted
<1>12. SoupTyped'
  BY <1>1, <1>4, <1>7 DEF SoupTyped, MemInv, TypeOK
<1>13. req' \in Request
  <2>1. PICK sug \in MinCellSize .. (SoupSize - 1), mode \in Modes :
            \E tol \in IF mode \in {"near", "random"} THEN MalLimits ELSE {0} :
                req' = [size |-> IF MalSamSiz THEN mm[ce].size ELSE sug,
                        mode |-> mode, tol |-> tol, left |-> 0]
    BY DEF MalRequest
  <2>2. PICK tol \in IF mode \in {"near", "random"} THEN MalLimits ELSE {0} :
                req' = [size |-> IF MalSamSiz THEN mm[ce].size ELSE sug,
                        mode |-> mode, tol |-> tol, left |-> 0]
    BY <2>1
  <2>3. tol \in Nat /\ sug \in Nat /\ mm[ce].size \in Nat
    BY <1>1, SoupSizeAssumption, PopulationAssumption DEF MemInv, TypeOK, Region
  <2> QED
    BY <2>2, <2>3 DEF Request
<1>14. ControlTyped' /\ HandlersKnow'
  BY <1>1, <1>4, <1>13 DEF ControlTyped, HandlersKnow, Phases
<1> QED
  BY <1>1, <1>11, <1>12, <1>14, Untouched, TypeParts DEF MemInv

LEMMA MalPlacedKeeps == MemInv /\ MalPlaced => MemInv'
<1> SUFFICES ASSUME MemInv, MalPlaced PROVE MemInv'
  OBVIOUS
<1>1. PICK found \in Attempts : \E at \in found :
          /\ free' = Carve(free, at, req.size)
          /\ md' = [md EXCEPT ![ce] = Blk(at.place, req.size)]
          /\ orphans' = IF ce \in live THEN orphans
                        ELSE orphans \cup {Blk(at.place, req.size)}
  BY DEF MalPlaced
<1>2. PICK at \in found :
          /\ free' = Carve(free, at, req.size)
          /\ md' = [md EXCEPT ![ce] = Blk(at.place, req.size)]
          /\ orphans' = IF ce \in live THEN orphans
                        ELSE orphans \cup {Blk(at.place, req.size)}
  BY <1>1
<1>3. /\ phase = "mal" /\ phase' = "slice" /\ req' = NoRequest
      /\ UNCHANGED <<mm, live, copied, queues, knobs, ce>>
  BY DEF MalPlaced
<1>4. ce \in Slots /\ md[ce].size = 0 /\ live \subseteq Slots
  BY <1>3 DEF MemInv, HandlersKnow, TypeOK
<1> DEFINE r == Blk(at.place, req.size)
<1>5. /\ free \subseteq Block /\ Held \subseteq Block
      /\ Separate(free, Held) /\ Covers(free, Held)
      /\ Distinct(live, mm, md, orphans)
  BY NoByteSharedIs DEF MemInv, TypeOK, Partition, EveryByteAccounted
<1>6. PlacementIn(free, at, req.size)
  BY <1>3, AttemptsInside
<1>7. /\ r \in Block /\ r \notin Held /\ free' \subseteq Block
      /\ Separate(free', Held \cup {r}) /\ Covers(free', Held \cup {r})
  BY <1>2, <1>5, <1>6, CarveKeeps
<1>8. r \in Region /\ r.size > 0
  BY <1>7, SoupSizeAssumption DEF Block, Region
<1>9. /\ md' \in [Slots -> Region] /\ md'[ce] = r
      /\ \A c \in Slots : c # ce => md'[c] = md[c]
  BY <1>2, <1>4, <1>8 DEF MemInv, TypeOK
<1>10. orphans' = IF ce \in live THEN orphans ELSE orphans \cup {r}
  BY <1>2
<1> HIDE DEF r
<1>11. Held' = Held \cup {r}
  <2>1. ASSUME NEW x \in Held' PROVE x \in Held \cup {r}
    BY <2>1, <1>3, <1>4, <1>9, <1>10, HeldIs
  <2>2. ASSUME NEW x \in Held PROVE x \in Held'
    BY <2>2, <1>3, <1>4, <1>9, <1>10, HeldIs
  <2>3. r \in Held'
    BY <1>3, <1>8, <1>9, <1>10, HeldIs
  <2> QED
    BY <2>1, <2>2, <2>3
<1>12. Distinct(live', mm', md', orphans')
  <2>1. r \notin orphans /\ \A c \in live : mm[c] # r /\ (md[c].size > 0 => md[c] # r)
    BY <1>7, HeldIs
  <2>2. \A c \in live : mm[c] # r /\ mm[c] \notin orphans
    BY <2>1, <1>5 DEF Distinct
  <2>3. CASE ce \in live
    BY <2>1, <2>3, <1>3, <1>4, <1>5, <1>8, <1>9, <1>10 DEF Distinct
  <2>4. CASE ce \notin live
    BY <2>1, <2>4, <1>3, <1>4, <1>5, <1>8, <1>9, <1>10 DEF Distinct
  <2> QED
    BY <2>3, <2>4
<1>13. Partition'
  BY <1>5, <1>7, <1>11, <1>12, NoByteSharedIs DEF Partition, EveryByteAccounted
<1>14. SoupTyped'
  BY <1>3, <1>7, <1>9, <1>10 DEF SoupTyped, MemInv, TypeOK
<1>15. ControlTyped' /\ HandlersKnow'
  BY <1>3, <1>4, NoRequestTyped DEF ControlTyped, HandlersKnow, Phases
<1> QED
  BY <1>3, <1>13, <1>14, <1>15, Untouched, TypeParts DEF MemInv

(* The daughter memory of a living cell becomes the body of a new one. *)
LEMMA DaughterBorn ==
    ASSUME SoupInv, ce \in live, md[ce].size >= MinCellSize, NEW s \in AllocCell,
           Enter(s, md[ce]), md' = [md EXCEPT ![s] = NoRegion, ![ce] = NoRegion],
           copied' = copied \ {s, ce}, UNCHANGED <<free, orphans>>
    PROVE  SoupTyped' /\ ListsTyped' /\ Partition'
<1> USE DEF SoupInv
<1>1. ce \in Slots /\ s \in Slots \ live /\ s # ce /\ live \subseteq Slots
  BY DEF AllocCell, SoupTyped
<1>2. /\ mm \in [Slots -> Region] /\ md \in [Slots -> Region]
      /\ md[ce] \in Region /\ md[ce].size > 0 /\ NoRegion \in Region /\ NoRegion.size = 0
  BY <1>1, FreshPartition, PopulationAssumption DEF SoupTyped, Region
<1>3. /\ mm' \in [Slots -> Region] /\ md' \in [Slots -> Region]
      /\ mm'[s] = md[ce] /\ md'[s].size = 0 /\ md'[ce].size = 0
      /\ \A c \in Slots : c # s => mm'[c] = mm[c]
      /\ \A c \in Slots : c # s /\ c # ce => md'[c] = md[c]
      /\ live' = live \cup {s}
  BY <1>1, <1>2 DEF Enter
<1>4. /\ free \subseteq Block /\ Held \subseteq Block
      /\ Separate(free, Held) /\ Covers(free, Held)
      /\ Distinct(live, mm, md, orphans)
  BY NoByteSharedIs DEF SoupTyped, Partition, EveryByteAccounted
<1>5. Held' = Held
  <2>1. ASSUME NEW x \in Held' PROVE x \in Held
    BY <2>1, <1>1, <1>2, <1>3, HeldIs
  <2>2. ASSUME NEW x \in Held PROVE x \in Held'
    BY <2>2, <1>1, <1>2, <1>3, HeldIs
  <2> QED
    BY <2>1, <2>2
<1>6. Distinct(live', mm', md', orphans')
  BY <1>1, <1>2, <1>3, <1>4 DEF Distinct
<1>7. Partition'
  BY <1>4, <1>5, <1>6, NoByteSharedIs DEF Partition, EveryByteAccounted
<1>8. ListsTyped'
  BY <1>1, EnterTyped
<1>9. SoupTyped'
  BY <1>1, <1>3 DEF SoupTyped
<1> QED
  BY <1>7, <1>8, <1>9

LEMMA DivideKeeps == MemInv /\ Divide => MemInv'
<1> SUFFICES ASSUME MemInv, Divide PROVE MemInv'
  OBVIOUS
<1>1. PICK s \in AllocCell :
          /\ Enter(s, md[ce])
          /\ md' = [md EXCEPT ![s] = NoRegion, ![ce] = NoRegion]
          /\ copied' = copied \ {s, ce}
  BY DEF Divide
<1>2. /\ phase = "slice" /\ ce \in live /\ md[ce].size >= MinCellSize
      /\ UNCHANGED <<free, knobs, control, orphans>>
  BY DEF Divide
<1>3. SoupTyped' /\ ListsTyped' /\ Partition'
  BY <1>1, <1>2, MemHasSoup, DaughterBorn
<1>4. HandlersKnow'
  BY <1>2 DEF MemInv, HandlersKnow, control
<1> QED
  BY <1>2, <1>3, <1>4, Untouched, TypeParts DEF MemInv

---------------------------------------------------------------------------
(* Every step keeps the invariant. *)

LEMMA NextMem == MemInv /\ [Next]_vars => MemInv'
<1> SUFFICES ASSUME MemInv, [Next]_vars PROVE MemInv'
  OBVIOUS
<1>1. TypeOK /\ SoupTyped /\ ListsTyped /\ KnobsTyped /\ ControlTyped /\ Partition /\ HandlersKnow
  BY TypeParts DEF MemInv
<1>2. SoupTyped' /\ ListsTyped' /\ KnobsTyped' /\ ControlTyped' /\ Partition' /\ HandlersKnow' => MemInv'
  BY TypeParts DEF MemInv
<1>3. CASE UNCHANGED vars
  <2>1. /\ UNCHANGED <<memory, live, copied, orphans>> /\ UNCHANGED queues
        /\ UNCHANGED knobs /\ UNCHANGED control
    BY <1>3 DEF vars
  <2>2. HandlersKnow'
    BY <1>1, <2>1 DEF HandlersKnow, memory, queues, control
  <2> QED
    BY <1>1, <1>2, <2>1, <2>2, Untouched
<1>4. CASE InoculumDone
  BY <1>1, <1>2, <1>4, NothingMoves, Untouched, ReturnKnows DEF InoculumDone
<1>5. CASE MalReaps
  <2>1. /\ SoupTyped' /\ ListsTyped' /\ Partition'
        /\ \A s \in Slots : md[s].size = 0 => md'[s].size = 0
    BY <1>5, MemHasSoup, ReapKeeps DEF MalReaps
  <2>2. HandlersKnow'
    BY <1>1, <1>5, <2>1 DEF MalReaps, HandlersKnow, control
  <2> QED
    BY <1>1, <1>2, <1>5, <2>1, <2>2, Untouched DEF MalReaps
<1>6. CASE MalFails
  <2>1. ControlTyped' /\ HandlersKnow'
    BY <1>1, <1>6, NoRequestTyped DEF MalFails, ControlTyped, HandlersKnow, Phases
  <2> QED
    BY <1>1, <1>2, <1>6, <2>1, NothingMoves, Untouched DEF MalFails
<1>7. CASE InjectMakesRoom \/ ImmigrantMakesRoom
  <2>1. Reap /\ UNCHANGED <<knobs, control>> /\ phase' \in {"inject.room", "immigrant.room"}
    BY <1>7 DEF InjectMakesRoom, ImmigrantMakesRoom, control
  <2>2. HandlersKnow'
    BY <2>1 DEF HandlersKnow
  <2> QED
    BY <1>1, <1>2, <2>1, <2>2, MemHasSoup, ReapKeeps, Untouched
<1>8. CASE InjectProceeds \/ ImmigrantProceeds
  <2>1. /\ UNCHANGED <<memory, live, copied, queues, knobs, ce, req, orphans>>
        /\ phase' \in {"inject.place", "immigrant.place"}
    BY <1>8 DEF InjectProceeds, ImmigrantProceeds
  <2>2. ControlTyped' /\ HandlersKnow'
    BY <1>1, <2>1 DEF ControlTyped, HandlersKnow, Phases
  <2> QED
    BY <1>1, <1>2, <2>1, <2>2, NothingMoves, Untouched
<1>9. CASE InjectPlaced
  <2>1. PICK at \in Placements, s \in AllocCell : Settle(at, s)
    BY <1>9 DEF InjectPlaced
  <2>2. SoupTyped' /\ ListsTyped' /\ Partition'
    BY <1>9, <2>1, PlacementsInside, SettleKeeps DEF InjectPlaced
  <2>3. ControlTyped' /\ HandlersKnow'
    <3>1. CASE req.left > 1
      <4>1. /\ phase' = "inject.room" /\ req' = [req EXCEPT !.left = @ - 1] /\ ce' = ce
        BY <1>9, <3>1 DEF InjectPlaced
      <4>2. req' \in Request
        BY <1>1, <3>1, <4>1 DEF ControlTyped, Request
      <4> QED
        BY <1>1, <4>1, <4>2 DEF ControlTyped, HandlersKnow, Phases
    <3>2. CASE ~ (req.left > 1)
      BY <1>9, <3>2, ReturnKnows DEF InjectPlaced
    <3> QED
      BY <3>1, <3>2
  <2> QED
    BY <1>1, <1>2, <1>9, <2>2, <2>3, Untouched DEF InjectPlaced
<1>10. CASE InjectNoSlot
  <2>1. PICK at \in Placements : free' = MemDealloc(Carve(free, at, req.size), at.place, req.size)
    BY <1>10 DEF InjectNoSlot
  <2>2. UNCHANGED <<mm, md, live, copied, queues, knobs, orphans>> /\ Return
    BY <1>10 DEF InjectNoSlot
  <2> DEFINE r == Blk(at.place, req.size)
             carved == Carve(free, at, req.size)
  <2>3. /\ free \subseteq Block /\ Held \subseteq Block
        /\ Separate(free, Held) /\ Covers(free, Held)
        /\ Distinct(live, mm, md, orphans)
    BY <1>1, NoByteSharedIs DEF TypeOK, Partition, EveryByteAccounted
  <2>4. /\ r \in Block /\ r \notin Held /\ carved \subseteq Block
        /\ Separate(carved, Held \cup {r}) /\ Covers(carved, Held \cup {r})
    BY <2>1, <2>3, PlacementsInside, CarveKeeps
  <2>5. r.start = at.place /\ r.size = req.size
    BY DEF Blk
  <2>6. free' = MemDealloc(carved, r.start, r.size)
    BY <2>1, <2>5
  <2> HIDE DEF r, carved
  <2>7. /\ free' \subseteq Block /\ Separate(free', (Held \cup {r}) \ {r})
        /\ Covers(free', (Held \cup {r}) \ {r})
    <3>1. Held \cup {r} \in SUBSET Block
      BY <2>3, <2>4
    <3> QED
      BY <2>4, <2>6, <3>1, DeallocKeeps
  <2>8. (Held \cup {r}) \ {r} = Held
    BY <2>4
  <2>9. Held' = Held
    BY <2>2 DEF Held, OwnedBy, MotherOf, DaughterOf
  <2>10. Partition'
    BY <2>2, <2>3, <2>7, <2>8, <2>9, NoByteSharedIs DEF Partition, EveryByteAccounted
  <2>11. SoupTyped'
    BY <1>1, <2>2, <2>7 DEF SoupTyped
  <2> QED
    BY <1>1, <1>2, <2>2, <2>10, <2>11, Untouched, ReturnKnows
<1>11. CASE InjectReaps
  <2>1. ControlTyped' /\ HandlersKnow'
    BY <1>1, <1>11 DEF InjectReaps, ControlTyped, HandlersKnow, Phases
  <2> QED
    BY <1>1, <1>2, <1>11, <2>1, MemHasSoup, ReapKeeps, Untouched DEF InjectReaps
<1>12. CASE InjectFails \/ ImmigrantRejected \/ SliceAborted
  <2>1. Return /\ UNCHANGED <<memory, live, copied, queues, knobs, orphans>>
    BY <1>12 DEF InjectFails, ImmigrantRejected, SliceAborted
  <2> QED
    BY <1>1, <1>2, <2>1, NothingMoves, Untouched, ReturnKnows
<1>13. CASE ImmigrantPlaced
  <2>1. PICK at \in Placements, s \in AllocCell : Settle(at, s)
    BY <1>13 DEF ImmigrantPlaced
  <2>2. SoupTyped' /\ ListsTyped' /\ Partition'
    BY <1>13, <2>1, PlacementsInside, SettleKeeps DEF ImmigrantPlaced
  <2> QED
    BY <1>1, <1>2, <1>13, <2>2, Untouched, ReturnKnows DEF ImmigrantPlaced
<1>14. CASE ImmigrantReaps
  <2>1. req' \in Request
    BY <1>1, <1>14 DEF ImmigrantReaps, ControlTyped, Request
  <2>2. ControlTyped' /\ HandlersKnow'
    BY <1>1, <1>14, <2>1 DEF ImmigrantReaps, ControlTyped, HandlersKnow, Phases
  <2> QED
    BY <1>1, <1>2, <1>14, <2>2, MemHasSoup, ReapKeeps, Untouched DEF ImmigrantReaps
<1>15. CASE SetMaxCells \/ SetNumCellsMin
  <2>1. UNCHANGED <<memory, live, copied, queues, control, orphans>> /\ phase' = "host"
    BY <1>15 DEF SetMaxCells, SetNumCellsMin, control
  <2>2. KnobsTyped'
    BY <1>1, <1>15 DEF SetMaxCells, SetNumCellsMin, KnobsTyped
  <2> QED
    BY <1>1, <1>2, <2>1, <2>2, NothingMoves, Untouched DEF HandlersKnow
<1>16. CASE SliceBegin
  <2>1. ce' \in Slots /\ phase' = "slice" /\ req' = req
    BY <1>1, <1>16 DEF SliceBegin, TypeOK
  <2>2. ControlTyped' /\ HandlersKnow'
    BY <1>1, <2>1 DEF ControlTyped, HandlersKnow, Phases
  <2> QED
    BY <1>1, <1>2, <1>16, <2>2, NothingMoves, Untouched DEF SliceBegin
<1>17. CASE InjectBegin \/ ImmigrantArrives
  <2>1. /\ UNCHANGED <<memory, live, copied, queues, knobs, ce, orphans>>
        /\ phase' \in {"inject.room", "immigrant.room"}
    BY <1>17 DEF InjectBegin, ImmigrantArrives
  <2>2. req' \in Request
    <3>1. \A size \in GenomeSizes, n \in Nat :
              [NoRequest EXCEPT !.size = size, !.left = n] \in Request
      BY PopulationAssumption DEF NoRequest, Request, Modes
    <3>2. PICK size \in GenomeSizes, n \in Nat :
              req' = [NoRequest EXCEPT !.size = size, !.left = n]
      <4>1. CASE InjectBegin
        <5>1. PICK size \in GenomeSizes, n \in 1 .. MaxClones :
                  req' = [NoRequest EXCEPT !.size = size, !.left = n]
          BY <4>1 DEF InjectBegin
        <5>2. n \in Nat
          BY PopulationAssumption
        <5> QED
          BY <5>1, <5>2
      <4>2. CASE ImmigrantArrives
        <5>1. PICK size \in GenomeSizes :
                  req' = [NoRequest EXCEPT !.size = size, !.left = ImmigrantTries]
          BY <4>2 DEF ImmigrantArrives
        <5>2. ImmigrantTries \in Nat
          BY PopulationAssumption
        <5> QED
          BY <5>1, <5>2
      <4> QED
        BY <1>17, <4>1, <4>2
    <3> QED
      BY <3>1, <3>2
  <2>3. ControlTyped' /\ HandlersKnow'
    BY <1>1, <2>1, <2>2 DEF ControlTyped, HandlersKnow, Phases
  <2> QED
    BY <1>1, <1>2, <2>1, <2>3, NothingMoves, Untouched
<1>18. CASE CopyDaughter
  <2>1. SoupTyped'
    BY <1>1, <1>18 DEF CopyDaughter, SoupTyped, memory
  <2>2. HandlersKnow'
    BY <1>1, <1>18 DEF CopyDaughter, HandlersKnow, control, memory, queues
  <2> QED
    BY <1>1, <1>2, <1>18, <2>1, <2>2, Untouched DEF CopyDaughter
<1>19. CASE SliceEnd
  <2>1. ring' \in Seq(Slots)
    BY <1>1, <1>19 DEF SliceEnd, ListsTyped
  <2>2. ListsTyped'
    BY <1>1, <1>19, <2>1 DEF SliceEnd, ListsTyped
  <2>3. SoupTyped' /\ Partition'
    BY <1>1, <1>19, Untouched DEF SliceEnd
  <2> QED
    BY <1>1, <1>2, <1>19, <2>2, <2>3, Untouched, ReturnKnows DEF SliceEnd
<1> QED
  BY <1>3, <1>4, <1>5, <1>6, <1>7, <1>8, <1>9, <1>10, <1>11, <1>12, <1>13, <1>14, <1>15, <1>16,
     <1>17, <1>18, <1>19, <1>1, StartKeeps, InoculateKeeps, MalRequestKeeps, MalPlacedKeeps, DivideKeeps
  DEF Next, HandlerStep, HostStep, SliceStep

LEMMA SpecMem == Spec => []MemInv
BY InitMem, NextMem, PTL DEF Spec

(* The cells, their memories, the queues and the handler in progress stay well *)
(* formed, for every soup, limit and genome size.                              *)
THEOREM PopulationTypeCorrect == Spec => []TypeOK
BY SpecMem, PTL DEF MemInv

(* No byte has two owners, whatever the cells and the host do. *)
THEOREM PopulationNoByteShared == Spec => []NoByteShared
BY SpecMem, PTL DEF MemInv, Partition

(* No byte is lost but to a cell that mal's own reaping has killed. *)
THEOREM PopulationEveryByteAccounted == Spec => []EveryByteAccounted
BY SpecMem, PTL DEF MemInv, Partition

---------------------------------------------------------------------------
(* The slicer and the reaper. *)

Once(s) == \A i, j \in DOMAIN s : s[i] = s[j] => i = j

InStep == Once(ring) /\ Once(line) /\ QueuesHoldTheLiving

QueueInv == MemInv /\ InStep /\ RunningCellHasTheTurn

---------------------------------------------------------------------------
(* Lists without repetitions. *)

LEMMA AppendOnce ==
    ASSUME NEW S, NEW s \in Seq(S), NEW c \in S, Once(s), c \notin Members(s)
    PROVE  /\ Once(Append(s, c))
           /\ Members(Append(s, c)) = Members(s) \cup {c}
           /\ Len(Append(s, c)) = Len(s) + 1
           /\ s # <<>> => Head(Append(s, c)) = Head(s)
<1> DEFINE t == Append(s, c)
<1>1. /\ Len(s) \in Nat /\ DOMAIN s = 1 .. Len(s)
      /\ t \in Seq(S) /\ Len(t) = Len(s) + 1 /\ DOMAIN t = 1 .. (Len(s) + 1)
      /\ \A i \in 1 .. Len(s) : t[i] = s[i]
      /\ t[Len(s) + 1] = c
  OBVIOUS
<1> HIDE DEF t
<1>2. \A i \in DOMAIN t : i \in DOMAIN s \/ i = Len(s) + 1
  BY <1>1
<1>3. \A i \in DOMAIN s : s[i] # c /\ i \in DOMAIN t /\ t[i] = s[i]
  BY <1>1 DEF Members
<1>4. Len(s) + 1 \in DOMAIN t
  BY <1>1
<1>5. Once(t)
  BY <1>1, <1>2, <1>3 DEF Once
<1>6. Members(t) = Members(s) \cup {c}
  BY <1>1, <1>2, <1>3, <1>4 DEF Members
<1>7. s # <<>> => Head(t) = Head(s)
  BY <1>1 DEF t
<1> QED
  BY <1>1, <1>5, <1>6, <1>7 DEF t

LEMMA TailOnce ==
    ASSUME NEW S, NEW s \in Seq(S), s # <<>>, Once(s)
    PROVE  /\ Tail(s) \in Seq(S) /\ Once(Tail(s))
           /\ Members(Tail(s)) = Members(s) \ {Head(s)}
           /\ Len(Tail(s)) = Len(s) - 1
           /\ Head(s) \in S /\ Head(s) \in Members(s)
<1> DEFINE t == Tail(s)
<1>1. /\ Len(s) \in Nat \ {0} /\ DOMAIN s = 1 .. Len(s)
      /\ t \in Seq(S) /\ Len(t) = Len(s) - 1 /\ DOMAIN t = 1 .. (Len(s) - 1)
      /\ \A i \in 1 .. (Len(s) - 1) : t[i] = s[i + 1]
      /\ Head(s) = s[1]
  BY HeadTailProperties, EmptySeq, LenProperties
<1> HIDE DEF t
<1>2. Once(t)
  <2> SUFFICES ASSUME NEW i \in DOMAIN t, NEW j \in DOMAIN t, t[i] = t[j] PROVE i = j
    BY DEF Once
  <2>1. i + 1 \in DOMAIN s /\ j + 1 \in DOMAIN s /\ s[i + 1] = s[j + 1]
    BY <1>1
  <2>2. i + 1 = j + 1
    BY <2>1 DEF Once
  <2> QED
    BY <2>2, <1>1
<1>3. Members(t) = Members(s) \ {s[1]}
  <2>1. ASSUME NEW x \in Members(t) PROVE x \in Members(s) \ {s[1]}
    <3>1. PICK i \in DOMAIN t : x = t[i]
      BY DEF Members
    <3>2. i + 1 \in DOMAIN s /\ x = s[i + 1] /\ 1 \in DOMAIN s /\ i + 1 # 1
      BY <3>1, <1>1
    <3> QED
      BY <3>2 DEF Members, Once
  <2>2. ASSUME NEW x \in Members(s) \ {s[1]} PROVE x \in Members(t)
    <3>1. PICK i \in DOMAIN s : x = s[i]
      BY DEF Members
    <3>2. i - 1 \in DOMAIN t /\ x = t[i - 1]
      BY <3>1, <2>2, <1>1
    <3> QED
      BY <3>2 DEF Members
  <2> QED
    BY <2>1, <2>2
<1>4. s[1] \in Members(s) /\ s[1] \in S
  BY <1>1, ElementOfSeq DEF Members
<1> QED
  BY <1>1, <1>2, <1>3, <1>4 DEF t

LEMMA WithoutOnce ==
    ASSUME NEW S, NEW s \in Seq(S), NEW c \in Members(s), Once(s)
    PROVE  /\ Once(Without(s, c))
           /\ Members(Without(s, c)) = Members(s) \ {c}
           /\ Len(Without(s, c)) = Len(s) - 1
           /\ Head(s) # c => Head(Without(s, c)) = Head(s)
<1> DEFINE i == CHOOSE i \in DOMAIN s : s[i] = c
           w == Without(s, c)
<1>1. /\ Len(s) \in Nat /\ DOMAIN s = 1 .. Len(s)
      /\ i \in 1 .. Len(s) /\ s[i] = c
  BY DEF Members
<1>2. w = [j \in 1 .. (Len(s) - 1) |-> s[IF j < i THEN j ELSE j + 1]]
  BY DEF Without
<1>3. w \in Seq(S)
  BY WithoutIsSeq
<1> HIDE DEF i, w
<1>4. DOMAIN w = 1 .. (Len(s) - 1) /\ Len(w) = Len(s) - 1
  BY <1>1, <1>2, <1>3
<1>5. \A j \in 1 .. (Len(s) - 1) : (j < i => w[j] = s[j]) /\ (j >= i => w[j] = s[j + 1])
  BY <1>1, <1>2
<1>6. \A j \in DOMAIN s : s[j] = c => j = i
  BY <1>1 DEF Once
<1>7. Once(w)
  <2> SUFFICES ASSUME NEW j \in DOMAIN w, NEW k \in DOMAIN w, w[j] = w[k] PROVE j = k
    BY DEF Once
  <2>1. \A x, y \in 1 .. Len(s) : s[x] = s[y] => x = y
    BY <1>1 DEF Once
  <2> QED
    BY <2>1, <1>1, <1>4, <1>5
<1>8. Members(w) = Members(s) \ {c}
  <2>1. ASSUME NEW x \in Members(w) PROVE x \in Members(s) \ {c}
    <3>1. PICK j \in DOMAIN w : x = w[j]
      BY DEF Members
    <3>2. CASE j < i
      BY <3>1, <3>2, <1>1, <1>4, <1>5, <1>6 DEF Members
    <3>3. CASE j >= i
      <4>1. j + 1 \in DOMAIN s /\ x = s[j + 1] /\ j + 1 # i
        BY <3>1, <3>3, <1>1, <1>4, <1>5
      <4> QED
        BY <4>1, <1>6 DEF Members
    <3> QED
      BY <3>1, <3>2, <3>3, <1>1, <1>4
  <2>2. ASSUME NEW x \in Members(s) \ {c} PROVE x \in Members(w)
    <3>1. PICK j \in DOMAIN s : x = s[j]
      BY DEF Members
    <3>2. CASE j < i
      <4>1. j \in DOMAIN w /\ x = w[j]
        BY <3>1, <3>2, <1>1, <1>4, <1>5
      <4> QED
        BY <4>1 DEF Members
    <3>3. CASE j > i
      <4>1. j - 1 \in DOMAIN w /\ x = w[j - 1]
        BY <3>1, <3>3, <1>1, <1>4, <1>5
      <4> QED
        BY <4>1 DEF Members
    <3>4. j # i
      BY <2>2, <3>1, <1>1
    <3> QED
      BY <3>1, <3>2, <3>3, <3>4, <1>1
  <2> QED
    BY <2>1, <2>2
<1>9. ASSUME Head(s) # c PROVE Head(w) = Head(s)
  <2>1. s # <<>> /\ Head(s) = s[1]
    BY <1>1
  <2>2. i > 1 /\ Len(s) - 1 >= 1
    BY <1>1, <1>9, <2>1
  <2>3. w[1] = s[1] /\ w # <<>>
    BY <1>1, <1>4, <1>5, <2>2
  <2> QED
    BY <1>3, <2>1, <2>3
<1> QED
  BY <1>4, <1>7, <1>8, <1>9 DEF w

---------------------------------------------------------------------------
(* Births, reaps and turns keep the queues in step. *)

LEMMA LiveIsFinite == TypeOK => IsFiniteSet(live)
<1>1. IsFiniteSet(Slots)
  BY FS_Interval, PopulationAssumption DEF Slots
<1> QED
  BY <1>1, FS_Subset DEF TypeOK

LEMMA EnterInStep ==
    ASSUME TypeOK, InStep, NEW s \in Slots \ live, NEW r, Enter(s, r)
    PROVE  InStep' /\ (ring # <<>> => Head(ring') = Head(ring))
<1>1. /\ ring \in Seq(Slots) /\ line \in Seq(Slots) /\ num_cells \in Nat
      /\ Once(ring) /\ Once(line)
      /\ Members(ring) = live /\ Members(line) = live
      /\ Len(ring) = num_cells /\ Len(line) = num_cells /\ Cardinality(live) = num_cells
  BY DEF TypeOK, InStep, QueuesHoldTheLiving
<1>2. /\ live' = live \cup {s} /\ num_cells' = num_cells + 1
      /\ ring' = Append(ring, s) /\ line' = Append(line, s)
  BY DEF Enter
<1>3. /\ Once(ring') /\ Members(ring') = live' /\ Len(ring') = num_cells'
      /\ ring # <<>> => Head(ring') = Head(ring)
  BY <1>1, <1>2, AppendOnce
<1>4. Once(line') /\ Members(line') = live' /\ Len(line') = num_cells'
  BY <1>1, <1>2, AppendOnce
<1>5. Cardinality(live') = num_cells'
  BY <1>1, <1>2, LiveIsFinite, FS_AddElement
<1> QED
  BY <1>3, <1>4, <1>5 DEF InStep, QueuesHoldTheLiving, Once, Members

LEMMA ReapInStep ==
    ASSUME TypeOK, InStep, Reap
    PROVE  InStep' /\ \A e \in live' : Head(ring) = e => Head(ring') = e
<1>1. /\ ring \in Seq(Slots) /\ line \in Seq(Slots) /\ num_cells \in Nat
      /\ Once(ring) /\ Once(line)
      /\ Members(ring) = live /\ Members(line) = live
      /\ Len(ring) = num_cells /\ Len(line) = num_cells /\ Cardinality(live) = num_cells
  BY DEF TypeOK, InStep, QueuesHoldTheLiving
<1> DEFINE c == Head(line)
<1>2. /\ line # <<>> /\ c \in live
      /\ live' = live \ {c} /\ num_cells' = num_cells - 1
      /\ ring' = Without(ring, c) /\ line' = Tail(line)
  BY DEF Reap, CanReap
<1>3. Once(line') /\ Members(line') = live' /\ Len(line') = num_cells'
  BY <1>1, <1>2, TailOnce
<1> HIDE DEF c
<1>4. /\ Once(ring') /\ Members(ring') = live' /\ Len(ring') = num_cells'
      /\ Head(ring) # c => Head(ring') = Head(ring)
  BY <1>1, <1>2, WithoutOnce
<1>5. Cardinality(live') = num_cells'
  BY <1>1, <1>2, LiveIsFinite, FS_RemoveElement
<1>6. \A e \in live' : Head(ring) = e => Head(ring') = e
  BY <1>2, <1>4
<1> QED
  BY <1>3, <1>4, <1>5, <1>6 DEF InStep, QueuesHoldTheLiving, Once, Members

LEMMA RotateInStep ==
    ASSUME TypeOK, InStep, ring # <<>>, UNCHANGED <<live, line, num_cells>>,
           ring' = Append(Tail(ring), Head(ring))
    PROVE  InStep'
<1>1. /\ ring \in Seq(Slots) /\ num_cells \in Nat /\ Once(ring)
      /\ Members(ring) = live /\ Len(ring) = num_cells
  BY DEF TypeOK, InStep, QueuesHoldTheLiving
<1> DEFINE t == Tail(ring)
           h == Head(ring)
<1>2. /\ t \in Seq(Slots) /\ Once(t) /\ Len(t) = num_cells - 1
      /\ Members(t) = live \ {h} /\ h \in live /\ h \in Slots
  BY <1>1, TailOnce
<1>3. ring' = Append(t, h)
  OBVIOUS
<1> HIDE DEF t, h
<1>4. h \notin Members(t)
  BY <1>2
<1>5. /\ Once(Append(t, h)) /\ Len(Append(t, h)) = Len(t) + 1
      /\ Members(Append(t, h)) = Members(t) \cup {h}
  BY <1>2, <1>4, AppendOnce
<1>6. Members(ring') = live
  BY <1>2, <1>3, <1>5
<1>7. Len(ring') = num_cells /\ Once(ring')
  <2>1. Len(Append(t, h)) = num_cells
    <3>1. Len(t) + 1 = num_cells
      BY <1>1, <1>2
    <3> QED
      BY <3>1, <1>5, Zenon
  <2>2. Once(ring')
    BY <1>3, <1>5, Zenon
  <2> QED
    BY <2>1, <2>2, <1>3
<1>8. Members(ring)' = live /\ Once(ring)'
  BY <1>6, <1>7 DEF Members, Once
<1> QED
  BY <1>7, <1>8 DEF InStep, QueuesHoldTheLiving, Once, Members

LEMMA QueuesUntouched == InStep /\ UNCHANGED <<live, queues>> => InStep'
BY DEF InStep, QueuesHoldTheLiving, Once, Members, queues

---------------------------------------------------------------------------
(* Every step keeps the queues in step, and the running cell at the front.   *)

LEMMA InitQueues == Init => InStep /\ RunningCellHasTheTurn
<1> SUFFICES ASSUME Init PROVE InStep /\ RunningCellHasTheTurn
  OBVIOUS
<1>1. Members(<<>>) = {} /\ Once(<<>>) /\ Len(<<>>) = 0 /\ Cardinality({}) = 0
  BY FS_EmptySet DEF Members, Once
<1> QED
  BY <1>1 DEF Init, InStep, QueuesHoldTheLiving, RunningCellHasTheTurn

LEMMA NextQueues == QueueInv /\ [Next]_vars => InStep' /\ RunningCellHasTheTurn'
<1> SUFFICES ASSUME QueueInv, [Next]_vars PROVE InStep' /\ RunningCellHasTheTurn'
  OBVIOUS
<1>1. MemInv /\ TypeOK /\ InStep /\ RunningCellHasTheTurn
  BY DEF QueueInv, MemInv
<1>2. CASE Start
  <2>1. Members(<<>>) = {} /\ Once(<<>>) /\ Len(<<>>) = 0 /\ Cardinality({}) = 0
    BY FS_EmptySet DEF Members, Once
  <2>2. ring' = <<>> /\ line' = <<>> /\ live' = {} /\ num_cells' = 0 /\ phase' = "inoculate"
    BY <1>2 DEF Start
  <2>3. Members(ring') = {} /\ Members(line') = {} /\ Once(ring') /\ Once(line')
    BY <2>1, <2>2
  <2> QED
    BY <2>1, <2>2, <2>3 DEF InStep, QueuesHoldTheLiving, RunningCellHasTheTurn, Members, Once
<1>3. CASE Inoculate
  <2>1. PICK r : Enter(num_cells, r)
    BY <1>3 DEF Inoculate
  <2>2. num_cells \in Slots \ live
    <3>1. /\ live = 0 .. (num_cells - 1) /\ num_cells + req.left = NumInoculum
          /\ req.left > 0 /\ num_cells \in Nat /\ req.left \in Nat
      BY <1>1, <1>3 DEF Inoculate, MemInv, HandlersKnow, TypeOK, Request
    <3> QED
      BY <3>1, PopulationAssumption DEF Slots
  <2> QED
    BY <1>1, <1>3, <2>1, <2>2, EnterInStep DEF Inoculate, RunningCellHasTheTurn
<1>4. CASE InjectPlaced \/ ImmigrantPlaced
  <2>1. PICK s \in AllocCell : \E r : Enter(s, r)
    BY <1>4 DEF InjectPlaced, ImmigrantPlaced, Settle
  <2>2. s \in Slots \ live
    BY DEF AllocCell
  <2>3. phase' \in {"inject.room", "host"}
    BY <1>4 DEF InjectPlaced, ImmigrantPlaced, Return
  <2> QED
    BY <1>1, <2>1, <2>2, <2>3, EnterInStep DEF RunningCellHasTheTurn
<1>5. CASE Divide
  <2>1. PICK s \in AllocCell : Enter(s, md[ce])
    BY <1>5 DEF Divide
  <2>2. s \in Slots \ live /\ ce \in live /\ phase = "slice"
    BY <1>5 DEF AllocCell, Divide
  <2>3. InStep' /\ (ring # <<>> => Head(ring') = Head(ring))
    BY <1>1, <2>1, <2>2, EnterInStep
  <2>4. ring # <<>> /\ Head(ring) = ce
    BY <1>1, <2>2 DEF InStep, QueuesHoldTheLiving, Members, RunningCellHasTheTurn
  <2> QED
    BY <1>5, <2>3, <2>4 DEF Divide, RunningCellHasTheTurn, control
<1>6. CASE MalReaps
  <2>1. InStep' /\ \A e \in live' : Head(ring) = e => Head(ring') = e
    BY <1>1, <1>6, ReapInStep DEF MalReaps
  <2>2. live' \subseteq live
    BY <1>6 DEF MalReaps, Reap
  <2> QED
    BY <1>1, <1>6, <2>1, <2>2 DEF MalReaps, RunningCellHasTheTurn, control
<1>7. CASE InjectMakesRoom \/ ImmigrantMakesRoom \/ InjectReaps \/ ImmigrantReaps
  <2>1. Reap /\ phase' \notin {"slice", "mal"}
    BY <1>7 DEF InjectMakesRoom, ImmigrantMakesRoom, InjectReaps, ImmigrantReaps, control
  <2> QED
    BY <1>1, <2>1, ReapInStep DEF RunningCellHasTheTurn
<1>8. CASE SliceEnd
  <2>1. phase' = "host" /\ UNCHANGED <<live, line, num_cells>>
    BY <1>8 DEF SliceEnd, Return
  <2>2. CASE ring = <<>>
    <3>1. UNCHANGED <<live, queues>>
      BY <1>8, <2>1, <2>2 DEF SliceEnd, queues
    <3> QED
      BY <1>1, <2>1, <3>1, QueuesUntouched DEF RunningCellHasTheTurn
  <2>3. CASE ring # <<>>
    BY <1>1, <1>8, <2>1, <2>3, RotateInStep DEF SliceEnd, RunningCellHasTheTurn
  <2> QED
    BY <2>2, <2>3
<1>9. CASE SliceBegin
  <2>1. UNCHANGED <<live, queues>> /\ ce' = Head(ring)
    BY <1>9 DEF SliceBegin
  <2> QED
    BY <1>1, <2>1, QueuesUntouched DEF RunningCellHasTheTurn, queues
<1>10. CASE MalRequest \/ MalPlaced \/ MalFails \/ CopyDaughter \/ UNCHANGED vars
  <2>1. /\ UNCHANGED <<live, queues>> /\ ce' = ce
        /\ phase' \in {"slice", "mal"} => phase \in {"slice", "mal"}
    BY <1>10 DEF MalRequest, MalPlaced, MalFails, CopyDaughter, vars, control
  <2> QED
    BY <1>1, <2>1, QueuesUntouched DEF RunningCellHasTheTurn, queues
<1>11. CASE \/ InoculumDone \/ InjectProceeds \/ InjectNoSlot \/ InjectFails \/ SliceAborted
            \/ ImmigrantProceeds \/ ImmigrantRejected \/ SetMaxCells \/ SetNumCellsMin
            \/ InjectBegin \/ ImmigrantArrives
  <2>1. UNCHANGED <<live, queues>> /\ phase' \notin {"slice", "mal"}
    BY <1>11 DEF InoculumDone, InjectProceeds, InjectNoSlot, InjectFails, SliceAborted,
       ImmigrantProceeds, ImmigrantRejected, SetMaxCells, SetNumCellsMin, InjectBegin,
       ImmigrantArrives, Return, control
  <2> QED
    BY <1>1, <2>1, QueuesUntouched DEF RunningCellHasTheTurn
<1> QED
  BY <1>2, <1>3, <1>4, <1>5, <1>6, <1>7, <1>8, <1>9, <1>10, <1>11
  DEF Next, HandlerStep, HostStep, SliceStep

LEMMA SpecQueues == Spec => []QueueInv
<1>1. Init => QueueInv
  BY InitMem, InitQueues DEF QueueInv
<1>2. QueueInv /\ [Next]_vars => QueueInv'
  BY NextMem, NextQueues DEF QueueInv
<1> QED
  BY <1>1, <1>2, PTL DEF Spec

(* The slicer and the reaper hold exactly the living cells, each once, and    *)
(* num_cells counts them, whatever is born, reaped, injected or moved.        *)
THEOREM PopulationQueuesHoldTheLiving == Spec => []QueuesHoldTheLiving
BY SpecQueues, PTL DEF QueueInv, InStep

(* this_slice stays on the running cell for as long as that cell lives. *)
THEOREM PopulationRunningCellHasTheTurn == Spec => []RunningCellHasTheTurn
BY SpecQueues, PTL DEF QueueInv

---------------------------------------------------------------------------
(* What becomes of the queues is what CellOrder lets happen to a ring and a   *)
(* line, which CellQueues has the links spell out (QueuesRefineOrder).        *)

Order == INSTANCE CellOrder

\* A newcomer at the bottom, the oldest cell out, a turn, or a fresh soup.
FollowsOrder == Order!Next \/ (ring' = <<>> /\ line' = <<>>)

LEMMA EnterIsOrdered ==
    ASSUME InStep, NEW s \in Slots \ live, NEW r, Enter(s, r)
    PROVE  Order!Next
<1>1. s \notin Order!Members(line)
  BY DEF InStep, QueuesHoldTheLiving, Members, Order!Members
<1> QED
  BY <1>1 DEF Enter, Order!Next, Order!Enter

LEMMA ReapIsOrdered ==
    ASSUME Reap
    PROVE  Order!Next
<1>1. line # <<>> /\ ring' = Without(ring, Head(line)) /\ line' = Tail(line)
  BY DEF Reap, CanReap
<1>2. Without(ring, Head(line)) = Order!Without(ring, Head(line))
  BY DEF Without, Members, Order!Without, Order!Members
<1> QED
  BY <1>1, <1>2 DEF Order!Next, Order!Leave

LEMMA StepFollowsOrder == QueueInv /\ [Next]_vars => [FollowsOrder]_<<ring, line>>
<1> SUFFICES ASSUME QueueInv, [Next]_vars PROVE [FollowsOrder]_<<ring, line>>
  OBVIOUS
<1>1. MemInv /\ TypeOK /\ InStep
  BY DEF QueueInv, MemInv
<1>2. CASE Start
  BY <1>2 DEF Start, FollowsOrder
<1>3. CASE Inoculate
  <2>1. PICK r : Enter(num_cells, r)
    BY <1>3 DEF Inoculate
  <2>2. num_cells \in Slots \ live
    <3>1. /\ live = 0 .. (num_cells - 1) /\ num_cells + req.left = NumInoculum
          /\ req.left > 0 /\ num_cells \in Nat /\ req.left \in Nat
      BY <1>1, <1>3 DEF Inoculate, MemInv, HandlersKnow, TypeOK, Request
    <3> QED
      BY <3>1, PopulationAssumption DEF Slots
  <2> QED
    BY <1>1, <2>1, <2>2, EnterIsOrdered DEF FollowsOrder
<1>4. CASE InjectPlaced \/ ImmigrantPlaced \/ Divide
  <2>1. PICK s \in AllocCell : \E r : Enter(s, r)
    BY <1>4 DEF InjectPlaced, ImmigrantPlaced, Settle, Divide
  <2>2. s \in Slots \ live
    BY DEF AllocCell
  <2> QED
    BY <1>1, <2>1, <2>2, EnterIsOrdered DEF FollowsOrder
<1>5. CASE MalReaps \/ InjectMakesRoom \/ ImmigrantMakesRoom \/ InjectReaps \/ ImmigrantReaps
  <2>1. Reap
    BY <1>5 DEF MalReaps, InjectMakesRoom, ImmigrantMakesRoom, InjectReaps, ImmigrantReaps
  <2> QED
    BY <2>1, ReapIsOrdered DEF FollowsOrder
<1>6. CASE SliceEnd
  <2>1. line' = line /\ ring' = IF ring = <<>> THEN ring ELSE Append(Tail(ring), Head(ring))
    BY <1>6 DEF SliceEnd
  <2> QED
    BY <2>1 DEF FollowsOrder, Order!Next, Order!Turn, Order!Turned
<1>7. CASE \/ InoculumDone \/ InjectProceeds \/ InjectNoSlot \/ InjectFails \/ SliceAborted
           \/ ImmigrantProceeds \/ ImmigrantRejected \/ SetMaxCells \/ SetNumCellsMin
           \/ InjectBegin \/ ImmigrantArrives \/ SliceBegin
           \/ MalRequest \/ MalPlaced \/ MalFails \/ CopyDaughter \/ UNCHANGED vars
  <2>1. UNCHANGED <<ring, line>>
    BY <1>7 DEF InoculumDone, InjectProceeds, InjectNoSlot, InjectFails, SliceAborted,
       ImmigrantProceeds, ImmigrantRejected, SetMaxCells, SetNumCellsMin, InjectBegin,
       ImmigrantArrives, SliceBegin, MalRequest, MalPlaced, MalFails, CopyDaughter, queues, vars
  <2> QED
    BY <2>1
<1> QED
  BY <1>2, <1>3, <1>4, <1>5, <1>6, <1>7 DEF Next, HandlerStep, HostStep, SliceStep

(* Every birth, death and slice moves the queues as CellOrder does, which     *)
(* the linked lists of services/memory/queues.py implement; only start()      *)
(* makes them anew.  So the lists behave under the whole VM as they do alone. *)
THEOREM PopulationFollowsOrder == Spec => [][FollowsOrder]_<<ring, line>>
<1>1. QueueInv /\ [Next]_vars => [FollowsOrder]_<<ring, line>>
  BY StepFollowsOrder
<1> QED
  BY <1>1, SpecQueues, PTL DEF Spec

---------------------------------------------------------------------------
(* No birth goes past max_cells, no reap below NumCellsMin; only the inoculum *)
(* may exceed the one, only a new start may pass the other.                   *)
THEOREM PopulationBirthsAndReapsWithinLimits == Spec => BirthsAndReapsWithinLimits
<1> DEFINE Limits ==
       /\ num_cells' > num_cells => phase = "inoculate" \/ num_cells' <= max_cells
       /\ num_cells' < num_cells => phase' = "inoculate" \/ num_cells' >= num_cells_min
<1>1. ASSUME TypeOK, [Next]_vars PROVE [Limits]_vars
  <2>0. /\ num_cells \in Nat /\ max_cells \in Nat /\ num_cells_min \in Nat
    BY <1>1, PopulationAssumption DEF TypeOK
  <2>1. CASE num_cells' = num_cells
    BY <2>0, <2>1
  <2>2. CASE Start \/ Inoculate
    BY <2>0, <2>2 DEF Start, Inoculate, Enter
  <2>3. CASE Divide \/ InjectPlaced \/ ImmigrantPlaced
    <3>1. AllocCell # {} /\ num_cells' = num_cells + 1
      BY <2>3 DEF Divide, InjectPlaced, ImmigrantPlaced, Settle, Enter
    <3>2. num_cells < max_cells
      BY <2>0, <3>1 DEF AllocCell
    <3> QED
      BY <2>0, <3>1, <3>2
  <2>4. CASE MalReaps \/ InjectMakesRoom \/ InjectReaps \/ ImmigrantMakesRoom \/ ImmigrantReaps
    <3>1. num_cells > num_cells_min /\ num_cells' = num_cells - 1
      BY <2>4 DEF MalReaps, InjectMakesRoom, InjectReaps, ImmigrantMakesRoom, ImmigrantReaps,
         Reap, CanReap
    <3> QED
      BY <2>0, <3>1
  <2>5. CASE UNCHANGED vars
    BY <2>5
  <2>6. CASE \/ InoculumDone \/ InjectProceeds \/ InjectNoSlot \/ InjectFails \/ SliceAborted
             \/ ImmigrantProceeds \/ ImmigrantRejected \/ SetMaxCells \/ SetNumCellsMin
             \/ InjectBegin \/ ImmigrantArrives \/ SliceBegin \/ SliceEnd
             \/ MalRequest \/ MalPlaced \/ MalFails \/ CopyDaughter
    BY <2>1, <2>6 DEF InoculumDone, InjectProceeds, InjectNoSlot, InjectFails, SliceAborted,
       ImmigrantProceeds, ImmigrantRejected, SetMaxCells, SetNumCellsMin, InjectBegin,
       ImmigrantArrives, SliceBegin, SliceEnd, MalRequest, MalPlaced, MalFails, CopyDaughter, queues
  <2> QED
    BY <1>1, <2>2, <2>3, <2>4, <2>5, <2>6 DEF Next, HandlerStep, HostStep, SliceStep
<1>2. Spec => []TypeOK
  BY PopulationTypeCorrect
<1> QED
  BY <1>1, <1>2, PTL DEF Spec, BirthsAndReapsWithinLimits

---------------------------------------------------------------------------
(* divide with the segment operators on (SegmentDivide). *)

Bodies == \A c \in live : mm[c].size > 0

InGenetics == phase \in {"resize", "genetic"}

\* A running cell that was reaped on the way has no daughter; a living one still
\* has the daughter its resize began with.
ResizeKnows ==
    /\ ce \in Slots /\ (ce \in live \/ md[ce].size = 0)
    /\ phase = "resize" => old.size > 0 /\ (ce \in live => old = md[ce])

SoupIsRight ==
    /\ SoupInv /\ Bodies /\ ce \in Slots \cup {Nobody} /\ req \in Request
    /\ IF InGenetics THEN ResizeKnows ELSE phase \in Phases /\ HandlersKnow

\* After a daughter was given back twice the slice can only end.
CellIsGone ==
    /\ phase \in {"genetic", "slice", "host"} /\ md \in [Slots -> Region]
    /\ phase # "host" => ce \in Slots /\ (ce \notin live \/ md[ce].size = 0)

SegmentInv == KnobsTyped /\ IF twice THEN CellIsGone ELSE SoupIsRight

---------------------------------------------------------------------------
(* Every living cell has a body. *)

LEMMA EnterBodies ==
    ASSUME SoupTyped, Bodies, NEW s \in Slots, NEW r, r.size > 0, Enter(s, r)
    PROVE  Bodies'
<1>1. live' = live \cup {s} /\ mm'[s] = r /\ \A c \in live : c # s => mm'[c] = mm[c]
  BY DEF Enter, SoupTyped
<1> QED
  BY <1>1 DEF Bodies

LEMMA ReapBodies == SoupTyped /\ Bodies /\ Reap => Bodies'
<1> SUFFICES ASSUME SoupTyped, Bodies, Reap PROVE Bodies'
  OBVIOUS
<1> DEFINE c == Head(line)
<1>1. live' = live \ {c} /\ mm' = [mm EXCEPT ![c] = [mm[c] EXCEPT !.size = 0]]
  BY DEF Reap
<1> HIDE DEF c
<1>2. \A e \in live' : e \in live /\ mm'[e] = mm[e]
  BY <1>1 DEF SoupTyped
<1> QED
  BY <1>2 DEF Bodies

LEMMA NextBodies == MemInv /\ Bodies /\ Next => Bodies'
<1> SUFFICES ASSUME MemInv, Bodies, Next PROVE Bodies'
  OBVIOUS
<1>0. SoupTyped /\ ListsTyped
  BY MemHasSoup DEF SoupInv
<1>1. CASE Start
  BY <1>1 DEF Start, Bodies
<1>2. CASE Inoculate
  <2>1. PICK size \in GenomeSizes, addr \in Addr : \E at \in Inoculated(size, addr) :
            free' = Carve(free, at, size) /\ Enter(num_cells, Blk(at.place, size))
    BY <1>2 DEF Inoculate
  <2>2. PICK at \in Inoculated(size, addr) : Enter(num_cells, Blk(at.place, size))
    BY <2>1
  <2>3. size > 0
    <3>1. size \in Nat
      BY PopulationAssumption
    <3>2. ~ (size <= 0)
      BY <2>2 DEF Inoculated, MemAlloc
    <3> QED
      BY <3>1, <3>2
  <2>4. num_cells \in Slots
    <3>1. num_cells + req.left = NumInoculum /\ req.left > 0 /\ req.left \in Nat /\ num_cells \in Nat
      BY <1>0, <1>2 DEF Inoculate, MemInv, HandlersKnow, TypeOK, Request
    <3> QED
      BY <3>1, PopulationAssumption DEF Slots
  <2>5. Blk(at.place, size).size > 0
    BY <2>3 DEF Blk
  <2> QED
    BY <1>0, <2>2, <2>4, <2>5, EnterBodies
<1>3. CASE InjectPlaced \/ ImmigrantPlaced
  <2>1. PICK at \in Placements, s \in AllocCell : Settle(at, s)
    BY <1>3 DEF InjectPlaced, ImmigrantPlaced
  <2>2. req.size > 0
    <3>1. req.size \in Nat
      BY DEF MemInv, TypeOK, Request
    <3>2. ~ (req.size <= 0)
      BY <2>1 DEF Placements, MemAlloc
    <3> QED
      BY <3>1, <3>2
  <2>3. Blk(at.place, req.size).size > 0 /\ s \in Slots
    BY <2>1, <2>2 DEF Blk, AllocCell
  <2> QED
    BY <1>0, <2>1, <2>3, EnterBodies DEF Settle
<1>4. CASE Divide
  <2>1. PICK s \in AllocCell : Enter(s, md[ce])
    BY <1>4 DEF Divide
  <2>2. s \in Slots /\ md[ce].size > 0
    <3>1. ce \in Slots /\ md[ce].size >= MinCellSize /\ md[ce].size \in Nat
      BY <1>0, <1>4, SoupSizeAssumption DEF Divide, SoupTyped, Region
    <3> QED
      BY <2>1, <3>1, PopulationAssumption DEF AllocCell
  <2> QED
    BY <1>0, <2>1, <2>2, EnterBodies
<1>5. CASE MalReaps \/ InjectMakesRoom \/ InjectReaps \/ ImmigrantMakesRoom \/ ImmigrantReaps
  BY <1>0, <1>5, ReapBodies DEF MalReaps, InjectMakesRoom, InjectReaps, ImmigrantMakesRoom, ImmigrantReaps
<1>6. CASE \/ InoculumDone \/ InjectProceeds \/ InjectNoSlot \/ InjectFails \/ SliceAborted
           \/ ImmigrantProceeds \/ ImmigrantRejected \/ SetMaxCells \/ SetNumCellsMin
           \/ InjectBegin \/ ImmigrantArrives \/ SliceBegin \/ SliceEnd
           \/ MalRequest \/ MalPlaced \/ MalFails \/ CopyDaughter
  <2>1. UNCHANGED <<mm, live>>
    BY <1>6 DEF InoculumDone, InjectProceeds, InjectNoSlot, InjectFails, SliceAborted,
       ImmigrantProceeds, ImmigrantRejected, SetMaxCells, SetNumCellsMin, InjectBegin,
       ImmigrantArrives, SliceBegin, SliceEnd, MalRequest, MalPlaced, MalFails, CopyDaughter, memory
  <2> QED
    BY <2>1 DEF Bodies
<1> QED
  BY <1>1, <1>2, <1>3, <1>4, <1>5, <1>6 DEF Next, HandlerStep, HostStep, SliceStep

---------------------------------------------------------------------------
(* The steps of a resize and the rest of divide. *)

(* The daughter of a living cell moves to fresh memory, and its old memory is *)
(* given back once the new one is carved.                                     *)
LEMMA DaughterMoves ==
    ASSUME SoupInv, ce \in live, old = md[ce], old.size > 0,
           NEW at, PlacementIn(free, at, req.size),
           free' = MemDealloc(Carve(free, at, req.size), old.start, old.size),
           md' = [md EXCEPT ![ce] = Blk(at.place, req.size)],
           copied' \subseteq Slots, UNCHANGED <<mm, live, orphans>>
    PROVE  SoupTyped' /\ Partition'
<1> DEFINE r == Blk(at.place, req.size)
           f == Carve(free, at, req.size)
<1>1. /\ free \subseteq Block /\ Held \subseteq Block
      /\ Separate(free, Held) /\ Covers(free, Held)
      /\ Distinct(live, mm, md, orphans)
      /\ ce \in Slots /\ live \subseteq Slots /\ md \in [Slots -> Region]
  BY NoByteSharedIs DEF SoupInv, SoupTyped, Partition, EveryByteAccounted
<1>2. /\ r \in Block /\ r \notin Held /\ f \subseteq Block
      /\ Separate(f, Held \cup {r}) /\ Covers(f, Held \cup {r})
  BY <1>1, CarveKeeps
<1>3. r \in Region /\ r.size > 0
  BY <1>2, SoupSizeAssumption DEF Block, Region
<1>4. /\ md' \in [Slots -> Region] /\ md'[ce] = r
      /\ \A c \in Slots : c # ce => md'[c] = md[c]
  BY <1>1, <1>3
<1>5. old \in Region /\ old \in Held
  BY <1>1, HeldIs
<1>6. free' = MemDealloc(f, old.start, old.size)
  OBVIOUS
<1> HIDE DEF r, f
<1>7. /\ free' \subseteq Block /\ Separate(free', (Held \cup {r}) \ {old})
      /\ Covers(free', (Held \cup {r}) \ {old})
  <2>1. f \in SUBSET Block /\ Held \cup {r} \in SUBSET Block /\ old \in Held \cup {r}
    BY <1>1, <1>2, <1>5
  <2> QED
    BY <1>2, <1>5, <1>6, <2>1, GiveBack
<1>8. r # old
  BY <1>2, <1>5
<1>9. Held' = (Held \cup {r}) \ {old}
  <2>1. ASSUME NEW x \in Held' PROVE x \in (Held \cup {r}) \ {old}
    <3>1. CASE x = r
      BY <1>8, <3>1
    <3>2. CASE x # r
      BY <1>1, <1>4, <2>1, <3>2, HeldIs DEF Distinct
    <3> QED
      BY <3>1, <3>2
  <2>2. ASSUME NEW x \in Held, x # old PROVE x \in Held'
    BY <1>1, <1>4, <2>2, HeldIs
  <2>3. r \in Held'
    BY <1>3, <1>4, HeldIs
  <2> QED
    BY <2>1, <2>2, <2>3
<1>10. Distinct(live', mm', md', orphans')
  <2>1. r \notin orphans /\ \A c \in live : mm[c] # r /\ (md[c].size > 0 => md[c] # r)
    BY <1>2, HeldIs
  <2> QED
    BY <2>1, <1>1, <1>3, <1>4 DEF Distinct
<1>11. Held' \subseteq Block
  BY <1>1, <1>2, <1>9
<1>12. Partition'
  BY <1>7, <1>9, <1>10, <1>11, NoByteSharedIs DEF Partition, EveryByteAccounted
<1> QED
  BY <1>1, <1>4, <1>7, <1>12 DEF SoupTyped, SoupInv

LEMMA InitSegment == SInit => SegmentInv
<1> SUFFICES ASSUME SInit PROVE SegmentInv
  OBVIOUS
<1>1. MemInv /\ SoupInv
  BY InitMem, MemHasSoup DEF SInit
<1>2. Bodies /\ ~ twice /\ ~ InGenetics
  BY DEF SInit, Init, Bodies, InGenetics
<1> QED
  BY <1>1, <1>2, TypeParts DEF SegmentInv, SoupIsRight, MemInv, SoupInv, ControlTyped

\* While divide is at its operators nothing else runs.
LEMMA NothingElseRuns == Next => phase \in Phases
BY DEF Next, HandlerStep, HostStep, SliceStep, Phases, Start, SetMaxCells, SetNumCellsMin, SliceBegin,
   InjectBegin, ImmigrantArrives, CopyDaughter, Divide, MalRequest, SliceEnd, SliceAborted,
   Inoculate, InoculumDone, MalPlaced, MalReaps, MalFails, InjectMakesRoom, InjectProceeds,
   InjectPlaced, InjectNoSlot, InjectReaps, InjectFails, ImmigrantMakesRoom, ImmigrantProceeds,
   ImmigrantPlaced, ImmigrantReaps, ImmigrantRejected

LEMMA ElsewhereKeeps == SegmentInv /\ Elsewhere => SegmentInv'
<1> SUFFICES ASSUME SegmentInv, Elsewhere PROVE SegmentInv'
  OBVIOUS
<1>1. ASSUME MemInv', Bodies', ~ twice' PROVE SegmentInv'
  <2>1. SoupInv' /\ ControlTyped' /\ HandlersKnow' /\ KnobsTyped'
    BY <1>1, MemHasSoup, TypeParts DEF MemInv
  <2>2. ~ InGenetics'
    BY <2>1 DEF InGenetics, ControlTyped, Phases
  <2> QED
    BY <1>1, <2>1, <2>2 DEF SegmentInv, SoupIsRight, ControlTyped
<1>2. CASE ~ twice /\ Next
  <2>1. SoupIsRight /\ phase \in Phases
    BY <1>2, NothingElseRuns DEF SegmentInv
  <2>2. ~ InGenetics
    BY <2>1 DEF InGenetics, Phases
  <2>3. MemInv
    BY <2>1, <2>2, TypeParts DEF SoupIsRight, SoupInv, MemInv, ControlTyped
  <2>4. MemInv' /\ Bodies'
    BY <1>2, <2>1, <2>3, NextMem, NextBodies DEF SoupIsRight
  <2>5. ~ twice'
    BY <1>2 DEF Elsewhere
  <2> QED
    BY <1>1, <2>4, <2>5
<1>3. CASE twice /\ Start
  <2>1. MemInv'
    BY <1>3, StartKeeps DEF SegmentInv
  <2>2. Bodies' /\ phase' = "inoculate"
    BY <1>3 DEF Start, Bodies
  <2>3. ~ twice'
    BY <2>2 DEF Elsewhere
  <2> QED
    BY <1>1, <2>1, <2>2, <2>3
<1>4. CASE twice /\ SliceEnd
  <2>1. phase' = "host" /\ UNCHANGED <<memory, knobs>>
    BY <1>4 DEF SliceEnd, Return
  <2>2. twice'
    BY <1>4, <2>1 DEF Elsewhere
  <2>3. KnobsTyped'
    BY <2>1, Untouched DEF SegmentInv
  <2> QED
    BY <1>4, <2>1, <2>2, <2>3 DEF SegmentInv, CellIsGone, memory
<1> QED
  BY <1>2, <1>3, <1>4 DEF Elsewhere

LEMMA ResizeBeginKeeps == SegmentInv /\ ResizeBegin => SegmentInv'
<1> SUFFICES ASSUME SegmentInv, ResizeBegin PROVE SegmentInv'
  OBVIOUS
<1>1. /\ phase \in {"slice", "genetic"} /\ ce \in live /\ md[ce].size >= MinCellSize
      /\ old' = md[ce] /\ phase' = "resize"
      /\ UNCHANGED <<memory, live, copied, queues, knobs, ce, orphans, twice>>
  BY DEF ResizeBegin
<1>2. ~ twice
  <2> SUFFICES ASSUME twice PROVE FALSE
    OBVIOUS
  <2>1. md[ce].size = 0
    BY <1>1 DEF SegmentInv, CellIsGone
  <2> QED
    BY <1>1, <2>1, PopulationAssumption
<1>3. SoupIsRight /\ KnobsTyped
  BY <1>2 DEF SegmentInv
<1>4. PICK size \in MinCellSize .. (MaxMalMult * mm[ce].size) :
          req' = [NoRequest EXCEPT !.size = size, !.left = ResizeTries]
  BY DEF ResizeBegin
<1>5. ce \in Slots /\ md[ce] \in Region /\ mm[ce] \in Region
  BY <1>1, <1>3 DEF SoupIsRight, SoupInv, SoupTyped
<1>6. size \in Nat
  BY <1>5, PopulationAssumption, SoupSizeAssumption DEF Region
<1>7. req' \in Request
  BY <1>4, <1>6, ResizeTriesAssumption DEF NoRequest, Request, Modes
<1>8. old'.size > 0
  BY <1>1, <1>5, PopulationAssumption, SoupSizeAssumption DEF Region
<1>9. SoupInv' /\ KnobsTyped' /\ Bodies'
  BY <1>1, <1>3, Untouched DEF SoupIsRight, SoupInv, Bodies, memory
<1>10. InGenetics' /\ ResizeKnows'
  BY <1>1, <1>5, <1>8 DEF InGenetics, ResizeKnows, memory
<1> QED
  BY <1>1, <1>2, <1>5, <1>7, <1>9, <1>10 DEF SegmentInv, SoupIsRight

\* In phase "resize" nothing has been given back twice yet.
LEMMA InResize ==
    SegmentInv /\ phase = "resize" =>
        /\ ~ twice /\ SoupInv /\ KnobsTyped /\ Bodies /\ ResizeKnows
        /\ ce \in Slots /\ req \in Request
BY DEF SegmentInv, CellIsGone, SoupIsRight, InGenetics, ResizeKnows

LEMMA ResizePlacedKeeps == SegmentInv /\ ResizePlaced => SegmentInv'
<1> SUFFICES ASSUME SegmentInv, ResizePlaced PROVE SegmentInv'
  OBVIOUS
<1>1. PICK at \in Placements :
          LET new == Blk(at.place, req.size)
          IN  /\ free' = MemDealloc(Carve(free, at, req.size), old.start, old.size)
              /\ md' = [md EXCEPT ![ce] = new]
              /\ orphans' = IF ce \in live THEN orphans ELSE orphans \cup {new}
  BY DEF ResizePlaced
<1>2. /\ phase = "resize" /\ phase' = "genetic" /\ req' = NoRequest /\ twice' = (ce \notin live)
      /\ UNCHANGED <<mm, live, queues, knobs, ce>>
      /\ copied' \in {copied} \cup {c \in {copied \ {ce}} : req.size > old.size}
  BY DEF ResizePlaced
<1>3. /\ SoupInv /\ KnobsTyped /\ Bodies /\ ResizeKnows /\ ce \in Slots /\ req \in Request
  BY <1>2, InResize
<1>4. free \in SUBSET Block /\ md \in [Slots -> Region] /\ copied \subseteq Slots
  BY <1>3 DEF SoupInv, SoupTyped
<1>5. PlacementIn(free, at, req.size)
  BY <1>1, <1>3, <1>4, MemAllocPlaces DEF Placements, Request
<1>6. Blk(at.place, req.size) \in Region
  BY <1>4, <1>5, SoupSizeAssumption DEF PlacementIn, Block, Addr, Region, Blk, End
<1>7. KnobsTyped' /\ md' \in [Slots -> Region] /\ copied' \subseteq Slots
  BY <1>1, <1>2, <1>3, <1>4, <1>6, Untouched
<1>8. CASE ce \notin live
  BY <1>2, <1>3, <1>7, <1>8 DEF SegmentInv, CellIsGone
<1>9. CASE ce \in live
  <2>1. old = md[ce] /\ old.size > 0
    BY <1>2, <1>3, <1>9 DEF ResizeKnows
  <2>2. SoupTyped' /\ Partition'
    BY <1>1, <1>2, <1>3, <1>5, <1>7, <1>9, <2>1, DaughterMoves
  <2>3. ListsTyped' /\ Bodies'
    BY <1>2, <1>3, Untouched DEF SoupInv, Bodies
  <2>4. ResizeKnows' /\ InGenetics'
    BY <1>2, <1>3, <1>9 DEF ResizeKnows, InGenetics
  <2> QED
    BY <1>2, <1>3, <1>7, <1>9, <2>2, <2>3, <2>4, NoRequestTyped DEF SegmentInv, SoupIsRight, SoupInv
<1> QED
  BY <1>8, <1>9

LEMMA ResizeReapsKeeps == SegmentInv /\ ResizeReaps => SegmentInv'
<1> SUFFICES ASSUME SegmentInv, ResizeReaps PROVE SegmentInv'
  OBVIOUS
<1> DEFINE c == Head(line)
<1>1. /\ phase = "resize" /\ req.left > 0 /\ Reap /\ req' = [req EXCEPT !.left = @ - 1]
      /\ UNCHANGED <<knobs, phase, ce, old, twice>>
  BY DEF ResizeReaps
<1>2. ~ twice /\ SoupInv /\ KnobsTyped /\ Bodies /\ ResizeKnows /\ ce \in Slots /\ req \in Request
  BY <1>1, InResize
<1>3. SoupTyped' /\ ListsTyped' /\ Partition' /\ KnobsTyped' /\ Bodies'
  BY <1>1, <1>2, ReapKeeps, ReapBodies, Untouched DEF SoupInv
<1>4. req' \in Request
  BY <1>1, <1>2 DEF Request
<1>5. live' = live \ {c} /\ md' = [md EXCEPT ![c] = [md[c] EXCEPT !.size = 0]] /\ c \in live
  BY <1>1 DEF Reap
<1>6. md \in [Slots -> Region] /\ live \subseteq Slots
  BY <1>2 DEF SoupInv, SoupTyped
<1> HIDE DEF c
<1>7. /\ ce \in live' => ce \in live /\ md'[ce] = md[ce]
      /\ ce \notin live' => md'[ce].size = 0
  <2>1. CASE ce = c
    BY <1>2, <1>5, <1>6, <2>1 DEF Region
  <2>2. CASE ce # c
    BY <1>2, <1>5, <1>6, <2>2 DEF ResizeKnows
  <2> QED
    BY <2>1, <2>2
<1>8. ResizeKnows' /\ InGenetics'
  BY <1>1, <1>2, <1>7 DEF ResizeKnows, InGenetics
<1> QED
  BY <1>1, <1>2, <1>3, <1>4, <1>8 DEF SegmentInv, SoupIsRight, SoupInv

LEMMA ResizeFailsKeeps == SegmentInv /\ ResizeFails => SegmentInv'
<1> SUFFICES ASSUME SegmentInv, ResizeFails PROVE SegmentInv'
  OBVIOUS
<1>1. /\ phase = "resize" /\ phase' = "genetic" /\ req' = NoRequest
      /\ UNCHANGED <<memory, live, copied, queues, knobs, ce, orphans, twice>>
  BY DEF ResizeFails
<1>2. ~ twice /\ SoupInv /\ KnobsTyped /\ Bodies /\ ResizeKnows /\ ce \in Slots
  BY <1>1, InResize
<1>3. SoupInv' /\ KnobsTyped' /\ Bodies'
  BY <1>1, <1>2, Untouched DEF SoupInv, Bodies, memory
<1>4. ResizeKnows' /\ InGenetics'
  BY <1>1, <1>2 DEF ResizeKnows, InGenetics, memory
<1> QED
  BY <1>1, <1>2, <1>3, <1>4, NoRequestTyped DEF SegmentInv, SoupIsRight

LEMMA DivideAfterOpsKeeps == SegmentInv /\ DivideAfterOps => SegmentInv'
<1> SUFFICES ASSUME SegmentInv, DivideAfterOps PROVE SegmentInv'
  OBVIOUS
<1>1. PICK s \in AllocCell :
          /\ Enter(s, IF s = ce THEN NoRegion ELSE md[ce])
          /\ orphans' = IF s = ce THEN orphans ELSE orphans \ {md[ce]}
          /\ md' = [md EXCEPT ![s] = NoRegion, ![ce] = NoRegion]
          /\ copied' = copied \ {s, ce}
  BY DEF DivideAfterOps
<1>2. /\ phase = "genetic" /\ md[ce].size >= MinCellSize /\ phase' = "slice"
      /\ UNCHANGED <<free, knobs, ce, req, old, twice>>
  BY DEF DivideAfterOps
<1>3. KnobsTyped' /\ s \in Slots \ live /\ NoRegion \in Region /\ NoRegion.size = 0
  BY <1>1, <1>2, Untouched, FreshPartition DEF SegmentInv, AllocCell
<1>4. CASE twice
  <2>1. md \in [Slots -> Region] /\ ce \in Slots
    BY <1>2, <1>4 DEF SegmentInv, CellIsGone
  <2>2. md' \in [Slots -> Region] /\ md'[ce].size = 0
    BY <1>1, <1>3, <2>1
  <2> QED
    BY <1>2, <1>3, <1>4, <2>1, <2>2 DEF SegmentInv, CellIsGone
<1>5. CASE ~ twice
  <2>1. SoupIsRight /\ InGenetics /\ ResizeKnows
    BY <1>2, <1>5 DEF SegmentInv, SoupIsRight, InGenetics
  <2>2. ce \in live /\ ce \in Slots /\ s # ce
    <3>1. ~ (md[ce].size = 0)
      BY <1>2, PopulationAssumption
    <3> QED
      BY <1>3, <2>1, <3>1 DEF ResizeKnows
  <2>3. SoupTyped /\ NoByteShared
    BY <2>1 DEF SoupIsRight, SoupInv, Partition
  <2>4. md[ce] \in Region /\ md[ce].size > 0
    BY <1>2, <2>2, <2>3, PopulationAssumption, SoupSizeAssumption DEF SoupTyped, Region
  <2>5. Distinct(live, mm, md, orphans)
    BY <2>3, NoByteSharedIs
  <2>6. md[ce] \notin orphans
    BY <2>2, <2>4, <2>5 DEF Distinct
  <2>7. orphans' = orphans /\ Enter(s, md[ce])
    BY <1>1, <2>2, <2>6
  <2>8. SoupTyped' /\ ListsTyped' /\ Partition'
    BY <1>1, <1>2, <2>1, <2>2, <2>7, DaughterBorn DEF SoupIsRight
  <2>9. Bodies'
    BY <1>3, <2>1, <2>3, <2>4, <2>7, EnterBodies DEF SoupIsRight
  <2>10. ~ InGenetics' /\ phase' \in Phases /\ HandlersKnow'
    BY <1>2, <2>2 DEF InGenetics, Phases, HandlersKnow
  <2> QED
    BY <1>2, <1>3, <1>5, <2>1, <2>8, <2>9, <2>10 DEF SegmentInv, SoupIsRight, SoupInv
<1> QED
  BY <1>4, <1>5

LEMMA DivideGivesUpKeeps == SegmentInv /\ DivideGivesUp => SegmentInv'
<1> SUFFICES ASSUME SegmentInv, DivideGivesUp PROVE SegmentInv'
  OBVIOUS
<1>1. /\ phase = "genetic" /\ phase' = "slice"
      /\ UNCHANGED <<memory, live, copied, queues, knobs, ce, req, orphans, old, twice>>
  BY DEF DivideGivesUp
<1>2. KnobsTyped'
  BY <1>1, Untouched DEF SegmentInv
<1>3. CASE twice
  BY <1>1, <1>2, <1>3 DEF SegmentInv, CellIsGone, memory
<1>4. CASE ~ twice
  <2>1. SoupIsRight /\ InGenetics /\ ResizeKnows
    BY <1>1, <1>4 DEF SegmentInv, SoupIsRight, InGenetics
  <2>2. SoupInv' /\ Bodies'
    BY <1>1, <1>2, <2>1, Untouched DEF SoupIsRight, SoupInv, Bodies, memory
  <2>3. ~ InGenetics' /\ phase' \in Phases /\ HandlersKnow'
    BY <1>1, <2>1 DEF InGenetics, Phases, HandlersKnow, ResizeKnows
  <2> QED
    BY <1>1, <1>2, <1>4, <2>1, <2>2, <2>3 DEF SegmentInv, SoupIsRight
<1> QED
  BY <1>3, <1>4

LEMMA NextSegment == SegmentInv /\ [SNext]_svars => SegmentInv'
<1>1. ASSUME SegmentInv, UNCHANGED svars PROVE SegmentInv'
  <2>1. /\ UNCHANGED <<memory, live, copied, orphans>> /\ UNCHANGED queues /\ UNCHANGED knobs
        /\ UNCHANGED <<phase, ce, req, old, twice>> /\ UNCHANGED <<mm, md, num_cells>>
    BY <1>1 DEF svars, vars, control, memory, queues
  <2>2. KnobsTyped'
    BY <1>1, <2>1, Untouched DEF SegmentInv
  <2>3. CASE twice
    BY <1>1, <2>1, <2>2, <2>3 DEF SegmentInv, CellIsGone
  <2>4. CASE ~ twice
    <3>1. SoupInv' /\ Bodies'
      BY <1>1, <2>1, <2>2, <2>4, Untouched DEF SegmentInv, SoupIsRight, SoupInv, Bodies
    <3> QED
      BY <1>1, <2>1, <2>2, <2>4, <3>1
      DEF SegmentInv, SoupIsRight, InGenetics, ResizeKnows, HandlersKnow
  <2> QED
    BY <2>3, <2>4
<1> QED
  BY <1>1, ElsewhereKeeps, ResizeBeginKeeps, ResizePlacedKeeps, ResizeReapsKeeps, ResizeFailsKeeps,
     DivideAfterOpsKeeps, DivideGivesUpKeeps DEF SNext, ResizeStep, DivideEnd

LEMMA SpecSegment == SSpec => []SegmentInv
BY InitSegment, NextSegment, PTL DEF SSpec

(* Moving a daughter to memory of another size, and reaping others for it,    *)
(* keeps every byte with one owner and loses none, unless divide reaped its   *)
(* own cell and still found room.                                             *)
THEOREM SegmentResizeKeepsMemory == SSpec => []ResizeKeepsMemory
<1>1. SegmentInv => ResizeKeepsMemory
  BY DEF SegmentInv, SoupIsRight, SoupInv, Partition, Bodies, ResizeKeepsMemory
<1> QED
  BY <1>1, SpecSegment, PTL

(* "resize probes mem_alloc first (soft-fail leaves md unchanged)": as long   *)
(* as a resize finds nothing, and after it gave up, a mother that lives has   *)
(* the daughter memory it began with and no byte of it is free.               *)
THEOREM SegmentSoftFailKeepsDaughter == SSpec => SoftFailKeepsDaughter
<1> DEFINE Kept ==
       phase = "resize" /\ ce \in live' =>
          \/ md'[ce] = old /\ \A a \in Bytes(old) : ~ IsFree(free', a)
          \/ req.left > 0 /\ md'[ce].size = req.size
<1>1. ASSUME SegmentInv, [SNext]_svars, SegmentInv' PROVE [Kept]_svars
  <2> SUFFICES ASSUME SNext, phase = "resize", ce \in live'
               PROVE  \/ md'[ce] = old /\ \A a \in Bytes(old) : ~ IsFree(free', a)
                      \/ req.left > 0 /\ md'[ce].size = req.size
    BY <1>1 DEF svars
  <2>1. /\ ~ twice /\ SoupInv /\ ResizeKnows /\ ce \in Slots
    BY <1>1, InResize
  <2>2. CASE ResizePlaced
    <3>1. PICK at \in Placements : md' = [md EXCEPT ![ce] = Blk(at.place, req.size)]
      BY <2>2 DEF ResizePlaced
    <3>2. md'[ce].size = req.size
      BY <2>1, <3>1 DEF SoupInv, SoupTyped, Blk
    <3> QED
      BY <2>2, <3>2 DEF ResizePlaced
  <2>3. CASE ResizeReaps \/ ResizeFails
    <3>1. ce' = ce /\ ~ twice' /\ md'[ce] = old /\ old.size > 0
      <4>1. CASE ResizeReaps
        <5>1. UNCHANGED <<phase, ce, old, twice>>
          BY <4>1 DEF ResizeReaps
        <5>2. ResizeKnows'
          BY <1>1, <2>1, <5>1 DEF SegmentInv, SoupIsRight, InGenetics
        <5> QED
          BY <2>1, <5>1, <5>2 DEF ResizeKnows
      <4>2. CASE ResizeFails
        BY <2>1, <4>2 DEF ResizeFails, ResizeKnows, memory
      <4> QED
        BY <2>3, <4>1, <4>2
    <3>2. NoByteShared' /\ old \in Held'
      BY <1>1, <3>1, HeldIs DEF SegmentInv, SoupIsRight, SoupInv, Partition
    <3>3. /\ \A b \in free' : Disjoint(b, old)
          /\ free' \subseteq Block /\ old \in Block
      BY <1>1, <3>1, <3>2 DEF NoByteShared, Separate, SegmentInv, SoupIsRight, SoupInv, SoupTyped
    <3>4. ASSUME NEW a \in Bytes(old), IsFree(free', a) PROVE FALSE
      <4>1. a \in Int /\ old.start <= a /\ a < End(old)
        BY <3>3, BlockBounds DEF Bytes
      <4>2. PICK b \in free' : b.start < a + 1 /\ a < End(b)
        BY <3>4 DEF IsFree, LastBelow
      <4> QED
        BY <3>3, <4>1, <4>2, BlockBounds DEF Disjoint
    <3> QED
      BY <3>1, <3>4
  <2>4. ~ (Elsewhere \/ ResizeBegin \/ DivideEnd)
    BY <2>1, NothingElseRuns DEF Elsewhere, ResizeBegin, DivideEnd, DivideAfterOps, DivideGivesUp, Phases
  <2> QED
    BY <2>2, <2>3, <2>4 DEF SNext, ResizeStep
<1> QED
  BY <1>1, SpecSegment, PTL DEF SSpec, SoftFailKeepsDaughter

===========================================================================

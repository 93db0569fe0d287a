------------------------- MODULE SoupMemoryProofs -------------------------
(***************************************************************************)
(* What the free-list operators preserve, for every soup size: the facts   *)
(* the allocator and the population are proved from.                       *)
(***************************************************************************)
EXTENDS SoupMemory, TLAPS

\* A placement lies inside a block of the free list.
PlacementIn(free, at, size) ==
    /\ at.block \in free
    /\ at.place \in Int
    /\ size \in Nat \ {0}
    /\ at.block.start <= at.place
    /\ at.place + size <= End(at.block)

(* mem_alloc answers with a place inside one free block, in every mode. *)
LEMMA MemAllocPlaces ==
    ASSUME NEW free \in SUBSET Block, NEW size \in Int, NEW pref \in Int, NEW tol \in Int,
           NEW at \in MemAlloc(free, size, pref, tol)
    PROVE  PlacementIn(free, at, size)
<1>1. size >= 1 /\ size <= SoupSize
  BY SoupSizeAssumption DEF MemAlloc
<1>2. CASE pref < 0
  <2>1. at \in BetterFit(free, size)
    BY <1>1, <1>2, SoupSizeAssumption DEF MemAlloc
  <2>2. PICK b \in Adequate(free, size) : at = Placement(b, b.start)
    BY <2>1 DEF BetterFit
  <2> QED
    BY <1>1, <2>2 DEF Adequate, Placement, PlacementIn, End, Block, Addr
<1>3. CASE ~(pref < 0)
  <2>1. at \in Nearest(free, size, pref, tol)
    BY <1>1, <1>3, SoupSizeAssumption DEF MemAlloc
  <2>2. PICK b \in Adequate(free, size) : at = Placement(b, PlaceIn(b, size, pref))
    BY <2>1 DEF Nearest
  <2>3. b \in Block /\ b.size >= size /\ b \in free
    BY <2>2 DEF Adequate
  <2>4. /\ PlaceIn(b, size, pref) \in Int
        /\ b.start <= PlaceIn(b, size, pref)
        /\ PlaceIn(b, size, pref) + size <= End(b)
    BY <1>1, <2>3 DEF PlaceIn, End, Block, Addr
  <2> QED
    BY <1>1, <2>2, <2>3, <2>4 DEF Placement, PlacementIn
<1> QED
  BY <1>2, <1>3

(* Carving a region out of a free block: the region and the rests of the     *)
(* block take the place of the block, touch nothing else, and leave no two    *)
(* free blocks in contact.                                                    *)
LEMMA CarveKeeps ==
    ASSUME NEW free \in SUBSET Block, NEW H \in SUBSET Block, NEW at, NEW size,
           PlacementIn(free, at, size), Separate(free, H)
    PROVE  /\ Carve(free, at, size) \subseteq Block
           /\ Blk(at.place, size) \in Block
           /\ Blk(at.place, size) \notin H
           /\ Separate(Carve(free, at, size), H \cup {Blk(at.place, size)})
           /\ Covers(free, H) => Covers(Carve(free, at, size), H \cup {Blk(at.place, size)})
           /\ Apart(free) => Apart(Carve(free, at, size))
<1> DEFINE b == at.block
           p == at.place
           left == Blk(b.start, p - b.start)
           right == Blk(p + size, End(b) - (p + size))
           r == Blk(p, size)
           f == Carve(free, at, size)
<1>1. /\ b \in free /\ b \in Block /\ p \in Int /\ size \in Nat \ {0}
      /\ b.start <= p /\ p + size <= End(b)
  BY DEF PlacementIn
<1>2. f = (free \ {b}) \cup {x \in {left, right} : x.size > 0}
  BY DEF Carve
<1>3. r \in Block /\ r.start = p /\ r.size = size /\ End(r) = p + size
  BY <1>1, SoupSizeAssumption DEF Blk, Block, Addr, End
<1>4. /\ left.start = b.start /\ End(left) = p
      /\ right.start = p + size /\ End(right) = End(b)
      /\ left.size > 0 => left \in Block
      /\ right.size > 0 => right \in Block
      /\ left.size > 0 <=> b.start < p
      /\ right.size > 0 <=> p + size < End(b)
  <2>1. /\ b.start \in Int /\ b.size \in Int /\ b.start >= 0
        /\ End(b) = b.start + b.size /\ End(b) <= SoupSize /\ SoupSize \in Int
    BY <1>1, SoupSizeAssumption DEF Block, Addr, End
  <2>2. left = [start |-> b.start, size |-> p - b.start]
    BY DEF Blk
  <2>3. right = [start |-> p + size, size |-> End(b) - (p + size)]
    BY DEF Blk
  <2> HIDE DEF b, p, left, right
  <2>4. left.start = b.start /\ left.size = p - b.start /\ End(left) = p
    BY <2>1, <2>2, <1>1 DEF End
  <2>5. right.start = p + size /\ right.size = End(b) - (p + size) /\ End(right) = End(b)
    BY <2>1, <2>3, <1>1 DEF End
  <2>6. left.size > 0 => left \in Block
    BY <2>1, <2>2, <2>4, <1>1 DEF Block, Addr
  <2>7. right.size > 0 => right \in Block
    BY <2>1, <2>3, <2>5, <1>1 DEF Block, Addr
  <2> QED
    BY <2>1, <2>4, <2>5, <2>6, <2>7, <1>1
<1> HIDE DEF left, right, r, f
<1>5. f \subseteq Block
  BY <1>2, <1>4
<1>6. \A x \in Block : x.start \in Int /\ End(x) \in Int /\ x.start < End(x)
  BY SoupSizeAssumption DEF Block, Addr, End
<1>7. \A x \in free \cup H : x # b => Disjoint(x, b)
  BY <1>1 DEF Separate
<1>8. b \notin H
  BY <1>1 DEF Separate
<1>9. \A x \in (free \cup H) \ {b} : Disjoint(x, r) /\ x # r
  BY <1>1, <1>3, <1>6, <1>7 DEF Disjoint
<1>10. \A x \in f \ free : x \in Block /\ b.start <= x.start /\ End(x) <= End(b) /\ Disjoint(x, r)
  BY <1>1, <1>2, <1>3, <1>4, <1>6 DEF Disjoint
<1>11. \A x \in f : x \in free \ {b} \/ (x \in {left, right} /\ x.size > 0)
  BY <1>2
<1>12. \A x \in f : Disjoint(x, r) /\ x # r
  <2> SUFFICES ASSUME NEW x \in f PROVE Disjoint(x, r) /\ x # r
    OBVIOUS
  <2>1. CASE x \in free \ {b}
    BY <2>1, <1>9
  <2>2. CASE x = left /\ x.size > 0
    BY <2>2, <1>1, <1>3, <1>4, <1>6 DEF Disjoint
  <2>3. CASE x = right /\ x.size > 0
    BY <2>3, <1>1, <1>3, <1>4, <1>6 DEF Disjoint
  <2> QED
    BY <1>11, <2>1, <2>2, <2>3
<1>13. \A x \in f, y \in (free \cup H) \ {b} : x # y => Disjoint(x, y) /\ Disjoint(y, x)
  <2> SUFFICES ASSUME NEW x \in f, NEW y \in (free \cup H) \ {b}, x # y
               PROVE  Disjoint(x, y) /\ Disjoint(y, x)
    OBVIOUS
  <2>1. CASE x \in free \ {b}
    BY <2>1 DEF Separate
  <2>2. CASE x \in {left, right} /\ x.size > 0
    <3>1. b.start <= x.start /\ End(x) <= End(b) /\ x \in Block
      BY <2>2, <1>1, <1>4, <1>6
    <3>2. Disjoint(y, b)
      BY <1>7
    <3> QED
      BY <3>1, <3>2, <1>1, <1>6 DEF Disjoint
  <2> QED
    BY <1>11, <2>1, <2>2
<1>14. \A x, y \in f : x # y => Disjoint(x, y)
  <2> SUFFICES ASSUME NEW x \in f, NEW y \in f, x # y PROVE Disjoint(x, y)
    OBVIOUS
  <2>1. CASE y \in free \ {b}
    BY <2>1, <1>13
  <2>2. CASE x \in free \ {b}
    BY <2>2, <1>13
  <2>3. CASE x \in {left, right} /\ y \in {left, right}
    BY <2>3, <1>1, <1>4, <1>6 DEF Disjoint
  <2> QED
    BY <1>11, <2>1, <2>2, <2>3
<1>15. f \cap H = {}
  <2> SUFFICES ASSUME NEW x \in f, x \in H PROVE FALSE
    OBVIOUS
  <2>1. CASE x \in free \ {b}
    BY <2>1 DEF Separate
  <2>2. CASE x \in {left, right} /\ x.size > 0
    <3>1. b.start <= x.start /\ End(x) <= End(b) /\ x \in Block
      BY <2>2, <1>1, <1>4, <1>6
    <3>2. Disjoint(x, b)
      BY <1>7, <1>8
    <3> QED
      BY <3>1, <3>2, <1>1, <1>6 DEF Disjoint
  <2> QED
    BY <1>11, <2>1, <2>2
<1>16. Separate(f, H \cup {r})
  <2>1. f \cap (H \cup {r}) = {}
    BY <1>12, <1>15
  <2>2. \A x, y \in f \cup (H \cup {r}) : x # y => Disjoint(x, y)
    <3> SUFFICES ASSUME NEW x \in f \cup (H \cup {r}), NEW y \in f \cup (H \cup {r}), x # y
                 PROVE  Disjoint(x, y)
      OBVIOUS
    <3>1. CASE x \in f /\ y \in f
      BY <3>1, <1>14
    <3>2. CASE x \in f /\ y \in H
      BY <3>2, <1>13, <1>8
    <3>3. CASE x \in H /\ y \in f
      BY <3>3, <1>13, <1>8
    <3>4. CASE x \in H /\ y \in H
      BY <3>4 DEF Separate
    <3>5. CASE x = r
      <4>1. Disjoint(y, r)
        BY <3>5, <1>12, <1>9, <1>8
      <4> QED
        BY <4>1, <3>5 DEF Disjoint
    <3>6. CASE y = r
      BY <3>6, <1>12, <1>9, <1>8
    <3> QED
      BY <3>1, <3>2, <3>3, <3>4, <3>5, <3>6
  <2> QED
    BY <2>1, <2>2 DEF Separate
<1>17. ASSUME Covers(free, H) PROVE Covers(f, H \cup {r})
  <2> SUFFICES ASSUME NEW a \in Addr PROVE \E x \in f \cup (H \cup {r}) : a \in Bytes(x)
    BY DEF Covers
  <2>1. PICK x \in free \cup H : a \in Bytes(x)
    BY <1>17 DEF Covers
  <2>2. CASE x # b
    BY <2>1, <2>2, <1>2
  <2>3. CASE x = b
    <3>1. a \in Int /\ b.start <= a /\ a < End(b)
      BY <2>1, <2>3, <1>1, <1>6 DEF Bytes, Addr
    <3>2. CASE a < p
      <4>1. left \in f
        BY <3>1, <3>2, <1>1, <1>2, <1>4, <1>6
      <4> QED
        BY <3>1, <3>2, <4>1, <1>1, <1>4 DEF Bytes
    <3>3. CASE p <= a /\ a < p + size
      BY <3>1, <3>3, <1>1, <1>3 DEF Bytes
    <3>4. CASE p + size <= a
      <4>1. right \in f
        BY <3>1, <3>4, <1>1, <1>2, <1>4, <1>6
      <4> QED
        BY <3>1, <3>4, <4>1, <1>1, <1>4, <1>6 DEF Bytes
    <3> QED
      BY <3>1, <3>2, <3>3, <3>4, <1>1
  <2> QED
    BY <2>2, <2>3
<1>18. ASSUME Apart(free) PROVE Apart(f)
  <2> SUFFICES ASSUME NEW x \in f, NEW y \in f, End(x) = y.start PROVE FALSE
    BY DEF Apart
  <2>1. CASE x \in free \ {b} /\ y \in free \ {b}
    BY <2>1, <1>18 DEF Apart
  <2>2. CASE x \in free \ {b} /\ y \in {left, right} /\ y.size > 0
    <3>1. y = left
      BY <2>2, <1>1, <1>4, <1>6, <1>7 DEF Disjoint
    <3> QED
      BY <2>2, <3>1, <1>1, <1>4, <1>18 DEF Apart
  <2>3. CASE x \in {left, right} /\ x.size > 0 /\ y \in free \ {b}
    <3>1. x = right
      BY <2>3, <1>1, <1>4, <1>6, <1>7 DEF Disjoint
    <3> QED
      BY <2>3, <3>1, <1>1, <1>4, <1>18 DEF Apart
  <2>4. CASE x \in {left, right} /\ y \in {left, right} /\ x.size > 0 /\ y.size > 0
    BY <2>4, <1>1, <1>4, <1>6
  <2> QED
    BY <1>11, <2>1, <2>2, <2>3, <2>4
<1> QED
  BY <1>3, <1>5, <1>9, <1>8, <1>16, <1>17, <1>18 DEF f, r

---------------------------------------------------------------------------
(* Blocks have positive length, so their ends are ordered like their starts. *)
LEMMA BlockBounds ==
    \A x \in Block : /\ x.start \in Int /\ x.size \in Int /\ End(x) \in Int
                     /\ x.start < End(x) /\ 0 <= x.start /\ End(x) <= SoupSize
                     /\ End(x) = x.start + x.size /\ x = Blk(x.start, x.size)
BY SoupSizeAssumption DEF Block, Addr, End, Blk

(* The lower neighbour is exactly the free block that ends where the region starts. *)
LEMMA BelowIsAdjacent ==
    ASSUME NEW free \in SUBSET Block, NEW a \in Int,
           \A b, c \in free : b # c => Disjoint(b, c)
    PROVE  MergedBelow(free, a) = {b \in free : End(b) = a}
<1>1. ASSUME NEW b \in free, End(b) = a PROVE b \in LastBelow(free, a)
  <2>1. b.start < a
    BY <1>1, BlockBounds
  <2>2. ASSUME NEW c \in free, c.start < a PROVE c.start <= b.start
    BY <1>1, <2>1, <2>2, BlockBounds DEF Disjoint
  <2> QED
    BY <2>1, <2>2 DEF LastBelow
<1> QED
  BY <1>1 DEF MergedBelow, LastBelow

(* The upper neighbour is exactly the free block that starts where the region ends. *)
LEMMA AboveIsAdjacent ==
    ASSUME NEW free \in SUBSET Block, NEW r \in Block,
           \A b \in free : Disjoint(b, r)
    PROVE  MergedAbove(free, r.start, r.size) = {b \in free : b.start = End(r)}
<1>1. ASSUME NEW b \in free, b.start = End(r) PROVE b \in FirstFrom(free, r.start)
  <2>1. b.start >= r.start
    BY <1>1, BlockBounds
  <2>2. ASSUME NEW c \in free, c.start >= r.start PROVE c.start >= b.start
    BY <1>1, <2>1, <2>2, BlockBounds DEF Disjoint
  <2> QED
    BY <2>1, <2>2 DEF FirstFrom
<1> QED
  BY <1>1, BlockBounds DEF MergedAbove, FirstFrom

(* A region given back becomes part of one free block, together with the      *)
(* neighbours that touch it: nothing is listed twice, nothing is lost, and    *)
(* no two free blocks are left in contact.                                    *)
LEMMA DeallocKeeps ==
    ASSUME NEW free \in SUBSET Block, NEW H \in SUBSET Block, NEW r \in H,
           Separate(free, H)
    PROVE  LET f == MemDealloc(free, r.start, r.size)
           IN  /\ f \subseteq Block
               /\ Separate(f, H \ {r})
               /\ Covers(free, H) => Covers(f, H \ {r})
               /\ Apart(free) => Apart(f)
<1> DEFINE below == MergedBelow(free, r.start)
           above == MergedAbove(free, r.start, r.size)
           m == Blk(r.start - SizeOf(below), SizeOf(below) + r.size + SizeOf(above))
           f == MemDealloc(free, r.start, r.size)
<1>1. r \in Block /\ r \notin free
  BY DEF Separate
<1>2. \A x \in free \cup H : x # r => Disjoint(x, r)
  BY DEF Separate
<1>3. below = {b \in free : End(b) = r.start}
  BY <1>1, BlockBounds, BelowIsAdjacent DEF Separate
<1>4. above = {b \in free : b.start = End(r)}
  <2>1. \A b \in free : Disjoint(b, r)
    BY <1>1, <1>2
  <2> QED
    BY <1>1, <2>1, AboveIsAdjacent
<1>5. f = (free \ (below \cup above)) \cup {m}
  BY <1>1, BlockBounds, SoupSizeAssumption DEF MemDealloc, Ad
<1>6. \/ below = {} /\ SizeOf(below) = 0
      \/ \E l \in free : below = {l} /\ SizeOf(below) = l.size /\ End(l) = r.start
  <2>1. CASE below = {}
    BY <2>1 DEF SizeOf
  <2>2. CASE below # {}
    <3>1. PICK l \in below : l = CHOOSE b \in below : TRUE
      BY <2>2
    <3>2. ASSUME NEW x \in below PROVE x = l
      BY <3>1, <3>2, <1>3, BlockBounds DEF Separate, Disjoint
    <3> QED
      BY <2>2, <3>1, <3>2, <1>3 DEF SizeOf
  <2> QED
    BY <2>1, <2>2
<1>7. \/ above = {} /\ SizeOf(above) = 0
      \/ \E h \in free : above = {h} /\ SizeOf(above) = h.size /\ h.start = End(r)
  <2>1. CASE above = {}
    BY <2>1 DEF SizeOf
  <2>2. CASE above # {}
    <3>1. PICK h \in above : h = CHOOSE b \in above : TRUE
      BY <2>2
    <3>2. ASSUME NEW x \in above PROVE x = h
      BY <3>1, <3>2, <1>4, BlockBounds DEF Separate, Disjoint
    <3> QED
      BY <2>2, <3>1, <3>2, <1>4 DEF SizeOf
  <2> QED
    BY <2>1, <2>2
<1> HIDE DEF below, above, f
<1>8. /\ m.start = r.start - SizeOf(below)
      /\ End(m) = End(r) + SizeOf(above)
      /\ m \in Block
  <2>1. SizeOf(below) \in Nat /\ SizeOf(above) \in Nat
    BY <1>6, <1>7, BlockBounds DEF Block
  <2>2. r.start - SizeOf(below) >= 0 /\ End(r) + SizeOf(above) <= SoupSize
    BY <1>1, <1>6, <1>7, BlockBounds
  <2>3. m = [start |-> r.start - SizeOf(below), size |-> SizeOf(below) + r.size + SizeOf(above)]
    BY DEF Blk
  <2>4. r.size >= 1
    BY <1>1 DEF Block
  <2> HIDE DEF m
  <2>5. m.start = r.start - SizeOf(below) /\ m.size = SizeOf(below) + r.size + SizeOf(above)
    BY <2>3
  <2>6. End(m) = End(r) + SizeOf(above)
    BY <2>1, <2>5, <1>1, BlockBounds DEF End
  <2>7. m \in Block
    BY <2>1, <2>2, <2>3, <2>4, <2>5, <2>6, <1>1, BlockBounds, SoupSizeAssumption DEF Block, Addr, End
  <2> QED
    BY <2>5, <2>6, <2>7
<1> HIDE DEF m
<1>9. f \subseteq Block
  BY <1>5, <1>8
<1>10. \A x \in (free \ (below \cup above)) \cup (H \ {r}) : x # m /\ Disjoint(x, m) /\ Disjoint(m, x)
  <2> SUFFICES ASSUME NEW x \in (free \ (below \cup above)) \cup (H \ {r})
               PROVE  x # m /\ Disjoint(x, m) /\ Disjoint(m, x)
    OBVIOUS
  <2>1. x \in Block /\ x \in free \cup H /\ x \notin below /\ x \notin above /\ x # r
    BY <1>1, <1>3, <1>4 DEF Separate
  <2>2. Disjoint(x, r)
    BY <1>2, <2>1
  <2>3. \A l \in below : Disjoint(x, l)
    BY <1>3, <2>1 DEF Separate
  <2>4. \A h \in above : Disjoint(x, h)
    BY <1>4, <2>1 DEF Separate
  <2>5. End(x) <= m.start \/ End(m) <= x.start
    <3>1. CASE below = {} /\ above = {}
      BY <3>1, <2>1, <2>2, <1>1, <1>6, <1>7, <1>8, BlockBounds DEF Disjoint
    <3>2. CASE below # {} /\ above = {}
      BY <3>2, <2>1, <2>2, <2>3, <1>1, <1>6, <1>7, <1>8, BlockBounds DEF Disjoint
    <3>3. CASE below = {} /\ above # {}
      BY <3>3, <2>1, <2>2, <2>4, <1>1, <1>6, <1>7, <1>8, BlockBounds DEF Disjoint
    <3>4. CASE below # {} /\ above # {}
      BY <3>4, <2>1, <2>2, <2>3, <2>4, <1>1, <1>6, <1>7, <1>8, BlockBounds DEF Disjoint
    <3> QED
      BY <3>1, <3>2, <3>3, <3>4
  <2> QED
    BY <2>1, <2>5, <1>8, BlockBounds DEF Disjoint
<1>11. Separate(f, H \ {r})
  <2>1. f \cap (H \ {r}) = {}
    BY <1>5, <1>10 DEF Separate
  <2>2. ASSUME NEW x \in f \cup (H \ {r}), NEW y \in f \cup (H \ {r}), x # y
        PROVE  Disjoint(x, y)
    BY <2>2, <1>5, <1>10 DEF Separate
  <2> QED
    BY <2>1, <2>2 DEF Separate
<1>12. ASSUME Covers(free, H) PROVE Covers(f, H \ {r})
  <2> SUFFICES ASSUME NEW a \in Addr PROVE \E x \in f \cup (H \ {r}) : a \in Bytes(x)
    BY DEF Covers
  <2>1. PICK x \in free \cup H : a \in Bytes(x)
    BY <1>12 DEF Covers
  <2>2. CASE x \notin below \cup above \cup {r}
    BY <2>1, <2>2, <1>5
  <2>3. CASE x \in below \cup above \cup {r}
    <3>1. a \in Int /\ x \in Block /\ x.start <= a /\ a < End(x)
      BY <2>1, BlockBounds DEF Bytes, Addr
    <3>2. m.start <= x.start /\ End(x) <= End(m)
      <4>1. CASE x = r
        BY <4>1, <1>1, <1>6, <1>7, <1>8, BlockBounds
      <4>2. CASE x \in below
        BY <4>2, <1>1, <1>6, <1>7, <1>8, BlockBounds
      <4>3. CASE x \in above
        BY <4>3, <1>1, <1>6, <1>7, <1>8, BlockBounds
      <4> QED
        BY <2>3, <4>1, <4>2, <4>3
    <3>3. a \in Bytes(m)
      BY <3>1, <3>2, <1>8, BlockBounds DEF Bytes
    <3> QED
      BY <3>3, <1>5
  <2> QED
    BY <2>2, <2>3
<1>13. ASSUME Apart(free) PROVE Apart(f)
  <2> SUFFICES ASSUME NEW x \in f, NEW y \in f, End(x) = y.start PROVE FALSE
    BY DEF Apart
  <2>1. CASE x # m /\ y # m
    BY <2>1, <1>5, <1>13 DEF Apart
  <2>2. CASE x = m /\ y = m
    BY <2>2, <1>8, BlockBounds
  <2>3. CASE x = m /\ y # m
    <3>1. y \in free /\ y \notin below /\ y \notin above
      BY <2>3, <1>5
    <3>2. CASE above = {}
      BY <2>3, <3>1, <3>2, <1>1, <1>4, <1>7, <1>8, BlockBounds
    <3>3. CASE above # {}
      <4>1. PICK h \in free : above = {h} /\ SizeOf(above) = h.size /\ h.start = End(r)
        BY <3>3, <1>7
      <4>2. End(h) = y.start
        BY <2>3, <4>1, <1>1, <1>8, BlockBounds
      <4> QED
        BY <3>1, <4>1, <4>2, <1>13 DEF Apart
    <3> QED
      BY <3>2, <3>3
  <2>4. CASE x # m /\ y = m
    <3>1. x \in free /\ x \notin below /\ x \notin above
      BY <2>4, <1>5
    <3>2. CASE below = {}
      <4>1. SizeOf(below) = 0
        BY <3>2 DEF SizeOf
      <4>2. m.start = r.start
        BY <4>1, <1>1, <1>8, BlockBounds
      <4> QED
        BY <2>4, <3>1, <4>2, <1>3
    <3>3. CASE below # {}
      <4>1. PICK l \in free : below = {l} /\ SizeOf(below) = l.size /\ End(l) = r.start
        BY <3>3, <1>6
      <4>2. End(x) = l.start
        BY <2>4, <4>1, <1>1, <1>8, BlockBounds
      <4> QED
        BY <3>1, <4>1, <4>2, <1>13 DEF Apart
    <3> QED
      BY <3>2, <3>3
  <2> QED
    BY <2>1, <2>2, <2>3, <2>4
<1> QED
  BY <1>9, <1>11, <1>12, <1>13 DEF f

===========================================================================

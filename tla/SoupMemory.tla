---------------------------- MODULE SoupMemory ----------------------------
(***************************************************************************)
(* The free list of the soup (services/memory/soup.py).                    *)
(*                                                                         *)
(* The code keeps the same free blocks twice, sorted by address (by_addr)  *)
(* and by size (by_size); every question it asks of the two lists is a     *)
(* minimum or a maximum over the blocks, so here the free list is the set  *)
(* of its blocks.  An operator that returns a set of placements stands for *)
(* a search: the empty set is the code's answer -1.                        *)
(***************************************************************************)
EXTENDS Integers

CONSTANT SoupSize          \* bytes in the soup

ASSUME SoupSizeAssumption == SoupSize \in Nat \ {0}

Addr == 0 .. (SoupSize - 1)

\* A run of bytes that lies in the soup without wrapping round its end.
Block == {b \in [start : Addr, size : 1 .. SoupSize] : b.start + b.size <= SoupSize}

Blk(start, size) == [start |-> start, size |-> size]

End(b) == b.start + b.size

Bytes(b) == b.start .. (End(b) - 1)

Disjoint(b, c) == End(b) <= c.start \/ End(c) <= b.start

Ad(a) == a % SoupSize

\* The whole soup, the one block of a fresh SoupMemory.
FreshSoup == {Blk(0, SoupSize)}

---------------------------------------------------------------------------
(* What a free list is worth to those who hold the rest, the regions of H. *)

\* No byte is listed free twice, held twice, or free while it is held.
Separate(free, H) ==
    /\ \A b, c \in free \cup H : b # c => Disjoint(b, c)
    /\ free \cap H = {}

\* Every byte is accounted for.
Covers(free, H) == \A a \in Addr : \E b \in free \cup H : a \in Bytes(b)

\* No two free blocks touch.
Apart(free) == \A b, c \in free : End(b) # c.start

---------------------------------------------------------------------------
(* Looking a block up by address. *)

\* by_addr[i - 1]: the last block that starts below a.
LastBelow(free, a) ==
    {b \in free : b.start < a /\ \A c \in free : c.start < a => c.start <= b.start}

\* by_addr[i]: the first block that starts at or above a.
FirstFrom(free, a) ==
    {b \in free : b.start >= a /\ \A c \in free : c.start >= a => c.start >= b.start}

IsFree(free, a) == \E b \in LastBelow(free, a + 1) : a \in Addr /\ a < End(b)

---------------------------------------------------------------------------
(* Giving a region back: mem_dealloc. *)

\* The neighbours the returned region [a, a + size) is merged with.
MergedBelow(free, a)       == {b \in LastBelow(free, a) : End(b) = a}
MergedAbove(free, a, size) == {b \in FirstFrom(free, a) : b.start = a + size}

\* The size of the one member of a set of at most one block.
SizeOf(S) == IF S = {} THEN 0 ELSE (CHOOSE b \in S : TRUE).size

\* Mutant: only the lower neighbour is merged.
MemDeallocNoMergeAbove(free, start, size) ==
    LET a     == Ad(start)
        below == MergedBelow(free, a)
    IN  IF size <= 0 THEN free
        ELSE (free \ below) \cup {Blk(a - SizeOf(below), SizeOf(below) + size)}

MemDealloc(free, start, size) ==
    LET a     == Ad(start)
        below == MergedBelow(free, a)
        above == MergedAbove(free, a, size)
    IN  IF size <= 0 THEN free
        ELSE (free \ (below \cup above))
               \cup {Blk(a - SizeOf(below), SizeOf(below) + size + SizeOf(above))}

---------------------------------------------------------------------------
(* Taking a region: mem_alloc. *)

\* Mutant: a block of exactly the requested size is passed over.
AdequateStrict(free, size) == {b \in free : b.size > size}

Adequate(free, size) == {b \in free : b.size >= size}

Placement(b, p) == [block |-> b, place |-> p]

\* pref < 0: the smallest adequate block, the lowest one among equals.
BetterFit(free, size) ==
    {Placement(b, b.start) : b \in
        {b \in Adequate(free, size) :
            \A c \in Adequate(free, size) :
                b.size < c.size \/ (b.size = c.size /\ b.start <= c.start)}}

\* How far the code holds the block b to be from the preferred address.
Dist(b, size, pref) ==
    IF b.start <= pref /\ pref < End(b) THEN 0
    ELSE IF pref < b.start THEN b.start - pref
    ELSE pref - (End(b) - size)

\* Mutant: a preferred address near the end of the block is not moved back.
PlaceInUnclamped(b, size, pref) == IF b.start <= pref /\ pref < End(b) THEN pref ELSE b.start

PlaceIn(b, size, pref) ==
    IF b.start <= pref /\ pref <= End(b) - size THEN pref
    ELSE IF pref < b.start THEN b.start
    ELSE End(b) - size

\* pref >= 0: among the blocks within tol, the nearest, the lowest among equals.
Nearest(free, size, pref, tol) ==
    LET InTol == {b \in Adequate(free, size) : Dist(b, size, pref) <= tol}
    IN  {Placement(b, PlaceIn(b, size, pref)) : b \in
            {b \in InTol :
                \A c \in InTol :
                    \/ Dist(b, size, pref) < Dist(c, size, pref)
                    \/ Dist(b, size, pref) = Dist(c, size, pref) /\ b.start <= c.start}}

\* Where mem_alloc puts `size` bytes: one placement, or none (-1).
MemAlloc(free, size, pref, tol) ==
    IF size <= 0 \/ size > SoupSize THEN {}
    ELSE IF pref < 0 THEN BetterFit(free, size)
    ELSE Nearest(free, size, pref, tol)

\* Mutants: the right rest one byte too early, or no left rest.
CarveRightTooEarly(free, at, size) ==
    (free \ {at.block}) \cup
        {r \in {Blk(at.block.start, at.place - at.block.start),
                Blk(at.place + size - 1, End(at.block) - (at.place + size - 1))} : r.size > 1}
CarveNoLeft(free, at, size) ==
    (free \ {at.block}) \cup
        {r \in {Blk(at.place + size, End(at.block) - (at.place + size))} : r.size > 0}

\* The free list once `size` bytes are taken at a placement; empty rests vanish.
Carve(free, at, size) ==
    LET left  == Blk(at.block.start, at.place - at.block.start)
        right == Blk(at.place + size, End(at.block) - (at.place + size))
    IN  (free \ {at.block}) \cup {r \in {left, right} : r.size > 0}

===========================================================================

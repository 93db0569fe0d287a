------------------------ MODULE SoupAllocatorProofs ------------------------
(***************************************************************************)
(* The allocator is correct for every soup size: the blocks it lists free  *)
(* and the regions it handed out partition the soup, and the free blocks   *)
(* are maximal.                                                            *)
(***************************************************************************)
EXTENDS SoupAllocator, SoupMemoryProofs, WellFoundedInduction

IInv == TypeOK /\ NoByteTwice /\ NoByteLost /\ Coalesced

(* A fresh soup is one free block. *)
LEMMA InitInv == Init => IInv
<1> SUFFICES ASSUME Init PROVE IInv
  OBVIOUS
<1>1. /\ Blk(0, SoupSize) \in Block
      /\ Blk(0, SoupSize).start = 0 /\ End(Blk(0, SoupSize)) = SoupSize
  BY SoupSizeAssumption DEF Blk, Block, Addr, End
<1>2. Bytes(Blk(0, SoupSize)) = Addr
  BY <1>1 DEF Bytes, Addr
<1> QED
  BY <1>1, <1>2, SoupSizeAssumption DEF Init, FreshSoup, IInv, TypeOK, NoByteTwice, NoByteLost,
     Coalesced, Separate, Covers, Apart, NoAnswer

(* Every request keeps the partition. *)
LEMMA NextInv == IInv /\ [Next]_vars => IInv'
<1> SUFFICES ASSUME IInv, [Next]_vars PROVE IInv'
  OBVIOUS
<1> USE DEF IInv
<1>1. ASSUME NEW size \in Sizes, NEW pref \in Prefs, NEW tol \in Tols, Alloc(size, pref, tol)
      PROVE  IInv'
  <2>1. PICK at \in MemAlloc(free, size, pref, tol) :
            /\ free' = Carve(free, at, size)
            /\ held' = held \cup {Blk(at.place, size)}
            /\ got' = at.place
    BY <1>1 DEF Alloc
  <2>2. PlacementIn(free, at, size)
    BY SoupSizeAssumption, MemAllocPlaces DEF TypeOK, Sizes, Prefs, Tols
  <2>3. /\ free' \subseteq Block
        /\ Blk(at.place, size) \in Block
        /\ Separate(free', held')
        /\ Covers(free', held')
        /\ Apart(free')
    BY <2>1, <2>2, CarveKeeps DEF TypeOK, NoByteTwice, NoByteLost, Coalesced
  <2>4. got' \in Addr
    BY <2>1, <2>3 DEF Blk, Block
  <2> QED
    BY <2>1, <2>3, <2>4 DEF TypeOK, NoByteTwice, NoByteLost, Coalesced
<1>2. ASSUME NEW size \in Sizes, NEW pref \in Prefs, NEW tol \in Tols, AllocFails(size, pref, tol)
      PROVE  IInv'
  BY <1>2 DEF AllocFails, TypeOK, NoByteTwice, NoByteLost, Coalesced
<1>3. ASSUME NEW r \in held, Dealloc(r) PROVE IInv'
  <2>1. /\ free' \subseteq Block
        /\ Separate(free', held')
        /\ Covers(free', held')
        /\ Apart(free')
    BY <1>3, DeallocKeeps DEF Dealloc, TypeOK, NoByteTwice, NoByteLost, Coalesced
  <2> QED
    BY <1>3, <2>1 DEF Dealloc, TypeOK, NoByteTwice, NoByteLost, Coalesced
<1>4. CASE UNCHANGED vars
  BY <1>4 DEF vars, TypeOK, NoByteTwice, NoByteLost, Coalesced
<1> QED
  BY <1>1, <1>2, <1>3, <1>4 DEF Next

LEMMA SpecInv == Spec => []IInv
BY InitInv, NextInv, PTL DEF Spec

(* The free list and the answers stay well formed, for every soup size. *)
THEOREM AllocatorTypeCorrect == Spec => []TypeOK
BY SpecInv, PTL DEF IInv

(* No byte is ever handed out twice, or handed out while it is listed free. *)
THEOREM AllocatorNoByteTwice == Spec => []NoByteTwice
BY SpecInv, PTL DEF IInv

(* No byte is ever lost: what is not held is free. *)
THEOREM AllocatorNoByteLost == Spec => []NoByteLost
BY SpecInv, PTL DEF IInv

(* Free blocks never touch. *)
THEOREM AllocatorCoalesced == Spec => []Coalesced
BY SpecInv, PTL DEF IInv

(* Under the invariant, is_free tells exactly the bytes nobody holds. *)
THEOREM AllocatorIsFreeExact == Spec => []IsFreeExact
<1>1. IInv => IsFreeExact
  <2> SUFFICES ASSUME IInv, NEW a \in Addr
               PROVE  IsFree(free, a) <=> \A r \in held : a \notin Bytes(r)
    BY DEF IsFreeExact
  <2>1. free \subseteq Block /\ held \subseteq Block /\ a \in Int
    BY DEF IInv, TypeOK, Addr
  <2>2. IsFree(free, a) <=> \E b \in free : a \in Bytes(b)
    <3>1. ASSUME NEW b \in LastBelow(free, a + 1), a < End(b) PROVE a \in Bytes(b)
      BY <3>1, <2>1, BlockBounds DEF LastBelow, Bytes
    <3>2. ASSUME NEW b \in free, a \in Bytes(b) PROVE b \in LastBelow(free, a + 1) /\ a < End(b)
      <4>1. b.start <= a /\ a < End(b)
        BY <3>2, <2>1, BlockBounds DEF Bytes
      <4>2. ASSUME NEW c \in free, c.start < a + 1 PROVE c.start <= b.start
        <5>1. c = b \/ Disjoint(c, b)
          BY DEF IInv, NoByteTwice, Separate
        <5> QED
          BY <4>1, <4>2, <5>1, <2>1, BlockBounds DEF Disjoint
      <4> QED
        BY <4>1, <4>2, <2>1, BlockBounds DEF LastBelow
    <3> QED
      BY <3>1, <3>2 DEF IsFree, LastBelow
  <2>3. ASSUME NEW b \in free, a \in Bytes(b), NEW r \in held, a \in Bytes(r) PROVE FALSE
    <3>1. Disjoint(b, r)
      BY DEF IInv, NoByteTwice, Separate
    <3> QED
      BY <2>3, <3>1, <2>1, BlockBounds DEF Disjoint, Bytes
  <2>4. \E b \in free \cup held : a \in Bytes(b)
    BY DEF IInv, NoByteLost, Covers
  <2> QED
    BY <2>2, <2>3, <2>4
<1> QED
  BY <1>1, SpecInv, PTL

---------------------------------------------------------------------------
(* A refusal means that the soup has no room. *)

(* Among numbers there is a least one. *)
LEMMA LeastNumber ==
    ASSUME NEW T \in SUBSET Nat, T # {}
    PROVE  \E m \in T : \A n \in T : m <= n
<1>1. PICK m \in T : \A n \in T : <<n, m>> \notin OpToRel(<, Nat)
  BY NatLessThanWellFounded, WFMin
<1>2. ASSUME NEW n \in T PROVE m <= n
  <2>1. ~(n < m)
    BY <1>1 DEF OpToRel
  <2> QED
    BY <2>1
<1> QED
  BY <1>2

(* The better-fit search fails only when no block is large enough: the order *)
(* by size and address has a least element.                                  *)
LEMMA BetterFitFinds ==
    ASSUME NEW S \in SUBSET Block, NEW size \in Int, Adequate(S, size) # {}
    PROVE  BetterFit(S, size) # {}
<1> DEFINE A == Adequate(S, size)
<1>1. A \subseteq Block
  BY DEF Adequate
<1>2. \A b \in A : b.size \in Nat /\ b.start \in Nat
  BY <1>1, SoupSizeAssumption DEF Block, Addr
<1> DEFINE sizes == {b.size : b \in A}
<1>3. PICK small \in sizes : \A n \in sizes : small <= n
  <2>1. sizes \subseteq Nat /\ sizes # {}
    BY <1>2
  <2> HIDE DEF sizes
  <2> QED
    BY <2>1, LeastNumber
<1> DEFINE B == {b \in A : b.size = small}
<1>4. B # {}
  BY <1>3
<1> DEFINE starts == {b.start : b \in B}
<1>5. PICK low \in starts : \A n \in starts : low <= n
  <2>1. starts \subseteq Nat /\ starts # {}
    BY <1>2, <1>4
  <2> HIDE DEF starts
  <2> QED
    BY <2>1, LeastNumber
<1>6. PICK b \in B : b.start = low
  BY <1>5
<1>7. ASSUME NEW c \in A
      PROVE  b.size < c.size \/ (b.size = c.size /\ b.start <= c.start)
  <2>1. b.size <= c.size /\ b.size \in Nat /\ c.size \in Nat
    BY <1>2, <1>3, <1>6
  <2>2. b.size = c.size => b.start <= c.start
    BY <1>5, <1>6
  <2> QED
    BY <2>1, <2>2
<1>8. Placement(b, b.start) \in BetterFit(S, size)
  BY <1>6, <1>7 DEF BetterFit
<1> QED
  BY <1>8

(* Under the invariant a run of bytes nobody holds lies in one free block: a *)
(* run that reached into a second one would need two free blocks in contact. *)
LEMMA RunInOneBlock ==
    ASSUME IInv, NEW size \in 1 .. SoupSize, NEW p \in Addr, p + size <= SoupSize,
           \A a \in p .. (p + size - 1), r \in held : a \notin Bytes(r)
    PROVE  \E b \in free : b.start <= p /\ p + size <= End(b)
<1>1. free \subseteq Block /\ held \subseteq Block /\ SoupSize \in Nat
  BY SoupSizeAssumption DEF IInv, TypeOK
<1>2. ASSUME NEW a \in p .. (p + size - 1) PROVE \E b \in free : a \in Bytes(b)
  <2>1. a \in Addr
    BY <1>1 DEF Addr
  <2> QED
    BY <2>1 DEF IInv, NoByteLost, Covers
<1>3. PICK b \in free : p \in Bytes(b)
  BY <1>1, <1>2 DEF Addr
<1>4. b.start <= p /\ p < End(b)
  BY <1>1, <1>3, BlockBounds DEF Bytes, Addr
<1>5. ASSUME End(b) < p + size PROVE FALSE
  <2>1. End(b) \in p .. (p + size - 1)
    BY <1>1, <1>4, <1>5, BlockBounds DEF Addr
  <2>2. PICK c \in free : End(b) \in Bytes(c)
    BY <1>2, <2>1
  <2>3. c.start <= End(b) /\ End(b) < End(c)
    BY <1>1, <2>2, BlockBounds DEF Bytes
  <2>4. c # b
    BY <1>1, <2>3, BlockBounds
  <2>5. Disjoint(b, c)
    BY <2>4 DEF IInv, NoByteTwice, Separate
  <2>6. End(b) = c.start
    BY <1>1, <1>4, <2>3, <2>5, BlockBounds DEF Disjoint
  <2> QED
    BY <2>6 DEF IInv, Coalesced, Apart
<1> QED
  BY <1>1, <1>4, <1>5, BlockBounds DEF Addr

(* An unrestricted request fails only when no run of free bytes is long      *)
(* enough: free space is never hidden in two adjacent blocks.                *)
THEOREM AllocatorFailureIsHonest == Spec => []FailureIsHonest
<1>1. IInv => FailureIsHonest
  <2> SUFFICES ASSUME IInv, NEW size \in 1 .. SoupSize, MemAlloc(free, size, -1, 0) = {},
                      NEW p \in Addr, p + size <= SoupSize,
                      \A a \in p .. (p + size - 1), r \in held : a \notin Bytes(r)
               PROVE  FALSE
    BY DEF FailureIsHonest
  <2>1. PICK b \in free : b.start <= p /\ p + size <= End(b)
    BY RunInOneBlock
  <2>2. free \subseteq Block /\ b \in Block /\ SoupSize \in Nat
    BY <2>1, SoupSizeAssumption DEF IInv, TypeOK
  <2>3. b.size >= size
    BY <2>1, <2>2 DEF End, Block, Addr
  <2>4. Adequate(free, size) # {}
    BY <2>1, <2>3 DEF Adequate
  <2>5. BetterFit(free, size) # {}
    BY <2>2, <2>4, BetterFitFinds
  <2>6. MemAlloc(free, size, -1, 0) = BetterFit(free, size)
    BY <2>2 DEF MemAlloc
  <2> QED
    BY <2>5, <2>6
<1> QED
  BY <1>1, SpecInv, PTL

---------------------------------------------------------------------------
(* The allocator is one that hands out regions nobody holds. *)

LEMMA InitRefines == Init => Space!Init
BY DEF Init, Space!Init, NoAnswer

LEMMA StepRefines == IInv /\ [Next]_vars => [Space!Next]_(Space!vars)
<1> SUFFICES ASSUME IInv, [Next]_vars PROVE [Space!Next]_(Space!vars)
  OBVIOUS
<1>1. ASSUME NEW size \in Sizes, NEW pref \in Prefs, NEW tol \in Tols, Alloc(size, pref, tol)
      PROVE  \E r \in Space!Region : Space!HandOut(r)
  <2>1. PICK at \in MemAlloc(free, size, pref, tol) :
            /\ free' = Carve(free, at, size)
            /\ held' = held \cup {Blk(at.place, size)}
            /\ got' = at.place
    BY <1>1 DEF Alloc
  <2>2. PlacementIn(free, at, size)
    BY SoupSizeAssumption, MemAllocPlaces DEF IInv, TypeOK, Sizes, Prefs, Tols
  <2> DEFINE new == Blk(at.place, size)
  <2>3. new \in Block /\ new \notin held /\ Separate(free', held')
    BY <2>1, <2>2, CarveKeeps DEF IInv, TypeOK, NoByteTwice, NoByteLost, Coalesced
  <2>4. new \in Space!Region
    BY <2>3 DEF Block, Addr, Space!Region
  <2>5. ASSUME NEW h \in held PROVE Space!Apart(new, h)
    <3>1. Disjoint(new, h)
      BY <2>1, <2>3 DEF Separate
    <3> QED
      BY <3>1 DEF Disjoint, End, Space!Apart
  <2>6. got' = new.start
    BY <2>1 DEF Blk
  <2> QED
    BY <2>1, <2>4, <2>5, <2>6 DEF Space!HandOut
<1>2. ASSUME NEW size \in Sizes, NEW pref \in Prefs, NEW tol \in Tols, AllocFails(size, pref, tol)
      PROVE  Space!Refuse
  BY <1>2 DEF AllocFails, NoAnswer, Space!Refuse
<1>3. ASSUME NEW r \in held, Dealloc(r) PROVE Space!TakeBack(r)
  BY <1>3 DEF Dealloc, Space!TakeBack
<1>4. CASE UNCHANGED vars
  BY <1>4 DEF vars, Space!vars
<1> QED
  BY <1>1, <1>2, <1>3, <1>4 DEF Next, Space!Next

(* Every behaviour of the allocator is one SoupSpace allows: a region it     *)
(* hands out touches none that is held, whatever was asked for and in        *)
(* whatever order regions came back.                                         *)
THEOREM AllocatorRefinesSpace == Spec => RefinesSpace
BY InitRefines, StepRefines, SpecInv, PTL DEF Spec, Space!Spec, RefinesSpace

===========================================================================

--------------------------- MODULE SoupAllocator ---------------------------
(***************************************************************************)
(* SoupMemory as its callers drive it: mem_alloc with any size, preference *)
(* and tolerance, and mem_dealloc of a region taken earlier.               *)
(*                                                                         *)
(* held is the callers' side (mm and md of the cells): the regions         *)
(* mem_alloc returned and nobody gave back.  got is the last answer.       *)
(***************************************************************************)
EXTENDS SoupMemory

VARIABLES free, held, got

vars == <<free, held, got>>

NoAnswer == -1

Init ==
    /\ free = FreshSoup
    /\ held = {}
    /\ got = NoAnswer

\* mem_alloc(size, pref, tol) that finds a place.
Alloc(size, pref, tol) ==
    \E at \in MemAlloc(free, size, pref, tol) :
        /\ free' = Carve(free, at, size)
        /\ held' = held \cup {Blk(at.place, size)}
        /\ got' = at.place

\* mem_alloc(size, pref, tol) that returns -1.
AllocFails(size, pref, tol) ==
    /\ MemAlloc(free, size, pref, tol) = {}
    /\ got' = NoAnswer
    /\ UNCHANGED <<free, held>>

Dealloc(r) ==
    /\ free' = MemDealloc(free, r.start, r.size)
    /\ held' = held \ {r}
    /\ UNCHANGED got

\* -1 asks for better fit; sizes the soup cannot hold are asked for as well.
Sizes == 0 .. (SoupSize + 1)
Prefs == -1 .. (SoupSize - 1)
Tols  == 0 .. SoupSize

Next ==
    \/ \E size \in Sizes, pref \in Prefs, tol \in Tols : Alloc(size, pref, tol)
    \/ \E size \in Sizes, pref \in Prefs, tol \in Tols : AllocFails(size, pref, tol)
    \/ \E r \in held : Dealloc(r)

Spec == Init /\ [][Next]_vars

---------------------------------------------------------------------------
(* The types: blocks in the soup, and an address or -1 as the answer. *)
TypeOK ==
    /\ free \subseteq Block
    /\ held \subseteq Block
    /\ got \in Addr \cup {NoAnswer}

(* No byte is handed out twice, listed free twice, or free while it is held: *)
(* mem_alloc carves inside one free block and mem_dealloc merges only with   *)
(* blocks that touch the region.                                             *)
NoByteTwice == Separate(free, held)

(* No byte is ever lost: each is in a free block or in a held region, however *)
(* many regions were carved out and merged back.                              *)
NoByteLost == Covers(free, held)

(* Free blocks never touch: mem_dealloc merges with both neighbours, so the   *)
(* list has no two blocks a larger request could have used as one.            *)
Coalesced == Apart(free)

(* is_free answers, for every address, whether no caller holds the byte. *)
IsFreeExact == \A a \in Addr : IsFree(free, a) <=> \A r \in held : a \notin Bytes(r)

(* An unrestricted request fails only when no run of free bytes is long enough. *)
FailureIsHonest ==
    \A size \in 1 .. SoupSize :
        MemAlloc(free, size, -1, 0) = {}
            => ~ \E p \in Addr : /\ p + size <= SoupSize
                                 /\ \A a \in p .. (p + size - 1), r \in held : a \notin Bytes(r)

(* The allocator hands out and takes back regions as SoupSpace promises. *)
Space == INSTANCE SoupSpace

RefinesSpace == Space!Spec

===========================================================================

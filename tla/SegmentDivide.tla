--------------------------- MODULE SegmentDivide ---------------------------
(***************************************************************************)
(* divide with the segment operators on (services/mutate_segment.py): the  *)
(* daughter's genome is cut and spliced before it becomes a cell, and a    *)
(* genome of another length moves to memory of another size.               *)
(*                                                                         *)
(* What the operators splice is the subject of SegmentOps; here an         *)
(* operator asks for a size, and shared_gen_ops finds the memory, reaping  *)
(* as it goes.  The rest of the world is Population.                       *)
(***************************************************************************)
EXTENDS Population

CONSTANT ResizeTries       \* attempts to place a resized daughter; 8 in the code

ASSUME ResizeTriesAssumption == ResizeTries \in Nat \ {0}

VARIABLES
    old,               \* old_p, old_s: the daughter memory a resize will give back
    twice              \* history: a resize gave back memory that was free already

svars == <<vars, old, twice>>

SInit == Init /\ old = NoRegion /\ twice = FALSE

---------------------------------------------------------------------------
(* The gates divide starts with are met, and an operator of genetic_ops has *)
(* assembled a genome of another length that passes shared_gen_ops's own.   *)
ResizeBegin ==
    /\ phase \in {"slice", "genetic"} /\ ce \in live
    /\ ce \in copied /\ md[ce].size >= MinCellSize
    /\ \E size \in MinCellSize .. (MaxMalMult * mm[ce].size) :
          /\ size # md[ce].size
          /\ req' = [NoRequest EXCEPT !.size = size, !.left = ResizeTries]
    /\ old' = md[ce]
    /\ phase' = "resize"
    /\ UNCHANGED <<memory, live, copied, queues, knobs, ce, orphans, twice>>

\* Mutant: the old daughter is never given back.
ResizePlacedLeaks ==
    /\ phase = "resize" /\ req.left > 0
    /\ \E at \in Placements :
          LET new == Blk(at.place, req.size)
          IN  /\ free' = Carve(free, at, req.size)
              /\ md' = [md EXCEPT ![ce] = new]
              /\ orphans' = IF ce \in live THEN orphans ELSE orphans \cup {new}
    /\ copied' \in {copied} \cup {c \in {copied \ {ce}} : req.size > old.size}
    /\ twice' = (ce \notin live)
    /\ old' = NoRegion /\ req' = NoRequest /\ phase' = "genetic"
    /\ UNCHANGED <<mm, live, queues, knobs, ce>>

\* The new memory is found and the old daughter given back, unseen whether the
\* running cell was reaped on the way and had given it back already.  A longer
\* daughter may need more copying before it passes the gates again.
ResizePlaced ==
    /\ phase = "resize" /\ req.left > 0
    /\ \E at \in Placements :
          LET new == Blk(at.place, req.size)
          IN  /\ free' = MemDealloc(Carve(free, at, req.size), old.start, old.size)
              /\ md' = [md EXCEPT ![ce] = new]
              /\ orphans' = IF ce \in live THEN orphans ELSE orphans \cup {new}
    /\ copied' \in {copied} \cup {c \in {copied \ {ce}} : req.size > old.size}
    /\ twice' = (ce \notin live)
    /\ old' = NoRegion /\ req' = NoRequest /\ phase' = "genetic"
    /\ UNCHANGED <<mm, live, queues, knobs, ce>>

ResizeReaps ==
    /\ phase = "resize" /\ req.left > 0 /\ Placements = {}
    /\ Reap
    /\ req' = [req EXCEPT !.left = @ - 1]
    /\ UNCHANGED <<knobs, phase, ce, old, twice>>

\* Mutant: the search goes on although nobody may be reaped.
ResizeFailsNever ==
    /\ phase = "resize"
    /\ req.left = 0 \/ (Placements = {} /\ ~ CanReap)
    /\ req' = [req EXCEPT !.left = ResizeTries]
    /\ UNCHANGED <<memory, live, copied, queues, knobs, phase, ce, orphans, old, twice>>

\* Nobody may be reaped, or the last attempt has reaped and nobody looks again.
ResizeFails ==
    /\ phase = "resize"
    /\ req.left = 0 \/ (Placements = {} /\ ~ CanReap)
    /\ old' = NoRegion /\ req' = NoRequest /\ phase' = "genetic"
    /\ UNCHANGED <<memory, live, copied, queues, knobs, ce, orphans, twice>>

\* The rest of divide.  The first dead slot may by now be the running cell's
\* own: alloc_cell clears its memory before divide reads md_p and md_s.
DivideAfterOps ==
    /\ phase = "genetic" /\ md[ce].size >= MinCellSize
    /\ \E s \in AllocCell :
          /\ Enter(s, IF s = ce THEN NoRegion ELSE md[ce])
          /\ orphans' = IF s = ce THEN orphans ELSE orphans \ {md[ce]}
          /\ md' = [md EXCEPT ![s] = NoRegion, ![ce] = NoRegion]
          /\ copied' = copied \ {s, ce}
    /\ phase' = "slice"
    /\ UNCHANGED <<free, knobs, ce, req, old, twice>>

\* The gate is tested once more, and there may be no slot.
DivideGivesUp ==
    /\ phase = "genetic"
    /\ md[ce].size < MinCellSize \/ AllocCell = {}
    /\ phase' = "slice"
    /\ UNCHANGED <<memory, live, copied, queues, knobs, ce, req, orphans, old, twice>>

---------------------------------------------------------------------------
ResizeStep == ResizePlaced \/ ResizeReaps \/ ResizeFails
DivideEnd  == DivideAfterOps \/ DivideGivesUp

\* What the allocator does with memory that is on its lists twice is not
\* followed: the slice ends and the host starts afresh.
Elsewhere ==
    /\ \/ ~ twice /\ Next
       \/ twice /\ (SliceEnd \/ Start)
    /\ twice' = (twice /\ phase' # "inoculate")
    /\ UNCHANGED old

SNext == Elsewhere \/ ResizeBegin \/ ResizeStep \/ DivideEnd

SSpec == SInit /\ [][SNext]_svars

\* shared_gen_ops is straight-line code.
SFairSpec == SSpec /\ WF_svars(ResizeStep)

---------------------------------------------------------------------------
STypeOK ==
    /\ free \subseteq Block /\ orphans \subseteq Block
    /\ live \subseteq Slots /\ copied \subseteq Slots
    /\ mm \in [Slots -> Region] /\ md \in [Slots -> Region]
    /\ ring \in Seq(Slots) /\ line \in Seq(Slots)
    /\ phase \in Phases \cup {"resize", "genetic"} /\ req \in Request
    /\ old \in Region /\ twice \in BOOLEAN
    /\ (phase = "resize") = (old.size > 0)

(* Resizing daughters and reaping others for it keeps every byte with one     *)
(* owner and loses none, and every living cell has a body, unless a divide    *)
(* reaped its own cell and then found room: nothing else in genetic_ops or    *)
(* the rest of divide can break the soup.                                     *)
ResizeKeepsMemory ==
    ~ twice => /\ NoByteShared
               /\ EveryByteAccounted
               /\ \A c \in live : mm[c].size > 0

(* "resize probes mem_alloc first (soft-fail leaves md unchanged)": while a   *)
(* resize looks for room, and when it has failed, a living mother still has   *)
(* the daughter memory it came with, and none of it is free.                  *)
SoftFailKeepsDaughter ==
    [][phase = "resize" /\ ce \in live' =>
          \/ md'[ce] = old /\ \A a \in Bytes(old) : ~ IsFree(free', a)
          \/ req.left > 0 /\ md'[ce].size = req.size]_svars

(* A resize comes to an end: it finds room, or runs out of cells or attempts. *)
ResizeReturns == phase = "resize" ~> phase = "genetic"

(* metrics/occupancy.py, "0=free, >0 = cell_id+1 for occupied genetic/cell    *)
(* body bytes": no byte of a living cell is a free one.                       *)
OccupiedIsNotFree ==
    phase = "host" => \A c \in live : \A r \in OwnedBy(c) : \A a \in Bytes(r) : ~ IsFree(free, a)

===========================================================================

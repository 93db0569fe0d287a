---------------------------- MODULE Population ----------------------------
(***************************************************************************)
(* The life of the cells: how TierraVM (services/vm/service.py), mal and   *)
(* divide (services/isa/ops_repro.py), the inoculum, inject and the        *)
(* immigrants share the soup, the slicer and the reaper.                   *)
(*                                                                         *)
(* The program is one thread.  A handler that reaps until its allocation   *)
(* succeeds is a loop over the whole state, so it is modelled one pass at  *)
(* a time: phase says which handler is in progress, and nothing else moves *)
(* until it is done.                                                       *)
(***************************************************************************)
EXTENDS SoupMemory, Sequences, FiniteSets

CONSTANTS
    MaxSlots,          \* bound on vm.cells; no list of cells grows beyond it
    CellLimits,        \* the values limits.max_cells is given
    ReapFloors,        \* the values NumCellsMin is given
    MinCellSize, MaxMalMult, MalSamSiz,
    MalLimits,         \* the values of mal_limit, the tolerance of a mal near an address
    GenomeSizes,       \* sizes of inoculum, injected and immigrant genomes
    NumInoculum,       \* NumCells of the configuration
    MaxClones,         \* bound on the n of inject
    ImmigrantTries     \* attempts to place an immigrant; 8 in the code

ASSUME PopulationAssumption ==
    /\ MaxSlots \in Nat \ {0}
    /\ CellLimits \subseteq 1 .. MaxSlots
    /\ ReapFloors \subseteq Nat
    /\ MinCellSize \in Nat \ {0}
    /\ MaxMalMult \in Nat \ {0}
    /\ MalSamSiz \in BOOLEAN
    /\ MalLimits \subseteq Nat \ {0}
    /\ GenomeSizes \subseteq Nat
    /\ NumInoculum \in 1 .. MaxSlots
    /\ MaxClones \in Nat \ {0}
    /\ ImmigrantTries \in Nat \ {0}

Slots  == 0 .. (MaxSlots - 1)
Nobody == -1

\* A cell's mother or daughter memory; size 0 is none.
Region == [start : Addr, size : 0 .. SoupSize]
NoRegion == Blk(0, 0)

Modes == {"first", "better", "random", "near"}
Phases == {"inoculate", "host", "slice", "mal", "inject.room", "inject.place", "inject.retry",
           "immigrant.room", "immigrant.place"}

\* What the handler in progress was asked: a size, mal's mode and tolerance,
\* and how many clones or attempts are left.
Request == [size : Nat, mode : Modes, tol : Nat, left : Nat]
NoRequest == [size |-> 0, mode |-> "better", tol |-> 0, left |-> 0]

VARIABLES
    free,              \* mem.by_addr
    live,              \* cells with alive set
    mm, md,            \* mother and daughter memory of each slot
    copied,            \* slots whose copying meets the thresholds of divide
    ring, line,        \* slicer from this_slice on, reaper from top_reap on
    num_cells,         \* queues.num_cells
    max_cells, num_cells_min,
    phase, ce, req,
    orphans            \* history: regions mal gave to a cell reaped meanwhile

memory  == <<free, mm, md>>
queues  == <<ring, line, num_cells>>
knobs   == <<max_cells, num_cells_min>>
control == <<phase, ce, req>>
vars    == <<memory, live, copied, queues, knobs, control, orphans>>

---------------------------------------------------------------------------
Members(s) == {s[i] : i \in DOMAIN s}

\* The sequence without its entry c.
Without(s, c) ==
    LET i == CHOOSE i \in DOMAIN s : s[i] = c
    IN  IF c \in Members(s) THEN [j \in 1 .. (Len(s) - 1) |-> s[IF j < i THEN j ELSE j + 1]]
        ELSE s

\* Mutant: the limit is compared with >.
AllocCellPastLimit ==
    IF num_cells > max_cells THEN {}
    ELSE {s \in Slots \ live : \A t \in Slots \ live : s <= t}

\* alloc_cell: nothing at max_cells, else the first dead slot or a new one.
AllocCell ==
    IF num_cells >= max_cells THEN {}
    ELSE {s \in Slots \ live : \A t \in Slots \ live : s <= t}

\* Mutant: the newcomer goes to the front of the slicer.
EnterInFront(s, r) ==
    /\ live' = live \cup {s}
    /\ mm' = [mm EXCEPT ![s] = r]
    /\ ring' = <<s>> \o ring
    /\ line' = Append(line, s)
    /\ num_cells' = num_cells + 1

\* A cell comes to life over the memory r, at the bottom of both queues.
Enter(s, r) ==
    /\ live' = live \cup {s}
    /\ mm' = [mm EXCEPT ![s] = r]
    /\ ring' = Append(ring, s)
    /\ line' = Append(line, s)
    /\ num_cells' = num_cells + 1

\* reap_one finds somebody it may reap.
CanReap == num_cells > num_cells_min /\ line # <<>>

\* Mutant: the reaped cell stays in the slicer.
ReapKeepsTurn ==
    LET c == Head(line)
        freed == MemDealloc(free, mm[c].start, mm[c].size)
    IN  /\ CanReap
        /\ c \in live
        /\ free' = MemDealloc(freed, md[c].start, md[c].size)
        /\ live' = live \ {c}
        /\ mm' = [mm EXCEPT ![c].size = 0]
        /\ md' = [md EXCEPT ![c].size = 0]
        /\ line' = Tail(line)
        /\ num_cells' = num_cells - 1
        /\ UNCHANGED <<ring, copied, orphans>>

\* reap_one: the cell at the top of the reaper gives up its queues and memory,
\* and its slot is left dead with both sizes zero.
Reap ==
    LET c == Head(line)
        freed == MemDealloc(free, mm[c].start, mm[c].size)
    IN  /\ CanReap
        /\ c \in live
        /\ free' = MemDealloc(freed, md[c].start, md[c].size)
        /\ live' = live \ {c}
        /\ mm' = [mm EXCEPT ![c].size = 0]
        /\ md' = [md EXCEPT ![c].size = 0]
        /\ ring' = Without(ring, c)
        /\ line' = Tail(line)
        /\ num_cells' = num_cells - 1
        /\ UNCHANGED <<copied, orphans>>

Return == phase' = "host" /\ ce' = Nobody /\ req' = NoRequest

---------------------------------------------------------------------------
(* start(): a fresh soup, and the inoculum placed cell by cell. *)

NoRegions == [s \in Slots |-> NoRegion]
ToPlace   == [NoRequest EXCEPT !.left = NumInoculum]

Init ==
    /\ free = FreshSoup /\ mm = NoRegions /\ md = NoRegions
    /\ live = {} /\ copied = {} /\ orphans = {}
    /\ ring = <<>> /\ line = <<>> /\ num_cells = 0
    /\ phase = "inoculate" /\ ce = Nobody /\ req = ToPlace
    /\ max_cells \in CellLimits /\ num_cells_min \in ReapFloors

\* start() may be called again at any time; it forgets the earlier run.
Start ==
    /\ phase = "host"
    /\ free' = FreshSoup /\ mm' = NoRegions /\ md' = NoRegions
    /\ live' = {} /\ copied' = {} /\ orphans' = {}
    /\ ring' = <<>> /\ line' = <<>> /\ num_cells' = 0
    /\ phase' = "inoculate" /\ ce' = Nobody /\ req' = ToPlace
    /\ UNCHANGED knobs

\* The next inoculum cell, near the address its index gives, or anywhere.
\* The inoculum appends to vm.cells and asks nobody about max_cells.
Inoculated(size, addr) ==
    LET near == MemAlloc(free, size, addr, SoupSize)
    IN  IF near # {} THEN near ELSE MemAlloc(free, size, -1, 0)

Inoculate ==
    /\ phase = "inoculate" /\ req.left > 0
    /\ \E size \in GenomeSizes, addr \in Addr : \E at \in Inoculated(size, addr) :
          /\ free' = Carve(free, at, size)
          /\ Enter(num_cells, Blk(at.place, size))
    /\ req' = [req EXCEPT !.left = @ - 1]
    /\ UNCHANGED <<md, copied, knobs, phase, ce, orphans>>

\* start() is done, or gave up with a ConfigError on a cell that does not fit
\* and left the VM started with the cells placed so far.
InoculumDone ==
    /\ phase = "inoculate"
    /\ \/ req.left = 0
       \/ \E size \in GenomeSizes : \E addr \in Addr : Inoculated(size, addr) = {}
    /\ Return
    /\ UNCHANGED <<memory, live, copied, queues, knobs, orphans>>

---------------------------------------------------------------------------
(* The host between slices: set_limits, set_parameter. *)

SetMaxCells ==
    /\ phase = "host"
    /\ max_cells' \in CellLimits
    /\ UNCHANGED <<memory, live, copied, queues, num_cells_min, control, orphans>>

SetNumCellsMin ==
    /\ phase = "host"
    /\ num_cells_min' \in ReapFloors
    /\ UNCHANGED <<memory, live, copied, queues, max_cells, control, orphans>>

---------------------------------------------------------------------------
(* slicer_step and time_slice. *)

SliceBegin ==
    /\ phase = "host" /\ num_cells > 0 /\ ring # <<>>
    /\ Head(ring) \in live
    /\ phase' = "slice" /\ ce' = Head(ring)
    /\ UNCHANGED <<memory, live, copied, queues, knobs, req, orphans>>

\* The slice is used up or the running cell is dead; the slicer moves on from
\* wherever this_slice is by now.
SliceEnd ==
    /\ phase = "slice"
    /\ ring' = IF ring = <<>> THEN ring ELSE Append(Tail(ring), Head(ring))
    /\ Return
    /\ UNCHANGED <<memory, live, copied, line, num_cells, knobs, orphans>>

\* SandboxLimitError leaves the loop before the slicer moves on.
SliceAborted ==
    /\ phase = "slice" /\ ce \in live
    /\ Return
    /\ UNCHANGED <<memory, live, copied, queues, knobs, orphans>>

\* movii into the daughter, often enough for divide's thresholds.
CopyDaughter ==
    /\ phase = "slice" /\ ce \in live
    /\ md[ce].size > 0
    /\ copied' = copied \cup {ce}
    /\ UNCHANGED <<memory, live, queues, knobs, control, orphans>>

\* Mutant: the mother keeps the daughter's memory.
DivideKeepsMd ==
    /\ phase = "slice" /\ ce \in live
    /\ ce \in copied /\ md[ce].size >= MinCellSize
    /\ \E s \in AllocCell :
          /\ Enter(s, md[ce])
          /\ md' = [md EXCEPT ![s] = NoRegion]
          /\ copied' = copied \ {s, ce}
    /\ UNCHANGED <<free, knobs, control, orphans>>

\* divide: the daughter memory becomes a cell, unless there is no slot for it.
Divide ==
    /\ phase = "slice" /\ ce \in live
    /\ ce \in copied /\ md[ce].size >= MinCellSize
    /\ \E s \in AllocCell :
          /\ Enter(s, md[ce])
          /\ md' = [md EXCEPT ![s] = NoRegion, ![ce] = NoRegion]
          /\ copied' = copied \ {s, ce}
    /\ UNCHANGED <<free, knobs, control, orphans>>

---------------------------------------------------------------------------
(* mal: an earlier daughter is given up first, then allocation and reaping   *)
(* take turns until one of them has the last word.                           *)

\* Mutant: the earlier daughter is forgotten, not given back.
MalRequestForgets ==
    /\ phase = "slice" /\ ce \in live
    /\ \E sug \in MinCellSize .. (SoupSize - 1) :
          /\ sug # md[ce].size
          /\ sug <= MaxMalMult * mm[ce].size
          /\ req' = [size |-> sug, mode |-> "better", tol |-> 0, left |-> 0]
    /\ md' = [md EXCEPT ![ce] = NoRegion] /\ copied' = copied \ {ce}
    /\ phase' = "mal"
    /\ UNCHANGED <<free, mm, live, queues, knobs, ce, orphans>>

MalRequest ==
    /\ phase = "slice" /\ ce \in live
    /\ \E sug \in MinCellSize .. (SoupSize - 1), mode \in Modes :
          /\ sug # md[ce].size
          /\ sug <= MaxMalMult * mm[ce].size
          /\ \E tol \in IF mode \in {"near", "random"} THEN MalLimits ELSE {0} :
                req' = [size |-> IF MalSamSiz THEN mm[ce].size ELSE sug,
                        mode |-> mode, tol |-> tol, left |-> 0]
    /\ free' = MemDealloc(free, md[ce].start, md[ce].size)
    /\ IF md[ce].size > 0
       THEN md' = [md EXCEPT ![ce] = NoRegion] /\ copied' = copied \ {ce}
       ELSE UNCHANGED <<md, copied>>
    /\ phase' = "mal"
    /\ UNCHANGED <<mm, live, queues, knobs, ce, orphans>>

\* Where one attempt looks; "random" draws an address for each attempt.
Attempts ==
    CASE req.mode = "first"  -> {MemAlloc(free, req.size, 0, SoupSize - 1)}
      [] req.mode = "better" -> {MemAlloc(free, req.size, -1, 0)}
      [] req.mode = "near"   -> {MemAlloc(free, req.size, mm[ce].start, req.tol)}
      [] req.mode = "random" -> {MemAlloc(free, req.size, sad, req.tol) :
                                    sad \in 0 .. (SoupSize - req.size - 1) \cup {0}}

\* The region goes to the running cell, whether or not mal's own reaping has
\* killed it meanwhile.
MalPlaced ==
    /\ phase = "mal"
    /\ \E found \in Attempts : \E at \in found :
          /\ free' = Carve(free, at, req.size)
          /\ md' = [md EXCEPT ![ce] = Blk(at.place, req.size)]
          /\ orphans' = IF ce \in live THEN orphans
                        ELSE orphans \cup {Blk(at.place, req.size)}
    /\ phase' = "slice" /\ req' = NoRequest
    /\ UNCHANGED <<mm, live, copied, queues, knobs, ce>>

MalReaps ==
    /\ phase = "mal"
    /\ {} \in Attempts
    /\ Reap
    /\ UNCHANGED <<knobs, control>>

MalFails ==
    /\ phase = "mal"
    /\ {} \in Attempts
    /\ ~ CanReap
    /\ phase' = "slice" /\ req' = NoRequest
    /\ UNCHANGED <<memory, live, copied, queues, knobs, ce, orphans>>

---------------------------------------------------------------------------
(* inject: n clones of a stored genome, each with room made for it first. *)

InjectBegin ==
    /\ phase = "host"
    /\ \E size \in GenomeSizes, n \in 1 .. MaxClones :
          req' = [NoRequest EXCEPT !.size = size, !.left = n]
    /\ phase' = "inject.room"
    /\ UNCHANGED <<memory, live, copied, queues, knobs, ce, orphans>>

InjectMakesRoom ==
    /\ phase = "inject.room" /\ num_cells >= max_cells
    /\ Reap
    /\ UNCHANGED <<knobs, control>>

InjectProceeds ==
    /\ phase = "inject.room"
    /\ num_cells < max_cells \/ ~ CanReap
    /\ phase' = "inject.place"
    /\ UNCHANGED <<memory, live, copied, queues, knobs, ce, req, orphans>>

Placements == MemAlloc(free, req.size, -1, 0)

\* A newborn of the host over a fresh region.
Settle(at, s) ==
    /\ free' = Carve(free, at, req.size)
    /\ Enter(s, Blk(at.place, req.size))
    /\ md' = [md EXCEPT ![s] = NoRegion]
    /\ copied' = copied \ {s}

InjectPlaced ==
    /\ phase \in {"inject.place", "inject.retry"}
    /\ \E at \in Placements, s \in AllocCell : Settle(at, s)
    /\ IF req.left > 1
       THEN /\ phase' = "inject.room" /\ req' = [req EXCEPT !.left = @ - 1]
            /\ UNCHANGED ce
       ELSE Return
    /\ UNCHANGED <<knobs, orphans>>

\* The population is at max_cells and nobody may be reaped: the region goes back.
InjectNoSlot ==
    /\ phase \in {"inject.place", "inject.retry"}
    /\ AllocCell = {}
    /\ \E at \in Placements :
          free' = MemDealloc(Carve(free, at, req.size), at.place, req.size)
    /\ Return
    /\ UNCHANGED <<mm, md, live, copied, queues, knobs, orphans>>

InjectReaps ==
    /\ phase = "inject.place" /\ Placements = {}
    /\ Reap
    /\ phase' = "inject.retry"
    /\ UNCHANGED <<knobs, ce, req>>

\* Mutant: a clone that cannot be placed is tried again.
InjectTriesAgain ==
    /\ Placements = {}
    /\ \/ phase = "inject.place" /\ ~ CanReap
       \/ phase = "inject.retry"
    /\ phase' = "inject.room"
    /\ UNCHANGED <<memory, live, copied, queues, knobs, ce, req, orphans>>

InjectFails ==
    /\ Placements = {}
    /\ \/ phase = "inject.place" /\ ~ CanReap
       \/ phase = "inject.retry"
    /\ Return
    /\ UNCHANGED <<memory, live, copied, queues, knobs, orphans>>

---------------------------------------------------------------------------
(* accept_immigrant. *)

ImmigrantArrives ==
    /\ phase = "host"
    /\ \E size \in GenomeSizes :
          req' = [NoRequest EXCEPT !.size = size, !.left = ImmigrantTries]
    /\ phase' = "immigrant.room"
    /\ UNCHANGED <<memory, live, copied, queues, knobs, ce, orphans>>

ImmigrantMakesRoom ==
    /\ phase = "immigrant.room" /\ num_cells >= max_cells
    /\ Reap
    /\ UNCHANGED <<knobs, control>>

ImmigrantProceeds ==
    /\ phase = "immigrant.room" /\ num_cells < max_cells
    /\ phase' = "immigrant.place"
    /\ UNCHANGED <<memory, live, copied, queues, knobs, ce, req, orphans>>

ImmigrantPlaced ==
    /\ phase = "immigrant.place" /\ req.left > 0
    /\ \E at \in Placements, s \in AllocCell : Settle(at, s)
    /\ Return
    /\ UNCHANGED <<knobs, orphans>>

ImmigrantReaps ==
    /\ phase = "immigrant.place" /\ req.left > 0 /\ Placements = {}
    /\ Reap
    /\ req' = [req EXCEPT !.left = @ - 1]
    /\ UNCHANGED <<knobs, phase, ce>>

\* Nobody may be reaped, or the last attempt has reaped and nobody looks again.
ImmigrantRejected ==
    /\ \/ phase = "immigrant.room" /\ num_cells >= max_cells /\ ~ CanReap
       \/ phase = "immigrant.place" /\ req.left > 0 /\ Placements = {} /\ ~ CanReap
       \/ phase = "immigrant.place" /\ req.left = 0
    /\ Return
    /\ UNCHANGED <<memory, live, copied, queues, knobs, orphans>>

---------------------------------------------------------------------------
\* A handler in progress takes its next step.
HandlerStep ==
    \/ Inoculate \/ InoculumDone
    \/ MalPlaced \/ MalReaps \/ MalFails
    \/ InjectMakesRoom \/ InjectProceeds \/ InjectPlaced \/ InjectNoSlot
    \/ InjectReaps \/ InjectFails
    \/ ImmigrantMakesRoom \/ ImmigrantProceeds \/ ImmigrantPlaced
    \/ ImmigrantReaps \/ ImmigrantRejected

HostStep == Start \/ SetMaxCells \/ SetNumCellsMin \/ SliceBegin \/ InjectBegin \/ ImmigrantArrives

SliceStep == CopyDaughter \/ Divide \/ MalRequest \/ SliceEnd \/ SliceAborted

Next == HandlerStep \/ HostStep \/ SliceStep

Spec == Init /\ [][Next]_vars

\* A handler is straight-line code: once called it runs on.
FairSpec == Spec /\ WF_vars(HandlerStep)

---------------------------------------------------------------------------
TypeOK ==
    /\ free \subseteq Block /\ orphans \subseteq Block
    /\ live \subseteq Slots /\ copied \subseteq Slots
    /\ mm \in [Slots -> Region] /\ md \in [Slots -> Region]
    /\ ring \in Seq(Slots) /\ line \in Seq(Slots)
    /\ num_cells \in Nat
    /\ max_cells \in CellLimits /\ num_cells_min \in ReapFloors
    /\ phase \in Phases /\ ce \in Slots \cup {Nobody} /\ req \in Request

\* The regions of the living, and the orphans.
MotherOf(c)    == {mm[c]}
DaughterOf(c)  == {r \in {md[c]} : r.size > 0}
OwnedBy(c)     == MotherOf(c) \cup DaughterOf(c)
Held           == (UNION {OwnedBy(c) : c \in live}) \cup orphans

(* No byte has two owners: the memories of all living cells, mothers and      *)
(* daughters, the free list and the orphans lie apart, through every order of *)
(* mal, divide, reaping and placement.                                        *)
NoByteShared ==
    /\ Held \subseteq Block
    /\ Separate(free, Held)
    /\ \A c, d \in live : c # d => OwnedBy(c) \cap OwnedBy(d) = {}
    /\ \A c \in live : mm[c] # md[c] /\ OwnedBy(c) \cap orphans = {}

(* Every byte is free, a living cell's, or was given by mal to a cell its own *)
(* reaping had killed: there is no other way to lose memory.                  *)
EveryByteAccounted == Covers(free, Held)

(* The slicer and the reaper hold the living cells, each once, and num_cells  *)
(* counts them; so a reap always finds a living cell, slicer_step never meets *)
(* a dead one, and a free slot exists below max_cells.                        *)
QueuesHoldTheLiving ==
    /\ Members(ring) = live /\ Members(line) = live
    /\ Len(ring) = num_cells /\ Len(line) = num_cells
    /\ Cardinality(live) = num_cells

(* While a cell runs it is the one whose turn the slicer says it is: births,  *)
(* reaps and a failed mal in its slice never move this_slice off it.          *)
RunningCellHasTheTurn == phase \in {"slice", "mal"} /\ ce \in live => Head(ring) = ce

(* No birth takes the population past max_cells and no reap takes it below    *)
(* NumCellsMin, whatever the host sets these to meanwhile; only the inoculum, *)
(* which asks nobody, may start above the limit.                              *)
BirthsAndReapsWithinLimits ==
    [][ /\ num_cells' > num_cells => phase = "inoculate" \/ num_cells' <= max_cells
        /\ num_cells' < num_cells => phase' = "inoculate" \/ num_cells' >= num_cells_min ]_vars

(* mal, inject, the inoculum and accept_immigrant return: their loops end     *)
(* because each pass that does not succeed costs a living cell.               *)
HandlersReturn == phase \notin {"host", "slice"} ~> phase \in {"host", "slice"}

(* metrics/occupancy.py, "0=free, >0 = cell_id+1 for occupied genetic/cell    *)
(* body bytes": between handlers a byte no living cell owns is a free one.    *)
(* It does not hold: a mal that reaps its own cell orphans what it then finds. *)
OccupancyZeroIsFree ==
    phase = "host" =>
        \A a \in Addr : IsFree(free, a) <=> \A c \in live : \A r \in OwnedBy(c) : a \notin Bytes(r)

===========================================================================

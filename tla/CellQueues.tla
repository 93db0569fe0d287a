---------------------------- MODULE CellQueues ----------------------------
(***************************************************************************)
(* The slicer and reaper queues (services/memory/queues.py): two circular  *)
(* doubly linked lists threaded through the cells by index, with this_slice,*)
(* top_reap and bottom_reap as the ways in.  The environment is the VM:    *)
(* a birth enters both queues in the lowest dead slot, a death takes the   *)
(* cell at top_reap out of both, and the slicer advances between slices.   *)
(***************************************************************************)
EXTENDS Integers, Sequences, FiniteSets, FiniteSetsExt

CONSTANT MaxSlots          \* slots in vm.cells, max_cells of them

ASSUME MaxSlotsAssumption == MaxSlots \in Nat \ {0}

Slots == 0 .. (MaxSlots - 1)
None  == -1

VARIABLES
    alive,                              \* the living cells
    this_slice, top_reap, bottom_reap,  \* slots, or -1
    n_time, p_time, n_reap, p_reap,     \* links of each slot
    is_active                           \* the cells the slicer knows of

slicer == <<this_slice, n_time, p_time, is_active>>
reaper == <<top_reap, bottom_reap, n_reap, p_reap>>
qvars   == <<alive, slicer, reaper>>

NoLinks == [c \in Slots |-> None]

QInit ==
    /\ alive = {} /\ is_active = {}
    /\ this_slice = None /\ top_reap = None /\ bottom_reap = None
    /\ n_time = NoLinks /\ p_time = NoLinks
    /\ n_reap = NoLinks /\ p_reap = NoLinks

---------------------------------------------------------------------------
(* The slicer.  Assignments run one after the other in the code, so a later  *)
(* EXCEPT wins where two links of a short ring are the same link.            *)

\* Mutant: the newcomer goes behind this_slice, not in front of it.
EntNextSlicer(c) ==
    /\ IF this_slice = None \/ this_slice \notin alive
       THEN /\ this_slice' = c
            /\ n_time' = [n_time EXCEPT ![c] = c]
            /\ p_time' = [p_time EXCEPT ![c] = c]
       ELSE LET next == n_time[this_slice]
            IN  /\ n_time' = [n_time EXCEPT ![c] = next, ![this_slice] = c]
                /\ p_time' = [p_time EXCEPT ![c] = this_slice, ![next] = c]
                /\ UNCHANGED this_slice
    /\ is_active' = is_active \cup {c}

EntBotSlicer(c) ==
    /\ IF this_slice = None \/ this_slice \notin alive
       THEN /\ this_slice' = c
            /\ n_time' = [n_time EXCEPT ![c] = c]
            /\ p_time' = [p_time EXCEPT ![c] = c]
       ELSE LET prev == p_time[this_slice]
            IN  /\ n_time' = [n_time EXCEPT ![c] = this_slice, ![prev] = c]
                /\ p_time' = [p_time EXCEPT ![c] = prev, ![this_slice] = c]
                /\ UNCHANGED this_slice
    /\ is_active' = is_active \cup {c}

\* Mutant: the successor keeps its link back to the cell that left.
RmvFromSlicerOneWay(c) ==
    IF c \notin is_active THEN UNCHANGED slicer
    ELSE /\ IF n_time[c] = c
            THEN /\ this_slice' = None
                 /\ n_time' = [n_time EXCEPT ![c] = None]
                 /\ p_time' = [p_time EXCEPT ![c] = None]
            ELSE /\ n_time' = [n_time EXCEPT ![p_time[c]] = n_time[c], ![c] = None]
                 /\ p_time' = [p_time EXCEPT ![c] = None]
                 /\ this_slice' = IF this_slice = c THEN n_time[c] ELSE this_slice
         /\ is_active' = is_active \ {c}

RmvFromSlicer(c) ==
    IF c \notin is_active THEN UNCHANGED slicer
    ELSE /\ IF n_time[c] = c
            THEN /\ this_slice' = None
                 /\ n_time' = [n_time EXCEPT ![c] = None]
                 /\ p_time' = [p_time EXCEPT ![c] = None]
            ELSE /\ n_time' = [n_time EXCEPT ![p_time[c]] = n_time[c], ![c] = None]
                 /\ p_time' = [p_time EXCEPT ![n_time[c]] = p_time[c], ![c] = None]
                 /\ this_slice' = IF this_slice = c THEN n_time[c] ELSE this_slice
         /\ is_active' = is_active \ {c}

\* Mutant: the slicer advances twice.
IncrTwice ==
    /\ this_slice # None
    /\ n_time[this_slice] >= 0
    /\ this_slice' = n_time[n_time[this_slice]]
    /\ UNCHANGED <<n_time, p_time, is_active, alive, reaper>>

IncrSliceQueue ==
    /\ this_slice # None
    /\ n_time[this_slice] >= 0
    /\ this_slice' = n_time[this_slice]
    /\ UNCHANGED <<n_time, p_time, is_active, alive, reaper>>

---------------------------------------------------------------------------
(* The reaper. *)

EntBotReaper(c) ==
    IF bottom_reap = None
    THEN /\ top_reap' = c /\ bottom_reap' = c
         /\ n_reap' = [n_reap EXCEPT ![c] = c]
         /\ p_reap' = [p_reap EXCEPT ![c] = c]
    ELSE LET after == n_reap[bottom_reap]
         IN  /\ p_reap' = [p_reap EXCEPT ![c] = bottom_reap, ![after] = c]
             /\ n_reap' = [n_reap EXCEPT ![c] = after, ![bottom_reap] = c]
             /\ bottom_reap' = c
             /\ UNCHANGED top_reap

RmvFromReaper(c) ==
    IF top_reap = None THEN UNCHANGED reaper
    ELSE IF n_reap[c] = c
    THEN /\ top_reap' = None /\ bottom_reap' = None
         /\ n_reap' = [n_reap EXCEPT ![c] = None]
         /\ p_reap' = [p_reap EXCEPT ![c] = None]
    ELSE /\ n_reap' = [n_reap EXCEPT ![p_reap[c]] = n_reap[c], ![c] = None]
         /\ p_reap' = [p_reap EXCEPT ![n_reap[c]] = p_reap[c], ![c] = None]
         /\ top_reap' = IF top_reap = c THEN n_reap[c] ELSE top_reap
         /\ bottom_reap' = IF bottom_reap = c THEN p_reap[c] ELSE bottom_reap

---------------------------------------------------------------------------
(* How the VM uses them. *)

\* alloc_cell: the first dead slot, or a new one at the end of vm.cells.
FreeSlot == Min(Slots \ alive)

\* A daughter, an inoculum cell, an injected cell or an immigrant: alive first,
\* then into both queues.
Birth ==
    /\ Cardinality(alive) < MaxSlots
    /\ alive' = alive \cup {FreeSlot}
    /\ EntBotSlicer(FreeSlot)
    /\ EntBotReaper(FreeSlot)

\* reap_one and _reap_cell: whoever is at the top of the reaper queue.
Death ==
    /\ top_reap # None
    /\ top_reap \in alive
    /\ RmvFromSlicer(top_reap)
    /\ RmvFromReaper(top_reap)
    /\ alive' = alive \ {top_reap}

QNext == Birth \/ Death \/ IncrSliceQueue

QSpec == QInit /\ [][QNext]_qvars

\* run() keeps calling slicer_step, which advances the slicer after each slice.
QFairSpec == QSpec /\ WF_qvars(IncrSliceQueue)

---------------------------------------------------------------------------
(* The lists the links spell out. *)

\* The walk of n steps along the links from a slot.
Walk(next, from, n) ==
    LET at[i \in 1 .. n] == IF i = 1 THEN from ELSE next[at[i - 1]]
    IN  [i \in 1 .. n |-> at[i]]

RingOf == Walk(n_time, this_slice, Cardinality(is_active))
LineOf == Walk(n_reap, top_reap, Cardinality(alive))

QTypeOK ==
    /\ alive \subseteq Slots /\ is_active \subseteq Slots
    /\ {this_slice, top_reap, bottom_reap} \subseteq Slots \cup {None}
    /\ \A link \in {n_time, p_time, n_reap, p_reap} : link \in [Slots -> Slots \cup {None}]

(* Both queues hold the living cells, each once, and the backward links undo  *)
(* the forward ones: an unlink at either end of a list of any length leaves   *)
(* two rings over exactly the living, and no link into the dead.              *)
TwoRingsOfTheLiving ==
    /\ is_active = alive
    /\ \A c \in alive : /\ n_time[c] \in alive /\ p_time[n_time[c]] = c
                        /\ n_reap[c] \in alive /\ p_reap[n_reap[c]] = c
    /\ {RingOf[i] : i \in DOMAIN RingOf} = alive
    /\ {LineOf[i] : i \in DOMAIN LineOf} = alive
    /\ alive = {} <=> this_slice = None
    /\ alive = {} <=> top_reap = None
    /\ alive # {} => n_reap[bottom_reap] = top_reap

(* The linked lists are the ring and the line of CellOrder: births at the     *)
(* bottom, deaths from the top, and nobody overtaken.                         *)
Order == INSTANCE CellOrder WITH ring <- RingOf, line <- LineOf

RefinesOrder == Order!Spec

(* Under run()'s endless slicing every living cell gets its turn or is reaped *)
(* first: births and deaths around it cannot push it back for ever.           *)
EveryoneGetsATurn ==
    \A c \in Slots : c \in alive ~> (this_slice = c \/ c \notin alive)

===========================================================================

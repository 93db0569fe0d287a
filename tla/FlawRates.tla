----------------------------- MODULE FlawRates -----------------------------
(***************************************************************************)
(* How often the VM makes mistakes: background mutations of the soup,      *)
(* mutations of copies, and flaws of decoded operands.  Each has a rate,   *)
(* derived from a GenPer* parameter and the average size of the cells, and *)
(* a counter of what happened since the last one (services/vm/service.py,  *)
(* flaw_rates.py, slicer.py, context.py, isa/ops_mem.py).                  *)
(*                                                                         *)
(* A change of the average size recomputes the rates and sets the counters *)
(* to zero.  It happens in the middle of instructions, which work on       *)
(* copies: of the rates as they were when the slice began, and of two of   *)
(* the counters, written back after each instruction.  An instruction is   *)
(* therefore taken apart into its decoding, its effects and its end.       *)
(***************************************************************************)
EXTENDS Integers, FiniteSets, FiniteSetsExt

CONSTANTS
  Slots,        \* cell ids
  Sizes,        \* of cells, positive
  Inoculum,     \* the cells start() places: slots and their sizes
  NumCellsMin, SoupSize,
  GenPer,       \* what the parameters GenPerBkgMut, GenPerMovMut and GenPerFlaw may be set to
  MaxSlice,     \* bound: instructions of a slice
  MaxFlaws,     \* calls of flaw() in one instruction
  MaxHost       \* bound: calls of the host that change cells or parameters

None == 0

VARIABLES
  size,          \* of the cell in each slot, None if it is dead
  average_size,
  gen,           \* the GenPer* parameters
  rate, count,   \* rate_mut, rate_mov_mut, rate_flaw and their counters
  ctx,           \* the slice's copies of rates and counters
  left,          \* instructions left to the slice
  phase,
  calls,         \* of the host
  mutated        \* auxiliary: the last instruction was followed by a background mutation

vars == <<size, average_size, gen, rate, count, ctx, left, phase, calls, mutated>>

---------------------------------------------------------------------------
(* Rates *)

Living(s) == {c \in Slots : s[c] # None}

\* The average size update_average_size finds.
Average(s) ==
  IF Living(s) = {} THEN 0
  ELSE MapThenSumSet(LAMBDA c : s[c], Living(s)) \div Cardinality(Living(s))

Zero == [mut |-> 0, mov |-> 0, flaw |-> 0]

RepInst(avg) == 10 * avg

calc_flaw_rates(s, avg, g) ==
  IF Living(s) = {} THEN Zero
  ELSE LET pop_gen_time == RepInst(avg) * (SoupSize \div (4 * avg))
       IN  [mut  |-> (pop_gen_time * 2 * g.mut * avg) \div SoupSize,
            mov  |-> 2 * g.mov * avg,
            flaw |-> RepInst(avg) * g.flaw * 2]

\* _recompute_rates
Recompute(s, avg, g) ==
  /\ rate' = calc_flaw_rates(s, avg, g)
  /\ count' = Zero

\* update_average_size, for the cells s.
UpdateAverageSize(s) ==
  /\ size' = s /\ average_size' = Average(s)
  /\ IF Average(s) # average_size \/ Living(s) = {}
     THEN Recompute(s, Average(s), gen)
     ELSE UNCHANGED <<rate, count>>

---------------------------------------------------------------------------
(* The host *)

Inoculated == [c \in Slots |-> IF c \in DOMAIN Inoculum THEN Inoculum[c] ELSE None]

Init ==
  /\ size = Inoculated /\ average_size = Average(Inoculated)
  /\ gen \in GenPer
  /\ rate = calc_flaw_rates(Inoculated, average_size, gen) /\ count = Zero
  /\ ctx = [rate |-> Zero, count |-> Zero]
  /\ left = 0 /\ phase = "idle" /\ calls = 0 /\ mutated = FALSE

Call == phase = "idle" /\ calls < MaxHost /\ calls' = calls + 1

\* start() computes the rates whether the average changes or not.
Start ==
  /\ Call
  /\ size' = Inoculated /\ average_size' = Average(Inoculated)
  /\ Recompute(Inoculated, Average(Inoculated), gen)
  /\ mutated' = FALSE
  /\ UNCHANGED <<gen, ctx, left, phase>>

SetParameter ==
  /\ Call
  /\ gen' \in GenPer \ {gen}
  /\ Recompute(size, average_size, gen')
  /\ UNCHANGED <<size, average_size, ctx, left, phase, mutated>>

\* inject, accept_immigrant.
Arrive ==
  /\ Call
  /\ \E c \in Slots \ Living(size), n \in Sizes : UpdateAverageSize([size EXCEPT ![c] = n])
  /\ UNCHANGED <<gen, ctx, left, phase, mutated>>

---------------------------------------------------------------------------
(* A slice *)

\* _make_ctx: the rates stay these for the whole slice.
BeginSlice ==
  /\ phase = "idle" /\ Living(size) # {}
  /\ left' \in 1 .. MaxSlice
  /\ ctx' = [rate |-> rate, count |-> count]
  /\ phase' = "fetch"
  /\ UNCHANGED <<size, average_size, gen, rate, count, calls, mutated>>

\* flaw(), called once: the counters it may leave.
AfterFlaw(n, r) ==
  IF r = 0 THEN {n} ELSE IF n + 1 >= r THEN 0 .. r - 1 ELSE {n + 1}

\* flaw(), called k times.
AfterFlaws(n, r, k) ==
  FoldSet(LAMBDA i, from : UNION {AfterFlaw(m, r) : m \in from}, {n}, 1 .. k)

\* The counters are copied; decoding, or the instruction, calls flaw for its operands.
Fetch ==
  /\ phase = "fetch"
  /\ \E k \in 0 .. MaxFlaws : \E n \in AfterFlaws(count.flaw, ctx.rate.flaw, k) :
        ctx' = [ctx EXCEPT !.count = [mut |-> 0, mov |-> count.mov, flaw |-> n]]
  /\ phase' = "exec"
  /\ UNCHANGED <<size, average_size, gen, rate, count, left, calls, mutated>>

\* mal, or a resize inside divide, reaps a cell.
Reap ==
  /\ phase = "exec" /\ Cardinality(Living(size)) > NumCellsMin
  /\ \E c \in Living(size) : UpdateAverageSize([size EXCEPT ![c] = None])
  /\ UNCHANGED <<gen, ctx, left, phase, calls, mutated>>

Divide ==
  /\ phase = "exec"
  /\ \E c \in Slots \ Living(size), n \in Sizes : UpdateAverageSize([size EXCEPT ![c] = n])
  /\ phase' = "done"
  /\ UNCHANGED <<gen, ctx, left, calls, mutated>>

\* movii copies a byte.
Move ==
  /\ phase = "exec"
  /\ LET n == ctx.count.mov + 1
         r == ctx.rate.mov
     IN  /\ r # 0
         /\ \E m \in IF n >= r THEN 0 .. r - 1 ELSE {n} : ctx' = [ctx EXCEPT !.count.mov = m]
  /\ phase' = "done"
  /\ UNCHANGED <<size, average_size, gen, rate, count, left, calls, mutated>>

\* The end of an instruction: two counters are written back, the third goes on; the slice goes on
\* unless it was stopped, its cell died, or it reached its goal.
Finish ==
  /\ phase \in {"exec", "done"}
  /\ \E m \in IF rate.mut = 0 THEN {count.mut}
              ELSE IF count.mut + 1 >= rate.mut THEN 0 .. rate.mut - 1
              ELSE {count.mut + 1} :
        count' = [mut |-> m, mov |-> ctx.count.mov, flaw |-> ctx.count.flaw]
  /\ mutated' = (rate.mut # 0 /\ count.mut + 1 >= rate.mut)
  /\ left' \in {0, left - 1}
  /\ phase' = IF left' = 0 THEN "idle" ELSE "fetch"
  /\ UNCHANGED <<size, average_size, gen, rate, ctx, calls>>

VMStep == BeginSlice \/ Fetch \/ Reap \/ Divide \/ Move \/ Finish

Next == Start \/ SetParameter \/ Arrive \/ VMStep

Spec == Init /\ [][Next]_vars

\* The host goes on stepping, and an instruction that was begun ends.
FairSpec == Spec /\ WF_vars(VMStep)

---------------------------------------------------------------------------
Rates == [mut : Nat, mov : Nat, flaw : Nat]

\* Rates and counters are numbers, of a population that never leaves its slots.
TypeOK ==
  /\ size \in [Slots -> Sizes \cup {None}] /\ average_size = Average(size)
  /\ gen \in GenPer /\ rate \in Rates /\ count \in Rates
  /\ ctx \in [rate : Rates, count : Rates]
  /\ left \in 0 .. MaxSlice /\ phase \in {"idle", "fetch", "exec", "done"}
  /\ calls \in 0 .. MaxHost /\ mutated \in BOOLEAN

\* Background mutations land about every rate_mut/2 instructions, so a VM that goes on
\* executing sees another one as long as they are switched on.
BackgroundMutates == []<>(mutated \/ rate.mut = 0)

===========================================================================

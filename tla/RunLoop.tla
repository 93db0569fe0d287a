----------------------------- MODULE RunLoop -----------------------------
(***************************************************************************)
(* How far a call runs: TierraVM.step, run and step_until                  *)
(* (services/vm/service.py), the slicer below them (services/vm/slicer.py) *)
(* and the sandbox limits (services/vm/helpers.py).                        *)
(*                                                                         *)
(* An instruction is atomic; the clock may run out and stop() may be       *)
(* called (it is a cooperative flag) between any two of them.  What an     *)
(* instruction does to the cells is left open, except that it gives birth  *)
(* at most once, after what it reaps, and that only the death of the       *)
(* running cell ends a slice.                                              *)
(***************************************************************************)
EXTENDS Integers

CONSTANTS
    Budgets,           \* the values limits.max_instructions is given
    Every,             \* limits.limit_check_every
    MaxCells,          \* limits.max_cells
    MaxSlice,          \* bound on the size of a slice
    StepSizes,         \* the n of step
    BirthGoals,        \* the until_births of run
    Caps,              \* the max_instructions of step_until
    MaxBirths          \* bound on the births counter

ASSUME RunLoopAssumption ==
    /\ Budgets \subseteq Nat /\ Budgets # {}
    /\ Every \in Nat \ {0} /\ MaxCells \in Nat \ {0} /\ MaxSlice \in Nat \ {0}
    /\ StepSizes \subseteq Nat /\ BirthGoals \subseteq Nat /\ Caps \subseteq Nat
    /\ MaxBirths \in Nat

NoGoal == -1

VARIABLES
    max_instructions,
    stopped, inst_exe, budget_used, births,
    num_cells,         \* living cells; the slicer's next cell is one of them
    until_births,      \* vm._until_births
    late,              \* wall_time_s has passed since run_started
    call,              \* the call in progress
    phase,             \* where it is: at the head of its loop, in a slice, after it
    goal,              \* step's target, or the budget at which step_until stops
    tired,             \* step_until's own wall time has passed
    before,            \* inst_exe before the slice
    left,              \* instructions left in the slice
    ce_alive,          \* the running cell lives
    outcome            \* how the last call ended

world    == <<births, num_cells>>
counters == <<inst_exe, budget_used>>
frame    == <<call, goal, before>>
slice    == <<left, ce_alive>>
clocks   == <<late, tired>>
vars     == <<max_instructions, stopped, counters, world, until_births, clocks, frame, phase,
              slice, outcome>>

Calls    == {"none", "step", "run", "step_until"}
Phases   == {"host", "top", "slice", "after"}
Outcomes == {"none", "done", "goal", "limit", "idle", "raised"}

---------------------------------------------------------------------------
(* check_limits *)

\* Mutant: the budget may be reached.
ExceededLater == budget_used > max_instructions \/ late

\* What a check that is made finds.
Exceeded == budget_used >= max_instructions \/ late

\* The call returns, or raises; run's finally clears _until_births either way.
Leave(how) ==
    /\ phase' = "host" /\ outcome' = how
    /\ call' = "none" /\ left' = 0 /\ ce_alive' = FALSE
    /\ until_births' = NoGoal

---------------------------------------------------------------------------
(* The host calls. *)

Init ==
    /\ max_instructions \in Budgets
    /\ stopped = FALSE /\ inst_exe = 0 /\ budget_used = 0 /\ births = 0
    /\ num_cells = 1 /\ until_births = NoGoal
    /\ late = FALSE /\ tired = FALSE
    /\ call = "none" /\ phase = "host" /\ goal = 0 /\ before = 0
    /\ left = 0 /\ ce_alive = FALSE /\ outcome = "none"

\* start() again.
Start ==
    /\ phase = "host"
    /\ stopped' = FALSE /\ inst_exe' = 0 /\ budget_used' = 0 /\ births' = 0
    /\ num_cells' = 1 /\ until_births' = NoGoal /\ late' = FALSE
    /\ UNCHANGED <<max_instructions, tired, frame, phase, slice, outcome>>

SetLimits ==
    /\ phase = "host"
    /\ max_instructions' \in Budgets /\ stopped' = FALSE
    /\ UNCHANGED <<counters, world, until_births, clocks, frame, phase, slice, outcome>>

Stop ==
    /\ ~ stopped /\ stopped' = TRUE
    /\ UNCHANGED <<max_instructions, counters, world, until_births, clocks, frame, phase, slice,
                   outcome>>

\* A stopped VM takes no step; a VM over its limits raises before the first.
Step ==
    /\ phase = "host"
    /\ \E n \in StepSizes :
          IF stopped \/ Exceeded
          THEN /\ outcome' = IF stopped THEN "done" ELSE "raised"
               /\ UNCHANGED <<call, phase, goal>>
          ELSE /\ call' = "step" /\ phase' = "top" /\ goal' = inst_exe + n
               /\ outcome' = "none"
    /\ UNCHANGED <<max_instructions, stopped, counters, world, until_births, clocks, before, slice>>

\* run may set the budget; a goal that is met already returns before the clock is reset.
Run ==
    /\ phase = "host"
    /\ max_instructions' \in Budgets
    /\ \E g \in BirthGoals \cup {NoGoal} :
          IF g # NoGoal /\ births >= g
          THEN /\ outcome' = "goal"
               /\ UNCHANGED <<call, phase, until_births, late>>
          ELSE /\ call' = "run" /\ phase' = "top" /\ until_births' = g
               /\ late' = FALSE /\ outcome' = "none"
    /\ UNCHANGED <<stopped, counters, world, tired, goal, before, slice>>

StepUntil ==
    /\ phase = "host"
    /\ \E cap \in Caps \cup {max_instructions} : goal' = budget_used + cap
    /\ call' = "step_until" /\ phase' = "top" /\ tired' = FALSE /\ outcome' = "none"
    /\ UNCHANGED <<max_instructions, stopped, counters, world, until_births, late, before, slice>>

---------------------------------------------------------------------------
(* The head of the loops. *)

StepReturns ==
    /\ phase = "top" /\ call = "step"
    /\ inst_exe >= goal \/ stopped
    /\ Leave("done")
    /\ UNCHANGED <<max_instructions, stopped, counters, world, clocks, goal, before>>

\* Mutant: run is content with one birth less.
RunReturnsEarly ==
    /\ phase = "top" /\ call = "run"
    /\ \/ stopped /\ Leave("done")
       \/ ~ stopped /\ Exceeded /\ Leave("raised")
       \/ ~ stopped /\ until_births # NoGoal /\ births + 1 >= until_births /\ Leave("goal")
    /\ UNCHANGED <<max_instructions, stopped, counters, world, clocks, goal, before>>

RunReturns ==
    /\ phase = "top" /\ call = "run"
    /\ \/ stopped /\ Leave("done")
       \/ ~ stopped /\ Exceeded /\ Leave("raised")
       \/ ~ stopped /\ ~ Exceeded /\ until_births # NoGoal /\ births >= until_births /\ Leave("goal")
    /\ UNCHANGED <<max_instructions, stopped, counters, world, clocks, goal, before>>

\* step_until asks the predicate, its own caps, then the limits of the VM; stopped, it
\* still says "predicate".
StepUntilReturns ==
    /\ phase = "top" /\ call = "step_until"
    /\ \/ Leave("goal")
       \/ ~ stopped /\ (budget_used >= goal \/ tired \/ Exceeded) /\ Leave("limit")
    /\ UNCHANGED <<max_instructions, stopped, counters, world, clocks, goal, before>>

\* Nothing ends the loop: slicer_step, with nobody to run or with the next cell.
GoOn ==
    /\ phase = "top" /\ ~ stopped
    /\ \/ call = "step" /\ inst_exe < goal
       \/ call = "run" /\ ~ Exceeded /\ (until_births = NoGoal \/ births < until_births)
       \/ call = "step_until" /\ budget_used < goal /\ ~ tired /\ ~ Exceeded

NobodyToRun ==
    /\ GoOn /\ num_cells = 0
    /\ before' = inst_exe /\ phase' = "after"
    /\ UNCHANGED <<max_instructions, stopped, counters, world, until_births, clocks, call, goal,
                   slice, outcome>>

SliceBegins ==
    /\ GoOn /\ num_cells > 0
    /\ \E size \in 1 .. MaxSlice : left' = size
    /\ ce_alive' = TRUE
    /\ before' = inst_exe /\ phase' = "slice"
    /\ UNCHANGED <<max_instructions, stopped, counters, world, until_births, clocks, call, goal,
                   outcome>>

---------------------------------------------------------------------------
(* time_slice *)

SliceRuns == phase = "slice" /\ left > 0 /\ ~ stopped /\ ce_alive

\* The limits are looked at only every so often.
CheckDue == budget_used % Every = 0

SliceRaises ==
    /\ SliceRuns /\ CheckDue /\ Exceeded
    /\ Leave("raised")
    /\ UNCHANGED <<max_instructions, stopped, counters, world, clocks, goal, before>>

\* Any reaps, then at most one birth: a divide that reaps for room still gives birth.  The running
\* cell may be among the reaped, and its slot among those a daughter is given.
ReapsAndBirths ==
    \E reaped \in 0 .. num_cells, born \in 0 .. 1 :
        /\ births' = births + born /\ births' <= MaxBirths
        /\ num_cells' = num_cells - reaped + born /\ num_cells' <= MaxCells
        /\ ce_alive' \in BOOLEAN
        /\ IF ce_alive' THEN num_cells' > 0 ELSE reaped > 0

\* Mutant: a birth does not cut the slice short.
InstructionIgnoresGoal ==
    /\ SliceRuns /\ ~ (CheckDue /\ Exceeded)
    /\ inst_exe' = inst_exe + 1 /\ budget_used' = budget_used + 1
    /\ ReapsAndBirths
    /\ left' = left - 1
    /\ UNCHANGED <<max_instructions, stopped, until_births, clocks, frame, phase, outcome>>

\* One instruction; the birth that reaches the goal makes it the slice's last.
Instruction ==
    /\ SliceRuns /\ ~ (CheckDue /\ Exceeded)
    /\ inst_exe' = inst_exe + 1 /\ budget_used' = budget_used + 1
    /\ ReapsAndBirths
    /\ left' = IF until_births # NoGoal /\ births' >= until_births THEN 0 ELSE left - 1
    /\ UNCHANGED <<max_instructions, stopped, until_births, clocks, frame, phase, outcome>>

SliceEnds ==
    /\ phase = "slice" /\ (left = 0 \/ stopped \/ ~ ce_alive)
    /\ phase' = "after" /\ left' = 0 /\ ce_alive' = FALSE
    /\ UNCHANGED <<max_instructions, stopped, counters, world, until_births, clocks, frame, outcome>>

\* Mutant: the loop does not notice that nothing was executed.
AfterSliceAlways ==
    /\ phase = "after"
    /\ phase' = "top" /\ UNCHANGED <<call, until_births, slice, outcome>>
    /\ UNCHANGED <<max_instructions, stopped, counters, world, clocks, goal, before>>

\* A slicer_step that executed nothing ends the call.
AfterSlice ==
    /\ phase = "after"
    /\ IF inst_exe = before THEN Leave("idle")
       ELSE phase' = "top" /\ UNCHANGED <<call, until_births, slice, outcome>>
    /\ UNCHANGED <<max_instructions, stopped, counters, world, clocks, goal, before>>

---------------------------------------------------------------------------
WallTimePasses ==
    /\ phase # "host"
    /\ \/ ~ late /\ late' = TRUE /\ UNCHANGED tired
       \/ call = "step_until" /\ ~ tired /\ tired' = TRUE /\ UNCHANGED late
    /\ UNCHANGED <<max_instructions, stopped, counters, world, until_births, frame, phase, slice,
                   outcome>>

HostStep == Start \/ SetLimits \/ Step \/ Run \/ StepUntil

VMStep ==
    \/ StepReturns \/ RunReturns \/ StepUntilReturns \/ NobodyToRun \/ SliceBegins
    \/ SliceRaises \/ Instruction \/ SliceEnds \/ AfterSlice

Next == HostStep \/ VMStep \/ Stop \/ WallTimePasses

Spec == Init /\ [][Next]_vars

\* The loops are straight-line code of one thread: while a call is in progress it goes on.
FairSpec == Spec /\ WF_vars(VMStep)

---------------------------------------------------------------------------
TypeOK ==
    /\ max_instructions \in Budgets /\ stopped \in BOOLEAN
    /\ inst_exe \in Nat /\ budget_used \in Nat /\ before \in Nat /\ goal \in Nat
    /\ births \in 0 .. MaxBirths /\ num_cells \in 0 .. MaxCells
    /\ until_births \in BirthGoals \cup {NoGoal}
    /\ late \in BOOLEAN /\ tired \in BOOLEAN /\ ce_alive \in BOOLEAN
    /\ call \in Calls /\ phase \in Phases /\ outcome \in Outcomes
    /\ left \in 0 .. MaxSlice

(* The budget is a hard one up to the interval of the checks: no instruction  *)
(* is executed limit_check_every or more past max_instructions, whichever     *)
(* call runs it and however often the limit is moved between calls.           *)
BudgetOvershoot ==
    [][budget_used' > budget_used => budget_used < max_instructions + Every - 1]_vars

(* run(until_births=n) never sees birth n + 1, in whatever slice n falls, and *)
(* returns only with n births, by stop(), by its limits, or with the soup     *)
(* empty.                                                                     *)
ExactBirths ==
    /\ call = "run" /\ until_births # NoGoal => births <= until_births
    /\ call # "run" => until_births = NoGoal

BirthsReached ==
    [][call = "run" /\ until_births # NoGoal /\ call' = "none" =>
          births = until_births \/ stopped \/ Exceeded \/ num_cells = 0]_vars

(* step(n) that comes back has executed n instructions, unless it was stopped *)
(* or the soup was empty: neither a slice cut short by a death nor the rest   *)
(* of an earlier run's goal ends it early.                                    *)
StepExecutesN ==
    [][call = "step" /\ call' = "none" /\ outcome' # "raised" =>
          inst_exe >= goal \/ stopped \/ num_cells = 0]_vars

(* Every call comes back to the host: with an empty soup, after stop(), with  *)
(* any goals, on its budget at the latest.                                    *)
CallsReturn == phase # "host" ~> phase = "host"

(* step_until, "Run until predicate or sandbox/local limits fire": it reports *)
(* the limits as a reason to stop.  It does not hold: SliceRaises passes by.   *)
StepUntilReports == [][call = "step_until" /\ call' = "none" => outcome' # "raised"]_vars

===========================================================================

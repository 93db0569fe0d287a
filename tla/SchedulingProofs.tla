-------------------------- MODULE SchedulingProofs --------------------------
(***************************************************************************)
(* Who runs next and for how long: the proofs about RunLoop and about      *)
(* CellQueues.                                                             *)
(*                                                                         *)
(* RunLoop, for every budget, interval of checks, slice size, population   *)
(* and goal.  A slice looks at the limits only at multiples of             *)
(* limit_check_every; what bounds it between two of them is that the last  *)
(* multiple it passed was below the budget (BudgetInv).  A goal of births  *)
(* holds because a slice that goes on has not reached it (GoalInv), and an *)
(* idle loop means an empty soup or stop() because a slice is never empty  *)
(* (IdleInv).                                                              *)
(*                                                                         *)
(* CellQueues, for every number of slots.  The links of a queue spell out  *)
(* a list without repetitions (Spells): walking them from the way in reads *)
(* it, and what an operation does to the links is what it does to the list *)
(* (AppendSpells, CutSpells, TurnedSpells).  QueuesInv says so of both     *)
(* queues, over the living cells.                                          *)
(***************************************************************************)
EXTENDS RunLoop, CellQueues, TLAPS, FiniteSetTheorems, SequenceTheorems, WellFoundedInduction

InCall == phase = "host" => call = "none"

GoalInv ==
    /\ ExactBirths
    /\ phase = "slice" /\ left > 0 /\ until_births # NoGoal => births < until_births

IdleInv ==
    phase \in {"slice", "after"} =>
        /\ inst_exe >= before
        /\ inst_exe = before =>
              num_cells = 0 \/ stopped \/ (phase = "slice" /\ left > 0 /\ ce_alive)

\* The last multiple of Every is below the budget, or is where the next check finds it out.
LastCheckWithin(b, max) ==
    b - (b % Every) < max \/ (b % Every = 0 /\ b - Every < max)

BudgetInv ==
    phase \in {"slice", "after"} \/ call = "step" => LastCheckWithin(budget_used, max_instructions)

RunInv == TypeOK /\ InCall /\ GoalInv /\ IdleInv /\ BudgetInv

---------------------------------------------------------------------------
(* Counting modulo the interval of the checks. *)

LEMMA Division ==
    ASSUME NEW b \in Nat, NEW e \in Nat \ {0}
    PROVE  b = (e * (b \div e)) + (b % e) /\ b \div e \in Nat /\ b % e \in 0 .. e - 1
BY SMTT(20)

LEMMA MultiplesApart ==
    ASSUME NEW e \in Nat, NEW p \in Nat, NEW q \in Nat, p < q
    PROVE  e * p + e <= e * q
<1>1. e * (p + 1) = e * p + e
  BY SMT
<1>2. PICK d \in Nat : q = (p + 1) + d
  BY p + 1 <= q, q - (p + 1) \in Nat, SMT
<1>3. e * q = e * (p + 1) + e * d
  BY <1>2, SMT
<1>4. e * d >= 0
  BY SMT
<1> QED
  BY <1>1, <1>3, <1>4, SMT

LEMMA NextRemainder ==
    ASSUME NEW b \in Nat, NEW e \in Nat \ {0}
    PROVE  IF b % e = e - 1 THEN (b + 1) % e = 0 ELSE (b + 1) % e = (b % e) + 1
<1> DEFINE q == b \div e
           r == b % e
           k == (b + 1) \div e
           s == (b + 1) % e
<1>1. b = e * q + r /\ q \in Nat /\ r \in 0 .. e - 1
  BY Division
<1>2. b + 1 = e * k + s /\ k \in Nat /\ s \in 0 .. e - 1
  BY Division, b + 1 \in Nat
<1>3. e * k \in Int /\ e * q \in Int
  BY <1>1, <1>2, SMT
<1> HIDE DEF q, r, k, s
<1>4. ~ (k < q)
  <2> SUFFICES ASSUME k < q PROVE FALSE
    OBVIOUS
  <2>1. e * k + e <= e * q
    BY MultiplesApart, <1>1, <1>2
  <2> QED
    BY <2>1, <1>1, <1>2, <1>3, SMT
<1>5. CASE r = e - 1
  <2>1. k # q
    BY <1>1, <1>2, <1>3, <1>5, SMT
  <2>2. e * q + e <= e * k
    BY MultiplesApart, <2>1, <1>1, <1>2, <1>4
  <2>3. s = 0
    BY <2>2, <1>1, <1>2, <1>3, <1>5, SMT
  <2> QED
    BY <2>3, <1>5 DEF s, r
<1>6. CASE r # e - 1
  <2>1. ~ (q < k)
    <3> SUFFICES ASSUME q < k PROVE FALSE
      OBVIOUS
    <3>1. e * q + e <= e * k
      BY MultiplesApart, <1>1, <1>2
    <3> QED
      BY <3>1, <1>1, <1>2, <1>3, <1>6, SMT
  <2>2. k = q
    BY <1>4, <2>1, <1>1, <1>2, SMT
  <2>3. s = r + 1
    BY <2>2, <1>1, <1>2, <1>3, SMT
  <2> QED
    BY <2>3, <1>6 DEF s, r
<1> QED
  BY <1>5, <1>6

\* An instruction that the check lets through keeps the last check within the budget.
LEMMA InstructionWithin ==
    ASSUME RunLoopAssumption, NEW b \in Nat, NEW max \in Nat,
           LastCheckWithin(b, max), ~ (b % Every = 0 /\ b >= max)
    PROVE  b < max + Every - 1 /\ LastCheckWithin(b + 1, max)
<1> DEFINE r == b % Every
           s == (b + 1) % Every
<1>0. Every \in Nat \ {0}
  BY DEF RunLoopAssumption
<1>1. r \in 0 .. Every - 1
  BY <1>0, Division
<1>2. IF r = Every - 1 THEN s = 0 ELSE s = r + 1
  BY <1>0, NextRemainder
<1>3. b - r < max
  BY <1>1 DEF LastCheckWithin
<1>4. b + 1 - s < max \/ (s = 0 /\ b + 1 - Every < max)
  <2> HIDE DEF r, s
  <2> QED
    BY <1>0, <1>1, <1>2, <1>3
<1>5. b < max + Every - 1
  <2> HIDE DEF r
  <2> QED
    BY <1>0, <1>1, <1>3
<1> QED
  BY <1>4, <1>5 DEF LastCheckWithin

\* A check that passed, forced or not, sees the budget unspent.
LEMMA CheckedWithin ==
    ASSUME RunLoopAssumption, NEW b \in Nat, NEW max \in Nat, b < max
    PROVE  LastCheckWithin(b, max)
<1>1. b % Every \in 0 .. Every - 1 /\ Every \in Nat
  BY Division DEF RunLoopAssumption
<1> QED
  BY <1>1 DEF LastCheckWithin

---------------------------------------------------------------------------
(* The invariant. *)

LEMMA InitRun == RunLoopAssumption /\ Init => RunInv
<1> SUFFICES ASSUME RunLoopAssumption, Init PROVE RunInv
  OBVIOUS
<1>1. TypeOK
  <2>1. 0 \in 0 .. MaxBirths /\ 1 \in 0 .. MaxCells /\ 0 \in 0 .. MaxSlice
    BY DEF RunLoopAssumption
  <2> QED
    BY <2>1 DEF Init, TypeOK, Calls, Phases, Outcomes
<1>2. InCall /\ GoalInv /\ IdleInv /\ BudgetInv
  BY DEF Init, InCall, GoalInv, ExactBirths, IdleInv, BudgetInv
<1> QED
  BY <1>1, <1>2 DEF RunInv

LEMMA RunTypeStep == RunLoopAssumption /\ TypeOK /\ [Next]_vars => TypeOK'
<1> SUFFICES ASSUME RunLoopAssumption, TypeOK, [Next]_vars PROVE TypeOK'
  OBVIOUS
<1> USE DEF TypeOK, Calls, Phases, Outcomes, counters, world, clocks, frame, slice
<1>a. 0 \in Nat /\ 1 \in 0 .. MaxCells /\ NoGoal \in BirthGoals \cup {NoGoal}
      /\ Budgets \subseteq Nat /\ StepSizes \subseteq Nat /\ Caps \subseteq Nat
      /\ MaxSlice \in Nat /\ MaxBirths \in Nat /\ 0 \in 0 .. MaxSlice /\ 0 \in 0 .. MaxBirths
      /\ MaxCells \in Nat
  BY DEF RunLoopAssumption
<1>1. CASE Start
  BY <1>a, <1>1 DEF Start
<1>2. CASE SetLimits \/ Stop \/ WallTimePasses \/ UNCHANGED vars
  <2>1. CASE SetLimits
    BY <2>1 DEF SetLimits
  <2>2. CASE Stop
    BY <2>2 DEF Stop
  <2>3. CASE WallTimePasses
    BY <2>3, Zenon DEF WallTimePasses
  <2>4. CASE UNCHANGED vars
    BY <2>4 DEF vars
  <2> QED
    BY <1>2, <2>1, <2>2, <2>3, <2>4
<1>3. CASE Step
  <2>1. \A n \in StepSizes : inst_exe + n \in Nat
    BY <1>a
  <2> QED
    BY <1>3, <2>1 DEF Step
<1>4. CASE Run
  BY <1>4 DEF Run
<1>5. CASE StepUntil
  <2>1. \A cap \in Caps \cup {max_instructions} : budget_used + cap \in Nat
    BY <1>a
  <2> QED
    BY <1>5, <2>1 DEF StepUntil
<1>6. CASE StepReturns \/ RunReturns \/ StepUntilReturns \/ SliceRaises
  BY <1>a, <1>6 DEF StepReturns, RunReturns, StepUntilReturns, SliceRaises, Leave
<1>7. CASE NobodyToRun
  BY <1>7 DEF NobodyToRun
<1>8. CASE SliceBegins
  <2>1. 1 .. MaxSlice \subseteq 0 .. MaxSlice
    BY <1>a
  <2> QED
    BY <1>8, <2>1 DEF SliceBegins
<1>9. CASE Instruction
  <2>1. left - 1 \in 0 .. MaxSlice /\ inst_exe + 1 \in Nat /\ budget_used + 1 \in Nat
    BY <1>a, <1>9 DEF Instruction, SliceRuns
  <2>2. births' \in 0 .. MaxBirths /\ num_cells' \in 0 .. MaxCells /\ ce_alive' \in BOOLEAN
    BY <1>a, <1>9 DEF Instruction, ReapsAndBirths
  <2> QED
    BY <1>a, <1>9, <2>1, <2>2 DEF Instruction
<1>10. CASE SliceEnds
  BY <1>a, <1>10 DEF SliceEnds
<1>11. CASE AfterSlice
  BY <1>a, <1>11 DEF AfterSlice, Leave
<1> QED
  BY <1>1, <1>2, <1>3, <1>4, <1>5, <1>6, <1>7, <1>8, <1>9, <1>10, <1>11
     DEF Next, HostStep, VMStep

LEMMA InCallStep == InCall /\ [Next]_vars => InCall'
BY DEF InCall, Next, HostStep, VMStep, Start, SetLimits, Stop, WallTimePasses, Step, Run, StepUntil,
   StepReturns, RunReturns, StepUntilReturns, SliceRaises, NobodyToRun, SliceBegins, Instruction,
   SliceEnds, AfterSlice, Leave, GoOn, SliceRuns, frame, vars

\* A slice begins before the goal, and its last birth is the one that reaches it.
LEMMA GoalStep == RunLoopAssumption /\ TypeOK /\ InCall /\ GoalInv /\ [Next]_vars => GoalInv'
<1> SUFFICES ASSUME RunLoopAssumption, TypeOK, InCall, GoalInv, [Next]_vars PROVE GoalInv'
  OBVIOUS
<1> USE DEF GoalInv, ExactBirths, counters, world, clocks, frame, slice
<1>a. births \in Nat /\ left \in Nat /\ (until_births = NoGoal \/ until_births \in Nat)
  BY DEF TypeOK, RunLoopAssumption
<1>1. CASE Start \/ SetLimits \/ Step \/ StepUntil
  BY <1>1 DEF Start, SetLimits, Step, StepUntil, InCall
<1>2. CASE Stop \/ WallTimePasses \/ UNCHANGED vars
  BY <1>2 DEF Stop, WallTimePasses, vars
<1>3. CASE Run
  <2>1. \A g \in BirthGoals : g \in Nat
    BY DEF RunLoopAssumption
  <2> QED
    BY <1>3, <1>a, <2>1 DEF Run, InCall
<1>4. CASE StepReturns \/ RunReturns \/ StepUntilReturns \/ SliceRaises
  BY <1>4 DEF StepReturns, RunReturns, StepUntilReturns, SliceRaises, Leave
<1>5. CASE NobodyToRun
  BY <1>5 DEF NobodyToRun
<1>6. CASE SliceBegins
  BY <1>6, <1>a DEF SliceBegins, GoOn
<1>7. CASE Instruction
  <2>1. births < until_births \/ until_births = NoGoal
    BY <1>7 DEF Instruction, SliceRuns
  <2>2. (births' = births \/ births' = births + 1) /\ until_births' = until_births /\ call' = call
    BY <1>7, <1>a DEF Instruction, ReapsAndBirths
  <2>3. left' > 0 /\ until_births # NoGoal => births' < until_births
    BY <1>7, <1>a, <2>2 DEF Instruction
  <2> QED
    BY <1>a, <2>1, <2>2, <2>3
<1>8. CASE SliceEnds
  BY <1>8, <1>a DEF SliceEnds
<1>9. CASE AfterSlice
  BY <1>9 DEF AfterSlice, Leave
<1> QED
  BY <1>1, <1>2, <1>3, <1>4, <1>5, <1>6, <1>7, <1>8, <1>9 DEF Next, HostStep, VMStep

LEMMA IdleStep == RunLoopAssumption /\ TypeOK /\ IdleInv /\ [Next]_vars => IdleInv'
<1> SUFFICES ASSUME RunLoopAssumption, TypeOK, IdleInv, [Next]_vars PROVE IdleInv'
  OBVIOUS
<1> USE DEF IdleInv, counters, world, clocks, frame, slice
<1>a. inst_exe \in Nat /\ before \in Nat /\ left \in Nat /\ MaxSlice \in Nat
  BY DEF TypeOK, RunLoopAssumption
<1>1. CASE Start \/ SetLimits \/ Step \/ StepUntil \/ Run
  BY <1>1 DEF Start, SetLimits, Step, StepUntil, Run
<1>2. CASE Stop \/ WallTimePasses \/ UNCHANGED vars
  BY <1>2 DEF Stop, WallTimePasses, vars
<1>3. CASE StepReturns \/ RunReturns \/ StepUntilReturns \/ SliceRaises \/ AfterSlice
  BY <1>3 DEF StepReturns, RunReturns, StepUntilReturns, SliceRaises, AfterSlice, Leave
<1>4. CASE NobodyToRun
  BY <1>4, <1>a DEF NobodyToRun
<1>5. CASE SliceBegins
  BY <1>5, <1>a DEF SliceBegins
<1>6. CASE Instruction
  BY <1>6, <1>a DEF Instruction, SliceRuns
<1>7. CASE SliceEnds
  BY <1>7, <1>a DEF SliceEnds
<1> QED
  BY <1>1, <1>2, <1>3, <1>4, <1>5, <1>6, <1>7 DEF Next, HostStep, VMStep

\* Only an instruction spends budget, and only a call that has just been checked enters a slice.
LEMMA BudgetStep == RunLoopAssumption /\ TypeOK /\ InCall /\ BudgetInv /\ [Next]_vars => BudgetInv'
<1> SUFFICES ASSUME RunLoopAssumption, TypeOK, InCall, BudgetInv, [Next]_vars PROVE BudgetInv'
  OBVIOUS
<1> USE DEF BudgetInv, counters, world, clocks, frame, slice
<1>a. budget_used \in Nat /\ max_instructions \in Nat
  BY DEF TypeOK, RunLoopAssumption
<1>b. ~ Exceeded => LastCheckWithin(budget_used, max_instructions)
  BY <1>a, CheckedWithin DEF Exceeded
<1>1. CASE Start \/ SetLimits \/ StepUntil \/ Run
  BY <1>1 DEF Start, SetLimits, StepUntil, Run, InCall
<1>2. CASE Stop \/ WallTimePasses \/ UNCHANGED vars
  BY <1>2 DEF Stop, WallTimePasses, vars
<1>3. CASE Step
  BY <1>3, <1>b DEF Step, InCall
<1>4. CASE StepReturns \/ RunReturns \/ StepUntilReturns \/ SliceRaises
  BY <1>4 DEF StepReturns, RunReturns, StepUntilReturns, SliceRaises, Leave
<1>5. CASE NobodyToRun \/ SliceBegins
  BY <1>5, <1>b DEF NobodyToRun, SliceBegins, GoOn
<1>6. CASE Instruction
  <2>1. LastCheckWithin(budget_used, max_instructions)
    BY <1>6 DEF Instruction, SliceRuns
  <2>2. ~ (budget_used % Every = 0 /\ budget_used >= max_instructions)
    BY <1>6 DEF Instruction, CheckDue, Exceeded
  <2>3. LastCheckWithin(budget_used + 1, max_instructions)
    BY <1>a, <2>1, <2>2, InstructionWithin
  <2> QED
    BY <1>6, <2>3 DEF Instruction
<1>7. CASE SliceEnds
  BY <1>7 DEF SliceEnds
<1>8. CASE AfterSlice
  BY <1>8 DEF AfterSlice, Leave
<1> QED
  BY <1>1, <1>2, <1>3, <1>4, <1>5, <1>6, <1>7, <1>8 DEF Next, HostStep, VMStep

LEMMA SpecRun == Spec => []RunInv
<1>1. RunLoopAssumption
  BY RunLoopAssumption
<1>2. Init => RunInv
  BY <1>1, InitRun
<1>3. RunInv /\ [Next]_vars => RunInv'
  BY <1>1, RunTypeStep, InCallStep, GoalStep, IdleStep, BudgetStep DEF RunInv
<1> QED
  BY <1>2, <1>3, PTL DEF Spec

---------------------------------------------------------------------------
\* The state of a call stays well formed, for every value of the limits.
THEOREM RunLoopTypeCorrect == Spec => []TypeOK
BY SpecRun, PTL DEF RunInv

\* run(until_births=n) never sees birth n + 1, and no goal outlives its run.
THEOREM RunLoopExactBirths == Spec => []ExactBirths
BY SpecRun, PTL DEF RunInv, GoalInv

\* No call executes limit_check_every or more instructions past max_instructions.
THEOREM RunLoopBudgetOvershoot == Spec => BudgetOvershoot
<1> DEFINE Within == budget_used' > budget_used => budget_used < max_instructions + Every - 1
<1>1. ASSUME RunInv, [Next]_vars PROVE [Within]_vars
  <2>1. RunLoopAssumption /\ budget_used \in Nat /\ max_instructions \in Nat
    BY <1>1, RunLoopAssumption DEF RunInv, TypeOK, RunLoopAssumption
  <2>2. CASE Instruction
    <3>1. LastCheckWithin(budget_used, max_instructions)
      BY <1>1, <2>2 DEF RunInv, BudgetInv, Instruction, SliceRuns
    <3>2. ~ (budget_used % Every = 0 /\ budget_used >= max_instructions)
      BY <2>1, <2>2 DEF Instruction, CheckDue, Exceeded
    <3> QED
      BY <2>1, <3>1, <3>2, InstructionWithin
  <2>3. CASE Start
    BY <2>1, <2>3 DEF Start
  <2>4. CASE budget_used' = budget_used
    BY <2>1, <2>4
  <2> QED
    BY <1>1, <2>2, <2>3, <2>4 DEF Next, HostStep, VMStep, SetLimits, Stop, WallTimePasses, Step, Run,
       StepUntil, StepReturns, RunReturns, StepUntilReturns, SliceRaises, NobodyToRun, SliceBegins,
       SliceEnds, AfterSlice, counters, vars
<1> QED
  BY <1>1, SpecRun, PTL DEF Spec, BudgetOvershoot

\* run(until_births=n) comes back without its n births only from stop(), a limit or an empty soup.
THEOREM RunLoopBirthsReached == Spec => BirthsReached
<1> DEFINE Reached == call = "run" /\ until_births # NoGoal /\ call' = "none" =>
                         births = until_births \/ stopped \/ Exceeded \/ num_cells = 0
<1>1. ASSUME RunInv, [Next]_vars PROVE [Reached]_vars
  <2> SUFFICES ASSUME call = "run", until_births # NoGoal, call' = "none"
               PROVE  births = until_births \/ stopped \/ Exceeded \/ num_cells = 0
    OBVIOUS
  <2>1. births <= until_births /\ births \in Nat /\ until_births \in Nat /\ phase # "host"
    BY <1>1, RunLoopAssumption DEF RunInv, GoalInv, ExactBirths, InCall, TypeOK, RunLoopAssumption
  <2>2. CASE RunReturns \/ SliceRaises
    BY <2>1, <2>2 DEF RunReturns, SliceRaises
  <2>3. CASE AfterSlice
    BY <1>1, <2>3 DEF AfterSlice, RunInv, IdleInv, frame
  <2> QED
    BY <1>1, <2>1, <2>2, <2>3 DEF Next, HostStep, VMStep, Start, SetLimits, Stop, WallTimePasses,
       Step, Run, StepUntil, StepReturns, StepUntilReturns, NobodyToRun, SliceBegins, Instruction,
       SliceEnds, frame, vars
<1> QED
  BY <1>1, SpecRun, PTL DEF Spec, BirthsReached

\* step(n) that comes back has executed n instructions, was stopped, or left an empty soup.
THEOREM RunLoopStepExecutesN == Spec => StepExecutesN
<1> DEFINE Executed == call = "step" /\ call' = "none" /\ outcome' # "raised" =>
                          inst_exe >= goal \/ stopped \/ num_cells = 0
<1>1. ASSUME RunInv, [Next]_vars PROVE [Executed]_vars
  <2> SUFFICES ASSUME call = "step", call' = "none", outcome' # "raised"
               PROVE  inst_exe >= goal \/ stopped \/ num_cells = 0
    OBVIOUS
  <2>1. phase # "host"
    BY <1>1 DEF RunInv, InCall
  <2>2. CASE StepReturns \/ SliceRaises
    BY <2>2 DEF StepReturns, SliceRaises, Leave
  <2>3. CASE AfterSlice
    BY <1>1, <2>3 DEF AfterSlice, RunInv, IdleInv, frame
  <2> QED
    BY <1>1, <2>1, <2>2, <2>3 DEF Next, HostStep, VMStep, Start, SetLimits, Stop, WallTimePasses,
       Step, Run, StepUntil, RunReturns, StepUntilReturns, NobodyToRun, SliceBegins, Instruction,
       SliceEnds, frame, vars
<1> QED
  BY <1>1, SpecRun, PTL DEF Spec, StepExecutesN

---------------------------------------------------------------------------
(* The queues. *)

On(s) == {s[i] : i \in DOMAIN s}
Once(s) == \A i, j \in DOMAIN s : s[i] = s[j] => i = j

\* The place after the i-th of a ring of n.
After(i, n) == IF i = n THEN 1 ELSE i + 1

\* s is the list that the links spell out from a slot: a ring over S, both ways.
Spells(s, next, prev, from, S) ==
    /\ s \in Seq(Slots) /\ Once(s) /\ On(s) = S
    /\ from = IF s = <<>> THEN None ELSE s[1]
    /\ \A i \in 1 .. Len(s) : next[s[i]] = s[After(i, Len(s))] /\ prev[s[After(i, Len(s))]] = s[i]

Links == [Slots -> Slots \cup {None}]

LastOf(s) == IF s = <<>> THEN None ELSE s[Len(s)]

QueuesInv ==
    /\ QTypeOK /\ is_active = alive
    /\ Spells(RingOf, n_time, p_time, this_slice, alive)
    /\ Spells(LineOf, n_reap, p_reap, top_reap, alive)
    /\ bottom_reap = LastOf(LineOf)

---------------------------------------------------------------------------
(* Walking along the links. *)

LEMMA LeastPlace ==
  ASSUME NEW T \in SUBSET Nat, T # {}
  PROVE  \E m \in T : \A n \in T : m <= n
<1>1. PICK m \in T : \A n \in T : <<n, m>> \notin OpToRel(<, Nat)
  BY NatLessThanWellFounded, WFMin
<1>2. ASSUME NEW n \in T PROVE m <= n
  <2>1. ~(n < m)
    BY <1>1 DEF OpToRel
  <2> QED
    BY <2>1
<1> QED
  BY <1>2

(* A walk along links that lead from each place of s to the next is s. *)
LEMMA WalkIs ==
    ASSUME NEW s \in Seq(Slots), NEW next, NEW from, s # <<>> => from = s[1],
           \A i \in 1 .. Len(s) - 1 : next[s[i]] = s[i + 1]
    PROVE  Walk(next, from, Len(s)) = s
<1> DEFINE n == Len(s)
           Follows(f) == f = [i \in 1 .. n |-> IF i = 1 THEN from ELSE next[f[i - 1]]]
           at == CHOOSE f : Follows(f)
<1>1. n \in Nat /\ DOMAIN s = 1 .. n /\ s = [i \in 1 .. n |-> s[i]]
  OBVIOUS
<1>2. \A i \in 1 .. n : s[i] = IF i = 1 THEN from ELSE next[s[i - 1]]
  <2> SUFFICES ASSUME NEW i \in 1 .. n PROVE s[i] = IF i = 1 THEN from ELSE next[s[i - 1]]
    OBVIOUS
  <2>1. CASE i = 1
    BY <1>1, <2>1
  <2>2. CASE i # 1
    <3>1. i - 1 \in 1 .. n - 1 /\ (i - 1) + 1 = i
      BY <1>1, <2>2
    <3>2. next[s[i - 1]] = s[(i - 1) + 1]
      BY <3>1
    <3> QED
      BY <2>2, <3>1, <3>2
  <2> QED
    BY <2>1, <2>2
<1>3. Follows(s)
  BY <1>1, <1>2
<1>4. Follows(at)
  BY <1>3
<1>5. Walk(next, from, n) = [i \in 1 .. n |-> at[i]]
  BY DEF Walk
<1> HIDE DEF at
<1>6. \A i \in 1 .. n : at[i] = IF i = 1 THEN from ELSE next[at[i - 1]]
  BY <1>4
<1> HIDE DEF Follows, n
<1>7. \A i \in 1 .. n : at[i] = s[i]
  <2> DEFINE T == {i \in 1 .. n : at[i] # s[i]}
  <2> SUFFICES ASSUME T # {} PROVE FALSE
    OBVIOUS
  <2>1. T \in SUBSET Nat
    BY <1>1
  <2>2. PICK m \in T : \A j \in T : m <= j
    BY <2>1, LeastPlace
  <2>3. m \in 1 .. n /\ at[m] # s[m]
    OBVIOUS
  <2>4. CASE m = 1
    BY <1>2, <1>6, <2>3, <2>4
  <2>5. CASE m # 1
    <3>1. m - 1 \in 1 .. n /\ ~ (m <= m - 1)
      BY <1>1, <2>3, <2>5
    <3>2. at[m - 1] = s[m - 1]
      BY <2>2, <3>1
    <3> QED
      BY <1>2, <1>6, <2>3, <2>5, <3>2
  <2> QED
    BY <2>4, <2>5
<1> QED
  BY <1>1, <1>5, <1>7 DEF n

(* A list without repetitions has as many places as members. *)
LEMMA OnceCounts ==
    ASSUME NEW s \in Seq(Slots), Once(s)
    PROVE  IsFiniteSet(On(s)) /\ Cardinality(On(s)) = Len(s)
<1> DEFINE n == Len(s)
<1>1. n \in Nat /\ DOMAIN s = 1 .. n
  OBVIOUS
<1>2. s \in Bijection(1 .. n, On(s))
  BY <1>1 DEF Bijection, Injection, IsInjective, Surjection, Once, On
<1>3. IsFiniteSet(1 .. n) /\ Cardinality(1 .. n) = n
  BY <1>1, FS_Interval
<1>4. ExistsBijection(1 .. n, On(s))
  BY <1>2 DEF ExistsBijection
<1> HIDE DEF n
<1>5. IsFiniteSet(On(s)) /\ Cardinality(On(s)) = Cardinality(1 .. n)
  BY <1>3, <1>4, FS_Bijection
<1> QED
  BY <1>3, <1>5 DEF n

LEMMA SpelledIsWalked ==
    ASSUME NEW s, NEW next, NEW prev, NEW from, NEW S, Spells(s, next, prev, from, S)
    PROVE  Walk(next, from, Cardinality(S)) = s /\ Cardinality(S) = Len(s)
<1>1. s \in Seq(Slots) /\ Once(s) /\ On(s) = S
  BY DEF Spells
<1>2. Cardinality(S) = Len(s)
  BY <1>1, OnceCounts
<1>3. \A i \in 1 .. Len(s) - 1 : next[s[i]] = s[i + 1]
  BY <1>1 DEF Spells, After
<1>4. s # <<>> => from = s[1]
  BY DEF Spells
<1> QED
  BY <1>1, <1>2, <1>3, <1>4, WalkIs

---------------------------------------------------------------------------
(* What the link operations do to the list that is spelled out. *)

LEMMA PlacesInRing ==
    ASSUME NEW n \in Nat, NEW i \in 1 .. n
    PROVE  /\ After(i, n) \in 1 .. n
           /\ \E b \in 1 .. n : After(b, n) = i
           /\ After(i, n) = i => n = 1
<1>1. CASE i = 1
  BY <1>1 DEF After
<1>2. CASE i # 1
  <2>1. i - 1 \in 1 .. n /\ After(i - 1, n) = i
    BY <1>2 DEF After
  <2> QED
    BY <1>2, <2>1 DEF After
<1> QED
  BY <1>1, <1>2

(* The first cell: a ring of one. *)
LEMMA FirstSpells ==
    ASSUME NEW c \in Slots, NEW next \in Links, NEW prev \in Links
    PROVE  Spells(<<c>>, [next EXCEPT ![c] = c], [prev EXCEPT ![c] = c], c, {c})
<1>1. /\ <<c>> \in Seq(Slots) /\ Len(<<c>>) = 1 /\ <<c>>[1] = c /\ DOMAIN <<c>> = 1 .. 1
      /\ <<c>> # <<>>
  OBVIOUS
<1>2. \A i \in 1 .. 1 : i = 1 /\ After(i, 1) = 1
  BY DEF After
<1>3. Once(<<c>>) /\ On(<<c>>) = {c}
  BY <1>1, <1>2 DEF Once, On
<1>4. [next EXCEPT ![c] = c][c] = c /\ [prev EXCEPT ![c] = c][c] = c
  BY DEF Links
<1> QED
  BY <1>1, <1>2, <1>3, <1>4 DEF Spells

(* A newcomer between the last place and the first. *)
LEMMA AppendSpells ==
    ASSUME NEW S, NEW next \in Links, NEW prev \in Links, NEW from, NEW s,
           Spells(s, next, prev, from, S), s # <<>>, NEW c \in Slots \ S
    PROVE  /\ prev[from] = s[Len(s)] /\ next[s[Len(s)]] = from /\ from \in S /\ s[Len(s)] \in S
           /\ Spells(Append(s, c), [next EXCEPT ![c] = from, ![s[Len(s)]] = c],
                     [prev EXCEPT ![c] = s[Len(s)], ![from] = c], from, S \cup {c})
<1> DEFINE n == Len(s)
           t == Append(s, c)
           last == s[n]
           next2 == [next EXCEPT ![c] = from, ![last] = c]
           prev2 == [prev EXCEPT ![c] = last, ![from] = c]
<1>1. /\ s \in Seq(Slots) /\ Once(s) /\ On(s) = S /\ from = s[1]
      /\ \A i \in 1 .. n : next[s[i]] = s[After(i, n)] /\ prev[s[After(i, n)]] = s[i]
  BY DEF Spells
<1>2. /\ n \in Nat \ {0} /\ DOMAIN s = 1 .. n
      /\ t \in Seq(Slots) /\ Len(t) = n + 1 /\ DOMAIN t = 1 .. (n + 1)
      /\ \A i \in 1 .. n : t[i] = s[i]
      /\ t[n + 1] = c /\ t # <<>>
  BY <1>1, EmptySeq, LenProperties
<1>3. \A i \in 1 .. n : s[i] \in Slots /\ s[i] \in S /\ s[i] # c
  BY <1>1, <1>2 DEF On
<1>4. n \in 1 .. n /\ 1 \in 1 .. n /\ After(n, n) = 1
  BY <1>2 DEF After
<1>5. from = s[1] /\ last = s[n] /\ prev[from] = last /\ next[last] = from /\ from \in S /\ last \in S
  BY <1>1, <1>3, <1>4
<1>6. \A i, j \in 1 .. n : s[i] = s[j] => i = j
  BY <1>1, <1>2 DEF Once
<1>7. /\ next2[c] = from /\ next2[last] = c
      /\ \A d \in Slots : d # c /\ d # last => next2[d] = next[d]
      /\ prev2[c] = last /\ prev2[from] = c
      /\ \A d \in Slots : d # c /\ d # from => prev2[d] = prev[d]
  <2>1. c # last /\ c # from /\ last \in Slots /\ from \in Slots
    BY <1>3, <1>4, <1>5
  <2> QED
    BY <2>1 DEF Links
<1> HIDE DEF n, t, last, next2, prev2
<1>8. Once(t) /\ On(t) = S \cup {c}
  <2>1. \A i \in DOMAIN t : i \in 1 .. n \/ i = n + 1
    BY <1>2
  <2>2. n + 1 \in DOMAIN t /\ \A i \in 1 .. n : i \in DOMAIN t
    BY <1>2
  <2>3. Once(t)
    BY <1>2, <1>3, <1>6, <2>1 DEF Once
  <2>4. On(t) = S \cup {c}
    BY <1>1, <1>2, <1>3, <2>1, <2>2 DEF On
  <2> QED
    BY <2>3, <2>4
<1>9. ASSUME NEW i \in 1 .. (n + 1)
      PROVE  next2[t[i]] = t[After(i, n + 1)] /\ prev2[t[After(i, n + 1)]] = t[i]
  <2>1. CASE i \in 1 .. (n - 1)
    <3>1. /\ i \in 1 .. n /\ i + 1 \in 1 .. n /\ i # n /\ i + 1 # 1
          /\ After(i, n) = i + 1 /\ After(i, n + 1) = i + 1
      BY <1>2, <2>1 DEF After
    <3>2. /\ t[i] = s[i] /\ t[i + 1] = s[i + 1]
          /\ next[s[i]] = s[i + 1] /\ prev[s[i + 1]] = s[i]
      BY <1>1, <1>2, <3>1
    <3>3. s[i] # last /\ s[i + 1] # from
      BY <1>4, <1>5, <1>6, <3>1
    <3> QED
      BY <1>3, <1>7, <3>1, <3>2, <3>3
  <2>2. CASE i = n
    <3>1. After(i, n + 1) = n + 1 /\ t[i] = last /\ t[n + 1] = c
      BY <1>2, <1>4, <1>5, <2>2 DEF After
    <3> QED
      BY <1>7, <3>1
  <2>3. CASE i = n + 1
    <3>1. After(i, n + 1) = 1 /\ t[i] = c /\ t[1] = from
      BY <1>2, <1>4, <1>5, <2>3 DEF After
    <3> QED
      BY <1>7, <3>1
  <2> QED
    BY <1>2, <2>1, <2>2, <2>3
<1>10. from = IF t = <<>> THEN None ELSE t[1]
  BY <1>2, <1>4, <1>5
<1>11. Spells(t, next2, prev2, from, S \cup {c})
  BY <1>2, <1>8, <1>9, <1>10 DEF Spells
<1> QED
  BY <1>5, <1>11 DEF t, next2, prev2, last, n

(* The turn passes on: the ring is read from the next place. *)
LEMMA TurnedSpells ==
    ASSUME NEW S, NEW next \in Links, NEW prev \in Links, NEW from, NEW s,
           Spells(s, next, prev, from, S), s # <<>>
    PROVE  Spells(Append(Tail(s), Head(s)), next, prev, next[from], S)
<1> DEFINE n == Len(s)
           t == Append(Tail(s), Head(s))
<1>1. /\ s \in Seq(Slots) /\ Once(s) /\ On(s) = S /\ from = s[1]
      /\ \A i \in 1 .. n : next[s[i]] = s[After(i, n)] /\ prev[s[After(i, n)]] = s[i]
  BY DEF Spells
<1>2. /\ n \in Nat \ {0} /\ DOMAIN s = 1 .. n
      /\ Tail(s) \in Seq(Slots) /\ Head(s) = s[1] /\ Head(s) \in Slots /\ Len(Tail(s)) = n - 1
      /\ \A i \in 1 .. (n - 1) : Tail(s)[i] = s[i + 1]
  BY <1>1, HeadTailProperties, EmptySeq, LenProperties
<1>3. /\ t \in Seq(Slots) /\ Len(t) = n /\ DOMAIN t = 1 .. n /\ t # <<>>
      /\ \A i \in 1 .. (n - 1) : t[i] = s[i + 1]
      /\ t[n] = s[1]
  <2>1. /\ t \in Seq(Slots) /\ Len(t) = (n - 1) + 1
        /\ \A i \in 1 .. (n - 1) : t[i] = Tail(s)[i]
        /\ t[(n - 1) + 1] = Head(s)
    BY <1>2, AppendProperties
  <2> QED
    BY <1>2, <2>1
<1> HIDE DEF n, t
<1>4. \A i \in 1 .. n : After(i, n) \in 1 .. n /\ t[i] = s[After(i, n)]
  BY <1>2, <1>3 DEF After
<1>5. \A i \in 1 .. n : \E b \in 1 .. n : After(b, n) = i
  BY <1>2, PlacesInRing
<1>6. \A i, j \in 1 .. n : After(i, n) = After(j, n) => i = j
  BY <1>2 DEF After
<1>7. Once(t)
  BY <1>1, <1>2, <1>3, <1>4, <1>6 DEF Once
<1>8. On(t) = S
  <2>1. ASSUME NEW x \in On(t) PROVE x \in On(s)
    BY <1>2, <1>3, <1>4 DEF On
  <2>2. ASSUME NEW x \in On(s) PROVE x \in On(t)
    <3>1. PICK i \in 1 .. n : x = s[i]
      BY <1>2 DEF On
    <3>2. PICK b \in 1 .. n : After(b, n) = i
      BY <1>5
    <3>3. t[b] = x
      BY <1>4, <3>1, <3>2
    <3> QED
      BY <1>3, <3>3 DEF On
  <2> QED
    BY <1>1, <2>1, <2>2
<1>9. next[from] = t[1]
  <2>1. 1 \in 1 .. n
    BY <1>2
  <2> QED
    BY <1>1, <1>4, <2>1
<1>10. \A i \in 1 .. n : next[t[i]] = t[After(i, n)] /\ prev[t[After(i, n)]] = t[i]
  BY <1>1, <1>4
<1> QED
  BY <1>3, <1>7, <1>8, <1>9, <1>10 DEF Spells, t, n

\* The sequence without its k-th entry, and where its j-th entry comes from.
Skip(j, k) == IF j < k THEN j ELSE j + 1
Cut(s, k)  == [j \in 1 .. (Len(s) - 1) |-> s[Skip(j, k)]]

(* What follows what, once the k-th place of a ring of n is taken out. *)
LEMMA SkipAfter ==
    ASSUME NEW n \in Nat, n > 1, NEW k \in 1 .. n, NEW j \in 1 .. (n - 1)
    PROVE  /\ Skip(j, k) \in 1 .. n /\ Skip(j, k) # k /\ After(j, n - 1) \in 1 .. (n - 1)
           /\ After(Skip(j, k), n) = k => Skip(After(j, n - 1), k) = After(k, n)
           /\ After(Skip(j, k), n) # k => Skip(After(j, n - 1), k) = After(Skip(j, k), n)
<1>1. CASE j < k
  <2>1. Skip(j, k) = j /\ j # n /\ After(j, n) = j + 1
    BY <1>1 DEF Skip, After
  <2>2. CASE j = n - 1
    <3>1. k = n /\ After(j, n - 1) = 1 /\ After(k, n) = 1 /\ Skip(1, k) = 1
      BY <1>1, <2>2 DEF Skip, After
    <3> QED
      BY <2>1, <2>2, <3>1
  <2>3. CASE j # n - 1
    <3>1. After(j, n - 1) = j + 1 /\ j + 1 \in 1 .. (n - 1)
      BY <2>3 DEF After
    <3>2. CASE j + 1 = k
      <4>1. k # n
        BY <2>3, <3>2
      <4>2. Skip(j + 1, k) = j + 2 /\ After(k, n) = j + 2
        BY <3>2, <4>1 DEF Skip, After
      <4> QED
        BY <2>1, <3>1, <3>2, <4>2
    <3>3. CASE j + 1 # k
      BY <1>1, <2>1, <3>1, <3>3 DEF Skip
    <3> QED
      BY <3>2, <3>3
  <2> QED
    BY <2>2, <2>3
<1>2. CASE ~ (j < k)
  <2>1. Skip(j, k) = j + 1 /\ j + 1 \in 1 .. n /\ j + 1 # k
    BY <1>2 DEF Skip
  <2>2. CASE j = n - 1
    <3>1. After(j, n - 1) = 1 /\ After(j + 1, n) = 1 /\ k # n
      BY <1>2, <2>2 DEF After
    <3>2. After(k, n) = k + 1
      BY <3>1 DEF After
    <3>3. Skip(1, k) = IF k = 1 THEN 2 ELSE 1
      BY DEF Skip
    <3> QED
      BY <2>1, <3>1, <3>2, <3>3
  <2>3. CASE j # n - 1
    <3>1. After(j, n - 1) = j + 1 /\ j + 1 \in 1 .. (n - 1) /\ After(j + 1, n) = j + 2
      BY <2>3 DEF After
    <3>2. Skip(j + 1, k) = j + 2 /\ j + 2 # k
      BY <1>2 DEF Skip
    <3> QED
      BY <2>1, <3>1, <3>2
  <2> QED
    BY <2>2, <2>3
<1> QED
  BY <1>1, <1>2

(* A list with one entry cut out. *)
LEMMA CutOnce ==
    ASSUME NEW s \in Seq(Slots), Once(s), NEW k \in 1 .. Len(s)
    PROVE  /\ Cut(s, k) \in Seq(Slots) /\ Len(Cut(s, k)) = Len(s) - 1
           /\ Once(Cut(s, k)) /\ On(Cut(s, k)) = On(s) \ {s[k]}
<1> DEFINE n == Len(s)
           w == Cut(s, k)
<1>1. n \in Nat \ {0} /\ DOMAIN s = 1 .. n /\ \A i \in 1 .. n : s[i] \in Slots
  OBVIOUS
<1>2. \A j \in 1 .. (n - 1) : Skip(j, k) \in 1 .. n /\ Skip(j, k) # k
  BY <1>1 DEF Skip
<1>3. w \in [1 .. (n - 1) -> Slots]
  BY <1>1, <1>2 DEF Cut
<1>4. w \in Seq(Slots) /\ Len(w) = n - 1 /\ DOMAIN w = 1 .. (n - 1)
  <2>1. n - 1 \in Nat
    BY <1>1
  <2> HIDE DEF w, n
  <2> QED
    BY <1>3, <2>1
<1>5. \A j \in 1 .. (n - 1) : w[j] = s[Skip(j, k)]
  BY DEF Cut
<1>6. \A i, j \in 1 .. n : s[i] = s[j] => i = j
  BY <1>1 DEF Once
<1> HIDE DEF n, w
<1>7. Once(w)
  <2>1. \A i, j \in 1 .. (n - 1) : Skip(i, k) = Skip(j, k) => i = j
    BY <1>1 DEF Skip
  <2> QED
    BY <1>2, <1>4, <1>5, <1>6, <2>1 DEF Once
<1>8. On(w) = On(s) \ {s[k]}
  <2>1. ASSUME NEW x \in On(w) PROVE x \in On(s) \ {s[k]}
    <3>1. PICK j \in 1 .. (n - 1) : x = w[j]
      BY <1>4 DEF On
    <3>2. x = s[Skip(j, k)] /\ Skip(j, k) \in 1 .. n /\ Skip(j, k) # k
      BY <1>2, <1>5, <3>1
    <3> QED
      BY <1>1, <1>6, <3>2 DEF On, n
  <2>2. ASSUME NEW x \in On(s) \ {s[k]} PROVE x \in On(w)
    <3>1. PICK i \in 1 .. n : x = s[i]
      BY <1>1, <2>2 DEF On
    <3>2. i # k
      BY <2>2, <3>1
    <3>3. PICK j \in 1 .. (n - 1) : Skip(j, k) = i
      <4>1. CASE i < k
        <5>1. i \in 1 .. (n - 1) /\ Skip(i, k) = i
          BY <1>1, <4>1 DEF Skip, n
        <5> QED
          BY <5>1
      <4>2. CASE ~ (i < k)
        <5>1. i - 1 \in 1 .. (n - 1) /\ Skip(i - 1, k) = i
          BY <1>1, <3>2, <4>2 DEF Skip, n
        <5> QED
          BY <5>1
      <4> QED
        BY <4>1, <4>2
    <3>4. w[j] = x
      BY <1>5, <3>1, <3>3
    <3> QED
      BY <1>4, <3>4 DEF On
  <2> QED
    BY <2>1, <2>2
<1> QED
  BY <1>4, <1>7, <1>8 DEF n, w

(* The only cell. *)
LEMMA LastSpells ==
    ASSUME NEW S, NEW next, NEW prev, NEW from, NEW s,
           Spells(s, next, prev, from, S), NEW k \in 1 .. Len(s), next[s[k]] = s[k]
    PROVE  s = <<s[k]>> /\ Len(s) = 1 /\ k = 1 /\ S \ {s[k]} = {}
<1>1. /\ s \in Seq(Slots) /\ Once(s) /\ On(s) = S
      /\ next[s[k]] = s[After(k, Len(s))]
      /\ Len(s) \in Nat /\ DOMAIN s = 1 .. Len(s)
  BY DEF Spells
<1>2. After(k, Len(s)) = k /\ Len(s) = 1
  <2>1. After(k, Len(s)) \in 1 .. Len(s) /\ (After(k, Len(s)) = k => Len(s) = 1)
    BY <1>1, PlacesInRing
  <2>2. s[After(k, Len(s))] = s[k]
    BY <1>1
  <2>3. After(k, Len(s)) = k
    BY <1>1, <2>1, <2>2 DEF Once
  <2> QED
    BY <2>1, <2>3
<1>3. k = 1 /\ s = <<s[k]>>
  BY <1>1, <1>2
<1>4. S \ {s[k]} = {}
  BY <1>1, <1>2, <1>3 DEF On
<1> QED
  BY <1>2, <1>3, <1>4

(* A cell leaves from any place of a longer ring: its neighbours are linked. *)
LEMMA CutSpells ==
    ASSUME NEW S, NEW next \in Links, NEW prev \in Links, NEW from, NEW s,
           Spells(s, next, prev, from, S), NEW k \in 1 .. Len(s), next[s[k]] # s[k]
    PROVE  /\ next[s[k]] \in S /\ prev[s[k]] \in S /\ Len(s) > 1
           /\ Spells(Cut(s, k), [next EXCEPT ![prev[s[k]]] = next[s[k]], ![s[k]] = None],
                     [prev EXCEPT ![next[s[k]]] = prev[s[k]], ![s[k]] = None],
                     IF from = s[k] THEN next[s[k]] ELSE from, S \ {s[k]})
<1> DEFINE n == Len(s)
           w == Cut(s, k)
           c == s[k]
           nc == next[c]
           pc == prev[c]
           next2 == [next EXCEPT ![pc] = nc, ![c] = None]
           prev2 == [prev EXCEPT ![nc] = pc, ![c] = None]
<1>1. /\ s \in Seq(Slots) /\ Once(s) /\ On(s) = S
      /\ \A i \in 1 .. n : next[s[i]] = s[After(i, n)] /\ prev[s[After(i, n)]] = s[i]
  BY DEF Spells
<1>2. n \in Nat /\ DOMAIN s = 1 .. n /\ \A i \in 1 .. n : s[i] \in Slots /\ s[i] \in S
  BY <1>1 DEF On
<1>3. \A i, j \in 1 .. n : s[i] = s[j] => i = j
  BY <1>1, <1>2 DEF Once
<1>4. n > 1 /\ s # <<>>
  <2>1. k \in 1 .. n /\ n \in Nat /\ next[s[k]] # s[k] /\ next[s[k]] = s[After(k, n)]
    BY <1>1, <1>2
  <2> HIDE DEF n
  <2>2. n = 1 => After(k, n) = k
    BY <2>1 DEF After
  <2>3. n # 1
    BY <2>1, <2>2
  <2>4. n > 1
    BY <2>1, <2>3
  <2>5. s # <<>>
    BY <1>1, <2>4, EmptySeq DEF n
  <2> QED
    BY <2>4, <2>5
<1>5. PICK b \in 1 .. n : After(b, n) = k
  BY <1>2, PlacesInRing
<1>6. After(k, n) \in 1 .. n
  BY <1>2, PlacesInRing
<1>7. nc = s[After(k, n)] /\ pc = s[b] /\ next[pc] = c /\ prev[nc] = c
  BY <1>1, <1>5
<1>8. nc # c /\ pc # c /\ c \in Slots /\ nc \in Slots /\ pc \in Slots /\ nc \in S /\ pc \in S
  <2>1. nc # c
    OBVIOUS
  <2>2. pc # c
    BY <1>7, <2>1
  <2> QED
    BY <1>2, <1>5, <1>6, <1>7, <2>1, <2>2
<1>9. /\ next2[pc] = nc /\ \A d \in Slots : d # c /\ d # pc => next2[d] = next[d]
      /\ prev2[nc] = pc /\ \A d \in Slots : d # c /\ d # nc => prev2[d] = prev[d]
  BY <1>8 DEF Links
<1>10. w \in Seq(Slots) /\ Len(w) = n - 1 /\ Once(w) /\ On(w) = S \ {c}
  BY <1>1, CutOnce
<1>11. \A j \in 1 .. (n - 1) : w[j] = s[Skip(j, k)]
  BY DEF Cut
<1> HIDE DEF n, w, c, nc, pc, next2, prev2
<1>12. ASSUME NEW j \in 1 .. (n - 1)
       PROVE  next2[w[j]] = w[After(j, n - 1)] /\ prev2[w[After(j, n - 1)]] = w[j]
  <2> DEFINE i == Skip(j, k)
             a == After(j, n - 1)
  <2>1. /\ i \in 1 .. n /\ i # k /\ a \in 1 .. (n - 1)
        /\ After(i, n) = k => Skip(a, k) = After(k, n)
        /\ After(i, n) # k => Skip(a, k) = After(i, n)
    BY <1>2, <1>4, SkipAfter DEF n
  <2>2. w[j] = s[i] /\ w[a] = s[Skip(a, k)]
    BY <1>11, <2>1
  <2>3. Skip(a, k) \in 1 .. n /\ After(i, n) \in 1 .. n
    BY <1>2, <1>6, <2>1, PlacesInRing
  <2>4. next[s[i]] = s[After(i, n)] /\ prev[s[After(i, n)]] = s[i]
    BY <1>1, <2>1
  <2> HIDE DEF i, a
  <2>5. s[i] # c /\ s[i] \in Slots
    BY <1>2, <1>3, <2>1 DEF c, n
  <2>6. CASE After(i, n) = k
    <3>1. s[i] = pc /\ w[a] = nc
      BY <1>7, <2>1, <2>2, <2>4, <2>6 DEF c, pc
    <3> QED
      BY <1>9, <2>2, <3>1 DEF a
  <2>7. CASE After(i, n) # k
    <3>1. w[a] = s[After(i, n)] /\ w[a] # c /\ w[a] \in Slots
      BY <1>2, <1>3, <2>1, <2>2, <2>3, <2>7 DEF c, n
    <3>2. s[i] # pc
      BY <1>7, <2>4, <3>1
    <3>3. w[a] # nc
      BY <1>7, <2>4, <2>5, <3>1
    <3> QED
      BY <1>9, <2>2, <2>4, <2>5, <3>1, <3>2, <3>3 DEF a
  <2> QED
    BY <2>6, <2>7
<1>13. w # <<>> /\ w[1] = IF from = c THEN nc ELSE from
  <2>1. 1 \in 1 .. (n - 1) /\ 1 \in 1 .. n /\ from = s[1]
    BY <1>1, <1>2, <1>4 DEF Spells
  <2>2. w # <<>>
    BY <1>2, <1>4, <1>10
  <2>3. CASE k = 1
    <3>1. Skip(1, k) = 2 /\ After(k, n) = 2 /\ from = c
      BY <1>2, <1>4, <2>1, <2>3 DEF Skip, After, c
    <3> QED
      BY <1>7, <1>11, <2>1, <2>2, <3>1
  <2>4. CASE k # 1
    <3>1. Skip(1, k) = 1 /\ from # c
      BY <1>2, <1>3, <2>1, <2>4 DEF Skip, c, n
    <3> QED
      BY <1>11, <2>1, <2>2, <3>1
  <2> QED
    BY <2>3, <2>4
<1>14. Spells(w, next2, prev2, IF from = c THEN nc ELSE from, S \ {c})
  BY <1>10, <1>12, <1>13 DEF Spells
<1> QED
  BY <1>4, <1>8, <1>14 DEF n, w, c, nc, pc, next2, prev2

---------------------------------------------------------------------------
(* What is known of a list that is spelled out. *)

LEMMA SpelledRing ==
    ASSUME NEW S, NEW next, NEW prev, NEW from, NEW s, Spells(s, next, prev, from, S)
    PROVE  /\ \A c \in S : next[c] \in S /\ prev[next[c]] = c
           /\ S = {} <=> from = None
           /\ s = <<>> <=> from = None
           /\ s # <<>> => LastOf(s) \in S /\ from \in S /\ next[LastOf(s)] = from
<1> DEFINE n == Len(s)
<1>1. /\ s \in Seq(Slots) /\ On(s) = S /\ n \in Nat /\ DOMAIN s = 1 .. n
      /\ from = IF s = <<>> THEN None ELSE s[1]
      /\ \A i \in 1 .. n : next[s[i]] = s[After(i, n)] /\ prev[s[After(i, n)]] = s[i]
  BY DEF Spells
<1>2. s = <<>> <=> n = 0
  BY <1>1, EmptySeq
<1>3. \A i \in 1 .. n : s[i] \in S /\ s[i] \in Slots /\ s[i] # None
  <2>1. None \notin Slots
    BY MaxSlotsAssumption DEF Slots, None
  <2>2. \A i \in 1 .. n : s[i] \in S /\ s[i] \in Slots
    BY <1>1 DEF On
  <2> QED
    BY <2>1, <2>2
<1> HIDE DEF n
<1>4. ASSUME NEW c \in S
      PROVE  next[c] \in S /\ prev[next[c]] = c
  <2>1. PICK k \in 1 .. n : s[k] = c
    BY <1>1 DEF On
  <2>2. After(k, n) \in 1 .. n
    BY <1>1, PlacesInRing
  <2> QED
    BY <1>1, <1>3, <2>1, <2>2
<1>5. ASSUME s # <<>>
      PROVE  LastOf(s) \in S /\ from \in S /\ next[LastOf(s)] = from /\ from # None
  <2>1. 1 \in 1 .. n /\ n \in 1 .. n /\ After(n, n) = 1
    BY <1>1, <1>2, <1>5 DEF After
  <2>2. LastOf(s) = s[n] /\ from = s[1]
    BY <1>1, <1>5 DEF LastOf, n
  <2> QED
    BY <1>1, <1>3, <2>1, <2>2
<1>6. s = <<>> => S = {} /\ from = None
  <2>1. s = <<>> => 1 .. n = {}
    BY <1>2
  <2> QED
    BY <1>1, <2>1 DEF On
<1> QED
  BY <1>4, <1>5, <1>6 DEF n

LEMMA SpelledHas ==
    ASSUME NEW S, NEW next, NEW prev, NEW from, NEW s, Spells(s, next, prev, from, S), NEW c \in S
    PROVE  \E k \in 1 .. Len(s) : s[k] = c
<1>1. s \in Seq(Slots) /\ On(s) = S
  BY DEF Spells
<1> QED
  BY <1>1 DEF On

LEMMA InvIsTwoRings == QueuesInv => TwoRingsOfTheLiving
<1> SUFFICES ASSUME QueuesInv PROVE TwoRingsOfTheLiving
  OBVIOUS
<1>1. /\ is_active = alive /\ bottom_reap = LastOf(LineOf)
      /\ Spells(RingOf, n_time, p_time, this_slice, alive)
      /\ Spells(LineOf, n_reap, p_reap, top_reap, alive)
  BY DEF QueuesInv
<1>2. /\ \A c \in alive : n_time[c] \in alive /\ p_time[n_time[c]] = c
      /\ alive = {} <=> this_slice = None
  BY <1>1, SpelledRing
<1>3. /\ \A c \in alive : n_reap[c] \in alive /\ p_reap[n_reap[c]] = c
      /\ alive = {} <=> top_reap = None
      /\ LineOf = <<>> <=> top_reap = None
      /\ LineOf # <<>> => n_reap[LastOf(LineOf)] = top_reap
  BY <1>1, SpelledRing
<1>4. {RingOf[i] : i \in DOMAIN RingOf} = alive /\ {LineOf[i] : i \in DOMAIN LineOf} = alive
  BY <1>1 DEF Spells, On
<1> QED
  BY <1>1, <1>2, <1>3, <1>4 DEF TwoRingsOfTheLiving

LEMMA StillTwoRings ==
    ASSUME QTypeOK', is_active' = alive', NEW r, NEW l,
           Spells(r, n_time', p_time', this_slice', alive'),
           Spells(l, n_reap', p_reap', top_reap', alive'), bottom_reap' = LastOf(l)
    PROVE  QueuesInv' /\ RingOf' = r /\ LineOf' = l
<1>1. Walk(n_time', this_slice', Cardinality(alive')) = r
  BY SpelledIsWalked
<1>2. Walk(n_reap', top_reap', Cardinality(alive')) = l
  BY SpelledIsWalked
<1>3. RingOf' = r
  BY <1>1 DEF RingOf
<1>4. LineOf' = l
  BY <1>2 DEF LineOf
<1> QED
  BY <1>3, <1>4 DEF QueuesInv

LEMMA NobodySpells ==
    ASSUME NEW next, NEW prev
    PROVE  Spells(<<>>, next, prev, None, {})
<1>1. <<>> \in Seq(Slots) /\ Len(<<>>) = 0 /\ DOMAIN <<>> = 1 .. 0
  OBVIOUS
<1> QED
  BY <1>1 DEF Spells, Once, On

LEMMA InitQueuesInv == QInit => QueuesInv /\ RingOf = <<>> /\ LineOf = <<>>
<1> SUFFICES ASSUME QInit PROVE QueuesInv /\ RingOf = <<>> /\ LineOf = <<>>
  OBVIOUS
<1>1. Spells(<<>>, n_time, p_time, None, {}) /\ Spells(<<>>, n_reap, p_reap, None, {})
  BY NobodySpells
<1>2. RingOf = <<>>
  BY <1>1, SpelledIsWalked DEF QInit, RingOf
<1>3. LineOf = <<>>
  BY <1>1, SpelledIsWalked DEF QInit, LineOf
<1>4. QTypeOK
  BY DEF QInit, QTypeOK, NoLinks, None
<1> QED
  BY <1>1, <1>2, <1>3, <1>4 DEF QInit, QueuesInv, LastOf

---------------------------------------------------------------------------
(* A birth. *)

LEMMA FreeSlotIsDead ==
    ASSUME alive \subseteq Slots, Cardinality(alive) < MaxSlots
    PROVE  FreeSlot \in Slots \ alive
<1>1. MaxSlots \in Nat
  BY MaxSlotsAssumption
<1>2. IsFiniteSet(Slots) /\ Cardinality(Slots) = MaxSlots
  <2>1. 0 \in Int /\ MaxSlots - 1 \in Int /\ ~ (0 > MaxSlots - 1) /\ (MaxSlots - 1) - 0 + 1 = MaxSlots
    BY MaxSlotsAssumption
  <2> QED
    BY <2>1, FS_Interval DEF Slots
<1>3. Slots \ alive # {}
  <2>1. Slots # alive
    BY <1>1, <1>2
  <2> QED
    BY <2>1
<1>4. PICK m \in Slots \ alive : \A x \in Slots \ alive : m <= x
  <2>1. Slots \ alive \in SUBSET Nat
    BY MaxSlotsAssumption DEF Slots
  <2> QED
    BY <1>3, <2>1, LeastPlace
<1>5. FreeSlot \in Slots \ alive
  BY <1>4 DEF FreeSlot, Min
<1> QED
  BY <1>5

LEMMA Births ==
    ASSUME QueuesInv, Birth
    PROVE  /\ QueuesInv' /\ FreeSlot \in Slots \ alive
           /\ RingOf' = Append(RingOf, FreeSlot) /\ LineOf' = Append(LineOf, FreeSlot)
<1> DEFINE c == FreeSlot
           r == RingOf
           l == LineOf
<1>1. /\ QTypeOK /\ is_active = alive /\ bottom_reap = LastOf(l)
      /\ Spells(r, n_time, p_time, this_slice, alive)
      /\ Spells(l, n_reap, p_reap, top_reap, alive)
  BY DEF QueuesInv
<1>2. c \in Slots \ alive /\ alive \subseteq Slots
  BY <1>1, FreeSlotIsDead DEF Birth, QTypeOK
<1>3. n_time \in Links /\ p_time \in Links /\ n_reap \in Links /\ p_reap \in Links
  BY <1>1 DEF QTypeOK, Links
<1>4. alive' = alive \cup {c} /\ EntBotSlicer(c) /\ EntBotReaper(c)
  BY DEF Birth
<1>5. /\ alive = {} <=> this_slice = None
      /\ r = <<>> <=> this_slice = None
      /\ r # <<>> => this_slice \in alive
  BY <1>1, SpelledRing
<1>6. /\ alive = {} <=> top_reap = None
      /\ l = <<>> <=> top_reap = None
      /\ l # <<>> => LastOf(l) \in alive /\ top_reap \in alive
  BY <1>1, SpelledRing
<1>0. None \notin Slots
  BY DEF None, Slots
<1> HIDE DEF c, r, l
<1>7. /\ Spells(Append(r, c), n_time', p_time', this_slice', alive')
      /\ n_time' \in Links /\ p_time' \in Links /\ this_slice' \in Slots /\ is_active' = alive'
  <2>1. CASE alive = {}
    <3>1. r = <<>> /\ this_slice = None /\ alive' = {c} /\ Append(r, c) = <<c>>
      BY <1>4, <1>5, <2>1
    <3>2. n_time' = [n_time EXCEPT ![c] = c] /\ p_time' = [p_time EXCEPT ![c] = c] /\ this_slice' = c
      BY <1>4, <3>1 DEF EntBotSlicer
    <3>3. Spells(<<c>>, [n_time EXCEPT ![c] = c], [p_time EXCEPT ![c] = c], c, {c})
      BY <1>2, <1>3, FirstSpells
    <3>4. is_active' = alive'
      BY <1>1, <1>4 DEF EntBotSlicer
    <3>5. n_time' \in Links /\ p_time' \in Links
      BY <1>2, <1>3, <3>2 DEF Links
    <3> QED
      BY <1>2, <3>1, <3>2, <3>3, <3>4, <3>5
  <2>2. CASE alive # {}
    <3> DEFINE last == r[Len(r)]
    <3>1. r # <<>> /\ this_slice # None /\ this_slice \in alive
      BY <1>5, <2>2
    <3>0. p_time[this_slice] = last /\ last \in alive
      <4>1. Spells(r, n_time, p_time, this_slice, alive)
        BY <1>1
      <4>2. LastOf(r) \in alive /\ n_time[LastOf(r)] = this_slice
        BY <3>1, <4>1, SpelledRing
      <4>3. p_time[n_time[LastOf(r)]] = LastOf(r)
        BY <4>1, <4>2, SpelledRing
      <4> QED
        BY <3>1, <4>2, <4>3 DEF LastOf
    <3>2. /\ p_time[this_slice] = last /\ last \in alive
          /\ Spells(Append(r, c), [n_time EXCEPT ![c] = this_slice, ![last] = c],
                    [p_time EXCEPT ![c] = last, ![this_slice] = c], this_slice, alive \cup {c})
      BY <1>1, <1>2, <1>3, <3>0, <3>1, AppendSpells
    <3> HIDE DEF last
    <3>3. /\ n_time' = [n_time EXCEPT ![c] = this_slice, ![last] = c]
          /\ p_time' = [p_time EXCEPT ![c] = last, ![this_slice] = c]
          /\ this_slice' = this_slice /\ is_active' = alive'
      BY <1>1, <1>4, <3>1, <3>2 DEF EntBotSlicer
    <3>4. n_time' \in Links /\ p_time' \in Links
      BY <1>2, <1>3, <3>1, <3>2, <3>3 DEF Links
    <3> QED
      BY <1>2, <1>4, <3>1, <3>2, <3>3, <3>4
  <2> QED
    BY <2>1, <2>2
<1>8. /\ Spells(Append(l, c), n_reap', p_reap', top_reap', alive')
      /\ n_reap' \in Links /\ p_reap' \in Links /\ top_reap' \in Slots /\ bottom_reap' = c
  <2>1. CASE alive = {}
    <3>1. l = <<>> /\ bottom_reap = None /\ alive' = {c} /\ Append(l, c) = <<c>>
      BY <1>1, <1>4, <1>6, <2>1 DEF LastOf
    <3>2. /\ n_reap' = [n_reap EXCEPT ![c] = c] /\ p_reap' = [p_reap EXCEPT ![c] = c]
          /\ top_reap' = c /\ bottom_reap' = c
      BY <1>4, <3>1 DEF EntBotReaper
    <3>3. Spells(<<c>>, [n_reap EXCEPT ![c] = c], [p_reap EXCEPT ![c] = c], c, {c})
      BY <1>2, <1>3, FirstSpells
    <3>4. n_reap' \in Links /\ p_reap' \in Links
      BY <1>2, <1>3, <3>2 DEF Links
    <3> QED
      BY <1>2, <3>1, <3>2, <3>3, <3>4
  <2>2. CASE alive # {}
    <3> DEFINE last == l[Len(l)]
    <3>1. l # <<>> /\ bottom_reap = last /\ bottom_reap # None /\ top_reap \in alive
      BY <1>0, <1>1, <1>2, <1>6, <2>2 DEF LastOf
    <3>2. /\ n_reap[last] = top_reap /\ last \in alive
          /\ Spells(Append(l, c), [n_reap EXCEPT ![c] = top_reap, ![last] = c],
                    [p_reap EXCEPT ![c] = last, ![top_reap] = c], top_reap, alive \cup {c})
      BY <1>1, <1>2, <1>3, <3>1, AppendSpells
    <3> HIDE DEF last
    <3>3. /\ n_reap' = [n_reap EXCEPT ![c] = top_reap, ![last] = c]
          /\ p_reap' = [p_reap EXCEPT ![c] = last, ![top_reap] = c]
          /\ top_reap' = top_reap /\ bottom_reap' = c
      BY <1>4, <3>1, <3>2 DEF EntBotReaper
    <3>4. n_reap' \in Links /\ p_reap' \in Links
      BY <1>2, <1>3, <3>1, <3>2, <3>3 DEF Links
    <3> QED
      BY <1>2, <1>4, <3>1, <3>2, <3>3, <3>4
  <2> QED
    BY <2>1, <2>2
<1>9. QTypeOK'
  BY <1>2, <1>4, <1>7, <1>8 DEF QTypeOK, Links
<1>10. bottom_reap' = LastOf(Append(l, c))
  <2>1. l \in Seq(Slots)
    BY <1>1 DEF Spells
  <2>2. Append(l, c) # <<>> /\ Append(l, c)[Len(Append(l, c))] = c
    BY <1>2, <2>1
  <2> QED
    BY <1>8, <2>2 DEF LastOf
<1>11. QueuesInv' /\ RingOf' = Append(r, c) /\ LineOf' = Append(l, c)
  BY <1>7, <1>8, <1>9, <1>10, StillTwoRings
<1> QED
  BY <1>2, <1>11 DEF c, r, l

---------------------------------------------------------------------------
(* A death. *)

\* c is unlinked: what both removals of queues.py do to the links and the way in.
Unlinks(next, prev, from, c, next2, prev2, from2) ==
    IF next[c] = c
    THEN /\ from2 = None
         /\ next2 = [next EXCEPT ![c] = None] /\ prev2 = [prev EXCEPT ![c] = None]
    ELSE /\ next2 = [next EXCEPT ![prev[c]] = next[c], ![c] = None]
         /\ prev2 = [prev EXCEPT ![next[c]] = prev[c], ![c] = None]
         /\ from2 = IF from = c THEN next[c] ELSE from

(* Unlinking the k-th cell, the last one or not. *)
LEMMA UnlinkedSpells ==
    ASSUME NEW S \in SUBSET Slots, NEW next \in Links, NEW prev \in Links, NEW from, NEW s,
           Spells(s, next, prev, from, S), NEW k \in 1 .. Len(s), NEW c, c = s[k],
           NEW next2, NEW prev2, NEW from2,
           Unlinks(next, prev, from, c, next2, prev2, from2)
    PROVE  /\ Spells(Cut(s, k), next2, prev2, from2, S \ {c})
           /\ next2 \in Links /\ prev2 \in Links /\ from2 \in Slots \cup {None}
<1>1. s \in Seq(Slots) /\ On(s) = S /\ c \in S
  BY DEF Spells, On
<1>2. CASE next[c] = c
  <2>0. next[s[k]] = s[k]
    BY <1>2
  <2>4. s = <<s[k]>> /\ k = 1 /\ Len(s) = 1 /\ S \ {s[k]} = {}
    BY <2>0, LastSpells
  <2>5. Spells(<<>>, next2, prev2, None, S \ {s[k]})
    <3>1. Spells(<<>>, next2, prev2, None, {})
      BY NobodySpells
    <3>2. S \ {s[k]} = {}
      BY <2>4
    <3> QED
      BY <3>1, <3>2, Zenon
  <2>1. s = <<c>> /\ k = 1 /\ Len(s) = 1 /\ Spells(<<>>, next2, prev2, None, S \ {c})
    BY <2>4, <2>5
  <2>2. Cut(s, k) = <<>>
    BY <2>1 DEF Cut
  <2>6. /\ from2 = None
        /\ next2 = [next EXCEPT ![c] = None] /\ prev2 = [prev EXCEPT ![c] = None]
    BY <1>2 DEF Unlinks
  <2>3. next2 \in Links /\ prev2 \in Links
    BY <1>1, <2>6 DEF Links
  <2> QED
    BY <2>1, <2>2, <2>3, <2>6
<1>3. CASE next[c] # c
  <2>0. next[s[k]] # s[k]
    BY <1>3
  <2>1. next[c] \in S /\ prev[c] \in S
    BY <2>0, CutSpells
  <2>5. Spells(Cut(s, k), [next EXCEPT ![prev[s[k]]] = next[s[k]], ![s[k]] = None],
               [prev EXCEPT ![next[s[k]]] = prev[s[k]], ![s[k]] = None],
               IF from = s[k] THEN next[s[k]] ELSE from, S \ {s[k]})
    BY <2>0, CutSpells
  <2>6. /\ next2 = [next EXCEPT ![prev[c]] = next[c], ![c] = None]
        /\ prev2 = [prev EXCEPT ![next[c]] = prev[c], ![c] = None]
        /\ from2 = IF from = c THEN next[c] ELSE from
    BY <1>3 DEF Unlinks
  <2>2. Spells(Cut(s, k), next2, prev2, from2, S \ {c})
    BY <2>5, <2>6
  <2>3. next2 \in Links /\ prev2 \in Links
    BY <1>1, <2>1, <2>6 DEF Links
  <2>4. from \in S
    <3>1. s # <<>>
      BY <1>1, EmptySeq
    <3> QED
      BY <3>1, SpelledRing
  <2> QED
    BY <2>1, <2>2, <2>3, <2>4, <2>6
<1> QED
  BY <1>2, <1>3

LEMMA CutFirst ==
    ASSUME NEW s \in Seq(Slots), s # <<>>
    PROVE  Cut(s, 1) = Tail(s) /\ LastOf(Cut(s, 1)) = IF Len(s) = 1 THEN None ELSE LastOf(s)
<1>1. Len(s) \in Nat \ {0} /\ DOMAIN s = 1 .. Len(s)
  BY EmptySeq
<1>2. \A j \in 1 .. Len(s) - 1 : Skip(j, 1) = j + 1
  BY DEF Skip
<1>3. Cut(s, 1) = [j \in 1 .. Len(s) - 1 |-> s[j + 1]]
  BY <1>2 DEF Cut
<1>4. Cut(s, 1) = Tail(s) /\ Tail(s) \in Seq(Slots) /\ Len(Tail(s)) = Len(s) - 1
  BY <1>3
<1>5. CASE Len(s) = 1
  <2>1. Cut(s, 1) = <<>>
    BY <1>4, <1>5, EmptySeq
  <2> QED
    BY <1>4, <1>5, <2>1 DEF LastOf
<1>6. CASE Len(s) # 1
  <2>1. Cut(s, 1) # <<>> /\ Len(s) - 1 \in 1 .. Len(s) - 1
    BY <1>1, <1>4, <1>6, EmptySeq
  <2>2. Cut(s, 1)[Len(s) - 1] = s[Len(s)]
    BY <1>1, <1>3, <2>1
  <2> QED
    BY <1>4, <1>6, <2>1, <2>2 DEF LastOf
<1> QED
  BY <1>4, <1>5, <1>6

LEMMA WithoutIsCut ==
    ASSUME NEW s \in Seq(Slots), Once(s), NEW k \in 1 .. Len(s)
    PROVE  Order!Without(s, s[k]) = Cut(s, k)
<1>1. DOMAIN s = 1 .. Len(s) /\ \A i \in 1 .. Len(s) : s[i] = s[k] => i = k
  BY DEF Once
<1>2. (CHOOSE i \in DOMAIN s : s[i] = s[k]) = k
  BY <1>1
<1>3. s[k] \in Order!Members(s)
  BY <1>1 DEF Order!Members
<1> QED
  BY <1>2, <1>3 DEF Order!Without, Cut, Skip

LEMMA Deaths ==
    ASSUME QueuesInv, Death
    PROVE  /\ QueuesInv' /\ LineOf # <<>>
           /\ RingOf' = Order!Without(RingOf, Head(LineOf)) /\ LineOf' = Tail(LineOf)
<1> DEFINE c == top_reap
           r == RingOf
           l == LineOf
<1>1. /\ QTypeOK /\ is_active = alive /\ bottom_reap = LastOf(l)
      /\ Spells(r, n_time, p_time, this_slice, alive)
      /\ Spells(l, n_reap, p_reap, c, alive)
  BY DEF QueuesInv
<1>2. c # None /\ c \in alive /\ RmvFromSlicer(c) /\ RmvFromReaper(c) /\ alive' = alive \ {c}
  BY DEF Death
<1>3. /\ n_time \in Links /\ p_time \in Links /\ n_reap \in Links /\ p_reap \in Links
      /\ alive \subseteq Slots /\ bottom_reap \in Slots \cup {None}
  BY <1>1 DEF QTypeOK, Links
<1>4. PICK k \in 1 .. Len(r) : r[k] = c
  <2>1. Spells(r, n_time, p_time, this_slice, alive) /\ c \in alive
    BY <1>1, <1>2
  <2> HIDE DEF c, r
  <2> QED
    BY <2>1, SpelledHas
<1>5. /\ l \in Seq(Slots) /\ l # <<>> /\ c = l[1] /\ Len(l) \in Nat \ {0} /\ 1 \in 1 .. Len(l)
      /\ Head(l) = c /\ r \in Seq(Slots) /\ Once(r)
  <2>1. l \in Seq(Slots) /\ l # <<>> /\ c = l[1] /\ r \in Seq(Slots) /\ Once(r)
    BY <1>1, <1>2 DEF Spells
  <2> HIDE DEF l
  <2>2. Len(l) \in Nat \ {0}
    BY <2>1, EmptySeq
  <2> QED
    BY <2>1, <2>2
<1> HIDE DEF c, r, l
<1>6. /\ Spells(Cut(r, k), n_time', p_time', this_slice', alive')
      /\ n_time' \in Links /\ p_time' \in Links /\ this_slice' \in Slots \cup {None}
      /\ is_active' = alive'
  <2>1. Unlinks(n_time, p_time, this_slice, c, n_time', p_time', this_slice')
    BY <1>1, <1>2 DEF RmvFromSlicer, Unlinks
  <2>3. is_active' = alive'
    BY <1>1, <1>2 DEF RmvFromSlicer
  <2>4. c = r[k]
    BY <1>4
  <2>5. Spells(r, n_time, p_time, this_slice, alive)
    BY <1>1
  <2>6. /\ Spells(Cut(r, k), n_time', p_time', this_slice', alive \ {c})
        /\ n_time' \in Links /\ p_time' \in Links /\ this_slice' \in Slots \cup {None}
    BY <1>3, <2>1, <2>4, <2>5, UnlinkedSpells
  <2> QED
    BY <1>2, <2>3, <2>6
<1>7. /\ Spells(Cut(l, 1), n_reap', p_reap', top_reap', alive')
      /\ n_reap' \in Links /\ p_reap' \in Links /\ top_reap' \in Slots \cup {None}
  <2>1. Unlinks(n_reap, p_reap, c, c, n_reap', p_reap', top_reap')
    BY <1>2 DEF RmvFromReaper, Unlinks, c
  <2>2. c = l[1] /\ 1 \in 1 .. Len(l)
    BY <1>5
  <2>3. Spells(l, n_reap, p_reap, c, alive)
    BY <1>1
  <2>4. /\ Spells(Cut(l, 1), n_reap', p_reap', top_reap', alive \ {c})
        /\ n_reap' \in Links /\ p_reap' \in Links /\ top_reap' \in Slots \cup {None}
    BY <1>3, <2>1, <2>2, <2>3, UnlinkedSpells
  <2> QED
    BY <1>2, <2>4
<1>8. bottom_reap' = LastOf(Cut(l, 1)) /\ bottom_reap' \in Slots \cup {None}
  <2>1. Cut(l, 1) = Tail(l) /\ LastOf(Cut(l, 1)) = IF Len(l) = 1 THEN None ELSE LastOf(l)
    BY <1>5, CutFirst
  <2>2. CASE n_reap[c] = c
    <3>0. Spells(l, n_reap, p_reap, c, alive) /\ 1 \in 1 .. Len(l) /\ n_reap[l[1]] = l[1]
      BY <1>1, <1>5, <2>2
    <3>1. Len(l) = 1
      BY <1>3, <3>0, LastSpells
    <3>2. bottom_reap' = None
      BY <1>2, <2>2 DEF RmvFromReaper, c
    <3> QED
      BY <2>1, <3>1, <3>2
  <2>3. CASE n_reap[c] # c
    <3>0. n_reap[l[1]] = l[After(1, Len(l))] /\ n_reap[l[1]] # l[1] /\ Len(l) \in Nat \ {0}
      BY <1>1, <1>5, <2>3 DEF Spells
    <3>6. Len(l) # 1
      <4>1. Len(l) = 1 => After(1, Len(l)) = 1
        BY DEF After
      <4> QED
        BY <3>0, <4>1
    <3>7. \A m \in Nat \ {0} : m # 1 => m > 1
      OBVIOUS
    <3>1. Len(l) > 1
      BY <3>0, <3>6, <3>7
    <3>2. LastOf(l) = l[Len(l)] /\ Once(l) /\ DOMAIN l = 1 .. Len(l)
      BY <1>1, <1>5 DEF LastOf, Spells
    <3>3. LastOf(l) # c
      BY <1>5, <3>1, <3>2 DEF Once
    <3>4. bottom_reap' = bottom_reap
      BY <1>1, <1>2, <2>3, <3>3 DEF RmvFromReaper, c
    <3>5. LastOf(Cut(l, 1)) = LastOf(l)
      BY <1>5, <2>1, <3>1
    <3> QED
      BY <1>1, <1>3, <3>4, <3>5
  <2> QED
    BY <2>2, <2>3
<1>9. QTypeOK'
  BY <1>2, <1>3, <1>6, <1>7, <1>8 DEF QTypeOK, Links
<1>10. QueuesInv' /\ RingOf' = Cut(r, k) /\ LineOf' = Cut(l, 1)
  BY <1>6, <1>7, <1>8, <1>9, StillTwoRings
<1>11. Order!Without(r, c) = Cut(r, k) /\ Cut(l, 1) = Tail(l)
  BY <1>4, <1>5, WithoutIsCut, CutFirst
<1> QED
  BY <1>5, <1>10, <1>11 DEF c, r, l

---------------------------------------------------------------------------
(* The turn, and steps that leave the queues alone. *)

LEMMA Turns ==
    ASSUME QueuesInv, IncrSliceQueue
    PROVE  QueuesInv' /\ RingOf # <<>> /\ RingOf' = Order!Turned(RingOf) /\ LineOf' = LineOf
<1> DEFINE r == RingOf
           l == LineOf
<1>1. /\ QTypeOK /\ is_active = alive /\ bottom_reap = LastOf(l)
      /\ Spells(r, n_time, p_time, this_slice, alive)
      /\ Spells(l, n_reap, p_reap, top_reap, alive)
  BY DEF QueuesInv
<1>2. /\ this_slice # None /\ this_slice' = n_time[this_slice]
      /\ n_time' = n_time /\ p_time' = p_time /\ is_active' = is_active /\ alive' = alive
      /\ top_reap' = top_reap /\ bottom_reap' = bottom_reap /\ n_reap' = n_reap /\ p_reap' = p_reap
  BY DEF IncrSliceQueue, reaper
<1>3. r # <<>>
  BY <1>1, <1>2, SpelledRing
<1>4. n_time \in Links /\ p_time \in Links
  BY <1>1 DEF QTypeOK, Links
<1> HIDE DEF r, l
<1>5. Spells(Append(Tail(r), Head(r)), n_time', p_time', this_slice', alive')
  <2>1. Spells(Append(Tail(r), Head(r)), n_time, p_time, n_time[this_slice], alive)
    BY <1>1, <1>3, <1>4, TurnedSpells
  <2> QED
    BY <1>2, <2>1
<1>6. Spells(l, n_reap', p_reap', top_reap', alive')
  BY <1>1, <1>2
<1>7. QTypeOK'
  <2>1. this_slice \in Slots
    BY <1>1, <1>2 DEF QTypeOK
  <2>2. n_time[this_slice] \in Slots \cup {None}
    BY <1>4, <2>1 DEF Links
  <2> QED
    BY <1>1, <1>2, <2>2 DEF QTypeOK
<1>8. QueuesInv' /\ RingOf' = Append(Tail(r), Head(r)) /\ LineOf' = l
  BY <1>1, <1>2, <1>5, <1>6, <1>7, StillTwoRings
<1> QED
  BY <1>3, <1>8 DEF r, l, Order!Turned

LEMMA Rests ==
    ASSUME QueuesInv, UNCHANGED qvars
    PROVE  QueuesInv' /\ RingOf' = RingOf /\ LineOf' = LineOf
<1>1. /\ n_time' = n_time /\ p_time' = p_time /\ is_active' = is_active /\ alive' = alive
      /\ this_slice' = this_slice
      /\ top_reap' = top_reap /\ bottom_reap' = bottom_reap /\ n_reap' = n_reap /\ p_reap' = p_reap
  BY DEF qvars, slicer, reaper
<1>2. QTypeOK'
  BY <1>1 DEF QueuesInv, QTypeOK
<1>3. /\ Spells(RingOf, n_time', p_time', this_slice', alive')
      /\ Spells(LineOf, n_reap', p_reap', top_reap', alive')
      /\ is_active' = alive' /\ bottom_reap' = LastOf(LineOf)
  BY <1>1 DEF QueuesInv
<1> QED
  BY <1>2, <1>3, StillTwoRings

LEMMA QueuesInvHolds == QSpec => []QueuesInv
<1>1. QInit => QueuesInv
  BY InitQueuesInv
<1>2. QueuesInv /\ [QNext]_qvars => QueuesInv'
  BY Births, Deaths, Turns, Rests DEF QNext
<1> QED
  BY <1>1, <1>2, PTL DEF QSpec

---------------------------------------------------------------------------

(* The queues only ever hold slots, or -1 where nothing is linked.           *)
THEOREM CellQueuesTypeCorrect == QSpec => []QTypeOK
<1>1. QueuesInv => QTypeOK
  BY DEF QueuesInv
<1> QED
  BY <1>1, QueuesInvHolds, PTL

(* For every number of slots, after any births, deaths and turns: both lists *)
(* of the scheduler (queues.py) are rings over exactly the living cells,     *)
(* linked both ways, and bottom_reap closes the reaper's.                    *)
THEOREM QueuesAreTwoRings == QSpec => []TwoRingsOfTheLiving
BY InvIsTwoRings, QueuesInvHolds, PTL

(* The links of queues.py do what a ring and a line would: newcomers take    *)
(* the last place of both, only the head of the line leaves, and the turn    *)
(* passes from each cell to the one behind it.                               *)
THEOREM QueuesRefineOrder == QSpec => RefinesOrder
<1>1. QInit => Order!Init
  BY InitQueuesInv DEF Order!Init
<1>2. QueuesInv /\ [QNext]_qvars => [Order!Next]_(Order!vars)
  <2> SUFFICES ASSUME QueuesInv, [QNext]_qvars PROVE [Order!Next]_(Order!vars)
    OBVIOUS
  <2>1. CASE Birth
    <3>1. /\ FreeSlot \in Slots \ alive
          /\ RingOf' = Append(RingOf, FreeSlot) /\ LineOf' = Append(LineOf, FreeSlot)
      BY <2>1, Births
    <3>2. On(LineOf) = alive
      BY DEF QueuesInv, Spells
    <3>3. FreeSlot \notin Order!Members(LineOf)
      BY <3>1, <3>2 DEF Order!Members, On
    <3>4. Order!Enter(FreeSlot)
      BY <3>1, <3>3 DEF Order!Enter
    <3> QED
      BY <3>1, <3>4 DEF Order!Next
  <2>2. CASE Death
    <3>1. Order!Leave
      BY <2>2, Deaths DEF Order!Leave
    <3> QED
      BY <3>1 DEF Order!Next
  <2>3. CASE IncrSliceQueue
    <3>1. Order!Turn
      BY <2>3, Turns DEF Order!Turn
    <3> QED
      BY <3>1 DEF Order!Next
  <2>4. CASE UNCHANGED qvars
    BY <2>4, Rests DEF Order!vars
  <2> QED
    BY <2>1, <2>2, <2>3, <2>4 DEF QNext
<1> QED
  BY <1>1, <1>2, QueuesInvHolds, PTL DEF QSpec, RefinesOrder, Order!Spec

===========================================================================

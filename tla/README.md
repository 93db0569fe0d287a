# Verification of pytierra

pytierra is a port of the Tierra simulator to Python: self-replicating machine programs
("cells") live in a circular array of bytes (the "soup"), take turns on a virtual CPU, copy
themselves, die when room is needed, and are catalogued by genotype. These modules specify the
virtual machine that runs them: who owns which byte, who is alive and when it is its turn, how far
a call runs, and under which name a genome is known in memory and on disk.

The repository also carries the C program it was ported from (`src/legacy`). The simulator in it
lives on in the port and is modelled there; what the port left behind, the network version (Tierra
nodes that send each other cells through cluster servers), exists in C alone and is modelled from
the C source.

1. [The system](#1-the-system)
2. [The modules](#2-the-modules)
3. [The runs](#3-the-runs)
4. [Fairness](#4-fairness)
5. [What is proved](#5-what-is-proved)
6. [What was found](#6-what-was-found)
7. [Abstractions, and what is not modelled](#7-abstractions-and-what-is-not-modelled)
8. [Plan](#8-plan)

## 1. The system

One `TierraVM` object is one thread of straight-line code; a host calls its methods. Within the VM
there is no preemption, but there is a great deal of re-entry: an instruction (`mal`) may reap any
cell, including the one that is executing it; a birth recomputes rates that the slice in progress
works on copies of; a limit raises out of the middle of a slice. That, the host's calls between
slices, and files that outlive the process are where its hard behaviours are.

| Component | State | Operations | Hard behaviours | Correct when |
|---|---|---|---|---|
| Soup allocator (`services/memory/soup.py`) | the soup, `by_addr`, `by_size` | `mem_alloc`, `mem_dealloc`, `_carve`, `is_free` | merging with neighbours, remainders of size zero, placement near an address | each byte is free or held, once; free blocks never touch; a refusal is honest |
| Cell queues (`services/memory/queues.py`) | `this_slice`, `top_reap`, `bottom_reap`, `num_cells`; links in the cells | enter and leave the slicer and the reaper, advance | slots are reused; rings of one and two; removal of the cell a pointer is on | two rings of exactly the living; round-robin and first-in-first-out |
| Population (`services/vm/service.py`, `isa/ops_repro.py`, `vm/inoculum.py`, `net/migration.py`) | `cells`, their `mm` and `md` memory, limits | `start`, `mal`, `divide`, `reap_one`, `alloc_cell`, `inject`, `accept_immigrant`, `set_limits` | loops that reap until an allocation succeeds, self-reaping, limits moved meanwhile | no byte has two owners, none is lost; queues, count and cells agree; handlers return |
| Divide mutation and segment operators (`services/mutate.py`, `services/mutate_segment.py`) | the daughter's memory and genome window | point mutations, crossover, insertion and deletion by instruction and by segment, `shared_gen_ops` | gates tested before and sizes used after; a reaping search for memory inside `divide` | gates hold afterwards, cuts fall on segment boundaries, changed daughters are marked, memory stays sound |
| Run loop (`vm/service.py`, `vm/slicer.py`, `vm/helpers.py`) | `inst_exe`, `budget_used`, `births`, `_until_births`, `stopped`, clocks | `step`, `run`, `step_until`, `stop`, `set_limits`, slices | limits checked every so often, errors out of slices, empty soup, goals hit inside a slice | a call executes what it promises and returns |
| Gene bank (`services/genebank/rambank.py`) | records by name and size class, label counters | register, birth, death, mark permanent, lookup, snapshot, restore | hash collisions, records rebound to other bytes, records without bytes after a restore | a name is a species; `pop` counts the living; what is made permanent is handed to the disk if there is one |
| Write queue and disk bank (`genebank/write_queue.py`, `adapters/filesystem/diskbank.py`) | pending jobs, `.tie` files, index in memory and on disk | enqueue, flush, write job, restart, snapshot | crash or failed write between file and index, coalesced jobs, deferred flushes, a restore under the queue | no index entry without a file; the last genome handed over is kept, unless restored away; jobs leave the queue |
| Migration (`services/net`) | mailboxes by node | offer, poll, accept | polling empties the box before anybody is placed | an immigrant is placed or counted as rejected, never half placed |
| Snapshot and restore (`vm/snapshot.py`) | everything above | `snapshot`, `restore` | not atomic, config and limits left alone, bytes of non-permanent genotypes dropped | a restored VM goes on as the one that was saved |
| Rates and point mutation (`vm/flaw_rates.py`, `mutate.py`, `vm/context.py`) | rates and counters, copied into each slice | recompute, count, mutate | recomputed inside a slice that works on copies | every kind of mutation goes on happening |
| Instruction set (`services/isa`) | registers, stack, ip | decode, execute, template search | two-way search round a circular soup with a limit | nearest complementary template, within the limit |
| Observer, metrics, trace | sample and event buffers | read-only views | - | the occupancy map shows who owns what |
| Config, assets, labels, RNG | - | parsing, conversion | labels and sizes that no longer parse back | - |

The C program (`src/legacy`), where it is not the simulator the port took over:

| Component | State | Operations | Hard behaviours | Correct when |
|---|---|---|---|---|
| Network transport (`tierra/tiecommudpasm.c`, `tiecomm.c` and their callers) | capacity left, packets, the message log of each receiver | send a cell as packets, receive, pass over the log, sleep, reopen | packets lost, doubled, overtaken; a bounded log that is emptied under the pass that walks it; ages | messages are whole, a cell lives in one soup, the log drains |
| Cluster server (`clstrsrvr`, `tierra/netfunc.c`) | list of its nodes, list of other servers, totals, capacity shares | join, report, leave, periodic sweep, share out | totals kept by difference, a list changed under the sweep, silent crashes | totals are sums, nobody is listed twice whom the map files do not, shares fit, crashed nodes leave |
| IP map of a node (`tierra/netfunc.c`) | its copies of both lists, indices that cells hold into them | receive maps, sweep, pick a target | indices that outlive the entry | a cell's target is an entry of the map |
| Simulator (`tierra/memalloc.c`, `rambank.c`, `queues.c`, ...) | as the port | as the port | as the port | as the port |
| Front ends, monitors, debugger, setup; Beagle | screens, menus | views, parsing, a remote viewer | - | - |

How they interact: `slicer_step` takes the cell at `this_slice`, builds a `VMContext` from the VM
and executes instructions of that cell. `mal` calls `SoupMemory.mal`, which calls back
`reap_one`; `divide` calls the mutation operators, `alloc_cell`, both queues and `_notify_birth`;
a death calls both queues, the allocator and `_notify_death`. Births and deaths are reported to the
bank, which may extract a genome to the write queue; the queue is flushed to the disk bank at
boundaries between slices. `inject`, `poll_immigrants` and `start` create cells from outside.

In the C program an instruction (`surf`) hands a cell to the transport, which charges its packets to
the capacity the cluster server granted. The run loop looks at the log of received messages after
each time slice; a message processed there may place a cell, answer, change the IP map, or send the
node to sleep. Cluster servers learn about nodes from the same messages and tell them their capacity
with every ping.

## 2. The modules

| Module | Models | State and actions |
|---|---|---|
| `SoupMemory` | operators of the free list: `MemAlloc`, `Carve`, `MemDealloc`, `IsFree` | none; a free list is a set of blocks `[start, size]`. The code's two sorted lists hold the same blocks, and every binary search becomes a choice of the first or last block by address |
| `SoupAllocator` | `SoupMemory` driven by any caller | `free`, `held`, `got`; `Alloc`, `AllocFails`, `Dealloc` |
| `SoupSpace` | what an allocator promises, without a free list | `held`, `got`; `HandOut`, `Refuse`, `TakeBack` |
| `CellQueues` | the linked lists, link by link | the links and entry points; `Birth`, `Death`, `IncrSliceQueue` |
| `CellOrder` | what the lists stand for | a ring and a line |
| `Population` | cells, memory, queues and every handler that creates or destroys | see below; extends `SoupMemory`, has the queues as the ring and line of `CellOrder` |
| `SegmentDivide` | `divide` with a resize inside | extends `Population` with `ResizeBegin`, `ResizePlaced`, `ResizeReaps`, `ResizeFails`, `DivideAfterOps`, `DivideGivesUp` |
| `SegmentOps`, `MCSegmentOps` | what the operators do to a genome | `op`, `genome`, the margins in memory, `changed`; one action per operator, in the order of `genetic_ops` |
| `RunLoop` | how far a call runs | counters, clocks, the loop a call is in; one action per exit and per instruction |
| `GeneBank`, `MCGeneBank` | RamBanker and the VM's calls into it | `bank`, `next_gi`, the cells' names and genomes, `disk_bank` (is one attached); `AttachDiskBank`, `Inoculate`, `Birth`, `Arrive`, `Change`, `Death`, `SaveGenotype`, `Emigrate`, `Resume`, `Start` |
| `DiskBank` | write queue and files | `pending`, `index`, `tie`, `index_file`, the boundary counter; the moments of a flush (`StepEnds`, `RunPasses`, `RunEnds`, `Stop`, `SaveGenotype`) and each file operation, `Snapshot`, `Restore`, `WriteFails`, `Crash`, `Restart` |
| `MessageLog`, `MCMessageLog` | the datagram transport: a sender, the network, two receivers | `cap`, `home`, packets in `net`, `log`, `qlen`, `pos`; `Surf`, `Lose`, `Duplicate`, `Receive`, `ReceiveError`, `Begin` and `Look` (a pass over the log, message by message), `Flush`, `Reopen`, `Tick` |
| `ClusterServer`, `MCClusterServer` | the server of a cluster | `IPMap`, the totals `Speed` and `NumCells`, `granted`, the variables of a sweep; `Start`, `Say`, `Leave`, `Crash` of nodes, `Online`, `Receive`, `Reply`, `BeginUpdate`, `Sweep` (entry by entry), `EndSweep`, `Announce`, `Tick` |
| `FlawRates`, `MCFlawRates` | the rates of background mutations, copy mutations and flaws | `rate`, `count`, the slice's copies `ctx`; `Start`, `SetParameter`, `Arrive`; `BeginSlice`, and an instruction as `Fetch`, `Reap`, `Divide`, `Move`, `Finish` |
| `SoupMemoryProofs`, `SoupAllocatorProofs`, `PopulationProofs`, `DiskBankProofs`, `MessageLogProofs`, `ClusterServerProofs` | theorems about the module each is named for | - |
| `SchedulingProofs` | theorems about `RunLoop` and `CellQueues` | - |
| `GenomeProofs` | theorems about `GeneBank` and `SegmentOps` | - |

`Population` is where the components meet. Its `phase` says which handler is in progress. A
handler that loops over the state ("reap until it fits") is modelled one pass at a time, so that
what each pass sees and leaves behind is visible; while it runs nothing else moves, because the
program is one thread. `Reap` is `reap_one` with `_reap_cell`; `Enter` is the tail all births
share. `mm` and `md` are `(mm_p, mm_s)` and `(md_p, md_s)`, including the stale `md` a dead cell may
keep. `copied` abstracts the counters of `movii`: whether the daughter memory has been written
enough for `divide`'s thresholds. `orphans` is a history variable: the regions that `mal` gave to
a cell its own reaping had killed. It exists so that "no byte is lost" can be stated exactly, with
the one way of losing bytes named.

`RunLoop` does not extend `Population`: an instruction there reaps any number of cells, the running
one included, and then gives birth at most once (`ReapsAndBirths`: a divide that reaps for room does
both), which covers what `Population` allows.

`GeneBank` carries three auxiliary variables. `handed` is the genome last given to the queue under a
name. `undelivered` holds the names that a call made permanent without giving them to the queue:
those of the inoculum, and those saved or sent away while no disk bank is attached (`save_genotype`
marks the record and raises after that, `offer_emigrant` marks it and skips the queue). `unmoored` holds
the names whose bytes were changed or forgotten under living bearers.

`DiskBank` starts a flush where the code does. The boundary counter goes back to zero only when the
flush of a boundary has returned (`at_boundary`), so that one that raises leaves the next boundary due.
`dropped` is auxiliary: the names whose last genome a `restore` of the queue took away or replaced by
an older one.

`MessageLog` follows one node's emigrants. What is bound for another cluster goes to the node's own
cluster server ("server"), what is not goes to a neighbour ("peer"); both keep the same log.
A packet counts as one unit of capacity. A message is an id, so that a copy of an old packet can be told from a
new one; the log holds for each message which packets are in its buffer and which are on its list,
because the code drops the list once the message is whole. A pass over the log stands at `pos` between two
messages: signals are blocked during it, so nothing is received, but what the message being
processed does (sleep, above all) happens under it.

`FlawRates` takes an instruction apart because the VM's counters change under it: the copies of two
of them are made before it and written back after it, and what a birth inside did to the originals
is lost.

`ClusterServer` keeps the lists as sequences, in the code's order, because the sweep walks over
`IPMap` by index while it removes from it. It starts with both map files read, line by line: an address on two lines
(`Doubled`) is listed twice, as in the code. Capacity is shared out once before the first message (`Online`), and an
empty list ends the server there. A message that changes nothing is not told apart from a lost one.

Several definitions stand twice, once as the code has them and once with a plausible mistake
(marked `Mutant:`). They are used to see that each property can fail: with the mistake in place
TLC must find the property violated.

## 3. The runs

Every passing run is exhaustive within its bounds and checks for deadlock.

| Run | Module | Question |
|---|---|---|
| `allocator` | `SoupAllocator` | does the free list stay exact, coalesced, and does the allocator implement `SoupSpace`, for every sequence of requests? |
| `queues` | `CellQueues` | do the links stay two rings of the living, and behave as a ring and a line? |
| `population` | `Population` | is memory sound, are queues, counts and limits in step, do all handlers return? |
| `segment_divide` | `SegmentDivide` | does a resize inside `divide` keep memory sound and return, as long as the running cell survives it? |
| `segment_double_free` | `SegmentDivide` | finding: memory given back twice |
| `segment_ops` | `MCSegmentOps` | do the operators keep the gates and cut at boundaries? |
| `run_loop` | `RunLoop` | do calls execute what they promise, keep the budget and return? |
| `gene_bank` | `MCGeneBank` | is a name a species, is `pop` right, is what is made permanent handed to the disk, with a disk bank attached from the start, later, or never? |
| `disk_bank` | `DiskBank` | does a genome handed over reach its file, through crashes, failed writes and restores of the queue? |
| `message_log` | `MCMessageLog` | do emigrants arrive whole, at most once per copy, and stay in one soup; does the log drain? |
| `cluster_server` | `MCClusterServer` | are the server's totals sums over its list, is nobody listed twice whom the map files do not, do the shares fit the capacity, and does a node that crashed leave the list? |
| `mutation_starves` | `MCFlawRates` | finding: background mutations that never come |

Bounds, and why they are enough for the question:

* `allocator`: six bytes; every size from 0 to 7, every preference and every tolerance. Three free
  blocks at once and every case of merging (none, below, above, both) and of carving (none, left,
  right, both) occur.
* `queues`: four slots: rings of one, two, three and four cells, and removal at, before and behind
  each entry point.
* `population`: five bytes, three slots, `max_cells` 1 or 3, `NumCellsMin` 0, 1 or 3, genomes of 2,
  3 and 6 bytes (the last never fits), two inoculum cells (the second may not fit), up to two
  clones, two attempts for an immigrant (the code has eight; two show an attempt that succeeds
  after a reap and a last reap without an attempt). Self-reaps, fragmentation, a limit lowered below
  the population and a floor above it all occur. All four kinds of placement of `mal` are in.
* `segment_divide`: eight bytes, two cells, `NumCellsMin` 0 or 1, genomes of two and three bytes, two attempts (the code has eight);
  `MalSamSiz` is on, which makes `mal` itself ask for sizes of the mother's kind, so that sizes differ by the resize alone.
  A living mother's resize is placed at once, placed after she reaped the other cell, or refused; and she reaps herself, with and without success afterwards.
* `segment_ops`: a mother of four bytes, every daughter genome the gates of `divide` admit (bytes of two
  kinds), mates with a template behind the last segment, without one, and one too short to cross over
  with. Daughters grow up to twice the mother (`MaxMalMult`). Genomes with and without a template at either end and genomes of templates alone occur;
  margins of 0 and 2 bytes make the genome fill its memory or not.
* `run_loop`: budgets 3 and 4 with a check every second instruction, slices of up to three
  instructions, three cells, three births: a slice longer than the interval, a goal in the middle of
  a slice, a budget reached between checks. `goal` and `inst_exe` need no bound of their own: the
  budget bounds them.
* `gene_bank`: two slots, three genomes of which two share a hash, three labels; the first inoculum
  genome has no label in its name and is given the one that the second brings along. A disk bank is attached at
  any time or never. `MaxLabel` stops the model where it runs out of labels.
* `disk_bank`: two names, two genomes, two boundaries between flushes (64 in the code), a queue
  limit of one (32), two crashes or failed writes in any places, and any number of snapshots and restores.
* `message_log`: a cell for another cluster in two packets, one for the neighbour in one, two pings
  that name different subnets; a log of one message (`TieMsgBkLog`), so that every new message
  evicts; a message is too old after one tick; capacities of one packet or without limit, so that the
  limit falls between the packets of a message; one packet may be doubled once. A receive error, a
  flush and a reopening may come at any time to either receiver, and a whole message may fail to decode. `WordMod` is 8 and stands for 2^32: the count never
  gets above two, and one below zero is the largest word with either.
* `cluster_server`: two nodes and one message in flight (with copies, since a message
  handled may stay), a map file of up to two lines in any order, on which one of the nodes may stand twice, an update
  on every tick, a capacity of 10 with 1 kept and 2 shared evenly, so that integer division leaves rests. Removals
  happen at either end of the list, and memory past it holds a speed (`Beyond`). `PendReqTime` is three
  ticks past `SpdZeroTime`: a removal may end a sweep ahead of a node, and the window has to hold a sweep for each
  entry of the list. With a window of two `GhostLeaves` fails: a sweep cut short twice never sees the node silent,
  finds it out of contact with a speed, and keeps it for ever.
* `mutation_starves`: two slots and cells of one and three bytes, so that the average size changes; rates of
  5 to 11 instructions. With cells of one size only, the average rests and the property holds.

The other properties of these modules that no run checks are the type invariants, proved where a
proof module exists and otherwise documentation; properties proved but kept out of the runs
(`IsFreeExact`, `StepExecutesN`, `SweepWithinReach`, and of action properties `SoftFailKeepsDaughter`,
`ChangedGenomeIsDirty`); and five that do not hold, each marked so and described in
section 6.

What they show, beyond that each property holds:

* Memory is sound in every interleaving of `mal`, `divide`, reaping, injection and immigration,
  with one exception (a self-reap in `mal`), and the extent of the exception is exact: the bytes
  of `orphans`, no others (`EveryByteAccounted`).
* The dead cell a self-reap leaves in place never confuses the queues: the slicer moves on from
  where the reaper left it (`RunningCellHasTheTurn`, `EveryoneGetsATurn`). The cell it has moved on to is passed over once, though, and
  no property demands otherwise.
* `divide` tests its thresholds before the operators run and does not test them all again; the
  operators' own gates make up for it (`GatesStillHold`).
* The order "file, then index" is enough for `IndexedHasFile` at any crash, but not for
  `SaveWritesTie`.
* An emigrant may be lost in many ways (a server away, a failed `sendto`, an eviction), but never
  lives twice unless the network doubles every one of its packets (`UsesUpItsPackets`, `NoTwins`): the
  cell that stays at home for want of capacity has sent some packets and never the last.
* The server's totals survive a sweep over a changing list, except for the speed it may read in the
  place past the list (`torn`).

## 4. Fairness

Safety properties need none. For the liveness properties:

* `Population`, `SegmentDivide`: `WF(HandlerStep)`, `WF(ResizeStep)`. A handler that has been called
  is straight-line code of the only thread and runs on. No fairness is assumed of the host, of the
  slices or of what cells execute; reaping helps a handler to end only because every pass that does
  not succeed costs a living cell or an attempt.
* `RunLoop`: `WF(VMStep)`, for the same reason. `stop()` and the clocks have none: a call must come
  back without them (its budget is finite).
* `CellQueues`: `WF(IncrSliceQueue)`, `run()` goes on to the next slice (`EveryoneGetsATurn` says that each cell then gets
  its turn or dies, however many are born in front of it).
* `DiskBank`: none. `run()` passes a boundary only where `inst_exe` is a multiple of 64 after a slice, which need never
  happen, and a run that a limit ends skips its last flush; so nothing about boundaries is fair by itself. `JobsLeaveTheQueue`
  has what it needs as a premise instead: steps, or whole runs, come to their end again and again. Nothing makes writes
  succeed except that troubles are finite: a disk that fails for ever keeps its jobs queued for ever, as it should.
* `MessageLog`: `WF(Begin(d))`, `WF(Look(d))`, since `life` calls `NetRecvFunc` after every slice and a pass is straight-line
  code, and `WF(Tick)`, since time passes. None for packets, which may all be lost, nor for the host.
* `FlawRates`: `WF(VMStep)`: the host goes on stepping. Its other calls are bounded (`MaxHost`), so that it is the cells that
  starve the counter.
* `ClusterServer`: `WF(Online \/ Reply \/ Sweep \/ EndSweep \/ Announce)` is straight-line code. `SF(BeginUpdate)` and `SF(Tick)`: each message
  handled disables both for a while, but the main loop compares the clock with the time of the last
  update after every pass over its backlog, however many messages there were, and the clock does not wait.

## 5. What is proved

TLAPS checks these for every value of the constants allowed by the named assumptions
(`SoupSizeAssumption`, `PopulationAssumption`, `ResizeTriesAssumption`, `MaxSlotsAssumption`, `RunLoopAssumption`,
`GeneBankAssumption`, `DiskBankAssumption`, `SegmentAssumption`, `MessageAssumption`, `ServerAssumption`). They say of the
constants what they are (numbers, finite sets, genomes of bytes) and no more.

| Module | Theorems | Argument |
|---|---|---|
| `SoupMemoryProofs` | lemmas | what `Carve` and `MemDealloc` do to a set of separate blocks that covers the rest of the soup: they stay separate, cover what they should, and no two touch. Uniqueness of the neighbours found by address comes from separateness |
| `SoupAllocatorProofs` | `AllocatorTypeCorrect`, `AllocatorNoByteTwice`, `AllocatorNoByteLost`, `AllocatorCoalesced`, `AllocatorIsFreeExact` | the conjunction is inductive: coalescing needs separateness, and carving needs that what `MemAlloc` returns lies in one free block. `IsFreeExact` (`is_free` answers exactly for the bytes nobody holds) follows |
| | `AllocatorFailureIsHonest`, `AllocatorRefinesSpace` | a run of bytes nobody holds lies in one free block, since free blocks never touch, and a search that fails has looked at them all; every step is one of `SoupSpace` |
| `PopulationProofs` | `PopulationTypeCorrect`, `PopulationNoByteShared`, `PopulationEveryByteAccounted` | `MemInv`: `TypeOK`, `Partition` (free list, regions and orphans are separate, each with one owner, and cover the soup) and `HandlersKnow`, what a handler in progress relies on. Without the last, `mal` might overwrite the daughter memory of its cell and lose it, and the inoculum might start a cell in a slot that is taken |
| | `PopulationQueuesHoldTheLiving`, `PopulationRunningCellHasTheTurn`, `PopulationBirthsAndReapsWithinLimits` | `QueueInv`: `MemInv`, `InStep` (both queues list the living without repetition and `num_cells` is their number) and the turn of the running cell, so that the cell at the top of the reaper is alive and removing it removes one |
| | `PopulationFollowsOrder` | from `QueueInv`, since only a cell that is in no queue enters: every step enters a cell at the bottom of both queues, takes the oldest out, turns the ring, or is `start()`. With `QueuesRefineOrder` this joins the two modules: the linked lists do what `Population` has its ring and line do |
| | `SegmentResizeKeepsMemory`, `SegmentSoftFailKeepsDaughter` | `SegmentInv`: until memory is given back twice, the invariant of the memory holds through the resize as well, where a running cell that was reaped has no daughter and one that lives still has the one the resize began with (`ResizeKnows`); afterwards the cell is gone and its slice can only end |
| `SchedulingProofs` | `RunLoopTypeCorrect`, `RunLoopExactBirths`, `RunLoopBudgetOvershoot`, `RunLoopBirthsReached`, `RunLoopStepExecutesN` | `RunInv`: `TypeOK`, `InCall`, `GoalInv` (within a slice with instructions left the goal is not reached), `IdleInv` (a slice that executed nothing had nobody to run, was stopped, or has its instructions still ahead) and `BudgetInv` (the last check, or the next, sees the budget below its limit). The interval argument is arithmetic modulo `Every`: between a multiple of `Every` and the next there are `Every - 1` instructions nobody checks |
| | `CellQueuesTypeCorrect`, `QueuesAreTwoRings`, `QueuesRefineOrder` | `QueuesInv`: the links of each queue spell out a list of the living without repetitions (`Spells`), and walking along them reads that list. Each operation on links is an operation on the list: a cell put in at the end, one taken out wherever it stands, the list turned by one. The refinement of `CellOrder` is that correspondence, step by step |
| `GenomeProofs` | `GeneBankTypes`, `GeneBankPopIsTheLiving`, `GeneBankNamesAreSpecies`, `GeneBankPermanentIsSaved` | `IInv`: `TypeOK`, `PermanentIsSaved` and `Species`, which adds to `PopIsTheLiving` that a record's hash is that of its bytes (`HashOK`: otherwise a lookup could miss the record), that names not rebound have bytes (`MooredOK`), those their bearers were born with (`BornOK`), and no two have the same (`Apart`). `NamesAreSpecies` follows from the last two |
| | `GenomeOpsTypeCorrect`, `GenomeOpsKeepGates`, `ChangedGenomesAreDirty` | `OpsInv`: types and gates are inductive together. A fragment that ends inside the genome it is taken from has none but its bytes, every operator draws its places inside, and what is committed passed the gates |
| | `SegmentsAreCutAtRuns`, `SegmentsAreMovedWhole` | of every genome, not only those reached: the scan counts the places where a template follows an instruction (`Ends`), which correspond one to one to the runs, but for a last run at the end. Where a segment ends, a template begins or nothing follows (`CutPoint`); a genome cut there has the runs of both parts and the sum of their segments (`CutKeepsRuns`), and putting such a part behind another joins no two runs (`JoinKeepsRuns`, `JoinCounts`). Every segment operator only cuts and joins there |
| `DiskBankProofs` | `DiskBankTypeCorrect`, `DiskBankFilesComeFirst` | `FilesInv`: `TypeOK`, `IndexedHasFile` and that the job being written waits in the batch (`JobAtHand`), so that the entry a step adds is that of the file the steps before it wrote |
| | `DiskBankLosesNothing`, `SaveWritesTieUntilTrouble` | `NothingLost`: until the first crash or failed write, what is wanted under a name no restore displaced waits or is in its file (a flush leaves there what `Held` says), and the index mirrors the files but for the one being written, so that skipping a file the index names is right. The second theorem is the other half of the counterexample to `SaveWritesTie` (section 6): `save_genotype` breaks its promise only after trouble |
| `MessageLogProofs` | `CompleteIsWhole`, `ProcessedPerCopy`, `HomeOrAway`, `CountIsLength`, `LimitStays` | `Inv` counts copies: what was processed, waits in a buffer or is under way was sent or copied once (`UsesUpItsPackets`); a message is processed out of a buffer every packet went into (`GoodLogs`); of a cell at home the last packet never left (`UnsentIsSilent`), so nothing can have been processed of it. `TornCount` gives the count after a torn pass, from which `CountIsLength` recovers when the transport is reopened |
| `ClusterServerProofs` | `ListedOnce`, `SweepBounded`, `ServerTypes` | `Inv`: `TypeOK`, `OnceListed` (the files list nobody twice but `Doubled`, and a node is added only when it is not listed) and where the sweep may stand: removals shorten the list under `i` and `prop`, and the code's two resets keep both within one place of it |
| | `CellsAreSummed`, `SpeedsAreSummed`, `SharesAlwaysFit` | `Sums`, with `Inv`, is inductive: each step changes the sum of a list by what it changes the total by (an entry added, removed or changed; `SumsAppend`, `SumsRemove`, `SumsChange`). The shares fit because the total they are divided by is the sum of the speeds |

Three definitions recur along a sequence: the walk along the links (`Walk`), the sums over a list
(`SumOf`) and the scan for segments (`Scan`). They are recursive functions over a finite range, and what
they compute is proved by the least counterexample: a set of numbers at which the claim fails has a
smallest member (`NatLessThanWellFounded`, `WFMin`), and one place before it the claim holds.

A reader should know that `PopulationEveryByteAccounted` is about `Population`, with orphans, and
not a proof that nothing leaks: a self-reap in `mal` does (section 6). In the same way
`SegmentResizeKeepsMemory` sets aside what follows a memory given back twice (`twice`, section 6),
`GeneBankNamesAreSpecies` the rebound names (`unmoored`), `GeneBankPermanentIsSaved` the names made permanent
without being handed over (`undelivered`), `ListedOnce` the addresses a map file names twice (`Doubled`), `CountIsLength` the logs a
pass tore, `SpeedsAreSummed` a sum the sweep has torn (`torn`), and `DiskBankLosesNothing` a disk with troubles
and the names whose last genome a restore displaced (`dropped`). Of
`SegmentsMoveWhole`, the part about runs supposes a template in front of every genome: without one, what
stands before the first template is joined to whatever is put in front of it.

Every invariant that a passing run checks, both refinements and every action property of the runs are
among these theorems. Only model-checked are the liveness properties (`HandlersReturn`, `ResizeReturns`, `CallsReturn`,
`EveryoneGetsATurn`, `JobsLeaveTheQueue`, `LogDrains`, `GhostLeaves`), which are out of reach of TLAPS, under fairness or under a premise that steps recur. Nothing
is proved about `FlawRates`: what its run is about is the failure of a liveness property.

## 6. What was found

Two runs end in a counterexample:

* **`segment_double_free`**: `shared_gen_ops` remembers the daughter memory, reaps, and gives the
  memory it remembers back (`mutate_segment.py:104-116`). If it reaped its own cell, the memory had
  been given back already. The free list then has bytes a living cell holds.

* **`mutation_starves`**: `_recompute_rates` sets `count_mut` to zero (`service.py:317`), and every birth or
  death that changes the integer average size calls it. Background mutations come only if the average
  rests for `rate_mut` instructions, where `docs/api.md:76` says they "land about every `rate_mut/2`
  instructions on average". In the example there the rate is 202069 instructions, and a soup of that
  size sees hundreds of births in so many: once sizes vary, the mutations may never come. The C function it
  mirrors (`CalcFlawRates`, `legacy/tierra/bookeep.c`) leaves the counter alone. The counters of copy
  mutations and flaws escape, since a slice writes its copies back over the reset.

Five properties stand in the modules with the remark that they do not hold. Checking one as an
invariant of its module's run shows the counterexample:

* **`OccupancyZeroIsFree`** (`Population`): `mal` reaps until it finds room, and the cell to reap may be the one that
  runs. `SoupMemory.mal` (`soup.py:189-194`) then gives the region to the dead cell. `alloc_cell`
  zeroes `md_s` when the slot is used again and the bytes are gone until the next `start()`.
* **`StepUntilReports`** (`RunLoop`): `step_until` reports its limits as `stop_reason "limit"`, but the check
  inside the slice raises `SandboxLimitError` through it (`service.py:502-508`, `slicer.py:20`).
* **`SaveWritesTie`** (`DiskBank`): after a rewrite of a `.tie` that died or failed before the index had it, saving
  the genome the index names finds "nothing to do" and leaves the other file in place
  (`diskbank.py:74`).
* **`FullHasOldest`** (`MessageLog`): a ping that changes the subnet makes the node sleep inside
  `procmsg`, and `TieSleep` empties the log; the pass then deletes the message once more
  and the unsigned count wraps. The loop on `tci_queuelen>=tci_queuesize` under the comment "if queue is
  full, remove oldest messages" (`tiecommudpasm.c:302`) then has none to remove and does not end.
* **`LostAreDeleted`** (`ClusterServer`): `CleanIPMap(1)` removes a lost peer server with `RemoveIPMap(addr,0)`, which looks for
  it in the other list (`netfunc.c:2226` on; the comment there says they are deleted). It stays.

Met in the C sources on the way, where no property speaks of it: capacity is divided by the number of listed
nodes, zero included (`clstrsrvr.c:536`, `phase = "crashed"`); a node that joins by `SENDADDR` is
listed with a capacity nobody initialised (`Junk`); with `SpdZeroTime = 0` a node that still has a speed is
never removed; the handler of `SENDADDR` and `Map_send` record the sender and not the server that is
listed; the loop that pings for updates stays on a lost node for ever when `AutoRemIPMap` is off
(`continue` without an advance, `netfunc.c:466`). `CapStaysALimit` has exceptions on purpose, since a reply to the own server is
charged without being checked and may turn the limit into none.

In the port, without a disk bank, `save_genotype` raises but has made the record permanent
(`service.py:564-566`), and `offer_emigrant` makes it permanent and queues nothing (`migration.py:20-22`); `PermanentIsSaved`
sets those names aside. A `restore` of the queue loses the genomes handed over since the snapshot (`write_queue.py:75`), which
`LastHandedIsKept` sets aside.

Two more disagreements in the port: `mem_alloc`'s docstring says "nearest
within tol"; the distance is that to the block, and a preference close to the block's upper end is answered
with a place up to the size of the request farther away. `docs/net_port.md:20` says that the same
genome reuses its genotype; after a name was rebound to other bytes (`mark_permanent` with the
genome a cell has by then) or a restore dropped the bytes of a genotype that is not permanent, the
next cell with the old genome is given a second name. `NamesAreSpecies` is stated for the names
neither happened to (`unmoored` holds the others).

## 7. Abstractions, and what is not modelled

* `Population`: bytes, registers and instruction pointers are left out, and `mal`, `divide` and copies are
  executed whenever their guards hold, which includes every program. Mode 4, 5 and 6 of `mal` take
  their address from registers and are the "random" mode here. Average sizes are left out; the
  tolerance of a placement near an address is drawn from `MalLimits`.
* `SegmentDivide`: the size an operator asks for is any that `shared_gen_ops` accepts. Once memory
  was given back twice (`twice`) the free list is not followed further: the slice ends, the host
  starts afresh.
* `SegmentOps`: a byte is a template byte or another; a search for memory succeeds or fails
  nondeterministically (`SegmentDivide` has the search); `MovPropThrDiv` is a fraction.
* `FlawRates`: which bit a mutation flips, and everything about cells but their sizes, is left out; any
  instruction may give birth while a slot is free, more often than a real genome could.
* `GeneBank`: one size class (classes share no labels and no lookups); which of several equal
  records a lookup meets first is left open; the hash cache is assumed current; the memory
  threshold of the extraction is a free choice; `snapshot` followed by `restore` is one action
  (`Resume`): a snapshot older than the bank it replaces, which may bring back bytes handed over before the last, is not modelled.
* `DiskBank`: genomes under one name with the same 64-bit hash are left out; a torn file is one value.
* `MessageLog`: a packet is a unit; checksums and the TCP variant are left
  out. A message that does not encode or decode is a free choice. What a message does when processed is kept as far as it touches the log (sleep) and the cell. The
  immigration limit is a free choice. What a crash of the process forgets is the `Reopen` of its transport.
* `ClusterServer`: speeds and shares are integers, where the code's are floating point: `SharesFit`
  holds of the rounded-down shares, up to rounding of the code's. The server's own entry, forwarding
  emigrants to a random node, subnets, averages and the apocalypse are left out.
* Not modelled: the mailbox, the whole-VM restore, template search (all planned, below);
  register arithmetic and decoding (they decide nothing the properties speak of); observer, metrics
  and trace (read-only); parsing and wiring (sequential conversions); the random number generator
  (every draw is a choice); examples and scripts. Of the C sources: the front ends, monitors,
  debugger, setup and Beagle, which are input and output and by far most of the lines; the
  simulator, which is modelled in the port; and a node's IP map (planned). The map therefore covers a small part
  of all lines, and it could only cover more by modelling the screens.
* Out of TLC's reach: real sizes (a soup of 60 000 bytes, labels past `zzz`), and termination with
  probability one of the loops `while tlrand() % rate == 0`.

## 8. Plan

Done, in this order: `SoupMemory`, `SoupAllocator` with `SoupSpace`, their proofs; `CellQueues` with
`CellOrder`; `Population` and its proofs; `RunLoop` and its proofs; `GeneBank`;
`DiskBank`; `SegmentDivide`; `SegmentOps`; `MessageLog` and its proofs; `ClusterServer` and its
proofs; the proofs of `GeneBank`; `FlawRates`; the refinement of `SoupSpace` and the sums of
`ClusterServer`; the proofs of `SegmentDivide`, `DiskBank`, `CellQueues` with the refinement of
`CellOrder`, and `SegmentOps`; `Population` against `CellOrder`.

Next, to model:

1. `NodeMap`: the copies of both lists a node keeps, the indices (`ipic`, `ipis`) cells hold into
   them, and its own sweep by instructions executed; composed with `ClusterServer`.
2. `Template`: the two-way search and the wrapping stack, against the nearest complementary
   template by definition, over all small soups.
3. `Migration`: two VMs and the mailbox; what is polled is placed or counted.
4. `Checkpoint`: `restore` part by part, with a failure at each part, and what it leaves alone.
5. `HashCache`: the dirty flags of mother, daughter and VM against the bytes in the soup.
6. Labels and genotype names as functions over bounded inputs.

Next, to prove: the invariants of the modules above as they come. Of what is modelled only `FlawRates`
has no proofs; a type invariant is all it has for one.

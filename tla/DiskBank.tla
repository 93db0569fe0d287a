---------------------------- MODULE DiskBank ----------------------------
(***************************************************************************)
(* How a genotype reaches the disk: the deferred write queue               *)
(* (services/genebank/write_queue.py, WriteQueue), the moments at which    *)
(* TierraVM flushes it, and the files of the disk bank                     *)
(* (adapters/filesystem/diskbank.py, DiskBankStore): a .tie per name and   *)
(* one index that is rewritten whole after each.  A file is rewritten in   *)
(* place: first truncated, then filled.  The process may be killed, and a  *)
(* write may raise, at each of these steps.                                *)
(*                                                                         *)
(* The index is kept as the genome each entry's hash stands for: two       *)
(* genomes of one name with the same 64-bit hash are not modelled.         *)
(***************************************************************************)
EXTENDS Integers, FiniteSets

CONSTANTS
    Names, Genomes,
    FlushEvery,        \* boundaries between flushes
    QueueLimit,        \* pending jobs beyond which a boundary flushes at once
    MaxTroubles        \* bound on crashes and failed writes

Nothing == "nothing"
Torn    == "torn"

ASSUME DiskBankAssumption ==
    /\ Names # {} /\ Nothing \notin Genomes /\ Torn \notin Genomes
    /\ FlushEvery \in Nat \ {0} /\ QueueLimit \in Nat /\ MaxTroubles \in Nat

VARIABLES
    up,                \* the process runs
    pending,           \* _pending: the genome to write under each name
    taken,             \* snapshot()'s copy of the queue
    steps_since_flush,
    at_boundary,       \* the flush under way is _boundary_flush's
    batch,             \* names flush has still to write
    step,              \* where write_job is
    index,             \* DiskBankStore.index
    tie,               \* the .tie files
    index_file,        \* genebank_index.json
    saving,            \* what save_genotype was asked to write, while it flushes
    wanted,            \* auxiliary: the genome last handed over under a name
    dropped,           \* auxiliary: names whose last genome a restore has displaced
    troubles           \* crashes and failed writes so far

flushing == <<steps_since_flush, at_boundary>>
memory   == <<pending, flushing, batch, step, index, saving>>
disk     == <<tie, index_file>>
history  == <<wanted, dropped>>
vars     == <<up, taken, memory, disk, history, troubles>>

Jobs     == [Names -> Genomes \cup {Nothing}]
NoJobs   == [n \in Names |-> Nothing]
NoSaving == <<Nothing, Nothing>>

TornIndex == [n \in Names |-> Torn]

Steps == {"idle", "job", "tie.open", "tie.done", "index.open", "written"}

Waiting == {n \in Names : pending[n] # Nothing}

Init ==
    /\ up = TRUE /\ pending = NoJobs /\ taken = NoJobs
    /\ steps_since_flush = 0 /\ at_boundary = FALSE /\ batch = {} /\ step = "idle" /\ index = NoJobs
    /\ saving = NoSaving /\ tie = NoJobs /\ index_file = NoJobs
    /\ wanted = NoJobs /\ dropped = {} /\ troubles = 0

\* Only when no flush is under way can the VM do something else: there is one thread.
Quiet == up /\ step = "idle"

---------------------------------------------------------------------------
(* The queue. *)

\* Mutant: the first job of a name stays.
EnqueueOnce(n, g) ==
    /\ pending' = [pending EXCEPT ![n] = IF @ = Nothing THEN g ELSE @]
    /\ wanted' = [wanted EXCEPT ![n] = g] /\ dropped' = dropped \ {n}

\* enqueue: a later job of the same name replaces the one that waits.
Enqueue(n, g) ==
    /\ pending' = [pending EXCEPT ![n] = g]
    /\ wanted' = [wanted EXCEPT ![n] = g] /\ dropped' = dropped \ {n}

\* A birth is extracted, or a cell emigrates.
Extract ==
    /\ Quiet
    /\ \E n \in Names, g \in Genomes : Enqueue(n, g)
    /\ UNCHANGED <<up, taken, flushing, batch, step, index, saving, disk, troubles>>

\* flush goes over the jobs that wait now.
StartFlush(jobs) ==
    /\ batch' = jobs
    /\ step' = IF jobs = {} THEN "idle" ELSE "job"

\* Mutant: the counter wraps around before it is compared.
BoundaryWraps ==
    LET steps == (steps_since_flush + 1) % FlushEvery
    IN  /\ Quiet
        /\ IF steps >= FlushEvery \/ Cardinality(Waiting) > QueueLimit
           THEN StartFlush(Waiting) /\ at_boundary' = (Waiting # {})
           ELSE UNCHANGED <<at_boundary, batch, step>>
        /\ steps_since_flush' = steps
        /\ UNCHANGED <<up, taken, pending, index, saving, disk, history, troubles>>

\* _boundary_flush: the counter goes back to zero once its flush has returned (see JobDone), so a
\* flush that raises leaves the next boundary one to flush at.
Boundary ==
    /\ Quiet
    /\ IF steps_since_flush + 1 >= FlushEvery \/ Cardinality(Waiting) > QueueLimit
       THEN /\ StartFlush(Waiting) /\ at_boundary' = (Waiting # {})
            /\ steps_since_flush' = IF Waiting = {} THEN 0 ELSE steps_since_flush + 1
       ELSE /\ steps_since_flush' = steps_since_flush + 1
            /\ UNCHANGED <<at_boundary, batch, step>>
    /\ UNCHANGED <<up, taken, pending, index, saving, disk, history, troubles>>

\* flush at whatever the counter says.
FlushNow ==
    /\ Quiet /\ StartFlush(Waiting)
    /\ UNCHANGED <<up, taken, pending, flushing, index, saving, disk, history, troubles>>

(* When the VM flushes.  A step on a stopped VM, one over its limits, a run   *)
(* whose goal is met and a run that a limit ends do nothing to the queue and  *)
(* are no actions here.                                                       *)
StepEnds  == Boundary     \* step and step_until, when they come to their end
RunPasses == Boundary     \* run, after a slice that leaves inst_exe a multiple of 64, if one does
RunEnds   == FlushNow     \* run, when it returns and not through a limit
Stop      == FlushNow

\* save_genotype: enqueue and flush.
SaveGenotype ==
    /\ Quiet
    /\ \E n \in Names, g \in Genomes :
          Enqueue(n, g) /\ StartFlush(Waiting \cup {n}) /\ saving' = <<n, g>>
    /\ UNCHANGED <<up, taken, flushing, index, disk, troubles>>

---------------------------------------------------------------------------
(* write_job, for one name of the batch. *)

InWrite(s) == up /\ step = s

\* The batch is taken in some order; the job stays in the queue until it is written.
Current == CHOOSE n \in batch : TRUE

Unchanged == index[Current] = pending[Current]

\* The index has this hash: only the index is rewritten.
SkipTie ==
    /\ InWrite("job") /\ Unchanged
    /\ step' = "index.open" /\ index_file' = TornIndex
    /\ UNCHANGED <<up, taken, pending, flushing, batch, index, saving, tie, history,
                   troubles>>

\* Mutant: the index in memory has the name before the file is there.
OpenTieLate ==
    /\ InWrite("job") /\ ~ Unchanged
    /\ step' = "tie.open" /\ index' = [index EXCEPT ![Current] = pending[Current]]
    /\ UNCHANGED <<up, taken, pending, flushing, batch, tie, saving, index_file,
                   history, troubles>>

OpenTie ==
    /\ InWrite("job") /\ ~ Unchanged
    /\ step' = "tie.open" /\ tie' = [tie EXCEPT ![Current] = Torn]
    /\ UNCHANGED <<up, taken, pending, flushing, batch, index, saving, index_file,
                   history, troubles>>

\* The file is complete, and only then does the index in memory have it.
WriteTie ==
    /\ InWrite("tie.open")
    /\ step' = "tie.done"
    /\ tie' = [tie EXCEPT ![Current] = pending[Current]]
    /\ index' = [index EXCEPT ![Current] = pending[Current]]
    /\ UNCHANGED <<up, taken, pending, flushing, batch, saving, index_file, history,
                   troubles>>

OpenIndex ==
    /\ InWrite("tie.done")
    /\ step' = "index.open" /\ index_file' = TornIndex
    /\ UNCHANGED <<up, taken, pending, flushing, batch, index, saving, tie, history,
                   troubles>>

WriteIndex ==
    /\ InWrite("index.open")
    /\ step' = "written" /\ index_file' = index
    /\ UNCHANGED <<up, taken, pending, flushing, batch, index, saving, tie, history,
                   troubles>>

\* The job leaves the queue; after the last one flush returns to its caller.
JobDone ==
    /\ InWrite("written")
    /\ pending' = [pending EXCEPT ![Current] = Nothing]
    /\ StartFlush(batch \ {Current})
    /\ IF batch = {Current}
       THEN /\ saving' = NoSaving /\ at_boundary' = FALSE
            /\ steps_since_flush' = IF at_boundary THEN 0 ELSE steps_since_flush
       ELSE UNCHANGED <<saving, flushing>>
    /\ UNCHANGED <<up, taken, index, disk, history, troubles>>

WriteJob == SkipTie \/ OpenTie \/ WriteTie \/ OpenIndex \/ WriteIndex \/ JobDone

---------------------------------------------------------------------------
(* What goes wrong. *)

\* A file operation raises, and with it the call that flushes: the job and those behind it stay.
WriteFails ==
    /\ up /\ step \in {"job", "tie.open", "tie.done", "index.open"} /\ troubles < MaxTroubles
    /\ troubles' = troubles + 1
    /\ step' = "idle" /\ batch' = {} /\ saving' = NoSaving /\ at_boundary' = FALSE
    /\ UNCHANGED <<up, taken, pending, steps_since_flush, index, disk, history>>

Crash ==
    /\ up /\ troubles < MaxTroubles
    /\ troubles' = troubles + 1 /\ up' = FALSE
    /\ pending' = NoJobs /\ steps_since_flush' = 0 /\ at_boundary' = FALSE
    /\ batch' = {} /\ step' = "idle" /\ index' = NoJobs /\ saving' = NoSaving
    /\ UNCHANGED <<taken, disk, history>>

\* A new process: _load_index takes an unreadable index for an empty one.
Restart ==
    /\ ~ up /\ up' = TRUE
    /\ index' = IF index_file = TornIndex THEN NoJobs ELSE index_file
    /\ UNCHANGED <<taken, pending, flushing, batch, step, saving, disk, history, troubles>>

---------------------------------------------------------------------------
(* snapshot and restore of the queue: what waits is given up for what waited *)
(* when the snapshot was taken; the files stay as they are.                  *)

Snapshot ==
    /\ Quiet /\ taken' = pending
    /\ UNCHANGED <<up, memory, disk, history, troubles>>

Restore ==
    /\ Quiet /\ pending' = taken
    /\ dropped' = dropped \cup {n \in Names : taken[n] \notin {pending[n], wanted[n]}}
    /\ UNCHANGED <<up, taken, flushing, batch, step, index, saving, disk, wanted, troubles>>

---------------------------------------------------------------------------
Next ==
    \/ Extract \/ StepEnds \/ RunPasses \/ RunEnds \/ Stop \/ SaveGenotype
    \/ WriteJob \/ WriteFails \/ Crash \/ Restart
    \/ Snapshot \/ Restore

Spec == Init /\ [][Next]_vars

---------------------------------------------------------------------------
TypeOK ==
    /\ up \in BOOLEAN /\ pending \in Jobs /\ taken \in Jobs /\ wanted \in Jobs
    /\ steps_since_flush \in Nat /\ at_boundary \in BOOLEAN
    /\ dropped \subseteq Names /\ troubles \in 0 .. MaxTroubles
    /\ batch \subseteq Waiting /\ step \in Steps /\ (step = "idle" <=> batch = {})
    /\ index \in Jobs /\ index_file \in Jobs \cup {TornIndex}
    /\ tie \in [Names -> Genomes \cup {Nothing, Torn}]
    /\ saving \in {NoSaving} \cup (Names \X Genomes)

(* The index never names a genotype that has no file, in memory or on disk,   *)
(* at whatever step the process dies: files are written before the entry.     *)
IndexedHasFile ==
    \A n \in Names : (index[n] # Nothing \/ (index_file # TornIndex /\ index_file[n] # Nothing)) =>
        tie[n] # Nothing

\* What a flush would leave in the file.
Held(n) == IF pending[n] # Nothing THEN pending[n] ELSE tie[n]

(* Deferring, coalescing and skipping lose nothing: as long as no write failed *)
(* and no process died, the genome last handed over under a name waits in the  *)
(* queue or is what the file holds.  A restore does lose: the names whose job  *)
(* it takes away, or replaces by an older one, are exempt until a genome is    *)
(* handed over under them again; on all others it changes nothing.             *)
LastHandedIsKept ==
    Quiet /\ troubles = 0 => \A n \in Names \ dropped : Held(n) = wanted[n]

(* A job that waits leaves the queue, written or lost with its process, if     *)
(* steps or runs come to their end again and again; neither restores nor       *)
(* failed writes put it off for ever.  Boundaries within a run are not enough  *)
(* (it may never meet a multiple of 64), nor are runs that a limit ends.       *)
JobsLeaveTheQueue ==
    []<><<StepEnds \/ RunEnds>>_vars =>
        \A n \in Names : pending[n] # Nothing ~> pending[n] = Nothing

(* docs/api.md, save_genotype: "Force permanent + write .tie via deferred     *)
(* queue": when it has come back the file holds the genome.  It does not      *)
(* hold: after a failed rewrite the index names a genome the file has not.    *)
SaveWritesTie ==
    [][\A n \in Names, g \in Genomes :
          saving = <<n, g>> /\ step = "written" /\ saving' = NoSaving /\ up' => tie'[n] = g]_vars

===========================================================================

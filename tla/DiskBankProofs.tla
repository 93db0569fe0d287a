-------------------------- MODULE DiskBankProofs --------------------------
(***************************************************************************)
(* The disk bank is safe for any names, genomes and limits.  Files come    *)
(* before the entries that name them, at whatever step the process dies:   *)
(* that is inductive once the job being written is known to be a job that  *)
(* waits.  And until something goes wrong nothing handed over is lost:     *)
(* what makes this inductive is that the index in memory mirrors the files *)
(* but for the one under way, so that skipping a write is right; and that  *)
(* the names a restore leaves alone keep their job or get back the last.   *)
(***************************************************************************)
EXTENDS DiskBank, TLAPS

JobAtHand == step # "idle" => up /\ Current \in batch

FilesInv == TypeOK /\ JobAtHand /\ IndexedHasFile

\* What is wanted waits or is in its file, at every step of a flush.
Kept == \A n \in Names \ dropped : Held(n) = wanted[n]

IndexMirrorsFiles == \A n \in Names : index[n] = tie[n] \/ (step = "tie.open" /\ n = Current)

Written == step \in {"tie.done", "index.open", "written"} => index[Current] = pending[Current]

NothingLost == troubles = 0 => up /\ Kept /\ IndexMirrorsFiles /\ Written

---------------------------------------------------------------------------
(* The queue. *)

\* Any choice of the next job is a job of the batch.
LEMMA CurrentInBatch ==
    /\ batch # {} => Current \in batch
    /\ batch' # {} => Current' \in batch'
BY DEF Current

LEMMA NoJobsAreJobs ==
    /\ NoJobs \in Jobs /\ \A n \in Names : NoJobs[n] = Nothing
    /\ \A n \in Names : TornIndex[n] = Torn
BY DEF NoJobs, Jobs, TornIndex

\* A batch is started from what waits, or from what is left of one.
LEMMA StartedFlush ==
    ASSUME NEW jobs, StartFlush(jobs), up'
    PROVE  /\ batch' = jobs /\ step' \in {"idle", "job"}
           /\ step' \in Steps /\ (step' = "idle" <=> batch' = {}) /\ JobAtHand'
<1>1. batch' = jobs /\ step' = IF jobs = {} THEN "idle" ELSE "job"
  BY DEF StartFlush
<1>2. step' # "idle" => Current' \in batch'
  BY <1>1, CurrentInBatch
<1> QED
  BY <1>1, <1>2 DEF Steps, JobAtHand

---------------------------------------------------------------------------
(* Files come before the entries that name them. *)

LEMMA InitFiles == Init => FilesInv
<1> SUFFICES ASSUME Init PROVE FilesInv
  OBVIOUS
<1>1. Waiting = {} /\ tie \in [Names -> Genomes \cup {Nothing, Torn}]
  BY NoJobsAreJobs DEF Init, Waiting, Jobs, NoJobs
<1>2. steps_since_flush \in Nat /\ troubles \in 0 .. MaxTroubles
  BY DiskBankAssumption DEF Init
<1>3. TypeOK
  BY <1>1, <1>2, NoJobsAreJobs DEF Init, TypeOK, Steps
<1>4. JobAtHand /\ IndexedHasFile
  BY NoJobsAreJobs DEF Init, JobAtHand, IndexedHasFile
<1> QED
  BY <1>3, <1>4 DEF FilesInv

\* Neither the index nor a file is touched: what is left is the queue.
LEMMA DiskUntouched ==
    IndexedHasFile /\ UNCHANGED <<index, disk>> => IndexedHasFile'
BY DEF IndexedHasFile, disk

LEMMA NextFiles == FilesInv /\ [Next]_vars => FilesInv'
<1> SUFFICES ASSUME FilesInv, [Next]_vars PROVE FilesInv'
  OBVIOUS
<1> USE DEF FilesInv, flushing, history
<1>0. TypeOK /\ JobAtHand /\ IndexedHasFile
  OBVIOUS
<1>1. CASE Extract
  <2>1. PICK n \in Names, g \in Genomes : Enqueue(n, g)
    BY <1>1 DEF Extract
  <2>2. pending' \in Jobs /\ wanted' \in Jobs /\ dropped' \subseteq Names
    BY <1>0, <2>1 DEF Enqueue, TypeOK, Jobs
  <2>3. batch = {} /\ batch' = {} /\ step' = "idle"
    BY <1>0, <1>1 DEF Extract, Quiet, TypeOK
  <2>4. TypeOK'
    BY <1>0, <1>1, <2>2, <2>3 DEF Extract, TypeOK, Waiting, disk
  <2>5. JobAtHand'
    BY <2>3 DEF JobAtHand
  <2>6. IndexedHasFile'
    BY <1>0, <1>1, DiskUntouched DEF Extract
  <2> QED
    BY <2>4, <2>5, <2>6
<1>2. CASE Boundary
  <2>0. steps_since_flush' \in Nat /\ at_boundary' \in BOOLEAN
    <3>1. steps_since_flush' \in {0, steps_since_flush, steps_since_flush + 1}
      BY <1>2 DEF Boundary
    <3>2. at_boundary' = at_boundary \/ at_boundary' = (Waiting # {})
      BY <1>2, Zenon DEF Boundary
    <3>3. (Waiting # {}) \in BOOLEAN
      OBVIOUS
    <3>4. at_boundary' \in BOOLEAN
      BY <1>0, <3>2, <3>3, Zenon DEF TypeOK
    <3>5. steps_since_flush' \in Nat
      BY <1>0, <3>1 DEF TypeOK
    <3> QED
      BY <3>4, <3>5
  <2>1. CASE StartFlush(Waiting)
    <3>1. batch' = Waiting /\ step' \in Steps /\ (step' = "idle" <=> batch' = {}) /\ JobAtHand'
      BY <1>2, <2>1, StartedFlush DEF Boundary, Quiet
    <3>2. TypeOK'
      BY <1>0, <1>2, <2>0, <3>1 DEF Boundary, TypeOK, Waiting, disk
    <3> QED
      BY <1>0, <1>2, <3>1, <3>2, DiskUntouched DEF Boundary
  <2>2. CASE UNCHANGED <<at_boundary, batch, step>>
    <3>1. TypeOK'
      BY <1>0, <1>2, <2>0, <2>2 DEF Boundary, TypeOK, Waiting, disk
    <3>2. JobAtHand'
      BY <1>2, <2>2 DEF Boundary, Quiet, JobAtHand
    <3> QED
      BY <1>0, <1>2, <3>1, <3>2, DiskUntouched DEF Boundary
  <2> QED
    BY <1>2, <2>1, <2>2 DEF Boundary
<1>3. CASE FlushNow
  <2>1. batch' = Waiting /\ step' \in Steps /\ (step' = "idle" <=> batch' = {}) /\ JobAtHand'
    BY <1>3, StartedFlush DEF FlushNow, Quiet
  <2>2. TypeOK'
    BY <1>0, <1>3, <2>1 DEF FlushNow, TypeOK, Waiting, disk
  <2> QED
    BY <1>0, <1>3, <2>1, <2>2, DiskUntouched DEF FlushNow
<1>4. CASE SaveGenotype
  <2>1. PICK n \in Names, g \in Genomes :
           Enqueue(n, g) /\ StartFlush(Waiting \cup {n}) /\ saving' = <<n, g>>
    BY <1>4 DEF SaveGenotype
  <2>2. pending' \in Jobs /\ wanted' \in Jobs /\ dropped' \subseteq Names
    BY <1>0, <2>1 DEF Enqueue, TypeOK, Jobs
  <2>3. /\ batch' = Waiting \cup {n} /\ step' \in Steps /\ (step' = "idle" <=> batch' = {})
        /\ JobAtHand'
    BY <1>4, <2>1, StartedFlush DEF SaveGenotype, Quiet
  <2>4. Waiting' = Waiting \cup {n}
    BY <1>0, <2>1, DiskBankAssumption DEF Enqueue, TypeOK, Jobs, Waiting
  <2>5. TypeOK'
    BY <1>0, <1>4, <2>1, <2>2, <2>3, <2>4 DEF SaveGenotype, TypeOK, disk
  <2> QED
    BY <1>0, <1>4, <2>3, <2>5, DiskUntouched DEF SaveGenotype
<1>5. ASSUME NEW s, InWrite(s), s # "idle" PROVE Current \in batch /\ Current \in Names /\ pending[Current] \in Genomes
  BY <1>0, <1>5 DEF InWrite, JobAtHand, TypeOK, Waiting, Jobs
<1>6. ASSUME UNCHANGED batch PROVE Current' = Current
  BY <1>6 DEF Current
<1>7. CASE SkipTie \/ OpenIndex
  <2>1. TypeOK'
    BY <1>0, <1>7 DEF SkipTie, OpenIndex, InWrite, TypeOK, Waiting, Steps
  <2>2. JobAtHand'
    BY <1>0, <1>6, <1>7 DEF SkipTie, OpenIndex, InWrite, JobAtHand
  <2>3. IndexedHasFile'
    BY <1>0, <1>7 DEF SkipTie, OpenIndex, IndexedHasFile
  <2> QED
    BY <2>1, <2>2, <2>3
<1>8. CASE OpenTie
  <2>0. tie' \in [Names -> Genomes \cup {Nothing, Torn}]
    BY <1>0, <1>8 DEF OpenTie, TypeOK
  <2>1. TypeOK'
    BY <1>0, <1>8, <2>0 DEF OpenTie, InWrite, TypeOK, Waiting, Steps
  <2>2. JobAtHand'
    BY <1>0, <1>6, <1>8 DEF OpenTie, InWrite, JobAtHand
  <2>3. \A n \in Names : tie[n] # Nothing => tie'[n] # Nothing
    BY <1>0, <1>8 DEF OpenTie, TypeOK, Nothing, Torn
  <2>4. IndexedHasFile'
    BY <1>0, <1>8, <2>3 DEF OpenTie, IndexedHasFile
  <2> QED
    BY <2>1, <2>2, <2>4
<1>9. CASE WriteTie
  <2>0. Current \in batch /\ Current \in Names /\ pending[Current] \in Genomes
    BY <1>5, <1>9 DEF WriteTie
  <2>1. tie' \in [Names -> Genomes \cup {Nothing, Torn}] /\ index' \in Jobs
    BY <1>0, <1>9, <2>0 DEF WriteTie, TypeOK, Jobs
  <2>2. TypeOK'
    BY <1>0, <1>9, <2>1 DEF WriteTie, InWrite, TypeOK, Waiting, Steps
  <2>3. JobAtHand'
    BY <1>0, <1>6, <1>9 DEF WriteTie, InWrite, JobAtHand
  <2>4. \A n \in Names : /\ tie[n] # Nothing => tie'[n] # Nothing
                         /\ n # Current => index'[n] = index[n]
                         /\ n = Current => tie'[n] # Nothing
    BY <1>0, <1>9, <2>0, DiskBankAssumption DEF WriteTie, TypeOK, Jobs
  <2>5. IndexedHasFile'
    BY <1>0, <1>9, <2>4 DEF WriteTie, IndexedHasFile
  <2> QED
    BY <2>2, <2>3, <2>5
<1>10. CASE WriteIndex
  <2>1. TypeOK'
    BY <1>0, <1>10 DEF WriteIndex, InWrite, TypeOK, Waiting, Steps
  <2>2. JobAtHand'
    BY <1>0, <1>6, <1>10 DEF WriteIndex, InWrite, JobAtHand
  <2>3. IndexedHasFile'
    BY <1>0, <1>10 DEF WriteIndex, IndexedHasFile
  <2> QED
    BY <2>1, <2>2, <2>3
<1>11. CASE JobDone
  <2>0. Current \in batch /\ Current \in Names /\ pending[Current] \in Genomes
    BY <1>5, <1>11 DEF JobDone
  <2>1. pending' \in Jobs /\ \A n \in Names : n # Current => pending'[n] = pending[n]
    BY <1>0, <1>11, <2>0 DEF JobDone, TypeOK, Jobs
  <2>2. /\ batch' = batch \ {Current} /\ step' \in Steps /\ (step' = "idle" <=> batch' = {})
        /\ JobAtHand'
    BY <1>11, StartedFlush DEF JobDone, InWrite
  <2>3. batch' \subseteq Waiting'
    BY <1>0, <2>1, <2>2 DEF TypeOK, Waiting
  <2>4. /\ steps_since_flush' \in Nat /\ at_boundary' \in BOOLEAN
        /\ saving' \in {NoSaving} \cup (Names \X Genomes)
    <3>1. steps_since_flush' = 0 \/ steps_since_flush' = steps_since_flush
      BY <1>11, Zenon DEF JobDone
    <3>2. at_boundary' = FALSE \/ at_boundary' = at_boundary
      BY <1>11, Zenon DEF JobDone
    <3>3. saving' = NoSaving \/ saving' = saving
      BY <1>11, Zenon DEF JobDone
    <3>4. at_boundary' \in BOOLEAN
      BY <1>0, <3>2, Zenon DEF TypeOK
    <3>5. steps_since_flush' \in Nat /\ saving' \in {NoSaving} \cup (Names \X Genomes)
      BY <1>0, <3>1, <3>3 DEF TypeOK
    <3> QED
      BY <3>4, <3>5
  <2>5. TypeOK'
    BY <1>0, <1>11, <2>1, <2>2, <2>3, <2>4 DEF JobDone, TypeOK, disk
  <2> QED
    BY <1>0, <1>11, <2>2, <2>5, DiskUntouched DEF JobDone
<1>12. CASE WriteFails
  <2>1. troubles' \in 0 .. MaxTroubles
    BY <1>0, <1>12, DiskBankAssumption DEF WriteFails, TypeOK
  <2>2. TypeOK'
    BY <1>0, <1>12, <2>1 DEF WriteFails, TypeOK, Waiting, Steps, disk
  <2>3. JobAtHand'
    BY <1>12 DEF WriteFails, JobAtHand
  <2> QED
    BY <1>0, <1>12, <2>2, <2>3, DiskUntouched DEF WriteFails
<1>13. CASE Crash
  <2>1. troubles' \in 0 .. MaxTroubles /\ steps_since_flush' \in Nat
    BY <1>0, <1>13, DiskBankAssumption DEF Crash, TypeOK
  <2>2. TypeOK'
    BY <1>0, <1>13, <2>1, NoJobsAreJobs DEF Crash, TypeOK, Waiting, Steps, disk
  <2>3. JobAtHand'
    BY <1>13 DEF Crash, JobAtHand
  <2>4. IndexedHasFile'
    BY <1>0, <1>13, NoJobsAreJobs DEF Crash, IndexedHasFile, disk
  <2> QED
    BY <2>2, <2>3, <2>4
<1>14. CASE Restart
  <2>1. index' \in Jobs /\ UNCHANGED <<tie, index_file>>
    BY <1>0, <1>14, NoJobsAreJobs DEF Restart, TypeOK, disk
  <2>2. TypeOK'
    BY <1>0, <1>14, <2>1 DEF Restart, TypeOK, Waiting
  <2>3. JobAtHand'
    BY <1>0, <1>14 DEF Restart, JobAtHand
  <2>4. \A n \in Names : index'[n] # Nothing => index_file # TornIndex /\ index_file[n] # Nothing
    BY <1>14, NoJobsAreJobs DEF Restart
  <2>5. IndexedHasFile'
    BY <1>0, <2>1, <2>4 DEF IndexedHasFile
  <2> QED
    BY <2>2, <2>3, <2>5
<1>15. CASE Snapshot
  <2>1. TypeOK' /\ JobAtHand'
    BY <1>0, <1>15 DEF Snapshot, Quiet, memory, disk, TypeOK, JobAtHand, Waiting
  <2> QED
    BY <1>0, <1>15, <2>1, DiskUntouched DEF Snapshot, memory
<1>16. CASE Restore
  <2>1. pending' \in Jobs /\ dropped' \subseteq Names
    BY <1>0, <1>16 DEF Restore, TypeOK, Jobs
  <2>2. batch' = {} /\ step' = "idle"
    BY <1>0, <1>16 DEF Restore, Quiet, TypeOK
  <2>3. TypeOK' /\ JobAtHand'
    BY <1>0, <1>16, <2>1, <2>2 DEF Restore, disk, TypeOK, JobAtHand, Waiting
  <2> QED
    BY <1>0, <1>16, <2>3, DiskUntouched DEF Restore
<1>17. CASE UNCHANGED vars
  <2>1. TypeOK' /\ JobAtHand'
    BY <1>0, <1>6, <1>17 DEF vars, memory, disk, TypeOK, JobAtHand, Waiting
  <2> QED
    BY <1>0, <1>17, <2>1, DiskUntouched DEF vars, memory
<1> QED
  BY <1>1, <1>2, <1>3, <1>4, <1>7, <1>8, <1>9, <1>10, <1>11, <1>12, <1>13, <1>14, <1>15, <1>16, <1>17
  DEF Next, WriteJob, StepEnds, RunPasses, RunEnds, Stop

LEMMA SpecFiles == Spec => []FilesInv
BY InitFiles, NextFiles, PTL DEF Spec

(* Whatever the names, the genomes, the limits and the troubles, the queue,   *)
(* the files and the index stay well formed, and a batch holds waiting jobs.  *)
THEOREM DiskBankTypeCorrect == Spec => []TypeOK
BY SpecFiles, PTL DEF FilesInv

(* DiskBankStore writes a file before the entry that names it: no crash and   *)
(* no failed write leaves an entry, in memory or on disk, without its file.   *)
THEOREM DiskBankFilesComeFirst == Spec => []IndexedHasFile
BY SpecFiles, PTL DEF FilesInv

---------------------------------------------------------------------------
(* Nothing is lost while nothing goes wrong. *)

LEMMA InitLosesNothing == Init => NothingLost
BY NoJobsAreJobs DEF Init, NothingLost, Kept, Held, IndexMirrorsFiles, Written

\* The files, the index and the job under way are left alone.
LEMMA FilesUntouched ==
    /\ IndexMirrorsFiles /\ step = "idle" /\ UNCHANGED <<index, tie>> => IndexMirrorsFiles'
    /\ step' \in {"idle", "job"} => Written'
BY DEF IndexMirrorsFiles, Written

LEMMA NextLosesNothing == FilesInv /\ NothingLost /\ [Next]_vars => NothingLost'
<1> SUFFICES ASSUME TypeOK, JobAtHand, NothingLost, [Next]_vars, troubles' = 0
             PROVE  up' /\ Kept' /\ IndexMirrorsFiles' /\ Written'
  BY DEF NothingLost, FilesInv
<1> USE DEF flushing, history
<1>0. troubles = 0 /\ ~ WriteFails /\ ~ Crash
  <2>1. UNCHANGED troubles \/ troubles' = troubles + 1
    BY DEF Next, StepEnds, RunPasses, RunEnds, Stop, vars, Extract, Boundary, FlushNow, SaveGenotype, WriteJob, SkipTie, OpenTie,
       WriteTie, OpenIndex, WriteIndex, JobDone, WriteFails, Crash, Restart, Snapshot, Restore
  <2>2. troubles \in Nat
    BY DiskBankAssumption DEF TypeOK
  <2> QED
    BY <2>1, <2>2 DEF WriteFails, Crash
<1>1. up /\ Kept /\ IndexMirrorsFiles /\ Written
  BY <1>0 DEF NothingLost
<1>2. ~ Restart
  BY <1>1 DEF Restart
<1>3. CASE Extract
  <2>1. PICK n \in Names, g \in Genomes : Enqueue(n, g)
    BY <1>3 DEF Extract
  <2>2. Kept'
    BY <1>1, <1>3, <2>1, DiskBankAssumption DEF Extract, Enqueue, disk, Kept, Held, TypeOK, Jobs
  <2> QED
    BY <1>1, <1>3, <2>2, FilesUntouched DEF Extract, Quiet, disk
<1>4. CASE Boundary \/ FlushNow
  <2>1. step' \in {"idle", "job"}
    BY <1>4 DEF Boundary, FlushNow, Quiet, StartFlush
  <2>2. Kept'
    BY <1>1, <1>4 DEF Boundary, FlushNow, disk, Kept, Held
  <2> QED
    BY <1>1, <1>4, <2>1, <2>2, FilesUntouched DEF Boundary, FlushNow, Quiet, disk
<1>5. CASE SaveGenotype
  <2>1. PICK n \in Names, g \in Genomes :
           Enqueue(n, g) /\ StartFlush(Waiting \cup {n}) /\ saving' = <<n, g>>
    BY <1>5 DEF SaveGenotype
  <2>2. Kept'
    BY <1>1, <1>5, <2>1, DiskBankAssumption DEF SaveGenotype, Enqueue, disk, Kept, Held, TypeOK, Jobs
  <2>3. step' \in {"idle", "job"}
    BY <2>1 DEF StartFlush
  <2> QED
    BY <1>1, <1>5, <2>2, <2>3, FilesUntouched DEF SaveGenotype, Quiet, disk
<1>6. ASSUME NEW s, InWrite(s), s # "idle" PROVE Current \in Names /\ pending[Current] \in Genomes
  BY <1>6 DEF InWrite, JobAtHand, TypeOK, Waiting, Jobs
<1>7. ASSUME UNCHANGED batch PROVE Current' = Current
  BY <1>7 DEF Current
\* The hash in the index matches, so the file already has the genome.
<1>8. CASE SkipTie
  <2>1. Kept' /\ IndexMirrorsFiles'
    BY <1>1, <1>8 DEF SkipTie, InWrite, Kept, Held, IndexMirrorsFiles
  <2>2. Written'
    BY <1>7, <1>8 DEF SkipTie, Unchanged, Written
  <2> QED
    BY <1>1, <1>8, <2>1, <2>2 DEF SkipTie
<1>9. CASE OpenTie
  <2>1. Current \in Names /\ pending[Current] # Nothing /\ Current' = Current
    BY <1>6, <1>7, <1>9, DiskBankAssumption DEF OpenTie
  <2>2. \A n \in Names : n # Current => tie'[n] = tie[n]
    BY <1>9 DEF OpenTie, TypeOK
  <2>3. Kept'
    BY <1>1, <1>9, <2>1, <2>2 DEF OpenTie, Kept, Held
  <2>4. IndexMirrorsFiles'
    BY <1>1, <1>9, <2>1, <2>2 DEF OpenTie, InWrite, IndexMirrorsFiles
  <2> QED
    BY <1>1, <1>9, <2>3, <2>4 DEF OpenTie, Written
<1>10. CASE WriteTie
  <2>1. Current \in Names /\ pending[Current] # Nothing /\ Current' = Current
    BY <1>6, <1>7, <1>10, DiskBankAssumption DEF WriteTie
  <2>2. /\ \A n \in Names : n # Current => tie'[n] = tie[n] /\ index'[n] = index[n]
        /\ tie'[Current] = pending[Current] /\ index'[Current] = pending[Current]
    BY <1>10, <2>1 DEF WriteTie, TypeOK, Jobs
  <2>3. Kept'
    BY <1>1, <1>10, <2>1, <2>2 DEF WriteTie, Kept, Held
  <2>4. IndexMirrorsFiles' /\ Written'
    BY <1>1, <1>10, <2>1, <2>2 DEF WriteTie, IndexMirrorsFiles, Written
  <2> QED
    BY <1>1, <1>10, <2>3, <2>4 DEF WriteTie
<1>11. CASE OpenIndex \/ WriteIndex
  <2>1. Kept' /\ IndexMirrorsFiles'
    BY <1>1, <1>11 DEF OpenIndex, WriteIndex, InWrite, Kept, Held, IndexMirrorsFiles
  <2>2. Written'
    BY <1>1, <1>7, <1>11 DEF OpenIndex, WriteIndex, InWrite, Written
  <2> QED
    BY <1>1, <1>11, <2>1, <2>2 DEF OpenIndex, WriteIndex
\* The job leaves the queue, and the file has what was wanted.
<1>12. CASE JobDone
  <2>1. Current \in Names /\ pending[Current] # Nothing
    BY <1>6, <1>12, DiskBankAssumption DEF JobDone
  <2>2. /\ \A n \in Names : n # Current => pending'[n] = pending[n]
        /\ pending'[Current] = Nothing /\ UNCHANGED <<index, tie, wanted, dropped>>
    BY <1>12, <2>1 DEF JobDone, disk, TypeOK, Jobs
  <2>3. index[Current] = pending[Current] /\ \A n \in Names : index[n] = tie[n]
    BY <1>1, <1>12 DEF JobDone, InWrite, Written, IndexMirrorsFiles
  <2>4. Kept'
    BY <1>1, <2>1, <2>2, <2>3 DEF Kept, Held
  <2>5. IndexMirrorsFiles'
    BY <2>2, <2>3 DEF IndexMirrorsFiles
  <2>6. Written'
    BY <1>12, FilesUntouched DEF JobDone, StartFlush
  <2> QED
    BY <1>1, <1>12, <2>4, <2>5, <2>6 DEF JobDone
<1>13. CASE Snapshot
  <2>1. Kept' /\ Written'
    BY <1>1, <1>13, FilesUntouched DEF Snapshot, Quiet, memory, disk, Kept, Held
  <2> QED
    BY <1>1, <1>13, <2>1, FilesUntouched DEF Snapshot, Quiet, memory, disk
\* The names that are not dropped keep their job, or get back the one last handed over.
<1>14. CASE Restore
  <2>1. /\ step = "idle" /\ pending' = taken /\ UNCHANGED <<up, step, index, tie, wanted>>
        /\ \A n \in Names \ dropped' : n \notin dropped /\ taken[n] \in {pending[n], wanted[n]}
    BY <1>14 DEF Restore, Quiet, disk
  <2>2. ASSUME NEW n \in Names \ dropped' PROVE Held(n)' = wanted'[n]
    <3>1. Held(n) = wanted[n] /\ taken[n] \in {pending[n], wanted[n]}
      BY <1>1, <2>1 DEF Kept
    <3>2. pending'[n] = taken[n] /\ tie'[n] = tie[n] /\ wanted'[n] = wanted[n]
      BY <2>1
    <3>3. (IF pending'[n] # Nothing THEN pending'[n] ELSE tie'[n]) = wanted'[n]
      BY <3>1, <3>2 DEF Held
    <3> QED
      BY <3>3 DEF Held
  <2>3. Kept'
    BY <2>2 DEF Kept
  <2> QED
    BY <1>1, <2>1, <2>3, FilesUntouched
<1>15. CASE UNCHANGED vars
  <2>1. Current' = Current /\ UNCHANGED <<up, pending, step, index, tie, wanted, dropped>>
    BY <1>7, <1>15 DEF vars, memory, disk
  <2> QED
    BY <1>1, <2>1 DEF Kept, Held, IndexMirrorsFiles, Written
<1> QED
  BY <1>0, <1>2, <1>3, <1>4, <1>5, <1>8, <1>9, <1>10, <1>11, <1>12, <1>13, <1>14, <1>15
  DEF Next, WriteJob, StepEnds, RunPasses, RunEnds, Stop

(* As long as no write failed and no process died, deferring, coalescing and  *)
(* skipping lose nothing that was handed to the write queue; a restore loses  *)
(* only the jobs it takes away or replaces by older ones.                     *)
THEOREM DiskBankLosesNothing == Spec => []LastHandedIsKept
<1>1. NothingLost => LastHandedIsKept
  BY DEF NothingLost, Kept, LastHandedIsKept
<1> QED
  BY <1>1, SpecFiles, InitLosesNothing, NextLosesNothing, PTL DEF Spec

---------------------------------------------------------------------------
(* save_genotype keeps its promise while nothing goes wrong. *)

\* What it was asked to write is wanted, and is written when it is no longer in the batch.
SaveUnderWay ==
    /\ step = "idle" => saving = NoSaving
    /\ \A n \in Names, g \in Genomes :
          saving = <<n, g>> =>
             n \notin dropped /\ wanted[n] = g /\ (n \in batch \/ pending[n] = Nothing)

LEMMA InitSave == Init => SaveUnderWay
BY DiskBankAssumption DEF Init, SaveUnderWay, NoSaving

\* Between save_genotype's call and its return nobody else uses the queue.
LEMMA NextSave == FilesInv /\ SaveUnderWay /\ [Next]_vars => SaveUnderWay'
<1> SUFFICES ASSUME TypeOK, JobAtHand, SaveUnderWay, [Next]_vars PROVE SaveUnderWay'
  BY DEF FilesInv
<1> USE DEF flushing, history
<1> DEFINE Idle == \A n \in Names, g \in Genomes : <<n, g>> # NoSaving
<1>0. Idle
  BY DiskBankAssumption DEF NoSaving
<1>1. ASSUME saving' = NoSaving PROVE SaveUnderWay'
  BY <1>0, <1>1 DEF SaveUnderWay
<1>2. CASE Extract \/ Boundary \/ FlushNow \/ Restore \/ Snapshot
  BY <1>1, <1>2 DEF Extract, Boundary, FlushNow, Restore, Snapshot, Quiet, memory, SaveUnderWay
<1>3. CASE SaveGenotype
  <2>1. PICK n \in Names, g \in Genomes :
           Enqueue(n, g) /\ StartFlush(Waiting \cup {n}) /\ saving' = <<n, g>>
    BY <1>3 DEF SaveGenotype
  <2>2. wanted'[n] = g /\ n \notin dropped' /\ n \in batch' /\ step' # "idle"
    BY <2>1 DEF Enqueue, StartFlush, TypeOK, Jobs
  <2> QED
    BY <2>1, <2>2 DEF SaveUnderWay
<1>4. CASE SkipTie \/ OpenTie \/ WriteTie \/ OpenIndex \/ WriteIndex
  <2>1. UNCHANGED <<pending, batch, saving, wanted, dropped>> /\ step' # "idle"
    BY <1>4 DEF SkipTie, OpenTie, WriteTie, OpenIndex, WriteIndex
  <2> QED
    BY <2>1 DEF SaveUnderWay
<1>5. CASE JobDone
  <2>1. Current \in batch /\ Current \in Names
    BY <1>5 DEF JobDone, InWrite, JobAtHand, TypeOK, Waiting
  <2>2. batch' = batch \ {Current} /\ UNCHANGED <<wanted, dropped>>
    BY <1>5 DEF JobDone, StartFlush
  <2>3. \A n \in Names : pending'[n] = IF n = Current THEN Nothing ELSE pending[n]
    BY <1>5, <2>1 DEF JobDone, TypeOK, Jobs
  <2>4. CASE batch = {Current}
    BY <1>1, <1>5, <2>4 DEF JobDone
  <2>5. CASE batch # {Current}
    <3>1. saving' = saving /\ step' # "idle"
      BY <1>5, <2>1, <2>2, <2>5 DEF JobDone, StartFlush
    <3> QED
      BY <2>2, <2>3, <3>1 DEF SaveUnderWay
  <2> QED
    BY <2>4, <2>5
<1>6. CASE WriteFails \/ Crash
  BY <1>1, <1>6 DEF WriteFails, Crash
<1>7. CASE Restart
  <2>1. UNCHANGED <<pending, batch, step, saving, wanted, dropped>>
    BY <1>7 DEF Restart
  <2> QED
    BY <2>1 DEF SaveUnderWay
<1>8. CASE UNCHANGED vars
  BY <1>8 DEF vars, memory, SaveUnderWay
<1> QED
  BY <1>2, <1>3, <1>4, <1>5, <1>6, <1>7, <1>8
  DEF Next, WriteJob, StepEnds, RunPasses, RunEnds, Stop

(* docs/api.md promises that save_genotype writes the .tie.  The run on       *)
(* SaveWritesTie shows a failed write can make it break that promise; this is *)
(* the other half: until a write has failed or a process died it is kept.     *)
SaveWrites ==
    \A n \in Names, g \in Genomes :
        troubles = 0 /\ saving = <<n, g>> /\ step = "written" /\ saving' = NoSaving /\ up' =>
            tie'[n] = g

THEOREM SaveWritesTieUntilTrouble == Spec => [][SaveWrites]_vars
<1>1. ASSUME FilesInv, NothingLost, SaveUnderWay, [Next]_vars, NothingLost' PROVE [SaveWrites]_vars
  <2> SUFFICES ASSUME NEW n \in Names, NEW g \in Genomes,
                      troubles = 0, saving = <<n, g>>, step = "written", saving' = NoSaving, up'
               PROVE  tie'[n] = g
    BY DEF SaveWrites
  <2>1. saving' # saving
    BY DiskBankAssumption DEF NoSaving
  <2>2. JobDone /\ batch = {Current}
    BY <1>1, <2>1 DEF Next, StepEnds, RunPasses, RunEnds, Stop, WriteJob, vars, memory, Extract, Boundary, FlushNow, SaveGenotype, Quiet,
       SkipTie, OpenTie, WriteTie, OpenIndex, WriteIndex, JobDone, InWrite, WriteFails, Crash, Restart,
       Snapshot, Restore
  <2>3. n \notin dropped /\ wanted[n] = g /\ (n = Current \/ pending[n] = Nothing)
    BY <1>1, <2>2 DEF SaveUnderWay
  <2>4. n \notin dropped' /\ wanted'[n] = g /\ pending'[n] = Nothing
    BY <1>1, <2>2, <2>3 DEF JobDone, history, FilesInv, TypeOK, Jobs
  <2>5. Kept'
    BY <1>1, <2>2 DEF NothingLost, JobDone
  <2> QED
    BY <2>4, <2>5 DEF Kept, Held
<1> QED
  BY <1>1, SpecFiles, InitLosesNothing, NextLosesNothing, InitSave, NextSave, PTL DEF Spec

===========================================================================

---------------------------- MODULE GeneBank ----------------------------
(***************************************************************************)
(* The genebanker of a VM (services/genebank/rambank.py, RamBanker): which *)
(* name a genome is known under, who is counted under it, and what becomes *)
(* permanent.  With it the VM's calls that reach the bank (births, deaths, *)
(* inject, immigrants, save_genotype, emigrate, snapshot and restore).     *)
(* What becomes of the genomes handed to the write queue is the subject of *)
(* the module DiskBank; here only the last one handed over is kept.        *)
(*                                                                         *)
(* One size class is modelled: classes share no labels and no lookups.  A  *)
(* genome is a member of a small set; what a cell's genome has become in   *)
(* the soup (body) is kept apart from what it was born with (born).        *)
(***************************************************************************)
EXTENDS Integers, FiniteSets

CONSTANTS
    Slots,         \* cell ids
    Genomes,
    Hash,          \* hash_genome, collisions included
    MaxLabel,      \* bound on labels
    Inoculum,      \* the cells start() places: a label (NoLabel: the name gives none), a genome
    DiskBank,      \* the configuration lets common genotypes go to disk of themselves
    SavMinNum

Labels  == 0 .. MaxLabel - 1
NoLabel == -1
NoBytes == -1

ASSUME GeneBankAssumption ==
    /\ IsFiniteSet(Slots) /\ Slots \subseteq Nat
    /\ Genomes \subseteq Nat /\ Hash \in [Genomes -> Nat]
    /\ MaxLabel \in Nat /\ SavMinNum \in Nat /\ DiskBank \in BOOLEAN
    /\ DOMAIN Inoculum \subseteq Nat
    /\ \A i \in DOMAIN Inoculum :
          Inoculum[i].label \in Labels \cup {NoLabel} /\ Inoculum[i].genome \in Genomes

VARIABLES
    bank,          \* _by_name, which _classes mirrors: the record under each label in use
    next_gi,
    live, name, body,
    born,          \* auxiliary: what the cell's genome was when the bank was told of it
    unmoored,      \* auxiliary: names whose bytes the bank was made to change or forget
    todo,          \* inoculum still to place
    disk_bank,     \* a disk bank is attached
    handed,        \* the genome last handed to the write queue under a name
    undelivered    \* auxiliary: names made permanent by a call that hands nothing over

cells == <<live, name, body, born>>
vars  == <<bank, next_gi, cells, unmoored, todo, disk_bank, handed, undelivered>>
queue == <<handed, undelivered>>

MaybeBytes == Genomes \cup {NoBytes}

Record == [hash : Nat, pop : Nat, permanent : BOOLEAN,
           genome : MaybeBytes, last_seen : MaybeBytes]

Known == DOMAIN bank

\* bytes_for_compare
Bytes(r) == IF r.genome # NoBytes THEN r.genome ELSE r.last_seen

---------------------------------------------------------------------------
(* RamBanker *)

\* Mutant: the hash decides.
LookupByHash(g) == {n \in Known : bank[n].hash = Hash[g] /\ Bytes(bank[n]) # NoBytes}

\* _lookup: candidates by hash, then by their bytes.
Lookup(g) == {n \in Known : bank[n].hash = Hash[g] /\ Bytes(bank[n]) = g}

\* _new_label: labels are handed out once.
NewLabels ==
    LET free == (next_gi .. MaxLabel) \ Known
    IN  {l \in free : \A k \in free : l <= k}

Put(n, r) == [m \in Known \cup {n} |-> IF m = n THEN r ELSE bank[m]]

\* The names a birth may be filed under: the mother's if it has these bytes, a match, or a new one.
Filed(g, mother) ==
    IF mother \in Known /\ Bytes(bank[mother]) = g THEN {mother}
    ELSE IF Lookup(g) # {} THEN Lookup(g)
    ELSE NewLabels

\* Mutant: a match is not counted.
CountedMissed(n, g) ==
    IF n \in Known
    THEN [bank[n] EXCEPT !.last_seen = g, !.hash = Hash[g]]
    ELSE [hash |-> Hash[g], pop |-> 1, permanent |-> FALSE, genome |-> NoBytes, last_seen |-> g]

\* on_birth's record: one more under a known name, or the first of a new one.
Counted(n, g) ==
    IF n \in Known
    THEN [bank[n] EXCEPT !.pop = @ + 1, !.last_seen = g, !.hash = Hash[g]]
    ELSE [hash |-> Hash[g], pop |-> 1, permanent |-> FALSE, genome |-> NoBytes, last_seen |-> g]

\* mark_permanent
Permanent(r, g) ==
    [r EXCEPT !.permanent = TRUE, !.genome = g, !.last_seen = g, !.hash = Hash[g]]

\* Mutant: the extracted genome is not queued for the disk.
EnqueueNothing(n, g) == UNCHANGED handed /\ undelivered' = undelivered \ {n}

\* _enqueue_extract
Enqueue(n, g) == handed' = [handed EXCEPT ![n] = g] /\ undelivered' = undelivered \ {n}

\* What a call that marks a genotype permanent does next: without a disk bank it queues nothing.
Deliver(n, g) ==
    IF disk_bank THEN Enqueue(n, g)
    ELSE UNCHANGED handed /\ undelivered' = undelivered \cup {n}

\* Names whose record is made to hold other bytes than before.
Rebound(n, g) == IF n \in Known /\ Bytes(bank[n]) # g THEN {n} ELSE {}

\* _maybe_auto_extract: a common or a permanent genotype may go to disk, a common one always does.
Extracts(r) ==
    IF ~ (DiskBank /\ disk_bank) THEN {FALSE}
    ELSE IF r.pop >= SavMinNum THEN {TRUE} ELSE IF r.permanent THEN BOOLEAN ELSE {FALSE}

\* on_birth and what _notify_birth does with its answer, for the cell that takes slot c.
Enter(c, g, mother) ==
    \E n \in Filed(g, mother) :
        LET r == Counted(n, g)
        IN  /\ n \in Labels
            /\ \E extract \in Extracts(r) :
                  IF extract THEN bank' = Put(n, Permanent(r, g)) /\ Enqueue(n, g)
                  ELSE bank' = Put(n, r) /\ UNCHANGED queue
            /\ next_gi' = IF n \in Known THEN next_gi ELSE n + 1
            /\ live' = live \cup {c}
            /\ name' = [name EXCEPT ![c] = n]
            /\ body' = [body EXCEPT ![c] = g] /\ born' = [born EXCEPT ![c] = g]

---------------------------------------------------------------------------
(* start() *)

Init ==
    /\ bank = <<>> /\ next_gi = 0
    /\ live = {} /\ name = [c \in Slots |-> NoLabel]
    /\ body = [c \in Slots |-> NoBytes] /\ born = [c \in Slots |-> NoBytes]
    /\ unmoored = {} /\ todo = DOMAIN Inoculum
    /\ disk_bank = FALSE /\ handed = [n \in Labels |-> NoBytes] /\ undelivered = {}

\* attach_disk_bank, before start() or at any time after it.
AttachDiskBank ==
    /\ disk_bank' = TRUE
    /\ UNCHANGED <<bank, next_gi, cells, unmoored, todo, queue>>

\* The bank is made anew; what was handed to the queue stays there or on disk.
Start ==
    /\ bank' = <<>> /\ next_gi' = 0
    /\ live' = {} /\ name' = [c \in Slots |-> NoLabel]
    /\ body' = [c \in Slots |-> NoBytes] /\ born' = [c \in Slots |-> NoBytes]
    /\ unmoored' = {} /\ todo' = DOMAIN Inoculum
    /\ undelivered' = {} /\ UNCHANGED <<disk_bank, handed>>

Started == todo = {}

\* register_inoculum: the genome's own record, the one under the name it comes with, or a new one;
\* the record is permanent and holds these bytes from then on.
Registered(l, g) ==
    IF Lookup(g) # {} THEN Lookup(g) ELSE IF l = NoLabel THEN NewLabels ELSE {l}

\* inoculate: register, then on_birth, which finds the record just made.
Inoculate(c) ==
    /\ ~ Started /\ c \in Slots \ live
    /\ \E i \in todo :
       LET g == Inoculum[i].genome
       IN  /\ \A j \in todo : i <= j
           /\ todo' = todo \ {i}
           /\ \E n \in Registered(Inoculum[i].label, g) :
                 /\ n \in Labels
                 /\ bank' = Put(n, Permanent(Counted(n, g), g))
                 /\ next_gi' = IF n < next_gi THEN next_gi ELSE n + 1
                 /\ live' = live \cup {c} /\ name' = [name EXCEPT ![c] = n]
                 /\ unmoored' = unmoored \cup Rebound(n, g)
                 /\ undelivered' = undelivered \cup {n}
           /\ body' = [body EXCEPT ![c] = g] /\ born' = [born EXCEPT ![c] = g]
    /\ UNCHANGED <<disk_bank, handed>>

---------------------------------------------------------------------------
(* The life of cells. *)

\* divide: the daughter's genome is the mother's or another, and the mother may have been reaped.
Birth ==
    /\ Started
    /\ \E c \in Slots \ live, m \in Slots, g \in Genomes : m # c /\ Enter(c, g, name[m])
    /\ UNCHANGED <<unmoored, todo, disk_bank>>

\* inject and accept_immigrant: no mother.
Arrive ==
    /\ Started
    /\ \E c \in Slots \ live, g \in Genomes : Enter(c, g, NoLabel)
    /\ UNCHANGED <<unmoored, todo, disk_bank>>

\* Writes and mutations in the soup; the bank is not told.
Change ==
    /\ Started
    /\ \E c \in live, g \in Genomes : body[c] # g /\ body' = [body EXCEPT ![c] = g]
    /\ UNCHANGED <<bank, next_gi, live, name, born, unmoored, todo, disk_bank, queue>>

\* _reap_cell and on_death: the last of a genotype takes the record along, a permanent one stays.
Death ==
    /\ Started
    /\ \E c \in live :
          /\ live' = live \ {c}
          /\ IF name[c] \notin Known THEN UNCHANGED bank
             ELSE LET n == name[c]
                      r == [bank[n] EXCEPT !.pop = IF @ > 0 THEN @ - 1 ELSE 0]
                  IN  bank' = IF r.pop = 0 /\ ~ r.permanent
                              THEN [m \in Known \ {n} |-> bank[m]]
                              ELSE Put(n, r)
          /\ body' = [body EXCEPT ![c] = NoBytes] /\ born' = [born EXCEPT ![c] = NoBytes]
    /\ UNCHANGED <<next_gi, name, unmoored, todo, disk_bank, queue>>

---------------------------------------------------------------------------
(* What the host asks for. *)

\* The genome find_live_genome returns: the record's own, the first living cell's, the last seen.
FindLive(n) ==
    LET bearers == {c \in live : name[c] = n}
    IN  IF bank[n].genome # NoBytes THEN {bank[n].genome}
        ELSE IF bearers # {} THEN {body[c] : c \in {b \in bearers : \A d \in bearers : b <= d}}
        ELSE {bank[n].last_seen}

\* save_genotype: permanent, and handed to the queue (which it flushes, see DiskBank); without a
\* disk bank the call raises, but only after the record has been marked.
SaveGenotype ==
    /\ Started
    /\ \E n \in Known : \E g \in FindLive(n) :
          /\ g # NoBytes
          /\ bank' = Put(n, Permanent(bank[n], g))
          /\ unmoored' = unmoored \cup Rebound(n, g)
          /\ Deliver(n, g)
    /\ UNCHANGED <<next_gi, cells, todo, disk_bank>>

\* offer_emigrant: the cell's genome as it is now becomes the one of its name; it goes to the
\* transport in any case, to the queue only with a disk bank.
Emigrate ==
    /\ Started
    /\ \E c \in live :
          LET n == name[c]
          IN  /\ IF n \in Known THEN bank' = Put(n, Permanent(bank[n], body[c])) ELSE UNCHANGED bank
              /\ unmoored' = unmoored \cup Rebound(n, body[c])
              /\ Deliver(n, body[c])
    /\ UNCHANGED <<next_gi, cells, todo, disk_bank>>

\* snapshot and restore with nothing between them: only permanent records keep their bytes.
Resumed(r) ==
    IF r.permanent /\ r.genome # NoBytes THEN [r EXCEPT !.last_seen = r.genome]
    ELSE [r EXCEPT !.genome = NoBytes, !.last_seen = NoBytes]

Resume ==
    /\ Started
    /\ bank' = [n \in Known |-> Resumed(bank[n])]
    /\ unmoored' = unmoored \cup {n \in Known : Bytes(bank'[n]) # Bytes(bank[n])}
    /\ UNCHANGED <<next_gi, cells, todo, disk_bank, queue>>

---------------------------------------------------------------------------
Next ==
    \/ AttachDiskBank \/ Start \/ \E c \in Slots : Inoculate(c)
    \/ Birth \/ Arrive \/ Change \/ Death
    \/ SaveGenotype \/ Emigrate \/ Resume

Spec == Init /\ [][Next]_vars

---------------------------------------------------------------------------
TypeOK ==
    /\ Known \subseteq Labels /\ bank \in [Known -> Record] /\ next_gi \in 0 .. MaxLabel
    /\ live \subseteq Slots /\ name \in [Slots -> Labels \cup {NoLabel}]
    /\ body \in [Slots -> MaybeBytes] /\ born \in [Slots -> MaybeBytes]
    /\ unmoored \subseteq Labels /\ todo \subseteq DOMAIN Inoculum /\ disk_bank \in BOOLEAN
    /\ handed \in [Labels -> MaybeBytes] /\ undelivered \subseteq Labels

(* pop is the number of living cells that bear the name, and every living     *)
(* cell bears a name the bank has: no birth, death, mark or restore loses     *)
(* count, and no record leaves under a living cell.                           *)
PopIsTheLiving ==
    /\ \A c \in live : name[c] \in Known
    /\ \A n \in Known : bank[n].pop = Cardinality({c \in live : name[c] = n})

(* A name is a species: cells born alike bear one name, cells born different  *)
(* bear different ones, as long as the bank was not made to change or forget  *)
(* the bytes of the names.                                                    *)
NamesAreSpecies ==
    \A c, d \in live : {name[c], name[d]} \cap unmoored = {} =>
        (name[c] = name[d] <=> born[c] = born[d])

(* What saving, extraction or emigration made permanent was handed to the     *)
(* disk with the bytes the bank has for it, through births that find it again *)
(* and the restore of a snapshot just taken (an older one is not modelled, it *)
(* may bring back bytes handed over before the last). The names a call made   *)
(* permanent without handing them over are exempt until the next time they    *)
(* are: the inoculum's, and what was saved or sent away while no disk bank    *)
(* was attached.                                                              *)
PermanentIsSaved ==
    \A n \in Known \ undelivered : bank[n].permanent =>
        bank[n].genome = handed[n]

===========================================================================

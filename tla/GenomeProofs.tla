---------------------------- MODULE GenomeProofs ----------------------------
(***************************************************************************)
(* Which genomes there are: the proofs about GeneBank, which names them,   *)
(* and about SegmentOps, which makes new ones of them.                     *)
(*                                                                         *)
(* What the genebanker promises holds for any number of cells, genomes and *)
(* labels, whatever the hash and the inoculum.  The names are kept apart   *)
(* by their bytes: the bytes of a name that was not rebound are those its  *)
(* living bearers were born with, no two such names have the same, and a   *)
(* hash is always that of the bytes.                                       *)
(*                                                                         *)
(* The operators of divide, for genomes of every length: a fragment ends   *)
(* inside the genome it is taken from, so a splice is a genome again       *)
(* (OpsInv); and the scan for segments counts the places where a template  *)
(* follows an instruction (Ends), one for each run but perhaps the last.   *)
(* Cut where a segment ends and joined again, genomes keep their runs      *)
(* (CutKeepsRuns, JoinKeepsRuns): the segment operators move runs whole.   *)
(***************************************************************************)
EXTENDS GeneBank, SegmentOps, TLAPS, FiniteSetTheorems, FunctionTheorems, SequenceTheorems,
        WellFoundedInduction

Bearers(n) == {c \in live : name[c] = n}

CellsOK  == \A c \in live : body[c] \in Genomes /\ born[c] \in Genomes
HashOK   == \A n \in Known : Bytes(bank[n]) # NoBytes => bank[n].hash = Hash[Bytes(bank[n])]
MooredOK == \A n \in Known \ unmoored : Bytes(bank[n]) # NoBytes
BornOK   == \A c \in live : name[c] \notin unmoored => Bytes(bank[name[c]]) = born[c]
Apart    == \A m, n \in Known \ unmoored : m # n => Bytes(bank[m]) # Bytes(bank[n])

Species == CellsOK /\ PopIsTheLiving /\ HashOK /\ MooredOK /\ BornOK /\ Apart

IInv == TypeOK /\ Species /\ PermanentIsSaved

---------------------------------------------------------------------------
(* Records and the bank's table. *)

LEMMA Constants ==
  /\ IsFiniteSet(Slots) /\ Genomes \subseteq Nat /\ Hash \in [Genomes -> Nat]
  /\ NoBytes \notin Genomes /\ Labels \subseteq Nat /\ NoLabel \notin Labels
  /\ MaybeBytes = Genomes \cup {NoBytes}
BY GeneBankAssumption DEF NoBytes, NoLabel, Labels, MaybeBytes

LEMMA PutIs ==
  ASSUME NEW n, NEW r \in Record, bank \in [Known -> Record]
  PROVE  /\ DOMAIN Put(n, r) = Known \cup {n}
         /\ Put(n, r) \in [DOMAIN Put(n, r) -> Record]
         /\ Put(n, r)[n] = r
         /\ \A m \in Known \ {n} : Put(n, r)[m] = bank[m]
BY DEF Put

LEMMA CountedIs ==
  ASSUME TypeOK, NEW n \in Labels, NEW g \in Genomes
  PROVE  LET r == Counted(n, g)
         IN  /\ r \in Record
             /\ r.pop = IF n \in Known THEN bank[n].pop + 1 ELSE 1
             /\ r.hash = Hash[g] /\ r.last_seen = g
             /\ n \in Known => r.permanent = bank[n].permanent /\ r.genome = bank[n].genome
             /\ n \notin Known => ~r.permanent /\ r.genome = NoBytes
<1>0. Hash[g] \in Nat /\ g \in MaybeBytes /\ NoBytes \in MaybeBytes
  BY Constants
<1>1. CASE n \in Known
  <2>1. bank[n] \in [hash : Nat, pop : Nat, permanent : BOOLEAN,
                     genome : MaybeBytes, last_seen : MaybeBytes]
    BY <1>1 DEF TypeOK, Record
  <2>2. Counted(n, g) = [bank[n] EXCEPT !.pop = bank[n].pop + 1, !.last_seen = g, !.hash = Hash[g]]
    BY <1>1 DEF Counted
  <2>3. Counted(n, g) = [hash |-> Hash[g], pop |-> bank[n].pop + 1, permanent |-> bank[n].permanent,
                         genome |-> bank[n].genome, last_seen |-> g]
    BY <2>1, <2>2
  <2>4. Counted(n, g) \in Record
    BY <1>0, <2>1, <2>3 DEF Record
  <2> QED
    BY <1>1, <2>3, <2>4
<1>2. CASE n \notin Known
  BY <1>0, <1>2 DEF Counted, Record
<1> QED
  BY <1>1, <1>2

LEMMA PermanentIs ==
  ASSUME NEW r \in Record, NEW g \in Genomes
  PROVE  LET p == Permanent(r, g)
         IN  /\ p \in Record /\ p.pop = r.pop /\ p.hash = Hash[g]
             /\ p.permanent /\ p.genome = g /\ Bytes(p) = g
BY Constants DEF Permanent, Record, Bytes

LEMMA BytesType ==
  ASSUME NEW r \in Record
  PROVE  Bytes(r) \in MaybeBytes
BY DEF Record, Bytes

---------------------------------------------------------------------------
(* The number of cells that bear a name. *)

LEMMA BearersFinite ==
  ASSUME TypeOK, NEW n
  PROVE  IsFiniteSet(Bearers(n)) /\ Cardinality(Bearers(n)) \in Nat
<1>1. Bearers(n) \in SUBSET Slots
  BY DEF Bearers, TypeOK
<1>2. IsFiniteSet(Bearers(n))
  BY <1>1, Constants, FS_Subset
<1> QED
  BY <1>2, FS_CardinalityType

LEMMA OneMoreBearer ==
  ASSUME TypeOK, PopIsTheLiving,
         NEW c \in Slots \ live, NEW n \in Labels,
         live' = live \cup {c}, name' = [name EXCEPT ![c] = n]
  PROVE  /\ Cardinality(Bearers(n)') = IF n \in Known THEN bank[n].pop + 1 ELSE 1
         /\ \A m \in Known \ {n} : Cardinality(Bearers(m)') = bank[m].pop
<1>1. Bearers(n)' = Bearers(n) \cup {c} /\ c \notin Bearers(n)
  BY DEF Bearers, TypeOK
<1>2. Cardinality(Bearers(n)') = Cardinality(Bearers(n)) + 1
  BY <1>1, BearersFinite, FS_AddElement
<1>3. n \in Known => Cardinality(Bearers(n)) = bank[n].pop
  BY DEF PopIsTheLiving, Bearers
<1>4. n \notin Known => Cardinality(Bearers(n)) = 0
  <2>1. SUFFICES ASSUME n \notin Known PROVE Bearers(n) = {}
    BY <2>1, FS_EmptySet
  <2> QED
    BY <2>1 DEF PopIsTheLiving, Bearers
<1>5. ASSUME NEW m \in Known \ {n} PROVE Cardinality(Bearers(m)') = bank[m].pop
  <2>1. Bearers(m)' = Bearers(m)
    BY DEF Bearers, TypeOK
  <2> QED
    BY <2>1 DEF PopIsTheLiving, Bearers
<1> QED
  BY <1>2, <1>3, <1>4, <1>5

LEMMA OneBearerLess ==
  ASSUME TypeOK, PopIsTheLiving, NEW c \in live, NEW n, n = name[c],
         live' = live \ {c}, UNCHANGED name
  PROVE  /\ bank[n].pop > 0 /\ Cardinality(Bearers(n)') = bank[n].pop - 1
         /\ bank[n].pop = 1 => Bearers(n)' = {}
         /\ \A m \in Known \ {n} : Cardinality(Bearers(m)') = bank[m].pop
<1>1. n \in Known /\ Cardinality(Bearers(n)) = bank[n].pop
  BY DEF PopIsTheLiving, Bearers
<1>2. Bearers(n)' = Bearers(n) \ {c} /\ c \in Bearers(n)
  BY DEF Bearers
<1>3. IsFiniteSet(Bearers(n)) /\ Cardinality(Bearers(n)) \in Nat
  BY BearersFinite
<1>4. IsFiniteSet(Bearers(n)') /\ Cardinality(Bearers(n)') = Cardinality(Bearers(n)) - 1
  BY <1>2, <1>3, FS_RemoveElement
<1>5. Cardinality(Bearers(n)) # 0
  BY <1>2, <1>3, FS_EmptySet
<1>6. bank[n].pop = 1 => Bearers(n)' = {}
  BY <1>1, <1>4, FS_EmptySet
<1>7. ASSUME NEW m \in Known \ {n} PROVE Cardinality(Bearers(m)') = bank[m].pop
  <2>1. Bearers(m)' = Bearers(m)
    BY DEF Bearers
  <2> QED
    BY <2>1 DEF PopIsTheLiving, Bearers
<1> QED
  BY <1>1, <1>3, <1>4, <1>5, <1>6, <1>7

---------------------------------------------------------------------------
(* Filing a cell under a name. *)

\* Cell c, born with g, takes a slot under name n, whose record becomes r.
Files(c, g, n, r) ==
  /\ bank' = Put(n, r)
  /\ live' = live \cup {c} /\ name' = [name EXCEPT ![c] = n]
  /\ body' = [body EXCEPT ![c] = g] /\ born' = [born EXCEPT ![c] = g]
  /\ r.pop = (IF n \in Known THEN bank[n].pop + 1 ELSE 1)
  /\ Bytes(r) = g /\ r.hash = Hash[g]

\* The name is g's own: it had these bytes unless it is rebound, and no other has.
Fits(g, n) ==
  /\ n \in Known /\ Bytes(bank[n]) # g => n \in unmoored'
  /\ n \notin unmoored' => \A m \in Known \ unmoored' : m # n => Bytes(bank[m]) # g

LEMMA FilesShape ==
  ASSUME TypeOK, NEW c, NEW g, NEW n, NEW r \in Record, Files(c, g, n, r)
  PROVE  /\ Known' = Known \cup {n} /\ bank' \in [Known' -> Record]
         /\ bank'[n] = r /\ \A m \in Known \ {n} : bank'[m] = bank[m]
<1>1. bank \in [Known -> Record] /\ bank' = Put(n, r)
  BY DEF TypeOK, Files
<1>2. /\ DOMAIN Put(n, r) = Known \cup {n} /\ Put(n, r) \in [DOMAIN Put(n, r) -> Record]
      /\ Put(n, r)[n] = r /\ \A m \in Known \ {n} : Put(n, r)[m] = bank[m]
  BY <1>1, PutIs
<1>3. Known' = Known \cup {n}
  BY <1>1, <1>2 DEF Known
<1> QED
  BY <1>1, <1>2, <1>3

\* A cell filed under a fitting name leaves the species in order.
LEMMA FilesKeepsSpecies ==
  ASSUME TypeOK, Species,
         NEW c \in Slots \ live, NEW g \in Genomes, NEW n \in Labels, NEW r \in Record,
         Files(c, g, n, r), Fits(g, n), unmoored \subseteq unmoored'
  PROVE  Species'
<1>1. /\ Known' = Known \cup {n} /\ bank'[n] = r
      /\ \A m \in Known \ {n} : bank'[m] = bank[m]
  BY FilesShape
<1>2. /\ name'[c] = n /\ body'[c] = g /\ born'[c] = g
      /\ \A d \in live : d # c /\ name'[d] = name[d] /\ body'[d] = body[d] /\ born'[d] = born[d]
  BY DEF Files, TypeOK
<1>3. live' = live \cup {c} /\ Bytes(r) = g /\ r.hash = Hash[g] /\ g # NoBytes
  BY Constants DEF Files
<1>4. CellsOK'
  BY <1>2, <1>3 DEF CellsOK, Species
<1>5. PopIsTheLiving'
  <2>1. \A d \in live' : name'[d] \in Known'
    BY <1>1, <1>2, <1>3 DEF Species, PopIsTheLiving
  <2>2. /\ Cardinality(Bearers(n)') = r.pop
        /\ \A m \in Known \ {n} : Cardinality(Bearers(m)') = bank[m].pop
    BY OneMoreBearer DEF Files, Species
  <2>3. \A m \in Known' : bank'[m].pop = Cardinality(Bearers(m)')
    BY <1>1, <2>2
  <2>4. \A m \in Known' : bank'[m].pop = Cardinality({d \in live' : name'[d] = m})
    BY <2>3 DEF Bearers
  <2> QED
    BY <2>1, <2>4 DEF PopIsTheLiving
<1>6. HashOK'
  BY <1>1, <1>3 DEF HashOK, Bytes, Species
<1>7. MooredOK'
  BY <1>1, <1>3 DEF MooredOK, Bytes, Species
<1>8. BornOK'
  <2> SUFFICES ASSUME NEW d \in live', name'[d] \notin unmoored'
               PROVE  Bytes(bank'[name'[d]]) = born'[d]
    BY DEF BornOK, Bytes
  <2>1. CASE d = c
    BY <1>1, <1>2, <1>3, <2>1
  <2>2. CASE d # c /\ name[d] = n
    <3>1. n \in Known /\ Bytes(bank[n]) = born[d]
      BY <1>2, <1>3, <2>2 DEF Species, PopIsTheLiving, BornOK
    <3>2. Bytes(bank[n]) = g
      BY <1>2, <1>3, <2>2, <3>1 DEF Fits
    <3> QED
      BY <1>1, <1>2, <1>3, <2>2, <3>1, <3>2
  <2>3. CASE d # c /\ name[d] # n
    BY <1>1, <1>2, <1>3, <2>3 DEF Species, PopIsTheLiving, BornOK
  <2> QED
    BY <2>1, <2>2, <2>3
<1>9. Apart'
  <2>1. \A m \in Known \ unmoored' : m # n => Bytes(bank'[m]) = Bytes(bank[m])
    BY <1>1
  <2>2. \A m, k \in Known \ unmoored' : m # k => Bytes(bank[m]) # Bytes(bank[k])
    BY DEF Species, Apart
  <2>3. n \notin unmoored' => \A m \in Known \ unmoored' : m # n => Bytes(bank'[m]) # Bytes(bank'[n])
    BY <1>1, <1>3, <2>1 DEF Fits
  <2>4. \A m, k \in Known' \ unmoored' : m # k => Bytes(bank'[m]) # Bytes(bank'[k])
    BY <1>1, <2>1, <2>2, <2>3
  <2> QED
    BY <2>4 DEF Apart, Bytes
<1> QED
  BY <1>4, <1>5, <1>6, <1>7, <1>8, <1>9 DEF Species

LEMMA FilesKeepsTypes ==
  ASSUME TypeOK,
         NEW c \in Slots \ live, NEW g \in Genomes, NEW n \in Labels, NEW r \in Record,
         Files(c, g, n, r)
  PROVE  /\ Known' \subseteq Labels /\ bank' \in [Known' -> Record]
         /\ live' \subseteq Slots /\ name' \in [Slots -> Labels \cup {NoLabel}]
         /\ body' \in [Slots -> MaybeBytes] /\ born' \in [Slots -> MaybeBytes]
<1>1. Known' \subseteq Labels /\ bank' \in [Known' -> Record]
  BY FilesShape DEF TypeOK
<1>2. live' \subseteq Slots /\ name' \in [Slots -> Labels \cup {NoLabel}]
  BY DEF Files, TypeOK
<1>3. body' \in [Slots -> MaybeBytes] /\ born' \in [Slots -> MaybeBytes]
  BY Constants DEF Files, TypeOK
<1> QED
  BY <1>1, <1>2, <1>3

LEMMA LookupIsOwn ==
  ASSUME TypeOK, Species, NEW g \in Genomes, Lookup(g) = {}
  PROVE  \A m \in Known : Bytes(bank[m]) # g
BY Constants DEF Lookup, Species, HashOK

\* A name on_birth picks fits.
LEMMA FiledFits ==
  ASSUME TypeOK, Species, NEW g \in Genomes, NEW mother, NEW n \in Filed(g, mother),
         UNCHANGED unmoored
  PROVE  Fits(g, n) /\ (n \in Known => Bytes(bank[n]) = g)
<1>1. CASE n \in Known /\ Bytes(bank[n]) = g
  BY <1>1 DEF Fits, Species, Apart
<1>2. CASE ~(n \in Known /\ Bytes(bank[n]) = g)
  <2>1. Lookup(g) = {} /\ n \in NewLabels
    BY <1>2 DEF Filed, Lookup
  <2>2. n \notin Known
    BY <2>1 DEF NewLabels
  <2> QED
    BY <2>1, <2>2, LookupIsOwn DEF Fits
<1> QED
  BY <1>1, <1>2

---------------------------------------------------------------------------
(* Births and arrivals. *)

LEMMA EnterKeeps ==
  ASSUME IInv, NEW c \in Slots \ live, NEW g \in Genomes, NEW mother,
         Enter(c, g, mother), UNCHANGED <<unmoored, todo, disk_bank>>
  PROVE  IInv'
<1> PICK n \in Filed(g, mother) :
      LET r == Counted(n, g)
      IN  /\ n \in Labels
          /\ \E extract \in Extracts(r) :
                IF extract THEN bank' = Put(n, Permanent(r, g)) /\ Enqueue(n, g)
                ELSE bank' = Put(n, r) /\ UNCHANGED queue
          /\ next_gi' = IF n \in Known THEN next_gi ELSE n + 1
          /\ live' = live \cup {c}
          /\ name' = [name EXCEPT ![c] = n]
          /\ body' = [body EXCEPT ![c] = g] /\ born' = [born EXCEPT ![c] = g]
  BY DEF Enter
<1> DEFINE r == Counted(n, g)
           p == Permanent(r, g)
<1>1. TypeOK /\ Species /\ PermanentIsSaved
  BY DEF IInv
<1>2. /\ r \in Record /\ r.pop = IF n \in Known THEN bank[n].pop + 1 ELSE 1
      /\ r.hash = Hash[g] /\ r.last_seen = g
      /\ n \in Known => r.permanent = bank[n].permanent /\ r.genome = bank[n].genome
      /\ n \notin Known => ~r.permanent /\ r.genome = NoBytes
  BY <1>1, CountedIs
<1>3. Fits(g, n) /\ (n \in Known => Bytes(bank[n]) = g)
  BY <1>1, FiledFits
<1>4. Bytes(r) = g
  BY <1>2, <1>3 DEF Bytes
<1>5. /\ p \in Record /\ p.pop = r.pop /\ p.hash = Hash[g]
      /\ p.permanent /\ p.genome = g /\ Bytes(p) = g
  BY <1>2, PermanentIs
<1>6. PICK q \in {r, p} :
        /\ bank' = Put(n, q)
        /\ \/ q = p /\ handed' = [handed EXCEPT ![n] = g] /\ undelivered' = undelivered \ {n}
           \/ q = r /\ handed' = handed /\ undelivered' = undelivered
  BY DEF Enqueue, queue
<1>7. /\ q \in Record /\ Files(c, g, n, q)
      /\ q.permanent => \/ q.genome = g /\ handed' = [handed EXCEPT ![n] = g]
                        \/ /\ n \in Known /\ bank[n].permanent
                           /\ q.genome = bank[n].genome /\ handed' = handed
                           /\ undelivered' = undelivered
  BY <1>2, <1>4, <1>5, <1>6 DEF Files
<1>8. Species'
  BY <1>1, <1>3, <1>7, FilesKeepsSpecies
<1>9. TypeOK'
  <2>1. /\ Known' \subseteq Labels /\ bank' \in [Known' -> Record]
        /\ live' \subseteq Slots /\ name' \in [Slots -> Labels \cup {NoLabel}]
        /\ body' \in [Slots -> MaybeBytes] /\ born' \in [Slots -> MaybeBytes]
    BY <1>1, <1>7, FilesKeepsTypes
  <2>2. next_gi' \in 0 .. MaxLabel
    BY <1>1, GeneBankAssumption DEF TypeOK, Labels
  <2>3. handed' \in [Labels -> MaybeBytes]
    BY <1>1, <1>6, Constants DEF TypeOK
  <2>4. undelivered' \subseteq Labels
    <3>1. undelivered \subseteq Labels /\ undelivered' \in {undelivered, undelivered \ {n}}
      BY <1>1, <1>6 DEF TypeOK
    <3> QED
      BY <3>1
  <2>5. unmoored' \subseteq Labels /\ todo' \subseteq DOMAIN Inoculum /\ disk_bank' \in BOOLEAN
    BY <1>1 DEF TypeOK
  <2> QED
    BY <2>1, <2>2, <2>3, <2>4, <2>5, Zenon DEF TypeOK
<1>10. PermanentIsSaved'
  <2>2. /\ Known' = Known \cup {n} /\ bank'[n] = q
        /\ \A m \in Known \ {n} : bank'[m] = bank[m]
    BY <1>1, <1>7, FilesShape
  <2>3. handed \in [Labels -> MaybeBytes] /\ Known \subseteq Labels
    BY <1>1 DEF TypeOK
  <2>4. ASSUME NEW m \in Known' \ undelivered', bank'[m].permanent
        PROVE  bank'[m].genome = handed'[m]
    <3>1. CASE m = n
      BY <1>1, <1>7, <2>2, <2>3, <2>4, <3>1 DEF PermanentIsSaved
    <3>2. CASE m # n
      <4>1. handed'[m] = handed[m]
        BY <1>6, <2>2, <2>3, <3>2
      <4>2. m \in Known \ undelivered /\ bank'[m] = bank[m]
        BY <1>6, <2>2, <2>4, <3>2
      <4> QED
        BY <1>1, <2>4, <4>1, <4>2 DEF PermanentIsSaved
    <3> QED
      BY <3>1, <3>2
  <2> QED
    BY <2>4 DEF PermanentIsSaved
<1> QED
  BY <1>8, <1>9, <1>10 DEF IInv

---------------------------------------------------------------------------
(* The inoculum. *)

LEMMA RegisteredFits ==
  ASSUME TypeOK, Species, NEW g \in Genomes, NEW l, NEW n \in Registered(l, g),
         unmoored' = unmoored \cup Rebound(n, g)
  PROVE  Fits(g, n)
<1>1. n \in Known /\ Bytes(bank[n]) # g => n \in unmoored'
  BY DEF Rebound
<1>2. CASE n \in Known /\ Bytes(bank[n]) = g
  BY <1>1, <1>2 DEF Fits, Species, Apart
<1>3. CASE ~(n \in Known /\ Bytes(bank[n]) = g)
  <2>1. Lookup(g) = {}
    BY <1>3 DEF Registered, Lookup
  <2> QED
    BY <1>1, <2>1, LookupIsOwn DEF Fits
<1> QED
  BY <1>2, <1>3

LEMMA InoculateKeeps ==
  ASSUME IInv, NEW c \in Slots, Inoculate(c)
  PROVE  IInv'
<1> PICK i \in todo : \E n \in Registered(Inoculum[i].label, Inoculum[i].genome) :
      LET g == Inoculum[i].genome
      IN  /\ todo' = todo \ {i} /\ n \in Labels
          /\ bank' = Put(n, Permanent(Counted(n, g), g))
          /\ next_gi' = IF n < next_gi THEN next_gi ELSE n + 1
          /\ live' = live \cup {c} /\ name' = [name EXCEPT ![c] = n]
          /\ undelivered' = undelivered \cup {n}
          /\ unmoored' = unmoored \cup Rebound(n, g)
          /\ body' = [body EXCEPT ![c] = g] /\ born' = [born EXCEPT ![c] = g]
          /\ UNCHANGED <<disk_bank, handed>>
  BY DEF Inoculate
<1> DEFINE g == Inoculum[i].genome
<1> PICK n \in Registered(Inoculum[i].label, g) :
      /\ todo' = todo \ {i} /\ n \in Labels
      /\ bank' = Put(n, Permanent(Counted(n, g), g))
      /\ next_gi' = IF n < next_gi THEN next_gi ELSE n + 1
      /\ live' = live \cup {c} /\ name' = [name EXCEPT ![c] = n]
      /\ undelivered' = undelivered \cup {n}
      /\ unmoored' = unmoored \cup Rebound(n, g)
      /\ body' = [body EXCEPT ![c] = g] /\ born' = [born EXCEPT ![c] = g]
      /\ UNCHANGED <<disk_bank, handed>>
  OBVIOUS
<1> DEFINE p == Permanent(Counted(n, g), g)
<1>1. TypeOK /\ Species /\ PermanentIsSaved /\ c \in Slots \ live
  BY DEF IInv, Inoculate
<1>2. g \in Genomes
  BY <1>1, GeneBankAssumption DEF TypeOK
<1> HIDE DEF g
<1>3. Counted(n, g) \in Record /\ Counted(n, g).pop = IF n \in Known THEN bank[n].pop + 1 ELSE 1
  BY <1>1, <1>2, CountedIs
<1>4. p \in Record /\ p.pop = Counted(n, g).pop /\ p.hash = Hash[g] /\ Bytes(p) = g
  BY <1>2, <1>3, PermanentIs
<1>5. Files(c, g, n, p)
  BY <1>3, <1>4 DEF Files, g
<1>6. Fits(g, n) /\ unmoored \subseteq unmoored'
  BY <1>1, <1>2, RegisteredFits DEF g
<1>7. Species'
  BY <1>1, <1>2, <1>4, <1>5, <1>6, FilesKeepsSpecies
<1>8. TypeOK'
  <2>1. /\ Known' \subseteq Labels /\ bank' \in [Known' -> Record]
        /\ live' \subseteq Slots /\ name' \in [Slots -> Labels \cup {NoLabel}]
        /\ body' \in [Slots -> MaybeBytes] /\ born' \in [Slots -> MaybeBytes]
    BY <1>1, <1>2, <1>4, <1>5, FilesKeepsTypes
  <2>2. next_gi' \in 0 .. MaxLabel
    BY <1>1, GeneBankAssumption DEF TypeOK, Labels
  <2>3. unmoored' \subseteq Labels /\ undelivered' \subseteq Labels /\ todo' \subseteq DOMAIN Inoculum
    BY <1>1 DEF TypeOK, Rebound
  <2> QED
    BY <1>1, <2>1, <2>2, <2>3 DEF TypeOK
<1>9. PermanentIsSaved'
  <2>3. Known' = Known \cup {n} /\ \A m \in Known \ {n} : bank'[m] = bank[m]
    BY <1>1, <1>4, <1>5, FilesShape
  <2> QED
    BY <1>1, <2>3 DEF PermanentIsSaved
<1> QED
  BY <1>7, <1>8, <1>9 DEF IInv

---------------------------------------------------------------------------
(* What the host asks for. *)

\* The record under n is made permanent with the bytes g.
Marks(n, g) ==
  /\ n \in Known /\ g \in Genomes
  /\ bank' = Put(n, Permanent(bank[n], g))
  /\ unmoored' = unmoored \cup Rebound(n, g)
  /\ Deliver(n, g)
  /\ UNCHANGED <<next_gi, cells, todo, disk_bank>>

LEMMA MarksKeeps ==
  ASSUME IInv, NEW n, NEW g, Marks(n, g)
  PROVE  IInv'
<1> DEFINE p == Permanent(bank[n], g)
<1>1. TypeOK /\ Species /\ PermanentIsSaved /\ n \in Known /\ g \in Genomes
  BY DEF IInv, Marks
<1>2. bank[n] \in Record /\ bank \in [Known -> Record]
  BY <1>1 DEF TypeOK
<1>3. /\ p \in Record /\ p.pop = bank[n].pop /\ p.hash = Hash[g]
      /\ p.permanent /\ p.genome = g /\ Bytes(p) = g
  BY <1>1, <1>2, PermanentIs
<1>4. /\ DOMAIN Put(n, p) = Known \cup {n} /\ Put(n, p) \in [DOMAIN Put(n, p) -> Record]
      /\ Put(n, p)[n] = p /\ \A m \in Known \ {n} : Put(n, p)[m] = bank[m]
  BY <1>2, <1>3, PutIs
<1>5. Known' = Known
  BY <1>1, <1>4 DEF Known, Marks
<1>6. bank' \in [Known' -> Record] /\ bank'[n] = p /\ \A m \in Known \ {n} : bank'[m] = bank[m]
  <2>1. bank' = Put(n, p)
    BY DEF Marks
  <2> QED
    BY <1>1, <1>4, <1>5, <2>1
<1>7. live' = live /\ name' = name /\ body' = body /\ born' = born
  BY DEF Marks, cells
<1>8. n \notin unmoored' => Bytes(bank[n]) = g
  BY <1>1 DEF Marks, Rebound
<1>9. unmoored \subseteq unmoored' /\ g # NoBytes
  BY <1>1, Constants DEF Marks
<1> HIDE DEF p
<1>10. \A m \in Known \ unmoored' : Bytes(bank'[m]) = Bytes(bank[m])
  BY <1>3, <1>6, <1>8
<1>11. CellsOK'
  BY <1>1, <1>7 DEF Species, CellsOK
<1>12. PopIsTheLiving'
  BY <1>1, <1>3, <1>5, <1>6, <1>7 DEF Species, PopIsTheLiving
<1>13. HashOK'
  <2>1. \A m \in Known' : Bytes(bank'[m]) # NoBytes => bank'[m].hash = Hash[Bytes(bank'[m])]
    BY <1>1, <1>3, <1>5, <1>6 DEF Species, HashOK
  <2> QED
    BY <2>1 DEF HashOK, Bytes
<1>14. MooredOK'
  <2>1. \A m \in Known' \ unmoored' : Bytes(bank'[m]) # NoBytes
    BY <1>1, <1>5, <1>9, <1>10 DEF Species, MooredOK
  <2> QED
    BY <2>1 DEF MooredOK, Bytes
<1>15. BornOK'
  <2>1. \A c \in live' : name'[c] \notin unmoored' => Bytes(bank'[name'[c]]) = born'[c]
    BY <1>1, <1>7, <1>9, <1>10 DEF Species, BornOK, PopIsTheLiving
  <2> QED
    BY <2>1 DEF BornOK, Bytes
<1>16. Apart'
  <2>1. \A m, k \in Known' \ unmoored' : m # k => Bytes(bank'[m]) # Bytes(bank'[k])
    BY <1>1, <1>5, <1>9, <1>10 DEF Species, Apart
  <2> QED
    BY <2>1 DEF Apart, Bytes
<1>17. TypeOK'
  <2>1. /\ handed' \in [Labels -> MaybeBytes] /\ unmoored' \subseteq Labels
        /\ undelivered' \subseteq Labels
    BY <1>1, Constants DEF TypeOK, Marks, Rebound, Deliver, Enqueue
  <2> QED
    BY <1>1, <1>5, <1>6, <1>7, <2>1 DEF TypeOK, Marks
<1>18. PermanentIsSaved'
  <2>1. /\ n \notin undelivered' => handed'[n] = g
        /\ \A m \in Known \ {n} : /\ handed'[m] = handed[m]
                                  /\ m \notin undelivered' => m \notin undelivered
    BY <1>1 DEF TypeOK, Marks, Deliver, Enqueue
  <2> QED
    BY <1>1, <1>3, <1>5, <1>6, <2>1 DEF PermanentIsSaved
<1> QED
  BY <1>11, <1>12, <1>13, <1>14, <1>15, <1>16, <1>17, <1>18 DEF IInv, Species

LEMMA SaveKeeps ==
  ASSUME IInv, SaveGenotype
  PROVE  IInv'
<1> PICK n \in Known : \E g \in FindLive(n) :
      /\ g # NoBytes
      /\ bank' = Put(n, Permanent(bank[n], g))
      /\ unmoored' = unmoored \cup Rebound(n, g)
      /\ Deliver(n, g)
  BY DEF SaveGenotype
<1> PICK g \in FindLive(n) :
      /\ g # NoBytes
      /\ bank' = Put(n, Permanent(bank[n], g))
      /\ unmoored' = unmoored \cup Rebound(n, g)
      /\ Deliver(n, g)
  OBVIOUS
<1>1. bank[n] \in Record /\ CellsOK
  BY DEF IInv, TypeOK, Species
<1>2. bank[n].genome \in MaybeBytes /\ bank[n].last_seen \in MaybeBytes
  BY <1>1 DEF Record
<1>3. g \in Genomes
  BY <1>1, <1>2, Constants DEF FindLive, CellsOK
<1> QED
  BY <1>3, MarksKeeps DEF Marks, SaveGenotype

LEMMA EmigrateKeeps ==
  ASSUME IInv, Emigrate
  PROVE  IInv'
<1> PICK c \in live :
      LET n == name[c]
      IN  /\ IF n \in Known THEN bank' = Put(n, Permanent(bank[n], body[c])) ELSE UNCHANGED bank
          /\ unmoored' = unmoored \cup Rebound(n, body[c])
          /\ Deliver(n, body[c])
  BY DEF Emigrate
<1>1. name[c] \in Known /\ body[c] \in Genomes
  BY DEF IInv, Species, PopIsTheLiving, CellsOK
<1> QED
  BY <1>1, MarksKeeps DEF Marks, Emigrate

---------------------------------------------------------------------------
(* A death. *)

LEMMA DeathKeeps ==
  ASSUME IInv, Death
  PROVE  IInv'
<1>1. TypeOK /\ Species /\ PermanentIsSaved
  BY DEF IInv
<1> PICK c \in live :
      /\ live' = live \ {c}
      /\ IF name[c] \notin Known THEN UNCHANGED bank
         ELSE LET n == name[c]
                  r == [bank[n] EXCEPT !.pop = IF @ > 0 THEN @ - 1 ELSE 0]
              IN  bank' = IF r.pop = 0 /\ ~ r.permanent
                          THEN [m \in Known \ {n} |-> bank[m]]
                          ELSE Put(n, r)
      /\ body' = [body EXCEPT ![c] = NoBytes] /\ born' = [born EXCEPT ![c] = NoBytes]
  BY DEF Death
<1> PICK n : n = name[c]
  OBVIOUS
<1> DEFINE r == [bank[n] EXCEPT !.pop = IF @ > 0 THEN @ - 1 ELSE 0]
<1>2. n \in Known /\ bank[n] \in Record /\ bank \in [Known -> Record]
  BY <1>1 DEF TypeOK, Species, PopIsTheLiving
<1>3. /\ bank[n].pop > 0 /\ Cardinality(Bearers(n)') = bank[n].pop - 1
      /\ bank[n].pop = 1 => Bearers(n)' = {}
      /\ \A m \in Known \ {n} : Cardinality(Bearers(m)') = bank[m].pop
  BY <1>1, OneBearerLess DEF Death, Species
<1>4. /\ r \in Record /\ r.pop = bank[n].pop - 1
      /\ r.permanent = bank[n].permanent /\ r.genome = bank[n].genome
      /\ r.hash = bank[n].hash /\ Bytes(r) = Bytes(bank[n])
  BY <1>2, <1>3 DEF Record, Bytes
<1>5. /\ live' = live \ {c} /\ unmoored' = unmoored /\ undelivered' = undelivered
      /\ next_gi' = next_gi /\ todo' = todo /\ handed' = handed /\ name' = name
      /\ disk_bank' = disk_bank
      /\ \A d \in live' : d # c /\ body'[d] = body[d] /\ born'[d] = born[d]
  BY <1>1 DEF Death, TypeOK, queue
<1>6. bank' = IF r.pop = 0 /\ ~ r.permanent THEN [m \in Known \ {n} |-> bank[m]] ELSE Put(n, r)
  BY <1>2
<1>6a. /\ DOMAIN Put(n, r) = Known \cup {n} /\ Put(n, r) \in [DOMAIN Put(n, r) -> Record]
       /\ Put(n, r)[n] = r /\ \A m \in Known \ {n} : Put(n, r)[m] = bank[m]
  <2>1. r \in Record /\ bank \in [Known -> Record]
    BY <1>2, <1>4
  <2> HIDE DEF r
  <2> QED
    BY <2>1 DEF Put
<1> HIDE DEF r
<1>7. /\ Known' \subseteq Known /\ Known \ {n} \subseteq Known'
      /\ bank' \in [Known' -> Record]
      /\ \A m \in Known \ {n} : bank'[m] = bank[m]
      /\ n \in Known' => bank'[n] = r
      /\ n \notin Known' => r.pop = 0
  <2>1. CASE r.pop = 0 /\ ~ r.permanent
    BY <1>2, <1>6, <2>1 DEF Known
  <2>2. CASE ~(r.pop = 0 /\ ~ r.permanent)
    <3>1. bank' = Put(n, r)
      BY <1>6, <2>2
    <3>2. Known' = Known
      BY <1>2, <1>6a, <3>1 DEF Known
    <3> QED
      BY <1>2, <1>6a, <3>1, <3>2
  <2> QED
    BY <2>1, <2>2
<1>8. \A m \in Known' : /\ Bytes(bank'[m]) = Bytes(bank[m]) /\ bank'[m].hash = bank[m].hash
                        /\ bank'[m].permanent = bank[m].permanent /\ bank'[m].genome = bank[m].genome
  BY <1>4, <1>7
<1>9. CellsOK'
  BY <1>1, <1>5 DEF Species, CellsOK
<1>10. PopIsTheLiving'
  <2>1. \A m \in Known' : bank'[m].pop = Cardinality(Bearers(m)')
    BY <1>3, <1>4, <1>7
  <2>2. \A m \in Known' : bank'[m].pop = Cardinality({d \in live' : name'[d] = m})
    BY <2>1 DEF Bearers
  <2>3. ASSUME NEW d \in live' PROVE name'[d] \in Known'
    <3>1. name[d] \in Known /\ d \in live
      BY <1>1, <1>5 DEF Species, PopIsTheLiving
    <3>2. CASE name[d] # n
      BY <1>5, <1>7, <3>1, <3>2
    <3>3. CASE name[d] = n
      <4>1. d \in Bearers(n)'
        BY <1>5, <2>3, <3>3 DEF Bearers
      <4>2. bank[n].pop # 1
        BY <1>3, <4>1
      <4> QED
        BY <1>2, <1>3, <1>4, <1>5, <1>7, <3>3, <4>2 DEF Record
    <3> QED
      BY <3>2, <3>3
  <2> QED
    BY <2>2, <2>3 DEF PopIsTheLiving
<1>11. HashOK'
  <2>1. \A m \in Known' : Bytes(bank'[m]) # NoBytes => bank'[m].hash = Hash[Bytes(bank'[m])]
    BY <1>1, <1>7, <1>8 DEF Species, HashOK
  <2> QED
    BY <2>1 DEF HashOK, Bytes
<1>12. MooredOK'
  <2>1. \A m \in Known' \ unmoored' : Bytes(bank'[m]) # NoBytes
    BY <1>1, <1>5, <1>7, <1>8 DEF Species, MooredOK
  <2> QED
    BY <2>1 DEF MooredOK, Bytes
<1>13. BornOK'
  <2>1. \A d \in live' : name'[d] \notin unmoored' => Bytes(bank'[name'[d]]) = born'[d]
    BY <1>1, <1>5, <1>8, <1>10 DEF Species, BornOK, PopIsTheLiving
  <2> QED
    BY <2>1 DEF BornOK, Bytes
<1>14. Apart'
  <2>1. \A m, k \in Known' \ unmoored' : m # k => Bytes(bank'[m]) # Bytes(bank'[k])
    BY <1>1, <1>5, <1>7, <1>8 DEF Species, Apart
  <2> QED
    BY <2>1 DEF Apart, Bytes
<1>15. TypeOK'
  BY <1>1, <1>5, <1>7, Constants DEF TypeOK
<1>16. PermanentIsSaved'
  BY <1>1, <1>5, <1>7, <1>8 DEF PermanentIsSaved
<1> QED
  BY <1>9, <1>10, <1>11, <1>12, <1>13, <1>14, <1>15, <1>16 DEF IInv, Species

---------------------------------------------------------------------------
(* The bank is not told, is restored, or is made anew. *)

LEMMA ChangeKeeps ==
  ASSUME IInv, Change
  PROVE  IInv'
<1>1. TypeOK /\ Species /\ PermanentIsSaved
  BY DEF IInv
<1>2. PICK c \in live, g \in Genomes : body' = [body EXCEPT ![c] = g]
  BY DEF Change
<1>3. UNCHANGED <<bank, next_gi, live, name, born, unmoored, todo, disk_bank, handed, undelivered>>
  BY DEF Change, queue
<1>4. body' \in [Slots -> MaybeBytes] /\ \A d \in live : body'[d] \in Genomes
  BY <1>1, <1>2, Constants DEF TypeOK, Species, CellsOK
<1>5. TypeOK'
  BY <1>1, <1>3, <1>4 DEF TypeOK, Known
<1>6. CellsOK'
  BY <1>1, <1>3, <1>4 DEF Species, CellsOK
<1>7. PopIsTheLiving' /\ HashOK' /\ MooredOK' /\ BornOK' /\ Apart'
  BY <1>1, <1>3 DEF Species, PopIsTheLiving, HashOK, MooredOK, BornOK, Apart, Known, Bytes
<1>8. PermanentIsSaved'
  BY <1>1, <1>3 DEF PermanentIsSaved, Known
<1> QED
  BY <1>5, <1>6, <1>7, <1>8 DEF IInv, Species

LEMMA ResumedIs ==
  ASSUME NEW r \in Record
  PROVE  /\ Resumed(r) \in Record
         /\ Resumed(r).pop = r.pop /\ Resumed(r).hash = r.hash
         /\ Resumed(r).permanent = r.permanent
         /\ r.permanent => Resumed(r).genome = r.genome
         /\ Bytes(Resumed(r)) \in {NoBytes, Bytes(r)}
BY Constants DEF Resumed, Record, Bytes

LEMMA ResumeKeeps ==
  ASSUME IInv, Resume
  PROVE  IInv'
<1>1. TypeOK /\ Species /\ PermanentIsSaved
  BY DEF IInv
<1>2. /\ bank' = [n \in Known |-> Resumed(bank[n])]
      /\ live' = live /\ name' = name /\ body' = body /\ born' = born
      /\ next_gi' = next_gi /\ todo' = todo /\ disk_bank' = disk_bank
      /\ handed' = handed /\ undelivered' = undelivered
  BY DEF Resume, cells, queue
<1>3. Known' = Known
  BY <1>2 DEF Known
<1>4. ASSUME NEW m \in Known
      PROVE  /\ bank'[m] \in Record
             /\ bank'[m].pop = bank[m].pop /\ bank'[m].hash = bank[m].hash
             /\ bank'[m].permanent = bank[m].permanent
             /\ bank[m].permanent => bank'[m].genome = bank[m].genome
             /\ Bytes(bank'[m]) \in {NoBytes, Bytes(bank[m])}
  <2>1. bank[m] \in Record
    BY <1>1 DEF TypeOK
  <2>2. bank'[m] = Resumed(bank[m])
    BY <1>2
  <2> QED
    BY <2>1, <2>2, ResumedIs
<1>5. bank' \in [Known' -> Record]
  BY <1>2, <1>3, <1>4
<1>6. unmoored \subseteq unmoored' /\ unmoored' \subseteq Labels
  BY <1>1 DEF TypeOK, Resume
<1>7. \A m \in Known \ unmoored' : Bytes(bank'[m]) = Bytes(bank[m])
  BY DEF Resume
<1>8. CellsOK'
  BY <1>1, <1>2 DEF Species, CellsOK
<1>9. PopIsTheLiving'
  BY <1>1, <1>2, <1>3, <1>4 DEF Species, PopIsTheLiving
<1>10. HashOK'
  <2>1. \A m \in Known' : Bytes(bank'[m]) # NoBytes => bank'[m].hash = Hash[Bytes(bank'[m])]
    BY <1>1, <1>3, <1>4 DEF Species, HashOK
  <2> QED
    BY <2>1 DEF HashOK, Bytes
<1>11. MooredOK'
  <2>1. \A m \in Known' \ unmoored' : Bytes(bank'[m]) # NoBytes
    BY <1>1, <1>3, <1>6, <1>7 DEF Species, MooredOK
  <2> QED
    BY <2>1 DEF MooredOK, Bytes
<1>12. BornOK'
  <2>1. \A c \in live' : name'[c] \notin unmoored' => Bytes(bank'[name'[c]]) = born'[c]
    BY <1>1, <1>2, <1>6, <1>7 DEF Species, BornOK, PopIsTheLiving
  <2> QED
    BY <2>1 DEF BornOK, Bytes
<1>13. Apart'
  <2>1. \A m, k \in Known' \ unmoored' : m # k => Bytes(bank'[m]) # Bytes(bank'[k])
    BY <1>1, <1>3, <1>6, <1>7 DEF Species, Apart
  <2> QED
    BY <2>1 DEF Apart, Bytes
<1>14. TypeOK'
  BY <1>1, <1>2, <1>3, <1>5, <1>6 DEF TypeOK
<1>15. PermanentIsSaved'
  BY <1>1, <1>2, <1>3, <1>4 DEF PermanentIsSaved
<1> QED
  BY <1>8, <1>9, <1>10, <1>11, <1>12, <1>13, <1>14, <1>15 DEF IInv, Species

LEMMA InitHolds == Init => IInv
<1> SUFFICES ASSUME Init PROVE IInv
  OBVIOUS
<1>1. Known = {} /\ bank \in [Known -> Record]
  BY DEF Init, Known
<1>2. live = {}
  BY DEF Init
<1>3. next_gi \in 0 .. MaxLabel
  BY GeneBankAssumption DEF Init
<1>4. TypeOK
  BY <1>1, <1>2, <1>3 DEF Init, TypeOK, MaybeBytes
<1>5. Species
  BY <1>1, <1>2 DEF Species, CellsOK, PopIsTheLiving, HashOK, MooredOK, BornOK, Apart
<1>6. PermanentIsSaved
  BY <1>1 DEF PermanentIsSaved
<1> QED
  BY <1>4, <1>5, <1>6 DEF IInv

LEMMA StartKeeps ==
  ASSUME IInv, Start
  PROVE  IInv'
<1>1. Known' = {} /\ bank' \in [Known' -> Record]
  BY DEF Start, Known
<1>2. live' = {}
  BY DEF Start
<1>3. next_gi' \in 0 .. MaxLabel
  BY GeneBankAssumption DEF Start
<1>4. /\ handed' \in [Labels -> MaybeBytes] /\ disk_bank' \in BOOLEAN
      /\ undelivered' \subseteq Labels /\ unmoored' \subseteq Labels
      /\ todo' \subseteq DOMAIN Inoculum
  BY DEF IInv, TypeOK, Start
<1>5. /\ name' \in [Slots -> Labels \cup {NoLabel}]
      /\ body' \in [Slots -> MaybeBytes] /\ born' \in [Slots -> MaybeBytes]
  BY DEF Start, MaybeBytes
<1>6. Known' \subseteq Labels /\ live' \subseteq Slots
  BY <1>1, <1>2
<1>7. TypeOK'
  BY <1>1, <1>3, <1>4, <1>5, <1>6, Zenon DEF TypeOK
<1>8. Species'
  BY <1>1, <1>2 DEF Species, CellsOK, PopIsTheLiving, HashOK, MooredOK, BornOK, Apart
<1>9. PermanentIsSaved'
  BY <1>1 DEF PermanentIsSaved
<1> QED
  BY <1>7, <1>8, <1>9 DEF IInv

LEMMA AttachKeeps ==
  ASSUME IInv, AttachDiskBank \/ UNCHANGED vars
  PROVE  IInv'
<1>1. disk_bank' \in BOOLEAN /\ UNCHANGED <<bank, next_gi, live, name, body, born, unmoored, todo,
                                        handed, undelivered>>
  BY DEF AttachDiskBank, vars, cells, queue, IInv, TypeOK
<1> QED
  BY <1>1 DEF IInv, TypeOK, Species, PermanentIsSaved, CellsOK, PopIsTheLiving,
              HashOK, MooredOK, BornOK, Apart, Known, Bytes

---------------------------------------------------------------------------
LEMMA StepKeeps ==
  ASSUME IInv, [Next]_vars
  PROVE  IInv'
<1>1. CASE Start
  BY <1>1, StartKeeps
<1>2. CASE \E c \in Slots : Inoculate(c)
  BY <1>2, InoculateKeeps
<1>3. CASE Birth
  <2> PICK c \in Slots \ live, m \in Slots, g \in Genomes : Enter(c, g, name[m])
    BY <1>3 DEF Birth
  <2> QED
    BY <1>3, EnterKeeps DEF Birth
<1>4. CASE Arrive
  <2> PICK c \in Slots \ live, g \in Genomes : Enter(c, g, NoLabel)
    BY <1>4 DEF Arrive
  <2> QED
    BY <1>4, EnterKeeps DEF Arrive
<1>5. CASE Change
  BY <1>5, ChangeKeeps
<1>6. CASE Death
  BY <1>6, DeathKeeps
<1>7. CASE SaveGenotype
  BY <1>7, SaveKeeps
<1>8. CASE Emigrate
  BY <1>8, EmigrateKeeps
<1>9. CASE Resume
  BY <1>9, ResumeKeeps
<1>10. CASE AttachDiskBank \/ UNCHANGED vars
  BY <1>10, AttachKeeps
<1> QED
  BY <1>1, <1>2, <1>3, <1>4, <1>5, <1>6, <1>7, <1>8, <1>9, <1>10 DEF Next

LEMMA Inductive == Spec => []IInv
BY InitHolds, StepKeeps, PTL DEF Spec

\* Of two living cells whose names were not rebound.
LEMMA SpeciesHaveOneName == IInv => NamesAreSpecies
<1> SUFFICES ASSUME IInv, NEW c \in live, NEW d \in live,
                    {name[c], name[d]} \cap unmoored = {}
             PROVE  name[c] = name[d] <=> born[c] = born[d]
  BY DEF NamesAreSpecies
<1>1. Bytes(bank[name[c]]) = born[c] /\ Bytes(bank[name[d]]) = born[d]
  BY DEF IInv, Species, BornOK
<1>2. name[c] \in Known \ unmoored /\ name[d] \in Known \ unmoored
  BY DEF IInv, Species, PopIsTheLiving
<1>3. name[c] # name[d] => Bytes(bank[name[c]]) # Bytes(bank[name[d]])
  BY <1>2 DEF IInv, Species, Apart
<1> QED
  BY <1>1, <1>3

(* The bank's table, labels and records keep their types, and labels stay     *)
(* below the bound, whatever the host asks and however often it starts anew.  *)
THEOREM GeneBankTypes == Spec => []TypeOK
BY Inductive, PTL DEF IInv

(* on_birth, on_death, the marks and a restore keep pop the number of living  *)
(* cells that bear the name, and no record leaves under a living cell.        *)
THEOREM GeneBankPopIsTheLiving == Spec => []PopIsTheLiving
<1>1. IInv => PopIsTheLiving
  BY DEF IInv, Species
<1> QED
  BY <1>1, Inductive, PTL

(* _lookup by hash and bytes and the labels handed out once keep one name     *)
(* for each genome that cells are born with, whatever the hashes collide on.  *)
THEOREM GeneBankNamesAreSpecies == Spec => []NamesAreSpecies
BY SpeciesHaveOneName, Inductive, PTL

(* A genome that extraction, saving or emigration made permanent is the one   *)
(* last handed to the write queue under its name, for every name that was not *)
(* made permanent by a call that queues nothing (the inoculum's, and what was *)
(* saved or sent away without a disk bank) since it was last handed over.     *)
THEOREM GeneBankPermanentIsSaved == Spec => []PermanentIsSaved
<1>1. IInv => PermanentIsSaved
  BY DEF IInv
<1> QED
  BY <1>1, Inductive, PTL

---------------------------------------------------------------------------
(* The operators of divide. *)

\* An operator keeps the gates because what it commits is made of whole genomes' bytes.
OpsInv == GTypeOK /\ GatesStillHold

LEMMA GenomeSizes ==
    ASSUME NEW g \in Seq(Byte)
    PROVE  Len(g) \in Nat /\ DOMAIN g = 1 .. Len(g) /\ \A i \in 1 .. Len(g) : g[i] \in Byte
OBVIOUS

LEMMA MateIsGenome == \A m \in Mates : m \in Seq(Byte)
BY SegmentAssumption

LEMMA LeastPlace ==
    ASSUME NEW T \in SUBSET Nat, T # {}
    PROVE  \E m \in T : \A n \in T : m <= n
<1>1. PICK m \in T : \A n \in T : <<n, m>> \notin OpToRel(<, Nat)
  BY NatLessThanWellFounded, WFMin
<1>2. ASSUME NEW n \in T PROVE m <= n
  <2>1. ~(n < m)
    BY <1>1 DEF OpToRel
  <2> QED
    BY <2>1
<1> QED
  BY <1>2

(* Wherever a segment ends or starts, it is a place of the genome. *)
LEMMA EndInGenome ==
    ASSUME NEW g \in Seq(Byte), NEW n
    PROVE  EndOf(g, n) \in 0 .. Len(g)
<1> DEFINE ends == {i \in 1 .. Len(g) : Scan(g)[i].num = n}
<1>1. Len(g) \in Nat
  BY GenomeSizes
<1>2. CASE ends = {}
  BY <1>1, <1>2 DEF EndOf
<1>3. CASE ends # {}
  <2>1. ends \in SUBSET Nat
    BY <1>1
  <2>2. PICK m \in ends : \A j \in ends : m <= j
    BY <1>3, <2>1, LeastPlace
  <2> DEFINE least == CHOOSE i \in ends : \A j \in ends : i <= j
  <2>3. least \in ends
    BY <2>2
  <2>4. EndOf(g, n) = least - 1
    BY <1>3 DEF EndOf
  <2>5. least \in 1 .. Len(g)
    BY <2>3
  <2> HIDE DEF least, ends
  <2> QED
    BY <1>1, <2>4, <2>5
<1> QED
  BY <1>2, <1>3

LEMMA SegmentsInGenome ==
    ASSUME NEW g \in Seq(Byte), NEW n
    PROVE  FindStartSegN(g, n) \in 0 .. Len(g) /\ FindEndSegN(g, n) \in 0 .. Len(g)
BY EndInGenome, GenomeSizes DEF FindStartSegN, FindEndSegN

(* A fragment that ends inside a genome holds none but its bytes. *)
LEMMA FragIsGenome ==
    ASSUME NEW g \in Seq(Byte), NEW off \in Nat, NEW siz \in Int, off + siz <= Len(g)
    PROVE  Frag(g, off, siz) \in Seq(Byte)
<1>1. Len(g) \in Nat /\ DOMAIN g = 1 .. Len(g) /\ \A i \in 1 .. Len(g) : g[i] \in Byte
  BY GenomeSizes
<1>2. \A i \in 1 .. siz : off + i \in 1 .. Len(g)
  BY <1>1
<1>3. Frag(g, off, siz) = [i \in 1 .. siz |-> g[off + i]]
  BY <1>1, <1>2 DEF Frag
<1>4. PICK k \in Nat : 1 .. siz = 1 .. k
  <2>1. CASE siz \in Nat
    BY <2>1
  <2>2. CASE siz \notin Nat
    <3>1. 1 .. siz = 1 .. 0
      BY <2>2
    <3> QED
      BY <3>1
  <2> QED
    BY <2>1, <2>2
<1>5. [i \in 1 .. siz |-> g[off + i]] \in [1 .. k -> Byte]
  BY <1>1, <1>2, <1>4
<1> QED
  BY <1>3, <1>5

LEMMA SpliceIsGenome ==
    ASSUME NEW d \in Seq(Byte), NEW e \in Seq(Byte)
    PROVE  d \o e \in Seq(Byte)
OBVIOUS

(* What shared_gen_ops commits is the assembled genome, at the old place. *)
LEMMA CommitKeeps ==
    ASSUME GTypeOK, NEW d \in Seq(Byte), Commit(d), before' = before
    PROVE  genome' = d /\ after' = after /\ changed' = TRUE
           /\ DaughterSize' = Len(d) + OData
<1>1. Len(d) \in Nat /\ Len(genome) \in Nat /\ before \in Nat /\ after \in Nat
  BY GenomeSizes DEF GTypeOK
<1> DEFINE n_cell == Len(d) + OData
           space == n_cell - before
           n_copy == IF Len(d) < space THEN Len(d) ELSE space
<1>2. OData = before + after
  BY <1>1 DEF OData, DaughterSize
<1>3. n_copy = Len(d) /\ n_cell - before - n_copy = after
  BY <1>1, <1>2
<1>4. genome' = SubSeq(d, 1, n_copy) /\ after' = n_cell - before - n_copy /\ changed' = TRUE
  BY DEF Commit
<1>5. SubSeq(d, 1, Len(d)) = d
  BY SubSeqFull
<1> HIDE DEF n_copy
<1>6. genome' = d /\ after' = after
  BY <1>3, <1>4, <1>5
<1>7. DaughterSize' = before + Len(d) + after
  BY <1>6 DEF DaughterSize
<1> QED
  BY <1>1, <1>2, <1>4, <1>6, <1>7

LEMMA SharedKeeps ==
    ASSUME OpsInv, NEW d \in Seq(Byte), NEW stops, SharedGenOps(d, stops), UNCHANGED before,
           op <= Len(Ops)
    PROVE  OpsInv'
<1>1. op' \in 1 .. (Len(Ops) + 1)
  BY DEF OpsInv, GTypeOK, SharedGenOps, Ops
<1>2. CASE Acceptable(d) /\ Commit(d)
  <2>1. /\ genome' = d /\ after' = after /\ changed' = TRUE /\ before' = before
        /\ DaughterSize' = Len(d) + OData
    BY <1>2, CommitKeeps DEF OpsInv
  <2>2. GTypeOK'
    BY <1>1, <2>1 DEF OpsInv, GTypeOK
  <2>3. GatesStillHold'
    BY <1>2, <2>1 DEF GatesStillHold, Acceptable, Thresh
  <2> QED
    BY <2>2, <2>3 DEF OpsInv
<1>3. CASE UNCHANGED <<genome, after, changed>>
  <2>1. GTypeOK'
    BY <1>1, <1>3 DEF OpsInv, GTypeOK
  <2>2. DaughterSize' = DaughterSize /\ genome' = genome
    BY <1>3 DEF DaughterSize
  <2>3. GatesStillHold'
    BY <2>2 DEF OpsInv, GatesStillHold, Thresh
  <2> QED
    BY <2>1, <2>3 DEF OpsInv
<1> QED
  BY <1>2, <1>3 DEF SharedGenOps

\* Overwriting bytes leaves the genome where it was.
LEMMA OverwriteKeeps ==
    ASSUME OpsInv, genome' \in [DOMAIN genome -> Byte], changed' \in BOOLEAN,
           UNCHANGED <<op, before, after>>
    PROVE  OpsInv'
<1>1. Len(genome) \in Nat /\ DOMAIN genome = 1 .. Len(genome)
  BY GenomeSizes DEF OpsInv, GTypeOK
<1>2. genome' \in Seq(Byte) /\ Len(genome') = Len(genome)
  <2>1. genome' \in [1 .. Len(genome) -> Byte]
    BY <1>1
  <2> QED
    BY <1>1, <2>1
<1>3. DaughterSize' = DaughterSize
  BY <1>2 DEF DaughterSize
<1> QED
  BY <1>2, <1>3 DEF OpsInv, GTypeOK, GatesStillHold, Thresh

---------------------------------------------------------------------------
(* The operators, one by one. *)

LEMMA InitOps == GInit => OpsInv
<1> SUFFICES ASSUME GInit PROVE OpsInv
  OBVIOUS
<1>1. PICK n \in MinGenMemSiz .. MaxMalMult * MotherSize : genome \in [1 .. n -> Byte]
  BY DEF GInit
<1>2. n \in Nat /\ n >= MinGenMemSiz
  <2>1. MinGenMemSiz \in Nat /\ MaxMalMult \in Nat /\ MotherSize \in Nat
    BY SegmentAssumption
  <2>2. MaxMalMult * MotherSize \in Nat
    BY <2>1
  <2> QED
    BY <2>1, <2>2
<1>3. genome \in Seq(Byte) /\ Len(genome) = n
  BY <1>1, <1>2
<1>4. op \in 1 .. (Len(Ops) + 1)
  BY DEF GInit, Ops
<1>5. before \in Nat /\ after \in Nat
  BY SegmentAssumption DEF GInit
<1> QED
  BY <1>2, <1>3, <1>4, <1>5 DEF GInit, OpsInv, GTypeOK, GatesStillHold

(* The assembled genome of an operator: fragments of the daughter and of a mate. *)
LEMMA Pieces ==
    ASSUME NEW g \in Seq(Byte), NEW k \in 0 .. Len(g)
    PROVE  /\ Frag(g, 0, k) \in Seq(Byte)
           /\ Frag(g, k, Len(g) - k) \in Seq(Byte)
<1>1. Len(g) \in Nat /\ k \in Nat /\ 0 + k <= Len(g) /\ k + (Len(g) - k) <= Len(g) /\ Len(g) - k \in Int
  BY GenomeSizes
<1>2. Frag(g, 0, k) \in Seq(Byte)
  BY <1>1, FragIsGenome
<1>3. Frag(g, k, Len(g) - k) \in Seq(Byte)
  BY <1>1, FragIsGenome
<1> QED
  BY <1>2, <1>3

LEMMA DoingIs ==
    ASSUME OpsInv, NEW operator, Doing(operator)
    PROVE  /\ op <= Len(Ops) /\ before' = before /\ op \in 1 .. Len(Ops)
           /\ genome \in Seq(Byte) /\ Len(genome) \in Nat /\ DOMAIN genome = 1 .. Len(genome)
<1>1. genome \in Seq(Byte) /\ op \in 1 .. (Len(Ops) + 1)
  BY DEF OpsInv, GTypeOK
<1>2. Len(Ops) \in Nat
  BY DEF Ops
<1> QED
  BY <1>1, <1>2, GenomeSizes DEF Doing

LEMMA MutationKeeps == ASSUME OpsInv, MutationOps PROVE OpsInv'
<1>1. Doing("MutationOps")
  BY DEF MutationOps
<1>2. genome \in Seq(Byte) /\ before' = before
  BY <1>1, DoingIs
<1>3. PICK i \in DOMAIN genome, b \in Byte : genome' = [genome EXCEPT ![i] = b]
  BY DEF MutationOps
<1>4. genome' \in [DOMAIN genome -> Byte]
  BY <1>2, <1>3
<1>5. changed' \in BOOLEAN /\ UNCHANGED <<op, after>>
  BY DEF MutationOps
<1> QED
  BY <1>2, <1>4, <1>5, OverwriteKeeps

LEMMA SameSizeKeeps == ASSUME OpsInv, CrossoverInstSamSiz PROVE OpsInv'
<1>1. Doing("CrossoverInstSamSiz")
  BY DEF CrossoverInstSamSiz
<1>2. genome \in Seq(Byte) /\ before' = before /\ Len(genome) \in Nat /\ DOMAIN genome = 1 .. Len(genome)
  BY <1>1, DoingIs
<1>3. PICK m \in Mates :
        LET siz == IF Len(genome) <= Len(m) THEN Len(genome) ELSE Len(m)
        IN  \E cross \in 1 .. (siz - 1) :
               genome' = [i \in DOMAIN genome |->
                   IF (IF 2 * cross > Len(genome) THEN i > cross /\ i <= siz ELSE i <= cross)
                   THEN m[i] ELSE genome[i]]
  BY DEF CrossoverInstSamSiz
<1> DEFINE siz == IF Len(genome) <= Len(m) THEN Len(genome) ELSE Len(m)
<1>4. PICK cross \in 1 .. (siz - 1) :
        genome' = [i \in DOMAIN genome |->
            IF (IF 2 * cross > Len(genome) THEN i > cross /\ i <= siz ELSE i <= cross)
            THEN m[i] ELSE genome[i]]
  BY <1>3
<1>5. m \in Seq(Byte) /\ Len(m) \in Nat /\ \A i \in 1 .. Len(m) : m[i] \in Byte
  BY MateIsGenome, GenomeSizes
<1>6. siz \in Nat /\ siz <= Len(m) /\ cross < siz
  BY <1>2, <1>5
<1> HIDE DEF siz
<1>7. ASSUME NEW i \in DOMAIN genome,
             IF 2 * cross > Len(genome) THEN i > cross /\ i <= siz ELSE i <= cross
      PROVE  m[i] \in Byte
  <2>1. i \in 1 .. Len(genome) /\ i <= siz
    BY <1>2, <1>6, <1>7
  <2>2. i \in 1 .. Len(m)
    BY <1>2, <1>5, <1>6, <2>1
  <2> QED
    BY <1>5, <2>2
<1>8. genome' \in [DOMAIN genome -> Byte]
  BY <1>2, <1>4, <1>7
<1>9. changed' \in BOOLEAN /\ UNCHANGED <<op, after>>
  BY DEF CrossoverInstSamSiz
<1> QED
  BY <1>2, <1>8, <1>9, OverwriteKeeps

LEMMA CrossoverKeeps == ASSUME OpsInv, CrossoverInst PROVE OpsInv'
<1>1. Doing("CrossoverInst")
  BY DEF CrossoverInst
<1>2. genome \in Seq(Byte) /\ before' = before /\ op <= Len(Ops) /\ Len(genome) \in Nat
  BY <1>1, DoingIs
<1>3. PICK m \in Mates, d_cross \in 1 .. (Len(genome) - 1) :
        \E m_cross \in 1 .. (Len(m) - 1) :
           SharedGenOps(
               IF 2 * d_cross > Len(genome)
               THEN Frag(genome, 0, d_cross) \o Frag(m, m_cross, Len(m) - m_cross)
               ELSE Frag(m, 0, m_cross) \o Frag(genome, d_cross, Len(genome) - d_cross), TRUE)
  BY DEF CrossoverInst
<1>4. PICK m_cross \in 1 .. (Len(m) - 1) :
        SharedGenOps(
            IF 2 * d_cross > Len(genome)
            THEN Frag(genome, 0, d_cross) \o Frag(m, m_cross, Len(m) - m_cross)
            ELSE Frag(m, 0, m_cross) \o Frag(genome, d_cross, Len(genome) - d_cross), TRUE)
  BY <1>3
<1>5. m \in Seq(Byte) /\ m_cross \in 0 .. Len(m) /\ d_cross \in 0 .. Len(genome)
  BY <1>2, MateIsGenome, GenomeSizes
<1>6. /\ Frag(genome, 0, d_cross) \in Seq(Byte)
      /\ Frag(genome, d_cross, Len(genome) - d_cross) \in Seq(Byte)
  BY <1>2, <1>5, Pieces
<1>7. Frag(m, 0, m_cross) \in Seq(Byte) /\ Frag(m, m_cross, Len(m) - m_cross) \in Seq(Byte)
  BY <1>5, Pieces
<1> DEFINE d == IF 2 * d_cross > Len(genome)
                THEN Frag(genome, 0, d_cross) \o Frag(m, m_cross, Len(m) - m_cross)
                ELSE Frag(m, 0, m_cross) \o Frag(genome, d_cross, Len(genome) - d_cross)
<1>8. d \in Seq(Byte)
  BY <1>6, <1>7, SpliceIsGenome
<1>9. SharedGenOps(d, TRUE)
  BY <1>4
<1> HIDE DEF d
<1> QED
  BY <1>2, <1>8, <1>9, SharedKeeps

LEMMA InsertionKeeps == ASSUME OpsInv, InsertionInst PROVE OpsInv'
<1>1. Doing("InsertionInst")
  BY DEF InsertionInst
<1>2. genome \in Seq(Byte) /\ before' = before /\ op <= Len(Ops) /\ Len(genome) \in Nat
  BY <1>1, DoingIs
<1>3. PICK m \in Mates, ins_off \in 0 .. Len(genome) :
        \E chunk \in 1 .. Len(m) : \E from \in 0 .. (Len(m) - chunk) :
           SharedGenOps(Frag(genome, 0, ins_off) \o Frag(m, from, chunk)
                            \o Frag(genome, ins_off, Len(genome) - ins_off), TRUE)
  BY DEF InsertionInst
<1>10. PICK chunk \in 1 .. Len(m) : \E from \in 0 .. (Len(m) - chunk) :
         SharedGenOps(Frag(genome, 0, ins_off) \o Frag(m, from, chunk)
                          \o Frag(genome, ins_off, Len(genome) - ins_off), TRUE)
  BY <1>3
<1>4. PICK from \in 0 .. (Len(m) - chunk) :
        SharedGenOps(Frag(genome, 0, ins_off) \o Frag(m, from, chunk)
                         \o Frag(genome, ins_off, Len(genome) - ins_off), TRUE)
  BY <1>10
<1>5. m \in Seq(Byte) /\ from \in Nat /\ chunk \in Int /\ from + chunk <= Len(m)
  BY MateIsGenome, GenomeSizes
<1>6. Frag(m, from, chunk) \in Seq(Byte)
  BY <1>5, FragIsGenome
<1>7. /\ Frag(genome, 0, ins_off) \in Seq(Byte)
      /\ Frag(genome, ins_off, Len(genome) - ins_off) \in Seq(Byte)
  BY <1>2, Pieces
<1> DEFINE d == Frag(genome, 0, ins_off) \o Frag(m, from, chunk)
                    \o Frag(genome, ins_off, Len(genome) - ins_off)
<1>8. d \in Seq(Byte)
  BY <1>6, <1>7, SpliceIsGenome
<1>9. SharedGenOps(d, TRUE)
  BY <1>4
<1> HIDE DEF d
<1> QED
  BY <1>2, <1>8, <1>9, SharedKeeps

LEMMA DeletionKeeps == ASSUME OpsInv, DeletionInst PROVE OpsInv'
<1>1. Doing("DeletionInst")
  BY DEF DeletionInst
<1>2. genome \in Seq(Byte) /\ before' = before /\ op <= Len(Ops) /\ Len(genome) \in Nat
  BY <1>1, DoingIs
<1>9. PICK del_siz \in 1 .. AtLeastOne(Len(genome) \div 2) :
        \E del_off \in 0 .. (Len(genome) - del_siz) :
           SharedGenOps(Frag(genome, 0, del_off)
                            \o Frag(genome, del_off + del_siz, Len(genome) - (del_off + del_siz)), FALSE)
  BY DEF DeletionInst
<1>3. PICK del_off \in 0 .. (Len(genome) - del_siz) :
        SharedGenOps(Frag(genome, 0, del_off)
                         \o Frag(genome, del_off + del_siz, Len(genome) - (del_off + del_siz)), FALSE)
  BY <1>9
<1>4. del_siz \in Nat /\ del_off \in 0 .. Len(genome) /\ del_off + del_siz \in 0 .. Len(genome)
  <2>1. AtLeastOne(Len(genome) \div 2) \in Int
    BY <1>2 DEF AtLeastOne
  <2>2. del_siz \in Int /\ del_siz >= 1
    BY <2>1
  <2> QED
    BY <1>2, <2>2
<1>5. Frag(genome, 0, del_off) \in Seq(Byte)
  BY <1>2, <1>4, Pieces
<1>6. Frag(genome, del_off + del_siz, Len(genome) - (del_off + del_siz)) \in Seq(Byte)
  BY <1>2, <1>4, Pieces
<1> DEFINE d == Frag(genome, 0, del_off)
                    \o Frag(genome, del_off + del_siz, Len(genome) - (del_off + del_siz))
<1>7. d \in Seq(Byte)
  BY <1>5, <1>6, SpliceIsGenome
<1>8. SharedGenOps(d, FALSE)
  BY <1>3
<1> HIDE DEF d
<1> QED
  BY <1>2, <1>7, <1>8, SharedKeeps

LEMMA SegCrossoverKeeps == ASSUME OpsInv, CrossoverSeg PROVE OpsInv'
<1>1. Doing("CrossoverSeg")
  BY DEF CrossoverSeg
<1>2. genome \in Seq(Byte) /\ before' = before /\ op <= Len(Ops) /\ Len(genome) \in Nat
  BY <1>1, DoingIs
<1>3. PICK m \in Mates, d_cross \in 2 .. CountSegments(genome) :
        \E m_cross \in 2 .. CountSegments(m) :
           LET d_start == FindStartSegN(genome, d_cross)
               m_start == FindStartSegN(m, m_cross)
           IN  SharedGenOps(
                   IF 2 * d_cross > CountSegments(genome)
                   THEN Frag(genome, 0, FindEndSegN(genome, d_cross))
                            \o Frag(m, m_start, Len(m) - m_start)
                   ELSE Frag(m, 0, FindEndSegN(m, m_cross))
                            \o Frag(genome, d_start, Len(genome) - d_start), FALSE)
  BY DEF CrossoverSeg
<1>4. PICK m_cross \in 2 .. CountSegments(m) :
        LET d_start == FindStartSegN(genome, d_cross)
            m_start == FindStartSegN(m, m_cross)
        IN  SharedGenOps(
                IF 2 * d_cross > CountSegments(genome)
                THEN Frag(genome, 0, FindEndSegN(genome, d_cross))
                         \o Frag(m, m_start, Len(m) - m_start)
                ELSE Frag(m, 0, FindEndSegN(m, m_cross))
                         \o Frag(genome, d_start, Len(genome) - d_start), FALSE)
  BY <1>3
<1> DEFINE d_start == FindStartSegN(genome, d_cross)
           m_start == FindStartSegN(m, m_cross)
           d_end   == FindEndSegN(genome, d_cross)
           m_end   == FindEndSegN(m, m_cross)
           d == IF 2 * d_cross > CountSegments(genome)
                THEN Frag(genome, 0, d_end) \o Frag(m, m_start, Len(m) - m_start)
                ELSE Frag(m, 0, m_end) \o Frag(genome, d_start, Len(genome) - d_start)
<1>5. SharedGenOps(d, FALSE)
  BY <1>4
<1>6. m \in Seq(Byte)
  BY MateIsGenome
<1>7. /\ d_start \in 0 .. Len(genome) /\ d_end \in 0 .. Len(genome)
      /\ m_start \in 0 .. Len(m) /\ m_end \in 0 .. Len(m)
  BY <1>2, <1>6, SegmentsInGenome
<1> HIDE DEF d_start, m_start, d_end, m_end
<1>8. Frag(genome, 0, d_end) \in Seq(Byte) /\ Frag(m, 0, m_end) \in Seq(Byte)
  BY <1>2, <1>6, <1>7, Pieces
<1>9. /\ Frag(m, m_start, Len(m) - m_start) \in Seq(Byte)
      /\ Frag(genome, d_start, Len(genome) - d_start) \in Seq(Byte)
  BY <1>2, <1>6, <1>7, Pieces
<1>10. d \in Seq(Byte)
  BY <1>8, <1>9, SpliceIsGenome
<1> HIDE DEF d
<1> QED
  BY <1>2, <1>5, <1>10, SharedKeeps

LEMMA SegInsertionKeeps == ASSUME OpsInv, InsertionSeg PROVE OpsInv'
<1>1. Doing("InsertionSeg")
  BY DEF InsertionSeg
<1>2. genome \in Seq(Byte) /\ before' = before /\ op <= Len(Ops) /\ Len(genome) \in Nat
  BY <1>1, DoingIs
<1>3. PICK m \in Mates, d_cross \in 1 .. (CountSegments(genome) + 1) :
        \E chunk_n \in 1 .. CountSegments(m) : \E chunk_start \in 1 .. (CountSegments(m) - chunk_n + 1) :
           LET from  == FindStartSegN(m, chunk_start)
               chunk == Frag(m, from, FindEndSegN(m, chunk_start + chunk_n) - from)
               at    == CASE d_cross = 1 -> 0
                          [] d_cross = CountSegments(genome) + 1 -> Len(genome)
                          [] OTHER -> FindEndSegN(genome, d_cross)
           IN  SharedGenOps(Frag(genome, 0, at) \o chunk \o Frag(genome, at, Len(genome) - at), TRUE)
  BY DEF InsertionSeg
<1>11. PICK chunk_n \in 1 .. CountSegments(m) : \E chunk_start \in 1 .. (CountSegments(m) - chunk_n + 1) :
         LET from  == FindStartSegN(m, chunk_start)
             chunk == Frag(m, from, FindEndSegN(m, chunk_start + chunk_n) - from)
             at    == CASE d_cross = 1 -> 0
                        [] d_cross = CountSegments(genome) + 1 -> Len(genome)
                        [] OTHER -> FindEndSegN(genome, d_cross)
         IN  SharedGenOps(Frag(genome, 0, at) \o chunk \o Frag(genome, at, Len(genome) - at), TRUE)
  BY <1>3
<1>4. PICK chunk_start \in 1 .. (CountSegments(m) - chunk_n + 1) :
        LET from  == FindStartSegN(m, chunk_start)
            chunk == Frag(m, from, FindEndSegN(m, chunk_start + chunk_n) - from)
            at    == CASE d_cross = 1 -> 0
                       [] d_cross = CountSegments(genome) + 1 -> Len(genome)
                       [] OTHER -> FindEndSegN(genome, d_cross)
        IN  SharedGenOps(Frag(genome, 0, at) \o chunk \o Frag(genome, at, Len(genome) - at), TRUE)
  BY <1>11
<1> DEFINE from  == FindStartSegN(m, chunk_start)
           to    == FindEndSegN(m, chunk_start + chunk_n)
           chunk == Frag(m, from, to - from)
           at    == CASE d_cross = 1 -> 0
                      [] d_cross = CountSegments(genome) + 1 -> Len(genome)
                      [] OTHER -> FindEndSegN(genome, d_cross)
           d     == Frag(genome, 0, at) \o chunk \o Frag(genome, at, Len(genome) - at)
<1>5. SharedGenOps(d, TRUE)
  BY <1>4
<1>6. m \in Seq(Byte) /\ Len(m) \in Nat
  BY MateIsGenome, GenomeSizes
<1>7. from \in 0 .. Len(m) /\ to \in 0 .. Len(m) /\ at \in 0 .. Len(genome)
  <2>1. from \in 0 .. Len(m) /\ to \in 0 .. Len(m)
    BY <1>6, SegmentsInGenome
  <2>2. FindEndSegN(genome, d_cross) \in 0 .. Len(genome)
    BY <1>2, SegmentsInGenome
  <2>3. at = 0 \/ at = Len(genome) \/ at = FindEndSegN(genome, d_cross)
    OBVIOUS
  <2> HIDE DEF at
  <2> QED
    BY <1>2, <2>1, <2>2, <2>3
<1> HIDE DEF from, to, at
<1>8. chunk \in Seq(Byte)
  <2>1. from \in Nat /\ to - from \in Int /\ from + (to - from) <= Len(m)
    BY <1>6, <1>7
  <2> QED
    BY <1>6, <2>1, FragIsGenome
<1>9. Frag(genome, 0, at) \in Seq(Byte) /\ Frag(genome, at, Len(genome) - at) \in Seq(Byte)
  BY <1>2, <1>7, Pieces
<1> HIDE DEF chunk
<1>10. d \in Seq(Byte)
  BY <1>8, <1>9, SpliceIsGenome
<1> HIDE DEF d
<1> QED
  BY <1>2, <1>5, <1>10, SharedKeeps

LEMMA SegDeletionKeeps == ASSUME OpsInv, DeletionSeg PROVE OpsInv'
<1>1. Doing("DeletionSeg")
  BY DEF DeletionSeg
<1>2. genome \in Seq(Byte) /\ before' = before /\ op <= Len(Ops) /\ Len(genome) \in Nat
  BY <1>1, DoingIs
<1>8. PICK n \in 1 .. AtLeastOne(CountSegments(genome) \div 2) :
        \E first \in 1 .. (CountSegments(genome) - n + 1) :
           SharedGenOps(DeleteSegs(genome, first, n), TRUE)
  BY DEF DeletionSeg
<1>3. PICK first \in 1 .. (CountSegments(genome) - n + 1) :
        SharedGenOps(DeleteSegs(genome, first, n), TRUE)
  BY <1>8
<1> DEFINE from == FindStartSegN(genome, first)
           to   == FindEndSegN(genome, first + n - 1)
<1>4. from \in 0 .. Len(genome) /\ to \in 0 .. Len(genome)
  BY <1>2, SegmentsInGenome
<1>5. DeleteSegs(genome, first, n) =
        IF first = 1 THEN Frag(genome, to, Len(genome) - to)
        ELSE IF first + n > CountSegments(genome) THEN Frag(genome, 0, from)
        ELSE Frag(genome, 0, from) \o Frag(genome, to, Len(genome) - to)
  BY DEF DeleteSegs
<1> HIDE DEF from, to
<1>6. Frag(genome, 0, from) \in Seq(Byte) /\ Frag(genome, to, Len(genome) - to) \in Seq(Byte)
  BY <1>2, <1>4, Pieces
<1>7. DeleteSegs(genome, first, n) \in Seq(Byte)
  BY <1>5, <1>6, SpliceIsGenome
<1> QED
  BY <1>2, <1>3, <1>7, SharedKeeps

LEMMA OpsRest ==
    ASSUME OpsInv, UNCHANGED <<genome, before, after, changed>>, op' \in 1 .. (Len(Ops) + 1)
    PROVE  OpsInv'
<1>1. DaughterSize' = DaughterSize
  BY DEF DaughterSize
<1> QED
  BY <1>1 DEF OpsInv, GTypeOK, GatesStillHold, Thresh

LEMMA OpsInvHolds == GSpec => []OpsInv
<1>1. OpsInv /\ [GNext]_gvars => OpsInv'
  <2> SUFFICES ASSUME OpsInv, [GNext]_gvars PROVE OpsInv'
    OBVIOUS
  <2>1. CASE NextOp
    <3>1. op' \in 1 .. (Len(Ops) + 1) /\ UNCHANGED <<genome, before, after, changed>>
      BY <2>1 DEF OpsInv, GTypeOK, NextOp, Ops
    <3> QED
      BY <3>1, OpsRest
  <2>2. CASE UNCHANGED gvars
    <3>1. op' \in 1 .. (Len(Ops) + 1) /\ UNCHANGED <<genome, before, after, changed>>
      BY <2>2 DEF OpsInv, GTypeOK, gvars
    <3> QED
      BY <3>1, OpsRest
  <2> QED
    BY <2>1, <2>2, MutationKeeps, SameSizeKeeps, CrossoverKeeps, InsertionKeeps, DeletionKeeps,
       SegCrossoverKeeps, SegInsertionKeeps, SegDeletionKeeps DEF GNext, Divided
<1> QED
  BY <1>1, InitOps, PTL DEF GSpec

(* No operator of genetic_ops reads past a genome: what it assembles holds    *)
(* none but the daughter's and the mates' bytes, for genomes of every length.  *)
THEOREM GenomeOpsTypeCorrect == GSpec => []GTypeOK
<1>1. OpsInv => GTypeOK
  BY DEF OpsInv
<1> QED
  BY <1>1, OpsInvHolds, PTL

(* Through any series of mutations and splices the daughter stays within the  *)
(* bounds divide tested before them, for every size, threshold and mate.      *)
THEOREM GenomeOpsKeepGates == GSpec => []GatesStillHold
<1>1. OpsInv => GatesStillHold
  BY DEF OpsInv
<1> QED
  BY <1>1, OpsInvHolds, PTL

(* An operator that changed the daughter leaves it marked, and the mark stays:  *)
(* a changed genome is never taken for the mother's (the hash cache).          *)
THEOREM ChangedGenomesAreDirty == GSpec => ChangedGenomeIsDirty
<1>1. [GNext]_gvars => (genome' # genome \/ changed => changed')
  <2> SUFFICES ASSUME [GNext]_gvars PROVE genome' # genome \/ changed => changed'
    OBVIOUS
  <2>1. ASSUME NEW d, NEW stops, SharedGenOps(d, stops)
        PROVE  genome' # genome \/ changed => changed'
    BY <2>1 DEF SharedGenOps, Commit
  <2> QED
    BY <2>1 DEF GNext, gvars, MutationOps, CrossoverInstSamSiz, CrossoverInst, InsertionInst,
       DeletionInst, CrossoverSeg, InsertionSeg, DeletionSeg, NextOp, Divided
<1> QED
  BY <1>1, PTL DEF GSpec, ChangedGenomeIsDirty

---------------------------------------------------------------------------
(* What the scan counts: the places where a template follows an instruction. *)

Ends(g, i) == {k \in 2 .. i : g[k] = "nop" /\ g[k - 1] = "inst"}
Num(g, i)  == Cardinality(Ends(g, i))

LEMMA TwoBytes ==
    ASSUME NEW g \in Seq(Byte), NEW i \in 1 .. Len(g)
    PROVE  g[i] = "nop" \/ g[i] = "inst"
BY GenomeSizes DEF Byte

LEMMA EndsFinite ==
    ASSUME NEW g \in Seq(Byte), NEW i \in Nat
    PROVE  IsFiniteSet(Ends(g, i)) /\ Num(g, i) \in Nat /\ \A k \in Ends(g, i) : k \in 2 .. i
<1>1. IsFiniteSet(2 .. i) /\ Ends(g, i) \subseteq 2 .. i
  BY FS_Interval DEF Ends
<1>2. IsFiniteSet(Ends(g, i))
  BY <1>1, FS_Subset
<1> QED
  BY <1>1, <1>2, FS_CardinalityType DEF Num

LEMMA EndsGrow ==
    ASSUME NEW g \in Seq(Byte), NEW i \in 1 .. Len(g)
    PROVE  /\ i - 1 \in Nat
           /\ i # 1 /\ g[i] = "nop" /\ g[i - 1] = "inst" =>
                 i \in Ends(g, i) /\ Num(g, i) = Num(g, i - 1) + 1
           /\ ~ (i # 1 /\ g[i] = "nop" /\ g[i - 1] = "inst") => Num(g, i) = Num(g, i - 1)
<1>1. Len(g) \in Nat /\ i \in Nat /\ i - 1 \in Nat /\ i - 1 < i
  BY GenomeSizes
<1>2. \A k : k \in Ends(g, i - 1) <=> k \in Ends(g, i) /\ k # i
  <2>1. \A k : k \in 2 .. (i - 1) <=> k \in 2 .. i /\ k # i
    BY <1>1
  <2> QED
    BY <2>1 DEF Ends
<1>3. i \in Ends(g, i) <=> i # 1 /\ g[i] = "nop" /\ g[i - 1] = "inst"
  BY <1>1 DEF Ends
<1>4. IsFiniteSet(Ends(g, i - 1)) /\ Num(g, i - 1) \in Nat
  BY <1>1, EndsFinite
<1>5. CASE i \in Ends(g, i)
  <2>1. Ends(g, i) = Ends(g, i - 1) \cup {i} /\ i \notin Ends(g, i - 1)
    BY <1>2, <1>5
  <2>2. Cardinality(Ends(g, i - 1) \cup {i}) = Cardinality(Ends(g, i - 1)) + 1
    BY <1>4, <2>1, FS_AddElement
  <2> QED
    BY <1>1, <1>3, <1>5, <2>1, <2>2 DEF Num
<1>6. CASE i \notin Ends(g, i)
  <2>1. Ends(g, i) = Ends(g, i - 1)
    BY <1>2, <1>6
  <2> QED
    BY <1>1, <1>3, <1>6, <2>1 DEF Num
<1> QED
  BY <1>5, <1>6

LEMMA EndsNone ==
    ASSUME NEW g \in Seq(Byte)
    PROVE  Num(g, 0) = 0
<1>1. Ends(g, 0) = {}
  BY DEF Ends
<1> QED
  BY <1>1, FS_EmptySet DEF Num

(* The scan of the code, place by place. *)
LEMMA ScanCounts ==
    ASSUME NEW g \in Seq(Byte), NEW j \in 0 .. Len(g)
    PROVE  Scan(g)[j].num = Num(g, j)
<1> DEFINE n == Len(g)
           Follows(f) == f = [i \in 0 .. n |->
               IF i = 0 THEN [templ |-> TRUE, num |-> 0]
               ELSE [templ |-> g[i] = "nop",
                     num   |-> f[i - 1].num + IF g[i] = "nop" /\ ~ f[i - 1].templ THEN 1 ELSE 0]]
           s == CHOOSE f : Follows(f)
           w == [i \in 0 .. n |-> [templ |-> i = 0 \/ g[i] = "nop", num |-> Num(g, i)]]
<1>1. n \in Nat /\ j \in 0 .. n
  BY GenomeSizes
<1>2. Scan(g) = s
  BY DEF Scan
<1>3. ASSUME NEW i \in 1 .. n
      PROVE  Num(g, i) = Num(g, i - 1) + IF g[i] = "nop" /\ ~ (i - 1 = 0 \/ g[i - 1] = "nop") THEN 1 ELSE 0
  <2>0. i - 1 \in Nat
    BY <1>1
  <2>1. Num(g, i - 1) \in Nat /\ i - 1 \in Nat
    BY <2>0, EndsFinite
  <2>2. i # 1 => g[i - 1] = "nop" \/ g[i - 1] = "inst"
    <3>1. i # 1 => i - 1 \in 1 .. n
      BY <1>1
    <3> QED
      BY <3>1, TwoBytes
  <2>3. i - 1 = 0 <=> i = 1
    BY <1>1
  <2>4. CASE i # 1 /\ g[i] = "nop" /\ g[i - 1] = "inst"
    BY <2>1, <2>3, <2>4, EndsGrow
  <2>5. CASE ~ (i # 1 /\ g[i] = "nop" /\ g[i - 1] = "inst")
    <3>1. Num(g, i) = Num(g, i - 1)
      BY <2>5, EndsGrow
    <3> QED
      BY <2>1, <2>2, <2>3, <2>5, <3>1
  <2> QED
    BY <2>4, <2>5
<1>4. Num(g, 0) = 0
  BY EndsNone
<1>5. Follows(w)
  <2> SUFFICES ASSUME NEW i \in 0 .. n
               PROVE  w[i] = IF i = 0 THEN [templ |-> TRUE, num |-> 0]
                             ELSE [templ |-> g[i] = "nop",
                                   num   |-> w[i - 1].num + IF g[i] = "nop" /\ ~ w[i - 1].templ THEN 1 ELSE 0]
    BY Zenon
  <2>1. w[i] = [templ |-> i = 0 \/ g[i] = "nop", num |-> Num(g, i)]
    OBVIOUS
  <2>2. CASE i = 0
    BY <1>4, <2>1, <2>2
  <2>3. CASE i # 0
    <3>1. i \in 1 .. n /\ i - 1 \in 0 .. n
      BY <1>1, <2>3
    <3>2. w[i - 1].templ = (i - 1 = 0 \/ g[i - 1] = "nop") /\ w[i - 1].num = Num(g, i - 1)
      BY <3>1
    <3> QED
      BY <1>3, <2>1, <2>3, <3>1, <3>2
  <2> QED
    BY <2>2, <2>3
<1>6. Follows(s)
  BY <1>5
<1> HIDE DEF s
<1>7. \A i \in 0 .. n : s[i] = IF i = 0 THEN [templ |-> TRUE, num |-> 0]
                               ELSE [templ |-> g[i] = "nop",
                                     num   |-> s[i - 1].num + IF g[i] = "nop" /\ ~ s[i - 1].templ THEN 1 ELSE 0]
  BY <1>6, Zenon
<1> DEFINE Right(i) == s[i] = [templ |-> i = 0 \/ g[i] = "nop", num |-> Num(g, i)]
           T == {i \in 0 .. n : ~ Right(i)}
<1>8. T = {}
  <2> SUFFICES ASSUME T # {} PROVE FALSE
    OBVIOUS
  <2>1. T \in SUBSET Nat
    BY <1>1
  <2>2. PICK m \in T : \A i \in T : m <= i
    BY <2>1, LeastPlace
  <2>3. m \in 0 .. n /\ ~ Right(m)
    OBVIOUS
  <2>4. CASE m = 0
    BY <1>4, <1>7, <2>3, <2>4
  <2>5. CASE m # 0
    <3>1. m \in 1 .. n /\ m - 1 \in 0 .. n /\ ~ (m <= m - 1)
      BY <1>1, <2>3, <2>5
    <3>2. Right(m - 1)
      BY <2>2, <3>1
    <3>3. s[m - 1].templ = (m - 1 = 0 \/ g[m - 1] = "nop") /\ s[m - 1].num = Num(g, m - 1)
      BY <3>2
    <3>4. s[m] = [templ |-> g[m] = "nop",
                  num   |-> s[m - 1].num + IF g[m] = "nop" /\ ~ s[m - 1].templ THEN 1 ELSE 0]
      BY <1>7, <2>3, <2>5
    <3>5. s[m].num = Num(g, m)
      <4>1. s[m].num = s[m - 1].num + IF g[m] = "nop" /\ ~ s[m - 1].templ THEN 1 ELSE 0
        BY <3>4
      <4>2. s[m - 1].templ <=> (m - 1 = 0 \/ g[m - 1] = "nop")
        BY <3>3
      <4>3. Num(g, m) = Num(g, m - 1) + IF g[m] = "nop" /\ ~ (m - 1 = 0 \/ g[m - 1] = "nop") THEN 1 ELSE 0
        BY <1>3, <3>1
      <4>4. s[m - 1].num = Num(g, m - 1)
        BY <3>3
      <4>5. CASE g[m] = "nop" /\ ~ s[m - 1].templ
        <5>1. s[m].num = s[m - 1].num + 1
          BY <4>1, <4>5
        <5>2. Num(g, m) = Num(g, m - 1) + 1
          BY <4>2, <4>3, <4>5
        <5> QED
          BY <4>4, <5>1, <5>2
      <4>6. CASE ~ (g[m] = "nop" /\ ~ s[m - 1].templ)
        <5>1. s[m].num = s[m - 1].num + 0
          BY <4>1, <4>6
        <5>2. Num(g, m) = Num(g, m - 1) + 0
          BY <4>2, <4>3, <4>6
        <5> QED
          BY <4>4, <5>1, <5>2
      <4> QED
        BY <4>5, <4>6
    <3> QED
      BY <2>3, <2>5, <3>4, <3>5
  <2> QED
    BY <2>4, <2>5
<1>9. Right(j)
  BY <1>1, <1>8
<1> QED
  BY <1>2, <1>9

LEMMA CountIs ==
    ASSUME NEW g \in Seq(Byte)
    PROVE  CountSegments(g) =
              Num(g, Len(g)) + IF g # <<>> /\ g[Len(g)] # "nop" THEN 1 ELSE 0
<1>1. Len(g) \in 0 .. Len(g)
  BY GenomeSizes
<1> QED
  BY <1>1, ScanCounts DEF CountSegments

(* Further on nothing is uncounted, and a place counted in between is one more. *)
LEMMA NumMonotone ==
    ASSUME NEW g \in Seq(Byte), NEW i \in Nat, NEW j \in Nat, i <= j
    PROVE  /\ Num(g, i) <= Num(g, j)
           /\ \A k \in Ends(g, j) : i < k => Num(g, i) + 1 <= Num(g, j)
<1>1. Ends(g, i) \subseteq Ends(g, j)
  <2>1. \A k \in 2 .. i : k \in 2 .. j
    OBVIOUS
  <2> QED
    BY <2>1 DEF Ends
<1>2. IsFiniteSet(Ends(g, j)) /\ IsFiniteSet(Ends(g, i)) /\ \A k \in Ends(g, i) : k \in 2 .. i
  BY EndsFinite
<1>3. Num(g, i) <= Num(g, j)
  BY <1>1, <1>2, FS_Subset DEF Num
<1>4. ASSUME NEW k \in Ends(g, j), i < k PROVE Num(g, i) + 1 <= Num(g, j)
  <2>1. k \notin Ends(g, i)
    <3>1. k \in 2 .. j
      BY EndsFinite
    <3>2. k \notin 2 .. i
      BY <1>4, <3>1
    <3> QED
      BY <1>2, <3>2
  <2>2. Cardinality(Ends(g, i) \cup {k}) = Cardinality(Ends(g, i)) + 1
    BY <1>2, <2>1, FS_AddElement
  <2>3. Ends(g, i) \cup {k} \in SUBSET Ends(g, j)
    BY <1>1
  <2>4. Cardinality(Ends(g, i) \cup {k}) <= Cardinality(Ends(g, j))
    BY <1>2, <2>3, FS_Subset
  <2> QED
    BY <2>2, <2>4 DEF Num
<1> QED
  BY <1>3, <1>4

(* Where the n-th segment ends: at an instruction, with nothing or a template *)
(* behind it and n - 1 segments counted before.                              *)
LEMMA EndOfIs ==
    ASSUME NEW g \in Seq(Byte), NEW n \in 1 .. CountSegments(g)
    PROVE  /\ EndOf(g, n) \in 1 .. Len(g) /\ g[EndOf(g, n)] = "inst"
           /\ Num(g, EndOf(g, n)) = n - 1
           /\ \/ EndOf(g, n) = Len(g)
              \/ g[EndOf(g, n) + 1] = "nop" /\ Num(g, EndOf(g, n) + 1) = n
<1> DEFINE len == Len(g)
           ends == {i \in 1 .. len : Scan(g)[i].num = n}
<1>1. /\ len \in Nat /\ Num(g, len) \in Nat
      /\ CountSegments(g) = Num(g, len) + IF g # <<>> /\ g[len] # "nop" THEN 1 ELSE 0
  BY GenomeSizes, EndsFinite, CountIs
<1>2. n \in Nat \ {0} /\ n <= Num(g, len) + 1
  BY <1>1
<1>3. \A i \in 1 .. len : Scan(g)[i].num = Num(g, i)
  <2>1. \A i \in 1 .. len : i \in 0 .. len
    BY <1>1
  <2> QED
    BY <2>1, ScanCounts
<1>4. \A i \in 1 .. len : i \in ends <=> Num(g, i) = n
  BY <1>3
<1>5. EndOf(g, n) = IF ends = {} THEN len
                    ELSE (CHOOSE i \in ends : \A j \in ends : i <= j) - 1
  BY DEF EndOf
<1> HIDE DEF ends, len
<1>6. CASE n <= Num(g, len)
  <2> DEFINE T == {i \in 1 .. len : Num(g, i) >= n}
  <2>1. len \in T
    <3>1. len # 0
      BY <1>2, <1>6, EndsNone
    <3> QED
      BY <1>1, <1>2, <1>6, <3>1
  <2>2. T \in SUBSET Nat /\ T # {}
    BY <1>1, <2>1
  <2>3. PICK m \in T : \A i \in T : m <= i
    BY <2>2, LeastPlace
  <2>4. m \in 1 .. len /\ Num(g, m) >= n /\ m - 1 \in Nat /\ m \in Nat
    BY <1>1
  <2>5. Num(g, m) \in Nat /\ Num(g, m - 1) \in Nat
    BY <2>4, EndsFinite
  <2>6. Num(g, m - 1) < n
    <3>1. CASE m = 1
      BY <1>2, <3>1, EndsNone
    <3>2. CASE m # 1
      <4>1. m - 1 \in 1 .. len /\ ~ (m <= m - 1)
        BY <1>1, <2>4, <3>2
      <4>2. ~ (Num(g, m - 1) >= n)
        BY <2>3, <4>1
      <4> QED
        BY <1>2, <2>5, <4>2
    <3> QED
      BY <3>1, <3>2
  <2>7. m # 1 /\ g[m] = "nop" /\ g[m - 1] = "inst" /\ Num(g, m) = Num(g, m - 1) + 1
    <3>1. m \in 1 .. Len(g)
      BY <2>4 DEF len
    <3>2. Num(g, m) # Num(g, m - 1)
      BY <1>2, <2>4, <2>5, <2>6
    <3> QED
      BY <3>1, <3>2, EndsGrow
  <2>8. Num(g, m) = n /\ Num(g, m - 1) = n - 1
    BY <1>2, <2>4, <2>5, <2>6, <2>7
  <2>9. m \in ends /\ \A j \in ends : m <= j
    <3>1. m \in ends
      BY <1>4, <2>4, <2>8
    <3>2. ASSUME NEW j \in ends PROVE m <= j
      <4>1. j \in 1 .. len
        BY DEF ends
      <4>2. Num(g, j) = n
        BY <1>4, <4>1
      <4>3. j \in T
        BY <1>2, <4>1, <4>2
      <4> QED
        BY <2>3, <4>3
    <3> QED
      BY <3>1, <3>2
  <2>10. (CHOOSE i \in ends : \A j \in ends : i <= j) = m
    <3>1. ASSUME NEW i \in ends, \A j \in ends : i <= j PROVE i = m
      <4>1. i <= m /\ m <= i /\ i \in 1 .. len
        BY <2>9, <3>1 DEF ends
      <4> QED
        BY <2>4, <4>1
    <3> QED
      BY <2>9, <3>1
  <2>11. EndOf(g, n) = m - 1
    BY <1>5, <2>9, <2>10
  <2>12. m - 1 \in 1 .. len /\ (m - 1) + 1 = m
    BY <1>1, <2>4, <2>7
  <2> QED
    BY <2>7, <2>8, <2>11, <2>12 DEF len
<1>7. CASE ~ (n <= Num(g, len))
  <2>1. n = Num(g, len) + 1 /\ g # <<>> /\ g[len] # "nop"
    BY <1>1, <1>2, <1>7
  <2>2. len \in 1 .. len
    BY <1>1, <2>1 DEF len
  <2>3. g[len] = "inst"
    BY <2>1, <2>2, TwoBytes DEF len
  <2>4. ends = {}
    <3> SUFFICES ASSUME NEW i \in ends PROVE FALSE
      OBVIOUS
    <3>1. i \in 1 .. len
      BY DEF ends
    <3>2. Num(g, i) = n /\ i \in Nat /\ i <= len
      BY <1>1, <1>4, <3>1
    <3>3. Num(g, i) <= Num(g, len)
      BY <1>1, <3>2, NumMonotone
    <3> QED
      BY <1>7, <3>2, <3>3
  <2>5. EndOf(g, n) = len
    BY <1>5, <2>4
  <2> QED
    BY <1>1, <2>1, <2>2, <2>3, <2>5 DEF len
<1> QED
  BY <1>6, <1>7

\* An instruction with nothing or a template behind it.
StopsAt(g, e) == g[e] = "inst" /\ (e = Len(g) \/ g[e + 1] = "nop")

(* It ends one run. *)
LEMMA RunEndsAt ==
    ASSUME NEW g \in Seq(Byte), NEW e \in 1 .. Len(g), StopsAt(g, e)
    PROVE  \E r \in Runs(g) : r[2] = e
<1> DEFINE T == {a \in 1 .. e : \A i \in a .. e : g[i] = "inst"}
<1> HIDE DEF T
<1>0. Len(g) \in Nat /\ DOMAIN g = 1 .. Len(g)
  BY GenomeSizes
<1>1. Len(g) \in Nat /\ DOMAIN g = 1 .. Len(g) /\ e \in Nat /\ e >= 1 /\ e <= Len(g)
  BY <1>0
<1>2. T \in SUBSET Nat /\ e \in T
  <2>1. e \in 1 .. e /\ \A i \in e .. e : i = e
    BY <1>1
  <2>2. \A i \in e .. e : g[i] = "inst"
    BY <2>1 DEF StopsAt
  <2> QED
    BY <1>1, <2>1, <2>2 DEF T
<1>3. PICK a \in T : \A b \in T : a <= b
  BY <1>2, LeastPlace
<1>4. a \in 1 .. e /\ (\A i \in a .. e : g[i] = "inst") /\ a \in Nat /\ a >= 1 /\ a <= e
  <2>1. a \in 1 .. e /\ \A i \in a .. e : g[i] = "inst"
    BY DEF T
  <2> QED
    BY <1>1, <2>1
<1>5. a = 1 \/ g[a - 1] = "nop"
  <2> SUFFICES ASSUME a # 1, g[a - 1] # "nop" PROVE FALSE
    OBVIOUS
  <2>1. a - 1 \in 1 .. e /\ a - 1 \in 1 .. Len(g) /\ ~ (a <= a - 1)
    BY <1>1, <1>4
  <2>2. g[a - 1] = "inst"
    BY <2>1, TwoBytes
  <2>3. \A i \in (a - 1) .. e : i = a - 1 \/ i \in a .. e
    BY <1>1, <1>4
  <2>4. a - 1 \in T
    BY <1>4, <2>1, <2>2, <2>3 DEF T
  <2> QED
    BY <1>3, <2>1, <2>4
<1>6. <<a, e>> \in (DOMAIN g) \X (DOMAIN g) /\ a <= e
  <2>1. a \in 1 .. Len(g)
    BY <1>1, <1>4
  <2> QED
    BY <1>1, <1>4, <2>1
<1>7. <<a, e>> \in Runs(g)
  BY <1>4, <1>5, <1>6 DEF Runs, StopsAt
<1> QED
  BY <1>7

LEMMA RunIs ==
    ASSUME NEW g \in Seq(Byte), NEW r \in Runs(g)
    PROVE  /\ r[1] \in 1 .. Len(g) /\ r[2] \in 1 .. Len(g) /\ r[1] <= r[2] /\ r = <<r[1], r[2]>>
           /\ \A i \in r[1] .. r[2] : g[i] = "inst"
           /\ r[1] = 1 \/ g[r[1] - 1] = "nop"
           /\ r[2] = Len(g) \/ g[r[2] + 1] = "nop"
BY GenomeSizes DEF Runs

(* No two runs end at the same place. *)
LEMMA RunsApart ==
    ASSUME NEW g \in Seq(Byte), NEW q \in Runs(g), NEW r \in Runs(g), q[2] = r[2]
    PROVE  q = r
<1>1. ASSUME NEW x \in Runs(g), NEW y \in Runs(g), x[2] = y[2] PROVE ~ (x[1] < y[1])
  <2> SUFFICES ASSUME x[1] < y[1] PROVE FALSE
    OBVIOUS
  <2>1. /\ x[1] \in 1 .. Len(g) /\ y[1] \in 1 .. Len(g) /\ y[1] <= y[2] /\ y[2] \in 1 .. Len(g)
        /\ \A i \in x[1] .. x[2] : g[i] = "inst"
        /\ y[1] = 1 \/ g[y[1] - 1] = "nop"
    BY RunIs
  <2>2. y[1] # 1 /\ y[1] - 1 \in x[1] .. x[2]
    BY <1>1, <2>1
  <2> QED
    BY <2>1, <2>2
<1>2. ~ (q[1] < r[1]) /\ ~ (r[1] < q[1])
  BY <1>1
<1>3. q[1] \in Int /\ r[1] \in Int /\ q = <<q[1], q[2]>> /\ r = <<r[1], r[2]>>
  BY RunIs
<1>4. q[1] = r[1]
  BY <1>2, <1>3
<1> QED
  BY <1>3, <1>4

(* The scan counts the runs: each where it ends. *)
LEMMA RunsCounted ==
    ASSUME NEW g \in Seq(Byte)
    PROVE  CountSegments(g) = Cardinality(Runs(g))
<1> DEFINE len == Len(g)
           Last == g # <<>> /\ g[len] # "nop"
           Places == Ends(g, len) \cup IF Last THEN {len + 1} ELSE {}
           f == [r \in Runs(g) |-> r[2] + 1]
<1>1. len \in Nat /\ DOMAIN g = 1 .. len
  BY GenomeSizes
<1>2. IsFiniteSet(Ends(g, len)) /\ \A k \in Ends(g, len) : k \in 2 .. len
  BY <1>1, EndsFinite
<1>3. IsFiniteSet(Places) /\ Cardinality(Places) = CountSegments(g)
  <2>1. len + 1 \notin Ends(g, len)
    BY <1>1, <1>2
  <2>2. CASE Last
    <3>1. Places = Ends(g, len) \cup {len + 1}
      BY <2>2
    <3>2. IsFiniteSet(Places) /\ Cardinality(Places) = Num(g, len) + 1
      <4>1. /\ IsFiniteSet(Ends(g, len) \cup {len + 1})
            /\ Cardinality(Ends(g, len) \cup {len + 1}) = Cardinality(Ends(g, len)) + 1
        BY <1>2, <2>1, FS_AddElement
      <4> HIDE DEF Places
      <4> QED
        BY <3>1, <4>1 DEF Num
    <3> QED
      BY <2>2, <3>2, CountIs
  <2>3. CASE ~ Last
    <3>1. Places = Ends(g, len)
      BY <2>3
    <3>2. CountSegments(g) = Num(g, len) + 0
      BY <2>3, CountIs
    <3>3. Num(g, len) \in Nat
      BY <1>1, EndsFinite
    <3> HIDE DEF Places, Last
    <3> QED
      BY <1>2, <3>1, <3>2, <3>3 DEF Num
  <2> HIDE DEF Last, Places
  <2> QED
    BY <2>2, <2>3, Zenon
<1>4. ASSUME NEW r \in Runs(g) PROVE f[r] \in Places
  <2>1. /\ r[2] \in 1 .. len /\ r[1] <= r[2] /\ r[1] \in 1 .. len /\ \A i \in r[1] .. r[2] : g[i] = "inst"
        /\ r[2] = len \/ g[r[2] + 1] = "nop"
    BY RunIs
  <2>2. g[r[2]] = "inst"
    BY <2>1
  <2>3. CASE r[2] = len
    <3>1. Last
      BY <1>1, <2>1, <2>2, <2>3
    <3> QED
      BY <2>3, <3>1
  <2>4. CASE r[2] # len
    <3>1. r[2] + 1 \in 2 .. len /\ (r[2] + 1) - 1 = r[2]
      BY <1>1, <2>1, <2>4
    <3>2. r[2] + 1 \in Ends(g, len)
      BY <2>1, <2>2, <2>4, <3>1 DEF Ends
    <3> QED
      BY <3>2
  <2> QED
    BY <2>3, <2>4
<1>5. ASSUME NEW k \in Places PROVE \E r \in Runs(g) : f[r] = k
  <2>1. k - 1 \in 1 .. len /\ g[k - 1] = "inst" /\ (k - 1 = len \/ g[(k - 1) + 1] = "nop") /\ (k - 1) + 1 = k
    <3>1. CASE k \in Ends(g, len)
      <4>1. k \in 2 .. len /\ g[k] = "nop" /\ g[k - 1] = "inst"
        BY <3>1 DEF Ends
      <4> QED
        BY <1>1, <4>1
    <3>2. CASE k \notin Ends(g, len)
      <4>1. Last /\ k = len + 1
        BY <3>2
      <4>2. k - 1 = len /\ len \in 1 .. len /\ (k - 1) + 1 = k
        BY <1>1, <4>1
      <4>3. g[len] = "inst"
        BY <4>1, <4>2, TwoBytes
      <4> QED
        BY <4>2, <4>3
    <3> QED
      BY <3>1, <3>2
  <2>2. PICK r \in Runs(g) : r[2] = k - 1
    BY <2>1, RunEndsAt DEF StopsAt
  <2> QED
    BY <2>1, <2>2
<1>6. ASSUME NEW q \in Runs(g), NEW r \in Runs(g), f[q] = f[r] PROVE q = r
  <2>1. q[2] \in Int /\ r[2] \in Int /\ q[2] + 1 = r[2] + 1
    BY <1>6, RunIs
  <2>2. q[2] = r[2]
    BY <2>1
  <2> QED
    BY <2>2, RunsApart
<1> HIDE DEF Places
<1>7. f \in Bijection(Runs(g), Places)
  <2>1. f \in [Runs(g) -> Places] /\ DOMAIN f = Runs(g)
    BY <1>4
  <2> HIDE DEF f
  <2> QED
    BY <1>5, <1>6, <2>1 DEF Bijection, Injection, IsInjective, Surjection
<1>8. ExistsBijection(Runs(g), Places)
  BY <1>7 DEF ExistsBijection
<1>9. ExistsBijection(Places, Runs(g))
  BY <1>8, Fun_ExistsBijSymmetric
<1>10. Cardinality(Runs(g)) = Cardinality(Places)
  BY <1>3, <1>9, FS_Bijection
<1> QED
  BY <1>3, <1>10

(* The n-th segment the scan finds is the n-th run and what lies before it. *)
LEMMA SegmentIsRun ==
    ASSUME NEW g \in Seq(Byte), NEW n \in 1 .. CountSegments(g)
    PROVE  \E r \in Runs(g) :
              /\ r[2] = FindEndSegN(g, n)
              /\ r[1] > FindStartSegN(g, n)
              /\ \A i \in (FindStartSegN(g, n) + 1) .. (r[1] - 1) : g[i] = "nop"
<1> DEFINE e == EndOf(g, n)
           st == FindStartSegN(g, n)
<1>1. Len(g) \in Nat /\ n \in Nat \ {0} /\ CountSegments(g) \in Nat /\ n <= CountSegments(g)
  <2>1. Len(g) \in Nat
    BY GenomeSizes
  <2>2. Num(g, Len(g)) \in Nat
    BY <2>1, EndsFinite
  <2>3. CountSegments(g) = Num(g, Len(g)) \/ CountSegments(g) = Num(g, Len(g)) + 1
    BY <2>2, CountIs
  <2>4. CountSegments(g) \in Nat
    BY <2>2, <2>3
  <2> QED
    BY <2>1, <2>4
<1>2. e \in 1 .. Len(g) /\ StopsAt(g, e) /\ Num(g, e) = n - 1
  BY EndOfIs DEF StopsAt
<1> HIDE DEF e
<1>3. e \in Nat /\ e >= 1 /\ e <= Len(g)
  BY <1>1, <1>2
<1>4. PICK r \in Runs(g) : r[2] = e
  BY <1>2, RunEndsAt
<1>5. /\ r[1] \in 1 .. Len(g) /\ r[1] <= e
      /\ \A i \in r[1] .. e : g[i] = "inst"
      /\ r[1] = 1 \/ g[r[1] - 1] = "nop"
  BY <1>4, RunIs
<1> DEFINE a == r[1]
<1>6. a \in Nat /\ a >= 1 /\ a <= e /\ (\A i \in a .. e : g[i] = "inst") /\ (a = 1 \/ g[a - 1] = "nop")
  BY <1>1, <1>5
<1> HIDE DEF a
\* Before the segment n - 1 are counted, and it begins with a template unless it is the first.
<1>7. /\ st \in Nat /\ st < a
      /\ Num(g, st) = n - 1 \/ Num(g, st + 1) = n - 1
      /\ st # 0 => g[st + 1] = "nop"
  <2>1. CASE n = 1
    <3>1. st = 0
      BY <2>1 DEF FindStartSegN
    <3>2. Num(g, st) = n - 1
      BY <2>1, <3>1, EndsNone
    <3> QED
      BY <1>6, <3>1, <3>2
  <2>2. CASE n # 1
    <3>1. n - 1 \in 1 .. CountSegments(g)
      BY <1>1, <2>2
    <3>2. st = EndOf(g, n - 1)
      BY <2>2 DEF FindStartSegN
    <3>3. /\ st \in 1 .. Len(g) /\ g[st] = "inst" /\ Num(g, st) = (n - 1) - 1
          /\ st = Len(g) \/ (g[st + 1] = "nop" /\ Num(g, st + 1) = n - 1)
      BY <3>1, <3>2, EndOfIs
    <3> HIDE DEF st
    <3>4. st \in Nat /\ st >= 1 /\ st <= Len(g)
      BY <1>1, <3>3
    <3>5. st < e
      <4> SUFFICES ASSUME e <= st PROVE FALSE
        BY <1>3, <3>4
      <4>1. Num(g, e) <= Num(g, st)
        BY <1>3, <3>4, NumMonotone
      <4> QED
        BY <1>1, <1>2, <3>3, <4>1
    <3>6. g[st + 1] = "nop" /\ Num(g, st + 1) = n - 1
      BY <1>3, <3>3, <3>4, <3>5
    <3>7. st < a
      <4> SUFFICES ASSUME a <= st PROVE FALSE
        BY <1>6, <3>4
      <4>1. st + 1 \in a .. e
        BY <1>3, <1>6, <3>4, <3>5
      <4>2. g[st + 1] = "inst"
        BY <1>6, <4>1
      <4> QED
        BY <3>6, <4>2
    <3> QED
      BY <3>4, <3>6, <3>7
  <2> QED
    BY <2>1, <2>2
<1> HIDE DEF st
<1>8. ASSUME NEW i \in (st + 1) .. (a - 1) PROVE g[i] = "nop"
  <2> SUFFICES ASSUME g[i] # "nop" PROVE FALSE
    OBVIOUS
  <2>1. i \in Nat /\ i >= st + 1 /\ i <= a - 1 /\ i \in 1 .. Len(g)
    BY <1>1, <1>3, <1>6, <1>7
  <2>2. g[i] = "inst" /\ g[a - 1] = "nop"
    BY <1>6, <2>1, TwoBytes
  <2> DEFINE T == {k \in (i + 1) .. (a - 1) : g[k] = "nop"}
  <2>3. a - 1 \in T /\ T \in SUBSET Nat
    <3>1. a - 1 # i
      BY <2>2
    <3>2. a - 1 \in (i + 1) .. (a - 1)
      BY <1>6, <2>1, <3>1
    <3> QED
      BY <2>1, <2>2, <3>2
  <2>4. PICK k \in T : \A j \in T : k <= j
    BY <2>3, LeastPlace
  <2>5. k \in (i + 1) .. (a - 1) /\ g[k] = "nop"
    OBVIOUS
  <2>6. k \in Nat /\ k >= i + 1 /\ k <= a - 1 /\ k - 1 \in 1 .. Len(g) /\ ~ (k <= k - 1)
    BY <1>1, <1>3, <1>6, <2>1, <2>5
  <2>7. g[k - 1] = "inst"
    <3>1. CASE k - 1 = i
      BY <2>2, <3>1
    <3>2. CASE k - 1 # i
      <4>1. k - 1 \in (i + 1) .. (a - 1)
        <5> HIDE DEF T
        <5>1. k \in Nat /\ k >= i + 1 /\ k - 1 # i
          BY <2>6, <3>2
        <5>2. k - 1 >= i + 1 /\ k - 1 <= a - 1
          BY <1>6, <2>1, <2>6, <5>1
        <5> QED
          BY <1>6, <2>1, <5>1, <5>2
      <4>2. g[k - 1] # "nop"
        BY <2>4, <2>6, <4>1
      <4> QED
        BY <2>6, <4>2, TwoBytes
    <3> QED
      BY <3>1, <3>2
  <2>8. k \in Ends(g, e)
    <3>1. k \in 2 .. e
      BY <1>3, <1>6, <2>1, <2>6
    <3> QED
      BY <2>5, <2>7, <3>1 DEF Ends
  <2>9. Num(g, e) \in Nat
    BY <1>3, EndsFinite
  <2>10. CASE Num(g, st) = n - 1
    <3>1. st \in Nat /\ st <= e /\ st < k
      BY <1>3, <1>6, <1>7, <2>1, <2>6
    <3>2. Num(g, st) + 1 <= Num(g, e)
      BY <1>3, <2>8, <3>1, NumMonotone
    <3> QED
      BY <1>2, <2>9, <2>10, <3>2
  <2>11. CASE Num(g, st + 1) = n - 1
    <3>1. st + 1 \in Nat /\ st + 1 <= e /\ st + 1 < k
      BY <1>3, <1>6, <1>7, <2>1, <2>6
    <3>2. Num(g, st + 1) + 1 <= Num(g, e)
      BY <1>3, <2>8, <3>1, NumMonotone
    <3> QED
      BY <1>2, <2>9, <2>11, <3>2
  <2> QED
    BY <1>7, <2>10, <2>11
<1>9. r[2] = FindEndSegN(g, n)
  BY <1>4 DEF FindEndSegN, e
<1> QED
  BY <1>6, <1>7, <1>8, <1>9 DEF a, st

(* On every genome the scan of count_segments counts its runs of instructions, *)
(* and find_start_seg_n and find_end_seg_n enclose the n-th of them with the  *)
(* template before it.                                                        *)
THEOREM SegmentsAreCutAtRuns == GSpec => []SegmentsAreRuns
<1>1. OpsInv => SegmentsAreRuns
  <2> SUFFICES ASSUME OpsInv PROVE SegmentsAreRuns
    OBVIOUS
  <2>1. genome \in Seq(Byte)
    BY DEF OpsInv, GTypeOK
  <2> QED
    BY <2>1, RunsCounted, SegmentIsRun DEF SegmentsAreRuns
<1> QED
  BY <1>1, OpsInvHolds, PTL

---------------------------------------------------------------------------
(* Genomes cut and joined where a template begins keep their runs. *)

\* A piece that is put behind another adds to no run of it.
BeginsAnew(e) == e # <<>> => e[1] = "nop"

LEMMA JoinIs ==
    ASSUME NEW d \in Seq(Byte), NEW e \in Seq(Byte)
    PROVE  /\ d \o e \in Seq(Byte) /\ Len(d \o e) = Len(d) + Len(e)
           /\ \A i \in 1 .. Len(d) : (d \o e)[i] = d[i]
           /\ \A i \in 1 .. Len(e) : (d \o e)[i + Len(d)] = e[i]
<1>1. d \o e \in Seq(Byte) /\ Len(d \o e) = Len(d) + Len(e)
  OBVIOUS
<1>2. ASSUME NEW i \in 1 .. Len(d) PROVE (d \o e)[i] = d[i]
  OBVIOUS
<1>3. ASSUME NEW i \in 1 .. Len(e) PROVE (d \o e)[i + Len(d)] = e[i]
  OBVIOUS
<1> QED
  BY <1>1, <1>2, <1>3

Moved(r, k) == <<r[1] + k, r[2] + k>>

LEMMA RunOf ==
    ASSUME NEW g \in Seq(Byte), NEW a \in 1 .. Len(g), NEW b \in 1 .. Len(g), a <= b,
           \A i \in a .. b : g[i] = "inst",
           a = 1 \/ g[a - 1] = "nop", b = Len(g) \/ g[b + 1] = "nop"
    PROVE  <<a, b>> \in Runs(g)
<1>1. DOMAIN g = 1 .. Len(g)
  BY GenomeSizes
<1> QED
  BY <1>1 DEF Runs

(* A run of the joined genome is one of the first part, or one of the second at its new place. *)
LEMMA RunOfJoint ==
    ASSUME NEW d \in Seq(Byte), NEW e \in Seq(Byte), BeginsAnew(e), NEW r \in Runs(d \o e)
    PROVE  r \in Runs(d) \/ \E q \in Runs(e) : r = Moved(q, Len(d))
<1> DEFINE c == d \o e
           k == Len(d)
<1>1. /\ c \in Seq(Byte) /\ Len(c) = k + Len(e)
      /\ \A i \in 1 .. k : c[i] = d[i]
      /\ \A i \in 1 .. Len(e) : c[i + k] = e[i]
  BY JoinIs
<1>2. k \in Nat /\ Len(e) \in Nat
  BY GenomeSizes
<1>10. r \in Runs(c)
  OBVIOUS
<1> HIDE DEF c
<1>3. PICK a \in 1 .. Len(c) : a = r[1]
  BY <1>1, <1>10, RunIs
<1>4. PICK b \in 1 .. Len(c) : b = r[2]
  BY <1>1, <1>10, RunIs
<1>5. /\ a <= b /\ r = <<a, b>> /\ \A i \in a .. b : c[i] = "inst"
      /\ a = 1 \/ c[a - 1] = "nop"
      /\ b = Len(c) \/ c[b + 1] = "nop"
  BY <1>1, <1>3, <1>4, <1>10, RunIs
<1>6. k = Len(d)
  OBVIOUS
<1> HIDE DEF k
<1>7. a \in Nat /\ b \in Nat /\ a >= 1 /\ b <= k + Len(e)
  BY <1>1, <1>2
<1>8. CASE b <= k
  <2>1. a \in 1 .. Len(d) /\ b \in 1 .. Len(d)
    BY <1>2, <1>5, <1>6, <1>7, <1>8
  <2>2. ASSUME NEW i \in a .. b PROVE d[i] = "inst"
    <3>1. i \in 1 .. k /\ c[i] = "inst"
      BY <1>2, <1>5, <1>7, <1>8
    <3> QED
      BY <1>1, <3>1
  <2>3. a = 1 \/ d[a - 1] = "nop"
    <3>1. a # 1 => a - 1 \in 1 .. k
      BY <1>2, <1>5, <1>7, <1>8
    <3> QED
      BY <1>1, <1>5, <3>1
  <2>4. b = Len(d) \/ d[b + 1] = "nop"
    <3>1. b # k => b + 1 \in 1 .. k /\ b # Len(c)
      BY <1>1, <1>2, <1>7, <1>8
    <3> QED
      BY <1>1, <1>5, <1>6, <3>1
  <2>5. <<a, b>> \in Runs(d)
    BY <1>5, <2>1, <2>2, <2>3, <2>4, RunOf
  <2> QED
    BY <1>5, <2>5
<1>9. CASE ~ (b <= k)
  <2>1. 1 \in 1 .. Len(e) /\ c[1 + k] = "nop"
    <3>1. 1 \in 1 .. Len(e) /\ e # <<>>
      BY <1>2, <1>7, <1>9
    <3> QED
      BY <1>1, <3>1 DEF BeginsAnew
  <2>2. ~ (a <= k + 1)
    <3> SUFFICES ASSUME a <= k + 1 PROVE FALSE
      OBVIOUS
    <3>1. k + 1 \in a .. b
      BY <1>2, <1>7, <1>9
    <3> QED
      BY <1>2, <1>5, <2>1, <3>1
  <2> DEFINE x == a - k
             y == b - k
  <2>3. x \in 1 .. Len(e) /\ y \in 1 .. Len(e) /\ x <= y /\ x - 1 \in 1 .. Len(e)
    BY <1>2, <1>5, <1>7, <1>9, <2>2
  <2>4. ASSUME NEW i \in x .. y PROVE e[i] = "inst"
    <3>1. i \in 1 .. Len(e) /\ i + k \in a .. b
      BY <1>2, <1>7, <2>3
    <3> QED
      BY <1>1, <1>5, <3>1
  <2>5. e[x - 1] = "nop"
    <3>1. (x - 1) + k = a - 1 /\ a # 1
      BY <1>2, <1>7, <2>2
    <3>2. c[(x - 1) + k] = e[x - 1]
      BY <1>1, <2>3
    <3> QED
      BY <1>5, <3>1, <3>2
  <2>6. y = Len(e) \/ e[y + 1] = "nop"
    <3>1. y # Len(e) => y + 1 \in 1 .. Len(e) /\ b # Len(c) /\ (y + 1) + k = b + 1
      <4>1. b = y + k /\ y \in Nat /\ y >= 1 /\ y <= Len(e) /\ Len(c) = k + Len(e)
        BY <1>1, <1>2, <1>7, <2>3
      <4> HIDE DEF y
      <4> QED
        BY <1>2, <4>1
    <3>2. y + 1 \in 1 .. Len(e) => c[(y + 1) + k] = e[y + 1]
      BY <1>1
    <3> QED
      BY <1>5, <3>1, <3>2
  <2>7. a = x + k /\ b = y + k
    BY <1>2, <1>7
  <2> HIDE DEF x, y
  <2>8. <<x, y>> \in Runs(e)
    BY <2>3, <2>4, <2>5, <2>6, RunOf
  <2>9. r = Moved(<<x, y>>, k)
    BY <1>5, <2>7 DEF Moved
  <2> QED
    BY <1>6, <2>8, <2>9
<1> QED
  BY <1>8, <1>9

LEMMA RunsOfJoint ==
    ASSUME NEW d \in Seq(Byte), NEW e \in Seq(Byte), BeginsAnew(e)
    PROVE  /\ \A r \in Runs(d) : r \in Runs(d \o e)
           /\ \A r \in Runs(e) : Moved(r, Len(d)) \in Runs(d \o e)
<1> DEFINE c == d \o e
           k == Len(d)
<1>1. /\ c \in Seq(Byte) /\ Len(c) = k + Len(e)
      /\ \A i \in 1 .. k : c[i] = d[i]
      /\ \A i \in 1 .. Len(e) : c[i + k] = e[i]
  BY JoinIs
<1>2. k \in Nat /\ Len(e) \in Nat /\ k = Len(d)
  BY GenomeSizes
<1>3. ASSUME NEW r \in Runs(d) PROVE r \in Runs(c)
  <2>1. PICK a \in 1 .. k : a = r[1]
    BY RunIs
  <2>2. PICK b \in 1 .. k : b = r[2]
    BY RunIs
  <2>3. /\ a <= b /\ r = <<a, b>> /\ \A i \in a .. b : d[i] = "inst"
        /\ a = 1 \/ d[a - 1] = "nop"
        /\ b = k \/ d[b + 1] = "nop"
    BY <2>1, <2>2, RunIs
  <2> HIDE DEF c, k
  <2>4. a \in 1 .. Len(c) /\ b \in 1 .. Len(c)
    BY <1>1, <1>2
  <2>5. ASSUME NEW i \in a .. b PROVE c[i] = "inst"
    <3>1. i \in 1 .. k
      BY <1>2
    <3> QED
      BY <1>1, <2>3, <3>1
  <2>6. a = 1 \/ c[a - 1] = "nop"
    <3>1. a # 1 => a - 1 \in 1 .. k
      BY <1>2
    <3> QED
      BY <1>1, <2>3, <3>1
  <2>7. b = Len(c) \/ c[b + 1] = "nop"
    <3>1. CASE b # k
      <4>1. b + 1 \in 1 .. k
        BY <1>2, <3>1
      <4> QED
        BY <1>1, <2>3, <3>1, <4>1
    <3>2. CASE b = k
      <4>1. CASE e = <<>>
        BY <1>1, <1>2, <3>2, <4>1
      <4>2. CASE e # <<>>
        <5>1. 1 \in 1 .. Len(e)
          BY <1>2, <4>2
        <5>2. c[1 + k] = "nop"
          BY <1>1, <4>2, <5>1 DEF BeginsAnew
        <5> QED
          BY <1>2, <3>2, <5>2
      <4> QED
        BY <4>1, <4>2
    <3> QED
      BY <3>1, <3>2
  <2>8. <<a, b>> \in Runs(c)
    BY <1>1, <2>3, <2>4, <2>5, <2>6, <2>7, RunOf
  <2> QED
    BY <2>3, <2>8
<1>4. ASSUME NEW r \in Runs(e) PROVE Moved(r, k) \in Runs(c)
  <2>1. PICK a \in 1 .. Len(e) : a = r[1]
    BY RunIs
  <2>2. PICK b \in 1 .. Len(e) : b = r[2]
    BY RunIs
  <2>3. /\ a <= b /\ r = <<a, b>> /\ \A i \in a .. b : e[i] = "inst"
        /\ a = 1 \/ e[a - 1] = "nop"
        /\ b = Len(e) \/ e[b + 1] = "nop"
    BY <2>1, <2>2, RunIs
  <2>4. a # 1
    <3> SUFFICES ASSUME a = 1 PROVE FALSE
      OBVIOUS
    <3>1. a \in a .. b /\ e # <<>>
      BY <1>2, <2>3
    <3> QED
      BY <2>3, <3>1 DEF BeginsAnew
  <2> HIDE DEF c, k
  <2>5. a + k \in 1 .. Len(c) /\ b + k \in 1 .. Len(c) /\ a + k <= b + k
    BY <1>1, <1>2, <2>3
  <2>6. ASSUME NEW i \in (a + k) .. (b + k) PROVE c[i] = "inst"
    <3>1. i - k \in 1 .. Len(e) /\ i - k \in a .. b /\ (i - k) + k = i
      BY <1>2
    <3>2. c[(i - k) + k] = e[i - k]
      BY <1>1, <3>1
    <3> QED
      BY <2>3, <3>1, <3>2
  <2>7. c[(a + k) - 1] = "nop"
    <3>1. a - 1 \in 1 .. Len(e) /\ (a - 1) + k = (a + k) - 1
      BY <1>2, <2>4
    <3>2. c[(a - 1) + k] = e[a - 1]
      BY <1>1, <3>1
    <3> QED
      BY <2>3, <2>4, <3>1, <3>2
  <2>8. b + k = Len(c) \/ c[(b + k) + 1] = "nop"
    <3>1. CASE b = Len(e)
      BY <1>1, <1>2, <3>1
    <3>2. CASE b # Len(e)
      <4>1. b + 1 \in 1 .. Len(e) /\ (b + 1) + k = (b + k) + 1
        BY <1>2, <3>2
      <4>2. c[(b + 1) + k] = e[b + 1]
        BY <1>1, <4>1
      <4> QED
        BY <2>3, <3>2, <4>1, <4>2
    <3> QED
      BY <3>1, <3>2
  <2>9. <<a + k, b + k>> \in Runs(c)
    BY <1>1, <2>5, <2>6, <2>7, <2>8, RunOf
  <2>10. Moved(r, k) = <<a + k, b + k>>
    BY <2>3 DEF Moved
  <2> QED
    BY <2>9, <2>10
<1> QED
  BY <1>3, <1>4

(* Two moved runs are the same only if they were. *)
LEMMA MovedApart ==
    ASSUME NEW g \in Seq(Byte), NEW k \in Nat, NEW q \in Runs(g), NEW r \in Runs(g),
           Moved(q, k) = Moved(r, k)
    PROVE  q = r
<1>1. PICK b \in 1 .. Len(g) : b = q[2]
  BY RunIs
<1>2. PICK c \in 1 .. Len(g) : c = r[2]
  BY RunIs
<1>3. b + k = c + k
  BY <1>1, <1>2 DEF Moved
<1>4. Len(g) \in Nat
  BY GenomeSizes
<1>5. b = c
  BY <1>3, <1>4
<1> QED
  BY <1>1, <1>2, <1>5, RunsApart

LEMMA RunsFinite ==
    ASSUME NEW g \in Seq(Byte)
    PROVE  IsFiniteSet(Runs(g)) /\ Cardinality(Runs(g)) \in Nat
<1>1. Len(g) \in Nat /\ DOMAIN g = 1 .. Len(g)
  BY GenomeSizes
<1>2. IsFiniteSet(DOMAIN g)
  BY <1>1, FS_Interval
<1>3. IsFiniteSet((DOMAIN g) \X (DOMAIN g))
  BY <1>2, FS_Product
<1>4. Runs(g) \subseteq (DOMAIN g) \X (DOMAIN g)
  BY DEF Runs
<1>5. IsFiniteSet(Runs(g))
  BY <1>3, <1>4, FS_Subset
<1> QED
  BY <1>5, FS_CardinalityType

LEMMA CountIsNat ==
    ASSUME NEW g \in Seq(Byte)
    PROVE  CountSegments(g) \in Nat
BY RunsCounted, RunsFinite

(* Joined there, genomes have as many segments as both together. *)
LEMMA JoinCounts ==
    ASSUME NEW d \in Seq(Byte), NEW e \in Seq(Byte), BeginsAnew(e)
    PROVE  CountSegments(d \o e) = CountSegments(d) + CountSegments(e)
<1> DEFINE c == d \o e
           k == Len(d)
           Behind == {Moved(r, k) : r \in Runs(e)}
           f == [r \in Runs(e) |-> Moved(r, k)]
<1>1. c \in Seq(Byte) /\ k \in Nat /\ Len(e) \in Nat
  BY JoinIs, GenomeSizes
<1>2. Runs(c) = Runs(d) \cup Behind
  <2>1. \A r \in Runs(c) : r \in Runs(d) \/ \E q \in Runs(e) : r = Moved(q, k)
    BY RunOfJoint
  <2>2. /\ \A r \in Runs(d) : r \in Runs(c)
        /\ \A r \in Runs(e) : Moved(r, k) \in Runs(c)
    BY RunsOfJoint
  <2> HIDE DEF c, k
  <2> QED
    BY <2>1, <2>2
<1>3. Runs(d) \cap Behind = {}
  <2> SUFFICES ASSUME NEW r \in Runs(d), NEW q \in Runs(e), r = Moved(q, k) PROVE FALSE
    OBVIOUS
  <2>1. PICK x \in 1 .. k : x = r[2]
    BY RunIs
  <2>2. PICK y \in 1 .. Len(e) : y = q[2]
    BY RunIs
  <2>3. x = y + k
    BY <2>1, <2>2 DEF Moved
  <2> HIDE DEF k
  <2> QED
    BY <1>1, <2>3
<1> HIDE DEF k
<1>4. f \in Bijection(Runs(e), Behind)
  <2>1. f \in [Runs(e) -> Behind] /\ DOMAIN f = Runs(e)
    OBVIOUS
  <2>2. \A q, r \in Runs(e) : f[q] = f[r] => q = r
    BY <1>1, MovedApart
  <2>3. \A x \in Behind : \E r \in Runs(e) : f[r] = x
    OBVIOUS
  <2> HIDE DEF f, Behind
  <2> QED
    BY <2>1, <2>2, <2>3 DEF Bijection, Injection, IsInjective, Surjection
<1>5. IsFiniteSet(Runs(d)) /\ IsFiniteSet(Runs(e))
  BY RunsFinite
<1> HIDE DEF f, Behind
<1>6. ExistsBijection(Runs(e), Behind)
  BY <1>4 DEF ExistsBijection
<1>7. IsFiniteSet(Behind) /\ Cardinality(Behind) = Cardinality(Runs(e))
  BY <1>5, <1>6, FS_Bijection
<1>8. Cardinality(Runs(c)) = Cardinality(Runs(d)) + Cardinality(Behind) - Cardinality(Runs(d) \cap Behind)
  BY <1>2, <1>5, <1>7, FS_Union
<1>9. Cardinality(Runs(d) \cap Behind) = 0
  BY <1>3, FS_EmptySet
<1>10. /\ CountSegments(c) = Cardinality(Runs(c)) /\ CountSegments(d) = Cardinality(Runs(d))
       /\ CountSegments(e) = Cardinality(Runs(e))
  BY <1>1, RunsCounted
<1>11. Cardinality(Runs(d)) \in Nat /\ Cardinality(Runs(e)) \in Nat
  BY RunsFinite
<1>12. CountSegments(c) = CountSegments(d) + CountSegments(e)
  BY <1>7, <1>8, <1>9, <1>10, <1>11
<1> QED
  BY <1>12 DEF c

(* And the bytes of the runs are those of both. *)
LEMMA JoinKeepsRuns ==
    ASSUME NEW d \in Seq(Byte), NEW e \in Seq(Byte), BeginsAnew(e)
    PROVE  RunsOf(d \o e) = RunsOf(d) \cup RunsOf(e)
<1> DEFINE c == d \o e
           k == Len(d)
<1>1. /\ c \in Seq(Byte) /\ k \in Nat /\ Len(e) \in Nat /\ Len(c) = k + Len(e)
      /\ \A i \in 1 .. k : c[i] = d[i]
      /\ \A i \in 1 .. Len(e) : c[i + k] = e[i]
  BY JoinIs, GenomeSizes
<1>2. /\ \A r \in Runs(c) : r \in Runs(d) \/ \E q \in Runs(e) : r = Moved(q, k)
      /\ \A r \in Runs(d) : r \in Runs(c)
      /\ \A r \in Runs(e) : Moved(r, k) \in Runs(c)
  BY RunOfJoint, RunsOfJoint
<1>5. k = Len(d)
  OBVIOUS
<1> HIDE DEF c, k
<1>3. ASSUME NEW r \in Runs(d) PROVE SubSeq(c, r[1], r[2]) = SubSeq(d, r[1], r[2])
  <2>1. PICK a \in 1 .. k : a = r[1]
    BY <1>5, RunIs
  <2>2. PICK b \in 1 .. k : b = r[2]
    BY <1>5, RunIs
  <2>3. a <= b
    BY <2>1, <2>2, RunIs
  <2>4. \A i \in 1 .. (b - a + 1) : a + i - 1 \in 1 .. k
    BY <1>1
  <2>5. /\ SubSeq(c, a, b) \in Seq(Byte) /\ Len(SubSeq(c, a, b)) = b - a + 1
        /\ \A i \in 1 .. (b - a + 1) : SubSeq(c, a, b)[i] = c[a + i - 1]
    <3>1. a \in 1 .. (Len(c) + 1) /\ b \in (a - 1) .. Len(c)
      BY <1>1, <2>3
    <3> QED
      BY <1>1, <2>3, <3>1, SubSeqProperties
  <2>6. /\ SubSeq(d, a, b) \in Seq(Byte) /\ Len(SubSeq(d, a, b)) = b - a + 1
        /\ \A i \in 1 .. (b - a + 1) : SubSeq(d, a, b)[i] = d[a + i - 1]
    <3>1. a \in 1 .. (Len(d) + 1) /\ b \in (a - 1) .. Len(d)
      BY <1>1, <1>5, <2>3
    <3> QED
      BY <1>1, <2>3, <3>1, SubSeqProperties
  <2> DEFINE u == SubSeq(c, a, b)
             v == SubSeq(d, a, b)
  <2>7. u \in Seq(Byte) /\ v \in Seq(Byte) /\ Len(u) = Len(v)
    BY <2>5, <2>6
  <2>8. ASSUME NEW i \in 1 .. Len(u) PROVE u[i] = v[i]
    BY <1>1, <2>4, <2>5, <2>6
  <2> HIDE DEF u, v
  <2>9. u = v
    BY <2>7, <2>8, SeqEqual
  <2> QED
    BY <2>1, <2>2, <2>9 DEF u, v
<1>4. ASSUME NEW r \in Runs(e)
      PROVE  SubSeq(c, Moved(r, k)[1], Moved(r, k)[2]) = SubSeq(e, r[1], r[2])
  <2>1. PICK a \in 1 .. Len(e) : a = r[1]
    BY RunIs
  <2>2. PICK b \in 1 .. Len(e) : b = r[2]
    BY RunIs
  <2>3. a <= b
    BY <2>1, <2>2, RunIs
  <2>4. \A i \in 1 .. (b - a + 1) : a + i - 1 \in 1 .. Len(e) /\ (a + i - 1) + k = (a + k) + i - 1
    BY <1>1
  <2>5. /\ SubSeq(c, a + k, b + k) \in Seq(Byte) /\ Len(SubSeq(c, a + k, b + k)) = b - a + 1
        /\ \A i \in 1 .. (b - a + 1) : SubSeq(c, a + k, b + k)[i] = c[(a + k) + i - 1]
    <3>1. a + k \in 1 .. (Len(c) + 1) /\ b + k \in ((a + k) - 1) .. Len(c)
      BY <1>1, <2>3
    <3>2. a + k <= b + k /\ (b + k) - (a + k) + 1 = b - a + 1
      BY <1>1, <2>3
    <3> QED
      BY <1>1, <3>1, <3>2, SubSeqProperties
  <2>6. /\ SubSeq(e, a, b) \in Seq(Byte) /\ Len(SubSeq(e, a, b)) = b - a + 1
        /\ \A i \in 1 .. (b - a + 1) : SubSeq(e, a, b)[i] = e[a + i - 1]
    <3>1. a \in 1 .. (Len(e) + 1) /\ b \in (a - 1) .. Len(e)
      BY <1>1, <2>3
    <3> QED
      BY <1>1, <2>3, <3>1, SubSeqProperties
  <2> DEFINE u == SubSeq(c, a + k, b + k)
             v == SubSeq(e, a, b)
  <2>7. u \in Seq(Byte) /\ v \in Seq(Byte) /\ Len(u) = Len(v)
    BY <2>5, <2>6
  <2>8. ASSUME NEW i \in 1 .. Len(u) PROVE u[i] = v[i]
    <3>1. i \in 1 .. (b - a + 1)
      BY <2>5
    <3>2. u[i] = c[(a + k) + i - 1] /\ v[i] = e[a + i - 1]
      BY <2>5, <2>6, <3>1
    <3> HIDE DEF u, v
    <3>3. a + i - 1 \in 1 .. Len(e) /\ (a + i - 1) + k = (a + k) + i - 1
      BY <2>4, <3>1
    <3>4. c[(a + i - 1) + k] = e[a + i - 1]
      BY <1>1, <3>3
    <3> QED
      BY <3>2, <3>3, <3>4
  <2> HIDE DEF u, v
  <2>9. u = v
    BY <2>7, <2>8, SeqEqual
  <2>10. Moved(r, k)[1] = a + k /\ Moved(r, k)[2] = b + k
    BY <2>1, <2>2 DEF Moved
  <2> QED
    BY <2>1, <2>2, <2>9, <2>10 DEF u, v
<1>6. ASSUME NEW x \in RunsOf(c) PROVE x \in RunsOf(d) \cup RunsOf(e)
  <2>1. PICK r \in Runs(c) : x = SubSeq(c, r[1], r[2])
    BY DEF RunsOf
  <2>2. CASE r \in Runs(d)
    BY <1>3, <2>1, <2>2 DEF RunsOf
  <2>3. CASE \E q \in Runs(e) : r = Moved(q, k)
    <3>1. PICK q \in Runs(e) : r = Moved(q, k)
      BY <2>3
    <3>2. x = SubSeq(e, q[1], q[2])
      BY <1>4, <2>1, <3>1
    <3> QED
      BY <3>2 DEF RunsOf
  <2> QED
    BY <1>2, <2>2, <2>3
<1>7. ASSUME NEW x \in RunsOf(d) PROVE x \in RunsOf(c)
  <2>1. PICK r \in Runs(d) : x = SubSeq(d, r[1], r[2])
    BY DEF RunsOf
  <2>2. r \in Runs(c) /\ x = SubSeq(c, r[1], r[2])
    BY <1>2, <1>3, <2>1
  <2> QED
    BY <2>2 DEF RunsOf
<1>8. ASSUME NEW x \in RunsOf(e) PROVE x \in RunsOf(c)
  <2>1. PICK r \in Runs(e) : x = SubSeq(e, r[1], r[2])
    BY DEF RunsOf
  <2>2. Moved(r, k) \in Runs(c) /\ x = SubSeq(c, Moved(r, k)[1], Moved(r, k)[2])
    BY <1>2, <1>4, <2>1
  <2> QED
    BY <2>2 DEF RunsOf
<1>9. RunsOf(c) = RunsOf(d) \cup RunsOf(e)
  BY <1>6, <1>7, <1>8
<1> QED
  BY <1>9 DEF c

\* A place at whose right the genome ends or a template begins.
CutPoint(g, k) == k \in 0 .. Len(g) /\ (k # Len(g) => g[k + 1] = "nop")

LEMMA FragBytes ==
    ASSUME NEW g \in Seq(Byte), NEW off \in Nat, NEW siz \in Nat, off + siz <= Len(g)
    PROVE  /\ Frag(g, off, siz) \in Seq(Byte) /\ Len(Frag(g, off, siz)) = siz
           /\ \A i \in 1 .. siz : Frag(g, off, siz)[i] = g[off + i]
<1>1. Len(g) \in Nat /\ DOMAIN g = 1 .. Len(g)
  BY GenomeSizes
<1>2. \A i \in 1 .. siz : off + i \in 1 .. Len(g)
  BY <1>1
<1>3. Frag(g, off, siz) \in Seq(Byte)
  BY <1>1, FragIsGenome
<1>4. DOMAIN Frag(g, off, siz) = 1 .. siz
  BY DEF Frag
<1>5. Len(Frag(g, off, siz)) = siz
  BY <1>3, <1>4
<1>6. \A i \in 1 .. siz : Frag(g, off, siz)[i] = g[off + i]
  BY <1>1, <1>2 DEF Frag
<1> QED
  BY <1>3, <1>5, <1>6

(* A genome is what lies before a place and what lies behind it. *)
LEMMA CutIs ==
    ASSUME NEW g \in Seq(Byte), NEW k \in 0 .. Len(g)
    PROVE  /\ Frag(g, 0, k) \in Seq(Byte) /\ Len(Frag(g, 0, k)) = k
           /\ \A i \in 1 .. k : Frag(g, 0, k)[i] = g[i]
           /\ Frag(g, k, Len(g) - k) \in Seq(Byte) /\ Len(Frag(g, k, Len(g) - k)) = Len(g) - k
           /\ \A i \in 1 .. (Len(g) - k) : Frag(g, k, Len(g) - k)[i] = g[k + i]
           /\ Frag(g, 0, k) \o Frag(g, k, Len(g) - k) = g
<1> DEFINE n == Len(g)
           p == Frag(g, 0, k)
           s == Frag(g, k, n - k)
<1>1. n \in Nat /\ k \in Nat /\ n - k \in Nat /\ k + (n - k) <= n /\ 0 + k <= n /\ 0 \in Nat /\ k <= n
  BY GenomeSizes
<1>2. /\ p \in Seq(Byte) /\ Len(p) = k
      /\ \A i \in 1 .. k : p[i] = g[0 + i]
  BY <1>1, FragBytes
<1>3. /\ s \in Seq(Byte) /\ Len(s) = n - k
      /\ \A i \in 1 .. (n - k) : s[i] = g[k + i]
  BY <1>1, FragBytes
<1>9. n = Len(g)
  OBVIOUS
<1> HIDE DEF p, s, n
<1>4. \A i \in 1 .. k : p[i] = g[i]
  <2>1. \A i \in 1 .. k : 0 + i = i
    BY <1>1
  <2> QED
    BY <1>2, <2>1
<1>5. /\ p \o s \in Seq(Byte) /\ Len(p \o s) = k + (n - k)
      /\ \A i \in 1 .. k : (p \o s)[i] = p[i]
      /\ \A i \in 1 .. (n - k) : (p \o s)[i + k] = s[i]
  <2>1. /\ p \o s \in Seq(Byte) /\ Len(p \o s) = Len(p) + Len(s)
        /\ \A i \in 1 .. Len(p) : (p \o s)[i] = p[i]
        /\ \A i \in 1 .. Len(s) : (p \o s)[i + Len(p)] = s[i]
    BY <1>2, <1>3, JoinIs
  <2>2. Len(p) = k /\ Len(s) = n - k
    BY <1>2, <1>3
  <2> QED
    BY <2>1, <2>2
<1> DEFINE w == p \o s
<1>6. w \in Seq(Byte) /\ Len(w) = n
  BY <1>1, <1>5
<1>7. ASSUME NEW i \in 1 .. n PROVE w[i] = g[i]
  <2>1. CASE i <= k
    <3>1. i \in 1 .. k
      BY <1>1, <2>1
    <3> QED
      BY <1>4, <1>5, <3>1
  <2>2. CASE ~ (i <= k)
    <3>1. i - k \in 1 .. (n - k) /\ (i - k) + k = i /\ k + (i - k) = i
      BY <1>1, <2>2
    <3>2. w[(i - k) + k] = s[i - k] /\ s[i - k] = g[k + (i - k)]
      BY <1>3, <1>5, <3>1
    <3> HIDE DEF w
    <3> QED
      BY <3>1, <3>2
  <2> QED
    BY <2>1, <2>2
<1> HIDE DEF w
<1>8. w = g
  BY <1>6, <1>7, <1>9, SeqEqual
<1> QED
  BY <1>2, <1>3, <1>4, <1>8, <1>9 DEF p, s, n, w

(* Cut at such a place, both parts have the genome's runs and none besides. *)
LEMMA CutKeepsRuns ==
    ASSUME NEW g \in Seq(Byte), NEW k, CutPoint(g, k)
    PROVE  /\ Frag(g, 0, k) \in Seq(Byte) /\ Frag(g, k, Len(g) - k) \in Seq(Byte)
           /\ BeginsAnew(Frag(g, k, Len(g) - k))
           /\ RunsOf(Frag(g, 0, k)) \subseteq RunsOf(g)
           /\ RunsOf(Frag(g, k, Len(g) - k)) \subseteq RunsOf(g)
           /\ CountSegments(g) = CountSegments(Frag(g, 0, k)) + CountSegments(Frag(g, k, Len(g) - k))
<1> DEFINE p == Frag(g, 0, k)
           s == Frag(g, k, Len(g) - k)
<1>1. k \in 0 .. Len(g) /\ Len(g) \in Nat
  BY GenomeSizes DEF CutPoint
<1>2. /\ p \in Seq(Byte) /\ s \in Seq(Byte) /\ Len(s) = Len(g) - k
      /\ \A i \in 1 .. (Len(g) - k) : s[i] = g[k + i]
      /\ p \o s = g
  BY <1>1, CutIs
<1> HIDE DEF p, s
<1>3. BeginsAnew(s)
  <2> SUFFICES ASSUME s # <<>> PROVE s[1] = "nop"
    BY DEF BeginsAnew
  <2>1. Len(s) # 0
    BY <1>2
  <2>2. 1 \in 1 .. (Len(g) - k) /\ k # Len(g)
    BY <1>1, <1>2, <2>1
  <2> QED
    BY <1>2, <2>2 DEF CutPoint
<1>4. RunsOf(p \o s) = RunsOf(p) \cup RunsOf(s)
  BY <1>2, <1>3, JoinKeepsRuns
<1>5. CountSegments(p \o s) = CountSegments(p) + CountSegments(s)
  BY <1>2, <1>3, JoinCounts
<1> QED
  BY <1>2, <1>3, <1>4, <1>5 DEF p, s

(* Segments end, and begin, where a genome may be cut. *)
LEMMA EndIsCut ==
    ASSUME NEW g \in Seq(Byte), NEW n \in Nat \ {0}
    PROVE  CutPoint(g, EndOf(g, n))
<1>1. Len(g) \in Nat /\ CountSegments(g) \in Nat /\ EndOf(g, n) \in 0 .. Len(g)
  BY GenomeSizes, CountIsNat, EndInGenome
<1>2. CASE n <= CountSegments(g)
  <2>1. n \in 1 .. CountSegments(g)
    BY <1>1, <1>2
  <2>2. EndOf(g, n) = Len(g) \/ g[EndOf(g, n) + 1] = "nop"
    BY <2>1, EndOfIs
  <2> QED
    BY <1>1, <2>2 DEF CutPoint
<1>3. CASE ~ (n <= CountSegments(g))
  <2> DEFINE ends == {i \in 1 .. Len(g) : Scan(g)[i].num = n}
  <2>1. ends = {}
    <3> SUFFICES ASSUME NEW i \in ends PROVE FALSE
      OBVIOUS
    <3>1. i \in 1 .. Len(g) /\ Scan(g)[i].num = n
      OBVIOUS
    <3>2. i \in 0 .. Len(g) /\ i \in Nat /\ Len(g) \in 0 .. Len(g)
      BY <1>1, <3>1
    <3>3. Num(g, i) = n
      BY <3>1, <3>2, ScanCounts
    <3>4. Num(g, i) <= Num(g, Len(g)) /\ Num(g, Len(g)) \in Nat
      BY <1>1, <3>2, NumMonotone, EndsFinite
    <3>5. Num(g, Len(g)) <= CountSegments(g)
      <4>1. CountSegments(g) = Num(g, Len(g)) \/ CountSegments(g) = Num(g, Len(g)) + 1
        BY <3>4, CountIs
      <4> QED
        BY <3>4, <4>1
    <3> QED
      BY <1>1, <1>3, <3>3, <3>4, <3>5
  <2>2. EndOf(g, n) = Len(g)
    BY <2>1 DEF EndOf
  <2> QED
    BY <1>1, <2>2 DEF CutPoint
<1> QED
  BY <1>2, <1>3

LEMMA StartIsCut ==
    ASSUME NEW g \in Seq(Byte), g[1] = "nop", NEW n \in Nat \ {0}
    PROVE  CutPoint(g, FindStartSegN(g, n))
<1>1. Len(g) \in Nat
  BY GenomeSizes
<1>2. CASE n = 1
  <2>1. FindStartSegN(g, n) = 0
    BY <1>2 DEF FindStartSegN
  <2>2. 0 + 1 = 1
    OBVIOUS
  <2> QED
    BY <1>1, <2>1, <2>2 DEF CutPoint
<1>3. CASE n # 1
  <2>1. n - 1 \in Nat \ {0}
    BY <1>3
  <2>2. FindStartSegN(g, n) = EndOf(g, n - 1)
    BY <1>3 DEF FindStartSegN
  <2> QED
    BY <2>1, <2>2, EndIsCut
<1> QED
  BY <1>2, <1>3

(* Before the end of the n-th segment lie n. *)
LEMMA PrefixCounts ==
    ASSUME NEW g \in Seq(Byte), NEW n \in 1 .. CountSegments(g)
    PROVE  CountSegments(Frag(g, 0, EndOf(g, n))) = n
<1> DEFINE k == EndOf(g, n)
           p == Frag(g, 0, k)
<1>1. k \in 1 .. Len(g) /\ g[k] = "inst" /\ Num(g, k) = n - 1
  BY EndOfIs
<1>2. Len(g) \in Nat /\ CountSegments(g) \in Nat
  BY GenomeSizes, CountIsNat
<1>8. n \in Nat /\ n >= 1
  BY <1>2
<1> HIDE DEF k
<1>3. k \in 0 .. Len(g) /\ k \in 1 .. k /\ k \in Nat
  BY <1>1, <1>2
<1>4. /\ p \in Seq(Byte) /\ Len(p) = k
      /\ \A i \in 1 .. k : p[i] = g[i]
  BY <1>3, CutIs
<1> HIDE DEF p
<1>5. Ends(p, k) = Ends(g, k)
  <2>1. \A i \in 2 .. k : i \in 1 .. k /\ i - 1 \in 1 .. k
    BY <1>3
  <2> QED
    BY <1>4, <2>1 DEF Ends
<1>6. Num(p, k) = n - 1
  BY <1>1, <1>5 DEF Num
<1>7. p # <<>> /\ p[Len(p)] # "nop"
  <2>1. p # <<>>
    BY <1>1, <1>3, <1>4
  <2>2. p[k] = "inst"
    BY <1>1, <1>3, <1>4
  <2> QED
    BY <1>4, <2>1, <2>2
<1>9. CountSegments(p) = (n - 1) + 1
  BY <1>4, <1>6, <1>7, CountIs
<1>10. CountSegments(p) = n
  BY <1>8, <1>9
<1> QED
  BY <1>10 DEF p, k

LEMMA SharedIs ==
    ASSUME OpsInv, NEW d \in Seq(Byte), NEW stops, SharedGenOps(d, stops), before' = before
    PROVE  genome' = d \/ genome' = genome
<1>1. CASE Commit(d)
  BY <1>1, CommitKeeps DEF OpsInv
<1>2. CASE UNCHANGED genome
  BY <1>2
<1> QED
  BY <1>1, <1>2 DEF SharedGenOps

\* Every genome an operator works on begins with a template.
TemplatesFirst == \A g \in Mates \cup {genome} : g[1] = "nop"

LEMMA CrossoverMovesWhole ==
    ASSUME OpsInv, CrossoverSeg, TemplatesFirst
    PROVE  \E m \in Mates : RunsOf(genome') \subseteq RunsOf(genome) \cup RunsOf(m)
<1>1. Doing("CrossoverSeg")
  BY DEF CrossoverSeg
<1>2. genome \in Seq(Byte) /\ before' = before /\ genome[1] = "nop"
  BY <1>1, DoingIs DEF TemplatesFirst
<1>3. PICK m \in Mates, d_cross \in 2 .. CountSegments(genome) :
        \E m_cross \in 2 .. CountSegments(m) :
           LET d_start == FindStartSegN(genome, d_cross)
               m_start == FindStartSegN(m, m_cross)
           IN  SharedGenOps(
                   IF 2 * d_cross > CountSegments(genome)
                   THEN Frag(genome, 0, FindEndSegN(genome, d_cross))
                            \o Frag(m, m_start, Len(m) - m_start)
                   ELSE Frag(m, 0, FindEndSegN(m, m_cross))
                            \o Frag(genome, d_start, Len(genome) - d_start), FALSE)
  BY DEF CrossoverSeg
<1>4. PICK m_cross \in 2 .. CountSegments(m) :
        LET d_start == FindStartSegN(genome, d_cross)
            m_start == FindStartSegN(m, m_cross)
        IN  SharedGenOps(
                IF 2 * d_cross > CountSegments(genome)
                THEN Frag(genome, 0, FindEndSegN(genome, d_cross))
                         \o Frag(m, m_start, Len(m) - m_start)
                ELSE Frag(m, 0, FindEndSegN(m, m_cross))
                         \o Frag(genome, d_start, Len(genome) - d_start), FALSE)
  BY <1>3
<1> DEFINE d_start == FindStartSegN(genome, d_cross)
           m_start == FindStartSegN(m, m_cross)
           d_end   == FindEndSegN(genome, d_cross)
           m_end   == FindEndSegN(m, m_cross)
           d1 == Frag(genome, 0, d_end)
           d2 == Frag(genome, d_start, Len(genome) - d_start)
           m1 == Frag(m, 0, m_end)
           m2 == Frag(m, m_start, Len(m) - m_start)
           d == IF 2 * d_cross > CountSegments(genome) THEN d1 \o m2 ELSE m1 \o d2
<1>5. SharedGenOps(d, FALSE)
  BY <1>4
<1>6. m \in Seq(Byte) /\ m[1] = "nop"
  BY MateIsGenome DEF TemplatesFirst
<1>7. d_cross \in Nat \ {0} /\ m_cross \in Nat \ {0}
  BY <1>2, <1>6, CountIsNat
<1>8. CutPoint(genome, d_end) /\ CutPoint(genome, d_start) /\ CutPoint(m, m_end) /\ CutPoint(m, m_start)
  BY <1>2, <1>6, <1>7, EndIsCut, StartIsCut DEF FindEndSegN
<1> HIDE DEF d_start, m_start, d_end, m_end
<1>9. d1 \in Seq(Byte) /\ RunsOf(d1) \subseteq RunsOf(genome)
  BY <1>2, <1>8, CutKeepsRuns
<1>10. d2 \in Seq(Byte) /\ RunsOf(d2) \subseteq RunsOf(genome) /\ BeginsAnew(d2)
  BY <1>2, <1>8, CutKeepsRuns
<1>11. m1 \in Seq(Byte) /\ RunsOf(m1) \subseteq RunsOf(m)
  BY <1>6, <1>8, CutKeepsRuns
<1>12. m2 \in Seq(Byte) /\ RunsOf(m2) \subseteq RunsOf(m) /\ BeginsAnew(m2)
  BY <1>6, <1>8, CutKeepsRuns
<1> HIDE DEF d1, d2, m1, m2
<1>13. d1 \o m2 \in Seq(Byte) /\ RunsOf(d1 \o m2) = RunsOf(d1) \cup RunsOf(m2)
  BY <1>9, <1>12, JoinKeepsRuns, SpliceIsGenome
<1>14. m1 \o d2 \in Seq(Byte) /\ RunsOf(m1 \o d2) = RunsOf(m1) \cup RunsOf(d2)
  BY <1>10, <1>11, JoinKeepsRuns, SpliceIsGenome
<1>15. d \in Seq(Byte) /\ RunsOf(d) \subseteq RunsOf(genome) \cup RunsOf(m)
  BY <1>9, <1>10, <1>11, <1>12, <1>13, <1>14
<1> HIDE DEF d
<1>16. genome' = d \/ genome' = genome
  BY <1>2, <1>5, <1>15, SharedIs
<1>17. RunsOf(genome') \subseteq RunsOf(genome) \cup RunsOf(m)
  BY <1>15, <1>16
<1> QED
  BY <1>17

\* The chunk of a mate between two places where it may be cut.
LEMMA ChunkKeepsRuns ==
    ASSUME NEW g \in Seq(Byte), NEW from, NEW to, CutPoint(g, from), CutPoint(g, to)
    PROVE  LET chunk == Frag(g, from, to - from)
           IN  chunk \in Seq(Byte) /\ BeginsAnew(chunk) /\ RunsOf(chunk) \subseteq RunsOf(g)
<1> DEFINE chunk == Frag(g, from, to - from)
           p == Frag(g, 0, to)
           c == Frag(p, from, to - from)
<1>1. from \in 0 .. Len(g) /\ to \in 0 .. Len(g) /\ Len(g) \in Nat /\ from \in Nat /\ to \in Nat
  BY GenomeSizes DEF CutPoint
<1>2. CASE from <= to
  <2>1. /\ p \in Seq(Byte) /\ Len(p) = to
        /\ \A i \in 1 .. to : p[i] = g[i]
    BY <1>1, CutIs
  <2>2. RunsOf(p) \subseteq RunsOf(g)
    BY CutKeepsRuns
  <2> HIDE DEF p
  <2>3. CutPoint(p, from)
    <3>1. from \in 0 .. Len(p)
      BY <1>1, <1>2, <2>1
    <3>2. ASSUME from # Len(p) PROVE p[from + 1] = "nop"
      <4>1. from + 1 \in 1 .. to /\ from # Len(g)
        BY <1>1, <1>2, <2>1, <3>2
      <4> QED
        BY <2>1, <4>1 DEF CutPoint
    <3> QED
      BY <3>1, <3>2 DEF CutPoint
  <2>4. c \in Seq(Byte) /\ BeginsAnew(c) /\ RunsOf(c) \subseteq RunsOf(p)
    <3>1. c = Frag(p, from, Len(p) - from)
      BY <2>1
    <3> HIDE DEF c
    <3> QED
      BY <2>1, <2>3, <3>1, CutKeepsRuns
  <2>5. to - from \in Nat /\ from + (to - from) <= Len(g) /\ from + (to - from) <= Len(p)
    BY <1>1, <1>2, <2>1
  <2>6. /\ chunk \in Seq(Byte) /\ Len(chunk) = to - from
        /\ \A i \in 1 .. (to - from) : chunk[i] = g[from + i]
    BY <1>1, <2>5, FragBytes
  <2>7. /\ Len(c) = to - from
        /\ \A i \in 1 .. (to - from) : c[i] = p[from + i]
    BY <1>1, <2>1, <2>5, FragBytes
  <2> HIDE DEF c, chunk
  <2>8. ASSUME NEW i \in 1 .. Len(chunk) PROVE chunk[i] = c[i]
    <3>1. i \in 1 .. (to - from) /\ from + i \in 1 .. to
      BY <1>1, <1>2, <2>6
    <3> QED
      BY <2>1, <2>6, <2>7, <3>1
  <2>9. chunk = c
    BY <2>4, <2>6, <2>7, <2>8, SeqEqual
  <2> QED
    BY <2>2, <2>4, <2>9 DEF chunk
<1>3. CASE ~ (from <= to)
  <2>1. 1 .. (to - from) = {}
    BY <1>1, <1>3
  <2>2. chunk = <<>>
    BY <2>1 DEF Frag
  <2>3. chunk \in Seq(Byte) /\ BeginsAnew(chunk)
    <3>1. <<>> \in Seq(Byte) /\ BeginsAnew(<<>>)
      BY DEF BeginsAnew
    <3> HIDE DEF chunk
    <3> QED
      BY <2>2, <3>1
  <2>4. RunsOf(chunk) = {}
    BY <2>2 DEF RunsOf, Runs
  <2> QED
    BY <2>3, <2>4
<1> QED
  BY <1>2, <1>3

LEMMA InsertionMovesWhole ==
    ASSUME OpsInv, InsertionSeg, TemplatesFirst
    PROVE  \E m \in Mates : RunsOf(genome') \subseteq RunsOf(genome) \cup RunsOf(m)
<1>1. Doing("InsertionSeg")
  BY DEF InsertionSeg
<1>2. genome \in Seq(Byte) /\ before' = before /\ genome[1] = "nop"
  BY <1>1, DoingIs DEF TemplatesFirst
<1>3. PICK m \in Mates, d_cross \in 1 .. (CountSegments(genome) + 1) :
        \E chunk_n \in 1 .. CountSegments(m) : \E chunk_start \in 1 .. (CountSegments(m) - chunk_n + 1) :
           LET from  == FindStartSegN(m, chunk_start)
               chunk == Frag(m, from, FindEndSegN(m, chunk_start + chunk_n) - from)
               at    == CASE d_cross = 1 -> 0
                          [] d_cross = CountSegments(genome) + 1 -> Len(genome)
                          [] OTHER -> FindEndSegN(genome, d_cross)
           IN  SharedGenOps(Frag(genome, 0, at) \o chunk \o Frag(genome, at, Len(genome) - at), TRUE)
  BY DEF InsertionSeg
<1>4. PICK chunk_n \in 1 .. CountSegments(m) : \E chunk_start \in 1 .. (CountSegments(m) - chunk_n + 1) :
         LET from  == FindStartSegN(m, chunk_start)
             chunk == Frag(m, from, FindEndSegN(m, chunk_start + chunk_n) - from)
             at    == CASE d_cross = 1 -> 0
                        [] d_cross = CountSegments(genome) + 1 -> Len(genome)
                        [] OTHER -> FindEndSegN(genome, d_cross)
         IN  SharedGenOps(Frag(genome, 0, at) \o chunk \o Frag(genome, at, Len(genome) - at), TRUE)
  BY <1>3
<1>5. PICK chunk_start \in 1 .. (CountSegments(m) - chunk_n + 1) :
        LET from  == FindStartSegN(m, chunk_start)
            chunk == Frag(m, from, FindEndSegN(m, chunk_start + chunk_n) - from)
            at    == CASE d_cross = 1 -> 0
                       [] d_cross = CountSegments(genome) + 1 -> Len(genome)
                       [] OTHER -> FindEndSegN(genome, d_cross)
        IN  SharedGenOps(Frag(genome, 0, at) \o chunk \o Frag(genome, at, Len(genome) - at), TRUE)
  BY <1>4
<1> DEFINE from  == FindStartSegN(m, chunk_start)
           to    == FindEndSegN(m, chunk_start + chunk_n)
           chunk == Frag(m, from, to - from)
           at    == CASE d_cross = 1 -> 0
                      [] d_cross = CountSegments(genome) + 1 -> Len(genome)
                      [] OTHER -> FindEndSegN(genome, d_cross)
           d1 == Frag(genome, 0, at)
           d2 == Frag(genome, at, Len(genome) - at)
           d == d1 \o chunk \o d2
<1>6. SharedGenOps(d, TRUE)
  BY <1>5
<1>7. m \in Seq(Byte) /\ m[1] = "nop"
  BY MateIsGenome DEF TemplatesFirst
<1>8. /\ d_cross \in Nat \ {0} /\ chunk_start \in Nat \ {0} /\ chunk_start + chunk_n \in Nat \ {0}
      /\ Len(genome) \in Nat
  <2>1. CountSegments(genome) \in Nat /\ CountSegments(m) \in Nat
    BY <1>2, <1>7, CountIsNat
  <2> QED
    BY <1>2, <2>1, GenomeSizes
<1>9. CutPoint(m, from) /\ CutPoint(m, to)
  BY <1>7, <1>8, EndIsCut, StartIsCut DEF FindEndSegN
<1>10. CutPoint(genome, at)
  <2>1. CutPoint(genome, 0)
    <3>1. 0 \in 0 .. Len(genome) /\ 0 + 1 = 1
      BY <1>8
    <3> QED
      BY <1>2, <3>1 DEF CutPoint
  <2>2. CutPoint(genome, Len(genome))
    BY <1>8 DEF CutPoint
  <2>3. CutPoint(genome, FindEndSegN(genome, d_cross))
    BY <1>2, <1>8, EndIsCut DEF FindEndSegN
  <2>4. at = 0 \/ at = Len(genome) \/ at = FindEndSegN(genome, d_cross)
    OBVIOUS
  <2> HIDE DEF at
  <2> QED
    BY <2>1, <2>2, <2>3, <2>4
<1> HIDE DEF from, to, at
<1>11. d1 \in Seq(Byte) /\ RunsOf(d1) \subseteq RunsOf(genome)
  BY <1>2, <1>10, CutKeepsRuns
<1>12. d2 \in Seq(Byte) /\ RunsOf(d2) \subseteq RunsOf(genome) /\ BeginsAnew(d2)
  BY <1>2, <1>10, CutKeepsRuns
<1>13. chunk \in Seq(Byte) /\ BeginsAnew(chunk) /\ RunsOf(chunk) \subseteq RunsOf(m)
  BY <1>7, <1>9, ChunkKeepsRuns
<1> HIDE DEF d1, d2, chunk
<1>14. d1 \o chunk \in Seq(Byte) /\ RunsOf(d1 \o chunk) = RunsOf(d1) \cup RunsOf(chunk)
  BY <1>11, <1>13, JoinKeepsRuns, SpliceIsGenome
<1>15. d \in Seq(Byte) /\ RunsOf(d) = RunsOf(d1 \o chunk) \cup RunsOf(d2)
  BY <1>12, <1>14, JoinKeepsRuns, SpliceIsGenome
<1> HIDE DEF d
<1>16. RunsOf(d) \subseteq RunsOf(genome) \cup RunsOf(m)
  BY <1>11, <1>12, <1>13, <1>14, <1>15
<1>17. genome' = d \/ genome' = genome
  BY <1>2, <1>6, <1>15, SharedIs
<1>18. RunsOf(genome') \subseteq RunsOf(genome) \cup RunsOf(m)
  BY <1>16, <1>17
<1> QED
  BY <1>18

(* What DeleteSegs leaves: n segments less, and no run that was not there. *)
LEMMA DeleteIs ==
    ASSUME NEW g \in Seq(Byte), NEW n \in Nat \ {0}, NEW first \in 1 .. (CountSegments(g) - n + 1)
    PROVE  /\ DeleteSegs(g, first, n) \in Seq(Byte)
           /\ CountSegments(DeleteSegs(g, first, n)) = CountSegments(g) - n
           /\ g[1] = "nop" => RunsOf(DeleteSegs(g, first, n)) \subseteq RunsOf(g)
<1> DEFINE C == CountSegments(g)
           last == first + n - 1
           from == FindStartSegN(g, first)
           to == FindEndSegN(g, last)
           p == Frag(g, 0, from)
           s == Frag(g, to, Len(g) - to)
           d == DeleteSegs(g, first, n)
<1>1. C \in Nat /\ first \in Nat /\ first >= 1 /\ last \in 1 .. C /\ last \in Nat \ {0} /\ last = first + n - 1
  <2>1. C \in Nat
    BY CountIsNat
  <2> HIDE DEF C
  <2>2. first \in 1 .. (C - n + 1)
    BY DEF C
  <2> QED
    BY <2>1, <2>2
<1>2. to = EndOf(g, last) /\ CutPoint(g, to)
  BY <1>1, EndIsCut DEF FindEndSegN
<1>3. CountSegments(Frag(g, 0, to)) = last
  BY <1>1, <1>2, PrefixCounts
<1>4. d = IF first = 1 THEN s ELSE IF first + n > C THEN p ELSE p \o s
  BY DEF DeleteSegs
<1>10. C = CountSegments(g)
  OBVIOUS
<1> HIDE DEF C, last, d
<1>5. /\ s \in Seq(Byte) /\ BeginsAnew(s) /\ RunsOf(s) \subseteq RunsOf(g)
      /\ C = last + CountSegments(s)
  <2> HIDE DEF to
  <2> QED
    BY <1>2, <1>3, <1>10, CutKeepsRuns
<1>6. CountSegments(s) \in Nat
  BY <1>5, CountIsNat
<1> HIDE DEF s
<1>7. ASSUME first # 1
      PROVE  p \in Seq(Byte) /\ RunsOf(p) \subseteq RunsOf(g) /\ CountSegments(p) = first - 1
  <2>1. first - 1 \in 1 .. CountSegments(g) /\ first - 1 \in Nat \ {0}
    BY <1>1, <1>7, <1>10
  <2>2. from = EndOf(g, first - 1)
    BY <1>7 DEF FindStartSegN
  <2>3. CutPoint(g, from)
    BY <2>1, <2>2, EndIsCut
  <2> HIDE DEF from
  <2>4. CountSegments(p) = first - 1
    BY <2>1, <2>2, PrefixCounts
  <2> QED
    BY <2>3, <2>4, CutKeepsRuns
<1> HIDE DEF p
<1>8. ASSUME first # 1
      PROVE  /\ p \o s \in Seq(Byte) /\ RunsOf(p \o s) = RunsOf(p) \cup RunsOf(s)
             /\ CountSegments(p \o s) = CountSegments(p) + CountSegments(s)
  BY <1>5, <1>7, <1>8, JoinKeepsRuns, JoinCounts, SpliceIsGenome
<1>9. d \in Seq(Byte) /\ CountSegments(d) = C - n /\ RunsOf(d) \subseteq RunsOf(g)
  <2>1. CASE first = 1
    <3>1. d = s /\ last = n
      BY <1>1, <1>4, <2>1
    <3> QED
      BY <1>1, <1>5, <1>6, <3>1
  <2>2. CASE first # 1 /\ first + n > C
    <3>1. d = p /\ first - 1 = C - n
      BY <1>1, <1>4, <2>2
    <3> QED
      BY <1>7, <2>2, <3>1
  <2>3. CASE first # 1 /\ ~ (first + n > C)
    <3>1. d = p \o s
      BY <1>4, <2>3
    <3>2. /\ CountSegments(d) = (first - 1) + CountSegments(s)
          /\ d \in Seq(Byte) /\ RunsOf(d) \subseteq RunsOf(g)
      BY <1>5, <1>7, <1>8, <2>3, <3>1
    <3>3. (first - 1) + CountSegments(s) = C - n
      BY <1>1, <1>5, <1>6
    <3> QED
      BY <3>2, <3>3
  <2> QED
    BY <2>1, <2>2, <2>3
<1> QED
  BY <1>9, <1>10 DEF d

LEMMA DeletionMovesWhole ==
    ASSUME OpsInv, DeletionSeg
    PROVE  /\ genome[1] = "nop" => RunsOf(genome') \subseteq RunsOf(genome)
           /\ genome' # genome =>
                LET n == CountSegments(genome)
                IN  CountSegments(genome') \in (n - AtLeastOne(n \div 2)) .. (n - 1)
<1>1. Doing("DeletionSeg")
  BY DEF DeletionSeg
<1>2. genome \in Seq(Byte) /\ before' = before
  BY <1>1, DoingIs
<1> DEFINE C == CountSegments(genome)
           half == AtLeastOne(C \div 2)
<1>3. C \in Nat /\ half \in Nat
  <2>1. C \in Nat
    BY <1>2, CountIsNat
  <2> HIDE DEF C
  <2>2. C \div 2 \in Nat
    BY <2>1
  <2> QED
    BY <2>1, <2>2 DEF AtLeastOne
<1>4. PICK n \in 1 .. half : \E first \in 1 .. (CountSegments(genome) - n + 1) :
        SharedGenOps(DeleteSegs(genome, first, n), TRUE)
  BY DEF DeletionSeg
<1>5. PICK first \in 1 .. (CountSegments(genome) - n + 1) :
        SharedGenOps(DeleteSegs(genome, first, n), TRUE)
  BY <1>4
<1>6. n \in Nat \ {0} /\ n <= half
  <2> HIDE DEF half
  <2> QED
    BY <1>3
<1> DEFINE d == DeleteSegs(genome, first, n)
<1>7. /\ d \in Seq(Byte) /\ CountSegments(d) = C - n
      /\ genome[1] = "nop" => RunsOf(d) \subseteq RunsOf(genome)
  BY <1>2, <1>6, DeleteIs
<1>8. SharedGenOps(d, TRUE)
  BY <1>5
<1> HIDE DEF d
<1>9. genome' = d \/ genome' = genome
  BY <1>2, <1>7, <1>8, SharedIs
<1>10. C - n \in (C - half) .. (C - 1)
  <2> HIDE DEF C, half
  <2> QED
    BY <1>3, <1>6
<1>11. genome' # genome => CountSegments(genome') \in (C - half) .. (C - 1)
  <2> HIDE DEF C, half
  <2> QED
    BY <1>7, <1>9, <1>10
<1> QED
  BY <1>7, <1>9, <1>11

\* What SegmentsMoveWhole asks of a step.
MovesWhole ==
    /\ op >= 6 /\ (\A g \in Mates \cup {genome} : g[1] = "nop") =>
          \A run \in RunsOf(genome') : \E g \in Mates \cup {genome} : run \in RunsOf(g)
    /\ op = 8 /\ genome' # genome =>
          LET n == CountSegments(genome)
          IN  CountSegments(genome') \in (n - AtLeastOne(n \div 2)) .. (n - 1)

LEMMA RestMovesNothing ==
    ASSUME genome' = genome
    PROVE  MovesWhole
BY DEF MovesWhole

LEMMA TurnOf ==
    ASSUME OpsInv, NEW task, Doing(task)
    PROVE  op \in 1 .. 8 /\ Ops[op] = task
<1>1. op \in 1 .. 8
  BY DEF OpsInv, GTypeOK, Doing, Ops
<1> QED
  BY <1>1 DEF Doing

LEMMA StepMovesWhole == OpsInv /\ [GNext]_gvars => MovesWhole
<1> SUFFICES ASSUME OpsInv, [GNext]_gvars PROVE MovesWhole
  OBVIOUS
<1>1. CASE MutationOps \/ CrossoverInstSamSiz \/ CrossoverInst \/ InsertionInst \/ DeletionInst
  <2>1. PICK task \in {"MutationOps", "CrossoverInstSamSiz", "CrossoverInst", "InsertionInst",
                       "DeletionInst"} : Doing(task)
    BY <1>1 DEF MutationOps, CrossoverInstSamSiz, CrossoverInst, InsertionInst, DeletionInst
  <2>2. op \in 1 .. 8 /\ Ops[op] = task
    BY <2>1, TurnOf
  <2>3. Ops[6] = "CrossoverSeg" /\ Ops[7] = "InsertionSeg" /\ Ops[8] = "DeletionSeg"
    BY DEF Ops
  <2>4. op \in 1 .. 5
    BY <2>2, <2>3
  <2> QED
    BY <2>4 DEF MovesWhole
<1>2. CASE CrossoverSeg
  <2>1. Doing("CrossoverSeg")
    BY <1>2 DEF CrossoverSeg
  <2>2. op \in 1 .. 8 /\ Ops[op] = "CrossoverSeg"
    BY <2>1, TurnOf
  <2>3. op # 8
    BY <2>2 DEF Ops
  <2>4. TemplatesFirst => \E m \in Mates : RunsOf(genome') \subseteq RunsOf(genome) \cup RunsOf(m)
    BY <1>2, CrossoverMovesWhole
  <2> QED
    BY <2>3, <2>4 DEF MovesWhole, TemplatesFirst
<1>3. CASE InsertionSeg
  <2>1. Doing("InsertionSeg")
    BY <1>3 DEF InsertionSeg
  <2>2. op \in 1 .. 8 /\ Ops[op] = "InsertionSeg"
    BY <2>1, TurnOf
  <2>3. op # 8
    BY <2>2 DEF Ops
  <2>4. TemplatesFirst => \E m \in Mates : RunsOf(genome') \subseteq RunsOf(genome) \cup RunsOf(m)
    BY <1>3, InsertionMovesWhole
  <2> QED
    BY <2>3, <2>4 DEF MovesWhole, TemplatesFirst
<1>4. CASE DeletionSeg
  <2>1. /\ genome[1] = "nop" => RunsOf(genome') \subseteq RunsOf(genome)
        /\ genome' # genome =>
             LET n == CountSegments(genome)
             IN  CountSegments(genome') \in (n - AtLeastOne(n \div 2)) .. (n - 1)
    BY <1>4, DeletionMovesWhole
  <2> QED
    BY <2>1 DEF MovesWhole
<1>5. CASE NextOp \/ Divided \/ UNCHANGED gvars
  <2>1. genome' = genome
    BY <1>5 DEF NextOp, Divided, gvars
  <2> QED
    BY <2>1, RestMovesNothing
<1> QED
  BY <1>1, <1>2, <1>3, <1>4, <1>5 DEF GNext

(* From the sixth operator on, runs of instructions are moved whole, if every *)
(* genome has a template in front; and a deletion takes at least one segment  *)
(* and at most half of them, whatever stands in front.                        *)
THEOREM SegmentsAreMovedWhole == GSpec => SegmentsMoveWhole
<1>1. OpsInv /\ [GNext]_gvars => [MovesWhole]_gvars
  BY StepMovesWhole
<1>2. SegmentsMoveWhole <=> [][MovesWhole]_gvars
  BY DEF SegmentsMoveWhole, MovesWhole
<1> QED
  BY <1>1, <1>2, OpsInvHolds, PTL DEF GSpec

=============================================================================

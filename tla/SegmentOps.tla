---------------------------- MODULE SegmentOps ----------------------------
(***************************************************************************)
(* What divide does to the daughter's genome before it becomes a cell: the *)
(* point mutations of services/mutate.py and the seven operators of        *)
(* services/mutate_segment.py, in the order of genetic_ops.                *)
(*                                                                         *)
(* A byte is a nop or another instruction; nothing here tells more apart.  *)
(* A genome is the sequence of the bytes of its window in memory, and a    *)
(* fragment is taken by offset and size as the code does, so an offset     *)
(* past the window yields bytes that are neither.                          *)
(***************************************************************************)
EXTENDS Integers, Sequences, FiniteSets

CONSTANTS
    MotherSize,                    \* mm_s
    MinCellSize, MinGenMemSiz, MaxMalMult,
    ThrNum, ThrDen,                \* MovPropThrDiv = ThrNum / ThrDen
    MateSizeEp,
    Mates,                         \* genomes of the living cells a mate is drawn from
    Margins                        \* bytes of the daughter memory before and after the genome

Byte == {"nop", "inst"}

ASSUME SegmentAssumption ==
    /\ MotherSize \in Nat \ {0} /\ MaxMalMult \in Nat \ {0}
    /\ MinCellSize \in Nat \ {0} /\ MinGenMemSiz \in Nat \ {0}
    /\ ThrNum \in Nat /\ ThrDen \in Nat \ {0} /\ ThrNum <= ThrDen
    /\ MateSizeEp \in Nat /\ Margins \subseteq Nat
    /\ \A m \in Mates : m \in Seq(Byte) /\ m # <<>>

Ops == <<"MutationOps", "CrossoverInstSamSiz", "CrossoverInst", "InsertionInst",
         "DeletionInst", "CrossoverSeg", "InsertionSeg", "DeletionSeg">>

VARIABLES
    op,                \* the operator in progress, an index into Ops, or past its end
    genome,            \* the bytes from MovOffMin to MovOffMax of the daughter
    before, after,     \* the daughter memory's bytes below and above them
    changed            \* div_mutated or seg_changed

gvars == <<op, genome, before, after, changed>>

---------------------------------------------------------------------------
(* The scan all three segment functions share: after i bytes, whether the last *)
(* one was template, and how many segments have ended.                         *)
Scan(g) ==
    LET s[i \in 0 .. Len(g)] ==
            IF i = 0 THEN [templ |-> TRUE, num |-> 0]
            ELSE [templ |-> g[i] = "nop",
                  num   |-> s[i - 1].num + IF g[i] = "nop" /\ ~ s[i - 1].templ THEN 1 ELSE 0]
    IN  s

\* Mutant: a last segment without a template behind it is not counted.
CountTerminated(g) == Scan(g)[Len(g)].num

CountSegments(g) ==
    Scan(g)[Len(g)].num + IF g # <<>> /\ g[Len(g)] # "nop" THEN 1 ELSE 0

\* The offset at which the n-th segment has ended, or the genome's size.
EndOf(g, n) ==
    LET ends == {i \in 1 .. Len(g) : Scan(g)[i].num = n}
    IN  IF ends = {} THEN Len(g) ELSE (CHOOSE i \in ends : \A j \in ends : i <= j) - 1

FindStartSegN(g, n) == IF n = 1 THEN 0 ELSE EndOf(g, n - 1)

\* Mutant: the segment ends at the first byte of the next but one.
FindEndLate(g, n) == IF EndOf(g, n) < Len(g) THEN EndOf(g, n) + 2 ELSE Len(g)

FindEndSegN(g, n) == EndOf(g, n)

---------------------------------------------------------------------------
Frag(g, off, siz) == [i \in 1 .. siz |-> IF off + i \in DOMAIN g THEN g[off + i] ELSE "foreign"]

DaughterSize == before + Len(genome) + after          \* md_s
OData        == DaughterSize - Len(genome)
Thresh(n)    == (n * ThrNum) \div ThrDen

\* Mutant: the length of the genome is not tested against the threshold.
AcceptableShort(daught) ==
    LET n_cell == Len(daught) + OData
    IN  /\ n_cell <= MaxMalMult * MotherSize
        /\ n_cell >= MinCellSize
        /\ Len(daught) >= MinGenMemSiz

\* The tests of shared_gen_ops.
Acceptable(daught) ==
    LET n_cell == Len(daught) + OData
    IN  /\ n_cell <= MaxMalMult * MotherSize
        /\ n_cell >= MinCellSize
        /\ Len(daught) >= MinGenMemSiz
        /\ Len(daught) >= Thresh(n_cell)

\* Mutant: the room for the genome is what lies above the old one's end.
CommitTruncates(daught) ==
    LET n_cell == Len(daught) + OData
        n_copy == IF Len(daught) < n_cell - before - after THEN Len(daught)
                  ELSE n_cell - before - after - 1
    IN  /\ genome' = SubSeq(daught, 1, n_copy)
        /\ after' = n_cell - before - n_copy
        /\ changed' = TRUE

\* The assembled genome takes the window's place, in memory of its size.
Commit(daught) ==
    LET n_cell == Len(daught) + OData
        space  == n_cell - before
        n_copy == IF Len(daught) < space THEN Len(daught) ELSE space
    IN  /\ genome' = SubSeq(daught, 1, n_copy)
        /\ after' = n_cell - before - n_copy
        /\ changed' = TRUE

\* shared_gen_ops declines: the genome is not acceptable, or has another length
\* and no memory is found for it.
Declined(daught) == ~ Acceptable(daught) \/ Len(daught) # Len(genome)

\* An operator that stops at the first decline, and one that draws again.
SharedGenOps(daught, stops) ==
    \/ Acceptable(daught) /\ Commit(daught) /\ UNCHANGED op
    \/ Declined(daught) /\ stops /\ op' = op + 1 /\ UNCHANGED <<genome, after, changed>>

Doing(name) == op <= Len(Ops) /\ Ops[op] = name /\ UNCHANGED before

---------------------------------------------------------------------------
GInit ==
    /\ op = 1
    /\ genome \in UNION {[1 .. n -> Byte] : n \in MinGenMemSiz .. MaxMalMult * MotherSize}
    /\ before \in Margins /\ after \in Margins
    /\ DaughterSize >= MinCellSize /\ Len(genome) >= Thresh(DaughterSize)
    /\ DaughterSize <= MaxMalMult * MotherSize
    /\ changed = FALSE

\* The draw against the rate fails, or a test of the operator returns from it.
NextOp ==
    /\ op <= Len(Ops)
    /\ op' = op + 1
    /\ UNCHANGED <<genome, before, after, changed>>

MutationOps ==
    /\ Doing("MutationOps")
    /\ \E i \in DOMAIN genome, b \in Byte : genome' = [genome EXCEPT ![i] = b]
    /\ changed' = TRUE
    /\ UNCHANGED <<op, after>>

\* Equal-sized crossover overwrites one end of the daughter with the mate's.
CrossoverInstSamSiz ==
    /\ Doing("CrossoverInstSamSiz") /\ Len(genome) >= 2
    /\ \E m \in {m \in Mates : Len(m) \in (Len(genome) - MateSizeEp) .. (Len(genome) + MateSizeEp)} :
          LET siz == IF Len(genome) <= Len(m) THEN Len(genome) ELSE Len(m)
          IN  \E cross \in 1 .. (siz - 1) :
                 genome' = [i \in DOMAIN genome |->
                     IF (IF 2 * cross > Len(genome) THEN i > cross /\ i <= siz ELSE i <= cross)
                     THEN m[i] ELSE genome[i]]
    /\ changed' = TRUE
    /\ UNCHANGED <<op, after>>

CrossoverInst ==
    /\ Doing("CrossoverInst") /\ Len(genome) >= 2
    /\ \E m \in Mates, d_cross \in 1 .. (Len(genome) - 1) :
          \E m_cross \in 1 .. (Len(m) - 1) :
             SharedGenOps(
                 IF 2 * d_cross > Len(genome)
                 THEN Frag(genome, 0, d_cross) \o Frag(m, m_cross, Len(m) - m_cross)
                 ELSE Frag(m, 0, m_cross) \o Frag(genome, d_cross, Len(genome) - d_cross), TRUE)

InsertionInst ==
    /\ Doing("InsertionInst")
    /\ \E m \in Mates, ins_off \in 0 .. Len(genome) : \E chunk \in 1 .. Len(m) :
          \E from \in 0 .. (Len(m) - chunk) :
             SharedGenOps(Frag(genome, 0, ins_off) \o Frag(m, from, chunk)
                              \o Frag(genome, ins_off, Len(genome) - ins_off), TRUE)

AtLeastOne(n) == IF n < 1 THEN 1 ELSE n

DeletionInst ==
    /\ Doing("DeletionInst") /\ Len(genome) >= 2
    /\ \E del_siz \in 1 .. AtLeastOne(Len(genome) \div 2) :
          \E del_off \in 0 .. (Len(genome) - del_siz) :
             SharedGenOps(Frag(genome, 0, del_off)
                              \o Frag(genome, del_off + del_siz, Len(genome) - (del_off + del_siz)),
                          FALSE)

\* Mutant: the mate's part begins behind its template.
CrossoverSegDropsTemplate ==
    /\ Doing("CrossoverSeg") /\ CountSegments(genome) >= 2
    /\ \E m \in Mates, d_cross \in 2 .. CountSegments(genome) :
          \E m_cross \in 2 .. CountSegments(m) :
             LET m_start == FindStartSegN(m, m_cross) + 1
             IN  SharedGenOps(Frag(genome, 0, FindEndSegN(genome, d_cross))
                                  \o Frag(m, m_start, Len(m) - m_start), FALSE)

CrossoverSeg ==
    /\ Doing("CrossoverSeg") /\ CountSegments(genome) >= 2
    /\ \E m \in Mates, d_cross \in 2 .. CountSegments(genome) :
          \E m_cross \in 2 .. CountSegments(m) :
             LET d_start == FindStartSegN(genome, d_cross)
                 m_start == FindStartSegN(m, m_cross)
             IN  SharedGenOps(
                     IF 2 * d_cross > CountSegments(genome)
                     THEN Frag(genome, 0, FindEndSegN(genome, d_cross))
                              \o Frag(m, m_start, Len(m) - m_start)
                     ELSE Frag(m, 0, FindEndSegN(m, m_cross))
                              \o Frag(genome, d_start, Len(genome) - d_start), FALSE)

\* The chunk runs to the end of the segment after its last one.
InsertionSeg ==
    /\ Doing("InsertionSeg") /\ CountSegments(genome) > 0
    /\ \E m \in Mates, d_cross \in 1 .. (CountSegments(genome) + 1) :
          \E chunk_n \in 1 .. CountSegments(m) : \E chunk_start \in 1 .. (CountSegments(m) - chunk_n + 1) :
             LET from  == FindStartSegN(m, chunk_start)
                 chunk == Frag(m, from, FindEndSegN(m, chunk_start + chunk_n) - from)
                 at    == CASE d_cross = 1 -> 0
                            [] d_cross = CountSegments(genome) + 1 -> Len(genome)
                            [] OTHER -> FindEndSegN(genome, d_cross)
             IN  SharedGenOps(Frag(genome, 0, at) \o chunk \o Frag(genome, at, Len(genome) - at), TRUE)

\* What is left of a genome whose segments first .. first + n - 1 are deleted.
DeleteSegs(g, first, n) ==
    LET from == FindStartSegN(g, first)
        to   == FindEndSegN(g, first + n - 1)
    IN  IF first = 1 THEN Frag(g, to, Len(g) - to)
        ELSE IF first + n > CountSegments(g) THEN Frag(g, 0, from)
        ELSE Frag(g, 0, from) \o Frag(g, to, Len(g) - to)

DeletionSeg ==
    /\ Doing("DeletionSeg") /\ CountSegments(genome) >= 2
    /\ \E n \in 1 .. AtLeastOne(CountSegments(genome) \div 2) :
          \E first \in 1 .. (CountSegments(genome) - n + 1) :
             SharedGenOps(DeleteSegs(genome, first, n), TRUE)

\* genetic_ops returns the daughter to divide.
Divided ==
    /\ op > Len(Ops)
    /\ UNCHANGED gvars

GNext == \/ MutationOps \/ CrossoverInstSamSiz \/ CrossoverInst \/ InsertionInst \/ DeletionInst
         \/ CrossoverSeg \/ InsertionSeg \/ DeletionSeg \/ NextOp \/ Divided

GSpec == GInit /\ [][GNext]_gvars

---------------------------------------------------------------------------
GTypeOK ==
    /\ op \in 1 .. (Len(Ops) + 1)
    /\ genome \in Seq(Byte)       \* no foreign bytes
    /\ before \in Nat /\ after \in Nat
    /\ changed \in BOOLEAN

(* divide tests the daughter before the operators and takes the sizes it has   *)
(* after them: through any series of splices the memory stays within mal's     *)
(* bound, the genome inside the memory, and both above divide's thresholds.    *)
GatesStillHold ==
    /\ DaughterSize >= MinCellSize /\ DaughterSize <= MaxMalMult * MotherSize
    /\ Len(genome) >= MinGenMemSiz
    /\ Len(genome) >= Thresh(DaughterSize)

(* A daughter that differs from what its mother copied is marked dirty, so it  *)
(* never inherits the hash of a genome it does not have.                       *)
ChangedGenomeIsDirty == [][genome' # genome \/ changed => changed']_gvars

(* The segment operators count what a reader counts: runs of instructions, each *)
(* with the template before it; the scan of the code agrees on every genome.    *)
Runs(g) == {r \in (DOMAIN g) \X (DOMAIN g) :
               /\ r[1] <= r[2] /\ \A i \in r[1] .. r[2] : g[i] = "inst"
               /\ r[1] = 1 \/ g[r[1] - 1] = "nop"
               /\ r[2] = Len(g) \/ g[r[2] + 1] = "nop"}
SegmentsAreRuns ==
    /\ CountSegments(genome) = Cardinality(Runs(genome))
    /\ \A n \in 1 .. CountSegments(genome) :
          \E r \in Runs(genome) :
             /\ r[2] = FindEndSegN(genome, n)
             /\ r[1] > FindStartSegN(genome, n)
             /\ \A i \in (FindStartSegN(genome, n) + 1) .. (r[1] - 1) : genome[i] = "nop"

(* The segment operators move whole segments: with a template in front of both *)
(* genomes they never cut a run of instructions or join two, so every run of   *)
(* the new genome is one of the daughter's or of a mate's; and a deletion takes *)
(* at least one segment and at most half of them.                              *)
RunsOf(g) == {SubSeq(g, r[1], r[2]) : r \in Runs(g)}
SegmentsMoveWhole ==
    [][/\ op >= 6 /\ (\A g \in Mates \cup {genome} : g[1] = "nop") =>
             \A run \in RunsOf(genome') : \E g \in Mates \cup {genome} : run \in RunsOf(g)
       /\ op = 8 /\ genome' # genome =>
             LET n == CountSegments(genome)
             IN  CountSegments(genome') \in (n - AtLeastOne(n \div 2)) .. (n - 1)]_gvars

===========================================================================

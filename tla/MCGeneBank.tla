---------------------------- MODULE MCGeneBank ----------------------------
(* Instances of GeneBank: two of the genomes have the same hash; the first    *)
(* inoculum genome has no label in its name, the second has the label that    *)
(* the first is given.                                                        *)
EXTENDS GeneBank

MCHash == [g \in Genomes |-> IF g = 1 THEN 1 ELSE 0]

MCInoculum == <<[label |-> NoLabel, genome |-> 1], [label |-> 0, genome |-> 2]>>

===========================================================================

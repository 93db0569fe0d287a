---------------------------- MODULE MCMessageLog ----------------------------
(***************************************************************************)
(* Messages for TLC: a cell for another cluster in two packets, a cell for *)
(* the neighbour in one, and two pings; the network may copy the first     *)
(* packet of the former once.                                              *)
(***************************************************************************)
EXTENDS MessageLog

CONSTANTS c1, c2, m1, m2, h1, h2

MCCellOf == [m \in {m1, m2} |-> IF m = m1 THEN c1 ELSE c2]

MCPackets == [m \in {m1, m2, h1, h2} |-> IF m = m1 THEN 2 ELSE 1]

MCMaxCopies == [p \in Packet |-> IF p = <<m1, 1>> THEN 1 ELSE 0]

MCGrants == {-1, 1}

=============================================================================

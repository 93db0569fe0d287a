---------------------------- MODULE MCFlawRates ----------------------------
(***************************************************************************)
(* Two slots, cells of one and of three bytes: the average size is 1, 2 or *)
(* 3.  Background and copy mutations are on, flaws may be switched on.     *)
(***************************************************************************)
EXTENDS FlawRates

MCInoculum == [c \in {1} |-> 1]

MCGenPer == {[mut |-> 1, mov |-> 1, flaw |-> 0], [mut |-> 0, mov |-> 0, flaw |-> 1]}

=============================================================================

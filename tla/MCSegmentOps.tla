--------------------------- MODULE MCSegmentOps ---------------------------
(***************************************************************************)
(* Mates for TLC: without and with a template behind the last segment, and *)
(* one too short to cross over with.                                       *)
(***************************************************************************)
EXTENDS SegmentOps

MCMates == {<<"nop", "inst", "nop", "inst">>, <<"nop", "inst", "nop">>, <<"nop">>}

===========================================================================

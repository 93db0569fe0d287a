----------------------------- MODULE CellOrder -----------------------------
(***************************************************************************)
(* What the two queues of cells promise (services/memory/queues.py): the   *)
(* slicer is a ring read from the cell whose turn it is, the reaper a line *)
(* whose head is the oldest cell.  A newcomer takes the last place of      *)
(* both, and a cell that leaves changes nobody else's place.               *)
(***************************************************************************)
EXTENDS Integers, Sequences, FiniteSets

CONSTANT Slots             \* indices into vm.cells

VARIABLES ring,            \* the slicer, from this_slice on
          line             \* the reaper, from top_reap to bottom_reap

vars == <<ring, line>>

Members(s) == {s[i] : i \in DOMAIN s}

\* The sequence without its entry c.
Without(s, c) ==
    LET i == CHOOSE i \in DOMAIN s : s[i] = c
    IN  IF c \in Members(s) THEN [j \in 1 .. (Len(s) - 1) |-> s[IF j < i THEN j ELSE j + 1]]
        ELSE s

Turned(s) == Append(Tail(s), Head(s))

Init == ring = <<>> /\ line = <<>>

Enter(c) ==
    /\ c \notin Members(line)
    /\ ring' = Append(ring, c)
    /\ line' = Append(line, c)

\* Only the oldest cell is ever taken out.
Leave ==
    /\ line # <<>>
    /\ ring' = Without(ring, Head(line))
    /\ line' = Tail(line)

Turn ==
    /\ ring # <<>>
    /\ ring' = Turned(ring)
    /\ UNCHANGED line

Next == (\E c \in Slots : Enter(c)) \/ Leave \/ Turn

Spec == Init /\ [][Next]_vars

FairSpec == Spec /\ WF_vars(Turn)

===========================================================================

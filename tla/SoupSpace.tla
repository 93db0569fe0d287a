----------------------------- MODULE SoupSpace -----------------------------
(***************************************************************************)
(* What an allocator of soup memory promises its callers, with no free     *)
(* list in sight: a region it hands out lies in the soup and touches no    *)
(* region that is still held.                                              *)
(***************************************************************************)
EXTENDS Integers

CONSTANT SoupSize

VARIABLES held, got

vars == <<held, got>>

Region == {r \in [start : 0 .. (SoupSize - 1), size : 1 .. SoupSize] : r.start + r.size <= SoupSize}

Apart(r, s) == r.start + r.size <= s.start \/ s.start + s.size <= r.start

Init == held = {} /\ got = -1

HandOut(r) ==
    /\ \A h \in held : Apart(r, h)
    /\ held' = held \cup {r}
    /\ got' = r.start

Refuse == got' = -1 /\ UNCHANGED held

TakeBack(r) == held' = held \ {r} /\ UNCHANGED got

Next ==
    \/ \E r \in Region : HandOut(r)
    \/ Refuse
    \/ \E r \in held : TakeBack(r)

Spec == Init /\ [][Next]_vars

===========================================================================

--------------------------- MODULE ClusterServer ---------------------------
(***************************************************************************)
(* The cluster server of network Tierra (src/legacy/clstrsrvr, with        *)
(* netfunc.c compiled for CLSTRSRVR): the list IPMap[0] of the Tierra      *)
(* nodes of its cluster and IPMap[1] of the other servers, the totals it   *)
(* keeps of the former, the capacity it shares out among them, and the     *)
(* periodic sweep for nodes that went silent.                              *)
(*                                                                         *)
(* Nodes start, report, leave with a message or crash without one; their   *)
(* messages are lost, doubled and overtaken.  A sweep runs step by step    *)
(* because it changes the list it walks over.                              *)
(***************************************************************************)
EXTENDS Integers, Sequences, FiniteSets, SequencesExt

CONSTANTS
  Node,            \* addresses of Tierra nodes of the cluster
  Peer,            \* addresses of other cluster servers
  Load,            \* what a message says of its sender: Speed and NumCells
  SpdZeroTime, PendReqTime, ClsIPSUpdInt, IntrvlOutBndCap,  \* in ticks
  AutoAddIPMap, AutoRemIPMap,
  Capacity,        \* MaxOutBandWidth * IntrvlOutBndCap, -1 for no limit
  SrvrShare,       \* of it for the server itself (SrvrOutBndFrac)
  MinShare,        \* of it to be shared evenly (TieMinOutBndFrac)
  Junk,            \* a capacity nobody assigned
  Beyond,          \* speeds found in the memory past the list
  MaxLag,          \* ticks by which an update may come late
  Doubled,         \* addresses the map files may name more than once
  MaxFile,         \* bound: lines of a map file
  MaxNet           \* bound: messages in flight

Addr == Node \cup Peer
Kinds == {"addr", "ask", "rep"}
Message == [src : Addr, kind : Kinds, data : Load] \cup [src : Addr, kind : {"bye"}]

ASSUME ServerAssumption ==
  /\ IsFiniteSet(Node) /\ Node \cap Peer = {}
  /\ Load \subseteq [Speed : Nat, NumCells : Nat]
  /\ SpdZeroTime \in Nat /\ PendReqTime \in Nat
  /\ ClsIPSUpdInt \in Nat \ {0} /\ IntrvlOutBndCap \in Nat \ {0}
  /\ AutoAddIPMap \in BOOLEAN /\ AutoRemIPMap \in BOOLEAN
  /\ Capacity \in Nat \cup {-1}
  /\ SrvrShare \in Nat /\ MinShare \in Nat
  /\ Capacity >= 0 => SrvrShare + MinShare <= Capacity
  /\ Junk \notin Int
  /\ Beyond \subseteq Nat /\ Beyond # {}
  /\ MaxLag \in Nat /\ MaxFile \in Nat /\ MaxNet \in Nat

VARIABLES
  IPMap,     \* the two lists, in their order
  Speed, NumCells,  \* the totals over IPMap[0]
  up,        \* the nodes and servers that run
  net,       \* messages in flight
  since,     \* ticks since the last update
  granted,   \* ticks since capacity was last shared out
  phase,     \* where the main loop stands
  which, i, prop,  \* the variables of a sweep
  torn       \* memory past the list was taken for a node

nodeVars == <<up, net>>
listVars == <<IPMap, Speed, NumCells>>
sweepVars == <<which, i, prop, torn>>
vars == <<listVars, nodeVars, since, granted, phase, sweepVars>>

\* The end of time: an age beyond it is all the same.
MaxAge == IF PendReqTime > SpdZeroTime THEN PendReqTime ELSE SpdZeroTime

Which(a) == IF a \in Peer THEN 1 ELSE 0

Entry(a, d, c) ==
  [addr |-> a, Speed |-> d.Speed, NumCells |-> d.NumCells, age |-> 0, cap |-> c]

\* InIPMap: an address is listed, at its first place k.
InIPMap(map, a) == \E k \in DOMAIN map : map[k].addr = a
IsAt(map, a, k) == map[k].addr = a /\ \A j \in 1..(k - 1) : map[j].addr # a

\* The addresses on the n lines of a map file.  Nothing keeps a file from naming
\* one of them on several lines.
Files(S, n) ==
  {s \in [1..n -> S] : \A j, k \in 1..n : s[j] = s[k] => j = k \/ s[j] \in Doubled}

\* GetIPMap adds an entry for every line and makes up its data.
FromFile(s) == [k \in DOMAIN s |-> Entry(s[k], [Speed |-> 200, NumCells |-> 1], 0)]

\* Both maps are read, map_fnC and map_fnS (of which the server's own line is
\* left out, as its own entry is everywhere); it is about to go online.
Init ==
  /\ \E n, l \in 0..MaxFile : \E s \in Files(Node, n), t \in Files(Peer, l) :
       /\ IPMap = [w \in {0, 1} |-> IF w = 0 THEN FromFile(s) ELSE FromFile(t)]
       /\ Speed = 200 * n /\ NumCells = n
  /\ up \in SUBSET Addr /\ net = {}
  /\ since = 0 /\ granted = 0
  /\ phase = "start" /\ which = 0 /\ i = 0 /\ prop = 0
  /\ torn = FALSE

-----------------------------------------------------------------------------
(* The nodes, the other servers and the network. *)

Send(m) == net' = net \cup {m} /\ Cardinality(net') <= MaxNet

\* TieCommOnOffLine: a node that comes up tells the server its address.
Start(a) ==
  /\ a \notin up /\ up' = up \cup {a}
  /\ \E d \in Load : Send([src |-> a, kind |-> "addr", data |-> d])
  /\ UNCHANGED <<listVars, since, granted, phase, sweepVars>>

\* It asks for a reply (a ping, an emigrant), or replies to a ping.
Say(a) ==
  /\ a \in up
  /\ \E d \in Load, k \in {"ask", "rep"} : Send([src |-> a, kind |-> k, data |-> d])
  /\ UNCHANGED <<listVars, up, since, granted, phase, sweepVars>>

Leave(a) ==
  /\ a \in up /\ up' = up \ {a}
  /\ Send([src |-> a, kind |-> "bye"])
  /\ UNCHANGED <<listVars, since, granted, phase, sweepVars>>

Crash(a) ==
  /\ a \in up /\ up' = up \ {a}
  /\ UNCHANGED <<listVars, net, since, granted, phase, sweepVars>>

Lose(m) ==
  /\ m \in net /\ net' = net \ {m}
  /\ UNCHANGED <<listVars, up, since, granted, phase, sweepVars>>

-----------------------------------------------------------------------------
(* The list and its totals. *)

\* AddIPMap.
AddIPMap(w, e) ==
  /\ IPMap' = [IPMap EXCEPT ![w] = Append(@, e)]
  /\ Speed' = IF w = 0 THEN Speed + e.Speed ELSE Speed
  /\ NumCells' = IF w = 0 THEN NumCells + e.NumCells ELSE NumCells

\* RemoveIPMap, for the entry at place k.
RemoveIPMap(w, k) ==
  /\ IPMap' = [IPMap EXCEPT ![w] = RemoveAt(@, k)]
  /\ Speed' = IF w = 0 THEN Speed - IPMap[w][k].Speed ELSE Speed
  /\ NumCells' = IF w = 0 THEN NumCells - IPMap[w][k].NumCells ELSE NumCells

\* Mutant: the cells the node had before are not taken off.
UpdateAddsCells(w, k, d) ==
  /\ IPMap' = [IPMap EXCEPT ![w][k] = Entry(@.addr, d, @.cap)]
  /\ Speed' = IF w = 0 THEN Speed - IPMap[w][k].Speed + d.Speed ELSE Speed
  /\ NumCells' = IF w = 0 THEN NumCells + d.NumCells ELSE NumCells

\* TreatTPingData on a node listed: its data are new, its capacity stays.
Update(w, k, d) ==
  /\ IPMap' = [IPMap EXCEPT ![w][k] = Entry(@.addr, d, @.cap)]
  /\ Speed' = IF w = 0 THEN Speed - IPMap[w][k].Speed + d.Speed ELSE Speed
  /\ NumCells' = IF w = 0 THEN NumCells - IPMap[w][k].NumCells + d.NumCells ELSE NumCells

-----------------------------------------------------------------------------
(* Sharing out capacity. *)

\* Mutant: everybody gets the whole of what is to be shared evenly.
ShareUndivided(e, n, sum) ==
  IF Capacity < 0 THEN -1
  ELSE MinShare + ((Capacity - SrvrShare - MinShare) * e.Speed) \div sum

Share(e, n, sum) ==
  IF Capacity < 0 THEN -1
  ELSE MinShare \div n + ((Capacity - SrvrShare - MinShare) * e.Speed) \div sum

\* Every listed node is given its share, unless the speeds sum up
\* to nothing.
WithShares(map, sum) ==
  IF sum <= 0 THEN map
  ELSE [k \in DOMAIN map |-> [map[k] EXCEPT !.cap = Share(map[k], Len(map), sum)]]

\* SetRemOutBndCap.  A division by the length of an empty list ends the server.
SetRemOutBndCap ==
  IF Capacity >= 0 /\ IPMap[0] = <<>>
  THEN UNCHANGED <<IPMap, granted>> /\ phase' = "crashed"
  ELSE /\ IPMap' = [IPMap EXCEPT ![0] = WithShares(@, Speed)]
       /\ granted' = 0 /\ phase' = "serve"

\* UpdRemOutBndCap, called for every packet sent.
UpdRemOutBndCap(sends) ==
  IF ~sends \/ granted < IntrvlOutBndCap
  THEN UNCHANGED <<IPMap, granted>> /\ phase' = "serve"
  ELSE SetRemOutBndCap

\* TieCommOnOffLine at the start: capacity is shared out before anybody is told.
Online ==
  /\ phase = "start"
  /\ SetRemOutBndCap
  /\ UNCHANGED <<Speed, NumCells, nodeVars, since, sweepVars>>

-----------------------------------------------------------------------------
(* SrvrProcTierraMsg: one message out of the backlog. *)

\* A node is added by TreatTPingData with what its message says, and by
\* Addr_recv from a variable whose capacity was never set.
FirstCap(m) == IF m.kind = "addr" THEN Junk ELSE 0

\* Mutant: a node that gives its address is added whether it is listed or not.
ReportAnew(m) ==
  /\ ~InIPMap(IPMap[Which(m.src)], m.src) \/ m.kind = "addr"
  /\ AutoAddIPMap
  /\ AddIPMap(Which(m.src), Entry(m.src, m.data, FirstCap(m)))

ReportNew(m) ==
  /\ ~InIPMap(IPMap[Which(m.src)], m.src)
  /\ AutoAddIPMap
  /\ AddIPMap(Which(m.src), Entry(m.src, m.data, FirstCap(m)))

ReportKnown(m) ==
  \E k \in DOMAIN IPMap[Which(m.src)] :
    /\ IsAt(IPMap[Which(m.src)], m.src, k)
    /\ Update(Which(m.src), k, m.data)

\* SENDADDR, EMIGRATE, TPINGREQ, TPINGREP: all but the last are answered.
Report(m) ==
  /\ m.kind # "bye"
  /\ ReportNew(m) \/ ReportKnown(m)
  /\ phase' = IF m.kind = "rep" THEN "serve" ELSE "reply"

\* Bye_recv.
Bye(m) ==
  /\ m.kind = "bye"
  /\ AutoRemIPMap
  /\ \E k \in DOMAIN IPMap[Which(m.src)] :
       /\ IsAt(IPMap[Which(m.src)], m.src, k)
       /\ RemoveIPMap(Which(m.src), k)
  /\ UNCHANGED phase

\* A message handled leaves the network, or a copy of it stays.  One that
\* changes nothing here is no different from one that is lost.
Receive(m) ==
  /\ phase = "serve" /\ m \in net
  /\ net' \in {net, net \ {m}}
  /\ Report(m) \/ Bye(m)
  /\ UNCHANGED <<up, since, granted, sweepVars>>

\* TPing_reply, to the sender of the message just handled.
Reply ==
  /\ phase = "reply"
  /\ UpdRemOutBndCap(TRUE)
  /\ UNCHANGED <<Speed, NumCells, nodeVars, since, sweepVars>>

-----------------------------------------------------------------------------
(* The periodic update: CleanIPMap(0), CleanIPMap(1), pings to everybody. *)

\* Mutant: the last node is never looked at.
BeginSweepShort(w) ==
  which' = w /\ i' = 0 /\ prop' = IF IPMap[w] = <<>> THEN 0 ELSE Len(IPMap[w]) - 1

BeginSweep(w) == which' = w /\ i' = 0 /\ prop' = Len(IPMap[w])

BeginUpdate ==
  /\ phase = "serve" /\ since >= ClsIPSUpdInt
  /\ phase' = "sweep" /\ BeginSweep(0)
  /\ UNCHANGED <<listVars, nodeVars, since, granted, torn>>

OutOfContact(e) == PendReqTime # 0 /\ e.age >= PendReqTime
Silent(e) == SpdZeroTime # 0 /\ e.age >= SpdZeroTime

\* The end of the loop's body: i goes on, and starts anew when it is past n.
Advance(n) == i' = IF i + 1 > n THEN 0 ELSE i + 1

\* A node out of contact, of no speed, goes.  Whatever list is swept, it is
\* looked for in IPMap[0].
SweepRemove ==
  /\ i < Len(IPMap[which])
  /\ LET e == IPMap[which][i + 1] IN
       /\ OutOfContact(e) /\ AutoRemIPMap /\ e.Speed = 0
       /\ \E k \in DOMAIN IPMap[0] :
            IsAt(IPMap[0], e.addr, k) /\ RemoveIPMap(0, k)
  /\ prop' = IF prop >= Len(IPMap'[which]) THEN 0 ELSE prop
  /\ i' = IF i >= Len(IPMap'[which]) THEN 0 ELSE i
  /\ UNCHANGED torn

\* One out of contact that still has a speed stays, and so does one that is
\* not found.
SweepKeep ==
  /\ i < Len(IPMap[which])
  /\ LET e == IPMap[which][i + 1] IN
       /\ OutOfContact(e)
       /\ ~AutoRemIPMap \/ e.Speed # 0 \/ ~InIPMap(IPMap[0], e.addr)
  /\ Advance(Len(IPMap[which]))
  /\ UNCHANGED <<listVars, prop, torn>>

\* Mutant: the total keeps the speed that is set to zero.
SweepSilenceOnly ==
  /\ i < Len(IPMap[which])
  /\ LET e == IPMap[which][i + 1] IN ~OutOfContact(e) /\ Silent(e)
  /\ IPMap' = [IPMap EXCEPT ![which][i + 1].Speed = 0]
  /\ Advance(Len(IPMap[which]))
  /\ UNCHANGED <<Speed, NumCells, prop, torn>>

\* A silent node has its speed set to zero.
SweepSilence ==
  /\ i < Len(IPMap[which])
  /\ LET e == IPMap[which][i + 1] IN
       /\ ~OutOfContact(e) /\ Silent(e)
       /\ Speed' = IF which = 0 THEN Speed - e.Speed ELSE Speed
       /\ IPMap' = [IPMap EXCEPT ![which][i + 1].Speed = 0]
  /\ Advance(Len(IPMap[which]))
  /\ UNCHANGED <<NumCells, prop, torn>>

SweepPass ==
  /\ i < Len(IPMap[which])
  /\ LET e == IPMap[which][i + 1] IN ~OutOfContact(e) /\ ~Silent(e)
  /\ Advance(Len(IPMap[which]))
  /\ UNCHANGED <<listVars, prop, torn>>

\* After a removal inside the list the loop runs on to the place behind it and
\* takes what lies there for a silent node.  (Bound: only the first time it finds
\* a speed there.)
SweepBeyond ==
  /\ i = Len(IPMap[which])
  /\ \E s \in Beyond : Speed' = IF which = 0 /\ ~torn THEN Speed - s ELSE Speed
  /\ torn' = TRUE
  /\ Advance(Len(IPMap[which]))
  /\ UNCHANGED <<IPMap, NumCells, prop>>

Sweep ==
  /\ phase = "sweep" /\ i # prop
  /\ SweepRemove \/ SweepKeep \/ SweepSilence \/ SweepPass \/ SweepBeyond
  /\ UNCHANGED <<nodeVars, since, granted, phase, which>>

EndSweep ==
  /\ phase = "sweep" /\ i = prop
  /\ IF which = 0 THEN BeginSweep(1) /\ UNCHANGED phase
                  ELSE phase' = "announce" /\ which' = 0 /\ i' = 0 /\ prop' = 0
  /\ UNCHANGED <<listVars, nodeVars, since, granted, torn>>

\* IPMapTPing_send(0), IPMapTPing_send(1), Map_send(1, 0).
Announce ==
  /\ phase = "announce"
  /\ UpdRemOutBndCap(\E w \in {0, 1} : IPMap[w] # <<>>)
  /\ since' = 0
  /\ UNCHANGED <<Speed, NumCells, nodeVars, sweepVars>>

\* The clock; the main loop comes round before an update is MaxLag ticks late.
Tick ==
  /\ phase = "serve" /\ since < ClsIPSUpdInt + MaxLag
  /\ since' = since + 1
  /\ granted' = IF granted < IntrvlOutBndCap THEN granted + 1 ELSE granted
  /\ IPMap' = [w \in {0, 1} |-> [k \in DOMAIN IPMap[w] |->
                 [IPMap[w][k] EXCEPT !.age = IF @ < MaxAge THEN @ + 1 ELSE @]]]
  /\ UNCHANGED <<Speed, NumCells, nodeVars, phase, sweepVars>>

-----------------------------------------------------------------------------

Next ==
  \/ \E a \in Addr : Start(a) \/ Say(a) \/ Leave(a) \/ Crash(a)
  \/ \E m \in net : Lose(m) \/ Receive(m)
  \/ Online \/ Reply \/ BeginUpdate \/ Sweep \/ EndSweep \/ Announce \/ Tick

Spec == Init /\ [][Next]_vars

\* The server's loop runs on; after every pass over the backlog it looks whether
\* an update is due, however many messages there were, and the clock waits for
\* nobody.
FairSpec ==
  /\ Spec
  /\ WF_vars(Online \/ Reply \/ Sweep \/ EndSweep \/ Announce)
  /\ SF_vars(BeginUpdate) /\ SF_vars(Tick)
-----------------------------------------------------------------------------
(* Properties. *)

\* SumTo(v)[n] is the sum of the first n numbers of v.
SumTo(v) == LET s[n \in Nat] == IF n = 0 THEN 0 ELSE s[n - 1] + v[n] IN s
SumOf(v) == SumTo(v)[Len(v)]

SpeedSum(map) == SumOf([k \in DOMAIN map |-> map[k].Speed])
CellSum(map) == SumOf([k \in DOMAIN map |-> map[k].NumCells])

Entries == [addr : Addr, Speed : Nat, NumCells : Nat, age : 0..MaxAge,
            cap : Int \cup {Junk}]

\* Every variable has its type.
TypeOK ==
  /\ IPMap \in [{0, 1} -> Seq(Entries)]
  /\ Speed \in Int /\ NumCells \in Int
  /\ up \subseteq Addr /\ net \subseteq Message
  /\ since \in Nat /\ granted \in Nat
  /\ phase \in {"start", "serve", "reply", "sweep", "announce", "crashed"}
  /\ which \in {0, 1} /\ i \in Nat /\ prop \in Nat
  /\ torn \in BOOLEAN

\* The number of cells the server reports of its cluster is the sum of what the
\* listed nodes last said, however nodes joined, reported, left or were swept
\* out (AddIPMap, RemoveIPMap and TreatTPingData each add or take a part).
NumCellsIsSum == NumCells = CellSum(IPMap[0])

\* The speed of the cluster is the sum of the listed speeds, a speed set to zero
\* by the sweep being taken off once, as long as no sweep ran past the list.
SpeedIsSum == ~torn => Speed = SpeedSum(IPMap[0])

\* No address is listed twice that a map file did not name twice, so each such
\* node is pinged, counted and given its share once, however its messages are
\* doubled and the sweeps change the list.  (GetIPMap adds every line of a file:
\* an address named on several lines is listed several times.)
OnceListed ==
  \A w \in {0, 1} : \A j, k \in DOMAIN IPMap[w] :
    IPMap[w][j].addr = IPMap[w][k].addr => j = k \/ IPMap[w][j].addr \in Doubled

\* A sweep that changes the list under way reads at most one place past it.
SweepWithinReach == phase = "sweep" => i <= Len(IPMap[which]) /\ prop <= Len(IPMap[which])

Assigned(e) == IF e.cap = Junk \/ e.cap < 0 THEN 0 ELSE e.cap
AssignedSum(map) == SumOf([k \in DOMAIN map |-> Assigned(map[k])])

\* The capacities the listed nodes were given do not exceed what the server does
\* not keep for itself, whoever joined or left since they were shared out
\* (the capacity of a node that joined by its address was never assigned).
SharesFit ==
  (Capacity >= 0 /\ ~torn) => AssignedSum(IPMap[0]) <= Capacity - SrvrShare

\* No message of a is under way, and none will be: it is down.
Gone(a) == a \notin up /\ \A m \in net : m.src # a

\* A node that crashed without a word is dropped from the list in the end: the
\* periodic sweep silences it and then removes it.  This is so with AutoRemIPMap
\* on and PendReqTime so late that a sweep gets to see the node silent before:
\* every removal of another node can end one sweep ahead of it, so there must be
\* time for as many sweeps as the list has entries.  The defaults (86400 and 60
\* seconds) leave it.  With PendReqTime = 0, as in clstrsrvr/si-Net, the sweep
\* removes nobody.
GhostLeaves ==
  \A a \in Node : <>[]Gone(a) => <>[]~InIPMap(IPMap[0], a)

\* After a sweep nothing is listed that was out of contact for PendReqTime.  It
\* does not hold: a lost peer is looked for in the wrong list (SweepRemove).
LostAreDeleted ==
  phase = "announce" =>
    \A w \in {0, 1} : \A k \in DOMAIN IPMap[w] : ~OutOfContact(IPMap[w][k])
=============================================================================

----------------------------- MODULE MessageLog -----------------------------
(***************************************************************************)
(* The datagram transport of network Tierra (src/legacy/tierra, NETTYPE    *)
(* UDPASM): a cell that surfs is sent as a message cut into packets, the   *)
(* packets are lost, doubled and reordered, and the receiver puts messages *)
(* together in a bounded log that it works through between time slices.    *)
(*                                                                         *)
(* A packet is one unit of bandwidth, a message is its id.  The sender is  *)
(* a Tierra node; "server" is its own cluster server, through which every  *)
(* emigrant for another cluster goes, "peer" a node of its own cluster.    *)
(***************************************************************************)
EXTENDS Integers, Sequences, FiniteSets

CONSTANTS
  Cell,        \* cells that surf
  Remote,      \* those bound for another cluster (whichmap 1)
  Exempt,      \* those whose target shares a node or port with the own server
  Message,     \* message ids, each used at most once
  Herald,      \* pings of the server to the peer, each naming another subnet
  CellOf,      \* the cell an emigration message carries
  Packets,     \* packets of a message
  QueueSize,   \* TieMsgBkLog
  MaxAge,      \* TieMsgMaxAge, in ticks
  Grants,      \* capacities the server hands out, -1 for none
  MaxCopies,   \* bound: copies the network makes of each packet
  WordMod,     \* 2^32, the width of tci_queuelen
  NoSubnet     \* no subnet was set by the server yet

Emigration == Message \ Herald
Packet == UNION {{m} \X (1..Packets[m]) : m \in Message}
Dst == {"server", "peer"}
DstOf(m) == IF m \in Emigration /\ CellOf[m] \in Remote THEN "server" ELSE "peer"

ASSUME MessageAssumption ==
  /\ Remote \subseteq Cell /\ Exempt \subseteq Remote
  /\ Herald \subseteq Message
  /\ CellOf \in [Emigration -> Cell]
  /\ Packets \in [Message -> Nat \ {0}]
  /\ \A h \in Herald : Packets[h] = 1
  /\ QueueSize \in Nat \ {0} /\ MaxAge \in Nat
  /\ MaxCopies \in [Packet -> Nat]
  /\ Grants \subseteq Nat \cup {-1}
  /\ WordMod \in Nat /\ WordMod > QueueSize + 1
  /\ NoSubnet \notin Herald

VARIABLES
  cap,     \* RemOutBndCap of the sender, negative for no limit
  up,      \* its ClusterServerUp
  home,    \* cells in its soup
  unsent,  \* ids not drawn yet
  net,     \* copies of each packet in flight
  copies,  \* copies of each packet there ever were
  log,     \* tci_msgbklog of each receiver, oldest message first
  qlen,    \* tci_queuelen
  pos,     \* where a pass over the log stands, 0 for none under way
  deaf,    \* sigioerrflag
  mode,    \* "torn": the log was freed while a pass used it
  subnet,  \* the subnet the peer has from the server
  done     \* how often each message was processed

senderVars == <<cap, up, home, unsent>>
receiverVars == <<log, qlen, pos, deaf, mode, subnet, done>>
vars == <<senderVars, net, copies, receiverVars>>

Init ==
  /\ cap = -1 /\ up = TRUE
  /\ home = Cell /\ unsent = Message
  /\ net = [p \in Packet |-> 0] /\ copies = [p \in Packet |-> 0]
  /\ log = [d \in Dst |-> <<>>] /\ qlen = [d \in Dst |-> 0]
  /\ pos = [d \in Dst |-> 0] /\ deaf = [d \in Dst |-> FALSE]
  /\ mode = [d \in Dst |-> "ok"]
  /\ subnet = NoSubnet
  /\ done = [m \in Message |-> 0]

-----------------------------------------------------------------------------
(* The sender. *)

\* TieCommSend hands nothing to the transport while the server is away, and
\* reports success.
HandsOver(m) == DstOf(m) = "server" => up

\* Mutant: one packet more than the capacity is let through.
FittingOneMore(m) ==
  IF DstOf(m) = "server" /\ CellOf[m] \notin Exempt /\ cap \in 0..(Packets[m] - 2)
  THEN cap + 1 ELSE Packets[m]

\* The packets that fit into the capacity before TieCommSendUDPASM gives up.
Fitting(m) ==
  IF DstOf(m) = "server" /\ CellOf[m] \notin Exempt /\ cap \in 0..(Packets[m] - 1)
  THEN cap ELSE Packets[m]

\* What k packets with dstmap set leave of the capacity: below zero it is no
\* longer a limit and no longer counted.
Charged(k) == IF cap < 0 THEN cap ELSE IF k > cap THEN -1 ELSE cap - k

\* The first k packets of m enter the network.
Emit(m, k) ==
  /\ net' = [p \in Packet |-> IF p[1] = m /\ p[2] <= k THEN net[p] + 1 ELSE net[p]]
  /\ copies' = [p \in Packet |-> IF p[1] = m /\ p[2] <= k THEN copies[p] + 1 ELSE copies[p]]

\* Mutant: a cell stays at the limit, be it after the last packet.
SurfKeepsAtLimit(m) ==
  /\ m \in unsent \cap Emigration
  /\ CellOf[m] \in home
  /\ unsent' = unsent \ {m}
  /\ HandsOver(m)
  /\ \E k \in 0..Fitting(m) :
       /\ Emit(m, k)
       /\ cap' = IF DstOf(m) = "server" THEN Charged(k) ELSE cap
       /\ home' = IF k = Fitting(m) /\ cap \in 0..k THEN home ELSE home \ {CellOf[m]}
  /\ UNCHANGED <<up, receiverVars>>

\* NEject: the cell is erased unless the capacity did not suffice.  A server
\* away or an encoding or a sendto that fails after k packets erases it all the
\* same, and so does being offline, which is like a failure before the first
\* packet.  The next packet is encoded before the capacity is looked at, so at
\* the limit both may happen.
Surf(m) ==
  /\ m \in unsent \cap Emigration
  /\ CellOf[m] \in home
  /\ unsent' = unsent \ {m}
  /\ \/ /\ ~HandsOver(m)
        /\ home' = home \ {CellOf[m]}
        /\ UNCHANGED <<cap, net, copies>>
     \/ /\ HandsOver(m)
        /\ \E k \in 0..Fitting(m) :
             /\ Emit(m, k)
             /\ cap' = IF DstOf(m) = "server" THEN Charged(k) ELSE cap
             /\ \/ home' = home \ {CellOf[m]}
                \/ k = Fitting(m) /\ k < Packets[m] /\ home' = home
  /\ UNCHANGED <<up, receiverVars>>

\* A reply to the own server is charged too, and never held back.
ReplyToServer ==
  /\ up /\ cap >= 0
  /\ cap' = Charged(1)
  /\ UNCHANGED <<up, home, unsent, net, copies, receiverVars>>

\* Data from the server: it is up, and if its toggle has changed, the capacity
\* is set anew.
Grant(g) ==
  /\ up' = TRUE /\ cap' \in {cap, g}
  /\ UNCHANGED <<home, unsent, net, copies, receiverVars>>

ServerBye ==
  /\ up' = FALSE
  /\ UNCHANGED <<cap, home, unsent, net, copies, receiverVars>>

\* The server pings the peer.
SendHerald(h) ==
  /\ h \in unsent \cap Herald
  /\ unsent' = unsent \ {h}
  /\ Emit(h, 1)
  /\ UNCHANGED <<cap, up, home, receiverVars>>

-----------------------------------------------------------------------------
(* The network. *)

Lose(p) ==
  /\ net[p] > 0
  /\ net' = [net EXCEPT ![p] = @ - 1]
  /\ UNCHANGED <<senderVars, copies, receiverVars>>

Duplicate(p) ==
  /\ net[p] > 0 /\ copies[p] <= MaxCopies[p]
  /\ net' = [net EXCEPT ![p] = @ + 1]
  /\ copies' = [copies EXCEPT ![p] = @ + 1]
  /\ UNCHANGED <<senderVars, receiverVars>>

-----------------------------------------------------------------------------
(* The receiver: packets into the log. *)

Listed(d) == {log[d][i].msg : i \in 1..Len(log[d])}

\* Mutant: a packet listed already is put in and counted again.
ExtendedTwice(n, o) ==
  IF n.size = Packets[n.msg] THEN n
  ELSE [n EXCEPT !.size = @ + 1, !.buf = @ \cup {o},
                 !.pkts = IF n.size + 1 = Packets[n.msg] THEN {} ELSE @ \cup {o}]

\* A packet goes into its message, once, until the message is whole; then the
\* list of its packets is dropped.
Extended(n, o) ==
  IF n.size = Packets[n.msg] \/ o \in n.pkts THEN n
  ELSE [n EXCEPT !.size = @ + 1, !.buf = @ \cup {o},
                 !.pkts = IF n.size + 1 = Packets[n.msg] THEN {} ELSE @ \cup {o}]

NewNode(m) == [msg |-> m, size |-> 0, pkts |-> {}, buf |-> {}, age |-> 0]

\* How many of the oldest go to make room for another message.
Excess(d) == IF qlen[d] < QueueSize THEN 0 ELSE qlen[d] - QueueSize + 1

\* DelMsgTree: every node goes and is counted off.
Emptied(d) == /\ log' = [log EXCEPT ![d] = <<>>]
              /\ qlen' = [qlen EXCEPT ![d] = (@ - Len(log[d])) % WordMod]

\* After a receive error the log is emptied at the end of every reception.
Kept(d, s, n) ==
  IF deaf[d] THEN /\ log' = [log EXCEPT ![d] = <<>>]
                  /\ qlen' = [qlen EXCEPT ![d] = (n - Len(s)) % WordMod]
             ELSE /\ log' = [log EXCEPT ![d] = s]
                  /\ qlen' = [qlen EXCEPT ![d] = n]

\* A packet of a message the log lists.
ReceiveMore(d, p) ==
  /\ p[1] \in Listed(d)
  /\ Kept(d, [i \in 1..Len(log[d]) |->
                IF log[d][i].msg = p[1] THEN Extended(log[d][i], p[2]) ELSE log[d][i]],
          qlen[d])
  /\ UNCHANGED mode

\* The first packet of a message: the oldest make room, the new one goes last.
ReceiveFirst(d, p) ==
  /\ p[1] \notin Listed(d)
  /\ Excess(d) <= Len(log[d])
  /\ Kept(d, Append(SubSeq(log[d], Excess(d) + 1, Len(log[d])),
                    Extended(NewNode(p[1]), p[2])),
          qlen[d] - Excess(d) + 1)
  /\ UNCHANGED mode

\* The count says full and there is nothing to remove: the loop never ends.
ReceiveSpins(d, p) ==
  /\ p[1] \notin Listed(d)
  /\ Excess(d) > Len(log[d])
  /\ Emptied(d)
  /\ mode' = [mode EXCEPT ![d] = "spins"]

\* TieRcvIncMsgUDPASM: it does not run inside a pass, which blocks SIGIO.
Receive(d, p) ==
  /\ mode[d] \in {"ok", "torn"} /\ pos[d] = 0
  /\ net[p] > 0 /\ DstOf(p[1]) = d
  /\ net' = [net EXCEPT ![p] = @ - 1]
  /\ ReceiveMore(d, p) \/ ReceiveFirst(d, p) \/ ReceiveSpins(d, p)
  /\ UNCHANGED <<senderVars, copies, pos, deaf, subnet, done>>

\* recvfrom fails: the flag is never cleared by a reception.
ReceiveError(d) ==
  /\ mode[d] \in {"ok", "torn"} /\ pos[d] = 0 /\ ~deaf[d]
  /\ deaf' = [deaf EXCEPT ![d] = TRUE]
  /\ Emptied(d)
  /\ UNCHANGED <<senderVars, net, copies, pos, mode, subnet, done>>

-----------------------------------------------------------------------------
(* The receiver: passes over the log. *)

Current(d) == log[d][pos[d]]
Whole(n) == n.size = Packets[n.msg]

\* Mutant: a whole message held back stays whatever its age.
OnlyTornExpire(n) == n.age > MaxAge /\ ~Whole(n)

Expired(n) == n.age > MaxAge

\* The pass goes on at i, or ends.
MoveTo(d, i, len) == pos' = [pos EXCEPT ![d] = IF i > len THEN 0 ELSE i]

\* DelMsgNode on the current node.
DropCurrent(d) ==
  /\ log' = [log EXCEPT ![d] = SubSeq(@, 1, pos[d] - 1) \o SubSeq(@, pos[d] + 1, Len(@))]
  /\ qlen' = [qlen EXCEPT ![d] = (@ - 1) % WordMod]
  /\ MoveTo(d, pos[d], Len(log[d]) - 1)

DropExpired(d) ==
  /\ Expired(Current(d))
  /\ DropCurrent(d)
  /\ UNCHANGED <<mode, subnet, done>>

\* A whole message that cannot be decoded is deleted unprocessed.
DropUnreadable(d) ==
  /\ ~Expired(Current(d)) /\ Whole(Current(d))
  /\ DropCurrent(d)
  /\ UNCHANGED <<mode, subnet, done>>

\* An incomplete message stays, and so does an immigrant held back by
\* ImmigLimFrac, which only a Tierra node draws.
PassOver(d) ==
  /\ ~Expired(Current(d))
  /\ ~Whole(Current(d)) \/ (d = "peer" /\ Current(d).msg \in Emigration)
  /\ MoveTo(d, pos[d] + 1, Len(log[d]))
  /\ UNCHANGED <<log, qlen, mode, subnet, done>>

\* Mutant: a processed message stays in the log.
ProcessAndKeep(d) ==
  /\ ~Expired(Current(d)) /\ Whole(Current(d))
  /\ done' = [done EXCEPT ![Current(d).msg] = @ + 1]
  /\ subnet' = IF Current(d).msg \in Herald THEN Current(d).msg ELSE subnet
  /\ MoveTo(d, pos[d] + 1, Len(log[d]))
  /\ UNCHANGED <<log, qlen, mode>>

\* A message is handed to procmsg and deleted.  (ProcTierraMsg and
\* SrvrProcTierraMsg always return 0, so no message ends the pass.)
Process(d) ==
  /\ ~Expired(Current(d)) /\ Whole(Current(d))
  /\ done' = [done EXCEPT ![Current(d).msg] = @ + 1]
  /\ subnet' = IF Current(d).msg \in Herald THEN Current(d).msg ELSE subnet
  /\ DropCurrent(d)
  /\ UNCHANGED mode

\* A ping of the server that changes a subnet it had set before makes the node
\* sleep inside procmsg: TieSleep frees the whole log, the message under way
\* included, and the pass then deletes that message once more.
ProcessAndSleep(d) ==
  /\ ~Expired(Current(d)) /\ Whole(Current(d))
  /\ Current(d).msg \in Herald
  /\ subnet \notin {NoSubnet, Current(d).msg}
  /\ done' = [done EXCEPT ![Current(d).msg] = @ + 1]
  /\ subnet' = Current(d).msg
  /\ log' = [log EXCEPT ![d] = <<>>]
  /\ qlen' = [qlen EXCEPT ![d] = (@ - Len(log[d]) - 1) % WordMod]
  /\ pos' = [pos EXCEPT ![d] = 0]
  /\ \E fate \in {"torn", "crashed"} : mode' = [mode EXCEPT ![d] = fate]

\* TieCommProcMsgBkLog starts at the oldest message.
Begin(d) ==
  /\ mode[d] = "ok" /\ pos[d] = 0 /\ log[d] # <<>>
  /\ pos' = [pos EXCEPT ![d] = 1]
  /\ UNCHANGED <<senderVars, net, copies, log, qlen, deaf, mode, subnet, done>>

\* One turn of its loop.
Look(d) ==
  /\ mode[d] = "ok" /\ pos[d] > 0
  /\ DropExpired(d) \/ DropUnreadable(d) \/ PassOver(d) \/ Process(d) \/ ProcessAndSleep(d)
  /\ UNCHANGED <<senderVars, net, copies, deaf>>

\* TieSleep between two slices, or in the server's main loop (an apocalypse):
\* what waits in the socket and in the log is thrown away.
Flush(d) ==
  /\ mode[d] \in {"ok", "torn"} /\ pos[d] = 0
  /\ \E S \in SUBSET {p \in Packet : DstOf(p[1]) = d /\ net[p] > 0} :
       net' = [p \in Packet |-> IF p \in S THEN 0 ELSE net[p]]
  /\ Emptied(d)
  /\ UNCHANGED <<senderVars, copies, pos, deaf, mode, subnet, done>>

\* Mutant: opening the transport again keeps the old count.
ReopenKeepsCount(d) ==
  /\ mode[d] \in {"ok", "torn"} /\ pos[d] = 0
  /\ log' = [log EXCEPT ![d] = <<>>]
  /\ deaf' = [deaf EXCEPT ![d] = FALSE]
  /\ mode' = [mode EXCEPT ![d] = "ok"]
  /\ UNCHANGED <<senderVars, net, copies, pos, qlen, subnet, done>>

\* Going offline and online again closes and reopens the transport.
Reopen(d) ==
  /\ mode[d] \in {"ok", "torn"} /\ pos[d] = 0
  /\ log' = [log EXCEPT ![d] = <<>>]
  /\ qlen' = [qlen EXCEPT ![d] = 0]
  /\ deaf' = [deaf EXCEPT ![d] = FALSE]
  /\ mode' = [mode EXCEPT ![d] = "ok"]
  /\ UNCHANGED <<senderVars, net, copies, pos, subnet, done>>

\* A tick of the clock; an age beyond the limit is all the same.
Aged(n) == [n EXCEPT !.age = IF @ > MaxAge THEN @ ELSE @ + 1]

Tick ==
  /\ log' = [d \in Dst |-> [i \in 1..Len(log[d]) |-> Aged(log[d][i])]]
  /\ UNCHANGED <<senderVars, net, copies, qlen, pos, deaf, mode, subnet, done>>

-----------------------------------------------------------------------------

Next ==
  \/ \E m \in Message : Surf(m)
  \/ ReplyToServer \/ ServerBye
  \/ \E g \in Grants : Grant(g)
  \/ \E h \in Herald : SendHerald(h)
  \/ \E p \in Packet : Lose(p) \/ Duplicate(p)
  \/ \E d \in Dst : \/ \E p \in Packet : Receive(d, p)
                    \/ ReceiveError(d) \/ Begin(d) \/ Look(d) \/ Flush(d) \/ Reopen(d)
  \/ Tick

Spec == Init /\ [][Next]_vars

\* The run loop looks at the log after every slice (life, NetRecvFunc) and
\* the clock goes on.
FairSpec == Spec /\ WF_vars(Tick) /\ \A d \in Dst : WF_vars(Begin(d)) /\ WF_vars(Look(d))
-----------------------------------------------------------------------------
(* Properties. *)

Node == [msg : Message, size : Nat, pkts : SUBSET Nat, buf : SUBSET Nat, age : 0..(MaxAge + 1)]

\* Every variable has its type: what the log holds are nodes, and the count is
\* a machine word.
TypeOK ==
  /\ cap \in Nat \cup {-1} /\ up \in BOOLEAN
  /\ home \subseteq Cell /\ unsent \subseteq Message
  /\ net \in [Packet -> Nat] /\ copies \in [Packet -> Nat]
  /\ log \in [Dst -> Seq(Node)] /\ qlen \in [Dst -> 0..(WordMod - 1)]
  /\ pos \in [Dst -> Nat] /\ deaf \in [Dst -> BOOLEAN]
  /\ mode \in [Dst -> {"ok", "torn", "crashed", "spins"}]
  /\ subnet \in Herald \cup {NoSubnet}
  /\ done \in [Message -> Nat]

\* A message the log calls complete has every one of its packets in its buffer,
\* and one it does not has exactly those its packet list names: no copy and no
\* order of the packets makes a message with a hole look whole.
WholeMessage ==
  \A d \in Dst : \A i \in 1..Len(log[d]) :
    LET n == log[d][i] IN
      IF Whole(n) THEN n.buf = 1..Packets[n.msg]
                  ELSE n.buf = n.pkts /\ n.size = Cardinality(n.buf)

\* The log holds the data of packet p.
InLog(p) ==
  \E i \in 1..Len(log[DstOf(p[1])]) :
    log[DstOf(p[1])][i].msg = p[1] /\ p[2] \in log[DstOf(p[1])][i].buf

\* A message is processed at most as often as there were copies of each of its
\* packets, the one it is being assembled from and those under way counted:
\* without copies made by the network a cell immigrates at most once.
UsesUpItsPackets ==
  \A p \in Packet :
    done[p[1]] + net[p] + (IF InLog(p) THEN 1 ELSE 0) <= copies[p]

\* A cell still at home, one refused for want of bandwidth included, has not
\* arrived anywhere: of a refused message the last packet never left.
NoTwins ==
  \A m \in Emigration : CellOf[m] \in home => done[m] = 0

\* While no pass was torn the count of the log is its length and within
\* TieMsgBkLog; a torn log is empty.
QueueLenIsLength ==
  \A d \in Dst :
    IF mode[d] = "ok" THEN qlen[d] = Len(log[d]) /\ Len(log[d]) <= QueueSize
                      ELSE log[d] = <<>>

\* An emigrant that is not exempt never uses up more capacity than is left: of
\* the sender's own packets only those to its server can turn a limit into none.
CapStaysALimit ==
  [][\A m \in Message : Surf(m) /\ cap >= 0 /\ CellOf[m] \notin Exempt => cap' >= 0]_vars

\* Nothing stays in the log for ever, however packets arrive and whatever the
\* immigration limit holds back.
LogDrains ==
  \A m \in Message :
    []<>(m \notin Listed(DstOf(m)) \/ mode[DstOf(m)] # "ok")

\* A log that says full has an oldest message to remove ("if queue is full,
\* remove oldest messages").  It does not hold after ProcessAndSleep.
FullHasOldest ==
  \A d \in Dst : mode[d] \in {"ok", "torn"} /\ qlen[d] >= QueueSize => log[d] # <<>>
=============================================================================

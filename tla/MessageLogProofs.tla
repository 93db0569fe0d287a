------------------------- MODULE MessageLogProofs -------------------------
(***************************************************************************)
(* What the message log promises for any number of cells, messages and     *)
(* packets, with packets lost, copied and reordered.  The argument counts  *)
(* copies: whatever was processed, waits in the log or is under way was    *)
(* sent or copied once, and a message is only processed out of a buffer    *)
(* that every one of its packets went into.                                *)
(***************************************************************************)
EXTENDS MessageLog, TLAPS, FiniteSetTheorems, SequenceTheorems

\* A node agrees with what the packets put into it.
GoodNode(n) ==
  /\ n \in Node /\ n.buf \subseteq 1..Packets[n.msg]
  /\ IF Whole(n) THEN n.buf = 1..Packets[n.msg]
                 ELSE n.buf = n.pkts /\ n.size = Cardinality(n.buf)

\* A list of good nodes of messages for d, one for each message.
GoodLog(d, s) ==
  /\ s \in Seq(Node)
  /\ \A i \in 1..Len(s) : GoodNode(s[i]) /\ DstOf(s[i].msg) = d
  /\ \A i, j \in 1..Len(s) : s[i].msg = s[j].msg => i = j

GoodLogs == \A d \in Dst : GoodLog(d, log[d])

\* A pass stands inside the log it goes over.
PassInside == \A d \in Dst : pos[d] <= Len(log[d])

\* What was not drawn yet has no packets, and of what a cell at home was sent
\* in, the last packet never left.
UnsentIsSilent ==
  /\ \A p \in Packet : p[1] \in unsent => copies[p] = 0
  /\ \A m \in Emigration : CellOf[m] \in home => copies[<<m, Packets[m]>>] = 0

\* A torn count is one below zero.
TornCount == \A d \in Dst : mode[d] = "torn" => qlen[d] = WordMod - 1

LogInv == TypeOK /\ GoodLogs /\ PassInside /\ QueueLenIsLength /\ TornCount

Inv == LogInv /\ UsesUpItsPackets /\ UnsentIsSilent

-----------------------------------------------------------------------------
(* Packets and nodes. *)

LEMMA PacketType ==
  /\ \A p \in Packet : p[1] \in Message /\ p[2] \in 1..Packets[p[1]] /\ p = <<p[1], p[2]>>
  /\ \A m \in Message : \A o \in 1..Packets[m] : <<m, o>> \in Packet
BY DEF Packet

LEMMA DstType == \A m \in Message : DstOf(m) \in Dst
BY DEF DstOf, Dst

LEMMA NewNodeIsGood ==
  ASSUME NEW m \in Message
  PROVE  GoodNode(NewNode(m))
<1>1. Packets[m] \in Nat \ {0} /\ MaxAge \in Nat
  BY MessageAssumption
<1>2. Cardinality({}) = 0
  BY FS_EmptySet
<1> QED
  BY <1>1, <1>2 DEF GoodNode, NewNode, Whole, Node

LEMMA ExtendedIsGood ==
  ASSUME NEW n, GoodNode(n), NEW o \in 1..Packets[n.msg]
  PROVE  /\ GoodNode(Extended(n, o)) /\ Extended(n, o).msg = n.msg
         /\ n.buf \subseteq Extended(n, o).buf
         /\ Extended(n, o).buf \subseteq n.buf \cup {o}
<1>1. n \in Node /\ n.buf \subseteq 1..Packets[n.msg] /\ Packets[n.msg] \in Nat \ {0}
  BY MessageAssumption DEF GoodNode, Node
<1>2. CASE n.size = Packets[n.msg] \/ o \in n.pkts
  BY <1>2 DEF Extended
<1>3. CASE ~(n.size = Packets[n.msg] \/ o \in n.pkts)
  <2> DEFINE e == Extended(n, o)
  <2>1. n.buf = n.pkts /\ n.size = Cardinality(n.buf) /\ o \notin n.buf
    BY <1>3 DEF GoodNode, Whole
  <2> DEFINE P == IF n.size + 1 = Packets[n.msg] THEN {} ELSE n.pkts \cup {o}
  <2>a. e = [n EXCEPT !.size = n.size + 1, !.buf = n.buf \cup {o}, !.pkts = P]
    BY <1>3 DEF Extended
  <2>b. /\ n.size + 1 \in Nat /\ n.buf \cup {o} \in SUBSET Nat /\ P \in SUBSET Nat
        /\ n = [msg |-> n.msg, size |-> n.size, pkts |-> n.pkts, buf |-> n.buf, age |-> n.age]
        /\ n.msg \in Message /\ n.age \in 0..(MaxAge + 1)
    BY <1>1 DEF Node
  <2> HIDE DEF P
  <2>c. e = [msg |-> n.msg, size |-> n.size + 1, pkts |-> P, buf |-> n.buf \cup {o},
             age |-> n.age]
    BY <2>a, <2>b
  <2>2. /\ e \in Node /\ e.msg = n.msg /\ e.size = n.size + 1 /\ e.buf = n.buf \cup {o}
        /\ e.pkts = IF n.size + 1 = Packets[n.msg] THEN {} ELSE n.pkts \cup {o}
    BY <2>b, <2>c DEF Node, P
  <2>3. IsFiniteSet(1..Packets[n.msg]) /\ Cardinality(1..Packets[n.msg]) = Packets[n.msg]
    <3>1. ASSUME NEW k \in Nat \ {0} PROVE IsFiniteSet(1..k) /\ Cardinality(1..k) = k
      BY FS_Interval
    <3> QED
      BY <1>1, <3>1
  <2>4. IsFiniteSet(n.buf)
    BY <1>1, <2>3, FS_Subset
  <2>5. Cardinality(e.buf) = e.size
    BY <2>1, <2>2, <2>4, FS_AddElement
  <2>6. e.buf \subseteq 1..Packets[n.msg]
    BY <1>1, <2>2
  <2>7. e.size = Packets[n.msg] => e.buf = 1..Packets[n.msg]
    BY <2>3, <2>5, <2>6, FS_Subset
  <2>8. e.size # Packets[n.msg] => e.pkts = e.buf
    BY <2>1, <2>2
  <2> HIDE DEF e
  <2>9. GoodNode(e)
    BY <2>2, <2>5, <2>6, <2>7, <2>8 DEF GoodNode, Whole
  <2> QED
    BY <2>2, <2>9 DEF e
<1> QED
  BY <1>2, <1>3

LEMMA AgedIsGood ==
  ASSUME NEW n, GoodNode(n)
  PROVE  GoodNode(Aged(n)) /\ Aged(n).msg = n.msg /\ Aged(n).buf = n.buf
<1> DEFINE a == IF n.age > MaxAge THEN n.age ELSE n.age + 1
<1>1. /\ n = [msg |-> n.msg, size |-> n.size, pkts |-> n.pkts, buf |-> n.buf, age |-> n.age]
      /\ n \in Node /\ a \in 0..(MaxAge + 1)
  BY MessageAssumption DEF GoodNode, Node
<1>2. Aged(n) = [n EXCEPT !.age = a]
  BY DEF Aged
<1> HIDE DEF a
<1>3. Aged(n) = [msg |-> n.msg, size |-> n.size, pkts |-> n.pkts, buf |-> n.buf, age |-> a]
  BY <1>1, <1>2
<1>4. Aged(n) \in Node
  BY <1>1, <1>3 DEF Node
<1> QED
  BY <1>3, <1>4 DEF GoodNode, Whole

-----------------------------------------------------------------------------
(* Lists of nodes. *)

\* InLog for a list.
InList(s, p) == \E i \in 1..Len(s) : s[i].msg = p[1] /\ p[2] \in s[i].buf

LEMMA EmptyIsGood ==
  \A d : GoodLog(d, <<>>) /\ \A p : ~InList(<<>>, p)
BY DEF GoodLog, InList

LEMMA AgedLogIsGood ==
  ASSUME NEW d, NEW s, GoodLog(d, s), NEW t, t = [i \in 1..Len(s) |-> Aged(s[i])]
  PROVE  GoodLog(d, t) /\ Len(t) = Len(s) /\ \A p : InList(t, p) => InList(s, p)
<1>1. \A i \in 1..Len(s) : GoodNode(s[i]) /\ DstOf(s[i].msg) = d
  BY DEF GoodLog
<1>2. \A i \in 1..Len(s) : /\ t[i] = Aged(s[i]) /\ GoodNode(t[i]) /\ t[i] \in Node
                           /\ t[i].msg = s[i].msg /\ t[i].buf = s[i].buf
  BY <1>1, AgedIsGood DEF GoodNode
<1>3. Len(s) \in Nat /\ t \in Seq(Node) /\ Len(t) = Len(s)
  BY <1>2 DEF GoodLog
<1>4. \A i, j \in 1..Len(s) : s[i].msg = s[j].msg => i = j
  BY DEF GoodLog
<1> QED
  BY <1>1, <1>2, <1>3, <1>4 DEF GoodLog, InList

LEMMA ExtendedLogIsGood ==
  ASSUME NEW d, NEW s, GoodLog(d, s), NEW p \in Packet,
         NEW t, t = [i \in 1..Len(s) |->
                       IF s[i].msg = p[1] THEN Extended(s[i], p[2]) ELSE s[i]]
  PROVE  /\ GoodLog(d, t) /\ Len(t) = Len(s)
         /\ \A q \in Packet : InList(t, q) => InList(s, q) \/ q = p
<1>1. \A i \in 1..Len(s) : GoodNode(s[i]) /\ DstOf(s[i].msg) = d
  BY DEF GoodLog
<1>2. \A i \in 1..Len(s) : /\ GoodNode(t[i]) /\ t[i].msg = s[i].msg
                           /\ t[i].buf \subseteq IF s[i].msg = p[1] THEN s[i].buf \cup {p[2]}
                                                                    ELSE s[i].buf
  <2> TAKE i \in 1..Len(s)
  <2>1. CASE s[i].msg = p[1]
    BY <1>1, <2>1, ExtendedIsGood, PacketType
  <2>2. CASE s[i].msg # p[1]
    BY <1>1, <2>2
  <2> QED
    BY <2>1, <2>2
<1>3. \A i \in 1..Len(s) : t[i] \in Node
  BY <1>2 DEF GoodNode
<1>4. Len(s) \in Nat /\ t \in Seq(Node) /\ Len(t) = Len(s)
  BY <1>3 DEF GoodLog
<1>5. \A i, j \in 1..Len(s) : s[i].msg = s[j].msg => i = j
  BY DEF GoodLog
<1>6. GoodLog(d, t)
  BY <1>1, <1>2, <1>4, <1>5 DEF GoodLog
<1>7. ASSUME NEW q \in Packet, InList(t, q), ~InList(s, q) PROVE q = p
  <2>1. PICK i \in 1..Len(s) : t[i].msg = q[1] /\ q[2] \in t[i].buf
    BY <1>4, <1>7 DEF InList
  <2>2. q[1] = s[i].msg /\ q[2] \notin s[i].buf
    BY <1>2, <1>7, <2>1 DEF InList
  <2>3. q[1] = p[1] /\ q[2] = p[2]
    BY <1>2, <2>1, <2>2
  <2> QED
    BY <2>3, PacketType
<1> QED
  BY <1>4, <1>6, <1>7

\* The list s without its e oldest nodes, n behind it.
MadeRoom(s, e, n) == Append(SubSeq(s, e + 1, Len(s)), n)

LEMMA MakingRoomIsGood ==
  ASSUME NEW d, NEW s, GoodLog(d, s), NEW e \in 0..Len(s),
         NEW n, GoodNode(n), DstOf(n.msg) = d, \A i \in 1..Len(s) : s[i].msg # n.msg
  PROVE  /\ GoodLog(d, MadeRoom(s, e, n)) /\ Len(MadeRoom(s, e, n)) = Len(s) - e + 1
         /\ \A q : InList(MadeRoom(s, e, n), q) =>
                     InList(s, q) \/ (q[1] = n.msg /\ q[2] \in n.buf)
<1> DEFINE u == SubSeq(s, e + 1, Len(s))
           t == MadeRoom(s, e, n)
<1>1. s \in Seq(Node) /\ Len(s) \in Nat /\ n \in Node
  BY DEF GoodLog, GoodNode
<1>2. /\ u \in Seq(Node) /\ Len(u) = Len(s) - e
      /\ \A i \in 1..(Len(s) - e) : u[i] = s[e + i]
  <2>1. /\ e + 1 \in 1..(Len(s) + 1) /\ Len(s) \in (e + 1 - 1)..Len(s)
    BY <1>1
  <2>2. /\ u \in Seq(Node)
        /\ Len(u) = IF e + 1 <= Len(s) THEN Len(s) - (e + 1) + 1 ELSE 0
        /\ \A i \in 1..(Len(s) - (e + 1) + 1) : u[i] = s[e + 1 + i - 1]
    BY <1>1, <2>1, SubSeqProperties
  <2> QED
    BY <1>1, <2>2
<1> HIDE DEF u
<1>3. t = Append(u, n)
  BY DEF u, MadeRoom
<1> HIDE DEF t
<1>4. /\ t \in Seq(Node) /\ Len(t) = Len(s) - e + 1
      /\ \A i \in 1..(Len(s) - e) : t[i] = s[e + i] /\ e + i \in 1..Len(s)
      /\ t[Len(s) - e + 1] = n
  BY <1>1, <1>2, <1>3
<1>5. \A i \in 1..Len(t) : i \in 1..(Len(s) - e) \/ i = Len(s) - e + 1
  <2>1. \A l \in Nat : \A i \in 1..(l + 1) : i \in 1..l \/ i = l + 1
    OBVIOUS
  <2>2. Len(s) - e \in Nat
    BY <1>1
  <2> QED
    BY <1>4, <2>1, <2>2
<1>6. \A i \in 1..Len(s) : GoodNode(s[i]) /\ DstOf(s[i].msg) = d
  BY DEF GoodLog
<1>7. \A i \in 1..Len(t) : GoodNode(t[i]) /\ DstOf(t[i].msg) = d
  BY <1>4, <1>5, <1>6
<1>8. ASSUME NEW i \in 1..Len(t), NEW j \in 1..Len(t), t[i].msg = t[j].msg PROVE i = j
  <2>1. CASE i \in 1..(Len(s) - e) /\ j \in 1..(Len(s) - e)
    <3>1. /\ e + i \in 1..Len(s) /\ e + j \in 1..Len(s)
          /\ s[e + i].msg = s[e + j].msg
      BY <1>4, <1>8, <2>1
    <3>2. \A x, y \in 1..Len(s) : s[x].msg = s[y].msg => x = y
      BY DEF GoodLog
    <3>3. e + i = e + j
      BY <3>1, <3>2
    <3>4. \A a, x, y \in Int : a + x = a + y => x = y
      OBVIOUS
    <3>5. e \in Int /\ i \in Int /\ j \in Int
      BY <1>1, <2>1
    <3> QED
      BY <3>3, <3>4, <3>5
  <2> QED
    BY <1>4, <1>5, <1>8, <2>1
<1>9. ASSUME NEW q, InList(t, q) PROVE InList(s, q) \/ (q[1] = n.msg /\ q[2] \in n.buf)
  <2>1. PICK i \in 1..Len(t) : t[i].msg = q[1] /\ q[2] \in t[i].buf
    BY <1>9 DEF InList
  <2> QED
    BY <1>4, <1>5, <2>1 DEF InList
<1> QED
  BY <1>4, <1>7, <1>8, <1>9 DEF GoodLog, t

LEMMA DropIsGood ==
  ASSUME NEW d, NEW s, GoodLog(d, s), NEW k \in 1..Len(s),
         NEW t, t = SubSeq(s, 1, k - 1) \o SubSeq(s, k + 1, Len(s))
  PROVE  /\ GoodLog(d, t) /\ Len(t) = Len(s) - 1
         /\ \A q : InList(t, q) => InList(s, q) /\ q[1] # s[k].msg
<1> DEFINE u == SubSeq(s, 1, k - 1)
           v == SubSeq(s, k + 1, Len(s))
<1>1. s \in Seq(Node) /\ Len(s) \in Nat
  BY DEF GoodLog
<1>2. u \in Seq(Node) /\ Len(u) = k - 1 /\ \A i \in 1..(k - 1) : u[i] = s[i]
  <2>1. 1 \in 1..(Len(s) + 1) /\ k - 1 \in (1 - 1)..Len(s)
    BY <1>1
  <2>2. /\ u \in Seq(Node) /\ Len(u) = IF 1 <= k - 1 THEN (k - 1) - 1 + 1 ELSE 0
        /\ \A i \in 1..((k - 1) - 1 + 1) : u[i] = s[1 + i - 1]
    BY <1>1, <2>1, SubSeqProperties
  <2> QED
    BY <1>1, <2>2
<1>3. v \in Seq(Node) /\ Len(v) = Len(s) - k /\ \A i \in 1..(Len(s) - k) : v[i] = s[k + i]
  <2>1. k + 1 \in 1..(Len(s) + 1) /\ Len(s) \in (k + 1 - 1)..Len(s)
    BY <1>1
  <2>2. /\ v \in Seq(Node) /\ Len(v) = IF k + 1 <= Len(s) THEN Len(s) - (k + 1) + 1 ELSE 0
        /\ \A i \in 1..(Len(s) - (k + 1) + 1) : v[i] = s[k + 1 + i - 1]
    BY <1>1, <2>1, SubSeqProperties
  <2> QED
    BY <1>1, <2>2
<1>4. t = u \o v
  OBVIOUS
<1> HIDE DEF u, v
<1> DEFINE at(i) == IF i < k THEN i ELSE i + 1
<1>a. \A l \in Nat : \A i \in 1..(l - 1) : at(i) \in 1..l /\ at(i) # k
  <2> k \in Int
    BY <1>1
  <2> QED
    OBVIOUS
<1>b. \A l \in Nat : \A i, j \in 1..(l - 1) : at(i) = at(j) => i = j
  <2> k \in Int
    BY <1>1
  <2> QED
    OBVIOUS
<1>c. \A l \in Nat : \A i \in 1..(l - 1) : i >= k =>
        /\ i - (k - 1) \in 1..(l - k) /\ k + (i - (k - 1)) = at(i)
        /\ ~(i <= k - 1)
  <2> k \in Int
    BY <1>1
  <2> QED
    OBVIOUS
<1>d. \A i \in Int : i < k => i <= k - 1 /\ at(i) = i
  <2> k \in Int
    BY <1>1
  <2> QED
    OBVIOUS
<1> HIDE DEF at
<1>5. /\ t \in Seq(Node) /\ Len(t) = Len(s) - 1
      /\ \A i \in 1..(Len(s) - 1) : t[i] = IF i <= Len(u) THEN u[i] ELSE v[i - Len(u)]
  <2>1. u \in Seq(Node) /\ v \in Seq(Node)
    BY <1>2, <1>3
  <2>2. /\ t \in Seq(Node) /\ Len(t) = Len(u) + Len(v)
        /\ \A i \in 1..(Len(u) + Len(v)) : t[i] = IF i <= Len(u) THEN u[i] ELSE v[i - Len(u)]
    <3>1. /\ u \o v \in Seq(Node) /\ Len(u \o v) = Len(u) + Len(v)
          /\ \A i \in 1..(Len(u) + Len(v)) :
               (u \o v)[i] = IF i <= Len(u) THEN u[i] ELSE v[i - Len(u)]
      BY <2>1, ConcatProperties
    <3> QED
      BY <1>4, <3>1, Zenon
  <2>3. Len(u) + Len(v) = Len(s) - 1
    <3>1. Len(s) \in Int /\ k \in Int /\ Len(u) = k - 1 /\ Len(v) = Len(s) - k
      BY <1>1, <1>2, <1>3
    <3>2. \A a, b \in Int : (b - 1) + (a - b) = a - 1
      OBVIOUS
    <3> QED
      BY <3>1, <3>2
  <2> QED
    BY <2>2, <2>3
<1>6. \A i \in 1..(Len(s) - 1) : t[i] = s[at(i)] /\ at(i) \in 1..Len(s) /\ at(i) # k
  <2> TAKE i \in 1..(Len(s) - 1)
  <2>1. i \in Int /\ i >= 1 /\ k \in Int
    BY <1>1
  <2>2. CASE i < k
    <3>1. i <= k - 1 /\ at(i) = i /\ i \in 1..(k - 1)
      BY <1>d, <2>1, <2>2
    <3>2. t[i] = u[i] /\ u[i] = s[i]
      BY <1>2, <1>5, <3>1
    <3> QED
      BY <1>1, <1>a, <3>1, <3>2
  <2>3. CASE i >= k
    <3>1. i - (k - 1) \in 1..(Len(s) - k) /\ k + (i - (k - 1)) = at(i) /\ ~(i <= k - 1)
      BY <1>1, <1>c, <2>3
    <3>2. t[i] = v[i - (k - 1)]
      BY <1>2, <1>5, <3>1
    <3> QED
      BY <1>1, <1>3, <1>a, <3>1, <3>2
  <2>4. i < k \/ i >= k
    BY <2>1
  <2> QED
    BY <2>2, <2>3, <2>4
<1>7. \A i, j \in 1..(Len(s) - 1) : at(i) = at(j) => i = j
  BY <1>1, <1>b
<1>8. GoodLog(d, t)
  <2>a. 1..Len(t) = 1..(Len(s) - 1)
    BY <1>5
  <2>b. \A i \in 1..Len(s) : GoodNode(s[i]) /\ DstOf(s[i].msg) = d
    BY DEF GoodLog
  <2>1. \A i \in 1..Len(t) : GoodNode(t[i]) /\ DstOf(t[i].msg) = d
    BY <1>6, <2>a, <2>b
  <2>2. ASSUME NEW i \in 1..Len(t), NEW j \in 1..Len(t), t[i].msg = t[j].msg PROVE i = j
    <3>1. i \in 1..(Len(s) - 1) /\ j \in 1..(Len(s) - 1)
      BY <2>a
    <3>2. s[at(i)].msg = s[at(j)].msg /\ at(i) \in 1..Len(s) /\ at(j) \in 1..Len(s)
      BY <1>6, <2>2, <3>1
    <3>3. at(i) = at(j)
      BY <3>2 DEF GoodLog
    <3> QED
      BY <1>7, <3>1, <3>3
  <2> QED
    BY <1>5, <2>1, <2>2 DEF GoodLog
<1>9. ASSUME NEW q, InList(t, q) PROVE InList(s, q) /\ q[1] # s[k].msg
  <2>1. PICK i \in 1..(Len(s) - 1) : t[i].msg = q[1] /\ q[2] \in t[i].buf
    BY <1>5, <1>9 DEF InList
  <2>2. at(i) \in 1..Len(s) /\ at(i) # k /\ s[at(i)].msg = q[1] /\ q[2] \in s[at(i)].buf
    BY <1>6, <2>1
  <2> QED
    BY <2>2 DEF InList, GoodLog
<1> QED
  BY <1>5, <1>8, <1>9

-----------------------------------------------------------------------------
(* What a step does to the log of one receiver. *)

LEMMA Words ==
  /\ WordMod \in Nat /\ WordMod > QueueSize + 1 /\ QueueSize \in Nat \ {0}
  /\ \A x \in 0..(WordMod - 1) : x % WordMod = x
  /\ (0 - 1) % WordMod = WordMod - 1
  /\ \A x \in Int : x % WordMod \in 0..(WordMod - 1)
<1>1. WordMod \in Nat \ {0} /\ WordMod > QueueSize + 1 /\ QueueSize \in Nat \ {0}
  BY MessageAssumption
<1>2. \A w \in Nat \ {0} : /\ \A x \in 0..(w - 1) : x % w = x
                           /\ (0 - 1) % w = w - 1
                           /\ \A x \in Int : x % w \in 0..(w - 1)
  OBVIOUS
<1> QED
  BY <1>1, <1>2

\* The log of d becomes s and its count q, in agreement with its new mode.
Becomes(d, s, q) ==
  /\ GoodLog(d, s)
  /\ log' = [log EXCEPT ![d] = s] /\ qlen' = [qlen EXCEPT ![d] = q]
  /\ q \in 0..(WordMod - 1)
  /\ IF mode'[d] = "ok" THEN q = Len(s) /\ Len(s) <= QueueSize ELSE s = <<>>
  /\ mode'[d] = "torn" => q = WordMod - 1
  /\ \A e \in Dst \ {d} : mode'[e] = mode[e] /\ pos'[e] = pos[e]
  /\ pos'[d] <= Len(s)

\* The rest of the state keeps its type.
RestTyped ==
  /\ cap \in Nat \cup {-1} /\ up \in BOOLEAN
  /\ home \subseteq Cell /\ unsent \subseteq Message
  /\ net \in [Packet -> Nat] /\ copies \in [Packet -> Nat]
  /\ pos \in [Dst -> Nat] /\ deaf \in [Dst -> BOOLEAN]
  /\ mode \in [Dst -> {"ok", "torn", "crashed", "spins"}]
  /\ subnet \in Herald \cup {NoSubnet}
  /\ done \in [Message -> Nat]

LEMMA BecomesKeepsLogInv ==
  ASSUME LogInv, NEW d \in Dst, NEW s, NEW q, Becomes(d, s, q), RestTyped'
  PROVE  LogInv'
<1>1. /\ log \in [Dst -> Seq(Node)] /\ qlen \in [Dst -> 0..(WordMod - 1)]
      /\ s \in Seq(Node) /\ q \in 0..(WordMod - 1)
  BY DEF LogInv, TypeOK, Becomes, GoodLog
<1>2. /\ log'[d] = s /\ qlen'[d] = q
      /\ \A e \in Dst \ {d} : /\ log'[e] = log[e] /\ qlen'[e] = qlen[e]
                              /\ mode'[e] = mode[e] /\ pos'[e] = pos[e]
  BY <1>1 DEF Becomes
<1>3. log' \in [Dst -> Seq(Node)] /\ qlen' \in [Dst -> 0..(WordMod - 1)]
  BY <1>1 DEF Becomes
<1>4. TypeOK'
  BY <1>3 DEF RestTyped, TypeOK
<1>5. GoodLogs'
  BY <1>2 DEF LogInv, GoodLogs, Becomes
<1>6. PassInside'
  BY <1>2 DEF LogInv, PassInside, Becomes
<1>7. QueueLenIsLength'
  BY <1>2 DEF LogInv, QueueLenIsLength, Becomes
<1>8. TornCount'
  BY <1>2 DEF LogInv, TornCount, Becomes
<1> QED
  BY <1>4, <1>5, <1>6, <1>7, <1>8 DEF LogInv

LEMMA LogFacts ==
  ASSUME LogInv, NEW d \in Dst
  PROVE  /\ GoodLog(d, log[d]) /\ log[d] \in Seq(Node) /\ Len(log[d]) \in Nat
         /\ qlen[d] \in 0..(WordMod - 1) /\ pos[d] \in 0..Len(log[d])
         /\ mode[d] = "ok" => qlen[d] = Len(log[d]) /\ Len(log[d]) <= QueueSize
         /\ mode[d] # "ok" => log[d] = <<>> /\ Len(log[d]) = 0
         /\ mode[d] = "torn" => qlen[d] = WordMod - 1
BY DEF LogInv, TypeOK, GoodLogs, PassInside, QueueLenIsLength, TornCount, GoodLog

LEMMA EmptiedBecomes ==
  ASSUME LogInv, NEW d \in Dst, Emptied(d), pos[d] = 0, UNCHANGED pos,
         mode' = mode \/ mode' = [mode EXCEPT ![d] = "spins"]
  PROVE  Becomes(d, <<>>, (qlen[d] - Len(log[d])) % WordMod)
<1> DEFINE q == (qlen[d] - Len(log[d])) % WordMod
<1>1. /\ log' = [log EXCEPT ![d] = <<>>] /\ qlen' = [qlen EXCEPT ![d] = q]
      /\ mode \in [Dst -> {"ok", "torn", "crashed", "spins"}]
  BY DEF Emptied, LogInv, TypeOK
<1>a. /\ 0 % WordMod = 0 /\ WordMod \in Nat
      /\ \A x \in 0..(WordMod - 1) : (x - 0) % WordMod = x
      /\ \A x \in Int : (x - x) % WordMod = 0
  BY Words
<1>2. mode[d] = "ok" => q = 0
  <2>1. mode[d] = "ok" => qlen[d] = Len(log[d]) /\ Len(log[d]) \in Int
    BY LogFacts
  <2> QED
    BY <1>a, <2>1
<1>3. mode[d] = "torn" => q = WordMod - 1
  <2>1. mode[d] = "torn" => qlen[d] = WordMod - 1 /\ Len(log[d]) = 0 /\ qlen[d] \in 0..(WordMod - 1)
    BY LogFacts
  <2> QED
    BY <1>a, <2>1
<1>4. q \in 0..(WordMod - 1)
  <2>1. qlen[d] - Len(log[d]) \in Int
    BY LogFacts
  <2> QED
    BY <2>1, Words
<1>5. /\ mode'[d] = "ok" => mode[d] = "ok"
      /\ mode'[d] = "torn" => mode[d] = "torn"
      /\ \A e \in Dst \ {d} : mode'[e] = mode[e] /\ pos'[e] = pos[e]
  BY <1>1
<1> HIDE DEF q
<1>6. GoodLog(d, <<>>) /\ Len(<<>>) = 0 /\ pos'[d] <= 0 /\ 0 <= QueueSize
  <2>1. GoodLog(d, <<>>)
    BY EmptyIsGood
  <2>2. 0 <= QueueSize /\ pos'[d] = 0
    BY Words
  <2> QED
    BY <2>1, <2>2
<1>7. Becomes(d, <<>>, q)
  BY <1>1, <1>2, <1>3, <1>4, <1>5, <1>6 DEF Becomes
<1> QED
  BY <1>7 DEF q

\* A reception that would leave the list s leaves s, or nothing when deaf.
LEMMA KeptBecomes ==
  ASSUME LogInv, NEW d \in Dst, mode[d] = "ok", UNCHANGED <<mode, pos>>, pos[d] = 0,
         NEW s, GoodLog(d, s), Len(s) <= QueueSize, Kept(d, s, Len(s))
  PROVE  Becomes(d, s, Len(s)) \/ Becomes(d, <<>>, 0)
<1>1. Len(s) \in Nat /\ (Len(s) - Len(s)) % WordMod = 0
  <2>1. Len(s) \in Nat
    BY DEF GoodLog
  <2>2. \A x \in Int : (x - x) % WordMod = 0
    BY Words
  <2> QED
    BY <2>1, <2>2
<1>2. Len(s) \in 0..(WordMod - 1) /\ 0 \in 0..(WordMod - 1) /\ 0 <= QueueSize
  BY <1>1, Words
<1>3. CASE deaf[d]
  BY <1>1, <1>2, <1>3, EmptyIsGood DEF Kept, Becomes
<1>4. CASE ~deaf[d]
  BY <1>1, <1>2, <1>4 DEF Kept, Becomes
<1> QED
  BY <1>3, <1>4

LEMMA ReceiveMoreBecomes ==
  ASSUME LogInv, NEW d \in Dst, NEW p \in Packet, pos[d] = 0, UNCHANGED pos, ReceiveMore(d, p)
  PROVE  \E s, q : /\ Becomes(d, s, q)
                   /\ \A r \in Packet : InList(s, r) => InList(log[d], r) \/ r = p
<1> DEFINE t == [i \in 1..Len(log[d]) |->
                   IF log[d][i].msg = p[1] THEN Extended(log[d][i], p[2]) ELSE log[d][i]]
<1>1. p[1] \in Listed(d) /\ Kept(d, t, qlen[d]) /\ UNCHANGED mode
  BY DEF ReceiveMore
<1>2. mode[d] = "ok"
  <2>1. PICK i \in 1..Len(log[d]) : p[1] = log[d][i].msg
    BY <1>1 DEF Listed
  <2> QED
    BY <2>1, LogFacts
<1>3. /\ GoodLog(d, t) /\ Len(t) = Len(log[d])
      /\ \A r \in Packet : InList(t, r) => InList(log[d], r) \/ r = p
  BY LogFacts, ExtendedLogIsGood
<1> HIDE DEF t
<1>4. qlen[d] = Len(t) /\ Len(t) <= QueueSize
  BY <1>2, <1>3, LogFacts
<1>5. Becomes(d, t, Len(t)) \/ Becomes(d, <<>>, 0)
  BY <1>1, <1>2, <1>3, <1>4, KeptBecomes
<1> QED
  BY <1>3, <1>5, EmptyIsGood

LEMMA ReceiveFirstBecomes ==
  ASSUME LogInv, NEW d \in Dst, NEW p \in Packet, pos[d] = 0, UNCHANGED pos,
         mode[d] \in {"ok", "torn"}, DstOf(p[1]) = d, ReceiveFirst(d, p)
  PROVE  \E s, q : /\ Becomes(d, s, q)
                   /\ \A r \in Packet : InList(s, r) => InList(log[d], r) \/ r = p
<1> DEFINE n == Extended(NewNode(p[1]), p[2])
           e == Excess(d)
           t == Append(SubSeq(log[d], e + 1, Len(log[d])), n)
<1>1. /\ p[1] \notin Listed(d) /\ e <= Len(log[d])
      /\ Kept(d, t, qlen[d] - e + 1) /\ UNCHANGED mode
  BY DEF ReceiveFirst
<1>2. /\ Len(log[d]) \in Nat /\ qlen[d] \in Nat /\ QueueSize \in Nat \ {0}
      /\ WordMod > QueueSize + 1 /\ WordMod \in Nat
  <2>1. Len(log[d]) \in Nat /\ qlen[d] \in 0..(WordMod - 1)
    BY LogFacts
  <2> QED
    BY <2>1, Words
<1>3. mode[d] = "ok"
  <2>1. SUFFICES ASSUME mode[d] = "torn" PROVE FALSE
    OBVIOUS
  <2>2. qlen[d] = WordMod - 1 /\ Len(log[d]) = 0
    BY <2>1, LogFacts
  <2>3. e \in Nat /\ e > 0
    BY <1>2, <2>2 DEF Excess
  <2> QED
    BY <1>1, <2>2, <2>3
<1>4. qlen[d] = Len(log[d]) /\ Len(log[d]) <= QueueSize
  BY <1>3, LogFacts
<1>5. e \in 0..Len(log[d]) /\ Len(log[d]) - e + 1 <= QueueSize
  BY <1>2, <1>4 DEF Excess
<1>6. GoodNode(NewNode(p[1])) /\ p[2] \in 1..Packets[p[1]] /\ NewNode(p[1]).msg = p[1]
  BY NewNodeIsGood, PacketType DEF NewNode
<1>7. GoodNode(n) /\ n.msg = p[1] /\ n.buf \subseteq {p[2]}
  <2>1. NewNode(p[1]).buf = {}
    BY DEF NewNode
  <2> QED
    BY <1>6, <2>1, ExtendedIsGood
<1>8. \A i \in 1..Len(log[d]) : log[d][i].msg # n.msg
  BY <1>1, <1>7 DEF Listed
<1> HIDE DEF n, e
<1>a. t = MadeRoom(log[d], e, n) /\ GoodLog(d, log[d])
  BY LogFacts DEF MadeRoom
<1> HIDE DEF t
<1>b. DstOf(n.msg) = d
  BY <1>7
<1>9. /\ GoodLog(d, t) /\ Len(t) = Len(log[d]) - e + 1
      /\ \A r : InList(t, r) => InList(log[d], r) \/ (r[1] = n.msg /\ r[2] \in n.buf)
  <2>1. GoodLog(d, log[d])
    BY <1>a
  <2>2. e \in 0..Len(log[d])
    BY <1>5
  <2>3. GoodNode(n)
    BY <1>7
  <2> QED
    BY <1>8, <1>a, <1>b, <2>1, <2>2, <2>3, MakingRoomIsGood
<1>10. \A r \in Packet : InList(t, r) => InList(log[d], r) \/ r = p
  BY <1>7, <1>9, PacketType
<1>11. Len(t) = qlen[d] - e + 1 /\ Len(t) <= QueueSize
  BY <1>4, <1>5, <1>9
<1>12. Becomes(d, t, Len(t)) \/ Becomes(d, <<>>, 0)
  BY <1>1, <1>3, <1>9, <1>11, KeptBecomes
<1> QED
  BY <1>10, <1>12, EmptyIsGood

LEMMA ReceiveBecomes ==
  ASSUME LogInv, NEW d \in Dst, NEW p \in Packet, Receive(d, p)
  PROVE  \E s, q : /\ Becomes(d, s, q)
                   /\ \A r \in Packet : InList(s, r) => InList(log[d], r) \/ r = p
<1>1. pos[d] = 0 /\ UNCHANGED pos /\ mode[d] \in {"ok", "torn"} /\ DstOf(p[1]) = d
  BY DEF Receive
<1>2. CASE ReceiveMore(d, p)
  BY <1>1, <1>2, ReceiveMoreBecomes
<1>3. CASE ReceiveFirst(d, p)
  BY <1>1, <1>3, ReceiveFirstBecomes
<1>4. CASE ReceiveSpins(d, p)
  <2>1. Emptied(d) /\ mode' = [mode EXCEPT ![d] = "spins"]
    BY <1>4 DEF ReceiveSpins
  <2>2. Becomes(d, <<>>, (qlen[d] - Len(log[d])) % WordMod)
    BY <1>1, <2>1, EmptiedBecomes
  <2> QED
    BY <2>2, EmptyIsGood
<1> QED
  BY <1>2, <1>3, <1>4 DEF Receive

LEMMA DropBecomes ==
  ASSUME LogInv, NEW d \in Dst, mode[d] = "ok", pos[d] > 0, DropCurrent(d), UNCHANGED mode
  PROVE  \E s, q : /\ Becomes(d, s, q)
                   /\ \A r : InList(s, r) => InList(log[d], r) /\ r[1] # Current(d).msg
<1> DEFINE l == log[d]
           k == pos[d]
           t == SubSeq(l, 1, k - 1) \o SubSeq(l, k + 1, Len(l))
<1>1. /\ GoodLog(d, l) /\ Len(l) \in Nat /\ k \in 1..Len(l)
      /\ qlen[d] = Len(l) /\ Len(l) <= QueueSize
  BY LogFacts
<1>2. /\ log' = [log EXCEPT ![d] = t] /\ qlen' = [qlen EXCEPT ![d] = (qlen[d] - 1) % WordMod]
      /\ pos' = [pos EXCEPT ![d] = IF k > Len(l) - 1 THEN 0 ELSE k]
  BY DEF DropCurrent, MoveTo
<1>a. t = SubSeq(l, 1, k - 1) \o SubSeq(l, k + 1, Len(l))
  OBVIOUS
<1> HIDE DEF t, l, k
<1>3. /\ GoodLog(d, t) /\ Len(t) = Len(l) - 1
      /\ \A r : InList(t, r) => InList(l, r) /\ r[1] # l[k].msg
  <2>1. GoodLog(d, l)
    BY <1>1
  <2>2. k \in 1..Len(l)
    BY <1>1
  <2> QED
    BY ONLY <1>a, <2>1, <2>2, DropIsGood, ZenonT(30)
<1>4. (qlen[d] - 1) % WordMod = Len(l) - 1 /\ Len(l) - 1 \in 0..(WordMod - 1)
  <2>1. Len(l) - 1 \in 0..(WordMod - 1)
    <3>1. \A x \in Nat, c, w \in Nat : x >= 1 /\ x <= c /\ w > c + 1 => x - 1 \in 0..(w - 1)
      OBVIOUS
    <3>2. Len(l) >= 1 /\ QueueSize \in Nat
      BY <1>1, Words
    <3> QED
      BY <1>1, <3>1, <3>2, Words
  <2> QED
    BY <1>1, <2>1, Words
<1>5. pos \in [Dst -> Nat] /\ mode'[d] = "ok" /\ \A e \in Dst \ {d} : mode'[e] = mode[e]
  BY DEF LogInv, TypeOK
<1>6. pos'[d] <= Len(t) /\ \A e \in Dst \ {d} : pos'[e] = pos[e]
  BY <1>1, <1>2, <1>3, <1>5
<1>7. Len(t) <= QueueSize
  <2>1. \A x, c \in Nat : x <= c => x - 1 <= c
    OBVIOUS
  <2> QED
    BY <1>1, <1>3, <2>1, Words
<1>8. Becomes(d, t, Len(t))
  BY <1>2, <1>3, <1>4, <1>5, <1>6, <1>7 DEF Becomes
<1> QED
  BY <1>3, <1>8 DEF Current, l, k

\* What a turn of a pass may do to the messages processed: none, or the whole
\* message under way, which leaves the list.
ProcessesOnly(d, s) ==
  \/ UNCHANGED done
  \/ \E m \in Message :
       /\ done' = [done EXCEPT ![m] = @ + 1]
       /\ \A r \in Packet : r[1] = m => InList(log[d], r) /\ ~InList(s, r) /\ DstOf(m) = d

LEMMA WholeIsListed ==
  ASSUME LogInv, NEW d \in Dst, pos[d] > 0, Whole(Current(d))
  PROVE  /\ Current(d).msg \in Message /\ DstOf(Current(d).msg) = d
         /\ \A r \in Packet : r[1] = Current(d).msg => InList(log[d], r)
<1>1. pos[d] \in 1..Len(log[d]) /\ GoodLog(d, log[d])
  BY LogFacts
<1>2. GoodNode(Current(d)) /\ DstOf(Current(d).msg) = d
  BY <1>1 DEF GoodLog, Current
<1>3. Current(d).msg \in Message /\ Current(d).buf = 1..Packets[Current(d).msg]
  BY <1>2 DEF GoodNode, Node
<1> QED
  BY <1>1, <1>2, <1>3, PacketType DEF InList, Current

LEMMA LookBecomes ==
  ASSUME LogInv, NEW d \in Dst, Look(d)
  PROVE  \E s, q : /\ Becomes(d, s, q)
                   /\ \A r : InList(s, r) => InList(log[d], r)
                   /\ ProcessesOnly(d, s)
<1>1. mode[d] = "ok" /\ pos[d] > 0
  BY DEF Look
<1>2. CASE DropExpired(d) \/ DropUnreadable(d)
  <2>1. DropCurrent(d) /\ UNCHANGED <<mode, done>>
    BY <1>2 DEF DropExpired, DropUnreadable
  <2> QED
    BY <1>1, <2>1, DropBecomes DEF ProcessesOnly
<1>3. CASE PassOver(d)
  <2>1. /\ UNCHANGED <<log, qlen, mode, done>>
        /\ pos' = [pos EXCEPT ![d] = IF pos[d] + 1 > Len(log[d]) THEN 0 ELSE pos[d] + 1]
    BY <1>3 DEF PassOver, MoveTo
  <2>2. /\ log \in [Dst -> Seq(Node)] /\ qlen \in [Dst -> 0..(WordMod - 1)]
        /\ pos \in [Dst -> Nat]
    BY DEF LogInv, TypeOK
  <2>3. log' = [log EXCEPT ![d] = log[d]] /\ qlen' = [qlen EXCEPT ![d] = qlen[d]]
    BY <2>1, <2>2
  <2>4. pos'[d] <= Len(log[d]) /\ \A e \in Dst \ {d} : pos'[e] = pos[e]
    BY <2>1, <2>2, LogFacts
  <2>5. Becomes(d, log[d], qlen[d])
    BY <1>1, <2>1, <2>3, <2>4, LogFacts DEF Becomes
  <2> QED
    BY <2>1, <2>5 DEF ProcessesOnly
<1>4. CASE Process(d)
  <2>1. /\ Whole(Current(d)) /\ DropCurrent(d) /\ UNCHANGED mode
        /\ done' = [done EXCEPT ![Current(d).msg] = @ + 1]
    BY <1>4 DEF Process
  <2>2. PICK s, q : /\ Becomes(d, s, q)
                    /\ \A r : InList(s, r) => InList(log[d], r) /\ r[1] # Current(d).msg
    BY <1>1, <2>1, DropBecomes
  <2>3. ProcessesOnly(d, s)
    BY <1>1, <2>1, <2>2, WholeIsListed DEF ProcessesOnly
  <2> QED
    BY <2>2, <2>3
<1>5. CASE ProcessAndSleep(d)
  <2>1. /\ Whole(Current(d)) /\ log' = [log EXCEPT ![d] = <<>>]
        /\ qlen' = [qlen EXCEPT ![d] = (qlen[d] - Len(log[d]) - 1) % WordMod]
        /\ pos' = [pos EXCEPT ![d] = 0]
        /\ done' = [done EXCEPT ![Current(d).msg] = @ + 1]
        /\ mode' = [mode EXCEPT ![d] = "torn"] \/ mode' = [mode EXCEPT ![d] = "crashed"]
    BY <1>5 DEF ProcessAndSleep
  <2>2. qlen[d] = Len(log[d]) /\ Len(log[d]) \in Nat
    BY <1>1, LogFacts
  <2>3. (qlen[d] - Len(log[d]) - 1) % WordMod = WordMod - 1 /\ WordMod - 1 \in 0..(WordMod - 1)
    <3>1. \A x \in Int : x - x - 1 = 0 - 1
      OBVIOUS
    <3>2. qlen[d] - Len(log[d]) - 1 = 0 - 1
      BY <2>2, <3>1
    <3> QED
      BY <3>2, Words
  <2>4. /\ pos \in [Dst -> Nat] /\ mode \in [Dst -> {"ok", "torn", "crashed", "spins"}]
    BY DEF LogInv, TypeOK
  <2>5. /\ \A e \in Dst \ {d} : mode'[e] = mode[e] /\ pos'[e] = pos[e]
        /\ mode'[d] # "ok" /\ pos'[d] = 0
    BY <2>1, <2>4
  <2>a. GoodLog(d, <<>>)
    BY EmptyIsGood
  <2>6. GoodLog(d, <<>>) /\ Len(<<>>) = 0
    BY <2>a
  <2>7. Becomes(d, <<>>, WordMod - 1)
    <3>1. pos'[d] <= Len(<<>>)
      BY <2>5, <2>6
    <3>2. qlen' = [qlen EXCEPT ![d] = WordMod - 1]
      BY <2>1, <2>3
    <3> QED
      BY <2>1, <2>3, <2>5, <2>a, <3>1, <3>2 DEF Becomes
  <2>8. ProcessesOnly(d, <<>>)
    BY <1>1, <2>1, WholeIsListed, EmptyIsGood DEF ProcessesOnly
  <2> QED
    BY <2>7, <2>8, EmptyIsGood
<1> QED
  BY <1>2, <1>3, <1>4, <1>5 DEF Look

-----------------------------------------------------------------------------
(* The count of copies. *)

\* What of the copies of p is used up, waits in the log s or is under way.
Used(c, s, n, p) == c[p[1]] + n[p] + (IF InList(s, p) THEN 1 ELSE 0)

LEMMA UsesUpByList ==
  UsesUpItsPackets <=> \A p \in Packet : Used(done, log[DstOf(p[1])], net, p) <= copies[p]
BY DEF UsesUpItsPackets, Used, InLog, InList

LEMMA CountTypes ==
  ASSUME LogInv
  PROVE  /\ net \in [Packet -> Nat] /\ copies \in [Packet -> Nat]
         /\ done \in [Message -> Nat] /\ log \in [Dst -> Seq(Node)]
         /\ RestTyped
BY DEF LogInv, TypeOK, RestTyped

LEMMA SameLogInv ==
  ASSUME LogInv, UNCHANGED <<log, qlen, pos, mode>>, RestTyped'
  PROVE  LogInv'
<1>1. TypeOK'
  BY DEF LogInv, TypeOK, RestTyped
<1> QED
  BY <1>1 DEF LogInv, GoodLogs, PassInside, QueueLenIsLength, TornCount

LEMMA EmitCounts ==
  ASSUME LogInv, UsesUpItsPackets, NEW m \in Message, NEW k \in Int, Emit(m, k),
         UNCHANGED <<log, done>>
  PROVE  /\ net' \in [Packet -> Nat] /\ copies' \in [Packet -> Nat]
         /\ UsesUpItsPackets'
         /\ \A p \in Packet : p[1] # m \/ p[2] > k => copies'[p] = copies[p]
<1>1. /\ net \in [Packet -> Nat] /\ copies \in [Packet -> Nat] /\ done \in [Message -> Nat]
  BY CountTypes
<1>2. \A p \in Packet : p[1] \in Message /\ p[2] \in Int
  BY PacketType, MessageAssumption
<1>3. net' \in [Packet -> Nat] /\ copies' \in [Packet -> Nat]
  BY <1>1 DEF Emit
<1>4. \A p \in Packet :
        /\ p[1] = m /\ p[2] <= k => net'[p] = net[p] + 1 /\ copies'[p] = copies[p] + 1
        /\ ~(p[1] = m /\ p[2] <= k) => net'[p] = net[p] /\ copies'[p] = copies[p]
  BY <1>1 DEF Emit
<1>5. UsesUpItsPackets'
  <2> SUFFICES ASSUME NEW p \in Packet
               PROVE  Used(done, log[DstOf(p[1])], net', p) <= copies'[p]
    BY UsesUpByList DEF UsesUpItsPackets, Used, InLog, InList
  <2>1. Used(done, log[DstOf(p[1])], net, p) <= copies[p]
    BY UsesUpByList
  <2>2. done[p[1]] \in Nat /\ net[p] \in Nat /\ copies[p] \in Nat
    BY <1>1, <1>2
  <2> QED
    BY <1>4, <2>1, <2>2 DEF Used
<1>6. \A p \in Packet : p[1] # m \/ p[2] > k => copies'[p] = copies[p]
  BY <1>2, <1>4
<1> QED
  BY <1>3, <1>5, <1>6

LEMMA SurfKeepsInv == ASSUME Inv, NEW m \in Message, Surf(m) PROVE Inv'
<1>1. /\ LogInv /\ UsesUpItsPackets /\ UnsentIsSilent /\ RestTyped
      /\ m \in unsent /\ m \in Emigration /\ unsent' = unsent \ {m}
      /\ UNCHANGED <<up, log, qlen, pos, deaf, mode, subnet, done>>
  BY CountTypes DEF Inv, Surf, receiverVars
<1>2. CASE ~HandsOver(m)
  <2>1. home' = home \ {CellOf[m]} /\ UNCHANGED <<cap, net, copies>>
    BY <1>2 DEF Surf
  <2>2. RestTyped'
    BY <1>1, <2>1 DEF RestTyped
  <2>3. LogInv'
    BY <1>1, <2>2, SameLogInv
  <2>4. UsesUpItsPackets'
    BY <1>1, <2>1 DEF UsesUpItsPackets, InLog
  <2>5. UnsentIsSilent'
    BY <1>1, <2>1 DEF UnsentIsSilent
  <2> QED
    BY <2>3, <2>4, <2>5 DEF Inv
<1>3. CASE HandsOver(m)
  <2>1. PICK k \in 0..Fitting(m) :
          /\ Emit(m, k)
          /\ cap' = IF DstOf(m) = "server" THEN Charged(k) ELSE cap
          /\ home' = home \ {CellOf[m]} \/ (k < Packets[m] /\ home' = home)
    BY <1>3 DEF Surf
  <2>2. k \in Nat /\ cap \in Nat \cup {-1} /\ Packets[m] \in Nat \ {0}
    BY <1>1, <2>1, MessageAssumption DEF RestTyped, Fitting
  <2>3. cap' \in Nat \cup {-1}
    BY <2>1, <2>2 DEF Charged
  <2>4. /\ net' \in [Packet -> Nat] /\ copies' \in [Packet -> Nat]
        /\ UsesUpItsPackets'
        /\ \A p \in Packet : p[1] # m \/ p[2] > k => copies'[p] = copies[p]
    BY <1>1, <2>1, <2>2, EmitCounts
  <2>5. RestTyped'
    BY <1>1, <2>1, <2>3, <2>4 DEF RestTyped
  <2>6. LogInv'
    BY <1>1, <2>5, SameLogInv
  <2>7. \A p \in Packet : p[1] \in unsent' => copies'[p] = 0
    BY <1>1, <2>4 DEF UnsentIsSilent
  <2>8. ASSUME NEW n \in Emigration, CellOf[n] \in home'
        PROVE  copies'[<<n, Packets[n]>>] = 0
    <3>1. CellOf[n] \in home /\ copies[<<n, Packets[n]>>] = 0
      BY <1>1, <2>1, <2>8 DEF UnsentIsSilent
    <3>2. n \in Message /\ Packets[n] \in 1..Packets[n] /\ <<n, Packets[n]>> \in Packet
      <4>1. n \in Message /\ Packets[n] \in Nat \ {0}
        BY MessageAssumption DEF Emigration
      <4> QED
        BY <4>1, PacketType
    <3>3. CASE n # m
      BY <2>4, <3>1, <3>2, <3>3
    <3>4. CASE n = m
      <4>1. k < Packets[m]
        BY <2>1, <2>8, <3>4
      <4> QED
        BY <2>2, <2>4, <3>1, <3>2, <3>4, <4>1
    <3> QED
      BY <3>3, <3>4
  <2> QED
    BY <2>4, <2>6, <2>7, <2>8 DEF Inv, UnsentIsSilent
<1> QED
  BY <1>2, <1>3

LEMMA SendHeraldKeepsInv == ASSUME Inv, NEW h \in Herald, SendHerald(h) PROVE Inv'
<1>1. /\ LogInv /\ UsesUpItsPackets /\ UnsentIsSilent /\ RestTyped
      /\ unsent' = unsent \ {h} /\ Emit(h, 1) /\ h \in Message /\ h \notin Emigration
      /\ UNCHANGED <<cap, up, home, log, qlen, pos, deaf, mode, subnet, done>>
  BY CountTypes, MessageAssumption DEF Inv, SendHerald, receiverVars, Emigration
<1>2. /\ net' \in [Packet -> Nat] /\ copies' \in [Packet -> Nat]
      /\ UsesUpItsPackets'
      /\ \A p \in Packet : p[1] # h \/ p[2] > 1 => copies'[p] = copies[p]
  BY <1>1, EmitCounts
<1>3. LogInv'
  <2>1. RestTyped'
    BY <1>1, <1>2 DEF RestTyped
  <2> QED
    BY <1>1, <2>1, SameLogInv
<1>4. \A n \in Emigration : /\ <<n, Packets[n]>> \in Packet /\ n # h
                            /\ copies'[<<n, Packets[n]>>] = copies[<<n, Packets[n]>>]
  <2> TAKE n \in Emigration
  <2>1. n \in Message /\ Packets[n] \in Nat \ {0}
    BY MessageAssumption DEF Emigration
  <2>2. <<n, Packets[n]>> \in Packet /\ n # h
    BY <1>1, <2>1, PacketType
  <2> QED
    BY <1>2, <2>2
<1>5. UnsentIsSilent'
  BY <1>1, <1>2, <1>4 DEF UnsentIsSilent
<1> QED
  BY <1>2, <1>3, <1>5 DEF Inv

\* The server talks: only the capacity and its being up change.
LEMMA ServerKeepsInv ==
  ASSUME Inv, ReplyToServer \/ ServerBye \/ \E g \in Grants : Grant(g)
  PROVE  Inv'
<1>1. /\ LogInv /\ UsesUpItsPackets /\ UnsentIsSilent /\ RestTyped
  BY CountTypes DEF Inv
<1>2. /\ UNCHANGED <<home, unsent, net, copies, log, qlen, pos, deaf, mode, subnet, done>>
      /\ cap' \in Nat \cup {-1} /\ up' \in BOOLEAN
  <2>1. Charged(1) \in Nat \cup {-1}
    BY <1>1 DEF Charged, RestTyped
  <2> QED
    BY <1>1, <2>1, MessageAssumption
       DEF ReplyToServer, ServerBye, Grant, receiverVars, RestTyped
<1>3. RestTyped'
  BY <1>1, <1>2 DEF RestTyped
<1>4. LogInv'
  BY <1>1, <1>2, <1>3, SameLogInv
<1>5. UsesUpItsPackets' /\ UnsentIsSilent'
  BY <1>1, <1>2 DEF UsesUpItsPackets, InLog, UnsentIsSilent
<1> QED
  BY <1>4, <1>5 DEF Inv

LEMMA NetworkKeepsInv ==
  ASSUME Inv, NEW p \in Packet, Lose(p) \/ Duplicate(p)
  PROVE  Inv'
<1>1. /\ LogInv /\ UsesUpItsPackets /\ UnsentIsSilent /\ RestTyped
      /\ UNCHANGED <<cap, up, home, unsent, log, qlen, pos, deaf, mode, subnet, done>>
  BY CountTypes DEF Inv, Lose, Duplicate, senderVars, receiverVars
<1>2. /\ net \in [Packet -> Nat] /\ copies \in [Packet -> Nat] /\ done \in [Message -> Nat]
      /\ \A r \in Packet : done[r[1]] \in Nat /\ net[r] \in Nat /\ copies[r] \in Nat
  BY CountTypes, PacketType, <1>1
<1>3. net[p] > 0 /\ \E x \in {-1, 1} :
        /\ net' = [net EXCEPT ![p] = net[p] + x]
        /\ copies' = IF x = 1 THEN [copies EXCEPT ![p] = copies[p] + 1] ELSE copies
  BY <1>2 DEF Lose, Duplicate
<1>4. net' \in [Packet -> Nat] /\ copies' \in [Packet -> Nat]
  BY <1>2, <1>3
<1>5. \A r \in Packet : /\ net'[r] - net[r] <= copies'[r] - copies[r]
                        /\ r # p => copies'[r] = copies[r]
  BY <1>2, <1>3
<1>6. LogInv'
  <2>1. RestTyped'
    BY <1>1, <1>4 DEF RestTyped
  <2> QED
    BY <1>1, <2>1, SameLogInv
<1>7. UsesUpItsPackets'
  <2> SUFFICES ASSUME NEW r \in Packet
               PROVE  Used(done, log[DstOf(r[1])], net', r) <= copies'[r]
    BY <1>1, UsesUpByList DEF UsesUpItsPackets, Used, InLog, InList
  <2>1. Used(done, log[DstOf(r[1])], net, r) <= copies[r]
    BY <1>1, UsesUpByList
  <2>2. net'[r] \in Nat /\ copies'[r] \in Nat
    BY <1>4
  <2> QED
    BY <1>2, <1>5, <2>1, <2>2 DEF Used
<1>8. copies[p] # 0
  <2>1. Used(done, log[DstOf(p[1])], net, p) <= copies[p]
    BY <1>1, UsesUpByList
  <2> QED
    BY <1>2, <1>3, <2>1 DEF Used
<1>9. UnsentIsSilent'
  <2>1. \A n \in Emigration : <<n, Packets[n]>> \in Packet
    <3> TAKE n \in Emigration
    <3>1. n \in Message /\ Packets[n] \in Nat \ {0}
      BY MessageAssumption DEF Emigration
    <3> QED
      BY <3>1, PacketType
  <2> QED
    BY <1>1, <1>5, <1>8, <2>1 DEF UnsentIsSilent
<1> QED
  BY <1>6, <1>7, <1>9 DEF Inv

-----------------------------------------------------------------------------
(* The steps of the receivers. *)

LEMMA BecomesLog ==
  ASSUME LogInv, NEW d \in Dst, NEW s, NEW q, Becomes(d, s, q)
  PROVE  log'[d] = s /\ \A e \in Dst \ {d} : log'[e] = log[e]
BY CountTypes DEF Becomes

\* A step that only takes copies out of the network and the log of d.
LEMMA ShrinkKeepsCounts ==
  ASSUME LogInv, UsesUpItsPackets, UnsentIsSilent, NEW d \in Dst, NEW s, NEW q,
         Becomes(d, s, q), \A r \in Packet : InList(s, r) => InList(log[d], r),
         UNCHANGED <<unsent, home, copies, done>>, net' \in [Packet -> Nat],
         \A r \in Packet : net'[r] <= net[r]
  PROVE  UsesUpItsPackets' /\ UnsentIsSilent'
<1>1. log'[d] = s /\ \A e \in Dst \ {d} : log'[e] = log[e]
  BY BecomesLog
<1>2. ASSUME NEW r \in Packet PROVE Used(done, log'[DstOf(r[1])], net', r) <= copies[r]
  <2>1. Used(done, log[DstOf(r[1])], net, r) <= copies[r]
    BY UsesUpByList
  <2>2. done[r[1]] \in Nat /\ net[r] \in Nat /\ copies[r] \in Nat /\ net'[r] \in Nat
    BY CountTypes, PacketType
  <2>3. InList(log'[DstOf(r[1])], r) => InList(log[DstOf(r[1])], r)
    BY <1>1, DstType, PacketType
  <2> QED
    BY <2>1, <2>2, <2>3 DEF Used
<1>3. UsesUpItsPackets'
  BY <1>2 DEF UsesUpItsPackets, Used, InLog, InList
<1> QED
  BY <1>3 DEF UnsentIsSilent

LEMMA ReceiveKeepsInv ==
  ASSUME Inv, NEW d \in Dst, NEW p \in Packet, Receive(d, p)
  PROVE  Inv'
<1>1. /\ LogInv /\ UsesUpItsPackets /\ UnsentIsSilent /\ RestTyped
      /\ UNCHANGED <<cap, up, home, unsent, copies, pos, deaf, subnet, done>>
      /\ net[p] > 0 /\ DstOf(p[1]) = d /\ net' = [net EXCEPT ![p] = net[p] - 1]
      /\ mode' = mode \/ mode' = [mode EXCEPT ![d] = "spins"]
  BY CountTypes DEF Inv, Receive, senderVars, ReceiveMore, ReceiveFirst, ReceiveSpins
<1>2. PICK s, q : /\ Becomes(d, s, q)
                  /\ \A r \in Packet : InList(s, r) => InList(log[d], r) \/ r = p
  BY <1>1, ReceiveBecomes
<1>3. \A r \in Packet : done[r[1]] \in Nat /\ net[r] \in Nat /\ copies[r] \in Nat
  BY <1>1, CountTypes, PacketType
<1>4. /\ net' \in [Packet -> Nat] /\ net'[p] = net[p] - 1
      /\ \A r \in Packet \ {p} : net'[r] = net[r]
  BY <1>1, <1>3, CountTypes
<1>5. LogInv'
  <2>1. mode' \in [Dst -> {"ok", "torn", "crashed", "spins"}]
    BY <1>1 DEF RestTyped
  <2>2. RestTyped'
    BY <1>1, <1>4, <2>1 DEF RestTyped
  <2> QED
    BY <1>1, <1>2, <2>2, BecomesKeepsLogInv
<1>6. log'[d] = s /\ \A e \in Dst \ {d} : log'[e] = log[e]
  BY <1>1, <1>2, BecomesLog
<1>7. ASSUME NEW r \in Packet PROVE Used(done, log'[DstOf(r[1])], net', r) <= copies[r]
  <2>1. Used(done, log[DstOf(r[1])], net, r) <= copies[r]
    BY <1>1, UsesUpByList
  <2>2. InList(log'[DstOf(r[1])], r) => InList(log[DstOf(r[1])], r) \/ r = p
    BY <1>2, <1>6, DstType, PacketType
  <2> QED
    BY <1>3, <1>4, <2>1, <2>2 DEF Used
<1>8. UsesUpItsPackets'
  BY <1>1, <1>7 DEF UsesUpItsPackets, Used, InLog, InList
<1>9. UnsentIsSilent'
  BY <1>1 DEF UnsentIsSilent
<1> QED
  BY <1>5, <1>8, <1>9 DEF Inv

\* An emptied log is left behind by a receive error, a flush and a reopening.
LEMMA EmptyingKeepsInv ==
  ASSUME Inv, NEW d \in Dst, ReceiveError(d) \/ Flush(d) \/ Reopen(d)
  PROVE  Inv'
<1>1. /\ LogInv /\ UsesUpItsPackets /\ UnsentIsSilent /\ RestTyped
      /\ UNCHANGED <<cap, up, home, unsent, copies, pos, subnet, done>> /\ pos[d] = 0
  BY CountTypes DEF Inv, ReceiveError, Flush, Reopen, senderVars
<1>2. /\ net' \in [Packet -> Nat] /\ \A r \in Packet : net'[r] <= net[r]
  <2>1. net \in [Packet -> Nat]
    BY <1>1, CountTypes
  <2>2. CASE UNCHANGED net
    BY <2>1, <2>2
  <2>3. CASE Flush(d)
    <3>1. PICK S : net' = [r \in Packet |-> IF r \in S THEN 0 ELSE net[r]]
      BY <2>3 DEF Flush
    <3> QED
      BY <2>1, <3>1
  <2> QED
    BY <2>2, <2>3 DEF ReceiveError, Reopen
<1>3. deaf' \in [Dst -> BOOLEAN] /\ mode' \in [Dst -> {"ok", "torn", "crashed", "spins"}]
  BY <1>1 DEF RestTyped, ReceiveError, Flush, Reopen
<1>4. \E q : Becomes(d, <<>>, q)
  <2>1. CASE Emptied(d) /\ UNCHANGED mode
    BY <1>1, <2>1, EmptiedBecomes
  <2>2. CASE Reopen(d)
    <3>1. /\ log' = [log EXCEPT ![d] = <<>>] /\ qlen' = [qlen EXCEPT ![d] = 0]
          /\ mode' = [mode EXCEPT ![d] = "ok"] /\ pos' = pos
      BY <2>2 DEF Reopen
    <3>2. /\ mode'[d] = "ok" /\ \A e \in Dst \ {d} : mode'[e] = mode[e]
      BY <1>1, <3>1 DEF RestTyped
    <3>3. 0 \in 0..(WordMod - 1) /\ 0 <= QueueSize
      BY Words
    <3>4. GoodLog(d, <<>>)
      BY EmptyIsGood
    <3>5. Len(<<>>) = 0 /\ pos'[d] = 0
      BY <1>1
    <3>6. Becomes(d, <<>>, 0)
      BY <3>1, <3>2, <3>3, <3>4, <3>5 DEF Becomes
    <3> QED
      BY <3>6
  <2> QED
    BY <2>1, <2>2 DEF ReceiveError, Flush
<1>5. PICK q : Becomes(d, <<>>, q)
  BY <1>4
<1>6. RestTyped'
  BY <1>1, <1>2, <1>3 DEF RestTyped
<1>7. LogInv'
  BY <1>1, <1>5, <1>6, BecomesKeepsLogInv
<1>8. UsesUpItsPackets' /\ UnsentIsSilent'
  BY <1>1, <1>2, <1>5, EmptyIsGood, ShrinkKeepsCounts
<1> QED
  BY <1>7, <1>8 DEF Inv

LEMMA BeginKeepsInv == ASSUME Inv, NEW d \in Dst, Begin(d) PROVE Inv'
<1>1. /\ LogInv /\ UsesUpItsPackets /\ UnsentIsSilent /\ RestTyped
      /\ UNCHANGED <<cap, up, home, unsent, net, copies, log, qlen, deaf, mode, subnet, done>>
      /\ pos' = [pos EXCEPT ![d] = 1] /\ mode[d] = "ok" /\ log[d] # <<>>
  BY CountTypes DEF Inv, Begin, senderVars
<1>2. Len(log[d]) >= 1
  <2>1. log[d] \in Seq(Node)
    BY <1>1, LogFacts
  <2> QED
    BY <1>1, <2>1, EmptySeq
<1>3. /\ pos' \in [Dst -> Nat] /\ pos'[d] = 1 /\ \A e \in Dst \ {d} : pos'[e] = pos[e]
  BY <1>1 DEF RestTyped
<1>4. TypeOK'
  BY <1>1, <1>3 DEF LogInv, TypeOK
<1>5. PassInside'
  BY <1>1, <1>2, <1>3 DEF LogInv, PassInside
<1>6. LogInv'
  BY <1>1, <1>4, <1>5 DEF LogInv, GoodLogs, QueueLenIsLength, TornCount
<1>7. UsesUpItsPackets' /\ UnsentIsSilent'
  BY <1>1 DEF UsesUpItsPackets, InLog, UnsentIsSilent
<1> QED
  BY <1>6, <1>7 DEF Inv

LEMMA LookKeepsInv == ASSUME Inv, NEW d \in Dst, Look(d) PROVE Inv'
<1>1. /\ LogInv /\ UsesUpItsPackets /\ UnsentIsSilent /\ RestTyped
      /\ UNCHANGED <<cap, up, home, unsent, net, copies, deaf>>
  BY CountTypes DEF Inv, Look, senderVars
<1>2. PICK s, q : /\ Becomes(d, s, q)
                  /\ \A r : InList(s, r) => InList(log[d], r)
                  /\ ProcessesOnly(d, s)
  BY <1>1, LookBecomes
<1>3. \A r \in Packet : /\ r[1] \in Message /\ done[r[1]] \in Nat
                        /\ net[r] \in Nat /\ copies[r] \in Nat
  BY <1>1, CountTypes, PacketType
<1>4. done' \in [Message -> Nat]
  BY <1>1, <1>2 DEF ProcessesOnly, RestTyped
<1>5. RestTyped'
  <2>1. /\ pos' \in [Dst -> Nat]
        /\ mode' \in [Dst -> {"ok", "torn", "crashed", "spins"}]
    <3>1. pos[d] \in Nat /\ Len(log[d]) \in Nat
      BY <1>1, LogFacts
    <3>2. pos[d] + 1 \in Nat /\ 0 \in Nat
      BY <3>1
    <3>3. pos' = pos \/ \E i \in Nat : pos' = [pos EXCEPT ![d] = i]
      BY <3>1, <3>2 DEF Look, DropExpired, DropUnreadable, PassOver, Process, ProcessAndSleep, DropCurrent, MoveTo
    <3>4. \/ mode' = mode
          \/ \E fate \in {"torn", "crashed"} : mode' = [mode EXCEPT ![d] = fate]
      BY DEF Look, DropExpired, DropUnreadable, PassOver, Process, ProcessAndSleep
    <3> QED
      BY <1>1, <3>3, <3>4 DEF RestTyped
  <2>2. subnet' \in Herald \cup {NoSubnet}
    BY <1>1 DEF RestTyped, Look, DropExpired, DropUnreadable, PassOver, Process, ProcessAndSleep
  <2> QED
    BY <1>1, <1>4, <2>1, <2>2 DEF RestTyped
<1>6. LogInv'
  BY <1>1, <1>2, <1>5, BecomesKeepsLogInv
<1>7. log'[d] = s /\ \A e \in Dst \ {d} : log'[e] = log[e]
  BY <1>1, <1>2, BecomesLog
<1>8. ASSUME NEW r \in Packet PROVE Used(done', log'[DstOf(r[1])], net, r) <= copies[r]
  <2>1. Used(done, log[DstOf(r[1])], net, r) <= copies[r]
    BY <1>1, UsesUpByList
  <2>2. InList(log'[DstOf(r[1])], r) => InList(log[DstOf(r[1])], r)
    BY <1>2, <1>7, <1>3, DstType
  <2>3. CASE UNCHANGED done
    BY <1>3, <2>1, <2>2, <2>3 DEF Used
  <2>4. ASSUME NEW m \in Message, done' = [done EXCEPT ![m] = @ + 1],
               \A x \in Packet : x[1] = m =>
                 InList(log[d], x) /\ ~InList(s, x) /\ DstOf(m) = d
        PROVE  Used(done', log'[DstOf(r[1])], net, r) <= copies[r]
    <3>1. CASE r[1] = m
      <4>1. /\ done'[r[1]] = done[r[1]] + 1
            /\ InList(log[DstOf(r[1])], r) /\ ~InList(log'[DstOf(r[1])], r)
        BY <1>1, <1>3, <1>7, <2>4, <3>1, CountTypes
      <4> QED
        BY <1>3, <2>1, <4>1 DEF Used
    <3>2. CASE r[1] # m
      <4>1. done'[r[1]] = done[r[1]]
        BY <1>1, <1>3, <2>4, <3>2, CountTypes
      <4> QED
        BY <1>3, <2>1, <2>2, <4>1 DEF Used
    <3> QED
      BY <3>1, <3>2
  <2> QED
    BY <1>2, <2>3, <2>4 DEF ProcessesOnly
<1>9. UsesUpItsPackets'
  BY <1>1, <1>8 DEF UsesUpItsPackets, Used, InLog, InList
<1>10. UnsentIsSilent'
  BY <1>1 DEF UnsentIsSilent
<1> QED
  BY <1>6, <1>9, <1>10 DEF Inv

LEMMA TickKeepsInv == ASSUME Inv, Tick PROVE Inv'
<1>1. /\ LogInv /\ UsesUpItsPackets /\ UnsentIsSilent /\ RestTyped
      /\ UNCHANGED <<cap, up, home, unsent, net, copies, qlen, pos, deaf, mode, subnet, done>>
      /\ log' = [d \in Dst |-> [i \in 1..Len(log[d]) |-> Aged(log[d][i])]]
  BY CountTypes DEF Inv, Tick, senderVars
<1>2. ASSUME NEW d \in Dst
      PROVE  /\ GoodLog(d, log'[d]) /\ Len(log'[d]) = Len(log[d])
             /\ \A r : InList(log'[d], r) => InList(log[d], r)
  <2>1. log'[d] = [i \in 1..Len(log[d]) |-> Aged(log[d][i])]
    BY <1>1
  <2> QED
    BY <1>1, <2>1, LogFacts, AgedLogIsGood
<1>3. \A d \in Dst : log'[d] \in Seq(Node) /\ (log[d] = <<>> => log'[d] = <<>>)
  <2> TAKE d \in Dst
  <2>1. log'[d] \in Seq(Node) /\ log[d] \in Seq(Node) /\ Len(log'[d]) = Len(log[d])
    BY <1>1, <1>2, LogFacts DEF GoodLog
  <2> QED
    BY <2>1, EmptySeq
<1>4. TypeOK'
  <2>1. log' \in [Dst -> Seq(Node)]
    BY <1>1, <1>3
  <2> QED
    BY <1>1, <2>1 DEF LogInv, TypeOK
<1>5. LogInv'
  BY <1>1, <1>2, <1>3, <1>4
     DEF LogInv, GoodLogs, PassInside, QueueLenIsLength, TornCount
<1>6. ASSUME NEW r \in Packet PROVE Used(done, log'[DstOf(r[1])], net, r) <= copies[r]
  <2>1. Used(done, log[DstOf(r[1])], net, r) <= copies[r]
    BY <1>1, UsesUpByList
  <2>2. done[r[1]] \in Nat /\ net[r] \in Nat /\ copies[r] \in Nat
    BY <1>1, CountTypes, PacketType
  <2>3. InList(log'[DstOf(r[1])], r) => InList(log[DstOf(r[1])], r)
    BY <1>2, DstType, PacketType
  <2> QED
    BY <2>1, <2>2, <2>3 DEF Used
<1>7. UsesUpItsPackets' /\ UnsentIsSilent'
  BY <1>1, <1>6 DEF UsesUpItsPackets, Used, InLog, InList, UnsentIsSilent
<1> QED
  BY <1>5, <1>7 DEF Inv

-----------------------------------------------------------------------------
(* The theorems. *)

LEMMA InitInv == Init => Inv
<1> SUFFICES ASSUME Init PROVE Inv
  OBVIOUS
<1>1. \A p \in Packet : p[1] \in Message
  BY PacketType
<1>2. \A n \in Emigration : <<n, Packets[n]>> \in Packet
  <2> TAKE n \in Emigration
  <2>1. n \in Message /\ Packets[n] \in Nat \ {0}
    BY MessageAssumption DEF Emigration
  <2> QED
    BY <2>1, PacketType
<1>3. \A d \in Dst : log[d] = <<>> /\ qlen[d] = 0 /\ pos[d] = 0 /\ mode[d] = "ok"
  BY DEF Init
<1>4. Len(<<>>) = 0 /\ <<>> \in Seq(Node) /\ 0 \in 0..(WordMod - 1) /\ 0 <= QueueSize
  BY Words
<1>5. TypeOK
  BY <1>4 DEF Init, TypeOK
<1>6. LogInv
  BY <1>3, <1>4, <1>5, EmptyIsGood
     DEF LogInv, GoodLogs, PassInside, QueueLenIsLength, TornCount
<1>7. UsesUpItsPackets
  BY <1>1, <1>3, EmptyIsGood, DstType, UsesUpByList DEF Init, Used
<1>8. UnsentIsSilent
  BY <1>2 DEF Init, UnsentIsSilent
<1> QED
  BY <1>6, <1>7, <1>8 DEF Inv

LEMMA NextInv == Inv /\ [Next]_vars => Inv'
<1> SUFFICES ASSUME Inv, [Next]_vars PROVE Inv'
  OBVIOUS
<1>1. ASSUME NEW m \in Message, Surf(m) PROVE Inv'
  BY <1>1, SurfKeepsInv
<1>2. CASE ReplyToServer \/ ServerBye \/ \E g \in Grants : Grant(g)
  BY <1>2, ServerKeepsInv
<1>3. ASSUME NEW h \in Herald, SendHerald(h) PROVE Inv'
  BY <1>3, SendHeraldKeepsInv
<1>4. ASSUME NEW p \in Packet, Lose(p) \/ Duplicate(p) PROVE Inv'
  BY <1>4, NetworkKeepsInv
<1>5. ASSUME NEW d \in Dst, NEW p \in Packet, Receive(d, p) PROVE Inv'
  BY <1>5, ReceiveKeepsInv
<1>6. ASSUME NEW d \in Dst, ReceiveError(d) \/ Flush(d) \/ Reopen(d) PROVE Inv'
  BY <1>6, EmptyingKeepsInv
<1>8. ASSUME NEW d \in Dst, Begin(d) PROVE Inv'
  BY <1>8, BeginKeepsInv
<1>9. ASSUME NEW d \in Dst, Look(d) PROVE Inv'
  BY <1>9, LookKeepsInv
<1>10. CASE Tick
  BY <1>10, TickKeepsInv
<1>11. CASE UNCHANGED vars
  <2>1. UNCHANGED <<cap, up, home, unsent, net, copies, log, qlen, pos, deaf, mode, subnet, done>>
    BY <1>11 DEF vars, senderVars, receiverVars
  <2> QED
    BY <2>1 DEF Inv, LogInv, TypeOK, GoodLogs, PassInside, QueueLenIsLength, TornCount,
                UsesUpItsPackets, InLog, UnsentIsSilent
<1> QED
  BY <1>1, <1>2, <1>3, <1>4, <1>5, <1>6, <1>8, <1>9, <1>10, <1>11 DEF Next

LEMMA SpecInv == Spec => []Inv
BY InitInv, NextInv, PTL DEF Spec

\* A message that the log calls complete has all of its packets, whatever the
\* network loses, copies and reorders.
THEOREM CompleteIsWhole == Spec => []WholeMessage
<1>1. Inv => WholeMessage
  BY DEF Inv, LogInv, GoodLogs, GoodLog, GoodNode, WholeMessage
<1> QED
  BY <1>1, SpecInv, PTL

\* No message is processed more often than its rarest packet was sent and copied.
THEOREM ProcessedPerCopy == Spec => []UsesUpItsPackets
<1>1. Inv => UsesUpItsPackets
  BY DEF Inv
<1> QED
  BY <1>1, SpecInv, PTL

\* No cell lives at home and elsewhere: what is kept for want of bandwidth never
\* arrives.
THEOREM HomeOrAway == Spec => []NoTwins
<1>1. Inv => NoTwins
  <2> SUFFICES ASSUME Inv, NEW m \in Emigration, CellOf[m] \in home PROVE done[m] = 0
    BY DEF NoTwins
  <2> DEFINE p == <<m, Packets[m]>>
  <2>1. m \in Message /\ p \in Packet
    <3>1. m \in Message /\ Packets[m] \in Nat \ {0}
      BY MessageAssumption DEF Emigration
    <3> QED
      BY <3>1, PacketType
  <2>2. copies[p] = 0 /\ Used(done, log[DstOf(p[1])], net, p) <= copies[p]
    BY <2>1, UsesUpByList DEF Inv, UnsentIsSilent
  <2>3. net[p] \in Nat /\ done[m] \in Nat
    BY <2>1, CountTypes DEF Inv
  <2> QED
    BY <2>2, <2>3 DEF Used
<1> QED
  BY <1>1, SpecInv, PTL

\* The count of the log is its length and within TieMsgBkLog until a pass is torn.
THEOREM CountIsLength == Spec => []QueueLenIsLength
<1>1. Inv => QueueLenIsLength
  BY DEF Inv, LogInv
<1> QED
  BY <1>1, SpecInv, PTL

\* An emigrant that is not exempt cannot turn a limit on the bandwidth into none.
THEOREM LimitStays == Spec => CapStaysALimit
<1>1. TypeOK /\ [Next]_vars =>
        [\A m \in Message : Surf(m) /\ cap >= 0 /\ CellOf[m] \notin Exempt => cap' >= 0]_vars
  <2> SUFFICES ASSUME TypeOK, NEW m \in Message, Surf(m), cap >= 0, CellOf[m] \notin Exempt
               PROVE  cap' >= 0
    OBVIOUS
  <2>1. cap \in Nat /\ m \in Emigration /\ Packets[m] \in Nat \ {0}
    BY MessageAssumption DEF TypeOK, Surf
  <2>2. CASE ~HandsOver(m)
    BY <2>1, <2>2 DEF Surf
  <2>3. CASE HandsOver(m)
    <3>1. PICK k \in 0..Fitting(m) : cap' = IF DstOf(m) = "server" THEN Charged(k) ELSE cap
      BY <2>3 DEF Surf
    <3>2. DstOf(m) = "server" => k \in Nat /\ k <= cap
      <4>1. DstOf(m) = "server" => Fitting(m) = IF cap \in 0..(Packets[m] - 1) THEN cap ELSE Packets[m]
        BY DEF Fitting
      <4>2. \A c \in Nat, n \in Nat \ {0} : \A x \in 0..(IF c \in 0..(n - 1) THEN c ELSE n) :
              x \in Nat /\ x <= c
        OBVIOUS
      <4> QED
        BY <2>1, <3>1, <4>1, <4>2
    <3> QED
      BY <2>1, <3>1, <3>2 DEF Charged
  <2> QED
    BY <2>2, <2>3
<1>2. Inv => TypeOK
  BY DEF Inv, LogInv
<1> QED
  BY <1>1, <1>2, SpecInv, PTL DEF Spec, CapStaysALimit

=============================================================================

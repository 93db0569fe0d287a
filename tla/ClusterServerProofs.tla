------------------------ MODULE ClusterServerProofs ------------------------
(***************************************************************************)
(* What the cluster server's lists promise for any number of nodes, other  *)
(* servers and messages, and for any timing.                               *)
(***************************************************************************)
EXTENDS ClusterServer, TLAPS, SequenceTheorems, FiniteSetTheorems, WellFoundedInduction

\* A list of entries in which only addresses a file may repeat are repeated.
GoodList(s) ==
  /\ s \in Seq(Entries)
  /\ \A j, k \in 1..Len(s) : s[j].addr = s[k].addr => j = k \/ s[j].addr \in Doubled

\* The inductive invariant: where the sweep stands matters to what it may do next.
Inv == TypeOK /\ OnceListed /\ SweepWithinReach

LEMMA Constants ==
  /\ MaxAge \in Nat /\ PendReqTime \in Nat /\ SpdZeroTime \in Nat
  /\ Capacity \in Int /\ SrvrShare \in Nat /\ MinShare \in Nat
  /\ Load \subseteq [Speed : Nat, NumCells : Nat]
BY ServerAssumption DEF MaxAge

LEMMA SeqFacts ==
  ASSUME NEW S, NEW s \in Seq(S)
  PROVE  /\ DOMAIN s = 1..Len(s) /\ Len(s) \in Nat
         /\ s = [j \in 1..Len(s) |-> s[j]]
         /\ \A j \in 1..Len(s) : s[j] \in S
<1>1. DOMAIN s = 1..Len(s) /\ Len(s) \in Nat
  OBVIOUS
<1>2. s \in [1..Len(s) -> S]
  OBVIOUS
<1> QED
  BY <1>1, <1>2

LEMMA EntryType ==
  ASSUME NEW a \in Addr, NEW d \in [Speed : Nat, NumCells : Nat], NEW c \in Int \cup {Junk}
  PROVE  Entry(a, d, c) \in Entries /\ Entry(a, d, c).addr = a
BY Constants DEF Entry, Entries

LEMMA AppendIsGood ==
  ASSUME NEW s, GoodList(s), NEW e \in Entries, \A k \in 1..Len(s) : s[k].addr # e.addr
  PROVE  GoodList(Append(s, e)) /\ Len(Append(s, e)) = Len(s) + 1
<1>1. /\ Append(s, e) \in Seq(Entries) /\ Len(Append(s, e)) = Len(s) + 1
      /\ \A k \in 1..Len(s) : Append(s, e)[k] = s[k]
      /\ Append(s, e)[Len(s) + 1] = e /\ Len(s) \in Nat
  BY AppendProperties DEF GoodList
<1> QED
  BY <1>1 DEF GoodList

LEMMA RemovedList ==
  ASSUME NEW s \in Seq(Entries), NEW k \in 1..Len(s)
  PROVE  /\ RemoveAt(s, k) \in Seq(Entries) /\ Len(RemoveAt(s, k)) = Len(s) - 1
         /\ \A j \in 1..(Len(s) - 1) : RemoveAt(s, k)[j] = IF j < k THEN s[j] ELSE s[j + 1]
<1> DEFINE u == SubSeq(s, 1, k - 1)
           v == SubSeq(s, k + 1, Len(s))
<1>1. s \in Seq(Entries) /\ Len(s) \in Nat
  OBVIOUS
<1>2. u \in Seq(Entries) /\ Len(u) = k - 1 /\ \A j \in 1..(k - 1) : u[j] = s[j]
  <2>1. 1 \in 1..(Len(s) + 1) /\ k - 1 \in (1 - 1)..Len(s)
    BY <1>1
  <2>2. /\ u \in Seq(Entries) /\ Len(u) = IF 1 <= k - 1 THEN (k - 1) - 1 + 1 ELSE 0
        /\ \A j \in 1..((k - 1) - 1 + 1) : u[j] = s[1 + j - 1]
    BY <1>1, <2>1, SubSeqProperties
  <2> QED
    BY <1>1, <2>2
<1>3. v \in Seq(Entries) /\ Len(v) = Len(s) - k /\ \A j \in 1..(Len(s) - k) : v[j] = s[k + j]
  <2>1. k + 1 \in 1..(Len(s) + 1) /\ Len(s) \in (k + 1 - 1)..Len(s)
    BY <1>1
  <2>2. /\ v \in Seq(Entries)
        /\ Len(v) = IF k + 1 <= Len(s) THEN Len(s) - (k + 1) + 1 ELSE 0
        /\ \A j \in 1..(Len(s) - (k + 1) + 1) : v[j] = s[k + 1 + j - 1]
    BY <1>1, <2>1, SubSeqProperties
  <2> QED
    BY <1>1, <2>2
<1>4. RemoveAt(s, k) = u \o v
  BY DEF RemoveAt
<1>5. /\ u \o v \in Seq(Entries) /\ Len(u \o v) = Len(s) - 1
      /\ \A j \in 1..(Len(s) - 1) : (u \o v)[j] = IF j < k THEN s[j] ELSE s[j + 1]
  <2>1. /\ u \o v \in Seq(Entries) /\ Len(u \o v) = Len(u) + Len(v)
        /\ \A j \in 1..(Len(u) + Len(v)) :
             (u \o v)[j] = IF j <= Len(u) THEN u[j] ELSE v[j - Len(u)]
    BY <1>2, <1>3, ConcatProperties
  <2> HIDE DEF u, v
  <2>2. Len(u \o v) = Len(s) - 1
    BY <1>1, <1>2, <1>3, <2>1
  <2>3. ASSUME NEW j \in 1..(Len(s) - 1)
        PROVE  (u \o v)[j] = IF j < k THEN s[j] ELSE s[j + 1]
    <3>1. CASE j < k
      BY <1>1, <1>2, <1>3, <2>1, <3>1
    <3>2. CASE j >= k
      <4>1. (u \o v)[j] = v[j - (k - 1)] /\ j - (k - 1) \in 1..(Len(s) - k)
        BY <1>1, <1>2, <1>3, <2>1, <3>2
      <4>2. v[j - (k - 1)] = s[k + (j - (k - 1))]
        BY <1>3, <4>1
      <4> QED
        BY <1>1, <3>2, <4>1, <4>2
    <3>3. j < k \/ j >= k
      BY <1>1
    <3> QED
      BY <3>1, <3>2, <3>3
  <2> QED
    BY <2>1, <2>2, <2>3
<1> QED
  BY <1>4, <1>5

LEMMA RemoveIsGood ==
  ASSUME NEW s, GoodList(s), NEW k \in 1..Len(s)
  PROVE  GoodList(RemoveAt(s, k)) /\ Len(RemoveAt(s, k)) = Len(s) - 1
<1> DEFINE t == RemoveAt(s, k)
<1>1. s \in Seq(Entries) /\ Len(s) \in Nat
  BY DEF GoodList
<1>5. /\ t \in Seq(Entries) /\ Len(t) = Len(s) - 1
      /\ \A j \in 1..(Len(s) - 1) : t[j] = IF j < k THEN s[j] ELSE s[j + 1]
  BY <1>1, RemovedList
<1> HIDE DEF t
<1>6. \A j, l \in 1..(Len(s) - 1) :
        t[j].addr = t[l].addr => j = l \/ t[j].addr \in Doubled
  <2> SUFFICES ASSUME NEW j \in 1..(Len(s) - 1), NEW l \in 1..(Len(s) - 1),
                      t[j].addr = t[l].addr, t[j].addr \notin Doubled
               PROVE  j = l
    OBVIOUS
  <2> DEFINE jj == IF j < k THEN j ELSE j + 1
             ll == IF l < k THEN l ELSE l + 1
  <2>1. jj \in 1..Len(s) /\ ll \in 1..Len(s)
    BY <1>1
  <2>2. t[j] = s[jj] /\ t[l] = s[ll]
    BY <1>5
  <2>3. jj = ll
    BY <2>1, <2>2 DEF GoodList
  <2> QED
    BY <1>1, <2>3
<1> QED
  BY <1>5, <1>6 DEF GoodList, t

\* Rewriting entries keeps a list good as long as every address stays.
LEMMA RewriteIsGood ==
  ASSUME NEW s, GoodList(s), NEW t, DOMAIN t = 1..Len(s), t = [k \in DOMAIN t |-> t[k]],
         \A k \in 1..Len(s) : t[k] \in Entries /\ t[k].addr = s[k].addr
  PROVE  GoodList(t) /\ Len(t) = Len(s)
<1>1. Len(s) \in Nat
  BY DEF GoodList
<1>2. t \in [1..Len(s) -> Entries]
  OBVIOUS
<1>3. t \in Seq(Entries) /\ Len(t) = Len(s)
  BY <1>1, <1>2
<1> QED
  BY <1>3 DEF GoodList

LEMMA GoodLists ==
  (IPMap \in [{0, 1} -> Seq(Entries)] /\ OnceListed) <=>
  (IPMap = [w \in {0, 1} |-> IPMap[w]] /\ \A w \in {0, 1} : GoodList(IPMap[w]))
<1>1. ASSUME IPMap \in [{0, 1} -> Seq(Entries)], OnceListed
      PROVE  IPMap = [w \in {0, 1} |-> IPMap[w]] /\ \A w \in {0, 1} : GoodList(IPMap[w])
  <2>1. \A w \in {0, 1} : IPMap[w] \in Seq(Entries) /\ DOMAIN IPMap[w] = 1..Len(IPMap[w])
    BY <1>1
  <2> QED
    BY <1>1, <2>1 DEF OnceListed, GoodList
<1>2. ASSUME IPMap = [w \in {0, 1} |-> IPMap[w]], \A w \in {0, 1} : GoodList(IPMap[w])
      PROVE  IPMap \in [{0, 1} -> Seq(Entries)] /\ OnceListed
  <2>1. \A w \in {0, 1} : IPMap[w] \in Seq(Entries) /\ DOMAIN IPMap[w] = 1..Len(IPMap[w])
    BY <1>2 DEF GoodList
  <2> QED
    BY <1>2, <2>1 DEF OnceListed, GoodList
<1> QED
  BY <1>1, <1>2

-----------------------------------------------------------------------------
(* The steps. *)

\* What GetIPMap makes of a file.
LEMMA FileIsGood ==
  ASSUME NEW S, S \subseteq Addr, NEW n \in Nat, NEW s \in Files(S, n)
  PROVE  /\ GoodList(FromFile(s)) /\ Len(FromFile(s)) = n
         /\ \A k \in 1..n : /\ FromFile(s)[k].Speed = 200
                            /\ FromFile(s)[k].NumCells = 1 /\ FromFile(s)[k].cap = 0
<1> DEFINE d == [Speed |-> 200, NumCells |-> 1]
           f == [k \in 1..n |-> Entry(s[k], d, 0)]
<1>0. s \in [1..n -> S] /\ \A j, k \in 1..n : s[j] = s[k] => j = k \/ s[j] \in Doubled
  BY DEF Files
<1>1. \A k \in 1..n : f[k] \in Entries /\ f[k].addr = s[k]
  <2>1. d \in [Speed : Nat, NumCells : Nat] /\ 0 \in Int \cup {Junk}
    OBVIOUS
  <2>2. \A k \in 1..n : s[k] \in Addr
    BY <1>0
  <2> HIDE DEF d
  <2> QED
    BY <2>1, <2>2, EntryType
<1>2. f \in Seq(Entries) /\ Len(f) = n
  <2> HIDE DEF d
  <2>1. f \in [1..n -> Entries]
    BY <1>1
  <2> HIDE DEF f
  <2> QED
    BY <2>1
<1>3. FromFile(s) = f
  BY <1>0 DEF FromFile
<1>4. \A k \in 1..n : f[k].Speed = 200 /\ f[k].NumCells = 1 /\ f[k].cap = 0
  BY DEF Entry
<1> HIDE DEF f
<1> QED
  BY <1>0, <1>1, <1>2, <1>3, <1>4 DEF GoodList

LEMMA InitInv == Init => Inv
<1> SUFFICES ASSUME Init PROVE Inv
  OBVIOUS
<1>0. PICK n \in 0..MaxFile, l \in 0..MaxFile :
        \E s \in Files(Node, n), t \in Files(Peer, l) :
          /\ IPMap = [w \in {0, 1} |-> IF w = 0 THEN FromFile(s) ELSE FromFile(t)]
          /\ Speed = 200 * n /\ NumCells = n
  BY DEF Init
<1>1. PICK s \in Files(Node, n), t \in Files(Peer, l) :
        /\ IPMap = [w \in {0, 1} |-> IF w = 0 THEN FromFile(s) ELSE FromFile(t)]
        /\ Speed = 200 * n /\ NumCells = n
  BY <1>0
<1>2. n \in Nat /\ l \in Nat
  BY ServerAssumption
<1>3. GoodList(FromFile(s))
  <2>1. Node \subseteq Addr
    BY DEF Addr
  <2> QED
    BY <1>2, <2>1, FileIsGood
<1>4. GoodList(FromFile(t))
  <2>1. Peer \subseteq Addr
    BY DEF Addr
  <2> QED
    BY <1>2, <2>1, FileIsGood
<1>5. IPMap \in [{0, 1} -> Seq(Entries)] /\ OnceListed
  <2>1. \A w \in {0, 1} : GoodList(IPMap[w])
    BY <1>1, <1>3, <1>4
  <2> QED
    BY <1>1, <2>1, GoodLists
<1>6. /\ up \subseteq Addr /\ net = {} /\ since = 0 /\ granted = 0 /\ phase = "start"
      /\ which = 0 /\ i = 0 /\ prop = 0 /\ torn = FALSE
  BY DEF Init
<1>7. Speed \in Int /\ NumCells \in Int
  BY <1>1, <1>2
<1> QED
  BY <1>5, <1>6, <1>7 DEF Inv, TypeOK, SweepWithinReach

\* What the lists need of a step.
ListsKept ==
  IPMap' \in [{0, 1} -> Seq(Entries)] /\ OnceListed' /\ Speed' \in Int /\ NumCells' \in Int

LEMMA ListsFromGood ==
  ASSUME IPMap' = [w \in {0, 1} |-> IPMap'[w]], \A w \in {0, 1} : GoodList(IPMap'[w])
  PROVE  IPMap' \in [{0, 1} -> Seq(Entries)] /\ OnceListed'
<1>1. \A w \in {0, 1} : /\ IPMap'[w] \in Seq(Entries)
                        /\ DOMAIN IPMap'[w] = 1..Len(IPMap'[w])
  BY DEF GoodList
<1> QED
  BY <1>1 DEF OnceListed, GoodList

LEMMA NumbersOf ==
  ASSUME Inv, NEW w \in {0, 1}, NEW k \in 1..Len(IPMap[w])
  PROVE  /\ IPMap[w][k] \in Entries /\ IPMap[w][k].Speed \in Nat
         /\ IPMap[w][k].NumCells \in Nat /\ IPMap[w][k].addr \in Addr
         /\ IPMap[w][k].age \in 0..MaxAge /\ IPMap[w][k].cap \in Int \cup {Junk}
<1>1. IPMap[w] \in Seq(Entries)
  BY DEF Inv, TypeOK
<1>2. IPMap[w][k] \in Entries
  BY <1>1
<1> QED
  BY <1>2 DEF Entries

LEMMA AddKeepsLists ==
  ASSUME Inv, NEW w \in {0, 1}, NEW e \in Entries, AddIPMap(w, e),
         \A k \in 1..Len(IPMap[w]) : IPMap[w][k].addr # e.addr
  PROVE  ListsKept
<1>1. IPMap = [v \in {0, 1} |-> IPMap[v]] /\ \A v \in {0, 1} : GoodList(IPMap[v])
  BY GoodLists DEF Inv, TypeOK
<1>2. IPMap' = [v \in {0, 1} |-> IF v = w THEN Append(IPMap[w], e) ELSE IPMap[v]]
  BY <1>1 DEF AddIPMap
<1>3. GoodList(Append(IPMap[w], e))
  BY <1>1, AppendIsGood
<1>4. IPMap' \in [{0, 1} -> Seq(Entries)] /\ OnceListed'
  BY <1>1, <1>2, <1>3, ListsFromGood
<1>5. Speed' \in Int /\ NumCells' \in Int
  BY DEF AddIPMap, Inv, TypeOK, Entries
<1> QED
  BY <1>4, <1>5 DEF ListsKept

LEMMA RemoveKeepsLists ==
  ASSUME Inv, NEW w \in {0, 1}, NEW k \in 1..Len(IPMap[w]), RemoveIPMap(w, k)
  PROVE  /\ ListsKept
         /\ Len(IPMap'[w]) = Len(IPMap[w]) - 1
         /\ IPMap'[1 - w] = IPMap[1 - w]
<1>1. IPMap = [v \in {0, 1} |-> IPMap[v]] /\ \A v \in {0, 1} : GoodList(IPMap[v])
  BY GoodLists DEF Inv, TypeOK
<1>2. IPMap' = [v \in {0, 1} |-> IF v = w THEN RemoveAt(IPMap[w], k) ELSE IPMap[v]]
  BY <1>1 DEF RemoveIPMap
<1>3. GoodList(RemoveAt(IPMap[w], k)) /\ Len(RemoveAt(IPMap[w], k)) = Len(IPMap[w]) - 1
  BY <1>1, RemoveIsGood
<1>4. IPMap' \in [{0, 1} -> Seq(Entries)] /\ OnceListed'
  BY <1>1, <1>2, <1>3, ListsFromGood
<1>5. Speed' \in Int /\ NumCells' \in Int
  BY NumbersOf DEF RemoveIPMap, Inv, TypeOK
<1> QED
  BY <1>2, <1>3, <1>4, <1>5 DEF ListsKept

\* Entries rewritten in place: a report, a speed set to zero, a share, a tick.
LEMMA RewriteKeepsLists ==
  ASSUME Inv, Speed' \in Int, NumCells' \in Int,
         IPMap' = [w \in {0, 1} |-> IPMap'[w]],
         \A w \in {0, 1} : /\ DOMAIN IPMap'[w] = 1..Len(IPMap[w])
                           /\ IPMap'[w] = [k \in DOMAIN IPMap'[w] |-> IPMap'[w][k]]
                           /\ \A k \in 1..Len(IPMap[w]) :
                                /\ IPMap'[w][k] \in Entries
                                /\ IPMap'[w][k].addr = IPMap[w][k].addr
  PROVE  ListsKept /\ \A w \in {0, 1} : Len(IPMap'[w]) = Len(IPMap[w])
<1>1. \A w \in {0, 1} : GoodList(IPMap[w])
  BY GoodLists DEF Inv, TypeOK
<1>2. \A w \in {0, 1} : GoodList(IPMap'[w]) /\ Len(IPMap'[w]) = Len(IPMap[w])
  BY <1>1, RewriteIsGood
<1> QED
  BY <1>2, ListsFromGood DEF ListsKept

\* One entry changed, as by TreatTPingData or by the sweep.
LEMMA ChangeKeepsLists ==
  ASSUME Inv, NEW w \in {0, 1}, NEW k \in 1..Len(IPMap[w]), NEW e \in Entries,
         e.addr = IPMap[w][k].addr, Speed' \in Int, NumCells' \in Int,
         IPMap' = [IPMap EXCEPT ![w] = [IPMap[w] EXCEPT ![k] = e]]
  PROVE  ListsKept /\ \A v \in {0, 1} : Len(IPMap'[v]) = Len(IPMap[v])
<1>1. /\ IPMap = [v \in {0, 1} |-> IPMap[v]]
      /\ \A v \in {0, 1} : IPMap[v] \in Seq(Entries)
  BY DEF Inv, TypeOK
<1>2. \A v \in {0, 1} : /\ DOMAIN IPMap[v] = 1..Len(IPMap[v])
                        /\ IPMap[v] = [j \in 1..Len(IPMap[v]) |-> IPMap[v][j]]
                        /\ \A j \in 1..Len(IPMap[v]) : IPMap[v][j] \in Entries
  BY <1>1, SeqFacts
<1>3. IPMap' = [v \in {0, 1} |-> IF v = w THEN [IPMap[w] EXCEPT ![k] = e] ELSE IPMap[v]]
  BY <1>1
<1>4. [IPMap[w] EXCEPT ![k] = e]
        = [j \in 1..Len(IPMap[w]) |-> IF j = k THEN e ELSE IPMap[w][j]]
  BY <1>2
<1>5. \A v \in {0, 1} :
        IPMap'[v] = [j \in 1..Len(IPMap[v]) |->
                       IF v = w /\ j = k THEN e ELSE IPMap[v][j]]
  BY <1>2, <1>3, <1>4
<1>6. \A v \in {0, 1} : /\ DOMAIN IPMap'[v] = 1..Len(IPMap[v])
                        /\ IPMap'[v] = [j \in DOMAIN IPMap'[v] |-> IPMap'[v][j]]
                        /\ \A j \in 1..Len(IPMap[v]) :
                             /\ IPMap'[v][j] \in Entries
                             /\ IPMap'[v][j].addr = IPMap[v][j].addr
  <2> TAKE v \in {0, 1}
  <2>1. IPMap'[v] = [j \in 1..Len(IPMap[v]) |-> IF v = w /\ j = k THEN e ELSE IPMap[v][j]]
    BY <1>5
  <2> QED
    BY <1>2, <2>1
<1>7. IPMap' = [v \in {0, 1} |-> IPMap'[v]]
  BY <1>3
<1> QED
  BY <1>6, <1>7, RewriteKeepsLists

\* Capacity is shared out, or would be if it were time.
Shares == SetRemOutBndCap \/ \E b \in BOOLEAN : UpdRemOutBndCap(b)

LEMMA GrantKeepsLists ==
  ASSUME Inv, Shares, UNCHANGED <<Speed, NumCells>>
  PROVE  ListsKept /\ granted' \in Nat /\ phase' \in {"serve", "crashed"}
<1>1. /\ IPMap = [v \in {0, 1} |-> IPMap[v]]
      /\ \A v \in {0, 1} : IPMap[v] \in Seq(Entries)
      /\ Speed \in Int /\ NumCells \in Int /\ granted \in Nat /\ OnceListed
  BY DEF Inv, TypeOK
<1>2. CASE UNCHANGED IPMap
  BY <1>1, <1>2 DEF Shares, UpdRemOutBndCap, SetRemOutBndCap, ListsKept, OnceListed
<1>3. CASE /\ IPMap' = [IPMap EXCEPT ![0] = WithShares(@, Speed)]
           /\ granted' = 0 /\ phase' = "serve" /\ Speed > 0
           /\ ~(Capacity >= 0 /\ IPMap[0] = <<>>)
  <2> DEFINE s == IPMap[0]
             c(k) == Share(s[k], Len(s), Speed)
             t == [k \in DOMAIN s |-> [s[k] EXCEPT !.cap = c(k)]]
  <2>1. DOMAIN s = 1..Len(s) /\ Len(s) \in Nat
    BY <1>1
  <2>2. ASSUME NEW k \in 1..Len(s) PROVE c(k) \in Int
    <3>1. s[k].Speed \in Nat
      BY NumbersOf
    <3>2. Len(s) \in Nat \ {0} /\ Speed \in Nat \ {0}
      BY <1>1, <1>3, <2>1
    <3>3. (Capacity - SrvrShare - MinShare) * s[k].Speed \in Int
      BY <3>1, Constants
    <3>4. \A x \in Int : \A y \in Nat \ {0} : x \div y \in Int
      OBVIOUS
    <3> DEFINE x == (Capacity - SrvrShare - MinShare) * s[k].Speed
    <3>5. MinShare \div Len(s) \in Int
      BY <3>2, <3>4, Constants
    <3>6. x \div Speed \in Int
      BY <3>2, <3>3, <3>4
    <3>7. c(k) = IF Capacity < 0 THEN -1 ELSE MinShare \div Len(s) + x \div Speed
      BY DEF Share
    <3> HIDE DEF c, x
    <3> QED
      BY <3>5, <3>6, <3>7
  <2>3. ASSUME NEW k \in 1..Len(s)
        PROVE  t[k] \in Entries /\ t[k].addr = s[k].addr
    <3>1. s[k] \in Entries /\ c(k) \in Int
      BY <2>2, NumbersOf
    <3>2. t[k] = [s[k] EXCEPT !.cap = c(k)]
      BY <2>1
    <3> HIDE DEF c, t
    <3> QED
      BY <3>1, <3>2 DEF Entries
  <2>4. IPMap' = [v \in {0, 1} |-> IF v = 0 THEN t ELSE IPMap[v]]
    <3>1. WithShares(s, Speed) = t
      BY <1>1, <1>3 DEF WithShares
    <3> HIDE DEF t
    <3> QED
      BY <1>1, <1>3, <3>1
  <2>5. DOMAIN t = 1..Len(s) /\ t = [k \in DOMAIN t |-> t[k]]
    BY <2>1
  <2>6. \A k \in 1..Len(IPMap[1]) : IPMap[1][k] \in Entries
    BY <1>1, SeqFacts
  <2> HIDE DEF t
  <2>7. \A v \in {0, 1} : /\ DOMAIN IPMap'[v] = 1..Len(IPMap[v])
                          /\ IPMap'[v] = [k \in DOMAIN IPMap'[v] |-> IPMap'[v][k]]
                          /\ \A k \in 1..Len(IPMap[v]) :
                               /\ IPMap'[v][k] \in Entries
                               /\ IPMap'[v][k].addr = IPMap[v][k].addr
    <3>1. IPMap'[0] = t /\ IPMap'[1] = IPMap[1]
      BY <2>4
    <3>2. DOMAIN IPMap[1] = 1..Len(IPMap[1])
          /\ IPMap[1] = [k \in DOMAIN IPMap[1] |-> IPMap[1][k]]
      BY <1>1, SeqFacts
    <3> QED
      BY <2>3, <2>5, <2>6, <3>1, <3>2
  <2> QED
    BY <1>1, <1>3, <2>4, <2>7, RewriteKeepsLists
<1>4. \/ UNCHANGED IPMap
      \/ /\ IPMap' = [IPMap EXCEPT ![0] = WithShares(@, Speed)]
         /\ granted' = 0 /\ phase' = "serve" /\ Speed > 0
         /\ ~(Capacity >= 0 /\ IPMap[0] = <<>>)
  <2>1. Speed <= 0 => [IPMap EXCEPT ![0] = WithShares(@, Speed)] = IPMap
    BY <1>1 DEF WithShares
  <2> QED
    BY <1>1, <2>1 DEF Shares, UpdRemOutBndCap, SetRemOutBndCap
<1> QED
  BY <1>2, <1>3, <1>4

LEMMA ReceiveKeepsInv ==
  ASSUME Inv, NEW m \in net, Receive(m)
  PROVE  Inv'
<1>1. m \in Message /\ Which(m.src) \in {0, 1} /\ m.src \in Addr
  BY DEF Inv, TypeOK, Message, Which
<1>2. \A w \in {0, 1} : IPMap[w] \in Seq(Entries) /\ DOMAIN IPMap[w] = 1..Len(IPMap[w])
  <2>1. \A w \in {0, 1} : IPMap[w] \in Seq(Entries)
    BY DEF Inv, TypeOK
  <2> QED
    BY <2>1, SeqFacts
<1>3. ListsKept /\ phase' \in {"serve", "reply"}
  <2>1. CASE Report(m) /\ ReportNew(m)
    <3> DEFINE e == Entry(m.src, m.data, FirstCap(m))
    <3>1. m.data \in [Speed : Nat, NumCells : Nat] /\ FirstCap(m) \in Int \cup {Junk}
      BY <1>1, <2>1, Constants DEF Message, Report, FirstCap
    <3>2. e \in Entries /\ e.addr = m.src
      BY <1>1, <3>1, EntryType
    <3>3. \A k \in 1..Len(IPMap[Which(m.src)]) : IPMap[Which(m.src)][k].addr # m.src
      BY <1>1, <1>2, <2>1 DEF ReportNew, InIPMap
    <3>4. AddIPMap(Which(m.src), e)
      BY <2>1 DEF ReportNew
    <3> HIDE DEF e
    <3> QED
      BY <1>1, <2>1, <3>2, <3>3, <3>4, AddKeepsLists DEF Report
  <2>2. CASE Report(m) /\ ReportKnown(m)
    <3> DEFINE w == Which(m.src)
    <3>1. PICK k \in DOMAIN IPMap[w] : Update(w, k, m.data)
      BY <2>2 DEF ReportKnown
    <3>2. k \in 1..Len(IPMap[w]) /\ w \in {0, 1}
      BY <1>1, <1>2
    <3> HIDE DEF w
    <3> DEFINE o == IPMap[w][k]
               e == Entry(o.addr, m.data, o.cap)
    <3>3. m.data \in [Speed : Nat, NumCells : Nat]
      BY <1>1, <2>2, Constants DEF Message, Report
    <3>4. o.addr \in Addr /\ o.cap \in Int \cup {Junk} /\ o.Speed \in Nat /\ o.NumCells \in Nat
      BY <3>2, NumbersOf
    <3>5. e \in Entries /\ e.addr = o.addr
      BY <3>3, <3>4, EntryType
    <3>6. Speed' \in Int /\ NumCells' \in Int
      <4>1. m.data.Speed \in Nat /\ m.data.NumCells \in Nat /\ Speed \in Int /\ NumCells \in Int
        BY <3>3 DEF Inv, TypeOK
      <4> QED
        BY <3>1, <3>4, <4>1 DEF Update
    <3>7. IPMap' = [IPMap EXCEPT ![w] = [IPMap[w] EXCEPT ![k] = e]]
      <4>1. IPMap[w] \in Seq(Entries) /\ IPMap \in [{0, 1} -> Seq(Entries)]
        BY <1>2, <3>2 DEF Inv, TypeOK
      <4> QED
        BY <3>1, <3>2, <4>1 DEF Update
    <3> HIDE DEF e
    <3> QED
      BY <2>2, <3>2, <3>5, <3>6, <3>7, ChangeKeepsLists DEF Report
  <2>3. CASE Bye(m)
    <3>1. PICK k \in DOMAIN IPMap[Which(m.src)] : RemoveIPMap(Which(m.src), k)
      BY <2>3 DEF Bye
    <3>2. ListsKept
      BY <1>1, <1>2, <3>1, RemoveKeepsLists
    <3> QED
      BY <2>3, <3>2 DEF Bye, Receive
  <2> QED
    BY <2>1, <2>2, <2>3 DEF Receive, Report
<1>4. /\ up' = up /\ net' \subseteq Message /\ UNCHANGED <<since, granted, sweepVars>>
  BY DEF Receive, Inv, TypeOK
<1> QED
  BY <1>3, <1>4 DEF Inv, TypeOK, ListsKept, SweepWithinReach, sweepVars

LEMMA SweepKeepsInv ==
  ASSUME Inv, Sweep
  PROVE  Inv'
<1> DEFINE n == Len(IPMap[which])
<1>1. /\ which \in {0, 1} /\ i \in 0..n /\ prop \in 0..n /\ i # prop
      /\ phase = "sweep" /\ torn \in BOOLEAN /\ n \in Nat
      /\ IPMap \in [{0, 1} -> Seq(Entries)] /\ OnceListed
      /\ Speed \in Int /\ NumCells \in Int
  BY DEF Inv, TypeOK, SweepWithinReach, Sweep
<1>2. UNCHANGED <<up, net, since, granted, phase, which>>
  BY DEF Sweep, nodeVars
<1>3. ASSUME ListsKept, i' \in Nat, prop' \in Nat, torn' \in BOOLEAN,
             i' <= Len(IPMap'[which]), prop' <= Len(IPMap'[which])
      PROVE  Inv'
  BY <1>1, <1>2, <1>3 DEF Inv, TypeOK, ListsKept, SweepWithinReach
<1>4. ASSUME Advance(n) PROVE i' \in 0..n
  BY <1>1, <1>4 DEF Advance
<1>5. ASSUME UNCHANGED IPMap PROVE OnceListed'
  BY <1>1, <1>5 DEF OnceListed
<1>6. CASE SweepRemove
  <2>1. PICK k \in DOMAIN IPMap[0] : RemoveIPMap(0, k)
    BY <1>6 DEF SweepRemove
  <2>2. /\ ListsKept /\ Len(IPMap'[0]) = Len(IPMap[0]) - 1 /\ IPMap'[1] = IPMap[1]
    <3>1. 0 \in {0, 1} /\ k \in 1..Len(IPMap[0]) /\ 1 - 0 = 1
      BY <1>1, SeqFacts
    <3> QED
      BY <2>1, <3>1, RemoveKeepsLists
  <2>3. Len(IPMap'[which]) \in Nat
    BY <1>1, <2>2 DEF ListsKept
  <2>4. /\ prop' = IF prop >= Len(IPMap'[which]) THEN 0 ELSE prop
        /\ i' = IF i >= Len(IPMap'[which]) THEN 0 ELSE i
        /\ torn' = torn
    BY <1>6 DEF SweepRemove
  <2> QED
    BY <1>1, <1>3, <2>2, <2>3, <2>4
<1>7. CASE SweepKeep \/ SweepPass
  <2>1. UNCHANGED <<IPMap, Speed, NumCells, prop, torn>> /\ Advance(n)
    BY <1>7 DEF SweepKeep, SweepPass, listVars
  <2> QED
    BY <1>1, <1>3, <1>4, <1>5, <2>1 DEF ListsKept
<1>8. CASE SweepBeyond
  <2>1. UNCHANGED <<IPMap, NumCells, prop>> /\ Advance(n) /\ torn' = TRUE
    BY <1>8 DEF SweepBeyond
  <2>2. Speed' \in Int
    <3>1. PICK s \in Beyond : Speed' = IF which = 0 /\ ~torn THEN Speed - s ELSE Speed
      BY <1>8 DEF SweepBeyond
    <3> QED
      BY <1>1, <3>1, ServerAssumption
  <2> QED
    BY <1>1, <1>3, <1>4, <1>5, <2>1, <2>2 DEF ListsKept
<1>9. CASE SweepSilence
  <2> DEFINE k == i + 1
             o == IPMap[which][k]
             e == [o EXCEPT !.Speed = 0]
  <2>1. k \in 1..n
    BY <1>1, <1>9 DEF SweepSilence
  <2>2. o \in Entries /\ o.Speed \in Nat
    BY <1>1, <2>1, NumbersOf
  <2>3. e \in Entries /\ e.addr = o.addr
    <3> HIDE DEF o
    <3> QED
      BY <2>2 DEF Entries
  <2>4. IPMap' = [IPMap EXCEPT ![which] = [IPMap[which] EXCEPT ![k] = e]]
    <3>1. IPMap[which] \in Seq(Entries)
      BY <1>1
    <3> QED
      BY <1>1, <1>9, <2>1, <3>1 DEF SweepSilence
  <2>5. /\ Speed' = IF which = 0 THEN Speed - o.Speed ELSE Speed
        /\ UNCHANGED <<NumCells, prop, torn>> /\ Advance(n)
    BY <1>9 DEF SweepSilence
  <2>6. Speed' \in Int /\ NumCells' \in Int
    BY <1>1, <2>2, <2>5
  <2> HIDE DEF k, e
  <2>7. ListsKept /\ Len(IPMap'[which]) = n
    BY <1>1, <2>1, <2>3, <2>4, <2>6, ChangeKeepsLists
  <2> QED
    BY <1>1, <1>3, <1>4, <2>5, <2>7
<1> QED
  BY <1>6, <1>7, <1>8, <1>9 DEF Sweep

LEMMA TickKeepsInv ==
  ASSUME Inv, Tick
  PROVE  Inv'
<1> DEFINE Older(e) == [e EXCEPT !.age = IF @ < MaxAge THEN @ + 1 ELSE @]
<1>1. /\ IPMap \in [{0, 1} -> Seq(Entries)] /\ Speed \in Int /\ NumCells \in Int
      /\ phase = "serve" /\ since \in Nat /\ granted \in Nat
  BY DEF Inv, TypeOK, Tick
<1>2. ASSUME NEW e \in Entries PROVE Older(e) \in Entries /\ Older(e).addr = e.addr
  BY Constants DEF Entries
<1>3. \A w \in {0, 1} :
        /\ DOMAIN IPMap[w] = 1..Len(IPMap[w])
        /\ \A k \in 1..Len(IPMap[w]) : IPMap[w][k] \in Entries
  BY <1>1, SeqFacts
<1>4. IPMap' = [w \in {0, 1} |-> [k \in DOMAIN IPMap[w] |-> Older(IPMap[w][k])]]
  BY DEF Tick
<1> HIDE DEF Older
<1>5. \A w \in {0, 1} : /\ DOMAIN IPMap'[w] = 1..Len(IPMap[w])
                        /\ IPMap'[w] = [k \in DOMAIN IPMap'[w] |-> IPMap'[w][k]]
                        /\ \A k \in 1..Len(IPMap[w]) :
                             /\ IPMap'[w][k] \in Entries
                             /\ IPMap'[w][k].addr = IPMap[w][k].addr
  <2> TAKE w \in {0, 1}
  <2>1. IPMap'[w] = [k \in 1..Len(IPMap[w]) |-> Older(IPMap[w][k])]
    BY <1>3, <1>4
  <2> QED
    BY <1>2, <1>3, <2>1
<1>6. IPMap' = [w \in {0, 1} |-> IPMap'[w]] /\ Speed' = Speed /\ NumCells' = NumCells
  BY <1>4 DEF Tick
<1>7. ListsKept
  BY <1>1, <1>5, <1>6, RewriteKeepsLists
<1>8. since' \in Nat /\ granted' \in Nat
  BY <1>1 DEF Tick
<1>9. UNCHANGED <<up, net, phase, which, i, prop, torn>>
  BY DEF Tick, nodeVars, sweepVars
<1> QED
  BY <1>1, <1>7, <1>8, <1>9 DEF Inv, TypeOK, ListsKept, SweepWithinReach

\* Who shares out capacity.
LEMMA SharesWhen ==
  ASSUME Online \/ Reply \/ Announce
  PROVE  Shares
<1>1. Reply => UpdRemOutBndCap(TRUE)
  BY DEF Reply
<1>2. Announce => UpdRemOutBndCap(\E w \in {0, 1} : IPMap[w] # <<>>)
  BY DEF Announce
<1>3. Online => SetRemOutBndCap
  BY DEF Online
<1> QED
  BY <1>1, <1>2, <1>3 DEF Shares

\* Every step keeps the invariant.
LEMMA StepKeepsInv == Inv /\ [Next]_vars => Inv'
<1> SUFFICES ASSUME Inv, [Next]_vars PROVE Inv'
  OBVIOUS
<1>1. ASSUME UNCHANGED <<IPMap, Speed, NumCells>> PROVE ListsKept
  BY <1>1 DEF Inv, TypeOK, OnceListed, ListsKept
<1>2. CASE \E a \in Addr : Start(a) \/ Say(a) \/ Leave(a) \/ Crash(a)
  <2>1. PICK a \in Addr : Start(a) \/ Say(a) \/ Leave(a) \/ Crash(a)
    BY <1>2
  <2>2. UNCHANGED <<listVars, since, granted, phase, sweepVars>>
    BY <2>1 DEF Start, Say, Leave, Crash
  <2>3. up' \subseteq Addr
    BY <2>1 DEF Start, Say, Leave, Crash, Inv, TypeOK
  <2>4. net' \subseteq Message
    BY <2>1 DEF Start, Say, Leave, Crash, Send, Message, Kinds, Inv, TypeOK
  <2> QED
    BY <1>1, <2>2, <2>3, <2>4
    DEF listVars, sweepVars, Inv, TypeOK, ListsKept, SweepWithinReach
<1>3. CASE \E m \in net : Lose(m)
  <2>1. UNCHANGED <<listVars, up, since, granted, phase, sweepVars>> /\ net' \subseteq net
    BY <1>3 DEF Lose
  <2> QED
    BY <1>1, <2>1 DEF listVars, sweepVars, Inv, TypeOK, ListsKept, SweepWithinReach
<1>4. CASE \E m \in net : Receive(m)
  BY <1>4, ReceiveKeepsInv
<1>5. CASE Online \/ Reply \/ Announce
  <2>1. Shares
    BY <1>5, SharesWhen
  <2>2. UNCHANGED <<Speed, NumCells, up, net, which, i, prop, torn>> /\ since' \in Nat
    <3>1. since \in Nat
      BY DEF Inv, TypeOK
    <3>2. CASE Reply
      BY <3>1, <3>2 DEF Reply, nodeVars, sweepVars
    <3>3. CASE Announce
      BY <3>3 DEF Announce, nodeVars, sweepVars
    <3>4. CASE Online
      BY <3>1, <3>4 DEF Online, nodeVars, sweepVars
    <3> QED
      BY <1>5, <3>2, <3>3, <3>4
  <2>3. ListsKept /\ granted' \in Nat /\ phase' \in {"serve", "crashed"}
    BY <2>1, <2>2, GrantKeepsLists
  <2> QED
    BY <2>2, <2>3 DEF Inv, TypeOK, ListsKept, SweepWithinReach
<1>6. CASE BeginUpdate \/ EndSweep
  <2>1. UNCHANGED <<listVars, nodeVars, since, granted, torn>>
    BY <1>6 DEF BeginUpdate, EndSweep
  <2>2. \A w \in {0, 1} : Len(IPMap[w]) \in Nat
    BY SeqFacts DEF Inv, TypeOK
  <2>3. /\ phase' \in {"sweep", "announce"} /\ which' \in {0, 1}
        /\ i' = 0 /\ prop' \in Nat
        /\ phase' = "sweep" => prop' = Len(IPMap[which'])
    BY <1>6, <2>2 DEF BeginUpdate, EndSweep, BeginSweep, Inv, TypeOK
  <2> QED
    BY <1>1, <2>1, <2>2, <2>3
    DEF listVars, nodeVars, Inv, TypeOK, ListsKept, SweepWithinReach
<1>7. CASE UNCHANGED vars
  BY <1>1, <1>7 DEF vars, listVars, nodeVars, sweepVars, Inv, TypeOK, ListsKept, SweepWithinReach
<1> QED
  BY <1>2, <1>3, <1>4, <1>5, <1>6, <1>7, SweepKeepsInv, TickKeepsInv DEF Next

LEMMA SpecInv == Spec => []Inv
BY InitInv, StepKeepsInv, PTL DEF Spec

-----------------------------------------------------------------------------
(* Sums.  Induction is by least counterexample: a set of numbers that is not *)
(* empty has a least member.                                                 *)

LEMMA LeastNumber ==
  ASSUME NEW T \in SUBSET Nat, T # {}
  PROVE  \E m \in T : \A n \in T : m <= n
<1>1. PICK m \in T : \A n \in T : <<n, m>> \notin OpToRel(<, Nat)
  BY NatLessThanWellFounded, WFMin
<1>2. ASSUME NEW n \in T PROVE m <= n
  <2>1. ~(n < m)
    BY <1>1 DEF OpToRel
  <2> QED
    BY <2>1
<1> QED
  BY <1>2

(* A set of numbers with 0 and the successors of its members has them all. *)
LEMMA NatInduct ==
  ASSUME NEW G, 0 \in G, \A n \in Nat : n \in G => n + 1 \in G
  PROVE  Nat \subseteq G
<1> DEFINE T == {n \in Nat : n \notin G}
<1>1. ASSUME T # {} PROVE FALSE
  <2>1. PICK m \in T : \A n \in T : m <= n
    BY <1>1, LeastNumber
  <2>2. m - 1 \in Nat /\ m - 1 \notin T
    BY <2>1
  <2>3. m - 1 \in G
    BY <2>2
  <2> QED
    BY <2>2, <2>3
<1> QED
  BY <1>1

\* f holds the sums up to n.
SumsUpTo(v, f, n) ==
  /\ DOMAIN f = 0..n /\ f[0] = 0
  /\ \A m \in 1..n : f[m] = f[m - 1] + v[m]

LEMMA SumsExist ==
  ASSUME NEW v
  PROVE  \A n \in Nat : \E f : SumsUpTo(v, f, n)
<1> DEFINE G == {n \in Nat : \E f : SumsUpTo(v, f, n)}
<1>1. 0 \in G
  <2>1. SumsUpTo(v, [m \in 0..0 |-> 0], 0)
    BY DEF SumsUpTo
  <2> QED
    BY <2>1
<1>2. ASSUME NEW n \in Nat, n \in G PROVE n + 1 \in G
  <2>1. PICK f : SumsUpTo(v, f, n)
    BY <1>2
  <2> DEFINE g == [m \in 0..(n + 1) |-> IF m = n + 1 THEN f[n] + v[n + 1] ELSE f[m]]
  <2>2. SumsUpTo(v, g, n + 1)
    <3>1. g[0] = 0
      BY <2>1 DEF SumsUpTo
    <3>2. ASSUME NEW m \in 1..(n + 1) PROVE g[m] = g[m - 1] + v[m]
      <4>1. CASE m = n + 1
        BY <4>1
      <4>2. CASE m # n + 1
        <5>1. m \in 1..n /\ m - 1 \in 0..(n + 1) /\ m - 1 # n + 1
          BY <4>2
        <5> QED
          BY <2>1, <4>2, <5>1 DEF SumsUpTo
      <4> QED
        BY <4>1, <4>2
    <3> QED
      BY <3>1, <3>2 DEF SumsUpTo
  <2> QED
    BY <2>2
<1> HIDE DEF G
<1>3. Nat \subseteq G
  BY <1>1, <1>2, NatInduct
<1> QED
  BY <1>3 DEF G

LEMMA SumsAgree ==
  ASSUME NEW v, NEW f, NEW g, NEW n \in Nat, NEW m \in Nat,
         SumsUpTo(v, f, n), SumsUpTo(v, g, m)
  PROVE  \A k \in Nat : k <= n /\ k <= m => f[k] = g[k]
<1> DEFINE G == {k \in Nat : k <= n /\ k <= m => f[k] = g[k]}
<1>1. 0 \in G
  BY DEF SumsUpTo
<1>2. ASSUME NEW k \in Nat, k \in G PROVE k + 1 \in G
  <2> SUFFICES ASSUME k + 1 <= n, k + 1 <= m PROVE f[k + 1] = g[k + 1]
    OBVIOUS
  <2>1. f[k] = g[k] /\ (k + 1) - 1 = k /\ k + 1 \in 1..n /\ k + 1 \in 1..m
    BY <1>2
  <2>2. f[k + 1] = f[k] + v[k + 1]
    BY <2>1 DEF SumsUpTo
  <2>3. g[k + 1] = g[k] + v[k + 1]
    BY <2>1 DEF SumsUpTo
  <2> QED
    BY <2>1, <2>2, <2>3
<1> HIDE DEF G
<1>3. Nat \subseteq G
  BY <1>1, <1>2, NatInduct
<1> QED
  BY <1>3 DEF G

(* The recursive definition of the sums has a solution. *)
LEMMA SumToIs ==
  ASSUME NEW v
  PROVE  SumTo(v) = [n \in Nat |-> IF n = 0 THEN 0 ELSE SumTo(v)[n - 1] + v[n]]
<1> SUFFICES \E s : s = [n \in Nat |-> IF n = 0 THEN 0 ELSE s[n - 1] + v[n]]
  BY Zenon DEF SumTo
<1> DEFINE F(n) == CHOOSE f : SumsUpTo(v, f, n)
           s == [n \in Nat |-> F(n)[n]]
<1>1. \A n \in Nat : SumsUpTo(v, F(n), n)
  BY SumsExist, Zenon
<1>2. ASSUME NEW n \in Nat PROVE s[n] = IF n = 0 THEN 0 ELSE s[n - 1] + v[n]
  <2>1. CASE n = 0
    BY <1>1, <2>1 DEF SumsUpTo
  <2>2. CASE n # 0
    <3>1. n - 1 \in Nat /\ n - 1 <= n /\ n - 1 <= n - 1 /\ n \in 1..n
      BY <2>2
    <3>2. F(n)[n - 1] = F(n - 1)[n - 1]
      <4> HIDE DEF F
      <4>1. SumsUpTo(v, F(n), n) /\ SumsUpTo(v, F(n - 1), n - 1)
        BY <1>1, <3>1
      <4> QED
        BY <3>1, <4>1, SumsAgree
    <3>3. F(n)[n] = F(n)[n - 1] + v[n]
      <4> HIDE DEF F
      <4>1. SumsUpTo(v, F(n), n)
        BY <1>1
      <4> QED
        BY <3>1, <4>1 DEF SumsUpTo
    <3>4. s[n] = F(n)[n] /\ s[n - 1] = F(n - 1)[n - 1]
      BY <3>1
    <3> HIDE DEF F, s
    <3> QED
      BY <2>2, <3>2, <3>3, <3>4
  <2> QED
    BY <2>1, <2>2
<1> DEFINE t == [n \in Nat |-> IF n = 0 THEN 0 ELSE s[n - 1] + v[n]]
<1>3. s = t
  <2>1. \A n \in Nat : s[n] = t[n]
    <3> HIDE DEF s
    <3> QED
      BY <1>2
  <2>2. s = [n \in Nat |-> s[n]]
    OBVIOUS
  <2>3. t = [n \in Nat |-> t[n]]
    <3> HIDE DEF s
    <3> QED
      OBVIOUS
  <2> HIDE DEF s, t
  <2>4. [n \in Nat |-> s[n]] = [n \in Nat |-> t[n]]
    BY <2>1
  <2> QED
    BY <2>2, <2>3, <2>4, Zenon
<1> QED
  BY <1>3, Zenon

LEMMA SumSteps ==
  ASSUME NEW v
  PROVE  SumTo(v)[0] = 0 /\ \A n \in Nat : SumTo(v)[n + 1] = SumTo(v)[n] + v[n + 1]
<1> DEFINE s == SumTo(v)
<1> HIDE DEF s
<1>1. s = [n \in Nat |-> IF n = 0 THEN 0 ELSE s[n - 1] + v[n]]
  BY SumToIs, Zenon DEF s
<1>2. s[0] = 0
  BY <1>1
<1>3. ASSUME NEW n \in Nat PROVE s[n + 1] = s[n] + v[n + 1]
  <2>1. s[n + 1] = IF n + 1 = 0 THEN 0 ELSE s[(n + 1) - 1] + v[n + 1]
    BY <1>1, n + 1 \in Nat
  <2> QED
    BY <2>1
<1> QED
  BY <1>2, <1>3 DEF s

(* Sums depend on the numbers summed, change by what one of them changes, lose *)
(* what is taken out, and grow with their parts.                               *)
LEMMA SumExtends ==
  ASSUME NEW v, NEW w, NEW n \in Nat, \A k \in 1..n : w[k] = v[k]
  PROVE  SumTo(w)[n] = SumTo(v)[n]
<1> DEFINE G == {m \in Nat : m <= n => SumTo(w)[m] = SumTo(v)[m]}
<1>1. 0 \in G
  BY SumSteps
<1>2. ASSUME NEW m \in Nat, m \in G PROVE m + 1 \in G
  BY <1>2, SumSteps
<1> HIDE DEF G
<1>3. n \in G
  BY <1>1, <1>2, NatInduct
<1> QED
  BY <1>3 DEF G

LEMMA SumType ==
  ASSUME NEW v, NEW n \in Nat, \A k \in 1..n : v[k] \in Int
  PROVE  SumTo(v)[n] \in Int
<1> DEFINE G == {m \in Nat : m <= n => SumTo(v)[m] \in Int}
<1>1. 0 \in G
  BY SumSteps
<1>2. ASSUME NEW m \in Nat, m \in G PROVE m + 1 \in G
  BY <1>2, SumSteps
<1> HIDE DEF G
<1>3. n \in G
  BY <1>1, <1>2, NatInduct
<1> QED
  BY <1>3 DEF G

LEMMA SumChanges ==
  ASSUME NEW v, NEW w, NEW n \in Nat, NEW k \in 1..n,
         \A j \in 1..n : v[j] \in Int /\ w[j] \in Int,
         \A j \in 1..n : j # k => w[j] = v[j]
  PROVE  SumTo(w)[n] = SumTo(v)[n] - v[k] + w[k]
<1> DEFINE G == {m \in Nat : m <= n =>
                   SumTo(w)[m] = IF m < k THEN SumTo(v)[m] ELSE SumTo(v)[m] - v[k] + w[k]}
<1>1. 0 \in G
  BY SumSteps
<1>2. ASSUME NEW m \in Nat, m \in G PROVE m + 1 \in G
  <2> SUFFICES ASSUME m + 1 <= n
               PROVE  SumTo(w)[m + 1] = IF m + 1 < k THEN SumTo(v)[m + 1]
                                        ELSE SumTo(v)[m + 1] - v[k] + w[k]
    OBVIOUS
  <2>1. m + 1 \in 1..n /\ \A j \in 1..m : v[j] \in Int /\ w[j] \in Int
    OBVIOUS
  <2>2. SumTo(v)[m] \in Int /\ SumTo(w)[m] \in Int
    BY <2>1, SumType
  <2>3. /\ SumTo(w)[m + 1] = SumTo(w)[m] + w[m + 1]
        /\ SumTo(v)[m + 1] = SumTo(v)[m] + v[m + 1]
    BY SumSteps
  <2>4. SumTo(w)[m] = IF m < k THEN SumTo(v)[m] ELSE SumTo(v)[m] - v[k] + w[k]
    BY <1>2
  <2>5. /\ v[m + 1] \in Int /\ w[m + 1] \in Int /\ v[k] \in Int /\ w[k] \in Int
        /\ m + 1 # k => w[m + 1] = v[m + 1]
    BY <2>1
  <2>6. CASE m + 1 = k
    BY <2>2, <2>3, <2>4, <2>5, <2>6
  <2>7. CASE m + 1 # k
    BY <2>2, <2>3, <2>4, <2>5, <2>7
  <2> QED
    BY <2>6, <2>7
<1> HIDE DEF G
<1>3. n \in G
  BY <1>1, <1>2, NatInduct
<1> QED
  BY <1>3 DEF G

LEMMA SumLoses ==
  ASSUME NEW v, NEW w, NEW n \in Nat, NEW k \in 1..n,
         \A j \in 1..n : v[j] \in Int,
         \A j \in 1..(n - 1) : w[j] = IF j < k THEN v[j] ELSE v[j + 1]
  PROVE  SumTo(w)[n - 1] = SumTo(v)[n] - v[k]
<1> DEFINE G == {m \in Nat : k - 1 + m <= n - 1 =>
                   SumTo(w)[k - 1 + m] = SumTo(v)[k + m] - v[k]}
<1>1. 0 \in G
  <2>1. k - 1 \in Nat /\ \A j \in 1..(k - 1) : w[j] = v[j] /\ v[j] \in Int
    OBVIOUS
  <2>2. SumTo(w)[k - 1] = SumTo(v)[k - 1] /\ SumTo(v)[k - 1] \in Int
    BY <2>1, SumExtends, SumType
  <2>3. SumTo(v)[(k - 1) + 1] = SumTo(v)[k - 1] + v[(k - 1) + 1]
    BY <2>1, SumSteps
  <2>4. (k - 1) + 1 = k /\ k - 1 + 0 = k - 1 /\ k + 0 = k /\ v[k] \in Int
    OBVIOUS
  <2>5. SumTo(w)[k - 1] = SumTo(v)[k] - v[k]
    BY <2>2, <2>3, <2>4
  <2> QED
    BY <2>4, <2>5
<1>2. ASSUME NEW m \in Nat, m \in G PROVE m + 1 \in G
  <2> SUFFICES ASSUME k - 1 + (m + 1) <= n - 1
               PROVE  SumTo(w)[k - 1 + (m + 1)] = SumTo(v)[k + (m + 1)] - v[k]
    OBVIOUS
  <2> DEFINE a == k - 1 + m
  <2>1. /\ a \in Nat /\ k + m = a + 1 /\ k - 1 + (m + 1) = a + 1 /\ k + (m + 1) = (a + 1) + 1
        /\ a + 1 \in Nat /\ a + 1 \in 1..(n - 1) /\ ~(a + 1 < k) /\ a <= n - 1
        /\ \A j \in 1..(a + 1) : v[j] \in Int
    OBVIOUS
  <2>2. SumTo(w)[a] = SumTo(v)[a + 1] - v[k]
    BY <1>2, <2>1
  <2>3. w[a + 1] = v[(a + 1) + 1] /\ v[(a + 1) + 1] \in Int /\ v[k] \in Int
    BY <2>1
  <2>4. SumTo(v)[a + 1] \in Int
    BY <2>1, SumType
  <2>5. SumTo(w)[a + 1] = SumTo(w)[a] + w[a + 1]
    BY <2>1, SumSteps
  <2>6. SumTo(v)[(a + 1) + 1] = SumTo(v)[a + 1] + v[(a + 1) + 1]
    BY <2>1, SumSteps
  <2> HIDE DEF a
  <2> QED
    BY <2>1, <2>2, <2>3, <2>4, <2>5, <2>6
<1> HIDE DEF G
<1>3. n - k \in Nat /\ n - k \in G
  BY <1>1, <1>2, NatInduct
<1>4. k - 1 + (n - k) = n - 1 /\ k + (n - k) = n /\ n - 1 <= n - 1
  OBVIOUS
<1> QED
  BY <1>3, <1>4 DEF G

\* Parts of the form q + (C * v[k]) \div s, of n entries, with s the sum of v.
LEMMA SumOfShares ==
  ASSUME NEW v, NEW w, NEW n \in Nat, NEW C \in Nat, NEW q \in Nat, NEW s \in Nat, s > 0,
         \A j \in 1..n : v[j] \in Nat /\ w[j] = q + ((C * v[j]) \div s)
  PROVE  s * SumTo(w)[n] <= s * (n * q) + C * SumTo(v)[n]
<1>0. \A j \in 1..n : v[j] \in Int /\ C * v[j] \in Nat /\ w[j] \in Int
  OBVIOUS
<1> DEFINE G == {m \in Nat : m <= n => s * SumTo(w)[m] <= s * (m * q) + C * SumTo(v)[m]}
<1>1. 0 \in G
  BY SumSteps
<1>2. ASSUME NEW m \in Nat, m \in G PROVE m + 1 \in G
  <2> SUFFICES ASSUME m + 1 <= n
               PROVE  s * SumTo(w)[m + 1] <= s * ((m + 1) * q) + C * SumTo(v)[m + 1]
    OBVIOUS
  <2>1. m + 1 \in 1..n
    OBVIOUS
  <2>2. PICK W \in Int : W = SumTo(w)[m]
    BY <1>0, SumType
  <2>3. PICK V \in Int : V = SumTo(v)[m]
    BY <1>0, SumType
  <2>4. PICK x \in Nat : x = v[m + 1]
    BY <2>1
  <2>5. PICK d \in Int : d = (C * x) \div s
    BY <2>4
  <2>6. s * d <= C * x
    BY <2>5
  <2>7. SumTo(w)[m + 1] = W + (q + d) /\ SumTo(v)[m + 1] = V + x
    BY <2>1, <2>2, <2>3, <2>4, <2>5, SumSteps
  <2>8. s * W <= s * (m * q) + C * V
    BY <1>2, <2>2, <2>3
  <2>9. s * (W + (q + d)) = s * W + s * q + s * d
    OBVIOUS
  <2>10. s * ((m + 1) * q) = s * (m * q) + s * q
    OBVIOUS
  <2>11. C * (V + x) = C * V + C * x
    OBVIOUS
  <2>12. s * (W + (q + d)) <= s * ((m + 1) * q) + C * (V + x)
    BY <2>6, <2>8, <2>9, <2>10, <2>11
  <2> QED
    BY <2>7, <2>12
<1> HIDE DEF G
<1>3. n \in G
  BY <1>1, <1>2, NatInduct
<1> QED
  BY <1>3 DEF G

(* Dividing C among the parts of s, and at most M evenly, gives no more than *)
(* M + C.                                                                    *)
LEMMA SharesBounded ==
  ASSUME NEW v, NEW w, NEW n \in Nat, n > 0, NEW C \in Nat, NEW M \in Nat, NEW s \in Nat, s > 0,
         s = SumTo(v)[n],
         \A j \in 1..n : v[j] \in Nat /\ w[j] = (M \div n) + ((C * v[j]) \div s)
  PROVE  SumTo(w)[n] <= M + C
<1>1. PICK q \in Nat : q = M \div n
  OBVIOUS
<1>2. n * q <= M
  BY <1>1
<1>3. PICK W \in Int : W = SumTo(w)[n]
  BY SumType, \A j \in 1..n : w[j] \in Int
<1>4. s * W <= s * (n * q) + C * s
  BY <1>1, <1>3, SumOfShares
<1>5. s * (n * q) <= s * M
  BY <1>2
<1>6. s * W <= s * (M + C)
  BY <1>4, <1>5
<1>7. W <= M + C
  BY <1>6
<1> QED
  BY <1>3, <1>7


-----------------------------------------------------------------------------
(* The sums over a list. *)

Speeds(s) == [k \in DOMAIN s |-> s[k].Speed]
Cells(s) == [k \in DOMAIN s |-> s[k].NumCells]
Caps(s) == [k \in DOMAIN s |-> Assigned(s[k])]

LEMMA AssignedType ==
  ASSUME NEW e \in Entries
  PROVE  Assigned(e) \in Nat /\ e.Speed \in Nat /\ e.NumCells \in Nat
BY DEF Assigned, Entries

LEMMA LenOfParts ==
  ASSUME NEW n \in Nat, NEW v, DOMAIN v = 1..n, v = [k \in DOMAIN v |-> v[k]]
  PROVE  Len(v) = n
<1>1. v \in [1..n -> {v[k] : k \in 1..n}]
  OBVIOUS
<1>2. v \in Seq({v[k] : k \in 1..n})
  BY <1>1
<1> QED
  BY <1>1, <1>2

LEMMA SumsOfList ==
  ASSUME NEW s \in Seq(Entries)
  PROVE  /\ SpeedSum(s) = SumTo(Speeds(s))[Len(s)] /\ SpeedSum(s) \in Int
         /\ CellSum(s) = SumTo(Cells(s))[Len(s)] /\ CellSum(s) \in Int
         /\ AssignedSum(s) = SumTo(Caps(s))[Len(s)] /\ AssignedSum(s) \in Int
         /\ \A k \in 1..Len(s) :
              /\ Speeds(s)[k] = s[k].Speed /\ Speeds(s)[k] \in Nat
              /\ Cells(s)[k] = s[k].NumCells /\ Cells(s)[k] \in Nat
              /\ Caps(s)[k] = Assigned(s[k]) /\ Caps(s)[k] \in Nat
<1>1. DOMAIN s = 1..Len(s) /\ Len(s) \in Nat /\ \A k \in 1..Len(s) : s[k] \in Entries
  BY SeqFacts
<1>2. \A k \in 1..Len(s) :
        /\ Speeds(s)[k] = s[k].Speed /\ Speeds(s)[k] \in Nat
        /\ Cells(s)[k] = s[k].NumCells /\ Cells(s)[k] \in Nat
        /\ Caps(s)[k] = Assigned(s[k]) /\ Caps(s)[k] \in Nat
  BY <1>1, AssignedType DEF Speeds, Cells, Caps
<1>3. Len(Speeds(s)) = Len(s) /\ Len(Cells(s)) = Len(s) /\ Len(Caps(s)) = Len(s)
  <2>1. /\ DOMAIN Speeds(s) = 1..Len(s) /\ Speeds(s) = [k \in DOMAIN Speeds(s) |-> Speeds(s)[k]]
        /\ DOMAIN Cells(s) = 1..Len(s) /\ Cells(s) = [k \in DOMAIN Cells(s) |-> Cells(s)[k]]
        /\ DOMAIN Caps(s) = 1..Len(s) /\ Caps(s) = [k \in DOMAIN Caps(s) |-> Caps(s)[k]]
    BY <1>1 DEF Speeds, Cells, Caps
  <2> QED
    BY <1>1, <2>1, LenOfParts
<1>4. /\ SpeedSum(s) = SumTo(Speeds(s))[Len(s)]
      /\ CellSum(s) = SumTo(Cells(s))[Len(s)]
      /\ AssignedSum(s) = SumTo(Caps(s))[Len(s)]
  BY <1>3 DEF SpeedSum, CellSum, AssignedSum, SumOf, Speeds, Cells, Caps
<1>5. SpeedSum(s) \in Int /\ CellSum(s) \in Int /\ AssignedSum(s) \in Int
  <2>1. \A k \in 1..Len(s) :
          Speeds(s)[k] \in Int /\ Cells(s)[k] \in Int /\ Caps(s)[k] \in Int
    BY <1>2
  <2>2. /\ SumTo(Speeds(s))[Len(s)] \in Int
        /\ SumTo(Cells(s))[Len(s)] \in Int
        /\ SumTo(Caps(s))[Len(s)] \in Int
    BY <1>1, <2>1, SumType
  <2> QED
    BY <1>4, <2>2
<1> QED
  BY <1>2, <1>4, <1>5

LEMMA SumsAppend ==
  ASSUME NEW s \in Seq(Entries), NEW e \in Entries
  PROVE  /\ SpeedSum(Append(s, e)) = SpeedSum(s) + e.Speed
         /\ CellSum(Append(s, e)) = CellSum(s) + e.NumCells
         /\ AssignedSum(Append(s, e)) = AssignedSum(s) + Assigned(e)
<1> DEFINE t == Append(s, e)
<1>1. /\ t \in Seq(Entries) /\ Len(t) = Len(s) + 1 /\ Len(s) \in Nat
      /\ \A k \in 1..Len(s) : t[k] = s[k]
      /\ t[Len(s) + 1] = e
  BY AppendProperties
<1> HIDE DEF t
<1>2. /\ Len(s) + 1 \in 1..Len(t)
      /\ \A k \in 1..Len(s) : k \in 1..Len(t)
  BY <1>1
<1>3. SpeedSum(t) = SpeedSum(s) + e.Speed
  <2>1. \A k \in 1..Len(s) : Speeds(t)[k] = Speeds(s)[k]
    BY <1>1, <1>2, SumsOfList
  <2>2. SumTo(Speeds(t))[Len(s)] = SumTo(Speeds(s))[Len(s)]
    BY <1>1, <2>1, SumExtends
  <2>3. SumTo(Speeds(t))[Len(s) + 1] = SumTo(Speeds(t))[Len(s)] + Speeds(t)[Len(s) + 1]
    BY <1>1, SumSteps
  <2>4. Speeds(t)[Len(s) + 1] = e.Speed
    BY <1>1, <1>2, SumsOfList
  <2>5. SpeedSum(t) = SumTo(Speeds(t))[Len(s) + 1] /\ SpeedSum(s) = SumTo(Speeds(s))[Len(s)]
    BY <1>1, SumsOfList
  <2> QED
    BY <2>2, <2>3, <2>4, <2>5
<1>4. CellSum(t) = CellSum(s) + e.NumCells
  <2>1. \A k \in 1..Len(s) : Cells(t)[k] = Cells(s)[k]
    BY <1>1, <1>2, SumsOfList
  <2>2. SumTo(Cells(t))[Len(s)] = SumTo(Cells(s))[Len(s)]
    BY <1>1, <2>1, SumExtends
  <2>3. SumTo(Cells(t))[Len(s) + 1] = SumTo(Cells(t))[Len(s)] + Cells(t)[Len(s) + 1]
    BY <1>1, SumSteps
  <2>4. Cells(t)[Len(s) + 1] = e.NumCells
    BY <1>1, <1>2, SumsOfList
  <2>5. CellSum(t) = SumTo(Cells(t))[Len(s) + 1] /\ CellSum(s) = SumTo(Cells(s))[Len(s)]
    BY <1>1, SumsOfList
  <2> QED
    BY <2>2, <2>3, <2>4, <2>5
<1>5. AssignedSum(t) = AssignedSum(s) + Assigned(e)
  <2>1. \A k \in 1..Len(s) : Caps(t)[k] = Caps(s)[k]
    BY <1>1, <1>2, SumsOfList
  <2>2. SumTo(Caps(t))[Len(s)] = SumTo(Caps(s))[Len(s)]
    BY <1>1, <2>1, SumExtends
  <2>3. SumTo(Caps(t))[Len(s) + 1] = SumTo(Caps(t))[Len(s)] + Caps(t)[Len(s) + 1]
    BY <1>1, SumSteps
  <2>4. Caps(t)[Len(s) + 1] = Assigned(e)
    BY <1>1, <1>2, SumsOfList
  <2>5. AssignedSum(t) = SumTo(Caps(t))[Len(s) + 1] /\ AssignedSum(s) = SumTo(Caps(s))[Len(s)]
    BY <1>1, SumsOfList
  <2> QED
    BY <2>2, <2>3, <2>4, <2>5
<1> QED
  BY <1>3, <1>4, <1>5 DEF t

LEMMA SumsChange ==
  ASSUME NEW s \in Seq(Entries), NEW t \in Seq(Entries), Len(t) = Len(s), NEW k \in 1..Len(s),
         \A j \in 1..Len(s) : j # k => t[j] = s[j]
  PROVE  /\ SpeedSum(t) = SpeedSum(s) - s[k].Speed + t[k].Speed
         /\ CellSum(t) = CellSum(s) - s[k].NumCells + t[k].NumCells
         /\ AssignedSum(t) = AssignedSum(s) - Assigned(s[k]) + Assigned(t[k])
<1>1. Len(s) \in Nat
  OBVIOUS
<1>2. \A j \in 1..Len(s) : /\ Speeds(s)[j] = s[j].Speed /\ Speeds(s)[j] \in Nat
                           /\ Cells(s)[j] = s[j].NumCells /\ Cells(s)[j] \in Nat
                           /\ Caps(s)[j] = Assigned(s[j]) /\ Caps(s)[j] \in Nat
  BY SumsOfList
<1>3. \A j \in 1..Len(s) : /\ Speeds(t)[j] = t[j].Speed /\ Speeds(t)[j] \in Nat
                           /\ Cells(t)[j] = t[j].NumCells /\ Cells(t)[j] \in Nat
                           /\ Caps(t)[j] = Assigned(t[j]) /\ Caps(t)[j] \in Nat
  BY SumsOfList
<1>4. SumTo(Speeds(t))[Len(s)] = SumTo(Speeds(s))[Len(s)] - Speeds(s)[k] + Speeds(t)[k]
  <2> DEFINE v == Speeds(s)
             w == Speeds(t)
             n == Len(s)
  <2>1. n \in Nat /\ k \in 1..n /\ \A j \in 1..n : v[j] \in Int /\ w[j] \in Int
    BY <1>1, <1>2, <1>3
  <2>2. ASSUME NEW j \in 1..n, j # k PROVE w[j] = v[j]
    <3>1. t[j] = s[j]
      BY <2>2
    <3> QED
      BY <1>2, <1>3, <3>1
  <2> HIDE DEF v, w, n
  <2>3. SumTo(w)[n] = SumTo(v)[n] - v[k] + w[k]
    BY <2>1, <2>2, SumChanges
  <2> QED
    BY <2>3 DEF v, w, n
<1>5. SumTo(Cells(t))[Len(s)] = SumTo(Cells(s))[Len(s)] - Cells(s)[k] + Cells(t)[k]
  <2> DEFINE v == Cells(s)
             w == Cells(t)
             n == Len(s)
  <2>1. n \in Nat /\ k \in 1..n /\ \A j \in 1..n : v[j] \in Int /\ w[j] \in Int
    BY <1>1, <1>2, <1>3
  <2>2. ASSUME NEW j \in 1..n, j # k PROVE w[j] = v[j]
    <3>1. t[j] = s[j]
      BY <2>2
    <3> QED
      BY <1>2, <1>3, <3>1
  <2> HIDE DEF v, w, n
  <2>3. SumTo(w)[n] = SumTo(v)[n] - v[k] + w[k]
    BY <2>1, <2>2, SumChanges
  <2> QED
    BY <2>3 DEF v, w, n
<1>6. SumTo(Caps(t))[Len(s)] = SumTo(Caps(s))[Len(s)] - Caps(s)[k] + Caps(t)[k]
  <2> DEFINE v == Caps(s)
             w == Caps(t)
             n == Len(s)
  <2>1. n \in Nat /\ k \in 1..n /\ \A j \in 1..n : v[j] \in Int /\ w[j] \in Int
    BY <1>1, <1>2, <1>3
  <2>2. ASSUME NEW j \in 1..n, j # k PROVE w[j] = v[j]
    <3>1. t[j] = s[j]
      BY <2>2
    <3> QED
      BY <1>2, <1>3, <3>1
  <2> HIDE DEF v, w, n
  <2>3. SumTo(w)[n] = SumTo(v)[n] - v[k] + w[k]
    BY <2>1, <2>2, SumChanges
  <2> QED
    BY <2>3 DEF v, w, n
<1> QED
  BY <1>2, <1>3, <1>4, <1>5, <1>6, SumsOfList

LEMMA SumsRemove ==
  ASSUME NEW s \in Seq(Entries), NEW k \in 1..Len(s)
  PROVE  /\ SpeedSum(RemoveAt(s, k)) = SpeedSum(s) - s[k].Speed
         /\ CellSum(RemoveAt(s, k)) = CellSum(s) - s[k].NumCells
         /\ AssignedSum(RemoveAt(s, k)) = AssignedSum(s) - Assigned(s[k])
<1> DEFINE t == RemoveAt(s, k)
<1>0. Len(s) \in Nat
  OBVIOUS
<1>1. /\ t \in Seq(Entries) /\ Len(t) = Len(s) - 1 /\ Len(s) \in Nat
      /\ \A j \in 1..(Len(s) - 1) : t[j] = IF j < k THEN s[j] ELSE s[j + 1]
  <2>1. /\ RemoveAt(s, k) \in Seq(Entries) /\ Len(RemoveAt(s, k)) = Len(s) - 1
        /\ \A j \in 1..(Len(s) - 1) : RemoveAt(s, k)[j] = IF j < k THEN s[j] ELSE s[j + 1]
    BY RemovedList, Zenon
  <2> QED
    BY <1>0, <2>1, Zenon
<1> HIDE DEF t
<1>2. \A j \in 1..(Len(s) - 1) : j \in 1..Len(s) /\ j + 1 \in 1..Len(s)
  BY <1>1
<1>3. \A j \in 1..Len(s) : /\ Speeds(s)[j] = s[j].Speed /\ Speeds(s)[j] \in Nat
                           /\ Cells(s)[j] = s[j].NumCells /\ Cells(s)[j] \in Nat
                           /\ Caps(s)[j] = Assigned(s[j]) /\ Caps(s)[j] \in Nat
  BY SumsOfList
<1>4. \A j \in 1..(Len(s) - 1) : /\ Speeds(t)[j] = t[j].Speed
                                 /\ Cells(t)[j] = t[j].NumCells
                                 /\ Caps(t)[j] = Assigned(t[j])
  BY <1>1, SumsOfList
<1>5. SumTo(Speeds(t))[Len(s) - 1] = SumTo(Speeds(s))[Len(s)] - Speeds(s)[k]
  <2> DEFINE v == Speeds(s)
             w == Speeds(t)
  <2>1. \A j \in 1..Len(s) : v[j] \in Int
    BY <1>3
  <2>2. ASSUME NEW j \in 1..(Len(s) - 1) PROVE w[j] = IF j < k THEN v[j] ELSE v[j + 1]
    <3>1. j \in 1..Len(s) /\ j + 1 \in 1..Len(s) /\ t[j] = IF j < k THEN s[j] ELSE s[j + 1]
      BY <1>1, <1>2
    <3> QED
      BY <1>3, <1>4, <3>1
  <2> HIDE DEF v, w
  <2>3. SumTo(w)[Len(s) - 1] = SumTo(v)[Len(s)] - v[k]
    BY <1>1, <2>1, <2>2, SumLoses
  <2> QED
    BY <2>3 DEF v, w
<1>6. SumTo(Cells(t))[Len(s) - 1] = SumTo(Cells(s))[Len(s)] - Cells(s)[k]
  <2> DEFINE v == Cells(s)
             w == Cells(t)
  <2>1. \A j \in 1..Len(s) : v[j] \in Int
    BY <1>3
  <2>2. ASSUME NEW j \in 1..(Len(s) - 1) PROVE w[j] = IF j < k THEN v[j] ELSE v[j + 1]
    <3>1. j \in 1..Len(s) /\ j + 1 \in 1..Len(s) /\ t[j] = IF j < k THEN s[j] ELSE s[j + 1]
      BY <1>1, <1>2
    <3> QED
      BY <1>3, <1>4, <3>1
  <2> HIDE DEF v, w
  <2>3. SumTo(w)[Len(s) - 1] = SumTo(v)[Len(s)] - v[k]
    BY <1>1, <2>1, <2>2, SumLoses
  <2> QED
    BY <2>3 DEF v, w
<1>7. SumTo(Caps(t))[Len(s) - 1] = SumTo(Caps(s))[Len(s)] - Caps(s)[k]
  <2> DEFINE v == Caps(s)
             w == Caps(t)
  <2>1. \A j \in 1..Len(s) : v[j] \in Int
    BY <1>3
  <2>2. ASSUME NEW j \in 1..(Len(s) - 1) PROVE w[j] = IF j < k THEN v[j] ELSE v[j + 1]
    <3>1. j \in 1..Len(s) /\ j + 1 \in 1..Len(s) /\ t[j] = IF j < k THEN s[j] ELSE s[j + 1]
      BY <1>1, <1>2
    <3> QED
      BY <1>3, <1>4, <3>1
  <2> HIDE DEF v, w
  <2>3. SumTo(w)[Len(s) - 1] = SumTo(v)[Len(s)] - v[k]
    BY <1>1, <2>1, <2>2, SumLoses
  <2> QED
    BY <2>3 DEF v, w
<1>8. /\ SpeedSum(t) = SumTo(Speeds(t))[Len(s) - 1] /\ SpeedSum(s) = SumTo(Speeds(s))[Len(s)]
      /\ CellSum(t) = SumTo(Cells(t))[Len(s) - 1] /\ CellSum(s) = SumTo(Cells(s))[Len(s)]
      /\ AssignedSum(t) = SumTo(Caps(t))[Len(s) - 1] /\ AssignedSum(s) = SumTo(Caps(s))[Len(s)]
  BY <1>1, SumsOfList
<1> QED
  BY <1>3, <1>5, <1>6, <1>7, <1>8 DEF t

-----------------------------------------------------------------------------
(* The totals are the sums, and the shares fit. *)

\* Conjoined with Inv it is inductive.
Sums == NumCellsIsSum /\ SpeedIsSum /\ SharesFit

\* What a step has to show: how it changes the three sums of IPMap[0].
LEMMA SumsFrom ==
  ASSUME Inv, Sums, NEW ds \in Int, NEW dc \in Int, NEW da \in Int, da <= 0,
         NumCells' = NumCells + dc, Speed' = Speed + ds, torn' = torn,
         SpeedSum(IPMap'[0]) = SpeedSum(IPMap[0]) + ds,
         CellSum(IPMap'[0]) = CellSum(IPMap[0]) + dc,
         AssignedSum(IPMap'[0]) = AssignedSum(IPMap[0]) + da
  PROVE  Sums'
<1>1. /\ Speed \in Int /\ NumCells \in Int /\ IPMap[0] \in Seq(Entries)
      /\ Capacity \in Int /\ SrvrShare \in Int
  BY Constants DEF Inv, TypeOK
<1>2. /\ SpeedSum(IPMap[0]) \in Int /\ CellSum(IPMap[0]) \in Int
      /\ AssignedSum(IPMap[0]) \in Int
  BY <1>1, SumsOfList
<1>3. NumCellsIsSum'
  BY <1>1, <1>2 DEF Sums, NumCellsIsSum
<1>4. SpeedIsSum'
  BY <1>1, <1>2 DEF Sums, SpeedIsSum
<1>5. SharesFit'
  BY <1>1, <1>2 DEF Sums, SharesFit
<1> QED
  BY <1>3, <1>4, <1>5 DEF Sums

LEMMA SumsStay ==
  ASSUME Inv, Sums, IPMap'[0] = IPMap[0], UNCHANGED <<Speed, NumCells, torn>>
  PROVE  Sums'
BY DEF Sums, NumCellsIsSum, SpeedIsSum, SharesFit

LEMMA AddKeepsSums ==
  ASSUME Inv, Sums, NEW w \in {0, 1}, NEW e \in Entries, AddIPMap(w, e), Assigned(e) = 0,
         torn' = torn
  PROVE  Sums'
<1>1. IPMap \in [{0, 1} -> Seq(Entries)] /\ Speed \in Int /\ NumCells \in Int
  BY DEF Inv, TypeOK
<1>2. CASE w = 0
  <2>1. /\ IPMap[0] \in Seq(Entries) /\ IPMap'[0] = Append(IPMap[0], e)
        /\ Speed' = Speed + e.Speed /\ NumCells' = NumCells + e.NumCells
        /\ e.Speed \in Int /\ e.NumCells \in Int
    BY <1>1, <1>2, AssignedType DEF AddIPMap
  <2>2. /\ SpeedSum(IPMap'[0]) = SpeedSum(IPMap[0]) + e.Speed
        /\ CellSum(IPMap'[0]) = CellSum(IPMap[0]) + e.NumCells
        /\ AssignedSum(IPMap'[0]) = AssignedSum(IPMap[0]) + 0
    BY <2>1, SumsAppend
  <2> QED
    BY <2>1, <2>2, SumsFrom
<1>3. CASE w = 1
  <2>1. IPMap'[0] = IPMap[0] /\ UNCHANGED <<Speed, NumCells>>
    BY <1>1, <1>3 DEF AddIPMap
  <2> QED
    BY <2>1, SumsStay
<1> QED
  BY <1>2, <1>3

LEMMA RemoveKeepsSums ==
  ASSUME Inv, Sums, NEW w \in {0, 1}, NEW k \in 1..Len(IPMap[w]), RemoveIPMap(w, k), torn' = torn
  PROVE  Sums'
<1>1. IPMap \in [{0, 1} -> Seq(Entries)] /\ Speed \in Int /\ NumCells \in Int
  BY DEF Inv, TypeOK
<1>2. CASE w = 0
  <2>1. PICK e \in Entries : e = IPMap[0][k]
    BY <1>2, NumbersOf
  <2>2. /\ IPMap[0] \in Seq(Entries) /\ IPMap'[0] = RemoveAt(IPMap[0], k)
        /\ Speed' = Speed - e.Speed /\ NumCells' = NumCells - e.NumCells
        /\ e.Speed \in Nat /\ e.NumCells \in Nat /\ Assigned(e) \in Nat
    BY <1>1, <1>2, <2>1, AssignedType DEF RemoveIPMap
  <2>3. /\ SpeedSum(IPMap'[0]) = SpeedSum(IPMap[0]) - e.Speed
        /\ CellSum(IPMap'[0]) = CellSum(IPMap[0]) - e.NumCells
        /\ AssignedSum(IPMap'[0]) = AssignedSum(IPMap[0]) - Assigned(e)
    BY <1>2, <2>1, <2>2, SumsRemove
  <2> DEFINE ds == 0 - e.Speed
             dc == 0 - e.NumCells
             da == 0 - Assigned(e)
  <2>4. ds \in Int /\ dc \in Int /\ da \in Int /\ da <= 0
    BY <2>2
  <2>5. /\ SpeedSum(IPMap[0]) \in Int /\ CellSum(IPMap[0]) \in Int
        /\ AssignedSum(IPMap[0]) \in Int
    BY <2>2, SumsOfList
  <2>6. Speed' = Speed + ds /\ NumCells' = NumCells + dc
    <3>1. Speed' = Speed + ds
      BY <1>1, <2>2
    <3>2. NumCells' = NumCells + dc
      BY <1>1, <2>2
    <3> QED
      BY <3>1, <3>2
  <2>7. /\ SpeedSum(IPMap'[0]) = SpeedSum(IPMap[0]) + ds
        /\ CellSum(IPMap'[0]) = CellSum(IPMap[0]) + dc
        /\ AssignedSum(IPMap'[0]) = AssignedSum(IPMap[0]) + da
    BY <2>2, <2>3, <2>5
  <2> HIDE DEF ds, dc, da
  <2> QED
    BY <2>4, <2>6, <2>7, SumsFrom
<1>3. CASE w = 1
  <2>1. IPMap'[0] = IPMap[0] /\ UNCHANGED <<Speed, NumCells>>
    BY <1>1, <1>3 DEF RemoveIPMap
  <2> QED
    BY <2>1, SumsStay
<1> QED
  BY <1>2, <1>3

\* One entry changed: a report, or a speed set to zero.
LEMMA ChangeKeepsSums ==
  ASSUME Inv, Sums, NEW w \in {0, 1}, NEW k \in 1..Len(IPMap[w]), NEW e \in Entries,
         e.cap = IPMap[w][k].cap, torn' = torn,
         IPMap' = [IPMap EXCEPT ![w] = [IPMap[w] EXCEPT ![k] = e]],
         Speed' = IF w = 0 THEN Speed - IPMap[w][k].Speed + e.Speed ELSE Speed,
         NumCells' = IF w = 0 THEN NumCells - IPMap[w][k].NumCells + e.NumCells ELSE NumCells
  PROVE  Sums'
<1>1. IPMap \in [{0, 1} -> Seq(Entries)] /\ Speed \in Int /\ NumCells \in Int
  BY DEF Inv, TypeOK
<1>2. CASE w = 0
  <2>1. PICK o \in Entries : o = IPMap[0][k]
    BY <1>2, NumbersOf
  <2>2. PICK s \in Seq(Entries) : s = IPMap[0]
    BY <1>1
  <2> DEFINE t == [s EXCEPT ![k] = e]
  <2>3. /\ t \in Seq(Entries) /\ Len(t) = Len(s) /\ k \in 1..Len(s) /\ s[k] = o /\ t[k] = e
        /\ \A j \in 1..Len(s) : j # k => t[j] = s[j]
    BY <1>2, <2>1, <2>2
  <2>4. IPMap'[0] = t
    BY <1>1, <1>2, <2>2
  <2> HIDE DEF t
  <2>5. Assigned(e) = Assigned(o)
    BY <1>2, <2>1 DEF Assigned
  <2>6. /\ SpeedSum(t) = SpeedSum(s) - o.Speed + e.Speed
        /\ CellSum(t) = CellSum(s) - o.NumCells + e.NumCells
        /\ AssignedSum(t) = AssignedSum(s) - Assigned(o) + Assigned(e)
    BY <2>3, SumsChange
  <2> DEFINE ds == e.Speed - o.Speed
             dc == e.NumCells - o.NumCells
  <2>7. /\ o.Speed \in Nat /\ e.Speed \in Nat /\ o.NumCells \in Nat /\ e.NumCells \in Nat
        /\ Assigned(o) \in Nat
    BY AssignedType
  <2>8. SpeedSum(s) \in Int /\ CellSum(s) \in Int /\ AssignedSum(s) \in Int
    BY SumsOfList
  <2>9. ds \in Int /\ dc \in Int
    BY <2>7
  <2>10. Speed' = Speed + ds /\ NumCells' = NumCells + dc
    <3>1. /\ Speed' = Speed - o.Speed + e.Speed
          /\ NumCells' = NumCells - o.NumCells + e.NumCells
      BY <1>2, <2>1
    <3>2. \A a \in Int : \A x, y \in Nat : a - x + y = a + (y - x)
      OBVIOUS
    <3> QED
      BY <1>1, <2>7, <3>1, <3>2, Zenon
  <2>11. /\ SpeedSum(t) = SpeedSum(s) + ds
         /\ CellSum(t) = CellSum(s) + dc
         /\ AssignedSum(t) = AssignedSum(s) + 0
    <3>1. SpeedSum(t) = SpeedSum(s) + ds
      BY <2>6, <2>7, <2>8
    <3>2. CellSum(t) = CellSum(s) + dc
      BY <2>6, <2>7, <2>8
    <3>3. AssignedSum(t) = AssignedSum(s) + 0
      BY <2>5, <2>6, <2>7, <2>8
    <3> QED
      BY <3>1, <3>2, <3>3
  <2> HIDE DEF ds, dc
  <2>12. /\ SpeedSum(IPMap'[0]) = SpeedSum(IPMap[0]) + ds
         /\ CellSum(IPMap'[0]) = CellSum(IPMap[0]) + dc
         /\ AssignedSum(IPMap'[0]) = AssignedSum(IPMap[0]) + 0
    BY <2>2, <2>4, <2>11
  <2> QED
    BY <2>9, <2>10, <2>12, SumsFrom
<1>3. CASE w = 1
  <2>1. IPMap'[0] = IPMap[0] /\ UNCHANGED <<Speed, NumCells>>
    BY <1>1, <1>3
  <2> QED
    BY <2>1, SumsStay
<1> QED
  BY <1>2, <1>3

\* The lists the server starts with: no capacity has been given to anybody.
LEMMA InitSums == Init => Sums
<1> SUFFICES ASSUME Init PROVE Sums
  OBVIOUS
<1>1. PICK n \in 0..MaxFile, l \in 0..MaxFile :
        \E s \in Files(Node, n), t \in Files(Peer, l) :
          /\ IPMap = [w \in {0, 1} |-> IF w = 0 THEN FromFile(s) ELSE FromFile(t)]
          /\ Speed = 200 * n /\ NumCells = n
  BY DEF Init
<1>2. PICK s \in Files(Node, n), t \in Files(Peer, l) :
        /\ IPMap = [w \in {0, 1} |-> IF w = 0 THEN FromFile(s) ELSE FromFile(t)]
        /\ Speed = 200 * n /\ NumCells = n
  BY <1>1
<1>3. n \in Nat
  BY ServerAssumption
<1> DEFINE m == IPMap[0]
<1>4. m = FromFile(s)
  BY <1>2
<1>5. Len(m) = n /\ \A k \in 1..n : m[k].Speed = 200 /\ m[k].NumCells = 1 /\ m[k].cap = 0
  <2>1. Node \subseteq Addr
    BY DEF Addr
  <2>2. /\ Len(FromFile(s)) = n
        /\ \A k \in 1..n : /\ FromFile(s)[k].Speed = 200
                            /\ FromFile(s)[k].NumCells = 1 /\ FromFile(s)[k].cap = 0
    BY <1>3, <2>1, FileIsGood
  <2> HIDE DEF m
  <2>3. Len(m) = n
    BY <1>4, <2>2
  <2>4. ASSUME NEW k \in 1..n
        PROVE  m[k].Speed = 200 /\ m[k].NumCells = 1 /\ m[k].cap = 0
    <3>1. m[k] = FromFile(s)[k]
      BY <1>4
    <3> QED
      BY <2>2, <3>1
  <2> QED
    BY <2>3, <2>4
<1>6. m \in Seq(Entries)
  BY InitInv DEF Inv, TypeOK
<1>7. Len(m) = n
  BY <1>5
<1> HIDE DEF m
<1>8. ASSUME NEW k \in 1..n PROVE Speeds(m)[k] = 200 /\ Cells(m)[k] = 1 /\ Caps(m)[k] = 0
  <2>1. /\ Speeds(m)[k] = m[k].Speed /\ Cells(m)[k] = m[k].NumCells
        /\ Caps(m)[k] = Assigned(m[k])
    BY <1>6, <1>7, SumsOfList
  <2>2. m[k].Speed = 200 /\ m[k].NumCells = 1 /\ m[k].cap = 0
    BY <1>5
  <2>3. Assigned(m[k]) = 0
    BY <2>2, ServerAssumption DEF Assigned
  <2> QED
    BY <2>1, <2>2, <2>3
<1> DEFINE G == {j \in Nat : j <= n => /\ SumTo(Speeds(m))[j] = 200 * j
                                       /\ SumTo(Cells(m))[j] = j
                                       /\ SumTo(Caps(m))[j] = 0}
<1>9. 0 \in G
  BY SumSteps
<1>10. ASSUME NEW j \in Nat, j \in G PROVE j + 1 \in G
  <2> SUFFICES ASSUME j + 1 <= n
               PROVE  /\ SumTo(Speeds(m))[j + 1] = 200 * (j + 1)
                      /\ SumTo(Cells(m))[j + 1] = j + 1
                      /\ SumTo(Caps(m))[j + 1] = 0
    OBVIOUS
  <2>1. j + 1 \in 1..n
    BY <1>3
  <2>2. /\ Speeds(m)[j + 1] = 200 /\ Cells(m)[j + 1] = 1 /\ Caps(m)[j + 1] = 0
    BY <1>8, <2>1
  <2>3. /\ SumTo(Speeds(m))[j + 1] = SumTo(Speeds(m))[j] + Speeds(m)[j + 1]
        /\ SumTo(Cells(m))[j + 1] = SumTo(Cells(m))[j] + Cells(m)[j + 1]
        /\ SumTo(Caps(m))[j + 1] = SumTo(Caps(m))[j] + Caps(m)[j + 1]
    BY SumSteps
  <2>4. /\ SumTo(Speeds(m))[j] = 200 * j /\ SumTo(Cells(m))[j] = j /\ SumTo(Caps(m))[j] = 0
    BY <1>3, <1>10
  <2> QED
    BY <2>2, <2>3, <2>4
<1> HIDE DEF G
<1>11. n \in G
  BY <1>3, <1>9, <1>10, NatInduct
<1>12. SpeedSum(m) = 200 * n /\ CellSum(m) = n /\ AssignedSum(m) = 0
  BY <1>3, <1>6, <1>7, <1>11, SumsOfList DEF G
<1>13. Capacity >= 0 => 0 <= Capacity - SrvrShare
  BY ServerAssumption
<1> QED
  BY <1>2, <1>12, <1>13 DEF Sums, NumCellsIsSum, SpeedIsSum, SharesFit, m

\* A round of shares: the parts given out by speed add up to no more than what
\* is given out by speed, because the total the code divides by is their sum.
LEMMA GrantKeepsSums ==
  ASSUME Inv, Sums, Shares, UNCHANGED <<Speed, NumCells, torn>>
  PROVE  Sums'
<1>1. /\ IPMap \in [{0, 1} -> Seq(Entries)] /\ Speed \in Int
  BY DEF Inv, TypeOK
<1>2. PICK s \in Seq(Entries) : s = IPMap[0]
  BY <1>1
<1>3. \/ IPMap'[0] = s
      \/ Speed > 0 /\ (Capacity >= 0 => s # <<>>) /\ IPMap'[0] = WithShares(s, Speed)
  <2>1. CASE UNCHANGED IPMap
    BY <1>2, <2>1
  <2>2. CASE /\ IPMap' = [IPMap EXCEPT ![0] = WithShares(@, Speed)]
             /\ ~(Capacity >= 0 /\ IPMap[0] = <<>>)
    <3>1. IPMap'[0] = WithShares(s, Speed)
      BY <1>1, <1>2, <2>2
    <3>2. Speed <= 0 => WithShares(s, Speed) = s
      BY DEF WithShares
    <3> QED
      BY <1>1, <1>2, <2>2, <3>1, <3>2
  <2> QED
    BY <2>1, <2>2 DEF Shares, UpdRemOutBndCap, SetRemOutBndCap
<1>4. CASE IPMap'[0] = s
  BY <1>2, <1>4, SumsStay
<1>5. CASE Speed > 0 /\ (Capacity >= 0 => s # <<>>) /\ IPMap'[0] = WithShares(s, Speed)
  <2>1. PICK n \in Nat : n = Len(s)
    OBVIOUS
  <2> DEFINE c(k) == Share(s[k], n, Speed)
  <2>2. PICK t \in Seq(Entries) : t = IPMap'[0]
    BY GrantKeepsLists DEF ListsKept
  <2>3. t = [k \in DOMAIN s |-> [s[k] EXCEPT !.cap = c(k)]]
    BY <1>1, <1>5, <2>1, <2>2 DEF WithShares
  <2>4. DOMAIN s = 1..n /\ DOMAIN t = 1..n
    BY <2>1, <2>3, SeqFacts
  <2>5. Len(t) = n
    BY <2>1, <2>4, SeqFacts
  <2>6. \A k \in 1..n : s[k] \in Entries
    BY <2>1, SeqFacts
  <2>7. ASSUME NEW k \in 1..n
        PROVE  t[k].Speed = s[k].Speed /\ t[k].NumCells = s[k].NumCells /\ t[k].cap = c(k)
    <3>1. t[k] = [s[k] EXCEPT !.cap = c(k)]
      BY <2>3, <2>4
    <3> HIDE DEF c
    <3> QED
      BY <2>6, <3>1 DEF Entries
  <2>8. \A k \in 1..n : Speeds(t)[k] = Speeds(s)[k] /\ Cells(t)[k] = Cells(s)[k]
    <3> HIDE DEF c
    <3> QED
      BY <2>1, <2>5, <2>7, SumsOfList
  <2>9. SpeedSum(t) = SpeedSum(s) /\ CellSum(t) = CellSum(s)
    <3>1. /\ SumTo(Speeds(t))[n] = SumTo(Speeds(s))[n]
          /\ SumTo(Cells(t))[n] = SumTo(Cells(s))[n]
      BY <2>8, SumExtends
    <3> QED
      BY <2>1, <2>5, <3>1, SumsOfList
  <2>10. NumCellsIsSum' /\ SpeedIsSum'
    BY <1>2, <2>2, <2>9 DEF Sums, NumCellsIsSum, SpeedIsSum
  <2>11. ASSUME Capacity >= 0, ~torn PROVE AssignedSum(t) <= Capacity - SrvrShare
    <3>1. /\ Capacity \in Int /\ SrvrShare \in Nat /\ MinShare \in Nat
          /\ Capacity - SrvrShare - MinShare \in Nat /\ Speed \in Nat
      BY <1>1, <1>5, <2>11, ServerAssumption
    <3>2. PICK C \in Nat : C = Capacity - SrvrShare - MinShare
      BY <3>1
    <3>3. n > 0
      BY <1>5, <2>1, <2>11
    <3>4. Speed = SumTo(Speeds(s))[n]
      BY <1>2, <2>1, <2>11, SumsOfList DEF Sums, SpeedIsSum
    <3>5. ASSUME NEW k \in 1..n
          PROVE  Speeds(s)[k] \in Nat /\ Caps(t)[k] = (MinShare \div n) + ((C * Speeds(s)[k]) \div Speed)
      <4>1. Speeds(s)[k] = s[k].Speed /\ Speeds(s)[k] \in Nat
        BY <2>1, SumsOfList
      <4>2. t[k].cap = (MinShare \div n) + ((C * Speeds(s)[k]) \div Speed)
        BY <2>7, <2>11, <3>1, <3>2, <4>1 DEF Share
      <4>3. MinShare \div n \in Nat
        BY <3>1, <3>3
      <4>4. (C * Speeds(s)[k]) \div Speed \in Nat
        <5>1. PICK p \in Nat : p = C * Speeds(s)[k]
          BY <4>1
        <5>2. p \div Speed \in Nat
          BY <1>5, <3>1
        <5> QED
          BY <5>1, <5>2
      <4>5. t[k].cap \in Nat
        BY <4>2, <4>3, <4>4
      <4>6. Assigned(t[k]) = t[k].cap
        BY <4>5, ServerAssumption DEF Assigned
      <4> QED
        BY <2>5, <4>1, <4>2, <4>6, SumsOfList
    <3>6. SumTo(Caps(t))[n] <= MinShare + C
      <4> DEFINE v == Speeds(s)
                 w == Caps(t)
      <4>1. \A k \in 1..n : v[k] \in Nat /\ w[k] = (MinShare \div n) + ((C * v[k]) \div Speed)
        BY <3>5
      <4>2. Speed = SumTo(v)[n] /\ Speed > 0
        BY <1>5, <3>4
      <4> HIDE DEF v, w
      <4>3. SumTo(w)[n] <= MinShare + C
        BY <3>1, <3>3, <4>1, <4>2, SharesBounded
      <4> QED
        BY <4>3 DEF w
    <3>7. AssignedSum(t) = SumTo(Caps(t))[n] /\ AssignedSum(t) \in Int
      BY <2>5, SumsOfList
    <3> QED
      BY <3>1, <3>2, <3>6, <3>7
  <2>12. SharesFit'
    BY <2>2, <2>11 DEF SharesFit
  <2> QED
    BY <2>10, <2>12 DEF Sums
<1> QED
  BY <1>3, <1>4, <1>5

LEMMA ReceiveKeepsSums ==
  ASSUME Inv, Sums, NEW m \in net, Receive(m)
  PROVE  Sums'
<1>1. m \in Message /\ Which(m.src) \in {0, 1} /\ m.src \in Addr
  BY DEF Inv, TypeOK, Message, Which
<1>2. \A w \in {0, 1} : IPMap[w] \in Seq(Entries) /\ DOMAIN IPMap[w] = 1..Len(IPMap[w])
  <2>1. \A w \in {0, 1} : IPMap[w] \in Seq(Entries)
    BY DEF Inv, TypeOK
  <2> QED
    BY <2>1, SeqFacts
<1>3. torn' = torn
  BY DEF Receive, sweepVars
<1>4. CASE Report(m) /\ ReportNew(m)
  <2> DEFINE e == Entry(m.src, m.data, FirstCap(m))
  <2>1. m.data \in [Speed : Nat, NumCells : Nat] /\ FirstCap(m) \in {Junk, 0}
    BY <1>1, <1>4, Constants DEF Message, Report, FirstCap
  <2>2. e \in Entries
    <3>1. FirstCap(m) \in Int \cup {Junk}
      BY <2>1
    <3> QED
      BY <1>1, <2>1, <3>1, EntryType
  <2>3. Assigned(e) = 0
    BY <2>1 DEF Assigned, Entry
  <2>4. AddIPMap(Which(m.src), e)
    BY <1>4 DEF ReportNew
  <2> HIDE DEF e
  <2> QED
    BY <1>1, <1>3, <2>2, <2>3, <2>4, AddKeepsSums
<1>5. CASE Report(m) /\ ReportKnown(m)
  <2> DEFINE w == Which(m.src)
  <2>1. PICK k \in DOMAIN IPMap[w] : Update(w, k, m.data)
    BY <1>5 DEF ReportKnown
  <2>2. k \in 1..Len(IPMap[w]) /\ w \in {0, 1}
    BY <1>1, <1>2
  <2> HIDE DEF w
  <2> DEFINE o == IPMap[w][k]
             e == Entry(o.addr, m.data, o.cap)
  <2>3. m.data \in [Speed : Nat, NumCells : Nat]
    BY <1>1, <1>5, Constants DEF Message, Report
  <2>4. o.addr \in Addr /\ o.cap \in Int \cup {Junk}
    BY <2>2, NumbersOf
  <2>5. /\ e \in Entries /\ e.cap = o.cap
        /\ e.Speed = m.data.Speed /\ e.NumCells = m.data.NumCells
    BY <2>3, <2>4, EntryType DEF Entry
  <2>6. IPMap' = [IPMap EXCEPT ![w] = [IPMap[w] EXCEPT ![k] = e]]
    <3>1. IPMap[w] \in Seq(Entries) /\ IPMap \in [{0, 1} -> Seq(Entries)]
      BY <1>2, <2>2 DEF Inv, TypeOK
    <3> QED
      BY <2>1, <2>2, <3>1 DEF Update
  <2>7. /\ Speed' = IF w = 0 THEN Speed - o.Speed + e.Speed ELSE Speed
        /\ NumCells' = IF w = 0 THEN NumCells - o.NumCells + e.NumCells ELSE NumCells
    <3> HIDE DEF e
    <3> QED
      BY <2>1, <2>5 DEF Update
  <2> HIDE DEF e
  <2> QED
    BY <1>3, <2>2, <2>5, <2>6, <2>7, ChangeKeepsSums
<1>6. CASE Bye(m)
  <2>1. PICK k \in DOMAIN IPMap[Which(m.src)] : RemoveIPMap(Which(m.src), k)
    BY <1>6 DEF Bye
  <2> QED
    BY <1>1, <1>2, <1>3, <2>1, RemoveKeepsSums
<1> QED
  BY <1>4, <1>5, <1>6 DEF Receive, Report

LEMMA SweepKeepsSums ==
  ASSUME Inv, Sums, Sweep
  PROVE  Sums'
<1>1. /\ which \in {0, 1} /\ i \in Nat /\ torn \in BOOLEAN
      /\ IPMap \in [{0, 1} -> Seq(Entries)]
      /\ Speed \in Int /\ NumCells \in Int
  BY DEF Inv, TypeOK
<1>2. \A w \in {0, 1} : IPMap[w] \in Seq(Entries) /\ DOMAIN IPMap[w] = 1..Len(IPMap[w])
  BY <1>1, SeqFacts
<1>3. CASE SweepRemove
  <2>1. PICK k \in DOMAIN IPMap[0] : RemoveIPMap(0, k)
    BY <1>3 DEF SweepRemove
  <2>2. torn' = torn /\ 0 \in {0, 1} /\ k \in 1..Len(IPMap[0])
    BY <1>2, <1>3 DEF SweepRemove
  <2> QED
    BY <2>1, <2>2, RemoveKeepsSums
<1>4. CASE SweepKeep \/ SweepPass
  BY <1>4, SumsStay DEF SweepKeep, SweepPass, listVars
<1>5. CASE SweepBeyond
  BY <1>5 DEF SweepBeyond, Sums, NumCellsIsSum, SpeedIsSum, SharesFit
<1>6. CASE SweepSilence
  <2> DEFINE k == i + 1
             o == IPMap[which][k]
             e == [o EXCEPT !.Speed = 0]
  <2>1. k \in 1..Len(IPMap[which])
    BY <1>1, <1>2, <1>6 DEF SweepSilence
  <2>2. o \in Entries /\ o.Speed \in Nat /\ o.NumCells \in Nat
    BY <1>1, <2>1, NumbersOf
  <2>3. e \in Entries /\ e.cap = o.cap /\ e.NumCells = o.NumCells /\ e.Speed = 0
    <3> HIDE DEF o
    <3> QED
      BY <2>2 DEF Entries
  <2>4. IPMap' = [IPMap EXCEPT ![which] = [IPMap[which] EXCEPT ![k] = e]]
    BY <1>1, <1>2, <1>6, <2>1 DEF SweepSilence
  <2>5. /\ Speed' = IF which = 0 THEN Speed - o.Speed ELSE Speed
        /\ NumCells' = NumCells /\ torn' = torn
    BY <1>6 DEF SweepSilence
  <2>6. /\ Speed' = IF which = 0 THEN Speed - o.Speed + e.Speed ELSE Speed
        /\ NumCells' = IF which = 0 THEN NumCells - o.NumCells + e.NumCells ELSE NumCells
    <3> HIDE DEF o, e
    <3> QED
      BY <1>1, <2>2, <2>3, <2>5
  <2> HIDE DEF k, e
  <2> QED
    BY <1>1, <2>1, <2>3, <2>4, <2>5, <2>6, ChangeKeepsSums
<1> QED
  BY <1>3, <1>4, <1>5, <1>6 DEF Sweep

LEMMA TickKeepsSums ==
  ASSUME Inv, Sums, Tick
  PROVE  Sums'
<1> DEFINE Older(e) == [e EXCEPT !.age = IF @ < MaxAge THEN @ + 1 ELSE @]
<1>1. PICK s \in Seq(Entries) : s = IPMap[0]
  BY DEF Inv, TypeOK
<1>2. PICK t \in Seq(Entries) : t = IPMap'[0]
  BY TickKeepsInv DEF Inv, TypeOK
<1>3. PICK n \in Nat : n = Len(s)
  OBVIOUS
<1>4. DOMAIN s = 1..n /\ \A k \in 1..n : s[k] \in Entries
  BY <1>3, SeqFacts
<1>5. t = [k \in 1..n |-> Older(s[k])]
  BY <1>1, <1>2, <1>4 DEF Tick
<1>6. Len(t) = n
  BY <1>3, <1>5, SeqFacts
<1>7. ASSUME NEW k \in 1..n
      PROVE  /\ t[k].Speed = s[k].Speed /\ t[k].NumCells = s[k].NumCells
             /\ t[k].cap = s[k].cap
  <2>1. t[k] = Older(s[k]) /\ s[k] \in Entries
    BY <1>4, <1>5
  <2> QED
    BY <2>1 DEF Entries
<1>8. \A k \in 1..n : /\ Speeds(t)[k] = Speeds(s)[k] /\ Cells(t)[k] = Cells(s)[k]
                      /\ Caps(t)[k] = Caps(s)[k]
  <2> TAKE k \in 1..n
  <2>1. /\ Speeds(t)[k] = t[k].Speed /\ Cells(t)[k] = t[k].NumCells
        /\ Caps(t)[k] = Assigned(t[k])
    BY <1>6, SumsOfList
  <2>2. /\ Speeds(s)[k] = s[k].Speed /\ Cells(s)[k] = s[k].NumCells
        /\ Caps(s)[k] = Assigned(s[k])
    BY <1>3, SumsOfList
  <2>3. Assigned(t[k]) = Assigned(s[k])
    BY <1>7 DEF Assigned
  <2> QED
    BY <1>7, <2>1, <2>2, <2>3
<1>9. /\ SumTo(Speeds(t))[n] = SumTo(Speeds(s))[n]
      /\ SumTo(Cells(t))[n] = SumTo(Cells(s))[n]
      /\ SumTo(Caps(t))[n] = SumTo(Caps(s))[n]
  BY <1>8, SumExtends
<1>10. SpeedSum(t) = SpeedSum(s) /\ CellSum(t) = CellSum(s) /\ AssignedSum(t) = AssignedSum(s)
  BY <1>3, <1>6, <1>9, SumsOfList
<1>11. UNCHANGED <<Speed, NumCells, torn>>
  BY DEF Tick, sweepVars
<1> QED
  BY <1>1, <1>2, <1>10, <1>11 DEF Sums, NumCellsIsSum, SpeedIsSum, SharesFit

\* Every step keeps the sums.
LEMMA StepKeepsSums == Inv /\ Sums /\ [Next]_vars => Sums'
<1> SUFFICES ASSUME Inv, Sums, [Next]_vars PROVE Sums'
  OBVIOUS
<1>1. ASSUME UNCHANGED <<IPMap, Speed, NumCells, torn>> PROVE Sums'
  BY <1>1, SumsStay
<1>2. CASE \E a \in Addr : Start(a) \/ Say(a) \/ Leave(a) \/ Crash(a)
  <2>1. PICK a \in Addr : Start(a) \/ Say(a) \/ Leave(a) \/ Crash(a)
    BY <1>2
  <2> QED
    BY <1>1, <2>1 DEF Start, Say, Leave, Crash, listVars, sweepVars
<1>3. CASE \E m \in net : Lose(m)
  BY <1>1, <1>3 DEF Lose, listVars, sweepVars
<1>4. CASE \E m \in net : Receive(m)
  BY <1>4, ReceiveKeepsSums
<1>5. CASE Online \/ Reply \/ Announce
  <2>1. Shares
    BY <1>5, SharesWhen
  <2>2. UNCHANGED <<Speed, NumCells, torn>>
    BY <1>5 DEF Online, Reply, Announce, sweepVars
  <2> QED
    BY <2>1, <2>2, GrantKeepsSums
<1>6. CASE BeginUpdate \/ EndSweep
  BY <1>1, <1>6 DEF BeginUpdate, EndSweep, listVars
<1>7. CASE UNCHANGED vars
  BY <1>1, <1>7 DEF vars, listVars, sweepVars
<1> QED
  BY <1>2, <1>3, <1>4, <1>5, <1>6, <1>7, SweepKeepsSums, TickKeepsSums DEF Next

LEMMA SpecSums == Spec => []Sums
BY InitSums, SpecInv, StepKeepsSums, PTL DEF Spec

-----------------------------------------------------------------------------
(* The results. *)

\* A node or server that no map file names twice is listed once, whatever
\* messages are lost, doubled or overtaken and however sweeps and messages
\* alternate.  (Doubled may be any set of addresses: a server whose files repeat
\* none has it empty.)
THEOREM ListedOnce == Spec => []OnceListed
<1>1. Inv => OnceListed
  BY DEF Inv
<1> QED
  BY <1>1, SpecInv, PTL

\* A sweep that removes entries under way leaves its list by one place at most.
THEOREM SweepBounded == Spec => []SweepWithinReach
<1>1. Inv => SweepWithinReach
  BY DEF Inv
<1> QED
  BY <1>1, SpecInv, PTL

\* Every variable keeps its type.
THEOREM ServerTypes == Spec => []TypeOK
<1>1. Inv => TypeOK
  BY DEF Inv
<1> QED
  BY <1>1, SpecInv, PTL

\* The cells the server reports of its cluster are those its nodes last told
\* of, for any number of nodes and any order of reports, leaves and sweeps.
THEOREM CellsAreSummed == Spec => []NumCellsIsSum
<1>1. Sums => NumCellsIsSum
  BY DEF Sums
<1> QED
  BY <1>1, SpecSums, PTL

\* As long as no sweep ran past its list, the speed of the cluster is the sum
\* of the listed speeds: what the shares are divided by.
THEOREM SpeedsAreSummed == Spec => []SpeedIsSum
<1>1. Sums => SpeedIsSum
  BY DEF Sums
<1> QED
  BY <1>1, SpecSums, PTL

\* The capacities given out never exceed what the server may give out, with
\* every division rounding down and nodes joining and leaving between rounds.
THEOREM SharesAlwaysFit == Spec => []SharesFit
<1>1. Sums => SharesFit
  BY DEF Sums
<1> QED
  BY <1>1, SpecSums, PTL
=============================================================================

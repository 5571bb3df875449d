----------------------------- MODULE ClusterProofs -----------------------------
(***************************************************************************)
(* Proofs about Cluster, for any nodes, names and messages, and for any    *)
(* number of connections and faults.                                       *)
(***************************************************************************)
EXTENDS Cluster, Integers, WellFoundedInduction, TLAPS

(***************************************************************************)
(* The inductive invariant.                                                *)
(***************************************************************************)
Kinds == {"request", "response", "garbled", "shifted", "misaligned",
          "send", "call", "reply"}
Carrying == {"send", "call", "reply"}
Packets == {p \in [kind : Kinds, msg : Messages \cup {None}] :
              p.kind \in Carrying => p.msg \in Messages}
ConnType == [from : Nodes \cup {None}, to : Nodes \cup {None}, open : SUBSET Nodes,
             hello : SUBSET Nodes, known : SUBSET Nodes, gone : SUBSET Nodes]
QueueType == [pc : {"none", "connect", "bind", "handshake", "wait"},
              name : Names \cup {"none"}, to : Conns \cup {None}, msgs : Seq(Messages)]

Typed ==
  /\ todo \subseteq Messages
  /\ conn \in [Conns -> ConnType]
  /\ wire \in [Conns -> [Nodes -> Seq(Packets)]]
  /\ nodes \in [Nodes -> [Nodes -> Conns \cup {None}]]
  /\ bound \in [Nodes -> [Names -> Conns \cup {None}]]
  /\ queue \in [Nodes -> [Nodes -> QueueType]]
  /\ serving \subseteq [n : Nodes, c : Conns, m : Messages]
  /\ got \in [Messages -> Nat]
  /\ replied \in [Messages -> Nat]

\* A connection has two ends or was never made, and a node that has the end of
\* a connection behind it gets nothing more from it.
Connections ==
  \A c \in Conns :
    /\ conn[c] = NoConn \/ (conn[c].from \in Nodes /\ conn[c].to \in Nodes)
    /\ \A n \in Nodes :
         conn[c] = NoConn \/ n \in conn[c].gone => wire[c][n] = << >> /\ n \notin conn[c].open

\* nodes_ leads to a connection with that node, which has not ended.
Sessions ==
  \A n, t \in Nodes : nodes[n][t] # None =>
    /\ n \in conn[nodes[n][t]].known
    /\ Peer(nodes[n][t], n) = t
    /\ n \notin conn[nodes[n][t]].gone

\* A queue is for names and messages of its endpoint, and has a connection when
\* the coroutine made one.
Queues ==
  \A n, e \in Nodes :
    /\ queue[n][e].pc = "none" => queue[n][e] = NoQueue
    /\ queue[n][e].pc = "connect" => queue[n][e].to = None
    /\ queue[n][e].pc \in {"bind", "handshake", "wait"} =>
         queue[n][e].to # None /\ conn[queue[n][e].to] # NoConn
    /\ queue[n][e].pc # "none" =>
         queue[n][e].name \in Names /\ FindServiceEndpoint(queue[n][e].name) = e
    /\ \A i \in 1..Len(queue[n][e].msgs) :
         FindServiceEndpoint(NameOf[queue[n][e].msgs[i]]) = e

\* Position i of the packets on connection c to n holds m; the same of a queue.
Sent(K, m, c, n, i) ==
  i \in 1..Len(wire[c][n]) /\ wire[c][n][i].kind \in K /\ wire[c][n][i].msg = m
Queued(m, n, e, i) == i \in 1..Len(queue[n][e].msgs) /\ queue[n][e].msgs[i] = m

Forwards == {"send", "call"}
Replies == {"reply"}
OnWire(K, m) == \E c \in Conns, n \in Nodes, i \in Nat : Sent(K, m, c, n, i)
InQueue(m) == \E n, e \in Nodes, i \in Nat : Queued(m, n, e, i)
WireOnce(K, m) ==
  \A c, d \in Conns, n, k \in Nodes, i, j \in Nat :
    Sent(K, m, c, n, i) /\ Sent(K, m, d, k, j) => c = d /\ n = k /\ i = j
QueueOnce(m) ==
  \A n, k, e, f \in Nodes, i, j \in Nat :
    Queued(m, n, e, i) /\ Queued(m, k, f, j) => n = k /\ e = f /\ i = j

\* A message is in at most one place.
OnePlace(m) ==
  /\ WireOnce(Forwards, m) /\ QueueOnce(m)
  /\ ~(OnWire(Forwards, m) /\ InQueue(m))
  /\ m \in todo => ~OnWire(Forwards, m) /\ ~InQueue(m) /\ got[m] = 0
  /\ got[m] # 0 => ~OnWire(Forwards, m) /\ ~InQueue(m) /\ got[m] = 1

\* So is its answer, which comes after the message.
OneAnswer(m) ==
  /\ WireOnce(Replies, m)
  /\ \A s, r \in serving : s.m = m /\ r.m = m => s = r
  /\ ~(OnWire(Replies, m) /\ \E s \in serving : s.m = m)
  /\ replied[m] # 0 =>
       ~OnWire(Replies, m) /\ (\A s \in serving : s.m # m) /\ replied[m] = 1
  /\ (replied[m] # 0 \/ OnWire(Replies, m) \/ \E s \in serving : s.m = m) => got[m] # 0

Messaging == \A m \in Messages : OnePlace(m) /\ OneAnswer(m)

IInv == /\ Typed /\ Connections /\ Sessions /\ Queues
        /\ ConnectingNameIsFree /\ NoStaleBinding /\ Messaging

(***************************************************************************)
(* Sequences.                                                              *)
(***************************************************************************)
\* A set of natural numbers that is not empty has a least element.
LEMMA Least ==
  ASSUME NEW S, S \subseteq Nat, S # {}
  PROVE  \E s \in S : \A t \in S : s <= t
<1> DEFINE R == OpToRel(<, Nat)
<1>1. IsWellFoundedOn(R, Nat)
  BY NatLessThanWellFounded
<1>2. PICK x \in S : \A y \in S : ~(<<y, x>> \in R)
  <2> HIDE DEF R
  <2> QED
    BY <1>1, WFMin
<1>3. \A y \in S : ~(y < x)
  <2> TAKE y \in S
  <2>1. ASSUME y < x PROVE <<y, x>> \in R
    BY <2>1 DEF OpToRel
  <2> QED
    BY <1>2, <2>1
<1> QED
  BY <1>3

\* Induction over 0..n, for the numbers of a set.
LEMMA Upwards ==
  ASSUME NEW n \in Nat, NEW S, 0 \in S,
         \A k \in 0..n - 1 : k \in S => k + 1 \in S
  PROVE  0..n \subseteq S
<1> DEFINE Bad == {k \in 0..n : k \notin S}
<1> SUFFICES ASSUME Bad # {}
             PROVE  FALSE
  OBVIOUS
<1>1. PICK k \in Bad : \A j \in Bad : k <= j
  <2>1. Bad \subseteq Nat
    OBVIOUS
  <2> HIDE DEF Bad
  <2> QED
    BY <2>1, Least
<1>2. k # 0 /\ k \in 0..n
  OBVIOUS
<1>3. k - 1 \in 0..n - 1 /\ k - 1 \notin Bad
  BY <1>1, <1>2
<1>4. k - 1 \in S
  BY <1>3
<1> QED
  BY <1>2, <1>3, <1>4

\* A function to V that is defined by recursion over 0..n exists.
Unfolds(n, b, h, V, f) ==
  /\ f \in [0..n -> V]
  /\ \A l \in 0..n : f[l] = IF l = 0 THEN b ELSE h[<<l, f[l - 1]>>]

\* A recursive definition over 0..n has a function that unfolds it.
LEMMA Recursion ==
  ASSUME NEW n \in Nat, NEW V, NEW b \in V, NEW h \in [(1..n) \X V -> V]
  PROVE  \E f : Unfolds(n, b, h, V, f)
<1> DEFINE Def(k, f) == \A l \in 0..k : f[l] = IF l = 0 THEN b ELSE h[<<l, f[l - 1]>>]
           S == {k \in 0..n : \E f \in [0..k -> V] : Def(k, f)}
<1>1. 0 \in S
  <2> DEFINE f == [l \in 0..0 |-> b]
  <2>1. Def(0, f) /\ f \in [0..0 -> V]
    OBVIOUS
  <2>2. 0 \in 0..n
    OBVIOUS
  <2> HIDE DEF Def, f
  <2> QED
    BY <2>1, <2>2
<1>2. ASSUME NEW k \in 0..n - 1, k \in S
      PROVE  k + 1 \in S
  <2>1. PICK f \in [0..k -> V] : Def(k, f)
    BY <1>2
  <2> DEFINE g == [l \in 0..k + 1 |-> IF l = k + 1 THEN h[<<l, f[k]>>] ELSE f[l]]
  <2>2. g \in [0..k + 1 -> V]
    <3>1. f[k] \in V /\ k + 1 \in 1..n
      OBVIOUS
    <3>2. h[<<k + 1, f[k]>>] \in V
      BY <3>1
    <3> QED
      BY <3>2
  <2>3. ASSUME NEW l \in 0..k + 1
        PROVE  g[l] = IF l = 0 THEN b ELSE h[<<l, g[l - 1]>>]
    <3>1. CASE l = k + 1
      BY <3>1
    <3>2. CASE l # k + 1
      <4>1. l \in 0..k /\ g[l] = f[l]
        BY <3>2
      <4>2. l # 0 => l - 1 \in 0..k /\ g[l - 1] = f[l - 1]
        BY <4>1
      <4>3. f[l] = IF l = 0 THEN b ELSE h[<<l, f[l - 1]>>]
        BY <2>1, <4>1
      <4> HIDE DEF g
      <4> QED
        BY <4>1, <4>2, <4>3
    <3> QED
      BY <3>1, <3>2
  <2>4. Def(k + 1, g)
    BY <2>3
  <2>5. k + 1 \in 0..n
    OBVIOUS
  <2> HIDE DEF Def, g
  <2> QED
    BY <2>2, <2>4, <2>5
<1>3. 0..n \subseteq S
  <2> HIDE DEF S
  <2> QED
    BY <1>1, <1>2, Upwards
<1>4. n \in S
  <2> HIDE DEF S
  <2> QED
    BY <1>3
<1> QED
  BY <1>4 DEF Unfolds

Distinct(s) == \A i, j \in 1..Len(s) : s[i] = s[j] => i = j

\* Those takes messages from ms, none twice, and only messages of S.
LEMMA ThoseIs ==
  ASSUME NEW ms \in Seq(Messages), NEW S
  PROVE  /\ Those(ms, S) \in Seq(Messages)
         /\ \A i \in 1..Len(Those(ms, S)) :
              Those(ms, S)[i] \in S /\ \E j \in 1..Len(ms) : ms[j] = Those(ms, S)[i]
         /\ Distinct(ms) => Distinct(Those(ms, S))
<1> DEFINE n == Len(ms)
           V == Seq(Messages)
           h == [x \in (1..n) \X V |-> IF ms[x[1]] \in S THEN Append(x[2], ms[x[1]]) ELSE x[2]]
           Kept(f) == f = [i \in 0..n |->
                            IF i = 0 THEN << >>
                            ELSE IF ms[i] \in S THEN Append(f[i - 1], ms[i]) ELSE f[i - 1]]
           kept == CHOOSE f : Kept(f)
<1>1. n \in Nat /\ << >> \in V
  OBVIOUS
<1>2. h \in [(1..n) \X V -> V]
  <2>1. ASSUME NEW x \in (1..n) \X V
        PROVE  (IF ms[x[1]] \in S THEN Append(x[2], ms[x[1]]) ELSE x[2]) \in V
    <3>1. ms[x[1]] \in Messages /\ x[2] \in V
      OBVIOUS
    <3> QED
      BY <3>1
  <2> QED
    BY <2>1
<1>3. PICK f : Unfolds(n, << >>, h, V, f)
  <2> HIDE DEF h, n, V
  <2> QED
    BY <1>1, <1>2, Recursion
<1>4. Kept(f)
  <2>1. f \in [0..n -> V]
    BY <1>3 DEF Unfolds
  <2>2. ASSUME NEW i \in 0..n
        PROVE  f[i] = IF i = 0 THEN << >>
                      ELSE IF ms[i] \in S THEN Append(f[i - 1], ms[i]) ELSE f[i - 1]
    <3>1. i # 0 => <<i, f[i - 1]>> \in (1..n) \X V
      BY <1>1, <2>1
    <3>2. f[i] = IF i = 0 THEN << >> ELSE h[<<i, f[i - 1]>>]
      BY <1>3 DEF Unfolds
    <3> QED
      BY <3>1, <3>2
  <2> HIDE DEF n, V
  <2> QED
    BY <2>1, <2>2
<1>5. Kept(kept)
  <2> HIDE DEF Kept
  <2> QED
    BY <1>4
<1>6. Those(ms, S) = kept[n]
  BY DEF Those
<1> DEFINE Good(i) == /\ kept[i] \in V
                      /\ \A a \in 1..Len(kept[i]) :
                           kept[i][a] \in S /\ \E j \in 1..i : ms[j] = kept[i][a]
                      /\ Distinct(ms) => Distinct(kept[i])
           G == {i \in 0..n : Good(i)}
<1>7. kept[0] = << >>
  <2> HIDE DEF kept
  <2> QED
    BY <1>1, <1>5
<1>8. \A i \in 0..n - 1 :
        kept[i + 1] = IF ms[i + 1] \in S THEN Append(kept[i], ms[i + 1]) ELSE kept[i]
  <2> HIDE DEF kept
  <2> TAKE i \in 0..n - 1
  <2>1. i + 1 \in 0..n /\ i + 1 # 0 /\ (i + 1) - 1 = i
    BY <1>1
  <2> DEFINE k == i + 1
  <2>2. kept[k] = IF ms[k] \in S THEN Append(kept[k - 1], ms[k]) ELSE kept[k - 1]
    <3>1. k \in 0..n /\ k # 0
      BY <2>1
    <3> HIDE DEF k, n
    <3> QED
      BY <1>5, <3>1
  <2> QED
    BY <2>1, <2>2
<1> HIDE DEF kept, h, Kept
<1>9. 0 \in G
  <2>1. kept[0] \in V /\ Len(kept[0]) = 0
    BY <1>1, <1>7
  <2>2. \A a \in 1..Len(kept[0]) : FALSE
    BY <2>1
  <2>3. Good(0)
    BY <2>1, <2>2 DEF Distinct
  <2> HIDE DEF Good
  <2> QED
    BY <1>1, <2>3
<1>10. ASSUME NEW i \in 0..n - 1, i \in G
       PROVE  i + 1 \in G
  <2>1. ms[i + 1] \in Messages /\ i + 1 \in 0..n /\ i \in Nat /\ i + 1 \in 1..n
    OBVIOUS
  <2>2. Good(i)
    BY <1>10
  <2>3. CASE ms[i + 1] \notin S
    <3>1. kept[i + 1] = kept[i]
      BY <1>8, <2>3
    <3> QED
      BY <2>1, <2>2, <3>1
  <2>4. CASE ms[i + 1] \in S
    <3> DEFINE k == kept[i]
               r == Append(k, ms[i + 1])
    <3>1. kept[i + 1] = r /\ k \in V
      BY <1>8, <2>2, <2>4
    <3>2. r \in V /\ Len(r) = Len(k) + 1 /\ r[Len(k) + 1] = ms[i + 1]
      BY <2>1, <3>1
    <3>3. \A a \in 1..Len(k) : r[a] = k[a]
      BY <2>1, <3>1
    <3>4. Len(k) \in Nat
      BY <3>1
    <3> HIDE DEF r
    <3>5. ASSUME NEW a \in 1..Len(r)
          PROVE  r[a] \in S /\ \E j \in 1..i + 1 : ms[j] = r[a]
      <4>1. CASE a = Len(k) + 1
        BY <2>1, <2>4, <3>2, <4>1
      <4>2. CASE a # Len(k) + 1
        <5>1. a \in 1..Len(k)
          BY <3>2, <3>4, <4>2
        <5>2. PICK j \in 1..i : ms[j] = k[a]
          BY <2>2, <5>1
        <5>3. j \in 1..i + 1
          BY <2>1
        <5> QED
          BY <2>2, <3>3, <5>1, <5>2, <5>3
      <4> QED
        BY <4>1, <4>2
    <3>6. ASSUME Distinct(ms), NEW a \in 1..Len(r), NEW b \in 1..Len(r), r[a] = r[b]
          PROVE  a = b
      <4>1. \A x \in 1..Len(k) : k[x] # ms[i + 1]
        <5> TAKE x \in 1..Len(k)
        <5>1. PICK j \in 1..i : ms[j] = k[x]
          BY <2>2
        <5>2. j \in 1..n /\ j # i + 1
          BY <2>1
        <5> QED
          BY <2>1, <3>6, <5>1, <5>2 DEF Distinct
      <4>2. a \in 1..Len(k) \/ a = Len(k) + 1
        BY <3>2, <3>4
      <4>3. b \in 1..Len(k) \/ b = Len(k) + 1
        BY <3>2, <3>4
      <4>4. a \in 1..Len(k) /\ b \in 1..Len(k) => a = b
        <5> HAVE a \in 1..Len(k) /\ b \in 1..Len(k)
        <5>1. k[a] = k[b]
          BY <3>3, <3>6
        <5> QED
          BY <2>2, <3>6, <5>1 DEF Distinct
      <4> QED
        BY <3>2, <3>3, <3>6, <4>1, <4>2, <4>3, <4>4
    <3>7. Distinct(ms) => Distinct(r)
      BY <3>6 DEF Distinct
    <3> QED
      BY <2>1, <3>1, <3>2, <3>5, <3>7
  <2> QED
    BY <2>3, <2>4
<1>11. n \in G
  <2> HIDE DEF G, n
  <2>1. 0..n \subseteq G
    BY <1>1, <1>9, <1>10, Upwards
  <2> QED
    BY <1>1, <2>1
<1> QED
  BY <1>6, <1>11

(***************************************************************************)
(* Types.                                                                  *)
(***************************************************************************)
LEMMA Ids ==
  /\ Conns \subseteq Nat /\ None \notin Conns /\ None \notin Nodes
  /\ NoConn \in ConnType /\ NoQueue \in QueueType
  /\ \A n, e \in Nodes : NewConn(n, e) \in ConnType /\ NewConn(n, e) # NoConn
  /\ {Request, Response, Garbled, Shifted, Misaligned} \subseteq Packets
  /\ \A m \in Messages : Forwarded(m) \in Packets /\ Packet("reply", m) \in Packets
<1>1. Nodes \subseteq Nat \ {0} /\ MaxConns \in Nat
  BY ClusterAssumption
<1>2. Conns \subseteq Nat /\ None \notin Conns /\ None \notin Nodes
  BY <1>1 DEF Conns, None
<1>3. NoConn \in ConnType
  BY DEF NoConn, ConnType
<1>4. << >> \in Seq(Messages)
  OBVIOUS
<1>5. NoQueue \in QueueType
  BY <1>4 DEF NoQueue, QueueType
<1>6. ASSUME NEW n \in Nodes, NEW e \in Nodes
      PROVE  NewConn(n, e) \in ConnType /\ NewConn(n, e) # NoConn
  <2>1. {n, e} \subseteq Nodes /\ n # None
    BY <1>2
  <2>2. NewConn(n, e) \in ConnType
    BY <2>1 DEF NewConn, ConnType
  <2>3. NewConn(n, e).from = n /\ NoConn.from = None
    BY DEF NewConn, NoConn
  <2> QED
    BY <2>1, <2>2, <2>3
<1>7. {Request, Response, Garbled, Shifted, Misaligned} \subseteq Packets
  BY DEF Request, Response, Garbled, Shifted, Misaligned, Packet, Packets, Kinds, Carrying
<1>8. \A m \in Messages : Forwarded(m) \in Packets /\ Packet("reply", m) \in Packets
  BY DEF Forwarded, Packet, Packets, Kinds, Carrying
<1> QED
  BY <1>2, <1>3, <1>5, <1>6, <1>7, <1>8

\* The endpoint of a name is a node, or there is none.
LEMMA EndpointIs ==
  ASSUME NEW name \in Names
  PROVE  FindServiceEndpoint(name) \in Nodes \cup {None}
<1>1. Endpoints[name] \in Seq(Nodes)
  BY ClusterAssumption
<1> QED
  BY <1>1 DEF FindServiceEndpoint

\* The other end of a connection is a node.
LEMMA PeerIs ==
  ASSUME Typed, Connections, NEW c \in Conns, conn[c] # NoConn, NEW n
  PROVE  Peer(c, n) \in Nodes
BY DEF Connections, Peer

\* The packets of Carried: those of w, and after them what is sent.
CarriedTo(r, w, c, n, ps) ==
  /\ r \in [Conns -> [Nodes -> Seq(Packets)]]
  /\ \A d \in Conns, k \in Nodes :
       d # c \/ k # Peer(c, n) \/ k \notin conn[c].open => r[d][k] = w[d][k]
  /\ \A d \in Conns, k \in Nodes : \A i \in 1..Len(r[d][k]) :
       \/ i \in 1..Len(w[d][k]) /\ r[d][k][i] = w[d][k][i]
       \/ /\ d = c /\ k = Peer(c, n) /\ i > Len(w[d][k])
          /\ i - Len(w[d][k]) \in 1..Len(ps)
          /\ r[d][k][i] = ps[i - Len(w[d][k])]

\* Sending adds the packets at the end, or nothing when an end is closed.
LEMMA CarriedAt ==
  ASSUME NEW w \in [Conns -> [Nodes -> Seq(Packets)]], NEW c \in Conns, NEW n \in Nodes,
         NEW ps \in Seq(Packets), conn \in [Conns -> ConnType]
  PROVE  CarriedTo(Carried(w, c, n, ps), w, c, n, ps)
<1> DEFINE p == Peer(c, n)
           r == Carried(w, c, n, ps)
<1>1. CASE conn[c].open # {n, p}
  <2>1. r = w
    BY <1>1 DEF Carried
  <2> HIDE DEF r
  <2> QED
    BY <2>1 DEF CarriedTo, r
<1>2. CASE conn[c].open = {n, p}
  <2>1. p \in Nodes
    <3>1. conn[c].open \subseteq Nodes
      BY DEF ConnType
    <3> QED
      BY <1>2, <3>1
  <2>2. r = [w EXCEPT ![c][p] = @ \o ps]
    BY <1>2 DEF Carried
  <2> HIDE DEF p, r
  <2>3. w[c][p] \o ps \in Seq(Packets)
    BY <2>1
  <2>4. r \in [Conns -> [Nodes -> Seq(Packets)]]
    BY <2>1, <2>2, <2>3
  <2>5. \A d \in Conns, k \in Nodes : d # c \/ k # p => r[d][k] = w[d][k]
    BY <2>1, <2>2
  <2>6. r[c][p] = w[c][p] \o ps
    BY <2>1, <2>2
  <2>7. \A d \in Conns, k \in Nodes : d # c \/ k # p \/ k \notin conn[c].open => r[d][k] = w[d][k]
    BY <1>2, <2>5
  <2>8. ASSUME NEW d \in Conns, NEW k \in Nodes, NEW i \in 1..Len(r[d][k])
        PROVE  \/ i \in 1..Len(w[d][k]) /\ r[d][k][i] = w[d][k][i]
               \/ /\ d = c /\ k = p /\ i > Len(w[d][k])
                  /\ i - Len(w[d][k]) \in 1..Len(ps)
                  /\ r[d][k][i] = ps[i - Len(w[d][k])]
    <3>1. CASE d # c \/ k # p
      BY <2>5, <3>1
    <3>2. CASE d = c /\ k = p
      <4> DEFINE s == w[c][p]
      <4>1. s \in Seq(Packets) /\ i \in 1..Len(s \o ps) /\ r[d][k] = s \o ps
        BY <2>1, <2>6, <3>2
      <4>2. Len(s) \in Nat /\ Len(ps) \in Nat /\ Len(s \o ps) = Len(s) + Len(ps)
        BY <4>1
      <4>3. CASE i <= Len(s)
        <5>1. i \in 1..Len(s)
          BY <4>1, <4>2, <4>3
        <5>2. (s \o ps)[i] = s[i]
          BY <4>1, <5>1
        <5> QED
          BY <3>2, <4>1, <5>1, <5>2
      <4>4. CASE i > Len(s)
        <5>1. i - Len(s) \in 1..Len(ps)
          BY <4>1, <4>2, <4>4
        <5>2. (s \o ps)[i] = ps[i - Len(s)]
          BY <4>1, <4>2, <4>4, <5>1
        <5> QED
          BY <3>2, <4>1, <4>4, <5>1, <5>2
      <4> QED
        BY <4>1, <4>2, <4>3, <4>4
    <3> QED
      BY <3>1, <3>2
  <2> QED
    BY <2>4, <2>7, <2>8 DEF CarriedTo, p, r
<1> QED
  BY <1>1, <1>2

\* One packet is sent: what is on its way is what was, or the packet.
OneMore(r, w, c, p) ==
  /\ r \in [Conns -> [Nodes -> Seq(Packets)]]
  /\ \A d \in Conns, k \in Nodes : d # c \/ k \notin conn[c].open => r[d][k] = w[d][k]
  /\ \A d \in Conns, k \in Nodes : \A i \in 1..Len(r[d][k]) :
       r[d][k][i] = p \/ (i \in 1..Len(w[d][k]) /\ r[d][k][i] = w[d][k][i])

\* A single packet that is sent is at one position.
LEMMA CarriedOne ==
  ASSUME NEW w \in [Conns -> [Nodes -> Seq(Packets)]], NEW c \in Conns, NEW n \in Nodes,
         NEW p \in Packets, conn \in [Conns -> ConnType]
  PROVE  OneMore(Carried(w, c, n, <<p>>), w, c, p)
<1> DEFINE ps == <<p>>
           r == Carried(w, c, n, ps)
<1>1. ps \in Seq(Packets) /\ \A x \in 1..Len(ps) : ps[x] = p
  OBVIOUS
<1> HIDE DEF ps
<1>2. CarriedTo(r, w, c, n, ps)
  BY <1>1, CarriedAt
<1> HIDE DEF r
<1>3. ASSUME NEW d \in Conns, NEW k \in Nodes, NEW i \in 1..Len(r[d][k])
      PROVE  r[d][k][i] = p \/ (i \in 1..Len(w[d][k]) /\ r[d][k][i] = w[d][k][i])
  <2>1. \/ i \in 1..Len(w[d][k]) /\ r[d][k][i] = w[d][k][i]
        \/ i - Len(w[d][k]) \in 1..Len(ps) /\ r[d][k][i] = ps[i - Len(w[d][k])]
    BY <1>2 DEF CarriedTo
  <2> QED
    BY <1>1, <2>1
<1>4. OneMore(r, w, c, p)
  BY <1>2, <1>3 DEF OneMore, CarriedTo
<1> QED
  BY <1>4 DEF ps, r

\* What is left of the packets when one is taken.
LEMMA ConsumedAt ==
  ASSUME wire \in [Conns -> [Nodes -> Seq(Packets)]], NEW c \in Conns, NEW n \in Nodes,
         wire[c][n] # << >>
  PROVE  /\ Consumed(n, c) \in [Conns -> [Nodes -> Seq(Packets)]]
         /\ Head(wire[c][n]) \in Packets /\ Head(wire[c][n]) = wire[c][n][1]
         /\ 1 \in 1..Len(wire[c][n])
         /\ \A d \in Conns, k \in Nodes :
              d # c \/ k # n => Consumed(n, c)[d][k] = wire[d][k]
         /\ \A i \in 1..Len(Consumed(n, c)[c][n]) :
              i + 1 \in 1..Len(wire[c][n]) /\ Consumed(n, c)[c][n][i] = wire[c][n][i + 1]
<1> DEFINE s == wire[c][n]
           r == Consumed(n, c)
<1>1. s \in Seq(Packets) /\ s # << >>
  OBVIOUS
<1>2. Len(s) \in Nat /\ Len(s) # 0 /\ Tail(s) \in Seq(Packets) /\ Len(Tail(s)) = Len(s) - 1
  BY <1>1
<1>3. r = [wire EXCEPT ![c][n] = Tail(s)]
  BY DEF Consumed
<1>4. r \in [Conns -> [Nodes -> Seq(Packets)]] /\ r[c][n] = Tail(s)
  <2> HIDE DEF r
  <2> QED
    BY <1>2, <1>3
<1>5. \A d \in Conns, k \in Nodes : d # c \/ k # n => r[d][k] = wire[d][k]
  <2> HIDE DEF r
  <2> QED
    BY <1>3
<1>6. Head(s) = s[1] /\ 1 \in 1..Len(s) /\ Head(s) \in Packets
  BY <1>1, <1>2
<1>7. \A i \in 1..Len(Tail(s)) : i + 1 \in 1..Len(s) /\ Tail(s)[i] = s[i + 1]
  BY <1>1, <1>2
<1> QED
  <2> HIDE DEF r
  <2> QED
    BY <1>4, <1>5, <1>6, <1>7 DEF r

(***************************************************************************)
(* Connections.                                                            *)
(***************************************************************************)
\* Ends are closed and nodes get known; nothing else happens to conn.
Continues(X) ==
  /\ X \in [Conns -> ConnType]
  /\ \A d \in Conns :
       /\ X[d].from = conn[d].from /\ X[d].to = conn[d].to
       /\ X[d].open \subseteq conn[d].open
       /\ conn[d].known \subseteq X[d].known
       /\ X[d].gone = conn[d].gone
       /\ X[d].hello \subseteq conn[d].hello
       /\ conn[d] = NoConn => X[d] = NoConn

\* Closing connections leaves their ends and their history alone.
LEMMA ClosedContinues ==
  ASSUME conn \in [Conns -> ConnType], NEW cs, NEW n
  PROVE  Continues(Closed(cs, n))
<1>1. ASSUME NEW d \in Conns
      PROVE  /\ Closed(cs, n)[d] \in ConnType
             /\ Closed(cs, n)[d].from = conn[d].from /\ Closed(cs, n)[d].to = conn[d].to
             /\ Closed(cs, n)[d].open \subseteq conn[d].open
             /\ Closed(cs, n)[d].known = conn[d].known
             /\ Closed(cs, n)[d].gone = conn[d].gone
             /\ Closed(cs, n)[d].hello = conn[d].hello
  BY DEF Closed, ConnType
<1>2. Closed(cs, n) \in [Conns -> ConnType]
  BY <1>1 DEF Closed
<1>3. ASSUME NEW d \in Conns, conn[d] = NoConn
      PROVE  Closed(cs, n)[d] = NoConn
  <2>1. [NoConn EXCEPT !.open = @ \ {n}] = NoConn
    BY DEF NoConn
  <2> QED
    BY <1>3, <2>1 DEF Closed
<1> QED
  BY <1>1, <1>2, <1>3 DEF Continues

\* A node was known, or it is the one that gets known.
LEMMA GreetedContinues ==
  ASSUME NEW X, Continues(X), NEW c \in Conns, conn[c] # NoConn, NEW n \in Nodes
  PROVE  /\ Continues(Greeted(X, c, n))
         /\ Continues(Known(X, c, n)) /\ n \in Known(X, c, n)[c].known
<1>1. X \in [Conns -> ConnType]
  BY DEF Continues
<1> DEFINE G == Greeted(X, c, n)
           K == Known(X, c, n)
<1>2. ASSUME NEW d \in Conns
      PROVE  /\ G[d] \in ConnType
             /\ G[d].from = X[d].from /\ G[d].to = X[d].to /\ G[d].open = X[d].open
             /\ G[d].known = X[d].known /\ G[d].gone = X[d].gone
             /\ G[d].hello \subseteq X[d].hello
  BY <1>1 DEF Greeted, ConnType
<1>3. G \in [Conns -> ConnType]
  <2>1. DOMAIN G = Conns /\ G = [d \in Conns |-> G[d]]
    BY <1>1 DEF Greeted
  <2> HIDE DEF G
  <2> QED
    BY <1>2, <2>1
<1>4. K = [G EXCEPT ![c].known = @ \cup {n}]
  BY DEF Known
<1> HIDE DEF G, K
<1>5. ASSUME NEW d \in Conns
      PROVE  /\ K[d] \in ConnType
             /\ K[d].from = G[d].from /\ K[d].to = G[d].to /\ K[d].open = G[d].open
             /\ K[d].known = IF d = c THEN G[d].known \cup {n} ELSE G[d].known
             /\ K[d].gone = G[d].gone
             /\ K[d].hello = G[d].hello
  BY <1>3, <1>4 DEF ConnType
<1>6. K \in [Conns -> ConnType]
  <2>1. DOMAIN K = Conns /\ K = [d \in Conns |-> K[d]]
    BY <1>3, <1>4
  <2> QED
    BY <1>5, <2>1
<1>7. Continues(G)
  <2>1. \A d \in Conns : d # c => G[d] = X[d]
    BY <1>1 DEF Greeted, G
  <2> QED
    BY <1>2, <1>3, <2>1 DEF Continues
<1>8. Continues(K) /\ n \in K[c].known
  <2>1. \A d \in Conns : d # c => K[d] = G[d]
    BY <1>3, <1>4
  <2>2. n \in K[c].known
    BY <1>5
  <2>3. ASSUME NEW d \in Conns
        PROVE  /\ K[d].from = conn[d].from /\ K[d].to = conn[d].to
               /\ K[d].open \subseteq conn[d].open
               /\ conn[d].known \subseteq K[d].known
               /\ K[d].gone = conn[d].gone
               /\ K[d].hello \subseteq conn[d].hello
    <3>1. /\ G[d].from = conn[d].from /\ G[d].to = conn[d].to
          /\ G[d].open \subseteq conn[d].open /\ conn[d].known \subseteq G[d].known
          /\ G[d].gone = conn[d].gone /\ G[d].hello \subseteq conn[d].hello
      BY <1>7 DEF Continues
    <3>2. G[d].known \subseteq K[d].known
      BY <1>5
    <3> QED
      BY <1>5, <3>1, <3>2
  <2>4. \A d \in Conns : conn[d] = NoConn => K[d] = NoConn
    BY <1>7, <2>1 DEF Continues
  <2> QED
    BY <1>6, <2>2, <2>3, <2>4 DEF Continues
<1> QED
  BY <1>7, <1>8 DEF G, K

\* So does a step that does nothing to connections.
LEMMA UnchangedContinues ==
  ASSUME conn \in [Conns -> ConnType]
  PROVE  Continues(conn)
BY DEF Continues

\* A connection that was never made has no known node.
LEMMA MadeIs ==
  ASSUME Typed, Connections, NEW c \in Conns
  PROVE  conn[c] # NoConn <=> conn[c].from # None
<1>1. NoConn.from = None
  BY DEF NoConn
<1> QED
  BY <1>1, Ids DEF Connections

(***************************************************************************)
(* Each part of the invariant, for the steps that matter little to it.     *)
(***************************************************************************)
\* Nothing comes to an end that is closed and has no packets.
WireFrame ==
  \A c \in Conns, n \in Nodes :
    wire[c][n] = << >> /\ n \notin conn[c].open => wire'[c][n] = << >>

\* Connections holds after a step that adds nothing for ended connections.
LEMMA ConnectionsKept ==
  ASSUME IInv, Continues(conn'), WireFrame
  PROVE  Connections'
<1> SUFFICES ASSUME NEW c \in Conns
             PROVE  /\ conn'[c] = NoConn \/ (conn'[c].from \in Nodes /\ conn'[c].to \in Nodes)
                    /\ \A n \in Nodes : conn'[c] = NoConn \/ n \in conn'[c].gone =>
                         wire'[c][n] = << >> /\ n \notin conn'[c].open
  BY DEF Connections
<1>1. Typed /\ Connections
  BY DEF IInv
<1>2. conn[c].from \in Nodes \cup {None} /\ conn'[c] \in ConnType
  BY <1>1 DEF Typed, ConnType, Continues
<1>3. CASE conn[c] = NoConn
  <2>1. conn'[c] = NoConn /\ conn'[c].open = {}
    BY <1>3 DEF Continues, NoConn
  <2>2. \A n \in Nodes : wire[c][n] = << >> /\ n \notin conn[c].open
    BY <1>1, <1>3 DEF Connections
  <2>3. \A n \in Nodes : wire'[c][n] = << >>
    BY <2>2 DEF WireFrame
  <2> QED
    BY <2>1, <2>3
<1>4. CASE conn[c] # NoConn
  <2>1. conn[c].from \in Nodes /\ conn[c].to \in Nodes
    BY <1>1, <1>4 DEF Connections
  <2>2. conn'[c].from \in Nodes /\ conn'[c].to \in Nodes /\ conn'[c] # NoConn
    BY <2>1, Ids DEF Continues, NoConn
  <2>3. \A n \in Nodes : n \in conn'[c].gone =>
           wire'[c][n] = << >> /\ n \notin conn'[c].open
    BY <1>1 DEF Connections, Continues, WireFrame
  <2> QED
    BY <2>2, <2>3
<1> QED
  BY <1>3, <1>4

\* A session stays, goes, or is a connection that has not ended.
LEMMA SessionsKept ==
  ASSUME IInv, Continues(conn'),
         \A n, t \in Nodes :
           \/ nodes'[n][t] \in {nodes[n][t], None}
           \/ /\ nodes'[n][t] \in Conns
              /\ n \in conn'[nodes'[n][t]].known
              /\ Peer(nodes'[n][t], n) = t
              /\ n \notin conn[nodes'[n][t]].gone
  PROVE  Sessions'
<1> SUFFICES ASSUME NEW n \in Nodes, NEW t \in Nodes, nodes'[n][t] # None
             PROVE  /\ n \in conn'[nodes'[n][t]].known
                    /\ Peer(nodes[n][t], n)' = t
                    /\ n \notin conn'[nodes'[n][t]].gone
  BY DEF Sessions
<1>1. Typed /\ Sessions
  BY DEF IInv
<1>2. ASSUME NEW c \in Conns
      PROVE  Peer(c, n)' = Peer(c, n) /\ conn'[c].gone = conn[c].gone
             /\ conn[c].known \subseteq conn'[c].known
  BY DEF Peer, Continues
<1>3. CASE nodes'[n][t] = nodes[n][t]
  <2>1. nodes[n][t] \in Conns
    BY <1>1, <1>3 DEF Typed
  <2>2. n \in conn[nodes[n][t]].known /\ Peer(nodes[n][t], n) = t
        /\ n \notin conn[nodes[n][t]].gone
    BY <1>1, <1>3 DEF Sessions
  <2> DEFINE c == nodes[n][t]
  <2>3. Peer(c, n)' = t /\ n \in conn'[c].known /\ n \notin conn'[c].gone
    <3> HIDE DEF c
    <3> QED
      BY <1>2, <2>1, <2>2 DEF c
  <2>4. Peer(nodes[n][t], n)' = t
    BY <1>3, <2>3 DEF Peer
  <2> QED
    BY <1>3, <2>3, <2>4
<1>4. CASE nodes'[n][t] # nodes[n][t]
  <2>1. PICK c \in Conns : c = nodes'[n][t]
    BY <1>4
  <2>2. n \in conn'[c].known /\ Peer(c, n) = t /\ n \notin conn[c].gone
    BY <1>4, <2>1
  <2>3. Peer(c, n)' = t /\ n \notin conn'[c].gone
    BY <1>2, <2>2
  <2>4. Peer(nodes[n][t], n)' = t
    BY <2>1, <2>3 DEF Peer
  <2> QED
    BY <2>1, <2>2, <2>3, <2>4
<1> QED
  BY <1>3, <1>4

\* Queues holds after a step that leaves the queues alone.
LEMMA QueuesKept ==
  ASSUME IInv, Continues(conn'), queue' = queue
  PROVE  Queues'
<1>1. Typed /\ Connections /\ Queues
  BY DEF IInv
<1>2. \A c \in Conns : conn[c] # NoConn => conn'[c] # NoConn
  <2> TAKE c \in Conns
  <2> HAVE conn[c] # NoConn
  <2>1. conn'[c].from = conn[c].from /\ conn[c].from # None
    BY <1>1, MadeIs DEF Continues
  <2> QED
    BY <2>1 DEF NoConn
<1>3. \A n, e \in Nodes : queue[n][e].to \in Conns \cup {None}
  BY <1>1 DEF Typed, QueueType
<1> QED
  BY <1>1, <1>2, <1>3 DEF Queues

\* The properties of names hold after a step that only unbinds names.
LEMMA NamesKept ==
  ASSUME IInv, Continues(conn'), queue' = queue,
         \A n \in Nodes, name \in Names : bound'[n][name] \in {bound[n][name], None}
  PROVE  ConnectingNameIsFree' /\ NoStaleBinding'
<1>1. Typed /\ Queues /\ ConnectingNameIsFree /\ NoStaleBinding
  BY DEF IInv
<1>2. ConnectingNameIsFree'
  <2> SUFFICES ASSUME NEW n \in Nodes, NEW e \in Nodes, queue[n][e].pc \in {"connect", "bind"}
               PROVE  bound'[n][queue[n][e].name] = None
    BY DEF ConnectingNameIsFree
  <2>1. queue[n][e].name \in Names
    BY <1>1 DEF Queues
  <2>2. bound[n][queue[n][e].name] = None
    BY <1>1 DEF ConnectingNameIsFree
  <2> QED
    BY <2>1, <2>2
<1>3. NoStaleBinding'
  <2> SUFFICES ASSUME NEW n \in Nodes, NEW name \in Names, NEW c \in Conns,
                      bound'[n][name] = c, n \in conn'[c].gone
               PROVE  \E e \in Nodes : queue[n][e].to = c /\ queue[n][e].name = name
    BY DEF NoStaleBinding
  <2>1. bound[n][name] = c
    BY Ids
  <2>2. n \in conn[c].gone
    BY DEF Continues
  <2> QED
    BY <1>1, <2>1, <2>2 DEF NoStaleBinding
<1> QED
  BY <1>2, <1>3

\* The packets that carry m are the same, but for the first of c0 to n0.
Shift(K, m, c0, n0) ==
  \A c \in Conns, n \in Nodes, i \in Nat :
    Sent(K, m, c, n, i)' => Sent(K, m, c, n, IF c = c0 /\ n = n0 THEN i + 1 ELSE i)

\* Packets that move up or are lost do not come to be in two places.
LEMMA ShiftOnce ==
  ASSUME NEW K, NEW m, NEW c0, NEW n0, Shift(K, m, c0, n0)
  PROVE  /\ OnWire(K, m)' => OnWire(K, m)
         /\ WireOnce(K, m) => WireOnce(K, m)'
<1>1. OnWire(K, m)' => OnWire(K, m)
  <2> HAVE OnWire(K, m)'
  <2>1. PICK c \in Conns, n \in Nodes, i \in Nat : Sent(K, m, c, n, i)'
    BY DEF OnWire
  <2>2. Sent(K, m, c, n, IF c = c0 /\ n = n0 THEN i + 1 ELSE i)
    BY <2>1 DEF Shift
  <2>3. (IF c = c0 /\ n = n0 THEN i + 1 ELSE i) \in Nat
    OBVIOUS
  <2> QED
    BY <2>2, <2>3 DEF OnWire
<1>2. WireOnce(K, m) => WireOnce(K, m)'
  <2> HAVE WireOnce(K, m)
  <2> SUFFICES ASSUME NEW c \in Conns, NEW d \in Conns, NEW n \in Nodes, NEW k \in Nodes,
                      NEW i \in Nat, NEW j \in Nat,
                      Sent(K, m, c, n, i)', Sent(K, m, d, k, j)'
               PROVE  c = d /\ n = k /\ i = j
    BY DEF WireOnce
  <2> DEFINE x == IF c = c0 /\ n = n0 THEN i + 1 ELSE i
             y == IF d = c0 /\ k = n0 THEN j + 1 ELSE j
  <2>1. x \in Nat /\ y \in Nat
    OBVIOUS
  <2>2. Sent(K, m, c, n, x) /\ Sent(K, m, d, k, y)
    BY DEF Shift
  <2>3. c = d /\ n = k /\ x = y
    <3> HIDE DEF x, y
    <3> QED
      BY <2>1, <2>2 DEF WireOnce
  <2> QED
    BY <2>3
<1> QED
  BY <1>1, <1>2

\* OnePlace holds for a message that only moves up or is lost.
LEMMA PlaceKept ==
  ASSUME NEW m \in Messages, OnePlace(m), NEW c0, NEW n0, Shift(Forwards, m, c0, n0),
         m \in todo' => m \in todo, got'[m] = got[m],
         \A n, e \in Nodes, i \in Nat : Queued(m, n, e, i)' => Queued(m, n, e, i)
  PROVE  OnePlace(m)'
<1>1. /\ OnWire(Forwards, m)' => OnWire(Forwards, m)
      /\ WireOnce(Forwards, m) => WireOnce(Forwards, m)'
  BY ShiftOnce
<1>2. InQueue(m)' => InQueue(m)
  BY DEF InQueue
<1>3. QueueOnce(m) => QueueOnce(m)'
  BY DEF QueueOnce
<1> QED
  BY <1>1, <1>2, <1>3 DEF OnePlace

\* OneAnswer holds for an answer that only moves up or is lost.
LEMMA AnswerKept ==
  ASSUME NEW m \in Messages, OneAnswer(m), NEW c0, NEW n0, Shift(Replies, m, c0, n0),
         \A s \in serving' : s.m = m => s \in serving,
         replied'[m] = replied[m], got[m] # 0 => got'[m] # 0
  PROVE  OneAnswer(m)'
<1>1. /\ OnWire(Replies, m)' => OnWire(Replies, m)
      /\ WireOnce(Replies, m) => WireOnce(Replies, m)'
  BY ShiftOnce
<1> QED
  BY <1>1 DEF OneAnswer

\* The invariant after a step that binds no name and changes no queue.
LEMMA CalmStep ==
  ASSUME IInv, Typed', Continues(conn'), WireFrame, queue' = queue,
         \A n, t \in Nodes :
           \/ nodes'[n][t] \in {nodes[n][t], None}
           \/ /\ nodes'[n][t] \in Conns
              /\ n \in conn'[nodes'[n][t]].known
              /\ Peer(nodes'[n][t], n) = t
              /\ n \notin conn[nodes'[n][t]].gone,
         \A n \in Nodes, name \in Names : bound'[n][name] \in {bound[n][name], None},
         Messaging'
  PROVE  IInv'
<1>1. Connections'
  BY ConnectionsKept
<1>2. Sessions'
  BY SessionsKept
<1>3. Queues'
  BY QueuesKept
<1>4. ConnectingNameIsFree' /\ NoStaleBinding'
  BY NamesKept
<1> QED
  BY <1>1, <1>2, <1>3, <1>4 DEF IInv

(***************************************************************************)
(* Packets that come and go.                                               *)
(***************************************************************************)
LEMMA SameWire ==
  ASSUME wire' = wire
  PROVE  WireFrame /\ \A K, m : Shift(K, m, None, None)
<1>1. \A K, m : Shift(K, m, None, None)
  BY Ids DEF Shift, Sent
<1> QED
  BY <1>1 DEF WireFrame

\* The packets behind the one that is handled move up by one.
LEMMA ConsumedShifts ==
  ASSUME Typed, NEW c \in Conns, NEW n \in Nodes, wire[c][n] # << >>, wire' = Consumed(n, c)
  PROVE  WireFrame /\ \A K, m : Shift(K, m, c, n)
<1>1. /\ \A d \in Conns, k \in Nodes : d # c \/ k # n => wire'[d][k] = wire[d][k]
      /\ \A i \in 1..Len(wire'[c][n]) :
           i + 1 \in 1..Len(wire[c][n]) /\ wire'[c][n][i] = wire[c][n][i + 1]
  BY ConsumedAt DEF Typed
<1>2. WireFrame
  BY <1>1 DEF WireFrame
<1>3. ASSUME NEW K, NEW m
      PROVE  Shift(K, m, c, n)
  <2> SUFFICES ASSUME NEW d \in Conns, NEW k \in Nodes, NEW i \in Nat, Sent(K, m, d, k, i)'
               PROVE  Sent(K, m, d, k, IF d = c /\ k = n THEN i + 1 ELSE i)
    BY DEF Shift
  <2>1. i \in 1..Len(wire'[d][k]) /\ wire'[d][k][i].kind \in K /\ wire'[d][k][i].msg = m
    BY DEF Sent
  <2>2. CASE d = c /\ k = n
    BY <1>1, <2>1, <2>2 DEF Sent
  <2>3. CASE ~(d = c /\ k = n)
    BY <1>1, <2>1, <2>3 DEF Sent
  <2> QED
    BY <2>2, <2>3
<1> QED
  BY <1>2, <1>3

\* A packet that is not about m is sent.
LEMMA CarriedShifts ==
  ASSUME Typed, NEW c \in Conns, NEW n \in Nodes, NEW p \in Packets,
         wire' = Carried(wire, c, n, <<p>>)
  PROVE  /\ WireFrame
         /\ \A K, m : p.kind \notin K \/ p.msg # m => Shift(K, m, None, None)
<1>1. OneMore(wire', wire, c, p)
  BY CarriedOne DEF Typed
<1>2. WireFrame
  BY <1>1 DEF WireFrame, OneMore
<1>3. ASSUME NEW K, NEW m, p.kind \notin K \/ p.msg # m,
             NEW d \in Conns, NEW k \in Nodes, NEW i \in Nat, Sent(K, m, d, k, i)'
      PROVE  Sent(K, m, d, k, i)
  <2>1. i \in 1..Len(wire'[d][k]) /\ wire'[d][k][i].kind \in K /\ wire'[d][k][i].msg = m
    BY <1>3 DEF Sent
  <2>2. wire'[d][k][i] # p
    BY <1>3, <2>1
  <2>3. i \in 1..Len(wire[d][k]) /\ wire'[d][k][i] = wire[d][k][i]
    BY <1>1, <2>1, <2>2 DEF OneMore
  <2> QED
    BY <2>1, <2>3 DEF Sent
<1>4. \A K, m : p.kind \notin K \/ p.msg # m => Shift(K, m, None, None)
  BY <1>3, Ids DEF Shift
<1> QED
  BY <1>2, <1>4

\* The parts of the invariant that the lemmas on actions start from.
LEMMA TypedParts ==
  ASSUME IInv
  PROVE  /\ Typed /\ Connections /\ Sessions /\ Queues
         /\ \A m \in Messages : OnePlace(m) /\ OneAnswer(m)
BY DEF IInv, Messaging

\* Steps that move no message: what the io threads report and close.
LEMMA QuietMessages ==
  ASSUME IInv, todo' = todo, queue' = queue, serving' = serving, got' = got,
         replied' = replied, NEW c0, NEW n0, \A K, m : K \in {Forwards, Replies} => Shift(K, m, c0, n0)
  PROVE  Messaging'
<1> SUFFICES ASSUME NEW m \in Messages
             PROVE  OnePlace(m)' /\ OneAnswer(m)'
  BY DEF Messaging
<1>1. OnePlace(m) /\ OneAnswer(m)
  BY TypedParts
<1>2. Shift(Forwards, m, c0, n0) /\ Shift(Replies, m, c0, n0)
  OBVIOUS
<1>3. OnePlace(m)'
  BY <1>1, <1>2, PlaceKept DEF Queued
<1>4. OneAnswer(m)'
  BY <1>1, <1>2, AnswerKept
<1> QED
  BY <1>3, <1>4

\* DeleteNodeSession takes entries out of the two maps.
LEMMA DeleteEffect ==
  ASSUME Typed, Connections, NEW n \in Nodes, NEW c \in Conns, conn[c] # NoConn,
         DeleteNodeSession(n, c)
  PROVE  /\ nodes' \in [Nodes -> [Nodes -> Conns \cup {None}]]
         /\ bound' \in [Nodes -> [Names -> Conns \cup {None}]]
         /\ \A k, t \in Nodes : nodes'[k][t] \in {nodes[k][t], None}
         /\ n \in conn[c].known => nodes'[n][Peer(c, n)] = None
         /\ \A k \in Nodes, name \in Names : bound'[k][name] \in {bound[k][name], None}
         /\ \A name \in Names : bound'[n][name] # c
<1> DEFINE p == Peer(c, n)
<1>1. p \in Nodes
  BY PeerIs
<1>2. /\ nodes \in [Nodes -> [Nodes -> Conns \cup {None}]]
      /\ bound \in [Nodes -> [Names -> Conns \cup {None}]]
  BY DEF Typed
<1>3. nodes' = IF n \in conn[c].known THEN [nodes EXCEPT ![n][p] = None] ELSE nodes
  BY DEF DeleteNodeSession
<1> HIDE DEF p
<1>4. /\ nodes' \in [Nodes -> [Nodes -> Conns \cup {None}]]
      /\ \A k, t \in Nodes : nodes'[k][t] \in {nodes[k][t], None}
      /\ n \in conn[c].known => nodes'[n][p] = None
  BY <1>1, <1>2, <1>3
<1> DEFINE b == [name \in Names |-> IF bound[n][name] = c THEN None ELSE bound[n][name]]
<1>5. b \in [Names -> Conns \cup {None}]
  BY <1>2
<1>6. bound' = [bound EXCEPT ![n] = b]
  BY DEF DeleteNodeSession
<1>7. \A name \in Names : b[name] \in {bound[n][name], None} /\ b[name] # c
  BY Ids
<1> HIDE DEF b
<1>8. /\ bound' \in [Nodes -> [Names -> Conns \cup {None}]]
      /\ \A k \in Nodes, name \in Names : bound'[k][name] \in {bound[k][name], None}
      /\ \A name \in Names : bound'[n][name] # c
  BY <1>2, <1>5, <1>6, <1>7
<1> QED
  BY <1>4, <1>8 DEF p

(***************************************************************************)
(* The handlers of what the io threads report.                             *)
(***************************************************************************)
LEMMA ReceivesMade ==
  ASSUME IInv, NEW n \in Nodes, NEW c \in Conns, NEW kind, Receives(n, c, kind)
  PROVE  /\ wire[c][n] # << >> /\ conn[c] # NoConn /\ n \notin conn[c].gone
         /\ Head(wire[c][n]).kind = kind /\ Peer(c, n) \in Nodes
BY PeerIs DEF Receives, IInv, Connections

\* CreateNodeSession keeps the session that was there, or makes this one it.
LEMMA CreateEffect ==
  ASSUME IInv, NEW n \in Nodes, NEW c \in Conns, NEW active, CreateNodeSession(n, c, active),
         Continues(conn'), n \in conn'[c].known, n \notin conn[c].gone, Peer(c, n) \in Nodes
  PROVE  /\ nodes' \in [Nodes -> [Nodes -> Conns \cup {None}]]
         /\ \A k, t \in Nodes :
              \/ nodes'[k][t] \in {nodes[k][t], None}
              \/ /\ nodes'[k][t] \in Conns
                 /\ k \in conn'[nodes'[k][t]].known
                 /\ Peer(nodes'[k][t], k) = t
                 /\ k \notin conn[nodes'[k][t]].gone
<1> DEFINE p == Peer(c, n)
           x == KeptSession(n, c, active)
<1>1. nodes \in [Nodes -> [Nodes -> Conns \cup {None}]]
  BY DEF IInv, Typed
<1>2. x \in {c, nodes[n][p]} /\ nodes' = [nodes EXCEPT ![n][p] = x]
  BY DEF KeptSession, CreateNodeSession
<1>3. p \in Nodes /\ Peer(c, n) = p
  OBVIOUS
<1> HIDE DEF p, x
<1>4. x \in Conns \cup {None}
  BY <1>1, <1>2, <1>3
<1>5. nodes' \in [Nodes -> [Nodes -> Conns \cup {None}]] /\ nodes'[n][p] = x
      /\ \A k, t \in Nodes : k # n \/ t # p => nodes'[k][t] = nodes[k][t]
  BY <1>1, <1>2, <1>3, <1>4
<1> QED
  BY <1>2, <1>3, <1>5

\* HandleConnection preserves the invariant.
LEMMA HandleConnectionKeeps ==
  ASSUME IInv, NEW n \in Nodes, NEW c \in Conns, HandleConnection(n, c)
  PROVE  IInv'
<1>1. Typed /\ Connections
  BY TypedParts
<1>2. conn[c] # NoConn
  BY DEF HandleConnection, NoConn
<1>3. Continues(conn')
  <2>1. Continues(conn)
    BY <1>1, UnchangedContinues DEF Typed
  <2>2. conn' = Greeted(conn, c, n)
    BY DEF HandleConnection, Greeted
  <2> QED
    BY <1>2, <2>1, <2>2, GreetedContinues
<1>4. /\ nodes' \in [Nodes -> [Nodes -> Conns \cup {None}]]
      /\ bound' \in [Nodes -> [Names -> Conns \cup {None}]]
      /\ \A k, t \in Nodes : nodes'[k][t] \in {nodes[k][t], None}
      /\ \A k \in Nodes, name \in Names : bound'[k][name] \in {bound[k][name], None}
  BY <1>1, <1>2, DeleteEffect DEF HandleConnection
<1>5. UNCHANGED <<todo, wire, queue, serving, got, replied>>
  BY DEF HandleConnection
<1>6. Typed'
  BY <1>1, <1>3, <1>4, <1>5 DEF Typed, Continues
<1>7. WireFrame /\ \A K, m : Shift(K, m, None, None)
  BY <1>5, SameWire
<1>8. Messaging'
  BY <1>5, <1>7, QuietMessages
<1> QED
  BY <1>3, <1>4, <1>5, <1>6, <1>7, <1>8, CalmStep

\* HandleRecvInvalid preserves the invariant.
LEMMA HandleRecvInvalidKeeps ==
  ASSUME IInv, NEW n \in Nodes, NEW c \in Conns, HandleRecvInvalid(n, c)
  PROVE  IInv'
<1>1. Typed /\ Connections
  BY TypedParts
<1>2. conn[c] # NoConn /\ wire[c][n] # << >>
  BY ReceivesMade DEF HandleRecvInvalid
<1>3. Continues(conn')
  <2>1. Continues(Closed({c}, n))
    BY <1>1, ClosedContinues DEF Typed
  <2> QED
    BY <1>2, <2>1, GreetedContinues DEF HandleRecvInvalid
<1>4. wire' = Consumed(n, c) /\ UNCHANGED <<todo, nodes, bound, queue, serving, got, replied>>
  BY DEF HandleRecvInvalid
<1>5. wire' \in [Conns -> [Nodes -> Seq(Packets)]]
  BY <1>1, <1>2, <1>4, ConsumedAt DEF Typed
<1>6. Typed'
  BY <1>1, <1>3, <1>4, <1>5 DEF Typed, Continues
<1>7. WireFrame /\ \A K, m : Shift(K, m, c, n)
  BY <1>1, <1>2, <1>4, ConsumedShifts
<1>8. Messaging'
  BY <1>4, <1>7, QuietMessages
<1> QED
  BY <1>3, <1>4, <1>6, <1>7, <1>8, CalmStep

\* HandleRecvShifted preserves the invariant.
LEMMA HandleRecvShiftedKeeps ==
  ASSUME IInv, NEW n \in Nodes, NEW c \in Conns, HandleRecvShifted(n, c)
  PROVE  IInv'
<1>1. Typed /\ Connections
  BY TypedParts
<1>2. conn[c] # NoConn /\ wire[c][n] # << >>
  BY ReceivesMade DEF HandleRecvShifted
<1>3. Continues(conn')
  <2>1. Continues(conn)
    BY <1>1, UnchangedContinues DEF Typed
  <2> QED
    BY <1>2, <2>1, GreetedContinues DEF HandleRecvShifted
<1>4. wire' = Consumed(n, c) /\ UNCHANGED <<todo, nodes, bound, queue, serving, got, replied>>
  BY DEF HandleRecvShifted
<1>5. wire' \in [Conns -> [Nodes -> Seq(Packets)]]
  BY <1>1, <1>2, <1>4, ConsumedAt DEF Typed
<1>6. Typed'
  BY <1>1, <1>3, <1>4, <1>5 DEF Typed, Continues
<1>7. WireFrame /\ \A K, m : Shift(K, m, c, n)
  BY <1>1, <1>2, <1>4, ConsumedShifts
<1>8. Messaging'
  BY <1>4, <1>7, QuietMessages
<1> QED
  BY <1>3, <1>4, <1>6, <1>7, <1>8, CalmStep

\* HandleRecvHandshakeRequest preserves the invariant.
LEMMA HandleRecvHandshakeRequestKeeps ==
  ASSUME IInv, NEW n \in Nodes, NEW c \in Conns, HandleRecvHandshakeRequest(n, c)
  PROVE  IInv'
<1>1. Typed /\ Connections
  BY TypedParts
<1>2. conn[c] # NoConn /\ wire[c][n] # << >> /\ n \notin conn[c].gone /\ Peer(c, n) \in Nodes
  BY ReceivesMade DEF HandleRecvHandshakeRequest
<1>3. Continues(conn') /\ n \in conn'[c].known
  <2>1. PICK cs : conn' = Known(Closed(cs, n), c, n)
    BY DEF HandleRecvHandshakeRequest
  <2>2. Continues(Closed(cs, n))
    BY <1>1, ClosedContinues DEF Typed
  <2> QED
    BY <1>2, <2>1, <2>2, GreetedContinues
<1>4. /\ wire' = Carried(Consumed(n, c), c, n, <<Response>>)
      /\ UNCHANGED <<todo, bound, queue, serving, got, replied>>
      /\ CreateNodeSession(n, c, FALSE)
  BY DEF HandleRecvHandshakeRequest
<1>5. /\ nodes' \in [Nodes -> [Nodes -> Conns \cup {None}]]
      /\ \A k, t \in Nodes :
           \/ nodes'[k][t] \in {nodes[k][t], None}
           \/ /\ nodes'[k][t] \in Conns
              /\ k \in conn'[nodes'[k][t]].known
              /\ Peer(nodes'[k][t], k) = t
              /\ k \notin conn[nodes'[k][t]].gone
  BY <1>2, <1>3, <1>4, CreateEffect
<1> DEFINE w == Consumed(n, c)
<1>6. /\ w \in [Conns -> [Nodes -> Seq(Packets)]]
      /\ \A d \in Conns, k \in Nodes : d # c \/ k # n => w[d][k] = wire[d][k]
      /\ \A i \in 1..Len(w[c][n]) :
           i + 1 \in 1..Len(wire[c][n]) /\ w[c][n][i] = wire[c][n][i + 1]
  BY <1>1, <1>2, ConsumedAt DEF Typed
<1>7. Response \in Packets /\ Response.kind = "response"
  BY Ids DEF Response, Packet
<1>8. OneMore(wire', w, c, Response)
  <2> HIDE DEF w
  <2>1. wire' = Carried(w, c, n, <<Response>>) /\ conn \in [Conns -> ConnType]
    BY <1>1, <1>4 DEF Typed, w
  <2> QED
    BY <1>6, <1>7, <2>1, CarriedOne
<1> HIDE DEF w
<1>9. Typed'
  BY <1>1, <1>3, <1>4, <1>5, <1>8 DEF Typed, Continues, OneMore
<1>10. WireFrame
  <2> SUFFICES ASSUME NEW d \in Conns, NEW k \in Nodes,
                      wire[d][k] = << >>, k \notin conn[d].open
               PROVE  wire'[d][k] = << >>
    BY DEF WireFrame
  <2>1. d # c \/ k # n
    BY <1>2
  <2>2. w[d][k] = << >>
    BY <1>6, <2>1
  <2> QED
    BY <1>8, <2>2 DEF OneMore
<1>11. ASSUME NEW K, NEW m, K \in {Forwards, Replies}
       PROVE  Shift(K, m, c, n)
  <2> SUFFICES ASSUME NEW d \in Conns, NEW k \in Nodes, NEW i \in Nat, Sent(K, m, d, k, i)'
               PROVE  Sent(K, m, d, k, IF d = c /\ k = n THEN i + 1 ELSE i)
    BY DEF Shift
  <2>1. i \in 1..Len(wire'[d][k]) /\ wire'[d][k][i].kind \in K /\ wire'[d][k][i].msg = m
    BY DEF Sent
  <2>2. wire'[d][k][i].kind # "response"
    BY <1>11, <2>1 DEF Forwards, Replies
  <2>3. i \in 1..Len(w[d][k]) /\ wire'[d][k][i] = w[d][k][i]
    BY <1>7, <1>8, <2>1, <2>2 DEF OneMore
  <2>4. CASE d = c /\ k = n
    BY <1>6, <2>1, <2>3, <2>4 DEF Sent
  <2>5. CASE ~(d = c /\ k = n)
    BY <1>6, <2>1, <2>3, <2>5 DEF Sent
  <2> QED
    BY <2>4, <2>5
<1>12. Messaging'
  BY <1>4, <1>11, QuietMessages
<1> QED
  BY <1>3, <1>4, <1>5, <1>9, <1>10, <1>12, CalmStep

\* The service gets the message m: it is not on the wire any more.
LEMMA MessageReceived ==
  ASSUME IInv, NEW n \in Nodes, NEW c \in Conns, NEW m \in Messages, NEW kind \in Forwards,
         Receives(n, c, kind), m = Head(wire[c][n]).msg, wire' = Consumed(n, c),
         got' = [got EXCEPT ![m] = @ + 1], UNCHANGED <<todo, queue>>
  PROVE  /\ \A x \in Messages : OnePlace(x)'
         /\ got[m] = 0 /\ \A x \in Messages : got[x] # 0 => got'[x] # 0
<1>1. Typed /\ wire[c][n] # << >> /\ Head(wire[c][n]).kind = kind
  BY ReceivesMade, TypedParts
<1>2. \A K, x : Shift(K, x, c, n)
  BY <1>1, ConsumedShifts
<1>3. got \in [Messages -> Nat]
  BY <1>1 DEF Typed
<1>4. Sent(Forwards, m, c, n, 1)
  BY <1>1, ConsumedAt DEF Typed, Sent
<1>5. OnePlace(m) /\ OnWire(Forwards, m)
  BY <1>4, TypedParts DEF OnWire
<1>6. m \notin todo /\ ~InQueue(m) /\ got[m] = 0 /\ WireOnce(Forwards, m)
  BY <1>5 DEF OnePlace
<1>7. ~OnWire(Forwards, m)'
  <2> SUFFICES ASSUME NEW d \in Conns, NEW k \in Nodes, NEW i \in Nat, Sent(Forwards, m, d, k, i)'
               PROVE  FALSE
    BY DEF OnWire
  <2> DEFINE j == IF d = c /\ k = n THEN i + 1 ELSE i
  <2>1. Sent(Forwards, m, d, k, j) /\ j \in Nat
    BY <1>2 DEF Shift
  <2>2. d = c /\ k = n /\ j = 1
    <3> HIDE DEF j
    <3> QED
      BY <1>4, <1>6, <2>1 DEF WireOnce
  <2>3. i = 0
    BY <2>2
  <2> QED
    BY <2>3 DEF Sent
<1>8. ~InQueue(m)' /\ QueueOnce(m)'
  <2>1. ~InQueue(m) /\ QueueOnce(m)
    BY <1>5, <1>6 DEF OnePlace
  <2>2. \A k, e, i : Queued(m, k, e, i)' <=> Queued(m, k, e, i)
    BY DEF Queued
  <2> QED
    BY <2>1, <2>2 DEF InQueue, QueueOnce
<1>9. OnePlace(m)'
  <2>1. got'[m] = 1
    BY <1>3, <1>6
  <2>2. WireOnce(Forwards, m)'
    BY <1>7 DEF WireOnce, OnWire
  <2> QED
    BY <1>6, <1>7, <1>8, <2>1, <2>2 DEF OnePlace
<1>10. ASSUME NEW x \in Messages, x # m
       PROVE  OnePlace(x)'
  <2>1. got'[x] = got[x]
    BY <1>3, <1>10
  <2>2. OnePlace(x) /\ Shift(Forwards, x, c, n)
    BY <1>2, TypedParts
  <2> QED
    BY <2>1, <2>2, PlaceKept DEF Queued
<1>11. \A x \in Messages : got[x] # 0 => got'[x] # 0
  BY <1>3
<1> QED
  BY <1>6, <1>9, <1>10, <1>11

\* A packet with a message: it is one of Messages.
LEMMA HeadMessage ==
  ASSUME IInv, NEW n \in Nodes, NEW c \in Conns, NEW kind \in Carrying, Receives(n, c, kind)
  PROVE  /\ Head(wire[c][n]).msg \in Messages
         /\ Consumed(n, c) \in [Conns -> [Nodes -> Seq(Packets)]]
         /\ conn' = Greeted(conn, c, n) => Continues(conn')
<1>1. Typed /\ wire[c][n] # << >> /\ Head(wire[c][n]).kind = kind /\ conn[c] # NoConn
  BY ReceivesMade, TypedParts
<1>2. Head(wire[c][n]) \in Packets /\ Consumed(n, c) \in [Conns -> [Nodes -> Seq(Packets)]]
  BY <1>1, ConsumedAt DEF Typed
<1>3. Head(wire[c][n]).msg \in Messages
  BY <1>1, <1>2 DEF Packets
<1>4. Continues(conn)
  BY <1>1, UnchangedContinues DEF Typed
<1>5. Continues(Greeted(conn, c, n))
  BY <1>1, <1>4, GreetedContinues
<1> QED
  BY <1>2, <1>3, <1>5

\* HandleRecvClusterSend preserves the invariant.
LEMMA HandleRecvClusterSendKeeps ==
  ASSUME IInv, NEW n \in Nodes, NEW c \in Conns, HandleRecvClusterSend(n, c)
  PROVE  IInv'
<1>1. Typed
  BY TypedParts
<1>2. /\ Head(wire[c][n]).msg \in Messages
      /\ Consumed(n, c) \in [Conns -> [Nodes -> Seq(Packets)]] /\ Continues(conn')
  BY HeadMessage DEF HandleRecvClusterSend, Carrying
<1>3. PICK m \in Messages : m = Head(wire[c][n]).msg
  BY <1>2
<1>4. /\ Receives(n, c, "send") /\ wire' = Consumed(n, c) /\ conn' = Greeted(conn, c, n)
      /\ UNCHANGED <<todo, nodes, bound, queue, serving, replied>>
      /\ got' = [got EXCEPT ![m] = @ + 1] \/ UNCHANGED got
  BY <1>3 DEF HandleRecvClusterSend
<1>5. wire[c][n] # << >>
  BY <1>4, ReceivesMade
<1>6. WireFrame /\ \A K, x : Shift(K, x, c, n)
  BY <1>1, <1>4, <1>5, ConsumedShifts
<1>7. Typed'
  <2>1. got \in [Messages -> Nat]
    BY <1>1 DEF Typed
  <2>2. got' \in [Messages -> Nat]
    BY <1>4, <2>1
  <2> QED
    BY <1>1, <1>4, <1>2, <2>2 DEF Typed, Continues
<1>8. Messaging'
  <2>1. CASE got' = [got EXCEPT ![m] = @ + 1]
    <3>1. "send" \in Forwards
      BY DEF Forwards
    <3>2. /\ \A x \in Messages : OnePlace(x)'
          /\ \A x \in Messages : got[x] # 0 => got'[x] # 0
      BY <1>4, <1>2, <2>1, <3>1, <1>3, MessageReceived
    <3>3. \A x \in Messages : OneAnswer(x)'
      BY <1>4, <1>6, <3>2, AnswerKept, TypedParts
    <3> QED
      BY <3>2, <3>3 DEF Messaging
  <2>2. CASE UNCHANGED got
    BY <1>4, <1>6, <2>2, QuietMessages
  <2> QED
    BY <1>4, <2>1, <2>2
<1> QED
  BY <1>4, <1>2, <1>6, <1>7, <1>8, CalmStep

\* HandleRecvClusterCall preserves the invariant.
LEMMA HandleRecvClusterCallKeeps ==
  ASSUME IInv, NEW n \in Nodes, NEW c \in Conns, HandleRecvClusterCall(n, c)
  PROVE  IInv'
<1>1. Typed
  BY TypedParts
<1>2. /\ Head(wire[c][n]).msg \in Messages
      /\ Consumed(n, c) \in [Conns -> [Nodes -> Seq(Packets)]] /\ Continues(conn')
  BY HeadMessage DEF HandleRecvClusterCall, Carrying
<1>3. PICK m \in Messages : m = Head(wire[c][n]).msg
  BY <1>2
<1> DEFINE s == [n |-> n, c |-> c, m |-> m]
<1>4. /\ Receives(n, c, "call") /\ wire' = Consumed(n, c) /\ conn' = Greeted(conn, c, n)
      /\ UNCHANGED <<todo, nodes, bound, queue, replied>>
      /\ \/ got' = [got EXCEPT ![m] = @ + 1] /\ serving' = serving \cup {s}
         \/ UNCHANGED <<got, serving>>
  BY <1>3 DEF HandleRecvClusterCall
<1>5. wire[c][n] # << >>
  BY <1>4, ReceivesMade
<1>6. WireFrame /\ \A K, x : Shift(K, x, c, n)
  BY <1>1, <1>4, <1>5, ConsumedShifts
<1>7. s \in [n : Nodes, c : Conns, m : Messages] /\ s.m = m
  BY <1>2
<1> HIDE DEF s
<1>8. Typed'
  <2>1. got \in [Messages -> Nat]
    BY <1>1 DEF Typed
  <2>2. got' \in [Messages -> Nat]
    BY <1>4, <2>1
  <2>3. got' \in [Messages -> Nat] /\ serving' \subseteq [n : Nodes, c : Conns, m : Messages]
    BY <1>1, <1>4, <1>7, <2>2 DEF Typed
  <2> QED
    BY <1>1, <1>4, <1>2, <2>3 DEF Typed, Continues
<1>9. Messaging'
  <2>1. CASE got' = [got EXCEPT ![m] = @ + 1] /\ serving' = serving \cup {s}
    <3>1. "call" \in Forwards
      BY DEF Forwards
    <3>2. /\ \A x \in Messages : OnePlace(x)'
          /\ got[m] = 0 /\ \A x \in Messages : got[x] # 0 => got'[x] # 0
      BY <1>4, <1>2, <2>1, <3>1, <1>3, MessageReceived
    <3>3. ASSUME NEW x \in Messages, x # m
          PROVE  OneAnswer(x)'
      <4>1. \A r \in serving' : r.m = x => r \in serving
        BY <1>7, <2>1, <3>3
      <4> QED
        BY <1>4, <1>6, <3>2, <4>1, AnswerKept, TypedParts
    <3>4. OneAnswer(m)'
      <4>1. ~OnWire(Replies, m) /\ replied[m] = 0 /\ \A r \in serving : r.m # m
        BY <1>2, <3>2, TypedParts DEF OneAnswer
      <4>2. ~OnWire(Replies, m)'
        BY <1>6, <4>1, ShiftOnce
      <4>3. got'[m] # 0
        BY <1>1, <1>2, <2>1 DEF Typed
      <4>4. WireOnce(Replies, m)'
        BY <4>2 DEF WireOnce, OnWire
      <4>5. \A r \in serving' : r.m = m => r = s
        BY <2>1, <4>1
      <4> QED
        BY <1>4, <4>1, <4>2, <4>3, <4>4, <4>5 DEF OneAnswer
    <3> QED
      BY <3>2, <3>3, <3>4 DEF Messaging
  <2>2. CASE UNCHANGED <<got, serving>>
    BY <1>4, <1>6, <2>2, QuietMessages
  <2> QED
    BY <1>4, <2>1, <2>2
<1> QED
  BY <1>4, <1>2, <1>6, <1>8, <1>9, CalmStep

\* HandleRecvClusterReply preserves the invariant.
LEMMA HandleRecvClusterReplyKeeps ==
  ASSUME IInv, NEW n \in Nodes, NEW c \in Conns, HandleRecvClusterReply(n, c)
  PROVE  IInv'
<1>1. Typed
  BY TypedParts
<1>2. /\ Head(wire[c][n]).msg \in Messages
      /\ Consumed(n, c) \in [Conns -> [Nodes -> Seq(Packets)]] /\ Continues(conn')
  BY HeadMessage DEF HandleRecvClusterReply, Carrying
<1>3. PICK m \in Messages : m = Head(wire[c][n]).msg
  BY <1>2
<1>4. /\ Receives(n, c, "reply") /\ wire' = Consumed(n, c)
      /\ UNCHANGED <<todo, nodes, bound, queue, serving, got>>
      /\ replied' = [replied EXCEPT ![m] = @ + 1] \/ UNCHANGED replied
  BY <1>3 DEF HandleRecvClusterReply
<1>5. wire[c][n] # << >> /\ Head(wire[c][n]).kind = "reply"
  BY <1>4, ReceivesMade
<1>6. WireFrame /\ \A K, x : Shift(K, x, c, n)
  BY <1>1, <1>4, <1>5, ConsumedShifts
<1>7. replied \in [Messages -> Nat]
  BY <1>1 DEF Typed
<1>8. Typed'
  <2>1. replied' \in [Messages -> Nat]
    BY <1>4, <1>7
  <2> QED
    BY <1>1, <1>2, <1>4, <2>1 DEF Typed, Continues
<1>9. Messaging'
  <2>1. CASE replied' = [replied EXCEPT ![m] = @ + 1]
    <3>1. Sent(Replies, m, c, n, 1)
      BY <1>1, <1>3, <1>5, ConsumedAt DEF Typed, Sent, Replies
    <3>2. OneAnswer(m) /\ OnWire(Replies, m)
      BY <3>1, TypedParts DEF OnWire
    <3>3. /\ replied[m] = 0 /\ got[m] # 0 /\ WireOnce(Replies, m)
          /\ \A s \in serving : s.m # m
      BY <3>2 DEF OneAnswer
    <3>4. ~OnWire(Replies, m)'
      <4> SUFFICES ASSUME NEW d \in Conns, NEW k \in Nodes, NEW i \in Nat,
                          Sent(Replies, m, d, k, i)'
                   PROVE  FALSE
        BY DEF OnWire
      <4> DEFINE j == IF d = c /\ k = n THEN i + 1 ELSE i
      <4>1. Sent(Replies, m, d, k, j) /\ j \in Nat
        BY <1>6 DEF Shift
      <4>2. d = c /\ k = n /\ j = 1
        <5> HIDE DEF j
        <5> QED
          BY <3>1, <3>3, <4>1 DEF WireOnce
      <4>3. i = 0
        BY <4>2
      <4> QED
        BY <4>3 DEF Sent
    <3>5. OneAnswer(m)'
      <4>1. replied'[m] = 1
        BY <1>7, <2>1, <3>3
      <4>2. WireOnce(Replies, m)'
        BY <3>4 DEF WireOnce, OnWire
      <4> QED
        BY <1>4, <3>3, <3>4, <4>1, <4>2 DEF OneAnswer
    <3>6. ASSUME NEW x \in Messages, x # m
          PROVE  OneAnswer(x)'
      <4>1. replied'[x] = replied[x]
        BY <1>7, <2>1, <3>6
      <4> QED
        BY <1>4, <1>6, <4>1, AnswerKept, TypedParts
    <3>7. \A x \in Messages : OnePlace(x)'
      BY <1>4, <1>6, PlaceKept, TypedParts DEF Queued
    <3> QED
      BY <3>5, <3>6, <3>7 DEF Messaging
  <2>2. CASE UNCHANGED replied
    BY <1>4, <1>6, <2>2, QuietMessages
  <2> QED
    BY <1>4, <2>1, <2>2
<1> QED
  BY <1>2, <1>4, <1>6, <1>8, <1>9, CalmStep

\* The answer moves from serving to the wire.
LEMMA CallAnsweredKeeps ==
  ASSUME IInv, NEW s \in serving, CallAnswered(s)
  PROVE  IInv'
<1>1. Typed
  BY TypedParts
<1>2. s \in [n : Nodes, c : Conns, m : Messages]
  BY <1>1 DEF Typed
<1>3. PICK n \in Nodes, c \in Conns, m \in Messages : n = s.n /\ c = s.c /\ m = s.m
  BY <1>2
<1>4. PICK p : p = Packet("reply", m)
  OBVIOUS
<1>5. p \in Packets /\ p.kind = "reply" /\ p.msg = m
  BY <1>4, Ids DEF Packet
<1>6. /\ serving' = serving \ {s} /\ wire' = Carried(wire, c, n, <<p>>)
      /\ UNCHANGED <<todo, conn, nodes, bound, queue, got, replied>>
  BY <1>3, <1>4 DEF CallAnswered
<1>7. wire \in [Conns -> [Nodes -> Seq(Packets)]] /\ conn \in [Conns -> ConnType]
  BY <1>1 DEF Typed
<1>8. WireFrame /\ \A K, x : p.kind \notin K \/ p.msg # x => Shift(K, x, None, None)
  BY <1>1, <1>5, <1>6, CarriedShifts
<1>9. Continues(conn')
  BY <1>6, <1>7, UnchangedContinues
<1>10. wire' \in [Conns -> [Nodes -> Seq(Packets)]]
  BY <1>5, <1>6, <1>7, CarriedOne DEF OneMore
<1>11. Typed'
  BY <1>1, <1>6, <1>10 DEF Typed
<1>12. \A x \in Messages : OnePlace(x)'
  <2> TAKE x \in Messages
  <2>1. Shift(Forwards, x, None, None)
    BY <1>5, <1>8 DEF Forwards
  <2> QED
    BY <1>6, <2>1, PlaceKept, TypedParts DEF Queued
<1>13. ASSUME NEW x \in Messages, x # m
       PROVE  OneAnswer(x)'
  <2>1. Shift(Replies, x, None, None)
    BY <1>5, <1>8, <1>13
  <2> QED
    BY <1>6, <2>1, AnswerKept, TypedParts
<1>14. OneAnswer(m)'
  <2>1. OneAnswer(m)
    BY TypedParts
  <2>2. /\ ~OnWire(Replies, m) /\ replied[m] = 0 /\ got[m] # 0
        /\ \A r \in serving' : r.m # m
    BY <1>3, <1>6, <2>1 DEF OneAnswer
  <2> DEFINE ps == <<p>>
  <2>3. ps \in Seq(Packets) /\ Len(ps) = 1
    BY <1>5
  <2>4. CarriedTo(wire', wire, c, n, ps)
    <3> HIDE DEF ps
    <3>1. wire' = Carried(wire, c, n, ps)
      BY <1>6 DEF ps
    <3> QED
      BY <1>7, <2>3, <3>1, CarriedAt
  <2> HIDE DEF ps
  <2>5. ASSUME NEW d \in Conns, NEW k \in Nodes, NEW i \in Nat, Sent(Replies, m, d, k, i)'
        PROVE  d = c /\ k = Peer(c, n) /\ i = Len(wire[d][k]) + 1
    <3>1. i \in 1..Len(wire'[d][k]) /\ wire'[d][k][i].kind \in Replies /\ wire'[d][k][i].msg = m
      BY <2>5 DEF Sent
    <3>2. ~(i \in 1..Len(wire[d][k]) /\ wire'[d][k][i] = wire[d][k][i])
      BY <2>2, <3>1 DEF OnWire, Sent
    <3>3. d = c /\ k = Peer(c, n) /\ i - Len(wire[d][k]) \in 1..Len(ps)
      BY <2>4, <3>1, <3>2 DEF CarriedTo
    <3>4. Len(wire[d][k]) \in Nat
      BY <1>7
    <3> QED
      BY <2>3, <3>3, <3>4
  <2>6. WireOnce(Replies, m)'
    BY <2>5 DEF WireOnce
  <2> QED
    BY <1>6, <2>2, <2>6 DEF OneAnswer
<1>15. Messaging'
  BY <1>12, <1>13, <1>14 DEF Messaging
<1> QED
  BY <1>6, <1>8, <1>9, <1>11, <1>15, CalmStep

\* CallTimesOut preserves the invariant.
LEMMA CallTimesOutKeeps ==
  ASSUME IInv, NEW s \in serving, CallTimesOut(s)
  PROVE  IInv'
<1>1. Typed
  BY TypedParts
<1>2. serving' = serving \ {s} /\ UNCHANGED <<todo, conn, wire, nodes, bound, queue, got, replied>>
  BY DEF CallTimesOut
<1>3. Continues(conn')
  BY <1>1, <1>2, UnchangedContinues DEF Typed
<1>4. Typed'
  BY <1>1, <1>2 DEF Typed
<1>5. WireFrame /\ \A K, x : Shift(K, x, None, None)
  BY <1>2, SameWire
<1>6. \A x \in Messages : OnePlace(x)'
  BY <1>2, <1>5, PlaceKept, TypedParts DEF Queued
<1>7. \A x \in Messages : OneAnswer(x)'
  BY <1>2, <1>5, AnswerKept, TypedParts
<1> QED
  BY <1>2, <1>3, <1>4, <1>5, <1>6, <1>7, CalmStep DEF Messaging

\* ReadEnds preserves the invariant.
LEMMA ReadEndsKeeps ==
  ASSUME IInv, NEW n \in Nodes, NEW c \in Conns, ReadEnds(n, c)
  PROVE  IInv'
<1>1. Typed
  BY TypedParts
<1>2. /\ conn' = Closed({c}, n)
      /\ UNCHANGED <<todo, wire, nodes, bound, queue, serving, got, replied>>
  BY DEF ReadEnds
<1>3. Continues(conn')
  BY <1>1, <1>2, ClosedContinues DEF Typed
<1>4. Typed'
  BY <1>1, <1>2, <1>3 DEF Typed, Continues
<1>5. WireFrame /\ \A K, x : Shift(K, x, None, None)
  BY <1>2, SameWire
<1>6. Messaging'
  BY <1>2, <1>5, QuietMessages
<1> QED
  BY <1>2, <1>3, <1>4, <1>5, <1>6, CalmStep

\* Misread preserves the invariant.
LEMMA MisreadKeeps ==
  ASSUME IInv, NEW n \in Nodes, NEW c \in Conns, Misread(n, c)
  PROVE  IInv'
<1>1. Typed
  BY TypedParts
<1>2. UNCHANGED <<todo, wire, nodes, bound, queue, serving, got, replied>>
  BY DEF Misread
<1>3. Continues(conn')
  <2>1. Continues(conn)
    BY <1>1, UnchangedContinues DEF Typed
  <2>2. Continues(Closed({c}, n))
    BY <1>1, ClosedContinues DEF Typed
  <2>3. CASE conn' = conn \/ conn' = Closed({c}, n)
    BY <2>1, <2>2, <2>3
  <2>4. CASE /\ Receives(n, c, "misaligned")
             /\ conn' \in {Greeted(conn, c, n), Greeted(Closed({c}, n), c, n)}
    <3>1. conn[c] # NoConn
      BY <2>4, ReceivesMade
    <3> QED
      BY <2>1, <2>2, <2>4, <3>1, GreetedContinues
  <2> QED
    BY <2>3, <2>4 DEF Misread
<1>4. Typed'
  BY <1>1, <1>2, <1>3 DEF Typed, Continues
<1>5. WireFrame /\ \A K, x : Shift(K, x, None, None)
  BY <1>2, SameWire
<1>6. Messaging'
  BY <1>2, <1>5, QuietMessages
<1> QED
  BY <1>2, <1>3, <1>4, <1>5, <1>6, CalmStep

\* PacketsLost preserves the invariant.
LEMMA PacketsLostKeeps ==
  ASSUME IInv, NEW n \in Nodes, NEW c \in Conns, PacketsLost(n, c)
  PROVE  IInv'
<1>1. Typed
  BY TypedParts
<1>2. /\ wire' = [wire EXCEPT ![c][n] = << >>]
      /\ UNCHANGED <<todo, conn, nodes, bound, queue, serving, got, replied>>
  BY DEF PacketsLost
<1>3. wire \in [Conns -> [Nodes -> Seq(Packets)]] /\ conn \in [Conns -> ConnType]
  BY <1>1 DEF Typed
<1>4. << >> \in Seq(Packets)
  OBVIOUS
<1>5. /\ wire' \in [Conns -> [Nodes -> Seq(Packets)]]
      /\ \A d \in Conns, k \in Nodes : wire'[d][k] \in {wire[d][k], << >>}
  BY <1>2, <1>3, <1>4
<1>6. Typed'
  BY <1>1, <1>2, <1>5 DEF Typed
<1>7. Continues(conn')
  BY <1>2, <1>3, UnchangedContinues
<1>8. WireFrame
  BY <1>5 DEF WireFrame
<1>9. ASSUME NEW K, NEW x
      PROVE  Shift(K, x, None, None)
  <2>1. ASSUME NEW d \in Conns, NEW k \in Nodes, NEW i \in Nat, Sent(K, x, d, k, i)'
        PROVE  Sent(K, x, d, k, i)
    <3>1. i \in 1..Len(wire'[d][k])
      BY <2>1 DEF Sent
    <3>2. wire'[d][k] # << >>
      BY <3>1
    <3>3. wire'[d][k] = wire[d][k]
      BY <1>5, <3>2
    <3> QED
      BY <2>1, <3>3 DEF Sent
  <2> QED
    BY <2>1, Ids DEF Shift
<1>10. Messaging'
  BY <1>2, <1>9, QuietMessages
<1> QED
  BY <1>2, <1>6, <1>7, <1>8, <1>10, CalmStep

\* HandleDisconnection preserves the invariant.
LEMMA HandleDisconnectionKeeps ==
  ASSUME IInv, NEW n \in Nodes, NEW c \in Conns, HandleDisconnection(n, c)
  PROVE  IInv'
<1>1. Typed /\ Connections /\ Sessions /\ Queues /\ ConnectingNameIsFree /\ NoStaleBinding
  BY DEF IInv
<1>2. conn[c] # NoConn
  BY Ids DEF HandleDisconnection, Mine, NoConn
<1>3. PICK G : G = Greeted(conn, c, n)
  OBVIOUS
<1>4. Continues(G)
  <2>1. Continues(conn)
    BY <1>1, UnchangedContinues DEF Typed
  <2> QED
    BY <1>2, <1>3, <2>1, GreetedContinues
<1>5. /\ conn' = [G EXCEPT ![c].gone = @ \cup {n}]
      /\ n \notin conn[c].open /\ wire[c][n] = << >>
      /\ DeleteNodeSession(n, c)
      /\ UNCHANGED <<todo, wire, queue, serving, got, replied>>
  BY <1>3 DEF HandleDisconnection, Connected
<1>6. G \in [Conns -> ConnType]
  BY <1>4 DEF Continues
<1>7. \A d \in Conns : d # c => conn'[d] = G[d]
  BY <1>5, <1>6
<1>8. /\ conn'[c] \in ConnType
      /\ conn'[c].from = G[c].from /\ conn'[c].to = G[c].to /\ conn'[c].open = G[c].open
      /\ conn'[c].known = G[c].known /\ conn'[c].gone = G[c].gone \cup {n}
  BY <1>5, <1>6 DEF ConnType
<1>9. conn' \in [Conns -> ConnType]
  BY <1>5, <1>6, <1>8
<1>10. ASSUME NEW d \in Conns
       PROVE  /\ conn'[d].from = conn[d].from /\ conn'[d].to = conn[d].to
              /\ conn'[d].open \subseteq conn[d].open
              /\ conn[d].known \subseteq conn'[d].known
              /\ conn'[d].gone = IF d = c THEN conn[d].gone \cup {n} ELSE conn[d].gone
              /\ conn[d] = NoConn => conn'[d] = NoConn
              /\ conn[d] # NoConn => conn'[d] # NoConn
  <2>1. /\ conn'[d].from = conn[d].from /\ conn'[d].to = conn[d].to
        /\ conn'[d].open \subseteq conn[d].open
        /\ conn[d].known \subseteq conn'[d].known
        /\ conn'[d].gone = IF d = c THEN conn[d].gone \cup {n} ELSE conn[d].gone
    <3>1. /\ G[d].from = conn[d].from /\ G[d].to = conn[d].to
          /\ G[d].open \subseteq conn[d].open /\ conn[d].known \subseteq G[d].known
          /\ G[d].gone = conn[d].gone
      BY <1>4 DEF Continues
    <3>2. CASE d = c
      BY <1>8, <3>1, <3>2
    <3>3. CASE d # c
      BY <1>7, <3>1, <3>3
    <3> QED
      BY <3>2, <3>3
  <2>2. conn[d] = NoConn => conn'[d] = NoConn
    BY <1>2, <1>4, <1>7 DEF Continues
  <2>3. conn[d] # NoConn => conn'[d] # NoConn
    <3>1. NoConn.from = None /\ (conn[d] # NoConn => conn[d].from # None)
      BY <1>1, MadeIs DEF NoConn
    <3> QED
      BY <2>1, <3>1
  <2> QED
    BY <2>1, <2>2, <2>3
<1>11. /\ nodes' \in [Nodes -> [Nodes -> Conns \cup {None}]]
       /\ bound' \in [Nodes -> [Names -> Conns \cup {None}]]
       /\ \A k, t \in Nodes : nodes'[k][t] \in {nodes[k][t], None}
       /\ n \in conn[c].known => nodes'[n][Peer(c, n)] = None
       /\ \A k \in Nodes, name \in Names : bound'[k][name] \in {bound[k][name], None}
       /\ \A name \in Names : bound'[n][name] # c
  BY <1>1, <1>2, <1>5, DeleteEffect
<1>12. Typed'
  BY <1>1, <1>5, <1>9, <1>11 DEF Typed
<1>13. Connections'
  <2> SUFFICES ASSUME NEW d \in Conns
               PROVE  /\ conn'[d] = NoConn \/ (conn'[d].from \in Nodes /\ conn'[d].to \in Nodes)
                      /\ \A k \in Nodes : conn'[d] = NoConn \/ k \in conn'[d].gone =>
                           wire[d][k] = << >> /\ k \notin conn'[d].open
    BY <1>5 DEF Connections
  <2>1. conn'[d] = NoConn \/ (conn'[d].from \in Nodes /\ conn'[d].to \in Nodes)
    BY <1>1, <1>10 DEF Connections
  <2>2. ASSUME NEW k \in Nodes, conn'[d] = NoConn \/ k \in conn'[d].gone
        PROVE  wire[d][k] = << >> /\ k \notin conn'[d].open
    <3>1. conn[d] = NoConn \/ k \in conn[d].gone \/ (d = c /\ k = n)
      BY <1>10, <2>2
    <3>2. wire[d][k] = << >> /\ k \notin conn[d].open
      BY <1>1, <1>5, <3>1 DEF Connections
    <3> QED
      BY <1>10, <3>2
  <2> QED
    BY <2>1, <2>2
<1>14. Sessions'
  <2> SUFFICES ASSUME NEW k \in Nodes, NEW t \in Nodes, nodes'[k][t] # None
               PROVE  /\ k \in conn'[nodes'[k][t]].known
                      /\ Peer(nodes[k][t], k)' = t
                      /\ k \notin conn'[nodes'[k][t]].gone
    BY DEF Sessions
  <2>1. nodes'[k][t] = nodes[k][t]
    BY <1>11
  <2>2. PICK d \in Conns : d = nodes[k][t]
    BY <1>1, <2>1 DEF Typed
  <2>3. k \in conn[d].known /\ Peer(d, k) = t /\ k \notin conn[d].gone
    BY <1>1, <2>1, <2>2 DEF Sessions
  <2>4. ~(d = c /\ k = n)
    BY <1>11, <2>1, <2>2, <2>3
  <2>5. Peer(d, k)' = t
    BY <1>10, <2>3 DEF Peer
  <2>6. k \notin conn'[d].gone /\ k \in conn'[d].known
    BY <1>10, <2>3, <2>4
  <2>7. Peer(nodes[k][t], k)' = Peer(d, k)'
    BY <2>1, <2>2 DEF Peer
  <2> QED
    BY <2>1, <2>2, <2>5, <2>6, <2>7
<1>15. Queues'
  <2>1. \A k, e \in Nodes : queue[k][e].to \in Conns \cup {None}
    BY <1>1 DEF Typed, QueueType
  <2>2. \A d \in Conns : conn[d] # NoConn => conn'[d] # NoConn
    BY <1>10
  <2> QED
    BY <1>1, <1>5, <2>1, <2>2 DEF Queues
<1>16. ConnectingNameIsFree'
  <2> SUFFICES ASSUME NEW k \in Nodes, NEW e \in Nodes, queue[k][e].pc \in {"connect", "bind"}
               PROVE  bound'[k][queue[k][e].name] = None
    BY <1>5 DEF ConnectingNameIsFree
  <2>1. queue[k][e].name \in Names
    BY <1>1 DEF Queues
  <2>2. bound[k][queue[k][e].name] = None
    BY <1>1 DEF ConnectingNameIsFree
  <2> QED
    BY <1>11, <2>1, <2>2
<1>17. NoStaleBinding'
  <2> SUFFICES ASSUME NEW k \in Nodes, NEW name \in Names, NEW d \in Conns,
                      bound'[k][name] = d, k \in conn'[d].gone
               PROVE  \E e \in Nodes : queue'[k][e].to = d /\ queue'[k][e].name = name
    BY DEF NoStaleBinding
  <2>1. bound[k][name] = d /\ ~(d = c /\ k = n)
    BY <1>11, Ids
  <2>2. k \in conn[d].gone
    BY <1>10, <2>1
  <2> QED
    BY <1>1, <1>5, <2>1, <2>2 DEF NoStaleBinding
<1>18. Messaging'
  <2>1. \A K, x : Shift(K, x, None, None)
    BY <1>5, SameWire
  <2> QED
    BY <1>5, <2>1, QuietMessages
<1> QED
  BY <1>12, <1>13, <1>14, <1>15, <1>16, <1>17, <1>18 DEF IInv

(***************************************************************************)
(* The coroutine that opens a connection.                                  *)
(***************************************************************************)
\* The queues keep their messages, or are emptied.
LEMMA QueueMessages ==
  ASSUME IInv, todo' = todo, serving' = serving, got' = got, replied' = replied,
         \A n, e \in Nodes : queue'[n][e].msgs \in {queue[n][e].msgs, << >>},
         \A K, m : K \in {Forwards, Replies} => Shift(K, m, None, None)
  PROVE  Messaging'
<1> SUFFICES ASSUME NEW m \in Messages
             PROVE  OnePlace(m)' /\ OneAnswer(m)'
  BY DEF Messaging
<1>1. OnePlace(m) /\ OneAnswer(m)
  BY TypedParts
<1>2. Shift(Forwards, m, None, None) /\ Shift(Replies, m, None, None)
  OBVIOUS
<1>3. ASSUME NEW n \in Nodes, NEW e \in Nodes, NEW i \in Nat, Queued(m, n, e, i)'
      PROVE  Queued(m, n, e, i)
  <2>1. i \in 1..Len(queue'[n][e].msgs) /\ queue'[n][e].msgs[i] = m
    BY <1>3 DEF Queued
  <2>2. queue'[n][e].msgs # << >>
    BY <2>1
  <2> QED
    BY <2>1, <2>2 DEF Queued
<1>4. OnePlace(m)'
  BY <1>1, <1>2, <1>3, PlaceKept
<1>5. OneAnswer(m)'
  BY <1>1, <1>2, AnswerKept
<1> QED
  BY <1>4, <1>5

\* ConnectFails preserves the invariant.
LEMMA ConnectFailsKeeps ==
  ASSUME IInv, NEW n \in Nodes, NEW e \in Nodes, ConnectFails(n, e)
  PROVE  IInv'
<1>1. Typed /\ Connections /\ Sessions /\ Queues /\ ConnectingNameIsFree /\ NoStaleBinding
  BY DEF IInv
<1>2. /\ queue[n][e].pc = "connect" /\ queue' = [queue EXCEPT ![n][e] = NoQueue]
      /\ UNCHANGED <<todo, conn, wire, nodes, bound, serving, got, replied>>
  BY DEF ConnectFails
<1>3. queue \in [Nodes -> [Nodes -> QueueType]] /\ queue[n][e].to = None
  BY <1>1, <1>2 DEF Typed, Queues
<1>4. /\ queue' \in [Nodes -> [Nodes -> QueueType]] /\ queue'[n][e] = NoQueue
      /\ \A k, f \in Nodes : k # n \/ f # e => queue'[k][f] = queue[k][f]
  BY <1>2, <1>3, Ids
<1>5. Continues(conn') /\ WireFrame /\ \A K, x : Shift(K, x, None, None)
  BY <1>1, <1>2, UnchangedContinues, SameWire DEF Typed
<1>6. Typed'
  BY <1>1, <1>2, <1>4 DEF Typed
<1>7. Connections'
  BY <1>5, ConnectionsKept
<1>8. Sessions'
  BY <1>2, <1>5, SessionsKept
<1>9. NoQueue.pc = "none" /\ NoQueue.msgs = << >> /\ NoQueue.to = None
  BY DEF NoQueue
<1>10. Queues'
  <2> SUFFICES ASSUME NEW k \in Nodes, NEW f \in Nodes
               PROVE  /\ queue'[k][f].pc = "none" => queue'[k][f] = NoQueue
                      /\ queue'[k][f].pc = "connect" => queue'[k][f].to = None
                      /\ queue'[k][f].pc \in {"bind", "handshake", "wait"} =>
                           queue'[k][f].to # None /\ conn'[queue'[k][f].to] # NoConn
                      /\ queue'[k][f].pc # "none" =>
                           /\ queue'[k][f].name \in Names
                           /\ FindServiceEndpoint(queue'[k][f].name) = f
                      /\ \A i \in 1..Len(queue'[k][f].msgs) :
                           FindServiceEndpoint(NameOf[queue'[k][f].msgs[i]]) = f
    BY DEF Queues
  <2>1. CASE k = n /\ f = e
    BY <1>4, <1>9, <2>1
  <2>2. CASE k # n \/ f # e
    BY <1>1, <1>2, <1>4, <2>2 DEF Queues
  <2> QED
    BY <2>1, <2>2
<1>11. ConnectingNameIsFree'
  BY <1>1, <1>2, <1>4, <1>9 DEF ConnectingNameIsFree
<1>12. NoStaleBinding'
  <2> SUFFICES ASSUME NEW k \in Nodes, NEW name \in Names, NEW d \in Conns,
                      bound[k][name] = d, k \in conn[d].gone
               PROVE  \E f \in Nodes : queue'[k][f].to = d /\ queue'[k][f].name = name
    BY <1>2 DEF NoStaleBinding
  <2>1. PICK f \in Nodes : queue[k][f].to = d /\ queue[k][f].name = name
    BY <1>1 DEF NoStaleBinding
  <2>2. k # n \/ f # e
    BY <1>3, <2>1, Ids
  <2> QED
    BY <1>4, <2>1, <2>2
<1>13. Messaging'
  BY <1>2, <1>4, <1>5, <1>9, QueueMessages
<1> QED
  BY <1>6, <1>7, <1>8, <1>10, <1>11, <1>12, <1>13 DEF IInv

\* ConnectTo preserves the invariant.
LEMMA ConnectToKeeps ==
  ASSUME IInv, NEW n \in Nodes, NEW e \in Nodes, ConnectTo(n, e)
  PROVE  IInv'
<1>1. Typed /\ Connections /\ Sessions /\ Queues /\ ConnectingNameIsFree /\ NoStaleBinding
  BY DEF IInv
<1>2. PICK c \in Conns :
        /\ conn[c] = NoConn /\ conn' = [conn EXCEPT ![c] = NewConn(n, e)]
        /\ queue' = [queue EXCEPT ![n][e].pc = "bind", ![n][e].to = c]
  <2> DEFINE free == {d \in Conns : conn[d] = NoConn}
             c == CHOOSE d \in free : \A x \in free : d <= x
  <2>1. free # {} /\ conn' = [conn EXCEPT ![c] = NewConn(n, e)]
        /\ queue' = [queue EXCEPT ![n][e].pc = "bind", ![n][e].to = c]
    BY DEF ConnectTo
  <2>2. free \subseteq Nat
    BY Ids
  <2>3. c \in free
    <3> HIDE DEF free
    <3>1. \E d \in free : \A x \in free : d <= x
      BY <2>1, <2>2, Least
    <3> QED
      BY <3>1
  <2> QED
    BY <2>1, <2>3
<1>3. /\ queue[n][e].pc = "connect"
      /\ UNCHANGED <<todo, wire, nodes, bound, serving, got, replied>>
  BY DEF ConnectTo
<1>4. /\ queue \in [Nodes -> [Nodes -> QueueType]] /\ queue[n][e].to = None
      /\ conn \in [Conns -> ConnType]
  BY <1>1, <1>3 DEF Typed, Queues
<1>5. PICK q \in QueueType : q = queue[n][e]
  BY <1>4
<1>6. PICK r : r = [q EXCEPT !.pc = "bind", !.to = c]
  OBVIOUS
<1>7. /\ r \in QueueType /\ r.pc = "bind" /\ r.to = c /\ r.name = q.name /\ r.msgs = q.msgs
  BY <1>6 DEF QueueType
<1>8. queue' = [queue EXCEPT ![n][e] = r]
  BY <1>2, <1>4, <1>5, <1>6
<1>9. /\ queue' \in [Nodes -> [Nodes -> QueueType]] /\ queue'[n][e] = r
      /\ \A k, f \in Nodes : k # n \/ f # e => queue'[k][f] = queue[k][f]
  BY <1>4, <1>7, <1>8
<1>10. /\ conn' \in [Conns -> ConnType] /\ conn'[c] = NewConn(n, e)
       /\ \A d \in Conns : d # c => conn'[d] = conn[d]
  BY <1>2, <1>4, Ids
<1>11. /\ NewConn(n, e) # NoConn /\ NewConn(n, e).from = n /\ NewConn(n, e).to = e
       /\ NewConn(n, e).gone = {} /\ NoConn.known = {}
  BY Ids DEF NewConn, NoConn
<1>12. Typed'
  BY <1>1, <1>3, <1>9, <1>10 DEF Typed
<1>13. Connections'
  BY <1>1, <1>3, <1>10, <1>11 DEF Connections
<1>14. Sessions'
  <2> SUFFICES ASSUME NEW k \in Nodes, NEW t \in Nodes, nodes[k][t] # None
               PROVE  /\ k \in conn'[nodes[k][t]].known
                      /\ Peer(nodes[k][t], k)' = t
                      /\ k \notin conn'[nodes[k][t]].gone
    BY <1>3 DEF Sessions
  <2>1. PICK d \in Conns : d = nodes[k][t]
    BY <1>1 DEF Typed
  <2>2. k \in conn[d].known /\ Peer(d, k) = t /\ k \notin conn[d].gone
    BY <1>1, <2>1 DEF Sessions
  <2>3. d # c
    BY <1>2, <1>11, <2>2
  <2>4. Peer(nodes[k][t], k)' = t
    BY <1>3, <1>10, <2>1, <2>2, <2>3 DEF Peer
  <2> QED
    BY <1>10, <2>1, <2>2, <2>3, <2>4
<1>15. Queues'
  <2> SUFFICES ASSUME NEW k \in Nodes, NEW f \in Nodes
               PROVE  /\ queue'[k][f].pc = "none" => queue'[k][f] = NoQueue
                      /\ queue'[k][f].pc = "connect" => queue'[k][f].to = None
                      /\ queue'[k][f].pc \in {"bind", "handshake", "wait"} =>
                           queue'[k][f].to # None /\ conn'[queue'[k][f].to] # NoConn
                      /\ queue'[k][f].pc # "none" =>
                           /\ queue'[k][f].name \in Names
                           /\ FindServiceEndpoint(queue'[k][f].name) = f
                      /\ \A i \in 1..Len(queue'[k][f].msgs) :
                           FindServiceEndpoint(NameOf[queue'[k][f].msgs[i]]) = f
    BY DEF Queues
  <2>1. CASE k = n /\ f = e
    <3>1. queue'[k][f] = r
      BY <1>9, <2>1
    <3>2. r.to # None /\ conn'[r.to] # NoConn
      BY <1>7, <1>10, <1>11, Ids
    <3>3. q.name \in Names /\ FindServiceEndpoint(q.name) = e
      BY <1>1, <1>3, <1>5 DEF Queues
    <3>4. \A i \in 1..Len(q.msgs) : FindServiceEndpoint(NameOf[q.msgs[i]]) = e
      BY <1>1, <1>5 DEF Queues
    <3> QED
      BY <1>7, <2>1, <3>1, <3>2, <3>3, <3>4
  <2>2. CASE k # n \/ f # e
    <3>1. queue'[k][f] = queue[k][f] /\ queue[k][f].to \in Conns \cup {None}
      BY <1>4, <1>9, <2>2 DEF QueueType
    <3>2. \A d \in Conns : conn[d] # NoConn => conn'[d] # NoConn
      BY <1>2, <1>10
    <3> QED
      BY <1>1, <3>1, <3>2 DEF Queues
  <2> QED
    BY <2>1, <2>2
<1>16. ConnectingNameIsFree'
  BY <1>1, <1>3, <1>5, <1>7, <1>9 DEF ConnectingNameIsFree
<1>17. NoStaleBinding'
  <2> SUFFICES ASSUME NEW k \in Nodes, NEW name \in Names, NEW d \in Conns,
                      bound[k][name] = d, k \in conn'[d].gone
               PROVE  \E f \in Nodes : queue'[k][f].to = d /\ queue'[k][f].name = name
    BY <1>3 DEF NoStaleBinding
  <2>1. d # c /\ k \in conn[d].gone
    BY <1>10, <1>11
  <2>2. PICK f \in Nodes : queue[k][f].to = d /\ queue[k][f].name = name
    BY <1>1, <2>1 DEF NoStaleBinding
  <2>3. k # n \/ f # e
    BY <1>4, <2>2, Ids
  <2> QED
    BY <1>9, <2>2, <2>3
<1>18. Messaging'
  <2>1. \A K, x : Shift(K, x, None, None)
    BY <1>3, SameWire
  <2>2. \A k, f \in Nodes : queue'[k][f].msgs = queue[k][f].msgs
    BY <1>5, <1>7, <1>9
  <2> QED
    BY <1>3, <2>1, <2>2, QueueMessages
<1> QED
  BY <1>12, <1>13, <1>14, <1>15, <1>16, <1>17, <1>18 DEF IInv

\* What an assignment to one queue leaves of the others.
LEMMA QueueSet ==
  ASSUME queue \in [Nodes -> [Nodes -> QueueType]], NEW n \in Nodes, NEW e \in Nodes,
         NEW r \in QueueType, NEW Q, Q = [queue EXCEPT ![n][e] = r]
  PROVE  /\ Q \in [Nodes -> [Nodes -> QueueType]] /\ Q[n][e] = r
         /\ \A k, f \in Nodes : k # n \/ f # e => Q[k][f] = queue[k][f]
OBVIOUS

\* The coroutine goes on with the connection of its queue.
LEMMA QueueMoves ==
  ASSUME IInv, NEW n \in Nodes, NEW e \in Nodes, NEW pc \in {"handshake", "wait"},
         queue[n][e].pc \in {"bind", "handshake"}, conn' = conn,
         queue' = [queue EXCEPT ![n][e].pc = pc]
  PROVE  /\ queue' \in [Nodes -> [Nodes -> QueueType]] /\ Queues'
         /\ \A k, f \in Nodes : queue'[k][f].msgs = queue[k][f].msgs
                                /\ queue'[k][f].to = queue[k][f].to
                                /\ queue'[k][f].name = queue[k][f].name
         /\ queue'[n][e].pc = pc
         /\ \A k, f \in Nodes : k # n \/ f # e => queue'[k][f] = queue[k][f]
<1>1. Typed /\ Queues /\ queue \in [Nodes -> [Nodes -> QueueType]]
  BY DEF IInv, Typed
<1>2. PICK q \in QueueType : q = queue[n][e]
  BY <1>1
<1>3. PICK r : r = [q EXCEPT !.pc = pc]
  OBVIOUS
<1>4. r \in QueueType /\ r.pc = pc /\ r.to = q.to /\ r.name = q.name /\ r.msgs = q.msgs
  BY <1>3 DEF QueueType
<1>5. queue' = [queue EXCEPT ![n][e] = r]
  BY <1>1, <1>2, <1>3
<1>6. /\ queue' \in [Nodes -> [Nodes -> QueueType]] /\ queue'[n][e] = r
      /\ \A k, f \in Nodes : k # n \/ f # e => queue'[k][f] = queue[k][f]
  <2>1. PICK Q : Q = queue'
    OBVIOUS
  <2>2. Q = [queue EXCEPT ![n][e] = r]
    BY <1>5, <2>1
  <2>3. /\ Q \in [Nodes -> [Nodes -> QueueType]] /\ Q[n][e] = r
        /\ \A k, f \in Nodes : k # n \/ f # e => Q[k][f] = queue[k][f]
    BY <1>1, <1>4, <2>2, QueueSet
  <2> QED
    BY <2>1, <2>3
<1>7. ASSUME NEW k \in Nodes, NEW f \in Nodes
      PROVE  /\ queue'[k][f].pc = "none" => queue'[k][f] = NoQueue
             /\ queue'[k][f].pc = "connect" => queue'[k][f].to = None
             /\ queue'[k][f].pc \in {"bind", "handshake", "wait"} =>
                  queue'[k][f].to # None /\ conn'[queue'[k][f].to] # NoConn
             /\ queue'[k][f].pc # "none" =>
                  /\ queue'[k][f].name \in Names
                  /\ FindServiceEndpoint(queue'[k][f].name) = f
             /\ \A i \in 1..Len(queue'[k][f].msgs) :
                  FindServiceEndpoint(NameOf[queue'[k][f].msgs[i]]) = f
  <2>1. CASE k = n /\ f = e
    <3>1. queue'[k][f] = r
      BY <1>6, <2>1
    <3>2. /\ q.to # None /\ conn[q.to] # NoConn
          /\ q.name \in Names /\ FindServiceEndpoint(q.name) = e
          /\ \A i \in 1..Len(q.msgs) : FindServiceEndpoint(NameOf[q.msgs[i]]) = e
      BY <1>1, <1>2 DEF Queues
    <3> QED
      BY <1>4, <2>1, <3>1, <3>2
  <2>2. CASE k # n \/ f # e
    BY <1>1, <1>6, <2>2 DEF Queues
  <2> QED
    BY <2>1, <2>2
<1>8. Queues'
  BY <1>7 DEF Queues
<1> QED
  BY <1>2, <1>4, <1>6, <1>8

\* BindName preserves the invariant.
LEMMA BindNameKeeps ==
  ASSUME IInv, NEW n \in Nodes, NEW e \in Nodes, BindName(n, e)
  PROVE  IInv'
<1>1. Typed /\ Connections /\ Sessions /\ Queues /\ ConnectingNameIsFree /\ NoStaleBinding
  BY DEF IInv
<1>2. /\ queue[n][e].pc = "bind" /\ queue' = [queue EXCEPT ![n][e].pc = "handshake"]
      /\ UNCHANGED <<todo, conn, wire, nodes, serving, got, replied>>
  BY DEF BindName
<1>3. PICK name, c : name = queue[n][e].name /\ c = queue[n][e].to
  OBVIOUS
<1>4. /\ name \in Names /\ FindServiceEndpoint(name) = e /\ c \in Conns
      /\ bound[n][name] = None
  BY <1>1, <1>2, <1>3 DEF Queues, ConnectingNameIsFree, Typed, QueueType
<1>5. bound' = [bound EXCEPT ![n][name] = c]
  BY <1>3, <1>4 DEF BindName
<1>6. bound \in [Nodes -> [Names -> Conns \cup {None}]]
  BY <1>1 DEF Typed
<1>7. /\ bound' \in [Nodes -> [Names -> Conns \cup {None}]] /\ bound'[n][name] = c
      /\ \A k \in Nodes, x \in Names : k # n \/ x # name => bound'[k][x] = bound[k][x]
  BY <1>4, <1>5, <1>6
<1>8. /\ queue' \in [Nodes -> [Nodes -> QueueType]] /\ Queues'
      /\ \A k, f \in Nodes : queue'[k][f].msgs = queue[k][f].msgs
                             /\ queue'[k][f].to = queue[k][f].to
                             /\ queue'[k][f].name = queue[k][f].name
      /\ queue'[n][e].pc = "handshake"
      /\ \A k, f \in Nodes : k # n \/ f # e => queue'[k][f] = queue[k][f]
  BY <1>2, QueueMoves
<1>9. Continues(conn') /\ WireFrame /\ \A K, x : Shift(K, x, None, None)
  BY <1>1, <1>2, UnchangedContinues, SameWire DEF Typed
<1>10. Typed'
  BY <1>1, <1>2, <1>7, <1>8 DEF Typed
<1>11. Connections' /\ Sessions'
  BY <1>2, <1>9, ConnectionsKept, SessionsKept
<1>12. ConnectingNameIsFree'
  <2> SUFFICES ASSUME NEW k \in Nodes, NEW f \in Nodes, queue'[k][f].pc \in {"connect", "bind"}
               PROVE  bound'[k][queue'[k][f].name] = None
    BY DEF ConnectingNameIsFree
  <2>1. k # n \/ f # e
    BY <1>8
  <2>2. queue'[k][f] = queue[k][f]
    BY <1>8, <2>1
  <2>3. /\ queue[k][f].name \in Names /\ FindServiceEndpoint(queue[k][f].name) = f
        /\ bound[k][queue[k][f].name] = None
    BY <1>1, <2>2 DEF Queues, ConnectingNameIsFree
  <2>4. k # n \/ queue[k][f].name # name
    BY <1>4, <2>1, <2>3
  <2> QED
    BY <1>7, <2>2, <2>3, <2>4
<1>13. NoStaleBinding'
  <2> SUFFICES ASSUME NEW k \in Nodes, NEW x \in Names, NEW d \in Conns,
                      bound'[k][x] = d, k \in conn[d].gone
               PROVE  \E f \in Nodes : queue'[k][f].to = d /\ queue'[k][f].name = x
    BY <1>2 DEF NoStaleBinding
  <2>1. CASE k = n /\ x = name
    BY <1>3, <1>7, <1>8, <2>1
  <2>2. CASE k # n \/ x # name
    <3>1. bound[k][x] = d
      BY <1>7, <2>2
    <3>2. PICK f \in Nodes : queue[k][f].to = d /\ queue[k][f].name = x
      BY <1>1, <3>1 DEF NoStaleBinding
    <3> QED
      BY <1>8, <3>2
  <2> QED
    BY <2>1, <2>2
<1>14. Messaging'
  <2>1. \A k, f \in Nodes : queue'[k][f].msgs \in {queue[k][f].msgs, << >>}
    BY <1>8
  <2>2. \A K, x : K \in {Forwards, Replies} => Shift(K, x, None, None)
    BY <1>9
  <2>3. todo' = todo /\ serving' = serving /\ got' = got /\ replied' = replied
    BY <1>2
  <2> QED
    BY <2>1, <2>2, <2>3, QueueMessages
<1> QED
  BY <1>8, <1>10, <1>11, <1>12, <1>13, <1>14 DEF IInv

\* SendHandshake preserves the invariant.
LEMMA SendHandshakeKeeps ==
  ASSUME IInv, NEW n \in Nodes, NEW e \in Nodes, SendHandshake(n, e)
  PROVE  IInv'
<1>1. Typed /\ Connections /\ Sessions /\ Queues /\ ConnectingNameIsFree /\ NoStaleBinding
  BY DEF IInv
<1>2. /\ queue[n][e].pc = "handshake" /\ queue' = [queue EXCEPT ![n][e].pc = "wait"]
      /\ UNCHANGED <<todo, conn, nodes, bound, serving, got, replied>>
  BY DEF SendHandshake
<1>3. PICK c \in Conns : c = queue[n][e].to
  BY <1>1, <1>2 DEF Queues, Typed, QueueType
<1>4. wire \in [Conns -> [Nodes -> Seq(Packets)]] /\ conn \in [Conns -> ConnType]
  BY <1>1 DEF Typed
<1>5. /\ wire' \in [Conns -> [Nodes -> Seq(Packets)]] /\ WireFrame
      /\ \A K, x : K \in {Forwards, Replies} => Shift(K, x, None, None)
  <2>1. CASE wire' = Carried(wire, c, n, <<Request>>)
    <3>1. Request \in Packets /\ Request.kind = "request"
      BY Ids DEF Request, Packet
    <3>2. OneMore(wire', wire, c, Request)
      BY <1>4, <2>1, <3>1, CarriedOne
    <3>3. WireFrame /\ \A K, x : Request.kind \notin K => Shift(K, x, None, None)
      BY <1>1, <2>1, <3>1, CarriedShifts
    <3> QED
      BY <3>1, <3>2, <3>3 DEF OneMore, Forwards, Replies
  <2>2. ASSUME wire[c][e] # << >>, e \in conn[c].open,
               NEW mix \in {<<Garbled>>, <<Shifted, Misaligned>>},
               wire' = [wire EXCEPT ![c][e] = Front(wire[c][e]) \o mix]
        PROVE  /\ wire' \in [Conns -> [Nodes -> Seq(Packets)]] /\ WireFrame
               /\ \A K, x : K \in {Forwards, Replies} => Shift(K, x, None, None)
    <3>1. PICK s \in Seq(Packets) : s = wire[c][e]
      BY <1>4
    <3>2. PICK r : r = Front(s) \o mix
      OBVIOUS
    <3>3. /\ mix \in Seq(Packets)
          /\ \A i \in 1..Len(mix) : mix[i].kind \notin Forwards \cup Replies
      <4>1. {Garbled, Shifted, Misaligned} \subseteq Packets
        BY Ids
      <4>2. /\ Garbled.kind = "garbled" /\ Shifted.kind = "shifted"
            /\ Misaligned.kind = "misaligned"
        BY DEF Garbled, Shifted, Misaligned, Packet
      <4>3. CASE mix = <<Garbled>>
        BY <4>1, <4>2, <4>3 DEF Forwards, Replies
      <4>4. CASE mix = <<Shifted, Misaligned>>
        BY <4>1, <4>2, <4>4 DEF Forwards, Replies
      <4> QED
        BY <4>3, <4>4
    <3>4. Len(s) \in Nat /\ Len(s) # 0
      BY <2>2, <3>1
    <3>5. Front(s) = SubSeq(s, 1, Len(s) - 1)
      BY DEF Front
    <3>6. /\ Front(s) \in Seq(Packets) /\ Len(Front(s)) = Len(s) - 1
          /\ \A i \in 1..Len(s) - 1 : Front(s)[i] = s[i]
      <4>1. Len(s) - 1 \in Nat /\ Len(s) - 1 <= Len(s)
        BY <3>4
      <4>2. PICK l \in Nat : l = Len(s) - 1 /\ l <= Len(s)
        BY <4>1
      <4>3. SubSeq(s, 1, l) \in Seq(Packets)
        BY <4>2
      <4>4. Len(SubSeq(s, 1, l)) = l
        BY <4>2
      <4>5. \A i \in 1..l : SubSeq(s, 1, l)[i] = s[i]
        BY <4>2
      <4> QED
        BY <3>5, <4>2, <4>3, <4>4, <4>5
    <3>7. /\ r \in Seq(Packets)
          /\ \A i \in 1..Len(s) - 1 : r[i] = s[i]
          /\ \A i \in 1..Len(r) :
               i \notin 1..Len(s) - 1 => r[i].kind \notin Forwards \cup Replies
      <4>1. PICK f \in Seq(Packets) : f = Front(s)
        BY <3>6
      <4>2. /\ f \o mix \in Seq(Packets) /\ Len(f \o mix) = Len(f) + Len(mix)
            /\ \A i \in 1..Len(f) : (f \o mix)[i] = f[i]
            /\ \A i \in 1..Len(f \o mix) :
                 i \notin 1..Len(f) => i - Len(f) \in 1..Len(mix)
                                        /\ (f \o mix)[i] = mix[i - Len(f)]
        BY <3>3
      <4>3. r = f \o mix /\ Len(f) = Len(s) - 1 /\ \A i \in 1..Len(s) - 1 : f[i] = s[i]
        BY <3>2, <3>6, <4>1
      <4> QED
        BY <3>3, <4>2, <4>3
    <3>8. wire' = [wire EXCEPT ![c][e] = r]
      BY <2>2, <3>1, <3>2
    <3>9. /\ wire' \in [Conns -> [Nodes -> Seq(Packets)]] /\ wire'[c][e] = r
          /\ \A d \in Conns, k \in Nodes : d # c \/ k # e => wire'[d][k] = wire[d][k]
      BY <1>4, <3>7, <3>8
    <3>10. WireFrame
      BY <2>2, <3>9 DEF WireFrame
    <3>11. ASSUME NEW K, NEW x, K \in {Forwards, Replies},
                  NEW d \in Conns, NEW k \in Nodes, NEW i \in Nat, Sent(K, x, d, k, i)'
           PROVE  Sent(K, x, d, k, i)
      <4>1. i \in 1..Len(wire'[d][k]) /\ wire'[d][k][i].kind \in K /\ wire'[d][k][i].msg = x
        BY <3>11 DEF Sent
      <4>2. CASE d = c /\ k = e
        <5>1. i \in 1..Len(r) /\ r[i].kind \in Forwards \cup Replies
          BY <3>9, <3>11, <4>1, <4>2
        <5>2. i \in 1..Len(s) - 1
          BY <3>7, <5>1
        <5>3. wire'[d][k][i] = wire[d][k][i] /\ i \in 1..Len(wire[d][k])
          BY <3>1, <3>4, <3>7, <3>9, <4>2, <5>2
        <5> QED
          BY <4>1, <5>3 DEF Sent
      <4>3. CASE d # c \/ k # e
        BY <3>9, <4>1, <4>3 DEF Sent
      <4> QED
        BY <4>2, <4>3
    <3>12. \A K, x : K \in {Forwards, Replies} => Shift(K, x, None, None)
      BY <3>11, Ids DEF Shift
    <3> QED
      BY <3>9, <3>10, <3>12
  <2> QED
    BY <1>3, <2>1, <2>2 DEF SendHandshake, Connected
<1>6. /\ queue' \in [Nodes -> [Nodes -> QueueType]] /\ Queues'
      /\ \A k, f \in Nodes : queue'[k][f].msgs = queue[k][f].msgs
                             /\ queue'[k][f].to = queue[k][f].to
                             /\ queue'[k][f].name = queue[k][f].name
      /\ queue'[n][e].pc = "wait"
      /\ \A k, f \in Nodes : k # n \/ f # e => queue'[k][f] = queue[k][f]
  BY <1>2, QueueMoves
<1>7. Continues(conn')
  BY <1>2, <1>4, UnchangedContinues
<1>8. Typed'
  BY <1>1, <1>2, <1>5, <1>6 DEF Typed
<1>9. Connections' /\ Sessions'
  BY <1>2, <1>5, <1>7, ConnectionsKept, SessionsKept
<1>10. ConnectingNameIsFree'
  BY <1>1, <1>2, <1>6 DEF ConnectingNameIsFree
<1>11. NoStaleBinding'
  <2> SUFFICES ASSUME NEW k \in Nodes, NEW x \in Names, NEW d \in Conns,
                      bound[k][x] = d, k \in conn[d].gone
               PROVE  \E f \in Nodes : queue'[k][f].to = d /\ queue'[k][f].name = x
    BY <1>2 DEF NoStaleBinding
  <2>1. PICK f \in Nodes : queue[k][f].to = d /\ queue[k][f].name = x
    BY <1>1 DEF NoStaleBinding
  <2> QED
    BY <1>6, <2>1
<1>12. Messaging'
  <2>1. \A k, f \in Nodes : queue'[k][f].msgs \in {queue[k][f].msgs, << >>}
    BY <1>6
  <2>2. todo' = todo /\ serving' = serving /\ got' = got /\ replied' = replied
    BY <1>2
  <2>3. \A K, x : K \in {Forwards, Replies} => Shift(K, x, None, None)
    BY <1>5
  <2> QED
    BY <2>1, <2>2, <2>3, QueueMessages
<1> QED
  BY <1>6, <1>8, <1>9, <1>10, <1>11, <1>12 DEF IInv

(***************************************************************************)
(* Dispatch.                                                               *)
(***************************************************************************)
\* What Dispatch sends on connection c.
OutOf(n, ms, c) ==
  LET mine == Those(ms, {m \in Messages : bound[n][NameOf[m]] = c})
  IN  [i \in 1..Len(mine) |-> Forwarded(mine[i])]

\* What Dispatch sends on a connection: messages bound to it, each once.
LEMMA OutIs ==
  ASSUME NEW n, NEW c, NEW ms \in Seq(Messages)
  PROVE  /\ OutOf(n, ms, c) \in Seq(Packets)
         /\ \A i \in 1..Len(OutOf(n, ms, c)) : \E j \in 1..Len(ms) :
              OutOf(n, ms, c)[i] = Forwarded(ms[j]) /\ bound[n][NameOf[ms[j]]] = c
         /\ Distinct(ms) =>
              \A i, j \in 1..Len(OutOf(n, ms, c)) :
                OutOf(n, ms, c)[i].msg = OutOf(n, ms, c)[j].msg => i = j
<1> DEFINE B == {m \in Messages : bound[n][NameOf[m]] = c}
           s == Those(ms, B)
           o == OutOf(n, ms, c)
<1>1. /\ s \in Seq(Messages)
      /\ \A i \in 1..Len(s) : s[i] \in B /\ \E j \in 1..Len(ms) : ms[j] = s[i]
      /\ Distinct(ms) => Distinct(s)
  <2> HIDE DEF B
  <2> QED
    BY ThoseIs
<1>2. o = [i \in 1..Len(s) |-> Forwarded(s[i])]
  BY DEF OutOf
<1>3. \A i \in 1..Len(s) : s[i] \in Messages /\ bound[n][NameOf[s[i]]] = c
  BY <1>1
<1>4. \A m \in Messages : Forwarded(m) \in Packets /\ Forwarded(m).msg = m
  BY Ids DEF Forwarded, Packet
<1> HIDE DEF s, o, B
<1>5. Len(s) \in Nat
  BY <1>1
<1>6. o \in Seq(Packets) /\ Len(o) = Len(s) /\ \A i \in 1..Len(s) : o[i] = Forwarded(s[i])
  BY <1>2, <1>3, <1>4, <1>5
<1>7. \A i \in 1..Len(o) : \E j \in 1..Len(ms) :
         o[i] = Forwarded(ms[j]) /\ bound[n][NameOf[ms[j]]] = c
  <2> TAKE i \in 1..Len(o)
  <2>1. i \in 1..Len(s) /\ o[i] = Forwarded(s[i]) /\ bound[n][NameOf[s[i]]] = c
    BY <1>3, <1>6
  <2>2. PICK j \in 1..Len(ms) : ms[j] = s[i]
    BY <1>1, <2>1
  <2> QED
    BY <2>1, <2>2
<1>8. Distinct(ms) => \A i, j \in 1..Len(o) : o[i].msg = o[j].msg => i = j
  <2> SUFFICES ASSUME Distinct(ms), NEW i \in 1..Len(o), NEW j \in 1..Len(o),
                      o[i].msg = o[j].msg
               PROVE  i = j
    OBVIOUS
  <2>1. i \in 1..Len(s) /\ o[i].msg = s[i] /\ j \in 1..Len(s) /\ o[j].msg = s[j]
    BY <1>3, <1>4, <1>6
  <2> QED
    BY <1>1, <2>1 DEF Distinct
<1> QED
  BY <1>6, <1>7, <1>8 DEF o

\* The packets after Dispatch: those of w, and messages of ms on the session
\* that their name is bound to, none twice.
DispatchedOut(n, ms, w) ==
  /\ wire' \in [Conns -> [Nodes -> Seq(Packets)]]
  /\ \A d \in Conns, k \in Nodes : k \notin conn[d].open => wire'[d][k] = w[d][k]
  /\ \A d \in Conns, k \in Nodes : \A i \in 1..Len(wire'[d][k]) :
       \/ i \in 1..Len(w[d][k]) /\ wire'[d][k][i] = w[d][k][i]
       \/ /\ k = Peer(d, n) /\ i > Len(w[d][k])
          /\ \E j \in 1..Len(ms) :
               wire'[d][k][i] = Forwarded(ms[j]) /\ bound[n][NameOf[ms[j]]] = d
  /\ \A d \in Conns, k \in Nodes : \A i, j \in 1..Len(wire'[d][k]) :
       i > Len(w[d][k]) /\ j > Len(w[d][k]) /\ wire'[d][k][i].msg = wire'[d][k][j].msg => i = j

\* What Dispatch adds to the connections.
LEMMA DispatchWire ==
  ASSUME Typed, NEW n \in Nodes, NEW e, NEW ms \in Seq(Messages), Distinct(ms), NEW q,
         NEW w \in [Conns -> [Nodes -> Seq(Packets)]], NEW shut, Dispatch(n, e, ms, q, w, shut)
  PROVE  DispatchedOut(n, ms, w)
<1>1. w \in [Conns -> [Nodes -> Seq(Packets)]] /\ conn \in [Conns -> ConnType]
  BY DEF Typed
<1>2. wire' = [c \in Conns |->
        IF c \in Mine(n) \ shut THEN Carried(w, c, n, OutOf(n, ms, c))[c] ELSE w[c]]
  BY DEF Dispatch, OutOf
<1>3. ASSUME NEW c \in Conns
      PROVE  /\ OutOf(n, ms, c) \in Seq(Packets)
             /\ CarriedTo(Carried(w, c, n, OutOf(n, ms, c)), w, c, n, OutOf(n, ms, c))
  <2>1. OutOf(n, ms, c) \in Seq(Packets)
    BY OutIs
  <2> QED
    BY <1>1, <2>1, CarriedAt
<1>4. wire' \in [Conns -> [Nodes -> Seq(Packets)]]
  <2>1. \A c \in Conns : Carried(w, c, n, OutOf(n, ms, c))[c] \in [Nodes -> Seq(Packets)]
    BY <1>3 DEF CarriedTo
  <2> QED
    BY <1>1, <1>2, <2>1
<1>5. ASSUME NEW d \in Conns, NEW k \in Nodes
      PROVE  /\ k \notin conn[d].open => wire'[d][k] = w[d][k]
             /\ \A i \in 1..Len(wire'[d][k]) :
                  \/ i \in 1..Len(w[d][k]) /\ wire'[d][k][i] = w[d][k][i]
                  \/ /\ k = Peer(d, n) /\ i > Len(w[d][k])
                     /\ i - Len(w[d][k]) \in 1..Len(OutOf(n, ms, d))
                     /\ wire'[d][k][i] = OutOf(n, ms, d)[i - Len(w[d][k])]
  <2>1. CASE d \in Mine(n) \ shut
    <3>1. wire'[d] = Carried(w, d, n, OutOf(n, ms, d))[d]
      BY <1>2, <2>1
    <3> QED
      BY <1>3, <3>1 DEF CarriedTo
  <2>2. CASE d \notin Mine(n) \ shut
    <3>1. wire'[d] = w[d]
      BY <1>2, <2>2
    <3> QED
      BY <3>1
  <2> QED
    BY <2>1, <2>2
<1>6. \A d \in Conns, k \in Nodes : k \notin conn[d].open => wire'[d][k] = w[d][k]
  BY <1>5
<1>7. ASSUME NEW d \in Conns, NEW k \in Nodes, NEW i \in 1..Len(wire'[d][k])
      PROVE  \/ i \in 1..Len(w[d][k]) /\ wire'[d][k][i] = w[d][k][i]
             \/ /\ k = Peer(d, n) /\ i > Len(w[d][k])
                /\ \E j \in 1..Len(ms) :
                     wire'[d][k][i] = Forwarded(ms[j]) /\ bound[n][NameOf[ms[j]]] = d
  <2>1. CASE i \in 1..Len(w[d][k]) /\ wire'[d][k][i] = w[d][k][i]
    BY <2>1
  <2>2. CASE ~(i \in 1..Len(w[d][k]) /\ wire'[d][k][i] = w[d][k][i])
    <3>1. PICK a : a = i - Len(w[d][k])
      OBVIOUS
    <3>2. /\ k = Peer(d, n) /\ i > Len(w[d][k]) /\ a \in 1..Len(OutOf(n, ms, d))
          /\ wire'[d][k][i] = OutOf(n, ms, d)[a]
      BY <1>5, <2>2, <3>1
    <3>3. PICK j \in 1..Len(ms) : OutOf(n, ms, d)[a] = Forwarded(ms[j])
                                  /\ bound[n][NameOf[ms[j]]] = d
      BY <3>2, OutIs
    <3> QED
      BY <3>2, <3>3
  <2> QED
    BY <2>1, <2>2
<1>8. ASSUME NEW d \in Conns, NEW k \in Nodes,
             NEW i \in 1..Len(wire'[d][k]), NEW j \in 1..Len(wire'[d][k]),
             i > Len(w[d][k]), j > Len(w[d][k]),
             wire'[d][k][i].msg = wire'[d][k][j].msg
      PROVE  i = j
  <2>1. PICK l \in Nat : l = Len(w[d][k])
    BY <1>1
  <2>2. /\ i - l \in 1..Len(OutOf(n, ms, d)) /\ wire'[d][k][i] = OutOf(n, ms, d)[i - l]
        /\ j - l \in 1..Len(OutOf(n, ms, d)) /\ wire'[d][k][j] = OutOf(n, ms, d)[j - l]
    BY <1>5, <1>8, <2>1
  <2>3. PICK a, b : a = i - l /\ b = j - l
    OBVIOUS
  <2>4. a = b
    <3>1. PICK o : o = OutOf(n, ms, d)
      OBVIOUS
    <3>2. \A x, y \in 1..Len(o) : o[x].msg = o[y].msg => x = y
      <4>1. \A x, y \in 1..Len(OutOf(n, ms, d)) :
              OutOf(n, ms, d)[x].msg = OutOf(n, ms, d)[y].msg => x = y
        BY OutIs
      <4> QED
        BY <3>1, <4>1
    <3>3. a \in 1..Len(o) /\ b \in 1..Len(o) /\ o[a].msg = o[b].msg
      BY <1>8, <2>2, <2>3, <3>1
    <3> QED
      BY <3>2, <3>3
  <2> QED
    BY <2>1, <2>3, <2>4
<1> QED
  BY <1>4, <1>6, <1>7, <1>8 DEF DispatchedOut

\* The queue of the endpoint: what is not bound waits behind what is in q.
DispatchedTo(n, e, ms, q, rest, r) ==
  /\ queue' \in [Nodes -> [Nodes -> QueueType]] /\ queue'[n][e] = r
  /\ \A k, f \in Nodes : k # n \/ f # e => queue'[k][f] = queue[k][f]
  /\ \A i \in 1..Len(rest) :
       bound[n][NameOf[rest[i]]] = None /\ \E j \in 1..Len(ms) : ms[j] = rest[i]
  /\ Distinct(ms) => Distinct(rest)
  /\ r.msgs = q.msgs \o rest
  /\ r.to = q.to
  /\ q.pc # "none" => r.pc = q.pc /\ r.name = q.name
  /\ q.pc = "none" => \/ r = NoQueue
                      \/ /\ r.pc = "connect" /\ bound[n][r.name] = None
                         /\ \E j \in 1..Len(ms) : r.name = NameOf[ms[j]]

\* What Dispatch adds to the queue of the endpoint.
LEMMA DispatchQueue ==
  ASSUME Typed, NEW n \in Nodes, NEW e \in Nodes, NEW ms \in Seq(Messages),
         NEW q \in QueueType, q.pc = "none" => q = NoQueue, NEW w, NEW shut,
         Dispatch(n, e, ms, q, w, shut)
  PROVE  \E rest \in Seq(Messages), r \in QueueType : DispatchedTo(n, e, ms, q, rest, r)
<1> DEFINE B == {m \in Messages : bound[n][NameOf[m]] = None}
<1>1. PICK rest : rest = Those(ms, B)
  OBVIOUS
<1>2. /\ rest \in Seq(Messages)
      /\ \A i \in 1..Len(rest) : rest[i] \in B /\ \E j \in 1..Len(ms) : ms[j] = rest[i]
      /\ Distinct(ms) => Distinct(rest)
  <2> HIDE DEF B
  <2> QED
    BY <1>1, ThoseIs
<1>3. PICK r : r = IF rest = << >> THEN q
                   ELSE IF q.pc = "none" THEN [NewQueue(NameOf[Head(rest)]) EXCEPT !.msgs = rest]
                   ELSE [q EXCEPT !.msgs = @ \o rest]
  OBVIOUS
<1>4. queue' = [queue EXCEPT ![n][e] = r]
  BY <1>1, <1>3 DEF Dispatch
<1>5. q.msgs \in Seq(Messages) /\ q.msgs \o rest \in Seq(Messages)
  BY <1>2 DEF QueueType
<1>6. \A i \in 1..Len(rest) :
        bound[n][NameOf[rest[i]]] = None /\ \E j \in 1..Len(ms) : ms[j] = rest[i]
  BY <1>2
<1>7. CASE rest = << >>
  <2>1. r = q /\ r.msgs = q.msgs \o rest
    BY <1>3, <1>5, <1>7
  <2>2. r \in QueueType /\ (q.pc = "none" => r = NoQueue)
    BY <2>1
  <2>3. /\ queue' \in [Nodes -> [Nodes -> QueueType]] /\ queue'[n][e] = r
        /\ \A k, f \in Nodes : k # n \/ f # e => queue'[k][f] = queue[k][f]
    BY <1>4, <2>2, QueueSet DEF Typed
  <2> QED
    BY <1>2, <1>6, <2>1, <2>2, <2>3 DEF DispatchedTo
<1>8. CASE rest # << >> /\ q.pc = "none"
  <2>1. PICK name : name = NameOf[Head(rest)]
    OBVIOUS
  <2>2. Head(rest) = rest[1] /\ 1 \in 1..Len(rest) /\ rest[1] \in Messages
    BY <1>2, <1>8
  <2>3. name \in Names /\ bound[n][name] = None /\ \E j \in 1..Len(ms) : name = NameOf[ms[j]]
    <3>1. name = NameOf[rest[1]]
      BY <2>1, <2>2
    <3>2. name \in Names
      BY <2>2, <3>1, ClusterAssumption
    <3> QED
      BY <1>6, <2>2, <3>1, <3>2
  <2>4. r = [pc |-> "connect", name |-> name, to |-> None, msgs |-> rest]
    BY <1>3, <1>8, <2>1 DEF NewQueue
  <2>5. r \in QueueType
    BY <1>2, <2>3, <2>4 DEF QueueType
  <2>6. q.msgs = << >> /\ q.to = None
    BY <1>8 DEF NoQueue
  <2>7. r.msgs = q.msgs \o rest /\ r.to = q.to /\ r.pc = "connect" /\ r.name = name
    BY <1>2, <2>4, <2>6
  <2>8. /\ queue' \in [Nodes -> [Nodes -> QueueType]] /\ queue'[n][e] = r
        /\ \A k, f \in Nodes : k # n \/ f # e => queue'[k][f] = queue[k][f]
    BY <1>4, <2>5, QueueSet DEF Typed
  <2> QED
    BY <1>2, <1>6, <1>8, <2>3, <2>5, <2>7, <2>8 DEF DispatchedTo
<1>9. CASE rest # << >> /\ q.pc # "none"
  <2>1. r = [q EXCEPT !.msgs = q.msgs \o rest]
    BY <1>3, <1>9
  <2>2. /\ r \in QueueType /\ r.msgs = q.msgs \o rest /\ r.to = q.to
        /\ r.pc = q.pc /\ r.name = q.name
    BY <1>5, <2>1 DEF QueueType
  <2>3. /\ queue' \in [Nodes -> [Nodes -> QueueType]] /\ queue'[n][e] = r
        /\ \A k, f \in Nodes : k # n \/ f # e => queue'[k][f] = queue[k][f]
    BY <1>4, <2>2, QueueSet DEF Typed
  <2> QED
    BY <1>2, <1>6, <1>9, <2>2, <2>3 DEF DispatchedTo
<1> QED
  BY <1>7, <1>8, <1>9

\* What is on the connections before Dispatch: all packets, but perhaps for the
\* first of c0 to n0.
Left(w, c0, n0) ==
  \A K, m : \A d \in Conns, k \in Nodes : \A i \in 1..Len(w[d][k]) :
    w[d][k][i].kind \in K /\ w[d][k][i].msg = m =>
      Sent(K, m, d, k, IF d = c0 /\ k = n0 THEN i + 1 ELSE i)

\* A message that is not dispatched stays where it is, and so does any answer.
LEMMA DispatchShifts ==
  ASSUME NEW n \in Nodes, NEW ms \in Seq(Messages), NEW w, NEW c0, NEW n0,
         Left(w, c0, n0), DispatchedOut(n, ms, w), NEW m
  PROVE  /\ Shift(Replies, m, c0, n0)
         /\ (\A j \in 1..Len(ms) : ms[j] # m) => Shift(Forwards, m, c0, n0)
<1>1. ASSUME NEW K, NEW d \in Conns, NEW k \in Nodes, NEW i \in Nat, Sent(K, m, d, k, i)',
             ~Sent(K, m, d, k, IF d = c0 /\ k = n0 THEN i + 1 ELSE i)
      PROVE  \E j \in 1..Len(ms) : ms[j] = m /\ K \cap Forwards # {}
  <2>1. i \in 1..Len(wire'[d][k]) /\ wire'[d][k][i].kind \in K /\ wire'[d][k][i].msg = m
    BY <1>1 DEF Sent
  <2>2. ~(i \in 1..Len(w[d][k]) /\ wire'[d][k][i] = w[d][k][i])
    BY <1>1, <2>1 DEF Left
  <2>3. PICK j \in 1..Len(ms) : wire'[d][k][i] = Forwarded(ms[j])
    BY <2>1, <2>2 DEF DispatchedOut
  <2>4. Forwarded(ms[j]).msg = ms[j] /\ Forwarded(ms[j]).kind \in Forwards
    BY DEF Forwarded, Packet, Forwards
  <2> QED
    BY <2>1, <2>3, <2>4
<1>2. Replies \cap Forwards = {}
  BY DEF Replies, Forwards
<1>3. Shift(Replies, m, c0, n0)
  BY <1>1, <1>2 DEF Shift
<1>4. (\A j \in 1..Len(ms) : ms[j] # m) => Shift(Forwards, m, c0, n0)
  BY <1>1 DEF Shift
<1> QED
  BY <1>3, <1>4

\* Where a message is before it is dispatched: with its sender or in the queue
\* of the endpoint, and not in what is left of the queue.
Loose(n, e, q, m) ==
  /\ ~OnWire(Forwards, m) /\ m \notin todo' /\ got[m] = 0
  /\ \A k, f \in Nodes, i \in Nat : Queued(m, k, f, i) => k = n /\ f = e
  /\ \A i \in 1..Len(q.msgs) : q.msgs[i] # m

\* A message that is dispatched is then in one place, if it was nowhere else.
LEMMA DispatchPlaces ==
  ASSUME NEW n \in Nodes, NEW e \in Nodes, NEW ms \in Seq(Messages), Distinct(ms),
         NEW w \in [Conns -> [Nodes -> Seq(Packets)]], NEW c0, NEW n0,
         Left(w, c0, n0), DispatchedOut(n, ms, w),
         NEW q \in QueueType, NEW rest \in Seq(Messages), NEW r \in QueueType,
         DispatchedTo(n, e, ms, q, rest, r),
         NEW m \in Messages, Loose(n, e, q, m), got'[m] = got[m]
  PROVE  OnePlace(m)'
<1>1. ASSUME NEW d \in Conns, NEW k \in Nodes, NEW i \in Nat, Sent(Forwards, m, d, k, i)'
      PROVE  /\ i \in 1..Len(wire'[d][k]) /\ wire'[d][k][i].msg = m
             /\ k = Peer(d, n) /\ i > Len(w[d][k]) /\ bound[n][NameOf[m]] = d
  <2>1. i \in 1..Len(wire'[d][k]) /\ wire'[d][k][i].kind \in Forwards
        /\ wire'[d][k][i].msg = m
    BY <1>1 DEF Sent
  <2>2. ~(i \in 1..Len(w[d][k]) /\ wire'[d][k][i] = w[d][k][i])
    <3> SUFFICES ASSUME i \in 1..Len(w[d][k]), wire'[d][k][i] = w[d][k][i]
                 PROVE  FALSE
      OBVIOUS
    <3>1. PICK x \in Nat : x = IF d = c0 /\ k = n0 THEN i + 1 ELSE i
      OBVIOUS
    <3>2. Sent(Forwards, m, d, k, x)
      BY <2>1, <3>1 DEF Left
    <3> QED
      BY <3>2 DEF Loose, OnWire
  <2>3. /\ k = Peer(d, n) /\ i > Len(w[d][k])
        /\ \E j \in 1..Len(ms) :
             wire'[d][k][i] = Forwarded(ms[j]) /\ bound[n][NameOf[ms[j]]] = d
    <3>1. \A x \in 1..Len(wire'[d][k]) :
            \/ x \in 1..Len(w[d][k]) /\ wire'[d][k][x] = w[d][k][x]
            \/ /\ k = Peer(d, n) /\ x > Len(w[d][k])
               /\ \E j \in 1..Len(ms) :
                    wire'[d][k][x] = Forwarded(ms[j]) /\ bound[n][NameOf[ms[j]]] = d
      BY DEF DispatchedOut
    <3> QED
      BY <2>1, <2>2, <3>1
  <2>4. PICK j \in 1..Len(ms) :
          wire'[d][k][i] = Forwarded(ms[j]) /\ bound[n][NameOf[ms[j]]] = d
    BY <2>3
  <2>5. ms[j] = m
    BY <2>1, <2>4 DEF Forwarded, Packet
  <2> QED
    BY <2>1, <2>3, <2>4, <2>5
<1>2. ASSUME NEW k \in Nodes, NEW f \in Nodes, NEW i \in Nat, Queued(m, k, f, i)'
      PROVE  /\ k = n /\ f = e /\ i - Len(q.msgs) \in 1..Len(rest)
             /\ rest[i - Len(q.msgs)] = m /\ bound[n][NameOf[m]] = None
  <2>1. i \in 1..Len(queue'[k][f].msgs) /\ queue'[k][f].msgs[i] = m
    BY <1>2 DEF Queued
  <2>2. k = n /\ f = e
    <3> SUFFICES ASSUME ~(k = n /\ f = e)
                 PROVE  FALSE
      OBVIOUS
    <3>1. queue'[k][f] = queue[k][f]
      BY DEF DispatchedTo
    <3> QED
      BY <2>1, <3>1 DEF Loose, Queued
  <2>3. PICK s \in Seq(Messages) : s = q.msgs
    BY DEF QueueType
  <2>4. i \in 1..Len(s \o rest) /\ (s \o rest)[i] = m
    BY <2>1, <2>2, <2>3 DEF DispatchedTo
  <2>5. Len(s) \in Nat /\ Len(rest) \in Nat /\ Len(s \o rest) = Len(s) + Len(rest)
    OBVIOUS
  <2>6. ~(i \in 1..Len(s))
    <3> SUFFICES ASSUME i \in 1..Len(s)
                 PROVE  FALSE
      OBVIOUS
    <3>1. (s \o rest)[i] = s[i]
      OBVIOUS
    <3> QED
      BY <2>3, <2>4, <3>1 DEF Loose
  <2>7. PICK a \in 1..Len(rest) : a = i - Len(s)
    BY <2>4, <2>5, <2>6
  <2>8. (s \o rest)[i] = rest[a]
    BY <2>4, <2>5, <2>6, <2>7
  <2>9. rest[a] = m
    BY <2>4, <2>8
  <2>10. bound[n][NameOf[rest[a]]] = None
    BY DEF DispatchedTo
  <2> QED
    BY <2>2, <2>3, <2>7, <2>9, <2>10
<1>3. WireOnce(Forwards, m)'
  <2> SUFFICES ASSUME NEW c \in Conns, NEW d \in Conns, NEW a \in Nodes, NEW b \in Nodes,
                      NEW i \in Nat, NEW j \in Nat,
                      Sent(Forwards, m, c, a, i)', Sent(Forwards, m, d, b, j)'
               PROVE  c = d /\ a = b /\ i = j
    BY DEF WireOnce
  <2>1. c = d /\ a = b
    <3>1. a = Peer(c, n) /\ bound[n][NameOf[m]] = c
      BY <1>1
    <3>2. b = Peer(d, n) /\ bound[n][NameOf[m]] = d
      BY <1>1
    <3> QED
      BY <3>1, <3>2
  <2>2. /\ i \in 1..Len(wire'[c][a]) /\ i > Len(w[c][a]) /\ wire'[c][a][i].msg = m
        /\ j \in 1..Len(wire'[c][a]) /\ j > Len(w[c][a]) /\ wire'[c][a][j].msg = m
    BY <1>1, <2>1
  <2>3. i = j
    <3>1. \A x, y \in 1..Len(wire'[c][a]) :
            x > Len(w[c][a]) /\ y > Len(w[c][a]) /\ wire'[c][a][x].msg = wire'[c][a][y].msg
              => x = y
      BY DEF DispatchedOut
    <3> QED
      BY <2>2, <3>1
  <2> QED
    BY <2>1, <2>3
<1>4. QueueOnce(m)'
  <2> SUFFICES ASSUME NEW a \in Nodes, NEW b \in Nodes, NEW f \in Nodes, NEW g \in Nodes,
                      NEW i \in Nat, NEW j \in Nat, Queued(m, a, f, i)', Queued(m, b, g, j)'
               PROVE  a = b /\ f = g /\ i = j
    BY DEF QueueOnce
  <2>1. a = b /\ f = g
    BY <1>2
  <2>2. PICK l \in Nat : l = Len(q.msgs)
    BY DEF QueueType
  <2>3. PICK x, y : x = i - l /\ y = j - l
    OBVIOUS
  <2>4. x \in 1..Len(rest) /\ y \in 1..Len(rest) /\ rest[x] = m /\ rest[y] = m
    BY <1>2, <2>2, <2>3
  <2>5. x = y
    BY <2>4 DEF DispatchedTo, Distinct
  <2> QED
    BY <2>1, <2>2, <2>3, <2>5
<1>5. ~(OnWire(Forwards, m)' /\ InQueue(m)')
  <2>1. OnWire(Forwards, m)' => bound[n][NameOf[m]] \in Conns
    BY <1>1 DEF OnWire
  <2>2. InQueue(m)' => bound[n][NameOf[m]] = None
    BY <1>2 DEF InQueue
  <2> QED
    BY <2>1, <2>2, Ids
<1> QED
  BY <1>3, <1>4, <1>5 DEF Loose, OnePlace

\* A message that is dispatched goes to one connection or to the queue.
LEMMA DispatchMessages ==
  ASSUME IInv, NEW n \in Nodes, NEW e \in Nodes, NEW ms \in Seq(Messages), Distinct(ms),
         NEW w \in [Conns -> [Nodes -> Seq(Packets)]], NEW c0, NEW n0,
         Left(w, c0, n0), DispatchedOut(n, ms, w),
         NEW q \in QueueType, q \in {queue[n][e], NoQueue},
         NEW rest \in Seq(Messages), NEW r \in QueueType,
         DispatchedTo(n, e, ms, q, rest, r), \A j \in 1..Len(ms) : Loose(n, e, q, ms[j]),
         todo' \subseteq todo, serving' = serving, got' = got, replied' = replied
  PROVE  Messaging'
<1> SUFFICES ASSUME NEW m \in Messages
             PROVE  OnePlace(m)' /\ OneAnswer(m)'
  BY DEF Messaging
<1>1. OnePlace(m) /\ OneAnswer(m)
  BY TypedParts
<1>2. /\ Shift(Replies, m, c0, n0)
      /\ (\A j \in 1..Len(ms) : ms[j] # m) => Shift(Forwards, m, c0, n0)
  BY DispatchShifts
<1>3. OneAnswer(m)'
  BY <1>1, <1>2, AnswerKept
<1>4. CASE \E j \in 1..Len(ms) : ms[j] = m
  <2>1. Loose(n, e, q, m) /\ got'[m] = got[m]
    BY <1>4
  <2> QED
    BY <1>3, <2>1, DispatchPlaces
<1>5. CASE \A j \in 1..Len(ms) : ms[j] # m
  <2>1. ASSUME NEW k \in Nodes, NEW f \in Nodes, NEW i \in Nat, Queued(m, k, f, i)'
        PROVE  Queued(m, k, f, i)
    <3>1. i \in 1..Len(queue'[k][f].msgs) /\ queue'[k][f].msgs[i] = m
      BY <2>1 DEF Queued
    <3>2. CASE k # n \/ f # e
      BY <3>1, <3>2 DEF DispatchedTo, Queued
    <3>3. CASE k = n /\ f = e
      <4>1. PICK s \in Seq(Messages) : s = q.msgs
        BY DEF QueueType
      <4>2. i \in 1..Len(s \o rest) /\ (s \o rest)[i] = m
        BY <3>1, <3>3, <4>1 DEF DispatchedTo
      <4>3. Len(s) \in Nat /\ Len(rest) \in Nat /\ Len(s \o rest) = Len(s) + Len(rest)
        OBVIOUS
      <4>4. i \in 1..Len(s)
        <5> SUFFICES ASSUME i \notin 1..Len(s)
                     PROVE  FALSE
          OBVIOUS
        <5>1. PICK a \in 1..Len(rest) : a = i - Len(s)
          BY <4>2, <4>3
        <5>2. (s \o rest)[i] = rest[a]
          BY <4>2, <4>3, <5>1
        <5> QED
          BY <1>5, <4>2, <5>2 DEF DispatchedTo
      <4>5. s[i] = m /\ s # << >>
        BY <4>2, <4>4
      <4>6. s = queue[n][e].msgs
        BY <4>1, <4>5 DEF NoQueue
      <4> QED
        BY <3>3, <4>4, <4>5, <4>6 DEF Queued
    <3> QED
      BY <3>2, <3>3
  <2>2. (m \in todo' => m \in todo) /\ got'[m] = got[m] /\ Shift(Forwards, m, c0, n0)
    BY <1>2, <1>5
  <2> QED
    BY <1>1, <1>3, <2>1, <2>2, PlaceKept
<1> QED
  BY <1>3, <1>4, <1>5

\* A session stays, goes, or is a connection that has not ended.
SessionsMove ==
  /\ nodes' \in [Nodes -> [Nodes -> Conns \cup {None}]]
  /\ \A k, t \in Nodes :
       \/ nodes'[k][t] \in {nodes[k][t], None}
       \/ /\ nodes'[k][t] \in Conns
          /\ k \in conn'[nodes'[k][t]].known
          /\ Peer(nodes'[k][t], k) = t
          /\ k \notin conn[nodes'[k][t]].gone

\* How the handlers use Dispatch.
Dispatching(n, e, ms, q, w, c0, n0, shut) ==
  /\ ms \in Seq(Messages) /\ Distinct(ms)
  /\ \A j \in 1..Len(ms) : FindServiceEndpoint(NameOf[ms[j]]) = e
  /\ \A j \in 1..Len(ms) : Loose(n, e, q, ms[j])
  /\ w \in [Conns -> [Nodes -> Seq(Packets)]] /\ Left(w, c0, n0)
  /\ \A d \in Conns, k \in Nodes : wire[d][k] = << >> => w[d][k] = << >>
  /\ q \in {queue[n][e], NoQueue}
  /\ q = queue[n][e] \/ queue[n][e].to = None \/ n \notin conn[queue[n][e].to].gone
  /\ Dispatch(n, e, ms, q, w, shut)

\* The other parts of the invariant after Dispatch.
LEMMA DispatchKeeps ==
  ASSUME IInv, NEW n \in Nodes, NEW e \in Nodes, NEW ms, NEW q, NEW w, NEW c0, NEW n0,
         NEW shut, Dispatching(n, e, ms, q, w, c0, n0, shut),
         todo' \subseteq todo, Continues(conn'), SessionsMove,
         bound' = bound, serving' = serving, got' = got, replied' = replied
  PROVE  IInv'
<1> SUFFICES ASSUME ms \in Seq(Messages), Distinct(ms),
                    \A j \in 1..Len(ms) : FindServiceEndpoint(NameOf[ms[j]]) = e,
                    \A j \in 1..Len(ms) : Loose(n, e, q, ms[j]),
                    w \in [Conns -> [Nodes -> Seq(Packets)]], Left(w, c0, n0),
                    \A d \in Conns, k \in Nodes : wire[d][k] = << >> => w[d][k] = << >>,
                    q \in {queue[n][e], NoQueue},
                    \/ q = queue[n][e] \/ queue[n][e].to = None
                    \/ n \notin conn[queue[n][e].to].gone,
                    Dispatch(n, e, ms, q, w, shut)
             PROVE  IInv'
  BY DEF Dispatching
<1>1. Typed /\ Connections /\ Sessions /\ Queues /\ ConnectingNameIsFree /\ NoStaleBinding
  BY DEF IInv
<1>2. q \in QueueType /\ (q.pc = "none" => q = NoQueue)
  <2>1. queue[n][e] \in QueueType /\ (queue[n][e].pc = "none" => queue[n][e] = NoQueue)
    BY <1>1 DEF Typed, Queues
  <2> QED
    BY <2>1, Ids
<1>3. DispatchedOut(n, ms, w)
  BY <1>1, DispatchWire
<1>4. PICK rest \in Seq(Messages), r \in QueueType : DispatchedTo(n, e, ms, q, rest, r)
  BY <1>1, <1>2, DispatchQueue
<1>5. Messaging'
  BY <1>2, <1>3, <1>4, DispatchMessages
<1>6. Typed'
  <2>1. wire' \in [Conns -> [Nodes -> Seq(Packets)]] /\ queue' \in [Nodes -> [Nodes -> QueueType]]
    BY <1>3, <1>4 DEF DispatchedOut, DispatchedTo
  <2>2. conn' \in [Conns -> ConnType]
    BY DEF Continues
  <2> QED
    BY <1>1, <2>1, <2>2 DEF Typed, SessionsMove
<1>7. WireFrame
  <2> SUFFICES ASSUME NEW d \in Conns, NEW k \in Nodes,
                      wire[d][k] = << >>, k \notin conn[d].open
               PROVE  wire'[d][k] = << >>
    BY DEF WireFrame
  <2> QED
    BY <1>3 DEF DispatchedOut
<1>8. Connections' /\ Sessions'
  BY <1>7, ConnectionsKept, SessionsKept DEF SessionsMove
<1>9. /\ queue'[n][e] = r
      /\ \A k, f \in Nodes : k # n \/ f # e => queue'[k][f] = queue[k][f]
  BY <1>4 DEF DispatchedTo
<1>10. /\ r.pc = "none" => r = NoQueue
       /\ r.pc \in {"bind", "handshake", "wait"} => q = queue[n][e] /\ r.pc = q.pc
       /\ r.pc \in {"connect", "bind"} => bound[n][r.name] = None
       /\ r.pc = "connect" => r.to = None
       /\ r.pc # "none" => r.name \in Names /\ FindServiceEndpoint(r.name) = e
  <2>1. CASE q.pc = "none"
    <3>1. q = NoQueue /\ q.to = None
      BY <1>2, <2>1 DEF NoQueue
    <3>2. r = NoQueue \/ /\ r.pc = "connect" /\ bound[n][r.name] = None
                         /\ \E j \in 1..Len(ms) : r.name = NameOf[ms[j]]
      BY <1>4, <2>1 DEF DispatchedTo
    <3>3. r.to = None
      BY <1>4, <3>1 DEF DispatchedTo
    <3>4. CASE r = NoQueue
      BY <3>4 DEF NoQueue
    <3>5. CASE r # NoQueue
      <4>1. PICK j \in 1..Len(ms) : r.name = NameOf[ms[j]]
        BY <3>2, <3>5
      <4>2. ms[j] \in Messages
        OBVIOUS
      <4>3. r.name \in Names /\ FindServiceEndpoint(r.name) = e
        BY <4>1, <4>2, ClusterAssumption
      <4> QED
        BY <3>2, <3>3, <3>5, <4>3
    <3> QED
      BY <3>4, <3>5
  <2>2. CASE q.pc # "none"
    <3>1. q = queue[n][e]
      BY <2>2 DEF NoQueue
    <3>2. r.pc = q.pc /\ r.name = q.name /\ r.to = q.to
      BY <1>4, <2>2 DEF DispatchedTo
    <3> QED
      BY <1>1, <2>2, <3>1, <3>2 DEF Queues, ConnectingNameIsFree
  <2> QED
    BY <2>1, <2>2
<1>11. r.to = q.to
  BY <1>4 DEF DispatchedTo
<1>12. \A i \in 1..Len(r.msgs) : FindServiceEndpoint(NameOf[r.msgs[i]]) = e
  <2> TAKE i \in 1..Len(r.msgs)
  <2>1. PICK s \in Seq(Messages) : s = q.msgs
    BY <1>2 DEF QueueType
  <2>2. r.msgs = s \o rest
    BY <1>4, <2>1 DEF DispatchedTo
  <2>3. Len(s) \in Nat /\ Len(rest) \in Nat /\ Len(s \o rest) = Len(s) + Len(rest)
        /\ i \in 1..Len(s \o rest)
    BY <2>2
  <2>4. CASE i \in 1..Len(s)
    <3>1. r.msgs[i] = s[i] /\ s # << >>
      BY <2>2, <2>4
    <3>2. s = queue[n][e].msgs
      BY <2>1, <3>1 DEF NoQueue
    <3> QED
      BY <1>1, <2>4, <3>1, <3>2 DEF Queues
  <2>5. CASE i \notin 1..Len(s)
    <3>1. PICK a \in 1..Len(rest) : a = i - Len(s)
      <4>1. i - Len(s) \in 1..Len(rest)
        BY <2>3, <2>5
      <4> QED
        BY <4>1
    <3>2. (s \o rest)[i] = rest[a]
      BY <2>3, <2>5, <3>1
    <3>3. PICK j \in 1..Len(ms) : ms[j] = rest[a]
      BY <1>4 DEF DispatchedTo
    <3> QED
      BY <2>2, <3>2, <3>3
  <2> QED
    BY <2>4, <2>5
<1>13. \A d \in Conns : conn[d] # NoConn => conn'[d] # NoConn
  <2> TAKE d \in Conns
  <2> HAVE conn[d] # NoConn
  <2>1. conn'[d].from = conn[d].from /\ conn[d].from # None
    BY <1>1, MadeIs DEF Continues
  <2> QED
    BY <2>1 DEF NoConn
<1>14. \A k, f \in Nodes : queue[k][f].pc \in {"bind", "handshake", "wait"} =>
         queue[k][f].to # None /\ conn'[queue[k][f].to] # NoConn
  <2> SUFFICES ASSUME NEW k \in Nodes, NEW f \in Nodes,
                      queue[k][f].pc \in {"bind", "handshake", "wait"}
               PROVE  queue[k][f].to # None /\ conn'[queue[k][f].to] # NoConn
    OBVIOUS
  <2>1. queue[k][f].to \in Conns \cup {None}
    BY <1>1 DEF Typed, QueueType
  <2>2. queue[k][f].to # None /\ conn[queue[k][f].to] # NoConn
    BY <1>1 DEF Queues
  <2> QED
    BY <1>13, <2>1, <2>2
<1>15. Queues'
  <2> SUFFICES ASSUME NEW k \in Nodes, NEW f \in Nodes
               PROVE  /\ queue'[k][f].pc = "none" => queue'[k][f] = NoQueue
                      /\ queue'[k][f].pc = "connect" => queue'[k][f].to = None
                      /\ queue'[k][f].pc \in {"bind", "handshake", "wait"} =>
                           queue'[k][f].to # None /\ conn'[queue'[k][f].to] # NoConn
                      /\ queue'[k][f].pc # "none" =>
                           /\ queue'[k][f].name \in Names
                           /\ FindServiceEndpoint(queue'[k][f].name) = f
                      /\ \A i \in 1..Len(queue'[k][f].msgs) :
                           FindServiceEndpoint(NameOf[queue'[k][f].msgs[i]]) = f
    BY DEF Queues
  <2>1. CASE k = n /\ f = e
    <3>1. queue'[k][f] = r
      BY <1>9, <2>1
    <3>2. r.pc \in {"bind", "handshake", "wait"} => r.to # None /\ conn'[r.to] # NoConn
      BY <1>10, <1>11, <1>14
    <3> QED
      BY <1>10, <1>12, <2>1, <3>1, <3>2
  <2>2. CASE k # n \/ f # e
    <3>1. queue'[k][f] = queue[k][f]
      BY <1>9, <2>2
    <3>2. queue[k][f].pc \in {"bind", "handshake", "wait"} =>
            queue[k][f].to # None /\ conn'[queue[k][f].to] # NoConn
      BY <1>14
    <3>3. /\ queue[k][f].pc = "none" => queue[k][f] = NoQueue
          /\ queue[k][f].pc = "connect" => queue[k][f].to = None
          /\ queue[k][f].pc # "none" =>
               queue[k][f].name \in Names /\ FindServiceEndpoint(queue[k][f].name) = f
          /\ \A i \in 1..Len(queue[k][f].msgs) :
               FindServiceEndpoint(NameOf[queue[k][f].msgs[i]]) = f
      BY <1>1 DEF Queues
    <3> QED
      BY <3>1, <3>2, <3>3
  <2> QED
    BY <2>1, <2>2
<1>16. ConnectingNameIsFree'
  <2> SUFFICES ASSUME NEW k \in Nodes, NEW f \in Nodes, queue'[k][f].pc \in {"connect", "bind"}
               PROVE  bound[k][queue'[k][f].name] = None
    BY DEF ConnectingNameIsFree
  <2>1. CASE k = n /\ f = e
    BY <1>9, <1>10, <2>1
  <2>2. CASE k # n \/ f # e
    <3>1. queue'[k][f] = queue[k][f]
      BY <1>9, <2>2
    <3> QED
      BY <1>1, <3>1 DEF ConnectingNameIsFree
  <2> QED
    BY <2>1, <2>2
<1>17. NoStaleBinding'
  <2> SUFFICES ASSUME NEW k \in Nodes, NEW x \in Names, NEW d \in Conns,
                      bound[k][x] = d, k \in conn'[d].gone
               PROVE  \E f \in Nodes : queue'[k][f].to = d /\ queue'[k][f].name = x
    <3>1. NoStaleBinding' <=> \A k \in Nodes, x \in Names, d \in Conns :
            bound[k][x] = d /\ k \in conn'[d].gone =>
              \E f \in Nodes : queue'[k][f].to = d /\ queue'[k][f].name = x
      BY DEF NoStaleBinding
    <3> QED
      BY <3>1
  <2>1. k \in conn[d].gone /\ d # None
    BY Ids DEF Continues
  <2>2. PICK f \in Nodes : queue[k][f].to = d /\ queue[k][f].name = x
    <3>1. NoStaleBinding
      BY <1>1
    <3> QED
      BY ONLY <2>1, <3>1, bound[k][x] = d, k \in Nodes, x \in Names, d \in Conns
      DEF NoStaleBinding
  <2>3. CASE k = n /\ f = e
    <3>1. q = queue[n][e]
      BY <2>1, <2>2, <2>3
    <3>2. q.pc # "none"
      BY <1>1, <2>1, <2>2, <2>3, <3>1 DEF Queues, NoQueue
    <3>3. r.name = q.name
      BY <1>4, <3>2 DEF DispatchedTo
    <3> QED
      BY <1>9, <1>11, <2>2, <2>3, <3>1, <3>3
  <2>4. CASE k # n \/ f # e
    BY <1>9, <2>2, <2>4
  <2> QED
    BY <2>3, <2>4
<1> QED
  BY <1>5, <1>6, <1>8, <1>15, <1>16, <1>17 DEF IInv

\* SendMessage preserves the invariant.
LEMMA SendMessageKeeps ==
  ASSUME IInv, NEW m \in Messages, SendMessage(m)
  PROVE  IInv'
<1>1. Typed /\ OnePlace(m)
  BY TypedParts
<1>2. /\ m \in todo /\ todo' = todo \ {m}
      /\ conn' = conn /\ nodes' = nodes /\ bound' = bound /\ serving' = serving
      /\ got' = got /\ replied' = replied
  BY DEF SendMessage
<1>3. PICK n \in Nodes : n = NodeOf[m]
  BY ClusterAssumption
<1>4. PICK e : e = FindServiceEndpoint(NameOf[m])
  OBVIOUS
<1>5. NameOf[m] \in Names /\ e \in Nodes \cup {None}
  BY <1>4, EndpointIs, ClusterAssumption
<1>6. Continues(conn') /\ todo' \subseteq todo
  BY <1>1, <1>2, UnchangedContinues DEF Typed
<1>7. CASE wire' = wire /\ queue' = queue
  <2>1. WireFrame /\ \A K, x : Shift(K, x, None, None)
    BY <1>7, SameWire
  <2>2. Typed'
    BY <1>1, <1>2, <1>6, <1>7 DEF Typed
  <2>3. ASSUME NEW x \in Messages
        PROVE  OnePlace(x)' /\ OneAnswer(x)'
    <3>1. OnePlace(x) /\ OneAnswer(x)
      BY TypedParts
    <3>2. \A k, f \in Nodes, i \in Nat : Queued(x, k, f, i)' => Queued(x, k, f, i)
      BY <1>7 DEF Queued
    <3>3. OnePlace(x)'
      BY <1>2, <2>1, <3>1, <3>2, PlaceKept
    <3>4. OneAnswer(x)'
      BY <1>2, <2>1, <3>1, AnswerKept
    <3> QED
      BY <3>3, <3>4
  <2>4. Messaging'
    BY <2>3 DEF Messaging
  <2> QED
    BY <1>2, <1>6, <1>7, <2>1, <2>2, <2>4, CalmStep
<1>8. CASE e # None /\ Dispatch(n, e, <<m>>, queue[n][e], wire, {})
  <2>1. PICK ms : ms = <<m>>
    OBVIOUS
  <2>2. ms \in Seq(Messages) /\ Distinct(ms) /\ \A j \in 1..Len(ms) : ms[j] = m
    BY <2>1 DEF Distinct
  <2>3. e \in Nodes /\ \A j \in 1..Len(ms) : FindServiceEndpoint(NameOf[ms[j]]) = e
    BY <1>4, <1>5, <1>8, <2>2
  <2>4. Left(wire, None, None)
    BY Ids DEF Left, Sent
  <2>5. Loose(n, e, queue[n][e], m)
    <3>1. ~OnWire(Forwards, m) /\ ~InQueue(m) /\ got[m] = 0
      BY <1>1, <1>2 DEF OnePlace
    <3>2. \A k, f \in Nodes, i \in Nat : ~Queued(m, k, f, i)
      BY <3>1 DEF InQueue
    <3>3. \A i \in 1..Len(queue[n][e].msgs) : queue[n][e].msgs[i] # m
      <4> TAKE i \in 1..Len(queue[n][e].msgs)
      <4>1. i \in Nat
        OBVIOUS
      <4> QED
        BY <2>3, <3>2, <4>1 DEF Queued
    <3> QED
      BY <1>2, <3>1, <3>2, <3>3 DEF Loose
  <2>6. wire \in [Conns -> [Nodes -> Seq(Packets)]] /\ SessionsMove
    BY <1>1, <1>2 DEF Typed, SessionsMove
  <2>7. PICK q : q = queue[n][e]
    OBVIOUS
  <2>8. q \in {queue[n][e], NoQueue} /\ Dispatch(n, e, ms, q, wire, {})
        /\ \A j \in 1..Len(ms) : Loose(n, e, q, ms[j])
    BY <1>8, <2>1, <2>2, <2>5, <2>7
  <2>9. Dispatching(n, e, ms, q, wire, None, None, {})
    BY <2>2, <2>3, <2>4, <2>6, <2>7, <2>8 DEF Dispatching
  <2> QED
    BY <1>2, <1>6, <2>3, <2>6, <2>9, DispatchKeeps
<1> QED
  BY <1>3, <1>4, <1>7, <1>8 DEF SendMessage

\* The session that stays has not ended at this node.
LEMMA KeptIs ==
  ASSUME IInv, NEW n \in Nodes, NEW c \in Conns, Receives(n, c, "response")
  PROVE  KeptSession(n, c, TRUE) \in Conns /\ n \notin conn[KeptSession(n, c, TRUE)].gone
<1>1. Typed /\ Sessions
  BY TypedParts
<1>2. PICK p \in Nodes : p = Peer(c, n)
  BY ReceivesMade
<1>3. n \notin conn[c].gone
  BY ReceivesMade
<1>4. PICK old \in Conns \cup {None} : old = nodes[n][p]
  BY <1>1 DEF Typed
<1>5. old # None => n \notin conn[old].gone
  BY <1>1, <1>4 DEF Sessions
<1>6. KeptSession(n, c, TRUE) = IF old = None \/ DisconnectOld(n, p, TRUE) THEN c ELSE old
  BY <1>2, <1>4 DEF KeptSession
<1> QED
  BY <1>3, <1>5, <1>6

\* HandleRecvHandshakeResponse preserves the invariant.
LEMMA HandleRecvHandshakeResponseKeeps ==
  ASSUME IInv, NEW n \in Nodes, NEW c \in Conns, HandleRecvHandshakeResponse(n, c)
  PROVE  IInv'
<1>1. Typed /\ Connections /\ Queues
  BY TypedParts
<1>2. /\ Receives(n, c, "response") /\ CreateNodeSession(n, c, TRUE)
      /\ todo' = todo /\ bound' = bound /\ serving' = serving
      /\ got' = got /\ replied' = replied
  BY DEF HandleRecvHandshakeResponse
<1>3. conn[c] # NoConn /\ wire[c][n] # << >> /\ n \notin conn[c].gone /\ Peer(c, n) \in Nodes
  BY <1>2, ReceivesMade
<1>4. Continues(conn') /\ n \in conn'[c].known
  <2>1. PICK cs : conn' = Known(Closed(cs, n), c, n)
    BY DEF HandleRecvHandshakeResponse
  <2>2. Continues(Closed(cs, n))
    BY <1>1, ClosedContinues DEF Typed
  <2> QED
    BY <1>3, <2>1, <2>2, GreetedContinues
<1>5. SessionsMove
  BY <1>2, <1>3, <1>4, CreateEffect DEF SessionsMove
<1>6. CASE wire' = Consumed(n, c) /\ queue' = queue
  <2>1. WireFrame /\ \A K, x : Shift(K, x, c, n)
    BY <1>1, <1>3, <1>6, ConsumedShifts
  <2>2. wire' \in [Conns -> [Nodes -> Seq(Packets)]]
    BY <1>1, <1>3, <1>6, ConsumedAt DEF Typed
  <2>3. Typed'
    BY <1>1, <1>2, <1>4, <1>5, <1>6, <2>2 DEF Typed, Continues, SessionsMove
  <2>4. Messaging'
    BY <1>2, <1>6, <2>1, QuietMessages
  <2> QED
    BY <1>2, <1>4, <1>5, <1>6, <2>1, <2>3, <2>4, CalmStep DEF SessionsMove
<1>7. ASSUME NEW e \in Nodes, NEW dead, queue[n][e].to = KeptSession(n, c, TRUE),
             queue[n][e].pc \in {"handshake", "wait"},
             Flushed(n, c, e, Those(queue[n][e].msgs, Messages \ dead))
      PROVE  IInv'
  <2>1. PICK s \in Seq(Messages) : s = queue[n][e].msgs
    BY <1>1 DEF Typed, QueueType
  <2>2. PICK ms : ms = Those(s, Messages \ dead)
    OBVIOUS
  <2>3. \A i, j \in 1..Len(s) : s[i] = s[j] => i = j
    <3> SUFFICES ASSUME NEW i \in 1..Len(s), NEW j \in 1..Len(s), s[i] = s[j]
                 PROVE  i = j
      OBVIOUS
    <3>1. PICK x \in Messages : x = s[i]
      OBVIOUS
    <3>2. Queued(x, n, e, i) /\ Queued(x, n, e, j) /\ i \in Nat /\ j \in Nat
      BY <2>1, <3>1 DEF Queued
    <3>3. QueueOnce(x)
      BY TypedParts DEF OnePlace
    <3> QED
      BY <3>2, <3>3 DEF QueueOnce
  <2>4. /\ ms \in Seq(Messages) /\ Distinct(ms)
        /\ \A i \in 1..Len(ms) : \E j \in 1..Len(s) : s[j] = ms[i]
    <3>1. Distinct(s)
      BY <2>3 DEF Distinct
    <3>2. PICK S : S = Messages \ dead
      OBVIOUS
    <3>3. ms = Those(s, S)
      BY <2>2, <3>2
    <3> QED
      BY <3>1, <3>3, ThoseIs
  <2>5. \A j \in 1..Len(ms) : FindServiceEndpoint(NameOf[ms[j]]) = e
    <3>1. \A i \in 1..Len(queue[n][e].msgs) :
            FindServiceEndpoint(NameOf[queue[n][e].msgs[i]]) = e
      BY <1>1 DEF Queues
    <3> TAKE j \in 1..Len(ms)
    <3>2. PICK i \in 1..Len(s) : s[i] = ms[j]
      BY <2>4
    <3>3. FindServiceEndpoint(NameOf[s[i]]) = e
      BY <2>1, <3>1
    <3> QED
      BY <3>2, <3>3
  <2>6. \A j \in 1..Len(ms) : Loose(n, e, NoQueue, ms[j])
    <3> TAKE j \in 1..Len(ms)
    <3>1. PICK x \in Messages : x = ms[j]
      BY <2>4
    <3>2. PICK a \in 1..Len(s) : s[a] = x
      BY <2>4, <3>1
    <3>3. Queued(x, n, e, a) /\ a \in Nat
      BY <2>1, <3>2 DEF Queued
    <3>4. OnePlace(x) /\ InQueue(x)
      BY <3>3, TypedParts DEF InQueue
    <3>5. ~OnWire(Forwards, x) /\ x \notin todo' /\ got[x] = 0
      BY <1>2, <3>4 DEF OnePlace
    <3>6. \A k, f \in Nodes, i \in Nat : Queued(x, k, f, i) => k = n /\ f = e
      BY <3>3, <3>4 DEF OnePlace, QueueOnce
    <3>7. \A i \in 1..Len(NoQueue.msgs) : FALSE
      BY DEF NoQueue
    <3> QED
      BY <3>1, <3>5, <3>6, <3>7 DEF Loose
  <2>7. PICK w : w = Consumed(n, c)
    OBVIOUS
  <2>8. /\ w \in [Conns -> [Nodes -> Seq(Packets)]]
        /\ \A d \in Conns, k \in Nodes : d # c \/ k # n => w[d][k] = wire[d][k]
        /\ \A i \in 1..Len(w[c][n]) :
             i + 1 \in 1..Len(wire[c][n]) /\ w[c][n][i] = wire[c][n][i + 1]
    BY <1>1, <1>3, <2>7, ConsumedAt DEF Typed
  <2>9. Left(w, c, n)
    <3> SUFFICES ASSUME NEW K, NEW x, NEW d \in Conns, NEW k \in Nodes,
                        NEW i \in 1..Len(w[d][k]), w[d][k][i].kind \in K, w[d][k][i].msg = x
                 PROVE  Sent(K, x, d, k, IF d = c /\ k = n THEN i + 1 ELSE i)
      BY DEF Left
    <3>1. CASE d = c /\ k = n
      BY <2>8, <3>1 DEF Sent
    <3>2. CASE ~(d = c /\ k = n)
      BY <2>8, <3>2 DEF Sent
    <3> QED
      BY <3>1, <3>2
  <2>10. \A d \in Conns, k \in Nodes : wire[d][k] = << >> => w[d][k] = << >>
    BY <1>3, <2>8
  <2>11. n \notin conn[queue[n][e].to].gone
    BY <1>2, <1>7, KeptIs
  <2>12. PICK shut : shut = DuplicateSession(n, c, TRUE)
    OBVIOUS
  <2>13. Dispatch(n, e, ms, NoQueue, w, shut)
    BY <1>7, <2>1, <2>2, <2>7, <2>12 DEF Flushed
  <2>14. PICK q : q = NoQueue
    OBVIOUS
  <2>15. /\ q \in {queue[n][e], NoQueue} /\ Dispatch(n, e, ms, q, w, shut)
         /\ \A j \in 1..Len(ms) : Loose(n, e, q, ms[j])
    BY <2>6, <2>13, <2>14
  <2>16. /\ todo' \subseteq todo /\ bound' = bound /\ serving' = serving
         /\ got' = got /\ replied' = replied
    BY <1>2
  <2>17. q = queue[n][e] \/ queue[n][e].to = None \/ n \notin conn[queue[n][e].to].gone
    BY <2>11
  <2>18. Dispatching(n, e, ms, q, w, c, n, shut)
    BY <2>4, <2>5, <2>8, <2>9, <2>10, <2>15, <2>17 DEF Dispatching
  <2> QED
    BY <1>4, <1>5, <2>16, <2>18, DispatchKeeps
<1> QED
  BY <1>6, <1>7 DEF HandleRecvHandshakeResponse

(***************************************************************************)
(* The theorems.                                                           *)
(***************************************************************************)
LEMMA InitIInv == Init => IInv
<1> SUFFICES ASSUME Init PROVE IInv
  OBVIOUS
<1>1. /\ \A c \in Conns, n \in Nodes : conn[c] = NoConn /\ wire[c][n] = << >>
      /\ \A n, t \in Nodes : nodes[n][t] = None /\ queue[n][t] = NoQueue
      /\ \A n \in Nodes, name \in Names : bound[n][name] = None
      /\ \A m \in Messages : got[m] = 0 /\ replied[m] = 0
      /\ serving = {}
  BY DEF Init
<1>2. Typed
  <2>1. conn \in [Conns -> ConnType]
    BY Ids DEF Init
  <2>2. queue \in [Nodes -> [Nodes -> QueueType]]
    BY Ids DEF Init
  <2>3. << >> \in Seq(Packets)
    OBVIOUS
  <2>4. wire \in [Conns -> [Nodes -> Seq(Packets)]]
    BY <2>3 DEF Init
  <2> QED
    BY <2>1, <2>2, <2>4 DEF Init, Typed
<1>3. Connections
  <2>1. \A c \in Conns : conn[c] = NoConn
    BY DEF Init
  <2>2. NoConn.open = {}
    BY DEF NoConn
  <2> QED
    BY <1>1, <2>1, <2>2 DEF Connections
<1>4. Sessions
  BY <1>1 DEF Sessions
<1>5. Queues
  <2>1. NoQueue.pc = "none" /\ Len(NoQueue.msgs) = 0
    BY DEF NoQueue
  <2> QED
    BY <1>1, <2>1 DEF Queues
<1>6. ConnectingNameIsFree
  BY <1>1 DEF ConnectingNameIsFree, NoQueue
<1>7. NoStaleBinding
  BY <1>1, Ids DEF NoStaleBinding
<1>8. ASSUME NEW m \in Messages
      PROVE  OnePlace(m) /\ OneAnswer(m)
  <2>1. \A K, i : \A c \in Conns, n \in Nodes : ~Sent(K, m, c, n, i)
    BY <1>1 DEF Sent
  <2>2. \A i : \A n, e \in Nodes : ~Queued(m, n, e, i)
    BY <1>1 DEF Queued, NoQueue
  <2>3. \A K : WireOnce(K, m) /\ ~OnWire(K, m)
    BY <2>1 DEF WireOnce, OnWire
  <2>4. QueueOnce(m) /\ ~InQueue(m)
    BY <2>2 DEF QueueOnce, InQueue
  <2> QED
    BY <1>1, <2>3, <2>4 DEF OnePlace, OneAnswer
<1> QED
  BY <1>2, <1>3, <1>4, <1>5, <1>6, <1>7, <1>8 DEF IInv, Messaging

\* Handling preserves the invariant.
LEMMA HandlingKeeps ==
  ASSUME IInv, NEW n \in Nodes, NEW c \in Conns, Handling(n, c)
  PROVE  IInv'
<1>1. CASE HandleConnection(n, c)
  BY <1>1, HandleConnectionKeeps
<1>2. CASE HandleDisconnection(n, c)
  BY <1>2, HandleDisconnectionKeeps
<1>3. CASE HandleRecvInvalid(n, c)
  BY <1>3, HandleRecvInvalidKeeps
<1>9. CASE HandleRecvShifted(n, c)
  BY <1>9, HandleRecvShiftedKeeps
<1>4. CASE HandleRecvHandshakeRequest(n, c)
  BY <1>4, HandleRecvHandshakeRequestKeeps
<1>5. CASE HandleRecvHandshakeResponse(n, c)
  BY <1>5, HandleRecvHandshakeResponseKeeps
<1>6. CASE HandleRecvClusterSend(n, c)
  BY <1>6, HandleRecvClusterSendKeeps
<1>7. CASE HandleRecvClusterCall(n, c)
  BY <1>7, HandleRecvClusterCallKeeps
<1>8. CASE HandleRecvClusterReply(n, c)
  BY <1>8, HandleRecvClusterReplyKeeps
<1> QED
  BY <1>1, <1>2, <1>3, <1>4, <1>5, <1>6, <1>7, <1>8, <1>9 DEF Handling

\* A step that changes nothing.
LEMMA StutterKeeps ==
  ASSUME IInv, UNCHANGED vars
  PROVE  IInv'
<1>1. /\ todo' = todo /\ conn' = conn /\ wire' = wire /\ nodes' = nodes /\ bound' = bound
      /\ queue' = queue /\ serving' = serving /\ got' = got /\ replied' = replied
  BY DEF vars
<1>2. Typed
  BY TypedParts
<1>3. WireFrame /\ \A K, m : Shift(K, m, None, None)
  BY <1>1, SameWire
<1>4. Continues(conn')
  BY <1>1, <1>2, UnchangedContinues DEF Typed
<1>5. Typed'
  BY <1>1, <1>2 DEF Typed
<1>6. Messaging'
  BY <1>1, <1>3, QuietMessages
<1> QED
  BY <1>1, <1>3, <1>4, <1>5, <1>6, CalmStep

\* Every step keeps the inductive invariant.
LEMMA IInvStep == IInv /\ [Next]_vars => IInv'
<1> SUFFICES ASSUME IInv, [Next]_vars PROVE IInv'
  OBVIOUS
<1>1. ASSUME NEW m \in Messages, SendMessage(m)
      PROVE  IInv'
  BY <1>1, SendMessageKeeps
<1>2. ASSUME NEW n \in Nodes, NEW e \in Nodes, Opening(n, e) \/ ConnectFails(n, e)
      PROVE  IInv'
  BY <1>2, ConnectToKeeps, BindNameKeeps, SendHandshakeKeeps, ConnectFailsKeeps DEF Opening
<1>3. ASSUME NEW n \in Nodes, NEW c \in Conns,
             Handling(n, c) \/ ReadEnds(n, c) \/ Misread(n, c) \/ PacketsLost(n, c)
      PROVE  IInv'
  BY <1>3, HandlingKeeps, ReadEndsKeeps, MisreadKeeps, PacketsLostKeeps
<1>4. ASSUME NEW s \in serving, CallAnswered(s) \/ CallTimesOut(s)
      PROVE  IInv'
  BY <1>4, CallAnsweredKeeps, CallTimesOutKeeps
<1>5. CASE UNCHANGED vars
  BY <1>5, StutterKeeps
<1> QED
  BY <1>1, <1>2, <1>3, <1>4, <1>5 DEF Next

\* Connections, sessions, queues and messages fit together in every state:
\* the invariant that the properties of module/cluster rest on.
THEOREM Inductive == Spec => []IInv
<1>1. Init => IInv
  BY InitIInv
<1>2. IInv /\ [Next]_vars => IInv'
  BY IInvStep
<1> QED
  BY <1>1, <1>2, PTL DEF Spec

\* The assert of the coroutine that connects, res.second of the emplace in
\* HandleClusterCallOrSendMessage, never fails: while a connection is opened on
\* behalf of a name, no session is bound to that name.
THEOREM ConnectingNameIsFreeHolds == Spec => []ConnectingNameIsFree
<1>1. IInv => ConnectingNameIsFree
  BY DEF IInv
<1> QED
  BY <1>1, Inductive, PTL

\* DeleteNodeSession takes the session out of service_name_to_node_session_
\* for every name: only the emplace of a coroutine that is still connecting
\* can lead to a session that was destroyed.
THEOREM NoStaleBindingHolds == Spec => []NoStaleBinding
<1>1. IInv => NoStaleBinding
  BY DEF IInv
<1> QED
  BY <1>1, Inductive, PTL

\* The invariant says of a message what MessageInOnePlace says.
LEMMA OnePlaceOnly ==
  ASSUME IInv
  PROVE  MessageInOnePlace
<1> SUFFICES ASSUME NEW m \in Messages
             PROVE  (\A p, q \in Places(m) : p = q) /\ replied[m] <= got[m]
  BY DEF MessageInOnePlace
<1>1. OnePlace(m) /\ OneAnswer(m) /\ Typed
  BY TypedParts
<1>2. got[m] \in Nat /\ replied[m] \in Nat
  BY <1>1 DEF Typed
<1>3. got[m] \in {0, 1} /\ replied[m] \in {0, 1} /\ (replied[m] = 1 => got[m] = 1)
  BY <1>1, <1>2 DEF OnePlace, OneAnswer
<1>4. ASSUME NEW p \in Places(m)
      PROVE  \/ m \in todo /\ p = <<"todo", None, None, None>>
             \/ got[m] = 1 /\ p = <<"got", None, None, 1>>
             \/ \E n, e \in Nodes, i \in Nat : Queued(m, n, e, i) /\ p = <<"queue", n, e, i>>
             \/ \E c \in Conns, n \in Nodes, i \in Nat :
                  Sent(Forwards, m, c, n, i) /\ p = <<"wire", c, n, i>>
  <2>1. CASE p \in {<<"todo", None, None, None>> : x \in todo \cap {m}}
    BY <2>1
  <2>2. CASE p \in {<<"got", None, None, i>> : i \in 1..got[m]}
    BY <1>3, <2>2
  <2>3. CASE p \in UNION {{<<"queue", x[1], x[2], i>> :
                             i \in {j \in 1..Len(queue[x[1]][x[2]].msgs) :
                                      queue[x[1]][x[2]].msgs[j] = m}} : x \in Nodes \X Nodes}
    <3>1. PICK x \in Nodes \X Nodes, i \in Nat :
            /\ i \in 1..Len(queue[x[1]][x[2]].msgs) /\ queue[x[1]][x[2]].msgs[i] = m
            /\ p = <<"queue", x[1], x[2], i>>
      BY <2>3
    <3>2. PICK n \in Nodes, e \in Nodes : n = x[1] /\ e = x[2]
      OBVIOUS
    <3>3. Queued(m, n, e, i) /\ i \in Nat
      BY <3>1, <3>2 DEF Queued
    <3> QED
      BY <3>1, <3>2, <3>3
  <2>4. CASE p \in UNION {{<<"wire", x[1], x[2], i>> :
                             i \in {j \in 1..Len(wire[x[1]][x[2]]) :
                                      /\ wire[x[1]][x[2]][j].kind \in {"send", "call"}
                                      /\ wire[x[1]][x[2]][j].msg = m}} : x \in Conns \X Nodes}
    <3>1. PICK x \in Conns \X Nodes, i \in Nat :
            /\ i \in 1..Len(wire[x[1]][x[2]])
            /\ wire[x[1]][x[2]][i].kind \in {"send", "call"} /\ wire[x[1]][x[2]][i].msg = m
            /\ p = <<"wire", x[1], x[2], i>>
      BY <2>4
    <3>2. PICK c \in Conns, n \in Nodes : c = x[1] /\ n = x[2]
      OBVIOUS
    <3>3. Sent(Forwards, m, c, n, i) /\ i \in Nat
      BY <3>1, <3>2 DEF Sent, Forwards
    <3> QED
      BY <3>1, <3>2, <3>3
  <2> QED
    BY <2>1, <2>2, <2>3, <2>4 DEF Places
<1>5. ASSUME NEW p \in Places(m), NEW q \in Places(m)
      PROVE  p = q
  <2>1. CASE m \in todo
    <3>1. ~InQueue(m) /\ ~OnWire(Forwards, m) /\ got[m] = 0
      BY <1>1, <2>1 DEF OnePlace
    <3>2. \A r \in Places(m) : r = <<"todo", None, None, None>>
      BY <1>4, <3>1 DEF InQueue, OnWire
    <3> QED
      BY <3>2
  <2>2. CASE m \notin todo /\ got[m] = 1
    <3>1. ~InQueue(m) /\ ~OnWire(Forwards, m)
      BY <1>1, <2>2 DEF OnePlace
    <3>2. \A r \in Places(m) : r = <<"got", None, None, 1>>
      BY <1>4, <2>2, <3>1 DEF InQueue, OnWire
    <3> QED
      BY <3>2
  <2>3. CASE m \notin todo /\ got[m] = 0 /\ InQueue(m)
    <3>1. ~OnWire(Forwards, m)
      BY <1>1, <2>3 DEF OnePlace
    <3>2. \A r \in Places(m) :
            \E n, e \in Nodes, i \in Nat : Queued(m, n, e, i) /\ r = <<"queue", n, e, i>>
      BY <1>4, <2>3, <3>1 DEF OnWire
    <3>3. PICK n \in Nodes, e \in Nodes, i \in Nat :
            Queued(m, n, e, i) /\ p = <<"queue", n, e, i>>
      BY <3>2
    <3>4. PICK k \in Nodes, f \in Nodes, j \in Nat :
            Queued(m, k, f, j) /\ q = <<"queue", k, f, j>>
      BY <3>2
    <3>5. n = k /\ e = f /\ i = j
      BY <1>1, <3>3, <3>4 DEF OnePlace, QueueOnce
    <3> QED
      BY <3>3, <3>4, <3>5
  <2>4. CASE m \notin todo /\ got[m] = 0 /\ ~InQueue(m)
    <3>1. \A r \in Places(m) : \E c \in Conns, n \in Nodes, i \in Nat :
            Sent(Forwards, m, c, n, i) /\ r = <<"wire", c, n, i>>
      BY <1>4, <2>4 DEF InQueue
    <3>2. PICK c \in Conns, n \in Nodes, i \in Nat :
            Sent(Forwards, m, c, n, i) /\ p = <<"wire", c, n, i>>
      BY <3>1
    <3>3. PICK d \in Conns, k \in Nodes, j \in Nat :
            Sent(Forwards, m, d, k, j) /\ q = <<"wire", d, k, j>>
      BY <3>1
    <3>4. c = d /\ n = k /\ i = j
      BY <1>1, <3>2, <3>3 DEF OnePlace, WireOnce
    <3> QED
      BY <3>2, <3>3, <3>4
  <2> QED
    BY <1>3, <2>1, <2>2, <2>3, <2>4
<1>6. replied[m] <= got[m]
  BY <1>3
<1> QED
  BY <1>5, <1>6

\* A message is with its sender, in one queue, on one connection or with its
\* service, however often HandleRecvHandshakeResponse dispatches queues again
\* and CreateNodeSession closes connections; and it is answered at most once.
THEOREM MessageInOnePlaceHolds == Spec => []MessageInOnePlace
<1>1. IInv => MessageInOnePlace
  BY OnePlaceOnly
<1> QED
  BY <1>1, Inductive, PTL
=============================================================================

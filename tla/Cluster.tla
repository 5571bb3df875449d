-------------------------------- MODULE Cluster --------------------------------
(***************************************************************************)
(* module/cluster: the ClusterService of every node forwards messages for  *)
(* services of other nodes.  The first message for a service opens a       *)
(* connection, and waits in a queue while the two nodes shake hands; a     *)
(* second connection between two nodes is detected and closed.             *)
(*                                                                         *)
(* The handlers run one after the other on the thread of the service; a    *)
(* connection is opened by a coroutine on an io thread, and packets and    *)
(* disconnections are read by another.  The mailbox of the service keeps   *)
(* the order of one connection and no other, so a message of the io        *)
(* threads is handled straight from the wire.                              *)
(***************************************************************************)
EXTENDS Naturals, Sequences, FiniteSets, SequencesExt

CONSTANTS Nodes,      \* node ids
          Names,      \* service name ids
          Endpoints,  \* name -> sequence of nodes, read from the settings
          Messages,   \* what services forward to other nodes
          NodeOf,     \* message -> node of the service that sends it
          NameOf,     \* message -> name of the service it is for
          Calls,      \* messages that are calls: the sender awaits the answer
          MaxConns,   \* bound: connections
          MaxFaults   \* bound: failures of the network and of services

ASSUME ClusterAssumption ==
  /\ Nodes \subseteq Nat \ {0}
  /\ Endpoints \in [Names -> Seq(Nodes)]
  /\ NodeOf \in [Messages -> Nodes] /\ NameOf \in [Messages -> Names]
  /\ \A m \in Messages : NodeOf[m] \notin ToSet(Endpoints[NameOf[m]])
  /\ Calls \subseteq Messages
  /\ MaxConns \in Nat /\ MaxFaults \in Nat

Conns == 1..MaxConns
None == 0

VARIABLES
  todo,     \* messages that no service has sent yet
  conn,     \* the connections, see NewConn
  wire,     \* wire[c][n]: packets on their way to the service of n
  nodes,    \* nodes[n][t]: nodes_, the session of n with t
  bound,    \* bound[n][name]: service_name_to_node_session_
  queue,    \* queue[n][e]: node_session_message_queue_map_
  serving,  \* calls that a service of this node has not answered: [n, c, m]
  got,      \* got[m]: how often a service received m (history)
  replied,  \* replied[m]: how often the caller of m was answered (history)
  stopped,  \* nodes whose ClusterService was stopped by a timeout
  crashed,  \* an assert failed, or a destroyed session was used
  faults    \* number of faults so far, for the bound

vars == <<todo, conn, wire, nodes, bound, queue, serving, got, replied, stopped,
          crashed, faults>>

NoConn == [from |-> None, to |-> None, open |-> {}, hello |-> {}, known |-> {},
           gone |-> {}]
\* open: nodes with an open socket; hello, gone: nodes that have the message
\* about the connection before them, the one about its end behind them;
\* known: nodes that called set_node_id.
NewConn(n, e) == [from |-> n, to |-> e, open |-> {n, e}, hello |-> {n, e},
                  known |-> {}, gone |-> {}]
Peer(c, n) == IF conn[c].from = n THEN conn[c].to ELSE conn[c].from
Mine(n) == {c \in Conns : n \in {conn[c].from, conn[c].to}}
Connected(c, n) == n \in conn[c].open

\* pc is where the io coroutine is: ConnectTo, emplace, Send, or finished.
NoQueue == [pc |-> "none", name |-> "none", to |-> None, msgs |-> << >>]
NewQueue(name) == [pc |-> "connect", name |-> name, to |-> None, msgs |-> << >>]

Packet(kind, m) == [kind |-> kind, msg |-> m]
Request == Packet("request", None)
Response == Packet("response", None)
Garbled == Packet("garbled", None)
Shifted == Packet("shifted", None)
Misaligned == Packet("misaligned", None)
Forwarded(m) == Packet(IF m \in Calls THEN "call" ELSE "send", m)

Init ==
  /\ todo = Messages
  /\ conn = [c \in Conns |-> NoConn]
  /\ wire = [c \in Conns |-> [n \in Nodes |-> << >>]]
  /\ nodes = [n \in Nodes |-> [t \in Nodes |-> None]]
  /\ bound = [n \in Nodes |-> [name \in Names |-> None]]
  /\ queue = [n \in Nodes |-> [e \in Nodes |-> NoQueue]]
  /\ serving = {}
  /\ got = [m \in Messages |-> 0] /\ replied = [m \in Messages |-> 0]
  /\ stopped = {} /\ crashed = FALSE
  /\ faults = 0

-----------------------------------------------------------------------------
(* Sessions.                                                               *)

\* TcpConnection::Send: packets reach the other side if both ends are open.
Carried(w, c, n, packets) ==
  IF conn[c].open = {n, Peer(c, n)}
    THEN [w EXCEPT ![c][Peer(c, n)] = @ \o packets] ELSE w

Closed(cs, n) ==
  [c \in Conns |-> IF c \in cs THEN [conn[c] EXCEPT !.open = @ \ {n}] ELSE conn[c]]

Greeted(cs, c, n) == [cs EXCEPT ![c].hello = @ \ {n}]

\* node_session->set_node_id, for the session c of n.
Known(cs, c, n) == [Greeted(cs, c, n) EXCEPT ![c].known = @ \cup {n}]

DisconnectOld(n, t, active) == IF active THEN n > t ELSE t > n

\* CreateNodeSession: the session that stays in nodes_, the one that is closed.
KeptSession(n, c, active) ==
  LET old == nodes[n][Peer(c, n)] IN
  IF old = None \/ DisconnectOld(n, Peer(c, n), active) THEN c ELSE old

CreateNodeSession(n, c, active) ==
  nodes' = [nodes EXCEPT ![n][Peer(c, n)] = KeptSession(n, c, active)]

DuplicateSession(n, c, active) ==
  {c, nodes[n][Peer(c, n)]} \ {KeptSession(n, c, active), None}

\* Mutant of DeleteNodeSession: the names keep the session.
DeleteNodeSessionOnly(n, c) ==
  /\ nodes' = IF n \in conn[c].known
                THEN [nodes EXCEPT ![n][Peer(c, n)] = None] ELSE nodes
  /\ UNCHANGED bound

\* The entry of the node is erased whatever session it holds.
DeleteNodeSession(n, c) ==
  /\ nodes' = IF n \in conn[c].known
                THEN [nodes EXCEPT ![n][Peer(c, n)] = None] ELSE nodes
  /\ bound' = [bound EXCEPT ![n] =
       [name \in Names |-> IF @[name] = c THEN None ELSE @[name]]]

-----------------------------------------------------------------------------
(* Messages for other nodes.                                               *)

FindServiceEndpoint(name) ==
  IF Endpoints[name] = << >> THEN None ELSE Head(Endpoints[name])

\* The messages of ms that are in S, in their order.
Those(ms, S) ==
  LET kept[i \in 0..Len(ms)] ==
        IF i = 0 THEN << >>
        ELSE IF ms[i] \in S THEN Append(kept[i - 1], ms[i]) ELSE kept[i - 1]
  IN  kept[Len(ms)]

\* A bound session that was destroyed is used: anything may happen.
Dangling(n, ms) ==
  \E i \in 1..Len(ms) :
    /\ bound[n][NameOf[ms[i]]] # None
    /\ n \in conn[bound[n][NameOf[ms[i]]]].gone

\* Mutant of Dispatch: a session of the name is not looked for.
DispatchUnbound(n, e, ms, q, w, shut) ==
  /\ wire' = w
  /\ queue' = [queue EXCEPT ![n][e] =
       IF ms = << >> THEN q
       ELSE IF q.pc = "none" THEN [NewQueue(NameOf[Head(ms)]) EXCEPT !.msgs = ms]
       ELSE [q EXCEPT !.msgs = @ \o ms]]

\* HandleClusterCallOrSendMessage for the messages ms to endpoint e, one after
\* the other; q is the queue of the endpoint, w what is on the connections, and
\* shut the connections closed before.  What is bound is sent on its session,
\* the rest waits, and the first to wait opens a connection.
Dispatch(n, e, ms, q, w, shut) ==
  LET rest == Those(ms, {m \in Messages : bound[n][NameOf[m]] = None})
      Out(c) == LET mine == Those(ms, {m \in Messages : bound[n][NameOf[m]] = c})
                IN  [i \in 1..Len(mine) |-> Forwarded(mine[i])]
  IN
  /\ wire' = [c \in Conns |->
       IF c \in Mine(n) \ shut THEN Carried(w, c, n, Out(c))[c] ELSE w[c]]
  /\ queue' = [queue EXCEPT ![n][e] =
       IF rest = << >> THEN q
       ELSE IF q.pc = "none" THEN [NewQueue(NameOf[Head(rest)]) EXCEPT !.msgs = rest]
       ELSE [q EXCEPT !.msgs = @ \o rest]]

\* ClusterSendMessage, ClusterCallMessage: a service forwards m; a ClusterService
\* that was stopped takes no message.
SendMessage(m) ==
  LET n == NodeOf[m]
      e == FindServiceEndpoint(NameOf[m])
  IN
  /\ m \in todo
  /\ todo' = todo \ {m}
  /\ \/ /\ e = None \/ n \in stopped
        /\ UNCHANGED <<wire, queue, crashed>>
     \/ /\ e # None /\ n \notin stopped
        /\ Dispatch(n, e, <<m>>, queue[n][e], wire, {})
        /\ crashed' \in {FALSE, Dangling(n, <<m>>)}
  /\ UNCHANGED <<conn, nodes, bound, serving, got, replied, stopped, faults>>

-----------------------------------------------------------------------------
(* The coroutine on the io thread that opens a connection.                 *)

Fault == faults < MaxFaults /\ faults' = faults + 1

\* The queue is erased, and what waited in it is lost.
ConnectFails(n, e) ==
  /\ queue[n][e].pc = "connect"
  /\ Fault
  /\ queue' = [queue EXCEPT ![n][e] = NoQueue]
  /\ UNCHANGED <<todo, conn, wire, nodes, bound, serving, got, replied, crashed, stopped>>

ConnectTo(n, e) ==
  LET free == {c \in Conns : conn[c] = NoConn}
      c == CHOOSE d \in free : \A x \in free : d <= x
  IN
  /\ queue[n][e].pc = "connect"
  /\ free # {}
  /\ conn' = [conn EXCEPT ![c] = NewConn(n, e)]
  /\ queue' = [queue EXCEPT ![n][e].pc = "bind", ![n][e].to = c]
  /\ UNCHANGED <<todo, wire, nodes, bound, serving, got, replied, crashed, faults, stopped>>

\* service_name_to_node_session_.emplace and set_node_session.
BindName(n, e) ==
  LET q == queue[n][e] IN
  /\ q.pc = "bind"
  /\ queue' = [queue EXCEPT ![n][e].pc = "handshake"]
  /\ \/ bound[n][q.name] = None
        /\ bound' = [bound EXCEPT ![n][q.name] = q.to]
        /\ UNCHANGED crashed
     \/ bound[n][q.name] # None /\ crashed' = TRUE /\ UNCHANGED bound
  /\ UNCHANGED <<todo, conn, wire, nodes, serving, got, replied, faults, stopped>>

\* A packet is several calls of Send.  The service may send a message on the
\* bound session at the same time: then the pieces of the two are mixed.  If the
\* handshake comes between the size and the header of the message, or the other
\* way round, a packet comes out that does not parse.  If it comes behind the
\* header, the message gets a payload that is not its own, and what follows on
\* the connection is cut at the wrong places.
SendHandshake(n, e) ==
  LET c == queue[n][e].to
      ahead == wire[c][e]
  IN
  /\ queue[n][e].pc = "handshake"
  /\ queue' = [queue EXCEPT ![n][e].pc = "wait"]
  /\ \/ wire' = Carried(wire, c, n, <<Request>>)
     \/ /\ ahead # << >> /\ Connected(c, n) /\ Connected(c, e)
        /\ \E mix \in {<<Garbled>>, <<Shifted, Misaligned>>} :
             wire' = [wire EXCEPT ![c][e] = Front(ahead) \o mix]
  /\ UNCHANGED <<todo, conn, nodes, bound, serving, got, replied, crashed, faults, stopped>>

-----------------------------------------------------------------------------
(* Handlers of what the io threads report, at node n.                      *)

\* ClusterTcpConnectionMsg of a new connection: nothing is done, unless the
\* connection has ended already.  It is the first message of a connection:
\* when the next one is handled, hello is taken back.
HandleConnection(n, c) ==
  /\ n \in conn[c].hello /\ ~Connected(c, n)
  /\ conn' = [conn EXCEPT ![c].hello = @ \ {n}]
  /\ DeleteNodeSession(n, c)
  /\ UNCHANGED <<todo, wire, queue, serving, got, replied, crashed, faults, stopped>>

\* ClusterTcpConnectionMsg of a connection that ended, after all its packets.
HandleDisconnection(n, c) ==
  /\ c \in Mine(n) /\ ~Connected(c, n)
  /\ n \notin conn[c].gone
  /\ wire[c][n] = << >>
  /\ conn' = [Greeted(conn, c, n) EXCEPT ![c].gone = @ \cup {n}]
  /\ DeleteNodeSession(n, c)
  /\ UNCHANGED <<todo, wire, queue, serving, got, replied, crashed, faults, stopped>>

\* ClusterTcpRecvPacketMsg: the next packet of connection c is of this kind.
Receives(n, c, kind) == wire[c][n] # << >> /\ Head(wire[c][n]).kind = kind

Consumed(n, c) == [wire EXCEPT ![c][n] = Tail(@)]

HandleRecvInvalid(n, c) ==
  /\ Receives(n, c, "garbled")
  /\ wire' = Consumed(n, c)
  /\ conn' = Greeted(Closed({c}, n), c, n)
  /\ UNCHANGED <<todo, nodes, bound, queue, serving, got, replied, crashed, faults, stopped>>

\* A message for a service whose payload cannot be decoded.
HandleRecvShifted(n, c) ==
  /\ Receives(n, c, "shifted")
  /\ wire' = Consumed(n, c)
  /\ conn' = Greeted(conn, c, n)
  /\ UNCHANGED <<todo, nodes, bound, queue, serving, got, replied, crashed, faults, stopped>>

\* Mutant of HandleRecvHandshakeRequest: no answer when the node is known.
HandshakeRequestOnce(n, c) ==
  LET old == nodes[n][Peer(c, n)] IN
  /\ Receives(n, c, "request")
  /\ wire' = IF old = None THEN Carried(Consumed(n, c), c, n, <<Response>>)
                            ELSE Consumed(n, c)
  /\ CreateNodeSession(n, c, FALSE)
  /\ conn' = Known(Closed(DuplicateSession(n, c, FALSE) \cup ({old} \ {None}), n), c, n)
  /\ UNCHANGED <<todo, bound, queue, serving, got, replied, crashed, faults, stopped>>

\* The passive side: an old session is closed, the answer is sent in any case.
HandleRecvHandshakeRequest(n, c) ==
  LET old == nodes[n][Peer(c, n)] IN
  /\ Receives(n, c, "request")
  /\ wire' = Carried(Consumed(n, c), c, n, <<Response>>)
  /\ CreateNodeSession(n, c, FALSE)
  /\ conn' = Known(Closed(DuplicateSession(n, c, FALSE) \cup ({old} \ {None}), n), c, n)
  /\ UNCHANGED <<todo, bound, queue, serving, got, replied, crashed, faults, stopped>>

\* Mutant of Flushed: the queue is copied, not moved.
FlushedCopy(n, c, e, ms) ==
  Dispatch(n, e, ms, queue[n][e], Consumed(n, c), DuplicateSession(n, c, TRUE))

\* The queue is taken out of the map, and its messages are dispatched again.
Flushed(n, c, e, ms) ==
  Dispatch(n, e, ms, NoQueue, Consumed(n, c), DuplicateSession(n, c, TRUE))

\* The active side: the queue of the session that is kept is flushed, except
\* for messages whose sender is gone; there has to be such a queue.
HandleRecvHandshakeResponse(n, c) ==
  LET kept == KeptSession(n, c, TRUE)
      es == {e \in Nodes : queue[n][e].to = kept /\ queue[n][e].pc \in {"handshake", "wait"}}
  IN
  /\ Receives(n, c, "response")
  /\ CreateNodeSession(n, c, TRUE)
  /\ conn' = Known(Closed(DuplicateSession(n, c, TRUE), n), c, n)
  /\ \/ /\ es # {}
        /\ \E e \in es : \E dead \in SUBSET ToSet(queue[n][e].msgs) :
             LET ms == Those(queue[n][e].msgs, Messages \ dead) IN
             /\ faults + Cardinality(dead) <= MaxFaults
             /\ faults' = faults + Cardinality(dead)
             /\ Flushed(n, c, e, ms)
             /\ crashed' \in {FALSE, Dangling(n, ms)}
     \/ /\ es = {}
        /\ crashed' = TRUE
        /\ wire' = Consumed(n, c)
        /\ UNCHANGED <<queue, faults>>
  /\ UNCHANGED <<todo, bound, serving, got, replied, stopped>>

\* The service NameOf[m] of this node gets the message, if it exists.
HandleRecvClusterSend(n, c) ==
  LET m == Head(wire[c][n]).msg IN
  /\ Receives(n, c, "send")
  /\ wire' = Consumed(n, c)
  /\ conn' = Greeted(conn, c, n)
  /\ \/ got' = [got EXCEPT ![m] = @ + 1] /\ UNCHANGED faults
     \/ Fault /\ UNCHANGED got
  /\ UNCHANGED <<todo, nodes, bound, queue, serving, replied, crashed, stopped>>

\* A call: a coroutine waits for the answer of the service.
HandleRecvClusterCall(n, c) ==
  LET m == Head(wire[c][n]).msg IN
  /\ Receives(n, c, "call")
  /\ wire' = Consumed(n, c)
  /\ conn' = Greeted(conn, c, n)
  /\ \/ /\ got' = [got EXCEPT ![m] = @ + 1]
        /\ serving' = serving \cup {[n |-> n, c |-> c, m |-> m]}
        /\ UNCHANGED faults
     \/ Fault /\ UNCHANGED <<got, serving>>
  /\ UNCHANGED <<todo, nodes, bound, queue, replied, crashed, stopped>>

\* The answer goes back on the session of the call.
CallAnswered(s) ==
  /\ s.n \notin stopped
  /\ serving' = serving \ {s}
  /\ wire' = Carried(wire, s.c, s.n, <<Packet("reply", s.m)>>)
  /\ UNCHANGED <<todo, conn, nodes, bound, queue, got, replied, crashed, faults, stopped>>

\* Recv times out and throws, and so ServiceCore stops the whole service.
CallTimesOut(s) ==
  /\ s.n \notin stopped
  /\ Fault
  /\ serving' = serving \ {s}
  /\ stopped' = stopped \cup {s.n}
  /\ UNCHANGED <<todo, conn, wire, nodes, bound, queue, got, replied, crashed>>

HandleRecvClusterReply(n, c) ==
  LET m == Head(wire[c][n]).msg IN
  /\ Receives(n, c, "reply")
  /\ wire' = Consumed(n, c)
  /\ conn' = Greeted(conn, c, n)
  /\ \/ replied' = [replied EXCEPT ![m] = @ + 1] /\ UNCHANGED faults
     \/ Fault /\ UNCHANGED replied
  /\ UNCHANGED <<todo, nodes, bound, queue, serving, got, crashed, stopped>>

-----------------------------------------------------------------------------
(* The network.                                                            *)

\* The read loop of n ends: the other side closed, or the network failed.
ReadEnds(n, c) ==
  /\ c \in Mine(n) /\ Connected(c, n)
  /\ conn' = Closed({c}, n)
  /\ \/ ~Connected(c, Peer(c, n)) /\ UNCHANGED faults
     \/ Connected(c, Peer(c, n)) /\ Fault
  /\ UNCHANGED <<todo, wire, nodes, bound, queue, serving, got, replied, crashed, stopped>>

\* A length is read where none is.  If it is too large the loop ends.  If not,
\* it waits for that many bytes: nothing happens when they do not come, and when
\* they do ClusterService gets a packet that it refuses or does not know, or reads
\* past its end.
Misread(n, c) ==
  /\ c \in Mine(n) /\ Connected(c, n)
  /\ Misaligned \in ToSet(wire[c][n])
  /\ \/ conn' = Closed({c}, n) /\ UNCHANGED crashed
     \/ /\ Receives(n, c, "misaligned") /\ n \notin stopped
        /\ \/ /\ conn' \in {Greeted(conn, c, n), Greeted(Closed({c}, n), c, n)}
              /\ UNCHANGED crashed
           \/ crashed' = TRUE /\ UNCHANGED conn
  /\ UNCHANGED <<todo, wire, nodes, bound, queue, serving, got, replied, faults, stopped>>

\* What had not been read when the end closed is lost.
PacketsLost(n, c) ==
  /\ c \in Mine(n) /\ ~Connected(c, n)
  /\ wire[c][n] # << >>
  /\ wire' = [wire EXCEPT ![c][n] = << >>]
  /\ UNCHANGED <<todo, conn, nodes, bound, queue, serving, got, replied, crashed, faults, stopped>>

-----------------------------------------------------------------------------

Opening(n, e) == ConnectTo(n, e) \/ BindName(n, e) \/ SendHandshake(n, e)

Handling(n, c) ==
  /\ n \notin stopped
  /\ \/ HandleConnection(n, c) \/ HandleDisconnection(n, c)
     \/ HandleRecvInvalid(n, c) \/ HandleRecvShifted(n, c)
     \/ HandleRecvHandshakeRequest(n, c) \/ HandleRecvHandshakeResponse(n, c)
     \/ HandleRecvClusterSend(n, c) \/ HandleRecvClusterCall(n, c)
     \/ HandleRecvClusterReply(n, c)

Next ==
  /\ ~crashed
  /\ \/ \E m \in Messages : SendMessage(m)
     \/ \E n, e \in Nodes : Opening(n, e) \/ ConnectFails(n, e)
     \/ \E n \in Nodes, c \in Conns :
          Handling(n, c) \/ ReadEnds(n, c) \/ Misread(n, c) \/ PacketsLost(n, c)
     \/ \E s \in serving : CallAnswered(s) \/ CallTimesOut(s)

Spec == Init /\ [][Next]_vars

\* The threads of every node go on: handlers run, and the io coroutines too.
Fairness ==
  /\ \A n, e \in Nodes : WF_vars(~crashed /\ Opening(n, e))
  /\ \A n \in Nodes, c \in Conns : WF_vars(~crashed /\ Handling(n, c))

FairSpec == Spec /\ Fairness

-----------------------------------------------------------------------------
(* Properties.                                                             *)

\* Where message m is: with its sender, in a queue, on a connection, or with
\* the service it is for.
Places(m) ==
  LET Queued(n, e) == {i \in 1..Len(queue[n][e].msgs) : queue[n][e].msgs[i] = m}
      Sent(c, n) == {i \in 1..Len(wire[c][n]) :
                       wire[c][n][i].kind \in {"send", "call"} /\ wire[c][n][i].msg = m}
  IN  {<<"todo", None, None, None>> : x \in todo \cap {m}}
      \cup {<<"got", None, None, i>> : i \in 1..got[m]}
      \cup (UNION {{<<"queue", x[1], x[2], i>> : i \in Queued(x[1], x[2])} : x \in Nodes \X Nodes})
      \cup (UNION {{<<"wire", x[1], x[2], i>> : i \in Sent(x[1], x[2])} : x \in Conns \X Nodes})

\* A message that is forwarded is in one place - with its sender, in one
\* queue, on one connection, or with the service it is for - or it is lost: it
\* is never delivered twice, whatever is queued, dispatched again, connected
\* twice or closed on the way, and its answer does not come twice.
MessageInOnePlace ==
  \A m \in Messages : (\A p, q \in Places(m) : p = q) /\ replied[m] <= got[m]

\* assert(res.second) in the io coroutine: while it connects on behalf of a
\* name nobody else binds that name, although queues are kept by endpoint and
\* sessions by name, and neither map outlives a connection in the same way.
ConnectingNameIsFree ==
  \A n, e \in Nodes :
    queue[n][e].pc \in {"connect", "bind"} => bound[n][queue[n][e].name] = None

\* A name leads to a connection that this node has dropped only while the queue
\* is there for which the connection was opened on behalf of this name: its
\* coroutine may bind the name after the disconnection was handled.  Any other
\* binding is gone with DeleteNodeSession, which is called once for a connection.
NoStaleBinding ==
  \A n \in Nodes, name \in Names, c \in Conns :
    bound[n][name] = c /\ n \in conn[c].gone =>
      \E e \in Nodes : queue[n][e].to = c /\ queue[n][e].name = name

Waits(n, e) ==
  queue[n][e].to # None /\ conn[queue[n][e].to].open = {n, e}

\* What the handshake of this queue was mixed with has shifted the packets.
Unreadable(n, e) == Misaligned \in ToSet(wire[queue[n][e].to][e])

\* Messages that wait for a handshake leave the queue when the connection stays
\* up: the peer answers, and the answer is matched with the queue.  Unless one
\* of the two services is stopped, which no socket tells the other, or the pieces
\* of the handshake were mixed with those of a message in the one order that the
\* peer does not refuse: then nobody clears the queue (the comment above
\* NodeSessionMessageQueue says that this is still missing).
HandshakeFlushes ==
  \A n \in Nodes : \A e \in Nodes \ {n} :
    Waits(n, e) ~>
      (~Waits(n, e) \/ {n, e} \cap stopped # {} \/ crashed \/ Unreadable(n, e))
=============================================================================

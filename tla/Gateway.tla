-------------------------------- MODULE Gateway --------------------------------
(***************************************************************************)
(* module/gateway and module/agent: the GatewayService between the TCP     *)
(* connections of users and the services that answer their packets.        *)
(*                                                                         *)
(* For every connection the service sends itself a message; the session id *)
(* of that message is the agent_id of the user, and the coroutine that     *)
(* handles it waits for replies to that id until the user disconnects.     *)
(* Packets are forwarded with the agent_id, first to the user service,     *)
(* then to the agent that AgentMgrService had created for the user.        *)
(*                                                                         *)
(* The mailbox of the service is a queue that io threads, other services   *)
(* and the service itself append to.  Where a packet comes from is kept    *)
(* with it (field asker), to compare it with where its answer goes.        *)
(***************************************************************************)
EXTENDS Naturals, Sequences, FiniteSets, SequencesExt

CONSTANTS Conns,       \* connections of users
          MaxPackets,  \* bound: packets received
          MaxLogins,   \* bound: logins
          MaxResets,   \* bound: GatewayResetAgentId messages
          MaxMail      \* bound: length of the mailbox when others append to it

ASSUME GatewayAssumption ==
  /\ {MaxPackets, MaxLogins, MaxResets, MaxMail} \subseteq Nat
  /\ IsFiniteSet(Conns) /\ "none" \notin Conns

VARIABLES
  sock,      \* sock[c]: "none", "open", "closed", and "gone" when the io thread
             \* has reported the end
  agent_id,  \* agent_id_ of the UserSession; 0 is kSessionIdInvalid
  handle,    \* agent_handle_ of the UserSession: an agent, or UserService
  mailbox,   \* messages of the GatewayService
  waiting,   \* waiting[id]: the connection whose coroutine waits for id, or None
  user,      \* user_service_ is set
  asked,     \* packets at the user service and at agents: [id, asker, at]
  logins,    \* AgentMgrLoginReq being handled: [id, asker, a]
  mgr,       \* no timeout has stopped AgentMgrService
  agents,    \* agents that live, by number
  owner,     \* owner[a]: the connection agent a was created for (history)
  answers,   \* how answers were handled: [asker, to] (history)
  reset,     \* connections whose agent_id was reset (history)
  late,      \* those reset after their end was handled (history)
  used       \* numbers drawn so far: [ids, packets, logins, resets]

vars == <<sock, agent_id, handle, mailbox, waiting, user, asked, logins, mgr,
          agents, owner, answers, reset, late, used>>

None == "none"
Invalid == 0
UserService == 0
Agents == 1..MaxLogins
Ids == 1..(Cardinality(Conns) + MaxResets)

---------------------------------------------------------------------------
(* Messages of the mailbox.                                                *)

TcpConnection(c) == [t |-> "GatewayTcpConnection", c |-> c]
TcpRecvPacket(c) == [t |-> "GatewayTcpRecvPacket", c |-> c]
PersistentUserSession(c, id) == [t |-> "GatewayPersistentUserSession", c |-> c,
                                 id |-> id]
RegisterUserService == [t |-> "GatewayRegisterUserServiceReq"]
\* A message whose session id is the reply id of id; kind is its type.
Reply(id, kind, x) == [t |-> "Reply", id |-> id, kind |-> kind, x |-> x]

Init ==
  /\ sock = [c \in Conns |-> "none"]
  /\ agent_id = [c \in Conns |-> Invalid]
  /\ handle = [c \in Conns |-> UserService]
  /\ mailbox = <<>>
  /\ waiting = [id \in Ids |-> None]
  /\ user = FALSE
  /\ owner = [a \in Agents |-> None]
  /\ asked = {} /\ logins = {} /\ mgr = TRUE /\ agents = {}
  /\ answers = {} /\ reset = {} /\ late = {}
  /\ used = [ids |-> 0, packets |-> 0, logins |-> 0, resets |-> 0]

\* Another thread appends to the mailbox.
Post(m) == Len(mailbox) < MaxMail /\ mailbox' = Append(mailbox, m)

---------------------------------------------------------------------------
(* The io threads: the callbacks that OnStart sets.                        *)

Connect(c) ==
  /\ sock[c] = "none"
  /\ sock' = [sock EXCEPT ![c] = "open"]
  /\ Post(TcpConnection(c))
  /\ UNCHANGED <<agent_id, handle, waiting, user, asked, logins, mgr, agents, owner,
                 answers, reset, late, used>>

RecvPacket(c) ==
  /\ sock[c] = "open" /\ used.packets < MaxPackets
  /\ used' = [used EXCEPT !.packets = @ + 1]
  /\ Post(TcpRecvPacket(c))
  /\ UNCHANGED <<sock, agent_id, handle, waiting, user, asked, logins, mgr, agents,
                 owner, answers, reset, late>>

\* The socket is closed, by the user or after a failed read or write ...
Close(c) ==
  /\ sock[c] = "open"
  /\ sock' = [sock EXCEPT ![c] = "closed"]
  /\ UNCHANGED <<agent_id, handle, mailbox, waiting, user, asked, logins, mgr, agents,
                 owner, answers, reset, late, used>>

\* ... and then the callback is called again.
ReportClose(c) ==
  /\ sock[c] = "closed"
  /\ sock' = [sock EXCEPT ![c] = "gone"]
  /\ Post(TcpConnection(c))
  /\ UNCHANGED <<agent_id, handle, waiting, user, asked, logins, mgr, agents, owner,
                 answers, reset, late, used>>

---------------------------------------------------------------------------
(* The handlers of GatewayService.                                         *)

Handles(type) == mailbox # <<>> /\ Head(mailbox).t = type
Message == Head(mailbox)
Rest == Tail(mailbox)

\* Mutant: the ids of finished sessions are used again.
NewSessionReused ==
  LET taken(id) == \/ waiting[id] # None
                   \/ \E c \in Conns : agent_id[c] = id /\ sock[c] # "gone"
  IN  CHOOSE id \in Ids : ~taken(id) /\ \A k \in 1..(id - 1) : taken(k)
\* Session ids grow.
NewSession == used.ids + 1

\* Mutant: the id of the session is not kept.
ConnectedForgets(c) ==
  /\ mailbox' = Append(Rest, PersistentUserSession(c, NewSession))
  /\ used' = [used EXCEPT !.ids = @ + 1]
  /\ UNCHANGED agent_id
\* The connection is new: the service sends itself a message and keeps its id.
Connected(c) ==
  /\ mailbox' = Append(Rest, PersistentUserSession(c, NewSession))
  /\ agent_id' = [agent_id EXCEPT ![c] = NewSession]
  /\ used' = [used EXCEPT !.ids = @ + 1]

\* The handler asks the socket, not the message: the end of a connection may
\* be seen twice, its beginning never.
GatewayTcpConnection ==
  /\ Handles("GatewayTcpConnection")
  /\ LET c == Message.c IN
     IF sock[c] = "open" THEN Connected(c)
     ELSE /\ mailbox' = Append(Rest, Reply(agent_id[c],
                                           "GatewayPersistentUserSession", c))
          /\ UNCHANGED <<agent_id, used>>
  /\ UNCHANGED <<sock, handle, waiting, user, asked, logins, mgr, agents, owner,
                 answers, reset, late>>

\* The coroutine starts and waits for replies to its id, without a timeout.
GatewayPersistentUserSession ==
  /\ Handles("GatewayPersistentUserSession")
  /\ waiting' = [waiting EXCEPT ![Message.id] = Message.c]
  /\ mailbox' = Rest
  /\ UNCHANGED <<sock, agent_id, handle, user, asked, logins, mgr, agents, owner,
                 answers, reset, late, used>>

\* A packet is forwarded to the agent if it lives, else to the user service.
\* It is dropped if it is shorter than its header or does not decode.
GatewayTcpRecvPacket(good) ==
  /\ Handles("GatewayTcpRecvPacket")
  /\ LET c == Message.c
         to == IF handle[c] \in agents THEN handle[c] ELSE UserService
         sent == good /\ (to = UserService => user)
     IN  asked' = IF sent
                  THEN asked \union {[id |-> agent_id[c], asker |-> c, at |-> to]}
                  ELSE asked
  /\ mailbox' = Rest
  /\ UNCHANGED <<sock, agent_id, handle, waiting, user, logins, mgr, agents, owner,
                 answers, reset, late, used>>

GatewayRegisterUserServiceReq ==
  /\ Handles("GatewayRegisterUserServiceReq")
  /\ user' = TRUE
  /\ mailbox' = Rest
  /\ UNCHANGED <<sock, agent_id, handle, waiting, asked, logins, mgr, agents, owner,
                 answers, reset, late, used>>

\* A reply finds the coroutine that waits for its id, or is dropped.
Waiter(id) == IF id = Invalid THEN None ELSE waiting[id]

\* An answer is encoded and sent to the connection; EncodeMessage fails for a
\* message of no registered file.
ReplyAnswer(encoded) ==
  /\ Handles("Reply") /\ Message.kind = "ProtoMessage"
  /\ answers' = IF encoded
                THEN answers \union {[asker |-> Message.x, to |-> Waiter(Message.id)]}
                ELSE answers
  /\ mailbox' = Rest
  /\ UNCHANGED <<sock, agent_id, handle, waiting, user, asked, logins, mgr, agents,
                 owner, reset, late, used>>

ReplySureAgent ==
  /\ Handles("Reply") /\ Message.kind = "GatewaySureAgent"
  /\ handle' = [c \in Conns |-> IF c = Waiter(Message.id) THEN Message.x ELSE handle[c]]
  /\ mailbox' = Rest
  /\ UNCHANGED <<sock, agent_id, waiting, user, asked, logins, mgr, agents, owner,
                 answers, reset, late, used>>

\* The coroutine gives the connection another id, sends its own message again
\* under that id, and ends.
ReplyResetAgentId ==
  /\ Handles("Reply") /\ Message.kind = "GatewayResetAgentId"
  /\ LET c == Waiter(Message.id) IN
     IF c = None THEN mailbox' = Rest /\ UNCHANGED <<agent_id, waiting, reset, late>>
     ELSE /\ agent_id' = [agent_id EXCEPT ![c] = Message.x]
          /\ mailbox' = Append(Rest, PersistentUserSession(c, Message.x))
          /\ waiting' = [waiting EXCEPT ![Message.id] = None]
          /\ reset' = reset \union {c}
          /\ late' = IF sock[c] = "gone" /\ TcpConnection(c) \notin ToSet(Rest)
                     THEN late \union {c} ELSE late
  /\ UNCHANGED <<sock, handle, user, asked, logins, mgr, agents, owner, answers, used>>

\* The reply of GatewayTcpConnection ends the coroutine.
ReplyPersistent ==
  /\ Handles("Reply") /\ Message.kind = "GatewayPersistentUserSession"
  /\ waiting' = IF Message.id = Invalid THEN waiting
                ELSE [waiting EXCEPT ![Message.id] = None]
  /\ mailbox' = Rest
  /\ UNCHANGED <<sock, agent_id, handle, user, asked, logins, mgr, agents, owner,
                 answers, reset, late, used>>

---------------------------------------------------------------------------
(* The other services.  The user service and the handlers of an agent are  *)
(* code of the application; AgentMgrService is module/agent.               *)

\* The user service registers.
Register ==
  /\ ~user /\ RegisterUserService \notin ToSet(mailbox)
  /\ Post(RegisterUserService)
  /\ UNCHANGED <<sock, agent_id, handle, waiting, user, asked, logins, mgr, agents,
                 owner, answers, reset, late, used>>

\* What a handler of the user service, or the logic handle that the agent
\* finds for the message, returns is the reply.
Answer(q) ==
  /\ q \in asked
  /\ asked' = asked \ {q}
  /\ Post(Reply(q.id, "ProtoMessage", q.asker))
  /\ UNCHANGED <<sock, agent_id, handle, waiting, user, logins, mgr, agents, owner,
                 answers, reset, late, used>>

\* The user service, with a packet at hand, asks AgentMgrService for an agent.
Login(q) ==
  /\ q \in asked /\ q.at = UserService /\ mgr /\ used.logins < MaxLogins
  /\ used' = [used EXCEPT !.logins = @ + 1]
  /\ logins' = logins \union {[id |-> q.id, asker |-> q.asker, a |-> used.logins + 1]}
  /\ UNCHANGED <<sock, agent_id, handle, mailbox, waiting, user, asked, mgr, agents,
                 owner, answers, reset, late>>

\* AgentMgrLoginReq: the node manager creates an agent, or fails.
AgentMgrLoginReq(l, made) ==
  /\ l \in logins
  /\ logins' = logins \ {l}
  /\ IF made THEN /\ agents' = agents \union {l.a}
                  /\ owner' = [owner EXCEPT ![l.a] = l.asker]
                  /\ Post(Reply(l.id, "GatewaySureAgent", l.a))
     ELSE UNCHANGED <<agents, owner, mailbox>>
  /\ UNCHANGED <<sock, agent_id, handle, waiting, user, asked, mgr, answers, reset,
                 late, used>>

\* The Call to the node manager times out and throws: AgentMgrService stops.
LoginTimesOut(l) ==
  /\ l \in logins
  /\ mgr' = FALSE /\ logins' = {}
  /\ UNCHANGED <<sock, agent_id, handle, mailbox, waiting, user, asked, agents,
                 owner, answers, reset, late, used>>

\* An agent exits, and what it has not answered is lost.
AgentExits(a) ==
  /\ a \in agents
  /\ agents' = agents \ {a}
  /\ asked' = {q \in asked : q.at # a}
  /\ UNCHANGED <<sock, agent_id, handle, mailbox, waiting, user, logins, mgr, owner,
                 answers, reset, late, used>>

\* A service of the application moves the user of agent_id id to a new id.
ResetAgentId(c) ==
  /\ agent_id[c] # Invalid /\ used.resets < MaxResets
  /\ used' = [used EXCEPT !.resets = @ + 1, !.ids = @ + 1]
  /\ Post(Reply(agent_id[c], "GatewayResetAgentId", NewSession))
  /\ UNCHANGED <<sock, agent_id, handle, waiting, user, asked, logins, mgr, agents,
                 owner, answers, reset, late>>

---------------------------------------------------------------------------

Handle ==
  \/ GatewayTcpConnection \/ GatewayPersistentUserSession
  \/ GatewayRegisterUserServiceReq
  \/ \E ok \in BOOLEAN : GatewayTcpRecvPacket(ok) \/ ReplyAnswer(ok)
  \/ ReplySureAgent \/ ReplyResetAgentId \/ ReplyPersistent

Next ==
  \/ Handle \/ Register
  \/ \E c \in Conns : \/ Connect(c) \/ Close(c) \/ ReportClose(c) \/ ResetAgentId(c)
                      \/ RecvPacket(c)
  \/ \E q \in asked : Login(q) \/ Answer(q)
  \/ \E l \in logins : LoginTimesOut(l) \/ \E made \in BOOLEAN : AgentMgrLoginReq(l, made)
  \/ \E a \in agents : AgentExits(a)

Spec == Init /\ [][Next]_vars

\* The gateway is scheduled while it has messages, and an io thread that
\* closed a socket goes on to the callback.
FairSpec == /\ Spec /\ WF_vars(Handle)
            /\ \A c \in Conns : WF_vars(ReportClose(c))

---------------------------------------------------------------------------
(* Properties.                                                             *)

\* The answer to a packet goes to the connection the packet came from.  It is
\* dropped only if that connection has been closed or its agent_id was reset
\* in the meantime: the coroutine waits before the first answer can come.  And
\* the agent of a connection is one that was created for it.
AnswersToAsker ==
  /\ \A a \in answers :
       \/ a.to = a.asker
       \/ a.to = None /\ (sock[a.asker] \in {"closed", "gone"} \/ a.asker \in reset)
  /\ \A c \in Conns : handle[c] = UserService \/ owner[handle[c]] = c

\* Once a user is disconnected, its coroutine, which has no timeout, ends and
\* no other one starts, unless its agent_id is reset after that.
SessionEnds ==
  \A c \in Conns :
    sock[c] = "closed" ~>
      \/ c \in late
      \/ \A id \in Ids : /\ waiting[id] # c
                         /\ PersistentUserSession(c, id) \notin ToSet(mailbox)
=============================================================================

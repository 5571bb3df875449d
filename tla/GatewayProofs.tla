----------------------------- MODULE GatewayProofs -----------------------------
(***************************************************************************)
(* Proofs about Gateway, for any finite set of connections and any number  *)
(* of packets, logins and resets.                                          *)
(***************************************************************************)
EXTENDS Gateway, FiniteSetTheorems, TLAPS

(***************************************************************************)
(* The argument: every session id belongs to one connection, from the time *)
(* it is drawn.  Nothing in the code records to which; f does, and all     *)
(* that is said about f is that such a function exists.                    *)
(***************************************************************************)
Owners == [Ids -> Conns \cup {None}]

\* A message, a packet or a login that carries id i comes from connection c.
Carries(f, i, c) == i = Invalid \/ (i \in Ids /\ f[i] = c)

Messages ==
  [t : {"GatewayTcpConnection", "GatewayTcpRecvPacket"}, c : Conns]
    \cup [t : {"GatewayPersistentUserSession"}, c : Conns, id : Ids]
    \cup {RegisterUserService}
    \cup [t : {"Reply"}, id : Ids \cup {Invalid},
          kind : {"ProtoMessage", "GatewaySureAgent", "GatewayResetAgentId",
                  "GatewayPersistentUserSession"},
          x : Conns \cup Agents \cup Ids]

Typed ==
  /\ mailbox \in Seq(Messages)
  /\ sock \in [Conns -> {"none", "open", "closed", "gone"}]
  /\ agent_id \in [Conns -> Ids \cup {Invalid}]
  /\ handle \in [Conns -> Agents \cup {UserService}]
  /\ waiting \in [Ids -> Conns \cup {None}]
  /\ owner \in [Agents -> Conns \cup {None}]
  /\ used \in [ids : Nat, packets : Nat, logins : Nat, resets : Nat]
  /\ used.logins <= MaxLogins /\ used.resets <= MaxResets

\* The ids: the ones that are drawn are given to connections that have an id,
\* the others to nobody, and there are enough of them.
Linked == {c \in Conns : agent_id[c] # Invalid}

IdsDrawn(f) ==
  /\ \A i \in Ids : i > used.ids => f[i] = None
  /\ \A i \in Ids : f[i] # None => agent_id[f[i]] # Invalid
  /\ \A c \in Conns : agent_id[c] # Invalid => f[agent_id[c]] = c
  /\ \A i \in Ids : waiting[i] \in {None, f[i]}
  /\ \A c \in Conns : sock[c] = "none" => agent_id[c] = Invalid
  /\ used.ids <= used.resets + Cardinality(Linked)

\* What a message of the mailbox says is about the connection its id is of.
MessageOK(f, own, sk, m) ==
  /\ m.t \in {"GatewayTcpConnection", "GatewayTcpRecvPacket", "GatewayPersistentUserSession"} =>
       m.c \in Conns /\ sk[m.c] # "none"
  /\ m.t = "GatewayPersistentUserSession" => m.id \in Ids /\ f[m.id] = m.c
  /\ m.t = "Reply" =>
       /\ m.kind = "ProtoMessage" =>
            m.x \in Conns /\ sk[m.x] # "none" /\ Carries(f, m.id, m.x)
       /\ m.kind = "GatewaySureAgent" =>
            m.x \in Agents /\ own[m.x] \in Conns /\ Carries(f, m.id, own[m.x])
       /\ m.kind = "GatewayResetAgentId" =>
            m.id \in Ids /\ m.x \in Ids /\ f[m.x] \in Conns /\ f[m.id] = f[m.x]
       /\ m.kind = "GatewayPersistentUserSession" =>
            m.x \in Conns /\ sk[m.x] \in {"closed", "gone"} /\ Carries(f, m.id, m.x)

MailOK(f) == \A n \in 1..Len(mailbox) : MessageOK(f, owner, sock, mailbox[n])

\* The same for packets and logins; and the agent of a login is a new one.
PacketsOK(f) ==
  \A q \in asked : q.asker \in Conns /\ sock[q.asker] # "none" /\ Carries(f, q.id, q.asker)

LoginsOK(f) ==
  /\ \A l \in logins : /\ l.asker \in Conns /\ Carries(f, l.id, l.asker)
                       /\ l.a \in Agents /\ l.a <= used.logins /\ owner[l.a] = None
  /\ \A l, k \in logins : l.a = k.a => l = k
  /\ \A a \in Agents : a > used.logins => owner[a] = None

\* The order of the mailbox.
Opens(m, c) == m.t = "GatewayTcpConnection" /\ m.c = c
IsPacket(m, c) == m.t = "GatewayTcpRecvPacket" /\ m.c = c
IsAnswer(m, c) == m.t = "Reply" /\ m.kind = "ProtoMessage" /\ m.x = c
Starts(m, c, i) == m.t = "GatewayPersistentUserSession" /\ m.c = c /\ m.id = i

\* A connection without an id was announced before its packets came, and the
\* announcement is handled once.
Announced(c) ==
  sock[c] = "open" =>
    /\ \A m, n \in 1..Len(mailbox) : Opens(mailbox[m], c) /\ Opens(mailbox[n], c) => m = n
    /\ agent_id[c] # Invalid => \A n \in 1..Len(mailbox) : ~Opens(mailbox[n], c)
    /\ agent_id[c] = Invalid =>
         /\ \E m \in 1..Len(mailbox) :
              Opens(mailbox[m], c) /\ \A n \in 1..Len(mailbox) : IsPacket(mailbox[n], c) => m < n
         /\ \A n \in 1..Len(mailbox) : ~IsAnswer(mailbox[n], c)
         /\ \A q \in asked : q.asker # c

\* The coroutine of a connection waits, or it starts before any answer comes.
Awaited(c) ==
  sock[c] = "open" /\ c \notin reset /\ agent_id[c] # Invalid =>
    /\ \A q \in asked : q.asker = c => q.id = agent_id[c]
    /\ \A n \in 1..Len(mailbox) : IsAnswer(mailbox[n], c) => mailbox[n].id = agent_id[c]
    /\ \/ waiting[agent_id[c]] = c
       \/ \E m \in 1..Len(mailbox) :
            /\ Starts(mailbox[m], c, agent_id[c])
            /\ \A n \in 1..Len(mailbox) : IsAnswer(mailbox[n], c) => m < n

AnswersKnown == \A a \in answers : a.asker \in Conns

Inv(f) ==
  /\ Typed /\ IdsDrawn(f) /\ MailOK(f) /\ PacketsOK(f) /\ LoginsOK(f)
  /\ \A c \in Conns : Announced(c)
  /\ \A c \in Conns : Awaited(c)
  /\ AnswersKnown /\ AnswersToAsker

IInv == \E f \in Owners : Inv(f)

(***************************************************************************)
(* Lemmas about messages and the mailbox.                                  *)
(***************************************************************************)

\* The fields of the messages that the model makes.
LEMMA ConnectionMessages ==
  ASSUME NEW c \in Conns
  PROVE  /\ TcpConnection(c) \in Messages /\ TcpConnection(c).c = c
         /\ TcpConnection(c).t = "GatewayTcpConnection"
         /\ TcpRecvPacket(c) \in Messages /\ TcpRecvPacket(c).c = c
         /\ TcpRecvPacket(c).t = "GatewayTcpRecvPacket"
BY DEF TcpConnection, TcpRecvPacket, Messages

\* The message that starts the coroutine of a connection.
LEMMA SessionMessages ==
  ASSUME NEW c \in Conns, NEW i \in Ids
  PROVE  LET m == PersistentUserSession(c, i) IN
         m \in Messages /\ m.t = "GatewayPersistentUserSession" /\ m.c = c /\ m.id = i
BY DEF PersistentUserSession, Messages

\* The replies to a session id.
LEMMA ReplyMessages ==
  ASSUME NEW i \in Ids \cup {Invalid}, NEW x \in Conns \cup Agents \cup Ids,
         NEW kind \in {"ProtoMessage", "GatewaySureAgent", "GatewayResetAgentId",
                       "GatewayPersistentUserSession"}
  PROVE  LET m == Reply(i, kind, x) IN
         m \in Messages /\ m.t = "Reply" /\ m.id = i /\ m.kind = kind /\ m.x = x
BY DEF Reply, Messages

\* The message that registers the user service.
LEMMA RegisterMessage ==
  /\ RegisterUserService \in Messages
  /\ RegisterUserService.t = "GatewayRegisterUserServiceReq"
BY DEF RegisterUserService, Messages

(***************************************************************************)
(* A step takes d = 0 or d = 1 messages from the mailbox and may append m: *)
(* what is at n afterwards was at n + d, or is m, behind all the others.   *)
(***************************************************************************)
Shifted(d, m) ==
  /\ d \in {0, 1} /\ Len(mailbox) \in Nat
  /\ \A n \in 1..Len(mailbox') :
       \/ n + d \in 1..Len(mailbox) /\ mailbox'[n] = mailbox[n + d]
       \/ n = Len(mailbox) + 1 - d /\ mailbox'[n] = m
  /\ \A n \in 1..Len(mailbox) :
       n = d \/ (n - d \in 1..Len(mailbox') /\ mailbox'[n - d] = mailbox[n])
  /\ mailbox' \in Seq(Messages)

\* Another thread appends a message, or the mailbox stays as it is.
LEMMA PostShifts ==
  ASSUME Typed, NEW m \in Messages, Post(m) \/ mailbox' = mailbox
  PROVE  /\ Shifted(0, m)
         /\ Post(m) => /\ Len(mailbox) + 1 \in 1..Len(mailbox')
                       /\ mailbox'[Len(mailbox) + 1] = m
<1>1. mailbox \in Seq(Messages) /\ Len(mailbox) \in Nat
  BY DEF Typed
<1>2. CASE mailbox' = mailbox
  <2>1. Shifted(0, m)
    BY <1>1, <1>2 DEF Shifted
  <2>2. ~Post(m)
    BY <1>1, <1>2 DEF Post
  <2> QED
    BY <2>1, <2>2
<1>3. CASE mailbox' = Append(mailbox, m)
  BY <1>1, <1>3 DEF Shifted
<1> QED
  BY <1>2, <1>3 DEF Post

\* The service takes a message, and may append one.
LEMMA TakeShifts ==
  ASSUME Typed, mailbox # << >>, NEW m \in Messages,
         mailbox' = Rest \/ mailbox' = Append(Rest, m)
  PROVE  /\ Shifted(1, m) /\ 1 \in 1..Len(mailbox) /\ Message = mailbox[1]
         /\ mailbox' = Append(Rest, m) => /\ Len(mailbox) \in 1..Len(mailbox')
                                          /\ mailbox'[Len(mailbox)] = m
<1>1. mailbox \in Seq(Messages) /\ Len(mailbox) \in Nat
  BY DEF Typed
<1>2. /\ Rest \in Seq(Messages) /\ Len(Rest) = Len(mailbox) - 1
      /\ 1 \in 1..Len(mailbox) /\ Message = mailbox[1]
      /\ \A n \in 1..Len(Rest) : n + 1 \in 1..Len(mailbox) /\ Rest[n] = mailbox[n + 1]
  BY <1>1 DEF Rest, Message
<1>3. CASE mailbox' = Rest
  <2>1. Shifted(1, m)
    BY <1>1, <1>2, <1>3 DEF Shifted
  <2>2. mailbox' # Append(Rest, m)
    BY <1>2, <1>3
  <2> QED
    BY <1>2, <2>1, <2>2
<1>4. CASE mailbox' = Append(Rest, m)
  <2>1. /\ mailbox' \in Seq(Messages) /\ Len(mailbox') = Len(mailbox)
        /\ mailbox'[Len(mailbox)] = m
        /\ \A n \in 1..Len(mailbox) - 1 : mailbox'[n] = mailbox[n + 1]
    BY <1>1, <1>2, <1>4
  <2>2. Shifted(1, m)
    BY <1>1, <1>2, <2>1 DEF Shifted
  <2> QED
    BY <1>2, <2>1, <2>2
<1> QED
  BY <1>3, <1>4

(***************************************************************************)
(* What is never taken back: a connection that ended, an agent's owner,    *)
(* and the connection of an id.                                            *)
(***************************************************************************)
Grows(f, g) ==
  /\ \A c \in Conns : sock[c] # "none" => sock'[c] # "none"
  /\ \A c \in Conns : sock[c] \in {"closed", "gone"} => sock'[c] \in {"closed", "gone"}
  /\ \A a \in Agents : owner[a] \in Conns => owner'[a] = owner[a]
  /\ \A i \in Ids : f[i] \in Conns => g[i] = f[i]

\* What an id belongs to stays when more ids are drawn.
LEMMA CarriesStays ==
  ASSUME NEW f, NEW g, Grows(f, g), NEW i, NEW c \in Conns, Carries(f, i, c)
  PROVE  Carries(g, i, c)
BY DEF Grows, Carries

\* So does what a message says.
LEMMA MessageStays ==
  ASSUME NEW f, NEW g, Grows(f, g), NEW m, MessageOK(f, owner, sock, m)
  PROVE  MessageOK(g, owner', sock', m)
<1>1. \A c \in Conns : Carries(f, m.id, c) => Carries(g, m.id, c)
  BY CarriesStays
<1>2. m.t # "Reply" => MessageOK(g, owner', sock', m)
  BY DEF MessageOK, Grows
<1>3. m.t = "Reply" => MessageOK(g, owner', sock', m)
  BY <1>1 DEF MessageOK, Grows
<1> QED
  BY <1>2, <1>3

\* The messages stay right, if the one that is appended is.
LEMMA MailStep ==
  ASSUME NEW f, NEW g, MailOK(f), Grows(f, g), NEW d, NEW m, Shifted(d, m),
         MessageOK(g, owner', sock', m)
  PROVE  MailOK(g)'
<1> SUFFICES ASSUME NEW n \in 1..Len(mailbox')
             PROVE  MessageOK(g, owner', sock', mailbox'[n])
  BY DEF MailOK
<1>1. CASE mailbox'[n] = m
  BY <1>1
<1>2. CASE n + d \in 1..Len(mailbox) /\ mailbox'[n] = mailbox[n + d]
  <2>1. MessageOK(f, owner, sock, mailbox[n + d])
    BY <1>2 DEF MailOK
  <2> QED
    BY <1>2, <2>1, MessageStays
<1> QED
  BY <1>1, <1>2 DEF Shifted

\* PacketsOK holds after a step that sends no packet.
LEMMA PacketsStep ==
  ASSUME NEW f, NEW g, PacketsOK(f), Grows(f, g), asked' \subseteq asked
  PROVE  PacketsOK(g)'
<1>1. \A q \in asked : q.asker \in Conns /\ Carries(f, q.id, q.asker) =>
                         Carries(g, q.id, q.asker)
  BY CarriesStays
<1> QED
  BY <1>1 DEF PacketsOK, Grows

\* LoginsOK holds after a step that makes no login.
LEMMA LoginsStep ==
  ASSUME NEW f, NEW g, LoginsOK(f), Grows(f, g), logins' \subseteq logins,
         owner' = owner, used'.logins = used.logins
  PROVE  LoginsOK(g)'
<1>1. \A l \in logins : l.asker \in Conns /\ Carries(f, l.id, l.asker) =>
                         Carries(g, l.id, l.asker)
  BY CarriesStays
<1> QED
  BY <1>1 DEF LoginsOK

(***************************************************************************)
(* The order of the mailbox.                                               *)
(***************************************************************************)
LEMMA AnnouncedStep ==
  ASSUME NEW c \in Conns, Announced(c), NEW d, NEW m, Shifted(d, m),
         sock'[c] = "open" => sock[c] = "open", agent_id'[c] = agent_id[c],
         ~Opens(m, c), sock[c] = "open" /\ d = 1 => ~Opens(mailbox[1], c),
         agent_id[c] = Invalid /\ sock[c] = "open" =>
           ~IsAnswer(m, c) /\ \A q \in asked' : q \in asked \/ q.asker # c
  PROVE  Announced(c)'
<1> SUFFICES ASSUME sock'[c] = "open"
             PROVE  Announced(c)'
  BY DEF Announced
<1>1. sock[c] = "open"
  OBVIOUS
<1>2. \A n \in 1..Len(mailbox') : Opens(mailbox'[n], c) =>
        n + d \in 1..Len(mailbox) /\ Opens(mailbox[n + d], c)
  BY DEF Shifted
<1>3. d \in {0, 1} /\ Len(mailbox) \in Nat
  BY DEF Shifted
<1>4. \A k, n \in 1..Len(mailbox') : Opens(mailbox'[k], c) /\ Opens(mailbox'[n], c) => k = n
  BY <1>1, <1>2, <1>3 DEF Announced
<1>5. agent_id[c] # Invalid => \A n \in 1..Len(mailbox') : ~Opens(mailbox'[n], c)
  BY <1>1, <1>2 DEF Announced
<1>6. ASSUME agent_id[c] = Invalid
      PROVE  /\ \E k \in 1..Len(mailbox') :
                  /\ Opens(mailbox'[k], c)
                  /\ \A n \in 1..Len(mailbox') : IsPacket(mailbox'[n], c) => k < n
             /\ \A n \in 1..Len(mailbox') : ~IsAnswer(mailbox'[n], c)
             /\ \A q \in asked' : q.asker # c
  <2>1. PICK k \in 1..Len(mailbox) :
          Opens(mailbox[k], c) /\ \A n \in 1..Len(mailbox) : IsPacket(mailbox[n], c) => k < n
    BY <1>1, <1>6 DEF Announced
  <2>2. k # d
    BY <1>1, <1>3, <2>1
  <2>3. k - d \in 1..Len(mailbox') /\ mailbox'[k - d] = mailbox[k]
    BY <2>2 DEF Shifted
  <2>4. \A n \in 1..Len(mailbox') : IsPacket(mailbox'[n], c) => k - d < n
    <3> SUFFICES ASSUME NEW n \in 1..Len(mailbox'), IsPacket(mailbox'[n], c)
                 PROVE  k - d < n
      OBVIOUS
    <3>1. CASE n + d \in 1..Len(mailbox) /\ mailbox'[n] = mailbox[n + d]
      BY <1>3, <2>1, <3>1
    <3>2. CASE n = Len(mailbox) + 1 - d
      BY <1>3, <3>2
    <3> QED
      BY <3>1, <3>2 DEF Shifted
  <2>5. \A n \in 1..Len(mailbox') : ~IsAnswer(mailbox'[n], c)
    BY <1>1, <1>6 DEF Announced, Shifted
  <2>6. \A q \in asked' : q.asker # c
    BY <1>1, <1>6 DEF Announced
  <2> QED
    BY <2>1, <2>3, <2>4, <2>5, <2>6
<1> QED
  BY <1>4, <1>5, <1>6 DEF Announced

\* Awaited(c) holds after a step that takes or appends a message of the mailbox.
LEMMA AwaitedStep ==
  ASSUME NEW c \in Conns, Awaited(c), NEW d, NEW m, Shifted(d, m),
         sock'[c] = "open" => sock[c] = "open",
         c \notin reset' => c \notin reset, agent_id'[c] = agent_id[c],
         sock[c] = "open" /\ c \notin reset' /\ agent_id[c] # Invalid =>
           /\ \A q \in asked' : q.asker = c => q \in asked \/ q.id = agent_id[c]
           /\ IsAnswer(m, c) => m.id = agent_id[c]
           /\ waiting'[agent_id[c]] \in {c, waiting[agent_id[c]]}
           /\ d = 1 /\ Starts(mailbox[1], c, agent_id[c]) => waiting'[agent_id[c]] = c
  PROVE  Awaited(c)'
<1> SUFFICES ASSUME sock'[c] = "open", c \notin reset', agent_id[c] # Invalid
             PROVE  /\ \A q \in asked' : q.asker = c => q.id = agent_id[c]
                    /\ \A n \in 1..Len(mailbox') :
                         IsAnswer(mailbox'[n], c) => mailbox'[n].id = agent_id[c]
                    /\ \/ waiting'[agent_id[c]] = c
                       \/ \E k \in 1..Len(mailbox') :
                            /\ Starts(mailbox'[k], c, agent_id[c])
                            /\ \A n \in 1..Len(mailbox') : IsAnswer(mailbox'[n], c) => k < n
  BY DEF Awaited
<1>1. /\ \A q \in asked : q.asker = c => q.id = agent_id[c]
      /\ \A n \in 1..Len(mailbox) : IsAnswer(mailbox[n], c) => mailbox[n].id = agent_id[c]
      /\ \/ waiting[agent_id[c]] = c
         \/ \E k \in 1..Len(mailbox) :
              /\ Starts(mailbox[k], c, agent_id[c])
              /\ \A n \in 1..Len(mailbox) : IsAnswer(mailbox[n], c) => k < n
  BY DEF Awaited
<1>2. d \in {0, 1} /\ Len(mailbox) \in Nat
  BY DEF Shifted
<1>3. \A q \in asked' : q.asker = c => q.id = agent_id[c]
  BY <1>1
<1>4. ASSUME NEW n \in 1..Len(mailbox'), IsAnswer(mailbox'[n], c)
      PROVE  mailbox'[n].id = agent_id[c]
  <2>1. CASE n + d \in 1..Len(mailbox) /\ mailbox'[n] = mailbox[n + d]
    BY <1>1, <1>4, <2>1
  <2>2. CASE mailbox'[n] = m
    BY <1>4, <2>2
  <2> QED
    BY <2>1, <2>2 DEF Shifted
<1>5. CASE waiting'[agent_id[c]] = c
  BY <1>3, <1>4, <1>5
<1>6. CASE waiting'[agent_id[c]] # c
  <2>1. PICK k \in 1..Len(mailbox) :
          /\ Starts(mailbox[k], c, agent_id[c])
          /\ \A n \in 1..Len(mailbox) : IsAnswer(mailbox[n], c) => k < n
    BY <1>1, <1>6
  <2>2. k # d
    BY <1>2, <1>6, <2>1
  <2>3. k - d \in 1..Len(mailbox') /\ mailbox'[k - d] = mailbox[k]
    BY <2>2 DEF Shifted
  <2>4. \A n \in 1..Len(mailbox') : IsAnswer(mailbox'[n], c) => k - d < n
    <3> SUFFICES ASSUME NEW n \in 1..Len(mailbox'), IsAnswer(mailbox'[n], c)
                 PROVE  k - d < n
      OBVIOUS
    <3>1. CASE n + d \in 1..Len(mailbox) /\ mailbox'[n] = mailbox[n + d]
      BY <1>2, <2>1, <3>1
    <3>2. CASE n = Len(mailbox) + 1 - d
      BY <1>2, <3>2
    <3> QED
      BY <3>1, <3>2 DEF Shifted
  <2> QED
    BY <1>3, <1>4, <2>1, <2>3, <2>4
<1> QED
  BY <1>5, <1>6

(***************************************************************************)
(* A step that draws no id, opens no connection and moves none to another  *)
(* id: all that can go wrong is said by the hypotheses.                    *)
(***************************************************************************)
LEMMA CalmStep ==
  ASSUME NEW f \in Owners, Inv(f), NEW d, NEW m, Shifted(d, m),
         MessageOK(f, owner', sock', m), Grows(f, f),
         sock' \in [Conns -> {"none", "open", "closed", "gone"}],
         handle' \in [Conns -> Agents \cup {UserService}],
         owner' \in [Agents -> Conns \cup {None}],
         waiting' \in [Ids -> Conns \cup {None}],
         used' \in [ids : Nat, packets : Nat, logins : Nat, resets : Nat],
         used'.logins <= MaxLogins, used'.ids = used.ids, used'.resets = used.resets,
         agent_id' = agent_id, reset' = reset,
         \A i \in Ids : waiting'[i] \in {None, f[i]},
         \A c \in Conns : sock'[c] = "open" => sock[c] = "open",
         \A c \in Conns : sock'[c] = "none" => sock[c] = "none",
         \A c \in Conns : sock'[c] = "open" =>
           ~Opens(m, c) /\ (d = 1 => ~Opens(mailbox[1], c)),
         \A c \in Conns : sock'[c] = "open" /\ IsAnswer(m, c) =>
           agent_id[c] # Invalid /\ (c \notin reset => m.id = agent_id[c]),
         \A q \in asked' : q \in asked \/
           /\ q.asker \in Conns /\ sock'[q.asker] # "none" /\ Carries(f, q.id, q.asker)
           /\ sock'[q.asker] = "open" => agent_id[q.asker] # Invalid /\ q.id = agent_id[q.asker],
         \A c \in Conns : sock'[c] = "open" /\ agent_id[c] # Invalid =>
           /\ waiting'[agent_id[c]] \in {c, waiting[agent_id[c]]}
           /\ d = 1 /\ Starts(mailbox[1], c, agent_id[c]) => waiting'[agent_id[c]] = c,
         LoginsOK(f)', AnswersKnown', AnswersToAsker'
  PROVE  Inv(f)'
<1>1. Typed'
  BY DEF Typed, Inv, Shifted
<1>2. IdsDrawn(f)'
  <2>1. Linked' = Linked
    BY DEF Linked
  <2> QED
    BY <2>1 DEF IdsDrawn, Inv
<1>3. MailOK(f)'
  BY MailStep DEF Inv
<1>4. PacketsOK(f)'
  BY DEF PacketsOK, Inv, Grows
<1>5. ASSUME NEW c \in Conns
      PROVE  Announced(c)'
  <2>1. CASE sock'[c] = "open"
    <3>1. Announced(c) /\ sock[c] = "open" /\ agent_id'[c] = agent_id[c]
      BY <2>1 DEF Inv
    <3>2. ~Opens(m, c) /\ (d = 1 => ~Opens(mailbox[1], c))
      BY <2>1
    <3>3. agent_id[c] = Invalid => ~IsAnswer(m, c) /\ \A q \in asked' : q \in asked \/ q.asker # c
      BY <2>1
    <3> QED
      BY <3>1, <3>2, <3>3, AnnouncedStep
  <2>2. CASE sock'[c] # "open"
    BY <2>2 DEF Announced
  <2> QED
    BY <2>1, <2>2
<1>6. ASSUME NEW c \in Conns
      PROVE  Awaited(c)'
  <2>1. CASE sock'[c] = "open" /\ c \notin reset /\ agent_id[c] # Invalid
    <3>1. Awaited(c) /\ sock[c] = "open" /\ agent_id'[c] = agent_id[c]
      BY <2>1 DEF Inv
    <3>2. /\ \A q \in asked' : q.asker = c => q \in asked \/ q.id = agent_id[c]
          /\ IsAnswer(m, c) => m.id = agent_id[c]
          /\ waiting'[agent_id[c]] \in {c, waiting[agent_id[c]]}
          /\ d = 1 /\ Starts(mailbox[1], c, agent_id[c]) => waiting'[agent_id[c]] = c
      BY <2>1
    <3> QED
      BY <3>1, <3>2, AwaitedStep
  <2>2. CASE ~(sock'[c] = "open" /\ c \notin reset /\ agent_id[c] # Invalid)
    BY <2>2 DEF Awaited
  <2> QED
    BY <2>1, <2>2
<1> QED
  BY <1>1, <1>2, <1>3, <1>4, <1>5, <1>6 DEF Inv

\* What was right about answers and agents stays right.
LEMMA AnswersStay ==
  ASSUME NEW f, NEW g, Inv(f), Grows(f, g), answers' = answers, handle' = handle,
         reset \subseteq reset'
  PROVE  AnswersKnown' /\ AnswersToAsker'
<1>1. AnswersKnown'
  BY DEF Inv, AnswersKnown
<1>2. ASSUME NEW a \in answers
      PROVE  a.to = a.asker \/ (a.to = None /\ (sock'[a.asker] \in {"closed", "gone"} \/ a.asker \in reset'))
  BY DEF Inv, AnswersToAsker, AnswersKnown, Grows
<1>3. ASSUME NEW c \in Conns, handle[c] # UserService
      PROVE  owner'[handle[c]] = c
  <2>1. handle[c] \in Agents /\ owner[handle[c]] = c
    BY <1>3 DEF Inv, AnswersToAsker, Typed
  <2> QED
    BY <2>1 DEF Grows
<1> QED
  BY <1>1, <1>2, <1>3 DEF AnswersToAsker

\* Nothing is taken back when neither a socket nor an owner changes.
LEMMA GrowsSame ==
  ASSUME NEW f, sock' = sock, owner' = owner
  PROVE  Grows(f, f)
BY DEF Grows

(***************************************************************************)
(* The io threads.                                                         *)
(***************************************************************************)
LEMMA ConnectKeeps ==
  ASSUME NEW f \in Owners, Inv(f), NEW c \in Conns, Connect(c)
  PROVE  Inv(f)'
<1> DEFINE m == TcpConnection(c)
<1>1. m \in Messages /\ m.t = "GatewayTcpConnection" /\ m.c = c
  BY ConnectionMessages
<1> HIDE DEF m
<1>2. Typed /\ Post(m) /\ sock[c] = "none" /\ sock' = [sock EXCEPT ![c] = "open"]
  BY DEF Inv, Connect, m
<1>3. Shifted(0, m) /\ Len(mailbox) + 1 \in 1..Len(mailbox') /\ mailbox'[Len(mailbox) + 1] = m
  BY <1>1, <1>2, PostShifts
<1>4. sock'[c] = "open" /\ \A k \in Conns : k # c => sock'[k] = sock[k]
  BY <1>2 DEF Typed
<1>5. Grows(f, f)
  BY <1>2, <1>4 DEF Grows, Connect
<1>6. Typed'
  BY <1>2, <1>3 DEF Typed, Shifted, Connect
<1>7. IdsDrawn(f)'
  <2>1. Linked' = Linked
    BY DEF Linked, Connect
  <2> QED
    BY <1>2, <1>4, <2>1 DEF IdsDrawn, Inv, Connect
<1>8. MailOK(f)'
  <2>1. MessageOK(f, owner', sock', m)
    BY <1>1, <1>4 DEF MessageOK
  <2> QED
    BY <1>3, <1>5, <2>1, MailStep DEF Inv
<1>9. PacketsOK(f)'
  BY <1>5, PacketsStep DEF Inv, Connect
<1>10. LoginsOK(f)'
  BY <1>5, LoginsStep DEF Inv, Connect
<1>11. agent_id[c] = Invalid /\ agent_id' = agent_id
  BY <1>2 DEF Inv, IdsDrawn, Connect
<1>12. \A n \in 1..Len(mailbox) :
         ~Opens(mailbox[n], c) /\ ~IsPacket(mailbox[n], c) /\ ~IsAnswer(mailbox[n], c)
  BY <1>2 DEF Inv, MailOK, MessageOK, Opens, IsPacket, IsAnswer
<1>13. \A n \in 1..Len(mailbox') : n = Len(mailbox) + 1 \/
         (~Opens(mailbox'[n], c) /\ ~IsPacket(mailbox'[n], c) /\ ~IsAnswer(mailbox'[n], c))
  BY <1>3, <1>12 DEF Shifted
<1>14. Announced(c)'
  <2>1. Opens(m, c) /\ ~IsPacket(m, c) /\ ~IsAnswer(m, c)
    BY <1>1 DEF Opens, IsPacket, IsAnswer
  <2>2. \A q \in asked' : q.asker # c
    BY <1>2 DEF Inv, PacketsOK, Connect
  <2>3. \A n \in 1..Len(mailbox') : ~IsPacket(mailbox'[n], c) /\ ~IsAnswer(mailbox'[n], c)
    BY <1>3, <1>13, <2>1
  <2>4. \E k \in 1..Len(mailbox') :
          Opens(mailbox'[k], c) /\ \A n \in 1..Len(mailbox') : IsPacket(mailbox'[n], c) => k < n
    BY <1>3, <2>1, <2>3
  <2> QED
    BY <1>11, <1>13, <2>2, <2>3, <2>4 DEF Announced
<1>15. Awaited(c)'
  BY <1>11 DEF Awaited
<1>16. ASSUME NEW k \in Conns, k # c
       PROVE  Announced(k)' /\ Awaited(k)'
  <2>1. Announced(k) /\ Awaited(k) /\ ~Opens(m, k) /\ ~IsAnswer(m, k)
    BY <1>1, <1>16 DEF Opens, IsAnswer, Inv
  <2>2. /\ sock'[k] = sock[k] /\ agent_id'[k] = agent_id[k] /\ asked' = asked
        /\ waiting' = waiting /\ reset' = reset
    BY <1>4, <1>16 DEF Connect
  <2>3. Announced(k)'
    BY <1>3, <2>1, <2>2, AnnouncedStep
  <2>4. Awaited(k)'
    BY <1>3, <2>1, <2>2, AwaitedStep
  <2> QED
    BY <2>3, <2>4
<1>17. AnswersKnown' /\ AnswersToAsker'
  BY <1>5, AnswersStay DEF Connect
<1>18. /\ \A k \in Conns : Announced(k)'
       /\ \A k \in Conns : Awaited(k)'
  BY <1>14, <1>15, <1>16
<1> QED
  BY <1>6, <1>7, <1>8, <1>9, <1>10, <1>17, <1>18 DEF Inv

\* RecvPacket preserves the invariant.
LEMMA RecvPacketKeeps ==
  ASSUME NEW f \in Owners, Inv(f), NEW c \in Conns, RecvPacket(c)
  PROVE  Inv(f)'
<1> DEFINE m == TcpRecvPacket(c)
<1>1. m \in Messages /\ m.t = "GatewayTcpRecvPacket" /\ m.c = c
  BY ConnectionMessages
<1> HIDE DEF m
<1>2. Typed /\ Post(m) /\ sock[c] = "open"
  BY DEF Inv, RecvPacket, m
<1>3. Shifted(0, m)
  BY <1>1, <1>2, PostShifts
<1>4. Grows(f, f)
  BY GrowsSame DEF RecvPacket
<1>5. /\ used' \in [ids : Nat, packets : Nat, logins : Nat, resets : Nat]
      /\ used'.logins = used.logins /\ used'.ids = used.ids /\ used'.resets = used.resets
  BY <1>2 DEF Typed, RecvPacket
<1>6. MessageOK(f, owner', sock', m)
  BY <1>1, <1>2 DEF MessageOK, RecvPacket
<1>7. \A k \in Conns : ~Opens(m, k) /\ ~IsAnswer(m, k)
  BY <1>1 DEF Opens, IsAnswer
<1>8. LoginsOK(f)'
  BY <1>4, <1>5, LoginsStep DEF Inv, RecvPacket
<1>9. AnswersKnown' /\ AnswersToAsker'
  BY <1>4, AnswersStay DEF RecvPacket
<1>10. UNCHANGED <<sock, handle, owner, waiting, agent_id, reset, asked>>
  BY DEF RecvPacket
<1>11. \A i \in Ids : waiting[i] \in {None, f[i]}
  BY DEF Inv, IdsDrawn
<1> QED
  BY <1>2, <1>3, <1>4, <1>5, <1>6, <1>7, <1>8, <1>9, <1>10, <1>11, CalmStep DEF Typed

\* Close preserves the invariant.
LEMMA CloseKeeps ==
  ASSUME NEW f \in Owners, Inv(f), NEW c \in Conns, Close(c) \/ ReportClose(c)
  PROVE  Inv(f)'
<1> DEFINE m == TcpConnection(c)
<1>1. m \in Messages /\ m.t = "GatewayTcpConnection" /\ m.c = c
  BY ConnectionMessages
<1>2. Typed /\ (Post(m) \/ mailbox' = mailbox)
  BY DEF Inv, Close, ReportClose
<1> HIDE DEF m
<1>3. Shifted(0, m)
  BY <1>1, <1>2, PostShifts
<1>4. /\ sock' \in [Conns -> {"none", "open", "closed", "gone"}]
      /\ sock[c] \in {"open", "closed"} /\ sock'[c] \in {"closed", "gone"}
      /\ \A k \in Conns : k # c => sock'[k] = sock[k]
  BY <1>2 DEF Typed, Close, ReportClose
<1>5. UNCHANGED <<agent_id, handle, waiting, user, asked, logins, mgr, agents, owner,
                  answers, reset, late, used>>
  BY DEF Close, ReportClose
<1>6. Grows(f, f)
  BY <1>4, <1>5 DEF Grows
<1>7. MessageOK(f, owner', sock', m)
  BY <1>1, <1>4 DEF MessageOK
<1>8. \A k \in Conns : (sock'[k] = "open" => ~Opens(m, k) /\ sock[k] = "open") /\ ~IsAnswer(m, k)
  BY <1>1, <1>4 DEF Opens, IsAnswer
<1>9. LoginsOK(f)'
  BY <1>5, <1>6, LoginsStep DEF Inv
<1>10. AnswersKnown' /\ AnswersToAsker'
  BY <1>5, <1>6, AnswersStay
<1>11. \A i \in Ids : waiting[i] \in {None, f[i]}
  BY DEF Inv, IdsDrawn
<1>12. \A k \in Conns : sock'[k] = "none" => sock[k] = "none"
  BY <1>4
<1> QED
  BY <1>2, <1>3, <1>4, <1>5, <1>6, <1>7, <1>8, <1>9, <1>10, <1>11, <1>12, CalmStep DEF Typed

(***************************************************************************)
(* A step that only handles a message, and one that only appends one.      *)
(***************************************************************************)
LEMMA QuietStep ==
  ASSUME NEW f \in Owners, Inv(f), NEW d, NEW m, Shifted(d, m),
         MessageOK(f, owner, sock, m),
         UNCHANGED <<sock, handle, owner, waiting, agent_id, reset, answers, used>>,
         logins' \subseteq logins,
         d = 1 => mailbox[1].t # "GatewayPersistentUserSession",
         \A c \in Conns : sock[c] = "open" =>
           ~Opens(m, c) /\ (d = 1 => ~Opens(mailbox[1], c)),
         \A c \in Conns : sock[c] = "open" /\ IsAnswer(m, c) =>
           agent_id[c] # Invalid /\ (c \notin reset => m.id = agent_id[c]),
         \A q \in asked' : q \in asked \/
           /\ q.asker \in Conns /\ sock[q.asker] # "none" /\ Carries(f, q.id, q.asker)
           /\ sock[q.asker] = "open" => agent_id[q.asker] # Invalid /\ q.id = agent_id[q.asker]
  PROVE  Inv(f)'
<1>1. Typed /\ Grows(f, f)
  BY GrowsSame DEF Inv
<1>2. LoginsOK(f)'
  BY <1>1, LoginsStep DEF Inv
<1>3. AnswersKnown' /\ AnswersToAsker'
  BY <1>1, AnswersStay
<1>4. \A i \in Ids : waiting[i] \in {None, f[i]}
  BY DEF Inv, IdsDrawn
<1>5. \A c \in Conns : d = 1 => ~Starts(mailbox[1], c, agent_id[c])
  BY DEF Starts
<1> QED
  BY <1>1, <1>2, <1>3, <1>4, <1>5, CalmStep DEF Typed

\* The message at hand is as MailOK says.
LEMMA AtHand ==
  ASSUME NEW f, Inv(f), mailbox # << >>
  PROVE  /\ 1 \in 1..Len(mailbox) /\ Message = mailbox[1]
         /\ Message \in Messages /\ MessageOK(f, owner, sock, Message)
<1>1. mailbox \in Seq(Messages)
  BY DEF Inv, Typed
<1>2. 1 \in 1..Len(mailbox) /\ Message = mailbox[1] /\ Message \in Messages
  BY <1>1 DEF Message
<1> QED
  BY <1>2 DEF Inv, MailOK

\* A reply that carries an id finds nobody, or the connection of the id.
LEMMA WaiterIs ==
  ASSUME NEW f, Inv(f), NEW i, NEW c \in Conns, Carries(f, i, c)
  PROVE  Waiter(i) \in {None, c}
BY DEF Waiter, Carries, Inv, IdsDrawn

\* Register preserves the invariant.
LEMMA RegisterKeeps ==
  ASSUME NEW f \in Owners, Inv(f), Register
  PROVE  Inv(f)'
<1> DEFINE m == RegisterUserService
<1>1. m \in Messages /\ m.t = "GatewayRegisterUserServiceReq"
  BY RegisterMessage
<1>2. Typed /\ Post(m)
  BY DEF Inv, Register
<1> HIDE DEF m
<1>3. Shifted(0, m)
  BY <1>1, <1>2, PostShifts
<1>4. MessageOK(f, owner, sock, m) /\ \A c \in Conns : ~Opens(m, c) /\ ~IsAnswer(m, c)
  BY <1>1 DEF MessageOK, Opens, IsAnswer
<1>5. /\ UNCHANGED <<sock, handle, owner, waiting, agent_id, reset, answers, used>>
      /\ logins' = logins /\ asked' = asked
  BY DEF Register
<1> QED
  BY <1>3, <1>4, <1>5, QuietStep

\* RegisterReq preserves the invariant.
LEMMA RegisterReqKeeps ==
  ASSUME NEW f \in Owners, Inv(f), GatewayRegisterUserServiceReq
  PROVE  Inv(f)'
<1> DEFINE m == RegisterUserService
<1>1. m \in Messages /\ m.t = "GatewayRegisterUserServiceReq"
  BY RegisterMessage
<1> HIDE DEF m
<1>2. /\ Typed /\ mailbox # << >> /\ mailbox' = Rest
      /\ Message.t = "GatewayRegisterUserServiceReq"
  BY DEF Inv, GatewayRegisterUserServiceReq, Handles, Message
<1>3. Shifted(1, m) /\ Message = mailbox[1]
  BY <1>1, <1>2, TakeShifts
<1>4. MessageOK(f, owner, sock, m) /\ \A c \in Conns : ~Opens(m, c) /\ ~IsAnswer(m, c)
  BY <1>1 DEF MessageOK, Opens, IsAnswer
<1>5. /\ UNCHANGED <<sock, handle, owner, waiting, agent_id, reset, answers, used>>
      /\ logins' = logins /\ asked' = asked
  BY DEF GatewayRegisterUserServiceReq
<1>6. mailbox[1].t # "GatewayPersistentUserSession" /\ \A c \in Conns : ~Opens(mailbox[1], c)
  BY <1>2, <1>3 DEF Opens
<1> QED
  BY <1>3, <1>4, <1>5, <1>6, QuietStep

(***************************************************************************)
(* The end of a connection is reported to its coroutine.                   *)
(***************************************************************************)
LEMMA EndKeeps ==
  ASSUME NEW f \in Owners, Inv(f), GatewayTcpConnection, sock[Message.c] # "open"
  PROVE  Inv(f)'
<1>1. /\ Typed /\ mailbox # << >> /\ Message.t = "GatewayTcpConnection"
  BY DEF Inv, GatewayTcpConnection, Handles, Message
<1>2. PICK c \in Conns : c = Message.c /\ sock[c] # "none"
  BY <1>1, AtHand DEF MessageOK
<1> DEFINE m == Reply(agent_id[c], "GatewayPersistentUserSession", c)
<1>3. agent_id[c] \in Ids \cup {Invalid} /\ sock[c] \in {"closed", "gone"}
  BY <1>1, <1>2 DEF Typed
<1>4. /\ m \in Messages /\ m.t = "Reply" /\ m.id = agent_id[c]
      /\ m.kind = "GatewayPersistentUserSession" /\ m.x = c
  BY <1>3, ReplyMessages
<1>5. /\ mailbox' = Append(Rest, m)
      /\ UNCHANGED <<sock, handle, owner, waiting, agent_id, reset, answers, used>>
      /\ logins' = logins /\ asked' = asked
  BY <1>2 DEF GatewayTcpConnection
<1> HIDE DEF m
<1>6. Shifted(1, m) /\ Message = mailbox[1]
  BY <1>1, <1>4, <1>5, TakeShifts
<1>7. MessageOK(f, owner, sock, m) /\ \A k \in Conns : ~Opens(m, k) /\ ~IsAnswer(m, k)
  BY <1>3, <1>4 DEF MessageOK, Opens, IsAnswer, Carries, Inv, IdsDrawn
<1>8. /\ mailbox[1].t # "GatewayPersistentUserSession"
      /\ \A k \in Conns : sock[k] = "open" => ~Opens(mailbox[1], k)
  BY <1>1, <1>2, <1>6 DEF Opens
<1> QED
  BY <1>5, <1>6, <1>7, <1>8, QuietStep

\* A packet is sent under the id of its connection, which has one by then.
LEMMA RecvKeeps ==
  ASSUME NEW f \in Owners, Inv(f), NEW good \in BOOLEAN, GatewayTcpRecvPacket(good)
  PROVE  Inv(f)'
<1> DEFINE m == RegisterUserService
<1>1. m \in Messages /\ m.t = "GatewayRegisterUserServiceReq"
  BY RegisterMessage
<1> HIDE DEF m
<1>2. /\ Typed /\ mailbox # << >> /\ mailbox' = Rest
      /\ Message.t = "GatewayTcpRecvPacket"
  BY DEF Inv, GatewayTcpRecvPacket, Handles, Message
<1>3. Shifted(1, m) /\ Message = mailbox[1] /\ 1 \in 1..Len(mailbox)
  BY <1>1, <1>2, TakeShifts
<1>4. MessageOK(f, owner, sock, m) /\ \A k \in Conns : ~Opens(m, k) /\ ~IsAnswer(m, k)
  BY <1>1 DEF MessageOK, Opens, IsAnswer
<1>5. /\ UNCHANGED <<sock, handle, owner, waiting, agent_id, reset, answers, used>>
      /\ logins' = logins
  BY DEF GatewayTcpRecvPacket
<1>6. mailbox[1].t # "GatewayPersistentUserSession" /\ \A k \in Conns : ~Opens(mailbox[1], k)
  BY <1>2, <1>3 DEF Opens
<1>7. PICK c \in Conns : c = Message.c /\ sock[c] # "none"
  BY <1>2, AtHand DEF MessageOK
<1>8. sock[c] = "open" => agent_id[c] # Invalid
  <2> SUFFICES ASSUME sock[c] = "open", agent_id[c] = Invalid
               PROVE  FALSE
    OBVIOUS
  <2>1. PICK k \in 1..Len(mailbox) :
          \A n \in 1..Len(mailbox) : IsPacket(mailbox[n], c) => k < n
    BY DEF Inv, Announced
  <2>2. IsPacket(mailbox[1], c)
    BY <1>2, <1>3, <1>7 DEF IsPacket
  <2> QED
    BY <1>3, <2>1, <2>2
<1>9. Carries(f, agent_id[c], c)
  BY <1>2 DEF Typed, Inv, IdsDrawn, Carries
<1>10. \A q \in asked' : q \in asked \/ (q.asker = c /\ q.id = agent_id[c])
  BY <1>7 DEF GatewayTcpRecvPacket
<1> QED
  BY <1>3, <1>4, <1>5, <1>6, <1>7, <1>8, <1>9, <1>10, QuietStep

(***************************************************************************)
(* The coroutine of a connection starts, and ends.                         *)
(***************************************************************************)
LEMMA StartKeeps ==
  ASSUME NEW f \in Owners, Inv(f), GatewayPersistentUserSession
  PROVE  Inv(f)'
<1> DEFINE m == RegisterUserService
<1>1. m \in Messages /\ m.t = "GatewayRegisterUserServiceReq"
  BY RegisterMessage
<1> HIDE DEF m
<1>2. /\ Typed /\ mailbox # << >> /\ mailbox' = Rest
      /\ Message.t = "GatewayPersistentUserSession"
  BY DEF Inv, GatewayPersistentUserSession, Handles, Message
<1>3. Shifted(1, m) /\ Message = mailbox[1] /\ 1 \in 1..Len(mailbox)
  BY <1>1, <1>2, TakeShifts
<1>4. MessageOK(f, owner, sock, m) /\ \A k \in Conns : ~Opens(m, k) /\ ~IsAnswer(m, k)
  BY <1>1 DEF MessageOK, Opens, IsAnswer
<1>5. /\ UNCHANGED <<sock, handle, owner, agent_id, reset, answers, used>>
      /\ logins' = logins /\ asked' = asked
  BY DEF GatewayPersistentUserSession
<1>6. Message.c \in Conns /\ Message.id \in Ids /\ f[Message.id] = Message.c
  BY <1>2, AtHand DEF MessageOK
<1>7. /\ waiting' \in [Ids -> Conns \cup {None}]
      /\ waiting'[Message.id] = Message.c
      /\ \A i \in Ids : i # Message.id => waiting'[i] = waiting[i]
  BY <1>2, <1>6 DEF Typed, GatewayPersistentUserSession
<1>8. \A i \in Ids : waiting'[i] \in {None, f[i]}
  BY <1>6, <1>7 DEF Inv, IdsDrawn
<1>9. ASSUME NEW c \in Conns, agent_id[c] # Invalid
      PROVE  /\ waiting'[agent_id[c]] \in {c, waiting[agent_id[c]]}
             /\ Starts(mailbox[1], c, agent_id[c]) => waiting'[agent_id[c]] = c
  <2>1. agent_id[c] \in Ids /\ f[agent_id[c]] = c
    BY <1>2, <1>9 DEF Typed, Inv, IdsDrawn
  <2> QED
    BY <1>3, <1>6, <1>7, <2>1 DEF Starts
<1>10. \A c \in Conns : ~Opens(mailbox[1], c)
  BY <1>2, <1>3 DEF Opens
<1>11. Grows(f, f)
  BY <1>5, GrowsSame
<1>12. LoginsOK(f)'
  BY <1>5, <1>11, LoginsStep DEF Inv
<1>13. AnswersKnown' /\ AnswersToAsker'
  BY <1>5, <1>11, AnswersStay
<1> QED
  BY <1>2, <1>3, <1>4, <1>5, <1>7, <1>8, <1>9, <1>10, <1>11, <1>12, <1>13, CalmStep DEF Typed

\* ReplyPersistent preserves the invariant.
LEMMA ReplyPersistentKeeps ==
  ASSUME NEW f \in Owners, Inv(f), ReplyPersistent
  PROVE  Inv(f)'
<1> DEFINE m == RegisterUserService
<1>1. m \in Messages /\ m.t = "GatewayRegisterUserServiceReq"
  BY RegisterMessage
<1> HIDE DEF m
<1>2. /\ Typed /\ mailbox # << >> /\ mailbox' = Rest /\ Message.t = "Reply"
      /\ Message.kind = "GatewayPersistentUserSession"
  BY DEF Inv, ReplyPersistent, Handles, Message
<1>3. Shifted(1, m) /\ Message = mailbox[1] /\ 1 \in 1..Len(mailbox)
  BY <1>1, <1>2, TakeShifts
<1>4. MessageOK(f, owner, sock, m) /\ \A k \in Conns : ~Opens(m, k) /\ ~IsAnswer(m, k)
  BY <1>1 DEF MessageOK, Opens, IsAnswer
<1>5. /\ UNCHANGED <<sock, handle, owner, agent_id, reset, answers, used>>
      /\ logins' = logins /\ asked' = asked
  BY DEF ReplyPersistent
<1>6. /\ Message.x \in Conns /\ sock[Message.x] \in {"closed", "gone"}
      /\ Message.id = Invalid \/ (Message.id \in Ids /\ f[Message.id] = Message.x)
  BY <1>2, AtHand DEF MessageOK, Carries
<1>7. /\ waiting' \in [Ids -> Conns \cup {None}]
      /\ \A i \in Ids : waiting'[i] = waiting[i] \/ (i = Message.id /\ waiting'[i] = None)
  BY <1>2, <1>6 DEF Typed, ReplyPersistent
<1>8. \A i \in Ids : waiting'[i] \in {None, f[i]}
  BY <1>7 DEF Inv, IdsDrawn
<1>9. ASSUME NEW c \in Conns, agent_id[c] # Invalid, sock[c] = "open"
      PROVE  waiting'[agent_id[c]] = waiting[agent_id[c]]
  <2>1. agent_id[c] \in Ids /\ f[agent_id[c]] = c
    BY <1>2, <1>9 DEF Typed, Inv, IdsDrawn
  <2>2. agent_id[c] # Message.id
    BY <1>6, <1>9, <2>1
  <2> QED
    BY <1>7, <2>1, <2>2
<1>10. \A c \in Conns : ~Opens(mailbox[1], c) /\ ~Starts(mailbox[1], c, agent_id[c])
  BY <1>2, <1>3 DEF Opens, Starts
<1>11. Grows(f, f)
  BY <1>5, GrowsSame
<1>12. LoginsOK(f)'
  BY <1>5, <1>11, LoginsStep DEF Inv
<1>13. AnswersKnown' /\ AnswersToAsker'
  BY <1>5, <1>11, AnswersStay
<1> QED
  BY <1>2, <1>3, <1>4, <1>5, <1>7, <1>8, <1>9, <1>10, <1>11, <1>12, <1>13, CalmStep DEF Typed

(***************************************************************************)
(* An answer is sent to the connection of the packet.                      *)
(***************************************************************************)

\* The coroutine is there: of an open connection that was never reset.
LEMMA AnswerFound ==
  ASSUME NEW f \in Owners, Inv(f), mailbox # << >>, Message.t = "Reply",
         Message.kind = "ProtoMessage"
  PROVE  /\ Message.x \in Conns /\ Waiter(Message.id) \in {None, Message.x}
         /\ Waiter(Message.id) = None =>
              sock[Message.x] \in {"closed", "gone"} \/ Message.x \in reset
<1>1. Typed /\ 1 \in 1..Len(mailbox) /\ Message = mailbox[1]
  BY AtHand DEF Inv
<1>2. PICK c \in Conns : c = Message.x /\ sock[c] # "none" /\ Carries(f, Message.id, c)
  BY AtHand DEF MessageOK
<1>3. Waiter(Message.id) \in {None, c}
  BY <1>2, WaiterIs
<1>4. IsAnswer(mailbox[1], c)
  BY <1>1, <1>2 DEF IsAnswer
<1>5. ASSUME sock[c] = "open", c \notin reset
      PROVE  Waiter(Message.id) # None
  <2>1. agent_id[c] # Invalid
    BY <1>1, <1>4, <1>5 DEF Inv, Announced
  <2>2. Message.id = agent_id[c]
    BY <1>1, <1>4, <1>5, <2>1 DEF Inv, Awaited
  <2>3. waiting[agent_id[c]] = c
    <3>1. ASSUME NEW k \in 1..Len(mailbox),
                 \A n \in 1..Len(mailbox) : IsAnswer(mailbox[n], c) => k < n
          PROVE  FALSE
      BY <1>1, <1>4, <3>1
    <3> QED
      BY <1>5, <2>1, <3>1 DEF Inv, Awaited
  <2> QED
    BY <2>1, <2>2, <2>3, GatewayAssumption DEF Waiter, None
<1>6. sock[c] \in {"open", "closed", "gone"}
  BY <1>1, <1>2 DEF Typed
<1> QED
  BY <1>2, <1>3, <1>5, <1>6

\* ReplyAnswer preserves the invariant.
LEMMA ReplyAnswerKeeps ==
  ASSUME NEW f \in Owners, Inv(f), NEW encoded \in BOOLEAN, ReplyAnswer(encoded)
  PROVE  Inv(f)'
<1> DEFINE m == RegisterUserService
<1>1. m \in Messages /\ m.t = "GatewayRegisterUserServiceReq"
  BY RegisterMessage
<1> HIDE DEF m
<1>2. /\ Typed /\ mailbox # << >> /\ mailbox' = Rest /\ Message.t = "Reply"
      /\ Message.kind = "ProtoMessage"
  BY DEF Inv, ReplyAnswer, Handles, Message
<1>3. Shifted(1, m) /\ Message = mailbox[1] /\ 1 \in 1..Len(mailbox)
  BY <1>1, <1>2, TakeShifts
<1>4. MessageOK(f, owner, sock, m) /\ \A k \in Conns : ~Opens(m, k) /\ ~IsAnswer(m, k)
  BY <1>1 DEF MessageOK, Opens, IsAnswer
<1>5. /\ UNCHANGED <<sock, handle, owner, waiting, agent_id, reset, used>>
      /\ logins' = logins /\ asked' = asked
  BY DEF ReplyAnswer
<1>6. \A c \in Conns : ~Opens(mailbox[1], c) /\ ~Starts(mailbox[1], c, agent_id[c])
  BY <1>2, <1>3 DEF Opens, Starts
<1>7. Grows(f, f)
  BY <1>5, GrowsSame
<1>8. LoginsOK(f)'
  BY <1>5, <1>7, LoginsStep DEF Inv
<1>9. \A i \in Ids : waiting[i] \in {None, f[i]}
  BY DEF Inv, IdsDrawn
<1>10. \A a \in answers' : a \in answers \/
         (a.asker = Message.x /\ a.to = Waiter(Message.id))
  BY DEF ReplyAnswer
<1>11. AnswersKnown'
  BY <1>2, <1>10, AnswerFound DEF AnswersKnown, Inv
<1>12. AnswersToAsker'
  <2>1. ASSUME NEW a \in answers'
        PROVE  \/ a.to = a.asker
               \/ a.to = None /\ (sock[a.asker] \in {"closed", "gone"} \/ a.asker \in reset)
    <3>1. CASE a \in answers
      BY <3>1 DEF Inv, AnswersToAsker
    <3>2. CASE a.asker = Message.x /\ a.to = Waiter(Message.id)
      BY <1>2, <3>2, AnswerFound
    <3> QED
      BY <1>10, <3>1, <3>2
  <2> QED
    BY <1>5, <2>1 DEF Inv, AnswersToAsker
<1> QED
  BY <1>2, <1>3, <1>4, <1>5, <1>6, <1>7, <1>8, <1>9, <1>11, <1>12, CalmStep DEF Typed

\* The agent that a connection is told of was created for it.
LEMMA ReplySureAgentKeeps ==
  ASSUME NEW f \in Owners, Inv(f), ReplySureAgent
  PROVE  Inv(f)'
<1> DEFINE m == RegisterUserService
<1>1. m \in Messages /\ m.t = "GatewayRegisterUserServiceReq"
  BY RegisterMessage
<1> HIDE DEF m
<1>2. /\ Typed /\ mailbox # << >> /\ mailbox' = Rest /\ Message.t = "Reply"
      /\ Message.kind = "GatewaySureAgent"
  BY DEF Inv, ReplySureAgent, Handles, Message
<1>3. Shifted(1, m) /\ Message = mailbox[1] /\ 1 \in 1..Len(mailbox)
  BY <1>1, <1>2, TakeShifts
<1>4. MessageOK(f, owner, sock, m) /\ \A k \in Conns : ~Opens(m, k) /\ ~IsAnswer(m, k)
  BY <1>1 DEF MessageOK, Opens, IsAnswer
<1>5. /\ UNCHANGED <<sock, owner, waiting, agent_id, reset, answers, used>>
      /\ logins' = logins /\ asked' = asked
  BY DEF ReplySureAgent
<1>6. \A c \in Conns : ~Opens(mailbox[1], c) /\ ~Starts(mailbox[1], c, agent_id[c])
  BY <1>2, <1>3 DEF Opens, Starts
<1>7. Grows(f, f)
  BY <1>5, GrowsSame
<1>8. LoginsOK(f)'
  BY <1>5, <1>7, LoginsStep DEF Inv
<1>9. \A i \in Ids : waiting[i] \in {None, f[i]}
  BY DEF Inv, IdsDrawn
<1>10. /\ Message.x \in Agents /\ owner[Message.x] \in Conns
       /\ Waiter(Message.id) \in {None, owner[Message.x]}
  BY <1>2, AtHand, WaiterIs DEF MessageOK
<1>11. handle' \in [Conns -> Agents \cup {UserService}]
  BY <1>2, <1>10 DEF Typed, ReplySureAgent
<1>12. AnswersToAsker'
  <2>1. ASSUME NEW c \in Conns
        PROVE  handle'[c] = UserService \/ owner[handle'[c]] = c
    <3>1. CASE c = Waiter(Message.id)
      BY <1>10, <3>1, GatewayAssumption DEF ReplySureAgent, None
    <3>2. CASE c # Waiter(Message.id)
      BY <3>2 DEF ReplySureAgent, Inv, AnswersToAsker
    <3> QED
      BY <3>1, <3>2
  <2> QED
    BY <1>5, <2>1 DEF Inv, AnswersToAsker
<1>13. AnswersKnown'
  BY <1>5 DEF AnswersKnown, Inv
<1> QED
  BY <1>2, <1>3, <1>4, <1>5, <1>6, <1>7, <1>8, <1>9, <1>11, <1>12, <1>13, CalmStep DEF Typed

(***************************************************************************)
(* The other services.                                                     *)
(***************************************************************************)
LEMMA AnswerKeeps ==
  ASSUME NEW f \in Owners, Inv(f), NEW q \in asked, Answer(q)
  PROVE  Inv(f)'
<1> DEFINE m == Reply(q.id, "ProtoMessage", q.asker)
<1>1. q.asker \in Conns /\ sock[q.asker] # "none" /\ Carries(f, q.id, q.asker)
  BY DEF Inv, PacketsOK
<1>2. q.id \in Ids \cup {Invalid}
  BY <1>1 DEF Carries
<1>3. /\ m \in Messages /\ m.t = "Reply" /\ m.id = q.id /\ m.kind = "ProtoMessage"
      /\ m.x = q.asker
  BY <1>1, <1>2, ReplyMessages
<1>4. Typed /\ Post(m)
  BY DEF Inv, Answer
<1> HIDE DEF m
<1>5. Shifted(0, m)
  BY <1>3, <1>4, PostShifts
<1>6. MessageOK(f, owner, sock, m) /\ \A c \in Conns : ~Opens(m, c)
  BY <1>1, <1>3 DEF MessageOK, Opens
<1>7. ASSUME NEW c \in Conns, sock[c] = "open", IsAnswer(m, c)
      PROVE  agent_id[c] # Invalid /\ (c \notin reset => m.id = agent_id[c])
  <2>1. q.asker = c
    BY <1>3, <1>7 DEF IsAnswer
  <2>2. agent_id[c] # Invalid
    BY <1>7, <2>1 DEF Inv, Announced
  <2> QED
    BY <1>3, <1>7, <2>1, <2>2 DEF Inv, Awaited
<1>8. /\ UNCHANGED <<sock, handle, owner, waiting, agent_id, reset, answers, used>>
      /\ logins' = logins /\ asked' \subseteq asked
  BY DEF Answer
<1> QED
  BY <1>5, <1>6, <1>7, <1>8, QuietStep

\* Login preserves the invariant.
LEMMA LoginKeeps ==
  ASSUME NEW f \in Owners, Inv(f), NEW q \in asked, Login(q)
  PROVE  Inv(f)'
<1> DEFINE m == RegisterUserService
<1>1. m \in Messages /\ m.t = "GatewayRegisterUserServiceReq"
  BY RegisterMessage
<1> HIDE DEF m
<1>2. Typed /\ mailbox' = mailbox
  BY DEF Inv, Login
<1>3. Shifted(0, m)
  BY <1>1, <1>2, PostShifts
<1>4. MessageOK(f, owner, sock, m) /\ \A k \in Conns : ~Opens(m, k) /\ ~IsAnswer(m, k)
  BY <1>1 DEF MessageOK, Opens, IsAnswer
<1>5. UNCHANGED <<sock, handle, owner, waiting, agent_id, reset, answers, asked>>
  BY DEF Login
<1>6. /\ used' \in [ids : Nat, packets : Nat, logins : Nat, resets : Nat]
      /\ used'.logins = used.logins + 1 /\ used'.ids = used.ids /\ used'.resets = used.resets
      /\ used.logins \in Nat /\ MaxLogins \in Nat /\ used.logins < MaxLogins
  BY <1>2, GatewayAssumption DEF Typed, Login
<1>7. used.logins + 1 \in Agents
  BY <1>6 DEF Agents
<1>8. q.asker \in Conns /\ Carries(f, q.id, q.asker)
  BY DEF Inv, PacketsOK
<1>9. LoginsOK(f)'
  <2>1. \A l \in logins' : l \in logins \/
          (l = [id |-> q.id, asker |-> q.asker, a |-> used.logins + 1])
    BY DEF Login
  <2>2. \A l \in logins : /\ l.asker \in Conns /\ Carries(f, l.id, l.asker)
                          /\ l.a \in Agents /\ l.a <= used.logins /\ owner[l.a] = None
    BY DEF Inv, LoginsOK
  <2>3. owner[used.logins + 1] = None
    BY <1>6, <1>7 DEF Inv, LoginsOK
  <2>4. \A l \in logins' : /\ l.asker \in Conns /\ Carries(f, l.id, l.asker)
                           /\ l.a \in Agents /\ l.a <= used.logins + 1 /\ owner[l.a] = None
    BY <1>6, <1>7, <1>8, <2>1, <2>2, <2>3 DEF Agents
  <2>5. \A l, k \in logins' : l.a = k.a => l = k
    BY <1>6, <2>1, <2>2 DEF Inv, LoginsOK, Agents
  <2>6. \A a \in Agents : a > used.logins + 1 => owner[a] = None
    BY <1>6 DEF Inv, LoginsOK, Agents
  <2> QED
    BY <1>5, <1>6, <2>4, <2>5, <2>6 DEF LoginsOK
<1>10. Grows(f, f)
  BY <1>5, GrowsSame
<1>11. AnswersKnown' /\ AnswersToAsker'
  BY <1>5, <1>10, AnswersStay
<1>12. \A i \in Ids : waiting[i] \in {None, f[i]}
  BY DEF Inv, IdsDrawn
<1>13. used'.logins <= MaxLogins
  BY <1>6
<1> QED
  BY <1>2, <1>3, <1>4, <1>5, <1>6, <1>9, <1>10, <1>11, <1>12, <1>13, CalmStep DEF Typed

\* LoginMade preserves the invariant.
LEMMA LoginMadeKeeps ==
  ASSUME NEW f \in Owners, Inv(f), NEW l \in logins, AgentMgrLoginReq(l, TRUE)
  PROVE  Inv(f)'
<1> DEFINE m == Reply(l.id, "GatewaySureAgent", l.a)
<1>1. /\ l.asker \in Conns /\ Carries(f, l.id, l.asker)
      /\ l.a \in Agents /\ l.a <= used.logins /\ owner[l.a] = None
  BY DEF Inv, LoginsOK
<1>2. l.id \in Ids \cup {Invalid}
  BY <1>1 DEF Carries
<1>3. /\ m \in Messages /\ m.t = "Reply" /\ m.id = l.id /\ m.kind = "GatewaySureAgent"
      /\ m.x = l.a
  BY <1>1, <1>2, ReplyMessages
<1>4. /\ Typed /\ Post(m) /\ owner' = [owner EXCEPT ![l.a] = l.asker]
      /\ UNCHANGED <<sock, handle, waiting, agent_id, reset, answers, asked, used>>
      /\ logins' = logins \ {l}
  BY DEF Inv, AgentMgrLoginReq
<1> HIDE DEF m
<1>5. Shifted(0, m)
  BY <1>3, <1>4, PostShifts
<1>6. /\ owner' \in [Agents -> Conns \cup {None}] /\ owner'[l.a] = l.asker
      /\ \A a \in Agents : a # l.a => owner'[a] = owner[a]
  BY <1>1, <1>4 DEF Typed
<1>7. MessageOK(f, owner', sock', m) /\ \A c \in Conns : ~Opens(m, c) /\ ~IsAnswer(m, c)
  BY <1>1, <1>3, <1>6 DEF MessageOK, Opens, IsAnswer
<1>8. Grows(f, f)
  BY <1>1, <1>4, <1>6, GatewayAssumption DEF Grows, None
<1>9. LoginsOK(f)'
  <2>1. \A k \in logins' : k \in logins /\ k.a # l.a
    BY <1>4 DEF Inv, LoginsOK
  <2>2. used' = used /\ used.logins \in Nat
    BY <1>4 DEF Typed
  <2>3. \A a \in Agents : a > used.logins => owner'[a] = None
    BY <1>1, <1>6, <2>2 DEF Inv, LoginsOK, Agents
  <2> QED
    BY <1>6, <2>1, <2>2, <2>3 DEF Inv, LoginsOK
<1>10. AnswersKnown' /\ AnswersToAsker'
  BY <1>4, <1>8, AnswersStay
<1>11. \A i \in Ids : waiting'[i] \in {None, f[i]}
  BY <1>4 DEF Inv, IdsDrawn
<1>12. /\ sock' \in [Conns -> {"none", "open", "closed", "gone"}]
       /\ handle' \in [Conns -> Agents \cup {UserService}]
       /\ waiting' \in [Ids -> Conns \cup {None}]
       /\ used' \in [ids : Nat, packets : Nat, logins : Nat, resets : Nat]
       /\ used'.logins <= MaxLogins /\ used'.ids = used.ids /\ used'.resets = used.resets
  BY <1>4 DEF Typed
<1>13. /\ sock' = sock /\ waiting' = waiting /\ agent_id' = agent_id /\ reset' = reset
       /\ asked' = asked /\ owner' \in [Agents -> Conns \cup {None}]
  BY <1>4, <1>6
<1> QED
  BY <1>5, <1>7, <1>8, <1>9, <1>10, <1>11, <1>12, <1>13, CalmStep

\* A login fails, or stops AgentMgrService; an agent exits.
LEMMA LossKeeps ==
  ASSUME NEW f \in Owners, Inv(f),
         \/ \E l \in logins : AgentMgrLoginReq(l, FALSE) \/ LoginTimesOut(l)
         \/ \E a \in agents : AgentExits(a)
  PROVE  Inv(f)'
<1> DEFINE m == RegisterUserService
<1>1. m \in Messages /\ m.t = "GatewayRegisterUserServiceReq"
  BY RegisterMessage
<1> HIDE DEF m
<1>2. /\ Typed /\ mailbox' = mailbox
      /\ UNCHANGED <<sock, handle, owner, waiting, agent_id, reset, answers, used>>
      /\ logins' \subseteq logins /\ asked' \subseteq asked
  BY DEF Inv, AgentMgrLoginReq, LoginTimesOut, AgentExits
<1>3. Shifted(0, m)
  BY <1>1, <1>2, PostShifts
<1>4. MessageOK(f, owner, sock, m) /\ \A k \in Conns : ~Opens(m, k) /\ ~IsAnswer(m, k)
  BY <1>1 DEF MessageOK, Opens, IsAnswer
<1> QED
  BY <1>2, <1>3, <1>4, QuietStep

(***************************************************************************)
(* The steps that draw an id, and the one that moves a connection to it.   *)
(***************************************************************************)

\* A new id is one of Ids, and belongs to nobody yet.
LEMMA NewIdFree ==
  ASSUME NEW f \in Owners, Inv(f), NEW c \in Conns,
         \/ agent_id[c] = Invalid
         \/ used.resets < MaxResets
  PROVE  /\ NewSession \in Ids /\ f[NewSession] = None /\ NewSession > used.ids
         /\ IsFiniteSet(Linked) /\ Cardinality(Linked) \in Nat
<1>1. /\ IsFiniteSet(Linked) /\ Cardinality(Linked) \in Nat /\ Cardinality(Conns) \in Nat
      /\ Cardinality(Linked) <= Cardinality(Conns)
      /\ Linked # Conns => Cardinality(Linked) < Cardinality(Conns)
  <2>1. Linked \subseteq Conns
    BY DEF Linked
  <2> QED
    BY <2>1, GatewayAssumption, FS_Subset, FS_CardinalityType
<1>2. /\ used.ids \in Nat /\ used.resets \in Nat /\ MaxResets \in Nat
      /\ used.resets <= MaxResets /\ used.ids <= used.resets + Cardinality(Linked)
  BY GatewayAssumption DEF Inv, Typed, IdsDrawn
<1>3. agent_id[c] = Invalid => Linked # Conns
  BY DEF Linked
<1>4. NewSession \in Ids /\ NewSession > used.ids
  BY <1>1, <1>2, <1>3 DEF NewSession, Ids
<1> QED
  BY <1>1, <1>4 DEF Inv, IdsDrawn

\* ResetAgentId preserves the invariant.
LEMMA ResetAgentIdKeeps ==
  ASSUME NEW f \in Owners, Inv(f), NEW c \in Conns, ResetAgentId(c)
  PROVE  \E g \in Owners : Inv(g)'
<1>1. PICK n : n = NewSession
  OBVIOUS
<1> DEFINE g == [f EXCEPT ![n] = c]
           m == Reply(agent_id[c], "GatewayResetAgentId", n)
<1>2. /\ Typed /\ Post(m) /\ agent_id[c] # Invalid /\ used.resets < MaxResets
      /\ UNCHANGED <<sock, agent_id, handle, waiting, asked, logins, owner, answers, reset>>
      /\ used' = [used EXCEPT !.resets = @ + 1, !.ids = @ + 1]
  BY <1>1 DEF Inv, ResetAgentId
<1>3. /\ n \in Ids /\ f[n] = None /\ n > used.ids /\ n = used.ids + 1
      /\ Cardinality(Linked) \in Nat
  BY <1>1, <1>2, NewIdFree DEF NewSession
<1>4. g \in Owners /\ g[n] = c /\ \A i \in Ids : i # n => g[i] = f[i]
  BY <1>3 DEF Owners
<1>5. agent_id[c] \in Ids /\ f[agent_id[c]] = c
  BY <1>2 DEF Typed, Inv, IdsDrawn
<1>6. /\ m \in Messages /\ m.t = "Reply" /\ m.id = agent_id[c]
      /\ m.kind = "GatewayResetAgentId" /\ m.x = n
  <2>1. n \in Conns \cup Agents \cup Ids /\ agent_id[c] \in Ids \cup {Invalid}
    BY <1>3, <1>5
  <2> QED
    BY <2>1, ReplyMessages
<1> HIDE DEF g, m
<1>7. Shifted(0, m)
  BY <1>2, <1>6, PostShifts
<1>8. Grows(f, g)
  BY <1>2, <1>3, <1>4, GatewayAssumption DEF Grows, None
<1>9. MessageOK(g, owner', sock', m) /\ \A k \in Conns : ~Opens(m, k) /\ ~IsAnswer(m, k)
  BY <1>3, <1>4, <1>5, <1>6 DEF MessageOK, Opens, IsAnswer
<1>10. /\ used' \in [ids : Nat, packets : Nat, logins : Nat, resets : Nat]
       /\ used'.logins = used.logins /\ used'.ids = used.ids + 1
       /\ used'.resets = used.resets + 1 /\ used.ids \in Nat /\ used.resets \in Nat
       /\ MaxResets \in Nat
  <2>1. used \in [ids : Nat, packets : Nat, logins : Nat, resets : Nat]
    BY <1>2 DEF Typed
  <2>2. used' = [ids |-> used.ids + 1, packets |-> used.packets, logins |-> used.logins,
                 resets |-> used.resets + 1]
    BY <1>2, <2>1
  <2> QED
    BY <2>1, <2>2, GatewayAssumption
<1>11. Typed'
  <2>1. used'.resets <= MaxResets
    BY <1>2, <1>10
  <2> QED
    BY <1>2, <1>7, <1>10, <2>1 DEF Typed, Shifted
<1>12. IdsDrawn(g)'
  <2>1. Linked' = Linked
    BY <1>2 DEF Linked
  <2>2. \A i \in Ids : i > used.ids + 1 => g[i] = None
    BY <1>3, <1>4, <1>10 DEF Inv, IdsDrawn, Ids
  <2>3. \A i \in Ids : g[i] # None => agent_id[g[i]] # Invalid
    BY <1>2, <1>4 DEF Inv, IdsDrawn
  <2>4. \A k \in Conns : agent_id[k] # Invalid => g[agent_id[k]] = k
    <3> SUFFICES ASSUME NEW k \in Conns, agent_id[k] # Invalid
                 PROVE  g[agent_id[k]] = k
      OBVIOUS
    <3>1. agent_id[k] \in Ids /\ f[agent_id[k]] = k
      BY <1>2 DEF Typed, Inv, IdsDrawn
    <3> QED
      BY <3>1, <1>8 DEF Grows
  <2>5. \A i \in Ids : waiting[i] \in {None, g[i]}
    BY <1>3, <1>4 DEF Inv, IdsDrawn
  <2>6. used.ids + 1 <= used.resets + 1 + Cardinality(Linked)
    BY <1>3, <1>10 DEF Inv, IdsDrawn
  <2> QED
    BY <1>2, <1>10, <2>1, <2>2, <2>3, <2>4, <2>5, <2>6 DEF Inv, IdsDrawn
<1>13. MailOK(g)'
  BY <1>7, <1>8, <1>9, MailStep DEF Inv
<1>14. PacketsOK(g)'
  BY <1>2, <1>8, PacketsStep DEF Inv
<1>15. LoginsOK(g)'
  BY <1>2, <1>8, <1>10, LoginsStep DEF Inv
<1>16. \A k \in Conns : Announced(k)'
  <2> SUFFICES ASSUME NEW k \in Conns
               PROVE  Announced(k)'
    OBVIOUS
  <2>1. Announced(k) /\ ~Opens(m, k) /\ ~IsAnswer(m, k)
    BY <1>9 DEF Inv
  <2> QED
    BY <1>2, <1>7, <2>1, AnnouncedStep
<1>17. \A k \in Conns : Awaited(k)'
  <2> SUFFICES ASSUME NEW k \in Conns
               PROVE  Awaited(k)'
    OBVIOUS
  <2>1. Awaited(k) /\ ~IsAnswer(m, k)
    BY <1>9 DEF Inv
  <2> QED
    BY <1>2, <1>7, <2>1, AwaitedStep
<1>18. AnswersKnown' /\ AnswersToAsker'
  BY <1>2, <1>8, AnswersStay
<1>19. Inv(g)'
  BY <1>11, <1>12, <1>13, <1>14, <1>15, <1>16, <1>17, <1>18 DEF Inv
<1> QED
  BY <1>4, <1>19

\* Connected preserves the invariant.
LEMMA ConnectedKeeps ==
  ASSUME NEW f \in Owners, Inv(f), GatewayTcpConnection, sock[Message.c] = "open"
  PROVE  \E g \in Owners : Inv(g)'
<1>1. PICK n : n = NewSession
  OBVIOUS
<1>2. Typed /\ mailbox # << >> /\ Message.t = "GatewayTcpConnection"
  BY DEF Inv, GatewayTcpConnection, Handles, Message
<1>3. PICK c \in Conns : c = Message.c /\ sock[c] = "open"
  BY <1>2, AtHand DEF MessageOK
<1> DEFINE g == [f EXCEPT ![n] = c]
           m == PersistentUserSession(c, n)
<1>4. /\ mailbox' = Append(Rest, m) /\ agent_id' = [agent_id EXCEPT ![c] = n]
      /\ UNCHANGED <<sock, handle, waiting, asked, logins, owner, answers, reset>>
      /\ used' = [used EXCEPT !.ids = @ + 1]
  BY <1>1, <1>3 DEF GatewayTcpConnection, Connected
<1>5. 1 \in 1..Len(mailbox) /\ Message = mailbox[1] /\ Opens(mailbox[1], c)
  BY <1>2, <1>3, AtHand DEF Opens
<1>6. agent_id[c] = Invalid
  BY <1>3, <1>5 DEF Inv, Announced
<1>7. /\ n \in Ids /\ f[n] = None /\ n > used.ids /\ n = used.ids + 1
      /\ IsFiniteSet(Linked) /\ Cardinality(Linked) \in Nat
  BY <1>1, <1>6, NewIdFree DEF NewSession
<1>8. g \in Owners /\ g[n] = c /\ \A i \in Ids : i # n => g[i] = f[i]
  BY <1>7 DEF Owners
<1>9. m \in Messages /\ m.t = "GatewayPersistentUserSession" /\ m.c = c /\ m.id = n
  BY <1>7, SessionMessages
<1> HIDE DEF g, m
<1>10. Shifted(1, m) /\ Len(mailbox) \in 1..Len(mailbox') /\ mailbox'[Len(mailbox)] = m
  BY <1>2, <1>4, <1>9, TakeShifts
<1>11. Grows(f, g)
  BY <1>4, <1>7, <1>8, GatewayAssumption DEF Grows, None
<1>12. MessageOK(g, owner', sock', m) /\ \A k \in Conns : ~Opens(m, k) /\ ~IsAnswer(m, k)
  BY <1>3, <1>4, <1>7, <1>8, <1>9 DEF MessageOK, Opens, IsAnswer
<1>13. /\ used' \in [ids : Nat, packets : Nat, logins : Nat, resets : Nat]
       /\ used'.logins = used.logins /\ used'.ids = used.ids + 1
       /\ used'.resets = used.resets /\ used.ids \in Nat /\ used.resets \in Nat
  BY <1>2, <1>4 DEF Typed
<1>14. /\ agent_id' \in [Conns -> Ids \cup {Invalid}] /\ agent_id'[c] = n /\ n # Invalid
       /\ \A k \in Conns : k # c => agent_id'[k] = agent_id[k]
  BY <1>2, <1>4, <1>7 DEF Typed, Ids, Invalid
<1>15. Typed'
  BY <1>2, <1>4, <1>10, <1>13, <1>14 DEF Typed, Shifted
<1>16. IdsDrawn(g)'
  <2>1. Linked' = Linked \cup {c} /\ c \notin Linked
    BY <1>6, <1>14 DEF Linked
  <2>2. Cardinality(Linked \cup {c}) = Cardinality(Linked) + 1
    BY <1>7, <2>1, FS_AddElement
  <2>3. \A i \in Ids : i > used.ids + 1 => g[i] = None
    BY <1>7, <1>8, <1>13 DEF Inv, IdsDrawn, Ids
  <2>4. \A i \in Ids : g[i] # None => agent_id'[g[i]] # Invalid
    <3> SUFFICES ASSUME NEW i \in Ids, g[i] # None
                 PROVE  agent_id'[g[i]] # Invalid
      OBVIOUS
    <3>1. CASE g[i] = c
      BY <1>14, <3>1
    <3>2. CASE g[i] # c
      <4>1. g[i] = f[i] /\ f[i] \in Conns
        BY <1>8, <3>2 DEF Owners
      <4>2. agent_id[f[i]] # Invalid
        BY <4>1 DEF Inv, IdsDrawn
      <4> QED
        BY <1>14, <3>2, <4>1, <4>2
    <3> QED
      BY <3>1, <3>2
  <2>5. \A k \in Conns : agent_id'[k] # Invalid => g[agent_id'[k]] = k
    <3> SUFFICES ASSUME NEW k \in Conns, k # c, agent_id[k] # Invalid
                 PROVE  g[agent_id[k]] = k
      BY <1>8, <1>14
    <3>1. agent_id[k] \in Ids /\ f[agent_id[k]] = k
      BY <1>2 DEF Typed, Inv, IdsDrawn
    <3> QED
      BY <3>1, <1>11 DEF Grows
  <2>6. \A i \in Ids : waiting[i] \in {None, g[i]}
    BY <1>7, <1>8 DEF Inv, IdsDrawn
  <2>7. used.ids + 1 <= used.resets + Cardinality(Linked')
    BY <1>7, <1>13, <2>1, <2>2 DEF Inv, IdsDrawn
  <2>8. \A k \in Conns : sock[k] = "none" => agent_id'[k] = Invalid
    BY <1>3, <1>14 DEF Inv, IdsDrawn
  <2> QED
    BY <1>4, <1>13, <2>3, <2>4, <2>5, <2>6, <2>7, <2>8 DEF IdsDrawn
<1>17. MailOK(g)'
  BY <1>10, <1>11, <1>12, MailStep DEF Inv
<1>18. PacketsOK(g)'
  BY <1>4, <1>11, PacketsStep DEF Inv
<1>19. LoginsOK(g)'
  BY <1>4, <1>11, <1>13, LoginsStep DEF Inv
<1>20. /\ \A k \in 1..Len(mailbox') : ~Opens(mailbox'[k], c) /\ ~IsAnswer(mailbox'[k], c)
       /\ \A q \in asked : q.asker # c
  <2>1. /\ \A k \in 1..Len(mailbox) : Opens(mailbox[k], c) => k = 1
        /\ \A k \in 1..Len(mailbox) : ~IsAnswer(mailbox[k], c)
        /\ \A q \in asked : q.asker # c
    BY <1>3, <1>5, <1>6 DEF Inv, Announced
  <2>2. ASSUME NEW k \in 1..Len(mailbox')
        PROVE  ~Opens(mailbox'[k], c) /\ ~IsAnswer(mailbox'[k], c)
    <3>1. CASE k + 1 \in 1..Len(mailbox) /\ mailbox'[k] = mailbox[k + 1]
      BY <2>1, <3>1
    <3>2. CASE mailbox'[k] = m
      BY <1>12, <3>2
    <3> QED
      BY <1>10, <3>1, <3>2 DEF Shifted
  <2> QED
    BY <2>1, <2>2
<1>21. Announced(c)' /\ Awaited(c)'
  <2>1. Announced(c)'
    BY <1>14, <1>20 DEF Announced
  <2>2. Starts(m, c, n)
    BY <1>9 DEF Starts
  <2>3. Awaited(c)'
    BY <1>4, <1>10, <1>14, <1>20, <2>2 DEF Awaited
  <2> QED
    BY <2>1, <2>3
<1>22. ASSUME NEW k \in Conns, k # c
       PROVE  Announced(k)' /\ Awaited(k)'
  <2>1. /\ Announced(k) /\ Awaited(k) /\ ~Opens(m, k) /\ ~IsAnswer(m, k)
        /\ agent_id'[k] = agent_id[k]
    BY <1>12, <1>14, <1>22 DEF Inv
  <2>2. ~Opens(mailbox[1], k) /\ ~Starts(mailbox[1], k, agent_id[k])
    BY <1>2, <1>3, <1>5, <1>22 DEF Opens, Starts
  <2>3. Announced(k)'
    BY <1>4, <1>10, <2>1, <2>2, AnnouncedStep
  <2>4. Awaited(k)'
    BY <1>4, <1>10, <2>1, <2>2, AwaitedStep
  <2> QED
    BY <2>3, <2>4
<1>23. AnswersKnown' /\ AnswersToAsker'
  BY <1>4, <1>11, AnswersStay
<1>24. Inv(g)'
  <2>1. /\ \A k \in Conns : Announced(k)'
        /\ \A k \in Conns : Awaited(k)'
    BY <1>21, <1>22
  <2> QED
    BY <1>15, <1>16, <1>17, <1>18, <1>19, <1>23, <2>1 DEF Inv
<1> QED
  BY <1>8, <1>24

\* ReplyReset preserves the invariant.
LEMMA ReplyResetKeeps ==
  ASSUME NEW f \in Owners, Inv(f), ReplyResetAgentId
  PROVE  Inv(f)'
<1>1. /\ Typed /\ mailbox # << >> /\ Message.t = "Reply"
      /\ Message.kind = "GatewayResetAgentId"
  BY DEF Inv, ReplyResetAgentId, Handles, Message
<1>2. PICK i \in Ids, x \in Ids :
        i = Message.id /\ x = Message.x /\ f[x] \in Conns /\ f[i] = f[x]
  BY <1>1, AtHand DEF MessageOK
<1>3. Waiter(i) \in {None, f[i]} /\ Waiter(i) = waiting[i]
  BY DEF Waiter, Ids, Invalid, Inv, IdsDrawn
<1>4. CASE Waiter(i) = None
  <2> DEFINE m == RegisterUserService
  <2>1. m \in Messages /\ m.t = "GatewayRegisterUserServiceReq"
    BY RegisterMessage
  <2> HIDE DEF m
  <2>2. /\ mailbox' = Rest /\ logins' = logins /\ asked' = asked
        /\ UNCHANGED <<sock, handle, owner, waiting, agent_id, reset, answers, used>>
    BY <1>2, <1>4 DEF ReplyResetAgentId
  <2>3. Shifted(1, m) /\ Message = mailbox[1]
    BY <1>1, <2>1, <2>2, TakeShifts
  <2>4. MessageOK(f, owner, sock, m) /\ \A k \in Conns : ~Opens(m, k) /\ ~IsAnswer(m, k)
    BY <2>1 DEF MessageOK, Opens, IsAnswer
  <2>5. mailbox[1].t # "GatewayPersistentUserSession" /\ \A k \in Conns : ~Opens(mailbox[1], k)
    BY <1>1, <2>3 DEF Opens
  <2> QED
    BY <2>2, <2>3, <2>4, <2>5, QuietStep
<1>5. CASE Waiter(i) # None
  <2>1. PICK c \in Conns : c = Waiter(i) /\ c = f[i] /\ c = f[x]
    BY <1>2, <1>3, <1>5
  <2> DEFINE m == PersistentUserSession(c, x)
  <2>2. /\ mailbox' = Append(Rest, m) /\ agent_id' = [agent_id EXCEPT ![c] = x]
        /\ waiting' = [waiting EXCEPT ![i] = None] /\ reset' = reset \union {c}
        /\ UNCHANGED <<sock, handle, asked, logins, owner, answers, used>>
    BY <1>2, <1>5, <2>1 DEF ReplyResetAgentId
  <2>3. m \in Messages /\ m.t = "GatewayPersistentUserSession" /\ m.c = c /\ m.id = x
    BY SessionMessages
  <2> HIDE DEF m
  <2>4. Shifted(1, m) /\ Message = mailbox[1]
    BY <1>1, <2>2, <2>3, TakeShifts
  <2>5. agent_id[c] # Invalid /\ sock[c] # "none"
    BY <2>1, GatewayAssumption DEF Inv, IdsDrawn, None
  <2>6. Grows(f, f)
    BY <2>2, GrowsSame
  <2>7. MessageOK(f, owner', sock', m) /\ \A k \in Conns : ~Opens(m, k) /\ ~IsAnswer(m, k)
    BY <2>1, <2>2, <2>3, <2>5 DEF MessageOK, Opens, IsAnswer
  <2>8. /\ agent_id' \in [Conns -> Ids \cup {Invalid}] /\ agent_id'[c] = x /\ x # Invalid
        /\ \A k \in Conns : k # c => agent_id'[k] = agent_id[k]
    BY <1>1, <2>2 DEF Typed, Ids, Invalid
  <2>9. /\ waiting' \in [Ids -> Conns \cup {None}] /\ waiting'[i] = None
        /\ \A k \in Ids : k # i => waiting'[k] = waiting[k]
    BY <1>1, <2>2 DEF Typed
  <2>10. Typed'
    BY <1>1, <2>2, <2>4, <2>8, <2>9 DEF Typed, Shifted
  <2>11. IdsDrawn(f)'
    <3>1. Linked' = Linked
      BY <2>5, <2>8 DEF Linked
    <3>2. \A k \in Ids : f[k] # None => agent_id'[f[k]] # Invalid
      BY <2>8 DEF Inv, IdsDrawn, Owners
    <3>3. \A k \in Conns : agent_id'[k] # Invalid => f[agent_id'[k]] = k
      BY <2>1, <2>8 DEF Inv, IdsDrawn
    <3>4. \A k \in Ids : waiting'[k] \in {None, f[k]}
      BY <2>9 DEF Inv, IdsDrawn
    <3>5. \A k \in Conns : sock[k] = "none" => agent_id'[k] = Invalid
      BY <2>5, <2>8 DEF Inv, IdsDrawn
    <3> QED
      BY <2>2, <3>1, <3>2, <3>3, <3>4, <3>5 DEF Inv, IdsDrawn
  <2>12. MailOK(f)'
    BY <2>4, <2>6, <2>7, MailStep DEF Inv
  <2>13. PacketsOK(f)'
    BY <2>2, <2>6, PacketsStep DEF Inv
  <2>14. LoginsOK(f)'
    BY <2>2, <2>6, LoginsStep DEF Inv
  <2>15. Announced(c)' /\ Awaited(c)'
    <3>1. Awaited(c)'
      BY <2>2 DEF Awaited
    <3>2. sock[c] = "open" => \A k \in 1..Len(mailbox) : ~Opens(mailbox[k], c)
      BY <2>5 DEF Inv, Announced
    <3>3. sock[c] = "open" => \A k \in 1..Len(mailbox') : ~Opens(mailbox'[k], c)
      BY <2>4, <2>7, <3>2 DEF Shifted
    <3>4. Announced(c)'
      BY <2>2, <2>8, <3>3 DEF Announced
    <3> QED
      BY <3>1, <3>4
  <2>16. ASSUME NEW k \in Conns, k # c
         PROVE  Announced(k)' /\ Awaited(k)'
    <3>1. /\ Announced(k) /\ Awaited(k) /\ ~Opens(m, k) /\ ~IsAnswer(m, k)
          /\ agent_id'[k] = agent_id[k]
      BY <2>7, <2>8, <2>16 DEF Inv
    <3>2. ~Opens(mailbox[1], k) /\ ~Starts(mailbox[1], k, agent_id[k])
      BY <1>1, <2>4 DEF Opens, Starts
    <3>3. agent_id[k] # Invalid => waiting'[agent_id[k]] = waiting[agent_id[k]]
      <4> SUFFICES ASSUME agent_id[k] # Invalid
                   PROVE  waiting'[agent_id[k]] = waiting[agent_id[k]]
        OBVIOUS
      <4>1. agent_id[k] \in Ids /\ f[agent_id[k]] = k
        BY <1>1 DEF Typed, Inv, IdsDrawn
      <4>2. agent_id[k] # i
        BY <2>1, <2>16, <4>1
      <4> QED
        BY <2>9, <4>1, <4>2
    <3>4. Announced(k)'
      BY <2>2, <2>4, <3>1, <3>2, AnnouncedStep
    <3>5. Awaited(k)'
      BY <2>2, <2>4, <3>1, <3>2, <3>3, AwaitedStep
    <3> QED
      BY <3>4, <3>5
  <2>17. AnswersKnown' /\ AnswersToAsker'
    BY <2>2, <2>6, AnswersStay
  <2>18. /\ \A k \in Conns : Announced(k)'
         /\ \A k \in Conns : Awaited(k)'
    BY <2>15, <2>16
  <2> QED
    BY <2>10, <2>11, <2>12, <2>13, <2>14, <2>17, <2>18 DEF Inv
<1> QED
  BY <1>4, <1>5

(***************************************************************************)
(* The invariant is inductive.                                             *)
(***************************************************************************)
LEMMA InitIInv ==
  Init => IInv
<1> SUFFICES ASSUME Init
             PROVE  \E f \in Owners : Inv(f)
  BY DEF IInv
<1> DEFINE f == [i \in Ids |-> None]
<1>1. f \in Owners /\ \A i \in Ids : f[i] = None
  BY DEF Owners
<1> HIDE DEF f
<1>2. Linked = {}
  BY DEF Linked, Init
<1>3. Typed
  BY GatewayAssumption DEF Typed, Init, None, Invalid, UserService
<1>4. IdsDrawn(f)
  <2>1. Cardinality(Linked) = 0
    BY <1>2, FS_EmptySet
  <2> QED
    BY <1>1, <2>1 DEF IdsDrawn, Init
<1>5. MailOK(f) /\ PacketsOK(f) /\ LoginsOK(f)
  BY DEF MailOK, PacketsOK, LoginsOK, Init
<1>6. (\A c \in Conns : Announced(c)) /\ (\A c \in Conns : Awaited(c))
  BY DEF Announced, Awaited, Init
<1>7. AnswersKnown /\ AnswersToAsker
  BY DEF AnswersKnown, AnswersToAsker, Init
<1> QED
  BY <1>1, <1>3, <1>4, <1>5, <1>6, <1>7 DEF Inv

\* Every step preserves the invariant.
LEMMA IInvStep ==
  IInv /\ [Next]_vars => IInv'
<1> SUFFICES ASSUME NEW f \in Owners, Inv(f), [Next]_vars
             PROVE  \E g \in Owners : Inv(g)'
  BY DEF IInv
<1>1. CASE UNCHANGED vars
  <2>1. Typed' /\ MailOK(f)' /\ PacketsOK(f)' /\ LoginsOK(f)'
    BY <1>1 DEF vars, Inv, Typed, MailOK, PacketsOK, LoginsOK
  <2>2. Linked' = Linked
    BY <1>1 DEF vars, Linked
  <2>3. IdsDrawn(f)'
    BY <1>1, <2>2 DEF vars, Inv, IdsDrawn
  <2>4. /\ \A c \in Conns : Announced(c)'
        /\ \A c \in Conns : Awaited(c)'
    BY <1>1 DEF vars, Inv, Announced, Awaited
  <2>5. AnswersKnown' /\ AnswersToAsker'
    BY <1>1 DEF vars, Inv, AnswersKnown, AnswersToAsker
  <2> QED
    BY <2>1, <2>3, <2>4, <2>5 DEF Inv
<1>2. CASE Handle
  <2>1. CASE GatewayTcpConnection
    BY <2>1, ConnectedKeeps, EndKeeps
  <2>2. CASE GatewayPersistentUserSession
    BY <2>2, StartKeeps
  <2>3. CASE GatewayRegisterUserServiceReq
    BY <2>3, RegisterReqKeeps
  <2>4. CASE \E ok \in BOOLEAN : GatewayTcpRecvPacket(ok)
    BY <2>4, RecvKeeps
  <2>5. CASE \E ok \in BOOLEAN : ReplyAnswer(ok)
    BY <2>5, ReplyAnswerKeeps
  <2>6. CASE ReplySureAgent
    BY <2>6, ReplySureAgentKeeps
  <2>7. CASE ReplyResetAgentId
    BY <2>7, ReplyResetKeeps
  <2>8. CASE ReplyPersistent
    BY <2>8, ReplyPersistentKeeps
  <2> QED
    BY <1>2, <2>1, <2>2, <2>3, <2>4, <2>5, <2>6, <2>7, <2>8 DEF Handle
<1>3. CASE Register
  BY <1>3, RegisterKeeps
<1>4. ASSUME NEW c \in Conns, Connect(c)
      PROVE  \E g \in Owners : Inv(g)'
  BY <1>4, ConnectKeeps
<1>5. ASSUME NEW c \in Conns, Close(c) \/ ReportClose(c)
      PROVE  \E g \in Owners : Inv(g)'
  BY <1>5, CloseKeeps
<1>6. ASSUME NEW c \in Conns, ResetAgentId(c)
      PROVE  \E g \in Owners : Inv(g)'
  BY <1>6, ResetAgentIdKeeps
<1>7. ASSUME NEW c \in Conns, RecvPacket(c)
      PROVE  \E g \in Owners : Inv(g)'
  BY <1>7, RecvPacketKeeps
<1>8. ASSUME NEW q \in asked, Login(q)
      PROVE  \E g \in Owners : Inv(g)'
  BY <1>8, LoginKeeps
<1>9. ASSUME NEW q \in asked, Answer(q)
      PROVE  \E g \in Owners : Inv(g)'
  BY <1>9, AnswerKeeps
<1>10. ASSUME NEW l \in logins, LoginTimesOut(l)
       PROVE  \E g \in Owners : Inv(g)'
  BY <1>10, LossKeeps
<1>11. ASSUME NEW l \in logins, NEW made \in BOOLEAN, AgentMgrLoginReq(l, made)
       PROVE  \E g \in Owners : Inv(g)'
  <2>1. CASE made = TRUE
    BY <1>11, <2>1, LoginMadeKeeps
  <2>2. CASE made = FALSE
    BY <1>11, <2>2, LossKeeps
  <2> QED
    BY <2>1, <2>2
<1>12. ASSUME NEW a \in agents, AgentExits(a)
       PROVE  \E g \in Owners : Inv(g)'
  BY <1>12, LossKeeps
<1> QED
  BY <1>1, <1>2, <1>3, <1>4, <1>5, <1>6, <1>7, <1>8, <1>9, <1>10, <1>11, <1>12 DEF Next

\* In every state the session ids drawn so far belong to connections, and the
\* mailbox, the packets, the logins and the waiting coroutines agree on it.
THEOREM Inductive == Spec => []IInv
<1>1. Init => IInv
  BY InitIInv
<1>2. IInv /\ [Next]_vars => IInv'
  BY IInvStep
<1> QED
  BY <1>1, <1>2, PTL DEF Spec

\* The answer to a packet goes to the connection the packet came from, or is
\* dropped because the connection was closed or its agent_id was reset; and
\* the agent of a connection was created for it (GatewayService's coroutine
\* per connection, and AgentMgrService).
THEOREM AnswersToAskerHolds == Spec => []AnswersToAsker
<1>1. IInv => AnswersToAsker
  BY DEF IInv, Inv
<1> QED
  BY <1>1, Inductive, PTL
=============================================================================

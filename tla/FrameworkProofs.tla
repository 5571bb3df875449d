---------------------------- MODULE FrameworkProofs ----------------------------
(***************************************************************************)
(* Proofs about Framework, for any modules that the settings load together *)
(* and any number of workers and messages.                                 *)
(***************************************************************************)
EXTENDS Framework, TLAPS

(***************************************************************************)
(* The inductive invariant.                                                *)
(***************************************************************************)
Components == {"logger", "snowflake", "service_mgr", "session_mgr", "worker_mgr",
               "io_context_mgr", "session_monitor", "proto_mgr", "timer", "module_mgr"}
Created(k) == {InitOrder[i] : i \in 1..k - 1}

Threads == Pool \union Separate
ThreadStates == {"none", "spawned", "loop", "asleep", "ended"} \union Services

Typed ==
  /\ main.at \in {"init", "module", "ready", "start", "running", "stop", "join",
                  "destroy", "done", "crashed"}
  /\ main.at \in {"init", "module", "start", "stop", "join"} => main.step \in Nat \ {0}
  /\ main = [at |-> main.at, step |-> main.step, todo |-> main.todo, join |-> main.join]
  /\ inited \subseteq Modules
  /\ services \subseteq Services
  /\ queue \subseteq Services
  /\ thread \in [Threads -> ThreadStates]
  /\ \A s \in Separate : thread[s] \in {"none", "loop", s}

\* Components are created in the order of InitOrder, all of them before the
\* modules are initialised; a thread that goes on finds all of them, up to the
\* destruction of the members, and Stop has joined the pool threads by then.
Creation ==
  /\ main.at = "init" => main.step <= 11 /\ exists = Created(main.step)
  /\ main.at = "module" => main.step = 11
  /\ main.at \in {"module", "ready", "start", "running"} => exists = Components
  /\ main.at \notin {"destroy", "done"} =>
       \A t \in Threads : thread[t] \notin Ended => exists = Components

Joined ==
  /\ main.at \in {"stop", "join"} =>
       \A c \in Components, j \in 1..6 : j < main.step /\ StopOrder[j] = c => Live(c) = {}
  /\ main.at \in {"destroy", "done"} => \A t \in Pool : thread[t] \in Ended

\* A service that was added, under its name if it has one.  Nobody looks for the
\* services of jssvr, which may be missing.
Optional == {"jsruntime", "js"}
Present(s) == (s \notin Optional => s \in services) /\ (s \notin Unnamed => s \in names)
Upto(m, k) == \A i \in 1..k : Present(ServicesOf[m][i])
Complete(m) == Upto(m, Len(ServicesOf[m]))
AllComplete == inited = Modules /\ \A m \in Modules : Complete(m)

\* What is left to be created are the services of a module from the k-th on.
From(q, m, k) ==
  /\ q \in Seq(Services) /\ Len(q) = Len(ServicesOf[m]) + 1 - k
  /\ \A i \in 1..Len(q) : q[i] = ServicesOf[m][k + i - 1]

\* A module whose MillionModuleInit has returned has added its services, unless
\* that stopped Init; so have all modules when a pool thread is spawned.
Registered ==
  /\ main.at = "init" => \A m \in inited : Complete(m)
  /\ main.at = "module" =>
       \E m \in inited : \E k \in 1..Len(ServicesOf[m]) + 1 :
         /\ From(main.todo, m, k) /\ Upto(m, k - 1)
         /\ \A o \in inited \ {m} : Complete(o)
  /\ main.at \in {"ready", "start", "running"} => AllComplete
  /\ \A t \in Pool : thread[t] # "none" => AllComplete

IInv == Typed /\ Creation /\ Joined /\ Registered /\ LookupsFind

(***************************************************************************)
(* The modules and their services.                                         *)
(***************************************************************************)
\* The services of all modules of the repository.
Known == {"agentmgr", "cluster", "config", "cache", "sql", "db", "etcd", "discovery",
          "gateway", "jsruntime", "js", "logger", "jsconfig"}

\* The second part of a concatenation.
LEMMA SecondPart ==
  ASSUME NEW S, NEW a \in Seq(S), NEW b \in Seq(S), NEW i \in 1..Len(b)
  PROVE  (a \o b)[Len(a) + i] = b[i]
OBVIOUS

\* Two sequences of one element each.
LEMMA TwoOf ==
  ASSUME NEW S, NEW a \in Seq(S), NEW b \in Seq(S), Len(a) = 1, Len(b) = 1
  PROVE  /\ a \o b \in Seq(S) /\ Len(a \o b) = 2
         /\ (a \o b)[1] = a[1] /\ (a \o b)[2] = b[1]
<1>1. a \o b \in Seq(S)
  OBVIOUS
<1>2. Len(a \o b) = 2
  OBVIOUS
<1>3. (a \o b)[1] = a[1]
  OBVIOUS
<1>4. Len(a) + 1 = 2 /\ 1 \in 1..Len(b)
  OBVIOUS
<1>5. PICK i \in 1..Len(b) : i = 1
  BY <1>4
<1>6. (a \o b)[Len(a) + i] = b[i]
  BY SecondPart
<1> QED
  BY <1>1, <1>2, <1>3, <1>4, <1>5, <1>6

\* The list of a module, by position.
LEMMA ModuleLists ==
  ASSUME NEW m \in Modules
  PROVE  /\ ServicesOf[m] \in Seq(Known) /\ Len(ServicesOf[m]) \in 1..3
         /\ m = "agent" => Len(ServicesOf[m]) = 1 /\ ServicesOf[m][1] = "agentmgr"
         /\ m = "cluster" => Len(ServicesOf[m]) = 1 /\ ServicesOf[m][1] = "cluster"
         /\ m = "config" => Len(ServicesOf[m]) = 1 /\ ServicesOf[m][1] = "config"
         /\ m = "db" => /\ Len(ServicesOf[m]) = 3 /\ ServicesOf[m][1] = "cache"
                       /\ ServicesOf[m][2] = "sql" /\ ServicesOf[m][3] = "db"
         /\ m = "etcd" => /\ Len(ServicesOf[m]) = 2 /\ ServicesOf[m][1] = "etcd"
                         /\ ServicesOf[m][2] = "discovery"
         /\ m = "gateway" => Len(ServicesOf[m]) = 1 /\ ServicesOf[m][1] = "gateway"
         /\ m = "jssvr" => /\ Len(ServicesOf[m]) \in 1..2 /\ ServicesOf[m][1] = "jsruntime"
                          /\ (Len(ServicesOf[m]) = 2 => ServicesOf[m][2] = "js")
         /\ m = "logger" => Len(ServicesOf[m]) = 1 /\ ServicesOf[m][1] = "logger"
         /\ m \in {"agent", "cluster", "config", "db", "etcd", "gateway", "jssvr", "logger"}
<1> USE DEF Known
<1>1. DOMAIN ServicesOf
        = {"agent", "cluster", "config", "db", "etcd", "gateway", "jssvr", "logger"}
  BY DEF ServicesOf
<1>2. m \in {"agent", "cluster", "config", "db", "etcd", "gateway", "jssvr", "logger"}
  BY <1>1, FrameworkAssumption
<1>3. CASE m = "agent"
  <2>1. ServicesOf[m] = <<"agentmgr">>
    BY <1>3 DEF ServicesOf
  <2> QED
    BY <1>3, <2>1
<1>4. CASE m = "cluster"
  <2>1. ServicesOf[m] = <<"cluster">>
    BY <1>4 DEF ServicesOf
  <2> QED
    BY <1>4, <2>1
<1>5. CASE m = "config"
  <2>1. ServicesOf[m] = <<"config">>
    BY <1>5 DEF ServicesOf
  <2> QED
    BY <1>5, <2>1
<1>6. CASE m = "db"
  <2>1. ServicesOf[m] = <<"cache", "sql", "db">>
    BY <1>6 DEF ServicesOf, DbServices
  <2> QED
    BY <1>6, <2>1
<1>7. CASE m = "etcd"
  <2>1. ServicesOf[m] = <<"etcd", "discovery">>
    BY <1>7 DEF ServicesOf
  <2> QED
    BY <1>7, <2>1
<1>8. CASE m = "gateway"
  <2>1. ServicesOf[m] = <<"gateway">>
    BY <1>8 DEF ServicesOf
  <2> QED
    BY <1>8, <2>1
<1>9. CASE m = "jssvr"
  <2>1. ServicesOf[m] = <<"jsruntime">> \o Bootstrap
    BY <1>9 DEF ServicesOf
  <2>2. CASE Bootstrap = << >>
    <3>1. <<"jsruntime">> \o << >> = <<"jsruntime">>
      OBVIOUS
    <3> QED
      BY <1>9, <2>1, <2>2, <3>1
  <2>3. CASE Bootstrap = <<"js">>
    <3>1. PICK a : a = <<"jsruntime">>
      OBVIOUS
    <3>2. a \in Seq(Known) /\ Len(a) = 1 /\ a[1] = "jsruntime"
      BY <3>1
    <3>3. Bootstrap \in Seq(Known) /\ Len(Bootstrap) = 1 /\ Bootstrap[1] = "js"
      BY <2>3
    <3> HIDE DEF Known
    <3>4. ServicesOf[m] = a \o Bootstrap
      BY <2>1, <3>1
    <3>5. /\ a \o Bootstrap \in Seq(Known) /\ Len(a \o Bootstrap) = 2
          /\ (a \o Bootstrap)[1] = a[1] /\ (a \o Bootstrap)[2] = Bootstrap[1]
      BY <3>2, <3>3, TwoOf
    <3> QED
      BY <1>9, <3>2, <3>3, <3>4, <3>5
  <2> QED
    BY <2>2, <2>3, FrameworkAssumption
<1>10. CASE m = "logger"
  <2>1. ServicesOf[m] = <<"logger">>
    BY <1>10 DEF ServicesOf
  <2> QED
    BY <1>10, <2>1
<1> QED
  BY <1>2, <1>3, <1>4, <1>5, <1>6, <1>7, <1>8, <1>9, <1>10

\* A service and the order of creation: what OnInit looks up was created before.
LEMMA ListedServices ==
  ASSUME NEW m \in Modules, NEW k \in 1..Len(ServicesOf[m])
  PROVE  LET s == ServicesOf[m][k] IN
         /\ s \in Services /\ s # "jsconfig" /\ s \in Known
         /\ \A n \in InitNeeds(s) : n \notin Unnamed /\ \E j \in 1..k - 1 : ServicesOf[m][j] = n
         /\ s = "agentmgr" => m = "agent"
<1> DEFINE s == ServicesOf[m][k]
           len == Len(ServicesOf[m])
<1>1. s \in Services
  <2>1. s \in ToSet(ServicesOf[m])
    BY ModuleLists DEF ToSet
  <2> QED
    BY <2>1 DEF Services
<1>2. len \in 1..3 /\ k \in 1..len
  BY ModuleLists
<1>3. /\ m = "agent" => s = "agentmgr"
      /\ m = "cluster" => s = "cluster"
      /\ m = "config" => s = "config"
      /\ m = "db" => (k = 1 /\ s = "cache") \/ (k = 2 /\ s = "sql") \/ (k = 3 /\ s = "db")
      /\ m = "etcd" => (k = 1 /\ s = "etcd") \/ (k = 2 /\ s = "discovery")
      /\ m = "gateway" => s = "gateway"
      /\ m = "jssvr" => s \in {"jsruntime", "js"}
      /\ m = "logger" => s = "logger"
  <2>1. CASE m = "db"
    <3>1. len = 3
      BY <2>1, ModuleLists
    <3>2. k = 1 \/ k = 2 \/ k = 3
      BY <1>2, <3>1
    <3> QED
      BY <2>1, <3>2, ModuleLists
  <2>2. CASE m = "etcd"
    <3>1. len = 2
      BY <2>2, ModuleLists
    <3>2. k = 1 \/ k = 2
      BY <1>2, <3>1
    <3> QED
      BY <2>2, <3>2, ModuleLists
  <2>3. CASE m = "jssvr"
    <3>1. len \in 1..2 /\ ServicesOf[m][1] = "jsruntime" /\ (len = 2 => ServicesOf[m][2] = "js")
      BY <2>3, ModuleLists
    <3>2. CASE k = 1
      BY <2>3, <3>1, <3>2
    <3>3. CASE k = 2 /\ len = 2
      BY <2>3, <3>1, <3>3
    <3> QED
      BY <1>2, <3>1, <3>2, <3>3
  <2>4. CASE m \notin {"db", "etcd", "jssvr"}
    <3>1. len = 1
      BY <2>4, ModuleLists
    <3>2. k = 1
      BY <1>2, <3>1
    <3> QED
      BY <2>4, <3>2, ModuleLists
  <2> QED
    BY <2>1, <2>2, <2>3, <2>4
<1>4. s \in Known /\ s # "jsconfig" /\ (s = "agentmgr" => m = "agent")
  BY <1>3, ModuleLists DEF Known
<1>5. CASE s = "db"
  <2>1. m = "db" /\ k = 3
    BY <1>3, <1>5, ModuleLists
  <2>2. ServicesOf[m][1] = "cache" /\ ServicesOf[m][2] = "sql"
    BY <2>1, ModuleLists
  <2>3. InitNeeds(s) = {"sql", "cache"}
    BY <1>5 DEF InitNeeds
  <2>4. 1 \in 1..k - 1 /\ 2 \in 1..k - 1
    BY <2>1
  <2>5. \A n \in {"cache", "sql"} : n \notin Unnamed /\ \E j \in 1..k - 1 : ServicesOf[m][j] = n
    BY <2>2, <2>4 DEF Unnamed
  <2> QED
    BY <1>1, <1>4, <2>3, <2>5
<1>6. CASE s = "discovery"
  <2>1. m = "etcd" /\ k = 2
    BY <1>3, <1>6, ModuleLists
  <2>2. ServicesOf[m][1] = "etcd"
    BY <2>1, ModuleLists
  <2>3. InitNeeds(s) = {"etcd"}
    BY <1>6 DEF InitNeeds
  <2>4. 1 \in 1..k - 1
    BY <2>1
  <2>5. "etcd" \notin Unnamed /\ \E j \in 1..k - 1 : ServicesOf[m][j] = "etcd"
    BY <2>2, <2>4 DEF Unnamed
  <2> QED
    BY <1>1, <1>4, <2>3, <2>5
<1>7. CASE s \notin {"db", "discovery"}
  <2>1. InitNeeds(s) = {}
    BY <1>4, <1>7 DEF InitNeeds, Known
  <2> QED
    BY <1>1, <1>4, <2>1
<1> QED
  BY <1>5, <1>6, <1>7

\* Services is made of these.
LEMMA ServicesAre ==
  /\ \A s \in Services : s = "jsconfig" \/
       \E m \in Modules : \E k \in 1..Len(ServicesOf[m]) : s = ServicesOf[m][k]
  /\ Services \subseteq Known
  /\ "jsconfig" \in Services
<1>1. ASSUME NEW s \in Services, s # "jsconfig"
      PROVE  \E m \in Modules : \E k \in 1..Len(ServicesOf[m]) : s = ServicesOf[m][k]
  <2>1. PICK m \in Modules : s \in ToSet(ServicesOf[m])
    BY <1>1 DEF Services
  <2>2. PICK k \in DOMAIN ServicesOf[m] : s = ServicesOf[m][k]
    BY <2>1 DEF ToSet
  <2>3. k \in 1..Len(ServicesOf[m])
    BY <2>2, ModuleLists
  <2> QED
    BY <2>2, <2>3
<1>2. ASSUME NEW s \in Services, s # "jsconfig" PROVE s \in Known
  BY <1>1, <1>2, ListedServices
<1> QED
  BY <1>1, <1>2 DEF Services, Known

\* When every module has added its services, what a configured module creates
\* is found under its name.
LEMMA CompleteFinds ==
  ASSUME AllComplete, NEW n \in Services, n \notin Unnamed
  PROVE  Found(n)
<1>1. n # "jsconfig"
  BY DEF Unnamed
<1>2. PICK m \in Modules : \E k \in 1..Len(ServicesOf[m]) : n = ServicesOf[m][k]
  BY <1>1, ServicesAre
<1>3. Present(n)
  BY <1>2 DEF AllComplete, Complete, Upto
<1> QED
  BY <1>3 DEF Present, Found, Optional, Unnamed

(***************************************************************************)
(* Components, sequences and threads.                                      *)
(***************************************************************************)
\* The components in the order of their creation.
LEMMA CreatedIs ==
  /\ Len(InitOrder) = 10
  /\ Created(1) = {} /\ Created(11) = Components
  /\ \A k \in 1..10 : Created(k + 1) = Created(k) \union {InitOrder[k]} /\ InitOrder[k] \in Components
<1>1. Len(InitOrder) = 10
  BY DEF InitOrder
<1>2. /\ InitOrder[1] = "logger" /\ InitOrder[2] = "snowflake" /\ InitOrder[3] = "service_mgr"
      /\ InitOrder[4] = "session_mgr" /\ InitOrder[5] = "worker_mgr"
      /\ InitOrder[6] = "io_context_mgr" /\ InitOrder[7] = "session_monitor"
      /\ InitOrder[8] = "proto_mgr" /\ InitOrder[9] = "timer" /\ InitOrder[10] = "module_mgr"
  BY DEF InitOrder
<1>3. \A k \in Nat : k \in 1..10 <=>
        k = 1 \/ k = 2 \/ k = 3 \/ k = 4 \/ k = 5 \/ k = 6 \/ k = 7 \/ k = 8 \/ k = 9 \/ k = 10
  OBVIOUS
<1>4. \A k \in 1..10 : InitOrder[k] \in Components
  BY <1>2, <1>3 DEF Components
<1>5. \A c \in Components : \E k \in 1..10 : InitOrder[k] = c
  BY <1>2, <1>3 DEF Components
<1>6. Created(1) = {}
  BY DEF Created
<1>7. Created(11) = Components
  <2>1. 1..11 - 1 = 1..10
    OBVIOUS
  <2> QED
    BY <1>4, <1>5, <2>1 DEF Created
<1>8. ASSUME NEW k \in 1..10 PROVE Created(k + 1) = Created(k) \union {InitOrder[k]}
  <2>1. \A i : i \in 1..(k + 1) - 1 <=> i \in 1..k - 1 \/ i = k
    OBVIOUS
  <2> QED
    BY <2>1 DEF Created
<1> QED
  BY <1>1, <1>4, <1>6, <1>7, <1>8

\* A sequence without its first element, by position.
LEMMA TailAt ==
  ASSUME NEW S, NEW q \in Seq(S), q # << >>
  PROVE  /\ Tail(q) \in Seq(S) /\ Head(q) = q[1] /\ 1 \in 1..Len(q)
         /\ Len(Tail(q)) = Len(q) - 1
         /\ \A n \in 1..Len(Tail(q)) : n + 1 \in 1..Len(q) /\ Tail(q)[n] = q[n + 1]
OBVIOUS

\* All services of a module are left, or one less.
LEMMA FromStart ==
  ASSUME NEW m \in Modules
  PROVE  From(ServicesOf[m], m, 1)
<1>1. /\ ServicesOf[m] \in Seq(Known) /\ Len(ServicesOf[m]) \in 1..3
  BY ModuleLists
<1>2. \A i \in 1..Len(ServicesOf[m]) : ServicesOf[m][i] \in Services
  BY ListedServices
<1>3. ServicesOf[m] \in Seq(Services)
  BY <1>1, <1>2
<1> QED
  BY <1>1, <1>3 DEF From

\* The next of the services that a module has still to create.
LEMMA FromNext ==
  ASSUME NEW m \in Modules, NEW k \in 1..Len(ServicesOf[m]) + 1, NEW q, From(q, m, k)
  PROVE  /\ q = << >> => k = Len(ServicesOf[m]) + 1
         /\ q # << >> => /\ k \in 1..Len(ServicesOf[m]) /\ k + 1 \in 1..Len(ServicesOf[m]) + 1
                         /\ Head(q) = ServicesOf[m][k] /\ From(Tail(q), m, k + 1)
<1> DEFINE len == Len(ServicesOf[m])
<1>1. len \in Nat /\ k \in 1..len + 1
  BY ModuleLists
<1>2. q \in Seq(Services) /\ Len(q) = len + 1 - k /\ \A i \in 1..Len(q) : q[i] = ServicesOf[m][k + i - 1]
  BY DEF From
<1> HIDE DEF len
<1>3. ASSUME q = << >> PROVE k = len + 1
  <2>1. Len(q) = 0
    BY <1>3
  <2> QED
    BY <1>1, <1>2, <2>1
<1>4. ASSUME q # << >>
      PROVE  /\ k \in 1..len /\ k + 1 \in 1..len + 1
             /\ Head(q) = ServicesOf[m][k] /\ From(Tail(q), m, k + 1)
  <2>1. /\ Tail(q) \in Seq(Services) /\ Head(q) = q[1] /\ 1 \in 1..Len(q)
        /\ Len(Tail(q)) = Len(q) - 1
        /\ \A n \in 1..Len(Tail(q)) : n + 1 \in 1..Len(q) /\ Tail(q)[n] = q[n + 1]
    BY <1>2, <1>4, TailAt
  <2>2. k \in 1..len /\ k + 1 \in 1..len + 1 /\ Len(Tail(q)) = len + 1 - (k + 1)
    BY <1>1, <1>2, <2>1
  <2>3. Head(q) = ServicesOf[m][k]
    <3>1. k + 1 - 1 = k
      BY <1>1
    <3> QED
      BY <1>2, <2>1, <3>1
  <2>4. ASSUME NEW i \in 1..Len(Tail(q)) PROVE Tail(q)[i] = ServicesOf[m][k + 1 + i - 1]
    <3>1. Tail(q)[i] = q[i + 1] /\ i + 1 \in 1..Len(q)
      BY <2>1
    <3>2. k + (i + 1) - 1 = k + 1 + i - 1
      BY <1>1, <2>2
    <3> QED
      BY <1>2, <3>1, <3>2
  <2> QED
    BY <2>1, <2>2, <2>3, <2>4 DEF From, len
<1> QED
  BY <1>3, <1>4 DEF len

\* PushService leaves every thread where it is, or wakes a worker.
LEMMA WokenIs ==
  ASSUME NEW ts \in [Threads -> ThreadStates], NEW q, NEW new \in Woken(ts, q)
  PROVE  /\ new \in [Threads -> ThreadStates]
         /\ \A t \in Threads : new[t] = ts[t] \/ (t \in Workers /\ ts[t] = "asleep" /\ new[t] = "loop")
<1>1. CASE new = ts
  BY <1>1
<1>2. CASE new # ts
  <2>1. PICK w \in Workers : ts[w] = "asleep" /\ new = [ts EXCEPT ![w] = "loop"]
    BY <1>2 DEF Woken
  <2>2. w \in Threads
    BY DEF Threads, Pool
  <2> QED
    BY <2>1, <2>2 DEF ThreadStates
<1> QED
  BY <1>1, <1>2

(***************************************************************************)
(* Steps of threads.                                                       *)
(***************************************************************************)
Grows == services \subseteq services' /\ names \subseteq names'

\* Services are never taken back.
LEMMA PresentStays ==
  ASSUME Grows
  PROVE  /\ \A s : Present(s) => Present(s)'
         /\ \A m, k : Upto(m, k) => Upto(m, k)'
         /\ \A m : Complete(m) => Complete(m)'
         /\ inited' = inited /\ AllComplete => AllComplete'
<1>1. ASSUME NEW s, Present(s) PROVE Present(s)'
  BY <1>1 DEF Present, Grows
<1>2. ASSUME NEW m, NEW k, Upto(m, k) PROVE Upto(m, k)'
  BY <1>1, <1>2 DEF Upto
<1>3. ASSUME NEW m, Complete(m) PROVE Complete(m)'
  BY <1>2, <1>3 DEF Complete
<1> QED
  BY <1>1, <1>2, <1>3 DEF AllComplete

\* No thread is spawned, and an ended one stays so.
Calm ==
  /\ thread' \in [Threads -> ThreadStates]
  /\ \A s \in Separate : thread'[s] \in {"none", "loop", s}
  /\ \A t \in Threads : thread[t] \in Ended => thread'[t] = thread[t]

\* A step of a thread leaves the main thread alone.
LEMMA ThreadStep ==
  ASSUME IInv, UNCHANGED <<main, exists, inited>>, Grows, services' \subseteq Services,
         queue' \subseteq Services, Calm, LookupsFind'
  PROVE  IInv'
<1> USE DEF IInv
<1>1. Typed'
  BY DEF Typed, Calm
<1>2. Creation'
  BY DEF Creation, Calm
<1>3. \A c : Live(c)' \subseteq Live(c) \/ ~(ThreadsOf(c) \subseteq Threads)
  BY DEF Live, Calm
<1>4. \A c : ThreadsOf(c) \subseteq Threads
  BY DEF ThreadsOf, Threads, Pool, Ticking
<1>5. Joined'
  <2>1. \A t \in Pool : t \in Threads
    BY DEF Threads
  <2> QED
    BY <1>3, <1>4, <2>1 DEF Joined, Calm
<1>6. Registered'
  <2>1. Pool \subseteq Threads
    BY DEF Threads
  <2>2. main.at = "init" => \A m \in inited : Complete(m)'
    BY PresentStays DEF Registered
  <2>3. main.at = "module" =>
          \E m \in inited : \E k \in 1..Len(ServicesOf[m]) + 1 :
            /\ From(main.todo, m, k) /\ Upto(m, k - 1)'
            /\ \A o \in inited \ {m} : Complete(o)'
    BY PresentStays DEF Registered
  <2>4. AllComplete => AllComplete'
    BY PresentStays
  <2>5. \A t \in Pool : thread'[t] # "none" => thread[t] # "none"
    BY <2>1 DEF Calm, Ended
  <2>6. \A q, m, k : From(q, m, k)' <=> From(q, m, k)
    BY DEF From
  <2> QED
    BY <2>2, <2>3, <2>4, <2>5, <2>6 DEF Registered
<1> QED
  BY <1>1, <1>2, <1>5, <1>6

\* A thread that is not one of the states is in a handler.
LEMMA StatesApart ==
  ASSUME NEW s \in Services
  PROVE  s \notin {"none", "spawned", "loop", "asleep", "ended"}
BY ServicesAre DEF Known

\* The pool threads and the separate ones are different.
LEMMA ThreadsApart ==
  /\ Separate \intersect Pool = {} /\ Pool \subseteq Threads /\ Separate \subseteq Threads
  /\ Workers \subseteq Pool
  /\ \A s \in Separate : s \notin {"none", "loop", "spawned", "asleep", "ended"}
BY ThreadsAssumption DEF Threads, Pool, Ticking, Separate

\* Begin preserves the invariant.
LEMMA BeginKeeps ==
  ASSUME IInv, NEW t \in Pool, Begin(t)
  PROVE  IInv'
<1>1. thread' = [thread EXCEPT ![t] = "loop"] /\ thread[t] = "spawned"
  BY DEF Begin
<1>2. Calm
  BY <1>1, ThreadsApart DEF IInv, Typed, Calm, Ended, ThreadStates
<1>3. UNCHANGED <<main, exists, inited, services, names, queue, missed>>
  BY DEF Begin
<1>4. LookupsFind' /\ Grows /\ services' \subseteq Services /\ queue' \subseteq Services
  BY <1>3 DEF LookupsFind, IInv, Typed, Grows
<1> QED
  BY <1>2, <1>3, <1>4, ThreadStep

\* Leave preserves the invariant.
LEMMA LeaveKeeps ==
  ASSUME IInv, NEW t \in Pool, Leave(t)
  PROVE  IInv'
<1>1. thread' = [thread EXCEPT ![t] = "ended"] /\ thread[t] = "loop"
  BY DEF Leave
<1>2. Calm
  BY <1>1, ThreadsApart DEF IInv, Typed, Calm, Ended, ThreadStates
<1>3. UNCHANGED <<main, exists, inited, services, names, queue, missed>>
  BY DEF Leave
<1>4. LookupsFind' /\ Grows /\ services' \subseteq Services /\ queue' \subseteq Services
  BY <1>3 DEF LookupsFind, IInv, Typed, Grows
<1> QED
  BY <1>2, <1>3, <1>4, ThreadStep

\* WorkerLoop preserves the invariant.
LEMMA WorkerLoopKeeps ==
  ASSUME IInv, NEW w \in Workers, WorkerLoop(w)
  PROVE  IInv'
<1>1. PICK x \in {"ended", "asleep"} \union (Free \ Separate) :
        thread' = [thread EXCEPT ![w] = x] /\ thread[w] = "loop"
  BY DEF WorkerLoop
<1>2. x \in ThreadStates /\ x # "none"
  BY StatesApart DEF Free, ThreadStates, IInv, Typed
<1>3. Calm
  <2>1. w \in Threads /\ w \notin Separate
    BY ThreadsApart
  <2>2. x \in Ended => x = "ended"
    BY <1>2 DEF Ended
  <2> QED
    BY <1>1, <1>2, <2>1, <2>2 DEF IInv, Typed, Calm, Ended
<1>4. UNCHANGED <<main, exists, inited, services, names, missed>> /\ queue' \subseteq queue
  BY DEF WorkerLoop
<1>5. LookupsFind' /\ Grows /\ services' \subseteq Services /\ queue' \subseteq Services
  BY <1>4 DEF LookupsFind, IInv, Typed, Grows
<1> QED
  BY <1>3, <1>4, <1>5, ThreadStep

\* SeparateTake preserves the invariant.
LEMMA SeparateTakeKeeps ==
  ASSUME IInv, NEW s \in Separate, SeparateTake(s)
  PROVE  IInv'
<1>1. thread' = [thread EXCEPT ![s] = s] /\ thread[s] = "loop" /\ s \in Services
  BY DEF SeparateTake, Free, IInv, Typed
<1>2. Calm
  BY <1>1, ThreadsApart DEF IInv, Typed, Calm, Ended, ThreadStates
<1>3. UNCHANGED <<main, exists, inited, services, names, missed>> /\ queue' \subseteq queue
  BY DEF SeparateTake
<1>4. LookupsFind' /\ Grows /\ services' \subseteq Services /\ queue' \subseteq Services
  BY <1>3 DEF LookupsFind, IInv, Typed, Grows
<1> QED
  BY <1>2, <1>3, <1>4, ThreadStep

\* Deliver preserves the invariant.
LEMMA DeliverKeeps ==
  ASSUME IInv, NEW t \in Pool, NEW s \in Services, Deliver(t, s)
  PROVE  IInv'
<1>1. thread \in [Threads -> ThreadStates] /\ thread' \in Woken(thread, {s})
  BY DEF Deliver, IInv, Typed
<1>2. /\ thread' \in [Threads -> ThreadStates]
      /\ \A u \in Threads : thread'[u] = thread[u]
           \/ (u \in Workers /\ thread[u] = "asleep" /\ thread'[u] = "loop")
  BY <1>1, WokenIs
<1>3. Calm
  BY <1>2, ThreadsApart DEF IInv, Typed, Calm, Ended
<1>4. UNCHANGED <<main, exists, inited, services, names, missed>> /\ queue' = queue \union {s}
  BY DEF Deliver
<1>5. LookupsFind' /\ Grows /\ services' \subseteq Services /\ queue' \subseteq Services
  BY <1>4 DEF LookupsFind, IInv, Typed, Grows
<1> QED
  BY <1>3, <1>4, <1>5, ThreadStep

(***************************************************************************)
(* AddService and the handlers that look services up.                      *)
(***************************************************************************)
\* The names that are looked up belong to services that have one.
LEMMA NeedsNamed ==
  ASSUME NEW s \in Services
  PROVE  /\ \A n \in StartNeeds(s) \union InitNeeds("jsconfig") : n \notin Unnamed
         /\ s \in Separate => StartNeeds(s) = {} /\ s # "jsruntime"
<1>1. s \in Known
  BY ServicesAre
<1>2. InitNeeds("jsconfig") = {"config"}
  BY DEF InitNeeds
<1>3. CASE s = "jsruntime"
  <2>1. StartNeeds(s) = {"db", "cache"}
    BY <1>3 DEF StartNeeds
  <2> QED
    BY <1>2, <1>3, <2>1 DEF Unnamed, Separate
<1>4. CASE s = "agentmgr"
  <2>1. StartNeeds(s) = {"node_manager", "gateway"}
    BY <1>4 DEF StartNeeds
  <2> QED
    BY <1>2, <1>4, <2>1 DEF Unnamed, Separate
<1>5. CASE s \notin {"jsruntime", "agentmgr"}
  <2>1. StartNeeds(s) = {}
    BY <1>1, <1>5 DEF StartNeeds, Known
  <2> QED
    BY <1>2, <1>5, <2>1 DEF Unnamed
<1> QED
  BY <1>3, <1>4, <1>5

\* What AddService leaves: a service that is added can be found.
LEMMA AddServiceIs ==
  ASSUME IInv, NEW s \in Services, NEW ok \in BOOLEAN, NEW start \in BOOLEAN,
         NEW ts \in [Threads -> ThreadStates], NEW misses,
         AddService(s, ok, start, ts, misses),
         \A n \in InitNeeds(s) : n \in Services => Found(n),
         \A x \in misses : x[2] \notin Services
  PROVE  /\ Grows /\ services' \subseteq Services /\ queue' \subseteq Services
         /\ LookupsFind'
         /\ ok /\ (\A n \in InitNeeds(s) : Found(n)) => Present(s)'
         /\ s \in services' => Present(s)'
         /\ thread' \in [Threads -> ThreadStates]
         /\ \A u \in Threads :
              thread'[u] \in {ts[u]} \union (IF u = s /\ s \in Separate THEN {"loop"} ELSE {})
                \union (IF u \in Workers /\ ts[u] = "asleep" THEN {"loop"} ELSE {})
<1> DEFINE lost == {n \in InitNeeds(s) : ~Found(n)}
           added == ok /\ lost = {}
           push == IF added /\ start THEN {s} ELSE {}
           new == IF s \in Separate THEN [ts EXCEPT ![s] = "loop"] ELSE ts
<1>1. /\ names' = IF s \in Unnamed THEN names ELSE names \union {s}
      /\ services' = IF added THEN services \union {s} ELSE services
      /\ queue' = queue \union push
      /\ thread' \in Woken(new, push)
      /\ missed' = missed \union misses \union ({s} \X lost)
  BY DEF AddService
<1>2. push \subseteq Services
  OBVIOUS
<1>3. lost \intersect Services = {}
  OBVIOUS
<1>4. services \subseteq Services /\ queue \subseteq Services /\ LookupsFind
  BY DEF IInv, Typed
<1>5. new \in [Threads -> ThreadStates]
      /\ \A u \in Threads : new[u] \in {ts[u]} \union (IF u = s /\ s \in Separate THEN {"loop"} ELSE {})
  BY ThreadsApart DEF ThreadStates
<1> HIDE DEF new, push
<1>6. /\ thread' \in [Threads -> ThreadStates]
      /\ \A u \in Threads : thread'[u] = new[u]
           \/ (u \in Workers /\ new[u] = "asleep" /\ thread'[u] = "loop")
  BY <1>1, <1>5, WokenIs
<1>7. LookupsFind'
  <2> SUFFICES ASSUME NEW x \in missed' PROVE x[2] \notin Services
    BY DEF LookupsFind
  <2>1. CASE x \in missed
    BY <1>4, <2>1 DEF LookupsFind
  <2>2. CASE x \in misses
    BY <2>2
  <2>3. CASE x \in {s} \X lost
    <3>1. x[2] \in lost
      BY <2>3
    <3> QED
      BY <1>3, <3>1
  <2> HIDE DEF lost
  <2> QED
    BY <1>1, <2>1, <2>2, <2>3
<1>8. \A u \in Threads :
        thread'[u] \in {ts[u]} \union (IF u = s /\ s \in Separate THEN {"loop"} ELSE {})
          \union (IF u \in Workers /\ ts[u] = "asleep" THEN {"loop"} ELSE {})
  BY <1>5, <1>6
<1>9. Grows /\ services' \subseteq Services /\ queue' \subseteq Services
  BY <1>1, <1>2, <1>4 DEF Grows
<1>10. added => Present(s)'
  BY <1>1 DEF Present
<1>11. s \in services' => Present(s)'
  BY <1>1 DEF Present
<1> QED
  BY <1>6, <1>7, <1>8, <1>9, <1>10, <1>11

\* Handled preserves the invariant.
LEMMA HandledKeeps ==
  ASSUME IInv, NEW s \in Services, NEW t \in Threads, t \in Pool \/ (t = s /\ s \in Separate),
         Handled(t, s)
  PROVE  IInv'
<1> DEFINE misses == {s} \X {n \in StartNeeds(s) : ~Found(n)}
           back == [thread EXCEPT ![t] = "loop"]
<1>1. thread[t] = s /\ UNCHANGED <<main, exists, inited>>
  BY DEF Handled
<1>2. s \notin {"none", "spawned", "loop", "asleep", "ended"}
  BY StatesApart
<1>3. t \in Pool => AllComplete
  BY <1>1, <1>2 DEF IInv, Registered
<1>4. \A n \in StartNeeds(s) : n \in Services => Found(n)
  BY <1>3, CompleteFinds, NeedsNamed
<1>5. \A x \in misses : x[2] \notin Services
  BY <1>4
<1>6. back \in [Threads -> ThreadStates] /\ back[t] = "loop"
      /\ \A u \in Threads \ {t} : back[u] = thread[u]
  BY DEF ThreadStates, IInv, Typed
<1>7. thread[t] \notin Ended
  BY <1>1, <1>2 DEF Ended
<1> HIDE DEF misses, back
<1>8. CASE AddService("jsconfig", TRUE, TRUE, back, misses) /\ s = "jsruntime"
  <2>1. t \in Pool
    BY <1>8 DEF Separate
  <2>2. \A n \in InitNeeds("jsconfig") : n \in Services => Found(n)
    BY <1>3, <2>1, CompleteFinds, NeedsNamed
  <2>3. "jsconfig" \in Services
    BY ServicesAre
  <2>4. /\ Grows /\ services' \subseteq Services /\ queue' \subseteq Services /\ LookupsFind'
        /\ thread' \in [Threads -> ThreadStates]
        /\ \A u \in Threads :
             thread'[u] \in {back[u]}
               \union (IF u = "jsconfig" /\ "jsconfig" \in Separate THEN {"loop"} ELSE {})
               \union (IF u \in Workers /\ back[u] = "asleep" THEN {"loop"} ELSE {})
    <3>1. PICK js, yes : js = "jsconfig" /\ yes = TRUE
      OBVIOUS
    <3>2. /\ js \in Services /\ yes \in BOOLEAN /\ back \in [Threads -> ThreadStates]
          /\ AddService(js, yes, yes, back, misses)
          /\ \A n \in InitNeeds(js) : n \in Services => Found(n)
      BY <1>6, <1>8, <2>2, <2>3, <3>1
    <3>3. /\ Grows /\ services' \subseteq Services /\ queue' \subseteq Services /\ LookupsFind'
          /\ thread' \in [Threads -> ThreadStates]
          /\ \A u \in Threads :
               thread'[u] \in {back[u]} \union (IF u = js /\ js \in Separate THEN {"loop"} ELSE {})
                 \union (IF u \in Workers /\ back[u] = "asleep" THEN {"loop"} ELSE {})
      BY <1>5, <3>2, AddServiceIs
    <3> QED
      BY <3>1, <3>3
  <2>5. \A u \in Threads : thread'[u] = back[u] \/ (u \in Workers /\ back[u] = "asleep" /\ thread'[u] = "loop")
    <3>1. "jsconfig" \notin Separate
      BY DEF Separate
    <3> QED
      BY <2>4, <3>1
  <2>6. Calm
    BY <1>6, <1>7, <2>1, <2>4, <2>5, ThreadsApart DEF Calm, Ended, IInv, Typed
  <2> QED
    BY <1>1, <2>4, <2>6, ThreadStep
<1>9. CASE thread' = back /\ missed' \in {missed, missed \union misses}
           /\ UNCHANGED <<services, names, queue>>
  <2>1. Calm
    BY <1>6, <1>7, <1>9, ThreadsApart DEF Calm, Ended, IInv, Typed
  <2>2. LookupsFind'
    BY <1>5, <1>9 DEF LookupsFind, IInv
  <2>3. Grows /\ services' \subseteq Services /\ queue' \subseteq Services
    BY <1>9 DEF Grows, IInv, Typed
  <2> QED
    BY <1>1, <2>1, <2>2, <2>3, ThreadStep
<1> QED
  BY <1>8, <1>9 DEF Handled, misses, back

(***************************************************************************)
(* Steps of the main thread: Init.                                         *)
(***************************************************************************)
\* A step of the main thread that leaves threads and services alone.
Still == UNCHANGED <<thread, services, names, queue, missed>>

\* What a step keeps that changes neither threads nor services.
LEMMA StillIs ==
  ASSUME IInv, Still
  PROVE  /\ services' \subseteq Services /\ queue' \subseteq Services
         /\ thread' \in [Threads -> ThreadStates]
         /\ \A s \in Separate : thread'[s] \in {"none", "loop", s}
         /\ LookupsFind' /\ Grows
         /\ \A m, k : Upto(m, k) => Upto(m, k)'
         /\ \A m : Complete(m) => Complete(m)'
         /\ inited' = inited /\ AllComplete => AllComplete'
         /\ \A c : Live(c)' = Live(c)
         /\ \A q, m, k : From(q, m, k)' <=> From(q, m, k)
<1>1. services' \subseteq Services /\ queue' \subseteq Services
  BY DEF Still, IInv, Typed
<1>2. thread' \in [Threads -> ThreadStates] /\ \A s \in Separate : thread'[s] \in {"none", "loop", s}
  BY DEF Still, IInv, Typed
<1>3. LookupsFind' /\ Grows
  BY DEF Still, IInv, LookupsFind, Grows
<1>4. \A c : Live(c)' = Live(c)
  BY DEF Still, Live
<1>5. \A q, m, k : From(q, m, k)' <=> From(q, m, k)
  BY DEF From
<1> QED
  BY <1>1, <1>2, <1>3, <1>4, <1>5, PresentStays

\* Create preserves the invariant.
LEMMA CreateKeeps ==
  ASSUME IInv, Create
  PROVE  IInv'
<1>1. /\ main.at = "init" /\ main.step \in 1..10
      /\ exists' = exists \union {InitOrder[main.step]}
      /\ main' = [main EXCEPT !.step = @ + 1]
      /\ Still /\ inited' = inited
  BY CreatedIs DEF Create, Still, IInv, Typed
<1>2. main'.at = "init" /\ main'.step = main.step + 1 /\ main'.todo = main.todo
      /\ main' = [at |-> main'.at, step |-> main'.step, todo |-> main'.todo, join |-> main'.join]
  BY <1>1 DEF IInv, Typed
<1>3. Typed'
  BY <1>1, <1>2, StillIs DEF IInv, Typed
<1>4. exists' = Created(main'.step) /\ main'.step <= 11
  BY <1>1, <1>2, CreatedIs DEF IInv, Creation
<1>5. exists = Components => exists' = Components
  BY <1>1, CreatedIs
<1>6. Creation'
  <2>1. Created(main.step)' = Created(main'.step)
    BY DEF Created
  <2> QED
    BY <1>1, <1>2, <1>4, <1>5, <2>1 DEF IInv, Creation, Still
<1>7. Joined'
  BY <1>2 DEF Joined
<1>8. Registered'
  BY <1>1, <1>2, StillIs DEF IInv, Registered, Still
<1> QED
  BY <1>1, <1>3, <1>6, <1>7, <1>8, StillIs DEF IInv

\* The steps to Stop, from wherever the main thread is, preserve the invariant.
LEMMA ToStopKeeps ==
  ASSUME IInv, InitFails \/ LoadFails \/ StopBegin
  PROVE  IInv'
<1>1. /\ main.at \in {"init", "ready", "running"}
      /\ main' = [main EXCEPT !.at = "stop", !.step = 1]
      /\ Still /\ UNCHANGED <<inited, exists>>
  BY DEF InitFails, LoadFails, StopBegin, Still
<1>2. main'.at = "stop" /\ main'.step = 1
      /\ main' = [at |-> main'.at, step |-> main'.step, todo |-> main'.todo, join |-> main'.join]
  BY <1>1 DEF IInv, Typed
<1>3. Typed'
  BY <1>1, <1>2, StillIs DEF IInv, Typed
<1>4. Creation'
  BY <1>1, <1>2 DEF IInv, Creation, Still
<1>5. Joined'
  BY <1>2 DEF Joined
<1>6. Registered'
  BY <1>1, <1>2, StillIs DEF IInv, Registered, Still
<1> QED
  BY <1>1, <1>3, <1>4, <1>5, <1>6, StillIs DEF IInv

\* ModuleInit preserves the invariant.
LEMMA ModuleInitKeeps ==
  ASSUME IInv, NEW m \in Modules, ModuleInit(m)
  PROVE  IInv'
<1>1. /\ main.at = "init" /\ main.step = 11 /\ m \notin inited
      /\ inited' = inited \union {m}
      /\ main' = [main EXCEPT !.at = "module", !.todo = ServicesOf[m]]
      /\ Still /\ exists' = exists
  BY CreatedIs DEF ModuleInit, Still, IInv, Typed, Creation
<1>2. main'.at = "module" /\ main'.step = 11 /\ main'.todo = ServicesOf[m]
      /\ main' = [at |-> main'.at, step |-> main'.step, todo |-> main'.todo, join |-> main'.join]
  BY <1>1 DEF IInv, Typed
<1>3. Typed'
  BY <1>1, <1>2, StillIs DEF IInv, Typed
<1>4. Creation'
  BY <1>1, <1>2, CreatedIs DEF IInv, Creation, Still
<1>5. Joined'
  BY <1>2 DEF Joined
<1>6. Registered'
  <2>1. From(main'.todo, m, 1) /\ 1 \in 1..Len(ServicesOf[m]) + 1
    BY <1>2, FromStart, ModuleLists
  <2>2. Upto(m, 0)'
    BY DEF Upto
  <2>3. \A o \in inited' \ {m} : Complete(o)'
    BY <1>1, StillIs DEF IInv, Registered
  <2>4. \A t \in Pool : thread'[t] = "none"
    BY <1>1 DEF IInv, Registered, AllComplete, Still
  <2>5. From(main.todo, m, 1)'
    BY <2>1 DEF From
  <2>6. m \in inited' /\ 1 - 1 = 0
    BY <1>1
  <2> QED
    BY <1>2, <2>1, <2>2, <2>3, <2>4, <2>5, <2>6 DEF Registered
<1> QED
  BY <1>1, <1>3, <1>4, <1>5, <1>6, StillIs DEF IInv

\* ModuleDone preserves the invariant.
LEMMA ModuleDoneKeeps ==
  ASSUME IInv, ModuleDone
  PROVE  IInv'
<1>1. /\ main.at = "module" /\ main.todo = << >>
      /\ main' = [main EXCEPT !.at = "init"]
      /\ Still /\ UNCHANGED <<inited, exists>>
  BY DEF ModuleDone, Still
<1>2. main'.at = "init" /\ main'.step = 11
      /\ main' = [at |-> main'.at, step |-> main'.step, todo |-> main'.todo, join |-> main'.join]
  BY <1>1 DEF IInv, Typed, Creation
<1>3. Typed'
  BY <1>1, <1>2, StillIs DEF IInv, Typed
<1>4. Creation'
  <2>1. Created(main.step)' = Created(main'.step)
    BY DEF Created
  <2> QED
    BY <1>1, <1>2, <2>1, CreatedIs DEF IInv, Creation, Still
<1>5. Joined'
  BY <1>2 DEF Joined
<1>6. \A m \in inited : Complete(m)
  <2>1. PICK m \in inited : \E k \in 1..Len(ServicesOf[m]) + 1 :
          /\ From(main.todo, m, k) /\ Upto(m, k - 1)
          /\ \A o \in inited \ {m} : Complete(o)
    BY <1>1 DEF IInv, Registered
  <2>2. PICK k \in 1..Len(ServicesOf[m]) + 1 :
          /\ From(main.todo, m, k) /\ Upto(m, k - 1)
          /\ \A o \in inited \ {m} : Complete(o)
    BY <2>1
  <2>3. m \in Modules
    BY DEF IInv, Typed
  <2>4. k = Len(ServicesOf[m]) + 1 /\ Len(ServicesOf[m]) \in 1..3
    BY <1>1, <2>2, <2>3, FromNext, ModuleLists
  <2>5. k - 1 = Len(ServicesOf[m])
    BY <2>4
  <2> QED
    BY <2>2, <2>5 DEF Complete
<1>7. Registered'
  BY <1>1, <1>2, <1>6, StillIs DEF IInv, Registered, Still
<1> QED
  BY <1>1, <1>3, <1>4, <1>5, <1>7, StillIs DEF IInv

\* InitDone and StartBegin preserve the invariant.
LEMMA ReadyKeeps ==
  ASSUME IInv, InitDone \/ StartBegin
  PROVE  IInv'
<1>1. /\ \/ main.at = "init" /\ main.step = 11 /\ inited = Modules /\ main'.at = "ready"
         \/ main.at = "ready" /\ main'.at = "start" /\ main'.step = 1
      /\ main' = [at |-> main'.at, step |-> main'.step, todo |-> main'.todo, join |-> main'.join]
      /\ Still /\ UNCHANGED <<inited, exists>>
  <2>1. CASE InitDone
    <3>1. /\ main.at = "init" /\ main.step = 11 /\ inited = Modules
          /\ main' = [main EXCEPT !.at = "ready"]
          /\ Still /\ UNCHANGED <<inited, exists>>
      BY <2>1, CreatedIs DEF InitDone, Still, IInv, Typed, Creation
    <3> QED
      BY <3>1 DEF IInv, Typed
  <2>2. CASE StartBegin
    <3>1. /\ main.at = "ready" /\ main' = [main EXCEPT !.at = "start", !.step = 1]
          /\ Still /\ UNCHANGED <<inited, exists>>
      BY <2>2 DEF StartBegin, Still
    <3> QED
      BY <3>1 DEF IInv, Typed
  <2> QED
    BY <2>1, <2>2
<1>2. Typed'
  BY <1>1, StillIs DEF IInv, Typed
<1>3. Creation'
  BY <1>1, CreatedIs DEF IInv, Creation, Still
<1>4. Joined'
  BY <1>1 DEF Joined
<1>5. Registered'
  BY <1>1, StillIs DEF IInv, Registered, Still, AllComplete
<1> QED
  BY <1>1, <1>2, <1>3, <1>4, <1>5, StillIs DEF IInv

\* NewService preserves the invariant: it finds what it looks up, and what a
\* module creates stays.
LEMMA NewServiceKeeps ==
  ASSUME IInv, NEW ok \in BOOLEAN, NewService(ok)
  PROVE  IInv'
<1>1. PICK s : s = Head(main.todo)
  OBVIOUS
<1>2. /\ main.at = "module" /\ main.todo # << >> /\ (ok \/ s \in MayFail)
      /\ AddService(s, ok, s # "agentmgr", thread, {})
      /\ UNCHANGED <<inited, exists>>
      /\ \/ /\ s \in services' \union Tolerant
            /\ main' = [main EXCEPT !.todo = Tail(@)]
         \/ main' = [main EXCEPT !.at = "stop", !.step = 1]
  BY <1>1 DEF NewService
<1>3. PICK m \in inited : \E k \in 1..Len(ServicesOf[m]) + 1 :
        /\ From(main.todo, m, k) /\ Upto(m, k - 1)
        /\ \A o \in inited \ {m} : Complete(o)
  BY <1>2 DEF IInv, Registered
<1>4. PICK k \in 1..Len(ServicesOf[m]) + 1 :
        /\ From(main.todo, m, k) /\ Upto(m, k - 1)
        /\ \A o \in inited \ {m} : Complete(o)
  BY <1>3
<1>5. m \in Modules
  BY DEF IInv, Typed
<1>6. /\ k \in 1..Len(ServicesOf[m]) /\ k + 1 \in 1..Len(ServicesOf[m]) + 1
      /\ s = ServicesOf[m][k] /\ From(Tail(main.todo), m, k + 1)
  BY <1>1, <1>2, <1>4, <1>5, FromNext
<1>7. /\ s \in Services
      /\ \A n \in InitNeeds(s) : n \notin Unnamed /\ \E j \in 1..k - 1 : ServicesOf[m][j] = n
  BY <1>5, <1>6, ListedServices
<1>8. \A n \in InitNeeds(s) : Found(n)
  BY <1>4, <1>7 DEF Upto, Present, Found, Optional, Unnamed
<1>9. /\ Grows /\ services' \subseteq Services /\ queue' \subseteq Services /\ LookupsFind'
      /\ ok => Present(s)'
      /\ s \in services' => Present(s)'
      /\ thread' \in [Threads -> ThreadStates]
      /\ \A u \in Threads :
           thread'[u] \in {thread[u]} \union (IF u = s /\ s \in Separate THEN {"loop"} ELSE {})
             \union (IF u \in Workers /\ thread[u] = "asleep" THEN {"loop"} ELSE {})
  <2>1. thread \in [Threads -> ThreadStates] /\ (s # "agentmgr") \in BOOLEAN
    BY DEF IInv, Typed
  <2>2. PICK start \in BOOLEAN : AddService(s, ok, start, thread, {})
    BY <1>2, <2>1
  <2> QED
    BY <1>7, <1>8, <2>1, <2>2, AddServiceIs
<1>10. \A t \in Separate : thread'[t] \in {"none", "loop", t}
  BY <1>9, ThreadsApart DEF IInv, Typed
<1>11. \A t \in Pool : thread'[t] = thread[t] \/ (thread[t] = "asleep" /\ thread'[t] = "loop")
  BY <1>9, ThreadsApart
<1>12. CASE main' = [main EXCEPT !.at = "stop", !.step = 1]
  <2>1. main'.at = "stop" /\ main'.step = 1
        /\ main' = [at |-> main'.at, step |-> main'.step, todo |-> main'.todo, join |-> main'.join]
    BY <1>12 DEF IInv, Typed
  <2>2. Typed'
    BY <1>2, <1>9, <1>10, <2>1 DEF IInv, Typed
  <2>3. Creation'
    BY <1>2, <2>1 DEF IInv, Creation
  <2>4. Joined'
    BY <2>1 DEF Joined
  <2>5. Registered'
    <3>1. AllComplete => AllComplete'
      BY <1>2, <1>9, PresentStays
    <3>2. \A t \in Pool : thread'[t] # "none" => thread[t] # "none"
      BY <1>11
    <3> QED
      BY <2>1, <3>1, <3>2 DEF IInv, Registered
  <2> QED
    BY <1>9, <2>2, <2>3, <2>4, <2>5 DEF IInv
<1>13. CASE /\ s \in services' \union Tolerant
            /\ main' = [main EXCEPT !.todo = Tail(@)]
  <2>1. main'.at = "module" /\ main'.step = main.step /\ main'.todo = Tail(main.todo)
        /\ main' = [at |-> main'.at, step |-> main'.step, todo |-> main'.todo, join |-> main'.join]
    BY <1>2, <1>13 DEF IInv, Typed
  <2>2. Typed'
    BY <1>2, <1>9, <1>10, <2>1 DEF IInv, Typed
  <2>3. Creation'
    BY <1>2, <2>1 DEF IInv, Creation
  <2>4. Joined'
    BY <2>1 DEF Joined
  <2>5. Present(s)'
    <3>1. CASE s \in services'
      BY <1>9, <3>1
    <3>2. CASE s = "agentmgr"
      <4>1. ok
        BY <1>2, <3>2 DEF MayFail
      <4> QED
        BY <1>9, <4>1
    <3>3. CASE s = "js"
      BY <3>3 DEF Present, Optional, Unnamed
    <3> QED
      BY <1>13, <3>1, <3>2, <3>3 DEF Tolerant
  <2>6. Upto(m, k)'
    <3>1. Upto(m, k - 1)'
      BY <1>4, <1>9, PresentStays
    <3>2. \A i \in 1..k : i \in 1..k - 1 \/ i = k
      BY <1>6, ModuleLists
    <3> QED
      BY <1>6, <2>5, <3>1, <3>2 DEF Upto
  <2>7. Registered'
    <3>1. AllComplete => AllComplete'
      BY <1>2, <1>9, PresentStays
    <3>2. \A t \in Pool : thread'[t] # "none" => thread[t] # "none"
      BY <1>11
    <3>3. \A o \in inited' \ {m} : Complete(o)'
      BY <1>2, <1>4, <1>9, PresentStays
    <3>4. From(main.todo, m, k + 1)'
      BY <1>6, <2>1 DEF From
    <3>5. (k + 1) - 1 = k /\ m \in inited'
      BY <1>2, <1>6
    <3>6. Upto(m, k + 1 - 1)'
      BY <2>6, <3>5 DEF Upto
    <3> QED
      BY <1>6, <2>1, <3>1, <3>2, <3>3, <3>4, <3>5, <3>6 DEF IInv, Registered
  <2> QED
    BY <1>9, <2>2, <2>3, <2>4, <2>7 DEF IInv
<1> QED
  BY <1>2, <1>12, <1>13

\* NoRuntime preserves the invariant: nobody looks for what is missing then, and
\* of a process that crashed nothing goes on.
LEMMA NoRuntimeKeeps ==
  ASSUME IInv, NoRuntime
  PROVE  IInv'
<1>1. /\ main.at = "module" /\ main.todo # << >> /\ Head(main.todo) = "jsruntime"
      /\ UNCHANGED <<inited, exists, services, names, queue, missed>>
  BY DEF NoRuntime
<1>2. CASE /\ main' = [main EXCEPT !.at = "crashed"]
           /\ thread' = [t \in DOMAIN thread |-> "none"]
  <2>1. /\ main'.at = "crashed"
        /\ main' = [at |-> main'.at, step |-> main'.step, todo |-> main'.todo, join |-> main'.join]
    BY <1>2 DEF IInv, Typed
  <2>2. thread' = [t \in Threads |-> "none"]
    BY <1>2 DEF IInv, Typed
  <2>3. \A t \in Threads : thread'[t] = "none"
    BY <2>2
  <2>4. Typed'
    <3>1. thread' \in [Threads -> ThreadStates] /\ \A s \in Separate : thread'[s] = "none"
      BY <2>2, <2>3 DEF Threads, ThreadStates
    <3> QED
      BY <1>1, <2>1, <3>1 DEF IInv, Typed
  <2>5. Creation'
    BY <2>1, <2>3 DEF Creation, Ended
  <2>6. Joined'
    BY <2>1 DEF Joined
  <2>7. Registered'
    BY <2>1, <2>3 DEF Registered, Threads
  <2> QED
    BY <1>1, <2>4, <2>5, <2>6, <2>7 DEF IInv, LookupsFind
<1>3. CASE main' = [main EXCEPT !.at = "stop", !.step = 1] /\ UNCHANGED thread
  <2>1. main'.at = "stop" /\ main'.step = 1 /\ Still
        /\ main' = [at |-> main'.at, step |-> main'.step, todo |-> main'.todo, join |-> main'.join]
    BY <1>1, <1>3 DEF IInv, Typed, Still
  <2>2. Typed'
    BY <1>1, <2>1, StillIs DEF IInv, Typed
  <2>3. Creation'
    BY <1>1, <2>1 DEF IInv, Creation, Still
  <2>4. Joined'
    BY <2>1 DEF Joined
  <2>5. Registered'
    BY <1>1, <2>1, StillIs DEF IInv, Registered, Still
  <2> QED
    BY <2>1, <2>2, <2>3, <2>4, <2>5, StillIs DEF IInv
<1>4. CASE Tail(main.todo) = << >> /\ main' = [main EXCEPT !.todo = << >>] /\ UNCHANGED thread
  <2>1. main'.at = "module" /\ main'.step = main.step /\ main'.todo = Tail(main.todo) /\ Still
        /\ main' = [at |-> main'.at, step |-> main'.step, todo |-> main'.todo, join |-> main'.join]
    BY <1>1, <1>4 DEF IInv, Typed, Still
  <2>2. Typed'
    BY <1>1, <2>1, StillIs DEF IInv, Typed
  <2>3. Creation'
    BY <1>1, <2>1 DEF IInv, Creation, Still
  <2>4. Joined'
    BY <2>1 DEF Joined
  <2>5. PICK m \in inited : \E k \in 1..Len(ServicesOf[m]) + 1 :
          /\ From(main.todo, m, k) /\ Upto(m, k - 1)
          /\ \A o \in inited \ {m} : Complete(o)
    BY <1>1 DEF IInv, Registered
  <2>6. PICK k \in 1..Len(ServicesOf[m]) + 1 :
          /\ From(main.todo, m, k) /\ Upto(m, k - 1)
          /\ \A o \in inited \ {m} : Complete(o)
    BY <2>5
  <2>7. m \in Modules
    BY DEF IInv, Typed
  <2>8. /\ k \in 1..Len(ServicesOf[m]) /\ k + 1 \in 1..Len(ServicesOf[m]) + 1
        /\ ServicesOf[m][k] = "jsruntime" /\ From(Tail(main.todo), m, k + 1)
    BY <1>1, <2>6, <2>7, FromNext
  <2>9. Upto(m, k)'
    <3>1. Upto(m, k - 1)'
      BY <2>1, <2>6, StillIs
    <3>2. \A i \in 1..k : i \in 1..k - 1 \/ i = k
      BY <2>7, <2>8, ModuleLists
    <3>3. Present("jsruntime")'
      BY DEF Present, Optional, Unnamed
    <3> QED
      BY <2>8, <3>1, <3>2, <3>3 DEF Upto
  <2>10. Registered'
    <3>1. From(main.todo, m, k + 1)'
      BY <2>1, <2>8 DEF From
    <3>2. (k + 1) - 1 = k /\ m \in inited'
      BY <1>1, <2>8
    <3>3. Upto(m, k + 1 - 1)'
      BY <2>9, <3>2 DEF Upto
    <3>4. \A o \in inited' \ {m} : Complete(o)'
      BY <1>1, <2>1, <2>6, StillIs
    <3>5. \A t \in Pool : thread'[t] # "none" => AllComplete'
      BY <1>1, <2>1, StillIs DEF IInv, Registered, Still
    <3> QED
      BY <2>1, <2>8, <3>1, <3>2, <3>3, <3>4, <3>5 DEF Registered
  <2> QED
    BY <2>1, <2>2, <2>3, <2>4, <2>10, StillIs DEF IInv
<1> QED
  BY <1>2, <1>3, <1>4 DEF NoRuntime

(***************************************************************************)
(* Steps of the main thread: Start.                                        *)
(***************************************************************************)
\* StartThreads preserves the invariant.
LEMMA StartThreadsKeeps ==
  ASSUME IInv, StartThreads
  PROVE  IInv'
<1>1. /\ main.at = "start" /\ main' = [main EXCEPT !.step = @ + 1]
      /\ UNCHANGED <<inited, exists, services, names, queue, missed>>
  BY DEF StartThreads
<1>2. PICK ts : /\ ts = ThreadsOf(StartOrder[main.step])
                /\ thread' = [t \in DOMAIN thread |-> IF t \in ts THEN "spawned" ELSE thread[t]]
  BY DEF StartThreads
<1>3. main'.at = "start" /\ main'.step \in Nat \ {0}
      /\ main' = [at |-> main'.at, step |-> main'.step, todo |-> main'.todo, join |-> main'.join]
  BY <1>1 DEF IInv, Typed
<1>4. ts \subseteq Pool
  BY <1>2 DEF ThreadsOf, Pool, Ticking
<1>5. /\ thread' \in [Threads -> ThreadStates]
      /\ \A s \in Separate : thread'[s] \in {"none", "loop", s}
  BY <1>2, <1>4, ThreadsApart DEF IInv, Typed, ThreadStates
<1>6. Typed'
  BY <1>1, <1>3, <1>5 DEF IInv, Typed
<1>7. Creation'
  BY <1>1, <1>3 DEF IInv, Creation
<1>8. Joined'
  BY <1>3 DEF Joined
<1>9. Grows
  BY <1>1 DEF Grows
<1>10. Registered'
  BY <1>1, <1>3, <1>9, PresentStays DEF IInv, Registered
<1>11. LookupsFind'
  BY <1>1 DEF IInv, LookupsFind
<1> QED
  BY <1>6, <1>7, <1>8, <1>10, <1>11 DEF IInv

\* StartModules preserves the invariant: the service that the agent module
\* starts is one that it added.
LEMMA StartModulesKeeps ==
  ASSUME IInv, StartModules
  PROVE  IInv'
<1> DEFINE agents == {"agentmgr"} \intersect services
           found == {s \in agents : Found(s)}
<1>1. /\ main.at = "start" /\ main' = [main EXCEPT !.at = "running"]
      /\ queue' = queue \union found /\ thread' \in Woken(thread, found)
      /\ missed' = missed \union ({"agent"} \X (agents \ found))
      /\ UNCHANGED <<inited, exists, services, names>>
  BY DEF StartModules
<1>2. main'.at = "running"
      /\ main' = [at |-> main'.at, step |-> main'.step, todo |-> main'.todo, join |-> main'.join]
  BY <1>1 DEF IInv, Typed
<1>3. AllComplete /\ services \subseteq Services
  BY <1>1 DEF IInv, Registered, Typed
<1>4. \A s \in agents : Found(s)
  BY <1>3, CompleteFinds DEF Unnamed
<1>5. missed' = missed
  <2>1. agents \ found = {}
    BY <1>4
  <2> HIDE DEF agents, found
  <2> QED
    BY <1>1, <2>1
<1>6. found \subseteq Services
  BY <1>3
<1> HIDE DEF found
<1>7. /\ thread' \in [Threads -> ThreadStates]
      /\ \A u \in Threads : thread'[u] = thread[u]
           \/ (u \in Workers /\ thread[u] = "asleep" /\ thread'[u] = "loop")
  BY <1>1, WokenIs DEF IInv, Typed
<1>8. \A s \in Separate : thread'[s] \in {"none", "loop", s}
  BY <1>7, ThreadsApart DEF IInv, Typed
<1>9. Typed'
  BY <1>1, <1>2, <1>6, <1>7, <1>8 DEF IInv, Typed
<1>10. Creation'
  BY <1>1, <1>2 DEF IInv, Creation
<1>11. Joined'
  BY <1>2 DEF Joined
<1>12. Grows
  BY <1>1 DEF Grows
<1>13. Registered'
  BY <1>1, <1>2, <1>3, <1>12, PresentStays DEF Registered
<1>14. LookupsFind'
  BY <1>5, <1>1 DEF IInv, LookupsFind
<1> QED
  BY <1>9, <1>10, <1>11, <1>13, <1>14 DEF IInv

(***************************************************************************)
(* Steps of the main thread: Stop and the destruction of the members.      *)
(***************************************************************************)
\* The components that Stop stops, and their threads.
LEMMA StopOrderIs ==
  /\ Len(StopOrder) = 6
  /\ \A j \in 1..6 : StopOrder[j] \in Components
  /\ \E i, j, k, l \in 1..6 : /\ StopOrder[i] = "worker_mgr" /\ StopOrder[j] = "io_context_mgr"
                              /\ StopOrder[k] = "session_monitor" /\ StopOrder[l] = "timer"
  /\ \A t \in Pool : \E c \in {"worker_mgr", "io_context_mgr", "session_monitor", "timer"} :
       t \in ThreadsOf(c)
<1>1. Len(StopOrder) = 6
  BY DEF StopOrder
<1>2. /\ StopOrder[1] = "module_mgr" /\ StopOrder[2] = "timer" /\ StopOrder[3] = "service_mgr"
      /\ StopOrder[4] = "session_monitor" /\ StopOrder[5] = "io_context_mgr"
      /\ StopOrder[6] = "worker_mgr"
  BY DEF StopOrder
<1>3. \A j \in 1..6 : j = 1 \/ j = 2 \/ j = 3 \/ j = 4 \/ j = 5 \/ j = 6
  OBVIOUS
<1>4. \A j \in 1..6 : StopOrder[j] \in Components
  BY <1>2, <1>3 DEF Components
<1>5. 2 \in 1..6 /\ 4 \in 1..6 /\ 5 \in 1..6 /\ 6 \in 1..6
  OBVIOUS
<1>6. \A t \in Pool : \E c \in {"worker_mgr", "io_context_mgr", "session_monitor", "timer"} :
        t \in ThreadsOf(c)
  <2>1. /\ ThreadsOf("worker_mgr") = Workers /\ ThreadsOf("io_context_mgr") = {"io"}
        /\ ThreadsOf("session_monitor") = {"monitor"} /\ ThreadsOf("timer") = {"timer"}
    BY DEF ThreadsOf
  <2> QED
    BY <2>1 DEF Pool, Ticking
<1> QED
  BY <1>1, <1>2, <1>4, <1>5, <1>6

\* A component that was stopped has no thread left, and the next one follows.
LEMMA StopStep ==
  ASSUME IInv, main.at = "stop", main.step \in 1..6,
         NEW d, StopOrder[main.step] = d, Live(d)' = {},
         main' = [main EXCEPT !.step = @ + 1],
         \A c : Live(c) = {} => Live(c)' = {}
  PROVE  Joined'
<1>1. main'.at = "stop" /\ main'.step = main.step + 1
  BY DEF IInv, Typed
<1>2. ASSUME NEW c \in Components, NEW j \in 1..6, j < main'.step, StopOrder[j] = c
      PROVE  Live(c)' = {}
  <2>1. CASE j = main.step
    BY <1>2, <2>1
  <2>2. CASE j < main.step
    BY <1>2, <2>2 DEF IInv, Joined
  <2> QED
    BY <1>1, <1>2, <2>1, <2>2
<1> QED
  BY <1>1, <1>2 DEF Joined

\* StopNext preserves the invariant.
LEMMA StopNextKeeps ==
  ASSUME IInv, NEW c, StopNext(c)
  PROVE  IInv'
<1>1. /\ main.at = "stop" /\ main.step \in 1..6 /\ StopOrder[main.step] = c /\ Live(c) = {}
      /\ main' = [main EXCEPT !.step = @ + 1]
      /\ Still /\ UNCHANGED <<inited, exists>>
  BY StopOrderIs DEF StopNext, Stopping, Still, IInv, Typed
<1>2. main'.at = "stop" /\ main'.step = main.step + 1
      /\ main' = [at |-> main'.at, step |-> main'.step, todo |-> main'.todo, join |-> main'.join]
  BY <1>1 DEF IInv, Typed
<1>3. Typed'
  BY <1>1, <1>2, StillIs DEF IInv, Typed
<1>4. Creation'
  BY <1>1, <1>2 DEF IInv, Creation, Still
<1>5. Joined'
  <2>1. Live(c)' = {}
    BY <1>1 DEF Live, Still
  <2> QED
    BY <1>1, <2>1, StillIs, StopStep
<1>6. Registered'
  BY <1>1, <1>2, StillIs DEF IInv, Registered, Still
<1> QED
  BY <1>1, <1>3, <1>4, <1>5, <1>6, StillIs DEF IInv

\* ServiceMgrStop preserves the invariant.
LEMMA ServiceMgrStopKeeps ==
  ASSUME IInv, ServiceMgrStop
  PROVE  IInv'
<1>1. /\ main.at = "stop" /\ main.step \in 1..6 /\ StopOrder[main.step] = "service_mgr"
      /\ main' = [main EXCEPT !.step = @ + 1]
      /\ thread' = [t \in DOMAIN thread |-> IF thread[t] = "asleep" THEN "loop" ELSE thread[t]]
      /\ queue' = queue \union services
      /\ UNCHANGED <<inited, exists, services, names, missed>>
  BY StopOrderIs DEF ServiceMgrStop, Stopping, IInv, Typed
<1>2. main'.at = "stop" /\ main'.step = main.step + 1
      /\ main' = [at |-> main'.at, step |-> main'.step, todo |-> main'.todo, join |-> main'.join]
  BY <1>1 DEF IInv, Typed
<1>3. /\ thread' \in [Threads -> ThreadStates]
      /\ \A t \in Threads : thread'[t] = thread[t] \/ (thread[t] = "asleep" /\ thread'[t] = "loop")
  BY <1>1 DEF IInv, Typed, ThreadStates
<1>4. \A s \in Separate : thread'[s] \in {"none", "loop", s}
  BY <1>3, ThreadsApart DEF IInv, Typed
<1>5. Typed'
  BY <1>1, <1>2, <1>3, <1>4 DEF IInv, Typed
<1>6. Creation'
  BY <1>1, <1>2, <1>3 DEF IInv, Creation, Ended
<1>7. Joined'
  <2>1. \A c : ThreadsOf(c) \subseteq Threads
    BY DEF ThreadsOf, Threads, Pool, Ticking
  <2>2. \A c : Live(c) = {} => Live(c)' = {}
    BY <1>3, <2>1 DEF Live, Ended
  <2>3. Live("service_mgr")' = {}
    BY DEF Live, ThreadsOf
  <2> QED
    BY <1>1, <2>2, <2>3, StopStep
<1>8. Grows
  BY <1>1 DEF Grows
<1>9. Registered'
  <2>1. \A t \in Pool : thread'[t] # "none" => thread[t] # "none"
    BY <1>3, ThreadsApart
  <2> QED
    BY <1>1, <1>2, <1>8, <2>1, PresentStays DEF IInv, Registered
<1>10. LookupsFind'
  BY <1>1 DEF IInv, LookupsFind
<1> QED
  BY <1>5, <1>6, <1>7, <1>9, <1>10 DEF IInv

\* StopThread and Join preserve the invariant.
LEMMA JoinKeeps ==
  ASSUME IInv, (\E c, t : StopThread(c, t)) \/ Join
  PROVE  IInv'
<1>1. /\ main.at \in {"stop", "join"} /\ main'.at \in {"stop", "join"} /\ main'.step = main.step
      /\ main' = [at |-> main'.at, step |-> main'.step, todo |-> main'.todo, join |-> main'.join]
      /\ Still /\ UNCHANGED <<inited, exists>>
  <2>1. CASE \E c, t : StopThread(c, t)
    <3>1. PICK t : /\ main.at = "stop" /\ main' = [main EXCEPT !.at = "join", !.join = t]
                   /\ Still /\ UNCHANGED <<inited, exists>>
      BY <2>1 DEF StopThread, Stopping, Still
    <3> QED
      BY <3>1 DEF IInv, Typed
  <2>2. CASE Join
    <3>1. /\ main.at = "join" /\ main' = [main EXCEPT !.at = "stop", !.join = "none"]
          /\ Still /\ UNCHANGED <<inited, exists>>
      BY <2>2 DEF Join, Still
    <3> QED
      BY <3>1 DEF IInv, Typed
  <2> QED
    BY <2>1, <2>2
<1>2. Typed'
  BY <1>1, StillIs DEF IInv, Typed
<1>3. Creation'
  BY <1>1 DEF IInv, Creation, Still
<1>4. Joined'
  BY <1>1, StillIs DEF IInv, Joined
<1>5. Registered'
  BY <1>1, StillIs DEF IInv, Registered, Still
<1> QED
  BY <1>1, <1>2, <1>3, <1>4, <1>5, StillIs DEF IInv

\* StopDone preserves the invariant: all pool threads have ended by then.
LEMMA StopDoneKeeps ==
  ASSUME IInv, StopDone
  PROVE  IInv'
<1>1. /\ main.at = "stop" /\ main.step > 6
      /\ main' = [main EXCEPT !.at = "destroy", !.step = 1]
      /\ Still /\ UNCHANGED <<inited, exists>>
  BY StopOrderIs DEF StopDone, Still
<1>2. main'.at = "destroy"
      /\ main' = [at |-> main'.at, step |-> main'.step, todo |-> main'.todo, join |-> main'.join]
  BY <1>1 DEF IInv, Typed
<1>3. Typed'
  BY <1>1, <1>2, StillIs DEF IInv, Typed
<1>4. Creation'
  BY <1>2 DEF Creation
<1>5. \A j \in 1..6 : Live(StopOrder[j]) = {}
  <2>1. main.step \in Nat
    BY <1>1 DEF IInv, Typed
  <2>2. \A j \in 1..6 : j < main.step
    BY <1>1, <2>1
  <2> QED
    BY <1>1, <2>2, StopOrderIs DEF IInv, Joined
<1>6. \A t \in Pool : thread[t] \in Ended
  BY <1>5, StopOrderIs DEF Live
<1>7. Joined'
  BY <1>1, <1>2, <1>6 DEF Joined, Still
<1>8. Registered'
  BY <1>1, <1>2, StillIs DEF IInv, Registered, Still
<1> QED
  BY <1>1, <1>3, <1>4, <1>7, <1>8, StillIs DEF IInv

\* Destroy preserves the invariant.
LEMMA DestroyKeeps ==
  ASSUME IInv, Destroy
  PROVE  IInv'
<1>1. /\ main.at = "destroy" /\ main'.at \in {"destroy", "done"}
      /\ main' = [at |-> main'.at, step |-> main'.step, todo |-> main'.todo, join |-> main'.join]
      /\ Still /\ UNCHANGED inited
  BY DEF Destroy, Still, IInv, Typed
<1>2. Typed'
  BY <1>1, StillIs DEF IInv, Typed
<1>3. Creation'
  BY <1>1 DEF Creation
<1>4. Joined'
  BY <1>1 DEF IInv, Joined, Still
<1>5. Registered'
  BY <1>1, StillIs DEF IInv, Registered, Still
<1> QED
  BY <1>1, <1>2, <1>3, <1>4, <1>5, StillIs DEF IInv

(***************************************************************************)
(* The theorems.                                                           *)
(***************************************************************************)
\* The initial states satisfy the invariant.
LEMMA InitIInv == Init => IInv
<1> SUFFICES ASSUME Init PROVE IInv
  OBVIOUS
<1> USE DEF Init
<1>1. Typed
  BY DEF Typed, Threads, ThreadStates
<1>2. Creation
  BY CreatedIs DEF Creation, Ended, Threads
<1>3. Joined
  BY DEF Joined
<1>4. Registered
  BY DEF Registered, Threads
<1>5. LookupsFind
  BY DEF LookupsFind
<1> QED
  BY <1>1, <1>2, <1>3, <1>4, <1>5 DEF IInv

\* Every step preserves the invariant.
LEMMA IInvStep == IInv /\ [Next]_vars => IInv'
<1> SUFFICES ASSUME IInv, [Next]_vars PROVE IInv'
  OBVIOUS
<1>1. CASE UNCHANGED vars
  BY <1>1 DEF vars, IInv, Typed, Creation, Joined, Live, Registered, AllComplete, Complete,
              Upto, Present, From, LookupsFind
<1>2. CASE Create
  BY <1>2, CreateKeeps
<1>3. CASE InitFails \/ LoadFails \/ StopBegin
  BY <1>3, ToStopKeeps
<1>4. CASE InitDone \/ StartBegin
  BY <1>4, ReadyKeeps
<1>5. CASE ModuleDone
  BY <1>5, ModuleDoneKeeps
<1>6. CASE \E m \in Modules : ModuleInit(m)
  BY <1>6, ModuleInitKeeps
<1>7. CASE \E ok \in BOOLEAN : NewService(ok)
  BY <1>7, NewServiceKeeps
<1>8. CASE StartThreads
  BY <1>8, StartThreadsKeeps
<1>9. CASE StartModules
  BY <1>9, StartModulesKeeps
<1>10. CASE Stop
  BY <1>10, JoinKeeps, ServiceMgrStopKeeps, StopDoneKeeps, DestroyKeeps, StopNextKeeps DEF Stop
<1>11. CASE \E t \in Pool : Thread(t)
  <2>1. PICK t \in Pool : Thread(t)
    BY <1>11
  <2>2. t \in Threads
    BY ThreadsApart
  <2> QED
    BY <2>1, <2>2, BeginKeeps, LeaveKeeps, WorkerLoopKeeps, HandledKeeps DEF Thread
<1>12. CASE \E s \in Separate : SeparateTake(s) \/ Handled(s, s)
  <2>1. PICK s \in Separate : SeparateTake(s) \/ Handled(s, s)
    BY <1>12
  <2>2. CASE SeparateTake(s)
    BY <2>2, SeparateTakeKeeps
  <2>3. CASE Handled(s, s)
    <3>1. s \in Threads /\ thread[s] = s
      BY <2>3, ThreadsApart DEF Handled
    <3>2. s \in Services
      BY <3>1, ThreadsApart DEF IInv, Typed, ThreadStates
    <3> QED
      BY <2>3, <3>1, <3>2, HandledKeeps
  <2> QED
    BY <2>1, <2>2, <2>3
<1>13. CASE \E t \in Pool, s \in Services : Deliver(t, s)
  BY <1>13, DeliverKeeps
<1>14. CASE NoRuntime
  BY <1>14, NoRuntimeKeeps
<1> QED
  BY <1>1, <1>2, <1>3, <1>4, <1>5, <1>6, <1>7, <1>8, <1>9, <1>10, <1>11, <1>12, <1>13,
     <1>14 DEF Next

\* In every state of the process the components, the modules and the threads
\* fit together: the invariant that Million's Init, Start and Stop keep.
THEOREM Inductive == Spec => []IInv
<1> QED
  BY InitIInv, IInvStep, PTL DEF Spec

\* The asserts of Million's accessors never fail: a component exists whenever a
\* thread may call it, while Init still creates and ~Million still destroys.
THEOREM ComponentsExistHolds == Spec => []ComponentsExist
<1>1. IInv => ComponentsExist
  <2> SUFFICES ASSUME IInv PROVE ComponentsExist
    OBVIOUS
  <2>1. \A t : Uses(t) \subseteq Components
    BY DEF Uses, Sending, Components
  <2>2. \A t : thread[t] \in Ended => Uses(t) = {}
    BY DEF Uses
  <2>3. \A t \in Pool : Uses(t) \subseteq exists
    BY <2>1, <2>2, ThreadsApart DEF IInv, Creation, Joined
  <2>4. main.at \notin {"destroy", "done"} => \A s \in Separate : Uses(s) \subseteq exists
    BY <2>1, <2>2, ThreadsApart DEF IInv, Creation
  <2> QED
    BY <2>3, <2>4 DEF ComponentsExist
<1> QED
  BY Inductive, <1>1, PTL

\* OnInit, OnStart and MillionModuleStart find what a configured module creates,
\* in whatever order the modules are initialised and the handlers run.
THEOREM LookupsFindHolds == Spec => []LookupsFind
<1>1. IInv => LookupsFind
  BY DEF IInv
<1> QED
  BY Inductive, <1>1, PTL
================================================================================

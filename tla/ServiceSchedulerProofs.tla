------------------------ MODULE ServiceSchedulerProofs ------------------------
(***************************************************************************)
(* Proofs about ServiceScheduler, for any sets of services, workers and    *)
(* clients, any bound on the messages sent, and both builds.               *)
(***************************************************************************)
EXTENDS ServiceScheduler, TLAPS

(***************************************************************************)
(* Type correctness.                                                       *)
(***************************************************************************)

\* The stage operators stay within the stages of a service.
LEMMA StageTypes ==
  ASSUME NEW st \in Stages, NEW k \in Kinds
  PROVE  StageEnter(st, k) \in Stages /\ StageLeave(st, k) \subseteq Stages
BY DEF Stages, Kinds, StageEnter, StageLeave

\* Removing the head of a run queue shifts the positions by one.
LEMMA TailPositions ==
  ASSUME NEW S, NEW q \in Seq(S), q # << >>
  PROVE  /\ Tail(q) \in Seq(S) /\ Head(q) \in S
         /\ Len(Tail(q)) = Len(q) - 1
         /\ \A i \in 1..Len(Tail(q)) : i + 1 \in 1..Len(q) /\ Tail(q)[i] = q[i + 1]
OBVIOUS

\* Appending to a run queue keeps the positions and adds the last one.
LEMMA AppendPositions ==
  ASSUME NEW S, NEW q \in Seq(S), NEW x \in S
  PROVE  /\ Append(q, x) \in Seq(S)
         /\ Len(Append(q, x)) = Len(q) + 1
         /\ \A i \in 1..Len(q) : Append(q, x)[i] = q[i]
         /\ Append(q, x)[Len(q) + 1] = x
OBVIOUS

\* IInv holds initially.
LEMMA InitIInv == Init => IInv
<1> SUFFICES ASSUME Init PROVE IInv
  OBVIOUS
<1> USE SchedulerAssumption DEF Init
<1>1. TypeOK
  <2>1. stage \in [Services -> Stages] /\ msgs \in [Services -> Seq(Kinds)]
    BY DEF Stages
  <2>2. wpc \in [Workers -> WorkerPc] /\ spc \in [Threads -> SendPc]
    BY DEF WorkerPc, SendPc
  <2>3. sent \in 0..MaxSends
    OBVIOUS
  <2>4. in_queue \in [Services -> BOOLEAN] /\ service_queue \in Seq(Services)
    OBVIOUS
  <2>5. held \in [Workers -> Services \cup {None}] /\ cur \in [Workers -> Kinds \cup {"none"}]
    OBVIOUS
  <2>6. target \in [Threads -> Services \cup {None}]
    OBVIOUS
  <2>7. services \subseteq Services /\ stop_todo \subseteq Services \X {"stop", "exit"}
    OBVIOUS
  <2>8. run \in BOOLEAN /\ crashed \in BOOLEAN /\ stop_pc \in {"idle", "notify", "send"}
    OBVIOUS
  <2> QED
    BY <2>1, <2>2, <2>3, <2>4, <2>5, <2>6, <2>7, <2>8 DEF TypeOK
<1>2. ControlInv
  BY DEF ControlInv, Threads
<1>3. QueueInv
  BY DEF QueueInv, Queued, Owning, Owns
<1>4. MutualExclusion /\ NoLostWakeup /\ NoMissedNotify /\ NoSleeperAfterStop
  BY DEF MutualExclusion, NoLostWakeup, NoMissedNotify, NoSleeperAfterStop, Owning
<1> QED
  BY <1>1, <1>2, <1>3, <1>4 DEF IInv

\* Every step preserves the types.
LEMMA TypeStep ==
  ASSUME TypeOK, ControlInv, [Next]_vars
  PROVE  TypeOK'
<1> USE SchedulerAssumption DEF TypeOK, Threads, Alive, mgrVars
<1>1. ASSUME NEW t \in Threads, NEW s \in Services, NEW k \in Kinds, Send(t, s, k)
      PROVE  TypeOK'
  BY <1>1 DEF Send, PushMsg, SendPc
<1>2. ASSUME NEW t \in Threads, PushService(t)
      PROVE  TypeOK'
  <2>1. target[t] \in Services
    BY <1>2 DEF PushService, ControlInv
  <2>2. Append(service_queue, target[t]) \in Seq(Services)
    BY <2>1, AppendPositions
  <2> QED
    BY <1>2, <2>1, <2>2 DEF PushService, SendPc
<1>3. ASSUME NEW t \in Threads, NotifyOne(t)
      PROVE  TypeOK'
  <2>1. spc' \in [Threads -> SendPc] /\ wpc' \in [Workers -> WorkerPc]
    BY <1>3 DEF NotifyOne, SendPc, WorkerPc
  <2> QED
    BY <1>3, <2>1 DEF NotifyOne
<1>4. ASSUME NEW w \in Workers, PopService(w)
      PROVE  TypeOK'
  <2>1. service_queue # << >> => /\ Head(service_queue) \in Services
                                 /\ Tail(service_queue) \in Seq(Services)
    BY TailPositions
  <2>2. service_queue' \in Seq(Services)
    BY <1>4, <2>1 DEF PopService
  <2>3. held' \in [Workers -> Services \cup {None}]
    BY <1>4, <2>1 DEF PopService
  <2>4. wpc' \in [Workers -> WorkerPc]
    BY <1>4 DEF PopService, WorkerPc
  <2> QED
    BY <1>4, <2>2, <2>3, <2>4 DEF PopService
<1>5. ASSUME NEW w \in Workers, PopMsg(w)
      PROVE  TypeOK'
  <2>1. held[w] \in Services
    BY <1>5 DEF PopMsg, ControlInv
  <2>2. msgs[held[w]] # << >> => /\ Head(msgs[held[w]]) \in Kinds
                                 /\ Tail(msgs[held[w]]) \in Seq(Kinds)
    BY <2>1, TailPositions
  <2>3. CASE stage[held[w]] # "Exited" /\ msgs[held[w]] # << >>
    <3>1. /\ cur' = [cur EXCEPT ![w] = Head(msgs[held[w]])]
          /\ msgs' = [msgs EXCEPT ![held[w]] = Tail(@)]
          /\ wpc' = [wpc EXCEPT ![w] = "process"]
      BY <1>5, <2>3 DEF PopMsg
    <3>2. cur' \in [Workers -> Kinds \cup {"none"}]
      BY <3>1, <2>2, <2>3
    <3>3. msgs' \in [Services -> Seq(Kinds)]
      BY <3>1, <2>2, <2>3
    <3>4. wpc' \in [Workers -> WorkerPc]
      BY <3>1 DEF WorkerPc
    <3> QED
      BY <1>5, <3>2, <3>3, <3>4 DEF PopMsg
  <2>4. CASE stage[held[w]] = "Exited" \/ msgs[held[w]] = << >>
    BY <1>5, <2>4 DEF PopMsg, WorkerPc
  <2> QED
    BY <2>3, <2>4
<1>6. ASSUME NEW w \in Workers, EnterProcessMsg(w)
      PROVE  TypeOK'
  <2>1. held[w] \in Services /\ cur[w] \in Kinds
    BY <1>6 DEF EnterProcessMsg, ControlInv
  <2>2. StageEnter(stage[held[w]], cur[w]) \in Stages
    BY <2>1, StageTypes
  <2>3. stage' \in [Services -> Stages]
    <3>1. stage' = stage \/ stage' = [stage EXCEPT ![held[w]] = StageEnter(@, cur[w])]
      BY <1>6 DEF EnterProcessMsg
    <3>2. stage \in [Services -> Stages]
      OBVIOUS
    <3> HIDE DEF TypeOK
    <3> QED
      BY <2>1, <2>2, <3>1, <3>2
  <2>4. cur' \in [Workers -> Kinds \cup {"none"}] /\ wpc' \in [Workers -> WorkerPc]
    BY <1>6 DEF EnterProcessMsg, WorkerPc
  <2> QED
    BY <1>6, <2>3, <2>4 DEF EnterProcessMsg
<1>7. ASSUME NEW w \in Workers, LeaveProcessMsg(w)
      PROVE  TypeOK'
  <2>1. held[w] \in Services /\ cur[w] \in Kinds
    BY <1>7 DEF LeaveProcessMsg, ControlInv
  <2>2. StageLeave(stage[held[w]], cur[w]) \subseteq Stages
    BY <2>1, StageTypes
  <2> QED
    BY <1>7, <2>1, <2>2 DEF LeaveProcessMsg, WorkerPc
<1>8. ASSUME NEW w \in Workers, ClearInQueue(w)
      PROVE  TypeOK'
  BY <1>8 DEF ClearInQueue, WorkerPc
<1>9. ASSUME NEW w \in Workers, CheckMsgs(w)
      PROVE  TypeOK'
  BY <1>9 DEF CheckMsgs, WorkerPc, SendPc
<1>10. ASSUME NEW w \in Workers, EndRepush(w)
       PROVE  TypeOK'
  BY <1>10 DEF EndRepush, WorkerPc
<1>11. ASSUME NEW w \in Workers, CheckExited(w)
       PROVE  TypeOK'
  BY <1>11 DEF CheckExited, WorkerPc
<1>12. ASSUME NEW w \in Workers, DeleteService(w)
       PROVE  TypeOK'
  BY <1>12 DEF DeleteService, WorkerPc
<1>13. ASSUME NEW w \in Workers, SpuriousWakeup(w)
       PROVE  TypeOK'
  BY <1>13 DEF SpuriousWakeup, WorkerPc
<1>14. CASE Stop
  BY <1>14 DEF Stop
<1>15. CASE NotifyAll
  BY <1>15 DEF NotifyAll, WorkerPc
<1>16. ASSUME NEW s \in Services, NEW k \in {"stop", "exit"}, StopSend(s, k)
       PROVE  TypeOK'
  <2>1. k \in Kinds
    BY DEF Kinds
  <2>2. CASE PushMsg(Main, s, k)
    BY <1>16, <2>1, <2>2 DEF StopSend, PushMsg, SendPc
  <2>3. CASE UNCHANGED <<msgs, spc, target>>
    BY <1>16, <2>3 DEF StopSend
  <2> QED
    BY <1>16, <2>2, <2>3 DEF StopSend
<1>17. CASE UNCHANGED vars
  BY <1>17 DEF vars
<1> HIDE DEF TypeOK, Threads, Alive, mgrVars
<1> QED
  BY <1>1, <1>2, <1>3, <1>4, <1>5, <1>6, <1>7, <1>8, <1>9, <1>10, <1>11, <1>12,
     <1>13, <1>14, <1>15, <1>16, <1>17 DEF Next, Sending, Working, Stopping

\* Every step keeps the program counters and the other variables in line.
LEMMA ControlStep ==
  ASSUME TypeOK, ControlInv, [Next]_vars
  PROVE  ControlInv'
<1> USE SchedulerAssumption DEF TypeOK, ControlInv, Threads, Alive, mgrVars, SendPc, WorkerPc
<1>1. ASSUME NEW t \in Threads, NEW s \in Services, NEW k \in Kinds, Send(t, s, k)
      PROVE  ControlInv'
  BY <1>1 DEF Send, PushMsg
<1>2. ASSUME NEW t \in Threads, PushService(t)
      PROVE  ControlInv'
  BY <1>2 DEF PushService, InQueueSeen
<1>3. ASSUME NEW t \in Threads, NotifyOne(t)
      PROVE  ControlInv'
  BY <1>3 DEF NotifyOne
<1>4. ASSUME NEW w \in Workers, PopService(w)
      PROVE  ControlInv'
  BY <1>4 DEF PopService
<1>5. ASSUME NEW w \in Workers, PopMsg(w)
      PROVE  ControlInv'
  <2>1. UNCHANGED <<held, spc, target, stop_pc, run>> /\ wpc[w] = "take"
    BY <1>5 DEF PopMsg
  <2>2. held[w] \in Services /\ cur[w] = "none"
    BY <2>1
  <2>3. /\ wpc'[w] \in {"process", "unset"}
        /\ wpc'[w] = "process" <=> cur'[w] # "none"
    <3>1. msgs[held[w]] # << >> => Head(msgs[held[w]]) \in Kinds
      BY <2>2, TailPositions
    <3>2. "none" \notin Kinds
      BY DEF Kinds
    <3> QED
      BY <1>5, <2>2, <3>1, <3>2 DEF PopMsg
  <2>4. \A v \in Workers : v # w => wpc'[v] = wpc[v] /\ cur'[v] = cur[v]
    BY <1>5 DEF PopMsg
  <2> QED
    BY <2>1, <2>2, <2>3, <2>4
<1>6. ASSUME NEW w \in Workers, EnterProcessMsg(w)
      PROVE  ControlInv'
  BY <1>6 DEF EnterProcessMsg
<1>7. ASSUME NEW w \in Workers, LeaveProcessMsg(w)
      PROVE  ControlInv'
  BY <1>7 DEF LeaveProcessMsg
<1>8. ASSUME NEW w \in Workers, ClearInQueue(w)
      PROVE  ControlInv'
  BY <1>8 DEF ClearInQueue
<1>9. ASSUME NEW w \in Workers, CheckMsgs(w)
      PROVE  ControlInv'
  <2>1. CASE msgs[held[w]] # << >>
    <3>1. held[w] \in Services
      BY <1>9 DEF CheckMsgs
    <3>2. /\ wpc' = [wpc EXCEPT ![w] = "repush"] /\ spc' = [spc EXCEPT ![w] = "push"]
          /\ target' = [target EXCEPT ![w] = held[w]]
          /\ UNCHANGED <<held, cur, stop_pc, run>> /\ wpc[w] = "check"
      BY <1>9, <2>1 DEF CheckMsgs
    <3> QED
      BY <3>1, <3>2
  <2>2. CASE msgs[held[w]] = << >>
    BY <1>9, <2>2 DEF CheckMsgs
  <2> QED
    BY <2>1, <2>2
<1>10. ASSUME NEW w \in Workers, EndRepush(w)
      PROVE  ControlInv'
  BY <1>10 DEF EndRepush
<1>11. ASSUME NEW w \in Workers, CheckExited(w)
      PROVE  ControlInv'
  <2>1. CASE stage[held[w]] = "Exited"
    BY <1>11, <2>1 DEF CheckExited
  <2>2. CASE stage[held[w]] # "Exited"
    BY <1>11, <2>2 DEF CheckExited
  <2> QED
    BY <2>1, <2>2
<1>12. ASSUME NEW w \in Workers, DeleteService(w)
      PROVE  ControlInv'
  BY <1>12 DEF DeleteService
<1>13. ASSUME NEW w \in Workers, SpuriousWakeup(w)
      PROVE  ControlInv'
  BY <1>13 DEF SpuriousWakeup
<1>14. CASE Stop
  BY <1>14 DEF Stop
<1>15. CASE NotifyAll
  BY <1>15 DEF NotifyAll
<1>16. ASSUME NEW s \in Services, NEW k \in {"stop", "exit"}, StopSend(s, k)
      PROVE  ControlInv'
  <2>1. CASE PushMsg(Main, s, k)
    BY <1>16, <2>1 DEF StopSend, PushMsg
  <2>2. CASE UNCHANGED <<msgs, spc, target>>
    BY <1>16, <2>2 DEF StopSend
  <2> QED
    BY <1>16, <2>1, <2>2 DEF StopSend
<1>17. CASE UNCHANGED vars
  BY <1>17 DEF vars
<1> QED
  BY <1>1, <1>2, <1>3, <1>4, <1>5, <1>6, <1>7, <1>8, <1>9, <1>10,
     <1>11, <1>12, <1>13, <1>14, <1>15, <1>16, <1>17
  DEF Next, Sending, Working, Stopping

\* A step that moves no service into or out of the run queue or the hands of a
\* worker keeps in_queue_ in line.
LEMMA QueueFrame ==
  ASSUME QueueInv, MutualExclusion, UNCHANGED <<service_queue, in_queue>>,
         \A v \in Workers : Owning(v)' <=> Owning(v),
         \A v \in Workers : Owning(v) => held'[v] = held[v]
  PROVE  (QueueInv /\ MutualExclusion)'
<1>1. \A s : Queued(s)' <=> Queued(s)
  BY DEF Queued
<1>2. \A v \in Workers, s \in Services : Owns(v, s)' <=> Owns(v, s)
  BY DEF Owns
<1>3. MutualExclusion'
  BY DEF MutualExclusion
<1>4. /\ \A i \in 1..Len(service_queue') : in_queue'[service_queue'[i]]
      /\ \A i, j \in 1..Len(service_queue') :
           service_queue'[i] = service_queue'[j] => i = j
  BY DEF QueueInv
<1>5. \A w \in Workers : Owning(w)' => in_queue'[held'[w]] /\ ~Queued(held[w])'
  BY <1>1 DEF QueueInv
<1>6. \A s \in Services : in_queue'[s] => Queued(s)' \/ \E w \in Workers : Owns(w, s)'
  BY <1>1, <1>2 DEF QueueInv
<1> QED
  BY <1>3, <1>4, <1>5, <1>6 DEF QueueInv

\* A service that enters the run queue was not in it, nor in anybody's hands.
LEMMA PushServiceQueue ==
  ASSUME TypeOK, ControlInv, QueueInv, MutualExclusion, NEW t \in Threads, PushService(t)
  PROVE  (QueueInv /\ MutualExclusion)'
<1> DEFINE s == target[t]
<1>1. s \in Services /\ UNCHANGED <<wpc, held>>
  BY DEF ControlInv, PushService
<1>2. \A v \in Workers : (Owning(v)' <=> Owning(v)) /\ held'[v] = held[v]
  BY <1>1 DEF Owning
<1>3. CASE UNCHANGED <<service_queue, in_queue>>
  BY <1>2, <1>3, QueueFrame
<1>4. CASE /\ ~in_queue[s]
           /\ service_queue' = Append(service_queue, s)
           /\ in_queue' = [in_queue EXCEPT ![s] = TRUE]
  <2>1. /\ Len(service_queue') = Len(service_queue) + 1 /\ Len(service_queue) \in Nat
        /\ \A i \in 1..Len(service_queue) : service_queue'[i] = service_queue[i]
        /\ service_queue'[Len(service_queue) + 1] = s
    BY <1>1, <1>4, AppendPositions DEF TypeOK
  <2>2. /\ in_queue'[s] = TRUE
        /\ \A r \in Services : r # s => in_queue'[r] = in_queue[r]
    BY <1>1, <1>4 DEF TypeOK
  <2>3. \A i \in 1..Len(service_queue) : service_queue[i] \in Services /\ service_queue[i] # s
    BY <1>4 DEF QueueInv, TypeOK
  <2>4. \A i \in 1..Len(service_queue') : in_queue'[service_queue'[i]]
    BY <2>1, <2>2, <2>3 DEF QueueInv
  <2>5. \A i, j \in 1..Len(service_queue') : service_queue'[i] = service_queue'[j] => i = j
    BY <2>1, <2>3 DEF QueueInv
  <2>6. \A r \in Services : Queued(r)' <=> Queued(r) \/ r = s
    BY <2>1 DEF Queued
  <2>7. ASSUME NEW w \in Workers, Owning(w)'
        PROVE  in_queue'[held'[w]] /\ ~Queued(held[w])'
    <3>1. held[w] \in Services /\ held[w] # s /\ held'[w] = held[w]
      BY <1>2, <1>4, <2>7 DEF Owning, ControlInv, QueueInv
    <3>2. in_queue[held[w]] /\ ~Queued(held[w])
      BY <1>2, <2>7 DEF QueueInv
    <3> QED
      BY <3>1, <3>2, <2>2, <2>6
  <2>8. \A r \in Services : in_queue'[r] => Queued(r)' \/ \E w \in Workers : Owns(w, r)'
    BY <1>1, <1>2, <2>2, <2>6 DEF QueueInv, Owns
  <2>9. MutualExclusion'
    BY <1>2 DEF MutualExclusion
  <2> QED
    BY <2>4, <2>5, <2>7, <2>8, <2>9 DEF QueueInv
<1> QED
  BY <1>3, <1>4 DEF PushService, InQueueSeen

\* The service a worker pops leaves the run queue for the hands of the worker.
LEMMA PopServiceQueue ==
  ASSUME TypeOK, ControlInv, QueueInv, MutualExclusion, NEW w \in Workers, PopService(w)
  PROVE  (QueueInv /\ MutualExclusion)'
<1>1. UNCHANGED in_queue /\ ~Owning(w)
  BY DEF PopService, Owning
<1>2. CASE /\ wpc' \in {[wpc EXCEPT ![w] = "done"], [wpc EXCEPT ![w] = "wait"]}
           /\ UNCHANGED <<service_queue, held>>
  <2>1. \A v \in Workers : (Owning(v)' <=> Owning(v)) /\ held'[v] = held[v]
    BY <1>1, <1>2 DEF Owning, TypeOK
  <2> QED
    BY <1>1, <1>2, <2>1, QueueFrame
<1>3. CASE /\ service_queue # << >>
           /\ held' = [held EXCEPT ![w] = Head(service_queue)]
           /\ service_queue' = Tail(service_queue)
           /\ wpc' = [wpc EXCEPT ![w] = "take"]
  <2> DEFINE s == service_queue[1]
  <2>1. /\ Len(service_queue') = Len(service_queue) - 1 /\ Len(service_queue) \in Nat
        /\ Len(service_queue) # 0 /\ s \in Services /\ s = Head(service_queue)
        /\ \A i \in 1..Len(service_queue') :
             i + 1 \in 1..Len(service_queue) /\ service_queue'[i] = service_queue[i + 1]
    BY <1>3, TailPositions DEF TypeOK
  <2>2. /\ Owning(w)' /\ held'[w] = s
        /\ \A v \in Workers : v # w => (Owning(v)' <=> Owning(v)) /\ held'[v] = held[v]
    BY <1>3, <2>1 DEF Owning, TypeOK
  <2>3. Queued(s) /\ in_queue[s]
    BY <2>1 DEF QueueInv, Queued
  <2>4. \A r \in Services : Queued(r)' <=> Queued(r) /\ r # s
    <3> SUFFICES ASSUME NEW r \in Services PROVE Queued(r)' <=> Queued(r) /\ r # s
      OBVIOUS
    <3>1. ASSUME Queued(r), r # s PROVE Queued(r)'
      <4>1. PICK i \in 1..Len(service_queue) : service_queue[i] = r
        BY <3>1 DEF Queued
      <4>2. i # 1 /\ i - 1 \in 1..Len(service_queue')
        BY <4>1, <3>1, <2>1
      <4>3. service_queue'[i - 1] = service_queue[(i - 1) + 1] /\ (i - 1) + 1 = i
        BY <4>2, <2>1
      <4> QED
        BY <4>1, <4>2, <4>3 DEF Queued
    <3>2. ASSUME Queued(r)' PROVE Queued(r) /\ r # s
      <4>1. PICK i \in 1..Len(service_queue') : service_queue'[i] = r
        BY <3>2 DEF Queued
      <4>2. i + 1 \in 1..Len(service_queue) /\ service_queue[i + 1] = r /\ i + 1 # 1
        BY <4>1, <2>1
      <4>3. 1 \in 1..Len(service_queue)
        BY <2>1
      <4> QED
        BY <4>2, <4>3 DEF Queued, QueueInv
    <3> QED
      BY <3>1, <3>2
  <2>5. \A v \in Workers : Owning(v) => held[v] \in Services /\ held[v] # s
    BY <2>3 DEF QueueInv, Owning, ControlInv
  <2>6. MutualExclusion'
    BY <2>2, <2>5 DEF MutualExclusion
  <2>7. \A i \in 1..Len(service_queue') : in_queue'[service_queue'[i]]
    BY <1>1, <2>1 DEF QueueInv
  <2>8. \A i, j \in 1..Len(service_queue') : service_queue'[i] = service_queue'[j] => i = j
    <3> SUFFICES ASSUME NEW i \in 1..Len(service_queue'), NEW j \in 1..Len(service_queue'),
                        service_queue'[i] = service_queue'[j]
                 PROVE  i = j
      OBVIOUS
    <3>1. i + 1 = j + 1
      BY <2>1 DEF QueueInv
    <3> QED
      BY <3>1
  <2>9. ASSUME NEW v \in Workers, Owning(v)'
        PROVE  in_queue'[held'[v]] /\ \A r \in Services : r = held'[v] => ~Queued(r)'
    <3>1. CASE v = w
      BY <3>1, <1>1, <2>2, <2>3, <2>4
    <3>2. CASE v # w
      BY <3>2, <2>9, <1>1, <2>2, <2>4, <2>5 DEF QueueInv
    <3> QED
      BY <3>1, <3>2
  <2>10. \A v \in Workers : Owning(v)' => held'[v] \in Services
    BY <2>1, <2>2, <2>5
  <2>11. \A v \in Workers : Owning(v)' => in_queue'[held'[v]] /\ ~Queued(held[v])'
    BY <2>9, <2>10 DEF Queued
  <2>12. \A r \in Services : in_queue'[r] => Queued(r)' \/ \E v \in Workers : Owns(v, r)'
    BY <1>1, <2>2, <2>4 DEF QueueInv, Owns
  <2> QED
    BY <2>6, <2>7, <2>8, <2>11, <2>12 DEF QueueInv
<1> QED
  BY <1>2, <1>3 DEF PopService

\* set_in_queue(false) is the end of the ownership.
LEMMA ClearInQueueQueue ==
  ASSUME TypeOK, ControlInv, QueueInv, MutualExclusion, NEW w \in Workers, ClearInQueue(w)
  PROVE  (QueueInv /\ MutualExclusion)'
<1> DEFINE s == held[w]
<1>1. /\ s \in Services /\ Owning(w) /\ UNCHANGED <<service_queue, held>>
      /\ in_queue' = [in_queue EXCEPT ![s] = FALSE]
      /\ wpc' = [wpc EXCEPT ![w] = "check"]
  BY DEF ClearInQueue, ControlInv, Owning
<1>2. ~Owning(w)' /\ \A v \in Workers : v # w => (Owning(v)' <=> Owning(v))
  BY <1>1 DEF Owning, TypeOK
<1>3. ~in_queue'[s] /\ \A r \in Services : r # s => in_queue'[r] = in_queue[r]
  BY <1>1 DEF TypeOK
<1>4. \A r : Queued(r)' <=> Queued(r)
  BY <1>1 DEF Queued
<1>5. \A i \in 1..Len(service_queue) : service_queue[i] \in Services /\ service_queue[i] # s
  BY <1>1 DEF QueueInv, Queued, TypeOK
<1>6. \A i \in 1..Len(service_queue') : in_queue'[service_queue'[i]]
  BY <1>1, <1>3, <1>5 DEF QueueInv
<1>7. \A i, j \in 1..Len(service_queue') : service_queue'[i] = service_queue'[j] => i = j
  BY <1>1 DEF QueueInv
<1>8. \A v \in Workers : Owning(v)' => held[v] \in Services /\ held[v] # s
  BY <1>1, <1>2 DEF MutualExclusion, Owning, ControlInv
<1>9. ASSUME NEW v \in Workers, Owning(v)'
      PROVE  in_queue'[held'[v]] /\ ~Queued(held[v])'
  <2>1. /\ held'[v] = held[v] /\ held[v] \in Services /\ held[v] # s
        /\ in_queue[held[v]] /\ ~Queued(held[v])
    BY <1>1, <1>2, <1>8, <1>9 DEF QueueInv
  <2> QED
    BY <2>1, <1>1, <1>3 DEF Queued
<1>10. \A r \in Services : in_queue'[r] => Queued(r)' \/ \E v \in Workers : Owns(v, r)'
  BY <1>1, <1>2, <1>3, <1>4 DEF QueueInv, Owns
<1>11. MutualExclusion'
  BY <1>1, <1>2 DEF MutualExclusion
<1> QED
  BY <1>6, <1>7, <1>9, <1>10, <1>11 DEF QueueInv

\* Every step keeps in_queue_ in line with the run queue and the owners.
LEMMA QueueStep ==
  ASSUME TypeOK, ControlInv, QueueInv, MutualExclusion, [Next]_vars
  PROVE  (QueueInv /\ MutualExclusion)'
<1>1. ASSUME NEW t \in Threads, PushService(t)
      PROVE  (QueueInv /\ MutualExclusion)'
  BY <1>1, PushServiceQueue
<1>2. ASSUME NEW w \in Workers, PopService(w)
      PROVE  (QueueInv /\ MutualExclusion)'
  BY <1>2, PopServiceQueue
<1>3. ASSUME NEW w \in Workers, ClearInQueue(w)
      PROVE  (QueueInv /\ MutualExclusion)'
  BY <1>3, ClearInQueueQueue
<1>4. ASSUME NEW t \in Threads, NEW s \in Services, NEW k \in Kinds, Send(t, s, k)
      PROVE  (QueueInv /\ MutualExclusion)'
  <2>1. UNCHANGED <<service_queue, in_queue>>
    BY <1>4 DEF Send
  <2>2. \A v \in Workers : Owning(v)' <=> Owning(v)
    BY <1>4 DEF Send, Owning, TypeOK
  <2>3. \A v \in Workers : Owning(v) => held'[v] = held[v]
    BY <1>4 DEF Send, Owning, TypeOK
  <2> QED
    BY <2>1, <2>2, <2>3, QueueFrame
<1>5. ASSUME NEW t \in Threads, NotifyOne(t)
      PROVE  (QueueInv /\ MutualExclusion)'
  <2>1. UNCHANGED <<service_queue, in_queue>>
    BY <1>5 DEF NotifyOne
  <2>2. \A v \in Workers : Owning(v)' <=> Owning(v)
    BY <1>5 DEF NotifyOne, Owning, TypeOK
  <2>3. \A v \in Workers : Owning(v) => held'[v] = held[v]
    BY <1>5 DEF NotifyOne, Owning, TypeOK
  <2> QED
    BY <2>1, <2>2, <2>3, QueueFrame
<1>6. ASSUME NEW w \in Workers, PopMsg(w)
      PROVE  (QueueInv /\ MutualExclusion)'
  <2>1. UNCHANGED <<service_queue, in_queue>>
    BY <1>6 DEF PopMsg
  <2>2. \A v \in Workers : Owning(v)' <=> Owning(v)
    BY <1>6 DEF PopMsg, Owning, TypeOK
  <2>3. \A v \in Workers : Owning(v) => held'[v] = held[v]
    BY <1>6 DEF PopMsg, Owning, TypeOK
  <2> QED
    BY <2>1, <2>2, <2>3, QueueFrame
<1>7. ASSUME NEW w \in Workers, EnterProcessMsg(w)
      PROVE  (QueueInv /\ MutualExclusion)'
  <2>1. UNCHANGED <<service_queue, in_queue>>
    BY <1>7 DEF EnterProcessMsg
  <2>2. \A v \in Workers : Owning(v)' <=> Owning(v)
    BY <1>7 DEF EnterProcessMsg, Owning, TypeOK
  <2>3. \A v \in Workers : Owning(v) => held'[v] = held[v]
    BY <1>7 DEF EnterProcessMsg, Owning, TypeOK
  <2> QED
    BY <2>1, <2>2, <2>3, QueueFrame
<1>8. ASSUME NEW w \in Workers, LeaveProcessMsg(w)
      PROVE  (QueueInv /\ MutualExclusion)'
  <2>1. UNCHANGED <<service_queue, in_queue>>
    BY <1>8 DEF LeaveProcessMsg
  <2>2. \A v \in Workers : Owning(v)' <=> Owning(v)
    BY <1>8 DEF LeaveProcessMsg, Owning, TypeOK
  <2>3. \A v \in Workers : Owning(v) => held'[v] = held[v]
    BY <1>8 DEF LeaveProcessMsg, Owning, TypeOK
  <2> QED
    BY <2>1, <2>2, <2>3, QueueFrame
<1>9. ASSUME NEW w \in Workers, CheckMsgs(w)
      PROVE  (QueueInv /\ MutualExclusion)'
  <2>1. UNCHANGED <<service_queue, in_queue>>
    BY <1>9 DEF CheckMsgs
  <2>2. \A v \in Workers : Owning(v)' <=> Owning(v)
    BY <1>9 DEF CheckMsgs, Owning, TypeOK
  <2>3. \A v \in Workers : Owning(v) => held'[v] = held[v]
    BY <1>9 DEF CheckMsgs, Owning, TypeOK
  <2> QED
    BY <2>1, <2>2, <2>3, QueueFrame
<1>10. ASSUME NEW w \in Workers, EndRepush(w)
       PROVE  (QueueInv /\ MutualExclusion)'
  <2>1. UNCHANGED <<service_queue, in_queue>>
    BY <1>10 DEF EndRepush
  <2>2. \A v \in Workers : Owning(v)' <=> Owning(v)
    BY <1>10 DEF EndRepush, Owning, TypeOK
  <2>3. \A v \in Workers : Owning(v) => held'[v] = held[v]
    BY <1>10 DEF EndRepush, Owning, TypeOK
  <2> QED
    BY <2>1, <2>2, <2>3, QueueFrame
<1>11. ASSUME NEW w \in Workers, CheckExited(w)
       PROVE  (QueueInv /\ MutualExclusion)'
  <2>1. UNCHANGED <<service_queue, in_queue>>
    BY <1>11 DEF CheckExited
  <2>2. \A v \in Workers : Owning(v)' <=> Owning(v)
    BY <1>11 DEF CheckExited, Owning, TypeOK
  <2>3. \A v \in Workers : Owning(v) => held'[v] = held[v]
    BY <1>11 DEF CheckExited, Owning, TypeOK
  <2> QED
    BY <2>1, <2>2, <2>3, QueueFrame
<1>12. ASSUME NEW w \in Workers, DeleteService(w)
       PROVE  (QueueInv /\ MutualExclusion)'
  <2>1. UNCHANGED <<service_queue, in_queue>>
    BY <1>12 DEF DeleteService
  <2>2. \A v \in Workers : Owning(v)' <=> Owning(v)
    BY <1>12 DEF DeleteService, Owning, TypeOK
  <2>3. \A v \in Workers : Owning(v) => held'[v] = held[v]
    BY <1>12 DEF DeleteService, Owning, TypeOK
  <2> QED
    BY <2>1, <2>2, <2>3, QueueFrame
<1>13. ASSUME NEW w \in Workers, SpuriousWakeup(w)
       PROVE  (QueueInv /\ MutualExclusion)'
  <2>1. UNCHANGED <<service_queue, in_queue>>
    BY <1>13 DEF SpuriousWakeup
  <2>2. \A v \in Workers : Owning(v)' <=> Owning(v)
    BY <1>13 DEF SpuriousWakeup, Owning, TypeOK
  <2>3. \A v \in Workers : Owning(v) => held'[v] = held[v]
    BY <1>13 DEF SpuriousWakeup, Owning, TypeOK
  <2> QED
    BY <2>1, <2>2, <2>3, QueueFrame
<1>14. CASE Stop
  <2>1. UNCHANGED <<service_queue, in_queue>>
    BY <1>14 DEF Stop
  <2>2. \A v \in Workers : Owning(v)' <=> Owning(v)
    BY <1>14 DEF Stop, Owning, TypeOK
  <2>3. \A v \in Workers : Owning(v) => held'[v] = held[v]
    BY <1>14 DEF Stop, Owning, TypeOK
  <2> QED
    BY <2>1, <2>2, <2>3, QueueFrame
<1>15. CASE NotifyAll
  <2>1. UNCHANGED <<service_queue, in_queue>>
    BY <1>15 DEF NotifyAll
  <2>2. \A v \in Workers : Owning(v)' <=> Owning(v)
    BY <1>15 DEF NotifyAll, Owning, TypeOK
  <2>3. \A v \in Workers : Owning(v) => held'[v] = held[v]
    BY <1>15 DEF NotifyAll, Owning, TypeOK
  <2> QED
    BY <2>1, <2>2, <2>3, QueueFrame
<1>16. ASSUME NEW s \in Services, NEW k \in {"stop", "exit"}, StopSend(s, k)
       PROVE  (QueueInv /\ MutualExclusion)'
  <2>1. UNCHANGED <<service_queue, in_queue>>
    BY <1>16 DEF StopSend
  <2>2. \A v \in Workers : Owning(v)' <=> Owning(v)
    BY <1>16 DEF StopSend, Owning, TypeOK
  <2>3. \A v \in Workers : Owning(v) => held'[v] = held[v]
    BY <1>16 DEF StopSend, Owning, TypeOK
  <2> QED
    BY <2>1, <2>2, <2>3, QueueFrame
<1>17. CASE UNCHANGED vars
  <2>1. UNCHANGED <<service_queue, in_queue>>
    BY <1>17 DEF vars
  <2>2. \A v \in Workers : Owning(v)' <=> Owning(v)
    BY <1>17 DEF vars, Owning, TypeOK
  <2>3. \A v \in Workers : Owning(v) => held'[v] = held[v]
    BY <1>17 DEF vars, Owning, TypeOK
  <2> QED
    BY <2>1, <2>2, <2>3, QueueFrame
<1> QED
  BY <1>1, <1>2, <1>3, <1>4, <1>5, <1>6, <1>7, <1>8, <1>9, <1>10,
     <1>11, <1>12, <1>13, <1>14, <1>15, <1>16, <1>17
  DEF Next, Sending, Working, Stopping

\* What looks after a service goes on doing so in a step that leaves alone the
\* run queue, the owners, the threads that push and those that look.
LEMMA AttendedFrame ==
  ASSUME NEW s \in Services, Attended(s),
         Queued(s) => Queued(s)',
         \A w \in Workers : Owns(w, s) => Owns(w, s)',
         \A t \in Threads : spc[t] = "push" /\ target[t] = s
                              => spc'[t] = "push" /\ target'[t] = s,
         \A w \in Workers : wpc[w] = "check" /\ held[w] = s
                              => wpc'[w] = "check" /\ held'[w] = s
  PROVE  Attended(s)'
BY DEF Attended

\* The thread that put a message into a mailbox looks after the service.
LEMMA PushMsgAttends ==
  ASSUME TypeOK, NEW r \in Services, msgs'[r] # << >>, msgs[r] # << >> => Attended(r),
         NEW t \in Threads, NEW s \in Services, NEW k, PushMsg(t, s, k),
         UNCHANGED <<service_queue, wpc, held>>
  PROVE  Attended(r)'
<1>1. spc'[t] = "push" /\ target'[t] = s /\ spc[t] = "idle"
  BY DEF PushMsg, TypeOK
<1>2. CASE r = s
  BY <1>1, <1>2 DEF Attended
<1>3. CASE r # s
  <2>1. msgs'[r] = msgs[r]
    BY <1>3 DEF PushMsg, TypeOK
  <2>2. \A u \in Threads : spc[u] = "push" /\ target[u] = r
                             => spc'[u] = "push" /\ target'[u] = r
    BY <1>1 DEF PushMsg, TypeOK
  <2> QED
    BY <2>1, <2>2, AttendedFrame DEF Queued, Owns, Owning
<1> QED
  BY <1>2, <1>3

\* Every step keeps somebody in charge of a service that has messages.
LEMMA WakeupStep ==
  ASSUME TypeOK, ControlInv, QueueInv, NoLostWakeup, [Next]_vars
  PROVE  NoLostWakeup'
<1> SUFFICES ASSUME NEW r \in Services, msgs'[r] # << >> PROVE Attended(r)'
  BY DEF NoLostWakeup
<1> USE SchedulerAssumption DEF Threads
<1>1. msgs[r] # << >> => Attended(r)
  BY DEF NoLostWakeup
<1>2. ASSUME NEW t \in Threads, PushService(t)
      PROVE  Attended(r)'
  <2>1. target[t] \in Services /\ UNCHANGED <<msgs, wpc, held>>
    BY <1>2 DEF PushService, ControlInv
  <2>2. \A w \in Workers, q \in Services : Owns(w, q)' <=> Owns(w, q)
    BY <2>1 DEF Owns, Owning
  <2>3. \A q \in Services : Queued(q) => Queued(q)'
    <3>1. CASE service_queue' = Append(service_queue, target[t])
      BY <3>1, <2>1, AppendPositions DEF Queued, TypeOK
    <3>2. CASE service_queue' = service_queue
      BY <3>2 DEF Queued
    <3> QED
      BY <3>1, <3>2, <1>2 DEF PushService
  <2>4. CASE r # target[t]
    <3>1. \A u \in Threads : spc[u] = "push" /\ target[u] = r
                               => spc'[u] = "push" /\ target'[u] = r
      BY <1>2, <2>4 DEF PushService, TypeOK
    <3> QED
      BY <3>1, <2>1, <2>2, <2>3, <1>1, AttendedFrame
  <2>5. CASE r = target[t] /\ service_queue' = Append(service_queue, r)
    <3>1. Len(service_queue') = Len(service_queue) + 1 /\ Len(service_queue) \in Nat
          /\ service_queue'[Len(service_queue) + 1] = r
      BY <2>5, AppendPositions DEF TypeOK
    <3> QED
      BY <3>1 DEF Attended, Queued
  <2>6. CASE r = target[t] /\ TRUE \in InQueueSeen(t, r)
    <3>1. CASE in_queue[r]
      BY <3>1, <2>2, <2>3 DEF QueueInv, Attended
    <3>2. CASE \E w \in Workers : wpc[w] = "check" /\ held[w] = r
      BY <3>2, <2>1 DEF Attended
    <3> QED
      BY <3>1, <3>2, <2>6 DEF InQueueSeen
  <2> QED
    <3>1. \E seen \in InQueueSeen(t, target[t]) :
             service_queue' = Append(service_queue, target[t]) \/ seen
      BY <1>2 DEF PushService
    <3>2. InQueueSeen(t, target[t]) \subseteq BOOLEAN
      BY <2>1 DEF InQueueSeen, TypeOK
    <3>3. \/ service_queue' = Append(service_queue, target[t])
          \/ TRUE \in InQueueSeen(t, target[t])
      BY <3>1, <3>2
    <3> QED
      BY <3>3, <2>4, <2>5, <2>6
<1>3. ASSUME NEW w \in Workers, PopService(w)
      PROVE  Attended(r)'
  <2>1. UNCHANGED <<msgs, spc, target>> /\ wpc[w] = "loop" /\ ~Owning(w)
    BY <1>3 DEF PopService, Owning
  <2>2. \A v \in Workers : v # w => wpc'[v] = wpc[v] /\ held'[v] = held[v]
    BY <1>3 DEF PopService, TypeOK
  <2>3. \A v \in Workers : Owns(v, r) => Owns(v, r)'
    BY <2>1, <2>2 DEF Owns, Owning
  <2>4. CASE Queued(r) => Queued(r)'
    BY <2>1, <2>2, <2>3, <2>4, <1>1, AttendedFrame
  <2>5. CASE Queued(r) /\ ~Queued(r)'
    <3>1. /\ service_queue # << >> /\ service_queue' = Tail(service_queue)
          /\ held' = [held EXCEPT ![w] = Head(service_queue)]
          /\ wpc' = [wpc EXCEPT ![w] = "take"]
      BY <1>3, <2>5 DEF PopService, Queued
    <3>2. /\ Len(service_queue') = Len(service_queue) - 1 /\ Len(service_queue) \in Nat
          /\ \A i \in 1..Len(service_queue') : service_queue'[i] = service_queue[i + 1]
          /\ service_queue[1] = Head(service_queue)
      BY <3>1, TailPositions DEF TypeOK
    <3>3. PICK i \in 1..Len(service_queue) : service_queue[i] = r
      BY <2>5 DEF Queued
    <3>4. i = 1
      <4>1. SUFFICES ASSUME i # 1 PROVE FALSE
        OBVIOUS
      <4>2. i - 1 \in 1..Len(service_queue') /\ (i - 1) + 1 = i
        BY <4>1, <3>2, <3>3
      <4>3. service_queue'[i - 1] = r
        BY <4>2, <3>2, <3>3
      <4> QED
        BY <4>2, <4>3, <2>5 DEF Queued
    <3>5. Owns(w, r)'
      BY <3>1, <3>2, <3>3, <3>4 DEF Owns, Owning, TypeOK
    <3> QED
      BY <3>5 DEF Attended
  <2> QED
    BY <2>4, <2>5
<1>4. ASSUME NEW w \in Workers, ClearInQueue(w)
      PROVE  Attended(r)'
  <2>1. UNCHANGED <<msgs, service_queue, held, spc, target>> /\ (Queued(r) => Queued(r)')
    BY <1>4 DEF ClearInQueue, Queued
  <2>2. wpc'[w] = "check" /\ \A v \in Workers : v # w => wpc'[v] = wpc[v]
    BY <1>4 DEF ClearInQueue, TypeOK
  <2>3. CASE held[w] = r
    BY <2>1, <2>2, <2>3 DEF Attended
  <2>4. CASE held[w] # r
    BY <2>1, <2>2, <2>4, <1>1, AttendedFrame DEF Owns, Owning
  <2> QED
    BY <2>3, <2>4
<1>5. ASSUME NEW t \in Threads, NEW s \in Services, NEW k \in Kinds, Send(t, s, k)
      PROVE  Attended(r)'
  <2>1. UNCHANGED <<service_queue, wpc, held>> /\ PushMsg(t, s, k)
    BY <1>5 DEF Send
  <2> QED
    BY <2>1, <1>1, PushMsgAttends
<1>6. ASSUME NEW t \in Threads, NotifyOne(t)
      PROVE  Attended(r)'
  <2>1. UNCHANGED <<msgs, service_queue, held>>
    BY <1>6 DEF NotifyOne
  <2>2. \A v \in Workers : /\ Owning(v) => Owning(v)'
                           /\ wpc[v] = "check" => wpc'[v] = "check"
    BY <1>6 DEF NotifyOne, Owning, TypeOK
  <2>3. \A u \in Threads : spc[u] = "push" /\ target[u] = r
                             => spc'[u] = "push" /\ target'[u] = r
    BY <1>6 DEF NotifyOne, TypeOK
  <2> QED
    BY <2>1, <2>2, <2>3, <1>1, AttendedFrame DEF Queued, Owns
<1>7. ASSUME NEW w \in Workers, PopMsg(w)
      PROVE  Attended(r)'
  <2>1. UNCHANGED <<service_queue, held, spc, target>> /\ (Queued(r) => Queued(r)')
    BY <1>7 DEF PopMsg, Queued
  <2>2. /\ wpc[w] = "take" /\ wpc'[w] \in {"process", "unset"}
        /\ \A v \in Workers : v # w => wpc'[v] = wpc[v]
    BY <1>7 DEF PopMsg, TypeOK
  <2>3. CASE held[w] = r
    BY <2>1, <2>2, <2>3 DEF Attended, Owns, Owning
  <2>4. CASE held[w] # r
    <3>1. msgs'[r] = msgs[r]
      BY <1>7, <2>4 DEF PopMsg, TypeOK
    <3> QED
      BY <3>1, <2>1, <2>2, <2>4, <1>1, AttendedFrame DEF Owns, Owning
  <2> QED
    BY <2>3, <2>4
<1>8. ASSUME NEW w \in Workers, EnterProcessMsg(w)
      PROVE  Attended(r)'
  <2>1. UNCHANGED <<msgs, service_queue, held>>
    BY <1>8 DEF EnterProcessMsg
  <2>2. \A v \in Workers : /\ Owning(v) => Owning(v)'
                           /\ wpc[v] = "check" => wpc'[v] = "check"
    BY <1>8 DEF EnterProcessMsg, Owning, TypeOK
  <2>3. \A u \in Threads : spc[u] = "push" /\ target[u] = r
                             => spc'[u] = "push" /\ target'[u] = r
    BY <1>8 DEF EnterProcessMsg, TypeOK
  <2> QED
    BY <2>1, <2>2, <2>3, <1>1, AttendedFrame DEF Queued, Owns
<1>9. ASSUME NEW w \in Workers, LeaveProcessMsg(w)
      PROVE  Attended(r)'
  <2>1. UNCHANGED <<msgs, service_queue, held>>
    BY <1>9 DEF LeaveProcessMsg
  <2>2. \A v \in Workers : /\ Owning(v) => Owning(v)'
                           /\ wpc[v] = "check" => wpc'[v] = "check"
    BY <1>9 DEF LeaveProcessMsg, Owning, TypeOK
  <2>3. \A u \in Threads : spc[u] = "push" /\ target[u] = r
                             => spc'[u] = "push" /\ target'[u] = r
    BY <1>9 DEF LeaveProcessMsg, TypeOK
  <2> QED
    BY <2>1, <2>2, <2>3, <1>1, AttendedFrame DEF Queued, Owns
<1>10. ASSUME NEW w \in Workers, CheckMsgs(w)
      PROVE  Attended(r)'
  <2>1. UNCHANGED <<msgs, service_queue, held>> /\ (Queued(r) => Queued(r)')
    BY <1>10 DEF CheckMsgs, Queued
  <2>2. /\ wpc[w] = "check" /\ wpc'[w] \in {"repush", "exited"} /\ spc[w] = "idle"
        /\ \A v \in Workers : v # w => wpc'[v] = wpc[v]
    BY <1>10 DEF CheckMsgs, TypeOK, ControlInv
  <2>3. CASE held[w] = r
    <3>1. spc'[w] = "push" /\ target'[w] = r
      BY <1>10, <2>1, <2>3 DEF CheckMsgs, TypeOK
    <3> QED
      BY <3>1 DEF Attended
  <2>4. CASE held[w] # r
    <3>1. \A u \in Threads : spc[u] = "push" /\ target[u] = r
                               => spc'[u] = "push" /\ target'[u] = r
      BY <1>10, <2>2 DEF CheckMsgs, TypeOK
    <3>2. \A v \in Workers : /\ Owns(v, r) => Owns(v, r)'
                             /\ wpc[v] = "check" /\ held[v] = r
                                  => wpc'[v] = "check" /\ held'[v] = r
      BY <2>1, <2>2, <2>4 DEF Owns, Owning
    <3> QED
      BY <3>1, <3>2, <2>1, <1>1, AttendedFrame
  <2> QED
    BY <2>3, <2>4
<1>11. ASSUME NEW w \in Workers, EndRepush(w)
       PROVE  Attended(r)'
  <2>1. UNCHANGED <<msgs, service_queue, spc, target>> /\ (Queued(r) => Queued(r)')
    BY <1>11 DEF EndRepush, Queued
  <2>2. /\ wpc[w] = "repush"
        /\ \A v \in Workers : v # w => wpc'[v] = wpc[v] /\ held'[v] = held[v]
    BY <1>11 DEF EndRepush, TypeOK
  <2> QED
    BY <2>1, <2>2, <1>1, AttendedFrame DEF Owns, Owning
<1>12. ASSUME NEW w \in Workers, CheckExited(w)
       PROVE  Attended(r)'
  <2>1. UNCHANGED <<msgs, service_queue, spc, target>> /\ (Queued(r) => Queued(r)')
    BY <1>12 DEF CheckExited, Queued
  <2>2. /\ wpc[w] = "exited"
        /\ \A v \in Workers : v # w => wpc'[v] = wpc[v] /\ held'[v] = held[v]
    BY <1>12 DEF CheckExited, TypeOK
  <2> QED
    BY <2>1, <2>2, <1>1, AttendedFrame DEF Owns, Owning
<1>13. ASSUME NEW w \in Workers, DeleteService(w)
       PROVE  Attended(r)'
  <2>1. UNCHANGED <<msgs, service_queue, spc, target>> /\ (Queued(r) => Queued(r)')
    BY <1>13 DEF DeleteService, Queued
  <2>2. /\ wpc[w] = "delete"
        /\ \A v \in Workers : v # w => wpc'[v] = wpc[v] /\ held'[v] = held[v]
    BY <1>13 DEF DeleteService, TypeOK
  <2> QED
    BY <2>1, <2>2, <1>1, AttendedFrame DEF Owns, Owning
<1>14. ASSUME NEW w \in Workers, SpuriousWakeup(w)
       PROVE  Attended(r)'
  <2>1. UNCHANGED <<msgs, service_queue, held>>
    BY <1>14 DEF SpuriousWakeup
  <2>2. \A v \in Workers : /\ Owning(v) => Owning(v)'
                           /\ wpc[v] = "check" => wpc'[v] = "check"
    BY <1>14 DEF SpuriousWakeup, Owning, TypeOK
  <2>3. \A u \in Threads : spc[u] = "push" /\ target[u] = r
                             => spc'[u] = "push" /\ target'[u] = r
    BY <1>14 DEF SpuriousWakeup, TypeOK
  <2> QED
    BY <2>1, <2>2, <2>3, <1>1, AttendedFrame DEF Queued, Owns
<1>15. CASE Stop
  <2>1. UNCHANGED <<msgs, service_queue, held>>
    BY <1>15 DEF Stop
  <2>2. \A v \in Workers : /\ Owning(v) => Owning(v)'
                           /\ wpc[v] = "check" => wpc'[v] = "check"
    BY <1>15 DEF Stop, Owning, TypeOK
  <2>3. \A u \in Threads : spc[u] = "push" /\ target[u] = r
                             => spc'[u] = "push" /\ target'[u] = r
    BY <1>15 DEF Stop, TypeOK
  <2> QED
    BY <2>1, <2>2, <2>3, <1>1, AttendedFrame DEF Queued, Owns
<1>16. CASE NotifyAll
  <2>1. UNCHANGED <<msgs, service_queue, held>>
    BY <1>16 DEF NotifyAll
  <2>2. \A v \in Workers : /\ Owning(v) => Owning(v)'
                           /\ wpc[v] = "check" => wpc'[v] = "check"
    BY <1>16 DEF NotifyAll, Owning, TypeOK
  <2>3. \A u \in Threads : spc[u] = "push" /\ target[u] = r
                             => spc'[u] = "push" /\ target'[u] = r
    BY <1>16 DEF NotifyAll, TypeOK
  <2> QED
    BY <2>1, <2>2, <2>3, <1>1, AttendedFrame DEF Queued, Owns
<1>17. ASSUME NEW s \in Services, NEW k \in {"stop", "exit"}, StopSend(s, k)
       PROVE  Attended(r)'
  <2>1. UNCHANGED <<service_queue, wpc, held>>
    BY <1>17 DEF StopSend
  <2>2. CASE PushMsg(Main, s, k)
    BY <2>1, <2>2, <1>1, PushMsgAttends
  <2>3. CASE UNCHANGED <<msgs, spc, target>>
    BY <2>1, <2>3, <1>1, AttendedFrame DEF Queued, Owns, Owning
  <2> QED
    BY <1>17, <2>2, <2>3 DEF StopSend
<1>18. CASE UNCHANGED vars
  <2>1. UNCHANGED <<msgs, service_queue, held>>
    BY <1>18 DEF vars
  <2>2. \A v \in Workers : /\ Owning(v) => Owning(v)'
                           /\ wpc[v] = "check" => wpc'[v] = "check"
    BY <1>18 DEF vars, Owning, TypeOK
  <2>3. \A u \in Threads : spc[u] = "push" /\ target[u] = r
                             => spc'[u] = "push" /\ target'[u] = r
    BY <1>18 DEF vars, TypeOK
  <2> QED
    BY <2>1, <2>2, <2>3, <1>1, AttendedFrame DEF Queued, Owns
<1> QED
  BY <1>2, <1>3, <1>4, <1>5, <1>6, <1>7, <1>8, <1>9, <1>10, <1>11,
     <1>12, <1>13, <1>14, <1>15, <1>16, <1>17, <1>18
  DEF Next, Sending, Working, Stopping

\* No step puts the last worker to sleep on a run queue nobody will announce.
LEMMA NotifyStep ==
  ASSUME TypeOK, ControlInv, NoMissedNotify, [Next]_vars
  PROVE  NoMissedNotify'
<1> USE SchedulerAssumption DEF TypeOK, ControlInv, Threads, Alive, mgrVars, NoMissedNotify
<1>1. ASSUME NEW t \in Threads, NEW s \in Services, NEW k \in Kinds, Send(t, s, k)
      PROVE  NoMissedNotify'
  BY <1>1 DEF Send, PushMsg
<1>2. ASSUME NEW t \in Threads, PushService(t)
      PROVE  NoMissedNotify'
  BY <1>2 DEF PushService, InQueueSeen
<1>3. ASSUME NEW t \in Threads, NotifyOne(t)
      PROVE  NoMissedNotify'
  BY <1>3 DEF NotifyOne
<1>4. ASSUME NEW w \in Workers, PopService(w)
      PROVE  NoMissedNotify'
  BY <1>4 DEF PopService
<1>5. ASSUME NEW w \in Workers, PopMsg(w)
      PROVE  NoMissedNotify'
  BY <1>5 DEF PopMsg
<1>6. ASSUME NEW w \in Workers, EnterProcessMsg(w)
      PROVE  NoMissedNotify'
  BY <1>6 DEF EnterProcessMsg
<1>7. ASSUME NEW w \in Workers, LeaveProcessMsg(w)
      PROVE  NoMissedNotify'
  BY <1>7 DEF LeaveProcessMsg
<1>8. ASSUME NEW w \in Workers, ClearInQueue(w)
      PROVE  NoMissedNotify'
  BY <1>8 DEF ClearInQueue
<1>9. ASSUME NEW w \in Workers, CheckMsgs(w)
      PROVE  NoMissedNotify'
  BY <1>9 DEF CheckMsgs
<1>10. ASSUME NEW w \in Workers, EndRepush(w)
      PROVE  NoMissedNotify'
  BY <1>10 DEF EndRepush
<1>11. ASSUME NEW w \in Workers, CheckExited(w)
      PROVE  NoMissedNotify'
  BY <1>11 DEF CheckExited
<1>12. ASSUME NEW w \in Workers, DeleteService(w)
      PROVE  NoMissedNotify'
  BY <1>12 DEF DeleteService
<1>13. ASSUME NEW w \in Workers, SpuriousWakeup(w)
      PROVE  NoMissedNotify'
  BY <1>13 DEF SpuriousWakeup
<1>14. CASE Stop
  BY <1>14 DEF Stop
<1>15. CASE NotifyAll
  BY <1>15 DEF NotifyAll
<1>16. ASSUME NEW s \in Services, NEW k \in {"stop", "exit"}, StopSend(s, k)
      PROVE  NoMissedNotify'
  BY <1>16 DEF StopSend, PushMsg
<1>17. CASE UNCHANGED vars
  BY <1>17 DEF vars
<1> QED
  BY <1>1, <1>2, <1>3, <1>4, <1>5, <1>6, <1>7, <1>8, <1>9, <1>10,
     <1>11, <1>12, <1>13, <1>14, <1>15, <1>16, <1>17
  DEF Next, Sending, Working, Stopping

\* No step puts a worker to sleep once Stop has notified them all.
LEMMA SleeperStep ==
  ASSUME TypeOK, ControlInv, NoSleeperAfterStop, [Next]_vars
  PROVE  NoSleeperAfterStop'
<1> USE SchedulerAssumption DEF TypeOK, ControlInv, Threads, Alive, mgrVars, NoSleeperAfterStop
<1>1. ASSUME NEW t \in Threads, NEW s \in Services, NEW k \in Kinds, Send(t, s, k)
      PROVE  NoSleeperAfterStop'
  BY <1>1 DEF Send, PushMsg
<1>2. ASSUME NEW t \in Threads, PushService(t)
      PROVE  NoSleeperAfterStop'
  BY <1>2 DEF PushService, InQueueSeen
<1>3. ASSUME NEW t \in Threads, NotifyOne(t)
      PROVE  NoSleeperAfterStop'
  BY <1>3 DEF NotifyOne
<1>4. ASSUME NEW w \in Workers, PopService(w)
      PROVE  NoSleeperAfterStop'
  BY <1>4 DEF PopService
<1>5. ASSUME NEW w \in Workers, PopMsg(w)
      PROVE  NoSleeperAfterStop'
  BY <1>5 DEF PopMsg
<1>6. ASSUME NEW w \in Workers, EnterProcessMsg(w)
      PROVE  NoSleeperAfterStop'
  BY <1>6 DEF EnterProcessMsg
<1>7. ASSUME NEW w \in Workers, LeaveProcessMsg(w)
      PROVE  NoSleeperAfterStop'
  BY <1>7 DEF LeaveProcessMsg
<1>8. ASSUME NEW w \in Workers, ClearInQueue(w)
      PROVE  NoSleeperAfterStop'
  BY <1>8 DEF ClearInQueue
<1>9. ASSUME NEW w \in Workers, CheckMsgs(w)
      PROVE  NoSleeperAfterStop'
  BY <1>9 DEF CheckMsgs
<1>10. ASSUME NEW w \in Workers, EndRepush(w)
      PROVE  NoSleeperAfterStop'
  BY <1>10 DEF EndRepush
<1>11. ASSUME NEW w \in Workers, CheckExited(w)
      PROVE  NoSleeperAfterStop'
  BY <1>11 DEF CheckExited
<1>12. ASSUME NEW w \in Workers, DeleteService(w)
      PROVE  NoSleeperAfterStop'
  BY <1>12 DEF DeleteService
<1>13. ASSUME NEW w \in Workers, SpuriousWakeup(w)
      PROVE  NoSleeperAfterStop'
  BY <1>13 DEF SpuriousWakeup
<1>14. CASE Stop
  BY <1>14 DEF Stop
<1>15. CASE NotifyAll
  BY <1>15 DEF NotifyAll
<1>16. ASSUME NEW s \in Services, NEW k \in {"stop", "exit"}, StopSend(s, k)
      PROVE  NoSleeperAfterStop'
  BY <1>16 DEF StopSend, PushMsg
<1>17. CASE UNCHANGED vars
  BY <1>17 DEF vars
<1> QED
  BY <1>1, <1>2, <1>3, <1>4, <1>5, <1>6, <1>7, <1>8, <1>9, <1>10,
     <1>11, <1>12, <1>13, <1>14, <1>15, <1>16, <1>17
  DEF Next, Sending, Working, Stopping

(***************************************************************************)
(* The inductive invariant, and what follows from it.                      *)
(***************************************************************************)

\* IInv is an invariant of the specification.
THEOREM Inductive == Spec => []IInv
<1>1. IInv /\ [Next]_vars => IInv'
  BY TypeStep, ControlStep, QueueStep, WakeupStep, NotifyStep, SleeperStep DEF IInv
<1> QED
  BY InitIInv, <1>1, PTL DEF Spec

\* Type correctness: every variable keeps its type.
THEOREM TypeCorrect == Spec => []TypeOK
<1>1. IInv => TypeOK
  BY DEF IInv
<1> QED
  BY Inductive, <1>1, PTL

\* No service is ever in the hands of two workers (PushService, Worker::Start).
THEOREM MutualExclusionHolds == Spec => []MutualExclusion
<1>1. IInv => MutualExclusion
  BY DEF IInv
<1> QED
  BY Inductive, <1>1, PTL

\* A service with messages in its mailbox is never forgotten, in spite of the
\* racy read of in_queue_ in PushService.
THEOREM NoLostWakeupHolds == Spec => []NoLostWakeup
<1>1. IInv => NoLostWakeup
  BY DEF IInv
<1> QED
  BY Inductive, <1>1, PTL

\* The workers never all sleep on a run queue that nobody is going to announce:
\* PushService notifies one worker after it released the mutex.
THEOREM NotificationsSuffice == Spec => []NoMissedNotify
<1>1. IInv => NoMissedNotify
  BY DEF IInv
<1> QED
  BY Inductive, <1>1, PTL

\* No worker sleeps after Stop has notified all of them.
THEOREM NoSleeperAfterStopHolds == Spec => []NoSleeperAfterStop
<1>1. IInv => NoSleeperAfterStop
  BY DEF IInv
<1> QED
  BY Inductive, <1>1, PTL

(***************************************************************************)
(* Refinement: the scheduler implements Actor.                             *)
(***************************************************************************)

\* The abstract variable handling, read off the worker that processes s.
LEMMA HandlingNow ==
  ASSUME MutualExclusion, NEW s \in Services
  PROVE  /\ \A w \in Workers : Processing(w, s) => Handling[s] = <<cur[w]>>
         /\ (\A w \in Workers : ~Processing(w, s)) => Handling[s] = << >>
<1>1. ASSUME NEW w \in Workers, Processing(w, s)
      PROVE  Handling[s] = <<cur[w]>>
  <2>1. \A v \in Workers : Processing(v, s) => v = w
    BY <1>1 DEF MutualExclusion, Owning, Processing
  <2>2. (CHOOSE v \in Workers : Processing(v, s)) = w
    BY <1>1, <2>1
  <2> QED
    BY <1>1, <2>2 DEF Handling
<1> QED
  BY <1>1 DEF Handling

\* The same in the next state.
LEMMA HandlingNext ==
  ASSUME MutualExclusion', NEW s \in Services
  PROVE  /\ \A w \in Workers : Processing(w, s)' => Handling'[s] = <<cur'[w]>>
         /\ (\A w \in Workers : ~Processing(w, s)') => Handling'[s] = << >>
<1>1. ASSUME NEW w \in Workers, Processing(w, s)'
      PROVE  Handling'[s] = <<cur'[w]>>
  <2>1. \A v \in Workers : Processing(v, s)' => v = w
    BY <1>1 DEF MutualExclusion, Owning, Processing
  <2>2. (CHOOSE v \in Workers : Processing(v, s)') = w
    BY <1>1, <2>1
  <2> QED
    BY <1>1, <2>2 DEF Handling
<1> QED
  BY <1>1 DEF Handling

\* A step that changes neither who processes what nor the message processed
\* leaves the abstract variable handling alone.
LEMMA HandlingFrame ==
  ASSUME MutualExclusion, MutualExclusion',
         \A w \in Workers, s \in Services :
           /\ Processing(w, s)' <=> Processing(w, s)
           /\ Processing(w, s) => cur'[w] = cur[w]
  PROVE  Handling' = Handling
<1>1. ASSUME NEW s \in Services
      PROVE  Handling'[s] = Handling[s]
  <2>1. CASE \E w \in Workers : Processing(w, s)
    BY <2>1, HandlingNow, HandlingNext
  <2>2. CASE \A w \in Workers : ~Processing(w, s)
    BY <2>2, HandlingNow, HandlingNext
  <2> QED
    BY <2>1, <2>2
<1> QED
  BY <1>1 DEF Handling

\* Taking a message is the abstract Begin.
LEMMA PopMsgBegins ==
  ASSUME IInv, IInv', NEW w \in Workers, PopMsg(w)
  PROVE  ActorView!Begin(held[w]) \/ UNCHANGED ActorView!vars
<1> USE SchedulerAssumption
<1>1. PICK s \in Services : s = held[w]
  BY DEF IInv, ControlInv, PopMsg
<1>2. s \in Services /\ MutualExclusion /\ MutualExclusion' /\ TypeOK /\ TypeOK'
  BY DEF IInv
<1>3. CASE stage[s] # "Exited" /\ msgs[s] # << >>
  <2>1. /\ cur' = [cur EXCEPT ![w] = Head(msgs[s])]
        /\ msgs' = [msgs EXCEPT ![s] = Tail(@)]
        /\ wpc' = [wpc EXCEPT ![w] = "process"]
        /\ held' = held /\ wpc[w] = "take"
    BY <1>1, <1>3 DEF PopMsg
  <2>2. \A v \in Workers : ~Processing(v, s)
    BY <2>1, <1>1, <1>2 DEF MutualExclusion, Owning, Processing
  <2>3. Handling[s] = << >>
    BY <2>2, <1>2, HandlingNow
  <2>4. Handling'[s] = <<Head(msgs[s])>>
    <3>1. Processing(w, s)' /\ cur'[w] = Head(msgs[s])
      BY <2>1, <1>1, <1>2 DEF Processing, TypeOK
    <3>2. Handling'[s] = <<cur'[w]>>
      BY <3>1, <1>2, HandlingNext
    <3> QED
      BY <3>1, <3>2
  <2>5. ASSUME NEW r \in Services, r # s
        PROVE  Handling'[r] = Handling[r]
    <3>1. \A v \in Workers : /\ Processing(v, r)' <=> Processing(v, r)
                             /\ Processing(v, r) => cur'[v] = cur[v]
      BY <2>1, <2>5, <1>1, <1>2 DEF Processing, TypeOK
    <3>2. CASE \E v \in Workers : Processing(v, r)
      BY <3>1, <3>2, <1>2, HandlingNow, HandlingNext
    <3>3. CASE \A v \in Workers : ~Processing(v, r)
      BY <3>1, <3>3, <1>2, HandlingNow, HandlingNext
    <3> QED
      BY <3>2, <3>3
  <2>6. Handling' = [Handling EXCEPT ![s] = <<Head(msgs[s])>>]
    BY <2>4, <2>5, <1>2 DEF Handling
  <2> QED
    BY <1>1, <1>3, <2>1, <2>3, <2>6 DEF ActorView!Begin
<1>4. CASE stage[s] = "Exited" \/ msgs[s] = << >>
  <2>1. \A v \in Workers, r \in Services : /\ Processing(v, r)' <=> Processing(v, r)
                                           /\ Processing(v, r) => cur'[v] = cur[v]
    BY <1>1, <1>4, <1>2 DEF PopMsg, Processing, TypeOK
  <2>2. UNCHANGED msgs /\ Handling' = Handling
    BY <1>1, <1>4, <2>1, <1>2, HandlingFrame DEF PopMsg
  <2> QED
    BY <2>2 DEF ActorView!vars
<1> QED
  BY <1>3, <1>4

\* A worker that goes from ProcessMsg to set_in_queue(false) makes the
\* abstract Finish.
LEMMA UnsetFinishes ==
  ASSUME IInv, IInv', NEW w \in Workers,
         wpc[w] \in {"process", "handler"}, wpc' = [wpc EXCEPT ![w] = "unset"],
         cur' = [cur EXCEPT ![w] = "none"], UNCHANGED <<msgs, held>>
  PROVE  ActorView!Finish(held[w])
<1> DEFINE s == held[w]
<1>1. s \in Services /\ MutualExclusion /\ MutualExclusion' /\ TypeOK
  BY DEF IInv, ControlInv
<1>2. Processing(w, s)
  BY DEF Processing
<1>3. \A v \in Workers : ~Processing(v, s)'
  BY <1>1, <1>2 DEF MutualExclusion, Owning, Processing, TypeOK
<1>4. Handling[s] = <<cur[w]>> /\ Handling'[s] = << >>
  BY <1>1, <1>2, <1>3, HandlingNow, HandlingNext
<1>5. ASSUME NEW r \in Services, r # s
      PROVE  Handling'[r] = Handling[r]
  <2>1. \A v \in Workers : /\ Processing(v, r)' <=> Processing(v, r)
                           /\ Processing(v, r) => cur'[v] = cur[v]
    BY <1>1, <1>5 DEF Processing, TypeOK
  <2>2. CASE \E v \in Workers : Processing(v, r)
    BY <2>1, <2>2, <1>1, HandlingNow, HandlingNext
  <2>3. CASE \A v \in Workers : ~Processing(v, r)
    BY <2>1, <2>3, <1>1, HandlingNow, HandlingNext
  <2> QED
    BY <2>2, <2>3
<1>6. Handling' = [Handling EXCEPT ![s] = << >>]
  <2> DEFINE G == [r \in Services |-> Handling'[r]]
  <2>1. Handling' = G /\ DOMAIN Handling = Services
    BY DEF Handling
  <2>2. \A r \in Services : G[r] = IF r = s THEN << >> ELSE Handling[r]
    BY <1>4, <1>5
  <2> HIDE DEF G
  <2>3. G = [Handling EXCEPT ![s] = << >>]
    BY <1>1, <2>1, <2>2 DEF Handling
  <2> QED
    BY <2>1, <2>3
<1>7. Handling[s] # << >>
  BY <1>4
<1> QED
  BY <1>6, <1>7 DEF ActorView!Finish

\* Steps that neither change a mailbox nor who processes what are stuttering
\* steps of the actors.
LEMMA QuietStep ==
  ASSUME IInv, IInv', UNCHANGED <<msgs, cur>>,
         \A w \in Workers, s \in Services : Processing(w, s)' <=> Processing(w, s)
  PROVE  UNCHANGED ActorView!vars
BY HandlingFrame DEF IInv, ActorView!vars

\* Every step of the scheduler is a step of one actor, or a stuttering step.
LEMMA ActorStep ==
  ASSUME IInv, IInv', [Next]_vars
  PROVE  [ActorView!Next]_(ActorView!vars)
<1> USE SchedulerAssumption DEF Alive, mgrVars
<1>1. TypeOK /\ ControlInv
  BY DEF IInv
<1>2. ASSUME NEW t \in Threads, NEW s \in Services, NEW k \in Kinds, Send(t, s, k)
      PROVE  ActorView!Next
  <2>1. Handling' = Handling
    BY <1>2, HandlingFrame DEF IInv, Send, Processing
  <2> QED
    BY <1>2, <2>1 DEF Send, PushMsg, ActorView!Next, ActorView!Post
<1>3. ASSUME NEW s \in Services, NEW k \in {"stop", "exit"}, StopSend(s, k)
      PROVE  ActorView!Next \/ UNCHANGED ActorView!vars
  <2>1. Handling' = Handling
    BY <1>3, HandlingFrame DEF IInv, StopSend, Processing
  <2>2. CASE PushMsg(Main, s, k)
    BY <2>1, <2>2 DEF PushMsg, ActorView!Next, ActorView!Post, Kinds
  <2>3. CASE UNCHANGED <<msgs, spc, target>>
    BY <2>1, <2>3 DEF ActorView!vars
  <2> QED
    BY <1>3, <2>2, <2>3 DEF StopSend
<1>4. ASSUME NEW w \in Workers, PopMsg(w)
      PROVE  ActorView!Next \/ UNCHANGED ActorView!vars
  <2>1. held[w] \in Services
    BY <1>1, <1>4 DEF PopMsg, ControlInv
  <2> QED
    BY <1>4, <2>1, PopMsgBegins DEF ActorView!Next
<1>5. ASSUME NEW w \in Workers, EnterProcessMsg(w)
      PROVE  ActorView!Next \/ UNCHANGED ActorView!vars
  <2>1. held[w] \in Services
    BY <1>1, <1>5 DEF EnterProcessMsg, ControlInv
  <2>2. CASE ~Allowed(stage[held[w]], cur[w])
    <3>1. ActorView!Finish(held[w])
      BY <1>5, <2>2, UnsetFinishes DEF EnterProcessMsg
    <3> QED
      BY <2>1, <3>1 DEF ActorView!Next
  <2>3. CASE Allowed(stage[held[w]], cur[w])
    <3>1. UNCHANGED <<msgs, cur>>
      BY <1>5, <2>3 DEF EnterProcessMsg
    <3>2. \A v \in Workers, r \in Services : Processing(v, r)' <=> Processing(v, r)
      BY <1>1, <1>5, <2>3 DEF EnterProcessMsg, Processing, TypeOK
    <3> QED
      BY <3>1, <3>2, QuietStep
  <2> QED
    BY <2>2, <2>3
<1>6. ASSUME NEW w \in Workers, LeaveProcessMsg(w)
      PROVE  ActorView!Next
  <2>1. held[w] \in Services
    BY <1>1, <1>6 DEF LeaveProcessMsg, ControlInv
  <2>2. ActorView!Finish(held[w])
    BY <1>6, UnsetFinishes DEF LeaveProcessMsg
  <2> QED
    BY <2>1, <2>2 DEF ActorView!Next
<1>7. ASSUME NEW t \in Threads, PushService(t)
      PROVE  UNCHANGED ActorView!vars
  <2>1. UNCHANGED <<msgs, cur>>
    BY <1>7 DEF PushService
  <2>2. \A v \in Workers, r \in Services : Processing(v, r)' <=> Processing(v, r)
    BY <1>1, <1>7 DEF PushService, Processing, TypeOK
  <2> QED
    BY <2>1, <2>2, QuietStep
<1>8. ASSUME NEW t \in Threads, NotifyOne(t)
      PROVE  UNCHANGED ActorView!vars
  <2>1. UNCHANGED <<msgs, cur>>
    BY <1>8 DEF NotifyOne
  <2>2. \A v \in Workers, r \in Services : Processing(v, r)' <=> Processing(v, r)
    BY <1>1, <1>8 DEF NotifyOne, Processing, TypeOK
  <2> QED
    BY <2>1, <2>2, QuietStep
<1>9. ASSUME NEW w \in Workers, PopService(w)
      PROVE  UNCHANGED ActorView!vars
  <2>1. UNCHANGED <<msgs, cur>>
    BY <1>9 DEF PopService
  <2>2. \A v \in Workers, r \in Services : Processing(v, r)' <=> Processing(v, r)
    BY <1>1, <1>9 DEF PopService, Processing, TypeOK
  <2> QED
    BY <2>1, <2>2, QuietStep
<1>10. ASSUME NEW w \in Workers, ClearInQueue(w)
      PROVE  UNCHANGED ActorView!vars
  <2>1. UNCHANGED <<msgs, cur>>
    BY <1>10 DEF ClearInQueue
  <2>2. \A v \in Workers, r \in Services : Processing(v, r)' <=> Processing(v, r)
    BY <1>1, <1>10 DEF ClearInQueue, Processing, TypeOK
  <2> QED
    BY <2>1, <2>2, QuietStep
<1>11. ASSUME NEW w \in Workers, CheckMsgs(w)
      PROVE  UNCHANGED ActorView!vars
  <2>1. UNCHANGED <<msgs, cur>>
    BY <1>11 DEF CheckMsgs
  <2>2. \A v \in Workers, r \in Services : Processing(v, r)' <=> Processing(v, r)
    BY <1>1, <1>11 DEF CheckMsgs, Processing, TypeOK
  <2> QED
    BY <2>1, <2>2, QuietStep
<1>12. ASSUME NEW w \in Workers, EndRepush(w)
      PROVE  UNCHANGED ActorView!vars
  <2>1. UNCHANGED <<msgs, cur>>
    BY <1>12 DEF EndRepush
  <2>2. \A v \in Workers, r \in Services : Processing(v, r)' <=> Processing(v, r)
    BY <1>1, <1>12 DEF EndRepush, Processing, TypeOK
  <2> QED
    BY <2>1, <2>2, QuietStep
<1>13. ASSUME NEW w \in Workers, CheckExited(w)
      PROVE  UNCHANGED ActorView!vars
  <2>1. UNCHANGED <<msgs, cur>>
    BY <1>13 DEF CheckExited
  <2>2. \A v \in Workers, r \in Services : Processing(v, r)' <=> Processing(v, r)
    BY <1>1, <1>13 DEF CheckExited, Processing, TypeOK
  <2> QED
    BY <2>1, <2>2, QuietStep
<1>14. ASSUME NEW w \in Workers, DeleteService(w)
      PROVE  UNCHANGED ActorView!vars
  <2>1. UNCHANGED <<msgs, cur>>
    BY <1>14 DEF DeleteService
  <2>2. \A v \in Workers, r \in Services : Processing(v, r)' <=> Processing(v, r)
    BY <1>1, <1>14 DEF DeleteService, Processing, TypeOK
  <2> QED
    BY <2>1, <2>2, QuietStep
<1>15. ASSUME NEW w \in Workers, SpuriousWakeup(w)
      PROVE  UNCHANGED ActorView!vars
  <2>1. UNCHANGED <<msgs, cur>>
    BY <1>15 DEF SpuriousWakeup
  <2>2. \A v \in Workers, r \in Services : Processing(v, r)' <=> Processing(v, r)
    BY <1>1, <1>15 DEF SpuriousWakeup, Processing, TypeOK
  <2> QED
    BY <2>1, <2>2, QuietStep
<1>16. CASE Stop
  <2>1. UNCHANGED <<msgs, cur>>
    BY <1>16 DEF Stop
  <2>2. \A v \in Workers, r \in Services : Processing(v, r)' <=> Processing(v, r)
    BY <1>1, <1>16 DEF Stop, Processing, TypeOK
  <2> QED
    BY <2>1, <2>2, QuietStep
<1>17. CASE NotifyAll
  <2>1. UNCHANGED <<msgs, cur>>
    BY <1>17 DEF NotifyAll
  <2>2. \A v \in Workers, r \in Services : Processing(v, r)' <=> Processing(v, r)
    BY <1>1, <1>17 DEF NotifyAll, Processing, TypeOK
  <2> QED
    BY <2>1, <2>2, QuietStep
<1>18. CASE UNCHANGED vars
  <2>1. UNCHANGED <<msgs, cur>>
    BY <1>18 DEF vars
  <2>2. \A v \in Workers, r \in Services : Processing(v, r)' <=> Processing(v, r)
    BY <1>1, <1>18 DEF vars, Processing, TypeOK
  <2> QED
    BY <2>1, <2>2, QuietStep
<1> QED
  BY <1>2, <1>3, <1>4, <1>5, <1>6, <1>7, <1>8, <1>9, <1>10, <1>11,
     <1>12, <1>13, <1>14, <1>15, <1>16, <1>17, <1>18
  DEF Next, Sending, Working, Stopping

\* The workers, the run queue and the mailboxes together implement the actor
\* abstraction: one message at a time, each once, in mailbox order.
THEOREM ImplementsActor == Spec => ActorSpec
<1>1. Init => ActorView!Init
  <2> SUFFICES ASSUME Init PROVE ActorView!Init
    OBVIOUS
  <2>1. \A s \in Services, w \in Workers : ~Processing(w, s)
    BY DEF Init, Processing
  <2> QED
    BY <2>1 DEF Init, ActorView!Init, Handling
<1>2. IInv /\ IInv' /\ [Next]_vars => [ActorView!Next]_(ActorView!vars)
  BY ActorStep
<1> QED
  BY <1>1, <1>2, Inductive, PTL DEF Spec, ActorSpec, ActorView!Spec
=============================================================================

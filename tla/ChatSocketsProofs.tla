-------------------------- MODULE ChatSocketsProofs --------------------------
(***************************************************************************)
(* Proofs about ChatSockets for every number of processes, rooms, users    *)
(* and sockets, and every value of the bounds: a socket in use is always   *)
(* listened for, and nobody is shown online without an endpoint.           *)
(***************************************************************************)
EXTENDS ChatSockets, TLAPS

(***************************************************************************)
(* Tasks and topics.                                                       *)
(***************************************************************************)

\* The topics of a socket are topics, and it may start a task for each.
LEMMA TopicsAreTopics ==
  ASSUME NEW s \in Socket
  PROVE  /\ Topics(s) \subseteq Topic /\ RoomOf[s] \in Topic /\ UserOf[s] \in User
         /\ ProcOf[s] \in Process
         /\ \A t \in Topics(s) : <<s, t>> \in Listener
  BY ChatAssumption DEF Topics, Topic, Listener

\* Who started a task, and for which topic.
LEMMA ListenerParts ==
  ASSUME NEW k \in Listener
  PROVE  /\ k[1] \in Socket /\ k[2] \in Topic /\ k[2] \in Topics(k[1])
         /\ k = <<k[1], k[2]>> /\ ProcOf[k[1]] \in Process
  BY ChatAssumption DEF Listener

LEMMA NoTaskIsTask ==
  /\ NoTask \in Task /\ NoTask.state = "none" /\ NoTask.dead = {} /\ NoTask.todo = {}
  /\ [NoTask EXCEPT !.state = "starting"] \in Task
  /\ [NoTask EXCEPT !.state = "ending"] \in Task
  <1>1. <<>> \in Seq(Nat)
    OBVIOUS
  <1> QED
    BY <1>1 DEF NoTask, Task

LEMMA InitIndInv == Init => IndInv
  <1> SUFFICES ASSUME Init PROVE IndInv
    OBVIOUS
  <1> USE ChatAssumption, NoTaskIsTask
  <1>1. TypeOK
    BY DEF Init, TypeOK, PC
  <1>2. MembersOK /\ RegistryOK /\ DeadOK
    BY DEF Init, MembersOK, RegistryOK, DeadOK
  <1>3. TasksOK
    BY DEF Init, TasksOK
  <1>4. OpenIsServed /\ OnlineHasEndpoint
    BY DEF Init, OpenIsServed, OnlineHasEndpoint
  <1> QED
    BY <1>1, <1>2, <1>3, <1>4 DEF IndInv

(***************************************************************************)
(* Types.                                                                  *)
(***************************************************************************)

\* What Register does to the lists.
LEMMA RegisterLists ==
  ASSUME TypeOK, NEW s \in Socket, Register(s)
  PROVE  /\ members' \in [Process -> [Topic -> SUBSET Socket]]
         /\ \A p \in Process, t \in Topic, v \in Socket :
              v \in members'[p][t] <=>
                v \in members[p][t] \/ (v = s /\ p = ProcOf[s] /\ t \in Topics(s))
  <1> DEFINE ms == members[ProcOf[s]]
             new == [ms EXCEPT ![RoomOf[s]] = @ \cup {s}, ![UserOf[s]] = @ \cup {s}]
  <1>1. ProcOf[s] \in Process /\ RoomOf[s] \in Topic /\ UserOf[s] \in Topic
    BY TopicsAreTopics DEF Topic
  <1>2. ms \in [Topic -> SUBSET Socket]
    BY <1>1 DEF TypeOK
  <1>3. /\ new \in [Topic -> SUBSET Socket]
        /\ \A t \in Topic : new[t] = IF t \in Topics(s) THEN ms[t] \cup {s} ELSE ms[t]
    BY <1>1, <1>2 DEF Topics
  <1>4. members' = [members EXCEPT ![ProcOf[s]] = new]
    BY <1>1 DEF Register, TypeOK
  <1> HIDE DEF new
  <1> QED
    BY <1>1, <1>3, <1>4 DEF TypeOK

\* What Subscribe does to the tasks.
LEMMA StartTasks ==
  ASSUME TypeOK, NEW s \in Socket, NEW topics \in SUBSET Topics(s), Start(s, topics)
  PROVE  /\ tasks' \in [Process -> [Topic -> Socket \cup {NoSocket}]]
         /\ listener' \in [Listener -> Task]
         /\ \A p \in Process, t \in Topic :
              tasks'[p][t] = IF p = ProcOf[s] /\ t \in topics THEN s ELSE tasks[p][t]
         /\ \A k \in Listener :
              listener'[k] = IF k[1] = s /\ k[2] \in topics
                               THEN [NoTask EXCEPT !.state = "starting"] ELSE listener[k]
  <1> DEFINE new == [t \in Topic |-> IF t \in topics THEN s ELSE tasks[ProcOf[s]][t]]
  <1>1. new \in [Topic -> Socket \cup {NoSocket}]
    BY TopicsAreTopics DEF TypeOK
  <1>2. tasks' = [tasks EXCEPT ![ProcOf[s]] = new]
    BY TopicsAreTopics DEF Start, TypeOK
  <1>3. /\ listener' \in [Listener -> Task]
        /\ \A k \in Listener :
             listener'[k] = IF k[1] = s /\ k[2] \in topics
                              THEN [NoTask EXCEPT !.state = "starting"] ELSE listener[k]
    BY NoTaskIsTask DEF Start, TypeOK
  <1>4. \A p \in Process, t \in Topic :
          tasks'[p][t] = IF p = ProcOf[s] /\ t \in topics THEN s ELSE tasks[p][t]
    BY <1>2, TopicsAreTopics DEF TypeOK
  <1> HIDE DEF new
  <1> QED
    BY <1>1, <1>2, <1>3, <1>4, TopicsAreTopics DEF TypeOK

\* What Disconnect does to the registry.
LEMMA DisconnectRegistry ==
  ASSUME TypeOK, NEW s \in Socket, Disconnect(s), s \in known
  PROVE  /\ members' \in [Process -> [Topic -> SUBSET Socket]]
         /\ tasks' \in [Process -> [Topic -> Socket \cup {NoSocket}]]
         /\ listener' \in [Listener -> Task]
         /\ \A p \in Process, t \in Topic :
              /\ \A v \in Socket : v \in members'[p][t] <=>
                                     v \in members[p][t] /\ ~(v = s /\ p = ProcOf[s])
              /\ tasks'[p][t] = IF p = ProcOf[s] /\ t \in Cancelled(s)
                                  THEN NoSocket ELSE tasks[p][t]
         /\ \A k \in Listener :
              listener'[k] = IF k[2] \in Cancelled(s) /\ ProcOf[k[1]] = ProcOf[s] /\ Current(k)
                               THEN NoTask ELSE listener[k]
  <1> DEFINE ms == [t \in Topic |-> members[ProcOf[s]][t] \ {s}]
             ts == [t \in Topic |-> IF t \in Cancelled(s) THEN NoSocket ELSE tasks[ProcOf[s]][t]]
  <1>1. ProcOf[s] \in Process
    BY TopicsAreTopics
  <1>2. /\ members' = [members EXCEPT ![ProcOf[s]] = ms]
        /\ tasks' = [tasks EXCEPT ![ProcOf[s]] = ts]
    BY <1>1 DEF Disconnect, Without, TypeOK
  <1>3. ms \in [Topic -> SUBSET Socket] /\ ts \in [Topic -> Socket \cup {NoSocket}]
    BY <1>1 DEF TypeOK
  <1>4. /\ listener' \in [Listener -> Task]
        /\ \A k \in Listener :
             listener'[k] = IF k[2] \in Cancelled(s) /\ ProcOf[k[1]] = ProcOf[s] /\ Current(k)
                              THEN NoTask ELSE listener[k]
    BY NoTaskIsTask DEF Disconnect, TypeOK
  <1>5. \A p \in Process, t \in Topic :
          /\ \A v \in Socket : v \in members'[p][t] <=>
                                 v \in members[p][t] /\ ~(v = s /\ p = ProcOf[s])
          /\ tasks'[p][t] = IF p = ProcOf[s] /\ t \in Cancelled(s)
                              THEN NoSocket ELSE tasks[p][t]
    BY <1>1, <1>2 DEF TypeOK
  <1> HIDE DEF ms, ts
  <1> QED
    BY <1>1, <1>2, <1>3, <1>4, <1>5 DEF TypeOK

\* A task that is done leaves the manager's map, if it is there.
LEMMA DropTasks ==
  ASSUME TypeOK, NEW k \in Listener, Drop(k)
  PROVE  /\ tasks' \in [Process -> [Topic -> Socket \cup {NoSocket}]]
         /\ \A p \in Process, t \in Topic :
              tasks'[p][t] = IF p = ProcOf[k[1]] /\ t = k[2] /\ Current(k)
                               THEN NoSocket ELSE tasks[p][t]
  <1> DEFINE new == [tasks[ProcOf[k[1]]] EXCEPT ![k[2]] = NoSocket]
  <1>1. new \in [Topic -> Socket \cup {NoSocket}]
    BY ListenerParts DEF TypeOK
  <1>2. Current(k) => tasks' = [tasks EXCEPT ![ProcOf[k[1]]] = new]
    BY ListenerParts DEF Drop, TypeOK
  <1> QED
    BY <1>1, <1>2, ListenerParts DEF Drop, TypeOK

\* What Prune does to the lists.
LEMMA PruneLists ==
  ASSUME TypeOK, NEW k \in Listener, Prune(k)
  PROVE  /\ members' \in [Process -> [Topic -> SUBSET Socket]]
         /\ \A p \in Process, t \in Topic :
              \A v \in Socket :
                v \in members'[p][t] <=>
                  /\ v \in members[p][t]
                  /\ ~(p = ProcOf[k[1]] /\ t = k[2] /\ v \in listener[k].dead)
  <1> DEFINE ms == members[ProcOf[k[1]]]
             new == [ms EXCEPT ![k[2]] = @ \ listener[k].dead]
  <1>1. ms \in [Topic -> SUBSET Socket] /\ new \in [Topic -> SUBSET Socket]
    BY ListenerParts DEF TypeOK
  <1>2. members' = [members EXCEPT ![ProcOf[k[1]]] = new]
    BY ListenerParts DEF Prune, TypeOK
  <1> QED
    BY <1>1, <1>2, ListenerParts DEF TypeOK

LEMMA TypeEndpoint ==
  ASSUME TypeOK, NEW s \in Socket, Endpoint(s) \/ Leave(s)
  PROVE  TypeOK'
  <1> USE DEF registry, Goto
  <1>1. CASE Register(s)
    BY <1>1, RegisterLists DEF Register, TypeOK, PC
  <1>2. CASE MarkOnline(s)
    <2>1. online' \subseteq User /\ faults' \in 0 .. MaxFault
      <3>1. online' \subseteq online \cup {UserOf[s]} /\ (faults' = faults \/ Fault)
        BY <1>2 DEF MarkOnline
      <3> QED
        BY <3>1, ChatAssumption DEF TypeOK, Fault
    <2>2. pc' \in [Socket -> PC]
      BY <1>2 DEF MarkOnline, TypeOK, PC
    <2> QED
      BY <1>2, <2>1, <2>2 DEF MarkOnline, TypeOK
  <1>3. CASE Confirm(s) \/ Ping(s) \/ Quit(s)
    BY <1>3, ChatAssumption DEF Confirm, Ping, Quit, TypeOK, PC
  <1>4. CASE Subscribe(s)
    BY <1>4, StartTasks DEF Subscribe, TypeOK, PC
  <1>5. CASE Disconnect(s)
    <2>1. pc' \in [Socket -> PC]
      BY <1>5 DEF Disconnect, TypeOK, PC
    <2>2. CASE s \in known
      <3>1. /\ members' \in [Process -> [Topic -> SUBSET Socket]]
            /\ tasks' \in [Process -> [Topic -> Socket \cup {NoSocket}]]
            /\ listener' \in [Listener -> Task]
        BY <1>5, <2>2, DisconnectRegistry
      <3>2. known' \subseteq Socket /\ UNCHANGED <<alive, online, published, heard, faults>>
        BY <1>5, <2>2 DEF Disconnect, TypeOK
      <3> QED
        BY <2>1, <3>1, <3>2 DEF TypeOK
    <2>3. CASE s \notin known
      BY <1>5, <2>1, <2>3 DEF Disconnect, TypeOK
    <2> QED
      BY <2>2, <2>3
  <1>6. CASE DropKey(s) \/ GoOffline(s)
    <2>0. faults' = faults \/ Fault
      BY <1>6 DEF DropKey, GoOffline
    <2>1. online' \subseteq online /\ faults' \in 0 .. MaxFault
      <3>1. online' \subseteq online
        BY <1>6 DEF DropKey, GoOffline
      <3> QED
        BY <2>0, <3>1, ChatAssumption DEF TypeOK, Fault
    <2>2. pc' \in [Socket -> PC] /\ alive' \in [Socket -> BOOLEAN]
      BY <1>6 DEF DropKey, GoOffline, TypeOK, PC
    <2> QED
      BY <1>6, <2>1, <2>2 DEF DropKey, GoOffline, TypeOK
  <1>7. CASE Leave(s)
    BY <1>7 DEF Leave, TypeOK
  <1> QED
    BY <1>1, <1>2, <1>3, <1>4, <1>5, <1>6, <1>7 DEF Endpoint

LEMMA TypeDelivery ==
  ASSUME TypeOK, NEW k \in Listener, Deliver(k) \/ SubscribeFails(k) \/ ListenFails(k)
  PROVE  TypeOK'
  <1> USE DEF registry, Set
  <1>0. listener[k] \in Task /\ ProcOf[k[1]] \in Process
    BY ListenerParts DEF TypeOK
  <1>1. CASE Listen(k)
    BY <1>0, <1>1 DEF Listen, TypeOK, Task
  <1>2. CASE Unsubscribe(k)
    BY <1>2, NoTaskIsTask, DropTasks DEF Unsubscribe, TypeOK
  <1>3. CASE SubscribeFails(k) \/ ListenFails(k)
    <2>1. faults' \in 0 .. MaxFault
      BY <1>3, ChatAssumption DEF SubscribeFails, ListenFails, Fault, TypeOK
    <2> QED
      BY <1>3, <2>1, NoTaskIsTask, DropTasks DEF SubscribeFails, ListenFails, TypeOK
  <1>4. CASE Take(k)
    <2> DEFINE new == [listener[k] EXCEPT !.message = Head(listener[k].inbox),
                          !.inbox = Tail(@), !.todo = Members(k)]
    <2>1. /\ Head(listener[k].inbox) \in Nat /\ Tail(listener[k].inbox) \in Seq(Nat)
          /\ Members(k) \subseteq Socket
      BY <1>0, <1>4, ListenerParts DEF Take, Task, Members, TypeOK
    <2>2. new \in Task
      BY <1>0, <2>1 DEF Task
    <2>3. listener' = [listener EXCEPT ![k] = new]
      BY <1>4 DEF Take
    <2> HIDE DEF new
    <2> QED
      BY <1>4, <2>2, <2>3 DEF Take, TypeOK
  <1>5. CASE \E s \in listener[k].todo : Send(k, s)
    <2>1. PICK s \in listener[k].todo : Send(k, s)
      BY <1>5
    <2>2. s \in Socket /\ listener[k].message \in Nat /\ k[2] \in Topic
      BY <1>0, ListenerParts DEF Task
    <2>3. heard' \in [Socket -> [Topic -> Seq(Nat)]]
      <3> DEFINE new == [heard[s] EXCEPT ![k[2]] = Append(@, listener[k].message)]
      <3>1. new \in [Topic -> Seq(Nat)]
        <4>1. Append(heard[s][k[2]], listener[k].message) \in Seq(Nat)
          BY <2>2 DEF TypeOK
        <4> QED
          BY <2>2, <4>1 DEF TypeOK
      <3>2. alive[s] => heard' = [heard EXCEPT ![s] = new]
        BY <2>1, <2>2 DEF Send, TypeOK
      <3> HIDE DEF new
      <3> QED
        BY <2>1, <2>2, <3>1, <3>2 DEF Send, TypeOK
    <2>4. listener' \in [Listener -> Task]
      <3>1. /\ [listener[k] EXCEPT !.todo = @ \ {s}] \in Task
            /\ [listener[k] EXCEPT !.todo = @ \ {s}, !.dead = @ \cup {s}] \in Task
        BY <1>0, <2>2 DEF Task
      <3> QED
        BY <2>1, <3>1 DEF Send, TypeOK
    <2> QED
      BY <2>1, <2>3, <2>4 DEF Send, TypeOK
  <1>6. CASE Prune(k)
    <2>1. [listener[k] EXCEPT !.message = 0, !.dead = {}] \in Task
      BY <1>0 DEF Task
    <2> QED
      BY <1>6, <2>1, PruneLists DEF Prune, TypeOK
  <1> QED
    BY <1>1, <1>2, <1>3, <1>4, <1>5, <1>6 DEF Deliver

LEMMA TypeElsewhere ==
  ASSUME TypeOK, (\E t \in Topic : Publish(t)) \/ (\E u \in User : Expire(u))
  PROVE  TypeOK'
  <1> USE DEF registry
  <1>1. CASE \E t \in Topic : Publish(t)
    <2>1. PICK t \in Topic : Publish(t)
      BY <1>1
    <2>2. published[t] + 1 \in Nat
      BY DEF TypeOK
    <2>3. ASSUME NEW k \in Listener
          PROVE  [listener[k] EXCEPT !.inbox = Append(@, published[t] + 1)] \in Task
      <3>1. listener[k] \in Task
        BY DEF TypeOK
      <3>2. Append(listener[k].inbox, published[t] + 1) \in Seq(Nat)
        BY <2>2, <3>1 DEF Task
      <3> QED
        BY <3>1, <3>2 DEF Task
    <2>4. listener' \in [Listener -> Task]
      BY <2>1, <2>3 DEF Publish, TypeOK
    <2> QED
      BY <2>1, <2>2, <2>4 DEF Publish, TypeOK
  <1>2. CASE \E u \in User : Expire(u)
    BY <1>2 DEF Expire, TypeOK
  <1> QED
    BY <1>1, <1>2

(***************************************************************************)
(* The parts of IndInv that a kind of step cannot disturb.                 *)
(***************************************************************************)

\* Endpoints move on, peers leave, Redis fails; nothing enters the receive loop.
LEMMA QuietStep ==
  ASSUME IndInv, UNCHANGED <<registry, listener>>, faults' = 0 => faults = 0,
         \A s \in Socket : alive'[s] => alive[s],
         \A s \in Socket :
           pc'[s] \in {"registered", "marked", "confirmed", "open", "leaving"} =>
             /\ pc[s] \in {"registered", "marked", "confirmed", "open", "leaving"}
             /\ pc'[s] = "open" => pc[s] = "open"
  PROVE  MembersOK' /\ RegistryOK' /\ DeadOK' /\ TasksOK' /\ OpenIsServed'
  <1> USE DEF registry, IndInv
  <1>1. MembersOK'
    BY DEF MembersOK
  <1>2. RegistryOK'
    BY DEF RegistryOK
  <1>3. DeadOK'
    BY DEF DeadOK, TypeOK, Task
  <1>4. TasksOK'
    BY DEF TasksOK
  <1>5. OpenIsServed'
    BY DEF OpenIsServed, Served, TaskOf
  <1> QED
    BY <1>1, <1>2, <1>3, <1>4, <1>5

\* No endpoint ends, and no key is set.
LEMMA OnlineStep ==
  ASSUME IndInv, online' \subseteq online, faults' = 0 => faults = 0,
         \A s \in Socket : pc[s] \notin {"new", "closed"} => pc'[s] \notin {"new", "closed"}
  PROVE  OnlineHasEndpoint'
  BY DEF IndInv, OnlineHasEndpoint

(***************************************************************************)
(* Endpoints.                                                              *)
(***************************************************************************)

LEMMA RegisterStep ==
  ASSUME IndInv, NEW s \in Socket, Register(s)
  PROVE  IndInv'
  <1> USE DEF Goto, IndInv
  <1>0. TypeOK'
    BY TypeEndpoint DEF Endpoint
  <1>1. /\ \A p \in Process, t \in Topic, v \in Socket :
             v \in members'[p][t] <=>
               v \in members[p][t] \/ (v = s /\ p = ProcOf[s] /\ t \in Topics(s))
        /\ known' = known \cup {s}
        /\ pc' = [pc EXCEPT ![s] = "registered"] /\ pc[s] = "new"
        /\ UNCHANGED <<alive, tasks, listener, online, faults>>
    BY RegisterLists DEF Register
  <1>2. MembersOK'
    BY <1>0, <1>1 DEF MembersOK, TypeOK
  <1>3. RegistryOK'
    BY <1>0, <1>1, TopicsAreTopics DEF RegistryOK, TypeOK
  <1>4. DeadOK' /\ TasksOK'
    BY <1>1 DEF DeadOK, TasksOK
  <1>5. OpenIsServed'
    BY <1>1, TopicsAreTopics DEF OpenIsServed, Served, TaskOf, TypeOK
  <1>6. OnlineHasEndpoint'
    BY <1>1, OnlineStep DEF TypeOK
  <1> QED
    BY <1>0, <1>2, <1>3, <1>4, <1>5, <1>6

LEMMA SubscribeStep ==
  ASSUME IndInv, NEW s \in Socket, Subscribe(s)
  PROVE  IndInv'
  <1> USE DEF Goto, IndInv
  <1> DEFINE topics == {t \in Topics(s) : tasks[ProcOf[s]][t] = NoSocket}
  <1>0. TypeOK'
    BY TypeEndpoint DEF Endpoint
  <1>1. /\ \A p \in Process, t \in Topic :
             tasks'[p][t] = IF p = ProcOf[s] /\ t \in topics THEN s ELSE tasks[p][t]
        /\ \A k \in Listener :
             listener'[k] = IF k[1] = s /\ k[2] \in topics
                              THEN [NoTask EXCEPT !.state = "starting"] ELSE listener[k]
    <2>1. Start(s, topics) /\ topics \in SUBSET Topics(s)
      BY DEF Subscribe
    <2> HIDE DEF topics
    <2> QED
      BY <2>1, StartTasks
  <1>2. /\ pc' = [pc EXCEPT ![s] = "open"] /\ pc[s] = "confirmed"
        /\ UNCHANGED <<alive, members, known, online, faults>>
    BY DEF Subscribe
  <1>3. MembersOK' /\ RegistryOK'
    BY <1>2 DEF MembersOK, RegistryOK, TypeOK
  <1>4. DeadOK'
    BY <1>1, <1>2, NoTaskIsTask DEF DeadOK, NoTask
  <1>5. TasksOK'
    <2>1. ASSUME NEW p \in Process, NEW t \in Topic, tasks'[p][t] # NoSocket
          PROVE  ProcOf[tasks'[p][t]] = p /\ t \in Topics(tasks'[p][t])
      BY <1>1, <2>1 DEF TasksOK
    <2>2. ASSUME faults' = 0, NEW k \in Listener
          PROVE  listener'[k].state # "ending"
      BY <1>1, <1>2, <2>2 DEF TasksOK, NoTask
    <2>3. ASSUME faults' = 0, NEW p \in Process, NEW t \in Topic, tasks'[p][t] # NoSocket
          PROVE  listener'[<<tasks'[p][t], t>>].state \in {"starting", "listening"}
      <3>1. tasks'[p][t] \in Socket /\ <<tasks'[p][t], t>> \in Listener
        BY <1>0, <2>1, <2>3, TopicsAreTopics DEF TypeOK
      <3>2. CASE tasks'[p][t] = s /\ t \in topics
        BY <1>1, <3>1, <3>2 DEF NoTask
      <3>3. CASE ~(tasks'[p][t] = s /\ t \in topics)
        BY <1>1, <1>2, <2>3, <3>1, <3>3 DEF TasksOK
      <3> QED
        BY <3>2, <3>3
    <2> QED
      BY <2>1, <2>2, <2>3 DEF TasksOK
  <1>6. OpenIsServed'
    <2> SUFFICES ASSUME faults' = 0, NEW v \in Socket, pc'[v] = "open", alive'[v],
                        NEW t \in Topics(v)
                 PROVE  v \in members'[ProcOf[v]][t] /\ Served(v, t)'
      BY DEF OpenIsServed
    <2>1. t \in Topic /\ ProcOf[v] \in Process
      BY TopicsAreTopics
    <2>2. v \in members'[ProcOf[v]][t]
      BY <1>2, <2>1 DEF RegistryOK, TypeOK
    <2>3. tasks'[ProcOf[v]][t] # NoSocket
      <3>1. CASE v = s
        BY <1>1, <2>1, <3>1, ChatAssumption
      <3>2. CASE v # s
        <4>1. pc[v] = "open" /\ alive[v] /\ faults = 0
          BY <1>2, <3>2 DEF TypeOK
        <4>2. tasks[ProcOf[v]][t] # NoSocket
          BY <4>1 DEF OpenIsServed, Served
        <4> QED
          BY <1>1, <2>1, <4>2, ChatAssumption
      <3> QED
        BY <3>1, <3>2
    <2> QED
      BY <1>5, <2>1, <2>2, <2>3 DEF TasksOK, Served, TaskOf
  <1>7. OnlineHasEndpoint'
    BY <1>2, OnlineStep DEF TypeOK
  <1> QED
    BY <1>0, <1>3, <1>4, <1>5, <1>6, <1>7

LEMMA DisconnectStep ==
  ASSUME IndInv, NEW s \in Socket, Disconnect(s)
  PROVE  IndInv'
  <1> USE DEF Goto, IndInv
  <1>0. TypeOK'
    BY TypeEndpoint DEF Endpoint
  <1>1. CASE s \notin known
    BY <1>0, <1>1, QuietStep, OnlineStep DEF Disconnect, TypeOK
  <1>2. CASE s \in known
    <2>1. /\ \A p \in Process, t \in Topic :
               /\ \A v \in Socket : v \in members'[p][t] <=>
                                      v \in members[p][t] /\ ~(v = s /\ p = ProcOf[s])
               /\ tasks'[p][t] = IF p = ProcOf[s] /\ t \in Cancelled(s)
                                   THEN NoSocket ELSE tasks[p][t]
          /\ \A k \in Listener :
               listener'[k] = IF k[2] \in Cancelled(s) /\ ProcOf[k[1]] = ProcOf[s] /\ Current(k)
                                THEN NoTask ELSE listener[k]
      BY <1>2, DisconnectRegistry
    <2>2. /\ known' = known \ {s} /\ pc[s] = "leaving"
          /\ pc' \in {[pc EXCEPT ![s] = "dropped"], [pc EXCEPT ![s] = "dropping"]}
          /\ UNCHANGED <<alive, online, faults>>
      BY <1>2 DEF Disconnect
    <2>3. MembersOK'
      BY <1>0, <2>1 DEF MembersOK, TypeOK
    <2>4. RegistryOK'
      BY <2>1, <2>2, TopicsAreTopics DEF RegistryOK, TypeOK
    <2>5. DeadOK'
      BY <2>1, <2>2 DEF DeadOK, NoTask
    <2>6. TasksOK'
      <3>1. ASSUME NEW p \in Process, NEW t \in Topic, tasks'[p][t] # NoSocket
            PROVE  /\ tasks'[p][t] = tasks[p][t] /\ tasks[p][t] \in Socket
                   /\ ~(p = ProcOf[s] /\ t \in Cancelled(s))
                   /\ ProcOf[tasks[p][t]] = p /\ t \in Topics(tasks[p][t])
                   /\ listener'[<<tasks[p][t], t>>] = listener[<<tasks[p][t], t>>]
        <4>1. /\ tasks'[p][t] = tasks[p][t] /\ tasks[p][t] \in Socket
              /\ ~(p = ProcOf[s] /\ t \in Cancelled(s))
          BY <2>1, <3>1 DEF TypeOK
        <4>2. ProcOf[tasks[p][t]] = p /\ t \in Topics(tasks[p][t])
          BY <3>1, <4>1 DEF TasksOK
        <4>3. <<tasks[p][t], t>> \in Listener
          BY <4>1, <4>2, TopicsAreTopics
        <4> QED
          BY <2>1, <4>1, <4>2, <4>3
      <3>2. faults' = 0 => \A k \in Listener : listener'[k].state # "ending"
        BY <2>1, <2>2 DEF TasksOK, NoTask
      <3>3. \A p \in Process, t \in Topic : tasks'[p][t] # NoSocket =>
              ProcOf[tasks'[p][t]] = p /\ t \in Topics(tasks'[p][t])
        BY <3>1
      <3>4. faults' = 0 => \A p \in Process, t \in Topic : tasks'[p][t] # NoSocket =>
              listener'[<<tasks'[p][t], t>>].state \in {"starting", "listening"}
        <4> SUFFICES ASSUME faults' = 0, NEW p \in Process, NEW t \in Topic,
                            tasks'[p][t] # NoSocket
                     PROVE  listener'[<<tasks'[p][t], t>>].state \in {"starting", "listening"}
          OBVIOUS
        <4>1. /\ tasks'[p][t] = tasks[p][t]
              /\ listener'[<<tasks[p][t], t>>] = listener[<<tasks[p][t], t>>]
          BY <3>1
        <4>2. listener[<<tasks[p][t], t>>].state \in {"starting", "listening"}
          BY <2>2, <4>1 DEF TasksOK
        <4> QED
          BY <4>1, <4>2
      <3> QED
        BY <3>2, <3>3, <3>4 DEF TasksOK
    <2>7. OpenIsServed'
      <3> SUFFICES ASSUME faults' = 0, NEW v \in Socket, pc'[v] = "open", alive'[v],
                          NEW t \in Topics(v)
                   PROVE  v \in members'[ProcOf[v]][t] /\ Served(v, t)'
        BY DEF OpenIsServed
      <3>1. t \in Topic /\ ProcOf[v] \in Process
        BY TopicsAreTopics
      <3>2. v # s /\ pc[v] = "open" /\ alive[v] /\ faults = 0
        BY <2>2 DEF TypeOK
      <3>3. v \in members[ProcOf[v]][t] /\ Served(v, t)
        BY <3>2 DEF OpenIsServed
      <3>4. ~(ProcOf[v] = ProcOf[s] /\ t \in Cancelled(s))
        BY <3>2, <3>3 DEF Cancelled
      <3>5. tasks'[ProcOf[v]][t] # NoSocket
        BY <2>1, <3>1, <3>3, <3>4 DEF Served
      <3> QED
        BY <2>1, <2>6, <3>1, <3>2, <3>3, <3>5 DEF TasksOK, Served, TaskOf
    <2>8. OnlineHasEndpoint'
      BY <2>2, OnlineStep DEF TypeOK
    <2> QED
      BY <1>0, <2>3, <2>4, <2>5, <2>6, <2>7, <2>8
  <1> QED
    BY <1>1, <1>2

LEMMA EndpointStep ==
  ASSUME IndInv, NEW s \in Socket, Endpoint(s) \/ Leave(s)
  PROVE  IndInv'
  <1> USE DEF Goto, IndInv
  <1>0. TypeOK'
    BY TypeEndpoint
  <1>1. CASE Register(s) \/ Subscribe(s) \/ Disconnect(s)
    BY <1>1, RegisterStep, SubscribeStep, DisconnectStep
  <1>2. CASE MarkOnline(s)
    <2>1. /\ pc[s] = "registered" /\ pc' = [pc EXCEPT ![s] = "marked"]
          /\ online' \subseteq online \cup {UserOf[s]} /\ (faults' = 0 => faults = 0)
          /\ UNCHANGED <<alive, registry, listener>>
      BY <1>2 DEF MarkOnline, Fault, TypeOK
    <2>2. OnlineHasEndpoint'
      BY <2>1 DEF OnlineHasEndpoint, TypeOK
    <2> QED
      BY <1>0, <2>1, <2>2, QuietStep DEF TypeOK
  <1>3. CASE Ping(s)
    <2>1. OnlineHasEndpoint'
      BY <1>3 DEF Ping, OnlineHasEndpoint
    <2> QED
      BY <1>0, <1>3, <2>1, QuietStep DEF Ping
  <1>4. CASE Confirm(s) \/ Quit(s) \/ Leave(s)
    BY <1>0, <1>4, QuietStep, OnlineStep DEF Confirm, Quit, Leave, TypeOK
  <1>5. CASE DropKey(s) \/ GoOffline(s)
    <2>1. /\ pc[s] \in {"dropping", "dropped"}
          /\ pc' \in {[pc EXCEPT ![s] = "dropped"], [pc EXCEPT ![s] = "closed"]}
          /\ online' \subseteq online /\ (faults' = 0 => faults = 0)
          /\ alive' \in {alive, [alive EXCEPT ![s] = FALSE]}
          /\ UNCHANGED <<registry, listener>>
      BY <1>5 DEF DropKey, GoOffline, Fault, TypeOK
    <2>2. faults' = 0 /\ pc' # [pc EXCEPT ![s] = "dropped"] => UserOf[s] \notin online'
      BY <1>5 DEF DropKey, GoOffline, Fault, TypeOK
    <2>3. OnlineHasEndpoint'
      <3>1. CASE pc' = [pc EXCEPT ![s] = "dropped"]
        BY <2>1, <3>1, OnlineStep DEF TypeOK
      <3>2. CASE pc' # [pc EXCEPT ![s] = "dropped"]
        <4> SUFFICES ASSUME faults' = 0, NEW u \in online'
                     PROVE  \E v \in Socket : UserOf[v] = u /\ pc'[v] \notin {"new", "closed"}
          BY DEF OnlineHasEndpoint
        <4>1. PICK v \in Socket : UserOf[v] = u /\ pc[v] \notin {"new", "closed"}
          BY <2>1 DEF OnlineHasEndpoint
        <4>2. v # s
          BY <2>2, <3>2, <4>1
        <4> QED
          BY <2>1, <4>1, <4>2 DEF TypeOK
      <3> QED
        BY <3>1, <3>2
    <2> QED
      BY <1>0, <2>1, <2>3, QuietStep DEF TypeOK
  <1> QED
    BY <1>1, <1>2, <1>3, <1>4, <1>5 DEF Endpoint

(***************************************************************************)
(* Listener tasks.                                                         *)
(***************************************************************************)

\* A task that fails, or is done with failing: Redis has failed by now.
LEMMA FaultStep ==
  ASSUME IndInv, NEW k \in Listener, SubscribeFails(k) \/ ListenFails(k) \/ Unsubscribe(k)
  PROVE  IndInv'
  <1> USE DEF IndInv, Set
  <1>0. TypeOK'
    BY TypeDelivery DEF Deliver
  <1>1. faults' # 0
    BY DEF SubscribeFails, ListenFails, Unsubscribe, Fault, TypeOK, TasksOK
  <1>2. /\ UNCHANGED <<pc, alive, members, known, online>>
        /\ \E task \in {NoTask, [NoTask EXCEPT !.state = "ending"]} :
             listener' = [listener EXCEPT ![k] = task]
    BY DEF SubscribeFails, ListenFails, Unsubscribe, registry
  <1>3. \A p \in Process, t \in Topic : tasks'[p][t] \in {tasks[p][t], NoSocket}
    <2>1. UNCHANGED tasks \/ Drop(k)
      BY DEF SubscribeFails, ListenFails, Unsubscribe, registry
    <2> QED
      BY <2>1, DropTasks
  <1>4. MembersOK' /\ RegistryOK'
    BY <1>2 DEF MembersOK, RegistryOK
  <1>5. DeadOK'
    <2>1. PICK task \in {NoTask, [NoTask EXCEPT !.state = "ending"]} :
            listener' = [listener EXCEPT ![k] = task]
      BY <1>2
    <2>2. task.dead = {}
      BY DEF NoTask
    <2>3. \A j \in Listener : listener'[j].dead \subseteq listener[j].dead
      BY <2>1, <2>2 DEF TypeOK
    <2> QED
      BY <1>2, <2>3 DEF DeadOK
  <1>6. TasksOK'
    BY <1>1, <1>3 DEF TasksOK
  <1> QED
    BY <1>0, <1>1, <1>4, <1>5, <1>6 DEF OpenIsServed, OnlineHasEndpoint

\* A task goes on with its work; only the dead leave the lists.
LEMMA WorkStep ==
  ASSUME IndInv, TypeOK', NEW k \in Listener, NEW task \in Task,
         listener[k].state \in {"starting", "listening"} =>
           task.state \in {"starting", "listening"},
         task.state = "ending" => listener[k].state = "ending",
         listener' = [listener EXCEPT ![k] = task],
         \A s \in task.dead : ~alive[s],
         \A p \in Process, t \in Topic, v \in Socket :
           v \in members'[p][t] => v \in members[p][t],
         \A p \in Process, t \in Topic, v \in Socket :
           v \in members[p][t] /\ alive[v] => v \in members'[p][t],
         \A v \in Socket : v \in known /\ alive[v] => v \in known',
         UNCHANGED <<pc, alive, tasks, online, faults>>
  PROVE  IndInv'
  <1> USE DEF IndInv
  <1>1. MembersOK'
    BY DEF MembersOK, TypeOK
  <1>2. RegistryOK'
    BY TopicsAreTopics DEF RegistryOK
  <1>3. DeadOK'
    <2>1. \A j \in Listener : listener'[j] = IF j = k THEN task ELSE listener[j]
      BY DEF TypeOK
    <2>2. ASSUME NEW j \in Listener, NEW v \in listener'[j].dead
          PROVE  ~alive[v]
      <3>1. CASE j = k
        BY <2>1, <2>2, <3>1
      <3>2. CASE j # k
        BY <2>1, <2>2, <3>2 DEF DeadOK
      <3> QED
        BY <3>1, <3>2
    <2> QED
      BY <2>2 DEF DeadOK
  <1>4. \A j \in Listener : listener[j].state \in {"starting", "listening"} =>
                            listener'[j].state \in {"starting", "listening"}
    BY DEF TypeOK
  <1>5. TasksOK'
    <2>1. \A p \in Process, t \in Topic : tasks[p][t] # NoSocket =>
            <<tasks[p][t], t>> \in Listener
      BY TopicsAreTopics DEF TasksOK, TypeOK
    <2>2. \A j \in Listener : listener'[j].state = "ending" => listener[j].state = "ending"
      BY DEF TypeOK
    <2> QED
      BY <1>4, <2>1, <2>2 DEF TasksOK
  <1>6. OpenIsServed'
    <2> SUFFICES ASSUME faults' = 0, NEW v \in Socket, pc'[v] = "open", alive'[v],
                        NEW t \in Topics(v)
                 PROVE  v \in members'[ProcOf[v]][t] /\ Served(v, t)'
      BY DEF OpenIsServed
    <2>1. t \in Topic /\ ProcOf[v] \in Process
      BY TopicsAreTopics
    <2>2. v \in members[ProcOf[v]][t] /\ tasks[ProcOf[v]][t] # NoSocket
      BY DEF OpenIsServed, Served
    <2>3. v \in members'[ProcOf[v]][t]
      BY <2>1, <2>2
    <2> QED
      BY <1>5, <2>1, <2>2, <2>3 DEF TasksOK, Served, TaskOf
  <1>7. OnlineHasEndpoint'
    BY OnlineStep
  <1> QED
    BY <1>1, <1>2, <1>3, <1>5, <1>6, <1>7

LEMMA DeliverStep ==
  ASSUME IndInv, NEW k \in Listener, Deliver(k)
  PROVE  IndInv'
  <1> USE DEF IndInv, Set, registry
  <1>0. TypeOK' /\ listener[k] \in Task /\ \A s \in listener[k].dead : ~alive[s]
    BY TypeDelivery DEF TypeOK, DeadOK
  <1>1. CASE Listen(k)
    <2> DEFINE task == [listener[k] EXCEPT !.state = "listening"]
    <2>1. task \in Task /\ task.state = "listening" /\ task.dead = listener[k].dead
      BY <1>0 DEF Task
    <2>2. listener' = [listener EXCEPT ![k] = task]
      BY <1>1 DEF Listen
    <2> HIDE DEF task
    <2> QED
      BY <1>0, <1>1, <2>1, <2>2, WorkStep DEF Listen
  <1>2. CASE Unsubscribe(k)
    BY <1>2, FaultStep
  <1>3. CASE Take(k)
    <2> DEFINE task == listener'[k]
    <2>1. /\ task \in Task /\ listener' = [listener EXCEPT ![k] = task]
          /\ task.state = listener[k].state /\ task.dead = listener[k].dead
      BY <1>0, <1>3 DEF Take, Task, TypeOK
    <2> HIDE DEF task
    <2> QED
      BY <1>0, <1>3, <2>1, WorkStep DEF Take
  <1>4. CASE \E s \in listener[k].todo : Send(k, s)
    <2>1. PICK s \in listener[k].todo : Send(k, s)
      BY <1>4
    <2> DEFINE sent == [listener[k] EXCEPT !.todo = @ \ {s}]
               failed == [listener[k] EXCEPT !.todo = @ \ {s}, !.dead = @ \cup {s}]
               task == IF alive[s] THEN sent ELSE failed
    <2>2. s \in Socket
      BY <1>0 DEF Task
    <2>3. /\ sent \in Task /\ sent.dead = listener[k].dead
          /\ failed \in Task /\ failed.dead = listener[k].dead \cup {s}
          /\ sent.state = listener[k].state /\ failed.state = listener[k].state
      BY <1>0, <2>2 DEF Task
    <2>4. listener' = [listener EXCEPT ![k] = task]
      BY <2>1 DEF Send
    <2> HIDE DEF sent, failed
    <2>5. task \in Task /\ task.state = listener[k].state
      BY <2>3
    <2>6. \A v \in task.dead : ~alive[v]
      BY <1>0, <2>3
    <2> HIDE DEF task
    <2> QED
      BY <1>0, <2>1, <2>4, <2>5, <2>6, WorkStep DEF Send
  <1>5. CASE Prune(k)
    <2> DEFINE task == [listener[k] EXCEPT !.message = 0, !.dead = {}]
    <2>1. task \in Task /\ task.state = listener[k].state /\ task.dead = {}
      BY <1>0 DEF Task
    <2>2. listener' = [listener EXCEPT ![k] = task]
      BY <1>5 DEF Prune
    <2>3. \A v \in Socket : v \in known /\ alive[v] => v \in known'
      BY <1>0, <1>5 DEF Prune
    <2> HIDE DEF task
    <2> QED
      BY <1>0, <1>5, <2>1, <2>2, <2>3, PruneLists, WorkStep DEF Prune
  <1> QED
    BY <1>1, <1>2, <1>3, <1>4, <1>5 DEF Deliver

LEMMA ElsewhereStep ==
  ASSUME IndInv, (\E t \in Topic : Publish(t)) \/ (\E u \in User : Expire(u))
  PROVE  IndInv'
  <1> USE DEF IndInv, registry
  <1>0. TypeOK'
    BY TypeElsewhere
  <1>1. CASE \E t \in Topic : Publish(t)
    <2>1. PICK t \in Topic : Publish(t)
      BY <1>1
    <2>2. \A k \in Listener : /\ listener'[k].state = listener[k].state
                              /\ listener'[k].dead = listener[k].dead
      BY <2>1 DEF Publish, TypeOK, Task
    <2>3. MembersOK' /\ RegistryOK'
      BY <2>1 DEF Publish, MembersOK, RegistryOK
    <2>4. DeadOK'
      BY <2>1, <2>2 DEF Publish, DeadOK
    <2>5. \A p \in Process, j \in Topic : tasks[p][j] # NoSocket =>
            <<tasks[p][j], j>> \in Listener
      BY TopicsAreTopics DEF TasksOK, TypeOK
    <2>6. TasksOK'
      BY <2>1, <2>2, <2>5 DEF Publish, TasksOK
    <2>7. OpenIsServed'
      BY <2>1, <2>2, <2>5, TopicsAreTopics DEF Publish, OpenIsServed, Served, TaskOf
    <2>8. OnlineHasEndpoint'
      BY <2>1, OnlineStep DEF Publish
    <2> QED
      BY <1>0, <2>3, <2>4, <2>6, <2>7, <2>8
  <1>2. CASE \E u \in User : Expire(u)
    BY <1>0, <1>2, QuietStep, OnlineStep DEF Expire
  <1> QED
    BY <1>1, <1>2

LEMMA NextIndInv == IndInv /\ [Next]_vars => IndInv'
  <1> SUFFICES ASSUME IndInv, [Next]_vars PROVE IndInv'
    OBVIOUS
  <1>1. CASE UNCHANGED vars
    <2> USE <1>1 DEF vars, registry, IndInv
    <2>1. TypeOK' /\ MembersOK' /\ RegistryOK'
      BY DEF TypeOK, MembersOK, RegistryOK
    <2>2. DeadOK' /\ TasksOK'
      BY DEF DeadOK, TasksOK
    <2>3. OpenIsServed' /\ OnlineHasEndpoint'
      BY DEF OpenIsServed, Served, TaskOf, OnlineHasEndpoint
    <2> QED
      BY <2>1, <2>2, <2>3
  <1>2. CASE \E s \in Socket : Endpoint(s) \/ Leave(s)
    BY <1>2, EndpointStep
  <1>3. CASE \E k \in Listener : Deliver(k) \/ SubscribeFails(k) \/ ListenFails(k)
    BY <1>3, DeliverStep, FaultStep
  <1>4. CASE (\E t \in Topic : Publish(t)) \/ (\E u \in User : Expire(u))
    BY <1>4, ElsewhereStep
  <1> QED
    BY <1>1, <1>2, <1>3, <1>4 DEF Next

(***************************************************************************)
(* Theorems.                                                               *)
(***************************************************************************)

\* IndInv holds in every reachable state (ws_router.py and ws_manager.py).
THEOREM Invariance == Spec => []IndInv
  BY InitIndInv, NextIndInv, PTL DEF Spec

\* Every reachable state is type correct.
THEOREM TypeCorrect == Spec => []TypeOK
  <1>1. IndInv => TypeOK
    BY DEF IndInv
  <1> QED
    BY <1>1, Invariance, PTL

\* While Redis has not failed, every endpoint in its receive loop is listened for,
\* for its room and for its user: disconnect never cancels a task in use.
THEOREM AlwaysServed == Spec => []OpenIsServed
  <1>1. IndInv => OpenIsServed
    BY DEF IndInv
  <1> QED
    BY <1>1, Invariance, PTL

\* While Redis has not failed, who is shown online has an endpoint left.
THEOREM OnlineIsReal == Spec => []OnlineHasEndpoint
  <1>1. IndInv => OnlineHasEndpoint
    BY DEF IndInv
  <1> QED
    BY <1>1, Invariance, PTL

(***************************************************************************)
(* Each message once and in order.  What a task has taken from Redis and   *)
(* not yet delivered is newer than all that the sockets it delivers to     *)
(* have heard; and a topic has one task in each process, or none.          *)
(***************************************************************************)

\* Every task that is not done is the one its manager refers to.
RunsOnce == \A k \in Listener : listener[k].state # "none" => Current(k)

\* A task has messages while it listens: the one in hand, for members of its own
\* process, is older than those in the inbox, and they are in order.
InboxOK(k) ==
  /\ listener[k].state # "listening" => listener[k].inbox = <<>> /\ listener[k].message = 0
  /\ listener[k].message = 0 => listener[k].todo = {}
  /\ listener[k].message <= published[k[2]]
  /\ \A i \in DOMAIN listener[k].inbox :
       /\ listener[k].message < listener[k].inbox[i]
       /\ listener[k].inbox[i] <= published[k[2]]
       /\ \A j \in DOMAIN listener[k].inbox :
            i < j => listener[k].inbox[i] < listener[k].inbox[j]
  /\ \A s \in listener[k].todo : ProcOf[s] = ProcOf[k[1]] /\ k[2] \in Topics(s)

\* What socket s of the process has heard is older than what task k still holds.
Ahead(k, s) ==
  \A i \in DOMAIN heard[s][k[2]] :
    /\ \A j \in DOMAIN listener[k].inbox : heard[s][k[2]][i] < listener[k].inbox[j]
    /\ s \in listener[k].todo => heard[s][k[2]][i] < listener[k].message

HeardOK == \A s \in Socket, t \in Topic :
             \A i \in DOMAIN heard[s][t] : heard[s][t][i] <= published[t]

HearInv ==
  /\ RunsOnce /\ HeardOK
  /\ \A k \in Listener :
       /\ InboxOK(k)
       /\ \A s \in Socket : ProcOf[s] = ProcOf[k[1]] => Ahead(k, s)

LEMMA InitHearInv == Init => HearInv
  <1> SUFFICES ASSUME Init PROVE HearInv
    OBVIOUS
  <1>1. \A k \in Listener : listener[k] = NoTask
    BY DEF Init
  <1>2. RunsOnce
    BY <1>1 DEF RunsOnce, NoTask
  <1>3. HeardOK
    BY DEF Init, HeardOK
  <1>4. ASSUME NEW k \in Listener PROVE InboxOK(k) /\ \A s \in Socket : Ahead(k, s)
    <2>1. published[k[2]] = 0 /\ \A s \in Socket : heard[s][k[2]] = <<>>
      BY ListenerParts DEF Init
    <2>2. listener[k].inbox = <<>> /\ listener[k].message = 0 /\ listener[k].todo = {}
      BY <1>1 DEF NoTask
    <2> QED
      BY <2>1, <2>2 DEF InboxOK, Ahead
  <1> QED
    BY <1>2, <1>3, <1>4 DEF HearInv

\* The fields of a task.
LEMMA TaskFields ==
  ASSUME TypeOK, NEW k \in Listener
  PROVE  /\ listener[k].inbox \in Seq(Nat) /\ listener[k].message \in Nat
         /\ listener[k].todo \subseteq Socket
         /\ published[k[2]] \in Nat /\ \A s \in Socket : heard[s][k[2]] \in Seq(Nat)
  BY ListenerParts DEF TypeOK, Task

\* Nothing is published or sent: a task holds what it held, or nothing.
LEMMA HearKept ==
  ASSUME IndInv, HearInv, UNCHANGED <<published, heard>>, RunsOnce',
         \A k \in Listener :
           \/ /\ listener'[k].inbox = listener[k].inbox
              /\ listener'[k].message = listener[k].message
              /\ listener'[k].todo = listener[k].todo
              /\ listener'[k].state \in {listener[k].state, "listening"}
           \/ /\ listener'[k].inbox = <<>> /\ listener'[k].message = 0
              /\ listener'[k].todo = {}
  PROVE  HearInv'
  <1>1. HeardOK'
    BY DEF HearInv, HeardOK
  <1>2. ASSUME NEW k \in Listener
        PROVE  InboxOK(k)' /\ \A s \in Socket : ProcOf[s] = ProcOf[k[1]] => Ahead(k, s)'
    <2>1. InboxOK(k) /\ \A s \in Socket : ProcOf[s] = ProcOf[k[1]] => Ahead(k, s)
      BY DEF HearInv
    <2>2. CASE /\ listener'[k].inbox = listener[k].inbox
               /\ listener'[k].message = listener[k].message
               /\ listener'[k].todo = listener[k].todo
               /\ listener'[k].state \in {listener[k].state, "listening"}
      BY <2>1, <2>2 DEF InboxOK, Ahead
    <2>3. CASE /\ listener'[k].inbox = <<>> /\ listener'[k].message = 0
               /\ listener'[k].todo = {}
      <3>1. published[k[2]] \in Nat
        BY TaskFields DEF IndInv
      <3> QED
        BY <2>3, <3>1 DEF InboxOK, Ahead
    <2> QED
      BY <2>2, <2>3
  <1> QED
    BY <1>1, <1>2 DEF HearInv

\* Tasks are started and cancelled by the endpoints.
LEMMA EndpointHears ==
  ASSUME IndInv, HearInv, NEW s \in Socket, Endpoint(s) \/ Leave(s)
  PROVE  HearInv' /\ UNCHANGED <<published, heard>>
  <1> USE DEF registry, Goto
  <1>0. TypeOK
    BY DEF IndInv
  <1>1. CASE Subscribe(s)
    <2> DEFINE topics == {t \in Topics(s) : tasks[ProcOf[s]][t] = NoSocket}
    <2>1. /\ \A p \in Process, t \in Topic :
               tasks'[p][t] = IF p = ProcOf[s] /\ t \in topics THEN s ELSE tasks[p][t]
          /\ \A k \in Listener :
               listener'[k] = IF k[1] = s /\ k[2] \in topics
                                THEN [NoTask EXCEPT !.state = "starting"] ELSE listener[k]
      BY <1>0, <1>1, StartTasks DEF Subscribe
    <2>2. RunsOnce'
      <3> SUFFICES ASSUME NEW k \in Listener, listener'[k].state # "none"
                   PROVE  tasks'[ProcOf[k[1]]][k[2]] = k[1]
        BY DEF RunsOnce, Current
      <3>1. k[1] \in Socket /\ k[2] \in Topic /\ ProcOf[k[1]] \in Process
        BY ListenerParts
      <3>2. CASE k[1] = s /\ k[2] \in topics
        BY <2>1, <3>1, <3>2
      <3>3. CASE ~(k[1] = s /\ k[2] \in topics)
        <4>1. tasks[ProcOf[k[1]]][k[2]] = k[1]
          BY <2>1, <3>3 DEF HearInv, RunsOnce, Current
        <4>2. ~(ProcOf[k[1]] = ProcOf[s] /\ k[2] \in topics)
          BY <3>1, <4>1, ChatAssumption
        <4> QED
          BY <2>1, <3>1, <4>1, <4>2
      <3> QED
        BY <3>2, <3>3
    <2> HIDE DEF topics
    <2>3. UNCHANGED <<published, heard>>
      BY <1>1 DEF Subscribe
    <2> QED
      BY <2>1, <2>2, <2>3, HearKept DEF NoTask
  <1>2. CASE Disconnect(s) /\ s \in known
    <2>1. /\ \A p \in Process, t \in Topic :
               tasks'[p][t] = IF p = ProcOf[s] /\ t \in Cancelled(s)
                                THEN NoSocket ELSE tasks[p][t]
          /\ \A k \in Listener :
               listener'[k] = IF k[2] \in Cancelled(s) /\ ProcOf[k[1]] = ProcOf[s] /\ Current(k)
                                THEN NoTask ELSE listener[k]
      BY <1>0, <1>2, DisconnectRegistry
    <2>2. RunsOnce'
      <3> SUFFICES ASSUME NEW k \in Listener, listener'[k].state # "none"
                   PROVE  tasks'[ProcOf[k[1]]][k[2]] = k[1]
        BY DEF RunsOnce, Current
      <3>1. ~(k[2] \in Cancelled(s) /\ ProcOf[k[1]] = ProcOf[s] /\ Current(k))
        BY <2>1 DEF NoTask
      <3>2. Current(k)
        BY <2>1, <3>1 DEF HearInv, RunsOnce
      <3> QED
        BY <2>1, <3>1, <3>2, ListenerParts DEF Current
    <2>3. UNCHANGED <<published, heard>>
      BY <1>2 DEF Disconnect
    <2> QED
      BY <2>1, <2>2, <2>3, HearKept DEF NoTask
  <1>3. CASE UNCHANGED <<tasks, listener, published, heard>>
    <2>1. RunsOnce'
      BY <1>3 DEF HearInv, RunsOnce, Current
    <2> QED
      BY <1>3, <2>1, HearKept
  <1>4. \/ Subscribe(s)
        \/ Disconnect(s) /\ s \in known
        \/ UNCHANGED <<tasks, listener, published, heard>>
    BY DEF Endpoint, Leave, Register, MarkOnline, Confirm, Ping, Quit, Disconnect, DropKey,
           GoOffline
  <1> QED
    BY <1>1, <1>2, <1>3, <1>4

\* One task goes on, as long as it is the one its manager refers to.
LEMMA TaskHears ==
  ASSUME IndInv, HearInv, NEW k \in Listener,
         Listen(k) \/ SubscribeFails(k) \/ ListenFails(k) \/ Unsubscribe(k)
  PROVE  HearInv' /\ UNCHANGED <<published, heard>>
  <1> USE DEF registry, Set
  <1>0. TypeOK
    BY DEF IndInv
  <1>1. UNCHANGED <<published, heard>>
    BY DEF Listen, SubscribeFails, ListenFails, Unsubscribe
  <1>2. CASE Listen(k)
    <2>1. \A j \in Listener :
            /\ listener'[j].inbox = listener[j].inbox
            /\ listener'[j].message = listener[j].message
            /\ listener'[j].todo = listener[j].todo
            /\ listener'[j].state \in {listener[j].state, "listening"}
            /\ listener'[j].state # "none" => listener[j].state # "none"
      BY <1>0, <1>2 DEF Listen, TypeOK, Task
    <2>2. RunsOnce'
      BY <1>2, <2>1 DEF Listen, HearInv, RunsOnce, Current
    <2> QED
      BY <1>1, <2>1, <2>2, HearKept
  <1>3. CASE ListenFails(k)
    <2>1. listener' = [listener EXCEPT ![k] = [NoTask EXCEPT !.state = "ending"]]
            /\ listener[k].state = "listening" /\ UNCHANGED tasks
      BY <1>3 DEF ListenFails
    <2>2. \A j \in Listener : j # k => listener'[j] = listener[j]
      BY <1>0, <2>1 DEF TypeOK
    <2>3. listener'[k] = [NoTask EXCEPT !.state = "ending"]
      BY <1>0, <2>1 DEF TypeOK
    <2>4. RunsOnce'
      BY <2>1, <2>2 DEF HearInv, RunsOnce, Current
    <2> QED
      BY <1>1, <2>2, <2>3, <2>4, HearKept DEF NoTask
  <1>4. CASE SubscribeFails(k) \/ Unsubscribe(k)
    <2>1. listener' = [listener EXCEPT ![k] = NoTask] /\ Drop(k)
      BY <1>4 DEF SubscribeFails, Unsubscribe
    <2>2. /\ listener'[k] = NoTask
          /\ \A j \in Listener : j # k => listener'[j] = listener[j]
      BY <1>0, <2>1 DEF TypeOK
    <2>3. RunsOnce'
      <3> SUFFICES ASSUME NEW j \in Listener, listener'[j].state # "none"
                   PROVE  tasks'[ProcOf[j[1]]][j[2]] = j[1]
        BY DEF RunsOnce, Current
      <3>1. j # k /\ tasks[ProcOf[j[1]]][j[2]] = j[1]
        BY <2>2 DEF NoTask, HearInv, RunsOnce, Current
      <3>2. ~(ProcOf[j[1]] = ProcOf[k[1]] /\ j[2] = k[2] /\ Current(k))
        BY <3>1, ListenerParts DEF Current
      <3> QED
        BY <1>0, <2>1, <3>1, <3>2, DropTasks, ListenerParts
    <2> QED
      BY <1>1, <2>2, <2>3, HearKept DEF NoTask
  <1> QED
    BY <1>2, <1>3, <1>4

\* A task takes the next message, or is done with one.
LEMMA TakeHears ==
  ASSUME IndInv, HearInv, NEW k \in Listener, Take(k) \/ Prune(k)
  PROVE  HearInv' /\ UNCHANGED <<published, heard>>
  <1> USE DEF registry, Set
  <1>0. TypeOK /\ listener[k] \in Task
    BY DEF IndInv, TypeOK
  <1>1. UNCHANGED <<published, heard, tasks>>
    BY DEF Take, Prune
  <1>2. /\ \A j \in Listener : j # k => listener'[j] = listener[j]
        /\ listener'[k].state = listener[k].state
    <2>1. CASE Take(k)
      <3>1. /\ \A j \in Listener : j # k => listener'[j] = listener[j]
            /\ listener'[k] = [listener[k] EXCEPT !.message = Head(listener[k].inbox),
                                 !.inbox = Tail(@), !.todo = Members(k)]
        BY <1>0, <2>1 DEF Take, TypeOK
      <3> QED
        BY <1>0, <3>1 DEF Task
    <2>2. CASE Prune(k)
      <3>1. /\ \A j \in Listener : j # k => listener'[j] = listener[j]
            /\ listener'[k] = [listener[k] EXCEPT !.message = 0, !.dead = {}]
        BY <1>0, <2>2 DEF Prune, TypeOK
      <3> QED
        BY <1>0, <3>1 DEF Task
    <2> QED
      BY <2>1, <2>2
  <1>3. RunsOnce'
    BY <1>1, <1>2 DEF HearInv, RunsOnce, Current
  <1>4. HeardOK'
    BY <1>1 DEF HearInv, HeardOK
  <1>5. ASSUME NEW j \in Listener, j # k
        PROVE  InboxOK(j)' /\ \A s \in Socket : ProcOf[s] = ProcOf[j[1]] => Ahead(j, s)'
    BY <1>1, <1>2, <1>5 DEF HearInv, InboxOK, Ahead
  <1>6. InboxOK(k) /\ \A s \in Socket : ProcOf[s] = ProcOf[k[1]] => Ahead(k, s)
    BY DEF HearInv
  <1>7. CASE Take(k)
    <2>1. /\ listener[k].state = "listening" /\ listener[k].message = 0
          /\ listener[k].inbox # <<>> /\ listener[k].inbox \in Seq(Nat)
          /\ listener'[k].message = Head(listener[k].inbox)
          /\ listener'[k].inbox = Tail(listener[k].inbox)
          /\ listener'[k].todo = members[ProcOf[k[1]]][k[2]]
      BY <1>0, <1>7 DEF Take, TypeOK, Task, Members
    <2>2. /\ 1 \in DOMAIN listener[k].inbox /\ listener'[k].message = listener[k].inbox[1]
          /\ listener'[k].message \in Nat
          /\ \A i \in DOMAIN listener'[k].inbox :
               /\ i + 1 \in DOMAIN listener[k].inbox /\ 1 < i + 1
               /\ listener'[k].inbox[i] = listener[k].inbox[i + 1]
      BY <2>1
    <2>3. \A s \in listener'[k].todo : ProcOf[s] = ProcOf[k[1]] /\ k[2] \in Topics(s)
      BY <2>1, ListenerParts DEF IndInv, MembersOK
    <2>4. listener'[k].message # 0
      BY <1>6, <2>1, <2>2 DEF InboxOK
    <2>5. InboxOK(k)'
      <3>1. listener'[k].message <= published'[k[2]]
        BY <1>1, <1>6, <2>2 DEF InboxOK
      <3>2. ASSUME NEW i \in DOMAIN listener'[k].inbox
            PROVE  /\ listener'[k].message < listener'[k].inbox[i]
                   /\ listener'[k].inbox[i] <= published'[k[2]]
                   /\ \A j \in DOMAIN listener'[k].inbox :
                        i < j => listener'[k].inbox[i] < listener'[k].inbox[j]
        <4>1. i \in Nat /\ \A j \in DOMAIN listener'[k].inbox : j \in Nat
          BY <2>1
        <4>2. /\ listener[k].inbox[1] < listener[k].inbox[i + 1]
              /\ listener[k].inbox[i + 1] <= published[k[2]]
          BY <1>6, <2>2 DEF InboxOK
        <4>3. \A j \in DOMAIN listener'[k].inbox : i < j =>
                listener[k].inbox[i + 1] < listener[k].inbox[j + 1]
          BY <1>6, <2>2, <4>1 DEF InboxOK
        <4> QED
          BY <1>1, <2>2, <4>2, <4>3
      <3> QED
        BY <1>2, <2>1, <2>3, <2>4, <3>1, <3>2 DEF InboxOK
    <2>6. ASSUME NEW s \in Socket, ProcOf[s] = ProcOf[k[1]]
          PROVE  Ahead(k, s)'
      BY <1>1, <1>6, <2>2, <2>6 DEF Ahead
    <2> QED
      BY <1>1, <1>3, <1>4, <1>5, <2>5, <2>6 DEF HearInv
  <1>8. CASE Prune(k)
    <2>1. /\ listener[k].message # 0 /\ listener[k].message \in Nat
          /\ listener[k].inbox \in Seq(Nat) /\ listener[k].todo = {}
          /\ listener'[k].inbox = listener[k].inbox
          /\ listener'[k].message = 0 /\ listener'[k].todo = {}
      BY <1>0, <1>8 DEF Prune, TypeOK, Task
    <2>2. published[k[2]] \in Nat
      BY <1>0, TaskFields
    <2>3. InboxOK(k)'
      <3>1. listener'[k].state = "listening"
        BY <1>2, <1>6, <2>1 DEF InboxOK
      <3>2. \A i \in DOMAIN listener[k].inbox : 0 < listener[k].inbox[i]
        BY <1>6, <2>1 DEF InboxOK
      <3> QED
        BY <1>1, <1>6, <2>1, <2>2, <3>1, <3>2 DEF InboxOK
    <2>4. \A s \in Socket : ProcOf[s] = ProcOf[k[1]] => Ahead(k, s)'
      BY <1>1, <1>6, <2>1 DEF Ahead
    <2> QED
      BY <1>1, <1>3, <1>4, <1>5, <2>3, <2>4 DEF HearInv
  <1> QED
    BY <1>7, <1>8

\* The message in hand is new to whom it is sent, and older than what follows.
LEMMA SendHears ==
  ASSUME IndInv, HearInv, NEW k \in Listener, NEW s \in listener[k].todo, Send(k, s)
  PROVE  /\ HearInv' /\ UNCHANGED published
         /\ UNCHANGED heard \/ Abstract!Hear(s, k[2], listener[k].message)
         /\ k[2] \in Topics(s) /\ s \in Socket
         /\ listener[k].message \in 1 .. published[k[2]]
  <1> USE DEF registry, Set
  <1> DEFINE n == listener[k].message
             t == k[2]
  <1>0. /\ TypeOK /\ listener[k] \in Task /\ s \in Socket /\ t \in Topic
        /\ n \in Nat /\ published[t] \in Nat /\ heard[s][t] \in Seq(Nat)
    BY ListenerParts DEF IndInv, TypeOK, Task
  <1>1. InboxOK(k) /\ \A v \in Socket : ProcOf[v] = ProcOf[k[1]] => Ahead(k, v)
    BY DEF HearInv
  <1>2. /\ t \in Topics(s) /\ ProcOf[s] = ProcOf[k[1]] /\ n # 0 /\ n <= published[t]
        /\ listener[k].state = "listening"
    BY <1>1 DEF InboxOK
  <1>3. \A i \in DOMAIN heard[s][t] : heard[s][t][i] < n
    BY <1>0, <1>1, <1>2 DEF Ahead
  <1>4. /\ \A j \in Listener : j # k => listener'[j] = listener[j]
        /\ listener'[k].state = listener[k].state /\ listener'[k].inbox = listener[k].inbox
        /\ listener'[k].message = n /\ listener'[k].todo = listener[k].todo \ {s}
    <2>1. CASE alive[s]
      <3>1. /\ \A j \in Listener : j # k => listener'[j] = listener[j]
            /\ listener'[k] = [listener[k] EXCEPT !.todo = @ \ {s}]
        BY <1>0, <2>1 DEF Send, TypeOK
      <3> QED
        BY <1>0, <3>1 DEF Task
    <2>2. CASE ~alive[s]
      <3>1. /\ \A j \in Listener : j # k => listener'[j] = listener[j]
            /\ listener'[k] = [listener[k] EXCEPT !.todo = @ \ {s}, !.dead = @ \cup {s}]
        BY <1>0, <2>2 DEF Send, TypeOK
      <3> QED
        BY <1>0, <3>1 DEF Task
    <2> QED
      BY <2>1, <2>2
  <1>5. UNCHANGED <<published, tasks>>
    BY DEF Send
  <1>6. \/ UNCHANGED heard
        \/ /\ heard' = [heard EXCEPT ![s][t] = Append(@, n)]
           /\ heard'[s][t] = Append(heard[s][t], n)
           /\ \A v \in Socket, u \in Topic : <<v, u>> # <<s, t>> => heard'[v][u] = heard[v][u]
    BY <1>0 DEF Send, TypeOK
  <1>7. /\ \A v \in Socket, u \in Topic : <<v, u>> # <<s, t>> => heard'[v][u] = heard[v][u]
        /\ \A i \in DOMAIN heard'[s][t] :
             \/ i \in DOMAIN heard[s][t] /\ heard'[s][t][i] = heard[s][t][i]
             \/ heard'[s][t][i] = n
    <2>1. CASE UNCHANGED heard
      BY <2>1
    <2>2. ASSUME heard'[s][t] = Append(heard[s][t], n)
          PROVE  \A i \in DOMAIN heard'[s][t] :
                   \/ i \in DOMAIN heard[s][t] /\ heard'[s][t][i] = heard[s][t][i]
                   \/ heard'[s][t][i] = n
      BY <1>0, <2>2
    <2>3. \A v \in Socket, u \in Topic : <<v, u>> # <<s, t>> => heard'[v][u] = heard[v][u]
      BY <1>6
    <2> QED
      BY <1>6, <2>1, <2>2, <2>3
  <1>8. RunsOnce'
    BY <1>4, <1>5 DEF HearInv, RunsOnce, Current
  <1>9. HeardOK'
    <2> SUFFICES ASSUME NEW v \in Socket, NEW u \in Topic, NEW i \in DOMAIN heard'[v][u]
                 PROVE  heard'[v][u][i] <= published[u]
      BY <1>5 DEF HeardOK
    <2>1. CASE v = s /\ u = t
      BY <1>2, <1>7, <2>1 DEF HearInv, HeardOK
    <2>2. CASE ~(v = s /\ u = t)
      BY <1>7, <2>2 DEF HearInv, HeardOK
    <2> QED
      BY <2>1, <2>2
  <1>10. InboxOK(k)'
    BY <1>1, <1>2, <1>4, <1>5 DEF InboxOK
  <1>11. ASSUME NEW v \in Socket, ProcOf[v] = ProcOf[k[1]]
         PROVE  Ahead(k, v)'
    <2>1. Ahead(k, v) /\ \A j \in DOMAIN listener[k].inbox : n < listener[k].inbox[j]
      BY <1>1, <1>11 DEF InboxOK
    <2>2. CASE v = s
      BY <1>4, <1>7, <2>1, <2>2 DEF Ahead
    <2>3. CASE v # s
      BY <1>0, <1>4, <1>7, <2>1, <2>3 DEF Ahead
    <2> QED
      BY <2>2, <2>3
  <1>12. ASSUME NEW j \in Listener, j # k
         PROVE  InboxOK(j)' /\ \A v \in Socket : ProcOf[v] = ProcOf[j[1]] => Ahead(j, v)'
    <2>1. InboxOK(j) /\ \A v \in Socket : ProcOf[v] = ProcOf[j[1]] => Ahead(j, v)
      BY DEF HearInv
    <2>2. InboxOK(j)'
      BY <1>4, <1>5, <1>12, <2>1 DEF InboxOK
    <2>3. ASSUME NEW v \in Socket, ProcOf[v] = ProcOf[j[1]]
          PROVE  Ahead(j, v)'
      <3>1. CASE v = s /\ j[2] = t
        <4>1. listener[j].state = "none"
          BY <1>2, <1>12, <2>3, <3>1, ListenerParts DEF HearInv, RunsOnce, Current
        <4>2. listener[j].inbox = <<>> /\ listener[j].todo = {}
          BY <2>1, <4>1 DEF InboxOK
        <4> QED
          BY <1>4, <1>12, <4>2 DEF Ahead
      <3>2. CASE ~(v = s /\ j[2] = t)
        <4>1. heard'[v][j[2]] = heard[v][j[2]]
          BY <1>7, <3>2, ListenerParts
        <4> QED
          BY <1>4, <1>12, <2>1, <2>3, <4>1 DEF Ahead
      <3> QED
        BY <3>1, <3>2
    <2> QED
      BY <2>2, <2>3
  <1>13. HearInv'
    BY <1>8, <1>9, <1>10, <1>11, <1>12 DEF HearInv
  <1>14. UNCHANGED heard \/ Abstract!Hear(s, t, n)
    BY <1>0, <1>2, <1>3, <1>5, <1>6 DEF Abstract!Hear
  <1> QED
    BY <1>0, <1>2, <1>5, <1>13, <1>14

\* A new message is newer than all others of its topic.
LEMMA PublishHears ==
  ASSUME IndInv, HearInv, NEW t \in Topic, Publish(t)
  PROVE  HearInv' /\ Abstract!Publish(t)
  <1> USE DEF registry
  <1>0. TypeOK
    BY DEF IndInv
  <1>1. /\ published[t] \in Nat /\ published' = [published EXCEPT ![t] = published[t] + 1]
        /\ UNCHANGED <<heard, tasks>>
    BY <1>0 DEF Publish, TypeOK
  <1>2. \A u \in Topic : /\ published[u] \in Nat
                         /\ published'[u] = IF u = t THEN published[u] + 1 ELSE published[u]
    BY <1>0, <1>1 DEF TypeOK
  <1>3. \A k \in Listener :
          /\ listener'[k].state = listener[k].state
          /\ listener'[k].message = listener[k].message
          /\ listener'[k].todo = listener[k].todo
          /\ listener'[k].inbox = IF k[2] = t /\ listener[k].state = "listening"
                                    THEN Append(listener[k].inbox, published[t] + 1)
                                    ELSE listener[k].inbox
    BY <1>0 DEF Publish, TypeOK, Task
  <1>4. RunsOnce'
    BY <1>1, <1>3 DEF HearInv, RunsOnce, Current
  <1>5. \A v \in Socket, u \in Topic : heard[v][u] \in Seq(Nat)
    BY <1>0 DEF TypeOK
  <1>6. HeardOK'
    <2> SUFFICES ASSUME NEW v \in Socket, NEW u \in Topic, NEW i \in DOMAIN heard[v][u]
                 PROVE  heard[v][u][i] <= published'[u]
      BY <1>1 DEF HeardOK
    <2>1. heard[v][u][i] <= published[u] /\ heard[v][u][i] \in Nat
      BY <1>5 DEF HearInv, HeardOK
    <2> QED
      BY <1>2, <2>1
  <1>7. ASSUME NEW k \in Listener
        PROVE  InboxOK(k)' /\ \A v \in Socket : ProcOf[v] = ProcOf[k[1]] => Ahead(k, v)'
    <2>1. /\ InboxOK(k) /\ \A v \in Socket : ProcOf[v] = ProcOf[k[1]] => Ahead(k, v)
          /\ listener[k].inbox \in Seq(Nat) /\ listener[k].message \in Nat
          /\ k[2] \in Topic /\ published[k[2]] \in Nat
      BY <1>0, TaskFields, ListenerParts DEF HearInv
    <2>2. CASE ~(k[2] = t /\ listener[k].state = "listening")
      <3>1. published[k[2]] <= published'[k[2]]
        BY <1>2, <2>1
      <3>2. published'[k[2]] \in Nat /\ listener'[k].inbox = listener[k].inbox
        BY <1>2, <1>3, <2>1, <2>2
      <3>3. \A i \in DOMAIN listener[k].inbox : listener[k].inbox[i] \in Nat
        BY <2>1
      <3>4. InboxOK(k)'
        BY <1>3, <2>1, <3>1, <3>2, <3>3 DEF InboxOK
      <3> QED
        BY <1>1, <1>3, <2>1, <3>2, <3>4 DEF Ahead
    <2>3. CASE k[2] = t /\ listener[k].state = "listening"
      <3> DEFINE old == listener[k].inbox
                 new == listener'[k].inbox
      <3>1. /\ new = Append(old, published[t] + 1) /\ old \in Seq(Nat)
            /\ published'[t] = published[t] + 1
        BY <1>2, <1>3, <2>1, <2>3
      <3>2. \A i \in DOMAIN new :
              \/ i \in DOMAIN old /\ new[i] = old[i] /\ old[i] \in Nat /\ i < Len(new)
              \/ new[i] = published[t] + 1 /\ i = Len(new)
        BY <1>1, <3>1
      <3>3. DOMAIN new = 1 .. Len(new) /\ Len(new) \in Nat
        BY <1>1, <3>1
      <3>4. /\ listener[k].message <= published[t]
            /\ \A i \in DOMAIN old : listener[k].message < old[i] /\ old[i] <= published[t]
        BY <2>1, <2>3 DEF InboxOK
      <3>5. \A i, j \in DOMAIN old : i < j => old[i] < old[j]
        BY <2>1 DEF InboxOK
      <3> HIDE DEF old, new
      <3>6. ASSUME NEW i \in DOMAIN new
            PROVE  /\ listener[k].message < new[i] /\ new[i] <= published'[t]
                   /\ \A j \in DOMAIN new : i < j => new[i] < new[j]
        <4>1. listener[k].message < new[i] /\ new[i] <= published'[t]
          BY <1>1, <2>1, <3>1, <3>2, <3>4
        <4>2. ASSUME NEW j \in DOMAIN new, i < j
              PROVE  new[i] < new[j]
          <5>1. i \in DOMAIN old /\ new[i] = old[i] /\ old[i] \in Nat /\ old[i] <= published[t]
            BY <3>2, <3>3, <3>4, <4>2
          <5>2. CASE j \in DOMAIN old /\ new[j] = old[j]
            BY <3>5, <4>2, <5>1, <5>2
          <5>3. CASE new[j] = published[t] + 1
            BY <1>1, <5>1, <5>3
          <5> QED
            BY <3>2, <5>2, <5>3
        <4> QED
          BY <4>1, <4>2
      <3>7. InboxOK(k)'
        <4>1. listener[k].message <= published'[t]
          BY <1>1, <2>1, <3>1, <3>4
        <4>2. \A i \in DOMAIN listener'[k].inbox :
                /\ listener[k].message < listener'[k].inbox[i]
                /\ listener'[k].inbox[i] <= published'[t]
                /\ \A j \in DOMAIN listener'[k].inbox :
                     i < j => listener'[k].inbox[i] < listener'[k].inbox[j]
          BY <3>6 DEF new
        <4> QED
          BY <1>3, <2>1, <2>3, <4>1, <4>2 DEF InboxOK
      <3>8. ASSUME NEW v \in Socket, ProcOf[v] = ProcOf[k[1]]
            PROVE  Ahead(k, v)'
        <4>1. ASSUME NEW i \in DOMAIN heard[v][t], NEW j \in DOMAIN new
              PROVE  heard[v][t][i] < new[j]
          <5>1. heard[v][t][i] <= published[t] /\ heard[v][t][i] \in Nat
            BY <1>5 DEF HearInv, HeardOK
          <5>2. j \in DOMAIN old => heard[v][t][i] < old[j]
            BY <2>1, <2>3, <3>8 DEF Ahead, old
          <5> QED
            BY <1>1, <3>2, <5>1, <5>2
        <4>2. \A i \in DOMAIN heard[v][t], j \in DOMAIN listener'[k].inbox :
                heard[v][t][i] < listener'[k].inbox[j]
          BY <4>1 DEF new
        <4> QED
          BY <1>1, <1>3, <2>1, <2>3, <3>8, <4>2 DEF Ahead
      <3> QED
        BY <3>7, <3>8
    <2> QED
      BY <2>2, <2>3
  <1>8. Abstract!Publish(t)
    BY <1>1 DEF Abstract!Publish, Publish
  <1> QED
    BY <1>4, <1>6, <1>7, <1>8 DEF HearInv

\* A step is one of Broadcast, or changes nothing of it.
LEMMA StepHears ==
  ASSUME IndInv, HearInv, [Next]_vars
  PROVE  HearInv' /\ [Abstract!Next]_(Abstract!vars)
  <1> USE DEF registry
  <1>1. CASE UNCHANGED vars
    <2>1. RunsOnce'
      BY <1>1 DEF vars, HearInv, RunsOnce, Current
    <2> QED
      BY <1>1, <2>1, HearKept DEF vars, Abstract!vars
  <1>2. CASE \E s \in Socket : Endpoint(s) \/ Leave(s)
    BY <1>2, EndpointHears DEF Abstract!vars
  <1>3. CASE \E k \in Listener : Deliver(k) \/ SubscribeFails(k) \/ ListenFails(k)
    <2>1. PICK k \in Listener : Deliver(k) \/ SubscribeFails(k) \/ ListenFails(k)
      BY <1>3
    <2>2. CASE \E s \in listener[k].todo : Send(k, s)
      <3>1. PICK s \in listener[k].todo : Send(k, s)
        BY <2>2
      <3>2. /\ HearInv' /\ UNCHANGED published
            /\ UNCHANGED heard \/ Abstract!Hear(s, k[2], listener[k].message)
            /\ k[2] \in Topics(s) /\ s \in Socket
            /\ listener[k].message \in 1 .. published[k[2]]
        BY <3>1, SendHears
      <3> QED
        BY <3>2 DEF Abstract!Next, Abstract!vars
    <2>3. CASE Listen(k) \/ SubscribeFails(k) \/ ListenFails(k) \/ Unsubscribe(k)
      BY <2>3, TaskHears DEF Abstract!vars
    <2>4. CASE Take(k) \/ Prune(k)
      BY <2>4, TakeHears DEF Abstract!vars
    <2> QED
      BY <2>1, <2>2, <2>3, <2>4 DEF Deliver
  <1>4. CASE \E t \in Topic : Publish(t)
    BY <1>4, PublishHears DEF Abstract!Next
  <1>5. CASE \E u \in User : Expire(u)
    <2>1. UNCHANGED <<tasks, listener, published, heard>>
      BY <1>5 DEF Expire
    <2>2. RunsOnce'
      BY <2>1 DEF HearInv, RunsOnce, Current
    <2> QED
      BY <2>1, <2>2, HearKept DEF Abstract!vars
  <1> QED
    BY <1>1, <1>2, <1>3, <1>4, <1>5 DEF Next

\* The connection managers of all processes implement Broadcast: a socket hears
\* its own topics only, in the order of publication, and no message twice.
THEOREM ImplementsBroadcast == Spec => Hears
  <1>1. Init => Abstract!Init
    BY DEF Init, Abstract!Init
  <1>2. IndInv /\ HearInv /\ [Next]_vars => HearInv' /\ [Abstract!Next]_(Abstract!vars)
    BY StepHears
  <1> QED
    BY <1>1, <1>2, InitHearInv, Invariance, PTL DEF Spec, Hears, Abstract!Spec
===============================================================================

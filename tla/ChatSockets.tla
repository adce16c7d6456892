----------------------------- MODULE ChatSockets -----------------------------
(***************************************************************************)
(* The chat's WebSocket endpoint (modules/chat/ws_router.py), the          *)
(* ConnectionManager of each process (ws_manager.py) and the online keys   *)
(* (presence.py), over Redis Pub/Sub.                                      *)
(*                                                                         *)
(* A process runs its endpoints and listener tasks on one event loop: what *)
(* a coroutine does between two awaits is one step, and anything may       *)
(* happen at an await.  The manager keeps the same two things for rooms    *)
(* and for users: the sockets to deliver to (_connections and              *)
(* _user_connections) and the task that listens to Redis for them          *)
(* (_room_listener_tasks and _user_listener_tasks).  Here both are topics. *)
(***************************************************************************)
EXTENDS Integers, Sequences, FiniteSets

CONSTANTS
  Socket,      \* WebSocket connections, each accepted once
  Process,     \* server processes, each with its ConnectionManager
  Room, User,  \* both are topics of Redis Pub/Sub
  NoSocket,
  ProcOf, RoomOf, UserOf,  \* where a socket is connected, for whom
  MaxMessage,  \* bound: messages published to each topic
  MaxFault     \* bound: failures of Redis

Topic == Room \cup User

ASSUME ChatAssumption ==
  /\ NoSocket \notin Socket
  /\ Room \cap User = {}
  /\ ProcOf \in [Socket -> Process]
  /\ RoomOf \in [Socket -> Room]
  /\ UserOf \in [Socket -> User]
  /\ MaxMessage \in [Topic -> Nat] /\ MaxFault \in Nat

VARIABLES
  pc,         \* how far the endpoint of each socket is
  alive,      \* the peer still takes what is sent to it
  members,    \* _connections and _user_connections of each process
  known,      \* sockets in _ws_to_room and _ws_to_user of their process
  tasks,      \* the listener tasks by topic: the socket that started them
  listener,   \* the tasks, by the socket that started them and the topic
  online,     \* Redis: users whose chat:online key is set
  published,  \* Redis: number of messages published to each topic
  heard,      \* numbers of the messages a socket has had, by topic
  faults

registry == <<members, known, tasks>>
vars == <<pc, alive, registry, listener, online, published, heard, faults>>

-------------------------------------------------------------------------------
Topics(s) == {RoomOf[s], UserOf[s]}

\* A process has started at most one task for each of its sockets and topics.
Listener == {k \in Socket \X Topic : k[2] \in Topics(k[1])}

PC == {"new", "registered", "marked", "confirmed", "open", "leaving",
       "dropping", "dropped", "closed"}

Task == [state : {"none", "starting", "listening", "ending"}, inbox : Seq(Nat),
         message : Nat, todo : SUBSET Socket, dead : SUBSET Socket]

NoTask == [state |-> "none", inbox |-> <<>>, message |-> 0, todo |-> {}, dead |-> {}]

\* The sockets a task delivers to, and whether the manager still refers to it.
Members(k) == members[ProcOf[k[1]]][k[2]]
Current(k) == tasks[ProcOf[k[1]]][k[2]] = k[1]

\* The task of a socket's topic, if there is one.
TaskOf(s, t) == <<tasks[ProcOf[s]][t], t>>
Served(s, t) ==
  /\ tasks[ProcOf[s]][t] # NoSocket
  /\ listener[TaskOf(s, t)].state \in {"starting", "listening"}

-------------------------------------------------------------------------------
Init ==
  /\ pc = [s \in Socket |-> "new"]
  /\ alive = [s \in Socket |-> TRUE]
  /\ members = [p \in Process |-> [t \in Topic |-> {}]]
  /\ known = {}
  /\ tasks = [p \in Process |-> [t \in Topic |-> NoSocket]]
  /\ listener = [k \in Listener |-> NoTask]
  /\ online = {}
  /\ published = [t \in Topic |-> 0]
  /\ heard = [s \in Socket |-> [t \in Topic |-> <<>>]]
  /\ faults = 0

Goto(s, from, to) == pc[s] = from /\ pc' = [pc EXCEPT ![s] = to]

\* A call to Redis fails.
Fault == faults < MaxFault /\ faults' = faults + 1

-------------------------------------------------------------------------------
(* The endpoint, from the accepted socket to the end of its finally block. *)

\* Token, room and enrolment are valid: the socket enters all four maps.
Register(s) ==
  LET p == ProcOf[s]
  IN  /\ Goto(s, "new", "registered")
      /\ members' = [members EXCEPT ![p][RoomOf[s]] = @ \cup {s},
                                    ![p][UserOf[s]] = @ \cup {s}]
      /\ known' = known \cup {s}
      /\ UNCHANGED <<alive, tasks, listener, online, published, heard, faults>>

\* Mistaken form of MarkOnline: the key is made from the room.
MarkOnline_Room(s) ==
  /\ Goto(s, "registered", "marked")
  /\ online' = online \cup {RoomOf[s]}
  /\ UNCHANGED <<alive, registry, listener, published, heard, faults>>

\* setex, zadd and mark_online; each failure is swallowed.
MarkOnline(s) ==
  /\ Goto(s, "registered", "marked")
  /\ \/ online' = online \cup {UserOf[s]} /\ UNCHANGED faults
     \/ Fault /\ UNCHANGED online
  /\ UNCHANGED <<alive, registry, listener, published, heard>>

\* The "connected" frame; to a peer that has gone, send_text raises.
Confirm(s) ==
  /\ Goto(s, "marked", IF alive[s] THEN "confirmed" ELSE "leaving")
  /\ UNCHANGED <<alive, registry, listener, online, published, heard, faults>>

\* ensure_room_subscription and ensure_user_subscription start a task where
\* none is registered; a task that is ending is not done yet.
Start(s, topics) ==
  /\ tasks' = [tasks EXCEPT ![ProcOf[s]] =
                 [t \in Topic |-> IF t \in topics THEN s ELSE @[t]]]
  /\ listener' = [k \in Listener |->
                    IF k[1] = s /\ k[2] \in topics
                      THEN [NoTask EXCEPT !.state = "starting"]
                      ELSE listener[k]]

\* Mistaken form of Subscribe: a task is started without looking for one.
Subscribe_Always(s) ==
  /\ Goto(s, "confirmed", "open")
  /\ Start(s, Topics(s))
  /\ UNCHANGED <<alive, members, known, online, published, heard, faults>>

Subscribe(s) ==
  /\ Goto(s, "confirmed", "open")
  /\ Start(s, {t \in Topics(s) : tasks[ProcOf[s]][t] = NoSocket})
  /\ UNCHANGED <<alive, members, known, online, published, heard, faults>>

\* A ping every 30 seconds sets the key again; a failure is swallowed.
Ping(s) ==
  /\ pc[s] = "open" /\ alive[s]
  /\ online' = online \cup {UserOf[s]}
  /\ UNCHANGED <<pc, alive, registry, listener, published, heard, faults>>

\* The receive loop ends: the peer has gone, has been silent for 70 seconds, or
\* a frame's handler raised (a publish that failed, for one).
Quit(s) ==
  /\ Goto(s, "open", "leaving")
  /\ UNCHANGED <<alive, registry, listener, online, published, heard, faults>>

Without(s) ==
  [members EXCEPT ![ProcOf[s]] = [t \in Topic |-> @[t] \ {s}]]

\* Mistaken form of Cancelled: nobody asks whether the lists are empty.
Cancelled_Unasked(s) == Topics(s)

\* Topics of s that have no socket left in its process are no longer listened to.
Cancelled(s) == {t \in Topics(s) : members[ProcOf[s]][t] \subseteq {s}}

\* Does the user keep another socket in this room and process?
Stays(s) == \E v \in members[ProcOf[s]][RoomOf[s]] \ {s} : UserOf[v] = UserOf[s]

\* manager.disconnect up to its first await.  A socket that delivery has pruned
\* is not known any more: nothing is removed, and no task is cancelled.
Disconnect(s) ==
  LET gone == Cancelled(s)
  IN  IF s \in known
        THEN /\ Goto(s, "leaving", IF Stays(s) THEN "dropped" ELSE "dropping")
             /\ known' = known \ {s}
             /\ members' = Without(s)
             /\ tasks' = [tasks EXCEPT ![ProcOf[s]] =
                            [t \in Topic |-> IF t \in gone THEN NoSocket ELSE @[t]]]
             /\ listener' = [k \in Listener |->
                               IF k[2] \in gone /\ ProcOf[k[1]] = ProcOf[s] /\ Current(k)
                                 THEN NoTask ELSE listener[k]]
             /\ UNCHANGED <<alive, online, published, heard, faults>>
        ELSE /\ Goto(s, "leaving", "dropped")
             /\ UNCHANGED <<alive, registry, listener, online, published, heard, faults>>

\* The rest of manager.disconnect: where it raises, nothing that follows it in
\* the endpoint's finally block is done.
DropKey(s) ==
  /\ pc[s] = "dropping"
  /\ \/ /\ pc' = [pc EXCEPT ![s] = "dropped"]
        /\ online' = online \ {UserOf[s]}
        /\ UNCHANGED <<alive, faults>>
     \/ /\ pc' = [pc EXCEPT ![s] = "closed"]
        /\ alive' = [alive EXCEPT ![s] = FALSE]
        /\ Fault
        /\ online' \in {online, online \ {UserOf[s]}}
  /\ UNCHANGED <<registry, listener, published, heard>>

\* Mistaken form of GoOffline: the key is left to manager.disconnect.
GoOffline_Trusting(s) ==
  /\ Goto(s, "dropped", "closed")
  /\ alive' = [alive EXCEPT ![s] = FALSE]
  /\ UNCHANGED <<registry, listener, online, published, heard, faults>>

\* mark_offline, which asks for no other socket of the user; a failure is
\* swallowed.  The endpoint returns, and with it the connection is closed.
GoOffline(s) ==
  /\ Goto(s, "dropped", "closed")
  /\ alive' = [alive EXCEPT ![s] = FALSE]
  /\ \/ online' = online \ {UserOf[s]} /\ UNCHANGED faults
     \/ Fault /\ UNCHANGED online
  /\ UNCHANGED <<registry, listener, published, heard>>

Endpoint(s) ==
  \/ Register(s) \/ MarkOnline(s) \/ Confirm(s) \/ Subscribe(s)
  \/ Ping(s) \/ Quit(s) \/ Disconnect(s) \/ DropKey(s) \/ GoOffline(s)

-------------------------------------------------------------------------------
(* A listener task: start_subscription_listener, _deliver_local and their  *)
(* twins for users.                                                        *)

Set(k, task) == listener' = [listener EXCEPT ![k] = task]

\* The task is done: to the manager it is as if it were not registered.
Drop(k) ==
  tasks' = IF Current(k) THEN [tasks EXCEPT ![ProcOf[k[1]]][k[2]] = NoSocket]
                         ELSE tasks

Listen(k) ==
  /\ listener[k].state = "starting"
  /\ Set(k, [listener[k] EXCEPT !.state = "listening"])
  /\ UNCHANGED <<pc, alive, registry, online, published, heard, faults>>

\* subscribe is outside the try: the task ends with the exception.
SubscribeFails(k) ==
  /\ listener[k].state = "starting"
  /\ Fault
  /\ Set(k, NoTask)
  /\ Drop(k)
  /\ UNCHANGED <<pc, alive, members, known, online, published, heard>>

\* listen() raises; the task goes on to unsubscribe, and is not done before.
ListenFails(k) ==
  /\ listener[k].state = "listening" /\ listener[k].message = 0
  /\ Fault
  /\ Set(k, [NoTask EXCEPT !.state = "ending"])
  /\ UNCHANGED <<pc, alive, registry, online, published, heard>>

Unsubscribe(k) ==
  /\ listener[k].state = "ending"
  /\ Set(k, NoTask)
  /\ Drop(k)
  /\ UNCHANGED <<pc, alive, members, known, online, published, heard, faults>>

\* The next message, to be sent to the sockets that are members by now.
Take(k) ==
  LET task == listener[k]
  IN  /\ task.state = "listening" /\ task.message = 0 /\ task.inbox # <<>>
      /\ Set(k, [task EXCEPT !.message = Head(task.inbox), !.inbox = Tail(@),
                             !.todo = Members(k)])
      /\ UNCHANGED <<pc, alive, registry, online, published, heard, faults>>

\* Mistaken form of Send: a dead socket ends the delivery.
Send_StopsAtDead(k, s) ==
  LET task == listener[k]
  IN  /\ s \in task.todo
      /\ IF alive[s]
           THEN /\ heard' = [heard EXCEPT ![s][k[2]] = Append(@, task.message)]
                /\ Set(k, [task EXCEPT !.todo = @ \ {s}])
           ELSE /\ Set(k, [task EXCEPT !.todo = {}, !.dead = @ \cup {s}])
                /\ UNCHANGED heard
      /\ UNCHANGED <<pc, alive, registry, online, published, faults>>

Send(k, s) ==
  LET task == listener[k]
  IN  /\ s \in task.todo
      /\ IF alive[s]
           THEN /\ heard' = [heard EXCEPT ![s][k[2]] = Append(@, task.message)]
                /\ Set(k, [task EXCEPT !.todo = @ \ {s}])
           ELSE /\ Set(k, [task EXCEPT !.todo = @ \ {s}, !.dead = @ \cup {s}])
                /\ UNCHANGED heard
      /\ UNCHANGED <<pc, alive, registry, online, published, faults>>

\* Dead sockets leave the list.  Of a room they leave the reverse maps too, of
\* a user they do not.
Prune(k) ==
  LET task == listener[k]
  IN  /\ task.message # 0 /\ task.todo = {}
      /\ members' = [members EXCEPT ![ProcOf[k[1]]][k[2]] = @ \ task.dead]
      /\ known' = IF k[2] \in Room THEN known \ task.dead ELSE known
      /\ Set(k, [task EXCEPT !.message = 0, !.dead = {}])
      /\ UNCHANGED <<pc, alive, tasks, online, published, heard, faults>>

Deliver(k) ==
  \/ Listen(k) \/ Unsubscribe(k) \/ Take(k) \/ Prune(k)
  \/ \E s \in listener[k].todo : Send(k, s)

-------------------------------------------------------------------------------
(* Redis, the peers and the publishers.                                    *)

\* A handler of any process publishes to a topic: who listens gets it.
Publish(t) ==
  LET n == published[t] + 1
  IN  /\ n <= MaxMessage[t]
      /\ published' = [published EXCEPT ![t] = n]
      /\ listener' = [k \in Listener |->
                        IF k[2] = t /\ listener[k].state = "listening"
                          THEN [listener[k] EXCEPT !.inbox = Append(@, n)]
                          ELSE listener[k]]
      /\ UNCHANGED <<pc, alive, registry, online, heard, faults>>

\* 65 seconds without a ping.
Expire(u) ==
  /\ u \in online
  /\ online' = online \ {u}
  /\ UNCHANGED <<pc, alive, registry, listener, published, heard, faults>>

\* The browser closes the socket, or the network does.
Leave(s) ==
  /\ alive[s] /\ pc[s] # "new"
  /\ alive' = [alive EXCEPT ![s] = FALSE]
  /\ UNCHANGED <<pc, registry, listener, online, published, heard, faults>>

Next ==
  \/ \E s \in Socket : Endpoint(s) \/ Leave(s)
  \/ \E k \in Listener : Deliver(k) \/ SubscribeFails(k) \/ ListenFails(k)
  \/ \E t \in Topic : Publish(t)
  \/ \E u \in User : Expire(u)

Spec == Init /\ [][Next]_vars

(***************************************************************************)
(* Fairness.  The event loop resumes what can run, Redis answers, and a    *)
(* send to a peer returns or fails.  An endpoint learns that its peer has  *)
(* gone (receive raises, or times out).  Nothing obliges a peer to connect *)
(* or leave, a handler to publish, or Redis to fail.                       *)
(***************************************************************************)
Fairness ==
  /\ \A s \in Socket :
       /\ WF_vars(MarkOnline(s) \/ Confirm(s) \/ Subscribe(s))
       /\ WF_vars(Disconnect(s) \/ DropKey(s) \/ GoOffline(s))
       /\ WF_vars(~alive[s] /\ Quit(s))
  /\ \A k \in Listener : WF_vars(Deliver(k))

FairSpec == Spec /\ Fairness

-------------------------------------------------------------------------------
(* Properties.                                                             *)

\* Every variable has its type.
TypeOK ==
  /\ pc \in [Socket -> PC]
  /\ alive \in [Socket -> BOOLEAN]
  /\ members \in [Process -> [Topic -> SUBSET Socket]]
  /\ known \subseteq Socket
  /\ tasks \in [Process -> [Topic -> Socket \cup {NoSocket}]]
  /\ listener \in [Listener -> Task]
  /\ online \subseteq User
  /\ published \in [Topic -> Nat]
  /\ heard \in [Socket -> [Topic -> Seq(Nat)]]
  /\ faults \in 0 .. MaxFault

\* As long as Redis has not failed, an endpoint in its receive loop whose peer
\* is there has a task that listens for its room and for its user, whoever else
\* comes and goes (disconnect cancels the task of a list that is empty only).
OpenIsServed ==
  faults = 0 =>
    \A s \in Socket : pc[s] = "open" /\ alive[s] =>
      \A t \in Topics(s) : s \in members[ProcOf[s]][t] /\ Served(s, t)

\* As long as Redis has not failed, a user who is shown online has an endpoint
\* that is not done yet: the last to go takes the key along, the endpoints whose
\* sockets were pruned included.
OnlineHasEndpoint ==
  faults = 0 =>
    \A u \in online : \E s \in Socket : UserOf[s] = u /\ pc[s] \notin {"new", "closed"}

\* Sockets hear their own topics only, in order and nothing twice, although a
\* process has many sockets and starts and cancels tasks as they come and go.
Abstract == INSTANCE Broadcast
Hears == Abstract!Spec

\* What is published while a socket is in its receive loop, and its process
\* subscribed, reaches it unless it leaves or Redis fails, whether or not other
\* sockets of the room turn out to be dead.
Awaited(s, t, n) ==
  /\ pc[s] = "open" /\ alive[s] /\ Served(s, t)
  /\ \E i \in DOMAIN listener[TaskOf(s, t)].inbox : listener[TaskOf(s, t)].inbox[i] = n

Has(s, t, n) == \E i \in DOMAIN heard[s][t] : heard[s][t][i] = n

MessagesArrive ==
  \A s \in Socket : \A t \in Topics(s) : \A n \in 1 .. MaxMessage[t] :
    Awaited(s, t, n) ~>
      Has(s, t, n) \/ ~alive[s] \/ pc[s] # "open" \/ faults > 0

-------------------------------------------------------------------------------
(* The inductive strengthening that ChatSocketsProofs proves.              *)

\* The registry lists a socket under its own process and topics only.
MembersOK ==
  \A p \in Process, t \in Topic : \A s \in members[p][t] :
    ProcOf[s] = p /\ t \in Topics(s)

\* Until its endpoint disconnects, a socket whose peer is there stays in all four
\* maps: delivery prunes only sockets it found dead.
RegistryOK ==
  \A s \in Socket :
    pc[s] \in {"registered", "marked", "confirmed", "open", "leaving"} /\ alive[s] =>
      s \in known /\ \A t \in Topics(s) : s \in members[ProcOf[s]][t]

DeadOK == \A k \in Listener : \A s \in listener[k].dead : ~alive[s]

\* The manager refers to tasks of its own; until Redis fails, they all run.
TasksOK ==
  /\ \A p \in Process, t \in Topic :
       tasks[p][t] # NoSocket => ProcOf[tasks[p][t]] = p /\ t \in Topics(tasks[p][t])
  /\ faults = 0 =>
       /\ \A k \in Listener : listener[k].state # "ending"
       /\ \A p \in Process, t \in Topic : tasks[p][t] # NoSocket =>
            listener[<<tasks[p][t], t>>].state \in {"starting", "listening"}

IndInv ==
  /\ TypeOK /\ MembersOK /\ RegistryOK /\ DeadOK /\ TasksOK
  /\ OpenIsServed /\ OnlineHasEndpoint
===============================================================================

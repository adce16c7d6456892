----------------------- MODULE ReconnectingSocketProofs -----------------------
(***************************************************************************)
(* Proofs about ReconnectingSocket for every set of rooms and every bound: *)
(* however many objects a page leaves behind and however often each is     *)
(* dropped, rejected and woken again, IndInv is kept.  Every step changes  *)
(* one object and the WebSockets of that object.                           *)
(***************************************************************************)
EXTENDS ReconnectingSocket, FiniteSetTheorems, FunctionTheorems, TLAPS

(***************************************************************************)
(* Lemmas about sequences.                                                 *)
(***************************************************************************)

\* A member of a sequence is one of its set.
LEMMA SeqMember ==
  ASSUME NEW S, NEW s \in Seq(S), NEW i \in DOMAIN s
  PROVE  s[i] \in S /\ i \in 1 .. Len(s) /\ Len(s) \in Nat
  OBVIOUS

\* One member of a sequence is replaced.
LEMMA SeqReplace ==
  ASSUME NEW S, NEW s \in Seq(S), NEW i \in DOMAIN s, NEW x \in S
  PROVE  LET t == [s EXCEPT ![i] = x]
         IN  /\ t \in Seq(S) /\ Len(t) = Len(s) /\ DOMAIN t = DOMAIN s /\ t[i] = x
             /\ \A k \in DOMAIN s : k # i => t[k] = s[k]
  OBVIOUS

\* Every member of a sequence is replaced.
LEMMA SeqMap ==
  ASSUME NEW S, NEW s \in Seq(S), NEW t, DOMAIN t = DOMAIN s,
         t = [i \in DOMAIN t |-> t[i]], \A i \in DOMAIN s : t[i] \in S
  PROVE  t \in Seq(S) /\ Len(t) = Len(s)
  <1>1. DOMAIN t = 1 .. Len(s) /\ Len(s) \in Nat
    OBVIOUS
  <1> QED
    BY <1>1

\* A sequence grows by one.
LEMMA SeqGrows ==
  ASSUME NEW S, NEW s \in Seq(S), NEW x \in S
  PROVE  LET t == Append(s, x)
         IN  /\ t \in Seq(S) /\ Len(t) = Len(s) + 1 /\ t[Len(s) + 1] = x
             /\ DOMAIN t = DOMAIN s \cup {Len(s) + 1} /\ Len(s) + 1 \notin DOMAIN s
             /\ \A k \in DOMAIN s : t[k] = s[k]
  OBVIOUS

(***************************************************************************)
(* Lemmas about the operators.                                             *)
(***************************************************************************)

\* The fields of an object.
LEMMA Fields ==
  ASSUME NEW b \in ChatSocket
  PROVE  /\ b.room \in Room \cup {NoRoom} /\ b.intentional \in BOOLEAN
         /\ b.attempts \in 0 .. MaxReconnect /\ b.ws \in 0 .. MaxConn
         /\ b.awaiting \in Nat /\ b.timers \in Nat /\ b.refreshes \in Nat
         /\ b.ping \in BOOLEAN /\ b.heard \in BOOLEAN
  BY DEF ChatSocket

\* A new object is one.
LEMMA NewIsObject ==
  ASSUME NEW r \in Room \cup {NoRoom}
  PROVE  LET b == NewObject(r)
         IN  b \in ChatSocket /\ b.room = r /\ b.ws = 0 /\ ~b.heard /\ Quiet(b)
  BY SocketBounds DEF NewObject, ChatSocket, Quiet, NoCode

\* A retry keeps what attemptReconnect does not touch.
LEMMA RetriedObject ==
  ASSUME NEW b \in ChatSocket
  PROVE  LET d == Retried(b)
         IN  /\ d \in ChatSocket /\ d.room = b.room /\ d.heard = b.heard /\ d.ws = b.ws
             /\ d.intentional = b.intentional /\ d.ping = b.ping
             /\ d.awaiting = b.awaiting /\ d.refreshes = b.refreshes
             /\ d.timers \in {b.timers, b.timers + 1}
  <1>1. CASE b.attempts < MaxReconnect
    <2> DEFINE d == [b EXCEPT !.attempts = @ + 1, !.timers = @ + 1]
    <2>1. b.attempts + 1 \in 0 .. MaxReconnect /\ b.timers + 1 \in Nat
      BY <1>1, SocketBounds, Fields
    <2>2. /\ d \in ChatSocket /\ d.room = b.room /\ d.heard = b.heard /\ d.ws = b.ws
          /\ d.intentional = b.intentional /\ d.ping = b.ping
          /\ d.awaiting = b.awaiting /\ d.refreshes = b.refreshes
          /\ d.timers = b.timers + 1
      BY <2>1 DEF ChatSocket
    <2> QED
      BY <1>1, <2>2 DEF Retried
  <1>2. CASE ~(b.attempts < MaxReconnect)
    BY <1>2 DEF Retried
  <1> QED
    BY <1>1, <1>2

(***************************************************************************)
(* A step that changes the object o to b, and WebSockets of o.             *)
(***************************************************************************)

\* What such a step may do to the WebSockets.
OnlyOf(o) ==
  /\ conn' \in Seq(WebSocket) /\ Len(conn') <= MaxConn
  /\ DOMAIN conn \subseteq DOMAIN conn'
  /\ \A c \in DOMAIN conn' :
       \/ c \in DOMAIN conn /\ conn'[c] = conn[c]
       \/ conn'[c].obj = o /\ (c \in DOMAIN conn => conn[c].obj = o)

LEMMA OtherChains ==
  ASSUME IndInv, NEW o \in Object, NEW b \in ChatSocket,
         obj' = [obj EXCEPT ![o] = b], OnlyOf(o), Chain(o)'
  PROVE  \A p \in Object : Chain(p)'
  <1> SUFFICES ASSUME NEW p \in Object, p # o PROVE Chain(p)'
    OBVIOUS
  <1>1. Chain(p) /\ obj \in [Object -> ChatSocket]
    BY DEF IndInv, TypeOK
  <1>2. obj'[p] = obj[p]
    BY <1>1
  <1>3. \A c \in DOMAIN conn' : conn'[c].obj = p => c \in DOMAIN conn /\ conn'[c] = conn[c]
    BY DEF OnlyOf
  <1> QED
    BY <1>1, <1>2, <1>3 DEF Chain, Live, OnlyOf

\* Such a step, where the object keeps its room and its handlers.
LEMMA ObjectStep ==
  ASSUME IndInv, NEW o \in Object, NEW b \in ChatSocket,
         obj' = [obj EXCEPT ![o] = b], OnlyOf(o), Chain(o)',
         b.room = obj[o].room, b.heard = obj[o].heard, UNCHANGED registry,
         token' \in {"old", "fresh"}, refreshing' \in BOOLEAN, page' \in BOOLEAN,
         faults' \in 0 .. MaxFault
  PROVE  IndInv'
  <1>1. obj \in [Object -> ChatSocket] /\ obj' \in [Object -> ChatSocket]
    BY DEF IndInv, TypeOK
  <1>2. TypeOK'
    BY <1>1 DEF IndInv, TypeOK, OnlyOf
  <1>3. \A p \in Object : obj'[p].room = obj[p].room /\ obj'[p].heard = obj[p].heard
    BY <1>1
  <1>4. \A r \in Room : registry[r] # 0 => registry[r] \in Object
    BY SocketBounds DEF IndInv, TypeOK, Object
  <1>5. RegistryOK'
    BY <1>3, <1>4 DEF IndInv, RegistryOK
  <1> QED
    BY <1>2, <1>5, OtherChains DEF IndInv

\* An object that is quiet and has no connection that is up or going down.
Idle(o) ==
  /\ Quiet(obj[o])
  /\ \A c \in DOMAIN conn : conn[c].obj = o => conn[c].state = "closed"

(***************************************************************************)
(* connect(), called for b, what the object o is by then.                  *)
(***************************************************************************)

\* The guard of connect and of each of its callers: nothing is going.
Ready(o, b) ==
  /\ b \in ChatSocket /\ Quiet(b) /\ b.room \in Room
  /\ b.ws # 0 => b.ws \in DOMAIN conn /\ conn[b.ws].obj = o
  /\ \A c \in DOMAIN conn : conn[c].obj = o => conn[c].state = "closed"

LEMMA OpenSocketChain ==
  ASSUME IndInv, NEW o \in Object, NEW b, Ready(o, b), OpenSocket(o, b)
  PROVE  /\ OnlyOf(o) /\ Chain(o)' /\ faults' \in 0 .. MaxFault
         /\ \E d \in ChatSocket : /\ obj' = [obj EXCEPT ![o] = d]
                                  /\ d.room = b.room /\ d.heard = b.heard
  <1>0. /\ obj \in [Object -> ChatSocket] /\ conn \in Seq(WebSocket) /\ Len(conn) \in Nat
        /\ Len(conn) <= MaxConn /\ faults \in 0 .. MaxFault
    BY DEF IndInv, TypeOK
  <1> USE SocketBounds
  <1>r. b.room # NoRoom
    BY DEF Ready
  <1>1. CASE Len(conn) < MaxConn /\ UNCHANGED faults
             /\ conn' = Append(conn, [obj |-> o, state |-> "connecting",
                                      served |-> FALSE, good |-> token = "fresh"])
             /\ obj' = [obj EXCEPT ![o] = [b EXCEPT !.ws = Len(conn) + 1]]
    <2> DEFINE n == Len(conn) + 1
               x == [obj |-> o, state |-> "connecting",
                     served |-> FALSE, good |-> token = "fresh"]
               d == [b EXCEPT !.ws = n]
    <2>1. x \in WebSocket /\ x.obj = o /\ x.state = "connecting"
      BY DEF WebSocket
    <2>2. /\ d \in ChatSocket /\ d.ws = n /\ d.room = b.room /\ d.heard = b.heard
          /\ Quiet(d)
      <3>1. n \in 0 .. MaxConn
        BY <1>0, <1>1
      <3> HIDE DEF n
      <3> QED
        BY <3>1 DEF Ready, ChatSocket, Quiet
    <2>3. conn' = Append(conn, x) /\ obj' = [obj EXCEPT ![o] = d]
      BY <1>1
    <2> HIDE DEF x, d
    <2>4. /\ conn' \in Seq(WebSocket) /\ Len(conn') = n /\ conn'[n] = x
          /\ DOMAIN conn' = DOMAIN conn \cup {n} /\ n \notin DOMAIN conn
          /\ \A k \in DOMAIN conn : conn'[k] = conn[k]
      BY <1>0, <2>1, <2>3, SeqGrows
    <2>5. n <= MaxConn /\ n # 0
      BY <1>0, <1>1
    <2> HIDE DEF n
    <2>6. OnlyOf(o)
      BY <2>1, <2>4, <2>5 DEF OnlyOf
    <2>7. obj'[o] = d
      BY <1>0, <2>3
    <2>8. \A c \in DOMAIN conn' : conn'[c].obj = o => c = n \/ conn'[c].state = "closed"
      BY <2>4 DEF Ready
    <2>9. Chain(o)'
      BY <1>r, <2>1, <2>2, <2>4, <2>5, <2>7, <2>8 DEF Chain, Live, Quiet
    <2> QED
      BY <1>0, <1>1, <2>2, <2>3, <2>6, <2>9
  <1>2. CASE Fault /\ obj' = [obj EXCEPT ![o] = Retried(b)] /\ UNCHANGED conn
    <2> DEFINE d == Retried(b)
    <2>1. /\ d \in ChatSocket /\ d.room = b.room /\ d.heard = b.heard /\ d.ws = b.ws
          /\ d.awaiting = b.awaiting /\ d.refreshes = b.refreshes
          /\ d.timers \in {b.timers, b.timers + 1}
      BY RetriedObject DEF Ready
    <2>2. obj' = [obj EXCEPT ![o] = d]
      BY <1>2
    <2> HIDE DEF d
    <2>3. OnlyOf(o)
      BY <1>0, <1>2 DEF OnlyOf
    <2>4. obj'[o] = d
      BY <1>0, <2>2
    <2>5. Chain(o)'
      BY <1>r, <1>2, <2>1, <2>4 DEF Chain, Live, Quiet, Ready
    <2> QED
      <3>1. faults' \in 0 .. MaxFault
        BY <1>0, <1>2 DEF Fault
      <3> QED
        BY <2>1, <2>2, <2>3, <2>5, <3>1
  <1> QED
    BY <1>1, <1>2 DEF OpenSocket

LEMMA ConnectChain ==
  ASSUME IndInv, NEW o \in Object, NEW b, Ready(o, b), Connect(o, b)
  PROVE  /\ OnlyOf(o) /\ Chain(o)' /\ faults' \in 0 .. MaxFault /\ refreshing' \in BOOLEAN
         /\ \E d \in ChatSocket : /\ obj' = [obj EXCEPT ![o] = d]
                                  /\ d.room = b.room /\ d.heard = b.heard
  <1> DEFINE d == [b EXCEPT !.intentional = FALSE]
             e == [d EXCEPT !.awaiting = @ + 1]
  <1>0. /\ obj \in [Object -> ChatSocket] /\ conn \in Seq(WebSocket)
        /\ Len(conn) <= MaxConn /\ faults \in 0 .. MaxFault /\ refreshing \in BOOLEAN
    BY DEF IndInv, TypeOK
  <1> USE SocketBounds
  <1>1. /\ d \in ChatSocket /\ d.room = b.room /\ d.heard = b.heard /\ d.ws = b.ws
        /\ Quiet(d)
    BY DEF Ready, ChatSocket, Quiet
  <1>2. /\ e \in ChatSocket /\ e.room = b.room /\ e.heard = b.heard /\ e.ws = b.ws
        /\ e.awaiting = 1 /\ e.timers = 0 /\ e.refreshes = 0
    <2> HIDE DEF d
    <2>1. d.awaiting = 0 /\ d.timers = 0 /\ d.refreshes = 0
      BY <1>1 DEF Quiet
    <2> QED
      BY <1>1, <2>1 DEF ChatSocket
  <1>3. Ready(o, d) /\ b.room # NoRoom
    BY <1>1 DEF Ready
  <1>4. \/ obj' = [obj EXCEPT ![o] = d] /\ UNCHANGED <<conn, refreshing, faults>>
        \/ obj' = [obj EXCEPT ![o] = e] /\ refreshing' = TRUE /\ UNCHANGED <<conn, faults>>
        \/ OpenSocket(o, d) /\ UNCHANGED refreshing
    BY DEF Connect
  <1> HIDE DEF d, e
  <1>5. CASE obj' = [obj EXCEPT ![o] = d] /\ UNCHANGED <<conn, refreshing, faults>>
    <2>1. OnlyOf(o)
      BY <1>0, <1>5 DEF OnlyOf
    <2>2. obj'[o] = d
      BY <1>0, <1>5
    <2>3. Chain(o)'
      BY <1>1, <1>3, <1>5, <2>2 DEF Chain, Live, Quiet, Ready
    <2> QED
      BY <1>0, <1>1, <1>5, <2>1, <2>3
  <1>6. CASE obj' = [obj EXCEPT ![o] = e] /\ refreshing' = TRUE /\ UNCHANGED <<conn, faults>>
    <2>1. OnlyOf(o)
      BY <1>0, <1>6 DEF OnlyOf
    <2>2. obj'[o] = e
      BY <1>0, <1>6
    <2>3. Chain(o)'
      BY <1>2, <1>3, <1>6, <2>2 DEF Chain, Live, Quiet, Ready
    <2> QED
      BY <1>0, <1>2, <1>6, <2>1, <2>3
  <1>7. CASE OpenSocket(o, d) /\ UNCHANGED refreshing
    BY <1>0, <1>1, <1>3, <1>7, OpenSocketChain
  <1> QED
    BY <1>4, <1>5, <1>6, <1>7

\* An object that something wakes is ready once that something is over.
LEMMA Woken ==
  ASSUME IndInv, NEW o \in Object, ~Quiet(obj[o])
  PROVE  /\ obj[o] \in ChatSocket /\ obj[o].room \in Room
         /\ obj[o].awaiting + obj[o].timers + obj[o].refreshes = 1
         /\ obj[o].ws # 0 => obj[o].ws \in DOMAIN conn /\ conn[obj[o].ws].obj = o
         /\ \A c \in DOMAIN conn : conn[c].obj = o => conn[c].state = "closed"
  <1>1. obj[o] \in ChatSocket /\ Chain(o) /\ conn \in Seq(WebSocket)
    BY DEF IndInv, TypeOK
  <1>2. /\ obj[o].room \in Room \cup {NoRoom} /\ obj[o].awaiting \in Nat
        /\ obj[o].timers \in Nat /\ obj[o].refreshes \in Nat
    BY <1>1, Fields
  <1>3. obj[o].room # NoRoom
    BY <1>1, NewIsObject DEF Chain
  <1>4. \A c \in DOMAIN conn : conn[c].state \in {"connecting", "open", "closing", "closed"}
    <2> TAKE c \in DOMAIN conn
    <2>1. conn[c] \in WebSocket
      BY <1>1, SeqMember
    <2> QED
      BY <2>1 DEF WebSocket
  <1> QED
    BY <1>1, <1>2, <1>3, <1>4 DEF Chain, Quiet, Live

(***************************************************************************)
(* The steps that wake an object.                                          *)
(***************************************************************************)

LEMMA WakeStep ==
  ASSUME IndInv, NEW o \in Object,
         TimerFires(o) \/ TokenArrives(o) \/ RefreshedAfterReject(o)
  PROVE  IndInv'
  <1>0. /\ obj[o] \in ChatSocket /\ token \in {"old", "fresh"} /\ page \in BOOLEAN
        /\ refreshing \in BOOLEAN
    BY DEF IndInv, TypeOK
  <1>1. obj[o].awaiting \in Nat /\ obj[o].timers \in Nat /\ obj[o].refreshes \in Nat
    BY <1>0, Fields
  <1>2. ~Quiet(obj[o])
    BY <1>1 DEF TimerFires, TokenArrives, RefreshedAfterReject, Quiet
  <1>3. /\ obj[o].awaiting + obj[o].timers + obj[o].refreshes = 1
        /\ obj[o].room \in Room
        /\ obj[o].ws # 0 => obj[o].ws \in DOMAIN conn /\ conn[obj[o].ws].obj = o
        /\ \A c \in DOMAIN conn : conn[c].obj = o => conn[c].state = "closed"
    BY <1>2, Woken
  <1>4. PICK b : /\ Ready(o, b) /\ b.room = obj[o].room /\ b.heard = obj[o].heard
                 /\ \/ Connect(o, b)
                    \/ OpenSocket(o, b) /\ UNCHANGED refreshing
    <2>1. CASE TimerFires(o)
      <3> DEFINE b == [obj[o] EXCEPT !.timers = @ - 1]
      <3>1. obj[o].timers = 1 /\ obj[o].awaiting = 0 /\ obj[o].refreshes = 0
        BY <1>1, <1>3, <2>1 DEF TimerFires
      <3>2. /\ b \in ChatSocket /\ b.room = obj[o].room /\ b.heard = obj[o].heard
            /\ b.ws = obj[o].ws /\ Quiet(b)
        BY <1>0, <3>1 DEF ChatSocket, Quiet
      <3>3. Connect(o, b)
        BY <2>1 DEF TimerFires
      <3> HIDE DEF b
      <3> QED
        BY <1>3, <3>2, <3>3 DEF Ready
    <2>2. CASE TokenArrives(o)
      <3> DEFINE b == [obj[o] EXCEPT !.awaiting = @ - 1]
      <3>1. obj[o].awaiting = 1 /\ obj[o].timers = 0 /\ obj[o].refreshes = 0
        <4>1. obj[o].awaiting > 0
          BY <2>2 DEF TokenArrives
        <4> QED
          BY <1>1, <1>3, <4>1
      <3>2. /\ b \in ChatSocket /\ b.room = obj[o].room /\ b.heard = obj[o].heard
            /\ b.ws = obj[o].ws /\ Quiet(b)
        BY <1>0, <3>1 DEF ChatSocket, Quiet
      <3>3. OpenSocket(o, b) /\ UNCHANGED refreshing
        BY <2>2 DEF TokenArrives
      <3> HIDE DEF b
      <3> QED
        BY <1>3, <3>2, <3>3 DEF Ready
    <2>3. CASE RefreshedAfterReject(o)
      <3> DEFINE b == [obj[o] EXCEPT !.refreshes = @ - 1, !.attempts = 0]
      <3>1. obj[o].refreshes = 1 /\ obj[o].timers = 0 /\ obj[o].awaiting = 0
        BY <1>1, <1>3, <2>3 DEF RefreshedAfterReject
      <3>2. /\ b \in ChatSocket /\ b.room = obj[o].room /\ b.heard = obj[o].heard
            /\ b.ws = obj[o].ws /\ Quiet(b)
        <4>1. 0 \in 0 .. MaxReconnect
          BY SocketBounds
        <4>2. b = [obj[o] EXCEPT !.refreshes = 0, !.attempts = 0]
          BY <3>1
        <4> HIDE DEF b
        <4> QED
          BY <1>0, <3>1, <4>1, <4>2 DEF ChatSocket, Quiet
      <3>3. Connect(o, b)
        BY <2>3 DEF RefreshedAfterReject
      <3> HIDE DEF b
      <3> QED
        BY <1>3, <3>2, <3>3 DEF Ready
    <2> QED
      BY <2>1, <2>2, <2>3
  <1>5. UNCHANGED <<registry, token, page>>
    BY DEF TimerFires, TokenArrives, RefreshedAfterReject
  <1>6. /\ OnlyOf(o) /\ Chain(o)' /\ faults' \in 0 .. MaxFault /\ refreshing' \in BOOLEAN
        /\ \E d \in ChatSocket : /\ obj' = [obj EXCEPT ![o] = d]
                                 /\ d.room = b.room /\ d.heard = b.heard
    <2>1. CASE Connect(o, b)
      BY <1>4, <2>1, ConnectChain
    <2>2. CASE OpenSocket(o, b) /\ UNCHANGED refreshing
      BY <1>0, <1>4, <2>2, OpenSocketChain
    <2> QED
      BY <1>4, <2>1, <2>2
  <1>7. PICK d \in ChatSocket : /\ obj' = [obj EXCEPT ![o] = d]
                                /\ d.room = b.room /\ d.heard = b.heard
    BY <1>6
  <1> QED
    BY <1>0, <1>4, <1>5, <1>6, <1>7, ObjectStep

(***************************************************************************)
(* The steps of a view.                                                    *)
(***************************************************************************)

LEMMA MountStep ==
  ASSUME IndInv, NEW r \in Room, Mount(r)
  PROVE  IndInv'
  <1>0. /\ obj \in [Object -> ChatSocket] /\ registry \in [Room -> 0 .. MaxObject]
        /\ token \in {"old", "fresh"} /\ page \in BOOLEAN
    BY DEF IndInv, TypeOK
  <1>1. PICK o \in Object :
          /\ registry[r] = 0 /\ obj[o].room = NoRoom
          /\ registry' = [registry EXCEPT ![r] = o]
          /\ Connect(o, [NewObject(r) EXCEPT !.heard = TRUE])
          /\ UNCHANGED <<token, page>>
    BY DEF Mount
  <1> DEFINE b == [NewObject(r) EXCEPT !.heard = TRUE]
  <1>2. /\ b \in ChatSocket /\ b.room = r /\ b.heard /\ b.ws = 0 /\ Quiet(b)
    <2> DEFINE n == NewObject(r)
    <2>1. n \in ChatSocket /\ n.room = r /\ n.ws = 0 /\ Quiet(n)
      BY NewIsObject
    <2> HIDE DEF n
    <2>2. [n EXCEPT !.heard = TRUE] \in ChatSocket
      BY <2>1 DEF ChatSocket
    <2> QED
      BY <2>1, <2>2 DEF ChatSocket, Quiet, n
  <1>3. Connect(o, b)
    BY <1>1
  <1> HIDE DEF b
  <1>4. Ready(o, b)
    BY <1>1, <1>2 DEF Ready, IndInv, Chain
  <1>5. /\ OnlyOf(o) /\ Chain(o)' /\ faults' \in 0 .. MaxFault /\ refreshing' \in BOOLEAN
        /\ \E d \in ChatSocket : /\ obj' = [obj EXCEPT ![o] = d]
                                 /\ d.room = b.room /\ d.heard = b.heard
    BY <1>3, <1>4, ConnectChain
  <1>6. PICK d \in ChatSocket : /\ obj' = [obj EXCEPT ![o] = d]
                                /\ d.room = r /\ d.heard
    BY <1>2, <1>5
  <1>7. TypeOK'
    <2>1. o \in 0 .. MaxObject
      BY SocketBounds DEF Object
    <2> QED
      BY <1>0, <1>1, <1>5, <1>6, <2>1 DEF IndInv, TypeOK, OnlyOf
  <1>8. RegistryOK'
    <2>1. ~obj[o].heard
      BY <1>1, SocketBounds DEF IndInv, RegistryOK
    <2>2. \A s \in Room : registry[s] # o
      BY <2>1, SocketBounds DEF IndInv, RegistryOK, Object
    <2>3. o # 0 /\ \A p \in Object : p # 0
      BY SocketBounds DEF Object
    <2>4. \A s \in Room : registry[s] # 0 => registry[s] \in Object
      BY <1>0, SocketBounds DEF Object
    <2>5. /\ obj'[o] = d /\ \A p \in Object : p # o => obj'[p] = obj[p]
          /\ registry'[r] = o /\ \A s \in Room : s # r => registry'[s] = registry[s]
      BY <1>0, <1>1, <1>6
    <2> QED
      BY <1>1, <1>6, <2>2, <2>3, <2>4, <2>5 DEF IndInv, RegistryOK
  <1> QED
    BY <1>5, <1>6, <1>7, <1>8, OtherChains DEF IndInv

\* disconnect() closes the connection of a quiet object, or leaves one that
\* waits to wake later.
LEMMA UnmountStep ==
  ASSUME IndInv, NEW r \in Room, Unmount(r)
  PROVE  IndInv'
  <1>p. PICK o : o = registry[r]
    OBVIOUS
  <1> DEFINE b == [obj[o] EXCEPT !.heard = FALSE, !.intentional = TRUE,
                                 !.ping = FALSE, !.ws = 0]
  <1>0. /\ obj \in [Object -> ChatSocket] /\ registry \in [Room -> 0 .. MaxObject]
        /\ conn \in Seq(WebSocket) /\ Len(conn) <= MaxConn
    BY DEF IndInv, TypeOK
  <1>1. o \in Object /\ o # 0
    BY <1>0, <1>p, SocketBounds DEF Unmount, Object
  <1>2. obj[o] \in ChatSocket /\ Chain(o) /\ obj[o].room = r
    BY <1>0, <1>1, <1>p DEF IndInv, RegistryOK
  <1>3. /\ b \in ChatSocket /\ b.ws = 0 /\ b.intentional /\ ~b.heard /\ b.room = r
        /\ b.awaiting = obj[o].awaiting /\ b.timers = obj[o].timers
        /\ b.refreshes = obj[o].refreshes
    <2>1. 0 \in 0 .. MaxConn
      BY SocketBounds
    <2> QED
      BY <1>2, <2>1 DEF ChatSocket
  <1>4. /\ obj' = [obj EXCEPT ![o] = b] /\ registry' = [registry EXCEPT ![r] = 0]
        /\ conn' = Closing(obj[o])
        /\ UNCHANGED <<token, refreshing, page, faults>>
    BY <1>2, <1>p DEF Unmount, Disconnected, ChatSocket
  <1> HIDE DEF b
  <1>5. /\ DOMAIN conn' = DOMAIN conn /\ conn' \in Seq(WebSocket) /\ Len(conn') <= MaxConn
        /\ \A c \in DOMAIN conn :
             \/ conn'[c] = conn[c] /\ (c = obj[o].ws => conn[c].state = "closed")
             \/ /\ c = obj[o].ws /\ conn[c].obj = o /\ conn'[c].obj = o
                /\ conn[c].state # "closed" /\ conn'[c].state = "closing"
    <2>1. CASE obj[o].ws = 0 \/ conn[obj[o].ws].state = "closed"
      <3>1. \A c \in DOMAIN conn : c # 0
        BY <1>0
      <3> QED
        BY <1>0, <1>4, <2>1, <3>1 DEF Closing
    <2>2. CASE obj[o].ws # 0 /\ conn[obj[o].ws].state # "closed"
      <3> DEFINE k == obj[o].ws
                 x == [conn[k] EXCEPT !.state = "closing"]
      <3>1. k \in DOMAIN conn /\ conn[k].obj = o
        BY <1>2, <2>2 DEF Chain
      <3>2. conn[k] \in WebSocket
        BY <1>0, <3>1, SeqMember
      <3>3. x \in WebSocket /\ x.obj = o /\ x.state = "closing"
        BY <3>1, <3>2 DEF WebSocket
      <3>4. conn' = [conn EXCEPT ![k] = x]
        BY <1>4, <2>2 DEF Closing
      <3> HIDE DEF k, x
      <3>5. /\ conn' \in Seq(WebSocket) /\ Len(conn') = Len(conn) /\ DOMAIN conn' = DOMAIN conn
            /\ conn'[k] = x /\ \A c \in DOMAIN conn : c # k => conn'[c] = conn[c]
        BY <1>0, <3>1, <3>3, <3>4, SeqReplace
      <3> QED
        BY <1>0, <2>2, <3>1, <3>3, <3>5 DEF k
    <2> QED
      BY <2>1, <2>2
  <1>6. OnlyOf(o)
    BY <1>5 DEF OnlyOf
  <1>7. obj'[o] = b
    BY <1>0, <1>1, <1>4
  <1>8. Chain(o)'
    <2>1. b.awaiting + b.timers + b.refreshes <= 1 /\ b.room # NoRoom
      BY <1>2, <1>3, SocketBounds DEF Chain
    <2>2. \A c \in DOMAIN conn' : conn'[c].obj = o =>
            /\ conn'[c].state \notin {"connecting", "open"}
            /\ conn'[c].state = "closing" => Quiet(b)
      <3> TAKE c \in DOMAIN conn'
      <3> HAVE conn'[c].obj = o
      <3>1. c \in DOMAIN conn /\ conn[c].obj = o /\ c # 0
        BY <1>0, <1>5
      <3>2. Live(c) => c = obj[o].ws
        BY <1>2, <3>1 DEF Chain
      <3>3. conn[c].state \in {"connecting", "open", "closing"} => Quiet(obj[o])
        BY <1>2, <3>1 DEF Chain, Live
      <3>4. conn[c].state \in {"connecting", "open", "closing", "closed"}
        <4>1. conn[c] \in WebSocket
          BY <1>0, <3>1, SeqMember
        <4> QED
          BY <4>1 DEF WebSocket
      <3> QED
        BY <1>3, <1>5, <3>1, <3>2, <3>3, <3>4 DEF Live, Quiet
    <2> QED
      BY <1>3, <1>7, <2>1, <2>2 DEF Chain, Live
  <1>9. TypeOK'
    <2>1. 0 \in 0 .. MaxObject
      BY SocketBounds
    <2>2. obj' \in [Object -> ChatSocket] /\ registry' \in [Room -> 0 .. MaxObject]
      BY <1>0, <1>3, <1>4, <2>1
    <2> QED
      BY <1>4, <1>5, <2>2 DEF IndInv, TypeOK
  <1>10. RegistryOK'
    <2>1. /\ obj'[o] = b /\ \A p \in Object : p # o => obj'[p] = obj[p]
          /\ registry'[r] = 0 /\ \A s \in Room : s # r => registry'[s] = registry[s]
      BY <1>0, <1>4, <1>7
    <2>2. \A s \in Room : registry[s] # 0 => registry[s] \in Object
      BY <1>0, SocketBounds DEF Object
    <2> QED
      BY <1>1, <1>2, <1>3, <1>p, <2>1, <2>2 DEF IndInv, RegistryOK
  <1> QED
    BY <1>1, <1>3, <1>4, <1>6, <1>8, <1>9, <1>10, OtherChains DEF IndInv

(***************************************************************************)
(* The events of a WebSocket.                                              *)
(***************************************************************************)

\* An event of the WebSocket c, which turns it into x and its object o into b.
Event(c, o, x, b) ==
  /\ o = conn[c].obj /\ x \in WebSocket /\ b \in ChatSocket /\ x.obj = o
  /\ obj' = [obj EXCEPT ![o] = b] /\ conn' = [conn EXCEPT ![c] = x]
  /\ b.room = obj[o].room /\ b.heard = obj[o].heard /\ b.ws = obj[o].ws
  /\ UNCHANGED <<registry, token, page>>
  /\ refreshing' \in BOOLEAN /\ faults' \in 0 .. MaxFault
  /\ b.awaiting + b.timers + b.refreshes <= 1
  /\ x.state # "closing"
  /\ x.state \in {"connecting", "open"} =>
       Live(c) /\ Quiet(b) /\ (x.state = "open" => b.ping)
  /\ \A k \in DOMAIN conn : k # c /\ conn[k].obj = o =>
       conn[k].state = "closed" \/ (conn[k].state = "closing" /\ Quiet(b) /\ b.intentional)

LEMMA EventStep ==
  ASSUME IndInv, NEW c \in DOMAIN conn, NEW o, NEW x, NEW b, Event(c, o, x, b)
  PROVE  IndInv'
  <1> USE DEF Event
  <1>0. /\ obj \in [Object -> ChatSocket] /\ conn \in Seq(WebSocket) /\ Len(conn) <= MaxConn
        /\ token \in {"old", "fresh"} /\ page \in BOOLEAN /\ o \in Object
    BY DEF IndInv, TypeOK, WebSocket
  <1>1. /\ conn' \in Seq(WebSocket) /\ Len(conn') = Len(conn) /\ DOMAIN conn' = DOMAIN conn
        /\ conn'[c] = x /\ \A k \in DOMAIN conn : k # c => conn'[k] = conn[k]
    BY <1>0, SeqReplace
  <1>2. OnlyOf(o)
    BY <1>0, <1>1 DEF OnlyOf
  <1>3. obj'[o] = b /\ Chain(o)
    BY <1>0 DEF IndInv
  <1>4. Chain(o)'
    BY <1>1, <1>3 DEF Chain, Live
  <1> QED
    BY <1>0, <1>2, <1>4, ObjectStep

\* A WebSocket and its object, and the other WebSockets of that object.
LEMMA SocketOf ==
  ASSUME IndInv, NEW c \in DOMAIN conn
  PROVE  LET o == conn[c].obj
         IN  /\ conn[c] \in WebSocket /\ o \in Object /\ obj[o] \in ChatSocket /\ c # 0
             /\ obj' = [obj EXCEPT ![o] = obj[o]] <=> UNCHANGED obj
             /\ Live(c) => Quiet(obj[o]) /\ \A k \in DOMAIN conn :
                             k # c /\ conn[k].obj = o => conn[k].state = "closed"
             /\ conn[c].state = "open" => obj[o].ping
             /\ conn[c].state = "closing" =>
                  /\ Quiet(obj[o]) /\ obj[o].intentional
                  /\ \A k \in DOMAIN conn :
                       k # c /\ conn[k].obj = o => conn[k].state \in {"closing", "closed"}
  <1> DEFINE o == conn[c].obj
  <1>1. /\ conn[c] \in WebSocket /\ \A k \in DOMAIN conn : k # 0 /\ conn[k] \in WebSocket
        /\ obj \in [Object -> ChatSocket]
    BY SeqMember DEF IndInv, TypeOK
  <1>2. o \in Object
    BY <1>1 DEF WebSocket
  <1>3. Chain(o)
    BY <1>2 DEF IndInv
  <1>4. \A k \in DOMAIN conn : conn[k].state \in {"connecting", "open", "closing", "closed"}
    BY <1>1 DEF WebSocket
  <1>5. obj' = [obj EXCEPT ![o] = obj[o]] <=> UNCHANGED obj
    BY <1>1, <1>2
  <1>6. Live(c) => Quiet(obj[o]) /\ \A k \in DOMAIN conn :
                     k # c /\ conn[k].obj = o => conn[k].state = "closed"
    BY <1>1, <1>3, <1>4 DEF Chain, Live
  <1>7. conn[c].state = "closing" =>
          /\ Quiet(obj[o]) /\ obj[o].intentional
          /\ \A k \in DOMAIN conn :
               k # c /\ conn[k].obj = o => conn[k].state \in {"closing", "closed"}
    BY <1>1, <1>3, <1>4 DEF Chain, Live
  <1>8. conn[c].state = "open" => obj[o].ping
    BY <1>3 DEF Chain
  <1> QED
    BY <1>1, <1>2, <1>5, <1>6, <1>7, <1>8

LEMMA OnOpenStep ==
  ASSUME IndInv, NEW c \in DOMAIN conn, OnOpen(c) \/ Serve(c)
  PROVE  IndInv'
  <1>p. PICK o : o = conn[c].obj
    OBVIOUS
  <1>0. /\ conn[c] \in WebSocket /\ o \in Object /\ obj[o] \in ChatSocket
        /\ (UNCHANGED obj => obj' = [obj EXCEPT ![o] = obj[o]])
    BY <1>p, SocketOf
  <1>1. Live(c)
    BY DEF OnOpen, Serve, Live
  <1>2. /\ Quiet(obj[o])
        /\ \A k \in DOMAIN conn : k # c /\ conn[k].obj = o => conn[k].state = "closed"
        /\ conn[c].state = "open" => obj[o].ping
    BY <1>p, <1>1, SocketOf
  <1>3. /\ UNCHANGED <<registry, token, page, refreshing, faults>>
        /\ refreshing \in BOOLEAN /\ faults \in 0 .. MaxFault
    BY DEF OnOpen, Serve, IndInv, TypeOK
  <1>4. CASE OnOpen(c)
    <2> DEFINE x == [conn[c] EXCEPT !.state = "open"]
               b == [obj[o] EXCEPT !.attempts = 0, !.ping = TRUE]
    <2>1. x \in WebSocket /\ x.obj = o /\ x.state = "open"
      BY <1>0, <1>p DEF WebSocket
    <2>2. 0 \in 0 .. MaxReconnect
      BY SocketBounds
    <2>3. /\ b \in ChatSocket /\ b.room = obj[o].room /\ b.heard = obj[o].heard
          /\ b.ws = obj[o].ws /\ b.ping /\ Quiet(b)
      BY <1>0, <1>2, <2>2 DEF ChatSocket, Quiet
    <2>4. conn' = [conn EXCEPT ![c] = x] /\ obj' = [obj EXCEPT ![o] = b]
      BY <1>p, <1>4 DEF OnOpen
    <2> HIDE DEF x, b
    <2>5. b.awaiting + b.timers + b.refreshes <= 1
      BY <2>3 DEF Quiet
    <2>6. Event(c, o, x, b)
      BY <1>1, <1>2, <1>3, <1>p, <2>1, <2>3, <2>4, <2>5 DEF Event
    <2> QED
      BY <2>6, EventStep
  <1>5. CASE Serve(c)
    <2> DEFINE x == [conn[c] EXCEPT !.served = TRUE]
    <2>1. x \in WebSocket /\ x.obj = o /\ x.state = "open"
      BY <1>0, <1>5, <1>p DEF WebSocket, Serve
    <2>2. conn' = [conn EXCEPT ![c] = x] /\ obj' = [obj EXCEPT ![o] = obj[o]]
      BY <1>0, <1>5 DEF Serve
    <2>3. obj[o].ping
      BY <1>2, <1>5 DEF Serve
    <2> HIDE DEF x
    <2>4. obj[o].awaiting + obj[o].timers + obj[o].refreshes <= 1
      BY <1>2 DEF Quiet
    <2>5. Event(c, o, x, obj[o])
      BY <1>0, <1>1, <1>2, <1>3, <1>p, <2>1, <2>2, <2>3, <2>4 DEF Event
    <2> QED
      BY <2>5, EventStep
  <1> QED
    BY <1>4, <1>5

\* A close event of a connection that was up leaves at most one thing going; of
\* one that disconnect() was closing, nothing.
LEMMA OnCloseStep ==
  ASSUME IndInv, NEW c \in DOMAIN conn, NEW code \in Fatal \cup Rejected \cup Other,
         OnClose(c, code), Live(c) \/ (conn[c].state = "closing" /\ code = 1006),
         UNCHANGED <<registry, token, page>>, faults' \in 0 .. MaxFault
  PROVE  IndInv'
  <1> DEFINE o == conn[c].obj
  <1>0. conn[c] \in WebSocket /\ o \in Object /\ obj[o] \in ChatSocket
    BY SocketOf
  <1>1. /\ Quiet(obj[o])
        /\ \/ Live(c)
           \/ obj[o].intentional /\ code = 1006
        /\ \A k \in DOMAIN conn : k # c /\ conn[k].obj = o =>
             \/ conn[k].state = "closed"
             \/ conn[k].state = "closing" /\ obj[o].intentional /\ code = 1006
    BY SocketOf
  <1>2. refreshing' \in BOOLEAN
    BY DEF OnClose, IndInv, TypeOK
  <1> DEFINE x == [conn[c] EXCEPT !.state = "closed", !.served = FALSE]
             d == [obj[o] EXCEPT !.ping = FALSE, !.code = code]
             b == IF code \in Rejected /\ d.attempts = 0
                    THEN [d EXCEPT !.attempts = 1, !.refreshes = @ + 1]
                  ELSE IF code \in Other /\ ~d.intentional THEN Retried(d) ELSE d
  <1>3. x \in WebSocket /\ x.obj = o /\ x.state = "closed"
    BY <1>0 DEF WebSocket
  <1>4. /\ d \in ChatSocket /\ d.room = obj[o].room /\ d.heard = obj[o].heard
        /\ d.ws = obj[o].ws /\ Quiet(d) /\ d.intentional = obj[o].intentional
    BY <1>0, <1>1 DEF ChatSocket, Quiet
  <1>5. conn' = [conn EXCEPT ![c] = x] /\ obj' = [obj EXCEPT ![o] = b]
    <2>1. conn' = [conn EXCEPT ![c] = x]
      BY DEF OnClose
    <2>2. obj' = [obj EXCEPT ![o] = b]
      BY DEF OnClose
    <2> QED
      BY <2>1, <2>2
  <1> HIDE DEF x, d, o
  <1>6. /\ b \in ChatSocket /\ b.room = obj[o].room /\ b.heard = obj[o].heard
        /\ b.ws = obj[o].ws /\ b.awaiting + b.timers + b.refreshes <= 1
        /\ obj[o].intentional /\ code = 1006 => Quiet(b) /\ b.intentional
    <2>1. CASE code \in Rejected /\ d.attempts = 0
      <3>1. 1 \in 0 .. MaxReconnect
        BY SocketBounds
      <3>2. d.awaiting = 0 /\ d.timers = 0 /\ d.refreshes = 0 /\ code # 1006
        BY <1>4, <2>1 DEF Quiet, Rejected
      <3>3. b = [d EXCEPT !.attempts = 1, !.refreshes = 1]
        BY <2>1, <3>2
      <3> HIDE DEF b
      <3>4. b \in ChatSocket
        BY <1>4, <3>1, <3>3 DEF ChatSocket
      <3>5. /\ b.room = d.room /\ b.heard = d.heard /\ b.ws = d.ws
            /\ b.awaiting = 0 /\ b.timers = 0 /\ b.refreshes = 1
        BY <1>4, <3>2, <3>3 DEF ChatSocket
      <3> QED
        BY <1>4, <3>2, <3>4, <3>5
    <2>2. CASE ~(code \in Rejected /\ d.attempts = 0) /\ code \in Other /\ ~d.intentional
      <3>1. b = Retried(d)
        BY <2>2
      <3> HIDE DEF b
      <3>2. /\ b \in ChatSocket /\ b.room = d.room /\ b.heard = d.heard /\ b.ws = d.ws
            /\ b.awaiting = d.awaiting /\ b.refreshes = d.refreshes
            /\ b.timers \in {d.timers, d.timers + 1}
        BY <1>4, <3>1, RetriedObject
      <3> QED
        BY <1>4, <2>2, <3>2 DEF Quiet
    <2>3. CASE ~(code \in Rejected /\ d.attempts = 0) /\ ~(code \in Other /\ ~d.intentional)
      <3>1. b = d
        BY <2>3
      <3> HIDE DEF b
      <3> QED
        BY <1>4, <3>1 DEF Quiet
    <2> QED
      BY <2>1, <2>2, <2>3
  <1> HIDE DEF b
  <1>7. Event(c, o, x, b)
    BY <1>0, <1>1, <1>2, <1>3, <1>5, <1>6 DEF Event, o
  <1> QED
    BY <1>7, EventStep

LEMMA SocketStep ==
  ASSUME IndInv, NEW c \in DOMAIN conn,
         \/ OnOpen(c) \/ Serve(c) \/ ServerRejects(c)
         \/ ConnectionEnds(c) \/ CloseCompletes(c)
  PROVE  IndInv'
  <1>1. CASE OnOpen(c) \/ Serve(c)
    BY <1>1, OnOpenStep
  <1>0. faults \in 0 .. MaxFault
    BY DEF IndInv, TypeOK
  <1>2. CASE ServerRejects(c)
    BY <1>0, <1>2, OnCloseStep DEF ServerRejects, Live
  <1>3. CASE ConnectionEnds(c)
    <2>1. Live(c) /\ UNCHANGED <<registry, token, page>>
      BY <1>3 DEF ConnectionEnds
    <2>2. faults' \in 0 .. MaxFault
      BY <1>0, <1>3, SocketBounds DEF ConnectionEnds, Fault
    <2>3. PICK code \in Fatal \cup Rejected \cup Other : OnClose(c, code)
      BY <1>3 DEF ConnectionEnds
    <2> QED
      BY <2>1, <2>2, <2>3, OnCloseStep
  <1>4. CASE CloseCompletes(c)
    <2>1. 1006 \in Other
      BY DEF Other
    <2> QED
      BY <1>0, <1>4, <2>1, OnCloseStep DEF CloseCompletes
  <1> QED
    BY <1>1, <1>2, <1>3, <1>4

(***************************************************************************)
(* The token, and the theorems.                                            *)
(***************************************************************************)

LEMMA TokenStep ==
  ASSUME IndInv, RefreshSucceeds \/ RefreshFails \/ TokenAges \/ UNCHANGED vars
  PROVE  IndInv'
  <1>0. conn \in Seq(WebSocket) /\ Len(conn) <= MaxConn /\ faults \in 0 .. MaxFault
    BY DEF IndInv, TypeOK
  <1>1. /\ UNCHANGED <<registry, obj>> /\ token' \in {"old", "fresh"}
        /\ refreshing' \in BOOLEAN /\ page' \in BOOLEAN /\ faults' \in 0 .. MaxFault
    <2>1. faults' = faults \/ Fault
      BY DEF RefreshSucceeds, RefreshFails, TokenAges, vars
    <2>2. faults' \in 0 .. MaxFault
      BY <1>0, <2>1, SocketBounds DEF Fault
    <2>3. token \in {"old", "fresh"} /\ refreshing \in BOOLEAN /\ page \in BOOLEAN
      BY DEF IndInv, TypeOK
    <2> QED
      BY <2>2, <2>3 DEF RefreshSucceeds, RefreshFails, TokenAges, vars
  <1>2. CASE UNCHANGED conn
    BY <1>1, <1>2 DEF IndInv, TypeOK, RegistryOK, Chain, Live
  <1>3. CASE RefreshFails
    <2>1. conn' = [c \in DOMAIN conn |-> [conn[c] EXCEPT !.state = "closed"]]
      BY <1>3 DEF RefreshFails
    <2>2. DOMAIN conn' = DOMAIN conn /\ \A c \in DOMAIN conn :
             conn'[c] \in WebSocket /\ conn'[c].obj = conn[c].obj /\ conn'[c].state = "closed"
      <3> SUFFICES ASSUME NEW c \in DOMAIN conn
                   PROVE  /\ conn'[c] \in WebSocket /\ conn'[c].obj = conn[c].obj
                          /\ conn'[c].state = "closed"
        BY <2>1
      <3>1. conn[c] \in WebSocket
        BY <1>0, SeqMember
      <3> QED
        BY <2>1, <3>1 DEF WebSocket
    <2>3. conn' \in Seq(WebSocket) /\ Len(conn') = Len(conn)
      BY <1>0, <2>1, <2>2, SeqMap
    <2>4. TypeOK' /\ RegistryOK'
      BY <1>0, <1>1, <2>3 DEF IndInv, TypeOK, RegistryOK
    <2>5. \A o \in Object : Chain(o)'
      BY <1>1, <2>2 DEF IndInv, Chain, Live
    <2> QED
      BY <2>4, <2>5 DEF IndInv
  <1> QED
    BY <1>2, <1>3 DEF RefreshSucceeds, TokenAges, vars

LEMMA InitIndInv == Init => IndInv
  <1> SUFFICES ASSUME Init PROVE IndInv
    OBVIOUS
  <1>1. NewObject(NoRoom) \in ChatSocket /\ ~NewObject(NoRoom).heard
        /\ NewObject(NoRoom).ws = 0 /\ Quiet(NewObject(NoRoom))
    BY NewIsObject
  <1>2. conn = <<>> /\ conn \in Seq(WebSocket) /\ Len(conn) = 0 /\ DOMAIN conn = {}
    BY DEF Init
  <1>3. TypeOK
    <2>1. 0 \in 0 .. MaxObject /\ 0 \in 0 .. MaxFault /\ 0 <= MaxConn
      BY SocketBounds
    <2> QED
      BY <1>1, <1>2, <2>1 DEF Init, TypeOK
  <1>4. RegistryOK
    BY <1>1 DEF Init, RegistryOK
  <1>5. \A o \in Object : Chain(o)
    BY <1>1, <1>2 DEF Init, Chain, Quiet
  <1> QED
    BY <1>3, <1>4, <1>5 DEF IndInv

LEMMA NextIndInv == IndInv /\ [Next]_vars => IndInv'
  <1> SUFFICES ASSUME IndInv, [Next]_vars PROVE IndInv'
    OBVIOUS
  <1>1. CASE \E r \in Room : Mount(r)
    BY <1>1, MountStep
  <1>2. CASE \E r \in Room : Unmount(r)
    BY <1>2, UnmountStep
  <1>3. CASE \E o \in Object : TimerFires(o) \/ TokenArrives(o) \/ RefreshedAfterReject(o)
    BY <1>3, WakeStep
  <1>4. CASE RefreshSucceeds \/ RefreshFails \/ TokenAges \/ UNCHANGED vars
    BY <1>4, TokenStep
  <1>5. CASE \E c \in DOMAIN conn : \/ OnOpen(c) \/ Serve(c) \/ ServerRejects(c)
                                    \/ ConnectionEnds(c) \/ CloseCompletes(c)
    BY <1>5, SocketStep
  <1> QED
    BY <1>1, <1>2, <1>3, <1>4, <1>5 DEF Next

\* The strengthening holds of every reachable state.
THEOREM Invariance == Spec => []IndInv
  <1> QED
    BY InitIndInv, NextIndInv, PTL DEF Spec

\* Every variable keeps its type; the attempts stay within maxReconnectAttempts.
THEOREM TypeCorrect == Spec => []TypeOK
  <1>1. IndInv => TypeOK
    BY DEF IndInv
  <1> QED
    BY <1>1, Invariance, PTL

\* The retries of an object never multiply (connect, attemptReconnect and
\* onclose of ReconnectingWebSocket).
THEOREM OneAttempt == Spec => []OneChain
  <1>1. IndInv => OneChain
    <2> SUFFICES ASSUME IndInv, NEW o \in Object PROVE Going(o) <= 1
      BY DEF OneChain
    <2> DEFINE up == {c \in DOMAIN conn : conn[c].obj = o /\ Live(c)}
    <2>1. Chain(o) /\ obj[o] \in ChatSocket
      BY DEF IndInv, TypeOK
    <2>2. obj[o].awaiting \in Nat /\ obj[o].timers \in Nat /\ obj[o].refreshes \in Nat
      BY <2>1, Fields
    <2>g. Going(o) = Cardinality(up) + obj[o].awaiting + obj[o].timers + obj[o].refreshes
      BY DEF Going
    <2>3. CASE up = {}
      <3>1. Cardinality(up) = 0
        BY <2>3, FS_EmptySet
      <3> QED
        BY <2>1, <2>2, <2>g, <3>1 DEF Chain
    <2>4. CASE up # {}
      <3>1. up = {obj[o].ws} /\ Quiet(obj[o])
        BY <2>1, <2>4 DEF Chain
      <3>2. Cardinality(up) = 1
        BY <3>1, FS_Singleton
      <3> QED
        BY <2>g, <3>1, <3>2 DEF Quiet
    <2> QED
      BY <2>3, <2>4
  <1> QED
    BY <1>1, Invariance, PTL

\* Only the connection of the registered object is heard (the view's effect,
\* getChatSocket and disconnectChatSocket).
THEOREM HeardOnlyOnce == Spec => []HeardOnce
  <1>1. IndInv => HeardOnce
    <2> SUFFICES ASSUME IndInv, NEW c \in DOMAIN conn, Live(c), obj[conn[c].obj].heard
                 PROVE  /\ registry[obj[conn[c].obj].room] = conn[c].obj
                        /\ obj[conn[c].obj].ws = c
      BY DEF HeardOnce
    <2>1. conn[c].obj \in Object
      BY SocketOf
    <2> QED
      BY <2>1 DEF IndInv, RegistryOK, Chain
  <1> QED
    BY <1>1, Invariance, PTL

\* An open connection has its ping (onopen and cleanup).
THEOREM OpenPinged == Spec => []OpenIsPinged
  <1>1. IndInv => OpenIsPinged
    <2> SUFFICES ASSUME IndInv, NEW c \in DOMAIN conn, conn[c].state = "open"
                 PROVE  obj[conn[c].obj].ping
      BY DEF OpenIsPinged
    <2> QED
      BY SocketOf
  <1> QED
    BY <1>1, Invariance, PTL

===============================================================================

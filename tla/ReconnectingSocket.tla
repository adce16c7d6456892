------------------------- MODULE ReconnectingSocket -------------------------
(***************************************************************************)
(* The browser's chat connections: the ReconnectingWebSocket class and the  *)
(* per-room registry of services/socket.client.ts, the effects of the chat  *)
(* views that mount and unmount a room, the access token they share, and    *)
(* the ways the server ends a connection.  An object outlives its entry in  *)
(* the registry: its timer, its token request and its socket's events still *)
(* call it.  obj[o] is the object made by the o-th getChatSocket, conn[c]   *)
(* the c-th WebSocket; the backend registers it once `served`.              *)
(***************************************************************************)
EXTENDS Naturals, Sequences, FiniteSets

CONSTANTS Room,          \* chat room ids
          NoRoom,
          MaxObject,     \* objects a page makes (bound)
          MaxConn,       \* WebSockets a page opens (bound)
          MaxReconnect,  \* maxReconnectAttempts, 10 in the code
          MaxFault       \* network drops, refusals, token expiries (bound)

ASSUME SocketBounds == /\ NoRoom \notin Room
                       /\ {MaxObject, MaxConn, MaxFault} \subseteq Nat
                       /\ MaxReconnect \in Nat \ {0}

VARIABLES registry,    \* chatSockets: room -> object or 0
          obj,         \* the objects
          conn,        \* the WebSockets opened so far
          token,       \* the access token in memory: old (expiring) or fresh
          refreshing,  \* refreshPromise is pending
          page,        \* FALSE once the browser was sent to /login
          faults

vars == <<registry, obj, conn, token, refreshing, page, faults>>

Object == 1 .. MaxObject

NoCode == 0
Fatal == {1000, 4003, 4004}     \* onclose never reconnects
Rejected == {4001, 1008}        \* onclose refreshes the token first
Other == {1006, 4500}           \* dropped, or an error of the server

NewObject(r) == [room |-> r, intentional |-> FALSE, attempts |-> 0, ws |-> 0,
                 awaiting |-> 0, timers |-> 0, refreshes |-> 0, ping |-> FALSE,
                 heard |-> FALSE, code |-> NoCode]

Live(c) == conn[c].state \in {"connecting", "open"}

Mounted(r) == registry[r] # 0 /\ obj[registry[r]].heard

Fault == faults < MaxFault /\ faults' = faults + 1

Init == /\ registry = [r \in Room |-> 0]
        /\ obj = [o \in Object |-> NewObject(NoRoom)]
        /\ conn = <<>>
        /\ token \in {"old", "fresh"}
        /\ refreshing = FALSE
        /\ page = TRUE
        /\ faults = 0

-----------------------------------------------------------------------------
\* Mistaken form of Retried: no limit.
Retried_Unbounded(b) == [b EXCEPT !.attempts = @ + 1, !.timers = @ + 1]

(* attemptReconnect: one timer more, unless the attempts are used up.       *)
Retried(b) == IF b.attempts < MaxReconnect
              THEN [b EXCEPT !.attempts = @ + 1, !.timers = @ + 1]
              ELSE b

(* connect with its token: it goes into the URL, the WebSocket is made.      *)
OpenSocket(o, b) ==
  \/ /\ Len(conn) < MaxConn
     /\ conn' = Append(conn, [obj |-> o, state |-> "connecting",
                              served |-> FALSE, good |-> token = "fresh"])
     /\ obj' = [obj EXCEPT ![o] = [b EXCEPT !.ws = Len(conn) + 1]]
     /\ UNCHANGED faults
  \/ /\ Fault                                 \* new WebSocket() threw
     /\ obj' = [obj EXCEPT ![o] = Retried(b)]
     /\ UNCHANGED conn

(* connect(): resets the intentional flag, returns when a socket is up,      *)
(* waits for a refresh when the token is about to expire.                    *)
Connect(o, b) ==
  LET c == [b EXCEPT !.intentional = FALSE]
  IN \/ /\ b.ws # 0 /\ Live(b.ws)
        /\ obj' = [obj EXCEPT ![o] = c]
        /\ UNCHANGED <<conn, refreshing, faults>>
     \/ /\ ~(b.ws # 0 /\ Live(b.ws))
        /\ token = "old"
        /\ obj' = [obj EXCEPT ![o] = [c EXCEPT !.awaiting = @ + 1]]
        /\ refreshing' = TRUE
        /\ UNCHANGED <<conn, faults>>
     \/ /\ ~(b.ws # 0 /\ Live(b.ws))
        /\ token = "fresh"
        /\ OpenSocket(o, c)
        /\ UNCHANGED refreshing

(* The effect of a view: connectChatSocket, then the handlers.  A room that  *)
(* is unmounted has no entry, so the effect makes a new object.              *)
Mount(r) ==
  \E o \in Object :
    /\ page
    /\ registry[r] = 0
    /\ obj[o].room = NoRoom /\ \A p \in Object : p < o => obj[p].room # NoRoom
    /\ registry' = [registry EXCEPT ![r] = o]
    /\ Connect(o, [NewObject(r) EXCEPT !.heard = TRUE])
    /\ UNCHANGED <<token, page>>

(* disconnect(): the socket closes, its close event comes later; a pending   *)
(* timer or token request is left alone.                                     *)
Disconnected(b) == [b EXCEPT !.intentional = TRUE, !.ping = FALSE, !.ws = 0]

Closing(b) == IF b.ws = 0 \/ conn[b.ws].state = "closed" THEN conn
              ELSE [conn EXCEPT ![b.ws].state = "closing"]

\* Mistaken form of Unmount: the handlers stay.
Unmount_KeepsHandlers(r) ==
  LET o == registry[r]
  IN /\ page
     /\ o # 0
     /\ registry' = [registry EXCEPT ![r] = 0]
     /\ obj' = [obj EXCEPT ![o] = Disconnected(obj[o])]
     /\ conn' = Closing(obj[o])
     /\ UNCHANGED <<token, refreshing, page, faults>>

(* The effect's cleanup: the handlers go, disconnectChatSocket.              *)
Unmount(r) ==
  LET o == registry[r]
  IN /\ page
     /\ o # 0
     /\ registry' = [registry EXCEPT ![r] = 0]
     /\ obj' = [obj EXCEPT ![o] = Disconnected([obj[o] EXCEPT !.heard = FALSE])]
     /\ conn' = Closing(obj[o])
     /\ UNCHANGED <<token, refreshing, page, faults>>

(* The setTimeout of attemptReconnect calls connect().                       *)
TimerFires(o) ==
  /\ page
  /\ obj[o].timers > 0
  /\ Connect(o, [obj[o] EXCEPT !.timers = @ - 1])
  /\ UNCHANGED <<registry, token, page>>

(* A connect() that awaited the refresh goes on.                             *)
TokenArrives(o) ==
  /\ page
  /\ obj[o].awaiting > 0 /\ ~refreshing
  /\ OpenSocket(o, [obj[o] EXCEPT !.awaiting = @ - 1])
  /\ UNCHANGED <<registry, token, refreshing, page>>

(* The refresh that a rejected connection asked for has succeeded.           *)
RefreshedAfterReject(o) ==
  /\ page
  /\ obj[o].refreshes > 0 /\ ~refreshing
  /\ Connect(o, [obj[o] EXCEPT !.refreshes = @ - 1, !.attempts = 0])
  /\ UNCHANGED <<registry, token, page>>

(* refreshAccessToken resolves.                                              *)
RefreshSucceeds ==
  /\ page /\ refreshing
  /\ token' = "fresh"
  /\ refreshing' = FALSE
  /\ UNCHANGED <<registry, obj, conn, page, faults>>

(* It fails, on a revoked session or on any network error: the token is      *)
(* dropped and the browser leaves for /login, which ends every connection.   *)
RefreshFails ==
  /\ page /\ refreshing /\ Fault
  /\ refreshing' = FALSE
  /\ page' = FALSE
  /\ conn' = [c \in DOMAIN conn |-> [conn[c] EXCEPT !.state = "closed"]]
  /\ UNCHANGED <<registry, obj, token>>

TokenAges ==
  /\ page /\ token = "fresh" /\ Fault
  /\ token' = "old"
  /\ UNCHANGED <<registry, obj, conn, refreshing, page>>

-----------------------------------------------------------------------------
\* Mistaken form of OnOpen: only the first connection is pinged.
OnOpen_FirstOnly(c) ==
  /\ page
  /\ conn[c].state = "connecting"
  /\ conn' = [conn EXCEPT ![c].state = "open"]
  /\ obj' = [obj EXCEPT ![conn[c].obj].attempts = 0,
                         ![conn[c].obj].ping = (obj[conn[c].obj].code = NoCode)]
  /\ UNCHANGED <<registry, token, refreshing, page, faults>>

(* The server accepts every handshake; onopen resets the attempts and starts *)
(* the ping.  A socket that disconnect() dropped still runs its handler.     *)
OnOpen(c) ==
  /\ page
  /\ conn[c].state = "connecting"
  /\ conn' = [conn EXCEPT ![c].state = "open"]
  /\ obj' = [obj EXCEPT ![conn[c].obj].attempts = 0, ![conn[c].obj].ping = TRUE]
  /\ UNCHANGED <<registry, token, refreshing, page, faults>>

(* websocket_chat_endpoint has checked the token and the room.               *)
Serve(c) ==
  /\ conn[c].state = "open" /\ conn[c].good /\ ~conn[c].served
  /\ conn' = [conn EXCEPT ![c].served = TRUE]
  /\ UNCHANGED <<registry, obj, token, refreshing, page, faults>>

\* Mistaken form of OnClose: a rejection also starts the timer.
OnClose_RetriesToo(c, code) ==
  LET o == conn[c].obj
      b == [obj[o] EXCEPT !.ping = FALSE, !.code = code]
      r == IF code \in Rejected /\ b.attempts = 0
           THEN [b EXCEPT !.attempts = 1, !.refreshes = @ + 1] ELSE b
  IN /\ conn' = [conn EXCEPT ![c].state = "closed", ![c].served = FALSE]
     /\ obj' = [obj EXCEPT ![o] =
          IF code \notin Fatal /\ ~b.intentional THEN Retried(r) ELSE r]
     /\ refreshing' = (refreshing \/ r # b)

\* Mistaken form of OnClose: a rejection is final.
OnClose_NoRefresh(c, code) ==
  LET o == conn[c].obj
      b == [obj[o] EXCEPT !.ping = FALSE, !.code = code]
  IN /\ conn' = [conn EXCEPT ![c].state = "closed", ![c].served = FALSE]
     /\ obj' = [obj EXCEPT ![o] =
          IF code \in Other /\ ~b.intentional THEN Retried(b) ELSE b]
     /\ UNCHANGED refreshing

(* onclose of the socket's object with a code.                               *)
OnClose(c, code) ==
  LET o == conn[c].obj
      b == [obj[o] EXCEPT !.ping = FALSE, !.code = code]   \* cleanup()
      Rejection == code \in Rejected /\ b.attempts = 0
  IN /\ conn' = [conn EXCEPT ![c].state = "closed", ![c].served = FALSE]
     /\ obj' = [obj EXCEPT ![o] =
          IF Rejection THEN [b EXCEPT !.attempts = 1, !.refreshes = @ + 1]
          ELSE IF code \in Other /\ ~b.intentional THEN Retried(b) ELSE b]
     /\ refreshing' = (refreshing \/ Rejection)

(* The token in the URL is not accepted.                                     *)
ServerRejects(c) ==
  /\ page
  /\ conn[c].state = "open" /\ ~conn[c].served
  /\ ~conn[c].good
  /\ \E code \in Rejected : OnClose(c, code)
  /\ UNCHANGED <<registry, token, page, faults>>

(* The connection is lost, never made, closed by the server: idle (a normal  *)
(* closure), not enrolled, room gone, an internal or database error.         *)
ConnectionEnds(c) ==
  /\ page
  /\ Live(c) /\ Fault
  /\ \E code \in IF conn[c].state = "open" THEN Fatal \cup Rejected \cup Other
                                            ELSE Other : OnClose(c, code)
  /\ UNCHANGED <<registry, token, page>>

(* The close that disconnect() began completes; the code of close() is 1005  *)
(* or, before the handshake, 1006: neither is fatal.                         *)
CloseCompletes(c) ==
  /\ page
  /\ conn[c].state = "closing"
  /\ OnClose(c, 1006)
  /\ UNCHANGED <<registry, token, page, faults>>

Next == \/ \E r \in Room : Mount(r) \/ Unmount(r)
        \/ \E o \in Object : \/ TimerFires(o) \/ TokenArrives(o)
                             \/ RefreshedAfterReject(o)
        \/ RefreshSucceeds \/ RefreshFails \/ TokenAges
        \/ \E c \in DOMAIN conn : \/ OnOpen(c) \/ Serve(c) \/ ServerRejects(c)
                                  \/ ConnectionEnds(c) \/ CloseCompletes(c)

Fairness ==
  /\ \A o \in Object : /\ WF_vars(TimerFires(o))
                       /\ WF_vars(TokenArrives(o))
                       /\ WF_vars(RefreshedAfterReject(o))
  /\ WF_vars(RefreshSucceeds)
  /\ \A c \in 1 .. MaxConn :
       /\ WF_vars(c \in DOMAIN conn /\ OnOpen(c))
       /\ WF_vars(c \in DOMAIN conn /\ Serve(c))
       /\ WF_vars(c \in DOMAIN conn /\ ServerRejects(c))
       /\ WF_vars(c \in DOMAIN conn /\ CloseCompletes(c))

Spec == Init /\ [][Next]_vars /\ Fairness

-----------------------------------------------------------------------------
ChatSocket == [room : Room \cup {NoRoom}, intentional : BOOLEAN,
               attempts : 0 .. MaxReconnect, ws : 0 .. MaxConn,
               awaiting : Nat, timers : Nat, refreshes : Nat,
               ping : BOOLEAN, heard : BOOLEAN,
               code : {NoCode} \cup Fatal \cup Rejected \cup Other]

WebSocket == [obj : Object, served : BOOLEAN, good : BOOLEAN,
              state : {"connecting", "open", "closing", "closed"}]

TypeOK ==
  /\ registry \in [Room -> 0 .. MaxObject]
  /\ obj \in [Object -> ChatSocket]
  /\ conn \in Seq(WebSocket)
  /\ Len(conn) <= MaxConn
  /\ token \in {"old", "fresh"} /\ refreshing \in BOOLEAN /\ page \in BOOLEAN
  /\ faults \in 0 .. MaxFault

(* What one object has going: connections that are up, calls of connect()    *)
(* that wait, timers, refreshes after a rejection.                           *)
Going(o) == Cardinality({c \in DOMAIN conn : conn[c].obj = o /\ Live(c)})
            + obj[o].awaiting + obj[o].timers + obj[o].refreshes

(* The retries of an object never multiply: whatever drops, rejections,      *)
(* expiries and unmounts it went through, it has one connection, or one      *)
(* attempt at one, or none, so no frame is heard twice.                      *)
OneChain == \A o \in Object : Going(o) <= 1

(* Only the connection of the object a mounted view registered is heard: an  *)
(* orphan that reconnects has no handler left, and no room is heard through  *)
(* two objects.                                                              *)
HeardOnce == \A c \in DOMAIN conn :
               Live(c) /\ obj[conn[c].obj].heard =>
                 /\ registry[obj[conn[c].obj].room] = conn[c].obj
                 /\ obj[conn[c].obj].ws = c

(* An open connection that a view hears has its ping running (the server     *)
(* drops a silent one after 70 seconds), although close events of older      *)
(* sockets clear the object's interval at any time.                          *)
OpenIsPinged == \A c \in DOMAIN conn :
                  conn[c].state = "open" => obj[conn[c].obj].ping

Served(r) == \E c \in DOMAIN conn : conn[c].obj = registry[r] /\ conn[c].served

(* The code's own reasons to stop: a fatal close code, the attempts used up. *)
Stopped(r) == \/ obj[registry[r]].code \in Fatal
              \/ obj[registry[r]].attempts = MaxReconnect

(* A mounted room comes to be served again after every drop, rejection or    *)
(* expired token, unless the code gives up for one of its reasons.           *)
Reconnects == \A r \in Room :
                Mounted(r) ~> (~page \/ ~Mounted(r) \/ Served(r) \/ Stopped(r))

-----------------------------------------------------------------------------
(* The inductive strengthening that ReconnectingSocketProofs proves.         *)

(* Nothing of the object b is going but, perhaps, a connection.              *)
Quiet(b) == b.awaiting = 0 /\ b.timers = 0 /\ b.refreshes = 0

(* An object refers to its last WebSocket, the only one that may be up; while *)
(* one is up nothing waits, and one that disconnect() is closing belongs to   *)
(* an object that nothing will wake again.                                    *)
Chain(o) ==
  LET b == obj[o]
  IN /\ b.awaiting + b.timers + b.refreshes <= 1
     /\ b.ws # 0 => b.ws \in DOMAIN conn /\ conn[b.ws].obj = o
     /\ b.room = NoRoom => b = NewObject(NoRoom)
     /\ \A c \in DOMAIN conn : conn[c].obj = o =>
          /\ b.room # NoRoom
          /\ Live(c) => b.ws = c /\ Quiet(b)
          /\ conn[c].state = "open" => b.ping
          /\ conn[c].state = "closing" => b.ws = 0 /\ b.intentional /\ Quiet(b)

(* The registry and the handlers tell the same story.                        *)
RegistryOK ==
  /\ \A r \in Room : registry[r] # 0 => obj[registry[r]].room = r
                                        /\ obj[registry[r]].heard
  /\ \A o \in Object : obj[o].heard => obj[o].room \in Room
                                        /\ registry[obj[o].room] = o

IndInv == TypeOK /\ RegistryOK /\ \A o \in Object : Chain(o)

=============================================================================

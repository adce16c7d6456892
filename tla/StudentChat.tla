---------------------------- MODULE StudentChat ----------------------------
(***************************************************************************)
(* The student's messages page: StudentMessagesView.tsx (channels, the room *)
(* and history requests, the socket's handlers, optimistic sends), the      *)
(* unread flags of chat.store.ts, ChatUnreadTracker.tsx that polls them,    *)
(* and the backend's message log and read marks behind /chat.  A message is *)
(* its place in `log`; the channel it belongs to stands for its room, its   *)
(* recipient and its announcement flag.  The entry 0 of the list is the     *)
(* temporary message of a send under way.                                   *)
(***************************************************************************)
EXTENDS Naturals, Sequences, FiniteSets

CONSTANTS Channel,     \* the entries of the side bar
          Type,        \* Channel -> course, course_announcements or teacher_dm
          Room,        \* Channel -> the chat room of its course it uses
          NoRoom, NoChannel,
          Text,        \* contents of messages
          MaxMessage, MaxOpen, MaxFault, MaxPoll    \* bounds

ASSUME ChatBounds == /\ Type \in [Channel -> {"course", "course_announcements", "teacher_dm"}]
                     /\ NoRoom \notin {Room[c] : c \in Channel}
                     /\ NoChannel \notin Channel /\ Text # {}
                     /\ {MaxMessage, MaxOpen, MaxFault, MaxPoll} \subseteq Nat

VARIABLES log,       \* server: messages in order, [chan, mine, text]
          readUpTo,  \* server: what the read time of a channel covers
          active,    \* activeChannel
          room,      \* the room whose metadata is loaded; its socket is the one mounted
          asking,    \* the request for the room of the active channel is open
          history,   \* the request for its messages
          list,      \* messages: entries [id, text], 0 for temp-
          up,        \* the mounted socket is served
          inbox,     \* frames on their way to its handlers
          send,      \* handleSend in progress
          flags,     \* unreadChannelKeys
          grace,     \* sa_read_ts_ of the channel is younger than 15 seconds
          marking,   \* POST /chat/read on their way
          polls,     \* answers of GET /chat/unread on their way
          opened, faults

view == <<active, room, asking, history>>
unread == <<flags, grace, marking, polls, readUpTo>>
vars == <<log, view, list, up, inbox, send, unread, opened, faults>>

Idle == [st |-> "idle", chan |-> NoChannel, text |-> CHOOSE t \in Text : TRUE, id |-> 0]
NoHistory == [st |-> "none", ids |-> {}]

Fault == faults < MaxFault /\ faults' = faults + 1

Ids(s) == {s[i].id : i \in DOMAIN s} \ {0}
InChannel(c) == {m \in DOMAIN log : log[m].chan = c}
Others(c) == {m \in InChannel(c) : ~log[m].mine}

(* /chat/unread: a message of somebody else is newer than the read time.    *)
Unread(c) == \E m \in Others(c) : m > readUpTo[c]

Init == /\ log = <<>> /\ readUpTo = [c \in Channel |-> 0]
        /\ active = NoChannel /\ room = NoRoom /\ asking = FALSE
        /\ history = NoHistory /\ list = <<>> /\ up = FALSE /\ inbox = <<>>
        /\ send = Idle
        /\ flags = [c \in Channel |-> FALSE] /\ grace = [c \in Channel |-> FALSE]
        /\ marking = {} /\ polls = {} /\ opened = 0 /\ faults = 0

-----------------------------------------------------------------------------
(* openChannel and the effect that follows: both requests start, answers of  *)
(* the channel left are discarded (isMounted); list and room stay.           *)
Open(c) ==
  /\ c # active /\ opened < MaxOpen
  /\ opened' = opened + 1
  /\ active' = c
  /\ asking' = TRUE
  /\ history' = [st |-> "asked", ids |-> {}]
  /\ UNCHANGED <<log, room, list, up, inbox, send, unread, faults>>

(* The room arrives; another room than before unmounts the old socket with   *)
(* what is still on its way, and mounts a new one.                           *)
RoomArrives ==
  /\ asking
  /\ asking' = FALSE
  /\ room' = Room[active]
  /\ IF room' = room THEN UNCHANGED <<up, inbox>> ELSE up' = FALSE /\ inbox' = <<>>
  /\ UNCHANGED <<log, active, history, list, send, unread, opened, faults>>

RoomRefused ==
  /\ asking /\ Fault
  /\ asking' = FALSE
  /\ UNCHANGED <<log, active, room, history, list, up, inbox, send, unread, opened>>

(* The backend selects the messages of the channel.                          *)
HistoryRead ==
  /\ history.st = "asked"
  /\ history' = [st |-> "read", ids |-> InChannel(active)]
  /\ UNCHANGED <<log, active, room, asking, list, up, inbox, send, unread, opened, faults>>

Sorted(ids) == LET n == Cardinality(ids)
               IN [i \in 1 .. n |->
                     LET m == CHOOSE m \in ids : Cardinality({k \in ids : k < m}) = i - 1
                     IN [id |-> m, text |-> log[m].text]]

(* The answer replaces the list; a channel with messages is marked read in   *)
(* the store, in local storage, and by a request nobody awaits.              *)
HistoryArrives ==
  /\ history.st = "read"
  /\ history' = NoHistory
  /\ list' = Sorted(history.ids)
  /\ IF history.ids = {} THEN UNCHANGED <<flags, grace, marking>>
     ELSE /\ flags' = [flags EXCEPT ![active] = FALSE]
          /\ grace' = [grace EXCEPT ![active] = TRUE]
          /\ marking' = marking \cup {active}
  /\ UNCHANGED <<log, active, room, asking, up, inbox, send, polls, readUpTo, opened, faults>>

(* catch(() => []): a failed request shows an empty channel.                 *)
HistoryFails ==
  /\ history.st # "none" /\ Fault
  /\ history' = NoHistory
  /\ list' = <<>>
  /\ UNCHANGED <<log, active, room, asking, up, inbox, send, unread, opened>>

SocketServed ==
  /\ room # NoRoom /\ ~up
  /\ up' = TRUE
  /\ UNCHANGED <<log, view, list, inbox, send, unread, opened, faults>>

SocketDrops ==
  /\ up /\ Fault
  /\ up' = FALSE /\ inbox' = <<>>
  /\ UNCHANGED <<log, view, list, send, unread, opened>>

-----------------------------------------------------------------------------
(* The backend commits a message and publishes it: to the two users of a     *)
(* direct message, on whatever socket they have, else to its room.           *)
Commit(c, mine, t) ==
  /\ log' = Append(log, [chan |-> c, mine |-> mine, text |-> t])
  /\ inbox' = IF up /\ (Type[c] = "teacher_dm" \/ Room[c] = room)
              THEN Append(inbox, Len(log) + 1) ELSE inbox

OtherPosts(c) ==
  /\ Len(log) + (IF send.st \in {"uploading", "posted"} THEN 1 ELSE 0) < MaxMessage
  /\ \E t \in Text : Commit(c, FALSE, t)
  /\ UNCHANGED <<view, list, up, send, unread, opened, faults>>

(* The guards of onMessageNew: is the reader looking at the message's        *)
(* channel?  The room is compared as far as one is loaded.                   *)
Looking(m) == LET c == log[m].chan
              IN IF Type[c] = "teacher_dm" THEN active = c
                 ELSE active # NoChannel /\ Type[active] = Type[c] /\ room = Room[c]

\* Mistaken form of Shown: known ids are not looked for.
Shown_NoDedup(m) ==
  LET e == [id |-> m, text |-> log[m].text]
      temps == {i \in DOMAIN list : list[i].id = 0 /\ list[i].text = e.text}
  IN IF temps # {} THEN [list EXCEPT ![CHOOSE i \in temps : TRUE] = e]
     ELSE Append(list, e)

\* Mistaken form of Shown: the text alone decides what gives way.
Shown_ByText(m) ==
  LET e == [id |-> m, text |-> log[m].text]
      same == {i \in DOMAIN list : list[i].text = e.text}
  IN IF m \in Ids(list) THEN list
     ELSE IF same # {} THEN [list EXCEPT ![CHOOSE i \in same : TRUE] = e]
     ELSE Append(list, e)

(* Known ids are dropped; a temporary message of the same text gives way.    *)
Shown(m) ==
  LET e == [id |-> m, text |-> log[m].text]
      temps == {i \in DOMAIN list : list[i].id = 0 /\ list[i].text = e.text}
  IN IF m \in Ids(list) THEN list
     ELSE IF temps # {} THEN [list EXCEPT ![CHOOSE i \in temps : \A k \in temps : i <= k] = e]
     ELSE Append(list, e)

(* onMessageNew                                                              *)
Deliver ==
  /\ inbox # <<>>
  /\ inbox' = Tail(inbox)
  /\ LET m == Head(inbox)
         c == log[m].chan
     IN IF Looking(m) THEN list' = Shown(m) /\ UNCHANGED flags
        ELSE /\ flags' = [flags EXCEPT ![c] = @ \/ ~log[m].mine]
             /\ UNCHANGED list
  /\ UNCHANGED <<log, view, up, send, grace, marking, polls, readUpTo, opened, faults>>

-----------------------------------------------------------------------------
(* handleSend: the composer is shown in talk and direct channels and needs   *)
(* some room; with photos it uploads before the temporary message appears.   *)
Submit(t) ==
  /\ send.st = "idle" /\ active # NoChannel /\ room # NoRoom
  /\ Type[active] # "course_announcements"
  /\ Len(log) < MaxMessage
  /\ send' = [st |-> "uploading", chan |-> active, text |-> t, id |-> 0]
  /\ UNCHANGED <<log, view, list, up, inbox, unread, opened, faults>>

ShowTemp ==
  /\ send.st = "uploading"
  /\ send' = [send EXCEPT !.st = "posted"]
  /\ list' = Append(list, [id |-> 0, text |-> send.text])
  /\ UNCHANGED <<log, view, up, inbox, unread, opened, faults>>

PostCommits ==
  /\ send.st = "posted"
  /\ Commit(send.chan, TRUE, send.text)
  /\ send' = [send EXCEPT !.st = "stored", !.id = Len(log) + 1]
  /\ UNCHANGED <<view, list, up, unread, opened, faults>>

(* The answer takes the place of the temporary message; without one, it is   *)
(* added unless its id is there already.                                     *)
Answered(s, e) ==
  LET temps == {i \in DOMAIN s : s[i].id = 0}
  IN IF temps # {} THEN [s EXCEPT ![CHOOSE i \in temps : TRUE] = e]
     ELSE IF e.id \in Ids(s) THEN s ELSE Append(s, e)

PostAnswered ==
  /\ send.st = "stored"
  /\ send' = Idle
  /\ list' = Answered(list, [id |-> send.id, text |-> send.text])
  /\ UNCHANGED <<log, view, up, inbox, unread, opened, faults>>

(* filter by the id of the temporary message.                                *)
WithoutTemp(s) ==
  LET temps == {i \in DOMAIN s : s[i].id = 0}
      t == CHOOSE i \in temps : TRUE
  IN IF temps = {} THEN s
     ELSE [k \in 1 .. Len(s) - 1 |-> IF k < t THEN s[k] ELSE s[k + 1]]

(* Refused, or the answer is lost: the temporary message goes, the text      *)
(* returns to the composer.                                                  *)
PostFails ==
  /\ send.st \in {"posted", "stored"} /\ Fault
  /\ send' = Idle
  /\ list' = WithoutTemp(list)
  /\ UNCHANGED <<log, view, up, inbox, unread, opened>>

-----------------------------------------------------------------------------
\* Mistaken form of Mark: one message too far.
Mark_Ahead(c) ==
  /\ c \in marking
  /\ marking' = marking \ {c}
  /\ readUpTo' = [readUpTo EXCEPT ![c] = Len(log) + 1]
  /\ UNCHANGED <<log, view, list, up, inbox, send, flags, grace, polls, opened, faults>>

(* POST /chat/read: the read time is the server's clock at this moment.      *)
Mark(c) ==
  /\ c \in marking
  /\ marking' = marking \ {c}
  /\ readUpTo' = [readUpTo EXCEPT ![c] = Len(log)]
  /\ UNCHANGED <<log, view, list, up, inbox, send, flags, grace, polls, opened, faults>>

MarkLost(c) ==
  /\ c \in marking /\ Fault
  /\ marking' = marking \ {c}
  /\ UNCHANGED <<log, view, list, up, inbox, send, flags, grace, polls, readUpTo, opened>>

GraceEnds(c) ==
  /\ grace[c]
  /\ grace' = [grace EXCEPT ![c] = FALSE]
  /\ UNCHANGED <<log, view, list, up, inbox, send, flags, marking, polls, readUpTo, opened, faults>>

(* checkAllChannels, every 8 seconds; a slow answer may overtake another.    *)
Poll ==
  /\ Cardinality(polls) < MaxPoll
  /\ polls' = polls \cup {[c \in Channel |-> Unread(c)]}
  /\ UNCHANGED <<log, view, list, up, inbox, send, flags, grace, marking, readUpTo, opened, faults>>

\* Mistaken form of PollAnswered: a flag is set and never cleared.
PollAnswered_OnlySets(p) ==
  /\ p \in polls
  /\ polls' = polls \ {p}
  /\ flags' = [c \in Channel |-> (flags[c] \/ p[c]) /\ ~grace[c]]
  /\ UNCHANGED <<log, view, list, up, inbox, send, grace, marking, readUpTo, opened, faults>>

PollAnswered(p) ==
  /\ p \in polls
  /\ polls' = polls \ {p}
  /\ flags' = [c \in Channel |-> p[c] /\ ~grace[c]]
  /\ UNCHANGED <<log, view, list, up, inbox, send, grace, marking, readUpTo, opened, faults>>

(* Without an answer the tracker looks at the newest messages itself and     *)
(* compares them with a key of local storage that nothing writes.            *)
PollFallsBack ==
  /\ Fault
  /\ flags' = [c \in Channel |-> Others(c) # {}]
  /\ UNCHANGED <<log, view, list, up, inbox, send, grace, marking, polls, readUpTo, opened>>

Next == \/ \E c \in Channel : \/ Open(c) \/ OtherPosts(c)
                              \/ Mark(c) \/ MarkLost(c) \/ GraceEnds(c)
        \/ RoomArrives \/ RoomRefused \/ HistoryRead \/ HistoryArrives \/ HistoryFails
        \/ SocketServed \/ SocketDrops \/ Deliver
        \/ \E t \in Text : Submit(t)
        \/ ShowTemp \/ PostCommits \/ PostAnswered \/ PostFails
        \/ Poll \/ PollFallsBack \/ \E p \in polls : PollAnswered(p)

Fairness == /\ WF_vars(RoomArrives) /\ WF_vars(HistoryRead) /\ WF_vars(HistoryArrives)
            /\ WF_vars(SocketServed) /\ WF_vars(Deliver)
            /\ WF_vars(ShowTemp) /\ WF_vars(PostCommits) /\ WF_vars(PostAnswered)
            /\ \A c \in Channel : WF_vars(Mark(c)) /\ WF_vars(GraceEnds(c))
            /\ WF_vars(Poll)
            /\ \A p \in [Channel -> BOOLEAN] : SF_vars(PollAnswered(p))

Spec == Init /\ [][Next]_vars /\ Fairness

-----------------------------------------------------------------------------
Message == [chan : Channel, mine : BOOLEAN, text : Text]
Entry(n) == [id : 0 .. n, text : Text]
Sending(n) == [st : {"idle", "uploading", "posted", "stored"}, text : Text,
               chan : Channel \cup {NoChannel}, id : 0 .. n]

TypeOK ==
  /\ log \in Seq(Message)
  /\ Len(log) <= MaxMessage
  /\ active \in Channel \cup {NoChannel}
  /\ room \in {Room[c] : c \in Channel} \cup {NoRoom}
  /\ history \in [st : {"none", "asked", "read"}, ids : SUBSET DOMAIN log]
  /\ list \in Seq(Entry(Len(log)))
  /\ inbox \in Seq(DOMAIN log)
  /\ send \in Sending(Len(log))
  /\ {flags, grace} \subseteq [Channel -> BOOLEAN]
  /\ marking \subseteq Channel /\ polls \subseteq [Channel -> BOOLEAN]
  /\ readUpTo \in [Channel -> 0 .. Len(log)]
  /\ up \in BOOLEAN /\ asking \in BOOLEAN
  /\ faults \in 0 .. MaxFault /\ opened \in 0 .. MaxOpen

(* No message is in the list twice, although it may come by the history, by  *)
(* the socket and by the answer of its own send, in any order.               *)
NoDuplicates == \A i, j \in DOMAIN list : list[i].id = list[j].id => i = j

(* Once the history of the open channel is in, no message leaves the list    *)
(* again while the channel stays open.                                       *)
NothingVanishes ==
  [][active' = active /\ history.st = "none" => Ids(list) \subseteq Ids(list')]_vars

(* However polls, live frames, reads, lost marks and fallbacks overtake each *)
(* other, the flags end where the backend's read times are.                  *)
FlagsConverge == \A c \in Channel : <>[](flags[c] <=> Unread(c))

-----------------------------------------------------------------------------
(* The inductive strengthening that StudentChatProofs proves: a temporary    *)
(* message belongs to the send under way, and waits for an answer that the   *)
(* list does not have yet.                                                   *)
TempOK ==
  /\ \A i \in DOMAIN list : list[i].id = 0 =>
       /\ send.st \in {"posted", "stored"}
       /\ list[i].text = send.text
       /\ send.st = "stored" => send.id \notin Ids(list)
  /\ send.st = "stored" => send.id \in DOMAIN log /\ log[send.id].text = send.text

(* Requests and sends are made from a channel.                               *)
FromChannel ==
  /\ asking \/ history.st # "none" => active # NoChannel
  /\ send.st # "idle" => send.chan # NoChannel

(* A place of the log is kept for the send under way.                        *)
WithinBound == send.st \in {"uploading", "posted"} => Len(log) < MaxMessage

IndInv == TypeOK /\ FromChannel /\ WithinBound /\ NoDuplicates /\ TempOK

=============================================================================

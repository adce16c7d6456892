---------------------------- MODULE TeacherChat ----------------------------
(***************************************************************************)
(* The teacher's messages page, TeacherCommunicationView.tsx: room and       *)
(* history requests whose answers are applied whatever channel is open by    *)
(* then, the sockets of one room or of every announcement room, the general  *)
(* announcement that is posted to each course, and optimistic deletion.      *)
(* A message is its place in `log`; the entry 0 of the list is temporary.    *)
(***************************************************************************)
EXTENDS Naturals, Sequences, FiniteSets

CONSTANTS Channel, All,   \* All: the Announcements tab
          Direct,         \* Direct: the direct messages with one student
          RoomsOf,        \* Channel -> its rooms, in the order of the courses
          NoRoom, NoChannel, Text,
          MaxMessage, MaxOpen, MaxSend, MaxFault     \* bounds

ASSUME ViewBounds == /\ All \in Channel /\ NoChannel \notin Channel
                     /\ \A c \in Channel : /\ Len(RoomsOf[c]) \in Nat \ {0}
                                          /\ DOMAIN RoomsOf[c] = 1 .. Len(RoomsOf[c])
                     /\ Text # {}
                     /\ {MaxMessage, MaxOpen, MaxSend, MaxFault} \subseteq Nat

VARIABLES log,       \* server: [chan, room, mine, text, cast, minute, deleted]
          minute,    \* the clock: before or after a full minute
          active, room, rooms,   \* activeChannel, room, announcementRooms
          asks,      \* requests for rooms that are out: [n, chan]
          fetches,   \* requests for histories that are out: [n, chan, st, ids]
          list,      \* messages: [id, text, cast, face]
          served,    \* rooms whose mounted socket is served
          inbox,     \* frames on their way to the handlers
          send,      \* handleSendMessage in progress
          deleting,  \* handleDeleteMessage in progress: ids
          flags,     \* unreadChannelKeys
          opened, sends, faults

chat == <<active, room, rooms, asks>>
vars == <<log, minute, chat, fetches, list, served, inbox, send, deleting, flags,
          opened, sends, faults>>

RoomSet(c) == {RoomsOf[c][i] : i \in DOMAIN RoomsOf[c]}
Rooms == UNION {RoomSet(c) : c \in Channel}
Idle == [st |-> "idle", chan |-> NoChannel, text |-> CHOOSE t \in Text : TRUE,
         todo |-> {}, done |-> {}]
Fault == faults < MaxFault /\ faults' = faults + 1
Tolerated(got, all) == IF got = all THEN UNCHANGED faults ELSE Fault
Ids(s) == {s[i].id : i \in DOMAIN s} \ {0}
Entry(m) == [id |-> m, text |-> log[m].text, cast |-> log[m].cast, face |-> "text"]

(* The rooms the socket effect connects.                                     *)
Mounted == IF active = All THEN rooms ELSE {room} \ {NoRoom}

Init == /\ log = <<>> /\ minute = 0
        /\ active = NoChannel /\ room = NoRoom /\ rooms = {} /\ asks = {}
        /\ fetches = {} /\ list = <<>> /\ served = {} /\ inbox = <<>>
        /\ send = Idle /\ deleting = {} /\ flags = [c \in Channel |-> FALSE]
        /\ opened = 0 /\ sends = 0 /\ faults = 0

-----------------------------------------------------------------------------
(* Mistaken form of Open: the sockets of the channel before stay counted.    *)
Open_KeepsSockets(c) ==
  /\ opened < MaxOpen
  /\ opened' = opened + 1
  /\ active' = c /\ room' = NoRoom /\ rooms' = {}
  /\ asks' = asks \cup {[n |-> opened', chan |-> c]}
  /\ fetches' = fetches \cup {[n |-> opened', chan |-> c, st |-> "asked", ids |-> {}]}
  /\ list' = <<>>
  /\ UNCHANGED <<log, minute, served, inbox, send, deleting, flags, sends, faults>>

(* A channel is chosen: list and room are cleared, the sockets go, both      *)
(* requests start; those of the channel before stay out.                     *)
Open(c) ==
  /\ opened < MaxOpen
  /\ opened' = opened + 1
  /\ active' = c /\ room' = NoRoom /\ rooms' = {}
  /\ asks' = asks \cup {[n |-> opened', chan |-> c]}
  /\ fetches' = fetches \cup {[n |-> opened', chan |-> c, st |-> "asked", ids |-> {}]}
  /\ list' = <<>> /\ served' = {} /\ inbox' = <<>>
  /\ UNCHANGED <<log, minute, send, deleting, flags, sends, faults>>

(* An answer sets the room; for All the announcement rooms that could be     *)
(* asked and the first of them.  The socket effect runs again when the room  *)
(* or the list of rooms is another one.                                      *)
FirstRoom(loaded) == CHOOSE r \in loaded : \E i \in DOMAIN RoomsOf[All] :
                       /\ RoomsOf[All][i] = r
                       /\ \A j \in 1 .. i - 1 : RoomsOf[All][j] \notin loaded

RoomArrives(a) ==
  /\ a \in asks
  /\ asks' = asks \ {a}
  /\ \/ /\ a.chan # All
        /\ room' = RoomsOf[a.chan][1]
        /\ IF room' = room THEN UNCHANGED <<served, inbox>>
           ELSE served' = {} /\ inbox' = <<>>
        /\ UNCHANGED <<rooms, faults>>
     \/ /\ a.chan = All
        /\ \E loaded \in SUBSET RoomSet(All) :
             /\ rooms' = loaded
             /\ room' = IF loaded = {} THEN room ELSE FirstRoom(loaded)
             /\ Tolerated(loaded, RoomSet(All))
        /\ served' = {} /\ inbox' = <<>>
  /\ UNCHANGED <<log, minute, active, fetches, list, send, deleting, flags,
                 opened, sends>>

RoomRefused(a) ==
  /\ a \in asks /\ a.chan # All /\ Fault
  /\ asks' = asks \ {a}
  /\ UNCHANGED <<log, minute, active, room, rooms, fetches, list, served, inbox,
                 send, deleting, flags, opened, sends>>

(* A course that fails is left out of the announcements and of the direct    *)
(* messages; a talk has one request.                                         *)
HistoryRead(f) ==
  /\ f \in fetches /\ f.st = "asked"
  /\ \E from \in SUBSET RoomSet(f.chan) :
       /\ f.chan \in {All, Direct} \/ from = RoomSet(f.chan)
       /\ Tolerated(from, RoomSet(f.chan))
       /\ fetches' = (fetches \ {f}) \cup
            {[f EXCEPT !.st = "read",
                       !.ids = {m \in DOMAIN log : /\ log[m].chan = f.chan
                                                   /\ log[m].room \in from
                                                   /\ ~log[m].deleted}]}
  /\ UNCHANGED <<log, minute, chat, list, served, inbox, send, deleting, flags,
                 opened, sends>>

(* The courses' answers are joined in order; a message with the text, sender *)
(* and minute of an earlier one is left out.                                 *)
Before(k, m) == LET place(x) == CHOOSE i \in DOMAIN RoomsOf[All] : RoomsOf[All][i] = log[x].room
                IN place(k) < place(m)

(* Mistaken form of Merged: the courses' answers are only joined.            *)
Merged_NotJoined(c, ids) == ids

Merged(c, ids) ==
  IF c # All THEN ids
  ELSE {m \in ids : ~\E k \in ids : /\ log[k].cast = log[m].cast
                                    /\ log[k].minute = log[m].minute
                                    /\ Before(k, m)}

Sorted(ids) == LET nth(i) == CHOOSE m \in ids : Cardinality({k \in ids : k < m}) = i - 1
               IN [i \in 1 .. Cardinality(ids) |-> Entry(nth(i))]

(* The answer fills the list and marks its channel read, whatever is open.   *)
HistoryArrives(f) ==
  /\ f \in fetches /\ f.st = "read"
  /\ fetches' = fetches \ {f}
  /\ list' = Sorted(Merged(f.chan, f.ids))
  /\ flags' = [flags EXCEPT ![f.chan] = FALSE]
  /\ UNCHANGED <<log, minute, chat, served, inbox, send, deleting, opened, sends, faults>>

HistoryFails(f) ==
  /\ f \in fetches /\ f.chan \notin {All, Direct} /\ Fault
  /\ fetches' = fetches \ {f}
  /\ UNCHANGED <<log, minute, chat, list, served, inbox, send, deleting, flags,
                 opened, sends>>

SocketServed(r) ==
  /\ r \in Mounted \ served
  /\ served' = served \cup {r}
  /\ UNCHANGED <<log, minute, chat, fetches, list, inbox, send, deleting, flags,
                 opened, sends, faults>>

-----------------------------------------------------------------------------
Commit(c, r, mine, t) ==
  /\ log' = Append(log, [chan |-> c, room |-> r, mine |-> mine, text |-> t,
                         cast |-> IF c = All THEN sends ELSE 0,
                         minute |-> minute, deleted |-> FALSE])
  /\ inbox' = IF (c = Direct /\ served # {}) \/ r \in served
              THEN Append(inbox, Len(log) + 1) ELSE inbox

MinutePasses == /\ minute = 0 /\ minute' = 1
                /\ UNCHANGED <<log, chat, fetches, list, served, inbox, send,
                               deleting, flags, opened, sends, faults>>

(* A student writes in a talk or to the teacher.                             *)
StudentPosts(c) ==
  /\ c # All
  /\ Len(log) + Cardinality(send.todo) < MaxMessage
  /\ \E t \in Text : Commit(c, RoomsOf[c][1], FALSE, t)
  /\ UNCHANGED <<minute, chat, fetches, list, served, send, deleting, flags,
                 opened, sends, faults>>

(* safeAppendMessage.  Known ids are dropped, in All also what looks like    *)
(* the same announcement; a temporary message of the same text gives way.    *)
Appended(m) ==
  LET temps == {i \in DOMAIN list : list[i].id = 0 /\ list[i].text = log[m].text}
      Same(i) == list[i].cast = log[m].cast /\ list[i].text = log[m].text
  IN IF m \in Ids(list) \/ (active = All /\ \E i \in DOMAIN list : Same(i)) THEN list
     ELSE IF temps # {} THEN [list EXCEPT ![CHOOSE i \in temps : TRUE] = Entry(m)]
     ELSE Append(list, Entry(m))

Deliver ==
  /\ inbox # <<>>
  /\ inbox' = Tail(inbox)
  /\ LET m == Head(inbox)
         c == log[m].chan
     IN IF active = c THEN list' = Appended(m) /\ UNCHANGED flags
        ELSE /\ flags' = [flags EXCEPT ![c] = @ \/ c = All \/ ~log[m].mine]
             /\ UNCHANGED list
  /\ UNCHANGED <<log, minute, chat, fetches, served, send, deleting, opened, sends, faults>>

-----------------------------------------------------------------------------
(* handleSendMessage: one POST, or one to each course for All.               *)
Submit(t) ==
  /\ send.st = "idle" /\ active # NoChannel /\ sends < MaxSend
  /\ Len(log) + Cardinality(RoomSet(active)) <= MaxMessage
  /\ sends' = sends + 1
  /\ send' = [st |-> "uploading", chan |-> active, text |-> t,
              todo |-> IF active = All THEN RoomSet(All) ELSE {RoomsOf[active][1]},
              done |-> {}]
  /\ UNCHANGED <<log, minute, chat, fetches, list, served, inbox, deleting, flags,
                 opened, faults>>

ShowTemp ==
  /\ send.st = "uploading"
  /\ send' = [send EXCEPT !.st = "posted"]
  /\ list' = Append(list, [id |-> 0, text |-> send.text, face |-> "text",
                           cast |-> IF send.chan = All THEN sends ELSE 0])
  /\ UNCHANGED <<log, minute, chat, fetches, served, inbox, deleting, flags,
                 opened, sends, faults>>

PostCommits(r) ==
  /\ send.st = "posted" /\ r \in send.todo
  /\ Commit(send.chan, r, TRUE, send.text)
  /\ \/ send' = [send EXCEPT !.todo = @ \ {r}, !.done = @ \cup {Len(log) + 1}]
        /\ UNCHANGED faults
     \/ send' = [send EXCEPT !.todo = @ \ {r}] /\ Fault      \* the answer is lost
  /\ UNCHANGED <<minute, chat, fetches, list, served, deleting, flags, opened, sends>>

PostRefused(r) ==
  /\ send.st = "posted" /\ r \in send.todo /\ Fault
  /\ send' = [send EXCEPT !.todo = @ \ {r}]
  /\ UNCHANGED <<log, minute, chat, fetches, list, served, inbox, deleting, flags,
                 opened, sends>>

(* Every POST is settled: the first success takes the place of the temporary *)
(* message, or is added if it is not there; without one it is removed.       *)
First(done) == CHOOSE m \in done : ~\E k \in done : send.chan = All /\ Before(k, m)

Answered(s, e) ==
  LET temps == {i \in DOMAIN s : s[i].id = 0}
      Same(i) == s[i].cast = e.cast /\ s[i].text = e.text
  IN IF temps # {} THEN [s EXCEPT ![CHOOSE i \in temps : TRUE] = e]
     ELSE IF e.id \in Ids(s) \/ (send.chan = All /\ \E i \in DOMAIN s : Same(i)) THEN s
     ELSE Append(s, e)

(* filter by the id of the temporary message.                                *)
WithoutTemp(s) ==
  LET temps == {i \in DOMAIN s : s[i].id = 0}
      t == CHOOSE i \in temps : TRUE
  IN IF temps = {} THEN s
     ELSE [k \in 1 .. Len(s) - 1 |-> IF k < t THEN s[k] ELSE s[k + 1]]

Settle ==
  /\ send.st = "posted" /\ send.todo = {}
  /\ list' = IF send.done # {} THEN Answered(list, Entry(First(send.done)))
             ELSE WithoutTemp(list)
  /\ send' = Idle
  /\ UNCHANGED <<log, minute, chat, fetches, served, inbox, deleting, flags,
                 opened, sends, faults>>

-----------------------------------------------------------------------------
Faced(m, face) == [i \in DOMAIN list |->
                     IF list[i].id = m THEN [list[i] EXCEPT !.face = face] ELSE list[i]]

(* handleDeleteMessage: shown as deleted at once; a failure takes the mark   *)
(* back, not the text.                                                       *)
Delete(m) ==
  /\ \E i \in DOMAIN list : list[i].id = m /\ list[i].face # "gone"
  /\ m \notin deleting /\ m # 0
  /\ list' = Faced(m, "gone")
  /\ deleting' = deleting \cup {m}
  /\ UNCHANGED <<log, minute, chat, fetches, served, inbox, send, flags, opened,
                 sends, faults>>

DeleteCommits(m) ==
  /\ m \in deleting
  /\ log' = [log EXCEPT ![m].deleted = TRUE]
  /\ deleting' = deleting \ {m}
  /\ UNCHANGED <<minute, chat, fetches, list, served, inbox, send, flags, opened,
                 sends, faults>>

(* Mistaken form of DeleteFails: the mark is not taken back.                 *)
DeleteFails_KeepsMark(m) ==
  /\ m \in deleting /\ Fault
  /\ deleting' = deleting \ {m}
  /\ UNCHANGED <<log, minute, chat, fetches, list, served, inbox, send, flags,
                 opened, sends>>

DeleteFails(m) ==
  /\ m \in deleting /\ Fault
  /\ deleting' = deleting \ {m}
  /\ list' = [i \in DOMAIN list |-> IF list[i].id = m
                                    THEN [list[i] EXCEPT !.face = "blank"] ELSE list[i]]
  /\ UNCHANGED <<log, minute, chat, fetches, served, inbox, send, flags, opened, sends>>

Next == \/ \E c \in Channel : Open(c) \/ StudentPosts(c)
        \/ \E a \in asks : RoomArrives(a) \/ RoomRefused(a)
        \/ \E f \in fetches : HistoryRead(f) \/ HistoryArrives(f) \/ HistoryFails(f)
        \/ \E r \in Rooms : SocketServed(r) \/ PostCommits(r) \/ PostRefused(r)
        \/ MinutePasses \/ Deliver \/ ShowTemp \/ Settle
        \/ \E t \in Text : Submit(t)
        \/ \E m \in DOMAIN log : Delete(m) \/ DeleteCommits(m) \/ DeleteFails(m)

Spec == Init /\ [][Next]_vars

-----------------------------------------------------------------------------
Message == [chan : Channel, room : Rooms, mine : BOOLEAN, text : Text,
            cast : 0 .. MaxSend, minute : {0, 1}, deleted : BOOLEAN]
Asked == [n : 1 .. MaxOpen, chan : Channel]
Fetched(n) == [n : 1 .. MaxOpen, chan : Channel, st : {"asked", "read"}, ids : SUBSET (1 .. n)]
Listed(n) == [id : 0 .. n, text : Text, cast : 0 .. MaxSend, face : {"text", "gone", "blank"}]
Sending(n) == [st : {"idle", "uploading", "posted"}, chan : Channel \cup {NoChannel},
               text : Text, todo : SUBSET Rooms, done : SUBSET (1 .. n)]

TypeOK ==
  /\ log \in Seq(Message) /\ minute \in {0, 1}
  /\ active \in Channel \cup {NoChannel} /\ room \in Rooms \cup {NoRoom}
  /\ rooms \subseteq Rooms /\ served \subseteq Mounted
  /\ asks \subseteq Asked /\ fetches \subseteq Fetched(Len(log))
  /\ list \in Seq(Listed(Len(log)))
  /\ inbox \in Seq(DOMAIN log) /\ deleting \subseteq DOMAIN log
  /\ send \in Sending(Len(log))
  /\ flags \in [Channel -> BOOLEAN]
  /\ opened \in 0 .. MaxOpen /\ sends \in 0 .. MaxSend /\ faults \in 0 .. MaxFault

(* One general announcement makes a message in each course and one entry in  *)
(* the list, by whichever room it came, unless its copies fell into two      *)
(* minutes, by which the histories are joined.                               *)
OneCopy == \A i, j \in DOMAIN list :
             /\ i # j /\ list[i].cast # 0 /\ list[i].cast = list[j].cast
             => /\ 0 \notin {list[i].id, list[j].id}
                /\ log[list[i].id].minute # log[list[j].id].minute

(* What the list shows as deleted is deleted, or about to be: a failed       *)
(* deletion is taken back wherever the message has come from by then.        *)
GoneIsDeleted == \A i \in DOMAIN list :
                   list[i].face = "gone" =>
                     list[i].id \in deleting \/ log[list[i].id].deleted

-----------------------------------------------------------------------------
(* The inductive strengthening that TeacherChatProofs proves.  The messages  *)
(* of one general announcement are in different rooms and have one text.     *)
LogOK ==
  \A m \in DOMAIN log :
    /\ log[m].chan # All => log[m].cast = 0
    /\ log[m].chan = All => log[m].cast \in 1 .. sends /\ log[m].room \in RoomSet(All)
    /\ \A k \in DOMAIN log :
         k # m /\ log[m].cast # 0 /\ log[k].cast = log[m].cast
         => log[k].room # log[m].room /\ log[k].text = log[m].text

(* A send is made from a channel.                                            *)
FromChannel == send.st # "idle" => send.chan # NoChannel

(* A general announcement under way: its number is new, and the POSTs to do  *)
(* are those to rooms where no message of it is.                             *)
CastOK ==
  send.st # "idle" /\ send.chan = All =>
    /\ sends # 0 /\ send.todo \subseteq RoomSet(All)
    /\ \A m \in DOMAIN log : log[m].cast = sends =>
         send.st = "posted" /\ log[m].room \notin send.todo /\ log[m].text = send.text

(* What a send has stored is of its channel, its text and its number.        *)
StoredOK ==
  \A m \in send.done : /\ log[m].chan = send.chan /\ log[m].text = send.text
                       /\ send.chan = All => log[m].cast = sends

SendOK == FromChannel /\ CastOK /\ StoredOK

TempCast == IF send.chan = All THEN sends ELSE 0

(* An entry shows a message, or it is the temporary one of the send.         *)
ListOK ==
  \A i \in DOMAIN list :
    /\ list[i].id # 0 => /\ list[i].text = log[list[i].id].text
                         /\ list[i].cast = log[list[i].id].cast
    /\ list[i].id = 0 => /\ send.st = "posted" /\ list[i].text = send.text
                         /\ list[i].cast = TempCast /\ list[i].face # "gone"
                         /\ \A j \in DOMAIN list : list[j].id = 0 => i = j

FetchesOK == \A f \in fetches : \A m \in f.ids : log[m].chan = f.chan

IndInv == TypeOK /\ LogOK /\ SendOK /\ ListOK /\ FetchesOK /\ OneCopy /\ GoneIsDeleted

=============================================================================

------------------------- MODULE TeacherChatProofs -------------------------
(***************************************************************************)
(* Proofs about TeacherChat for every set of channels, rooms and texts and *)
(* every bound.  A general announcement has a message in each course; what *)
(* keeps its copies apart from one another is the number of the send, which *)
(* no other message of the log carries.                                    *)
(***************************************************************************)
EXTENDS TeacherChat, FiniteSetTheorems, FunctionTheorems, TLAPS

(***************************************************************************)
(* Lemmas about sequences and finite sets of numbers.                      *)
(***************************************************************************)

\* A sequence over a set is one over a larger set.
LEMMA SeqWider ==
  ASSUME NEW S, NEW T, S \subseteq T, NEW s \in Seq(S)
  PROVE  s \in Seq(T)
  OBVIOUS

\* The empty sequence is one over every set.
LEMMA SeqEmpty ==
  ASSUME NEW S
  PROVE  <<>> \in Seq(S)
  OBVIOUS

\* A member of a sequence is one of its set.
LEMMA SeqMember ==
  ASSUME NEW S, NEW s \in Seq(S), NEW i \in DOMAIN s
  PROVE  s[i] \in S /\ i \in 1 .. Len(s) /\ Len(s) \in Nat
  OBVIOUS

\* Every member of a sequence is replaced.
LEMMA SeqMap ==
  ASSUME NEW S, NEW s \in Seq(S), NEW t, DOMAIN t = DOMAIN s,
         t = [i \in DOMAIN t |-> t[i]], \A i \in DOMAIN s : t[i] \in S
  PROVE  t \in Seq(S) /\ Len(t) = Len(s)
  <1>1. DOMAIN t = 1 .. Len(s) /\ Len(s) \in Nat
    OBVIOUS
  <1> QED
    BY <1>1

\* A sequence grows by one.
LEMMA SeqGrows ==
  ASSUME NEW S, NEW s \in Seq(S), NEW x \in S
  PROVE  LET t == Append(s, x)
         IN  /\ t \in Seq(S) /\ Len(t) = Len(s) + 1 /\ t[Len(s) + 1] = x
             /\ DOMAIN t = DOMAIN s \cup {Len(s) + 1} /\ Len(s) + 1 \notin DOMAIN s
             /\ \A k \in DOMAIN s : t[k] = s[k]
  OBVIOUS

\* The first of a queue, and the rest.
LEMMA SeqTail ==
  ASSUME NEW S, NEW s \in Seq(S), s # <<>>
  PROVE  Head(s) \in S /\ Tail(s) \in Seq(S)
  OBVIOUS

\* Ranks are below the number of members, and differ.
LEMMA RankOrder ==
  ASSUME NEW ids \in SUBSET Nat, IsFiniteSet(ids)
  PROVE  /\ \A m \in ids : /\ Cardinality({k \in ids : k < m}) \in Nat
                           /\ Cardinality({k \in ids : k < m}) < Cardinality(ids)
         /\ \A m, n \in ids : Cardinality({k \in ids : k < m}) = Cardinality({k \in ids : k < n})
                              => m = n
  <1> DEFINE N == Cardinality(ids)
             below(m) == {k \in ids : k < m}
  <1>0. \A k \in ids : k \in Nat
    OBVIOUS
  <1>1. N \in Nat
    BY FS_CardinalityType
  <1>2. \A m \in ids : /\ IsFiniteSet(below(m)) /\ Cardinality(below(m)) \in Nat
                       /\ Cardinality(below(m)) < N
    <2> TAKE m \in ids
    <2>1. below(m) \in SUBSET ids /\ m \notin below(m) /\ m \in ids
      OBVIOUS
    <2>2. /\ IsFiniteSet(below(m)) /\ Cardinality(below(m)) <= N
          /\ N = Cardinality(below(m)) => ids = below(m)
      BY <2>1, FS_Subset
    <2>3. Cardinality(below(m)) \in Nat
      BY <2>2, FS_CardinalityType
    <2> QED
      BY <1>1, <2>1, <2>2, <2>3
  <1>3. ASSUME NEW m \in ids, NEW n \in ids, m < n
        PROVE  Cardinality(below(m)) < Cardinality(below(n))
    <2>1. below(m) \in SUBSET below(n) /\ m \in below(n) /\ m \notin below(m)
      <3>1. m \in Nat /\ n \in Nat /\ \A k \in Nat : k < m => k < n
        BY <1>0, <1>3
      <3>2. \A k \in ids : k < m => k < n
        BY <1>0, <3>1
      <3>3. m \in below(n) /\ m \notin below(m)
        BY <1>3, <3>1
      <3>4. \A k \in below(m) : k \in below(n)
        BY <3>2
      <3> QED
        BY <3>3, <3>4
    <2>2. /\ Cardinality(below(m)) <= Cardinality(below(n))
          /\ Cardinality(below(n)) = Cardinality(below(m)) => below(n) = below(m)
      BY <1>2, <2>1, FS_Subset
    <2> QED
      BY <1>2, <2>1, <2>2
  <1>4. ASSUME NEW m \in ids, NEW n \in ids, Cardinality(below(m)) = Cardinality(below(n))
        PROVE  m = n
    <2>1. m < n \/ n < m \/ m = n
      BY <1>0
    <2> QED
      BY <1>2, <1>3, <1>4, <2>1
  <1> QED
    BY <1>2, <1>4

\* In a finite set of numbers every rank is taken: the ranks of the members
\* differ, so there are as many as there are members.
LEMMA Ranks ==
  ASSUME NEW ids \in SUBSET Nat, IsFiniteSet(ids), NEW i \in 1 .. Cardinality(ids)
  PROVE  \E m \in ids : Cardinality({k \in ids : k < m}) = i - 1
  <1> DEFINE N == Cardinality(ids)
             rank == [m \in ids |-> Cardinality({k \in ids : k < m})]
             R == 0 .. N - 1
  <1>1. N \in Nat
    BY FS_CardinalityType
  <1>2. rank \in [ids -> R]
    BY <1>1, RankOrder
  <1>3. \A m, n \in ids : rank[m] = rank[n] => m = n
    BY RankOrder
  <1>4. rank \in Injection(ids, R)
    BY <1>2, <1>3 DEF Injection, IsInjective
  <1>5. IsFiniteSet(R) /\ Cardinality(R) = N
    <2>1. 0 \in Int /\ N - 1 \in Int
      BY <1>1
    <2>2. IsFiniteSet(R) /\ Cardinality(R) = IF 0 > N - 1 THEN 0 ELSE (N - 1) - 0 + 1
      BY <2>1, FS_Interval
    <2> QED
      BY <1>1, <2>2
  <1> HIDE DEF rank, R
  <1>6. rank \in Surjection(ids, R)
    BY <1>4, <1>5, FS_Injection
  <1>7. i - 1 \in R
    BY <1>1 DEF R
  <1>8. PICK m \in ids : rank[m] = i - 1
    BY <1>6, <1>7 DEF Surjection
  <1> QED
    BY <1>8 DEF rank

\* The least of a set of numbers.
LEMMA Least ==
  ASSUME NEW S \in SUBSET Nat, IsFiniteSet(S), S # {}
  PROVE  \E m \in S : \A k \in S : m <= k
  <1>1. Cardinality(S) \in Nat /\ Cardinality(S) # 0
    BY FS_CardinalityType, FS_EmptySet
  <1>2. 1 \in 1 .. Cardinality(S)
    BY <1>1
  <1>3. PICK m \in S : Cardinality({k \in S : k < m}) = 0
    <2>1. \E m \in S : Cardinality({k \in S : k < m}) = 1 - 1
      BY <1>2, Ranks
    <2> QED
      BY <2>1
  <1>4. {k \in S : k < m} = {}
    <2>1. {k \in S : k < m} \in SUBSET S
      OBVIOUS
    <2> QED
      BY <1>3, <2>1, FS_Subset, FS_EmptySet
  <1>5. \A k \in S : k \in Nat /\ m \in Nat /\ ~(k < m)
    BY <1>4
  <1> QED
    BY <1>5

(***************************************************************************)
(* Lemmas about the rooms of a channel.                                    *)
(***************************************************************************)

\* A channel has a first room, and its rooms are rooms.
LEMMA ChannelRooms ==
  ASSUME NEW c \in Channel
  PROVE  RoomsOf[c][1] \in RoomSet(c) /\ RoomSet(c) \subseteq Rooms
  <1>1. 1 \in DOMAIN RoomsOf[c]
    BY ViewBounds
  <1>2. RoomSet(c) \in {RoomSet(d) : d \in Channel}
    OBVIOUS
  <1>3. RoomSet(c) \subseteq Rooms
    BY <1>2 DEF Rooms
  <1> QED
    BY <1>1, <1>3 DEF RoomSet

\* Of some announcement rooms one is the first in the order of the courses.
LEMMA FirstRoomLoaded ==
  ASSUME NEW loaded \in SUBSET RoomSet(All), loaded # {}
  PROVE  FirstRoom(loaded) \in loaded
  <1> DEFINE places == {i \in DOMAIN RoomsOf[All] : RoomsOf[All][i] \in loaded}
  <1>1. DOMAIN RoomsOf[All] = 1 .. Len(RoomsOf[All]) /\ Len(RoomsOf[All]) \in Nat
    BY ViewBounds
  <1>2. places \in SUBSET Nat /\ IsFiniteSet(places)
    <2>1. IsFiniteSet(DOMAIN RoomsOf[All])
      BY <1>1, FS_Interval
    <2>2. places \in SUBSET DOMAIN RoomsOf[All]
      OBVIOUS
    <2> QED
      BY <1>1, <2>1, <2>2, FS_Subset
  <1>3. places # {}
    BY DEF RoomSet
  <1> HIDE DEF places
  <1>4. PICK i \in places : \A k \in places : i <= k
    BY <1>2, <1>3, Least
  <1>5. /\ i \in DOMAIN RoomsOf[All] /\ RoomsOf[All][i] \in loaded
        /\ \A j \in 1 .. i - 1 : RoomsOf[All][j] \notin loaded
    <2>1. i \in 1 .. Len(RoomsOf[All]) /\ RoomsOf[All][i] \in loaded
      BY <1>1, <1>4 DEF places
    <2>2. ASSUME NEW j \in 1 .. i - 1, RoomsOf[All][j] \in loaded PROVE FALSE
      <3>1. j \in places
        BY <1>1, <2>1, <2>2 DEF places
      <3> QED
        BY <1>4, <2>1, <3>1
    <2> QED
      BY <1>1, <2>1, <2>2
  <1>6. \E r \in loaded : \E n \in DOMAIN RoomsOf[All] :
          RoomsOf[All][n] = r /\ \A j \in 1 .. n - 1 : RoomsOf[All][j] \notin loaded
    BY <1>5
  <1> QED
    BY <1>6 DEF FirstRoom

\* Messages of announcement rooms are in the order of their courses, and two
\* of different rooms are one before the other.
LEMMA Places ==
  ASSUME NEW k \in DOMAIN log, log[k].room \in RoomSet(All),
         NEW m \in DOMAIN log, log[m].room \in RoomSet(All),
         log[k].room # log[m].room
  PROVE  Before(k, m) \/ Before(m, k)
  <1> DEFINE place(x) == CHOOSE i \in DOMAIN RoomsOf[All] : RoomsOf[All][i] = log[x].room
  <1>1. /\ place(k) \in DOMAIN RoomsOf[All] /\ RoomsOf[All][place(k)] = log[k].room
        /\ place(m) \in DOMAIN RoomsOf[All] /\ RoomsOf[All][place(m)] = log[m].room
    BY DEF RoomSet
  <1>2. (Before(k, m) <=> place(k) < place(m)) /\ (Before(m, k) <=> place(m) < place(k))
    BY DEF Before
  <1> HIDE DEF place
  <1>3. place(k) # place(m) /\ place(k) \in Nat /\ place(m) \in Nat
    BY <1>1, ViewBounds
  <1> QED
    BY <1>2, <1>3

\* Of what a send has stored one message is the first.
LEMMA FirstStored ==
  ASSUME NEW done \in SUBSET DOMAIN log, done # {}, log \in Seq(Message),
         send.chan = All => \A m \in done : log[m].room \in RoomSet(All)
  PROVE  First(done) \in done
  <1>1. CASE send.chan # All
    BY <1>1 DEF First
  <1>2. CASE send.chan = All
    <2> DEFINE place(x) == CHOOSE i \in DOMAIN RoomsOf[All] : RoomsOf[All][i] = log[x].room
               places == {place(x) : x \in done}
    <2>1. DOMAIN RoomsOf[All] = 1 .. Len(RoomsOf[All]) /\ Len(RoomsOf[All]) \in Nat
      BY ViewBounds
    <2>2. \A x \in done : place(x) \in DOMAIN RoomsOf[All]
      BY <1>2 DEF RoomSet
    <2>3. \A k, m : Before(k, m) <=> place(k) < place(m)
      BY DEF Before
    <2> HIDE DEF place
    <2>4. places \in SUBSET Nat /\ IsFiniteSet(places) /\ places # {}
      <3>1. IsFiniteSet(DOMAIN RoomsOf[All])
        BY <2>1, FS_Interval
      <3>2. places \in SUBSET DOMAIN RoomsOf[All] /\ places # {}
        BY <2>2
      <3> HIDE DEF places
      <3>3. IsFiniteSet(places)
        BY <3>1, <3>2, FS_Subset
      <3>4. places \in SUBSET Nat
        BY <2>1, <3>2
      <3> QED
        BY <3>2, <3>3, <3>4
    <2>5. PICK n \in places : \A k \in places : n <= k
      BY <2>4, Least
    <2>6. PICK m \in done : n = place(m)
      BY <2>5
    <2>7. \A k \in done : ~Before(k, m)
      <3> TAKE k \in done
      <3>0. place(k) \in places /\ place(m) \in places
        OBVIOUS
      <3>1. place(m) <= place(k) /\ place(m) \in Nat /\ place(k) \in Nat
        BY <2>4, <2>5, <2>6, <3>0
      <3> QED
        BY <2>3, <3>1
    <2>8. \E x \in done : ~\E k \in done : send.chan = All /\ Before(k, x)
      BY <2>7
    <2> QED
      BY <2>8 DEF First
  <1> QED
    BY <1>1, <1>2

(***************************************************************************)
(* Lemmas about the operators on the list.                                 *)
(***************************************************************************)

\* The entry of a message.
LEMMA EntryListed ==
  ASSUME log \in Seq(Message), NEW m \in DOMAIN log
  PROVE  /\ Entry(m) \in Listed(Len(log)) /\ Entry(m).id = m /\ m # 0
         /\ Entry(m).text = log[m].text /\ Entry(m).cast = log[m].cast /\ Entry(m).face = "text"
         /\ log[m] \in Message
  <1>1. log[m] \in Message /\ m \in 0 .. Len(log) /\ m # 0
    BY SeqMember
  <1> QED
    BY <1>1 DEF Entry, Listed, Message

\* The list of a history shows each of its messages once.
LEMMA SortedList ==
  ASSUME log \in Seq(Message), NEW ids \in SUBSET DOMAIN log
  PROVE  /\ Sorted(ids) \in Seq(Listed(Len(log)))
         /\ \A i \in DOMAIN Sorted(ids) :
              Sorted(ids)[i].id \in ids /\ Sorted(ids)[i] = Entry(Sorted(ids)[i].id)
         /\ \A i, j \in DOMAIN Sorted(ids) : Sorted(ids)[i].id = Sorted(ids)[j].id => i = j
  <1> DEFINE N == Cardinality(ids)
             below(m) == {k \in ids : k < m}
             nth(i) == CHOOSE m \in ids : Cardinality({k \in ids : k < m}) = i - 1
             s == [i \in 1 .. N |-> Entry(nth(i))]
  <1>1. ids \in SUBSET Nat /\ ids \in SUBSET (1 .. Len(log)) /\ Len(log) \in Nat
    OBVIOUS
  <1>2. IsFiniteSet(ids) /\ N \in Nat
    <2>1. IsFiniteSet(1 .. Len(log))
      BY <1>1, FS_Interval
    <2>2. IsFiniteSet(ids)
      BY <1>1, <2>1, FS_Subset
    <2> QED
      BY <2>2, FS_CardinalityType
  <1>3. \A i \in 1 .. N : nth(i) \in ids /\ Cardinality(below(nth(i))) = i - 1
    <2> TAKE i \in 1 .. N
    <2>1. \E m \in ids : Cardinality({k \in ids : k < m}) = i - 1
      BY <1>1, <1>2, Ranks
    <2> QED
      BY <2>1
  <1>4. Sorted(ids) = s
    BY DEF Sorted
  <1> HIDE DEF nth, N
  <1>5. \A i \in 1 .. N : /\ s[i] \in Listed(Len(log)) /\ s[i].id = nth(i) /\ nth(i) \in ids
                         /\ s[i] = Entry(s[i].id)
    <2> TAKE i \in 1 .. N
    <2>1. nth(i) \in DOMAIN log /\ nth(i) \in ids
      BY <1>3
    <2> QED
      BY <2>1, EntryListed
  <1>6. s \in Seq(Listed(Len(log))) /\ DOMAIN s = 1 .. N
    BY <1>2, <1>5
  <1>7. \A i, j \in 1 .. N : nth(i) = nth(j) => i = j
    <2> SUFFICES ASSUME NEW i \in 1 .. N, NEW j \in 1 .. N, nth(i) = nth(j) PROVE i = j
      OBVIOUS
    <2>1. i - 1 = j - 1
      BY <1>3
    <2> QED
      BY <2>1, <1>2
  <1> HIDE DEF s
  <1> QED
    BY <1>4, <1>5, <1>6, <1>7

\* The entries of u are entries of s, at different places of s.
FewerOf(u, s) ==
  /\ \A k \in DOMAIN u : \E i \in DOMAIN s : u[k] = s[i]
  /\ \A k, l \in DOMAIN u : k # l =>
       \E i, j \in DOMAIN s : i # j /\ u[k] = s[i] /\ u[l] = s[j]

\* What is left of a list with at most one temporary message: the others.
LEMMA WithoutTempList ==
  ASSUME NEW S, NEW s \in Seq(S),
         \A i, j \in DOMAIN s : s[i].id = 0 /\ s[j].id = 0 => i = j
  PROVE  /\ WithoutTemp(s) \in Seq(S) /\ FewerOf(WithoutTemp(s), s)
         /\ \A k \in DOMAIN WithoutTemp(s) : WithoutTemp(s)[k].id # 0
  <1> DEFINE temps == {i \in DOMAIN s : s[i].id = 0}
             t == CHOOSE i \in temps : TRUE
             u == [k \in 1 .. Len(s) - 1 |-> IF k < t THEN s[k] ELSE s[k + 1]]
  <1>1. CASE temps = {}
    <2>1. WithoutTemp(s) = s /\ \A k \in DOMAIN s : s[k].id # 0
      BY <1>1 DEF WithoutTemp
    <2> QED
      BY <2>1 DEF FewerOf
  <1>2. CASE temps # {}
    <2>1. t \in DOMAIN s /\ s[t].id = 0
      BY <1>2
    <2>2. WithoutTemp(s) = u
      BY <1>2 DEF WithoutTemp
    <2> HIDE DEF t
    <2>3. DOMAIN s = 1 .. Len(s) /\ Len(s) \in Nat /\ Len(s) - 1 \in Nat /\ t \in 1 .. Len(s)
      BY <2>1
    <2> DEFINE h == [k \in 1 .. Len(s) - 1 |-> IF k < t THEN k ELSE k + 1]
    <2>4. /\ DOMAIN u = 1 .. Len(s) - 1
          /\ \A k \in DOMAIN u : h[k] \in DOMAIN s /\ h[k] # t /\ u[k] = s[h[k]]
          /\ \A k, l \in DOMAIN u : k # l => h[k] # h[l]
      BY <2>3
    <2> HIDE DEF h
    <2>5. u \in Seq(S)
      <3>1. \A k \in 1 .. Len(s) - 1 : u[k] \in S
        BY <2>4
      <3> QED
        BY <2>3, <3>1
    <2> HIDE DEF u
    <2>6. \A k \in DOMAIN u : u[k].id # 0
      BY <2>1, <2>4
    <2>7. FewerOf(u, s)
      BY <2>4 DEF FewerOf
    <2> QED
      BY ONLY <2>2, <2>5, <2>6, <2>7
  <1> QED
    BY <1>1, <1>2

(***************************************************************************)
(* Types: everything but the list, the log and the send.                   *)
(***************************************************************************)

CalmOK == /\ minute \in {0, 1} /\ active \in Channel \cup {NoChannel}
          /\ room \in Rooms \cup {NoRoom} /\ rooms \subseteq Rooms
          /\ asks \subseteq Asked /\ flags \in [Channel -> BOOLEAN]
          /\ opened \in 0 .. MaxOpen /\ sends \in 0 .. MaxSend /\ faults \in 0 .. MaxFault

\* The variables that do not depend on how long the log is.
LEMMA CalmStep ==
  ASSUME IndInv, [Next]_vars
  PROVE  CalmOK' /\ served' \subseteq Mounted'
  <1> USE ViewBounds
  <1>0. TypeOK /\ CalmOK /\ served \subseteq Mounted
    BY DEF IndInv, TypeOK, CalmOK
  <1>1. faults' \in 0 .. MaxFault
    <2>1. faults' = faults \/ Fault
      BY DEF Next, Open, StudentPosts, RoomArrives, Tolerated, RoomRefused, HistoryRead,
             HistoryArrives, HistoryFails, SocketServed, PostCommits, PostRefused,
             MinutePasses, Deliver, ShowTemp, Settle, Submit, Delete, DeleteCommits,
             DeleteFails, vars
    <2> QED
      BY <1>0, <2>1 DEF CalmOK, Fault
  <1>2. CASE \E c \in Channel : Open(c)
    <2>1. PICK c \in Channel : Open(c)
      BY <1>2
    <2>2. opened' = opened + 1 /\ opened < MaxOpen
      BY <2>1 DEF Open
    <2>3. opened' \in 0 .. MaxOpen /\ [n |-> opened', chan |-> c] \in Asked
      BY <1>0, <2>2 DEF CalmOK, Asked
    <2> QED
      BY <1>0, <1>1, <2>1, <2>3 DEF Open, CalmOK
  <1>3. CASE \E a \in asks : RoomArrives(a)
    <2>1. PICK a \in asks : RoomArrives(a)
      BY <1>3
    <2>2. a.chan \in Channel /\ asks' \subseteq asks
      BY <1>0, <2>1 DEF CalmOK, Asked, RoomArrives
    <2>3. UNCHANGED <<minute, active, flags, opened, sends>>
      BY <2>1 DEF RoomArrives
    <2>4. CASE /\ a.chan # All
               /\ room' = RoomsOf[a.chan][1]
               /\ IF room' = room THEN UNCHANGED <<served, inbox>>
                  ELSE served' = {} /\ inbox' = <<>>
               /\ UNCHANGED <<rooms, faults>>
      <3>1. room' \in Rooms
        BY <2>2, <2>4, ChannelRooms
      <3>2. served' \subseteq Mounted'
        BY <1>0, <2>3, <2>4 DEF Mounted
      <3> QED
        BY <1>0, <1>1, <2>2, <2>3, <2>4, <3>1, <3>2 DEF CalmOK
    <2>5. CASE /\ a.chan = All
               /\ \E loaded \in SUBSET RoomSet(All) :
                    /\ rooms' = loaded
                    /\ room' = IF loaded = {} THEN room ELSE FirstRoom(loaded)
                    /\ Tolerated(loaded, RoomSet(All))
               /\ served' = {} /\ inbox' = <<>>
      <3>1. PICK loaded \in SUBSET RoomSet(All) :
              rooms' = loaded /\ room' = IF loaded = {} THEN room ELSE FirstRoom(loaded)
        BY <2>5
      <3>2. RoomSet(All) \subseteq Rooms
        BY ChannelRooms
      <3>3. rooms' \subseteq Rooms /\ room' \in Rooms \cup {NoRoom}
        <4>1. CASE loaded = {}
          BY <1>0, <3>1, <3>2, <4>1 DEF CalmOK
        <4>2. CASE loaded # {}
          BY <3>1, <3>2, <4>2, FirstRoomLoaded
        <4> QED
          BY <4>1, <4>2
      <3> QED
        BY <1>0, <1>1, <2>2, <2>3, <2>5, <3>3 DEF CalmOK
    <2> QED
      BY <2>1, <2>4, <2>5 DEF RoomArrives
  <1>4. CASE \E t \in Text : Submit(t)
    <2>1. sends' \in 0 .. MaxSend
      BY <1>0, <1>4 DEF CalmOK, Submit
    <2>2. UNCHANGED <<minute, active, room, rooms, asks, flags, opened, served>>
      BY <1>4 DEF Submit, chat
    <2> QED
      BY <1>0, <1>1, <2>1, <2>2 DEF CalmOK, Mounted
  <1>5. CASE \E f \in fetches : HistoryArrives(f)
    <2>1. PICK f \in fetches : HistoryArrives(f)
      BY <1>5
    <2>2. f.chan \in Channel
      BY <1>0 DEF TypeOK, Fetched
    <2>3. flags' \in [Channel -> BOOLEAN]
      BY <1>0, <2>1, <2>2 DEF CalmOK, HistoryArrives
    <2>4. UNCHANGED <<minute, active, room, rooms, asks, opened, sends, served>>
      BY <2>1 DEF HistoryArrives, chat
    <2> QED
      BY <1>0, <1>1, <2>3, <2>4 DEF CalmOK, Mounted
  <1>6. CASE Deliver
    <2>1. flags' \in [Channel -> BOOLEAN]
      <3>1. CASE flags' = flags
        BY <1>0, <3>1 DEF CalmOK
      <3>2. CASE flags' # flags
        <4>1. flags' = [flags EXCEPT ![log[Head(inbox)].chan] =
                          @ \/ log[Head(inbox)].chan = All \/ ~log[Head(inbox)].mine]
          BY <1>6, <3>2 DEF Deliver
        <4> QED
          BY <1>0, <4>1 DEF CalmOK
      <3> QED
        BY <3>1, <3>2
    <2>2. UNCHANGED <<minute, active, room, rooms, asks, opened, sends, served>>
      BY <1>6 DEF Deliver, chat
    <2> QED
      BY <1>0, <1>1, <2>1, <2>2 DEF CalmOK, Mounted
  <1>7. CASE MinutePasses
    BY <1>0, <1>1, <1>7 DEF MinutePasses, CalmOK, Mounted, chat
  <1>8. CASE \E a \in asks : RoomRefused(a)
    BY <1>0, <1>1, <1>8 DEF RoomRefused, CalmOK, Mounted
  <1>9. CASE \E r \in Rooms : SocketServed(r)
    BY <1>0, <1>1, <1>9 DEF SocketServed, CalmOK, Mounted, chat
  <1>10. CASE UNCHANGED <<minute, chat, served, flags, opened, sends>>
    BY <1>0, <1>1, <1>10 DEF CalmOK, Mounted, chat
  <1>11. CASE \/ \E c \in Channel : StudentPosts(c)
              \/ \E f \in fetches : HistoryRead(f) \/ HistoryFails(f)
              \/ \E r \in Rooms : PostCommits(r) \/ PostRefused(r)
              \/ ShowTemp \/ Settle
              \/ \E m \in DOMAIN log : Delete(m) \/ DeleteCommits(m) \/ DeleteFails(m)
              \/ UNCHANGED vars
    <2>1. UNCHANGED <<minute, chat, served, flags, opened, sends>>
      BY <1>11 DEF StudentPosts, HistoryRead, HistoryFails, PostCommits, PostRefused, ShowTemp,
                   Settle, Delete, DeleteCommits, DeleteFails, vars
    <2> QED
      BY <1>10, <2>1
  <1> QED
    BY <1>2, <1>3, <1>4, <1>5, <1>6, <1>7, <1>8, <1>9, <1>11 DEF Next

\* The histories under way, while the log stays or grows.
LEMMA FetchesStep ==
  ASSUME IndInv, [Next]_vars, Len(log) <= Len(log'), Len(log') \in Nat,
         DOMAIN log \subseteq DOMAIN log',
         \A m \in DOMAIN log : log'[m].chan = log[m].chan
  PROVE  fetches' \subseteq Fetched(Len(log')) /\ FetchesOK'
  <1> USE ViewBounds
  <1>1. /\ fetches \subseteq Fetched(Len(log)) /\ FetchesOK /\ opened \in 0 .. MaxOpen
        /\ log \in Seq(Message) /\ DOMAIN log = 1 .. Len(log) /\ Len(log) \in Nat
    BY DEF IndInv, TypeOK
  <1>2. \A f \in fetches : f \in Fetched(Len(log')) /\ \A m \in f.ids : log'[m].chan = f.chan
    <2> TAKE f \in fetches
    <2>1. f \in Fetched(Len(log)) /\ SUBSET (1 .. Len(log)) \subseteq SUBSET (1 .. Len(log'))
      BY <1>1
    <2>2. f.ids \subseteq DOMAIN log
      BY <1>1, <2>1 DEF Fetched
    <2>3. f \in Fetched(Len(log'))
      BY <2>1 DEF Fetched
    <2> QED
      BY <1>1, <2>2, <2>3 DEF FetchesOK
  <1>3. ASSUME NEW g, fetches' \subseteq fetches \cup {g}, g \in Fetched(Len(log')),
               \A m \in g.ids : log'[m].chan = g.chan
        PROVE  fetches' \subseteq Fetched(Len(log')) /\ FetchesOK'
    BY <1>2, <1>3 DEF FetchesOK
  <1>4. CASE fetches' \subseteq fetches
    BY <1>2, <1>4 DEF FetchesOK
  <1>5. CASE \E c \in Channel : Open(c)
    <2>1. PICK c \in Channel : Open(c)
      BY <1>5
    <2> DEFINE g == [n |-> opened', chan |-> c, st |-> "asked", ids |-> {}]
    <2>2. fetches' = fetches \cup {g} /\ opened' = opened + 1 /\ opened < MaxOpen
      BY <2>1 DEF Open
    <2>3. opened' \in 1 .. MaxOpen
      BY <1>1, <2>2
    <2>4. g \in Fetched(Len(log')) /\ g.ids = {}
      BY <2>3 DEF Fetched
    <2> HIDE DEF g
    <2> QED
      BY <1>3, <2>2, <2>4
  <1>6. CASE \E f \in fetches : HistoryRead(f)
    <2>1. PICK f \in fetches : HistoryRead(f)
      BY <1>6
    <2>2. PICK from : fetches' = (fetches \ {f}) \cup
            {[f EXCEPT !.st = "read",
                       !.ids = {m \in DOMAIN log : /\ log[m].chan = f.chan
                                                   /\ log[m].room \in from
                                                   /\ ~log[m].deleted}]}
      BY <2>1 DEF HistoryRead
    <2> DEFINE new == {m \in DOMAIN log : /\ log[m].chan = f.chan /\ log[m].room \in from
                                          /\ ~log[m].deleted}
               g == [f EXCEPT !.st = "read", !.ids = new]
    <2>3. fetches' \subseteq fetches \cup {g}
      BY <2>2
    <2>4. new \in SUBSET (1 .. Len(log')) /\ \A m \in new : m \in DOMAIN log /\ log[m].chan = f.chan
      BY <1>1
    <2> HIDE DEF new
    <2>5. g \in Fetched(Len(log')) /\ g.ids = new /\ g.chan = f.chan
      BY <1>2, <2>4 DEF Fetched
    <2> HIDE DEF g
    <2>6. \A m \in g.ids : log'[m].chan = g.chan
      BY <2>4, <2>5
    <2> QED
      BY <1>3, <2>3, <2>5, <2>6
  <1> QED
    BY <1>4, <1>5, <1>6
    DEF Next, StudentPosts, RoomArrives, RoomRefused, HistoryArrives, HistoryFails, SocketServed,
        PostCommits, PostRefused, MinutePasses, Deliver, ShowTemp, Settle, Submit, Delete,
        DeleteCommits, DeleteFails, vars

\* Frames on their way name messages of the log.
LEMMA InboxStep ==
  ASSUME IndInv, [Next]_vars, DOMAIN log \subseteq DOMAIN log',
         log' # log => Len(log) + 1 \in DOMAIN log' \/ inbox' = inbox
  PROVE  inbox' \in Seq(DOMAIN log')
  <1>1. inbox \in Seq(DOMAIN log) /\ log \in Seq(Message)
    BY DEF IndInv, TypeOK
  <1>2. inbox \in Seq(DOMAIN log') /\ <<>> \in Seq(DOMAIN log')
    BY <1>1, SeqWider, SeqEmpty
  <1>3. \/ inbox' = inbox
        \/ inbox' = <<>>
        \/ inbox # <<>> /\ inbox' = Tail(inbox)
        \/ inbox' = Append(inbox, Len(log) + 1) /\ log' # log
    <2>1. ASSUME NEW c, NEW r, NEW mine, NEW t, Commit(c, r, mine, t)
          PROVE  inbox' = inbox \/ (inbox' = Append(inbox, Len(log) + 1) /\ log' # log)
      <3>1. PICK x : log' = Append(log, x)
        BY <2>1 DEF Commit
      <3>2. log' # log
        <4>1. Len(log') = Len(log) + 1 /\ Len(log) \in Nat
          BY <1>1, <3>1
        <4> QED
          BY <4>1
      <3> QED
        BY <2>1, <3>2 DEF Commit
    <2>2. CASE (\E c \in Channel : StudentPosts(c)) \/ \E r \in Rooms : PostCommits(r)
      BY <2>1, <2>2 DEF StudentPosts, PostCommits
    <2> QED
      BY <2>2
      DEF Next, Open, RoomArrives, RoomRefused, HistoryRead, HistoryArrives, HistoryFails,
          SocketServed, PostRefused, MinutePasses, Deliver, ShowTemp, Settle, Submit, Delete,
          DeleteCommits, DeleteFails, vars
  <1>4. CASE inbox' = inbox \/ inbox' = <<>>
    BY <1>2, <1>4, Zenon
  <1>5. CASE inbox # <<>> /\ inbox' = Tail(inbox)
    <2>1. Tail(inbox) \in Seq(DOMAIN log')
      BY <1>2, <1>5, SeqTail
    <2> QED
      BY <1>5, <2>1
  <1>6. CASE inbox' = Append(inbox, Len(log) + 1) /\ log' # log /\ inbox' # inbox
    <2> DEFINE n == Len(log) + 1
    <2>1. n \in DOMAIN log' /\ inbox' = Append(inbox, n)
      BY <1>6
    <2> HIDE DEF n
    <2> QED
      BY <1>2, <2>1, SeqGrows
  <1> QED
    BY <1>3, <1>4, <1>5, <1>6

(***************************************************************************)
(* A step keeps the invariant when it keeps what is said of the list, the  *)
(* log and the send.                                                       *)
(***************************************************************************)

LEMMA Kept ==
  ASSUME IndInv, [Next]_vars,
         log' \in Seq(Message), Len(log) <= Len(log'), DOMAIN log \subseteq DOMAIN log',
         log' # log => Len(log) + 1 \in DOMAIN log' \/ inbox' = inbox,
         \A m \in DOMAIN log : log'[m].chan = log[m].chan,
         list' \in Seq(Listed(Len(log'))), deleting' \subseteq DOMAIN log',
         send' \in Sending(Len(log')),
         LogOK', SendOK', ListOK', OneCopy', GoneIsDeleted'
  PROVE  IndInv'
  <1>1. Len(log') \in Nat
    OBVIOUS
  <1>2. CalmOK' /\ served' \subseteq Mounted'
    BY CalmStep
  <1>3. fetches' \subseteq Fetched(Len(log')) /\ FetchesOK'
    BY <1>1, FetchesStep
  <1>4. inbox' \in Seq(DOMAIN log')
    BY InboxStep
  <1>5. TypeOK'
    BY <1>2, <1>3, <1>4 DEF TypeOK, CalmOK
  <1> QED
    BY <1>3, <1>5 DEF IndInv

\* The same when the log stays.
LEMMA KeptLog ==
  ASSUME IndInv, [Next]_vars, log' = log,
         list' \in Seq(Listed(Len(log))), deleting' \subseteq DOMAIN log,
         send' \in Sending(Len(log)),
         LogOK', SendOK', ListOK', OneCopy', GoneIsDeleted'
  PROVE  IndInv'
  <1>1. log \in Seq(Message) /\ Len(log) <= Len(log)
    BY DEF IndInv, TypeOK
  <1> QED
    BY <1>1, Kept

(***************************************************************************)
(* Steps that leave the log, the list and the send alone.                  *)
(***************************************************************************)

LEMMA Initial == Init => IndInv
  <1> SUFFICES ASSUME Init PROVE IndInv
    OBVIOUS
  <1> USE ViewBounds
  <1>1. /\ log = <<>> /\ log \in Seq(Message) /\ Len(log) = 0 /\ DOMAIN log = {}
        /\ list = <<>> /\ DOMAIN list = {} /\ list \in Seq(Listed(Len(log)))
        /\ inbox \in Seq(DOMAIN log)
    BY DEF Init
  <1>2. /\ Idle.text \in Text /\ Idle.st = "idle" /\ Idle.done = {}
        /\ Idle \in Sending(Len(log))
    BY DEF Idle, Sending
  <1>3. 0 \in 0 .. MaxOpen /\ 0 \in 0 .. MaxSend /\ 0 \in 0 .. MaxFault
    OBVIOUS
  <1>4. TypeOK
    BY <1>1, <1>2, <1>3 DEF Init, TypeOK, Mounted
  <1>5. LogOK /\ SendOK /\ ListOK /\ FetchesOK
    BY <1>1, <1>2 DEF Init, LogOK, SendOK, FromChannel, CastOK, StoredOK, ListOK, FetchesOK
  <1>6. OneCopy /\ GoneIsDeleted
    BY <1>1 DEF OneCopy, GoneIsDeleted
  <1> QED
    BY <1>4, <1>5, <1>6 DEF IndInv

LEMMA AsideStep ==
  ASSUME IndInv, [Next]_vars, UNCHANGED <<log, list, send, sends, deleting>>
  PROVE  IndInv'
  <1>1. /\ list \in Seq(Listed(Len(log))) /\ deleting \subseteq DOMAIN log
        /\ send \in Sending(Len(log))
    BY DEF IndInv, TypeOK
  <1>2. LogOK' /\ SendOK'
    BY DEF IndInv, LogOK, SendOK, FromChannel, CastOK, StoredOK
  <1>3. ListOK'
    BY DEF IndInv, ListOK, TempCast
  <1>4. OneCopy' /\ GoneIsDeleted'
    BY DEF IndInv, OneCopy, GoneIsDeleted
  <1> QED
    BY <1>1, <1>2, <1>3, <1>4, KeptLog

(***************************************************************************)
(* Steps that change the log.                                              *)
(***************************************************************************)

\* Messages keep what the list shows of them; a deletion is for good.
LEMMA ListSees ==
  ASSUME IndInv, UNCHANGED <<list, sends>>, DOMAIN log \subseteq DOMAIN log',
         Len(log) \in Nat, Len(log') \in Nat, Len(log) <= Len(log'),
         \A m \in DOMAIN log :
           /\ log'[m].text = log[m].text /\ log'[m].cast = log[m].cast
           /\ log'[m].minute = log[m].minute
           /\ m \in deleting \/ log[m].deleted => m \in deleting' \/ log'[m].deleted,
         send'.st = send.st, send'.chan = send.chan, send'.text = send.text
  PROVE  list' \in Seq(Listed(Len(log'))) /\ ListOK' /\ OneCopy' /\ GoneIsDeleted'
  <1>0. TypeOK /\ ListOK /\ OneCopy /\ GoneIsDeleted
    BY DEF IndInv
  <1>1. \A i \in DOMAIN list : list[i].id # 0 => list[i].id \in DOMAIN log
    <2> TAKE i \in DOMAIN list
    <2>1. list[i] \in Listed(Len(log)) /\ DOMAIN log = 1 .. Len(log)
      BY <1>0, SeqMember DEF TypeOK
    <2> QED
      BY <2>1 DEF Listed
  <1>2. list' \in Seq(Listed(Len(log')))
    <2>1. Listed(Len(log)) \subseteq Listed(Len(log'))
      <3>1. 0 .. Len(log) \subseteq 0 .. Len(log')
        OBVIOUS
      <3> QED
        BY <3>1 DEF Listed
    <2> QED
      BY <1>0, <2>1, SeqWider DEF TypeOK
  <1>3. ListOK'
    BY <1>0, <1>1 DEF ListOK, TempCast
  <1>4. OneCopy'
    BY <1>0, <1>1 DEF OneCopy
  <1>5. GoneIsDeleted'
    BY <1>0, <1>1 DEF ListOK, GoneIsDeleted
  <1> QED
    BY <1>2, <1>3, <1>4, <1>5

\* The log grows by a message of a student or of the send under way.
LEMMA CommitStep ==
  ASSUME IndInv, [Next]_vars, NEW c \in Channel, NEW r \in Rooms, NEW mine \in BOOLEAN,
         NEW t \in Text, Commit(c, r, mine, t), UNCHANGED <<list, deleting, sends>>,
         send' \in Sending(Len(log) + 1),
         send'.st = send.st, send'.chan = send.chan, send'.text = send.text,
         send'.todo \subseteq send.todo, send'.done \subseteq send.done \cup {Len(log) + 1},
         Len(log) + 1 \in send'.done => c = send.chan /\ t = send.text,
         c = All => /\ send.st = "posted" /\ send.chan = All /\ t = send.text
                    /\ r \in send.todo /\ r \notin send'.todo
  PROVE  IndInv'
  <1> USE ViewBounds
  <1> DEFINE x == [chan |-> c, room |-> r, mine |-> mine, text |-> t,
                   cast |-> IF c = All THEN sends ELSE 0,
                   minute |-> minute, deleted |-> FALSE]
             n == Len(log) + 1
  <1>0. TypeOK /\ LogOK /\ FromChannel /\ CastOK /\ StoredOK
    BY DEF IndInv, SendOK
  <1>1. /\ x \in Message /\ x.chan = c /\ x.room = r /\ x.text = t
        /\ x.cast = IF c = All THEN sends ELSE 0
    <2>1. sends \in 0 .. MaxSend /\ 0 \in 0 .. MaxSend /\ minute \in {0, 1}
      BY <1>0 DEF TypeOK
    <2> QED
      BY <2>1 DEF Message
  <1>2. log' = Append(log, x)
    BY DEF Commit
  <1> HIDE DEF x
  <1>3. /\ log' \in Seq(Message) /\ Len(log') = n /\ log'[n] = x
        /\ DOMAIN log' = DOMAIN log \cup {n} /\ n \notin DOMAIN log
        /\ \A m \in DOMAIN log : log'[m] = log[m]
    BY <1>0, <1>1, <1>2, SeqGrows DEF TypeOK
  <1>4. Len(log) \in Nat /\ n \in Nat /\ Len(log) <= n
    BY <1>0 DEF TypeOK
  <1>5. list' \in Seq(Listed(Len(log'))) /\ ListOK' /\ OneCopy' /\ GoneIsDeleted'
    BY <1>3, <1>4, ListSees
  <1>6. c = All => sends # 0 /\ r \in RoomSet(All) /\ \A m \in DOMAIN log :
          log[m].cast = sends => log[m].room # r /\ log[m].text = t
    BY <1>0 DEF CastOK
  <1>7. LogOK'
    <2>1. ASSUME NEW m \in DOMAIN log
          PROVE  /\ log[m].chan # All => log[m].cast = 0
                 /\ log[m].chan = All => log[m].cast \in 1 .. sends /\ log[m].room \in RoomSet(All)
                 /\ \A k \in DOMAIN log' :
                      k # m /\ log[m].cast # 0 /\ log'[k].cast = log[m].cast
                      => log'[k].room # log[m].room /\ log'[k].text = log[m].text
      BY <1>0, <1>1, <1>3, <1>6 DEF LogOK
    <2>2. sends \in Nat
      BY <1>0 DEF TypeOK
    <2>3. /\ x.chan # All => x.cast = 0
          /\ x.chan = All => x.cast \in 1 .. sends /\ x.room \in RoomSet(All)
          /\ \A k \in DOMAIN log :
               x.cast # 0 /\ log[k].cast = x.cast => log[k].room # x.room /\ log[k].text = x.text
      BY <1>1, <1>6, <2>2
    <2> QED
      BY <1>3, <2>1, <2>3 DEF LogOK
  <1>8. SendOK'
    <2>1. FromChannel'
      BY <1>0 DEF FromChannel
    <2>2. CastOK'
      BY <1>0, <1>1, <1>3 DEF CastOK
    <2>3. StoredOK'
      <3>1. ASSUME NEW m \in send'.done
            PROVE  /\ log'[m].chan = send'.chan /\ log'[m].text = send'.text
                   /\ send'.chan = All => log'[m].cast = sends'
        <4>1. CASE m = n
          BY <1>1, <1>3, <3>1, <4>1
        <4>2. CASE m \in send.done
          <5>1. m \in DOMAIN log
            BY <1>0, <4>2 DEF TypeOK, Sending
          <5> QED
            BY <1>0, <1>3, <4>2, <5>1 DEF StoredOK
        <4> QED
          BY <3>1, <4>1, <4>2
      <3> QED
        BY <3>1 DEF StoredOK
    <2> QED
      BY <2>1, <2>2, <2>3 DEF SendOK
  <1>9. deleting' \subseteq DOMAIN log' /\ send' \in Sending(Len(log'))
    BY <1>0, <1>3 DEF TypeOK
  <1>10. /\ n \in DOMAIN log' /\ DOMAIN log \subseteq DOMAIN log'
         /\ Len(log) <= Len(log') /\ \A m \in DOMAIN log : log'[m].chan = log[m].chan
    BY <1>3, <1>4
  <1> QED
    BY <1>3, <1>5, <1>7, <1>8, <1>9, <1>10, Kept

LEMMA StudentPostsStep ==
  ASSUME IndInv, NEW c \in Channel, StudentPosts(c)
  PROVE  IndInv'
  <1>1. PICK t \in Text : Commit(c, RoomsOf[c][1], FALSE, t)
    BY DEF StudentPosts
  <1>2. c # All /\ send' = send /\ UNCHANGED <<list, deleting, sends>> /\ [Next]_vars
    BY DEF StudentPosts, Next
  <1>3. RoomsOf[c][1] \in Rooms
    BY ChannelRooms
  <1>4. send \in Sending(Len(log)) /\ Len(log) \in Nat
    BY DEF IndInv, TypeOK
  <1>5. send' \in Sending(Len(log) + 1) /\ Len(log) + 1 \notin send'.done
    <2>1. 1 .. Len(log) \subseteq 1 .. Len(log) + 1 /\ Len(log) + 1 \notin 1 .. Len(log)
      BY <1>4
    <2> QED
      BY <1>2, <1>4, <2>1 DEF Sending
  <1> QED
    BY <1>1, <1>2, <1>3, <1>5, CommitStep

LEMMA PostCommitsStep ==
  ASSUME IndInv, NEW r \in Rooms, PostCommits(r)
  PROVE  IndInv'
  <1> DEFINE n == Len(log) + 1
  <1>1. /\ send.st = "posted" /\ r \in send.todo /\ Commit(send.chan, r, TRUE, send.text)
        /\ \/ send' = [send EXCEPT !.todo = @ \ {r}, !.done = @ \cup {n}]
           \/ send' = [send EXCEPT !.todo = @ \ {r}]
        /\ UNCHANGED <<list, deleting, sends>> /\ [Next]_vars
    BY DEF PostCommits, Next
  <1>2. send \in Sending(Len(log)) /\ Len(log) \in Nat /\ send.chan # NoChannel
    BY <1>1 DEF IndInv, TypeOK, SendOK, FromChannel
  <1>3. send.chan \in Channel /\ send.text \in Text
    BY <1>2 DEF Sending
  <1>4. 1 .. Len(log) \subseteq 1 .. n /\ n \in 1 .. n
    BY <1>2
  <1>5. /\ send' \in Sending(n)
        /\ send'.st = send.st /\ send'.chan = send.chan /\ send'.text = send.text
        /\ send'.todo = send.todo \ {r} /\ send'.done \subseteq send.done \cup {n}
    <2>1. send.done \cup {n} \in SUBSET (1 .. n) /\ send.done \in SUBSET (1 .. n)
      BY <1>2, <1>4 DEF Sending
    <2> HIDE DEF n
    <2>2. send.todo \ {r} \in SUBSET Rooms
      BY <1>2 DEF Sending
    <2>3. CASE send' = [send EXCEPT !.todo = @ \ {r}, !.done = @ \cup {n}]
      BY <1>2, <2>1, <2>2, <2>3 DEF Sending
    <2>4. CASE send' = [send EXCEPT !.todo = @ \ {r}]
      BY <1>2, <2>1, <2>2, <2>4 DEF Sending
    <2> QED
      BY <1>1, <2>3, <2>4
  <1> QED
    BY <1>1, <1>3, <1>5, CommitStep

LEMMA DeleteCommitsStep ==
  ASSUME IndInv, NEW d \in DOMAIN log, DeleteCommits(d)
  PROVE  IndInv'
  <1>0. TypeOK /\ LogOK /\ FromChannel /\ CastOK /\ StoredOK /\ [Next]_vars
    BY DEF IndInv, SendOK, Next
  <1>1. /\ log' = [log EXCEPT ![d].deleted = TRUE] /\ deleting' = deleting \ {d}
        /\ UNCHANGED <<list, send, sends, inbox>>
    BY DEF DeleteCommits
  <1>2. log[d] \in Message /\ log \in Seq(Message) /\ Len(log) \in Nat
    BY <1>0, SeqMember DEF TypeOK
  <1> DEFINE x == [log[d] EXCEPT !.deleted = TRUE]
  <1>3. /\ x \in Message /\ x.chan = log[d].chan /\ x.room = log[d].room
        /\ x.text = log[d].text /\ x.cast = log[d].cast /\ x.minute = log[d].minute /\ x.deleted
    BY <1>2 DEF Message
  <1>4. log' = [log EXCEPT ![d] = x]
    BY <1>1
  <1> HIDE DEF x
  <1>5. /\ log' \in Seq(Message) /\ Len(log') = Len(log) /\ DOMAIN log' = DOMAIN log
        /\ log'[d] = x /\ \A m \in DOMAIN log : m # d => log'[m] = log[m]
    BY <1>2, <1>3, <1>4
  <1>6. \A m \in DOMAIN log :
          /\ log'[m].chan = log[m].chan /\ log'[m].room = log[m].room
          /\ log'[m].text = log[m].text /\ log'[m].cast = log[m].cast
          /\ log'[m].minute = log[m].minute
          /\ m \in deleting \/ log[m].deleted => m \in deleting' \/ log'[m].deleted
    BY <1>1, <1>3, <1>5
  <1>7. list' \in Seq(Listed(Len(log'))) /\ ListOK' /\ OneCopy' /\ GoneIsDeleted'
    BY <1>1, <1>2, <1>5, <1>6, ListSees
  <1>8. LogOK'
    BY <1>0, <1>1, <1>5, <1>6 DEF LogOK
  <1>9. SendOK'
    <2>1. FromChannel' /\ CastOK'
      BY <1>0, <1>1, <1>5, <1>6 DEF FromChannel, CastOK
    <2>2. send.done \subseteq DOMAIN log
      BY <1>0 DEF TypeOK, Sending
    <2>3. StoredOK'
      BY <1>0, <1>1, <1>6, <2>2 DEF StoredOK
    <2> QED
      BY <2>1, <2>3 DEF SendOK
  <1>10. deleting' \subseteq DOMAIN log' /\ send' \in Sending(Len(log'))
    BY <1>0, <1>1, <1>5 DEF TypeOK
  <1> QED
    BY <1>0, <1>1, <1>2, <1>5, <1>6, <1>7, <1>8, <1>9, <1>10, Kept

(***************************************************************************)
(* Steps of the send that leave the log alone.                             *)
(***************************************************************************)

LEMMA PostRefusedStep ==
  ASSUME IndInv, NEW r \in Rooms, PostRefused(r)
  PROVE  IndInv'
  <1>0. TypeOK /\ FromChannel /\ CastOK /\ StoredOK /\ [Next]_vars
    BY DEF IndInv, SendOK, Next
  <1>1. /\ send' = [send EXCEPT !.todo = @ \ {r}]
        /\ UNCHANGED <<log, list, deleting, sends>>
    BY DEF PostRefused
  <1>2. /\ send' \in Sending(Len(log)) /\ send'.done = send.done
        /\ send'.st = send.st /\ send'.chan = send.chan /\ send'.text = send.text
        /\ send'.todo \subseteq send.todo
    BY <1>0, <1>1 DEF TypeOK, Sending
  <1>3. SendOK'
    <2>1. FromChannel'
      BY <1>0, <1>2 DEF FromChannel
    <2>2. CastOK'
      BY <1>0, <1>1, <1>2 DEF CastOK
    <2>3. StoredOK'
      BY <1>0, <1>1, <1>2 DEF StoredOK
    <2> QED
      BY <2>1, <2>2, <2>3 DEF SendOK
  <1>4. LogOK' /\ OneCopy' /\ GoneIsDeleted'
    BY <1>1 DEF IndInv, LogOK, OneCopy, GoneIsDeleted
  <1>5. ListOK'
    BY <1>1, <1>2 DEF IndInv, ListOK, TempCast
  <1>6. list' \in Seq(Listed(Len(log))) /\ deleting' \subseteq DOMAIN log
    BY <1>0, <1>1 DEF TypeOK
  <1> QED
    BY <1>0, <1>1, <1>2, <1>3, <1>4, <1>5, <1>6, KeptLog

\* A new send has a number that no message carries.
LEMMA SubmitStep ==
  ASSUME IndInv, NEW t \in Text, Submit(t)
  PROVE  IndInv'
  <1> USE ViewBounds
  <1>0. TypeOK /\ LogOK /\ ListOK /\ [Next]_vars
    BY DEF IndInv, Next
  <1>1. /\ send.st = "idle" /\ active # NoChannel /\ sends' = sends + 1
        /\ send' = [st |-> "uploading", chan |-> active, text |-> t,
                    todo |-> IF active = All THEN RoomSet(All) ELSE {RoomsOf[active][1]},
                    done |-> {}]
        /\ UNCHANGED <<log, list, deleting>>
    BY DEF Submit
  <1>2. active \in Channel /\ sends \in Nat
    BY <1>0, <1>1 DEF TypeOK
  <1>3. /\ send'.st = "uploading" /\ send'.chan = active /\ send'.text = t /\ send'.done = {}
        /\ active = All => send'.todo = RoomSet(All)
    BY <1>1
  <1>4. send' \in Sending(Len(log))
    <2>1. RoomSet(All) \in SUBSET Rooms /\ {RoomsOf[active][1]} \in SUBSET Rooms
      BY <1>2, ChannelRooms
    <2>2. (IF active = All THEN RoomSet(All) ELSE {RoomsOf[active][1]}) \in SUBSET Rooms
      BY <2>1
    <2> QED
      BY <1>1, <1>2, <2>2 DEF Sending
  <1>5. \A m \in DOMAIN log : log[m].cast # sends + 1 /\ (log[m].cast \in 1 .. sends =>
                                                          log[m].cast \in 1 .. sends + 1)
    BY <1>0, <1>2 DEF LogOK
  <1>6. LogOK'
    BY <1>0, <1>1, <1>5 DEF LogOK
  <1>7. SendOK'
    <2>1. FromChannel'
      BY <1>1, <1>3 DEF FromChannel
    <2>2. CastOK'
      BY <1>1, <1>2, <1>3, <1>5 DEF CastOK
    <2>3. StoredOK'
      BY <1>3 DEF StoredOK
    <2> QED
      BY <2>1, <2>2, <2>3 DEF SendOK
  <1>8. ListOK'
    BY <1>0, <1>1 DEF ListOK
  <1>9. OneCopy' /\ GoneIsDeleted'
    BY <1>1 DEF IndInv, OneCopy, GoneIsDeleted
  <1>10. list' \in Seq(Listed(Len(log))) /\ deleting' \subseteq DOMAIN log
    BY <1>0, <1>1 DEF TypeOK
  <1> QED
    BY <1>0, <1>1, <1>4, <1>6, <1>7, <1>8, <1>9, <1>10, KeptLog

(***************************************************************************)
(* Steps that change the list.                                             *)
(***************************************************************************)

\* Entries of one general announcement have its text.
LEMMA CastText ==
  ASSUME IndInv, NEW m \in DOMAIN log, log[m].cast # 0,
         NEW i \in DOMAIN list, list[i].cast = log[m].cast
  PROVE  list[i].text = log[m].text
  <1>0. TypeOK /\ LogOK /\ ListOK /\ CastOK
    BY DEF IndInv, SendOK
  <1>1. list[i].id \in DOMAIN log \cup {0}
    <2>1. list[i] \in Listed(Len(log)) /\ DOMAIN log = 1 .. Len(log) /\ Len(log) \in Nat
      BY <1>0, SeqMember DEF TypeOK
    <2> QED
      BY <2>1 DEF Listed
  <1>2. CASE list[i].id # 0
    <2>1. list[i].text = log[list[i].id].text /\ log[list[i].id].cast = log[m].cast
      BY <1>0, <1>2 DEF ListOK
    <2> QED
      BY <1>0, <1>1, <1>2, <2>1 DEF LogOK
  <1>3. CASE list[i].id = 0
    <2>1. send.st = "posted" /\ list[i].text = send.text /\ list[i].cast = TempCast
      BY <1>0, <1>3 DEF ListOK
    <2>2. send.chan = All /\ log[m].cast = sends
      BY <2>1 DEF TempCast
    <2> QED
      BY <1>0, <2>1, <2>2 DEF CastOK
  <1> QED
    BY <1>2, <1>3

\* A message enters the list: at the place of a temporary one, or at the end.
LEMMA Enters ==
  ASSUME IndInv, UNCHANGED <<log, sends, deleting>>, NEW m \in DOMAIN log, NEW p,
         DOMAIN list' = DOMAIN list \cup {p}, list'[p] = Entry(m),
         \A k \in DOMAIN list : k # p => list'[k] = list[k],
         \A k \in DOMAIN list : k # p /\ list[k].cast = log[m].cast => log[m].cast = 0,
         \A k \in DOMAIN list : k # p /\ list[k].id = 0 => send' = send
  PROVE  ListOK' /\ OneCopy' /\ GoneIsDeleted'
  <1>0. TypeOK /\ ListOK /\ OneCopy /\ GoneIsDeleted
    BY DEF IndInv
  <1>1. /\ list'[p].id = m /\ m # 0 /\ list'[p].text = log[m].text
        /\ list'[p].cast = log[m].cast /\ list'[p].face = "text"
    BY <1>0, EntryListed DEF TypeOK
  <1>2. ListOK'
    BY <1>0, <1>1 DEF ListOK, TempCast
  <1>3. OneCopy'
    BY <1>0, <1>1 DEF OneCopy
  <1>4. GoneIsDeleted'
    BY <1>0, <1>1 DEF GoneIsDeleted
  <1> QED
    BY <1>2, <1>3, <1>4

\* Only the list is another one.
LEMMA KeptSend ==
  ASSUME IndInv, [Next]_vars, UNCHANGED <<log, sends, send>>,
         list' \in Seq(Listed(Len(log))), deleting' \subseteq DOMAIN log,
         ListOK', OneCopy', GoneIsDeleted'
  PROVE  IndInv'
  <1>1. LogOK' /\ SendOK' /\ send' \in Sending(Len(log))
    BY DEF IndInv, TypeOK, LogOK, SendOK, FromChannel, CastOK, StoredOK
  <1> QED
    BY <1>1, KeptLog

LEMMA OpenStep ==
  ASSUME IndInv, NEW c \in Channel, Open(c)
  PROVE  IndInv'
  <1>1. /\ list' = <<>> /\ DOMAIN list' = {} /\ UNCHANGED <<log, sends, send, deleting>>
        /\ [Next]_vars
    BY DEF Open, Next
  <1>2. ListOK' /\ OneCopy' /\ GoneIsDeleted'
    BY <1>1 DEF ListOK, OneCopy, GoneIsDeleted
  <1>3. list' \in Seq(Listed(Len(log))) /\ deleting' \subseteq DOMAIN log
    BY <1>1 DEF IndInv, TypeOK
  <1> QED
    BY <1>1, <1>2, <1>3, KeptSend

\* The histories of the courses are joined: of the copies of one announcement
\* that were stored within a minute the one of the first course stays.
LEMMA HistoryArrivesStep ==
  ASSUME IndInv, NEW f \in fetches, HistoryArrives(f)
  PROVE  IndInv'
  <1> DEFINE ids == Merged(f.chan, f.ids)
  <1>0. TypeOK /\ LogOK /\ FetchesOK /\ [Next]_vars
    BY DEF IndInv, Next
  <1>1. list' = Sorted(ids) /\ UNCHANGED <<log, sends, send, deleting>>
    BY DEF HistoryArrives
  <1>2. f.ids \in SUBSET DOMAIN log /\ \A m \in f.ids : log[m].chan = f.chan
    BY <1>0 DEF TypeOK, Fetched, FetchesOK
  <1>3. ids \subseteq f.ids /\ (f.chan = All => \A m \in ids : ~\E k \in ids :
          log[k].cast = log[m].cast /\ log[k].minute = log[m].minute /\ Before(k, m))
    BY DEF Merged
  <1> HIDE DEF ids
  <1>4. /\ list' \in Seq(Listed(Len(log)))
        /\ \A i \in DOMAIN list' : list'[i].id \in ids /\ list'[i] = Entry(list'[i].id)
        /\ \A i, j \in DOMAIN list' : list'[i].id = list'[j].id => i = j
    BY <1>0, <1>1, <1>2, <1>3, SortedList DEF TypeOK
  <1>5. \A i \in DOMAIN list' : LET m == list'[i].id
          IN /\ m \in DOMAIN log /\ m \in ids /\ m # 0 /\ list'[i].text = log[m].text
             /\ list'[i].cast = log[m].cast /\ list'[i].face = "text" /\ log[m].chan = f.chan
    BY <1>0, <1>2, <1>3, <1>4, EntryListed DEF TypeOK
  <1>6. ListOK' /\ GoneIsDeleted'
    BY <1>1, <1>5 DEF ListOK, GoneIsDeleted
  <1>7. OneCopy'
    <2>1. SUFFICES ASSUME NEW i \in DOMAIN list', NEW j \in DOMAIN list', i # j,
                          list'[i].cast # 0, list'[i].cast = list'[j].cast
                   PROVE  /\ 0 \notin {list'[i].id, list'[j].id}
                          /\ log[list'[i].id].minute # log[list'[j].id].minute
      BY <1>1 DEF OneCopy
    <2>2. PICK m \in ids : m = list'[i].id
      BY <1>4
    <2>3. PICK k \in ids : k = list'[j].id
      BY <1>4
    <2>4. /\ m \in DOMAIN log /\ k \in DOMAIN log /\ m # 0 /\ k # 0 /\ m # k
          /\ log[m].cast # 0 /\ log[k].cast = log[m].cast
          /\ log[m].chan = f.chan /\ log[k].chan = f.chan
      BY <1>4, <1>5, <2>1, <2>2, <2>3
    <2>5. f.chan = All /\ log[m].room \in RoomSet(All) /\ log[k].room \in RoomSet(All)
      BY <1>0, <2>4 DEF LogOK
    <2>6. log[m].room # log[k].room
      BY <1>0, <2>4 DEF LogOK
    <2>7. Before(k, m) \/ Before(m, k)
      BY <2>4, <2>5, <2>6, Places
    <2>8. log[m].minute # log[k].minute
      BY <1>3, <2>4, <2>5, <2>7
    <2> QED
      BY <2>2, <2>3, <2>4, <2>8
  <1>8. deleting' \subseteq DOMAIN log
    BY <1>0, <1>1 DEF TypeOK
  <1> QED
    BY <1>0, <1>1, <1>4, <1>6, <1>7, <1>8, KeptSend

\* A frame enters the list unless the announcement it belongs to is there.
LEMMA DeliverStep ==
  ASSUME IndInv, Deliver
  PROVE  IndInv'
  <1> DEFINE m == Head(inbox)
  <1>0. TypeOK /\ LogOK /\ ListOK /\ OneCopy /\ GoneIsDeleted /\ [Next]_vars
    BY DEF IndInv, Next
  <1>1. /\ log \in Seq(Message) /\ list \in Seq(Listed(Len(log)))
        /\ inbox \in Seq(DOMAIN log) /\ inbox # <<>>
        /\ UNCHANGED <<log, sends, send, deleting>>
        /\ list' = list \/ (list' = Appended(m) /\ active = log[m].chan)
    BY <1>0 DEF Deliver, TypeOK
  <1>2. m \in DOMAIN log
    BY <1>1, SeqTail
  <1> HIDE DEF m
  <1>3. deleting' \subseteq DOMAIN log
    BY <1>0, <1>1 DEF TypeOK
  <1>4. CASE list' = list
    <2>1. ListOK' /\ OneCopy' /\ GoneIsDeleted'
      BY <1>0, <1>1, <1>4 DEF ListOK, TempCast, OneCopy, GoneIsDeleted
    <2> QED
      BY <1>0, <1>1, <1>3, <1>4, <2>1, KeptSend
  <1>5. CASE list' # list
    <2> DEFINE temps == {i \in DOMAIN list : list[i].id = 0 /\ list[i].text = log[m].text}
               any == CHOOSE i \in temps : TRUE
               e == Entry(m)
    <2>1. /\ active = log[m].chan
          /\ active = All => \A i \in DOMAIN list :
               ~(list[i].cast = log[m].cast /\ list[i].text = log[m].text)
          /\ temps # {} => list' = [list EXCEPT ![any] = e]
          /\ temps = {} => list' = Append(list, e)
      BY <1>1, <1>5 DEF Appended
    <2>2. \A k \in DOMAIN list : list[k].cast = log[m].cast => log[m].cast = 0
      <3> SUFFICES ASSUME NEW k \in DOMAIN list, list[k].cast = log[m].cast, log[m].cast # 0
                   PROVE  FALSE
        OBVIOUS
      <3>1. log[m].chan = All
        BY <1>0, <1>2 DEF LogOK
      <3>2. list[k].text = log[m].text
        BY <1>2, CastText
      <3> QED
        BY <2>1, <3>1, <3>2
    <2>3. e \in Listed(Len(log))
      BY <1>1, <1>2, EntryListed
    <2>4. CASE temps # {}
      <3>1. any \in DOMAIN list
        BY <2>4
      <3> HIDE DEF any, e
      <3>2. /\ list' \in Seq(Listed(Len(log))) /\ DOMAIN list' = DOMAIN list \cup {any}
            /\ list'[any] = e /\ \A k \in DOMAIN list : k # any => list'[k] = list[k]
        <4> DEFINE t == [list EXCEPT ![any] = e]
        <4>1. list' = t
          BY <2>1, <2>4 DEF any
        <4>2. list \in Seq(Listed(Len(log)))
          BY <1>1
        <4>3. /\ t \in Seq(Listed(Len(log))) /\ DOMAIN t = DOMAIN list
              /\ t[any] = e /\ \A k \in DOMAIN list : k # any => t[k] = list[k]
          BY ONLY <4>2, <2>3, <3>1
        <4>4. DOMAIN list = DOMAIN list \cup {any}
          BY <3>1
        <4> HIDE DEF t
        <4> QED
          BY ONLY <4>1, <4>3, <4>4
      <3>3. ListOK' /\ OneCopy' /\ GoneIsDeleted'
        BY <1>1, <1>2, <2>2, <3>2, Enters DEF e
      <3> QED
        BY <1>0, <1>1, <1>3, <3>2, <3>3, KeptSend
    <2>5. CASE temps = {}
      <3> HIDE DEF e
      <3>1. list' = Append(list, e)
        BY <2>1, <2>5
      <3>2. /\ list' \in Seq(Listed(Len(log))) /\ DOMAIN list' = DOMAIN list \cup {Len(list) + 1}
            /\ list'[Len(list) + 1] = e
            /\ \A k \in DOMAIN list : k # Len(list) + 1 => list'[k] = list[k]
        BY <1>1, <2>3, <3>1, SeqGrows
      <3>3. ListOK' /\ OneCopy' /\ GoneIsDeleted'
        <4> DEFINE p == Len(list) + 1
        <4>1. /\ DOMAIN list' = DOMAIN list \cup {p} /\ list'[p] = Entry(m)
              /\ \A k \in DOMAIN list : k # p => list'[k] = list[k]
          BY <3>2 DEF e
        <4> HIDE DEF p
        <4> QED
          BY <1>1, <1>2, <2>2, <4>1, Enters
      <3> QED
        BY <1>0, <1>1, <1>3, <3>2, <3>3, KeptSend
    <2> QED
      BY <2>4, <2>5
  <1> QED
    BY <1>4, <1>5

\* The temporary message appears before anything of its send is stored.
LEMMA ShowTempStep ==
  ASSUME IndInv, ShowTemp
  PROVE  IndInv'
  <1> USE ViewBounds
  <1> DEFINE e == [id |-> 0, text |-> send.text, face |-> "text", cast |-> TempCast]
             p == Len(list) + 1
  <1>0. /\ TypeOK /\ LogOK /\ FromChannel /\ CastOK /\ StoredOK /\ ListOK /\ OneCopy
        /\ GoneIsDeleted /\ [Next]_vars
    BY DEF IndInv, SendOK, Next
  <1>1. /\ send.st = "uploading" /\ send' = [send EXCEPT !.st = "posted"]
        /\ list' = Append(list, e) /\ UNCHANGED <<log, sends, deleting>>
    BY DEF ShowTemp, TempCast
  <1>2. /\ send \in Sending(Len(log)) /\ list \in Seq(Listed(Len(log))) /\ Len(log) \in Nat
        /\ sends \in 0 .. MaxSend /\ 0 \in 0 .. MaxSend /\ deleting' \subseteq DOMAIN log
    BY <1>0, <1>1 DEF TypeOK
  <1>3. /\ send' \in Sending(Len(log)) /\ send'.st = "posted" /\ send'.chan = send.chan
        /\ send'.text = send.text /\ send'.todo = send.todo /\ send'.done = send.done
    BY <1>1, <1>2 DEF Sending
  <1>4. /\ e \in Listed(Len(log)) /\ e.id = 0 /\ e.text = send.text /\ e.cast = TempCast
        /\ e.face = "text"
    <2>1. 0 \in 0 .. Len(log) /\ send.text \in Text /\ TempCast \in 0 .. MaxSend
      BY <1>2 DEF Sending, TempCast
    <2> QED
      BY <2>1 DEF Listed
  <1> HIDE DEF e
  <1>5. /\ list' \in Seq(Listed(Len(log))) /\ DOMAIN list' = DOMAIN list \cup {p}
        /\ p \notin DOMAIN list /\ list'[p] = e
        /\ \A k \in DOMAIN list : list'[k] = list[k]
    BY <1>1, <1>2, <1>4, SeqGrows
  <1> HIDE DEF p
  <1>6. \A k \in DOMAIN list : list[k].id # 0
    BY <1>0, <1>1 DEF ListOK
  <1>7. \A k \in DOMAIN list : list[k].cast = TempCast => TempCast = 0
    <2> SUFFICES ASSUME NEW k \in DOMAIN list, list[k].cast = TempCast, TempCast # 0 PROVE FALSE
      OBVIOUS
    <2>1. send.chan = All /\ TempCast = sends
      BY DEF TempCast
    <2>2. log[list[k].id].cast = sends
      BY <1>0, <1>6, <2>1 DEF ListOK
    <2>3. list[k].id \in DOMAIN log
      <3>1. list[k] \in Listed(Len(log)) /\ DOMAIN log = 1 .. Len(log)
        BY <1>0, <1>2, SeqMember DEF TypeOK
      <3> QED
        BY <1>2, <1>6, <3>1 DEF Listed
    <2> QED
      BY <1>0, <1>1, <2>1, <2>2, <2>3 DEF CastOK
  <1>8. ListOK'
    BY <1>0, <1>1, <1>3, <1>4, <1>5, <1>6 DEF ListOK, TempCast
  <1>9. OneCopy'
    BY <1>0, <1>1, <1>4, <1>5, <1>7 DEF OneCopy
  <1>10. GoneIsDeleted'
    BY <1>0, <1>1, <1>4, <1>5 DEF GoneIsDeleted
  <1>11. SendOK'
    <2>1. FromChannel' /\ StoredOK'
      BY <1>0, <1>1, <1>3 DEF FromChannel, StoredOK
    <2>2. CastOK'
      BY <1>0, <1>1, <1>3 DEF CastOK
    <2> QED
      BY <2>1, <2>2 DEF SendOK
  <1>12. LogOK'
    BY <1>0, <1>1 DEF LogOK
  <1> QED
    BY <1>0, <1>1, <1>2, <1>3, <1>5, <1>8, <1>9, <1>10, <1>11, <1>12, KeptLog

\* The first success takes the place of the temporary message; a send of
\* which nothing was stored leaves none.
LEMMA SettleStep ==
  ASSUME IndInv, Settle
  PROVE  IndInv'
  <1> USE ViewBounds
  <1>0. /\ TypeOK /\ LogOK /\ FromChannel /\ CastOK /\ StoredOK /\ ListOK /\ OneCopy
        /\ GoneIsDeleted /\ [Next]_vars
    BY DEF IndInv, SendOK, Next
  <1>1. /\ send' = Idle /\ UNCHANGED <<log, sends, deleting>>
        /\ log \in Seq(Message) /\ list \in Seq(Listed(Len(log)))
        /\ send \in Sending(Len(log)) /\ deleting' \subseteq DOMAIN log
    BY <1>0 DEF Settle, TypeOK
  <1>2. send' \in Sending(Len(log)) /\ send'.st = "idle" /\ send'.done = {}
    <2>1. Idle.text \in Text
      BY DEF Idle
    <2> QED
      BY <1>1, <2>1 DEF Sending, Idle
  <1>3. SendOK' /\ LogOK'
    <2>1. FromChannel' /\ CastOK' /\ StoredOK'
      BY <1>2 DEF FromChannel, CastOK, StoredOK
    <2>2. LogOK'
      BY <1>0, <1>1 DEF LogOK
    <2> QED
      BY <2>1, <2>2 DEF SendOK
  <1>4. \A i, j \in DOMAIN list : list[i].id = 0 /\ list[j].id = 0 => i = j
    BY <1>0 DEF ListOK
  <1>5. SUFFICES list' \in Seq(Listed(Len(log))) /\ ListOK' /\ OneCopy' /\ GoneIsDeleted'
    BY <1>0, <1>1, <1>2, <1>3, KeptLog
  <1>6. CASE send.done = {}
    <2>1. list' = WithoutTemp(list)
      BY <1>6 DEF Settle
    <2>2. list \in Seq(Listed(Len(log)))
      BY <1>1
    <2>3. /\ list' \in Seq(Listed(Len(log))) /\ FewerOf(list', list)
          /\ \A k \in DOMAIN list' : list'[k].id # 0
      BY ONLY <2>1, <2>2, <1>4, WithoutTempList
    <2>4. ListOK' /\ GoneIsDeleted'
      BY <1>0, <1>1, <2>3 DEF ListOK, GoneIsDeleted, FewerOf
    <2>5. OneCopy'
      <3> SUFFICES ASSUME NEW k \in DOMAIN list', NEW l \in DOMAIN list', k # l,
                          list'[k].cast # 0, list'[k].cast = list'[l].cast
                   PROVE  /\ 0 \notin {list'[k].id, list'[l].id}
                          /\ log[list'[k].id].minute # log[list'[l].id].minute
        BY <1>1 DEF OneCopy
      <3>1. PICK i \in DOMAIN list, j \in DOMAIN list :
              i # j /\ list'[k] = list[i] /\ list'[l] = list[j]
        BY <2>3 DEF FewerOf
      <3> QED
        BY <1>0, <3>1 DEF OneCopy
    <2> QED
      BY <2>3, <2>4, <2>5
  <1>7. CASE send.done # {}
    <2> DEFINE m == First(send.done)
               e == Entry(m)
               temps == {i \in DOMAIN list : list[i].id = 0}
               any == CHOOSE i \in temps : TRUE
    <2>1. send.done \in SUBSET DOMAIN log /\
          (send.chan = All => \A k \in send.done : log[k].room \in RoomSet(All))
      <3>1. send.done \in SUBSET DOMAIN log
        BY <1>1 DEF Sending
      <3> QED
        BY <1>0, <3>1 DEF StoredOK, LogOK
    <2>2. m \in send.done
      BY <1>1, <1>7, <2>1, FirstStored
    <2>3. list' = Answered(list, e)
      BY <1>7 DEF Settle
    <2> HIDE DEF m
    <2>4. m \in DOMAIN log /\ log[m].cast = TempCast /\ (log[m].cast # 0 => send.chan = All)
      BY <1>0, <2>1, <2>2 DEF StoredOK, LogOK, TempCast
    <2>5. e \in Listed(Len(log)) /\ e.id = m /\ e.cast = log[m].cast /\ e.text = log[m].text
      BY <1>1, <2>4, EntryListed
    <2>6. /\ temps # {} => list' = [list EXCEPT ![any] = e]
          /\ temps = {} => \/ list' = list
                           \/ /\ list' = Append(list, e)
                              /\ send.chan = All => \A i \in DOMAIN list :
                                   ~(list[i].cast = e.cast /\ list[i].text = e.text)
      BY <2>3 DEF Answered
    <2> HIDE DEF e
    <2>7. CASE temps # {}
      <3>1. any \in DOMAIN list /\ list[any].id = 0
        BY <2>7
      <3>2. list' = [list EXCEPT ![any] = e]
        BY <2>6, <2>7
      <3> HIDE DEF any, temps
      <3>3. /\ list' \in Seq(Listed(Len(log))) /\ DOMAIN list' = DOMAIN list \cup {any}
            /\ list'[any] = e /\ \A k \in DOMAIN list : k # any => list'[k] = list[k]
        <4> DEFINE t == [list EXCEPT ![any] = e]
        <4>1. list' = t
          BY <3>2
        <4>2. list \in Seq(Listed(Len(log))) /\ e \in Listed(Len(log))
          BY <1>1, <2>5
        <4>3. /\ t \in Seq(Listed(Len(log))) /\ DOMAIN t = DOMAIN list
              /\ t[any] = e /\ \A k \in DOMAIN list : k # any => t[k] = list[k]
          BY ONLY <4>2, <3>1
        <4>4. DOMAIN list = DOMAIN list \cup {any}
          BY <3>1
        <4> HIDE DEF t
        <4> QED
          BY ONLY <4>1, <4>3, <4>4
      <3>4. list[any].cast = log[m].cast
        BY <1>0, <2>4, <3>1 DEF ListOK
      <3>5. \A k \in DOMAIN list : k # any /\ list[k].cast = log[m].cast => log[m].cast = 0
        BY <1>0, <3>1, <3>4 DEF OneCopy
      <3>6. \A k \in DOMAIN list : k # any /\ list[k].id = 0 => send' = send
        BY <1>4, <3>1
      <3>7. ListOK' /\ OneCopy' /\ GoneIsDeleted'
        BY <1>1, <2>4, <3>3, <3>5, <3>6, Enters DEF e
      <3> QED
        BY <3>3, <3>7
    <2>8. CASE temps = {} /\ list' = list
      <3>1. \A k \in DOMAIN list : list[k].id # 0
        BY <2>8
      <3> QED
        BY <1>0, <1>1, <2>8, <3>1 DEF ListOK, OneCopy, GoneIsDeleted
    <2>9. CASE temps = {} /\ list' # list
      <3>1. \A k \in DOMAIN list : list[k].id # 0
        BY <2>9
      <3>2. list' = Append(list, e)
        BY <2>6, <2>9
      <3>3. \A k \in DOMAIN list : list[k].cast = log[m].cast => log[m].cast = 0
        <4> SUFFICES ASSUME NEW k \in DOMAIN list, list[k].cast = log[m].cast, log[m].cast # 0
                     PROVE  FALSE
          OBVIOUS
        <4>1. list[k].text = log[m].text
          BY <2>4, CastText
        <4> QED
          BY <2>4, <2>5, <2>6, <2>9, <4>1
      <3> DEFINE p == Len(list) + 1
      <3>4. /\ list' \in Seq(Listed(Len(log))) /\ DOMAIN list' = DOMAIN list \cup {p}
            /\ list'[p] = e /\ \A k \in DOMAIN list : k # p => list'[k] = list[k]
        BY <1>1, <2>5, <3>2, SeqGrows
      <3> HIDE DEF p
      <3>5. ListOK' /\ OneCopy' /\ GoneIsDeleted'
        BY <1>1, <2>4, <3>1, <3>3, <3>4, Enters DEF e
      <3> QED
        BY <3>4, <3>5
    <2> QED
      BY <2>7, <2>8, <2>9
  <1> QED
    BY <1>6, <1>7

\* An entry is shown another way, wherever it is in the list.
LEMMA FaceStep ==
  ASSUME IndInv, [Next]_vars, UNCHANGED <<log, sends, send>>, NEW m \in DOMAIN log,
         NEW face \in {"gone", "blank"}, list' = Faced(m, face),
         deleting' \subseteq DOMAIN log,
         face = "gone" => m \in deleting' /\ deleting \subseteq deleting',
         face = "blank" => deleting \ {m} \subseteq deleting'
  PROVE  IndInv'
  <1>0. TypeOK /\ ListOK /\ OneCopy /\ GoneIsDeleted /\ list \in Seq(Listed(Len(log)))
    BY DEF IndInv, TypeOK
  <1>1. m # 0
    BY <1>0 DEF TypeOK
  <1>2. /\ DOMAIN list' = DOMAIN list /\ DOMAIN list = 1 .. Len(list) /\ Len(list) \in Nat
        /\ list' = [i \in 1 .. Len(list) |-> list'[i]]
        /\ \A i \in DOMAIN list :
             list'[i] = IF list[i].id = m THEN [list[i] EXCEPT !.face = face] ELSE list[i]
    BY <1>0 DEF Faced
  <1>3. \A i \in DOMAIN list :
          /\ list'[i] \in Listed(Len(log)) /\ list'[i].id = list[i].id
          /\ list'[i].text = list[i].text /\ list'[i].cast = list[i].cast
          /\ list[i].id = m => list'[i].face = face
          /\ list[i].id # m => list'[i].face = list[i].face
    <2> TAKE i \in DOMAIN list
    <2>1. list[i] \in Listed(Len(log))
      BY <1>0, SeqMember
    <2> QED
      BY <1>2, <2>1 DEF Listed
  <1>4. list' \in Seq(Listed(Len(log)))
    BY <1>2, <1>3, SeqMap
  <1>5. ListOK'
    BY <1>0, <1>1, <1>2, <1>3 DEF ListOK, TempCast
  <1>6. OneCopy'
    BY <1>0, <1>2, <1>3 DEF OneCopy
  <1>7. GoneIsDeleted'
    BY <1>0, <1>2, <1>3 DEF GoneIsDeleted
  <1> QED
    BY <1>4, <1>5, <1>6, <1>7, KeptSend

LEMMA DeleteStep ==
  ASSUME IndInv, NEW m \in DOMAIN log, Delete(m) \/ DeleteFails(m)
  PROVE  IndInv'
  <1>1. UNCHANGED <<log, sends, send>> /\ deleting \subseteq DOMAIN log /\ [Next]_vars
    BY DEF Delete, DeleteFails, IndInv, TypeOK, Next
  <1>2. CASE Delete(m)
    <2>1. list' = Faced(m, "gone") /\ deleting' = deleting \cup {m}
      BY <1>2 DEF Delete
    <2> QED
      BY <1>1, <2>1, FaceStep
  <1>3. CASE DeleteFails(m)
    <2>1. list' = Faced(m, "blank") /\ deleting' = deleting \ {m}
      BY <1>3 DEF DeleteFails, Faced
    <2> QED
      BY <1>1, <2>1, FaceStep
  <1> QED
    BY <1>2, <1>3

(***************************************************************************)
(* The theorems.                                                           *)
(***************************************************************************)

LEMMA Step == IndInv /\ [Next]_vars => IndInv'
  <1> SUFFICES ASSUME IndInv, [Next]_vars PROVE IndInv'
    OBVIOUS
  <1>1. CASE \E c \in Channel : Open(c) \/ StudentPosts(c)
    BY <1>1, OpenStep, StudentPostsStep
  <1>2. CASE \E f \in fetches : HistoryArrives(f)
    BY <1>2, HistoryArrivesStep
  <1>3. CASE \E r \in Rooms : PostCommits(r) \/ PostRefused(r)
    BY <1>3, PostCommitsStep, PostRefusedStep
  <1>4. CASE Deliver \/ ShowTemp \/ Settle \/ \E t \in Text : Submit(t)
    BY <1>4, DeliverStep, ShowTempStep, SettleStep, SubmitStep
  <1>5. CASE \E m \in DOMAIN log : Delete(m) \/ DeleteCommits(m) \/ DeleteFails(m)
    BY <1>5, DeleteStep, DeleteCommitsStep
  <1>6. CASE \/ \E a \in asks : RoomArrives(a) \/ RoomRefused(a)
             \/ \E f \in fetches : HistoryRead(f) \/ HistoryFails(f)
             \/ \E r \in Rooms : SocketServed(r)
             \/ MinutePasses \/ UNCHANGED vars
    <2>1. UNCHANGED <<log, list, send, sends, deleting>>
      BY <1>6 DEF RoomArrives, RoomRefused, HistoryRead, HistoryFails, SocketServed,
                  MinutePasses, vars
    <2> QED
      BY <2>1, AsideStep
  <1> QED
    BY <1>1, <1>2, <1>3, <1>4, <1>5, <1>6 DEF Next

\* The inductive invariant: messages of one announcement are in different
\* rooms, the send under way has a number of its own, and the list shows
\* messages of the log and at most one temporary one.
THEOREM Invariance == Spec => []IndInv
  BY Initial, Step, PTL DEF Spec

\* Every reachable state has the types the module gives its variables.
THEOREM TypeCorrect == Spec => []TypeOK
  <1>1. IndInv => TypeOK
    BY DEF IndInv
  <1> QED
    BY <1>1, Invariance, PTL

\* A general announcement to any number of courses, partly failed or not, is
\* one entry of the list, unless its copies are of different minutes.
THEOREM AnnouncedOnce == Spec => []OneCopy
  <1>1. IndInv => OneCopy
    BY DEF IndInv
  <1> QED
    BY <1>1, Invariance, PTL

\* However late histories, frames and failures come, what the list shows as
\* deleted is deleted or its deletion is under way.
THEOREM MarksAreTrue == Spec => []GoneIsDeleted
  <1>1. IndInv => GoneIsDeleted
    BY DEF IndInv
  <1> QED
    BY <1>1, Invariance, PTL

=============================================================================

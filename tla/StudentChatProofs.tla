--------------------------- MODULE StudentChatProofs ---------------------------
(***************************************************************************)
(* Proofs about StudentChat for every set of channels and texts and every  *)
(* bound.  A message reaches the list by the history, by the socket and by *)
(* the answer of its own send; the temporary message in between is known   *)
(* by its text only.                                                       *)
(***************************************************************************)
EXTENDS StudentChat, FiniteSetTheorems, FunctionTheorems, TLAPS

(***************************************************************************)
(* Lemmas about sequences and finite sets of numbers.                      *)
(***************************************************************************)

\* A sequence over a set is one over a larger set.
LEMMA SeqWider ==
  ASSUME NEW S, NEW T, S \subseteq T, NEW s \in Seq(S)
  PROVE  s \in Seq(T)
  OBVIOUS

\* The empty sequence is one over every set.
LEMMA SeqEmpty ==
  ASSUME NEW S
  PROVE  <<>> \in Seq(S)
  OBVIOUS

\* A member of a sequence is one of its set.
LEMMA SeqMember ==
  ASSUME NEW S, NEW s \in Seq(S), NEW i \in DOMAIN s
  PROVE  s[i] \in S /\ i \in 1 .. Len(s) /\ Len(s) \in Nat
  OBVIOUS

\* A sequence grows by one.
LEMMA SeqGrows ==
  ASSUME NEW S, NEW s \in Seq(S), NEW x \in S
  PROVE  LET t == Append(s, x)
         IN  /\ t \in Seq(S) /\ Len(t) = Len(s) + 1 /\ t[Len(s) + 1] = x
             /\ DOMAIN t = DOMAIN s \cup {Len(s) + 1} /\ Len(s) + 1 \notin DOMAIN s
             /\ \A k \in DOMAIN s : t[k] = s[k]
  OBVIOUS

\* The first of a queue, and the rest.
LEMMA SeqTail ==
  ASSUME NEW S, NEW s \in Seq(S), s # <<>>
  PROVE  Head(s) \in S /\ Tail(s) \in Seq(S)
  OBVIOUS

\* Ranks are below the number of members, and differ.
LEMMA RankOrder ==
  ASSUME NEW ids \in SUBSET Nat, IsFiniteSet(ids)
  PROVE  /\ \A m \in ids : /\ Cardinality({k \in ids : k < m}) \in Nat
                           /\ Cardinality({k \in ids : k < m}) < Cardinality(ids)
         /\ \A m, n \in ids : Cardinality({k \in ids : k < m}) = Cardinality({k \in ids : k < n})
                              => m = n
  <1> DEFINE N == Cardinality(ids)
             below(m) == {k \in ids : k < m}
  <1>0. \A k \in ids : k \in Nat
    OBVIOUS
  <1>1. N \in Nat
    BY FS_CardinalityType
  <1>2. \A m \in ids : /\ IsFiniteSet(below(m)) /\ Cardinality(below(m)) \in Nat
                       /\ Cardinality(below(m)) < N
    <2> TAKE m \in ids
    <2>1. below(m) \in SUBSET ids /\ m \notin below(m) /\ m \in ids
      OBVIOUS
    <2>2. /\ IsFiniteSet(below(m)) /\ Cardinality(below(m)) <= N
          /\ N = Cardinality(below(m)) => ids = below(m)
      BY <2>1, FS_Subset
    <2>3. Cardinality(below(m)) \in Nat
      BY <2>2, FS_CardinalityType
    <2> QED
      BY <1>1, <2>1, <2>2, <2>3
  <1>3. ASSUME NEW m \in ids, NEW n \in ids, m < n
        PROVE  Cardinality(below(m)) < Cardinality(below(n))
    <2>1. below(m) \in SUBSET below(n) /\ m \in below(n) /\ m \notin below(m)
      <3>1. m \in Nat /\ n \in Nat /\ \A k \in Nat : k < m => k < n
        BY <1>0, <1>3
      <3>2. \A k \in ids : k < m => k < n
        BY <1>0, <3>1
      <3>3. m \in below(n) /\ m \notin below(m)
        BY <1>3, <3>1
      <3>4. \A k \in below(m) : k \in below(n)
        BY <3>2
      <3> QED
        BY <3>3, <3>4
    <2>2. /\ Cardinality(below(m)) <= Cardinality(below(n))
          /\ Cardinality(below(n)) = Cardinality(below(m)) => below(n) = below(m)
      BY <1>2, <2>1, FS_Subset
    <2> QED
      BY <1>2, <2>1, <2>2
  <1>4. ASSUME NEW m \in ids, NEW n \in ids, Cardinality(below(m)) = Cardinality(below(n))
        PROVE  m = n
    <2>1. m < n \/ n < m \/ m = n
      BY <1>0
    <2> QED
      BY <1>2, <1>3, <1>4, <2>1
  <1> QED
    BY <1>2, <1>4

\* In a finite set of numbers every rank is taken: the ranks of the members
\* differ, so there are as many as there are members.
LEMMA Ranks ==
  ASSUME NEW ids \in SUBSET Nat, IsFiniteSet(ids), NEW i \in 1 .. Cardinality(ids)
  PROVE  \E m \in ids : Cardinality({k \in ids : k < m}) = i - 1
  <1> DEFINE N == Cardinality(ids)
             rank == [m \in ids |-> Cardinality({k \in ids : k < m})]
             R == 0 .. N - 1
  <1>1. N \in Nat
    BY FS_CardinalityType
  <1>2. rank \in [ids -> R]
    BY <1>1, RankOrder
  <1>3. \A m, n \in ids : rank[m] = rank[n] => m = n
    BY RankOrder
  <1>4. rank \in Injection(ids, R)
    BY <1>2, <1>3 DEF Injection, IsInjective
  <1>5. IsFiniteSet(R) /\ Cardinality(R) = N
    <2>1. 0 \in Int /\ N - 1 \in Int
      BY <1>1
    <2>2. IsFiniteSet(R) /\ Cardinality(R) = IF 0 > N - 1 THEN 0 ELSE (N - 1) - 0 + 1
      BY <2>1, FS_Interval
    <2> QED
      BY <1>1, <2>2
  <1> HIDE DEF rank, R
  <1>6. rank \in Surjection(ids, R)
    BY <1>4, <1>5, FS_Injection
  <1>7. i - 1 \in R
    BY <1>1 DEF R
  <1>8. PICK m \in ids : rank[m] = i - 1
    BY <1>6, <1>7 DEF Surjection
  <1> QED
    BY <1>8 DEF rank

(***************************************************************************)
(* Lemmas about the operators on the list.                                 *)
(***************************************************************************)

\* No two entries have one id.
Distinct(s) == \A i, j \in DOMAIN s : s[i].id = s[j].id => i = j

\* The list of a history has no temporary message and no double.
LEMMA SortedList ==
  ASSUME log \in Seq(Message), NEW ids \in SUBSET DOMAIN log
  PROVE  /\ Sorted(ids) \in Seq(Entry(Len(log))) /\ Distinct(Sorted(ids))
         /\ \A i \in DOMAIN Sorted(ids) : Sorted(ids)[i].id # 0
  <1> DEFINE N == Cardinality(ids)
             below(m) == {k \in ids : k < m}
             nth(i) == CHOOSE m \in ids : Cardinality({k \in ids : k < m}) = i - 1
             s == [i \in 1 .. N |-> [id |-> nth(i), text |-> log[nth(i)].text]]
  <1>1. /\ ids \in SUBSET Nat /\ ids \in SUBSET (1 .. Len(log)) /\ Len(log) \in Nat
        /\ \A m \in ids : m \in DOMAIN log /\ m \in 0 .. Len(log) /\ m # 0
    OBVIOUS
  <1>2. IsFiniteSet(ids) /\ N \in Nat
    <2>1. IsFiniteSet(1 .. Len(log))
      BY <1>1, FS_Interval
    <2>2. IsFiniteSet(ids)
      BY <1>1, <2>1, FS_Subset
    <2> QED
      BY <2>2, FS_CardinalityType
  <1>3. \A i \in 1 .. N : nth(i) \in ids /\ Cardinality(below(nth(i))) = i - 1
    <2> TAKE i \in 1 .. N
    <2>1. \E m \in ids : Cardinality({k \in ids : k < m}) = i - 1
      BY <1>1, <1>2, Ranks
    <2> QED
      BY <2>1
  <1>4. Sorted(ids) = s
    BY DEF Sorted
  <1> HIDE DEF nth, N
  <1>5. \A i \in 1 .. N : s[i].id = nth(i) /\ s[i] \in Entry(Len(log))
    <2> SUFFICES ASSUME NEW i \in 1 .. N
                 PROVE  s[i].id = nth(i) /\ s[i] \in Entry(Len(log))
      OBVIOUS
    <2>1. nth(i) \in DOMAIN log /\ nth(i) \in 0 .. Len(log)
      BY <1>1, <1>3
    <2>2. log[nth(i)].text \in Text
      <3>1. log[nth(i)] \in Message
        BY <2>1, SeqMember
      <3> QED
        BY <3>1 DEF Message
    <2> QED
      BY <2>1, <2>2 DEF Entry
  <1>6. s \in Seq(Entry(Len(log))) /\ DOMAIN s = 1 .. N
    BY <1>2, <1>5
  <1>7. Distinct(s)
    <2> SUFFICES ASSUME NEW i \in 1 .. N, NEW j \in 1 .. N, nth(i) = nth(j) PROVE i = j
      BY <1>5, <1>6 DEF Distinct
    <2>1. i - 1 = j - 1
      BY <1>3
    <2> QED
      BY <2>1, <1>2
  <1>8. \A i \in DOMAIN s : s[i].id # 0
    BY <1>1, <1>3, <1>5, <1>6
  <1> QED
    BY <1>4, <1>6, <1>7, <1>8

\* An entry that takes the place of another, and is not in the list yet.
LEMMA PutList ==
  ASSUME NEW n \in Nat, NEW s \in Seq(Entry(n)), Distinct(s), NEW e \in Entry(n),
         NEW i \in DOMAIN s, \A k \in DOMAIN s : s[k].id # e.id,
         s[i].id = 0, NEW t, DOMAIN t = DOMAIN s, t[i] = e,
         \A k \in DOMAIN s : k # i => t[k] = s[k]
  PROVE  /\ Distinct(t)
         /\ Ids(s) \subseteq Ids(t) /\ Ids(t) \subseteq Ids(s) \cup {e.id}
         /\ \A k \in DOMAIN t : t[k].id # 0
  <1>1. Distinct(t)
    BY DEF Distinct
  <1>2. Ids(s) \subseteq Ids(t) /\ Ids(t) \subseteq Ids(s) \cup {e.id}
    BY DEF Ids
  <1>3. \A k \in DOMAIN t : t[k].id # 0
    BY DEF Distinct
  <1> QED
    BY <1>1, <1>2, <1>3

\* An entry that is added, and is not in the list yet.
LEMMA AddList ==
  ASSUME NEW n \in Nat, NEW s \in Seq(Entry(n)), Distinct(s), NEW e \in Entry(n),
         \A k \in DOMAIN s : s[k].id # e.id
  PROVE  LET t == Append(s, e)
         IN  /\ t \in Seq(Entry(n)) /\ Distinct(t)
             /\ Ids(s) \subseteq Ids(t) /\ Ids(t) \subseteq Ids(s) \cup {e.id}
             /\ \A k \in DOMAIN t : t[k].id = 0 =>
                  (e.id = 0 /\ t[k] = e) \/ (k \in DOMAIN s /\ t[k] = s[k])
  <1> DEFINE t == Append(s, e)
  <1>1. /\ t \in Seq(Entry(n)) /\ t[Len(s) + 1] = e
        /\ DOMAIN t = DOMAIN s \cup {Len(s) + 1} /\ Len(s) + 1 \notin DOMAIN s
        /\ \A k \in DOMAIN s : t[k] = s[k]
    BY SeqGrows
  <1> HIDE DEF t
  <1>2. Distinct(t)
    BY <1>1 DEF Distinct
  <1>3. Ids(s) \subseteq Ids(t) /\ Ids(t) \subseteq Ids(s) \cup {e.id}
    BY <1>1 DEF Ids
  <1> QED
    BY <1>1, <1>2, <1>3 DEF t

\* The list without its temporary message has every other one.
LEMMA WithoutTempList ==
  ASSUME NEW n \in Nat, NEW s \in Seq(Entry(n)), Distinct(s)
  PROVE  /\ WithoutTemp(s) \in Seq(Entry(n)) /\ Distinct(WithoutTemp(s))
         /\ Ids(WithoutTemp(s)) = Ids(s)
         /\ \A k \in DOMAIN WithoutTemp(s) : WithoutTemp(s)[k].id # 0
  <1> DEFINE temps == {i \in DOMAIN s : s[i].id = 0}
             t == CHOOSE i \in temps : TRUE
             u == [k \in 1 .. Len(s) - 1 |-> IF k < t THEN s[k] ELSE s[k + 1]]
  <1>1. CASE temps = {}
    BY <1>1 DEF WithoutTemp
  <1>2. CASE temps # {}
    <2>1. t \in DOMAIN s /\ s[t].id = 0
      BY <1>2
    <2>2. WithoutTemp(s) = u
      BY <1>2 DEF WithoutTemp
    <2> HIDE DEF t
    <2>3. DOMAIN s = 1 .. Len(s) /\ Len(s) \in Nat /\ Len(s) - 1 \in Nat /\ t \in 1 .. Len(s)
      BY <2>1
    <2>4. /\ DOMAIN u = 1 .. Len(s) - 1
          /\ \A k \in DOMAIN u : k < t => k \in DOMAIN s /\ u[k] = s[k]
          /\ \A k \in DOMAIN u : ~(k < t) => k + 1 \in DOMAIN s /\ u[k] = s[k + 1]
      BY <2>3
    <2>5. u \in Seq(Entry(n))
      <3>1. \A k \in 1 .. Len(s) - 1 : u[k] \in Entry(n)
        BY <2>4
      <3> QED
        BY <2>3, <3>1
    <2> HIDE DEF u
    <2>6. Distinct(u)
      BY <2>3, <2>4 DEF Distinct
    <2>7. \A k \in DOMAIN u : u[k].id # 0
      BY <2>1, <2>3, <2>4 DEF Distinct
    <2>8. Ids(u) \subseteq Ids(s)
      BY <2>4 DEF Ids
    <2>9. Ids(s) \subseteq Ids(u)
      <3> SUFFICES ASSUME NEW i \in DOMAIN s, s[i].id # 0
                   PROVE  \E k \in DOMAIN u : u[k].id = s[i].id
        BY DEF Ids
      <3>1. CASE i < t
        BY <2>3, <2>4, <3>1
      <3>2. CASE i > t
        <4>1. i - 1 \in DOMAIN u /\ ~(i - 1 < t) /\ (i - 1) + 1 = i
          BY <2>3, <2>4, <3>2
        <4> QED
          BY <2>4, <4>1
      <3> QED
        BY <2>1, <2>3, <3>1, <3>2
    <2> QED
      BY <2>2, <2>5, <2>6, <2>7, <2>8, <2>9
  <1> QED
    BY <1>1, <1>2

(***************************************************************************)
(* Steps that leave the log, the list and the send alone.                  *)
(***************************************************************************)

LEMMA Initial == Init => IndInv
  <1> SUFFICES ASSUME Init PROVE IndInv
    OBVIOUS
  <1> USE ChatBounds
  <1>1. /\ log = <<>> /\ log \in Seq(Message) /\ Len(log) = 0 /\ DOMAIN log = {}
        /\ list = <<>> /\ list \in Seq(Entry(Len(log))) /\ DOMAIN list = {}
        /\ inbox \in Seq(DOMAIN log)
    BY DEF Init
  <1>2. Idle.text \in Text /\ Idle.st = "idle" /\ Idle.chan = NoChannel /\ Idle.id = 0
    BY DEF Idle
  <1>3. Idle \in Sending(Len(log))
    BY <1>1 DEF Sending, Idle
  <1>4. TypeOK
    <2>1. 0 \in 0 .. Len(log) /\ 0 \in 0 .. MaxFault /\ 0 \in 0 .. MaxOpen /\ Len(log) <= MaxMessage
      BY <1>1
    <2>2. /\ {flags, grace} \subseteq [Channel -> BOOLEAN]
          /\ readUpTo \in [Channel -> 0 .. Len(log)]
      BY <2>1 DEF Init
    <2>3. history \in [st : {"none", "asked", "read"}, ids : SUBSET DOMAIN log]
      BY DEF Init, NoHistory
    <2>4. send \in Sending(Len(log))
      BY <1>3 DEF Init
    <2> QED
      BY <1>1, <2>1, <2>2, <2>3, <2>4 DEF Init, TypeOK
  <1>5. FromChannel /\ WithinBound /\ NoDuplicates /\ TempOK
    BY <1>1, <1>2 DEF Init, FromChannel, WithinBound, NoDuplicates, TempOK, NoHistory
  <1> QED
    BY <1>4, <1>5 DEF IndInv

LEMMA AsideStep ==
  ASSUME IndInv,
         \/ \E c \in Channel : Open(c) \/ Mark(c) \/ MarkLost(c) \/ GraceEnds(c)
         \/ RoomArrives \/ RoomRefused \/ HistoryRead \/ SocketServed \/ SocketDrops
         \/ Poll \/ PollFallsBack \/ (\E p \in polls : PollAnswered(p)) \/ UNCHANGED vars
  PROVE  IndInv'
  <1> USE ChatBounds
  <1>1. UNCHANGED <<log, list, send>>
    BY DEF Open, Mark, MarkLost, GraceEnds, RoomArrives, RoomRefused, HistoryRead,
           SocketServed, SocketDrops, Poll, PollFallsBack, PollAnswered, vars, view, unread
  <1>2. WithinBound' /\ NoDuplicates' /\ TempOK'
    BY <1>1 DEF IndInv, WithinBound, NoDuplicates, TempOK, Ids
  <1>3. TypeOK /\ FromChannel
    BY DEF IndInv
  <1>4. faults' \in 0 .. MaxFault
    <2>1. faults' = faults \/ Fault
      BY DEF Open, Mark, MarkLost, GraceEnds, RoomArrives, RoomRefused, HistoryRead,
             SocketServed, SocketDrops, Poll, PollFallsBack, PollAnswered, vars
    <2> QED
      BY <1>3, <2>1 DEF TypeOK, Fault
  <1>5. CASE UNCHANGED unread
    <2>1. UNCHANGED <<flags, grace, marking, polls, readUpTo>>
      BY <1>5 DEF unread
    <2>2. CASE \E c \in Channel : Open(c)
      BY <1>1, <1>2, <1>3, <1>4, <2>1, <2>2 DEF Open, TypeOK, FromChannel, IndInv
    <2>3. CASE RoomArrives \/ RoomRefused
      <3>1. active \in Channel /\ Room[active] \in {Room[c] : c \in Channel}
        BY <1>3, <2>3 DEF RoomArrives, RoomRefused, FromChannel, TypeOK
      <3>2. inbox' \in Seq(DOMAIN log)
        <4>1. inbox' = inbox \/ inbox' = <<>>
          BY <2>3 DEF RoomArrives, RoomRefused
        <4>2. inbox \in Seq(DOMAIN log) /\ <<>> \in Seq(DOMAIN log)
          BY <1>3, SeqEmpty DEF TypeOK
        <4> QED
          BY <4>1, <4>2, Zenon
      <3>3. /\ UNCHANGED <<active, history, opened>> /\ asking' = FALSE
            /\ room' \in {room, Room[active]} /\ up' \in {up, FALSE}
        BY <2>3 DEF RoomArrives, RoomRefused
      <3> QED
        BY <1>1, <1>2, <1>3, <1>4, <2>1, <3>1, <3>2, <3>3 DEF TypeOK, FromChannel, IndInv
    <2>4. CASE HistoryRead
      <3>1. history' = [st |-> "read", ids |-> InChannel(active)] /\ history.st = "asked"
        BY <2>4 DEF HistoryRead
      <3>2. history' \in [st : {"none", "asked", "read"}, ids : SUBSET DOMAIN log]
        BY <3>1 DEF InChannel
      <3> QED
        BY <1>1, <1>2, <1>3, <1>4, <2>1, <2>4, <3>1, <3>2
        DEF HistoryRead, TypeOK, FromChannel, IndInv
    <2>5. CASE SocketServed \/ SocketDrops \/ UNCHANGED vars
      <3>1. UNCHANGED <<active, room, asking, history, opened>>
        BY <2>5 DEF SocketServed, SocketDrops, vars, view
      <3>2. up' \in BOOLEAN /\ inbox' \in Seq(DOMAIN log)
        <4>1. inbox' = inbox \/ inbox' = <<>>
          BY <2>5 DEF SocketServed, SocketDrops, vars
        <4>2. up' \in {up, TRUE, FALSE}
          BY <2>5 DEF SocketServed, SocketDrops, vars
        <4>3. inbox \in Seq(DOMAIN log) /\ <<>> \in Seq(DOMAIN log) /\ up \in BOOLEAN
          BY <1>3, SeqEmpty DEF TypeOK
        <4>4. inbox' \in Seq(DOMAIN log)
          BY <4>1, <4>3, Zenon
        <4> QED
          BY <4>2, <4>3, <4>4
      <3> QED
        BY <1>1, <1>2, <1>3, <1>4, <2>1, <3>1, <3>2 DEF TypeOK, FromChannel, IndInv
    <2>6. CASE \/ Poll \/ PollFallsBack \/ \E p \in polls : PollAnswered(p)
               \/ \E c \in Channel : Mark(c) \/ MarkLost(c) \/ GraceEnds(c)
      <3>1. UNCHANGED <<active, room, asking, history, up, inbox, opened>>
        BY <2>6 DEF Mark, MarkLost, GraceEnds, Poll, PollFallsBack, PollAnswered, view
      <3> QED
        BY <1>1, <1>2, <1>3, <1>4, <2>1, <3>1 DEF TypeOK, FromChannel, IndInv
    <2> QED
      BY <2>2, <2>3, <2>4, <2>5, <2>6
  <1>6. CASE \/ Poll \/ PollFallsBack \/ \E p \in polls : PollAnswered(p)
             \/ \E c \in Channel : Mark(c) \/ MarkLost(c) \/ GraceEnds(c)
    <2>1. UNCHANGED <<active, room, asking, history, up, inbox, opened>>
      BY <1>6 DEF Mark, MarkLost, GraceEnds, Poll, PollFallsBack, PollAnswered, view
    <2>2. Len(log) \in Nat
      BY <1>3 DEF TypeOK
    <2>3. /\ {flags', grace'} \subseteq [Channel -> BOOLEAN] /\ marking' \subseteq Channel
          /\ polls' \subseteq [Channel -> BOOLEAN]
          /\ readUpTo' \in [Channel -> 0 .. Len(log)]
      <3>0. /\ flags \in [Channel -> BOOLEAN] /\ grace \in [Channel -> BOOLEAN]
            /\ marking \subseteq Channel /\ polls \subseteq [Channel -> BOOLEAN]
            /\ readUpTo \in [Channel -> 0 .. Len(log)]
        BY <1>3 DEF TypeOK
      <3>1. CASE Poll
        <4>1. \A c \in Channel : Unread(c) \in BOOLEAN
          BY DEF Unread
        <4> DEFINE answer == [c \in Channel |-> Unread(c)]
        <4>2. answer \in [Channel -> BOOLEAN]
          BY <4>1
        <4>3. polls' = polls \cup {answer} /\ flags' = flags /\ grace' = grace
              /\ marking' = marking /\ readUpTo' = readUpTo
          BY <3>1 DEF Poll
        <4> HIDE DEF answer
        <4>4. polls' \subseteq [Channel -> BOOLEAN]
          BY <3>0, <4>2, <4>3, Zenon
        <4>5. {flags', grace'} \subseteq [Channel -> BOOLEAN]
          BY <3>0, <4>3
        <4> QED
          BY <3>0, <4>3, <4>4, <4>5, Zenon
      <3>2. CASE PollFallsBack \/ \E p \in polls : PollAnswered(p)
        <4>1. /\ polls' \subseteq polls /\ grace' = grace
              /\ marking' = marking /\ readUpTo' = readUpTo
          BY <3>2 DEF PollFallsBack, PollAnswered
        <4>2. flags' \in [Channel -> BOOLEAN]
          <5>1. CASE PollFallsBack
            BY <5>1 DEF PollFallsBack
          <5>2. CASE \E p \in polls : PollAnswered(p)
            <6>1. PICK p \in polls : flags' = [c \in Channel |-> p[c] /\ ~grace[c]]
              BY <5>2 DEF PollAnswered
            <6>2. \A c \in Channel : (p[c] /\ ~grace[c]) \in BOOLEAN
              OBVIOUS
            <6> QED
              BY <6>1, <6>2
          <5> QED
            BY <3>2, <5>1, <5>2
        <4>3. {flags', grace'} \subseteq [Channel -> BOOLEAN]
          BY <3>0, <4>1, <4>2
        <4>4. marking' \subseteq Channel /\ polls' \subseteq [Channel -> BOOLEAN]
          BY <3>0, <4>1, Zenon
        <4> QED
          BY <3>0, <4>1, <4>3, <4>4, Zenon
      <3>3. CASE \E c \in Channel : Mark(c)
        <4>1. PICK c \in Channel : Mark(c)
          BY <3>3
        <4>2. Len(log) \in 0 .. Len(log)
          BY <2>2
        <4>3. /\ marking' \subseteq marking /\ readUpTo' = [readUpTo EXCEPT ![c] = Len(log)]
              /\ flags' = flags /\ grace' = grace /\ polls' = polls
          BY <4>1 DEF Mark
        <4>4. readUpTo' \in [Channel -> 0 .. Len(log)]
          BY <3>0, <4>2, <4>3
        <4>5. {flags', grace'} \subseteq [Channel -> BOOLEAN]
          BY <3>0, <4>3
        <4>6. marking' \subseteq Channel /\ polls' \subseteq [Channel -> BOOLEAN]
          BY <3>0, <4>3, Zenon
        <4> QED
          BY <4>4, <4>5, <4>6, Zenon
      <3>4. CASE \E c \in Channel : MarkLost(c) \/ GraceEnds(c)
        <4>1. /\ polls' = polls /\ flags' = flags
              /\ marking' \subseteq marking /\ readUpTo' = readUpTo
          BY <3>4 DEF MarkLost, GraceEnds
        <4>2. grace' \in [Channel -> BOOLEAN]
          BY <3>0, <3>4 DEF MarkLost, GraceEnds
        <4>3. {flags', grace'} \subseteq [Channel -> BOOLEAN]
          BY <3>0, <4>1, <4>2
        <4>4. marking' \subseteq Channel /\ polls' \subseteq [Channel -> BOOLEAN]
          BY <3>0, <4>1, Zenon
        <4> QED
          BY <3>0, <4>1, <4>3, <4>4, Zenon
      <3> QED
        BY <1>6, <3>1, <3>2, <3>3, <3>4
    <2> QED
      BY <1>1, <1>2, <1>3, <1>4, <2>1, <2>3 DEF TypeOK, FromChannel, IndInv
  <1> QED
    BY <1>5, <1>6 DEF Open, RoomArrives, RoomRefused, HistoryRead, SocketServed, SocketDrops,
                      vars

(***************************************************************************)
(* Steps that commit a message.                                            *)
(***************************************************************************)

\* The log grows; what was a message stays one.
LEMMA CommitGrows ==
  ASSUME IndInv, NEW c \in Channel, NEW mine \in BOOLEAN, NEW t \in Text, Commit(c, mine, t),
         Len(log) < MaxMessage, UNCHANGED <<view, list, unread, faults, opened, up>>,
         send' \in Sending(Len(log) + 1), send'.st # "idle" => send'.chan # NoChannel,
         send'.st \in {"uploading", "posted"} => Len(log) + 1 < MaxMessage
  PROVE  /\ TypeOK' /\ FromChannel' /\ WithinBound' /\ NoDuplicates'
         /\ DOMAIN log' = DOMAIN log \cup {Len(log) + 1} /\ Len(log) + 1 \notin DOMAIN log
         /\ log'[Len(log) + 1].text = t /\ \A m \in DOMAIN log : log'[m] = log[m]
         /\ \A i \in DOMAIN list : list[i].id \in 0 .. Len(log)
         /\ Len(log) \in Nat
  <1> USE ChatBounds
  <1> DEFINE x == [chan |-> c, mine |-> mine, text |-> t]
             n == Len(log) + 1
  <1>0. TypeOK
    BY DEF IndInv
  <1>1. x \in Message /\ x.text = t
    BY DEF Message
  <1>2. log' = Append(log, x)
    BY DEF Commit
  <1> HIDE DEF x
  <1>3. /\ log' \in Seq(Message) /\ Len(log') = n /\ log'[n] = x
        /\ DOMAIN log' = DOMAIN log \cup {n} /\ n \notin DOMAIN log
        /\ \A m \in DOMAIN log : log'[m] = log[m]
    BY <1>0, <1>1, <1>2, SeqGrows DEF TypeOK
  <1>4. Len(log) \in Nat /\ n \in Nat /\ 0 .. Len(log) \subseteq 0 .. n
    BY <1>0 DEF TypeOK
  <1>5. Entry(Len(log)) \subseteq Entry(n)
    BY <1>4 DEF Entry
  <1>6. list' \in Seq(Entry(n))
    BY <1>0, <1>5, SeqWider DEF TypeOK
  <1>7. inbox \in Seq(DOMAIN log')
    BY <1>0, <1>3, SeqWider DEF TypeOK
  <1>8. inbox' \in Seq(DOMAIN log')
    <2>1. inbox' = inbox \/ inbox' = Append(inbox, n)
      BY DEF Commit
    <2>2. n \in DOMAIN log'
      BY <1>3
    <2>3. CASE inbox' = inbox
      BY <1>7, <2>3
    <2>4. CASE inbox' = Append(inbox, n)
      <3> HIDE DEF n
      <3> QED
        BY <1>7, <2>2, <2>4, SeqGrows
    <2> QED
      BY <2>1, <2>3, <2>4
  <1>9. readUpTo' \in [Channel -> 0 .. n]
    BY <1>0, <1>4 DEF TypeOK, unread
  <1>10. history' \in [st : {"none", "asked", "read"}, ids : SUBSET DOMAIN log']
    BY <1>0, <1>3 DEF TypeOK, view
  <1>11. Len(log') <= MaxMessage
    BY <1>3, <1>4
  <1>12. TypeOK'
    BY <1>0, <1>3, <1>6, <1>8, <1>9, <1>10, <1>11 DEF TypeOK, view, unread
  <1>13. FromChannel' /\ WithinBound' /\ NoDuplicates'
    BY <1>3 DEF IndInv, FromChannel, WithinBound, NoDuplicates, view
  <1>14. \A i \in DOMAIN list : list[i].id \in 0 .. Len(log)
    <2> TAKE i \in DOMAIN list
    <2>1. list[i] \in Entry(Len(log))
      BY <1>0, SeqMember DEF TypeOK
    <2> QED
      BY <2>1 DEF Entry
  <1> QED
    BY <1>1, <1>3, <1>4, <1>12, <1>13, <1>14

LEMMA OtherPostsStep ==
  ASSUME IndInv, NEW c \in Channel, OtherPosts(c)
  PROVE  IndInv'
  <1> USE ChatBounds
  <1>1. PICK t \in Text : Commit(c, FALSE, t)
    BY DEF OtherPosts
  <1>2. UNCHANGED <<view, list, send, unread, faults, opened, up>>
    BY DEF OtherPosts
  <1>3. /\ Len(log) \in Nat /\ Len(log) < MaxMessage
        /\ send.st \in {"uploading", "posted"} => Len(log) + 1 < MaxMessage
    <2>1. Len(log) \in Nat
      BY DEF IndInv, TypeOK
    <2> QED
      BY <2>1 DEF OtherPosts
  <1>4. send' \in Sending(Len(log) + 1) /\ (send'.st # "idle" => send'.chan # NoChannel)
    <2>1. 0 .. Len(log) \subseteq 0 .. Len(log) + 1
      BY <1>3
    <2> QED
      BY <1>2, <2>1 DEF IndInv, TypeOK, FromChannel, Sending
  <1>5. /\ TypeOK' /\ FromChannel' /\ WithinBound' /\ NoDuplicates'
        /\ DOMAIN log \subseteq DOMAIN log' /\ \A m \in DOMAIN log : log'[m] = log[m]
    BY <1>1, <1>2, <1>3, <1>4, CommitGrows
  <1>6. TempOK'
    BY <1>2, <1>5 DEF IndInv, TempOK, Ids
  <1> QED
    BY <1>5, <1>6 DEF IndInv

\* The backend stores the message of the send under way: the answer that
\* will come names a message the list cannot have yet.
LEMMA PostCommitsStep ==
  ASSUME IndInv, PostCommits
  PROVE  IndInv'
  <1> USE ChatBounds
  <1> DEFINE n == Len(log) + 1
  <1>1. /\ send.st = "posted" /\ Commit(send.chan, TRUE, send.text)
        /\ send' = [send EXCEPT !.st = "stored", !.id = n]
        /\ UNCHANGED <<view, list, up, unread, opened, faults>>
    BY DEF PostCommits
  <1>2. send \in Sending(Len(log)) /\ send.chan # NoChannel /\ Len(log) \in Nat
    BY <1>1 DEF IndInv, TypeOK, FromChannel
  <1>3. send.chan \in Channel /\ send.text \in Text
    BY <1>2 DEF Sending
  <1>4. n \in 0 .. n /\ Len(log) < MaxMessage
    <2>1. Len(log) < MaxMessage
      BY <1>1 DEF IndInv, WithinBound
    <2> QED
      BY <1>2, <2>1
  <1>5. send' \in Sending(n) /\ send'.st = "stored" /\ send'.id = n
        /\ send'.text = send.text /\ send'.chan = send.chan
    BY <1>1, <1>2, <1>4 DEF Sending
  <1>6. /\ TypeOK' /\ FromChannel' /\ WithinBound' /\ NoDuplicates'
        /\ DOMAIN log' = DOMAIN log \cup {n} /\ n \notin DOMAIN log
        /\ log'[n].text = send.text
        /\ \A i \in DOMAIN list : list[i].id \in 0 .. Len(log)
    BY <1>1, <1>2, <1>3, <1>4, <1>5, CommitGrows
  <1>7. n \notin Ids(list)
    BY <1>2, <1>6 DEF Ids
  <1>8. TempOK'
    BY <1>1, <1>5, <1>6, <1>7 DEF IndInv, TempOK, Ids
  <1> QED
    BY <1>6, <1>8 DEF IndInv

(***************************************************************************)
(* Steps that change the list or the send.                                 *)
(***************************************************************************)

LEMMA SubmitStep ==
  ASSUME IndInv, NEW t \in Text, Submit(t)
  PROVE  IndInv'
  <1> USE ChatBounds
  <1>1. /\ send.st = "idle" /\ active # NoChannel /\ Len(log) < MaxMessage
        /\ send' = [st |-> "uploading", chan |-> active, text |-> t, id |-> 0]
        /\ UNCHANGED <<log, view, list, up, inbox, unread, opened, faults>>
    BY DEF Submit
  <1>2. TypeOK /\ Len(log) \in Nat
    BY DEF IndInv, TypeOK
  <1>3. 0 \in 0 .. Len(log) /\ active \in Channel
    BY <1>1, <1>2 DEF TypeOK
  <1>4. send' \in Sending(Len(log)) /\ send'.st = "uploading" /\ send'.chan = active
    BY <1>1, <1>3 DEF Sending
  <1>5. TypeOK'
    BY <1>1, <1>2, <1>4 DEF TypeOK, view, unread
  <1>6. FromChannel' /\ WithinBound' /\ NoDuplicates'
    BY <1>1, <1>4 DEF IndInv, FromChannel, WithinBound, NoDuplicates, view
  <1>7. TempOK'
    BY <1>1, <1>4 DEF IndInv, TempOK
  <1> QED
    BY <1>5, <1>6, <1>7 DEF IndInv

\* A step that replaces the list and leaves the log alone: what is left to
\* show of the new list.
LEMMA NewList ==
  ASSUME IndInv, UNCHANGED <<log, active, room, asking, up, opened>>,
         history' \in {history, NoHistory}, faults' = faults \/ Fault,
         inbox' \in Seq(DOMAIN log), send' \in Sending(Len(log)),
         {flags', grace'} \subseteq [Channel -> BOOLEAN], marking' \subseteq Channel,
         UNCHANGED <<polls, readUpTo>>,
         send'.st # "idle" => send'.chan = send.chan /\ send.st # "idle",
         send'.st \in {"uploading", "posted"} => send.st \in {"uploading", "posted"},
         list' \in Seq(Entry(Len(log))), Distinct(list'), TempOK'
  PROVE  IndInv'
  <1> USE ChatBounds
  <1>1. TypeOK /\ FromChannel /\ WithinBound
    BY DEF IndInv
  <1>2. /\ history' \in [st : {"none", "asked", "read"}, ids : SUBSET DOMAIN log]
        /\ history'.st # "none" => history.st # "none"
    BY <1>1 DEF TypeOK, NoHistory
  <1>3. faults' \in 0 .. MaxFault
    BY <1>1 DEF TypeOK, Fault
  <1>4. TypeOK'
    <2>1. /\ log' = log /\ active' = active /\ room' = room /\ asking' = asking /\ up' = up
          /\ opened' = opened /\ polls' = polls /\ readUpTo' = readUpTo
      OBVIOUS
    <2> QED
      BY <1>1, <1>2, <1>3, <2>1 DEF TypeOK
  <1>5. FromChannel' /\ WithinBound'
    BY <1>1, <1>2 DEF FromChannel, WithinBound
  <1>6. NoDuplicates'
    BY DEF NoDuplicates, Distinct
  <1> QED
    BY <1>4, <1>5, <1>6 DEF IndInv

LEMMA HistoryStep ==
  ASSUME IndInv, HistoryArrives \/ HistoryFails
  PROVE  IndInv' /\ history.st # "none"
  <1> USE ChatBounds
  <1>1. TypeOK /\ FromChannel /\ TempOK
    BY DEF IndInv
  <1>2. history.st # "none" /\ active \in Channel /\ history.ids \in SUBSET DOMAIN log
    BY <1>1 DEF HistoryArrives, HistoryFails, FromChannel, TypeOK
  <1>3. /\ UNCHANGED <<log, active, room, asking, up, opened>> /\ history' = NoHistory
        /\ UNCHANGED <<send, inbox, polls, readUpTo>> /\ (faults' = faults \/ Fault)
    BY DEF HistoryArrives, HistoryFails, unread
  <1>4. /\ list' \in Seq(Entry(Len(log))) /\ Distinct(list')
        /\ \A i \in DOMAIN list' : list'[i].id # 0
    <2>1. CASE HistoryArrives
      BY <1>1, <1>2, <2>1, SortedList DEF HistoryArrives, TypeOK
    <2>2. CASE HistoryFails
      BY <2>2, SeqEmpty DEF HistoryFails, Distinct
    <2> QED
      BY <2>1, <2>2
  <1>5. {flags', grace'} \subseteq [Channel -> BOOLEAN] /\ marking' \subseteq Channel
    <2>1. flags \in [Channel -> BOOLEAN] /\ grace \in [Channel -> BOOLEAN] /\ marking \subseteq Channel
      BY <1>1 DEF TypeOK
    <2>2. CASE UNCHANGED <<flags, grace, marking>>
      BY <2>1, <2>2
    <2>3. CASE /\ flags' = [flags EXCEPT ![active] = FALSE]
               /\ grace' = [grace EXCEPT ![active] = TRUE]
               /\ marking' = marking \cup {active}
      <3>1. flags' \in [Channel -> BOOLEAN] /\ grace' \in [Channel -> BOOLEAN]
        BY <1>2, <2>1, <2>3
      <3>2. marking' \subseteq Channel
        BY <1>2, <2>1, <2>3
      <3> QED
        BY <3>1, <3>2
    <2> QED
      BY <2>2, <2>3 DEF HistoryArrives, HistoryFails, unread
  <1>6. TempOK'
    BY <1>1, <1>3, <1>4 DEF TempOK
  <1>7. inbox' \in Seq(DOMAIN log) /\ send' \in Sending(Len(log))
    BY <1>1, <1>3 DEF TypeOK
  <1> QED
    BY <1>2, <1>3, <1>4, <1>5, <1>6, <1>7, NewList

\* A frame shown: known, or in the place of a temporary message, or added.
LEMMA ShownList ==
  ASSUME IndInv, NEW m \in DOMAIN log
  PROVE  /\ Shown(m) \in Seq(Entry(Len(log))) /\ Distinct(Shown(m))
         /\ Ids(list) \subseteq Ids(Shown(m)) /\ Ids(Shown(m)) \subseteq Ids(list) \cup {m}
         /\ \A k \in DOMAIN Shown(m) : Shown(m)[k].id = 0 =>
              /\ k \in DOMAIN list /\ Shown(m)[k] = list[k]
              /\ m \notin Ids(list) => list[k].text # log[m].text
  <1> DEFINE e == [id |-> m, text |-> log[m].text]
             temps == {i \in DOMAIN list : list[i].id = 0 /\ list[i].text = e.text}
             first == CHOOSE i \in temps : \A k \in temps : i <= k
  <1>1. TypeOK /\ Distinct(list) /\ list \in Seq(Entry(Len(log))) /\ Len(log) \in Nat
    BY DEF IndInv, TypeOK, NoDuplicates, Distinct
  <1>2. m \in 0 .. Len(log) /\ m # 0
    BY <1>1 DEF TypeOK
  <1>3. log[m].text \in Text
    <2>1. log[m] \in Message
      BY <1>1, SeqMember DEF TypeOK
    <2> QED
      BY <2>1 DEF Message
  <1>4. e \in Entry(Len(log)) /\ e.id = m /\ e.text = log[m].text
    BY <1>2, <1>3 DEF Entry
  <1>5. /\ m \in Ids(list) => Shown(m) = list
        /\ m \notin Ids(list) /\ temps # {} => Shown(m) = [list EXCEPT ![first] = e]
        /\ m \notin Ids(list) /\ temps = {} => Shown(m) = Append(list, e)
    BY DEF Shown
  <1>6. CASE m \in Ids(list)
    BY <1>1, <1>5, <1>6
  <1>7. CASE m \notin Ids(list)
    <2>1. \A k \in DOMAIN list : list[k].id # e.id
      BY <1>2, <1>4, <1>7 DEF Ids
    <2>2. CASE temps # {}
      <3>1. PICK i \in DOMAIN list : list[i].id = 0 /\ list[i].text = e.text
        BY <2>2
      <3>2. temps = {i}
        BY <1>1, <3>1 DEF Distinct
      <3>3. first = i
        <4>1. i \in Nat
          BY <1>1
        <4>2. \A k \in temps : i <= k
          BY <3>2, <4>1
        <4> QED
          BY <3>2, <4>2
      <3>4. Shown(m) = [list EXCEPT ![i] = e]
        BY <1>5, <1>7, <2>2, <3>3
      <3> HIDE DEF e, temps, first
      <3> QED
        <4> DEFINE t == [list EXCEPT ![i] = e]
        <4>1. /\ t \in Seq(Entry(Len(log))) /\ Distinct(t)
              /\ Ids(list) \subseteq Ids(t) /\ Ids(t) \subseteq Ids(list) \cup {e.id}
              /\ \A k \in DOMAIN t : t[k].id # 0
          <5>1. Len(log) \in Nat /\ list \in Seq(Entry(Len(log))) /\ Distinct(list)
            BY <1>1
          <5>2. e \in Entry(Len(log)) /\ i \in DOMAIN list /\ list[i].id = 0
            BY <1>4, <3>1
          <5>3. /\ t \in Seq(Entry(Len(log))) /\ DOMAIN t = DOMAIN list /\ t[i] = e
                /\ \A k \in DOMAIN list : k # i => t[k] = list[k]
            BY ONLY <5>1, <5>2
          <5> HIDE DEF t
          <5> QED
            BY ONLY <5>1, <5>2, <5>3, <2>1, PutList
        <4>2. Shown(m) = t
          BY <3>4
        <4> HIDE DEF t
        <4> QED
          BY <1>4, <4>1, <4>2
    <2>3. CASE temps = {}
      <3>1. \A k \in DOMAIN list : list[k].id = 0 => list[k].text # e.text
        BY <2>3
      <3>2. Shown(m) = Append(list, e)
        BY <1>5, <1>7, <2>3
      <3> HIDE DEF e, temps, first
      <3>3. /\ Shown(m) \in Seq(Entry(Len(log))) /\ Distinct(Shown(m))
            /\ Ids(list) \subseteq Ids(Shown(m)) /\ Ids(Shown(m)) \subseteq Ids(list) \cup {e.id}
            /\ \A k \in DOMAIN Shown(m) : Shown(m)[k].id = 0 =>
                 (e.id = 0 /\ Shown(m)[k] = e) \/ (k \in DOMAIN list /\ Shown(m)[k] = list[k])
        <4> DEFINE t == Append(list, e)
        <4>1. /\ t \in Seq(Entry(Len(log))) /\ Distinct(t)
              /\ Ids(list) \subseteq Ids(t) /\ Ids(t) \subseteq Ids(list) \cup {e.id}
              /\ \A k \in DOMAIN t : t[k].id = 0 =>
                   (e.id = 0 /\ t[k] = e) \/ (k \in DOMAIN list /\ t[k] = list[k])
          BY <1>1, <1>4, <2>1, AddList
        <4>2. Shown(m) = t
          BY <3>2
        <4> HIDE DEF t
        <4> QED
          BY <4>1, <4>2
      <3>4. \A k \in DOMAIN Shown(m) : Shown(m)[k].id = 0 =>
              /\ k \in DOMAIN list /\ Shown(m)[k] = list[k]
              /\ m \notin Ids(list) => list[k].text # log[m].text
        BY <1>2, <1>4, <3>1, <3>3
      <3> QED
        BY <1>4, <3>3, <3>4
    <2> QED
      BY <2>2, <2>3
  <1> QED
    BY <1>6, <1>7

LEMMA DeliverStep ==
  ASSUME IndInv, Deliver
  PROVE  IndInv' /\ Ids(list) \subseteq Ids(list')
  <1> USE ChatBounds
  <1> DEFINE m == Head(inbox)
  <1>1. TypeOK /\ FromChannel /\ TempOK /\ Distinct(list)
    BY DEF IndInv, NoDuplicates, Distinct
  <1>2. /\ inbox \in Seq(DOMAIN log) /\ inbox # <<>> /\ inbox' = Tail(inbox)
        /\ UNCHANGED <<log, active, room, asking, up, opened>> /\ history' = history
        /\ UNCHANGED <<send, grace, marking, polls, readUpTo, faults>>
    BY <1>1 DEF Deliver, TypeOK, view
  <1>3. m \in DOMAIN log /\ inbox' \in Seq(DOMAIN log)
    BY <1>2, SeqTail
  <1>4. log[m].chan \in Channel
    <2>1. log[m] \in Message
      BY <1>1, <1>3, SeqMember DEF TypeOK
    <2> QED
      BY <2>1 DEF Message
  <1>5. \/ list' = Shown(m) /\ flags' = flags
        \/ /\ flags' = [flags EXCEPT ![log[m].chan] = @ \/ ~log[m].mine]
           /\ list' = list
    BY DEF Deliver
  <1> HIDE DEF m
  <1>6. {flags', grace'} \subseteq [Channel -> BOOLEAN] /\ marking' \subseteq Channel
    <2>1. flags \in [Channel -> BOOLEAN] /\ grace' \in [Channel -> BOOLEAN] /\ marking' \subseteq Channel
      BY <1>1, <1>2 DEF TypeOK
    <2>2. flags' \in [Channel -> BOOLEAN]
      <3>1. CASE flags' = flags
        BY <2>1, <3>1
      <3>2. CASE flags' = [flags EXCEPT ![log[m].chan] = @ \/ ~log[m].mine]
        BY <1>4, <2>1, <3>2
      <3> QED
        BY <1>5, <3>1, <3>2
    <2> QED
      BY <2>1, <2>2
  <1>7. /\ list' \in Seq(Entry(Len(log))) /\ Distinct(list') /\ Ids(list) \subseteq Ids(list')
        /\ Ids(list') \subseteq Ids(list) \cup {m}
        /\ \A k \in DOMAIN list' : list'[k].id = 0 =>
             /\ k \in DOMAIN list /\ list'[k] = list[k]
             /\ m \in Ids(list') \ Ids(list) => list[k].text # log[m].text
    <2>1. CASE list' = list
      BY <1>1, <2>1 DEF TypeOK
    <2>2. CASE list' = Shown(m)
      BY <1>3, <2>2, ShownList
    <2> QED
      BY <1>5, <2>1, <2>2
  <1>8. TempOK'
    <2>1. SUFFICES ASSUME NEW k \in DOMAIN list', list'[k].id = 0
                   PROVE  /\ send.st \in {"posted", "stored"} /\ list'[k].text = send.text
                          /\ send.st = "stored" => send.id \notin Ids(list')
      BY <1>1, <1>2 DEF TempOK
    <2>2. /\ k \in DOMAIN list /\ list'[k] = list[k] /\ list[k].id = 0
          /\ m \in Ids(list') \ Ids(list) => list[k].text # log[m].text
      BY <1>7, <2>1
    <2>3. /\ send.st \in {"posted", "stored"} /\ list[k].text = send.text
          /\ send.st = "stored" => send.id \notin Ids(list) /\ log[send.id].text = send.text
      BY <1>1, <2>2 DEF TempOK
    <2> QED
      BY <1>7, <2>2, <2>3
  <1>9. send' \in Sending(Len(log))
    BY <1>1, <1>2 DEF TypeOK
  <1> QED
    BY <1>2, <1>3, <1>6, <1>7, <1>8, <1>9, NewList

LEMMA ShowTempStep ==
  ASSUME IndInv, ShowTemp
  PROVE  IndInv' /\ Ids(list) \subseteq Ids(list')
  <1> USE ChatBounds
  <1> DEFINE e == [id |-> 0, text |-> send.text]
  <1>1. TypeOK /\ FromChannel /\ TempOK /\ Distinct(list)
    BY DEF IndInv, NoDuplicates, Distinct
  <1>2. /\ send.st = "uploading" /\ send \in Sending(Len(log)) /\ Len(log) \in Nat
        /\ send' = [send EXCEPT !.st = "posted"] /\ list' = Append(list, e)
        /\ UNCHANGED <<log, active, room, asking, up, opened>> /\ history' = history
        /\ UNCHANGED <<inbox, flags, grace, marking, polls, readUpTo, faults>>
    BY <1>1 DEF ShowTemp, TypeOK, view, unread
  <1>3. /\ send' \in Sending(Len(log)) /\ send'.st = "posted" /\ send'.chan = send.chan
        /\ send'.text = send.text
    BY <1>2 DEF Sending
  <1>4. e \in Entry(Len(log)) /\ e.id = 0 /\ e.text = send.text
    <2>1. 0 \in 0 .. Len(log) /\ send.text \in Text
      BY <1>2 DEF Sending
    <2> QED
      BY <2>1 DEF Entry
  <1> HIDE DEF e
  <1>5. \A k \in DOMAIN list : list[k].id # 0
    BY <1>1, <1>2 DEF TempOK
  <1>6. /\ list' \in Seq(Entry(Len(log))) /\ Distinct(list') /\ Ids(list) \subseteq Ids(list')
        /\ \A k \in DOMAIN list' : list'[k].id = 0 =>
             list'[k] = e \/ (k \in DOMAIN list /\ list'[k] = list[k])
    <2>1. list \in Seq(Entry(Len(log))) /\ \A k \in DOMAIN list : list[k].id # e.id
      BY <1>1, <1>4, <1>5 DEF TypeOK
    <2> QED
      BY <1>1, <1>2, <1>4, <2>1, AddList
  <1>7. TempOK'
    BY <1>3, <1>4, <1>5, <1>6 DEF TempOK
  <1>8. /\ {flags', grace'} \subseteq [Channel -> BOOLEAN] /\ marking' \subseteq Channel
        /\ inbox' \in Seq(DOMAIN log)
    <2>1. flags' = flags /\ grace' = grace /\ marking' = marking /\ inbox' = inbox
      BY <1>2
    <2> QED
      BY <1>1, <2>1 DEF TypeOK
  <1> QED
    BY <1>2, <1>3, <1>6, <1>7, <1>8, NewList

LEMMA PostAnsweredStep ==
  ASSUME IndInv, PostAnswered
  PROVE  IndInv' /\ Ids(list) \subseteq Ids(list')
  <1> USE ChatBounds
  <1> DEFINE e == [id |-> send.id, text |-> send.text]
             temps == {i \in DOMAIN list : list[i].id = 0}
             any == CHOOSE i \in temps : TRUE
  <1>1. TypeOK /\ FromChannel /\ TempOK /\ Distinct(list)
    BY DEF IndInv, NoDuplicates, Distinct
  <1>2. /\ send.st = "stored" /\ send \in Sending(Len(log)) /\ Len(log) \in Nat
        /\ list \in Seq(Entry(Len(log))) /\ send' = Idle /\ list' = Answered(list, e)
        /\ UNCHANGED <<log, active, room, asking, up, opened>> /\ history' = history
        /\ UNCHANGED <<inbox, flags, grace, marking, polls, readUpTo, faults>>
    BY <1>1 DEF PostAnswered, TypeOK, view, unread
  <1>3. send.id \in DOMAIN log /\ send.id # 0
    BY <1>1, <1>2 DEF TempOK, TypeOK
  <1>4. e \in Entry(Len(log)) /\ e.id = send.id
    BY <1>2 DEF Sending, Entry
  <1>5. /\ temps # {} => list' = [list EXCEPT ![any] = e]
        /\ temps = {} /\ e.id \in Ids(list) => list' = list
        /\ temps = {} /\ e.id \notin Ids(list) => list' = Append(list, e)
    BY <1>2 DEF Answered
  <1>6. /\ list' \in Seq(Entry(Len(log))) /\ Distinct(list') /\ Ids(list) \subseteq Ids(list')
        /\ \A k \in DOMAIN list' : list'[k].id # 0
    <2>1. CASE temps # {}
      <3>1. any \in DOMAIN list /\ list[any].id = 0
        BY <2>1
      <3>2. list' = [list EXCEPT ![any] = e]
        BY <1>5, <2>1
      <3>3. \A k \in DOMAIN list : list[k].id # e.id
        BY <1>1, <1>2, <1>3, <1>4, <3>1 DEF TempOK, Ids
      <3> HIDE DEF any, e
      <3> DEFINE t == [list EXCEPT ![any] = e]
      <3>4. /\ t \in Seq(Entry(Len(log))) /\ Distinct(t) /\ Ids(list) \subseteq Ids(t)
            /\ \A k \in DOMAIN t : t[k].id # 0
        <4>1. Len(log) \in Nat /\ list \in Seq(Entry(Len(log))) /\ Distinct(list)
          BY <1>1, <1>2
        <4>2. e \in Entry(Len(log)) /\ any \in DOMAIN list /\ list[any].id = 0
          BY <1>4, <3>1
        <4>3. /\ t \in Seq(Entry(Len(log))) /\ DOMAIN t = DOMAIN list /\ t[any] = e
              /\ \A k \in DOMAIN list : k # any => t[k] = list[k]
          BY ONLY <4>1, <4>2
        <4> HIDE DEF t
        <4> QED
          BY ONLY <4>1, <4>2, <4>3, <3>3, PutList
      <3>5. list' = t
        BY <3>2
      <3> HIDE DEF t
      <3> QED
        BY <3>4, <3>5
    <2>2. CASE temps = {}
      <3>1. \A k \in DOMAIN list : list[k].id # 0
        BY <2>2
      <3>2. CASE e.id \in Ids(list)
        BY <1>1, <1>2, <1>5, <2>2, <3>1, <3>2
      <3>3. CASE e.id \notin Ids(list)
        <4>1. list' = Append(list, e)
          BY <1>5, <2>2, <3>3
        <4>2. e.id # 0 /\ \A k \in DOMAIN list : list[k].id # e.id
          BY <1>3, <1>4, <3>3 DEF Ids
        <4> HIDE DEF e
        <4>3. /\ list' \in Seq(Entry(Len(log))) /\ Distinct(list')
              /\ Ids(list) \subseteq Ids(list')
              /\ \A k \in DOMAIN list' : list'[k].id = 0 =>
                   (e.id = 0 /\ list'[k] = e) \/ (k \in DOMAIN list /\ list'[k] = list[k])
          <5> DEFINE t == Append(list, e)
          <5>1. /\ t \in Seq(Entry(Len(log))) /\ Distinct(t) /\ Ids(list) \subseteq Ids(t)
                /\ \A k \in DOMAIN t : t[k].id = 0 =>
                     (e.id = 0 /\ t[k] = e) \/ (k \in DOMAIN list /\ t[k] = list[k])
            BY <1>1, <1>2, <1>4, <4>2, AddList
          <5>2. list' = t
            BY <4>1
          <5> HIDE DEF t
          <5> QED
            BY <5>1, <5>2
        <4> QED
          BY <3>1, <4>2, <4>3
      <3> QED
        BY <3>2, <3>3
    <2> QED
      BY <2>1, <2>2
  <1> HIDE DEF e
  <1>7. send' \in Sending(Len(log)) /\ send'.st = "idle"
    <2>1. 0 \in 0 .. Len(log) /\ Idle.text \in Text
      BY <1>2 DEF Idle
    <2> QED
      BY <1>2, <2>1 DEF Sending, Idle
  <1>8. TempOK'
    BY <1>6, <1>7 DEF TempOK
  <1>9. /\ {flags', grace'} \subseteq [Channel -> BOOLEAN] /\ marking' \subseteq Channel
        /\ inbox' \in Seq(DOMAIN log)
    <2>1. flags' = flags /\ grace' = grace /\ marking' = marking /\ inbox' = inbox
      BY <1>2
    <2> QED
      BY <1>1, <2>1 DEF TypeOK
  <1> QED
    BY <1>2, <1>6, <1>7, <1>8, <1>9, NewList

LEMMA PostFailsStep ==
  ASSUME IndInv, PostFails
  PROVE  IndInv' /\ Ids(list) \subseteq Ids(list')
  <1> USE ChatBounds
  <1>1. TypeOK /\ FromChannel /\ TempOK /\ Distinct(list)
    BY DEF IndInv, NoDuplicates, Distinct
  <1>2. /\ Len(log) \in Nat /\ list \in Seq(Entry(Len(log)))
        /\ send' = Idle /\ list' = WithoutTemp(list) /\ Fault
        /\ UNCHANGED <<log, active, room, asking, up, opened>> /\ history' = history
        /\ UNCHANGED <<inbox, flags, grace, marking, polls, readUpTo>>
    BY <1>1 DEF PostFails, TypeOK, view, unread
  <1>3. /\ list' \in Seq(Entry(Len(log))) /\ Distinct(list') /\ Ids(list) \subseteq Ids(list')
        /\ \A k \in DOMAIN list' : list'[k].id # 0
    BY <1>1, <1>2, WithoutTempList
  <1>4. send' \in Sending(Len(log)) /\ send'.st = "idle"
    <2>1. 0 \in 0 .. Len(log) /\ Idle.text \in Text
      BY <1>2 DEF Idle
    <2> QED
      BY <1>2, <2>1 DEF Sending, Idle
  <1>5. TempOK'
    BY <1>3, <1>4 DEF TempOK
  <1>6. /\ {flags', grace'} \subseteq [Channel -> BOOLEAN] /\ marking' \subseteq Channel
        /\ inbox' \in Seq(DOMAIN log)
    <2>1. flags' = flags /\ grace' = grace /\ marking' = marking /\ inbox' = inbox
      BY <1>2
    <2> QED
      BY <1>1, <2>1 DEF TypeOK
  <1> QED
    BY <1>2, <1>3, <1>4, <1>5, <1>6, NewList

(***************************************************************************)
(* The theorems.                                                           *)
(***************************************************************************)

LEMMA Step == IndInv /\ [Next]_vars => IndInv'
  <1> SUFFICES ASSUME IndInv, [Next]_vars PROVE IndInv'
    OBVIOUS
  <1>1. CASE \/ \E c \in Channel : Open(c) \/ Mark(c) \/ MarkLost(c) \/ GraceEnds(c)
             \/ RoomArrives \/ RoomRefused \/ HistoryRead \/ SocketServed \/ SocketDrops
             \/ Poll \/ PollFallsBack \/ (\E p \in polls : PollAnswered(p)) \/ UNCHANGED vars
    BY <1>1, AsideStep
  <1>2. CASE \E c \in Channel : OtherPosts(c)
    BY <1>2, OtherPostsStep
  <1>3. CASE \E t \in Text : Submit(t)
    BY <1>3, SubmitStep
  <1>4. CASE \/ HistoryArrives \/ HistoryFails \/ Deliver
             \/ ShowTemp \/ PostCommits \/ PostAnswered \/ PostFails
    BY <1>4, HistoryStep, DeliverStep, ShowTempStep, PostCommitsStep, PostAnsweredStep,
       PostFailsStep
  <1> QED
    BY <1>1, <1>2, <1>3, <1>4 DEF Next

\* The inductive invariant: a temporary message of the list is the one of the
\* send under way, and the list does not yet have the message it waits for.
THEOREM Invariance == Spec => []IndInv
  BY Initial, Step, PTL DEF Spec

\* Every reachable state has the types the module gives its variables.
THEOREM TypeCorrect == Spec => []TypeOK
  <1>1. IndInv => TypeOK
    BY DEF IndInv
  <1> QED
    BY <1>1, Invariance, PTL

\* However history, socket and answers overtake each other, no message is
\* shown twice.
THEOREM ShownOnce == Spec => []NoDuplicates
  <1>1. IndInv => NoDuplicates
    BY DEF IndInv
  <1> QED
    BY <1>1, Invariance, PTL

\* Once the history of the open channel is in, no frame, answer or failure of
\* a send takes a message out of the list while the channel stays open.
THEOREM NothingLeaves == Spec => NothingVanishes
  <1> DEFINE A == active' = active /\ history.st = "none" => Ids(list) \subseteq Ids(list')
  <1>1. IndInv /\ [Next]_vars => [A]_vars
    <2> SUFFICES ASSUME IndInv, Next, history.st = "none" PROVE Ids(list) \subseteq Ids(list')
      BY DEF vars
    <2>1. CASE list' = list
      BY <2>1
    <2>2. CASE \/ HistoryArrives \/ HistoryFails \/ Deliver
               \/ ShowTemp \/ PostAnswered \/ PostFails
      BY <2>2, HistoryStep, DeliverStep, ShowTempStep, PostAnsweredStep, PostFailsStep
    <2> QED
      BY <2>1, <2>2 DEF Next, Open, OtherPosts, Mark, MarkLost, GraceEnds, RoomArrives,
         RoomRefused, HistoryRead, SocketServed, SocketDrops, Submit, PostCommits,
         Poll, PollFallsBack, PollAnswered
  <1> QED
    BY <1>1, Invariance, PTL DEF Spec, NothingVanishes

===============================================================================

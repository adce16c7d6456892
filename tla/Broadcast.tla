------------------------------ MODULE Broadcast ------------------------------
(***************************************************************************)
(* What the chat's connection managers promise together, whatever number   *)
(* of processes they run in: a socket hears messages of its own topics     *)
(* only, in the order of their publication, and none of them twice.  It    *)
(* may miss some: Redis Pub/Sub keeps nothing for who is not subscribed.   *)
(***************************************************************************)
EXTENDS Integers, Sequences

CONSTANTS
  Socket, Topic,
  Topics(_)    \* the topics of a socket: its room and its user's own channel

VARIABLES
  published,   \* how many messages each topic has had
  heard        \* numbers of the messages a socket has had, by topic

vars == <<published, heard>>

Init ==
  /\ published = [t \in Topic |-> 0]
  /\ heard = [s \in Socket |-> [t \in Topic |-> <<>>]]

Publish(t) ==
  /\ published' = [published EXCEPT ![t] = @ + 1]
  /\ UNCHANGED heard

Hear(s, t, n) ==
  /\ n \in 1 .. published[t]
  /\ \A i \in DOMAIN heard[s][t] : heard[s][t][i] < n
  /\ heard' = [heard EXCEPT ![s][t] = Append(@, n)]
  /\ UNCHANGED published

Next ==
  \/ \E t \in Topic : Publish(t)
  \/ \E s \in Socket : \E t \in Topics(s) : \E n \in 1 .. published[t] : Hear(s, t, n)

Spec == Init /\ [][Next]_vars
===============================================================================

---------------------------- MODULE MCChatSockets ----------------------------
(* Two sockets of one user in one room, together in one process.           *)
EXTENDS ChatSockets, TLC

CONSTANTS a1, a2, p1, r, ua

Room1 == {r}
Together == [s \in Socket |-> p1]
OneRoom == [s \in Socket |-> r]
Owner == [s \in Socket |-> ua]
InRoom2 == [t \in Topic |-> IF t = r THEN 2 ELSE 0]
===============================================================================

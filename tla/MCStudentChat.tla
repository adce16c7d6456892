--------------------------- MODULE MCStudentChat ---------------------------
(* Two courses: the talk of both, and the direct messages and announcements  *)
(* of the first.                                                             *)
EXTENDS StudentChat

CONSTANTS talkA, talkB, direct, news

Types == [c \in Channel |-> CASE c = direct -> "teacher_dm"
                              [] c = news -> "course_announcements"
                              [] OTHER -> "course"]
Rooms == [c \in Channel |-> CASE c = talkB -> "B"
                              [] c = news -> "A-news"
                              [] OTHER -> "A"]
=============================================================================

--------------------------- MODULE MCTeacherChat ---------------------------
(* Two courses with a general announcement room each.                        *)
EXTENDS TeacherChat

CONSTANTS talkA, talkB

RoomLists == [c \in Channel |-> IF c = All THEN <<"A-all", "B-all">>
                                ELSE IF c = talkB THEN <<"B">> ELSE <<"A">>]
=============================================================================

--------------------------- MODULE MCCourseBuilder ----------------------------
(* A small instance of CourseBuilder for TLC. *)
EXTENDS CourseBuilder
===============================================================================

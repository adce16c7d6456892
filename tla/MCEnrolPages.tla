---------------------------- MODULE MCEnrolPages ----------------------------
EXTENDS EnrolPages, TLC

CONSTANTS c1, c2, o1, o2

\* Orders are interchangeable.
Symmetry == Permutations(Order)
=============================================================================

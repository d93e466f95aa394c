---------------------------- MODULE MCLessonDrafts ----------------------------
EXTENDS LessonDrafts, TLC

CONSTANTS d1, d2, l1, l2, m1

MCSymmetry == Permutations({d1, d2}) \cup Permutations({l1, l2})
=============================================================================

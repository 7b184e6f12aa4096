---------------------------- MODULE MCCoursework ----------------------------
(* Small instances of Coursework for TLC. *)
EXTENDS Coursework, TLC

Symmetry ==
    Permutations(Courses) \union Permutations(Lessons)
      \union Permutations(Enrolments) \union Permutations(Requests)
=============================================================================

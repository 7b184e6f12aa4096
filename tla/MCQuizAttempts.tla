--------------------------- MODULE MCQuizAttempts ---------------------------
(* Small instances of QuizAttempts for TLC. *)
EXTENDS QuizAttempts, TLC

Symmetry ==
    Permutations(Quizzes) \union Permutations(Questions)
      \union Permutations(Attempts) \union Permutations(Requests)
=============================================================================

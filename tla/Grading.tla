-------------------------------- MODULE Grading --------------------------------
(***************************************************************************)
(* The grading of one submission to a quiz of any size, up to the numbers  *)
(* of questions at which the floating point of the score matters.  Module  *)
(* QuizAttempts models what goes on around it, with few questions.         *)
(***************************************************************************)
EXTENDS Percentage

CONSTANTS
    MaxQuestions,   \* questions of a quiz (bound)
    MaxRight,       \* answers that count as right (bound): a question answered
                    \* twice counts twice, so they may be more than the questions
    Bars            \* the passing scores of the quizzes

ASSUME GradingAssumption ==
    /\ MaxQuestions \in Nat
    /\ MaxRight \in Nat
    /\ Bars \subseteq Nat

VARIABLES
    totalQuestions,
    correctCount,
    verdict         \* once graded: the passing score asked for, and whether
                    \* the submission reached it

vars == <<totalQuestions, correctCount, verdict>>

NotGraded == [bar |-> 0, graded |-> FALSE, passed |-> FALSE]

Init ==
    /\ totalQuestions \in 0..MaxQuestions
    /\ correctCount = 0
    /\ verdict = NotGraded

\* One answer of the submission that picks a right option; the others leave
\* the count alone.  A quiz without questions has none.
CountRight ==
    /\ ~verdict.graded
    /\ totalQuestions > 0
    /\ correctCount < MaxRight
    /\ correctCount' = correctCount + 1
    /\ UNCHANGED <<totalQuestions, verdict>>

\* The score is taken of the count and compared with the passing score.
Grade(bar) ==
    /\ ~verdict.graded
    /\ verdict' = [bar |-> bar, graded |-> TRUE,
                   passed |-> Passes(correctCount, totalQuestions, bar)]
    /\ UNCHANGED <<totalQuestions, correctCount>>

Next == CountRight \/ \E bar \in Bars : Grade(bar)

Spec == Init /\ [][Next]_vars

-----------------------------------------------------------------------------
\* No submission passes with less than its passing score, and one that gets
\* at least that fails in two cases only: the quiz has no questions; or the
\* share of right answers is the passing score exactly, this is 29, 57 or 58,
\* and the quiz has 50 questions or more, where the floating point of the
\* score may come out below the share.
VerdictFollowsShare ==
    verdict.graded =>
      LET share == 100 * correctCount
          asked == verdict.bar * totalQuestions
      IN  IF totalQuestions = 0 THEN verdict.passed <=> verdict.bar = 0
          ELSE /\ verdict.passed => share >= asked
               /\ ~verdict.passed =>
                    \/ share < asked
                    \/ /\ share = asked
                       /\ verdict.bar \in {29, 57, 58}
                       /\ totalQuestions >= 50
=============================================================================

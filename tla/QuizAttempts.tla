---------------------------- MODULE QuizAttempts ----------------------------
(***************************************************************************)
(* Quizzes, their questions, and the attempts that are scored against      *)
(* them.                                                                   *)
(*                                                                         *)
(* A handler reads, decides and writes in separate statements, each one    *)
(* atomic with the foreign keys and the cascades of the schema; what it    *)
(* has read waits in the slot of its request while others change the rows. *)
(* A lesson is known by its teacher, a question by its quiz; each question *)
(* has one right and one wrong option, named by the question and the flag. *)
(* Texts, the order of the questions, and the time limit, which no code    *)
(* looks at, are left out.                                                 *)
(***************************************************************************)
EXTENDS Percentage, FiniteSets

CONSTANTS
    Users,
    Admins,         \* the users whose requests carry the role ADMIN
    Lessons,
    Quizzes,        \* ids a run may use: rows are never created twice
    Questions,
    Attempts,
    Requests,       \* request slots (bound on concurrent requests)
    PassingScores,  \* percentages a teacher may ask for (bound)
    MaxAnswers,     \* bound on the answers of a submission
    None

ASSUME QuizAssumption ==
    /\ Admins \subseteq Users
    /\ None \notin Users \union Lessons \union Quizzes \union Questions
    /\ IsFiniteSet(Questions)
    /\ PassingScores \subseteq Nat
    /\ PassingScores # {}
    /\ MaxAnswers \in Nat

VARIABLES
    accounts,   \* the accounts that exist
    lesson,     \* table lessons
    quiz,       \* table quizzes
    question,   \* table questions, with their options
    attempt,    \* table quiz_attempts, each row with its quiz_attempt_answers
    req,        \* the request slots
    \* History: what an attempt that exists was scored from.
    paper

vars == <<accounts, lesson, quiz, question, attempt, req, paper>>
rows == <<accounts, lesson, quiz, question, attempt, paper>>

-----------------------------------------------------------------------------
Statuses == {"unused", "present", "gone"}

LessonRow == [status : Statuses, teacher : Users]
QuizRow == [status : Statuses, lesson : Lessons \union {None},
            passingScore : PassingScores]
QuestionRow == [status : Statuses, quiz : Quizzes \union {None}]

\* One answer of a submission: a question and an option, which may be one of
\* another question (which one of that makes no difference).
Answer == {a \in [question : Questions, of : Questions, right : BOOLEAN] :
              a.of # a.question => a.right}

\* A row of quiz_attempt_answers; an answer given twice makes two rows.
AnswerRow == [answer : Answer, copy : 1..2]

\* What a client may submit: a list of answers, whose order nothing depends on.
Papers ==
    {given \in SUBSET AnswerRow :
        /\ IsFiniteSet(given) /\ Cardinality(given) <= MaxAnswers
        /\ \A x \in given : [x EXCEPT !.copy = 1] \in given}

AttemptRow == [status : Statuses, quiz : Quizzes \union {None},
               student : Users \union {None}, correct : Nat, total : Nat,
               passed : BOOLEAN, answers : SUBSET AnswerRow]

APassingScore == CHOOSE s \in PassingScores : TRUE

NoQuiz(status) ==
    [status |-> status, lesson |-> None, passingScore |-> APassingScore]
NoQuestion(status) == [status |-> status, quiz |-> None]
NoAttempt(status) == [status |-> status, quiz |-> None, student |-> None,
                      correct |-> 0, total |-> 0, passed |-> FALSE, answers |-> {}]

PCs == {"idle", "insertQuiz", "setScore", "dropQuiz", "insertAttempt"}

\* seen and bar: the questions and the passing score of the quiz as it was
\* read for scoring; given: the submitted answers.
PaperType == [seen : SUBSET Questions, bar : PassingScores, given : Papers]

NoPaper == [seen |-> {}, bar |-> APassingScore, given |-> {}]

RequestType ==
    [pc : PCs, by : Users \union {None}, lesson : Lessons \union {None},
     quiz : Quizzes \union {None}, paper : PaperType]

Idle == [pc |-> "idle", by |-> None, lesson |-> None, quiz |-> None,
         paper |-> NoPaper]

Init ==
    /\ accounts = Users
    /\ lesson \in [Lessons -> [status : {"present"}, teacher : Users]]
    /\ quiz = [q \in Quizzes |-> NoQuiz("unused")]
    /\ question = [k \in Questions |-> NoQuestion("unused")]
    /\ attempt = [a \in Attempts |-> NoAttempt("unused")]
    /\ req = [r \in Requests |-> Idle]
    /\ paper = [a \in Attempts |-> NoPaper]

-----------------------------------------------------------------------------
Present(row) == row.status = "present"

Go(r, slot) == req' = [req EXCEPT ![r] = slot]

\* Definitions named M_ are faults the runs are shown to notice: what the
\* definition after them would be if the code had that bug.

\* The questions of every quiz.
M_AnyQuestion(q) == {k \in Questions : Present(question[k])}

QuestionsOf(q) ==
    {k \in Questions : Present(question[k]) /\ question[k].quiz = q}

\* The caller is not compared with the teacher.
M_AnyTeacher(u, l) == Present(lesson[l])

\* The test of create, update and delete.
MayEdit(u, l) == Present(lesson[l]) /\ (lesson[l].teacher = u \/ u \in Admins)

-----------------------------------------------------------------------------
(* Scoring.  The comparison with the passing score is that of Percentage.   *)

\* The option is looked up without the question.
M_RightAnywhere(seen, x) == x.question \in seen /\ x.right

\* An answer counts if its question was in the quiz and its option is a right
\* one of that question.
CountsAsRight(seen, x) == x.question \in seen /\ x.of = x.question /\ x.right

CorrectCount(p) == Cardinality({x \in p.given : CountsAsRight(p.seen, x.answer)})

\* Quiz and student in each other's column.
M_ColumnsSwapped(u, q, p) ==
    [NoAttempt("present") EXCEPT !.quiz = u, !.student = q]

\* quizAttempt.create with the answers it nests.
Scored(u, q, p) ==
    [status |-> "present", quiz |-> q, student |-> u,
     correct |-> CorrectCount(p), total |-> Cardinality(p.seen),
     passed |-> Passes(CorrectCount(p), Cardinality(p.seen), p.bar),
     answers |-> p.given]

-----------------------------------------------------------------------------
(* Deletion: the lessons L, quizzes Q, questions K and accounts U, with     *)
(* what cascades from them.                                                *)

Keeps(K, x) == x.answer.question \notin K /\ x.answer.of \notin K

\* A deleted question takes along the attempts it was answered in.
M_LosesAttempt(row, Q, K, U) ==
    IF row.quiz \in Q \/ row.student \in U \/ \E x \in row.answers : ~Keeps(K, x)
    THEN NoAttempt("gone") ELSE row

\* What is left of an attempt: nothing without its quiz or its student, the
\* answers whose question and option are left otherwise.
LeftOf(row, Q, K, U) ==
    IF row.quiz \in Q \/ row.student \in U THEN NoAttempt("gone")
    ELSE [row EXCEPT !.answers = {x \in @ : Keeps(K, x)}]

Erase(L, Q, K, U) ==
    LET lostQ == Q \union {q \in Quizzes : quiz[q].lesson \in L}
        lostK == K \union {k \in Questions : question[k].quiz \in lostQ}
    IN  /\ accounts' = accounts \ U
        /\ lesson' = [l \in Lessons |->
             IF l \in L THEN [lesson[l] EXCEPT !.status = "gone"] ELSE lesson[l]]
        /\ quiz' = [q \in Quizzes |->
             IF q \in lostQ THEN NoQuiz("gone") ELSE quiz[q]]
        /\ question' = [k \in Questions |->
             IF k \in lostK THEN NoQuestion("gone") ELSE question[k]]
        /\ attempt' = [a \in Attempts |-> LeftOf(attempt[a], lostQ, lostK, U)]
        /\ paper' = [a \in Attempts |->
             IF attempt'[a].status = "gone" THEN NoPaper ELSE paper[a]]

-----------------------------------------------------------------------------
(* Quizzes.  The guard has read the caller's account some time before; the *)
(* account may be gone when the handler's own statements run.              *)

\* create: the lesson is read, the caller tested.
ReadLesson(r, u, l) ==
    /\ req[r].pc = "idle"
    /\ MayEdit(u, l)
    /\ Go(r, [Idle EXCEPT !.pc = "insertQuiz", !.by = u, !.lesson = l])
    /\ UNCHANGED rows

\* quiz.create: fails on its foreign key when the lesson is gone.
InsertQuiz(r) ==
    /\ req[r].pc = "insertQuiz"
    /\ \/ /\ Present(lesson[req[r].lesson])
          /\ \E q \in Quizzes, s \in PassingScores :
               /\ quiz[q].status = "unused"
               /\ quiz' = [quiz EXCEPT ![q] = [status |-> "present",
                             lesson |-> req[r].lesson, passingScore |-> s]]
       \/ ~Present(lesson[req[r].lesson]) /\ UNCHANGED quiz
    /\ Go(r, Idle)
    /\ UNCHANGED <<accounts, lesson, question, attempt, paper>>

\* The first half of update and of delete.
ReadQuiz(r, u, q, pc) ==
    /\ req[r].pc = "idle"
    /\ pc \in {"setScore", "dropQuiz"}
    /\ Present(quiz[q])
    /\ MayEdit(u, quiz[q].lesson)
    /\ Go(r, [Idle EXCEPT !.pc = pc, !.by = u, !.quiz = q])
    /\ UNCHANGED rows

SetPassingScore(r) ==
    LET q == req[r].quiz
    IN  /\ req[r].pc = "setScore"
        /\ IF Present(quiz[q])
           THEN \E s \in PassingScores : quiz' = [quiz EXCEPT ![q].passingScore = s]
           ELSE UNCHANGED quiz
        /\ Go(r, Idle)
        /\ UNCHANGED <<accounts, lesson, question, attempt, paper>>

DeleteQuiz(r) ==
    /\ req[r].pc = "dropQuiz"
    /\ IF Present(quiz[req[r].quiz])
       THEN Erase({}, {req[r].quiz}, {}, {})
       ELSE UNCHANGED rows
    /\ Go(r, Idle)

-----------------------------------------------------------------------------
(* Questions: one statement each, by any teacher. *)

AddQuestion(k, q) ==
    /\ question[k].status = "unused"
    /\ Present(quiz[q])
    /\ question' = [question EXCEPT ![k] = [status |-> "present", quiz |-> q]]
    /\ UNCHANGED <<accounts, lesson, quiz, attempt, req, paper>>

DeleteQuestion(k) ==
    /\ Present(question[k])
    /\ Erase({}, {}, {k}, {})
    /\ UNCHANGED req

-----------------------------------------------------------------------------
(* Attempts. *)

\* submitAttempt: the quiz is read with its questions, and scored from what
\* was read.  A client knows the ids of questions that exist or have existed.
\* (Bound: there is an id for the attempt of every submission.)
ReadForScore(r, u, q, given) ==
    /\ req[r].pc = "idle"
    /\ Present(quiz[q])
    /\ Cardinality({s \in Requests : req[s].pc = "insertAttempt"})
         < Cardinality({a \in Attempts : attempt[a].status = "unused"})
    /\ \A x \in given :
         /\ question[x.answer.question].status # "unused"
         /\ question[x.answer.of].status # "unused"
    /\ Go(r, [Idle EXCEPT !.pc = "insertAttempt", !.by = u, !.quiz = q,
                !.paper = [seen |-> QuestionsOf(q), bar |-> quiz[q].passingScore,
                           given |-> given]])
    /\ UNCHANGED rows

\* The answers' side of the foreign keys is not checked.
M_AttemptAllowed(u, q, p) == u \in accounts /\ Present(quiz[q])

\* The foreign keys of an attempt and of its answers, which may lie in any quiz.
AttemptAllowed(u, q, p) ==
    /\ u \in accounts
    /\ Present(quiz[q])
    /\ \A x \in p.given :
         Present(question[x.answer.question]) /\ Present(question[x.answer.of])

\* One statement, in a transaction with the answers it nests.
InsertAttempt(r) ==
    LET u == req[r].by
        q == req[r].quiz
        p == req[r].paper
    IN  /\ req[r].pc = "insertAttempt"
        /\ \/ /\ AttemptAllowed(u, q, p)
              /\ \E a \in Attempts :
                   /\ attempt[a].status = "unused"
                   /\ attempt' = [attempt EXCEPT ![a] = Scored(u, q, p)]
                   /\ paper' = [paper EXCEPT ![a] = p]
           \/ /\ ~AttemptAllowed(u, q, p)
              /\ UNCHANGED <<attempt, paper>>
        /\ Go(r, Idle)
        /\ UNCHANGED <<accounts, lesson, quiz, question>>

-----------------------------------------------------------------------------
\* A statement fails or the process stops.
Abort(r) ==
    /\ req[r].pc # "idle"
    /\ Go(r, Idle)
    /\ UNCHANGED rows

\* A lesson is deleted, by itself or with its course.
DeleteLesson(l) ==
    /\ Present(lesson[l])
    /\ Erase({l}, {}, {}, {})
    /\ UNCHANGED req

\* An account is deleted, with its courses and their lessons.
DeleteUser(u) ==
    /\ u \in accounts
    /\ Erase({l \in Lessons : Present(lesson[l]) /\ lesson[l].teacher = u}, {}, {}, {u})
    /\ UNCHANGED req

QuizzesController(r) ==
    \/ \E u \in Users, l \in Lessons : ReadLesson(r, u, l)
    \/ InsertQuiz(r)
    \/ \E u \in Users, q \in Quizzes, pc \in PCs : ReadQuiz(r, u, q, pc)
    \/ SetPassingScore(r)
    \/ DeleteQuiz(r)
    \/ \E u \in Users, q \in Quizzes, given \in Papers : ReadForScore(r, u, q, given)
    \/ InsertAttempt(r)

Next ==
    \/ \E r \in Requests : QuizzesController(r) \/ Abort(r)
    \/ \E k \in Questions, q \in Quizzes : AddQuestion(k, q)
    \/ \E k \in Questions : DeleteQuestion(k)
    \/ \E l \in Lessons : DeleteLesson(l)
    \/ \E u \in Users : DeleteUser(u)

Spec == Init /\ [][Next]_vars

-----------------------------------------------------------------------------
TypeOK ==
    /\ accounts \subseteq Users
    /\ lesson \in [Lessons -> LessonRow]
    /\ quiz \in [Quizzes -> QuizRow]
    /\ question \in [Questions -> QuestionRow]
    /\ attempt \in [Attempts -> AttemptRow]
    /\ req \in [Requests -> RequestType]
    /\ paper \in [Attempts -> PaperType]

\* Whatever is deleted between the reads and the write of a handler, no row is
\* left without the rows it refers to; an answer refers to a question and to an
\* option, which may be those of different quizzes.
NoOrphans ==
    /\ \A q \in Quizzes : Present(quiz[q]) => Present(lesson[quiz[q].lesson])
    /\ \A k \in Questions :
         Present(question[k]) => Present(quiz[question[k].quiz])
    /\ \A a \in Attempts :
         Present(attempt[a]) =>
           /\ Present(quiz[attempt[a].quiz])
           /\ attempt[a].student \in accounts
           /\ \A x \in attempt[a].answers :
                Present(question[x.answer.question]) /\ Present(question[x.answer.of])

\* The questions of p answered right, each one counted once.
AnsweredRight(p) ==
    {k \in p.seen : \E x \in p.given :
                      x.answer = [question |-> k, of |-> k, right |-> TRUE]}

NamesOnce(given) ==
    \A x, y \in given : x.answer.question = y.answer.question => x = y

\* The grade of a submission that answers no question twice is the share of the
\* quiz's questions it answers right, never above the whole; answers to
\* questions of other quizzes or with options of other questions count for
\* nothing.  It does not pass below the passing score it was read with, and
\* fails at or above it only without questions, or when the floating point of
\* a share that equals the passing score comes out below it.  (An answer given
\* twice does count twice.)
GradedFairly ==
    \A a \in Attempts :
        Present(attempt[a]) /\ NamesOnce(paper[a].given) =>
          LET right == Cardinality(AnsweredRight(paper[a]))
              all == Cardinality(paper[a].seen)
              asked == paper[a].bar * all
          IN  /\ attempt[a].correct = right
              /\ attempt[a].correct <= attempt[a].total
              /\ attempt[a].passed =>
                   IF all = 0 THEN paper[a].bar = 0 ELSE 100 * right >= asked
              /\ ~attempt[a].passed =>
                   \/ 100 * right < asked
                   \/ all = 0 /\ paper[a].bar > 0
                   \/ 100 * right = asked /\ FallsShort(right, all)

\* The answer rows of an attempt that count as the tables stand now.
RightRows(a) ==
    {x \in attempt[a].answers :
        /\ question[x.answer.question].quiz = attempt[a].quiz
        /\ x.answer.of = x.answer.question
        /\ x.answer.right}

LostRows(a) == Cardinality(paper[a].given) - Cardinality(attempt[a].answers)

\* A grade stays explained by the answers kept with it, although questions are
\* added and deleted before and after it is written: the right answers that are
\* left are all in it, and what it counts beyond them has been deleted since.
ScoreExplained ==
    \A a \in Attempts :
        Present(attempt[a]) =>
          LET left == Cardinality(RightRows(a))
          IN  left <= attempt[a].correct /\ attempt[a].correct <= left + LostRows(a)

\* An attempt, once written, keeps its grade, and goes only with its quiz or
\* its student: editing the questions of a quiz never costs anyone an attempt.
AttemptsOutliveQuestions ==
    [][\A a \in Attempts : Present(attempt[a]) =>
        \/ /\ Present(attempt'[a])
           /\ attempt'[a].correct = attempt[a].correct
           /\ attempt'[a].total = attempt[a].total
           /\ attempt'[a].passed = attempt[a].passed
        \/ ~Present(quiz'[attempt[a].quiz])
        \/ attempt[a].student \notin accounts']_vars

\* The test of the caller, made when the lesson or the quiz was read, still
\* holds of the lesson when the write reaches the quiz.
OnlyEditorsEditQuiz ==
    [][\A r \in Requests, q \in Quizzes :
        req'[r] # req[r] /\ quiz'[q] # quiz[q] =>
          LET l == IF Present(quiz[q]) THEN quiz[q].lesson ELSE quiz'[q].lesson
          IN  lesson[l].teacher = req[r].by \/ req[r].by \in Admins]_vars
=============================================================================

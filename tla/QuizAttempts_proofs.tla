------------------------- MODULE QuizAttempts_proofs -------------------------
(* Proofs about QuizAttempts, for every value of its constants. *)
EXTENDS QuizAttempts, FiniteSetTheorems, TLAPS

-----------------------------------------------------------------------------
(* Types, with what a slot carries, and the references between the tables. *)

SlotOK(q) ==
    /\ q.pc # "idle" => q.by \in Users
    /\ q.pc = "insertQuiz" => q.lesson \in Lessons
    /\ q.pc \in {"setScore", "dropQuiz", "insertAttempt"} => q.quiz \in Quizzes

RowsTyped ==
    /\ accounts \subseteq Users
    /\ lesson \in [Lessons -> LessonRow]
    /\ quiz \in [Quizzes -> QuizRow]
    /\ question \in [Questions -> QuestionRow]
    /\ attempt \in [Attempts -> AttemptRow]
    /\ paper \in [Attempts -> PaperType]

SlotsTyped ==
    /\ req \in [Requests -> RequestType]
    /\ \A r \in Requests : SlotOK(req[r])

QuizLinked(q) ==
    Present(quiz[q]) => quiz[q].lesson \in Lessons /\ Present(lesson[quiz[q].lesson])

QuestionLinked(k) ==
    IF Present(question[k])
    THEN question[k].quiz \in Quizzes /\ Present(quiz[question[k].quiz])
    ELSE question[k].quiz = None

AttemptLinked(a) ==
    Present(attempt[a]) =>
        /\ attempt[a].quiz \in Quizzes /\ Present(quiz[attempt[a].quiz])
        /\ attempt[a].student \in accounts
        /\ \A x \in attempt[a].answers :
             Present(question[x.answer.question]) /\ Present(question[x.answer.of])

Linked ==
    /\ \A q \in Quizzes : QuizLinked(q)
    /\ \A k \in Questions : QuestionLinked(k)
    /\ \A a \in Attempts : AttemptLinked(a)

(* What was read for scoring stays true of the questions that are left: a  *)
(* question that was seen can only go, and one that was named and not seen *)
(* can never come to be in the quiz.                                       *)

Faithful(p, q) ==
    /\ \A k \in p.seen : /\ question[k].status # "unused"
                         /\ Present(question[k]) => question[k].quiz = q
    /\ \A x \in p.given : /\ question[x.answer.question].status # "unused"
                          /\ question[x.answer.question].quiz = q =>
                               x.answer.question \in p.seen

\* A grade is that of its paper, whose answers are those of the attempt and the
\* ones deleted since.
Graded(a) ==
    /\ attempt[a].correct = CorrectCount(paper[a])
    /\ attempt[a].total = Cardinality(paper[a].seen)
    /\ attempt[a].passed = Passes(CorrectCount(paper[a]), Cardinality(paper[a].seen),
                                  paper[a].bar)
    /\ attempt[a].answers \subseteq paper[a].given

PapersKept ==
    /\ \A r \in Requests :
         req[r].pc = "insertAttempt" => Faithful(req[r].paper, req[r].quiz)
    /\ \A a \in Attempts :
         Present(attempt[a]) => Faithful(paper[a], attempt[a].quiz) /\ Graded(a)

(* The test of the caller, kept for as long as there is something to edit. *)

EditorOf(u, l) == lesson[l].teacher = u \/ u \in Admins

EditorKept(r) ==
    /\ req[r].pc = "insertQuiz" => EditorOf(req[r].by, req[r].lesson)
    /\ req[r].pc \in {"setScore", "dropQuiz"} =>
         /\ quiz[req[r].quiz].status # "unused"
         /\ Present(quiz[req[r].quiz]) =>
              EditorOf(req[r].by, quiz[req[r].quiz].lesson)

EditorsKept == \A r \in Requests : EditorKept(r)

IInv == RowsTyped /\ SlotsTyped /\ Linked /\ PapersKept /\ EditorsKept

-----------------------------------------------------------------------------
(* Values. *)

LEMMA SomeScore == APassingScore \in PassingScores
  BY QuizAssumption DEF APassingScore

LEMMA EmptyPaper == NoPaper \in PaperType
<1>1. {} \in Papers
  BY FS_EmptySet, QuizAssumption DEF Papers
<1> QED BY <1>1, SomeScore DEF NoPaper, PaperType

LEMMA IdleSlot == Idle \in RequestType /\ SlotOK(Idle) /\ Idle.pc = "idle"
  BY EmptyPaper DEF Idle, RequestType, PCs, SlotOK

LEMMA EmptyRows ==
  ASSUME NEW status \in Statuses
  PROVE  /\ NoQuiz(status) \in QuizRow /\ NoQuiz(status).status = status
         /\ NoQuestion(status) \in QuestionRow
         /\ NoQuestion(status).status = status /\ NoQuestion(status).quiz = None
         /\ NoAttempt(status) \in AttemptRow /\ NoAttempt(status).status = status
  BY SomeScore DEF NoQuiz, NoQuestion, NoAttempt, QuizRow, QuestionRow, AttemptRow

LEMMA StatusNames ==
    /\ {"unused", "present", "gone"} = Statuses
    /\ "unused" # "present" /\ "present" # "gone" /\ "unused" # "gone"
  BY DEF Statuses

LEMMA PapersFinite ==
  ASSUME NEW p \in PaperType
  PROVE  /\ IsFiniteSet(p.given) /\ IsFiniteSet(p.seen)
         /\ p.given \subseteq AnswerRow /\ p.seen \subseteq Questions
         /\ p.bar \in Nat
  BY FS_Subset, QuizAssumption DEF PaperType, Papers

LEMMA GradeType ==
  ASSUME NEW p \in PaperType
  PROVE  /\ CorrectCount(p) \in Nat
         /\ Cardinality(p.seen) \in Nat
         /\ Passes(CorrectCount(p), Cardinality(p.seen), p.bar) \in BOOLEAN
<1>1. {x \in p.given : CountsAsRight(p.seen, x.answer)} \in SUBSET p.given
  OBVIOUS
<1>2. CorrectCount(p) \in Nat
  BY <1>1, PapersFinite, FS_Subset, FS_CardinalityType DEF CorrectCount
<1>3. Cardinality(p.seen) \in Nat
  BY PapersFinite, FS_CardinalityType
<1>4. \A c, n, b \in Nat : Passes(c, n, b) \in BOOLEAN
  <2> SUFFICES ASSUME NEW c \in Nat, NEW n \in Nat, NEW b \in Nat
               PROVE  Passes(c, n, b) \in BOOLEAN
    OBVIOUS
  <2>1. /\ (b = 0) \in BOOLEAN
        /\ (100 * c > b * n \/ (100 * c = b * n /\ ~FallsShort(c, n))) \in BOOLEAN
    OBVIOUS
  <2> QED BY <2>1 DEF Passes
<1> QED BY <1>2, <1>3, <1>4, PapersFinite

LEMMA ScoredType ==
  ASSUME NEW u \in Users, NEW q \in Quizzes, NEW p \in PaperType
  PROVE  Scored(u, q, p) \in AttemptRow
<1>1. p.given \subseteq AnswerRow
  BY PapersFinite
<1> QED BY <1>1, GradeType, StatusNames DEF Scored, AttemptRow

\* A step that puts a well-formed record into one slot.
LEMMA SlotStep ==
  ASSUME SlotsTyped, NEW r \in Requests, NEW q \in RequestType, SlotOK(q), Go(r, q)
  PROVE  /\ SlotsTyped'
         /\ req'[r] = q
         /\ \A s \in Requests : s # r => req'[s] = req[s]
  BY DEF SlotsTyped, Go, SlotOK

-----------------------------------------------------------------------------
(* What a step leaves true of the questions and the quizzes. *)

QuestionsKept ==
    \A k \in Questions :
        question[k].status # "unused" =>
            question'[k] = question[k] \/ question'[k] = NoQuestion("gone")

QuizzesKept ==
    \A q \in Quizzes :
        quiz[q].status # "unused" =>
            \/ quiz'[q] = NoQuiz("gone")
            \/ quiz'[q].status = quiz[q].status /\ quiz'[q].lesson = quiz[q].lesson

TeachersKept == \A l \in Lessons : lesson'[l].teacher = lesson[l].teacher

AttemptKept(a) ==
    Present(attempt'[a]) =>
        /\ Present(attempt[a]) /\ paper'[a] = paper[a]
        /\ attempt'[a].quiz = attempt[a].quiz
        /\ attempt'[a].student = attempt[a].student
        /\ attempt'[a].correct = attempt[a].correct
        /\ attempt'[a].total = attempt[a].total
        /\ attempt'[a].passed = attempt[a].passed
        /\ attempt'[a].answers \subseteq attempt[a].answers

RowsKept ==
    QuestionsKept /\ QuizzesKept /\ TeachersKept /\ \A a \in Attempts : AttemptKept(a)

LEMMA FaithfulStep ==
  ASSUME QuestionsKept, NEW p \in PaperType, NEW q \in Quizzes, Faithful(p, q),
         NEW p2, NEW q2, p2 = p, q2 = q
  PROVE  /\ \A k \in p2.seen : /\ question'[k].status # "unused"
                               /\ Present(question'[k]) => question'[k].quiz = q2
         /\ \A x \in p2.given : /\ question'[x.answer.question].status # "unused"
                                /\ question'[x.answer.question].quiz = q2 =>
                                     x.answer.question \in p2.seen
<1>1. /\ NoQuestion("gone").status = "gone" /\ NoQuestion("gone").quiz = None
      /\ q # None
  BY QuizAssumption DEF NoQuestion
<1>2. p.seen \subseteq Questions /\ \A x \in p.given : x.answer.question \in Questions
  BY PapersFinite DEF AnswerRow, Answer
<1> QED BY <1>1, <1>2 DEF Faithful, QuestionsKept, Present

LEMMA PapersFrame ==
  ASSUME IInv, QuestionsKept, \A a \in Attempts : AttemptKept(a),
         \A r \in Requests : req'[r] = req[r] \/ req'[r].pc # "insertAttempt"
  PROVE  PapersKept'
<1> USE DEF IInv
<1>1. ASSUME NEW r \in Requests, req'[r].pc = "insertAttempt"
      PROVE  Faithful(req[r].paper, req[r].quiz)'
  <2>1. /\ req'[r] = req[r] /\ Faithful(req[r].paper, req[r].quiz)
        /\ req[r].paper \in PaperType /\ req[r].quiz \in Quizzes
    BY <1>1 DEF PapersKept, SlotsTyped, SlotOK, RequestType
  <2>2. req'[r].paper = req[r].paper /\ req'[r].quiz = req[r].quiz
    BY <2>1
  <2> QED BY <2>1, <2>2, FaithfulStep DEF Faithful
<1>2. ASSUME NEW a \in Attempts, Present(attempt[a])'
      PROVE  (Faithful(paper[a], attempt[a].quiz) /\ Graded(a))'
  <2>1. /\ Present(attempt[a]) /\ Faithful(paper[a], attempt[a].quiz)
        /\ Graded(a) /\ attempt[a].quiz \in Quizzes /\ paper[a] \in PaperType
    BY <1>2 DEF AttemptKept, PapersKept, Linked, AttemptLinked, RowsTyped, Present
  <2>2. paper'[a] = paper[a] /\ attempt'[a].quiz = attempt[a].quiz
    BY <1>2 DEF AttemptKept, Present
  <2>3. Faithful(paper[a], attempt[a].quiz)'
    BY <2>1, <2>2, FaithfulStep DEF Faithful
  <2>4. Graded(a)'
    BY <1>2, <2>1, <2>2 DEF Graded, AttemptKept, Present, CorrectCount
  <2> QED BY <2>3, <2>4
<1> QED BY <1>1, <1>2 DEF PapersKept

LEMMA EditorsFrame ==
  ASSUME IInv, QuizzesKept, TeachersKept,
         \A r \in Requests :
             req'[r] = req[r] \/ req'[r].pc \notin {"insertQuiz", "setScore", "dropQuiz"}
  PROVE  EditorsKept'
<1> USE DEF IInv
<1>1. ASSUME NEW r \in Requests, req'[r].pc = "insertQuiz"
      PROVE  EditorOf(req[r].by, req[r].lesson)'
  <2>1. /\ req'[r] = req[r] /\ EditorOf(req[r].by, req[r].lesson)
        /\ req[r].lesson \in Lessons
    BY <1>1 DEF EditorsKept, EditorKept, SlotsTyped, SlotOK
  <2> QED BY <2>1 DEF EditorOf, TeachersKept
<1>2. ASSUME NEW r \in Requests, req'[r].pc \in {"setScore", "dropQuiz"}
      PROVE  /\ quiz'[req'[r].quiz].status # "unused"
             /\ Present(quiz'[req'[r].quiz]) =>
                  EditorOf(req[r].by, quiz[req[r].quiz].lesson)'
  <2> DEFINE q == req[r].quiz
  <2>1. req'[r] = req[r] /\ q \in Quizzes /\ quiz[q].status # "unused"
    BY <1>2 DEF EditorsKept, EditorKept, SlotsTyped, SlotOK
  <2>2. NoQuiz("gone").status = "gone"
    BY DEF NoQuiz
  <2>3. quiz'[q].status # "unused"
    BY <2>1, <2>2 DEF QuizzesKept
  <2>4. ASSUME Present(quiz'[q]) PROVE EditorOf(req[r].by, quiz[q].lesson)'
    <3>1. Present(quiz[q]) /\ quiz'[q].lesson = quiz[q].lesson
      BY <2>1, <2>2, <2>4 DEF QuizzesKept, Present
    <3>2. quiz[q].lesson \in Lessons /\ EditorOf(req[r].by, quiz[q].lesson)
      BY <1>2, <2>1, <3>1 DEF Linked, QuizLinked, EditorsKept, EditorKept
    <3> QED BY <2>1, <3>1, <3>2 DEF EditorOf, TeachersKept
  <2> QED BY <2>1, <2>3, <2>4
<1> QED BY <1>1, <1>2 DEF EditorsKept, EditorKept, Present

\* A step that keeps the rows, and whose slots stay or have done.
LEMMA Frame ==
  ASSUME IInv, RowsTyped', SlotsTyped', Linked', RowsKept,
         \A r \in Requests : req'[r] = req[r] \/ req'[r].pc = "idle"
  PROVE  IInv'
<1>1. PapersKept'
  BY PapersFrame DEF RowsKept
<1>2. EditorsKept'
  BY EditorsFrame DEF RowsKept
<1> QED BY <1>1, <1>2 DEF IInv

\* Reading changes no row.
LEMMA RowsStay ==
  ASSUME IInv, UNCHANGED rows
  PROVE  RowsTyped' /\ Linked' /\ RowsKept
  BY DEF IInv, rows, RowsTyped, Linked, QuizLinked, QuestionLinked, AttemptLinked,
         RowsKept, QuestionsKept, QuizzesKept, TeachersKept, AttemptKept, Present

\* Deleting, with what cascades, leaves no orphan and changes nothing else.
LEMMA EraseStep ==
  ASSUME IInv, NEW L \in SUBSET Lessons, NEW Q \in SUBSET Quizzes,
         NEW K \in SUBSET Questions, NEW U \in SUBSET Users, Erase(L, Q, K, U)
  PROVE  RowsTyped' /\ Linked' /\ RowsKept
<1> DEFINE lostQ == Q \union {q \in Quizzes : quiz[q].lesson \in L}
           lostK == K \union {k \in Questions : question[k].quiz \in lostQ}
<1> USE DEF IInv
<1>1. /\ accounts' = accounts \ U
      /\ \A l \in Lessons : lesson'[l] = IF l \in L THEN [lesson[l] EXCEPT !.status = "gone"]
                                          ELSE lesson[l]
      /\ \A q \in Quizzes : quiz'[q] = IF q \in lostQ THEN NoQuiz("gone") ELSE quiz[q]
      /\ \A k \in Questions : question'[k] = IF k \in lostK THEN NoQuestion("gone")
                                              ELSE question[k]
      /\ \A a \in Attempts : attempt'[a] = LeftOf(attempt[a], lostQ, lostK, U)
      /\ \A a \in Attempts : paper'[a] = IF attempt'[a].status = "gone" THEN NoPaper
                                          ELSE paper[a]
  BY DEF Erase
<1>2. /\ DOMAIN lesson' = Lessons /\ DOMAIN quiz' = Quizzes
      /\ DOMAIN question' = Questions /\ DOMAIN attempt' = Attempts
      /\ DOMAIN paper' = Attempts
      /\ lesson' = [l \in Lessons |-> lesson'[l]] /\ quiz' = [q \in Quizzes |-> quiz'[q]]
      /\ question' = [k \in Questions |-> question'[k]]
      /\ attempt' = [a \in Attempts |-> attempt'[a]]
      /\ paper' = [a \in Attempts |-> paper'[a]]
  BY DEF Erase
<1>3. ASSUME NEW l \in Lessons
      PROVE  /\ lesson'[l] \in LessonRow
             /\ lesson'[l].teacher = lesson[l].teacher
             /\ Present(lesson'[l]) <=> Present(lesson[l]) /\ l \notin L
  <2>1. lesson[l] \in LessonRow
    BY DEF RowsTyped
  <2> QED BY <1>1, <2>1, StatusNames DEF LessonRow, Present
<1>4. ASSUME NEW q \in Quizzes
      PROVE  /\ quiz'[q] \in QuizRow
             /\ Present(quiz'[q]) <=> Present(quiz[q]) /\ q \notin lostQ
  <2>1. quiz[q] \in QuizRow
    BY DEF RowsTyped
  <2> QED BY <1>1, <2>1, StatusNames, EmptyRows DEF Present
<1>5. ASSUME NEW k \in Questions
      PROVE  /\ question'[k] \in QuestionRow
             /\ Present(question'[k]) <=> Present(question[k]) /\ k \notin lostK
  <2>1. question[k] \in QuestionRow
    BY DEF RowsTyped
  <2> QED BY <1>1, <2>1, StatusNames, EmptyRows DEF Present
<1>6. ASSUME NEW a \in Attempts
      PROVE  /\ attempt'[a] \in AttemptRow /\ paper'[a] \in PaperType
             /\ AttemptKept(a)
             /\ Present(attempt'[a]) =>
                  /\ attempt[a].quiz \notin lostQ /\ attempt[a].student \notin U
                  /\ \A x \in attempt'[a].answers : Keeps(lostK, x)
  <2>1. attempt[a] \in AttemptRow /\ paper[a] \in PaperType
    BY DEF RowsTyped
  <2>2. CASE attempt[a].quiz \in lostQ \/ attempt[a].student \in U
    <3>1. attempt'[a] = NoAttempt("gone")
      BY <1>1, <2>2 DEF LeftOf
    <3> QED BY <1>1, <2>1, <3>1, StatusNames, EmptyRows, EmptyPaper DEF AttemptKept, Present
  <2>3. CASE ~(attempt[a].quiz \in lostQ \/ attempt[a].student \in U)
    <3>1. attempt'[a] = [attempt[a] EXCEPT !.answers = {x \in attempt[a].answers : Keeps(lostK, x)}]
      BY <1>1, <2>3 DEF LeftOf
    <3>2. {x \in attempt[a].answers : Keeps(lostK, x)} \in SUBSET AnswerRow
      BY <2>1 DEF AttemptRow
    <3>3. /\ attempt'[a] \in AttemptRow
          /\ attempt'[a].status = attempt[a].status
          /\ attempt'[a].quiz = attempt[a].quiz
          /\ attempt'[a].student = attempt[a].student
          /\ attempt'[a].correct = attempt[a].correct
          /\ attempt'[a].total = attempt[a].total
          /\ attempt'[a].passed = attempt[a].passed
          /\ attempt'[a].answers = {x \in attempt[a].answers : Keeps(lostK, x)}
      BY <2>1, <3>1, <3>2 DEF AttemptRow
    <3>4. paper'[a] \in PaperType /\ (Present(attempt'[a]) => paper'[a] = paper[a])
      BY <1>1, <2>1, EmptyPaper, StatusNames DEF Present
    <3> QED BY <2>3, <3>3, <3>4 DEF AttemptKept, Present
  <2> QED BY <2>2, <2>3
<1>7. RowsTyped'
  BY <1>1, <1>2, <1>3, <1>4, <1>5, <1>6 DEF RowsTyped
<1>8. \A q \in Quizzes : QuizLinked(q)'
  BY <1>1, <1>3, <1>4 DEF Linked, QuizLinked, Present
<1>9. \A k \in Questions : QuestionLinked(k)'
  <2>1. \A k \in Questions : k \in lostK => question'[k].quiz = None
    BY <1>1, EmptyRows, StatusNames
  <2>2. \A k \in Questions : k \notin lostK => question'[k] = question[k]
    BY <1>1
  <2> QED BY <1>4, <1>5, <2>1, <2>2 DEF Linked, QuestionLinked, Present
<1>10. ASSUME NEW a \in Attempts, Present(attempt[a])' PROVE AttemptLinked(a)'
  <2>1. /\ Present(attempt[a]) /\ AttemptLinked(a)
        /\ attempt'[a].quiz = attempt[a].quiz
        /\ attempt'[a].student = attempt[a].student
        /\ attempt'[a].answers \subseteq attempt[a].answers
        /\ attempt[a].answers \subseteq AnswerRow
    BY <1>6, <1>10 DEF AttemptKept, Present, Linked, RowsTyped, AttemptRow
  <2>2. ASSUME NEW x \in attempt'[a].answers
        PROVE  Present(question'[x.answer.question]) /\ Present(question'[x.answer.of])
    <3>1. x.answer.question \in Questions /\ x.answer.of \in Questions
      BY <2>1 DEF AnswerRow, Answer
    <3>2. Keeps(lostK, x)
      BY <1>6, <1>10 DEF Present
    <3>3. Present(question[x.answer.question]) /\ Present(question[x.answer.of])
      BY <2>1 DEF AttemptLinked
    <3> QED BY <1>5, <3>1, <3>2, <3>3 DEF Keeps
  <2>3. /\ attempt[a].quiz \in Quizzes /\ Present(quiz[attempt[a].quiz])
        /\ attempt[a].student \in accounts
    BY <2>1 DEF AttemptLinked
  <2>4. Present(quiz'[attempt[a].quiz]) /\ attempt[a].student \in accounts'
    BY <1>1, <1>4, <1>6, <1>10, <2>3 DEF Present
  <2> QED BY <2>1, <2>2, <2>3, <2>4 DEF AttemptLinked, Present
<1>11. Linked'
  BY <1>8, <1>9, <1>10 DEF Linked, AttemptLinked
<1>12. QuestionsKept /\ QuizzesKept /\ TeachersKept
  BY <1>1, <1>3 DEF QuestionsKept, QuizzesKept, TeachersKept
<1> QED BY <1>6, <1>7, <1>11, <1>12 DEF RowsKept

-----------------------------------------------------------------------------
LEMMA InitInv == Init => IInv
<1> SUFFICES ASSUME Init PROVE IInv
  OBVIOUS
<1>1. RowsTyped
  BY EmptyRows, EmptyPaper, StatusNames DEF Init, RowsTyped, LessonRow
<1>2. /\ \A q \in Quizzes : ~Present(quiz[q])
      /\ \A k \in Questions : ~Present(question[k]) /\ question[k].quiz = None
      /\ \A a \in Attempts : ~Present(attempt[a])
  BY EmptyRows, StatusNames DEF Init, Present
<1>3. Linked
  BY <1>2 DEF Linked, QuizLinked, QuestionLinked, AttemptLinked
<1>4. SlotsTyped /\ \A r \in Requests : req[r].pc = "idle"
  BY IdleSlot DEF Init, SlotsTyped
<1> QED BY <1>1, <1>2, <1>3, <1>4 DEF IInv, PapersKept, EditorsKept, EditorKept

LEMMA QuizzesStep ==
  ASSUME IInv, NEW r \in Requests, QuizzesController(r)
  PROVE  IInv'
<1> USE DEF IInv
<1>1. ASSUME NEW u \in Users, NEW l \in Lessons, ReadLesson(r, u, l) PROVE IInv'
  <2> DEFINE q == [Idle EXCEPT !.pc = "insertQuiz", !.by = u, !.lesson = l]
  <2>1. /\ q \in RequestType /\ SlotOK(q)
        /\ q.pc = "insertQuiz" /\ q.by = u /\ q.lesson = l
    BY EmptyPaper DEF Idle, RequestType, PCs, SlotOK
  <2>2. SlotsTyped' /\ req'[r] = q /\ \A s \in Requests : s # r => req'[s] = req[s]
    BY <1>1, <2>1, SlotStep DEF ReadLesson
  <2>3. RowsTyped' /\ Linked' /\ RowsKept
    BY <1>1, RowsStay DEF ReadLesson
  <2>4. PapersKept'
    BY <2>1, <2>2, <2>3, PapersFrame DEF RowsKept
  <2>5. EditorOf(u, l)
    BY <1>1 DEF ReadLesson, MayEdit, EditorOf
  <2>6. EditorsKept'
    <3>1. EditorKept(r)'
      BY <1>1, <2>1, <2>2, <2>5 DEF ReadLesson, rows, EditorKept, EditorOf
    <3>2. ASSUME NEW o \in Requests, o # r PROVE EditorKept(o)'
      BY <1>1, <2>2, <3>2 DEF ReadLesson, rows, EditorsKept, EditorKept, EditorOf, Present
    <3> QED BY <3>1, <3>2 DEF EditorsKept
  <2> QED BY <2>2, <2>3, <2>4, <2>6
<1>2. CASE InsertQuiz(r)
  <2>1. req[r].lesson \in Lessons /\ UNCHANGED <<accounts, lesson, question, attempt, paper>>
    BY <1>2 DEF InsertQuiz, SlotsTyped, SlotOK
  <2>2. SlotsTyped' /\ \A s \in Requests : req'[s] = req[s] \/ req'[s].pc = "idle"
    BY <1>2, IdleSlot, SlotStep DEF InsertQuiz
  <2>3. CASE UNCHANGED quiz
    BY <2>1, <2>2, <2>3, RowsStay, Frame DEF rows
  <2>4. ASSUME NEW q \in Quizzes, NEW b \in PassingScores,
               Present(lesson[req[r].lesson]), quiz[q].status = "unused",
               quiz' = [quiz EXCEPT ![q] = [status |-> "present",
                          lesson |-> req[r].lesson, passingScore |-> b]]
        PROVE  IInv'
    <3>1. /\ quiz' \in [Quizzes -> QuizRow]
          /\ Present(quiz'[q]) /\ quiz'[q].lesson = req[r].lesson
          /\ \A o \in Quizzes : o # q => quiz'[o] = quiz[o]
      BY <2>1, <2>4, StatusNames DEF RowsTyped, QuizRow, Present
    <3>2. RowsTyped'
      BY <2>1, <3>1 DEF RowsTyped
    <3>3. \A o \in Quizzes : Present(quiz[o]) => Present(quiz'[o])
      BY <3>1
    <3>4. \A o \in Quizzes : QuizLinked(o)'
      BY <2>1, <2>4, <3>1 DEF Linked, QuizLinked, Present
    <3>5. \A k \in Questions : QuestionLinked(k)'
      BY <2>1, <3>3 DEF Linked, QuestionLinked, Present
    <3>6. \A a \in Attempts : AttemptLinked(a)'
      BY <2>1, <3>3 DEF Linked, AttemptLinked, Present
    <3>7. RowsKept
      BY <2>1, <2>4, <3>1 DEF RowsKept, QuestionsKept, QuizzesKept, TeachersKept, AttemptKept
    <3> QED BY <2>2, <3>2, <3>4, <3>5, <3>6, <3>7, Frame DEF Linked
  <2> QED BY <1>2, <2>3, <2>4 DEF InsertQuiz
<1>3. ASSUME NEW u \in Users, NEW q \in Quizzes, NEW pc \in PCs, ReadQuiz(r, u, q, pc)
      PROVE  IInv'
  <2> DEFINE s == [Idle EXCEPT !.pc = pc, !.by = u, !.quiz = q]
  <2>1. /\ s \in RequestType /\ SlotOK(s)
        /\ s.pc = pc /\ s.by = u /\ s.quiz = q /\ pc \in {"setScore", "dropQuiz"}
    BY <1>3, EmptyPaper DEF ReadQuiz, Idle, RequestType, PCs, SlotOK
  <2>2. SlotsTyped' /\ req'[r] = s /\ \A o \in Requests : o # r => req'[o] = req[o]
    BY <1>3, <2>1, SlotStep DEF ReadQuiz
  <2>3. RowsTyped' /\ Linked' /\ RowsKept
    BY <1>3, RowsStay DEF ReadQuiz
  <2>4. PapersKept'
    BY <2>1, <2>2, <2>3, PapersFrame DEF RowsKept
  <2>5. EditorOf(u, quiz[q].lesson) /\ quiz[q].status # "unused"
    BY <1>3 DEF ReadQuiz, MayEdit, EditorOf, Present
  <2>6. EditorsKept'
    <3>1. EditorKept(r)'
      BY <1>3, <2>1, <2>2, <2>5 DEF ReadQuiz, rows, EditorKept, EditorOf
    <3>2. ASSUME NEW o \in Requests, o # r PROVE EditorKept(o)'
      BY <1>3, <2>2, <3>2 DEF ReadQuiz, rows, EditorsKept, EditorKept, EditorOf, Present
    <3> QED BY <3>1, <3>2 DEF EditorsKept
  <2> QED BY <2>2, <2>3, <2>4, <2>6
<1>4. CASE SetPassingScore(r)
  <2> DEFINE q == req[r].quiz
  <2>1. q \in Quizzes /\ UNCHANGED <<accounts, lesson, question, attempt, paper>>
    BY <1>4 DEF SetPassingScore, SlotsTyped, SlotOK
  <2>2. SlotsTyped' /\ \A s \in Requests : req'[s] = req[s] \/ req'[s].pc = "idle"
    BY <1>4, IdleSlot, SlotStep DEF SetPassingScore
  <2>3. CASE UNCHANGED quiz
    BY <2>1, <2>2, <2>3, RowsStay, Frame DEF rows
  <2>4. ASSUME NEW b \in PassingScores, quiz' = [quiz EXCEPT ![q].passingScore = b]
        PROVE  IInv'
    <3>1. [quiz[q] EXCEPT !.passingScore = b] \in QuizRow
      BY <2>1 DEF RowsTyped, QuizRow
    <3>2. quiz' \in [Quizzes -> QuizRow]
      BY <2>1, <2>4, <3>1 DEF RowsTyped
    <3>3. \A o \in Quizzes : /\ quiz'[o].status = quiz[o].status
                             /\ quiz'[o].lesson = quiz[o].lesson
      BY <2>1, <2>4 DEF RowsTyped, QuizRow
    <3>4. Linked'
      BY <2>1, <3>3 DEF Linked, QuizLinked, QuestionLinked, AttemptLinked, Present
    <3>5. RowsTyped'
      BY <2>1, <3>2 DEF RowsTyped
    <3>6. RowsKept
      BY <2>1, <3>3 DEF RowsKept, QuestionsKept, QuizzesKept, TeachersKept, AttemptKept
    <3> QED BY <2>2, <3>4, <3>5, <3>6, Frame
  <2> QED BY <1>4, <2>3, <2>4 DEF SetPassingScore
<1>5. CASE DeleteQuiz(r)
  <2>1. {req[r].quiz} \in SUBSET Quizzes
    BY <1>5 DEF DeleteQuiz, SlotsTyped, SlotOK
  <2>2. SlotsTyped' /\ \A s \in Requests : req'[s] = req[s] \/ req'[s].pc = "idle"
    BY <1>5, IdleSlot, SlotStep DEF DeleteQuiz
  <2>3. CASE UNCHANGED rows
    BY <2>2, <2>3, RowsStay, Frame
  <2>4. CASE Erase({}, {req[r].quiz}, {}, {})
    <3>1. RowsTyped' /\ Linked' /\ RowsKept
      BY <2>1, <2>4, EraseStep
    <3> QED BY <2>2, <3>1, Frame
  <2> QED BY <1>5, <2>3, <2>4 DEF DeleteQuiz
<1>6. ASSUME NEW u \in Users, NEW q \in Quizzes, NEW given \in Papers,
             ReadForScore(r, u, q, given)
      PROVE  IInv'
  <2> DEFINE p == [seen |-> QuestionsOf(q), bar |-> quiz[q].passingScore, given |-> given]
             s == [Idle EXCEPT !.pc = "insertAttempt", !.by = u, !.quiz = q, !.paper = p]
  <2>1. p \in PaperType
    BY DEF PaperType, QuestionsOf, RowsTyped, QuizRow
  <2>2. /\ s \in RequestType /\ SlotOK(s)
        /\ s.pc = "insertAttempt" /\ s.quiz = q /\ s.paper = p
    BY <2>1 DEF Idle, RequestType, PCs, SlotOK
  <2>3. SlotsTyped' /\ req'[r] = s /\ \A o \in Requests : o # r => req'[o] = req[o]
    BY <1>6, <2>2, SlotStep DEF ReadForScore
  <2>4. RowsTyped' /\ Linked' /\ RowsKept
    BY <1>6, RowsStay DEF ReadForScore
  <2>5. EditorsKept'
    BY <2>2, <2>3, <2>4, EditorsFrame DEF RowsKept
  <2>6. Faithful(p, q)
    <3>1. \A k \in QuestionsOf(q) : question[k].status # "unused" /\ question[k].quiz = q
      BY DEF QuestionsOf, Present
    <3>2. ASSUME NEW x \in given
          PROVE  /\ question[x.answer.question].status # "unused"
                 /\ question[x.answer.question].quiz = q => x.answer.question \in QuestionsOf(q)
      <4>1. question[x.answer.question].status # "unused" /\ x.answer.question \in Questions
        BY <1>6 DEF ReadForScore, Papers, AnswerRow, Answer
      <4>2. ~Present(question[x.answer.question]) =>
              question[x.answer.question].quiz = None
        BY <4>1 DEF Linked, QuestionLinked
      <4> QED BY <4>1, <4>2, QuizAssumption DEF QuestionsOf, Present
    <3> QED BY <3>1, <3>2 DEF Faithful
  <2>7. PapersKept'
    <3>1. Faithful(req[r].paper, req[r].quiz)'
      BY <1>6, <2>2, <2>3, <2>6 DEF ReadForScore, rows, Faithful, Present
    <3>2. ASSUME NEW o \in Requests, o # r, req'[o].pc = "insertAttempt"
          PROVE  Faithful(req[o].paper, req[o].quiz)'
      BY <1>6, <2>3, <3>2 DEF ReadForScore, rows, PapersKept, Faithful, Present
    <3>3. ASSUME NEW a \in Attempts, Present(attempt[a])'
          PROVE  (Faithful(paper[a], attempt[a].quiz) /\ Graded(a))'
      BY <1>6, <3>3
         DEF ReadForScore, rows, PapersKept, Faithful, Graded, CorrectCount, Present
    <3> QED BY <3>1, <3>2, <3>3 DEF PapersKept
  <2> QED BY <2>3, <2>4, <2>5, <2>7
<1>7. CASE InsertAttempt(r)
  <2> DEFINE u == req[r].by
             q == req[r].quiz
             p == req[r].paper
  <2>1. /\ u \in Users /\ q \in Quizzes /\ p \in PaperType /\ Faithful(p, q)
        /\ UNCHANGED <<accounts, lesson, quiz, question>>
    BY <1>7 DEF InsertAttempt, SlotsTyped, SlotOK, RequestType, PapersKept
  <2>2. SlotsTyped' /\ \A s \in Requests : req'[s] = req[s] \/ req'[s].pc = "idle"
    BY <1>7, IdleSlot, SlotStep DEF InsertAttempt
  <2>3. CASE UNCHANGED <<attempt, paper>>
    BY <2>1, <2>2, <2>3, RowsStay, Frame DEF rows
  <2>4. ASSUME NEW a \in Attempts, AttemptAllowed(u, q, p), attempt[a].status = "unused",
               attempt' = [attempt EXCEPT ![a] = Scored(u, q, p)],
               paper' = [paper EXCEPT ![a] = p]
        PROVE  IInv'
    <3>1. Scored(u, q, p) \in AttemptRow
      BY <2>1, ScoredType
    <3>2. RowsTyped'
      BY <2>1, <2>4, <3>1 DEF RowsTyped
    <3>3. /\ attempt'[a] = Scored(u, q, p) /\ paper'[a] = p
          /\ \A b \in Attempts : b # a => attempt'[b] = attempt[b] /\ paper'[b] = paper[b]
      BY <2>4 DEF RowsTyped
    <3>4. Linked'
      <4>1. AttemptLinked(a)'
        BY <2>1, <2>4, <3>3 DEF AttemptLinked, AttemptAllowed, Scored, Present
      <4>2. ASSUME NEW b \in Attempts, b # a PROVE AttemptLinked(b)'
        BY <2>1, <3>3, <4>2 DEF Linked, AttemptLinked, Present
      <4>3. \A k \in Questions : QuestionLinked(k)'
        BY <2>1 DEF Linked, QuestionLinked, Present
      <4>4. \A o \in Quizzes : QuizLinked(o)'
        BY <2>1 DEF Linked, QuizLinked, Present
      <4> QED BY <4>1, <4>2, <4>3, <4>4 DEF Linked
    <3>5. QuizzesKept /\ TeachersKept
      BY <2>1 DEF QuizzesKept, TeachersKept
    <3>6. EditorsKept'
      BY <2>2, <3>5, EditorsFrame
    <3>7. PapersKept'
      <4>1. ASSUME NEW s \in Requests, req'[s].pc = "insertAttempt"
            PROVE  Faithful(req[s].paper, req[s].quiz)'
        BY <2>1, <2>2, <4>1 DEF PapersKept, Faithful, Present
      <4>2. (Faithful(paper[a], attempt[a].quiz) /\ Graded(a))'
        BY <2>1, <3>3 DEF Scored, Faithful, Graded, Present, CorrectCount
      <4>3. ASSUME NEW b \in Attempts, b # a, Present(attempt[b])'
            PROVE  (Faithful(paper[b], attempt[b].quiz) /\ Graded(b))'
        <5>1. /\ attempt'[b] = attempt[b] /\ paper'[b] = paper[b]
              /\ Faithful(paper[b], attempt[b].quiz) /\ Graded(b)
          BY <3>3, <4>3 DEF PapersKept, Present
        <5>2. Graded(b)'
          BY <5>1 DEF Graded, CorrectCount
        <5>3. Faithful(paper[b], attempt[b].quiz)'
          BY <2>1, <5>1 DEF Faithful, Present
        <5> QED BY <5>2, <5>3
      <4> QED BY <4>1, <4>2, <4>3 DEF PapersKept
    <3> QED BY <2>2, <3>2, <3>4, <3>6, <3>7
  <2> QED BY <1>7, <2>3, <2>4 DEF InsertAttempt
<1> QED BY <1>1, <1>2, <1>3, <1>4, <1>5, <1>6, <1>7 DEF QuizzesController

LEMMA NextInv == IInv /\ [Next]_vars => IInv'
<1> SUFFICES ASSUME IInv, [Next]_vars PROVE IInv'
  OBVIOUS
<1> USE DEF IInv
<1>1. ASSUME NEW r \in Requests, Abort(r) PROVE IInv'
  <2>1. SlotsTyped' /\ \A s \in Requests : req'[s] = req[s] \/ req'[s].pc = "idle"
    BY <1>1, IdleSlot, SlotStep DEF Abort
  <2> QED BY <1>1, <2>1, RowsStay, Frame DEF Abort
<1>2. ASSUME NEW k \in Questions, NEW q \in Quizzes, AddQuestion(k, q) PROVE IInv'
  <2>1. UNCHANGED <<accounts, lesson, quiz, attempt, req, paper>>
    BY <1>2 DEF AddQuestion
  <2>2. /\ question' \in [Questions -> QuestionRow]
        /\ Present(question'[k]) /\ question'[k].quiz = q
        /\ \A j \in Questions : j # k => question'[j] = question[j]
    BY <1>2, StatusNames DEF AddQuestion, RowsTyped, QuestionRow, Present
  <2>3. RowsTyped'
    BY <2>1, <2>2 DEF RowsTyped
  <2>4. Linked'
    <3>1. ASSUME NEW j \in Questions PROVE QuestionLinked(j)'
      BY <1>2, <2>1, <2>2 DEF AddQuestion, Linked, QuestionLinked, Present
    <3>2. \A o \in Quizzes : QuizLinked(o)'
      BY <2>1 DEF Linked, QuizLinked, Present
    <3>3. ASSUME NEW a \in Attempts, Present(attempt[a]) PROVE AttemptLinked(a)'
      <4>1. AttemptLinked(a) /\ attempt[a].answers \subseteq AnswerRow
        BY DEF Linked, RowsTyped, AttemptRow
      <4>2. \A x \in attempt[a].answers :
              x.answer.question \in Questions /\ x.answer.of \in Questions
        BY <4>1 DEF AnswerRow, Answer
      <4>3. \A j \in Questions : Present(question[j]) => Present(question'[j])
        BY <2>2
      <4>4. \A x \in attempt[a].answers :
              Present(question[x.answer.question]) /\ Present(question[x.answer.of])
        BY <3>3, <4>1 DEF AttemptLinked
      <4>5. \A x \in attempt[a].answers :
              Present(question'[x.answer.question]) /\ Present(question'[x.answer.of])
        BY <4>2, <4>3, <4>4
      <4> QED BY <2>1, <3>3, <4>1, <4>5 DEF AttemptLinked, Present
    <3> QED BY <2>1, <3>1, <3>2, <3>3 DEF Linked, AttemptLinked, Present
  <2>5. RowsKept
    BY <1>2, <2>1, <2>2
       DEF AddQuestion, RowsKept, QuestionsKept, QuizzesKept, TeachersKept, AttemptKept
  <2> QED BY <2>1, <2>3, <2>4, <2>5, Frame DEF SlotsTyped
<1>3. ASSUME NEW L \in SUBSET Lessons, NEW K \in SUBSET Questions,
             NEW U \in SUBSET Users, Erase(L, {}, K, U), UNCHANGED req
      PROVE  IInv'
  <2>1. RowsTyped' /\ Linked' /\ RowsKept
    BY <1>3, EraseStep
  <2> QED BY <1>3, <2>1, Frame DEF SlotsTyped
<1>4. ASSUME NEW k \in Questions, DeleteQuestion(k) PROVE IInv'
  BY <1>3, <1>4 DEF DeleteQuestion
<1>5. ASSUME NEW l \in Lessons, DeleteLesson(l) PROVE IInv'
  BY <1>3, <1>5 DEF DeleteLesson
<1>6. ASSUME NEW u \in Users, DeleteUser(u) PROVE IInv'
  BY <1>3, <1>6 DEF DeleteUser
<1>7. CASE UNCHANGED vars
  BY <1>7, RowsStay, Frame DEF vars, rows, SlotsTyped
<1> QED BY <1>1, <1>2, <1>4, <1>5, <1>6, <1>7, QuizzesStep DEF Next

LEMMA Inductive == Spec => []IInv
  BY InitInv, NextInv, PTL DEF Spec

-----------------------------------------------------------------------------
\* Every variable keeps its type, whatever a request finds gone.
THEOREM TypeCorrect == Spec => []TypeOK
<1>1. IInv => TypeOK
  BY DEF IInv, RowsTyped, SlotsTyped, TypeOK
<1> QED BY <1>1, Inductive, PTL

\* No interleaving of handlers and deletions leaves a row without its parents.
THEOREM NeverOrphaned == Spec => []NoOrphans
<1>1. IInv => NoOrphans
  BY DEF IInv, Linked, QuizLinked, QuestionLinked, AttemptLinked, NoOrphans
<1> QED BY <1>1, Inductive, PTL

\* When no question is answered twice, the right answers are as many as the
\* questions answered right.
LEMMA CountsQuestions ==
  ASSUME NEW p \in PaperType, NamesOnce(p.given)
  PROVE  CorrectCount(p) = Cardinality(AnsweredRight(p))
<1> DEFINE S == {x \in p.given : CountsAsRight(p.seen, x.answer)}
           T == AnsweredRight(p)
           f == [x \in S |-> x.answer.question]
<1>1. ASSUME NEW x \in S PROVE f[x] \in T
  <2>1. x.answer = [question |-> x.answer.question, of |-> x.answer.question, right |-> TRUE]
    BY PapersFinite DEF CountsAsRight, AnswerRow, Answer
  <2> QED BY <2>1 DEF CountsAsRight, AnsweredRight
<1>2. ASSUME NEW x \in S, NEW y \in S, f[x] = f[y] PROVE x = y
  BY <1>2 DEF NamesOnce
<1>3. ASSUME NEW k \in T PROVE \E x \in S : f[x] = k
  <2>1. PICK x \in p.given : /\ x.answer = [question |-> k, of |-> k, right |-> TRUE]
                             /\ k \in p.seen
    BY DEF AnsweredRight
  <2>2. x.answer.question = k /\ x.answer.of = k /\ x.answer.right = TRUE
    BY <2>1
  <2> QED BY <2>1, <2>2 DEF CountsAsRight
<1>4. f \in Bijection(S, T)
  BY <1>1, <1>2, <1>3 DEF Bijection, Injection, Surjection, IsInjective
<1>5. IsFiniteSet(S)
  BY PapersFinite, FS_Subset
<1> QED BY <1>4, <1>5, FS_Bijection DEF ExistsBijection, CorrectCount

\* A grade is the share of the questions answered right, and passes if that
\* reaches the passing score, but for the shares that fall short of themselves.
THEOREM GradesFair == Spec => []GradedFairly
<1>1. ASSUME IInv, NEW a \in Attempts, Present(attempt[a]), NamesOnce(paper[a].given)
      PROVE  LET right == Cardinality(AnsweredRight(paper[a]))
                 all == Cardinality(paper[a].seen)
                 asked == paper[a].bar * all
             IN  /\ attempt[a].correct = right
                 /\ attempt[a].correct <= attempt[a].total
                 /\ attempt[a].passed =>
                      IF all = 0 THEN paper[a].bar = 0 ELSE 100 * right >= asked
                 /\ ~attempt[a].passed =>
                      \/ 100 * right < asked
                      \/ all = 0 /\ paper[a].bar > 0
                      \/ 100 * right = asked /\ FallsShort(right, all)
  <2> DEFINE p == paper[a]
  <2>1. p \in PaperType /\ Graded(a)
    BY <1>1 DEF IInv, RowsTyped, PapersKept
  <2>2. CorrectCount(p) = Cardinality(AnsweredRight(p))
    BY <1>1, <2>1, CountsQuestions
  <2>3. AnsweredRight(p) \in SUBSET p.seen
    BY DEF AnsweredRight
  <2>4. Cardinality(AnsweredRight(p)) <= Cardinality(p.seen)
    BY <2>1, <2>3, PapersFinite, FS_Subset
  <2> DEFINE right == Cardinality(AnsweredRight(p))
             all == Cardinality(p.seen)
  <2>5. right \in Nat /\ all \in Nat /\ p.bar \in Nat
    BY <2>1, <2>3, PapersFinite, FS_Subset, FS_CardinalityType
  <2>6. /\ attempt[a].correct = right /\ attempt[a].total = all
        /\ attempt[a].passed = Passes(right, all, p.bar)
    BY <2>1, <2>2 DEF Graded
  <2> HIDE DEF right, all, p
  <2>7. /\ Passes(right, all, p.bar) =>
             IF all = 0 THEN p.bar = 0 ELSE 100 * right >= p.bar * all
        /\ ~Passes(right, all, p.bar) =>
             \/ 100 * right < p.bar * all
             \/ all = 0 /\ p.bar > 0
             \/ 100 * right = p.bar * all /\ FallsShort(right, all)
    <3>1. 100 * right \in Nat /\ p.bar * all \in Nat
      BY <2>5
    <3> QED BY <2>5, <3>1 DEF Passes
  <2> QED BY <2>4, <2>6, <2>7 DEF right, all, p
<1>2. IInv => GradedFairly
  BY <1>1 DEF GradedFairly
<1> QED BY <1>2, Inductive, PTL

\* The answers that are left explain the grade, but for the ones deleted.
THEOREM ScoresExplained == Spec => []ScoreExplained
<1>1. ASSUME IInv, NEW a \in Attempts, Present(attempt[a])
      PROVE  LET left == Cardinality(RightRows(a))
             IN  left <= attempt[a].correct /\ attempt[a].correct <= left + LostRows(a)
  <2> DEFINE p == paper[a]
             C == {x \in p.given : CountsAsRight(p.seen, x.answer)}
             A == attempt[a].answers
             R == RightRows(a)
             D == p.given \ A
  <2>1. /\ p \in PaperType /\ Graded(a) /\ Faithful(p, attempt[a].quiz)
        /\ AttemptLinked(a) /\ A \subseteq p.given /\ p.seen \subseteq Questions
    BY <1>1, PapersFinite DEF IInv, RowsTyped, PapersKept, Linked, Graded
  <2>2. R \in SUBSET C
    BY <2>1 DEF RightRows, Faithful, CountsAsRight
  <2>3. ASSUME NEW x \in C, x \in A PROVE x \in R
    BY <1>1, <2>1, <2>3 DEF RightRows, Faithful, CountsAsRight, AttemptLinked
  <2>4. C \in SUBSET (R \union D) /\ R \intersect D = {}
    BY <2>3 DEF RightRows
  <2>5. IsFiniteSet(p.given) /\ IsFiniteSet(C) /\ IsFiniteSet(R) /\ IsFiniteSet(D)
        /\ IsFiniteSet(A)
    BY <2>1, <2>2, PapersFinite, FS_Subset
  <2>6. Cardinality(D) = Cardinality(p.given) - Cardinality(A)
    <3>1. /\ A \union D = p.given /\ A \intersect D = {}
      BY <2>1
    <3>2. Cardinality(p.given) = Cardinality(A) + Cardinality(D) - Cardinality({})
      BY <2>5, <3>1, FS_Union
    <3> QED BY <2>5, <3>2, FS_EmptySet, FS_CardinalityType
  <2>7. IsFiniteSet(R \union D) /\ Cardinality(R \union D) = Cardinality(R) + Cardinality(D)
    <3>1. Cardinality(R \union D) = Cardinality(R) + Cardinality(D) - Cardinality({})
      BY <2>4, <2>5, FS_Union
    <3>2. IsFiniteSet(R \union D) /\ Cardinality({}) = 0
      BY <2>5, FS_Union, FS_EmptySet
    <3>3. Cardinality(R) \in Nat /\ Cardinality(D) \in Nat
      BY <2>5, FS_CardinalityType
    <3> QED BY <3>1, <3>2, <3>3
  <2>8. Cardinality(R) <= Cardinality(C) /\ Cardinality(C) <= Cardinality(R \union D)
    BY <2>2, <2>4, <2>5, <2>7, FS_Subset
  <2>9. attempt[a].correct = Cardinality(C)
    BY <2>1 DEF Graded, CorrectCount
  <2> QED BY <2>6, <2>7, <2>8, <2>9 DEF LostRows
<1>2. IInv => ScoreExplained
  BY <1>1 DEF ScoreExplained
<1> QED BY <1>2, Inductive, PTL

-----------------------------------------------------------------------------
(* The action properties. *)

LEMMA ErasedAttempts ==
  ASSUME IInv, NEW L \in SUBSET Lessons, NEW Q \in SUBSET Quizzes,
         NEW K \in SUBSET Questions, NEW U \in SUBSET Users, Erase(L, Q, K, U),
         NEW a \in Attempts, Present(attempt[a])
  PROVE  \/ Present(attempt'[a]) /\ AttemptKept(a)
         \/ ~Present(quiz'[attempt[a].quiz])
         \/ attempt[a].student \notin accounts'
<1> DEFINE lostQ == Q \union {q \in Quizzes : quiz[q].lesson \in L}
           lostK == K \union {k \in Questions : question[k].quiz \in lostQ}
<1>1. /\ attempt[a] \in AttemptRow /\ attempt[a].quiz \in Quizzes
  BY DEF IInv, RowsTyped, Linked, AttemptLinked
<1>2. /\ attempt'[a] = LeftOf(attempt[a], lostQ, lostK, U)
      /\ accounts' = accounts \ U
      /\ \A q \in lostQ : quiz'[q] = NoQuiz("gone")
  BY DEF Erase
<1>3. CASE attempt[a].quiz \in lostQ
  BY <1>2, <1>3, EmptyRows, StatusNames DEF Present
<1>4. CASE attempt[a].student \in U
  BY <1>2, <1>4
<1>5. CASE ~(attempt[a].quiz \in lostQ \/ attempt[a].student \in U)
  <2>1. attempt'[a].status = attempt[a].status
    BY <1>1, <1>2, <1>5 DEF LeftOf, AttemptRow
  <2>2. AttemptKept(a)
    BY EraseStep DEF RowsKept
  <2> QED BY <2>1, <2>2 DEF Present
<1> QED BY <1>3, <1>4, <1>5

\* Editing a quiz costs nobody an attempt.
THEOREM AttemptsStay == Spec => AttemptsOutliveQuestions
<1> DEFINE Stays(a) == \/ /\ Present(attempt'[a])
                          /\ attempt'[a].correct = attempt[a].correct
                          /\ attempt'[a].total = attempt[a].total
                          /\ attempt'[a].passed = attempt[a].passed
                       \/ ~Present(quiz'[attempt[a].quiz])
                       \/ attempt[a].student \notin accounts'
<1>1. ASSUME IInv, [Next]_vars, NEW a \in Attempts, Present(attempt[a]) PROVE Stays(a)
  <2>1. CASE attempt'[a] = attempt[a]
    BY <1>1, <2>1
  <2>2. ASSUME NEW L \in SUBSET Lessons, NEW Q \in SUBSET Quizzes,
               NEW K \in SUBSET Questions, NEW U \in SUBSET Users, Erase(L, Q, K, U)
        PROVE  Stays(a)
    BY <1>1, <2>2, ErasedAttempts DEF AttemptKept
  <2>3. ASSUME NEW r \in Requests, DeleteQuiz(r) PROVE Stays(a)
    <3>1. {req[r].quiz} \in SUBSET Quizzes
      BY <1>1, <2>3 DEF DeleteQuiz, IInv, SlotsTyped, SlotOK
    <3> QED BY <2>1, <2>2, <2>3, <3>1 DEF DeleteQuiz, rows
  <2>4. ASSUME \/ \E k \in Questions : DeleteQuestion(k)
               \/ \E l \in Lessons : DeleteLesson(l)
               \/ \E u \in Users : DeleteUser(u)
        PROVE  Stays(a)
    <3>1. CASE \E k \in Questions : DeleteQuestion(k)
      BY <2>2, <3>1 DEF DeleteQuestion
    <3>2. CASE \E l \in Lessons : DeleteLesson(l)
      BY <2>2, <3>2 DEF DeleteLesson
    <3>3. CASE \E u \in Users : DeleteUser(u)
      BY <2>2, <3>3 DEF DeleteUser
    <3> QED BY <2>4, <3>1, <3>2, <3>3
  <2>5. ASSUME NEW r \in Requests, InsertAttempt(r) PROVE Stays(a)
    <3>1. CASE UNCHANGED attempt
      BY <2>1, <3>1
    <3>2. ASSUME NEW b \in Attempts, NEW row, attempt[b].status = "unused",
                 attempt' = [attempt EXCEPT ![b] = row]
          PROVE  Stays(a)
      <4>1. a # b
        BY <1>1, <3>2 DEF Present
      <4> QED BY <2>1, <3>2, <4>1
    <3> QED BY <2>5, <3>1, <3>2 DEF InsertAttempt
  <2>6. ASSUME NEW r \in Requests,
               \/ \E u \in Users, l \in Lessons : ReadLesson(r, u, l)
               \/ InsertQuiz(r)
               \/ \E u \in Users, q \in Quizzes, pc \in PCs : ReadQuiz(r, u, q, pc)
               \/ SetPassingScore(r)
               \/ \E u \in Users, q \in Quizzes, given \in Papers :
                    ReadForScore(r, u, q, given)
               \/ Abort(r)
        PROVE  Stays(a)
    BY <2>1, <2>6 DEF ReadLesson, InsertQuiz, ReadQuiz, SetPassingScore, ReadForScore,
                      Abort, rows
  <2>7. CASE \E k \in Questions, q \in Quizzes : AddQuestion(k, q)
    BY <2>1, <2>7 DEF AddQuestion
  <2>8. CASE UNCHANGED vars
    BY <2>1, <2>8 DEF vars
  <2> QED BY <1>1, <2>3, <2>4, <2>5, <2>6, <2>7, <2>8 DEF Next, QuizzesController
<1>2. IInv /\ [Next]_vars => [\A a \in Attempts : Present(attempt[a]) => Stays(a)]_vars
  BY <1>1
<1> QED BY <1>2, Inductive, PTL DEF Spec, AttemptsOutliveQuestions

\* The caller a handler has tested may still edit what the handler writes.
THEOREM EditorsEdit == Spec => OnlyEditorsEditQuiz
<1> DEFINE Edits(r, q) == req'[r] # req[r] /\ quiz'[q] # quiz[q]
           Lesson(q) == IF Present(quiz[q]) THEN quiz[q].lesson ELSE quiz'[q].lesson
           Allowed(r, q) == \/ lesson[Lesson(q)].teacher = req[r].by
                            \/ req[r].by \in Admins
<1>1. ASSUME IInv, [Next]_vars, NEW r \in Requests, NEW q \in Quizzes, Edits(r, q)
      PROVE  Allowed(r, q)
  <2> USE DEF IInv
  <2>1. ASSUME NEW s \in Requests, NEW x, Go(s, x) PROVE s = r
    BY <1>1, <2>1 DEF Go, SlotsTyped
  <2>2. ASSUME InsertQuiz(r) PROVE Allowed(r, q)
    <3>1. PICK o \in Quizzes, b \in PassingScores :
            /\ quiz[o].status = "unused"
            /\ quiz' = [quiz EXCEPT ![o] = [status |-> "present",
                           lesson |-> req[r].lesson, passingScore |-> b]]
      BY <1>1, <2>2 DEF InsertQuiz
    <3>2. o = q /\ ~Present(quiz[q]) /\ quiz'[q].lesson = req[r].lesson
      BY <1>1, <3>1 DEF RowsTyped, Present
    <3> QED BY <1>1, <2>2, <3>2 DEF InsertQuiz, EditorsKept, EditorKept, EditorOf
  <2>3. ASSUME req[r].pc \in {"setScore", "dropQuiz"}, req[r].quiz = q, Present(quiz[q])
        PROVE  Allowed(r, q)
    BY <1>1, <2>3 DEF EditorsKept, EditorKept, EditorOf
  <2>4. ASSUME SetPassingScore(r) PROVE Allowed(r, q)
    <3>1. Present(quiz[req[r].quiz]) /\ q = req[r].quiz
      BY <1>1, <2>4 DEF SetPassingScore, RowsTyped
    <3> QED BY <2>3, <2>4, <3>1 DEF SetPassingScore
  <2>5. ASSUME DeleteQuiz(r) PROVE Allowed(r, q)
    <3>1. Present(quiz[req[r].quiz]) /\ Erase({}, {req[r].quiz}, {}, {})
      BY <1>1, <2>5 DEF DeleteQuiz, rows
    <3>2. q = req[r].quiz
      BY <1>1, <3>1 DEF Erase, RowsTyped
    <3> QED BY <2>3, <2>5, <3>1, <3>2 DEF DeleteQuiz
  <2>6. ASSUME NEW s \in Requests, QuizzesController(s) \/ Abort(s)
        PROVE  Allowed(r, q)
    <3>1. \E x : Go(s, x)
      BY <2>6 DEF QuizzesController, ReadLesson, InsertQuiz, ReadQuiz, SetPassingScore,
                  DeleteQuiz, ReadForScore, InsertAttempt, Abort
    <3>2. s = r
      BY <2>1, <3>1
    <3>3. UNCHANGED quiz \/ InsertQuiz(s) \/ SetPassingScore(s) \/ DeleteQuiz(s)
      BY <2>6 DEF QuizzesController, ReadLesson, ReadQuiz, ReadForScore, InsertAttempt,
                  Abort, rows
    <3> QED BY <1>1, <2>2, <2>4, <2>5, <3>2, <3>3
  <2>7. ASSUME \/ \E k \in Questions, o \in Quizzes : AddQuestion(k, o)
               \/ \E k \in Questions : DeleteQuestion(k)
               \/ \E l \in Lessons : DeleteLesson(l)
               \/ \E u \in Users : DeleteUser(u)
               \/ UNCHANGED vars
        PROVE  UNCHANGED req
    BY <2>7 DEF AddQuestion, DeleteQuestion, DeleteLesson, DeleteUser, vars
  <2> QED BY <1>1, <2>6, <2>7 DEF Next
<1>2. IInv /\ [Next]_vars =>
        [\A r \in Requests, q \in Quizzes : Edits(r, q) => Allowed(r, q)]_vars
  BY <1>1
<1>3. [\A r \in Requests, q \in Quizzes : Edits(r, q) => Allowed(r, q)]_vars =>
        [\A r \in Requests, q \in Quizzes :
          req'[r] # req[r] /\ quiz'[q] # quiz[q] =>
            LET l == IF Present(quiz[q]) THEN quiz[q].lesson ELSE quiz'[q].lesson
            IN  lesson[l].teacher = req[r].by \/ req[r].by \in Admins]_vars
  OBVIOUS
<1> QED BY <1>2, <1>3, Inductive, PTL DEF Spec, OnlyEditorsEditQuiz
=============================================================================

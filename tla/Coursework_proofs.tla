-------------------------- MODULE Coursework_proofs --------------------------
(* Proofs about Coursework, for every value of its constants. *)
EXTENDS Coursework, FiniteSetTheorems, TLAPS

-----------------------------------------------------------------------------
(* Type correctness needs to know what a slot carries, and NoOrphans that  *)
(* what a row refers to is a key of the other table.                       *)

SlotOK(q) ==
    /\ q.pc # "idle" => q.by \in Users
    /\ q.pc \in {"toggle", "dropCourse", "lastOrder", "insertLesson",
                 "enrolCheck", "enrolInsert", "unenrol"} => q.course \in Courses
    /\ q.pc \in {"moveLesson", "dropLesson"} => q.lesson \in Lessons
    /\ q.pc = "unenrol" => q.enrolment \in Enrolments

Linked ==
    /\ \A c \in Courses : Present(course[c]) => course[c].teacher \in accounts
    /\ \A l \in Lessons : Present(lesson[l]) =>
         lesson[l].course \in Courses /\ Present(course[lesson[l].course])
    /\ \A e \in Enrolments : Present(enrolment[e]) =>
         /\ enrolment[e].course \in Courses
         /\ Present(course[enrolment[e].course])
         /\ enrolment[e].student \in accounts

RowsTyped ==
    /\ accounts \subseteq Users
    /\ course \in [Courses -> CourseRow]
    /\ lesson \in [Lessons -> LessonRow]
    /\ enrolment \in [Enrolments -> EnrolmentRow]
    /\ creator \in [Lessons -> SUBSET Requests]
    /\ shown \subseteq Courses

SlotsTyped ==
    /\ req \in [Requests -> RequestType]
    /\ \A r \in Requests : SlotOK(req[r])

Consistent == RowsTyped /\ SlotsTyped /\ Linked

LEMMA IdleSlot == Idle \in RequestType /\ SlotOK(Idle) /\ Idle.pc = "idle"
  BY CourseworkAssumption DEF Idle, RequestType, PCs, SlotOK

LEMMA EmptyRows ==
  ASSUME NEW status \in Statuses
  PROVE  /\ NoCourse(status) \in CourseRow /\ NoCourse(status).status = status
         /\ NoLesson(status) \in LessonRow /\ NoLesson(status).status = status
         /\ NoEnrolment(status) \in EnrolmentRow
         /\ NoEnrolment(status).status = status
  BY CourseworkAssumption
  DEF NoCourse, NoLesson, NoEnrolment, CourseRow, LessonRow, EnrolmentRow

LEMMA InitConsistent == Init => Consistent
<1> SUFFICES ASSUME Init PROVE Consistent
  OBVIOUS
<1>1. "unused" \in Statuses /\ "unused" # "present"
  BY DEF Statuses
<1>2. RowsTyped /\ Linked
  BY <1>1, EmptyRows DEF Init, RowsTyped, Linked, Present
<1> QED BY <1>2, IdleSlot DEF Init, Consistent, SlotsTyped

\* A step that puts a well-formed record into one slot.
LEMMA SlotStep ==
  ASSUME SlotsTyped, NEW r \in Requests, NEW q \in RequestType, SlotOK(q), Go(r, q)
  PROVE  SlotsTyped' /\ req'[r] = q
  BY DEF SlotsTyped, Go

\* Deleting courses and students, with every course of those students, leaves
\* no orphan behind.
LEMMA EraseStep ==
  ASSUME RowsTyped, Linked, NEW C \in SUBSET Courses, NEW U \in SUBSET Users,
         Erase(C, U), accounts' = accounts \ U, UNCHANGED shown,
         \A c \in Courses : Present(course[c]) /\ course[c].teacher \in U => c \in C
  PROVE  RowsTyped' /\ Linked'
<1>1. "gone" \in Statuses /\ "gone" # "present"
  BY DEF Statuses
<1>2. course' \in [Courses -> CourseRow]
  BY <1>1, EmptyRows DEF RowsTyped, Erase
<1>3. lesson' \in [Lessons -> LessonRow] /\ creator' \in [Lessons -> SUBSET Requests]
  BY <1>1, EmptyRows DEF RowsTyped, Erase
<1>4. enrolment' \in [Enrolments -> EnrolmentRow]
  BY <1>1, EmptyRows DEF RowsTyped, Erase
<1>5. \A c \in Courses : Present(course[c])' =>
        /\ c \notin C
        /\ Present(course[c])
        /\ course'[c] = course[c]
  BY <1>1, EmptyRows DEF Erase, Present
<1>6. \A c \in Courses : Present(course[c]) /\ c \notin C => Present(course[c])'
  BY DEF Erase, Present
<1>7. \A l \in Lessons : Present(lesson[l])' =>
        /\ Present(lesson[l])
        /\ lesson'[l] = lesson[l]
        /\ lesson[l].course \notin C
  BY <1>1, EmptyRows DEF Erase, Present, LessonsOf
<1>8. \A e \in Enrolments : Present(enrolment[e])' =>
        /\ Present(enrolment[e])
        /\ enrolment'[e] = enrolment[e]
        /\ enrolment[e].course \notin C
        /\ enrolment[e].student \notin U
  BY <1>1, EmptyRows DEF Erase, Present
<1>9. Linked'
  BY <1>5, <1>6, <1>7, <1>8 DEF Linked
<1> QED BY <1>2, <1>3, <1>4, <1>9 DEF RowsTyped

\* A step that changes lessons and creators only.
LEMMA LessonStep ==
  ASSUME RowsTyped, Linked, UNCHANGED <<accounts, course, enrolment, shown>>,
         lesson' \in [Lessons -> LessonRow],
         creator' \in [Lessons -> SUBSET Requests],
         \A l \in Lessons : Present(lesson[l])' =>
             lesson'[l].course \in Courses /\ Present(course[lesson'[l].course])
  PROVE  RowsTyped' /\ Linked'
  BY DEF RowsTyped, Linked, Present

-----------------------------------------------------------------------------
LEMMA CoursesStep ==
  ASSUME Consistent, NEW r \in Requests, CoursesController(r)
  PROVE  Consistent'
<1> USE DEF Consistent
<1>1. ASSUME NEW u \in Users, NEW c \in Courses, NEW pc \in PCs, ReadCourse(r, u, c, pc)
      PROVE  Consistent'
  <2> DEFINE q == [Idle EXCEPT !.pc = pc, !.by = u, !.course = c,
                     !.publish = pc = "toggle" /\ ~course[c].isPublished]
  <2>1. course[c].isPublished \in BOOLEAN
    BY DEF RowsTyped, CourseRow
  <2>2. q \in RequestType /\ SlotOK(q)
    BY <1>1, <2>1, IdleSlot DEF ReadCourse, Idle, RequestType, PCs, SlotOK
  <2>3. SlotsTyped'
    BY <1>1, <2>2, SlotStep DEF ReadCourse
  <2> QED BY <1>1, <2>3 DEF ReadCourse, rows, RowsTyped, Linked
<1>2. CASE TogglePublish(r)
  <2>1. req[r].course \in Courses /\ req[r].publish \in BOOLEAN
    BY <1>2 DEF TogglePublish, SlotsTyped, SlotOK, RequestType
  <2>2. SlotsTyped'
    BY <1>2, IdleSlot, SlotStep DEF TogglePublish
  <2>3. CASE Present(course[req[r].course])
    <3>1. [course[req[r].course] EXCEPT !.isPublished = req[r].publish] \in CourseRow
      BY <2>1 DEF RowsTyped, CourseRow
    <3>2. course' \in [Courses -> CourseRow] /\ shown' \subseteq Courses
      BY <1>2, <2>1, <2>3, <3>1 DEF TogglePublish, RowsTyped
    <3>3. \A c \in Courses : course'[c].status = course[c].status
                               /\ course'[c].teacher = course[c].teacher
      BY <1>2, <2>1, <2>3 DEF TogglePublish, RowsTyped, CourseRow
    <3>4. Linked'
      BY <1>2, <3>3 DEF TogglePublish, Linked, Present
    <3> QED BY <1>2, <2>2, <3>2, <3>4 DEF TogglePublish, RowsTyped
  <2> QED BY <1>2, <2>2, <2>3 DEF TogglePublish, RowsTyped, Linked
<1>3. CASE DeleteCourse(r)
  <2>1. req[r].course \in Courses
    BY <1>3 DEF DeleteCourse, SlotsTyped, SlotOK
  <2>2. SlotsTyped'
    BY <1>3, IdleSlot, SlotStep DEF DeleteCourse
  <2>3. CASE Present(course[req[r].course])
    <3>1. {req[r].course} \in SUBSET Courses /\ {} \in SUBSET Users
      BY <2>1
    <3>2. Erase({req[r].course}, {}) /\ accounts' = accounts \ {} /\ UNCHANGED shown
      BY <1>3, <2>3 DEF DeleteCourse
    <3>3. RowsTyped' /\ Linked'
      BY <3>1, <3>2, EraseStep
    <3> QED BY <2>2, <3>3
  <2> QED BY <1>3, <2>2, <2>3 DEF DeleteCourse, RowsTyped, Linked
<1> QED BY <1>1, <1>2, <1>3 DEF CoursesController

LEMMA LessonsStep ==
  ASSUME Consistent, NEW r \in Requests, LessonsController(r)
  PROVE  Consistent'
<1> USE DEF Consistent
<1>1. ASSUME NEW u \in Users, NEW l \in Lessons, NEW pc \in PCs, ReadLesson(r, u, l, pc)
      PROVE  Consistent'
  <2> DEFINE q == [Idle EXCEPT !.pc = pc, !.by = u, !.lesson = l]
  <2>1. q \in RequestType /\ SlotOK(q)
    BY <1>1, IdleSlot DEF ReadLesson, Idle, RequestType, PCs, SlotOK
  <2>2. SlotsTyped'
    BY <1>1, <2>1, SlotStep DEF ReadLesson
  <2> QED BY <1>1, <2>2 DEF ReadLesson, rows, RowsTyped, Linked
<1>2. CASE ReadLastOrder(r)
  <2>1. PICK n \in 0..MaxOrder, named \in BOOLEAN :
          Go(r, [req[r] EXCEPT !.pc = "insertLesson", !.order = n, !.named = named])
    BY <1>2 DEF ReadLastOrder
  <2> DEFINE q == [req[r] EXCEPT !.pc = "insertLesson", !.order = n, !.named = named]
  <2>2. q \in RequestType /\ SlotOK(q)
    BY <1>2 DEF ReadLastOrder, SlotsTyped, RequestType, PCs, SlotOK
  <2>3. SlotsTyped'
    BY <2>1, <2>2, SlotStep
  <2> QED BY <1>2, <2>3 DEF ReadLastOrder, rows, RowsTyped, Linked
<1>3. CASE InsertLesson(r)
  <2>1. req[r].course \in Courses /\ req[r].order \in 0..MaxOrder
    BY <1>3 DEF InsertLesson, SlotsTyped, SlotOK, RequestType
  <2>2. SlotsTyped'
    BY <1>3, IdleSlot, SlotStep DEF InsertLesson
  <2>3. ASSUME NEW l \in Lessons, Present(course[req[r].course]),
               lesson' = [lesson EXCEPT ![l] =
                 [status |-> "present", course |-> req[r].course,
                  order |-> req[r].order]],
               creator' = [creator EXCEPT ![l] = IF req[r].named THEN {} ELSE {r}]
        PROVE  Consistent'
    <3>1. lesson' \in [Lessons -> LessonRow]
      BY <2>1, <2>3 DEF RowsTyped, LessonRow, Statuses
    <3>2. creator' \in [Lessons -> SUBSET Requests]
      BY <2>3 DEF RowsTyped
    <3>3. \A k \in Lessons : Present(lesson[k])' =>
            lesson'[k].course \in Courses /\ Present(course[lesson'[k].course])
      BY <2>1, <2>3 DEF RowsTyped, Linked, Present
    <3> QED BY <1>3, <2>2, <3>1, <3>2, <3>3, LessonStep DEF InsertLesson
  <2> QED BY <1>3, <2>2, <2>3 DEF InsertLesson, RowsTyped, Linked
<1>4. CASE MoveLesson(r)
  <2>1. req[r].lesson \in Lessons
    BY <1>4 DEF MoveLesson, SlotsTyped, SlotOK
  <2>2. SlotsTyped'
    BY <1>4, IdleSlot, SlotStep DEF MoveLesson
  <2>3. ASSUME NEW n \in 0..MaxOrder,
               lesson' = [lesson EXCEPT ![req[r].lesson].order = n],
               creator' = [creator EXCEPT ![req[r].lesson] = {}]
        PROVE  Consistent'
    <3>1. [lesson[req[r].lesson] EXCEPT !.order = n] \in LessonRow
      BY <2>1 DEF RowsTyped, LessonRow
    <3>2. lesson' \in [Lessons -> LessonRow]
      BY <2>1, <2>3, <3>1 DEF RowsTyped
    <3>3. creator' \in [Lessons -> SUBSET Requests]
      BY <2>3 DEF RowsTyped
    <3>4. \A k \in Lessons : lesson'[k].status = lesson[k].status
                               /\ lesson'[k].course = lesson[k].course
      BY <2>1, <2>3 DEF RowsTyped, LessonRow
    <3> QED BY <1>4, <2>2, <3>2, <3>3, <3>4, LessonStep
            DEF MoveLesson, Linked, Present
  <2> QED BY <1>4, <2>2, <2>3 DEF MoveLesson, RowsTyped, Linked
<1>5. CASE DeleteLesson(r)
  <2>1. req[r].lesson \in Lessons
    BY <1>5 DEF DeleteLesson, SlotsTyped, SlotOK
  <2>2. SlotsTyped'
    BY <1>5, IdleSlot, SlotStep DEF DeleteLesson
  <2>3. CASE Present(lesson[req[r].lesson])
    <3>1. "gone" \in Statuses /\ "gone" # "present"
      BY DEF Statuses
    <3>2. /\ lesson' \in [Lessons -> LessonRow]
          /\ creator' \in [Lessons -> SUBSET Requests]
      BY <1>5, <2>1, <2>3, <3>1, EmptyRows DEF DeleteLesson, RowsTyped
    <3>3. \A k \in Lessons : Present(lesson[k])' =>
            Present(lesson[k]) /\ lesson'[k] = lesson[k]
      BY <1>5, <2>1, <2>3, <3>1, EmptyRows DEF DeleteLesson, RowsTyped, Present
    <3> QED BY <1>5, <2>2, <3>2, <3>3, LessonStep DEF DeleteLesson, Linked
  <2> QED BY <1>5, <2>2, <2>3 DEF DeleteLesson, RowsTyped, Linked
<1> QED BY <1>1, <1>2, <1>3, <1>4, <1>5 DEF LessonsController

LEMMA ReorderStep ==
  ASSUME Consistent, NEW list \in Lists, Reorder(list)
  PROVE  Consistent'
<1> USE DEF Consistent
<1>1. PICK n \in 1..MaxList : list \in [1..n -> Lessons]
  BY DEF Lists
<1>2. ASSUME NEW l \in Lessons, \E i \in DOMAIN list : list[i] = l
      PROVE  /\ lesson'[l] \in LessonRow
             /\ lesson'[l].status = lesson[l].status
             /\ lesson'[l].course = lesson[l].course
  <2>1. PICK j : j = CHOOSE i \in DOMAIN list : list[i] = l
    OBVIOUS
  <2>2. j \in DOMAIN list
    BY <1>2, <2>1
  <2>3. j \in Nat /\ j >= 1 /\ j - 1 <= MaxOrder
    BY <1>1, <2>2 DEF Reorder
  <2>4. lesson'[l] = [lesson[l] EXCEPT !.order = j - 1]
    BY <1>2, <2>1 DEF Reorder
  <2> QED BY <2>3, <2>4, CourseworkAssumption DEF RowsTyped, LessonRow
<1>3. ASSUME NEW l \in Lessons, ~\E i \in DOMAIN list : list[i] = l
      PROVE  lesson'[l] = lesson[l]
  BY <1>3 DEF Reorder
<1>4. \A l \in Lessons : lesson[l] \in LessonRow
  BY DEF RowsTyped
<1>5. \A l \in Lessons : lesson'[l] \in LessonRow
                           /\ lesson'[l].status = lesson[l].status
                           /\ lesson'[l].course = lesson[l].course
  BY <1>2, <1>3, <1>4
<1>6. lesson' \in [Lessons -> LessonRow]
  BY <1>5 DEF Reorder
<1>7. creator' \in [Lessons -> SUBSET Requests]
  BY DEF Reorder, RowsTyped
<1>8. RowsTyped' /\ Linked'
  BY <1>5, <1>6, <1>7, LessonStep DEF Reorder, Linked, Present
<1> QED BY <1>8 DEF Reorder, SlotsTyped

LEMMA EnrollmentsStep ==
  ASSUME Consistent, NEW r \in Requests, EnrollmentsController(r)
  PROVE  Consistent'
<1> USE DEF Consistent
<1>1. ASSUME NEW u \in Users, NEW c \in Courses, ReadForEnrol(r, u, c)
      PROVE  Consistent'
  <2> DEFINE q == [Idle EXCEPT !.pc = "enrolCheck", !.by = u, !.course = c]
  <2>1. q \in RequestType /\ SlotOK(q)
    BY IdleSlot DEF Idle, RequestType, PCs, SlotOK
  <2>2. SlotsTyped'
    BY <1>1, <2>1, SlotStep DEF ReadForEnrol
  <2> QED BY <1>1, <2>2 DEF ReadForEnrol, rows, RowsTyped, Linked
<1>2. ASSUME NEW u \in Users, NEW c \in Courses, ReadForUnenrol(r, u, c)
      PROVE  Consistent'
  <2>1. PICK e \in Enrolments :
          Go(r, [Idle EXCEPT !.pc = "unenrol", !.by = u, !.course = c, !.enrolment = e])
    BY <1>2 DEF ReadForUnenrol, EnrolledIn
  <2> DEFINE q == [Idle EXCEPT !.pc = "unenrol", !.by = u, !.course = c, !.enrolment = e]
  <2>2. q \in RequestType /\ SlotOK(q)
    BY IdleSlot DEF Idle, RequestType, PCs, SlotOK
  <2>3. SlotsTyped'
    BY <2>1, <2>2, SlotStep
  <2> QED BY <1>2, <2>3 DEF ReadForUnenrol, rows, RowsTyped, Linked
<1>3. CASE CheckEnrolled(r)
  <2> DEFINE q == [req[r] EXCEPT !.pc = "enrolInsert"]
  <2>1. q \in RequestType /\ SlotOK(q)
    BY <1>3 DEF CheckEnrolled, SlotsTyped, RequestType, PCs, SlotOK
  <2>2. SlotsTyped'
    BY <1>3, <2>1, IdleSlot, SlotStep DEF CheckEnrolled
  <2> QED BY <1>3, <2>2 DEF CheckEnrolled, rows, RowsTyped, Linked
<1>4. CASE Enrol(r)
  <2>1. req[r].by \in Users /\ req[r].course \in Courses
    BY <1>4 DEF Enrol, SlotsTyped, SlotOK
  <2>2. SlotsTyped'
    BY <1>4, IdleSlot, SlotStep DEF Enrol
  <2>3. ASSUME NEW e \in Enrolments, SchemaAllows(req[r].by, req[r].course),
               AddEnrolment(e, req[r].by, req[r].course)
        PROVE  Consistent'
    <3>1. enrolment' \in [Enrolments -> EnrolmentRow]
      BY <2>1, <2>3 DEF AddEnrolment, RowsTyped, EnrolmentRow, Statuses
    <3>2. Linked'
      BY <1>4, <2>1, <2>3 DEF Enrol, AddEnrolment, SchemaAllows, Linked, Present,
          RowsTyped
    <3> QED BY <1>4, <2>2, <3>1, <3>2 DEF Enrol, RowsTyped
  <2> QED BY <1>4, <2>2, <2>3 DEF Enrol, RowsTyped, Linked
<1>5. CASE Unenrol(r)
  <2>1. "gone" \in Statuses /\ "gone" # "present"
    BY DEF Statuses
  <2>2. enrolment' \in [Enrolments -> EnrolmentRow]
    BY <1>5, <2>1, EmptyRows DEF Unenrol, RowsTyped
  <2>3. \A e \in Enrolments : Present(enrolment[e])' =>
          Present(enrolment[e]) /\ enrolment'[e] = enrolment[e]
    BY <1>5, <2>1, EmptyRows DEF Unenrol, Present
  <2>4. SlotsTyped'
    BY <1>5, IdleSlot, SlotStep DEF Unenrol
  <2>5. Linked'
    BY <1>5, <2>3 DEF Unenrol, Linked
  <2> QED BY <1>5, <2>2, <2>4, <2>5 DEF Unenrol, RowsTyped
<1> QED BY <1>1, <1>2, <1>3, <1>4, <1>5 DEF EnrollmentsController

LEMMA ConsistentStep == Consistent /\ [Next]_vars => Consistent'
<1> SUFFICES ASSUME Consistent, [Next]_vars PROVE Consistent'
  OBVIOUS
<1> USE DEF Consistent
<1>1. ASSUME NEW r \in Requests, Abort(r) PROVE Consistent'
  <2>1. SlotsTyped'
    BY <1>1, IdleSlot, SlotStep DEF Abort
  <2> QED BY <1>1, <2>1 DEF Abort, rows, RowsTyped, Linked
<1>2. ASSUME NEW u \in Users, NEW c \in Courses, CreateCourse(u, c) PROVE Consistent'
  <2> DEFINE row == [NoCourse("present") EXCEPT !.teacher = u]
  <2>1. row \in CourseRow /\ row.teacher = u
    BY DEF NoCourse, CourseRow, Statuses
  <2>2. course' \in [Courses -> CourseRow]
    BY <1>2, <2>1 DEF CreateCourse, RowsTyped
  <2>3. \A d \in Courses : Present(course[d]) => course'[d] = course[d]
    BY <1>2 DEF CreateCourse, Present
  <2>4. \A d \in Courses : course'[d] = course[d] \/ course'[d].teacher = u
    BY <1>2, <2>1 DEF CreateCourse, RowsTyped
  <2>5. Linked'
    BY <1>2, <2>3, <2>4 DEF CreateCourse, Linked
  <2> QED BY <1>2, <2>2, <2>5 DEF CreateCourse, RowsTyped, SlotsTyped
<1>3. ASSUME NEW u \in Users, DeleteUser(u) PROVE Consistent'
  <2>1. PICK C \in SUBSET Courses :
          C = {c \in Courses : Present(course[c]) /\ course[c].teacher = u}
    OBVIOUS
  <2>2. Erase(C, {u}) /\ accounts' = accounts \ {u} /\ UNCHANGED <<req, shown>>
    BY <1>3, <2>1 DEF DeleteUser
  <2>3. RowsTyped' /\ Linked'
    BY <2>1, <2>2, EraseStep
  <2> QED BY <2>2, <2>3 DEF SlotsTyped
<1>4. CASE UNCHANGED vars
  BY <1>4 DEF vars, RowsTyped, SlotsTyped, Linked
<1> QED BY <1>1, <1>2, <1>3, <1>4, CoursesStep, LessonsStep, EnrollmentsStep,
           ReorderStep DEF Next

\* Every variable keeps its type.
THEOREM TypeCorrect == Spec => []TypeOK
<1>1. Consistent => TypeOK
  BY DEF Consistent, RowsTyped, SlotsTyped, TypeOK
<1> QED BY <1>1, InitConsistent, ConsistentStep, PTL DEF Spec

\* No interleaving of handlers and deletions leaves a row without its parents.
THEOREM NeverOrphaned == Spec => []NoOrphans
<1>1. Consistent => NoOrphans
  BY DEF Consistent, Linked, NoOrphans
<1> QED BY <1>1, InitConsistent, ConsistentStep, PTL DEF Spec
-----------------------------------------------------------------------------
(* What one step does to a slot and to each table. *)

SlotMoved(r) ==
    LET q == req'[r]
    IN  \/ q.pc = "idle"
        \/ /\ q.pc \in {"toggle", "dropCourse", "lastOrder"}
           /\ MayEdit(q.by, q.course)
           /\ UNCHANGED rows
        \/ /\ q.pc = "insertLesson" /\ req[r].pc = "lastOrder"
           /\ q.by = req[r].by /\ q.course = req[r].course
           /\ q.named \/ IsNextOrder(q.course, q.order)
           /\ UNCHANGED rows
        \/ /\ q.pc \in {"moveLesson", "dropLesson"}
           /\ Present(lesson[q.lesson])
           /\ MayEdit(q.by, lesson[q.lesson].course)
           /\ UNCHANGED rows
        \/ /\ q.pc = "enrolCheck"
           /\ Enrollable(q.course)
           /\ UNCHANGED rows
        \/ /\ q.pc = "enrolInsert" /\ req[r].pc = "enrolCheck"
           /\ q.course = req[r].course
           /\ UNCHANGED rows
        \/ /\ q.pc = "unenrol"
           /\ Present(enrolment[q.enrolment])
           /\ enrolment[q.enrolment].student = q.by
           /\ UNCHANGED rows

RequestStep(r) ==
    CoursesController(r) \/ LessonsController(r) \/ EnrollmentsController(r) \/ Abort(r)

LEMMA OtherSlots ==
  ASSUME Consistent, [Next]_vars, NEW x \in Requests
  PROVE  req'[x] = req[x] \/ RequestStep(x)
<1>1. ASSUME NEW r \in Requests, NEW q, Go(r, q), x # r
      PROVE  req'[x] = req[x]
  BY <1>1 DEF Go, Consistent, SlotsTyped
<1>2. ASSUME NEW r \in Requests, RequestStep(r), x # r
      PROVE  req'[x] = req[x]
  <2>1. CASE CoursesController(r)
    BY <1>1, <1>2, <2>1 DEF CoursesController, ReadCourse, TogglePublish, DeleteCourse
  <2>2. CASE LessonsController(r)
    BY <1>1, <1>2, <2>2
    DEF LessonsController, ReadLesson, ReadLastOrder, InsertLesson, MoveLesson,
        DeleteLesson
  <2>3. CASE EnrollmentsController(r)
    BY <1>1, <1>2, <2>3
    DEF EnrollmentsController, ReadForEnrol, ReadForUnenrol, CheckEnrolled, Enrol,
        Unenrol
  <2> QED BY <1>1, <1>2, <2>1, <2>2, <2>3 DEF RequestStep, Abort
<1> QED BY <1>2 DEF Next, vars, RequestStep, CreateCourse, Reorder, DeleteUser

LEMMA SlotEffects ==
  ASSUME Consistent, NEW r \in Requests, RequestStep(r)
  PROVE  SlotMoved(r)
<1>1. /\ req[r] \in RequestType
      /\ \A q : Go(r, q) => req'[r] = q
  BY DEF Consistent, SlotsTyped, Go
<1>2. Go(r, Idle) => SlotMoved(r)
  BY <1>1, IdleSlot DEF SlotMoved
<1>3. ASSUME NEW u \in Users, NEW c \in Courses, NEW pc \in PCs, ReadCourse(r, u, c, pc)
      PROVE  SlotMoved(r)
  BY <1>1, <1>3 DEF ReadCourse, SlotMoved, Idle
<1>4. ASSUME NEW u \in Users, NEW l \in Lessons, NEW pc \in PCs, ReadLesson(r, u, l, pc)
      PROVE  SlotMoved(r)
  BY <1>1, <1>4 DEF ReadLesson, SlotMoved, Idle
<1>5. ASSUME NEW u \in Users, NEW c \in Courses, ReadForEnrol(r, u, c)
      PROVE  SlotMoved(r)
  BY <1>1, <1>5 DEF ReadForEnrol, SlotMoved, Idle
<1>6. ASSUME NEW u \in Users, NEW c \in Courses, ReadForUnenrol(r, u, c)
      PROVE  SlotMoved(r)
  BY <1>1, <1>6 DEF ReadForUnenrol, EnrolledIn, SlotMoved, Idle
<1>7. CASE ReadLastOrder(r)
  <2>1. PICK n \in 0..MaxOrder, named \in BOOLEAN :
          /\ named \/ IsNextOrder(req[r].course, n)
          /\ Go(r, [req[r] EXCEPT !.pc = "insertLesson", !.order = n, !.named = named])
    BY <1>7 DEF ReadLastOrder
  <2>2. /\ req'[r].pc = "insertLesson" /\ req'[r].by = req[r].by
        /\ req'[r].course = req[r].course
        /\ req'[r].order = n /\ req'[r].named = named
    BY <1>1, <2>1 DEF RequestType
  <2> QED BY <1>7, <2>1, <2>2 DEF ReadLastOrder, SlotMoved
<1>8. CASE CheckEnrolled(r)
  <2>1. \/ Go(r, Idle)
        \/ req'[r].pc = "enrolInsert" /\ req'[r].course = req[r].course
    BY <1>1, <1>8 DEF CheckEnrolled, RequestType
  <2> QED BY <1>2, <1>8, <2>1 DEF CheckEnrolled, SlotMoved
<1> QED BY <1>2, <1>3, <1>4, <1>5, <1>6, <1>7, <1>8
        DEF RequestStep, CoursesController, LessonsController, EnrollmentsController,
            TogglePublish, DeleteCourse, InsertLesson, MoveLesson, DeleteLesson,
            Enrol, Unenrol, Abort

\* A course keeps its teacher while it exists, and is created once.
CourseKept(c) ==
    /\ course[c].isPublished' => course[c].isPublished \/ c \in shown'
    /\ \/ course'[c].status = course[c].status /\ course'[c].teacher = course[c].teacher
       \/ course[c].status = "unused"
       \/ course'[c].status = "gone"

LEMMA GoneRows ==
    /\ NoCourse("gone").status = "gone" /\ ~NoCourse("gone").isPublished
    /\ NoCourse("present").status = "present" /\ ~NoCourse("present").isPublished
    /\ NoLesson("gone").status = "gone"
    /\ NoEnrolment("gone").status = "gone"
  BY DEF NoCourse, NoLesson, NoEnrolment

LEMMA CourseEffects ==
  ASSUME Consistent, [Next]_vars, NEW c \in Courses
  PROVE  CourseKept(c)
<1> USE DEF Consistent
<1>1. UNCHANGED course => CourseKept(c)
  BY DEF CourseKept
<1>2. ASSUME NEW C, NEW U, Erase(C, U) PROVE CourseKept(c)
  BY <1>2, GoneRows DEF Erase, CourseKept
<1>3. ASSUME NEW r \in Requests, TogglePublish(r) PROVE CourseKept(c)
  <2>1. CASE c = req[r].course /\ Present(course[c])
    <3>1. /\ course'[c].status = course[c].status
          /\ course'[c].teacher = course[c].teacher
          /\ course'[c].isPublished = req[r].publish
          /\ req[r].publish => c \in shown'
      BY <1>3, <2>1 DEF TogglePublish, RowsTyped, CourseRow
    <3> QED BY <3>1 DEF CourseKept
  <2>2. CASE ~(c = req[r].course /\ Present(course[c]))
    <3>1. course'[c] = course[c]
      BY <1>3, <2>2 DEF TogglePublish, RowsTyped
    <3> QED BY <3>1 DEF CourseKept
  <2> QED BY <2>1, <2>2
<1>4. ASSUME NEW u \in Users, NEW d \in Courses, CreateCourse(u, d) PROVE CourseKept(c)
  <2>1. CASE c = d
    <3>1. ~course'[c].isPublished /\ course[c].status = "unused"
      BY <1>4, <2>1 DEF CreateCourse, RowsTyped, NoCourse
    <3> QED BY <3>1 DEF CourseKept
  <2>2. CASE c # d
    BY <1>4, <2>2 DEF CreateCourse, CourseKept, RowsTyped
  <2> QED BY <2>1, <2>2
<1>5. ASSUME NEW r \in Requests, CoursesController(r) PROVE CourseKept(c)
  BY <1>1, <1>2, <1>3, <1>5 DEF CoursesController, ReadCourse, DeleteCourse, rows
<1>6. ASSUME NEW r \in Requests, LessonsController(r) PROVE CourseKept(c)
  BY <1>1, <1>6 DEF LessonsController, ReadLesson, ReadLastOrder, InsertLesson,
      MoveLesson, DeleteLesson, rows
<1>7. ASSUME NEW r \in Requests, EnrollmentsController(r) PROVE CourseKept(c)
  BY <1>1, <1>7 DEF EnrollmentsController, ReadForEnrol, ReadForUnenrol,
      CheckEnrolled, Enrol, Unenrol, rows
<1> QED BY <1>1, <1>2, <1>4, <1>5, <1>6, <1>7
        DEF Next, vars, rows, Abort, Reorder, DeleteUser

\* A lesson that was there stays in its course; its order and the slot that
\* gave it go together.
LessonKept(l) ==
    \/ /\ lesson'[l].status = lesson[l].status
       /\ lesson'[l].course = lesson[l].course
       /\ \/ lesson'[l].order = lesson[l].order /\ creator'[l] = creator[l]
          \/ creator'[l] = {}
    \/ lesson'[l].status = "gone" /\ Present(lesson[l])

LessonAdded(r, l) ==
    /\ req[r].pc = "insertLesson"
    /\ req'[r].pc = "idle"
    /\ lesson[l].status = "unused"
    /\ lesson' = [lesson EXCEPT ![l] =
         [status |-> "present", course |-> req[r].course, order |-> req[r].order]]
    /\ creator' = [creator EXCEPT ![l] = IF req[r].named THEN {} ELSE {r}]

LEMMA LessonEffects ==
  ASSUME Consistent, [Next]_vars
  PROVE  \/ \A l \in Lessons : LessonKept(l)
         \/ \E r \in Requests, l \in Lessons : LessonAdded(r, l)
<1> USE DEF Consistent
<1>1. UNCHANGED <<lesson, creator>> => \A l \in Lessons : LessonKept(l)
  BY DEF LessonKept
<1>2. ASSUME NEW C, NEW U, Erase(C, U), NEW l \in Lessons PROVE LessonKept(l)
  BY <1>2, GoneRows DEF Erase, LessonKept, LessonsOf
<1>3. ASSUME NEW r \in Requests, InsertLesson(r), ~UNCHANGED <<lesson, creator>>
      PROVE  \E l \in Lessons : LessonAdded(r, l)
  <2>1. req'[r].pc = "idle"
    BY <1>3, IdleSlot, SlotStep DEF InsertLesson
  <2> QED BY <1>3, <2>1 DEF InsertLesson, LessonAdded
<1>4. ASSUME NEW r \in Requests, MoveLesson(r), NEW l \in Lessons PROVE LessonKept(l)
  <2>1. CASE l = req[r].lesson /\ Present(lesson[l])
    <3>1. PICK n \in 0..MaxOrder : lesson' = [lesson EXCEPT ![l].order = n]
      BY <1>4, <2>1 DEF MoveLesson
    <3>2. lesson'[l].status = lesson[l].status /\ lesson'[l].course = lesson[l].course
      BY <3>1 DEF RowsTyped, LessonRow
    <3>3. creator'[l] = {}
      BY <1>4, <2>1 DEF MoveLesson, RowsTyped
    <3> QED BY <3>2, <3>3 DEF LessonKept
  <2>2. CASE ~(l = req[r].lesson /\ Present(lesson[l]))
    <3>1. lesson'[l] = lesson[l] /\ creator'[l] = creator[l]
      BY <1>4, <2>2 DEF MoveLesson, RowsTyped
    <3> QED BY <3>1 DEF LessonKept
  <2> QED BY <2>1, <2>2
<1>5. ASSUME NEW r \in Requests, DeleteLesson(r), NEW l \in Lessons PROVE LessonKept(l)
  <2>1. CASE l = req[r].lesson /\ Present(lesson[l])
    <3>1. lesson'[l].status = "gone"
      BY <1>5, <2>1, GoneRows DEF DeleteLesson, RowsTyped
    <3> QED BY <2>1, <3>1 DEF LessonKept
  <2>2. CASE ~(l = req[r].lesson /\ Present(lesson[l]))
    <3>1. lesson'[l] = lesson[l] /\ creator'[l] = creator[l]
      BY <1>5, <2>2 DEF DeleteLesson, RowsTyped
    <3> QED BY <3>1 DEF LessonKept
  <2> QED BY <2>1, <2>2
<1>6. ASSUME NEW list \in Lists, Reorder(list), NEW l \in Lessons PROVE LessonKept(l)
  <2>1. CASE \E i \in DOMAIN list : list[i] = l
    <3>1. /\ lesson'[l].status = lesson[l].status
          /\ lesson'[l].course = lesson[l].course
          /\ creator'[l] = {}
      BY <1>6, <2>1 DEF Reorder, RowsTyped, LessonRow
    <3> QED BY <3>1 DEF LessonKept
  <2>2. CASE ~\E i \in DOMAIN list : list[i] = l
    <3>1. lesson'[l] = lesson[l] /\ creator'[l] = creator[l]
      BY <1>6, <2>2 DEF Reorder, RowsTyped
    <3> QED BY <3>1 DEF LessonKept
  <2> QED BY <2>1, <2>2
<1>7. ASSUME NEW r \in Requests, CoursesController(r), NEW l \in Lessons
      PROVE  LessonKept(l)
  BY <1>1, <1>2, <1>7
  DEF CoursesController, ReadCourse, TogglePublish, DeleteCourse, rows
<1>8. ASSUME NEW r \in Requests, LessonsController(r)
      PROVE  \/ \A l \in Lessons : LessonKept(l)
             \/ \E l \in Lessons : LessonAdded(r, l)
  BY <1>1, <1>3, <1>4, <1>5, <1>8
  DEF LessonsController, ReadLesson, ReadLastOrder, rows
<1>9. ASSUME NEW r \in Requests, EnrollmentsController(r), NEW l \in Lessons
      PROVE  LessonKept(l)
  BY <1>1, <1>9 DEF EnrollmentsController, ReadForEnrol, ReadForUnenrol,
      CheckEnrolled, Enrol, Unenrol, rows
<1> QED BY <1>1, <1>2, <1>6, <1>7, <1>8, <1>9
        DEF Next, vars, rows, Abort, CreateCourse, DeleteUser

EnrolmentKept(e) ==
    enrolment'[e] = enrolment[e] \/ enrolment'[e].status = "gone"

EnrolmentAdded(r, e) ==
    /\ req[r].pc = "enrolInsert"
    /\ enrolment[e].status = "unused"
    /\ SchemaAllows(req[r].by, req[r].course)
    /\ AddEnrolment(e, req[r].by, req[r].course)

LEMMA EnrolmentEffects ==
  ASSUME Consistent, [Next]_vars
  PROVE  \/ \A e \in Enrolments : EnrolmentKept(e)
         \/ \E r \in Requests, e \in Enrolments : EnrolmentAdded(r, e)
<1> USE DEF Consistent
<1>1. UNCHANGED enrolment => \A e \in Enrolments : EnrolmentKept(e)
  BY DEF EnrolmentKept
<1>2. ASSUME NEW C, NEW U, Erase(C, U), NEW e \in Enrolments PROVE EnrolmentKept(e)
  BY <1>2, GoneRows DEF Erase, EnrolmentKept
<1>3. ASSUME NEW r \in Requests, Enrol(r), ~UNCHANGED enrolment
      PROVE  \E e \in Enrolments : EnrolmentAdded(r, e)
  BY <1>3 DEF Enrol, EnrolmentAdded
<1>4. ASSUME NEW r \in Requests, Unenrol(r), NEW e \in Enrolments PROVE EnrolmentKept(e)
  BY <1>4, GoneRows DEF Unenrol, EnrolmentKept
<1>5. ASSUME NEW r \in Requests, CoursesController(r), NEW e \in Enrolments
      PROVE  EnrolmentKept(e)
  BY <1>1, <1>2, <1>5
  DEF CoursesController, ReadCourse, TogglePublish, DeleteCourse, rows
<1>6. ASSUME NEW r \in Requests, LessonsController(r), NEW e \in Enrolments
      PROVE  EnrolmentKept(e)
  BY <1>1, <1>6 DEF LessonsController, ReadLesson, ReadLastOrder, InsertLesson,
      MoveLesson, DeleteLesson, rows
<1>7. ASSUME NEW r \in Requests, EnrollmentsController(r)
      PROVE  \/ \A e \in Enrolments : EnrolmentKept(e)
             \/ \E e \in Enrolments : EnrolmentAdded(r, e)
  BY <1>1, <1>3, <1>4, <1>7
  DEF EnrollmentsController, ReadForEnrol, ReadForUnenrol, CheckEnrolled, rows
<1> QED BY <1>1, <1>2, <1>5, <1>6, <1>7
        DEF Next, vars, rows, Abort, CreateCourse, Reorder, DeleteUser
-----------------------------------------------------------------------------
(* Enrolments. *)

LEMMA EnrolledOnceStep == Consistent /\ EnrolledOnce /\ [Next]_vars => EnrolledOnce'
<1> SUFFICES ASSUME Consistent, EnrolledOnce, [Next]_vars PROVE EnrolledOnce'
  OBVIOUS
<1>1. CASE \A e \in Enrolments : EnrolmentKept(e)
  BY <1>1 DEF EnrolmentKept, EnrolledOnce, Present
<1>2. ASSUME NEW r \in Requests, NEW e \in Enrolments, EnrolmentAdded(r, e)
      PROVE  EnrolledOnce'
  <2>1. /\ enrolment'[e].student = req[r].by
        /\ enrolment'[e].course = req[r].course
        /\ \A d \in Enrolments : d # e => enrolment'[d] = enrolment[d]
    BY <1>2 DEF EnrolmentAdded, AddEnrolment, Consistent, RowsTyped
  <2>2. \A d \in Enrolments :
          ~(/\ Present(enrolment[d])
            /\ enrolment[d].student = req[r].by
            /\ enrolment[d].course = req[r].course)
    BY <1>2 DEF EnrolmentAdded, SchemaAllows, EnrolledIn
  <2> QED BY <2>1, <2>2 DEF EnrolledOnce, Present
<1> QED BY <1>1, <1>2, EnrolmentEffects

\* A student is enrolled once, however many requests enrol him.
THEOREM OnceEnrolled == Spec => []EnrolledOnce
<1>1. Init => EnrolledOnce
  BY DEF Init, EnrolledOnce, NoEnrolment, Present
<1> QED BY <1>1, InitConsistent, ConsistentStep, EnrolledOnceStep, PTL DEF Spec

\* A course that is or was seen published is in shown: in the row, in a slot
\* on its way to an enrolment, and in the enrolment.
ShownInv ==
    /\ EnrolledOnlyInShown
    /\ \A c \in Courses : course[c].isPublished => c \in shown
    /\ \A r \in Requests :
         req[r].pc \in {"enrolCheck", "enrolInsert"} => req[r].course \in shown

LEMMA ShownGrows ==
  ASSUME [Next]_vars
  PROVE  shown \subseteq shown'
  BY DEF Next, vars, rows, CoursesController, LessonsController,
      EnrollmentsController, ReadCourse, TogglePublish, DeleteCourse, ReadLesson,
      ReadLastOrder, InsertLesson, MoveLesson, DeleteLesson, ReadForEnrol,
      ReadForUnenrol, CheckEnrolled, Enrol, Unenrol, Abort, CreateCourse, Reorder,
      DeleteUser

LEMMA ShownStep == Consistent /\ ShownInv /\ [Next]_vars => ShownInv'
<1> SUFFICES ASSUME Consistent, ShownInv, [Next]_vars PROVE ShownInv'
  OBVIOUS
<1>1. shown \subseteq shown'
  BY ShownGrows
<1>2. \A c \in Courses : course'[c].isPublished => c \in shown'
  BY <1>1, CourseEffects DEF CourseKept, ShownInv
<1>3. ASSUME NEW r \in Requests, req'[r].pc \in {"enrolCheck", "enrolInsert"}
      PROVE  req'[r].course \in shown'
  <2>1. CASE req'[r] = req[r]
    BY <1>1, <1>3, <2>1 DEF ShownInv
  <2>2. CASE SlotMoved(r)
    <3>1. req'[r].course \in Courses
      BY <1>3, ConsistentStep DEF Consistent, SlotsTyped, SlotOK
    <3> QED BY <1>1, <1>3, <2>2, <3>1 DEF SlotMoved, ShownInv, Enrollable
  <2> QED BY <2>1, <2>2, OtherSlots, SlotEffects
<1>4. EnrolledOnlyInShown'
  <2>1. CASE \A e \in Enrolments : EnrolmentKept(e)
    BY <1>1, <2>1 DEF EnrolmentKept, ShownInv, EnrolledOnlyInShown, Present
  <2>2. ASSUME NEW r \in Requests, NEW e \in Enrolments, EnrolmentAdded(r, e)
        PROVE  EnrolledOnlyInShown'
    <3>1. /\ enrolment'[e].course = req[r].course
          /\ \A d \in Enrolments : d # e => enrolment'[d] = enrolment[d]
      BY <2>2 DEF EnrolmentAdded, AddEnrolment, Consistent, RowsTyped
    <3> QED BY <1>1, <2>2, <3>1
            DEF EnrolmentAdded, ShownInv, EnrolledOnlyInShown, Present
  <2> QED BY <2>1, <2>2, EnrolmentEffects
<1> QED BY <1>2, <1>3, <1>4 DEF ShownInv

\* Nobody is enrolled in a course that was never published.
THEOREM ShownFirst == Spec => []EnrolledOnlyInShown
<1>1. Init => ShownInv
  BY IdleSlot DEF Init, ShownInv, EnrolledOnlyInShown, NoEnrolment, NoCourse, Present
<1>2. ShownInv => EnrolledOnlyInShown
  BY DEF ShownInv
<1> QED BY <1>1, <1>2, InitConsistent, ConsistentStep, ShownStep, PTL DEF Spec

-----------------------------------------------------------------------------
(* The order of lessons.  What a slot is about to insert lies above all that *)
(* it has inserted into the course before and nobody has moved since.        *)

OrderInv ==
    /\ SameSlotApart
    /\ \A r \in Requests :
         req[r].pc = "insertLesson" /\ ~req[r].named =>
           \A l \in LessonsOf(req[r].course) :
              r \in creator[l] => lesson[l].order < req[r].order

LEMMA OrderStep == Consistent /\ OrderInv /\ [Next]_vars => OrderInv'
<1> SUFFICES ASSUME Consistent, OrderInv, [Next]_vars PROVE OrderInv'
  OBVIOUS
<1>1. ASSUME NEW r \in Requests, NEW l \in Lessons,
             \A k \in Lessons : LessonKept(k),
             req'[r].pc = "insertLesson", ~req'[r].named,
             Present(lesson'[l]), lesson'[l].course = req'[r].course,
             r \in creator'[l]
      PROVE  lesson'[l].order < req'[r].order
  <2>1. /\ Present(lesson[l]) /\ lesson[l].course = req'[r].course
        /\ r \in creator[l] /\ lesson'[l].order = lesson[l].order
    BY <1>1 DEF LessonKept, Present
  <2>2. CASE req'[r] = req[r]
    BY <1>1, <2>1, <2>2 DEF OrderInv, LessonsOf
  <2>3. CASE SlotMoved(r)
    BY <1>1, <2>1, <2>3 DEF SlotMoved, IsNextOrder, LessonsOf
  <2> QED BY <2>2, <2>3, OtherSlots, SlotEffects
<1>2. CASE \A k \in Lessons : LessonKept(k)
  <2>1. SameSlotApart'
    BY <1>2 DEF LessonKept, OrderInv, SameSlotApart, Present
  <2> QED BY <1>1, <1>2, <2>1 DEF OrderInv, LessonsOf
<1>3. ASSUME NEW r \in Requests, NEW l \in Lessons, LessonAdded(r, l)
      PROVE  OrderInv'
  <2>1. /\ Present(lesson'[l])
        /\ lesson'[l].course = req[r].course /\ lesson'[l].order = req[r].order
        /\ creator'[l] = IF req[r].named THEN {} ELSE {r}
        /\ \A k \in Lessons : k # l =>
             lesson'[k] = lesson[k] /\ creator'[k] = creator[k]
    BY <1>3 DEF LessonAdded, Consistent, RowsTyped, Present
  <2>2. \A k \in Lessons : k # l /\ Present(lesson[k]) /\ r \in creator'[l]
            /\ lesson[k].course = req[r].course /\ r \in creator[k]
          => lesson[k].order < req[r].order
    BY <1>3, <2>1 DEF LessonAdded, OrderInv, LessonsOf
  <2>3. \A k \in Lessons : lesson[k].order \in Nat
    BY DEF Consistent, RowsTyped, LessonRow
  <2>4. SameSlotApart'
    <3> SUFFICES ASSUME NEW j \in Lessons, NEW k \in Lessons, j # k,
                        Present(lesson'[j]), Present(lesson'[k]),
                        lesson'[j].course = lesson'[k].course,
                        lesson'[j].order = lesson'[k].order,
                        NEW x \in Requests, x \in creator'[j], x \in creator'[k]
                 PROVE  FALSE
      BY ConsistentStep DEF SameSlotApart, Consistent, RowsTyped, Present
    <3>1. CASE j # l /\ k # l
      BY <2>1, <3>1 DEF OrderInv, SameSlotApart
    <3>2. CASE j = l
      BY <2>1, <2>2, <2>3, <3>2
    <3>3. CASE k = l
      BY <2>1, <2>2, <2>3, <3>3
    <3> QED BY <3>1, <3>2, <3>3
  <2>5. ASSUME NEW x \in Requests, NEW k \in Lessons,
               req'[x].pc = "insertLesson", ~req'[x].named,
               Present(lesson'[k]), lesson'[k].course = req'[x].course,
               x \in creator'[k]
        PROVE  lesson'[k].order < req'[x].order
    <3>1. x # r
      BY <1>3, <2>5 DEF LessonAdded
    <3>2. k # l
      BY <2>1, <2>5, <3>1
    <3>3. CASE req'[x] = req[x]
      BY <2>1, <2>5, <3>2, <3>3 DEF OrderInv, LessonsOf
    <3>4. CASE SlotMoved(x)
      BY <2>1, <2>5, <3>2, <3>4 DEF SlotMoved, IsNextOrder, LessonsOf
    <3> QED BY <3>3, <3>4, OtherSlots, SlotEffects
  <2> QED BY <2>4, <2>5 DEF OrderInv, LessonsOf
<1> QED BY <1>2, <1>3, LessonEffects

\* One slot never gives two lessons of a course the same order.
THEOREM NeverRepeatsOrder == Spec => []SameSlotApart
<1>1. Init => OrderInv
  BY IdleSlot DEF Init, OrderInv, SameSlotApart, NoLesson, Present
<1>2. OrderInv => SameSlotApart
  BY DEF OrderInv
<1> QED BY <1>1, <1>2, InitConsistent, ConsistentStep, OrderStep, PTL DEF Spec

-----------------------------------------------------------------------------
(* Who edits.  The test a slot has made holds of the row it names for as     *)
(* long as that row exists.                                                  *)

EditorInv ==
    \A r \in Requests :
        /\ req[r].pc \in {"toggle", "dropCourse", "lastOrder", "insertLesson"} =>
             /\ course[req[r].course].status # "unused"
             /\ Present(course[req[r].course]) => Editor(req[r].by, req[r].course)
        /\ req[r].pc \in {"moveLesson", "dropLesson"} =>
             /\ lesson[req[r].lesson].status # "unused"
             /\ Present(lesson[req[r].lesson]) =>
                  Editor(req[r].by, lesson[req[r].lesson].course)
        /\ req[r].pc = "unenrol" =>
             /\ enrolment[req[r].enrolment].status # "unused"
             /\ Present(enrolment[req[r].enrolment]) =>
                  enrolment[req[r].enrolment].student = req[r].by
\* The test of a slot that names a course, a lesson or an enrolment.
LEMMA EditorStep == Consistent /\ EditorInv /\ [Next]_vars => EditorInv'
<1> SUFFICES ASSUME Consistent, EditorInv, [Next]_vars PROVE EditorInv'
  OBVIOUS
<1>1. \A c \in Courses : course[c].status # "unused" =>
        /\ course'[c].status # "unused"
        /\ Present(course'[c]) =>
             Present(course[c]) /\ course'[c].teacher = course[c].teacher
  BY CourseEffects DEF CourseKept, Present
<1>2. \A l \in Lessons : lesson[l].status # "unused" =>
        /\ lesson'[l].status # "unused"
        /\ Present(lesson'[l]) =>
             Present(lesson[l]) /\ lesson'[l].course = lesson[l].course
  <2>1. CASE \A l \in Lessons : LessonKept(l)
    BY <2>1 DEF LessonKept, Present
  <2>2. ASSUME NEW r \in Requests, NEW k \in Lessons, LessonAdded(r, k),
               NEW l \in Lessons, lesson[l].status # "unused"
        PROVE  lesson'[l] = lesson[l]
    BY <2>2 DEF LessonAdded, Consistent, RowsTyped
  <2> QED BY <2>1, <2>2, LessonEffects
<1>3. \A e \in Enrolments : enrolment[e].status # "unused" =>
        /\ enrolment'[e].status # "unused"
        /\ Present(enrolment'[e]) =>
             Present(enrolment[e]) /\ enrolment'[e].student = enrolment[e].student
  <2>1. CASE \A e \in Enrolments : EnrolmentKept(e)
    BY <2>1 DEF EnrolmentKept, Present
  <2>2. ASSUME NEW r \in Requests, NEW d \in Enrolments, EnrolmentAdded(r, d),
               NEW e \in Enrolments, enrolment[e].status # "unused"
        PROVE  enrolment'[e] = enrolment[e]
    BY <2>2 DEF EnrolmentAdded, AddEnrolment, Consistent, RowsTyped
  <2> QED BY <2>1, <2>2, EnrolmentEffects
<1> SUFFICES ASSUME NEW r \in Requests
             PROVE  /\ req'[r].pc \in {"toggle", "dropCourse", "lastOrder",
                                       "insertLesson"} =>
                         /\ course'[req'[r].course].status # "unused"
                         /\ Present(course'[req'[r].course]) =>
                              course'[req'[r].course].teacher = req'[r].by
                                \/ req'[r].by \in Admins
                    /\ req'[r].pc \in {"moveLesson", "dropLesson"} =>
                         /\ lesson'[req'[r].lesson].status # "unused"
                         /\ Present(lesson'[req'[r].lesson]) =>
                              course'[lesson'[req'[r].lesson].course].teacher = req'[r].by
                                \/ req'[r].by \in Admins
                    /\ req'[r].pc = "unenrol" =>
                         /\ enrolment'[req'[r].enrolment].status # "unused"
                         /\ Present(enrolment'[req'[r].enrolment]) =>
                              enrolment'[req'[r].enrolment].student = req'[r].by
  BY DEF EditorInv, Editor, Present
<1>4. CASE SlotMoved(r)
  BY <1>4 DEF SlotMoved, rows, MayEdit, EditorInv, Editor, Present
<1>5. CASE req'[r] = req[r]
  <2>1. SlotOK(req[r]) /\ Consistent'
    BY ConsistentStep DEF Consistent, SlotsTyped
  <2>2. CASE req[r].pc \in {"toggle", "dropCourse", "lastOrder", "insertLesson"}
    BY <1>1, <1>5, <2>1, <2>2 DEF EditorInv, Editor, SlotOK
  <2>3. CASE req[r].pc \in {"moveLesson", "dropLesson"}
    <3>1. req[r].lesson \in Lessons
      BY <2>1, <2>3 DEF SlotOK
    <3>2. ASSUME Present(lesson'[req[r].lesson])
          PROVE  course'[lesson'[req[r].lesson].course].teacher = req[r].by
                   \/ req[r].by \in Admins
      <4>1. /\ Present(lesson[req[r].lesson])
            /\ lesson'[req[r].lesson].course = lesson[req[r].lesson].course
            /\ Editor(req[r].by, lesson[req[r].lesson].course)
        BY <1>2, <2>3, <3>1, <3>2 DEF EditorInv
      <4>2. /\ lesson[req[r].lesson].course \in Courses
            /\ course[lesson[req[r].lesson].course].status # "unused"
        BY <3>1, <4>1 DEF Consistent, Linked, Present
      <4>3. Present(course'[lesson'[req[r].lesson].course])
        BY <2>1, <3>1, <3>2 DEF Consistent, Linked, Present
      <4> QED BY <1>1, <4>1, <4>2, <4>3 DEF Editor
    <3> QED BY <1>2, <1>5, <2>3, <3>1, <3>2 DEF EditorInv
  <2>4. CASE req[r].pc = "unenrol"
    BY <1>3, <1>5, <2>1, <2>4 DEF EditorInv, SlotOK
  <2> QED BY <1>5, <2>2, <2>3, <2>4
<1> QED BY <1>4, <1>5, OtherSlots, SlotEffects

LEMMA InitEditor == Init => EditorInv
  BY IdleSlot DEF Init, EditorInv

\* A write of a slot reaches a row that is there, and that it may edit.
LEMMA EditorWrites ==
  ASSUME Consistent, EditorInv, NEW r \in Requests, RequestStep(r)
  PROVE  /\ \A c \in Courses : course'[c] # course[c] => Editor(req[r].by, c)
         /\ \A l \in Lessons : lesson'[l] # lesson[l] =>
              Editor(req[r].by, IF Present(lesson[l]) THEN lesson[l].course
                                ELSE lesson'[l].course)
<1> USE DEF Consistent
<1>1. CASE TogglePublish(r)
  <2>1. \A c \in Courses : course'[c] # course[c] =>
          c = req[r].course /\ Present(course[c])
    BY <1>1 DEF TogglePublish, RowsTyped
  <2> QED BY <1>1, <2>1 DEF TogglePublish, EditorInv
<1>2. CASE DeleteCourse(r)
  <2>1. req[r].pc = "dropCourse"
    BY <1>2 DEF DeleteCourse
  <2>2. \A c \in Courses : course'[c] # course[c] =>
          c = req[r].course /\ Present(course[c])
    BY <1>2 DEF DeleteCourse, Erase, RowsTyped
  <2>3. \A l \in Lessons : lesson'[l] # lesson[l] =>
          /\ Present(lesson[l]) /\ lesson[l].course = req[r].course
          /\ Present(course[req[r].course])
    BY <1>2 DEF DeleteCourse, Erase, LessonsOf, RowsTyped
  <2> QED BY <2>1, <2>2, <2>3 DEF EditorInv
<1>3. CASE InsertLesson(r)
  <2>1. UNCHANGED course
    BY <1>3 DEF InsertLesson
  <2>2. ASSUME NEW l \in Lessons, lesson'[l] # lesson[l]
        PROVE  /\ ~Present(lesson[l])
               /\ lesson'[l].course = req[r].course
               /\ Present(course[req[r].course])
    BY <1>3, <2>2 DEF InsertLesson, RowsTyped, Present
  <2> QED BY <1>3, <2>1, <2>2 DEF InsertLesson, EditorInv
<1>4. CASE MoveLesson(r) \/ DeleteLesson(r)
  <2>1. UNCHANGED course
    BY <1>4 DEF MoveLesson, DeleteLesson
  <2>2. ASSUME NEW l \in Lessons, lesson'[l] # lesson[l]
        PROVE  l = req[r].lesson /\ Present(lesson[l])
    BY <1>4, <2>2 DEF MoveLesson, DeleteLesson, RowsTyped
  <2> QED BY <1>4, <2>1, <2>2 DEF MoveLesson, DeleteLesson, EditorInv
<1>5. CASE UNCHANGED <<course, lesson>>
  BY <1>5
<1> QED BY <1>1, <1>2, <1>3, <1>4, <1>5
        DEF RequestStep, CoursesController, LessonsController, EnrollmentsController,
            ReadCourse, ReadLesson, ReadLastOrder, ReadForEnrol, ReadForUnenrol,
            CheckEnrolled, Enrol, Unenrol, Abort, rows

\* No handler writes to a course, or a lesson of a course, that its caller may
\* not edit, whatever happened since it was tested.
THEOREM EditorsOnly == Spec => OnlyEditorsEdit
<1>1. Consistent /\ EditorInv /\ [Next]_vars =>
        [\A r \in Requests : req'[r] # req[r] =>
           /\ \A c \in Courses : course'[c] # course[c] => Editor(req[r].by, c)
           /\ \A l \in Lessons :
                lesson'[l] # lesson[l] =>
                  Editor(req[r].by, IF Present(lesson[l]) THEN lesson[l].course
                                    ELSE lesson'[l].course)]_vars
  BY OtherSlots, EditorWrites
<1> QED BY <1>1, InitConsistent, ConsistentStep, InitEditor, EditorStep, PTL
        DEF Spec, OnlyEditorsEdit

\* A request that leaves a course ends what it found, and that is its caller's.
THEOREM UnenrolPrecise == Spec => UnenrolEndsWhatItFound
<1>1. ASSUME Consistent, EditorInv, [Next]_vars, NEW r \in Requests,
             NEW e \in Enrolments, req'[r] # req[r], req[r].pc # "dropCourse",
             Present(enrolment[e]), ~Present(enrolment'[e])
      PROVE  e = req[r].enrolment /\ enrolment[e].student = req[r].by
  <2>1. RequestStep(r) /\ enrolment'[e] # enrolment[e]
    BY <1>1, OtherSlots
  <2>2. CASE Enrol(r)
    BY <1>1, <2>2 DEF Enrol, AddEnrolment, Present, Consistent, RowsTyped
  <2>3. CASE Unenrol(r)
    <3>1. e = req[r].enrolment /\ req[r].pc = "unenrol"
      BY <2>1, <2>3 DEF Unenrol, Unenrolled
    <3> QED BY <1>1, <3>1 DEF EditorInv
  <2> QED BY <1>1, <2>1, <2>2, <2>3
          DEF RequestStep, CoursesController, LessonsController,
              EnrollmentsController, ReadCourse, TogglePublish, DeleteCourse,
              ReadLesson, ReadLastOrder, InsertLesson, MoveLesson, DeleteLesson,
              ReadForEnrol, ReadForUnenrol, CheckEnrolled, Abort, rows
<1>2. Consistent /\ EditorInv /\ [Next]_vars =>
        [\A r \in Requests, e \in Enrolments :
           /\ req'[r] # req[r] /\ req[r].pc # "dropCourse"
           /\ Present(enrolment[e]) /\ ~Present(enrolment'[e])
           => e = req[r].enrolment /\ enrolment[e].student = req[r].by]_vars
  BY <1>1
<1> QED BY <1>2, InitConsistent, ConsistentStep, InitEditor, EditorStep, PTL
        DEF Spec, UnenrolEndsWhatItFound

-----------------------------------------------------------------------------
(* The tables are Rosters.  Each action that writes a course, an account   *)
(* or an enrolment is an action of Rosters or changes none of its          *)
(* variables; the other actions write none.                                *)

Stages == [c \in Courses |-> StageOf(c)]
Teachers == [c \in Courses |-> course[c].teacher]
Seats == [u \in Users |-> [c \in Courses |-> Cardinality(EnrolledIn(u, c))]]
RosterVars == <<accounts, Stages, Teachers, Seats>>

\* Only a course that has been created is ever shown.
ShownExist == \A c \in shown : course[c].status # "unused"

LEMMA ShownExistStep == Consistent /\ ShownExist /\ [Next]_vars => ShownExist'
<1> SUFFICES ASSUME Consistent, ShownExist, [Next]_vars PROVE ShownExist'
  OBVIOUS
<1>1. ASSUME NEW c \in shown' PROVE c \in shown \/ Present(course[c])
  <2>1. UNCHANGED shown \/ \E r \in Requests : TogglePublish(r)
    BY DEF Next, vars, rows, CoursesController, LessonsController,
        EnrollmentsController, ReadCourse, DeleteCourse, ReadLesson,
        ReadLastOrder, InsertLesson, MoveLesson, DeleteLesson, ReadForEnrol,
        ReadForUnenrol, CheckEnrolled, Enrol, Unenrol, Abort, CreateCourse, Reorder,
        DeleteUser
  <2> QED BY <1>1, <2>1 DEF TogglePublish
<1>2. ASSUME NEW c \in shown' PROVE course'[c].status # "unused"
  <2>1. c \in Courses
    BY <1>2, ConsistentStep DEF Consistent, RowsTyped
  <2>2. course[c].status # "unused"
    BY <1>1, <1>2 DEF ShownExist, Present
  <2> QED BY <2>1, <2>2, CourseEffects DEF CourseKept
<1> QED BY <1>2 DEF ShownExist

\* How many seats a student holds.
LEMMA SeatCounts ==
  ASSUME EnrolledOnce, NEW u \in Users, NEW c \in Courses
  PROVE  /\ EnrolledIn(u, c) = {} => Seats[u][c] = 0
         /\ \A e \in EnrolledIn(u, c) : EnrolledIn(u, c) = {e} /\ Seats[u][c] = 1
<1>1. Seats[u][c] = Cardinality(EnrolledIn(u, c))
  BY DEF Seats
<1>2. ASSUME NEW e \in EnrolledIn(u, c) PROVE EnrolledIn(u, c) = {e}
  BY <1>2 DEF EnrolledIn, EnrolledOnce
<1> QED BY <1>1, <1>2, FS_EmptySet, FS_Singleton

\* The seats depend on which enrolments a student has, and on nothing else.
LEMMA SeatsFollow ==
  ASSUME NEW u \in Users, NEW c \in Courses, EnrolledIn(u, c)' = EnrolledIn(u, c)
  PROVE  Seats'[u][c] = Seats[u][c]
  BY DEF Seats

LEMMA SeatsTyped ==
    Seats = [u \in Users |-> [c \in Courses |-> Seats[u][c]]]
  BY DEF Seats

LEMMA SeatsTypedNext ==
    Seats' = [u \in Users |-> [c \in Courses |-> Seats'[u][c]]]
  BY DEF Seats

LEMMA CoursesFollow ==
  ASSUME UNCHANGED <<course, shown>>
  PROVE  UNCHANGED <<Stages, Teachers>>
  BY DEF Stages, Teachers, StageOf, Present

LEMMA EnrolmentsFollow ==
  ASSUME UNCHANGED enrolment
  PROVE  UNCHANGED Seats
  BY DEF Seats, EnrolledIn, Present

\* Erase clears the seats of the courses and the users it deletes.
LEMMA EraseClears ==
  ASSUME Consistent, EnrolledOnce, NEW C \in SUBSET Courses, NEW U \in SUBSET Users,
         Erase(C, U), accounts' = accounts \ U, UNCHANGED shown,
         \A c \in C : Present(course[c])
  PROVE  Roster!Clear(C, U)
<1>1. Stages' = [c \in Courses |-> IF c \in C THEN "closed" ELSE Stages[c]]
  <2>1. ASSUME NEW c \in Courses
        PROVE  StageOf(c)' = IF c \in C THEN "closed" ELSE StageOf(c)
    BY GoneRows DEF Erase, StageOf, Present
  <2> QED BY <2>1 DEF Stages
<1>2. Teachers' = [c \in Courses |-> IF c \in C THEN None ELSE Teachers[c]]
  BY DEF Teachers, Erase, NoCourse
<1>3. Seats' = [u \in Users |-> [c \in Courses |->
                  IF c \in C \/ u \in U THEN 0 ELSE Seats[u][c]]]
  <2>2. ASSUME NEW u \in Users, NEW c \in Courses, c \in C \/ u \in U
        PROVE  Seats'[u][c] = 0
    <3>1. EnrolledIn(u, c)' = {}
      BY <2>2, GoneRows DEF Erase, EnrolledIn, Present
    <3>2. Cardinality(EnrolledIn(u, c))' = 0
      BY <3>1, FS_EmptySet
    <3> QED BY <3>2 DEF Seats
  <2>3. ASSUME NEW u \in Users, NEW c \in Courses, ~(c \in C \/ u \in U)
        PROVE  Seats'[u][c] = Seats[u][c]
    <3>1. EnrolledIn(u, c)' = EnrolledIn(u, c)
      BY <2>3, GoneRows DEF Erase, EnrolledIn, Present
    <3> QED BY <3>1, SeatsFollow
  <2> QED BY <2>2, <2>3 DEF Seats
<1> QED BY <1>1, <1>2, <1>3 DEF Roster!Clear, Stages, Teachers, Seats

LEMMA OfferStep ==
  ASSUME Consistent, ShownExist, NEW u \in Users, NEW c \in Courses,
         CreateCourse(u, c)
  PROVE  Roster!Offer(u, c)
<1>1. course' = [course EXCEPT ![c] = [NoCourse("present") EXCEPT !.teacher = u]]
  BY DEF CreateCourse
<1>2. course'[c].status = "present" /\ course'[c].teacher = u
  BY <1>1 DEF NoCourse, Consistent, RowsTyped
<1>3. \A d \in Courses : d # c => course'[d] = course[d]
  BY <1>1 DEF Consistent, RowsTyped
<1>4. StageOf(c) = "none" /\ c \notin shown /\ StageOf(c)' = "draft"
  BY <1>2 DEF CreateCourse, StageOf, ShownExist, Present
<1>5. Stages' = [Stages EXCEPT ![c] = "draft"]
  BY <1>3, <1>4 DEF Stages, StageOf, Present, CreateCourse
<1>6. Teachers' = [Teachers EXCEPT ![c] = u]
  BY <1>2, <1>3 DEF Teachers
<1> QED BY <1>4, <1>5, <1>6, EnrolmentsFollow
        DEF Roster!Offer, CreateCourse, Stages, Teachers, Seats

\* A course is published for the first time, or its row says nothing new.
LEMMA ShowStep ==
  ASSUME Consistent, NEW r \in Requests, TogglePublish(r)
  PROVE  (\E c \in Courses : Roster!Show(c)) \/ UNCHANGED RosterVars
<1>1. PICK c \in Courses : c = req[r].course
  BY DEF TogglePublish, Consistent, SlotsTyped, SlotOK
<1>2. UNCHANGED <<accounts, Seats>>
  BY EnrolmentsFollow DEF TogglePublish
<1>3. CASE ~Present(course[c])
  BY <1>1, <1>2, <1>3, CoursesFollow DEF TogglePublish, RosterVars
<1>4. CASE Present(course[c])
  <2>1. \A d \in Courses : course'[d].status = course[d].status
                           /\ course'[d].teacher = course[d].teacher
    BY <1>1, <1>4 DEF TogglePublish, Consistent, RowsTyped, CourseRow
  <2>2. UNCHANGED Teachers
    BY <2>1 DEF Teachers
  <2>3. \A d \in Courses : d # c \/ shown' = shown => StageOf(d)' = StageOf(d)
    BY <1>1, <1>4, <2>1 DEF TogglePublish, StageOf, Present
  <2>4. CASE shown' = shown
    BY <1>2, <2>2, <2>3, <2>4 DEF Stages, RosterVars
  <2>5. CASE shown' # shown
    <3>1. c \notin shown /\ c \in shown'
      BY <1>1, <1>4, <2>5 DEF TogglePublish
    <3>2. StageOf(c) = "draft" /\ StageOf(c)' = "shown"
      BY <1>1, <1>4, <2>1, <3>1 DEF StageOf, Present
    <3>3. Stages' = [Stages EXCEPT ![c] = "shown"] /\ Stages[c] = "draft"
      BY <1>1, <2>3, <3>2 DEF Stages
    <3> QED BY <1>1, <1>2, <2>2, <3>3 DEF Roster!Show, Stages, Teachers, Seats
  <2> QED BY <2>4, <2>5
<1> QED BY <1>3, <1>4

LEMMA CloseStep ==
  ASSUME Consistent, EnrolledOnce, NEW r \in Requests, DeleteCourse(r)
  PROVE  (\E c \in Courses : Roster!Close(c)) \/ UNCHANGED RosterVars
<1> DEFINE c == req[r].course
<1>1. c \in Courses
  BY DEF DeleteCourse, Consistent, SlotsTyped, SlotOK
<1>2. CASE ~Present(course[c])
  BY <1>2, CoursesFollow, EnrolmentsFollow DEF DeleteCourse, RosterVars
<1>3. CASE Present(course[c])
  <2>1. Erase({c}, {}) /\ accounts' = accounts \ {} /\ UNCHANGED shown
    BY <1>3 DEF DeleteCourse
  <2>2. Roster!Clear({c}, {})
    BY <1>1, <1>3, <2>1, EraseClears
  <2>3. Roster!Open(c)
    BY <1>1, <1>3 DEF Roster!Open, StageOf, Present
  <2> QED BY <1>1, <2>2, <2>3 DEF Roster!Close
<1> QED BY <1>2, <1>3

LEMMA RemoveStep ==
  ASSUME Consistent, EnrolledOnce, NEW u \in Users, DeleteUser(u)
  PROVE  Roster!Remove(u)
<1>1. PICK C \in SUBSET Courses :
        C = {c \in Courses : Present(course[c]) /\ course[c].teacher = u}
  OBVIOUS
<1>2. Erase(C, {u}) /\ u \in accounts /\ accounts' = accounts \ {u} /\ UNCHANGED shown
  BY <1>1 DEF DeleteUser
<1>3. Roster!Clear(C, {u})
  BY <1>1, <1>2, EraseClears
<1>4. \A c \in Courses : Roster!Open(c) <=> Present(course[c])
  <2>1. ASSUME NEW c \in Courses PROVE Roster!Open(c) <=> Present(course[c])
    <3>1. course[c].status \in Statuses
      BY DEF Consistent, RowsTyped, CourseRow
    <3> QED BY <3>1 DEF Roster!Open, StageOf, Present, Statuses
  <2> QED BY <2>1
<1>5. C = {c \in Courses : Roster!Open(c) /\ Teachers[c] = u}
  BY <1>1, <1>4 DEF Teachers
<1> QED BY <1>2, <1>3, <1>5 DEF Roster!Remove, Teachers

\* An enrolment that is written is the first of its student in a course that is
\* open and has been shown.
LEMMA TakeStep ==
  ASSUME Consistent, EnrolledOnce, ShownInv, NEW r \in Requests, Enrol(r)
  PROVE  \/ \E u \in Users, c \in Courses : Roster!TakeSeat(u, c)
         \/ UNCHANGED RosterVars
<1>1. PICK u \in Users, c \in Courses : u = req[r].by /\ c = req[r].course
  BY DEF Enrol, Consistent, SlotsTyped, SlotOK
<1>2. UNCHANGED <<accounts, Stages, Teachers>>
  BY CoursesFollow DEF Enrol
<1>3. CASE UNCHANGED enrolment
  BY <1>2, <1>3, EnrolmentsFollow DEF RosterVars
<1>4. CASE ~UNCHANGED enrolment
  <2>1. PICK e \in Enrolments :
          SchemaAllows(u, c) /\ enrolment[e].status = "unused" /\ AddEnrolment(e, u, c)
    BY <1>1, <1>4 DEF Enrol
  <2>2. u \in accounts /\ Stages[c] = "shown" /\ Seats[u][c] = 0
    BY <1>1, <2>1, SeatCounts
    DEF SchemaAllows, ShownInv, Enrol, Stages, StageOf, Present
  <2>3. /\ Present(enrolment'[e])
        /\ enrolment'[e].student = u /\ enrolment'[e].course = c
        /\ \A d \in Enrolments : d # e => enrolment'[d] = enrolment[d]
        /\ ~Present(enrolment[e])
    BY <2>1 DEF AddEnrolment, Present, Consistent, RowsTyped
  <2>4. EnrolledIn(u, c)' = {e}
    BY <2>1, <2>3 DEF SchemaAllows, EnrolledIn
  <2>5. Seats'[u][c] = 1
    BY <1>1, <2>4, FS_Singleton DEF Seats
  <2>6. ASSUME NEW w \in Users, NEW d \in Courses, w # u \/ d # c
        PROVE  Seats'[w][d] = Seats[w][d]
    <3>1. EnrolledIn(w, d)' = EnrolledIn(w, d)
      BY <2>3, <2>6 DEF EnrolledIn, Present
    <3> QED BY <3>1, SeatsFollow
  <2>7. Seats' = [Seats EXCEPT ![u][c] = 1]
    BY <1>1, <2>5, <2>6, SeatsTyped, SeatsTypedNext
  <2> QED BY <1>1, <1>2, <2>2, <2>7 DEF Roster!TakeSeat, Stages, Teachers, Seats
<1> QED BY <1>3, <1>4

\* Leaving ends the one enrolment a student has in a course.
LEMMA LeaveStep ==
  ASSUME Consistent, EnrolledOnce, NEW r \in Requests, Unenrol(r)
  PROVE  \/ \E u \in Users, c \in Courses : Roster!LeaveSeat(u, c)
         \/ UNCHANGED RosterVars
<1>1. PICK e \in Enrolments : e = req[r].enrolment
  BY DEF Unenrol, Consistent, SlotsTyped, SlotOK
<1>2. UNCHANGED <<accounts, Stages, Teachers>>
  BY CoursesFollow DEF Unenrol
<1>3. CASE ~Present(enrolment[e])
  <2>1. UNCHANGED enrolment
    BY <1>1, <1>3 DEF Unenrol, Unenrolled, Consistent, RowsTyped
  <2> QED BY <1>2, <2>1, EnrolmentsFollow DEF RosterVars
<1>4. CASE Present(enrolment[e])
  <2>1. PICK u \in Users, c \in Courses :
          u = enrolment[e].student /\ c = enrolment[e].course
    BY <1>4 DEF Consistent, RowsTyped, Linked
  <2>2. e \in EnrolledIn(u, c)
    BY <1>4, <2>1 DEF EnrolledIn
  <2>3. EnrolledIn(u, c) = {e} /\ Seats[u][c] = 1
    BY <2>1, <2>2, SeatCounts
  <2>4. /\ ~Present(enrolment'[e])
        /\ \A d \in Enrolments : d # e => enrolment'[d] = enrolment[d]
    BY <1>1, <1>4, GoneRows DEF Unenrol, Unenrolled, Present
  <2>5. EnrolledIn(u, c)' = {}
    <3>1. ASSUME NEW d \in Enrolments, Present(enrolment'[d]),
                 enrolment'[d].student = u, enrolment'[d].course = c
          PROVE  FALSE
      BY <2>3, <2>4, <3>1 DEF EnrolledIn
    <3> QED BY <3>1 DEF EnrolledIn
  <2>6. Seats'[u][c] = 0
    BY <2>1, <2>5, FS_EmptySet DEF Seats
  <2>7. ASSUME NEW w \in Users, NEW d \in Courses, w # u \/ d # c
        PROVE  Seats'[w][d] = Seats[w][d]
    <3>1. EnrolledIn(w, d)' = EnrolledIn(w, d)
      BY <1>4, <2>1, <2>4, <2>7 DEF EnrolledIn
    <3> QED BY <3>1, SeatsFollow
  <2>8. u \in Users /\ c \in Courses
    BY <2>1
  <2>9. Seats' = [Seats EXCEPT ![u][c] = 0]
    BY <2>6, <2>7, <2>8, SeatsTyped, SeatsTypedNext
  <2> QED BY <1>2, <2>3, <2>8, <2>9 DEF Roster!LeaveSeat, Stages, Teachers, Seats
<1> QED BY <1>3, <1>4

LEMMA RosterStep ==
  ASSUME Consistent, EnrolledOnce, ShownInv, ShownExist, [Next]_vars
  PROVE  Roster!Next \/ UNCHANGED RosterVars
<1>1. UNCHANGED <<accounts, course, enrolment, shown>> => UNCHANGED RosterVars
  BY CoursesFollow, EnrolmentsFollow DEF RosterVars
<1>2. ASSUME NEW r \in Requests, CoursesController(r)
      PROVE  Roster!Next \/ UNCHANGED RosterVars
  BY <1>1, <1>2, ShowStep, CloseStep DEF CoursesController, ReadCourse, rows, Roster!Next
<1>3. ASSUME NEW r \in Requests, LessonsController(r)
      PROVE  UNCHANGED RosterVars
  BY <1>1, <1>3 DEF LessonsController, ReadLesson, ReadLastOrder, InsertLesson,
      MoveLesson, DeleteLesson, rows
<1>4. ASSUME NEW r \in Requests, EnrollmentsController(r)
      PROVE  Roster!Next \/ UNCHANGED RosterVars
  BY <1>1, <1>4, TakeStep, LeaveStep
  DEF EnrollmentsController, ReadForEnrol, ReadForUnenrol, CheckEnrolled, rows,
      Roster!Next
<1>5. CASE \/ \E r \in Requests : Abort(r)
           \/ \E list \in Lists : Reorder(list)
           \/ UNCHANGED vars
  BY <1>1, <1>5 DEF Abort, rows, Reorder, vars
<1>6. CASE \/ \E u \in Users, c \in Courses : CreateCourse(u, c)
           \/ \E u \in Users : DeleteUser(u)
  BY <1>6, OfferStep, RemoveStep DEF Roster!Next
<1> QED BY <1>2, <1>3, <1>4, <1>5, <1>6 DEF Next

LEMMA InitRoster == Init => Roster!Init
<1> SUFFICES ASSUME Init PROVE Roster!Init
  OBVIOUS
<1>1. \A c \in Courses : StageOf(c) = "none" /\ course[c].teacher = None
  BY DEF Init, NoCourse, StageOf
<1>2. \A u \in Users, c \in Courses : EnrolledIn(u, c) = {}
  BY DEF Init, EnrolledIn, NoEnrolment, Present
<1>3. \A u \in Users, c \in Courses : Cardinality(EnrolledIn(u, c)) = 0
  BY <1>2, FS_EmptySet
<1> QED BY <1>1, <1>3 DEF Init, Roster!Init

\* The controllers and the schema together keep a roster: every statement they
\* make on accounts, courses and enrolments is a step of Rosters or none of its
\* business.
THEOREM RostersImplemented == Spec => RosterSpec
<1>1. Init => EnrolledOnce /\ ShownInv /\ ShownExist
  BY IdleSlot DEF Init, EnrolledOnce, ShownInv, ShownExist, EnrolledOnlyInShown,
      NoEnrolment, NoCourse, Present
<1>2. Consistent /\ EnrolledOnce /\ ShownInv /\ ShownExist /\ [Next]_vars
        => [Roster!Next]_RosterVars
  BY RosterStep
<1> QED BY <1>1, <1>2, InitConsistent, InitRoster, ConsistentStep, EnrolledOnceStep,
           ShownStep, ShownExistStep, PTL
        DEF Spec, RosterSpec, Roster!Spec, RosterVars, Stages, Teachers, Seats
=============================================================================

----------------------------- MODULE Coursework -----------------------------
(***************************************************************************)
(* Courses, their lessons and their enrolments.                            *)
(*                                                                         *)
(* A request is a slot that runs one handler at a time, cut at its awaited *)
(* statements: what a handler has read is in its slot while other requests *)
(* change the rows.  Each statement is atomic, with the foreign keys, the  *)
(* cascades and the unique index of the schema; reorder is a transaction   *)
(* and so is one step.  Titles, texts and links are left out, and with     *)
(* them the handlers that write nothing else.                              *)
(***************************************************************************)
EXTENDS Naturals, FiniteSets

CONSTANTS
    Users,
    Admins,         \* the users whose requests carry the role ADMIN
    Courses,        \* ids a run may use: rows are never created twice
    Lessons,
    Enrolments,
    Requests,       \* request slots (bound on concurrent requests)
    MaxOrder,       \* bound on the order of a lesson
    MaxList,        \* bound on the lessons a reorder names
    None

ASSUME CourseworkAssumption ==
    /\ Admins \subseteq Users
    /\ None \notin Users \union Courses \union Lessons \union Enrolments
    /\ MaxOrder \in Nat
    /\ MaxList \in Nat

VARIABLES
    accounts,   \* the accounts that exist
    course,     \* table courses
    lesson,     \* table lessons
    enrolment,  \* table enrollments
    req,        \* the request slots
    \* History variables: no action reads them in a guard.
    creator,    \* creator[l]: the slot that gave l the order it still has, as
                \* a set; empty once a client has named an order for l
    shown       \* courses that have been published at some time

vars == <<accounts, course, lesson, enrolment, req, creator, shown>>
rows == <<accounts, course, lesson, enrolment, creator, shown>>

-----------------------------------------------------------------------------
Statuses == {"unused", "present", "gone"}

CourseRow == [status : Statuses, teacher : Users \union {None},
              isPublished : BOOLEAN]
LessonRow == [status : Statuses, course : Courses \union {None},
              order : 0..MaxOrder]
EnrolmentRow == [status : Statuses, student : Users \union {None},
                 course : Courses \union {None}]

NoCourse(status) == [status |-> status, teacher |-> None, isPublished |-> FALSE]
NoLesson(status) == [status |-> status, course |-> None, order |-> 0]
NoEnrolment(status) == [status |-> status, student |-> None, course |-> None]

PCs == {"idle", "toggle", "dropCourse", "lastOrder", "insertLesson",
        "moveLesson", "dropLesson", "enrolCheck", "enrolInsert", "unenrol"}

\* named: did the client name the order of the lesson?
RequestType ==
    [pc : PCs, by : Users \union {None}, course : Courses \union {None},
     lesson : Lessons \union {None}, enrolment : Enrolments \union {None},
     order : 0..MaxOrder, named : BOOLEAN, publish : BOOLEAN]

Idle == [pc |-> "idle", by |-> None, course |-> None, lesson |-> None,
         enrolment |-> None, order |-> 0, named |-> FALSE, publish |-> FALSE]

Init ==
    /\ accounts = Users
    /\ course = [c \in Courses |-> NoCourse("unused")]
    /\ lesson = [l \in Lessons |-> NoLesson("unused")]
    /\ enrolment = [e \in Enrolments |-> NoEnrolment("unused")]
    /\ req = [r \in Requests |-> Idle]
    /\ creator = [l \in Lessons |-> {}]
    /\ shown = {}

-----------------------------------------------------------------------------
Present(row) == row.status = "present"

LessonsOf(c) == {l \in Lessons : Present(lesson[l]) /\ lesson[l].course = c}

Go(r, slot) == req' = [req EXCEPT ![r] = slot]

\* Definitions named M_ are faults the runs are shown to notice: what the
\* definition after them would be if the code had that bug.

\* The caller is not compared with the course's teacher.
M_AnyTeacher(u, c) == Present(course[c])

\* The test of update, togglePublish and delete, of courses and of lessons.
MayEdit(u, c) == Present(course[c]) /\ (course[c].teacher = u \/ u \in Admins)

\* The order of the last lesson, not the next one.
M_OrderOfLast(c, n) ==
    /\ \A l \in LessonsOf(c) : lesson[l].order <= n
    /\ n > 0 => \E l \in LessonsOf(c) : lesson[l].order = n

\* n follows the highest order of a lesson of c.  (Bound: n <= MaxOrder.)
IsNextOrder(c, n) ==
    /\ \A l \in LessonsOf(c) : lesson[l].order < n
    /\ n > 0 => \E l \in LessonsOf(c) : lesson[l].order = n - 1

\* Lessons without onDelete: Cascade.
M_EraseKeepsLessons(C, U) ==
    /\ course' = [c \in Courses |-> IF c \in C THEN NoCourse("gone") ELSE course[c]]
    /\ enrolment' = [e \in Enrolments |->
         IF Present(enrolment[e])
              /\ (enrolment[e].course \in C \/ enrolment[e].student \in U)
         THEN NoEnrolment("gone") ELSE enrolment[e]]
    /\ UNCHANGED <<lesson, creator>>

\* Delete the courses C and the students U, with all that cascades.
Erase(C, U) ==
    LET lost == UNION {LessonsOf(c) : c \in C}
    IN  /\ course' = [c \in Courses |->
             IF c \in C THEN NoCourse("gone") ELSE course[c]]
        /\ lesson' = [l \in Lessons |->
             IF l \in lost THEN NoLesson("gone") ELSE lesson[l]]
        /\ creator' = [l \in Lessons |-> IF l \in lost THEN {} ELSE creator[l]]
        /\ enrolment' = [e \in Enrolments |->
             IF Present(enrolment[e])
                  /\ (enrolment[e].course \in C \/ enrolment[e].student \in U)
             THEN NoEnrolment("gone") ELSE enrolment[e]]

-----------------------------------------------------------------------------
(* Courses.  The guard has read the caller's account some time before; the *)
(* account may be gone when the handler's own statements run.              *)

CreateCourse(u, c) ==
    /\ u \in accounts
    /\ course[c].status = "unused"
    /\ course' = [course EXCEPT ![c] = [NoCourse("present") EXCEPT !.teacher = u]]
    /\ UNCHANGED <<accounts, lesson, enrolment, req, creator, shown>>

\* The first half of togglePublish and of delete: read the row, test the caller.
ReadCourse(r, u, c, pc) ==
    /\ req[r].pc = "idle"
    /\ pc \in {"toggle", "dropCourse", "lastOrder"}
    /\ MayEdit(u, c)
    /\ Go(r, [Idle EXCEPT !.pc = pc, !.by = u, !.course = c,
                          !.publish = pc = "toggle" /\ ~course[c].isPublished])
    /\ UNCHANGED rows

\* The second half of togglePublish: the negation of what was read.
TogglePublish(r) ==
    LET c == req[r].course
    IN  /\ req[r].pc = "toggle"
        /\ IF Present(course[c])
           THEN /\ course' = [course EXCEPT ![c].isPublished = req[r].publish]
                /\ shown' = IF req[r].publish THEN shown \union {c} ELSE shown
           ELSE UNCHANGED <<course, shown>>
        /\ Go(r, Idle)
        /\ UNCHANGED <<accounts, lesson, enrolment, creator>>

DeleteCourse(r) ==
    /\ req[r].pc = "dropCourse"
    /\ IF Present(course[req[r].course])
       THEN Erase({req[r].course}, {})
       ELSE UNCHANGED <<course, lesson, enrolment, creator>>
    /\ Go(r, Idle)
    /\ UNCHANGED <<accounts, shown>>

-----------------------------------------------------------------------------
(* Lessons. *)

\* The order of a new lesson: what the client names, or what follows the last.
ReadLastOrder(r) ==
    /\ req[r].pc = "lastOrder"
    /\ \E n \in 0..MaxOrder, named \in BOOLEAN :
         /\ named \/ IsNextOrder(req[r].course, n)
         /\ Go(r, [req[r] EXCEPT !.pc = "insertLesson", !.order = n,
                                 !.named = named])
    /\ UNCHANGED rows

\* lesson.create: fails on its foreign key when the course is gone.
InsertLesson(r) ==
    /\ req[r].pc = "insertLesson"
    /\ \/ /\ Present(course[req[r].course])
          /\ \E l \in Lessons :
               /\ lesson[l].status = "unused"
               /\ lesson' = [lesson EXCEPT ![l] =
                    [status |-> "present", course |-> req[r].course,
                     order |-> req[r].order]]
               /\ creator' = [creator EXCEPT ![l] =
                                IF req[r].named THEN {} ELSE {r}]
       \/ /\ ~Present(course[req[r].course])
          /\ UNCHANGED <<lesson, creator>>
    /\ Go(r, Idle)
    /\ UNCHANGED <<accounts, course, enrolment, shown>>

\* The first half of update and delete; an update that names an order.
ReadLesson(r, u, l, pc) ==
    /\ req[r].pc = "idle"
    /\ pc \in {"moveLesson", "dropLesson"}
    /\ Present(lesson[l])
    /\ MayEdit(u, lesson[l].course)
    /\ Go(r, [Idle EXCEPT !.pc = pc, !.by = u, !.lesson = l])
    /\ UNCHANGED rows

MoveLesson(r) ==
    LET l == req[r].lesson
    IN  /\ req[r].pc = "moveLesson"
        /\ IF Present(lesson[l])
           THEN /\ \E n \in 0..MaxOrder : lesson' = [lesson EXCEPT ![l].order = n]
                /\ creator' = [creator EXCEPT ![l] = {}]
           ELSE UNCHANGED <<lesson, creator>>
        /\ Go(r, Idle)
        /\ UNCHANGED <<accounts, course, enrolment, shown>>

DeleteLesson(r) ==
    LET l == req[r].lesson
    IN  /\ req[r].pc = "dropLesson"
        /\ IF Present(lesson[l])
           THEN /\ lesson' = [lesson EXCEPT ![l] = NoLesson("gone")]
                /\ creator' = [creator EXCEPT ![l] = {}]
           ELSE UNCHANGED <<lesson, creator>>
        /\ Go(r, Idle)
        /\ UNCHANGED <<accounts, course, enrolment, shown>>

\* What a client may send to reorder, of any course: ids without repetition.
Lists ==
    {list \in UNION {[1..n -> Lessons] : n \in 1..MaxList} :
        \A i, j \in DOMAIN list : list[i] = list[j] => i = j}

\* A transaction of one update per id: all of them or, if a row is missing,
\* none.  The route asks for the role of a teacher and for nothing else.
Reorder(list) ==
    /\ \A i \in DOMAIN list : Present(lesson[list[i]]) /\ i - 1 <= MaxOrder
    /\ lesson' = [l \in Lessons |->
         IF \E i \in DOMAIN list : list[i] = l
         THEN [lesson[l] EXCEPT !.order =
                 (CHOOSE i \in DOMAIN list : list[i] = l) - 1]
         ELSE lesson[l]]
    /\ creator' = [l \in Lessons |->
         IF \E i \in DOMAIN list : list[i] = l THEN {} ELSE creator[l]]
    /\ UNCHANGED <<accounts, course, enrolment, req, shown>>

-----------------------------------------------------------------------------
(* Enrolments. *)

\* isPublished not tested.
M_Unpublished(c) == Present(course[c])

Enrollable(c) == Present(course[c]) /\ course[c].isPublished

EnrolledIn(u, c) ==
    {e \in Enrolments : Present(enrolment[e])
                          /\ enrolment[e].student = u /\ enrolment[e].course = c}

ReadForEnrol(r, u, c) ==
    /\ req[r].pc = "idle"
    /\ Enrollable(c)
    /\ Go(r, [Idle EXCEPT !.pc = "enrolCheck", !.by = u, !.course = c])
    /\ UNCHANGED rows

CheckEnrolled(r) ==
    /\ req[r].pc = "enrolCheck"
    /\ Go(r, IF EnrolledIn(req[r].by, req[r].course) = {}
             THEN [req[r] EXCEPT !.pc = "enrolInsert"] ELSE Idle)
    /\ UNCHANGED rows

\* Without the unique index.
M_KeyUnindexed(u, c) == u \in accounts /\ Present(course[c])

\* What the schema asks of a new enrolment: both foreign keys, the unique index.
SchemaAllows(u, c) ==
    u \in accounts /\ Present(course[c]) /\ EnrolledIn(u, c) = {}

\* student and course in each other's column.
M_ColumnsSwapped(e, u, c) ==
    enrolment' = [enrolment EXCEPT ![e] =
                    [status |-> "present", student |-> c, course |-> u]]

AddEnrolment(e, u, c) ==
    enrolment' = [enrolment EXCEPT ![e] =
                    [status |-> "present", student |-> u, course |-> c]]

Enrol(r) ==
    /\ req[r].pc = "enrolInsert"
    /\ \/ /\ SchemaAllows(req[r].by, req[r].course)
          /\ \E e \in Enrolments :
               /\ enrolment[e].status = "unused"
               /\ AddEnrolment(e, req[r].by, req[r].course)
       \/ /\ ~SchemaAllows(req[r].by, req[r].course)
          /\ UNCHANGED enrolment
    /\ Go(r, Idle)
    /\ UNCHANGED <<accounts, course, lesson, creator, shown>>

ReadForUnenrol(r, u, c) ==
    /\ req[r].pc = "idle"
    /\ \E e \in EnrolledIn(u, c) :
         Go(r, [Idle EXCEPT !.pc = "unenrol", !.by = u, !.course = c,
                            !.enrolment = e])
    /\ UNCHANGED rows

\* The delete names student and course, not the row that was read.
M_DropsByKey(r) == EnrolledIn(req[r].by, req[r].course)

\* The rows the delete of unenroll reaches.
Unenrolled(r) == {e \in {req[r].enrolment} : Present(enrolment[e])}

Unenrol(r) ==
    /\ req[r].pc = "unenrol"
    /\ enrolment' = [e \in Enrolments |->
         IF e \in Unenrolled(r) THEN NoEnrolment("gone") ELSE enrolment[e]]
    /\ Go(r, Idle)
    /\ UNCHANGED <<accounts, course, lesson, creator, shown>>

-----------------------------------------------------------------------------
\* A statement fails or the process stops: every handler here writes once, so
\* nothing is half done.
Abort(r) ==
    /\ req[r].pc # "idle"
    /\ Go(r, Idle)
    /\ UNCHANGED rows

\* An administrator deletes an account.
DeleteUser(u) ==
    /\ u \in accounts
    /\ accounts' = accounts \ {u}
    /\ Erase({c \in Courses : Present(course[c]) /\ course[c].teacher = u}, {u})
    /\ UNCHANGED <<req, shown>>

CoursesController(r) ==
    \/ \E u \in Users, c \in Courses, pc \in PCs : ReadCourse(r, u, c, pc)
    \/ TogglePublish(r)
    \/ DeleteCourse(r)

LessonsController(r) ==
    \/ \E u \in Users, l \in Lessons, pc \in PCs : ReadLesson(r, u, l, pc)
    \/ ReadLastOrder(r)
    \/ InsertLesson(r)
    \/ MoveLesson(r)
    \/ DeleteLesson(r)

EnrollmentsController(r) ==
    \/ \E u \in Users, c \in Courses : ReadForEnrol(r, u, c) \/ ReadForUnenrol(r, u, c)
    \/ CheckEnrolled(r)
    \/ Enrol(r)
    \/ Unenrol(r)

Next ==
    \/ \E r \in Requests :
         \/ CoursesController(r)
         \/ LessonsController(r)
         \/ EnrollmentsController(r)
         \/ Abort(r)
    \/ \E u \in Users, c \in Courses : CreateCourse(u, c)
    \/ \E list \in Lists : Reorder(list)
    \/ \E u \in Users : DeleteUser(u)

Spec == Init /\ [][Next]_vars

-----------------------------------------------------------------------------
TypeOK ==
    /\ accounts \subseteq Users
    /\ course \in [Courses -> CourseRow]
    /\ lesson \in [Lessons -> LessonRow]
    /\ enrolment \in [Enrolments -> EnrolmentRow]
    /\ req \in [Requests -> RequestType]
    /\ creator \in [Lessons -> SUBSET Requests]
    /\ shown \subseteq Courses

\* Whatever is deleted while a handler is between its reads and its write, no
\* row is left without the rows it refers to.
NoOrphans ==
    /\ \A c \in Courses : Present(course[c]) => course[c].teacher \in accounts
    /\ \A l \in Lessons : Present(lesson[l]) => Present(course[lesson[l].course])
    /\ \A e \in Enrolments :
         Present(enrolment[e]) =>
           Present(course[enrolment[e].course]) /\ enrolment[e].student \in accounts

\* However many requests enrol a student at once, he is enrolled once: the
\* lookup of enroll cannot see to it, the unique index does.
EnrolledOnce ==
    \A d, e \in Enrolments :
        /\ Present(enrolment[d]) /\ Present(enrolment[e])
        /\ enrolment[d].student = enrolment[e].student
        /\ enrolment[d].course = enrolment[e].course
        => d = e

\* Nobody is enrolled in a course that was never published.  (It may have been
\* withdrawn since, even before the enrolment was written.)
EnrolledOnlyInShown ==
    \A e \in Enrolments : Present(enrolment[e]) => enrolment[e].course \in shown

\* Two lessons of a course whose order the server chose share it only if two
\* requests were creating them at once: one slot never repeats an order, what
\* ever is moved, reordered or deleted in between.
SameSlotApart ==
    \A k, l \in Lessons :
        /\ k # l /\ Present(lesson[k]) /\ Present(lesson[l])
        /\ lesson[k].course = lesson[l].course
        /\ lesson[k].order = lesson[l].order
        => creator[k] \intersect creator[l] = {}

\* The tables are Rosters: whatever is created, deleted and enrolled while a
\* handler is between its reads and its write, a course opens and closes once,
\* each enrolment written is the first and only one of its student in a course
\* that has been published, and leaving, deleting a course or a user ends
\* exactly the enrolments it should.
StageOf(c) ==
    IF course[c].status = "unused" THEN "none"
    ELSE IF ~Present(course[c]) THEN "closed"
    ELSE IF c \in shown THEN "shown" ELSE "draft"

Roster == INSTANCE Rosters WITH
    members <- accounts,
    stage <- [c \in Courses |-> StageOf(c)],
    teacher <- [c \in Courses |-> course[c].teacher],
    seats <- [u \in Users |-> [c \in Courses |-> Cardinality(EnrolledIn(u, c))]]

RosterSpec == Roster!Spec

Editor(u, c) == course[c].teacher = u \/ u \in Admins

\* Between the test of the caller and the write, nothing makes a handler touch
\* a course, or a lesson of a course, that its caller may not edit.  (Reorder
\* has no such test and is not meant.)
OnlyEditorsEdit ==
    [][\A r \in Requests : req'[r] # req[r] =>
         /\ \A c \in Courses : course'[c] # course[c] => Editor(req[r].by, c)
         /\ \A l \in Lessons :
              lesson'[l] # lesson[l] =>
                Editor(req[r].by, IF Present(lesson[l]) THEN lesson[l].course
                                  ELSE lesson'[l].course)]_vars

\* A request to leave a course ends the enrolment it has found and no other: a
\* student who has left and enrolled again meanwhile stays enrolled.
UnenrolEndsWhatItFound ==
    [][\A r \in Requests, e \in Enrolments :
        /\ req'[r] # req[r] /\ req[r].pc # "dropCourse"
        /\ Present(enrolment[e]) /\ ~Present(enrolment'[e])
        => e = req[r].enrolment /\ enrolment[e].student = req[r].by]_vars
=============================================================================

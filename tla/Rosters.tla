------------------------------ MODULE Rosters -------------------------------
(***************************************************************************)
(* What courses and enrolments promise, whatever handlers run at once: who *)
(* holds a seat in which course.  A course is offered once, by a member,   *)
(* and closed once; a seat is taken by a member, in a course that has been *)
(* shown, by one who has none; and seats go when they are left, with their *)
(* course, or with their holder.                                           *)
(***************************************************************************)
EXTENDS Naturals

CONSTANTS
    Users,
    Courses,
    None

VARIABLES
    members,    \* the users that have not been removed
    stage,      \* stage[c]: how far course c has come
    teacher,    \* teacher[c]: who offers it, while it is open
    seats       \* seats[u][c]: the seats u holds in c

Stages == {"none", "draft", "shown", "closed"}

Init ==
    /\ members = Users
    /\ stage = [c \in Courses |-> "none"]
    /\ teacher = [c \in Courses |-> None]
    /\ seats = [u \in Users |-> [c \in Courses |-> 0]]

Open(c) == stage[c] \in {"draft", "shown"}

Offer(u, c) ==
    /\ u \in members
    /\ stage[c] = "none"
    /\ stage' = [stage EXCEPT ![c] = "draft"]
    /\ teacher' = [teacher EXCEPT ![c] = u]
    /\ UNCHANGED <<members, seats>>

Show(c) ==
    /\ stage[c] = "draft"
    /\ stage' = [stage EXCEPT ![c] = "shown"]
    /\ UNCHANGED <<members, teacher, seats>>

TakeSeat(u, c) ==
    /\ u \in members
    /\ stage[c] = "shown"
    /\ seats[u][c] = 0
    /\ seats' = [seats EXCEPT ![u][c] = 1]
    /\ UNCHANGED <<members, stage, teacher>>

LeaveSeat(u, c) ==
    /\ seats[u][c] = 1
    /\ seats' = [seats EXCEPT ![u][c] = 0]
    /\ UNCHANGED <<members, stage, teacher>>

\* The courses C close and the users U go: so do the seats in the ones and of
\* the others, and no more.
Clear(C, U) ==
    /\ members' = members \ U
    /\ stage' = [c \in Courses |-> IF c \in C THEN "closed" ELSE stage[c]]
    /\ teacher' = [c \in Courses |-> IF c \in C THEN None ELSE teacher[c]]
    /\ seats' = [u \in Users |-> [c \in Courses |->
                   IF c \in C \/ u \in U THEN 0 ELSE seats[u][c]]]

Close(c) == Open(c) /\ Clear({c}, {})

\* A member goes with the courses it offers.
Remove(u) ==
    /\ u \in members
    /\ Clear({c \in Courses : Open(c) /\ teacher[c] = u}, {u})

Next ==
    \/ \E c \in Courses : Show(c) \/ Close(c)
    \/ \E u \in Users : Remove(u)
    \/ \E u \in Users, c \in Courses :
         Offer(u, c) \/ TakeSeat(u, c) \/ LeaveSeat(u, c)

Spec == Init /\ [][Next]_<<members, stage, teacher, seats>>
=============================================================================

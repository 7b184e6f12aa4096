# Verification of the learning-platform backend

TLA+ models of the parts of this NestJS/Prisma backend in which something can
go wrong between two steps: sessions and their tokens, the limits on failed
sign-ins, accounts with the tokens that verify and reset them, the signalling
gateway of the video calls, courses with their lessons and enrolments, and the
scoring of quizzes. TLC checks them on small instances; TLAPS proves the most
important properties for every value of the constants.

Paths below are relative to the repository. `PROJECT.json` holds the same
information for tools: components, runs, mutants, the source lines behind every
definition, findings, hazards and theorems.

## The system

| Component | State it keeps | Operations that change it | Interacts with |
|---|---|---|---|
| Authentication (`modules/auth`) | rows of `users`, `sessions`, `password_reset_tokens`, `email_verification_tokens` | register, login, refresh, logout, change-password, request/complete reset, verify-email | security events (log, counts), JWT |
| Guard (`jwt.strategy.ts`) | none; reads `users` and `sessions` per request | none | every protected route |
| Sessions (`modules/sessions`) | rows of `sessions` | revoke one, revoke all of a user | authentication, through the rows |
| User administration (`modules/users`) | rows of `users` | block, unblock, change role, (de)activate, delete, edit profile | everything that reads an account |
| Security events (`modules/security-events`) | rows of `security_events` | log; two counts the sign-in uses | authentication |
| Video gateway (`modules/video-calls`) | three in-memory maps: rooms, socket to room, socket to user | connect, disconnect, create, join, leave, toggle | clients over socket.io, `users` once per handshake |
| Courses, lessons, enrolments | their rows | create, update, publish, delete, reorder, enrol, unenrol | one another, through foreign keys |
| Quizzes | quizzes, questions, options, attempts | edit, submit (score) | lessons |
| TURN credentials, analytics, audit log | none of their own (nothing writes the audit log) | none | |
| Environment configuration, role guard, shell | read once | none | everything |

What is hard in it:

* **Every handler is cut at its awaits.** There is one transaction in the whole
  program (`lessons.service.ts:99`). Everything else reads a row, decides, and
  writes in a later statement; other requests run in between, rows it has read
  may be revoked, changed or gone, and a failure between two writes leaves the
  first one done.
* **Best-effort logging.** `SecurityEventsService.log` swallows its own failure,
  and the sign-in throttle counts the rows it writes.
* **A gateway that trusts three maps to agree**, while sockets close during the
  handshake, join two rooms or leave rooms they are not in.
* **Time**: access and refresh tokens expire, failures leave the window.

What makes each component correct: a rotated or revoked session stays over and
is over before its successor exists; a token has one successor; a password
change ends what the old password obtained, but for what was under way, and the
old password fades out; a request touches its own account
only; a dead session enters no handler; no session outlives its account. The failed
sign-ins on record are bounded per account and per address even if attempts run
concurrently, one name does not lock an address, and locks end and are not
prolonged. Signals are relayed within one room; the room's participants are
invited, once each and within its limit; a client that joins one room at a time
knows who is there, and is out of it once its socket has closed. A student is enrolled once, in a course
that was published; nothing is written for a caller who may not edit it, or to a
row other than the one that was read; no row outlives what it refers to; lessons
share an order only if they were created at once. A grade is the share of the
questions answered right, as the quiz was when it was read, and passes if it
reaches the passing score; later edits of the
quiz neither change it nor lose it. An address has one account; a token acts on
the account it was issued to, has acted once it is marked used, and is not
accepted again; an administrator cannot be blocked.

## Modules

| Module | Models | Composes |
|---|---|---|
| `SessionLifecycle` | what a session store promises (abstract) | |
| `AuthSessions` | `auth.service.ts` sign-in to reset, `jwt.strategy.ts`, `sessions.service.ts`, the account switches of `users.service.ts`, the event log | instantiates `SessionLifecycle` under a refinement mapping |
| `AuthSessions_proofs` | theorems about `AuthSessions` | extends it |
| `LoginThrottle` | the counts, limits and events of `AuthService.login`, the sliding window | |
| `LoginThrottle_proofs` | theorems about `LoginThrottle` | extends it |
| `Calls` | what the gateway promises about calls between people (abstract) | |
| `VideoRooms` | `video-calls.gateway.ts` | instantiates `Calls` under a refinement mapping |
| `VideoRooms_proofs` | theorems about `VideoRooms` | extends it |
| `Rosters` | what courses and enrolments promise: who holds a seat in which course (abstract) | |
| `Coursework` | `courses.service.ts`, `lessons.service.ts`, `enrollments.service.ts` and the part of the schema behind them | instantiates `Rosters` under a refinement mapping |
| `Coursework_proofs` | theorems about `Coursework` | extends it |
| `Percentage` | the floating point of the score and its comparison with the passing score, as operators | |
| `QuizAttempts` | `quizzes.service.ts` and the part of the schema behind it | extends `Percentage` |
| `Grading` | the grading of one submission, to a quiz of any size | extends `Percentage` |
| `QuizAttempts_proofs` | theorems about `QuizAttempts` | extends it |
| `Accounts` | registration, the tokens and their use (`auth.service.ts`), `blockUser`, `changeRole`, `delete` (`users.service.ts`) | |
| `Accounts_proofs` | theorems about `Accounts` | extends it |
| `MC...` and their `.cfg` | the instances TLC checks, and their symmetry | extend the module they instantiate |

Definitions named `M_...` stand before the definition they are a faulty form
of. No specification uses them: each run is repeated with one of them in the
place of the correct definition, and must then fail.

### AuthSessions

*State.* `account` is table `users` (existence, `isActive`, `isBlocked`, a
version number for the password hash). `status` and `owner` are table
`sessions`; `age` is how far the two tokens of a session have expired;
`delivered` are the sessions whose tokens a client has received. `events` is
table `security_events`, restricted to the types in `Tracked`. `req` holds what
each handler under way keeps in its local variables. `parent`, `creator`,
`epoch` and `swept` are history: no guard reads them.

*Actions.* One per stretch of a handler between two awaited database
statements:

| Handler | Actions |
|---|---|
| `login` | `LoginVerified` (read, tests, `bcrypt.compare`), `LoginCreate`, `Log`; `LoginRefused`, `Log` |
| `refreshToken` | `RefreshAccepted` (verify, read, row test), `RefreshRevoke`, `RefreshCreate`, `Log`; `RefreshRejected`, `Log` |
| guard | `GuardUser`, `GuardSession` |
| `logout` | `Logout` or `LogoutUnusable`, `Log` |
| `changePassword` | `ChangeVerified`, `WritePassword`, `SweepSessions`, `Log` |
| `resetPassword` | `ResetVerified`, `WritePassword`, `ResetMark`, `SweepSessions`, `Log` |
| administrator | `RevokeSession`, `RevokeAllUserSessions`, `SetBlocked`, `SetActive`, `DeleteUser` |
| failure of a statement, or of the process | `Abort` |
| time | `Elapse` |

`Abort` leaves everything the handler has done in place. A foreign key makes
`LoginCreate`, `RefreshCreate` and `Log` fail when the account is gone; deleting
it cascades to its sessions and clears the `userId` of its events, as
`schema.prisma` says.

*Abstractions.* A request of the administrator is one statement; that his own
account may change too is left out, so `Users` are the other accounts. The
comparison of a presented refresh token with the stored hash always succeeds
for the token that was issued with the row, and no other token names the row.
The table of reset tokens is in `Accounts`: anyone may have a token issued
at any time, so it does not restrict when a reset happens to an account. Whether
the failure counts lock a sign-in is free here and the subject of
`LoginThrottle`. A slot about to log an event that is not tracked does not tell
which event it is: nothing depends on it.

*Old passwords.* `epoch[s]` is the password version a session goes back to,
through whatever rotations; `swept[u]` the last version whose sweep has run.
`SweptSessionsDead` (nothing older than the sweep lives) is what the code says
and does not keep: `sessions_sweep`. What holds of every interleaving is
`OldPasswordFades`: a
sweep that gets further than those before it leaves no older session; sign-ins
and refreshes under way may still create some; but when neither such a session
nor such a request is left, none ever comes again.

*Deleted accounts.* `OwnerExists` is the foreign key of a session.
`LiveSessionsOwned` says that it and the cascade are enough: a sign-in or refresh
that has read an account which is deleted before its insert leaves no live
session of it.

### LoginThrottle

`failures[i][n][a]` counts the `LOGIN_FAILURE` rows of address `i` and name `n`
that are `a` ticks old; `Tick` ages them, and what is `Window` ticks old has left
the fifteen minutes. The two counts of `security-events.service.ts` are the
cardinalities of the sets of rows their `where` clauses select (`RowsOf`).
`CheckAddress`, `FindUser`, `CountAndVerify` and `Log` are
the four stretches of `login` between its awaits. The address is an optional
argument of `login` (`Origins`): an attempt without one passes the first test,
and its failure is in no count of an address, nor in any count if its name has
no account either (`InSomeCount`). A failure to write the event leaves the count
as it is.

`BurstBound` and `AddressBound` say how far concurrent attempts can take the
failures on record of an account and of an address beyond their limits: an attempt that has passed the test
and is not counted yet is part of the sum, so that it grows only while the lock
is open. `LockNotProlonged` is what a refusal must not do: while an account or an
address is locked, the only failures added are those of attempts that had passed
the test before.

### VideoRooms

Message handlers of the gateway contain no await and are atomic. The handshake
has one, between `Connect` and `Authenticated` or `Rejected`; a `Disconnect` in
between makes the socket `dropped`, and the rest of the handshake still runs for
it, as it does in the code. `socketToUser`, `socketToRoom` and `rooms` are the
three maps. `muted` stands for either media flag.

`told[s]` is the list the client of socket `s` keeps: what it received when it
joined, and the `user-joined`, `user-left` and toggle events since. The payloads
name a socket and no room, so it is one list, keyed by the socket, whatever room
an event is about. `mixed` is history: the sockets that joined a room while in
another, of whose lists `ClientsKnowRoom` says nothing, because such a client has
no way to tell which of its rooms an event concerns.

`lost` is history too: `<<s, R>>` when `s`, a participant of `R`, has joined
another room, or has sent `leave-room` of another room that exists, and has
neither left nor joined `R` since. Either one makes `socketToRoom` forget `R`,
and the disconnect handler, which goes by that map, will not take `s` out of it.
`NoGhosts` says that those are the only rooms a closed socket can be left in.

`search-users` and `get-rooms` only read; an `offer`, `answer` or
`ice-candidate` is relayed exactly if `areInSameRoom`.

`Calls` is the same seen by people: a call begins on terms its host sets, people
enter it one at a time, by invitation, once each and within its limit, leave it
one at a time, and it ends with its last member for good. A call is a room, its
members the users of the participants (`MembersOf`), whatever socket they are
on. That a room which empties is deleted in the same step (`NoAbandonedRoom`,
proved by itself too) is part of it.

### Coursework

`course`, `lesson` and `enrolment` are the three tables, `accounts` the accounts
that exist; a row is unused, present or gone, and an id is used once, as UUIDs
are. `req` holds what a handler has read. `creator` (which slot gave a lesson
the order it still has; nobody, once a client has named an order for it) and
`shown` (the courses that have been published at some time) are history.

| Handler | Actions |
|---|---|
| `courses.create` | `CreateCourse` |
| `togglePublish` | `ReadCourse`, `TogglePublish` (writes the negation of what was read) |
| `courses.delete` | `ReadCourse`, `DeleteCourse` with its cascades |
| `lessons.create` | `ReadCourse`, `ReadLastOrder`, `InsertLesson` |
| `lessons.update` (with an order), `lessons.delete` | `ReadLesson`, then `MoveLesson` or `DeleteLesson` |
| `reorder` | `Reorder`, one step because it is a transaction |
| `enroll` | `ReadForEnrol`, `CheckEnrolled`, `Enrol` |
| `unenroll` | `ReadForUnenrol`, `Unenrol` (by the id that was found) |
| `users.delete` | `DeleteUser` with its cascades |
| failure of a statement, or of the process | `Abort` |

`SchemaAllows` is what the schema asks of an enrolment (two foreign keys and the
unique index), `Erase` its cascades. Left out are texts, titles and links, and
with them `courses.update` and an update of a lesson that names no order. Roles
are fixed in this module: `Admins` pass the test of the caller, any user may
hold the role of a teacher. The account was read by the guard some time before,
so it may already be gone. A client sends `reorder` ids without repetition.

`Rosters` knows courses, who offers them and how many seats a user has in each.
A course is `draft` when it is created, `shown` from its first publication on
(withdrawing it closes nothing, an enrolment on its way still gets its seat) and
`closed` when it is deleted. The seats of a user in a course are the number of
his enrolments, so that a second row, or a row that stays, is a step `Rosters`
does not have. That a student is enrolled once (`EnrolledOnce`) and in a course
that was published (`EnrolledOnlyInShown`) is part of it; both are stated
and proved by themselves too.

### QuizAttempts

`quiz`, `question` and `attempt` are the tables; an attempt's row carries its
`quiz_attempt_answers`, a question's its options. `lesson` and `accounts` are
what they refer to. `req` holds what a handler has read; `paper` is history: the
questions, the passing score and the answers an attempt was scored from.

| Handler | Actions |
|---|---|
| `create` | `ReadLesson`, `InsertQuiz` |
| `update` (the passing score), `delete` | `ReadQuiz`, then `SetPassingScore` or `DeleteQuiz` |
| `addQuestion`, `deleteQuestion` | `AddQuestion`, `DeleteQuestion` (one statement each) |
| `submitAttempt` | `ReadForScore`, `InsertAttempt` |
| deletion of a lesson, its course or an account | `DeleteLesson`, `DeleteUser` |
| failure of a statement, or of the process | `Abort` |

`AttemptAllowed` is what the foreign keys ask of an attempt and its answers,
`Erase` the cascades: a deleted question takes along the answers that name it,
an attempt goes with its quiz or its student only. `Scored` is the code's loop;
`GradedFairly` holds it against a definition by sets of questions. A `findUnique`
with `include` is taken as one statement. Each question has one right and one
wrong option; an answer may name an option of another question. Left out are texts, the
order of questions, `timeLimit` and `updateQuestion`, which no route calls.

The score is a percentage in floating point. `Percentage` says when a share that
is a whole percentage comes out below it: `FallsShort` is the long division of
the two counts in binary, cut at the 53 digits of a double, and the question
whether the product with 100 is nearer to the number below. Every other
comparison is exact, because two neighbouring doubles are closer together than
any share and a percentage it differs from (for counts below 2^40). Two questions
never come near such a share, so `Grading` is the same scoring alone, with
quizzes of up to 150 questions: a counting loop and the verdict.

### Accounts

`account` is table `users`: the address, whether it is verified, the role,
`isBlocked`, and through which reset token the password was last set. `token`
is both tables of tokens, told apart by `purpose`. `applied` (tokens whose effect
has been written), `marked` (which slots marked a token used) and `everOther`
(accounts that have not been administrators all along) are history.

| Handler | Actions |
|---|---|
| `register` | `LookupNew`, `CreateAccount`, `IssueToken` |
| `requestPasswordReset` | `LookupForReset`, `IssueToken` |
| `resetPassword`, `verifyEmail` | `ReadToken`, `ApplyToken`, `MarkToken` |
| `blockUser` | `ReadToBlock`, `Block` |
| `unblockUser`, `changeRole`, `delete` | `Unblock`, `ChangeRole`, `DeleteUser` |
| failure of a statement, or of the process | `Abort` |
| time | `Expire` |

The module leaves to `AuthSessions` what a reset does to the sessions and what
handlers log. A teacher is the same as a student here. The administrator who
calls is one the guard let in some time before, so he may be gone or changed.

## Runs

Passing runs:

| Run | Instance | Shows |
|---|---|---|
| `sessions_rotation` | 1 account, 3 sessions, 2 concurrent requests, a password change, failures | `TypeOK`, `RotationRetiresFirst`, `OneSuccessorPerSlot`, `DeadSessionNotAdmitted`, `OldPasswordFades`, `LiveSessionsOwned`, and that the handlers implement `SessionLifecycle` (`LifecycleSpec`) |
| `sessions_accounts` | 2 accounts, 2 sessions, 1 request at a time, failures, expiry | `OnlyOwnSessionsRevoked`, `ChangeLoggedAfterSweep` |
| `throttle_burst` | 1 address and attempts without one, an account and a name without one, 2 concurrent attempts, limits 2 and 3, fair time | `TypeOK`, `BurstBound`, `AddressBound`, `LockNotProlonged`, `LocksEnd` |
| `video_rooms` | 2 users, 3 sockets, 2 rooms, limits 1 and 2 | `TypeOK`, `RelayWithinRoom`, `OnlyInvitedOnce`, `WithinCapacity`, `ClientsKnowRoom`, `NoGhosts`, and that the rooms implement `Calls` (`CallsSpec`) |
| `coursework_race` | a teacher, an administrator, 1 course, 2 lessons, 2 enrolments, 2 concurrent requests | `TypeOK`, `NoOrphans`, `SameSlotApart`, `OnlyEditorsEdit`, `UnenrolEndsWhatItFound`, and that the tables implement `Rosters` (`RosterSpec`) |
| `quiz_attempts` | a teacher, an administrator, 1 lesson, 2 quizzes, 2 questions, 1 attempt of up to 2 answers, passing scores 0 and 50, 2 concurrent requests | `TypeOK`, `NoOrphans`, `GradedFairly`, `ScoreExplained`, `AttemptsOutliveQuestions`, `OnlyEditorsEditQuiz` |
| `quiz_grading` | quizzes of 0 to 150 questions, up to 160 right answers, every passing score from 0 to 100 | `VerdictFollowsShare` |
| `account_tokens` | an administrator, 2 accounts to register, 2 addresses, 2 tokens, 2 concurrent requests, failures, expiry | `TypeOK`, `OneAccountPerEmail`, `UsedTookEffect`, `OwnTokensOnly`, `OneUsePerSlot`, `LastingAdminUnblocked` |

Runs in which the code does not do what the repository says of it:

| Run | Statement | What the code does |
|---|---|---|
| `sessions_replay` | "the old session is revoked and a new one takes its place" (`auth.service.ts:259`) | the row is tested at 247 and revoked at 260 by id alone: two concurrent refreshes with one token both get a session |
| `sessions_sweep` | "Revoke all sessions" (`auth.service.ts:412`) | a sign-in or refresh that read its row before the change inserts its session after the sweep |
| `throttle_unknown` | "the account locks before the address does" (`README.md:33`) | a name without an account has no limit of its own and locks the address |
| `video_token` | "a refresh token is rejected everywhere else" (`README.md:138`) | the handshake does not look at `type` |

Smaller disagreements met on the way, not worth a run each:

* "Every request re-reads whether the user is still active, still unblocked"
  (`README.md:38`); a refresh loads the user and tests neither
  (`auth.service.ts:247`).
* "Revoke all sessions except the current one" (`auth.service.ts:350`) stands
  over an update without an exception.
* "Every sign-in attempt, password change, role change, block and session
  revocation is written to a security-event log" (`README.md:30`): role changes,
  blocks and the administrator's revocations are not, nor is a sign-in to a
  deactivated account (`auth.service.ts:152`).
* The audit log tells "who published a course, who enrolled" (`README.md:42`);
  nothing in the program writes to it.
* With more attempts under way than the account's limit, the address locks
  although only one account was tried: with the limits of five and ten, six
  attempts that all count before the fifth failure is written are enough, and
  nothing bounds how many run at once.
* The README says a role change waits for the next token (known limitations);
  the guard returns the role of the row (`jwt.strategy.ts:55`).
* A malformed value "fails here, loudly" (`env.validation.ts:9`); the errors of
  `readNumber` and `readBoolean` are collected after the test at line 118, so a
  malformed `PORT`, `THROTTLE_TTL`, `THROTTLE_LIMIT`, `TURN_TTL_SECONDS` or
  `SWAGGER_ENABLED` silently becomes its default.

And things the models show that no document speaks of: any teacher may add or
delete questions of any quiz, since `addQuestion` and `deleteQuestion` do not
compare the caller; `timeLimit` is stored and never looked at; an answer given
twice counts twice, so a grade can exceed 100 percent; an account whose
registration stopped before its token was written keeps the address and cannot
be verified; an account promoted to administrator between the two statements of
`blockUser` is blocked. A submission that answers exactly 29, 57 or 58 percent
right may fail a quiz that asks for that much (29 of 50 at 58, 29 of 100 at 29),
since the score comes out below itself; 50 questions are the fewest. A client
that joins a second room, or sends `leave-room` of a room it is not in, stays a
participant of the room it was in after its socket has closed: its user is
refused there as already in the room, a place is taken, and the room is never
deleted. A client in two rooms hears of both without being told which.

### Bounds, and why they are enough

Constants that bound a run are marked "bound" where they are declared.

* *Requests.* Two concurrent requests show every race the code has between two
  handlers; no property relates three. The administrator's statements and time
  interleave on top of them. `sessions_accounts` has one request at a time and
  two accounts: its two properties are about one handler mixing accounts or
  failing half way; `sessions_rotation` has the interleavings.
* *Sessions.* Three suffice for a session and two successors, the shortest
  violation of `OneSuccessorPerSlot`. Two suffice for the properties of
  `sessions_accounts`: one session per account.
* *Password versions.* One change separates before from after.
* *Age.* Three ages: nothing, the access token, or everything has expired. Only
  live, delivered sessions age; a dead one is refused at any age.
* *Limits of the throttle.* Two and three: the limit of the address is the larger,
  as in the code, and both are met by one name and by two. No property depends on
  their proportion or on how many attempts run at once; `throttle_unknown` has the
  code's five and ten. The window is two ticks, so that failures can leave it one
  after another.
* *Failures counted.* `MaxFailures` caps a counter so that the types are finite;
  `BurstBound` and `AddressBound` keep every counter below it
  (`CounterBoundNeverMet` proves that for all constants), so it excludes nothing.
* *Sockets and rooms.* A socket is used once and a room id once, as in the code;
  three sockets of two users give one user a second connection while both are in
  a room, and two rooms let a client be in both, or leave the wrong one. A run ends when its sockets have
  closed, so deadlock is not checked there. The limits are one and two so that
  two users meet them.

* *Coursework.* One course has every race, since no property relates two; one
  that is created, published, withdrawn and deleted. Two lessons are the pair
  that may share an order, and two enrolments the one that `unenroll` found and
  the one made since. Orders 0 and 1 are what two lessons need. When all ids are
  used and the accounts deleted nothing is left to do, so deadlock is not
  checked there.
* *Quizzes.* Two quizzes and two questions let an answer stray into another
  quiz or to another question's option, and let a question be added or deleted
  around a submission. Two answers make a half, a whole, a repeated answer and a
  loss. One attempt is enough, since attempts do not see each other; 0 and 50 are
  the boundary of a quiz without questions and a reachable share. When ids and
  accounts are used up nothing is left to do, so deadlock is not checked.
* *Grading.* 150 questions hold every share that falls short of 29, 57 and 58
  percent in its lowest terms (29 of 50, 29 of 100, 57 of 100) and some of their
  multiples; 160 right answers are more than there are questions, as answers given
  twice make them. Passing scores above 100 are left out.
* *Accounts.* Two accounts to register and two addresses give a race for one
  address and a deleted account whose address is taken again; two tokens are one
  of each purpose, or two of one. The state space is the largest of the project
  (1.5 million states), so the roles are the two the code tells apart.

Symmetry is declared on accounts, sessions, requests, addresses, sockets, rooms,
courses, lessons, enrolments, quizzes, questions, attempts and tokens in the runs
without liveness, except for users with a role of their own; no definition picks
one of them by name.

### Fairness

Only `LocksEnd` (run `throttle_burst`) needs any, and only `WF(Tick)`: time passes whatever the
requests do. Nothing is assumed of clients, who may try for ever, or of
handlers, which may stall.

## Proofs

`AuthSessions_proofs`, for any number of accounts, sessions, requests, password
versions and any `Failures` and `Tracked`, from `ConstantsAssumption` only:

* `TypeCorrect`. `TypeOK` is not inductive by itself: that `CreateSession` writes
  an owner that exists depends on what the slot carries. `Consistent` adds that
  every session in use has an owner, and that a slot names a user and a session
  that fit its program counter.
* `RotationRetires`. `RotationInv` adds that a slot between the two statements
  of the rotation has already retired the session it rotates, and that nothing
  brings a session back; the predecessor of any session is then over.
* `OneSuccessorEach`. From the same invariant and the test of `isRevoked`: after
  a slot has opened a successor of `s`, `s` is over, and that slot's next
  refresh with `s` is rejected.
* `DeadNotAdmitted`. `AdmissionInv`: a slot whose session was dead when its
  request arrived still names a dead session at the guard's second read.
* `LoggedAfterSweep`. `LoggedInv` adds that a slot about to log a change names an
  account whose sweep has run, and that a slot on its way to the sweep carries a
  written password version; versions only grow.
* `OldPasswordsFade`, the action property, from `Consistent` and `MarkInv` (a slot on
  its way to the sweep carries no version newer than the account's): `swept` never exceeds the password of an account
  that exists, so a sign-in that reads the account reads nothing outdated, and
  every other version in a slot (`VersionOrigin`) or a row (`LiveOrigin`) is a
  copy of one that was there.
* `SessionsOwned`. A session that becomes live belongs to an account that exists
  in that step (`OwnerExists`), and the step that deletes an account takes its
  sessions along; an account that is gone does not come back.
* `SuccessorsBounded`: with finitely many requests, however often and with
  whatever failures it is presented, a token has at most that many successors,
  because `creator` maps its successors to the slots one to one.
* `OnlyOwn`, an action property, from `Consistent`.
* `Implements`. Every action of `AuthSessions` is a step of `SessionLifecycle`
  or leaves its variables alone; each revocation is a `Retire`, `LoginCreate` an
  `Open`, `RefreshCreate` a `Succeed` because of `RotationInv`.

`VideoRooms_proofs`, for any sockets, users, rooms and limits, from
`RoomsAssumption`:

* `TypeCorrect`, `RelaySound`, `InvitedOnce`. The inductive invariant `Inv` says
  of each room on its own that its participants are invited, once each, and of
  the maps that the room a socket maps to is open and holds it
  (`CurrentRoomHolds`), which makes the relay's test sound although the maps can
  disagree the other way round (a socket can be in a room it no longer maps to).
* `CapacityKept`, `EmptyRoomsDeleted`. `Evolves` lists the ways a step can change
  one room: one participant more under the limit, those of one socket less, a
  flag toggled, or a new room. Finiteness and the count follow from that, and so
  does that a room losing its last participant is deleted in the same step.
* `NoGhostsStay`. `Located`: a socket is in no room before its handshake ends,
  and then only in the room it maps to and in those it was `lost` in. A closed
  socket maps to none.
* `ClientsKnow`. `Known`: a participant whose socket is open carries the user of
  that socket, which is what the announcements name; a client that is not `mixed` is
  in one room (`OneRoom`), so that every event it hears is of that room; and its
  list is exactly the others there.

* `CallsImplemented`. Every action is an action of `Calls` or leaves its variables
  alone: that the user who enters is invited and has not been in the call comes
  from the tests of `JoinRoom`, that no step takes out two from `Known` (a user
  is in a room on one socket), and that a call that ended is never taken up again
  from rooms being created under fresh ids.

`LoginThrottle_proofs`, for any addresses and names, finite or not, any finite
number of concurrent attempts and any limits and window, from
`ThrottleAssumption`. The inductive invariant `Inv` joins the types of counters
and slots with the finiteness of the sets of rows, which is what makes a
cardinality mean anything when the addresses are infinitely many.

* `TypeCorrect`, and `CounterBoundNeverMet`: every counter stays below
  `MaxFailures`, because each row that can be in a counter is in the count of an
  account or of an address (`CellCounted`), and those two are bounded.
* `BurstBounded`, `AddressBounded`. `LogAddsOne`: a logged failure adds one row to
  the sets it belongs to. `TickForgets`: the rows after a tick map one to one into
  those before it. So the sum of the counted and the uncounted grows only in the
  step that passes the test (`FailuresGrowUnlocked`, `AddressGrowsUnlocked`), and
  there the count is below the limit.
* `LocksNotProlonged`, the action property: the safety part of `LocksEnd`.

`Coursework_proofs`, for any users, courses, lessons, enrolments, requests and
bounds, from `CourseworkAssumption`:

* `TypeCorrect`, `NeverOrphaned`. `Consistent` joins the types of rows and slots
  with `Linked`, the foreign keys; cascades preserve it because `Erase` covers
  every course of a deleted account.
* `OnceEnrolled`, from the unique index alone.
* `ShownFirst`. `ShownInv` follows a published course from its row through the
  slot that read it to the enrolment.
* `NeverRepeatsOrder`. `OrderInv` adds that the order a slot is about to insert
  lies above every lesson it inserted before whose order nobody has changed.
* `EditorsOnly`, `UnenrolPrecise`, action properties. `EditorInv`: what a slot
  has tested holds of the row it names as long as that row exists, because a
  course keeps its teacher, a lesson its course and an id its row.
* `RostersImplemented`. One lemma per action that writes an account, a course or
  an enrolment (`OfferStep`, `ShowStep`, `CloseStep`, `RemoveStep`, `TakeStep`,
  `LeaveStep`); it rests on `EnrolledOnce` (the row that goes is the student's
  only one), `ShownInv` (the course of a new enrolment has been shown) and
  `ShownExist` (a fresh course has not).

`QuizAttempts_proofs`, for any users, lessons, quizzes, questions, attempts,
requests, passing scores and number of answers, from `QuizAssumption`:

* `TypeCorrect`, `NeverOrphaned`. `Linked` is the foreign keys, `SlotsTyped` what
  a slot carries at each of its statements.
* `GradesFair`, `ScoresExplained`. `PapersKept` says of an attempt that exists
  that it carries the grade of its paper, that its answers are those of the paper
  whose question and option are left, and that a question seen was one of its
  quiz. `CountsQuestions` then matches the counted answers with the
  questions answered right by a bijection, and the rest is about cardinalities.
  `FallsShort` stays what it is there: the theorem says that it is the only way a
  share that reaches the passing score can fail, and the run `quiz_grading` for
  which shares it happens.
* `AttemptsStay`, `EditorsEdit`, action properties, from the same invariant and
  `EditorsKept`: what a slot has tested stays true of a quiz that exists.

`Accounts_proofs`, for any users, seeded administrators, addresses, tokens and
requests, from `AccountsAssumption`:

* `TypeCorrect`, and `EmailsUnique` from the index.
* `UsedTokensTookEffect`, `TokensStayWithOwner`, `NoSecondUse`. `TokensInv` ties
  a token to its account, and a request to the token it has read: the token
  cannot go while the account it was read for is there, and a slot between the
  effect and the mark has written the effect.
* `AdminsStayUnblocked`. `AdminInv`: a slot on its way to blocking an account
  names one that has been something else than an administrator.

Only model-checked: `LocksEnd`, a liveness property under fairness, which is out
of the prover's reach; `VerdictFollowsShare`, a computation over bounded numbers,
whose first half (nothing passes below the passing score) `GradesFair` has for
every count; and the four statements the code does not keep.

## Not modelled

* `updateProfile`, `courses.update`, the texts of lessons and quizzes: they write
  names and links that nothing decides by.
* The role guard: it tests the role the session guard has just read, before a
  handler starts; the modules take its outcome as the set of users that may call.
* The environment configuration: a function of the environment evaluated once,
  before the program starts; it keeps no state and nothing runs beside it.
* The audit log (nothing calls its `log`), analytics and the paged queries
  (single reads), TURN credentials (a pure function with its own unit tests),
  the framework's request throttler, error formatting, bootstrap and seed data.
* What a send over a socket or an e-mail does after the program has handed it
  over; the registration's token is never sent by the code.

## Plan

Every safety invariant, action property and refinement the passing runs check is
proved, but for `VerdictFollowsShare`. What is left are abstract specifications of the two components that have
none: grades as `QuizAttempts` keeps them, and the life of a token in `Accounts`.

---------------------------- MODULE LoginThrottle ----------------------------
(***************************************************************************)
(* The two limits on failed sign-ins: per address and per account, both    *)
(* counted over the security events of a sliding window.  The counts, the  *)
(* account row and the event a refusal leaves are separate statements, so  *)
(* concurrent attempts may all pass a limit before any of them is counted. *)
(*                                                                         *)
(* What an accepted sign-in does to the session table is AuthSessions.     *)
(***************************************************************************)
EXTENDS Naturals, FiniteSets

CONSTANTS
    Addresses,
    Names,          \* e-mail addresses clients try
    Registered,     \* those with an account
    Requests,       \* request slots (bound on concurrent attempts)
    UserLimit,      \* failures at which an account locks: 5 in the code
    IpLimit,        \* failures at which an address locks: 10 in the code
    Window,         \* ticks a failure counts: the code's fifteen minutes
    NoName, NoAddress   \* nobody is tried; the server knows no address

ASSUME ThrottleAssumption ==
    /\ Registered \subseteq Names
    /\ NoName \notin Names
    /\ NoAddress \notin Addresses
    /\ IsFiniteSet(Requests)
    /\ UserLimit \in Nat \ {0}
    /\ IpLimit \in Nat \ {0}
    /\ Window \in Nat \ {0}

VARIABLES
    failures,   \* failures[i][n][a]: LOGIN_FAILURE rows, a ticks old, left by
                \* attempts from origin i under name n
    standing,   \* isBlocked and isActive of the accounts, blocked first
    req         \* the request slots

vars == <<failures, standing, req>>

Ages == 0..(Window - 1)

\* ipAddress is an optional argument: it is undefined if the connection is over
\* when the handler asks for it.
Origins == Addresses \union {NoAddress}

\* Bound on a counter; BurstBound and AddressBound keep every one below it.
MaxFailures == UserLimit + IpLimit + Cardinality(Requests)

Idle == [pc |-> "idle", ip |-> NoAddress, name |-> NoName,
         standing |-> "active", event |-> "none"]

Outcomes == {"LOGIN_SUCCESS", "LOGIN_FAILURE", "BRUTE_FORCE_DETECTED"}

RequestType ==
    [pc : {"idle", "lookup", "count", "log"},
     ip : Origins, name : Names \union {NoName},
     standing : {"active", "inactive", "blocked"},
     event : Outcomes \union {"none"}]

Init ==
    /\ failures = [i \in Origins |-> [n \in Names |-> [a \in Ages |-> 0]]]
    /\ standing = [n \in Registered |-> "active"]
    /\ req = [r \in Requests |-> Idle]

-----------------------------------------------------------------------------
\* The LOGIN_FAILURE rows of the window left from the origins I under the
\* names N; the nth of those alike in all else.
RowsOf(I, N) ==
    UNION {{[ip |-> i, name |-> n, age |-> a, nth |-> k] :
               k \in 1..failures[i][n][a]} : i \in I, n \in N, a \in Ages}

\* getIpFailedLogins: every LOGIN_FAILURE of the address.
IpFailures(i) == Cardinality(RowsOf({i}, Names))

\* getUserFailedLogins: every LOGIN_FAILURE of the account.
UserFailures(n) == Cardinality(RowsOf(Origins, {n}))

\* Definitions named M_ are faults the runs are shown to notice: what the
\* definition after them would be if the code had that bug.

M_IpLocksOneLate(i) == IpFailures(i) > IpLimit

IpLocked(i) == IpFailures(i) >= IpLimit

M_LocksOneLate(n) == UserFailures(n) > UserLimit

UserLocked(n) == UserFailures(n) >= UserLimit

Go(r, record) == req' = [req EXCEPT ![r] = record]

Refuse(r, e) == Go(r, [req[r] EXCEPT !.pc = "log", !.event = e])

-----------------------------------------------------------------------------
\* login: the failures of the address, if there is one, are counted.
CheckAddress(r, i, n) ==
    /\ req[r].pc = "idle"
    /\ Go(r, IF i # NoAddress /\ IpLocked(i)
             THEN [Idle EXCEPT !.pc = "log", !.ip = i, !.name = n,
                               !.event = "BRUTE_FORCE_DETECTED"]
             ELSE [Idle EXCEPT !.pc = "lookup", !.ip = i, !.name = n])
    /\ UNCHANGED <<failures, standing>>

\* The account row is read; the rest of the handler uses this copy of it.
FindUser(r) ==
    LET n == req[r].name
    IN  /\ req[r].pc = "lookup"
        /\ \/ n \notin Registered /\ Refuse(r, "LOGIN_FAILURE")
           \/ /\ n \in Registered
              /\ Go(r, [req[r] EXCEPT !.pc = "count", !.standing = standing[n]])
        /\ UNCHANGED <<failures, standing>>

\* The failures of the account are counted; the tests that follow, the
\* password comparison included, read nothing others can change.
CountAndVerify(r) ==
    LET n == req[r].name
    IN  /\ req[r].pc = "count"
        /\ \/ /\ UserLocked(n)
              /\ Refuse(r, "BRUTE_FORCE_DETECTED")
           \/ /\ ~UserLocked(n)
              /\ req[r].standing = "blocked"
              /\ Refuse(r, "LOGIN_FAILURE")
           \/ /\ ~UserLocked(n)
              /\ req[r].standing = "inactive"
              /\ Go(r, Idle)
           \/ /\ ~UserLocked(n)
              /\ req[r].standing = "active"
              /\ \E e \in {"LOGIN_SUCCESS", "LOGIN_FAILURE"} : Refuse(r, e)
        /\ UNCHANGED <<failures, standing>>

\* Refusals because of a lock counted too.
M_CountRefusals(e) == e # "LOGIN_SUCCESS"

\* Which events the two counts see.
Counted(e) == e = "LOGIN_FAILURE"

\* A row with neither an address nor an account is in no count.
InSomeCount(i, n) == i # NoAddress \/ n \in Registered

\* securityEvent.create; a failure to write it is swallowed.
Log(r) ==
    LET i == req[r].ip
        n == req[r].name
    IN  /\ req[r].pc = "log"
        /\ \/ /\ Counted(req[r].event)
              /\ InSomeCount(i, n)
              /\ failures[i][n][0] < MaxFailures
              /\ failures' = [failures EXCEPT ![i][n][0] = @ + 1]
           \/ UNCHANGED failures
        /\ Go(r, Idle)
        /\ UNCHANGED standing

\* Old rows forgiven one at a time.
M_TickForgives ==
    /\ failures' = [i \in Origins |-> [n \in Names |-> [a \in Ages |->
                      failures[i][n][a] - 1]]]
    /\ UNCHANGED <<standing, req>>

\* Time: every row is a tick older, the oldest leave the window.
Tick ==
    /\ failures' = [i \in Origins |-> [n \in Names |-> [a \in Ages |->
                      IF a = 0 THEN 0 ELSE failures[i][n][a - 1]]]]
    /\ UNCHANGED <<standing, req>>

\* The administrator blocks, unblocks, deactivates or reactivates.
SetStanding(n, st) ==
    /\ standing[n] # st
    /\ standing' = [standing EXCEPT ![n] = st]
    /\ UNCHANGED <<failures, req>>

Attempt(r) ==
    \/ \E i \in Origins, n \in Names : CheckAddress(r, i, n)
    \/ FindUser(r)
    \/ CountAndVerify(r)
    \/ Log(r)

Next ==
    \/ \E r \in Requests : Attempt(r)
    \/ Tick
    \/ \E n \in Registered, st \in {"active", "inactive", "blocked"} :
         SetStanding(n, st)

Spec == Init /\ [][Next]_vars

\* Only time is certain to go on: nobody has to try again, and no handler has
\* to finish, for a lock to end.
FairSpec == Spec /\ WF_vars(Tick)

-----------------------------------------------------------------------------
TypeOK ==
    /\ failures \in [Origins -> [Names -> [Ages -> 0..MaxFailures]]]
    /\ standing \in [Registered -> {"active", "inactive", "blocked"}]
    /\ req \in [Requests -> RequestType]

\* Attempts under way that have passed the account's limit and may still fail,
\* or have failed and are not counted yet.
Uncounted(n) ==
    Cardinality({r \in Requests : req[r].name = n /\ req[r].event = "LOGIN_FAILURE"})

\* Within a window an account has at most UserLimit - 1 failures on record, and
\* one more per attempt that was under way when it locked.  Attempts whose
\* failure could not be written are in no count, here as in the code.
BurstBound ==
    \A n \in Registered :
        UserFailures(n) + Uncounted(n) <= UserLimit - 1 + Cardinality(Requests)

\* The only name tried from the address in this window.
OnlyName(i, n) == RowsOf({i}, Names \ {n}) = {}

\* Attempts under way from i that have passed the limit of the address and may
\* still fail, or have failed and are not counted yet.
UncountedFrom(i) ==
    Cardinality({r \in Requests : /\ req[r].ip = i
                                  /\ req[r].pc # "log" \/ req[r].event = "LOGIN_FAILURE"})

\* Whatever names are tried from it, an address has at most IpLimit - 1
\* failures on record in a window, and one more per attempt that was under way
\* when it locked.
AddressBound ==
    \A i \in Addresses :
        IpFailures(i) + UncountedFrom(i) <= IpLimit - 1 + Cardinality(Requests)

\* While a lock lasts its failures only age away: no attempt adds to them but
\* those that were past the limit before it locked and are not counted yet.
LockNotProlonged ==
    [][/\ \A n \in Registered :
            UserLocked(n)
              => UserFailures(n)' + Uncounted(n)' <= UserFailures(n) + Uncounted(n)
       /\ \A i \in Addresses :
            IpLocked(i)
              => IpFailures(i)' + UncountedFrom(i)' <= IpFailures(i) + UncountedFrom(i)]_vars

\* Failures under one user name never lock the address they come from: nobody
\* locks a whole office out by hammering one.  Not so: a name without account
\* has no limit of its own, and an account has been tried IpLimit times if
\* enough attempts passed its limit together.
OneNameLocksNoAddress ==
    \A i \in Addresses, n \in Names : OnlyName(i, n) => ~IpLocked(i)

\* A lock ends although the attempts go on: refusing an attempt because of
\* the lock does not prolong it.
LocksEnd ==
    /\ \A n \in Registered : UserLocked(n) ~> ~UserLocked(n)
    /\ \A i \in Addresses : IpLocked(i) ~> ~IpLocked(i)
=============================================================================

---------------------------- MODULE AuthSessions ----------------------------
(***************************************************************************)
(* Sessions of the learning platform: sign-in, token rotation, sign-out,   *)
(* password change and reset, the guard in front of every protected        *)
(* route, and the administrator's statements on sessions and accounts.     *)
(*                                                                         *)
(* A request is a slot that runs one handler at a time.  A handler is cut  *)
(* at its awaited database statements: what it read before an await is in  *)
(* its slot, what other requests do meanwhile is visible after it.  Each   *)
(* statement is atomic; no handler modelled here opens a transaction.      *)
(***************************************************************************)
EXTENDS Naturals, FiniteSets

CONSTANTS
    Users,          \* accounts that are not administrators
    Sids,           \* session ids a run may use (bound on sessions created)
    Requests,       \* request slots (bound on concurrent requests)
    MaxPassword,    \* bound on password changes per account
    MaxAge,         \* bound on age: 2 lets both tokens expire, 0 neither
    Tracked,        \* event types the model's copy of the event log keeps
    Failures,       \* may a database call fail, or the process stop?
    NoUser,
    NoSid

EventTypes == {"LOGIN_SUCCESS", "LOGIN_FAILURE", "BRUTE_FORCE_DETECTED",
               "REFRESH_TOKEN", "SUSPICIOUS_REQUEST", "LOGOUT",
               "PASSWORD_CHANGE", "PASSWORD_RESET_COMPLETE"}

ASSUME ConstantsAssumption ==
    /\ NoUser \notin Users
    /\ NoSid \notin Sids
    /\ MaxPassword \in Nat
    /\ MaxAge \in 0..2
    /\ Tracked \subseteq EventTypes
    /\ Failures \in BOOLEAN

VARIABLES
    account,    \* rows of table users
    status,     \* rows of table sessions: does s exist, is it revoked
    owner,      \* their userId
    age,        \* 0: both tokens of s are good; 1: its access token has
                \* expired; 2: its refresh token and its row too
    delivered,  \* sessions whose two tokens a client has received
    req,        \* the request slots
    events,     \* the tracked part of table security_events
    \* History variables: no action reads them in a guard.
    parent,     \* parent[s]: the session whose token was exchanged for s
    creator,    \* creator[s]: the slot that created s, as a set
    epoch,      \* epoch[s]: the password version s was obtained with
    swept       \* swept[u]: the last password version whose sweep completed

history == <<parent, creator, epoch>>
sessions == <<status, owner, age, delivered, parent, creator, epoch>>
vars == <<account, sessions, req, events, swept>>

-----------------------------------------------------------------------------
PCs == {"idle", "loginCreate", "refreshRevoke", "refreshCreate", "guard",
        "logout", "change", "write", "resetMark", "sweep", "log"}

\* user, sid: whom and what the handler acts on; epoch: the password version
\* it has verified or written; event: what it will log; barred: was the
\* session of the access token dead when the guard began?
RequestType ==
    [pc : PCs, op : {"none", "logout", "change", "reset"},
     user : Users \union {NoUser}, sid : Sids \union {NoSid},
     epoch : 0..MaxPassword, event : EventTypes \union {"none"},
     barred : BOOLEAN]

Idle == [pc |-> "idle", op |-> "none", user |-> NoUser, sid |-> NoSid,
         epoch |-> 0, event |-> "none", barred |-> FALSE]

AccountType ==
    [exists : BOOLEAN, isActive : BOOLEAN, isBlocked : BOOLEAN,
     password : 0..MaxPassword]

\* What is left of the row of a deleted account.
NoRow == [exists |-> FALSE, isActive |-> FALSE, isBlocked |-> FALSE,
          password |-> 0]

EventRow == [type : Tracked, user : Users \union {NoUser}]

Init ==
    /\ account = [u \in Users |->
         [exists |-> TRUE, isActive |-> TRUE, isBlocked |-> FALSE,
          password |-> 0]]
    /\ status = [s \in Sids |-> "unused"]
    /\ owner = [s \in Sids |-> NoUser]
    /\ age = [s \in Sids |-> 0]
    /\ delivered = {}
    /\ req = [r \in Requests |-> Idle]
    /\ events = {}
    /\ parent = [s \in Sids |-> NoSid]
    /\ creator = [s \in Sids |-> {}]
    /\ epoch = [s \in Sids |-> 0]
    /\ swept = [u \in Users |-> 0]

-----------------------------------------------------------------------------
Live(s) == status[s] = "live"
Dead(s) == status[s] \in {"revoked", "deleted"}

AccountUsable(u) ==
    account[u].exists /\ account[u].isActive /\ ~account[u].isBlocked

\* Definitions named M_ are faults the runs are shown to notice: what the
\* definition after them would be if the code had that bug.

M_RevokedRefreshes(s) == status[s] \in {"live", "revoked"} /\ age[s] < 2

\* The row test of refreshToken.
RowAcceptsRefresh(s) == Live(s) /\ age[s] < 2

M_RevokedEnters(s) == status[s] \in {"live", "revoked"}

\* The row test of the guard: the access token carries the expiry.
RowAcceptsAccess(s) == Live(s)

\* isRevoked toggled, not set.
M_RevokingToggles(S) ==
    [s \in Sids |-> IF s \in S /\ Live(s) THEN "revoked"
                    ELSE IF s \in S /\ status[s] = "revoked" THEN "live"
                    ELSE status[s]]

\* Rows an UPDATE of isRevoked over S leaves behind.
Revoking(S) ==
    [s \in Sids |-> IF s \in S /\ Live(s) THEN "revoked" ELSE status[s]]

SessionsOf(u) == {s \in Sids : status[s] # "unused" /\ owner[s] = u}

\* Bound: a session id is left for every request that is to create a session.
SpareSid ==
    Cardinality({r \in Requests :
        req[r].pc \in {"loginCreate", "refreshRevoke", "refreshCreate"}})
      < Cardinality({s \in Sids : status[s] = "unused"})

Go(r, record) == req' = [req EXCEPT ![r] = record]

\* What is left to do is log(e).  (An event that is not tracked is not told
\* from another.)
LogSlot(e, u, s) ==
    IF e \in Tracked
    THEN [Idle EXCEPT !.pc = "log", !.event = e, !.user = u, !.sid = s]
    ELSE [Idle EXCEPT !.pc = "log", !.sid = s]

\* The arguments of the call swapped.
M_ThenLogSwapped(r, e, u, s) ==
    Go(r, [Idle EXCEPT !.pc = "log", !.event = e, !.user = s, !.sid = u])

\* The handler's last step but the event: what follows is log(e).
ThenLog(r, e, u, s) == Go(r, LogSlot(e, u, s))

\* The foreign key forgotten.
M_OwnerUnchecked(u) == u \in Users

\* What the schema asks of a new session: its account is there.
OwnerExists(u) == account[u].exists

CreateSession(s, u, p, r, v) ==
    /\ status[s] = "unused"
    /\ status' = [status EXCEPT ![s] = "live"]
    /\ owner' = [owner EXCEPT ![s] = u]
    /\ parent' = [parent EXCEPT ![s] = p]
    /\ creator' = [creator EXCEPT ![s] = {r}]
    /\ epoch' = [epoch EXCEPT ![s] = v]
    /\ UNCHANGED <<age, delivered>>

-----------------------------------------------------------------------------
(* POST /auth/login.  The two failure counts are the subject of            *)
(* LoginThrottle; here they may lock an account or an address at any time. *)

\* The account row is read once; every test, the password comparison
\* included, is on that row.
LoginVerified(r, u) ==
    /\ req[r].pc = "idle"
    /\ SpareSid
    /\ AccountUsable(u)
    /\ Go(r, [Idle EXCEPT !.pc = "loginCreate", !.user = u,
                          !.epoch = account[u].password])
    /\ UNCHANGED <<account, sessions, events, swept>>

\* Refusals that leave an event.  A deactivated account is refused without
\* one, and changes nothing.
LoginRefused(r, u, e) ==
    /\ req[r].pc = "idle"
    /\ \/ u = NoUser /\ e \in {"LOGIN_FAILURE", "BRUTE_FORCE_DETECTED"}
       \/ /\ u \in Users
          /\ account[u].exists
          /\ \/ e = "BRUTE_FORCE_DETECTED"
             \/ /\ e = "LOGIN_FAILURE"
                /\ account[u].isBlocked \/ account[u].isActive
    /\ ThenLog(r, e, u, NoSid)
    /\ UNCHANGED <<account, sessions, events, swept>>

\* session.create: fails on its foreign key when the account is gone.
LoginCreate(r) ==
    /\ req[r].pc = "loginCreate"
    /\ UNCHANGED <<account, events, swept>>
    /\ \/ /\ OwnerExists(req[r].user)
          /\ \E s \in Sids :
               /\ CreateSession(s, req[r].user, NoSid, r, req[r].epoch)
               /\ ThenLog(r, "LOGIN_SUCCESS", req[r].user, s)
       \/ /\ ~OwnerExists(req[r].user)
          /\ Go(r, Idle)
          /\ UNCHANGED sessions

-----------------------------------------------------------------------------
(* POST /auth/refresh, with the refresh token of session s. *)

RefreshAccepted(r, s) ==
    /\ req[r].pc = "idle"
    /\ SpareSid
    /\ s \in delivered
    /\ RowAcceptsRefresh(s)
    /\ Go(r, [Idle EXCEPT !.pc = "refreshRevoke", !.user = owner[s],
                          !.sid = s, !.epoch = epoch[s]])
    /\ UNCHANGED <<account, sessions, events, swept>>

\* Not a refresh token of ours (any time), or the row no longer takes it.
RefreshRejected(r) ==
    /\ req[r].pc = "idle"
    /\ ThenLog(r, "SUSPICIOUS_REQUEST", NoUser, NoSid)
    /\ UNCHANGED <<account, sessions, events, swept>>

\* The old session is left as it is.
M_RefreshKeepsOld(r) ==
    /\ req[r].pc = "refreshRevoke"
    /\ Go(r, [req[r] EXCEPT !.pc = "refreshCreate"])
    /\ UNCHANGED <<account, sessions, events, swept>>

\* The first half of the rotation, session.update by id: whatever isRevoked
\* has become since the row was read, it is set; an absent row is an error.
RefreshRevoke(r) ==
    /\ req[r].pc = "refreshRevoke"
    /\ status' = Revoking({req[r].sid})
    /\ Go(r, IF status[req[r].sid] = "deleted" THEN Idle
             ELSE [req[r] EXCEPT !.pc = "refreshCreate"])
    /\ UNCHANGED <<account, owner, age, delivered, history, events, swept>>

\* The second half, session.create.
RefreshCreate(r) ==
    /\ req[r].pc = "refreshCreate"
    /\ UNCHANGED <<account, events, swept>>
    /\ \/ /\ OwnerExists(req[r].user)
          /\ \E s \in Sids :
               /\ CreateSession(s, req[r].user, req[r].sid, r, req[r].epoch)
               /\ ThenLog(r, "REFRESH_TOKEN", req[r].user, s)
       \/ /\ ~OwnerExists(req[r].user)
          /\ Go(r, Idle)
          /\ UNCHANGED sessions

-----------------------------------------------------------------------------
(* The guard of protected routes, and the two protected routes that revoke *)
(* sessions.                                                               *)

\* The token verifies and is an access token; the account row is read.
GuardUser(r, s, op) ==
    /\ req[r].pc = "idle"
    /\ s \in delivered
    /\ age[s] = 0
    /\ AccountUsable(owner[s])
    /\ Go(r, [Idle EXCEPT !.pc = "guard", !.op = op, !.user = owner[s],
                          !.sid = s, !.barred = ~Live(s)])
    /\ UNCHANGED <<account, sessions, events, swept>>

\* The session row is read: the request enters its handler or is refused.
GuardSession(r) ==
    /\ req[r].pc = "guard"
    /\ Go(r, IF RowAcceptsAccess(req[r].sid)
             THEN [req[r] EXCEPT !.pc = req[r].op]
             ELSE Idle)
    /\ UNCHANGED <<account, sessions, events, swept>>

M_AnyToken(u, t) == owner[t] \in Users

\* The session a presented token names belongs to the caller.
OwnToken(u, t) == owner[t] = u

\* POST /auth/logout, with a token of session t (of either type) in its body.
Logout(r, t) ==
    /\ req[r].pc = "logout"
    /\ t \in delivered
    /\ age[t] < 2
    /\ status' = Revoking(IF OwnToken(req[r].user, t) THEN {t} ELSE {})
    /\ ThenLog(r, "LOGOUT", req[r].user, NoSid)
    /\ UNCHANGED <<account, owner, age, delivered, history, events, swept>>

\* A token that does not verify revokes nothing, and the call still succeeds.
LogoutUnusable(r) ==
    /\ req[r].pc = "logout"
    /\ ThenLog(r, "LOGOUT", req[r].user, NoSid)
    /\ UNCHANGED <<account, sessions, events, swept>>

-----------------------------------------------------------------------------
(* POST /auth/change-password and POST /auth/reset-password.               *)

\* Bound: a password version is left for every request that is to write one.
SpareVersion(u) ==
    account[u].password
      + Cardinality({r \in Requests : req[r].pc = "write" /\ req[r].user = u})
      < MaxPassword

\* The account row is read; the current password matches it or not.
ChangeVerified(r) ==
    /\ req[r].pc = "change"
    /\ \/ /\ account[req[r].user].exists
          /\ SpareVersion(req[r].user)
          /\ Go(r, [req[r] EXCEPT !.pc = "write"])
       \/ Go(r, Idle)
    /\ UNCHANGED <<account, sessions, events, swept>>

\* A reset token of u is valid.  Anyone may have one issued at any time, so
\* the token table puts no constraint on when this happens.
ResetVerified(r, u) ==
    /\ req[r].pc = "idle"
    /\ account[u].exists
    /\ SpareVersion(u)
    /\ Go(r, [Idle EXCEPT !.pc = "write", !.op = "reset", !.user = u])
    /\ UNCHANGED <<account, sessions, events, swept>>

\* The sweep forgotten.
M_WriteUnswept(r) ==
    LET u == req[r].user
        v == account[u].password + 1
    IN  /\ req[r].pc = "write"
        /\ account[u].exists
        /\ v <= MaxPassword
        /\ account' = [account EXCEPT ![u].password = v]
        /\ ThenLog(r, "PASSWORD_CHANGE", u, NoSid)
        /\ UNCHANGED <<sessions, events, swept>>

\* user.update of the password; a version number stands for the new hash.
WritePassword(r) ==
    LET u == req[r].user
        v == account[u].password + 1
    IN  /\ req[r].pc = "write"
        /\ v <= MaxPassword
        /\ \/ /\ account[u].exists
              /\ account' = [account EXCEPT ![u].password = v]
              /\ Go(r, [req[r] EXCEPT
                          !.pc = IF req[r].op = "reset" THEN "resetMark" ELSE "sweep",
                          !.epoch = v])
           \/ /\ ~account[u].exists
              /\ Go(r, Idle)
              /\ UNCHANGED account
        /\ UNCHANGED <<sessions, events, swept>>

\* passwordResetToken.update: the row went with the account.
ResetMark(r) ==
    /\ req[r].pc = "resetMark"
    /\ Go(r, IF account[req[r].user].exists
             THEN [req[r] EXCEPT !.pc = "sweep"] ELSE Idle)
    /\ UNCHANGED <<account, sessions, events, swept>>

\* Rows the sweep after a password change covers.
SweepCovers(r) == SessionsOf(req[r].user)

SweepSessions(r) ==
    LET u == req[r].user
    IN  /\ req[r].pc = "sweep"
        /\ status' = Revoking(SweepCovers(r))
        /\ swept' = [swept EXCEPT ![u] = IF @ < req[r].epoch
                                         THEN req[r].epoch ELSE @]
        /\ ThenLog(r, IF req[r].op = "reset" THEN "PASSWORD_RESET_COMPLETE"
                      ELSE "PASSWORD_CHANGE", u, NoSid)
        /\ UNCHANGED <<account, owner, age, delivered, history, events>>

-----------------------------------------------------------------------------
\* SecurityEventsService.log swallows its own failure, so the handler returns
\* either way; a returning sign-in or refresh hands its tokens to the client.
\* An event of an account deleted meanwhile breaks its foreign key.
Log(r) ==
    /\ req[r].pc = "log"
    /\ \/ /\ req[r].user \in Users => account[req[r].user].exists
          /\ events' = events \union
               {e \in EventRow : e.type = req[r].event /\ e.user = req[r].user}
       \/ /\ \/ Failures
             \/ req[r].user \in Users /\ ~account[req[r].user].exists
          /\ UNCHANGED events
    /\ delivered' = delivered \union ({req[r].sid} \ {NoSid})
    /\ Go(r, Idle)
    /\ UNCHANGED <<account, status, owner, age, history, swept>>

\* A statement fails or the process stops: what is done stays done.
Abort(r) ==
    /\ Failures
    /\ req[r].pc # "idle"
    /\ Go(r, Idle)
    /\ UNCHANGED <<account, sessions, events, swept>>

-----------------------------------------------------------------------------
(* The administrator's routes: one statement each. *)

RevokeSession(s) ==
    /\ Live(s)
    /\ status' = Revoking({s})
    /\ UNCHANGED <<account, owner, age, delivered, history, req, events, swept>>

RevokeAllUserSessions(u) ==
    /\ \E s \in SessionsOf(u) : Live(s)
    /\ status' = Revoking(SessionsOf(u))
    /\ UNCHANGED <<account, owner, age, delivered, history, req, events, swept>>

SetBlocked(u, b) ==
    /\ account[u].exists
    /\ account' = [account EXCEPT ![u].isBlocked = b]
    /\ UNCHANGED <<sessions, req, events, swept>>

SetActive(u, b) ==
    /\ account[u].exists
    /\ account' = [account EXCEPT ![u].isActive = b]
    /\ UNCHANGED <<sessions, req, events, swept>>

\* The schema cascades to the sessions and nulls the userId of the events.
DeleteUser(u) ==
    /\ account[u].exists
    /\ account' = [account EXCEPT ![u] = NoRow]
    /\ status' = [s \in Sids |-> IF s \in SessionsOf(u) THEN "deleted"
                                 ELSE status[s]]
    /\ events' = {[e EXCEPT !.user = IF @ = u THEN NoUser ELSE @] : e \in events}
    /\ UNCHANGED <<owner, age, delivered, history, req, swept>>

\* Time: the access token of s expires, then its refresh token and its row.
\* A dead session is refused at any age, so only live ones age.
Elapse(s) ==
    /\ Live(s)
    /\ s \in delivered
    /\ age[s] < MaxAge
    /\ age' = [age EXCEPT ![s] = @ + 1]
    /\ UNCHANGED <<account, status, owner, delivered, history, req, events, swept>>

-----------------------------------------------------------------------------
Login(r) ==
    \/ \E u \in Users : LoginVerified(r, u)
    \/ \E u \in Users \union {NoUser}, e \in EventTypes : LoginRefused(r, u, e)
    \/ LoginCreate(r)

Refresh(r) ==
    \/ \E s \in Sids : RefreshAccepted(r, s)
    \/ RefreshRejected(r)
    \/ RefreshRevoke(r)
    \/ RefreshCreate(r)

Protected(r) ==
    \/ \E s \in Sids, op \in {"logout", "change"} : GuardUser(r, s, op)
    \/ GuardSession(r)
    \/ \E t \in Sids : Logout(r, t)
    \/ LogoutUnusable(r)

Password(r) ==
    \/ ChangeVerified(r)
    \/ \E u \in Users : ResetVerified(r, u)
    \/ WritePassword(r)
    \/ ResetMark(r)
    \/ SweepSessions(r)

Request(r) == Login(r) \/ Refresh(r) \/ Protected(r) \/ Password(r)
                \/ Log(r) \/ Abort(r)

Administrator ==
    \/ \E s \in Sids : RevokeSession(s)
    \/ \E u \in Users : RevokeAllUserSessions(u) \/ DeleteUser(u)
    \/ \E u \in Users, b \in BOOLEAN : SetBlocked(u, b) \/ SetActive(u, b)

Next ==
    \/ \E r \in Requests : Request(r)
    \/ Administrator
    \/ \E s \in Sids : Elapse(s)

Spec == Init /\ [][Next]_vars

-----------------------------------------------------------------------------
TypeOK ==
    /\ account \in [Users -> AccountType]
    /\ status \in [Sids -> {"unused", "live", "revoked", "deleted"}]
    /\ owner \in [Sids -> Users \union {NoUser}]
    /\ age \in [Sids -> 0..MaxAge]
    /\ delivered \subseteq Sids
    /\ req \in [Requests -> RequestType]
    /\ events \subseteq EventRow
    /\ parent \in [Sids -> Sids \union {NoSid}]
    /\ creator \in [Sids -> SUBSET Requests]
    /\ epoch \in [Sids -> 0..MaxPassword]
    /\ swept \in [Users -> 0..MaxPassword]

\* A session obtained with a refresh token exists only when the session of
\* that token is over, at every await of every handler: the two are never
\* usable together.  (The order of the two statements of the rotation.)
RotationRetiresFirst ==
    \A s \in Sids : parent[s] # NoSid => Dead(parent[s])

\* No session of a deleted account is live: a sign-in or refresh that read the
\* account before its deletion opens none after it.  (Handlers hold ids over
\* their awaits and test nothing again.)
LiveSessionsOwned == \A s \in Sids : Live(s) => account[owner[s]].exists

\* However often a client presents one refresh token, one slot never serves
\* it twice: a token has at most as many successors as requests that were
\* under way together.  (The isRevoked test of refreshToken.)
OneSuccessorPerSlot ==
    \A s, t \in Sids :
        s # t /\ parent[s] # NoSid /\ parent[s] = parent[t]
          => creator[s] \intersect creator[t] = {}

\* A request whose session was dead when it arrived never enters a protected
\* handler, whatever happens between the guard's two reads.
DeadSessionNotAdmitted ==
    \A r \in Requests :
        req[r].pc \in {"logout", "change", "write", "resetMark", "sweep"}
          => ~req[r].barred

\* No request ever revokes a session of an account other than its own; only
\* the administrator's statements reach across accounts.
OnlyOwnSessionsRevoked ==
    [][\A r \in Requests, s \in Sids :
        req'[r] # req[r] /\ status'[s] # status[s] /\ Live(s)
          => owner[s] = req[r].user]_vars

\* The store is a SessionLifecycle: a revoked or deleted session never comes
\* back, and a successor is opened only from a session that is over.
Lifecycle == INSTANCE SessionLifecycle WITH
    phase <- [s \in Sids |-> IF status[s] = "unused" THEN "unused"
                             ELSE IF Live(s) THEN "live" ELSE "spent"],
    parent <- parent

LifecycleSpec == Lifecycle!Spec

\* When a password change or reset has revoked the sessions of an account,
\* every live session of it was obtained with that password or a later one.
\* Not so: sign-ins and refreshes that have read their rows before the sweep
\* insert their sessions after it.
SweptSessionsDead ==
    \A s \in Sids : Live(s) => epoch[s] >= swept[owner[s]]

\* What is left of passwords older than the one u's sessions were last swept
\* for: live sessions, and requests that are to create one.
OutdatedSessions(u) ==
    {s \in Sids : Live(s) /\ owner[s] = u /\ epoch[s] < swept[u]}

OutdatedRequests(u) ==
    {r \in Requests :
        /\ req[r].pc \in {"loginCreate", "refreshRevoke", "refreshCreate"}
        /\ req[r].user = u /\ req[r].epoch < swept[u]}

\* The sweep of a password change ends every session of an older password, and
\* those that requests under way create after it are the last: once they and
\* what was made of them are gone, no old password gives a session again.
OldPasswordFades ==
    [][\A u \in Users :
        IF swept'[u] # swept[u]
        THEN OutdatedSessions(u)' = {}
        ELSE OutdatedSessions(u) = {} /\ OutdatedRequests(u) = {}
               => OutdatedSessions(u)' = {} /\ OutdatedRequests(u)' = {}]_vars

\* The event log is believed: where it tells of a password change or reset of
\* an account, the sweep of a change of that account has run, whichever
\* statement failed.  (The event is the handler's last statement.)
ChangeLoggedAfterSweep ==
    \A e \in events :
        e.type \in {"PASSWORD_CHANGE", "PASSWORD_RESET_COMPLETE"} /\ e.user # NoUser
          => swept[e.user] > 0

\* "The old session is revoked and a new one takes its place": one.
OneSuccessor ==
    \A s, t \in Sids :
        parent[s] # NoSid /\ parent[s] = parent[t] => s = t
=============================================================================

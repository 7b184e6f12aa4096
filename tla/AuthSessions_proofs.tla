------------------------- MODULE AuthSessions_proofs -------------------------
(* Proofs about AuthSessions, for every value of its constants. *)
EXTENDS AuthSessions, FiniteSetTheorems, TLAPS

-----------------------------------------------------------------------------
(* What the slots and the rows owe each other between two awaits. *)

RowsOwned ==
    /\ \A s \in Sids : status[s] # "unused" => owner[s] \in Users
    /\ \A s \in delivered : status[s] # "unused"

SlotWellFormed(q) ==
    /\ q.pc \notin {"idle", "log"} => q.user \in Users
    /\ q.pc \in {"refreshRevoke", "refreshCreate"} =>
         /\ q.sid \in Sids
         /\ status[q.sid] # "unused"
         /\ owner[q.sid] = q.user
    /\ q.pc = "guard" => q.sid \in Sids /\ q.op \in {"logout", "change"}
    /\ q.pc = "log" /\ q.sid # NoSid => status[q.sid] # "unused"

Consistent ==
    /\ TypeOK
    /\ RowsOwned
    /\ \A r \in Requests : SlotWellFormed(req[r])

LEMMA NoSidOut == NoSid \notin Sids
  BY ConstantsAssumption

LEMMA IdleSlot == Idle \in RequestType /\ SlotWellFormed(Idle)
  BY ConstantsAssumption DEF Idle, RequestType, PCs, SlotWellFormed

LEMMA InitConsistent == Init => Consistent
  BY ConstantsAssumption, IdleSlot
  DEF Init, Consistent, TypeOK, RowsOwned, AccountType, EventRow

\* A step that only moves one slot, to a well-formed record.
LEMMA SlotStep ==
  ASSUME Consistent, NEW r \in Requests, NEW q \in RequestType,
         SlotWellFormed(q), Go(r, q),
         UNCHANGED <<account, sessions, events, swept>>
  PROVE  Consistent'
<1>1. req' \in [Requests -> RequestType]
  BY DEF Go, Consistent, TypeOK
<1>2. TypeOK'
  BY <1>1 DEF Consistent, TypeOK, sessions
<1>3. RowsOwned'
  BY DEF Consistent, RowsOwned, sessions
<1>4. \A x \in Requests : SlotWellFormed(req[x])'
  BY DEF Consistent, TypeOK, SlotWellFormed, sessions, Go
<1> QED BY <1>2, <1>3, <1>4 DEF Consistent

\* A step that moves at most one slot and changes rows, none back to unused
\* and none to another owner, keeps every slot well formed.
LEMMA RowsStep ==
  ASSUME Consistent, NEW r \in Requests, NEW q \in RequestType,
         SlotWellFormed(q)', Go(r, q) \/ UNCHANGED req,
         \A s \in Sids : status[s] # "unused" =>
             status'[s] # "unused" /\ owner'[s] = owner[s]
  PROVE  /\ req' \in [Requests -> RequestType]
         /\ \A x \in Requests : SlotWellFormed(req[x])'
<1>1. req' \in [Requests -> RequestType]
  BY DEF Go, Consistent, TypeOK
<1>2. ASSUME NEW x \in RequestType, SlotWellFormed(x) PROVE SlotWellFormed(x)'
  <2>1. x.sid \in Sids \union {NoSid}
    BY DEF RequestType
  <2> QED BY <1>2, <2>1 DEF SlotWellFormed
<1>3. \A x \in Requests : SlotWellFormed(req[x])'
  BY <1>2 DEF Consistent, TypeOK, SlotWellFormed, Go
<1> QED BY <1>1, <1>3

LEMMA LogSlotType ==
  ASSUME NEW e \in EventTypes, NEW u \in Users \union {NoUser},
         NEW s \in Sids \union {NoSid}
  PROVE  /\ LogSlot(e, u, s) \in RequestType
         /\ LogSlot(e, u, s).pc = "log"
         /\ LogSlot(e, u, s).sid = s
  BY IdleSlot DEF LogSlot, Idle, RequestType, PCs

LEMMA RevokingType ==
  ASSUME TypeOK, NEW S, status' = Revoking(S)
  PROVE  /\ status' \in [Sids -> {"unused", "live", "revoked", "deleted"}]
         /\ \A s \in Sids : status'[s] # "unused" <=> status[s] # "unused"
  BY DEF TypeOK, Revoking, Live

\* A step that moves at most one slot and revokes rows.
LEMMA RevokeStep ==
  ASSUME Consistent, NEW r \in Requests, NEW q \in RequestType,
         SlotWellFormed(q), Go(r, q) \/ UNCHANGED req,
         NEW S, status' = Revoking(S),
         swept' \in [Users -> 0..MaxPassword],
         UNCHANGED <<account, owner, age, delivered, history, events>>
  PROVE  Consistent'
<1>1. /\ status' \in [Sids -> {"unused", "live", "revoked", "deleted"}]
      /\ \A s \in Sids : status'[s] # "unused" <=> status[s] # "unused"
  BY RevokingType DEF Consistent
<1>2. SlotWellFormed(q)'
  <2>1. q.sid \in Sids \union {NoSid}
    BY DEF RequestType
  <2> QED BY <1>1, <2>1 DEF SlotWellFormed
<1>3. /\ req' \in [Requests -> RequestType]
      /\ \A x \in Requests : SlotWellFormed(req[x])'
  BY <1>1, <1>2, RowsStep
<1>4. RowsOwned'
  BY <1>1 DEF RowsOwned, Consistent, TypeOK
<1>5. TypeOK'
  BY <1>1, <1>3 DEF TypeOK, Consistent, history
<1> QED BY <1>3, <1>4, <1>5 DEF Consistent

\* A step of the administrator or the clock: no slot moves, no row returns to
\* unused or changes owner.
LEMMA RowsOnly ==
  ASSUME Consistent, UNCHANGED <<req, owner, delivered>>,
         status' \in [Sids -> {"unused", "live", "revoked", "deleted"}],
         \A s \in Sids : status'[s] # "unused" <=> status[s] # "unused",
         account' \in [Users -> AccountType],
         age' \in [Sids -> 0..MaxAge],
         events' \subseteq EventRow,
         UNCHANGED <<parent, creator, epoch, swept>>
  PROVE  Consistent'
<1>1. ASSUME NEW r \in Requests PROVE SlotWellFormed(req[r])'
  BY DEF SlotWellFormed, Consistent, TypeOK, RequestType
<1>2. RowsOwned'
  BY DEF RowsOwned, Consistent, TypeOK
<1>3. TypeOK'
  BY DEF TypeOK, Consistent
<1> QED BY <1>1, <1>2, <1>3 DEF Consistent

-----------------------------------------------------------------------------
\* Both handlers that create a session: rows, slot and history together.
LEMMA CreateStep ==
  ASSUME Consistent, NEW r \in Requests, NEW s \in Sids,
         NEW p \in Sids \union {NoSid},
         NEW e \in {"LOGIN_SUCCESS", "REFRESH_TOKEN"},
         NEW u \in Users, NEW v \in 0..MaxPassword,
         CreateSession(s, u, p, r, v), ThenLog(r, e, u, s),
         UNCHANGED <<account, events, swept>>
  PROVE  Consistent'
<1> DEFINE q == LogSlot(e, u, s)
<1>1. q \in RequestType /\ q.pc = "log" /\ q.sid = s
  BY LogSlotType DEF EventTypes
<1>2. /\ status' \in [Sids -> {"unused", "live", "revoked", "deleted"}]
      /\ owner' \in [Sids -> Users \union {NoUser}]
      /\ parent' \in [Sids -> Sids \union {NoSid}]
      /\ creator' \in [Sids -> SUBSET Requests]
      /\ epoch' \in [Sids -> 0..MaxPassword]
  BY DEF CreateSession, Consistent, TypeOK, RequestType
<1>3. \A x \in Sids : status[x] # "unused" =>
          status'[x] # "unused" /\ owner'[x] = owner[x]
  BY DEF CreateSession, Consistent, TypeOK
<1>4. status'[s] # "unused" /\ owner'[s] \in Users
  BY DEF CreateSession, Consistent, TypeOK
<1>5. SlotWellFormed(q)'
  BY <1>1, <1>4 DEF SlotWellFormed
<1>6. Go(r, q)
  BY DEF ThenLog, LogSlot
<1>7. /\ req' \in [Requests -> RequestType]
      /\ \A x \in Requests : SlotWellFormed(req[x])'
  BY <1>1, <1>3, <1>5, <1>6, RowsStep
<1>8. RowsOwned'
  BY DEF RowsOwned, CreateSession, Consistent, TypeOK
<1>9. TypeOK'
  BY <1>2, <1>7 DEF TypeOK, CreateSession, Consistent
<1> QED BY <1>7, <1>8, <1>9 DEF Consistent

LEMMA LoginConsistent ==
  ASSUME Consistent, NEW r \in Requests, Login(r)
  PROVE  Consistent'
<1>1. ASSUME NEW u \in Users, LoginVerified(r, u) PROVE Consistent'
  <2> DEFINE q == [Idle EXCEPT !.pc = "loginCreate", !.user = u,
                               !.epoch = account[u].password]
  <2>1. q \in RequestType /\ SlotWellFormed(q)
    BY IdleSlot DEF Idle, RequestType, PCs, SlotWellFormed, Consistent, TypeOK,
        AccountType
  <2> QED BY <1>1, <2>1, SlotStep DEF LoginVerified
<1>2. ASSUME NEW u \in Users \union {NoUser}, NEW e \in EventTypes,
             LoginRefused(r, u, e)
      PROVE  Consistent'
  <2>1. SlotWellFormed(LogSlot(e, u, NoSid))
    BY LogSlotType DEF SlotWellFormed
  <2> QED BY <1>2, <2>1, LogSlotType, SlotStep DEF LoginRefused, ThenLog, LogSlot
<1>3. CASE LoginCreate(r)
  <2>1. CASE /\ ~account[req[r].user].exists
             /\ Go(r, Idle)
             /\ UNCHANGED sessions
    BY <1>3, <2>1, IdleSlot, SlotStep DEF LoginCreate, OwnerExists
  <2>2. ASSUME NEW s \in Sids,
               CreateSession(s, req[r].user, NoSid, r, req[r].epoch),
               ThenLog(r, "LOGIN_SUCCESS", req[r].user, s)
        PROVE  Consistent'
    <3>1. req[r].user \in Users /\ req[r].epoch \in 0..MaxPassword
      BY <1>3 DEF LoginCreate, Consistent, TypeOK, RequestType, SlotWellFormed
    <3> QED BY <1>3, <2>2, <3>1, CreateStep DEF LoginCreate, OwnerExists
  <2> QED BY <1>3, <2>1, <2>2 DEF LoginCreate, OwnerExists
<1> QED BY <1>1, <1>2, <1>3 DEF Login

LEMMA RefreshConsistent ==
  ASSUME Consistent, NEW r \in Requests, Refresh(r)
  PROVE  Consistent'
<1>1. ASSUME NEW s \in Sids, RefreshAccepted(r, s) PROVE Consistent'
  <2> DEFINE q == [Idle EXCEPT !.pc = "refreshRevoke", !.user = owner[s],
                               !.sid = s, !.epoch = epoch[s]]
  <2>1. owner[s] \in Users /\ epoch[s] \in 0..MaxPassword /\ Live(s)
    BY <1>1 DEF RefreshAccepted, RowAcceptsRefresh, Live, Consistent, TypeOK,
        RowsOwned
  <2>2. q \in RequestType /\ SlotWellFormed(q)
    BY <2>1, IdleSlot DEF Idle, RequestType, PCs, SlotWellFormed, Live
  <2> QED BY <1>1, <2>2, SlotStep DEF RefreshAccepted
<1>2. CASE RefreshRejected(r)
  <2>1. SlotWellFormed(LogSlot("SUSPICIOUS_REQUEST", NoUser, NoSid))
    BY LogSlotType DEF SlotWellFormed, EventTypes
  <2> QED BY <1>2, <2>1, LogSlotType, SlotStep
          DEF RefreshRejected, ThenLog, LogSlot, EventTypes
<1>3. CASE RefreshRevoke(r)
  <2> DEFINE next == [req[r] EXCEPT !.pc = "refreshCreate"]
  <2>1. /\ req[r] \in RequestType
        /\ SlotWellFormed(req[r])
        /\ req[r].pc = "refreshRevoke"
    BY <1>3 DEF RefreshRevoke, Consistent, TypeOK
  <2>2. next \in RequestType /\ SlotWellFormed(next)
    BY <2>1 DEF SlotWellFormed, RequestType, PCs
  <2>3. PICK q \in {Idle, next} : Go(r, q)
    BY <1>3 DEF RefreshRevoke
  <2>4. q \in RequestType /\ SlotWellFormed(q)
    BY <2>2, <2>3, IdleSlot
  <2>5. swept' \in [Users -> 0..MaxPassword]
    BY <1>3 DEF RefreshRevoke, Consistent, TypeOK
  <2> QED BY <1>3, <2>3, <2>4, <2>5, RevokeStep DEF RefreshRevoke
<1>4. CASE RefreshCreate(r)
  <2>1. CASE /\ ~account[req[r].user].exists
             /\ Go(r, Idle)
             /\ UNCHANGED sessions
    BY <1>4, <2>1, IdleSlot, SlotStep DEF RefreshCreate, OwnerExists
  <2>2. ASSUME NEW s \in Sids,
               CreateSession(s, req[r].user, req[r].sid, r, req[r].epoch),
               ThenLog(r, "REFRESH_TOKEN", req[r].user, s)
        PROVE  Consistent'
    <3>1. /\ req[r].user \in Users
          /\ req[r].sid \in Sids
          /\ req[r].epoch \in 0..MaxPassword
      BY <1>4 DEF RefreshCreate, Consistent, TypeOK, RequestType, SlotWellFormed
    <3> QED BY <1>4, <2>2, <3>1, CreateStep DEF RefreshCreate, OwnerExists
  <2> QED BY <1>4, <2>1, <2>2 DEF RefreshCreate, OwnerExists
<1> QED BY <1>1, <1>2, <1>3, <1>4 DEF Refresh

LEMMA ProtectedConsistent ==
  ASSUME Consistent, NEW r \in Requests, Protected(r)
  PROVE  Consistent'
<1>1. ASSUME NEW s \in Sids, NEW op \in {"logout", "change"},
             GuardUser(r, s, op)
      PROVE  Consistent'
  <2> DEFINE q == [Idle EXCEPT !.pc = "guard", !.op = op, !.user = owner[s],
                               !.sid = s, !.barred = ~Live(s)]
  <2>1. owner[s] \in Users
    BY <1>1 DEF GuardUser, Consistent, RowsOwned
  <2>2. q \in RequestType /\ SlotWellFormed(q)
    BY <2>1, IdleSlot DEF Idle, RequestType, PCs, SlotWellFormed, Live
  <2> QED BY <1>1, <2>2, SlotStep DEF GuardUser
<1>2. CASE GuardSession(r)
  <2> DEFINE next == [req[r] EXCEPT !.pc = req[r].op]
  <2>1. /\ req[r] \in RequestType
        /\ SlotWellFormed(req[r])
        /\ req[r].pc = "guard"
    BY <1>2 DEF GuardSession, Consistent, TypeOK
  <2>2. next \in RequestType /\ SlotWellFormed(next)
    BY <2>1 DEF SlotWellFormed, RequestType, PCs
  <2>3. PICK q \in {Idle, next} : Go(r, q)
    BY <1>2 DEF GuardSession
  <2>4. q \in RequestType /\ SlotWellFormed(q)
    BY <2>2, <2>3, IdleSlot
  <2> QED BY <1>2, <2>3, <2>4, SlotStep DEF GuardSession
<1>3. ASSUME req[r].pc = "logout"
      PROVE  LET q == LogSlot("LOGOUT", req[r].user, NoSid)
             IN  q \in RequestType /\ SlotWellFormed(q)
  <2>1. req[r].user \in Users
    BY <1>3 DEF Consistent, SlotWellFormed
  <2> QED BY <2>1, LogSlotType DEF EventTypes, SlotWellFormed
<1>4. ASSUME NEW t \in Sids, Logout(r, t) PROVE Consistent'
  <2>1. swept' \in [Users -> 0..MaxPassword]
    BY <1>4 DEF Logout, Consistent, TypeOK
  <2>2. PICK q : q = LogSlot("LOGOUT", req[r].user, NoSid)
    OBVIOUS
  <2>3. q \in RequestType /\ SlotWellFormed(q) /\ Go(r, q)
    BY <1>3, <1>4, <2>2 DEF Logout, ThenLog, LogSlot
  <2> QED BY <1>4, <2>1, <2>3, RevokeStep DEF Logout
<1>5. CASE LogoutUnusable(r)
  BY <1>3, <1>5, SlotStep DEF LogoutUnusable, ThenLog, LogSlot
<1> QED BY <1>1, <1>2, <1>4, <1>5 DEF Protected

LEMMA PasswordConsistent ==
  ASSUME Consistent, NEW r \in Requests, Password(r)
  PROVE  Consistent'
<1> DEFINE u == req[r].user
           at(pc) == [req[r] EXCEPT !.pc = pc]
<1>1. req[r] \in RequestType /\ SlotWellFormed(req[r])
  BY DEF Consistent, TypeOK
<1>2. ASSUME req[r].pc \notin {"idle", "log"}, NEW pc \in {"write", "sweep"}
      PROVE  at(pc) \in RequestType /\ SlotWellFormed(at(pc))
  BY <1>1, <1>2 DEF RequestType, PCs, SlotWellFormed
<1>3. CASE ChangeVerified(r)
  <2>1. PICK q \in {Idle, at("write")} : Go(r, q)
    BY <1>3 DEF ChangeVerified
  <2> QED BY <1>2, <1>3, <2>1, IdleSlot, SlotStep DEF ChangeVerified
<1>4. ASSUME NEW w \in Users, ResetVerified(r, w) PROVE Consistent'
  <2> DEFINE q == [Idle EXCEPT !.pc = "write", !.op = "reset", !.user = w]
  <2>1. q \in RequestType /\ SlotWellFormed(q)
    BY IdleSlot DEF Idle, RequestType, PCs, SlotWellFormed
  <2> QED BY <1>4, <2>1, SlotStep DEF ResetVerified
<1>5. CASE WritePassword(r)
  <2>1. CASE ~account[u].exists /\ Go(r, Idle) /\ UNCHANGED account
    BY <1>5, <2>1, IdleSlot, SlotStep DEF WritePassword
  <2>2. CASE account[u].exists
    <3> DEFINE v == account[u].password + 1
    <3>1. u \in Users /\ v \in 0..MaxPassword
      BY <1>1, <1>5 DEF WritePassword, SlotWellFormed, Consistent, TypeOK,
          AccountType
    <3>2. account' \in [Users -> AccountType]
      <4>1. [account[u] EXCEPT !.password = v] \in AccountType
        BY <3>1 DEF Consistent, TypeOK, AccountType
      <4>2. account' = [account EXCEPT ![u] = [account[u] EXCEPT !.password = v]]
        BY <1>5, <2>2, <3>1 DEF WritePassword
      <4> QED BY <4>1, <4>2, <3>1 DEF Consistent, TypeOK
    <3>3. PICK pc \in {"resetMark", "sweep"} :
            Go(r, [req[r] EXCEPT !.pc = pc, !.epoch = v])
      BY <1>5, <2>2 DEF WritePassword
    <3>4. PICK q : q = [req[r] EXCEPT !.pc = pc, !.epoch = v]
      OBVIOUS
    <3>5. q \in RequestType /\ SlotWellFormed(q)
      <4>1. q \in RequestType
        BY <1>1, <3>1, <3>4 DEF RequestType, PCs
      <4>2. q.pc \in {"resetMark", "sweep"} /\ q.user = u
        BY <1>1, <3>4 DEF RequestType
      <4> QED BY <3>1, <4>1, <4>2 DEF SlotWellFormed
    <3>6. Go(r, q) /\ UNCHANGED sessions
      BY <1>5, <3>3, <3>4 DEF WritePassword
    <3>7. SlotWellFormed(q)'
      BY <3>5, <3>6 DEF SlotWellFormed, sessions
    <3>8. /\ req' \in [Requests -> RequestType]
          /\ \A x \in Requests : SlotWellFormed(req[x])'
      BY <3>5, <3>6, <3>7, RowsStep DEF sessions
    <3>9. RowsOwned'
      BY <3>6 DEF Consistent, RowsOwned, sessions
    <3>10. TypeOK'
      BY <1>5, <3>2, <3>6, <3>8 DEF WritePassword, TypeOK, Consistent, sessions
    <3> QED BY <3>8, <3>9, <3>10 DEF Consistent
  <2> QED BY <1>5, <2>1, <2>2 DEF WritePassword
<1>6. CASE ResetMark(r)
  <2>1. PICK q \in {Idle, at("sweep")} : Go(r, q)
    BY <1>6 DEF ResetMark
  <2> QED BY <1>2, <1>6, <2>1, IdleSlot, SlotStep DEF ResetMark
<1>7. CASE SweepSessions(r)
  <2>1. u \in Users
    BY <1>1, <1>7 DEF SweepSessions, SlotWellFormed
  <2>2. PICK e \in {"PASSWORD_CHANGE", "PASSWORD_RESET_COMPLETE"} :
          Go(r, LogSlot(e, u, NoSid))
    BY <1>7 DEF SweepSessions, ThenLog, LogSlot
  <2>3. PICK q : q = LogSlot(e, u, NoSid)
    OBVIOUS
  <2>4. q \in RequestType /\ SlotWellFormed(q) /\ Go(r, q)
    BY <2>1, <2>2, <2>3, LogSlotType DEF EventTypes, SlotWellFormed
  <2>5. swept' \in [Users -> 0..MaxPassword]
    BY <1>1, <1>7, <2>1 DEF SweepSessions, Consistent, TypeOK, RequestType
  <2> QED BY <1>7, <2>4, <2>5, RevokeStep DEF SweepSessions
<1> QED BY <1>3, <1>4, <1>5, <1>6, <1>7 DEF Password

LEMMA LogConsistent ==
  ASSUME Consistent, NEW r \in Requests, Log(r)
  PROVE  Consistent'
<1>1. /\ req[r] \in RequestType
      /\ req[r].pc = "log"
      /\ req[r].sid # NoSid => status[req[r].sid] # "unused"
  BY DEF Log, Consistent, TypeOK, SlotWellFormed
<1>2. events' \subseteq EventRow
  BY DEF Log, Consistent, TypeOK
<1>3. delivered' \subseteq Sids /\ RowsOwned'
  BY <1>1 DEF Log, Consistent, TypeOK, RequestType, RowsOwned
<1>4. SlotWellFormed(Idle)'
  BY DEF SlotWellFormed, Idle
<1>5. Go(r, Idle) /\ UNCHANGED <<account, status, owner, age, history, swept>>
  BY DEF Log
<1>6. /\ req' \in [Requests -> RequestType]
      /\ \A x \in Requests : SlotWellFormed(req[x])'
  BY <1>4, <1>5, IdleSlot, RowsStep
<1>7. TypeOK'
  BY <1>2, <1>3, <1>5, <1>6 DEF TypeOK, Consistent, history
<1> QED BY <1>3, <1>6, <1>7 DEF Consistent

LEMMA AdministratorConsistent ==
  ASSUME Consistent, Administrator
  PROVE  Consistent'
<1>1. ASSUME NEW S, status' = Revoking(S),
             UNCHANGED <<account, owner, age, delivered, history, req, events, swept>>
      PROVE  Consistent'
  <2>1. /\ status' \in [Sids -> {"unused", "live", "revoked", "deleted"}]
        /\ \A s \in Sids : status'[s] # "unused" <=> status[s] # "unused"
    BY <1>1, RevokingType DEF Consistent
  <2> QED BY <1>1, <2>1, RowsOnly DEF Consistent, TypeOK, history
<1>2. ASSUME NEW s \in Sids, RevokeSession(s) PROVE Consistent'
  BY <1>1, <1>2 DEF RevokeSession
<1>3. ASSUME NEW u \in Users, RevokeAllUserSessions(u) PROVE Consistent'
  BY <1>1, <1>3 DEF RevokeAllUserSessions
<1>4. ASSUME NEW u \in Users, DeleteUser(u) PROVE Consistent'
  <2>1. /\ status' \in [Sids -> {"unused", "live", "revoked", "deleted"}]
        /\ \A s \in Sids : status'[s] # "unused" <=> status[s] # "unused"
    BY <1>4 DEF DeleteUser, SessionsOf, Consistent, TypeOK
  <2>2. account' \in [Users -> AccountType]
    BY <1>4, ConstantsAssumption DEF DeleteUser, Consistent, TypeOK, AccountType, NoRow
  <2>3. events' \subseteq EventRow
    BY <1>4 DEF DeleteUser, Consistent, TypeOK, EventRow
  <2> QED BY <1>4, <2>1, <2>2, <2>3, RowsOnly
          DEF DeleteUser, Consistent, TypeOK, history
<1>5. ASSUME NEW u \in Users, NEW b \in BOOLEAN,
             SetBlocked(u, b) \/ SetActive(u, b)
      PROVE  Consistent'
  <2>1. account' \in [Users -> AccountType]
    <3>1. /\ [account[u] EXCEPT !.isBlocked = b] \in AccountType
          /\ [account[u] EXCEPT !.isActive = b] \in AccountType
      BY DEF Consistent, TypeOK, AccountType
    <3>2. \/ account' = [account EXCEPT ![u] = [account[u] EXCEPT !.isBlocked = b]]
          \/ account' = [account EXCEPT ![u] = [account[u] EXCEPT !.isActive = b]]
      BY <1>5 DEF SetBlocked, SetActive
    <3> QED BY <3>1, <3>2 DEF Consistent, TypeOK
  <2>2. UNCHANGED <<sessions, req, events, swept>>
    BY <1>5 DEF SetBlocked, SetActive
  <2> QED BY <2>1, <2>2, RowsOnly DEF Consistent, TypeOK, sessions
<1> QED BY <1>2, <1>3, <1>4, <1>5 DEF Administrator

LEMMA ElapseConsistent ==
  ASSUME Consistent, NEW s \in Sids, Elapse(s)
  PROVE  Consistent'
<1>1. age' \in [Sids -> 0..MaxAge]
  BY ConstantsAssumption DEF Elapse, Consistent, TypeOK
<1> QED BY <1>1, RowsOnly DEF Elapse, Consistent, TypeOK, history

LEMMA ConsistentStep == Consistent /\ [Next]_vars => Consistent'
<1> SUFFICES ASSUME Consistent, [Next]_vars PROVE Consistent'
  OBVIOUS
<1>1. ASSUME NEW r \in Requests, Request(r) PROVE Consistent'
  <2>1. CASE Abort(r)
    BY <1>1, <2>1, IdleSlot, SlotStep DEF Abort
  <2> QED BY <1>1, <2>1, LoginConsistent, RefreshConsistent,
             ProtectedConsistent, PasswordConsistent, LogConsistent DEF Request
<1>2. CASE UNCHANGED vars
  BY <1>2, RowsOnly DEF vars, sessions, Consistent, TypeOK
<1> QED BY <1>1, <1>2, AdministratorConsistent, ElapseConsistent DEF Next

\* Every variable keeps its type, whatever the requests, the administrator,
\* the failures and the clock do.
THEOREM TypeCorrect == Spec => []TypeOK
<1>1. Consistent => TypeOK
  BY DEF Consistent
<1> QED BY <1>1, InitConsistent, ConsistentStep, PTL DEF Spec

-----------------------------------------------------------------------------
(* What one step does to the rows, and to the slot that takes it. *)

RowsKept ==
    /\ UNCHANGED <<owner, parent, creator>>
    /\ \A s \in Sids :
         \/ status'[s] = status[s]
         \/ Live(s) /\ status'[s] = "revoked"
         \/ status[s] # "unused" /\ status'[s] = "deleted"

RowCreated(r, s) ==
    /\ status[s] = "unused"
    /\ status' = [status EXCEPT ![s] = "live"]
    /\ creator' = [creator EXCEPT ![s] = {r}]
    /\ req'[r].pc = "log"
    /\ \/ /\ req[r].pc = "loginCreate"
          /\ parent' = [parent EXCEPT ![s] = NoSid]
       \/ /\ req[r].pc = "refreshCreate"
          /\ parent' = [parent EXCEPT ![s] = req[r].sid]

LEMMA RevokingKeeps ==
  ASSUME TypeOK, NEW S, status' = Revoking(S), UNCHANGED <<owner, history>>
  PROVE  RowsKept
  BY DEF TypeOK, Revoking, Live, RowsKept, history

LEMMA RowEffects ==
  ASSUME Consistent, [Next]_vars
  PROVE  RowsKept \/ \E r \in Requests, s \in Sids : RowCreated(r, s)
<1> USE DEF Consistent
<1>1. ASSUME UNCHANGED sessions PROVE RowsKept
  BY <1>1 DEF RowsKept, sessions
<1>2. ASSUME NEW r \in Requests, LoginCreate(r), ~UNCHANGED sessions
      PROVE  \E s \in Sids : RowCreated(r, s)
  <2>1. PICK s \in Sids :
          /\ CreateSession(s, req[r].user, NoSid, r, req[r].epoch)
          /\ ThenLog(r, "LOGIN_SUCCESS", req[r].user, s)
    BY <1>2 DEF LoginCreate
  <2>2. req'[r].pc = "log"
    BY <2>1 DEF ThenLog, LogSlot, Go, TypeOK, Idle
  <2> QED BY <1>2, <2>1, <2>2 DEF LoginCreate, CreateSession, RowCreated
<1>3. ASSUME NEW r \in Requests, RefreshCreate(r), ~UNCHANGED sessions
      PROVE  \E s \in Sids : RowCreated(r, s)
  <2>1. PICK s \in Sids :
          /\ CreateSession(s, req[r].user, req[r].sid, r, req[r].epoch)
          /\ ThenLog(r, "REFRESH_TOKEN", req[r].user, s)
    BY <1>3 DEF RefreshCreate
  <2>2. req'[r].pc = "log"
    BY <2>1 DEF ThenLog, LogSlot, Go, TypeOK, Idle
  <2> QED BY <1>3, <2>1, <2>2 DEF RefreshCreate, CreateSession, RowCreated
<1>4. ASSUME NEW r \in Requests, Login(r)
      PROVE  RowsKept \/ \E s \in Sids : RowCreated(r, s)
  <2>1. UNCHANGED sessions \/ LoginCreate(r)
    BY <1>4 DEF Login, LoginVerified, LoginRefused, sessions
  <2> QED BY <1>1, <1>2, <2>1
<1>5. ASSUME NEW r \in Requests, Refresh(r)
      PROVE  RowsKept \/ \E s \in Sids : RowCreated(r, s)
  <2>1. CASE RefreshRevoke(r)
    BY <2>1, RevokingKeeps DEF RefreshRevoke
  <2>2. UNCHANGED sessions \/ RefreshRevoke(r) \/ RefreshCreate(r)
    BY <1>5 DEF Refresh, RefreshAccepted, RefreshRejected, sessions
  <2> QED BY <1>1, <1>3, <2>1, <2>2
<1>6. ASSUME NEW r \in Requests, Protected(r) PROVE RowsKept
  <2>1. ASSUME NEW t \in Sids, Logout(r, t) PROVE RowsKept
    BY <2>1, RevokingKeeps DEF Logout
  <2>2. UNCHANGED sessions \/ \E t \in Sids : Logout(r, t)
    BY <1>6 DEF Protected, GuardUser, GuardSession, LogoutUnusable,
        sessions
  <2> QED BY <1>1, <2>1, <2>2
<1>7. ASSUME NEW r \in Requests, Password(r) PROVE RowsKept
  <2>1. CASE SweepSessions(r)
    BY <2>1, RevokingKeeps DEF SweepSessions
  <2>2. UNCHANGED sessions \/ SweepSessions(r)
    BY <1>7 DEF Password, ChangeVerified, ResetVerified, WritePassword, ResetMark,
        sessions
  <2> QED BY <1>1, <2>1, <2>2
<1>8. ASSUME NEW r \in Requests, Log(r) \/ Abort(r) PROVE RowsKept
  BY <1>8 DEF Log, Abort, sessions, history, RowsKept
<1>9. CASE Administrator
  <2>1. ASSUME NEW u \in Users, DeleteUser(u) PROVE RowsKept
    BY <2>1 DEF DeleteUser, RowsKept, SessionsOf, TypeOK, history
  <2> QED BY <1>1, <1>9, <2>1, RevokingKeeps
          DEF Administrator, RevokeSession, RevokeAllUserSessions, SetBlocked,
              SetActive
<1>10. ASSUME NEW s \in Sids, Elapse(s) PROVE RowsKept
  BY <1>10 DEF Elapse, RowsKept, history
<1>11. CASE UNCHANGED vars
  BY <1>1, <1>11 DEF vars
<1> QED BY <1>4, <1>5, <1>6, <1>7, <1>8, <1>9, <1>10, <1>11 DEF Next, Request

\* A session that is over stays over.
LEMMA DeadForever ==
  ASSUME Consistent, [Next]_vars, NEW s \in Sids, Dead(s)
  PROVE  Dead(s)'
  BY RowEffects DEF Consistent, TypeOK, RowsKept, RowCreated, Dead, Live

Admitted == {"logout", "change", "write", "resetMark", "sweep"}

\* How a slot may have come to where it is.
SlotMoved(r) ==
    \/ req'[r].pc \in {"idle", "loginCreate", "log"}
    \/ /\ req'[r].pc = "refreshRevoke"
       /\ req'[r].sid \in Sids /\ Live(req'[r].sid)
    \/ /\ req'[r].pc = "refreshCreate"
       /\ req[r].pc = "refreshRevoke"
       /\ req'[r].sid = req[r].sid
       /\ Dead(req[r].sid)'
    \/ /\ req'[r].pc = "guard"
       /\ req'[r].sid \in Sids
       /\ req'[r].barred => Dead(req'[r].sid)
    \/ /\ req'[r].pc \in Admitted
       /\ \/ ~req'[r].barred
          \/ req[r].pc \in Admitted /\ req[r].barred
          \/ req[r].pc = "guard" /\ req[r].barred /\ Live(req[r].sid)

LEMMA SlotEffects ==
  ASSUME Consistent, NEW r \in Requests, Request(r)
  PROVE  SlotMoved(r)
<1>1. /\ req[r] \in RequestType
      /\ SlotWellFormed(req[r])
      /\ \A q : Go(r, q) => req'[r] = q
  BY DEF Consistent, TypeOK, Go
<1>2. \A e, u, s : ThenLog(r, e, u, s) => req'[r].pc = "log"
  BY <1>1 DEF ThenLog, LogSlot, Idle
<1>3. Go(r, Idle) => req'[r].pc = "idle"
  BY <1>1 DEF Idle
<1>4. CASE Login(r)
  BY <1>1, <1>2, <1>3, <1>4
  DEF Login, LoginVerified, LoginRefused, LoginCreate, SlotMoved, Idle
<1>5. ASSUME NEW s \in Sids, RefreshAccepted(r, s) PROVE SlotMoved(r)
  BY <1>1, <1>5 DEF RefreshAccepted, RowAcceptsRefresh, SlotMoved, Idle
<1>6. CASE RefreshRevoke(r)
  <2>1. CASE status[req[r].sid] = "deleted"
    BY <1>3, <1>6, <2>1 DEF RefreshRevoke, SlotMoved
  <2>2. CASE status[req[r].sid] # "deleted"
    <3>1. req'[r].pc = "refreshCreate" /\ req'[r].sid = req[r].sid
      BY <1>1, <1>6, <2>2 DEF RefreshRevoke, RequestType
    <3>2. Dead(req[r].sid)'
      BY <1>1, <1>6, <2>2, <3>1 DEF RefreshRevoke, Revoking, Live, Dead,
          SlotWellFormed, Consistent, TypeOK
    <3> QED BY <1>6, <3>1, <3>2 DEF RefreshRevoke, SlotMoved
  <2> QED BY <2>1, <2>2
<1>7. CASE RefreshRejected(r) \/ RefreshCreate(r)
  BY <1>2, <1>3, <1>7 DEF RefreshRejected, RefreshCreate, SlotMoved
<1>8. ASSUME NEW s \in Sids, NEW op \in {"logout", "change"}, GuardUser(r, s, op)
      PROVE  SlotMoved(r)
  <2>1. status[s] # "unused" /\ status[s] \in {"unused", "live", "revoked", "deleted"}
    BY <1>8 DEF GuardUser, Consistent, RowsOwned, TypeOK
  <2>2. req'[r].pc = "guard" /\ req'[r].sid = s /\ (req'[r].barred <=> ~Live(s))
    BY <1>1, <1>8 DEF GuardUser, Idle
  <2> QED BY <2>1, <2>2 DEF SlotMoved, Live, Dead
<1>9. CASE GuardSession(r)
  <2>1. CASE RowAcceptsAccess(req[r].sid)
    <3>1. /\ req'[r].pc = req[r].op
          /\ req'[r].barred = req[r].barred
      BY <1>1, <1>9, <2>1 DEF GuardSession, RequestType
    <3>2. req[r].pc = "guard" /\ req[r].op \in Admitted /\ Live(req[r].sid)
      BY <1>1, <1>9, <2>1 DEF GuardSession, SlotWellFormed, Admitted, RowAcceptsAccess
    <3> QED BY <1>1, <3>1, <3>2 DEF SlotMoved, RequestType
  <2> QED BY <1>3, <1>9, <2>1 DEF GuardSession, SlotMoved
<1>10. CASE LogoutUnusable(r) \/ \E t \in Sids : Logout(r, t)
  BY <1>2, <1>10 DEF Logout, LogoutUnusable, SlotMoved
<1>11. CASE Password(r)
  <2>1. ASSUME NEW u \in Users, ResetVerified(r, u) PROVE SlotMoved(r)
    BY <1>1, <2>1 DEF ResetVerified, SlotMoved, Idle, Admitted
  <2>2. CASE SweepSessions(r)
    BY <1>2, <2>2 DEF SweepSessions, SlotMoved
  <2>3. CASE ChangeVerified(r) \/ WritePassword(r) \/ ResetMark(r)
    <3>1. req[r].pc \in Admitted
      BY <2>3 DEF ChangeVerified, WritePassword, ResetMark, Admitted
    <3>2. \/ req'[r].pc = "idle"
          \/ req'[r].pc \in Admitted /\ req'[r].barred = req[r].barred
      BY <1>1, <1>3, <2>3
      DEF ChangeVerified, WritePassword, ResetMark, Admitted, RequestType
    <3>3. req[r].barred \in BOOLEAN
      BY <1>1 DEF RequestType
    <3> QED BY <3>1, <3>2, <3>3 DEF SlotMoved
  <2> QED BY <1>11, <2>1, <2>2, <2>3 DEF Password
<1>12. CASE Log(r) \/ Abort(r)
  BY <1>3, <1>12 DEF Log, Abort, SlotMoved
<1>13. CASE Refresh(r)
  BY <1>5, <1>6, <1>7, <1>13 DEF Refresh
<1>14. CASE Protected(r)
  BY <1>8, <1>9, <1>10, <1>14 DEF Protected
<1> QED BY <1>4, <1>11, <1>12, <1>13, <1>14 DEF Request

\* Any other slot stays as it is.
LEMMA OtherSlots ==
  ASSUME Consistent, [Next]_vars, NEW x \in Requests
  PROVE  req'[x] = req[x] \/ Request(x)
<1>1. ASSUME NEW r \in Requests, NEW q, Go(r, q), x # r
      PROVE  req'[x] = req[x]
  BY <1>1 DEF Go, Consistent, TypeOK
<1>2. ASSUME NEW r \in Requests, Request(r), x # r
      PROVE  req'[x] = req[x]
  <2>1. CASE Login(r)
    BY <1>1, <1>2, <2>1 DEF Login, LoginVerified, LoginRefused, LoginCreate, ThenLog
  <2>2. CASE Refresh(r)
    BY <1>1, <1>2, <2>2
    DEF Refresh, RefreshAccepted, RefreshRejected, RefreshRevoke, RefreshCreate,
        ThenLog
  <2>3. CASE Protected(r)
    BY <1>1, <1>2, <2>3
    DEF Protected, GuardUser, GuardSession, Logout, LogoutUnusable, ThenLog
  <2>4. CASE Password(r)
    BY <1>1, <1>2, <2>4
    DEF Password, ChangeVerified, ResetVerified, WritePassword, ResetMark,
        SweepSessions, ThenLog
  <2>5. CASE Log(r) \/ Abort(r)
    BY <1>1, <1>2, <2>5 DEF Log, Abort
  <2> QED BY <1>2, <2>1, <2>2, <2>3, <2>4, <2>5 DEF Request
<1>3. CASE Administrator \/ UNCHANGED vars \/ \E s \in Sids : Elapse(s)
  BY <1>3 DEF Administrator, RevokeSession, RevokeAllUserSessions, DeleteUser,
      SetBlocked, SetActive, Elapse, vars
<1> QED BY <1>2, <1>3 DEF Next

-----------------------------------------------------------------------------
(* Rotation.  RotationRetiresFirst and OneSuccessorPerSlot speak of rows   *)
(* only; what makes them inductive is what a slot in the middle of a       *)
(* rotation knows of the row it rotates.                                   *)

RotationInv ==
    /\ RotationRetiresFirst
    /\ OneSuccessorPerSlot
    /\ \A s \in Sids : status[s] = "unused" => parent[s] = NoSid
    /\ \A r \in Requests :
         /\ req[r].pc = "refreshCreate" => Dead(req[r].sid)
         /\ req[r].pc \in {"refreshRevoke", "refreshCreate"} =>
              \A s \in Sids : parent[s] = req[r].sid => r \notin creator[s]

LEMMA InitRotation == Init => RotationInv
  BY DEF Init, RotationInv, RotationRetiresFirst, OneSuccessorPerSlot, Idle

LEMMA RotationStep == Consistent /\ RotationInv /\ [Next]_vars => RotationInv'
<1> SUFFICES ASSUME Consistent, RotationInv, [Next]_vars PROVE RotationInv'
  OBVIOUS
<1>1. \A s \in Sids : Dead(s) => Dead(s)'
  BY DeadForever
<1>2. \A s \in Sids : Live(s) => ~Dead(s)
  BY DEF Live, Dead
<1>3. \A r \in Requests : req'[r] = req[r] \/ SlotMoved(r)
  BY OtherSlots, SlotEffects
<1>4. ASSUME NEW r \in Requests, req'[r].pc = "refreshCreate"
      PROVE  Dead(req[r].sid)'
  <2>1. CASE req'[r] = req[r]
    BY <1>1, <1>4, <2>1 DEF RotationInv, Consistent, SlotWellFormed
  <2> QED BY <1>3, <1>4, <2>1 DEF SlotMoved, Admitted
<1>5. CASE RowsKept
  <2>1. RotationRetiresFirst' /\ OneSuccessorPerSlot'
    BY <1>1, <1>5, NoSidOut
    DEF RowsKept, RotationInv, RotationRetiresFirst, OneSuccessorPerSlot,
        Consistent, TypeOK
  <2>2. \A s \in Sids : status'[s] = "unused" => parent'[s] = NoSid
    BY <1>5 DEF RowsKept, RotationInv
  <2>3. ASSUME NEW r \in Requests, NEW s \in Sids,
               req'[r].pc \in {"refreshRevoke", "refreshCreate"},
               parent[s] = req'[r].sid
        PROVE  r \notin creator[s]
    BY <1>2, <1>3, <2>3, NoSidOut
    DEF RotationInv, RotationRetiresFirst, SlotMoved, Admitted
  <2> QED BY <1>4, <1>5, <2>1, <2>2, <2>3 DEF RotationInv, RowsKept
<1>6. ASSUME NEW r \in Requests, NEW s \in Sids, RowCreated(r, s)
      PROVE  RotationInv'
  <2>1. \A t \in Sids : t # s =>
          parent'[t] = parent[t] /\ creator'[t] = creator[t] /\ status'[t] = status[t]
    BY <1>6 DEF RowCreated, Consistent, TypeOK
  <2>2. creator'[s] = {r} /\ status'[s] = "live"
    BY <1>6 DEF RowCreated, Consistent, TypeOK
  <2>3. \/ parent'[s] = NoSid
        \/ /\ req[r].pc = "refreshCreate"
           /\ parent'[s] = req[r].sid
           /\ parent'[s] \in Sids
           /\ Dead(parent'[s])
           /\ \A t \in Sids : parent[t] = parent'[s] => r \notin creator[t]
    BY <1>6 DEF RowCreated, RotationInv, Consistent, TypeOK, SlotWellFormed
  <2>4. RotationRetiresFirst'
    BY <1>1, <2>1, <2>3, NoSidOut
    DEF RotationInv, RotationRetiresFirst, Consistent, TypeOK
  <2>5. OneSuccessorPerSlot'
    BY <2>1, <2>2, <2>3 DEF RotationInv, OneSuccessorPerSlot
  <2>6. \A t \in Sids : status'[t] = "unused" => parent'[t] = NoSid
    BY <2>1, <2>2 DEF RotationInv
  <2>7. ASSUME NEW x \in Requests, NEW t \in Sids,
               req'[x].pc \in {"refreshRevoke", "refreshCreate"},
               parent'[t] = req'[x].sid
        PROVE  x \notin creator'[t]
    <3>1. x # r
      BY <1>6, <2>7 DEF RowCreated
    <3>2. CASE t = s
      BY <2>2, <3>1, <3>2
    <3>3. CASE t # s
      BY <1>2, <1>3, <2>1, <2>7, <3>3, NoSidOut
      DEF RotationInv, RotationRetiresFirst, SlotMoved, Admitted
    <3> QED BY <3>2, <3>3
  <2> QED BY <1>4, <2>4, <2>5, <2>6, <2>7 DEF RotationInv
<1> QED BY <1>5, <1>6, RowEffects

\* A successor's predecessor is over before the successor exists.
THEOREM RotationRetires == Spec => []RotationRetiresFirst
<1>1. RotationInv => RotationRetiresFirst
  BY DEF RotationInv
<1> QED BY <1>1, InitConsistent, ConsistentStep, InitRotation, RotationStep, PTL
        DEF Spec

\* No slot serves one refresh token twice.
THEOREM OneSuccessorEach == Spec => []OneSuccessorPerSlot
<1>1. RotationInv => OneSuccessorPerSlot
  BY DEF RotationInv
<1> QED BY <1>1, InitConsistent, ConsistentStep, InitRotation, RotationStep, PTL
        DEF Spec

\* A successor has one creator, so the creators of the successors of a token
\* tell them apart.
CreatorKnown ==
    \A s \in Sids : parent[s] # NoSid => \E r \in Requests : creator[s] = {r}

LEMMA CreatorStep == Consistent /\ CreatorKnown /\ [Next]_vars => CreatorKnown'
<1> SUFFICES ASSUME Consistent, CreatorKnown, [Next]_vars PROVE CreatorKnown'
  OBVIOUS
<1>1. CASE RowsKept
  BY <1>1 DEF RowsKept, CreatorKnown
<1>2. ASSUME NEW r \in Requests, NEW s \in Sids, RowCreated(r, s)
      PROVE  CreatorKnown'
  BY <1>2 DEF RowCreated, CreatorKnown, Consistent, TypeOK
<1> QED BY <1>1, <1>2, RowEffects

\* A token has at most as many successors as there are requests under way
\* together.
THEOREM SuccessorsBounded ==
  ASSUME IsFiniteSet(Requests)
  PROVE  Spec => [](\A p \in Sids :
                      LET Successors == {s \in Sids : parent[s] = p}
                      IN  /\ IsFiniteSet(Successors)
                          /\ Cardinality(Successors) <= Cardinality(Requests))
<1> DEFINE Few == \A p \in Sids :
                    /\ IsFiniteSet({s \in Sids : parent[s] = p})
                    /\ Cardinality({s \in Sids : parent[s] = p})
                         <= Cardinality(Requests)
<1>1. ASSUME OneSuccessorPerSlot, CreatorKnown
      PROVE  Few
  <2> SUFFICES ASSUME NEW p \in Sids
               PROVE  /\ IsFiniteSet({s \in Sids : parent[s] = p})
                      /\ Cardinality({s \in Sids : parent[s] = p})
                           <= Cardinality(Requests)
    OBVIOUS
  <2> DEFINE Successors == {s \in Sids : parent[s] = p}
             By == [s \in Successors |-> CHOOSE r \in Requests : creator[s] = {r}]
  <2>1. \A s \in Successors : By[s] \in Requests /\ creator[s] = {By[s]}
    BY <1>1, NoSidOut DEF CreatorKnown
  <2>2. \A s, t \in Successors : By[s] = By[t] => s = t
    BY <1>1, <2>1, NoSidOut DEF OneSuccessorPerSlot
  <2>3. By \in Injection(Successors, Requests)
    BY <2>1, <2>2 DEF Injection, IsInjective
  <2> QED BY <2>3, FS_Injection
<1>2. RotationInv => OneSuccessorPerSlot
  BY DEF RotationInv
<1>3. Init => CreatorKnown
  BY DEF Init, CreatorKnown
<1> QED BY <1>1, <1>2, <1>3, InitConsistent, ConsistentStep, InitRotation,
           RotationStep, CreatorStep, PTL DEF Spec

-----------------------------------------------------------------------------
(* Admission by the guard. *)

AdmissionInv ==
    /\ DeadSessionNotAdmitted
    /\ \A r \in Requests :
         req[r].pc = "guard" /\ req[r].barred => Dead(req[r].sid)

LEMMA AdmissionStep == Consistent /\ AdmissionInv /\ [Next]_vars => AdmissionInv'
<1> SUFFICES ASSUME Consistent, AdmissionInv, [Next]_vars, NEW r \in Requests
             PROVE  /\ req'[r].pc \in Admitted => ~req'[r].barred
                    /\ req'[r].pc = "guard" /\ req'[r].barred => Dead(req[r].sid)'
  BY DEF AdmissionInv, DeadSessionNotAdmitted, Admitted
<1>1. \A s \in Sids : Dead(s) => Dead(s)'
  BY DeadForever
<1>2. CASE req'[r] = req[r]
  BY <1>1, <1>2
  DEF AdmissionInv, DeadSessionNotAdmitted, Admitted, Consistent, SlotWellFormed
<1>3. CASE SlotMoved(r)
  BY <1>1, <1>3
  DEF SlotMoved, AdmissionInv, DeadSessionNotAdmitted, Admitted, Live, Dead
<1> QED BY <1>2, <1>3, OtherSlots, SlotEffects

\* A request that arrives with a dead session enters no protected handler.
THEOREM DeadNotAdmitted == Spec => []DeadSessionNotAdmitted
<1>1. Init => AdmissionInv
  BY DEF Init, Idle, AdmissionInv, DeadSessionNotAdmitted
<1>2. AdmissionInv => DeadSessionNotAdmitted
  BY DEF AdmissionInv
<1> QED BY <1>1, <1>2, InitConsistent, ConsistentStep, AdmissionStep, PTL DEF Spec

-----------------------------------------------------------------------------
(* Whose sessions a request revokes. *)

LEMMA OnlyOwnStep ==
  ASSUME Consistent, [Next]_vars, NEW r \in Requests, NEW s \in Sids,
         req'[r] # req[r], status'[s] # status[s], Live(s)
  PROVE  owner[s] = req[r].user
<1> USE DEF Consistent
<1>1. Request(r)
  BY OtherSlots
<1>2. ASSUME NEW t \in Sids, CreateSession(t, req[r].user, NoSid, r, req[r].epoch)
             \/ CreateSession(t, req[r].user, req[r].sid, r, req[r].epoch)
      PROVE  FALSE
  BY <1>2 DEF CreateSession, TypeOK, Live
<1>3. ASSUME NEW S, status' = Revoking(S) PROVE s \in S
  BY <1>3 DEF Revoking
<1>4. CASE Login(r)
  BY <1>2, <1>4 DEF Login, LoginVerified, LoginRefused, LoginCreate, sessions
<1>5. CASE Refresh(r)
  <2>1. CASE RefreshRevoke(r)
    BY <1>3, <2>1 DEF RefreshRevoke, SlotWellFormed
  <2> QED BY <1>2, <1>5, <2>1
          DEF Refresh, RefreshAccepted, RefreshRejected, RefreshCreate, sessions
<1>6. CASE Protected(r)
  <2>1. ASSUME NEW t \in Sids, Logout(r, t) PROVE owner[s] = req[r].user
    BY <1>3, <2>1 DEF Logout, OwnToken
  <2> QED BY <1>6, <2>1
          DEF Protected, GuardUser, GuardSession, LogoutUnusable, sessions
<1>7. CASE Password(r)
  <2>1. CASE SweepSessions(r)
    BY <1>3, <2>1 DEF SweepSessions, SweepCovers, SessionsOf
  <2> QED BY <1>7, <2>1
          DEF Password, ChangeVerified, ResetVerified, WritePassword, ResetMark,
              sessions
<1>8. CASE Log(r) \/ Abort(r)
  BY <1>8 DEF Log, Abort, sessions
<1> QED BY <1>1, <1>4, <1>5, <1>6, <1>7, <1>8 DEF Request

\* Only the administrator's statements reach another account's sessions.
THEOREM OnlyOwn == Spec => OnlyOwnSessionsRevoked
<1>1. Consistent /\ [Next]_vars =>
        [\A r \in Requests, s \in Sids :
            req'[r] # req[r] /\ status'[s] # status[s] /\ Live(s)
              => owner[s] = req[r].user]_vars
  BY OnlyOwnStep
<1> QED BY <1>1, InitConsistent, ConsistentStep, PTL
        DEF Spec, OnlyOwnSessionsRevoked

-----------------------------------------------------------------------------
(* The store implements SessionLifecycle. *)

THEOREM Implements == Spec => LifecycleSpec
<1>1. Init => Lifecycle!Init
  BY DEF Init, Lifecycle!Init
<1>2. Consistent /\ RotationInv /\ [Next]_vars => [Lifecycle!Next]_(Lifecycle!vars)
  <2> SUFFICES ASSUME Consistent, RotationInv, [Next]_vars
               PROVE  Lifecycle!Next \/ UNCHANGED Lifecycle!vars
    OBVIOUS
  <2> DEFINE phase == [s \in Sids |-> IF status[s] = "unused" THEN "unused"
                                      ELSE IF Live(s) THEN "live" ELSE "spent"]
  <2>1. CASE RowsKept
    <3>1. PICK S \in SUBSET Sids :
            S = {s \in Sids : Live(s) /\ status'[s] # status[s]}
      OBVIOUS
    <3>2. \A s \in S : phase[s] = "live"
      BY <3>1 DEF Live
    <3>3. phase' = [s \in Sids |-> IF s \in S THEN "spent" ELSE phase[s]]
      BY <2>1, <3>1 DEF RowsKept, Live, Consistent, TypeOK
    <3>4. Lifecycle!Retire(S)
      BY <2>1, <3>2, <3>3 DEF Lifecycle!Retire, RowsKept
    <3> QED BY <3>4 DEF Lifecycle!Next
  <2>2. ASSUME NEW r \in Requests, NEW s \in Sids, RowCreated(r, s)
        PROVE  Lifecycle!Next
    <3>1. phase[s] = "unused" /\ phase' = [phase EXCEPT ![s] = "live"]
      BY <2>2 DEF RowCreated, Live, Consistent, TypeOK
    <3>2. CASE parent' = [parent EXCEPT ![s] = NoSid]
      <4>1. parent' = parent
        BY <2>2, <3>2 DEF RowCreated, RotationInv, Consistent, TypeOK
      <4> QED BY <3>1, <4>1 DEF Lifecycle!Open, Lifecycle!Next
    <3>3. CASE /\ req[r].pc = "refreshCreate"
               /\ parent' = [parent EXCEPT ![s] = req[r].sid]
      <4>1. req[r].sid \in Sids /\ phase[req[r].sid] = "spent"
        BY <3>3 DEF RotationInv, Consistent, SlotWellFormed, Dead, Live
      <4> QED BY <3>1, <3>3, <4>1 DEF Lifecycle!Succeed, Lifecycle!Next
    <3> QED BY <2>2, <3>2, <3>3 DEF RowCreated
  <2> QED BY <2>1, <2>2, RowEffects
<1> QED BY <1>1, <1>2, InitConsistent, ConsistentStep, InitRotation, RotationStep,
           PTL DEF Spec, LifecycleSpec, Lifecycle!Spec
-----------------------------------------------------------------------------
(* What the event log tells of password changes. *)

Changes == {"PASSWORD_CHANGE", "PASSWORD_RESET_COMPLETE"}

LoggedInv ==
    /\ ChangeLoggedAfterSweep
    /\ \A r \in Requests :
         /\ req[r].pc = "log" /\ req[r].event \in Changes =>
              req[r].user \in Users /\ swept[req[r].user] > 0
         /\ req[r].pc \in {"resetMark", "sweep"} => req[r].epoch > 0

LEMMA SweptMoves ==
  ASSUME [Next]_vars
  PROVE  UNCHANGED swept \/ \E r \in Requests : SweepSessions(r)
  BY DEF Next, vars, Request, Login, LoginVerified, LoginRefused, LoginCreate,
      Refresh, RefreshAccepted, RefreshRejected, RefreshRevoke, RefreshCreate,
      Protected, GuardUser, GuardSession, Logout, LogoutUnusable, Password,
      ChangeVerified, ResetVerified, WritePassword, ResetMark, Log, Abort,
      Administrator, RevokeSession, RevokeAllUserSessions, SetBlocked, SetActive,
      DeleteUser, Elapse

\* swept never falls.
LEMMA SweptGrows ==
  ASSUME Consistent, [Next]_vars, NEW u \in Users, swept[u] > 0
  PROVE  swept'[u] > 0
<1> USE DEF Consistent
<1>1. UNCHANGED swept \/ \E r \in Requests : SweepSessions(r)
  BY SweptMoves
<1>2. ASSUME NEW r \in Requests, SweepSessions(r) PROVE swept'[u] > 0
  BY <1>2 DEF SweepSessions, TypeOK, RequestType
<1> QED BY <1>1, <1>2

\* Only the sweep leads to a log entry of a change, only a written password to
\* the sweep.
LEMMA LogSlots ==
  ASSUME Consistent, LoggedInv, NEW r \in Requests, Request(r)
  PROVE  /\ req'[r].pc = "log" /\ req'[r].event \in Changes =>
              req'[r].user \in Users /\ swept'[req'[r].user] > 0
         /\ req'[r].pc \in {"resetMark", "sweep"} => req'[r].epoch > 0
<1>1. /\ req[r] \in RequestType
      /\ SlotWellFormed(req[r])
      /\ req[r].pc \in {"resetMark", "sweep"} => req[r].epoch > 0
      /\ \A q : Go(r, q) => req'[r] = q
  BY DEF Consistent, TypeOK, Go, LoggedInv
<1>2. \A e, u, s : ThenLog(r, e, u, s) =>
        /\ req'[r].pc = "log"
        /\ \/ req'[r].event = e /\ req'[r].user = u
           \/ req'[r].event = "none"
  BY <1>1 DEF ThenLog, LogSlot, Idle
<1>3. Go(r, Idle) => req'[r].pc = "idle"
  BY <1>1 DEF Idle
<1>4. CASE Login(r)
  <2>1. ASSUME NEW u \in Users, LoginVerified(r, u)
        PROVE  req'[r].pc = "loginCreate"
    BY <1>1, <2>1 DEF LoginVerified, Idle
  <2>2. ASSUME NEW u, NEW e, LoginRefused(r, u, e)
        PROVE  req'[r].pc = "log" /\ req'[r].event \notin Changes
    BY <1>2, <2>2 DEF LoginRefused, Changes
  <2>3. ASSUME LoginCreate(r)
        PROVE  \/ req'[r].pc = "idle"
               \/ req'[r].pc = "log" /\ req'[r].event \notin Changes
    BY <1>2, <1>3, <2>3 DEF LoginCreate, Changes
  <2> QED BY <1>4, <2>1, <2>2, <2>3 DEF Login
<1>5. CASE Refresh(r)
  <2>1. ASSUME NEW s \in Sids, RefreshAccepted(r, s)
        PROVE  req'[r].pc = "refreshRevoke"
    BY <1>1, <2>1 DEF RefreshAccepted, Idle
  <2>2. ASSUME RefreshRejected(r)
        PROVE  req'[r].pc = "log" /\ req'[r].event \notin Changes
    BY <1>2, <2>2 DEF RefreshRejected, Changes
  <2>3. ASSUME RefreshRevoke(r)
        PROVE  req'[r].pc \in {"idle", "refreshCreate"}
    BY <1>1, <1>3, <2>3 DEF RefreshRevoke, RequestType
  <2>4. ASSUME RefreshCreate(r)
        PROVE  \/ req'[r].pc = "idle"
               \/ req'[r].pc = "log" /\ req'[r].event \notin Changes
    BY <1>2, <1>3, <2>4 DEF RefreshCreate, Changes
  <2> QED BY <1>5, <2>1, <2>2, <2>3, <2>4 DEF Refresh
<1>6. CASE Protected(r)
  <2>1. ASSUME NEW s \in Sids, NEW op \in {"logout", "change"}, GuardUser(r, s, op)
        PROVE  req'[r].pc = "guard"
    BY <1>1, <2>1 DEF GuardUser, Idle
  <2>2. ASSUME GuardSession(r)
        PROVE  req'[r].pc \in {"idle", "logout", "change"}
    BY <1>1, <1>3, <2>2 DEF GuardSession, RequestType, SlotWellFormed
  <2>3. ASSUME LogoutUnusable(r) \/ \E t \in Sids : Logout(r, t)
        PROVE  req'[r].pc = "log" /\ req'[r].event \notin Changes
    <3>1. ThenLog(r, "LOGOUT", req[r].user, NoSid)
      BY <2>3 DEF LogoutUnusable, Logout
    <3> QED BY <1>2, <3>1 DEF Changes
  <2> QED BY <1>6, <2>1, <2>2, <2>3 DEF Protected
<1>7. CASE SweepSessions(r)
  <2>1. req[r].user \in Users /\ req[r].epoch > 0 /\ req[r].epoch \in Nat
    BY <1>1, <1>7 DEF SweepSessions, SlotWellFormed, RequestType
  <2>2. swept'[req[r].user] > 0
    BY <1>7, <2>1 DEF SweepSessions, Consistent, TypeOK
  <2>3. PICK e : ThenLog(r, e, req[r].user, NoSid)
    BY <1>7 DEF SweepSessions
  <2>4. "none" \notin Changes
    BY DEF Changes
  <2> QED BY <1>2, <2>1, <2>2, <2>3, <2>4
<1>8. CASE WritePassword(r)
  <2>1. CASE account[req[r].user].exists
    <3>1. account[req[r].user].password + 1 > 0
      BY <1>1, <1>8 DEF WritePassword, SlotWellFormed, Consistent, TypeOK,
          AccountType
    <3>2. PICK pc \in {"resetMark", "sweep"} :
            Go(r, [req[r] EXCEPT !.pc = pc,
                                 !.epoch = account[req[r].user].password + 1])
      BY <1>8, <2>1 DEF WritePassword
    <3>3. req'[r].pc = pc /\ req'[r].epoch = account[req[r].user].password + 1
      BY <1>1, <3>2 DEF RequestType
    <3> QED BY <3>1, <3>3
  <2> QED BY <1>3, <1>8, <2>1 DEF WritePassword
<1>9. CASE ChangeVerified(r) \/ \E u \in Users : ResetVerified(r, u)
  <2>1. req'[r].pc \in {"idle", "write"}
    BY <1>1, <1>3, <1>9 DEF ChangeVerified, ResetVerified, Idle, RequestType
  <2> QED BY <2>1
<1>10. CASE ResetMark(r)
  <2>1. \/ req'[r].pc = "idle"
        \/ req'[r].pc = "sweep" /\ req'[r].epoch = req[r].epoch
    BY <1>1, <1>3, <1>10 DEF ResetMark, RequestType
  <2> QED BY <1>1, <1>10, <2>1 DEF ResetMark
<1>11. CASE Log(r) \/ Abort(r)
  BY <1>3, <1>11 DEF Log, Abort
<1> QED BY <1>4, <1>5, <1>6, <1>7, <1>8, <1>9, <1>10, <1>11 DEF Request, Password

\* An event of an account is an old one, or one its slot was about to log.
LEMMA EventOrigin ==
  ASSUME Consistent, [Next]_vars, NEW e \in events', e.user # NoUser
  PROVE  \/ e \in events
         \/ \E r \in Requests :
              req[r].pc = "log" /\ req[r].event = e.type /\ req[r].user = e.user
<1>1. \/ UNCHANGED events
      \/ \E r \in Requests : Log(r)
      \/ \E u \in Users : DeleteUser(u)
  BY DEF Next, vars, Request, Login, LoginVerified, LoginRefused, LoginCreate,
      Refresh, RefreshAccepted, RefreshRejected, RefreshRevoke, RefreshCreate,
      Protected, GuardUser, GuardSession, Logout, LogoutUnusable, Password,
      ChangeVerified, ResetVerified, WritePassword, ResetMark, SweepSessions,
      Abort, Administrator, RevokeSession, RevokeAllUserSessions, SetBlocked,
      SetActive, Elapse
<1>2. ASSUME NEW u \in Users, DeleteUser(u) PROVE e \in events
  <2>1. PICK f \in events : e = [f EXCEPT !.user = IF @ = u THEN NoUser ELSE @]
    BY <1>2 DEF DeleteUser
  <2>2. f \in EventRow
    BY DEF Consistent, TypeOK
  <2> QED BY <2>1, <2>2 DEF EventRow
<1> QED BY <1>1, <1>2 DEF Log

LEMMA LoggedStep == Consistent /\ LoggedInv /\ [Next]_vars => LoggedInv'
<1> SUFFICES ASSUME Consistent, LoggedInv, [Next]_vars PROVE LoggedInv'
  OBVIOUS
<1>1. ASSUME NEW r \in Requests
      PROVE  /\ req'[r].pc = "log" /\ req'[r].event \in Changes =>
                  req'[r].user \in Users /\ swept'[req'[r].user] > 0
             /\ req'[r].pc \in {"resetMark", "sweep"} => req'[r].epoch > 0
  <2>1. CASE req'[r] = req[r]
    BY <2>1, SweptGrows DEF LoggedInv
  <2> QED BY <2>1, OtherSlots, LogSlots
<1>2. ASSUME NEW e \in events', e.type \in Changes, e.user # NoUser
      PROVE  swept'[e.user] > 0
  <2>1. e.user \in Users
    BY <1>2, ConsistentStep DEF Consistent, TypeOK, EventRow
  <2>2. swept[e.user] > 0
    BY <1>2, EventOrigin DEF LoggedInv, ChangeLoggedAfterSweep, Changes
  <2> QED BY <2>1, <2>2, SweptGrows
<1> QED BY <1>1, <1>2 DEF LoggedInv, ChangeLoggedAfterSweep, Changes

\* The log tells of a password change only of an account whose sweep has run.
THEOREM LoggedAfterSweep == Spec => []ChangeLoggedAfterSweep
<1>1. Init => LoggedInv
  BY DEF Init, Idle, LoggedInv, ChangeLoggedAfterSweep, Changes
<1>2. LoggedInv => ChangeLoggedAfterSweep
  BY DEF LoggedInv
<1> QED BY <1>1, <1>2, InitConsistent, ConsistentStep, LoggedStep, PTL DEF Spec

-----------------------------------------------------------------------------
(* What survives the sweep of a password change.  A slot on its way to the *)
(* sweep carries a version no newer than the account's, so no account is   *)
(* swept for a version it has not reached.                                 *)

Creating == {"loginCreate", "refreshRevoke", "refreshCreate"}

SlotMarked(r) ==
    req[r].pc \in {"resetMark", "sweep"} /\ account[req[r].user].exists =>
      req[r].epoch <= account[req[r].user].password

MarkInv ==
    /\ \A u \in Users : account[u].exists => swept[u] <= account[u].password
    /\ \A r \in Requests : SlotMarked(r)

\* Versions grow, and a deleted account does not come back.
LEMMA AccountsGrow ==
  ASSUME Consistent, [Next]_vars, NEW u \in Users, account'[u].exists
  PROVE  /\ account[u].exists
         /\ account[u].password \in Nat /\ account'[u].password \in Nat
         /\ account[u].password <= account'[u].password
<1>1. /\ account \in [Users -> AccountType]
      /\ account[u] \in AccountType /\ account'[u] \in AccountType
  BY ConsistentStep DEF Consistent, TypeOK
<1>2. account[u].password \in Nat /\ account'[u].password \in Nat
  BY <1>1, ConstantsAssumption DEF AccountType
<1>3. \/ UNCHANGED account
      \/ \E r \in Requests : WritePassword(r)
      \/ \E w \in Users, b \in BOOLEAN : SetBlocked(w, b) \/ SetActive(w, b)
      \/ \E w \in Users : DeleteUser(w)
  BY DEF Next, vars, Request, Login, LoginVerified, LoginRefused, LoginCreate,
      Refresh, RefreshAccepted, RefreshRejected, RefreshRevoke, RefreshCreate,
      Protected, GuardUser, GuardSession, Logout, LogoutUnusable, Password,
      ChangeVerified, ResetVerified, ResetMark, SweepSessions, Log, Abort,
      Administrator, RevokeSession, RevokeAllUserSessions, Elapse
<1>4. CASE UNCHANGED account
  BY <1>2, <1>4
<1>5. ASSUME NEW r \in Requests, WritePassword(r), ~UNCHANGED account
      PROVE  account[u].exists /\ account[u].password <= account'[u].password
  <2>1. /\ account[req[r].user].exists
        /\ account' = [account EXCEPT
             ![req[r].user].password = account[req[r].user].password + 1]
    BY <1>5 DEF WritePassword
  <2>2. CASE u = req[r].user
    BY <1>1, <1>2, <2>1, <2>2 DEF AccountType
  <2>3. CASE u # req[r].user
    BY <1>1, <1>2, <2>1, <2>3
  <2> QED BY <2>2, <2>3
<1>6. ASSUME NEW w \in Users, NEW b \in BOOLEAN, SetBlocked(w, b) \/ SetActive(w, b)
      PROVE  account[u].exists /\ account[u].password <= account'[u].password
  <2>1. /\ account[w].exists
        /\ \/ account' = [account EXCEPT ![w].isBlocked = b]
           \/ account' = [account EXCEPT ![w].isActive = b]
    BY <1>6 DEF SetBlocked, SetActive
  <2>2. CASE account' = [account EXCEPT ![w].isBlocked = b]
    BY <1>1, <1>2, <2>2 DEF AccountType
  <2>3. CASE account' = [account EXCEPT ![w].isActive = b]
    BY <1>1, <1>2, <2>3 DEF AccountType
  <2> QED BY <2>1, <2>2, <2>3
<1>7. ASSUME NEW w \in Users, DeleteUser(w)
      PROVE  account[u].exists /\ account[u].password <= account'[u].password
  <2>1. account' = [account EXCEPT ![w] = NoRow] /\ ~NoRow.exists
    BY <1>7 DEF DeleteUser, NoRow
  <2>2. u # w /\ account'[u] = account[u]
    BY <1>1, <2>1
  <2> QED BY <1>2, <2>2
<1> QED BY <1>2, <1>3, <1>4, <1>5, <1>6, <1>7

\* A live session was live before, or a slot has just created it.
LEMMA LiveOrigin ==
  ASSUME Consistent, [Next]_vars, NEW s \in Sids, Live(s)'
  PROVE  \/ Live(s) /\ owner'[s] = owner[s] /\ epoch'[s] = epoch[s]
         \/ \E r \in Requests :
              /\ req[r].pc \in {"loginCreate", "refreshCreate"}
              /\ account[req[r].user].exists
              /\ owner'[s] = req[r].user /\ epoch'[s] = req[r].epoch
              /\ UNCHANGED <<account, swept>>
<1> DEFINE kept == Live(s) /\ owner'[s] = owner[s] /\ epoch'[s] = epoch[s]
<1>0. TypeOK
  BY DEF Consistent
<1>1. ASSUME UNCHANGED <<status, owner, history>> PROVE kept
  BY <1>1 DEF history, Live
<1>2. ASSUME NEW S, status' = Revoking(S), UNCHANGED <<owner, history>>
      PROVE  kept
  BY <1>2 DEF history, Revoking, Live
<1>3. ASSUME NEW u \in Users, DeleteUser(u) PROVE kept
  BY <1>3 DEF DeleteUser, history, Live
<1>4. ASSUME NEW r \in Requests, NEW x \in Sids, NEW p,
             CreateSession(x, req[r].user, p, r, req[r].epoch), s # x
      PROVE  kept
  BY <1>0, <1>4 DEF CreateSession, TypeOK, Live
<1>5. ASSUME NEW r \in Requests, NEW p,
             CreateSession(s, req[r].user, p, r, req[r].epoch)
      PROVE  owner'[s] = req[r].user /\ epoch'[s] = req[r].epoch
  BY <1>0, <1>5 DEF CreateSession, TypeOK
<1>6. ASSUME NEW r \in Requests, LoginCreate(r) \/ RefreshCreate(r)
      PROVE  \/ kept
             \/ /\ req[r].pc \in {"loginCreate", "refreshCreate"}
                /\ account[req[r].user].exists
                /\ owner'[s] = req[r].user /\ epoch'[s] = req[r].epoch
                /\ UNCHANGED <<account, swept>>
  <2>1. CASE UNCHANGED sessions
    BY <1>1, <2>1 DEF sessions, history
  <2>2. CASE ~UNCHANGED sessions
    <3>1. /\ req[r].pc \in {"loginCreate", "refreshCreate"}
          /\ account[req[r].user].exists
          /\ UNCHANGED <<account, swept>>
          /\ \E x \in Sids : \E p \in {NoSid, req[r].sid} :
               CreateSession(x, req[r].user, p, r, req[r].epoch)
      BY <1>6, <2>2 DEF LoginCreate, RefreshCreate, OwnerExists
    <3>2. PICK x \in Sids : \E p \in {NoSid, req[r].sid} :
                 CreateSession(x, req[r].user, p, r, req[r].epoch)
      BY <3>1
    <3>3. PICK p \in {NoSid, req[r].sid} :
                 CreateSession(x, req[r].user, p, r, req[r].epoch)
      BY <3>2
    <3>4. CASE s = x
      BY <1>5, <3>1, <3>3, <3>4
    <3>5. CASE s # x
      BY <1>4, <3>3, <3>5
    <3> QED BY <3>4, <3>5
  <2> QED BY <2>1, <2>2
<1>7. ASSUME NEW r \in Requests, Request(r)
      PROVE  \/ UNCHANGED <<status, owner, history>>
             \/ UNCHANGED <<owner, history>> /\ \E S : status' = Revoking(S)
             \/ LoginCreate(r) \/ RefreshCreate(r)
  <2>1. CASE Login(r)
    BY <2>1 DEF Login, LoginVerified, LoginRefused, sessions, history
  <2>2. CASE Refresh(r)
    BY <2>2 DEF Refresh, RefreshAccepted, RefreshRejected, RefreshRevoke,
        sessions, history
  <2>3. CASE Protected(r)
    BY <2>3 DEF Protected, GuardUser, GuardSession, Logout, LogoutUnusable,
        sessions, history
  <2>4. CASE Password(r)
    BY <2>4 DEF Password, ChangeVerified, ResetVerified, WritePassword,
        ResetMark, SweepSessions, sessions, history
  <2>5. CASE Log(r) \/ Abort(r)
    BY <2>5 DEF Log, Abort, sessions, history
  <2> QED BY <1>7, <2>1, <2>2, <2>3, <2>4, <2>5 DEF Request
<1>8. CASE Administrator
  <2>1. ASSUME NEW x \in Sids, RevokeSession(x) PROVE kept
    BY <1>2, <2>1 DEF RevokeSession
  <2>2. ASSUME NEW u \in Users, RevokeAllUserSessions(u) PROVE kept
    BY <1>2, <2>2 DEF RevokeAllUserSessions
  <2>3. ASSUME NEW u \in Users, NEW b \in BOOLEAN, SetBlocked(u, b) \/ SetActive(u, b)
        PROVE  kept
    BY <1>1, <2>3 DEF SetBlocked, SetActive, sessions, history
  <2> QED BY <1>3, <1>8, <2>1, <2>2, <2>3 DEF Administrator
<1>9. CASE vars' = vars \/ \E x \in Sids : Elapse(x)
  BY <1>1, <1>9 DEF vars, sessions, history, Elapse
<1> QED BY <1>1, <1>2, <1>6, <1>7, <1>8, <1>9 DEF Next, vars

\* The sweep ends every session its account had.
LEMMA SweepEffects ==
  ASSUME Consistent, NEW x \in Requests, SweepSessions(x)
  PROVE  /\ req[x].user \in Users /\ req[x].pc = "sweep" /\ req'[x].pc = "log"
         /\ UNCHANGED account
         /\ swept' = [swept EXCEPT ![req[x].user] =
                        IF @ < req[x].epoch THEN req[x].epoch ELSE @]
         /\ \A s \in Sids : Live(s) /\ Live(s)' => owner[s] # req[x].user
<1>1. req[x].pc = "sweep" /\ SlotWellFormed(req[x]) /\ req \in [Requests -> RequestType]
  BY DEF SweepSessions, Consistent, TypeOK
<1>2. req'[x].pc = "log"
  BY <1>1 DEF SweepSessions, ThenLog, LogSlot, Go, Idle
<1>3. \A s \in Sids : Live(s) /\ Live(s)' => owner[s] # req[x].user
  BY DEF SweepSessions, SweepCovers, SessionsOf, Revoking, Live
<1>4. req[x].user \in Users
  BY <1>1 DEF SlotWellFormed
<1> QED BY <1>1, <1>2, <1>3, <1>4 DEF SweepSessions

\* Where a slot that moves gets the version it carries.
VersionMoved(r) ==
    \/ req'[r].pc \notin Creating \union {"resetMark", "sweep"}
    \/ /\ req'[r].pc \in Creating /\ req[r].pc \in Creating
       /\ req'[r].user = req[r].user /\ req'[r].epoch = req[r].epoch
    \/ /\ req'[r].pc = "loginCreate"
       /\ req'[r].user \in Users /\ account[req'[r].user].exists
       /\ req'[r].epoch = account[req'[r].user].password
    \/ /\ req'[r].pc = "refreshRevoke"
       /\ \E s \in Sids : /\ Live(s)
                         /\ req'[r].user = owner[s] /\ req'[r].epoch = epoch[s]
    \/ /\ req'[r].pc = "sweep" /\ req[r].pc = "resetMark" /\ UNCHANGED account
       /\ req'[r].user = req[r].user /\ req'[r].epoch = req[r].epoch
    \/ /\ req'[r].pc \in {"resetMark", "sweep"}
       /\ req'[r].epoch = account'[req'[r].user].password

LEMMA VersionEffects ==
  ASSUME Consistent, NEW r \in Requests, Request(r)
  PROVE  VersionMoved(r)
<1>1. /\ req[r] \in RequestType
      /\ SlotWellFormed(req[r])
      /\ account \in [Users -> AccountType]
      /\ \A q : Go(r, q) => req'[r] = q
  BY DEF Consistent, TypeOK, Go
<1>2. ASSUME req'[r].pc \in {"idle", "guard", "logout", "change", "write", "log"}
      PROVE  VersionMoved(r)
  BY <1>2 DEF VersionMoved, Creating
<1>3. \A e, u, s : ThenLog(r, e, u, s) => req'[r].pc = "log"
  BY <1>1 DEF ThenLog, LogSlot, Idle
<1>4. Go(r, Idle) => req'[r].pc = "idle"
  BY <1>1 DEF Idle
<1>5. ASSUME NEW pc \in PCs, req[r].pc \notin {"idle", "log"},
             Go(r, [req[r] EXCEPT !.pc = pc])
      PROVE  req'[r].pc = pc /\ req'[r].user = req[r].user /\ req'[r].epoch = req[r].epoch
  BY <1>1, <1>5 DEF RequestType
<1>6. ASSUME NEW u \in Users, LoginVerified(r, u) PROVE VersionMoved(r)
  <2>1. /\ req'[r].pc = "loginCreate" /\ req'[r].user = u
        /\ req'[r].epoch = account[u].password
    BY <1>1, <1>6 DEF LoginVerified, Idle
  <2>2. account[u].exists
    BY <1>6 DEF LoginVerified, AccountUsable
  <2> QED BY <2>1, <2>2 DEF VersionMoved
<1>7. ASSUME NEW s \in Sids, RefreshAccepted(r, s) PROVE VersionMoved(r)
  <2>1. /\ req'[r].pc = "refreshRevoke" /\ req'[r].user = owner[s]
        /\ req'[r].epoch = epoch[s]
    BY <1>1, <1>7 DEF RefreshAccepted, Idle
  <2>2. Live(s)
    BY <1>7 DEF RefreshAccepted, RowAcceptsRefresh
  <2> QED BY <2>1, <2>2 DEF VersionMoved
<1>8. CASE RefreshRevoke(r)
  <2>1. req[r].pc = "refreshRevoke"
    BY <1>8 DEF RefreshRevoke
  <2>2. Go(r, Idle) \/ Go(r, [req[r] EXCEPT !.pc = "refreshCreate"])
    BY <1>8 DEF RefreshRevoke
  <2>3. CASE Go(r, [req[r] EXCEPT !.pc = "refreshCreate"])
    <3>1. /\ req'[r].pc = "refreshCreate"
          /\ req'[r].user = req[r].user /\ req'[r].epoch = req[r].epoch
      BY <1>5, <2>1, <2>3 DEF PCs
    <3> QED BY <2>1, <3>1 DEF VersionMoved, Creating
  <2> QED BY <1>2, <1>4, <2>2, <2>3
<1>9. CASE WritePassword(r)
  <2> DEFINE u == req[r].user
             v == account[u].password + 1
  <2>1. CASE account[u].exists
    <3>1. u \in Users
      BY <1>1, <1>9 DEF WritePassword, SlotWellFormed
    <3>2. account'[u].password = v
      BY <1>1, <1>9, <2>1, <3>1 DEF WritePassword, AccountType
    <3>3. PICK pc \in {"resetMark", "sweep"} :
            Go(r, [req[r] EXCEPT !.pc = pc, !.epoch = v])
      BY <1>9, <2>1 DEF WritePassword
    <3>4. req'[r].pc = pc /\ req'[r].user = u /\ req'[r].epoch = v
      BY <1>1, <3>3 DEF RequestType
    <3> QED BY <3>2, <3>4 DEF VersionMoved
  <2>2. CASE ~account[u].exists
    BY <1>2, <1>4, <1>9, <2>2 DEF WritePassword
  <2> QED BY <2>1, <2>2
<1>10. CASE ResetMark(r)
  <2>1. req[r].pc = "resetMark" /\ UNCHANGED account
    BY <1>10 DEF ResetMark
  <2>2. Go(r, Idle) \/ Go(r, [req[r] EXCEPT !.pc = "sweep"])
    BY <1>10 DEF ResetMark
  <2>3. CASE Go(r, [req[r] EXCEPT !.pc = "sweep"])
    <3>1. /\ req'[r].pc = "sweep"
          /\ req'[r].user = req[r].user /\ req'[r].epoch = req[r].epoch
      BY <1>5, <2>1, <2>3 DEF PCs
    <3> QED BY <2>1, <3>1 DEF VersionMoved
  <2> QED BY <1>2, <1>4, <2>2, <2>3
<1>11. ASSUME \/ \E u, e : LoginRefused(r, u, e)
              \/ LoginCreate(r) \/ RefreshRejected(r) \/ RefreshCreate(r)
              \/ LogoutUnusable(r) \/ \E t \in Sids : Logout(r, t)
              \/ SweepSessions(r) \/ Log(r) \/ Abort(r)
       PROVE  VersionMoved(r)
  <2>1. req'[r].pc \in {"idle", "log"}
    BY <1>3, <1>4, <1>11 DEF LoginRefused, LoginCreate, RefreshRejected, RefreshCreate,
        LogoutUnusable, Logout, SweepSessions, Log, Abort
  <2> QED BY <1>2, <2>1
<1>12. ASSUME \/ \E s \in Sids, op \in {"logout", "change"} : GuardUser(r, s, op)
              \/ GuardSession(r) \/ ChangeVerified(r)
              \/ \E u \in Users : ResetVerified(r, u)
       PROVE  VersionMoved(r)
  <2>1. req'[r].pc \in {"idle", "guard", "logout", "change", "write"}
    BY <1>1, <1>4, <1>12 DEF GuardUser, GuardSession, ChangeVerified, ResetVerified,
        Idle, RequestType, SlotWellFormed
  <2> QED BY <1>2, <2>1
<1> QED BY <1>6, <1>7, <1>8, <1>9, <1>10, <1>11, <1>12
        DEF Request, Login, Refresh, Protected, Password

LEMMA MarkStep == Consistent /\ MarkInv /\ [Next]_vars => MarkInv'
<1> SUFFICES ASSUME Consistent, MarkInv, [Next]_vars PROVE MarkInv'
  OBVIOUS
<1>0. Consistent'
  BY ConsistentStep
<1>1. /\ swept \in [Users -> 0..MaxPassword] /\ 0..MaxPassword \subseteq Nat
      /\ \A r \in Requests : req[r] \in RequestType /\ SlotWellFormed(req[r])
      /\ \A r \in Requests : req'[r] \in RequestType /\ SlotWellFormed(req[r])'
  <2>1. 0..MaxPassword \subseteq Nat
    BY ConstantsAssumption
  <2>2. swept \in [Users -> 0..MaxPassword] /\ req \in [Requests -> RequestType]
    BY DEF Consistent, TypeOK
  <2>3. req' \in [Requests -> RequestType]
    BY <1>0 DEF Consistent, TypeOK
  <2>4. \A r \in Requests : SlotWellFormed(req[r]) /\ SlotWellFormed(req[r])'
    BY <1>0 DEF Consistent
  <2> QED BY <2>1, <2>2, <2>3, <2>4
<1>2. ASSUME NEW u \in Users, account'[u].exists
      PROVE  swept'[u] <= account'[u].password
  <2>1. /\ account[u].exists /\ account[u].password <= account'[u].password
        /\ account[u].password \in Nat /\ account'[u].password \in Nat
        /\ swept[u] \in Nat /\ swept[u] <= account[u].password
    BY <1>1, <1>2, AccountsGrow DEF MarkInv
  <2>2. CASE UNCHANGED swept
    BY <2>1, <2>2
  <2>3. ASSUME NEW x \in Requests, SweepSessions(x)
        PROVE  swept'[u] <= account'[u].password
    <3>1. req[x].user = u => req[x].epoch <= account[u].password
      BY <2>1, <2>3, SweepEffects DEF MarkInv, SlotMarked
    <3>2. swept'[u] = swept[u] \/ (req[x].user = u /\ swept'[u] = req[x].epoch)
      BY <1>1, <2>3, SweepEffects
    <3>3. UNCHANGED account
      BY <2>3, SweepEffects
    <3> QED BY <2>1, <3>1, <3>2, <3>3
  <2> QED BY <2>2, <2>3, SweptMoves
<1>3. ASSUME NEW r \in Requests PROVE SlotMarked(r)'
  <2>1. SUFFICES ASSUME req'[r].pc \in {"resetMark", "sweep"}, account'[req'[r].user].exists
                 PROVE  req'[r].epoch <= account'[req'[r].user].password
    BY DEF SlotMarked
  <2>2. req'[r].user \in Users /\ req'[r].epoch \in Nat
    BY <1>1, <2>1 DEF RequestType, SlotWellFormed
  <2>3. /\ account[req'[r].user].exists
        /\ account[req'[r].user].password \in Nat
        /\ account'[req'[r].user].password \in Nat
        /\ account[req'[r].user].password <= account'[req'[r].user].password
    BY <2>1, <2>2, AccountsGrow
  <2>4. SlotMarked(r)
    BY DEF MarkInv
  <2>5. CASE req'[r] = req[r]
    BY <2>1, <2>2, <2>3, <2>4, <2>5 DEF SlotMarked
  <2>6. CASE VersionMoved(r)
    BY <2>1, <2>2, <2>3, <2>4, <2>6 DEF VersionMoved, SlotMarked, Creating
  <2> QED BY <2>5, <2>6, OtherSlots, VersionEffects
<1> QED BY <1>2, <1>3 DEF MarkInv

\* A slot about to create a session had its version before, took it from a live
\* session, or has just read it from the account, which is not behind its sweep.
LEMMA VersionOrigin ==
  ASSUME Consistent, MarkInv, [Next]_vars,
         NEW r \in Requests, req'[r].pc \in Creating
  PROVE  \/ /\ req[r].pc \in Creating
            /\ req'[r].user = req[r].user /\ req'[r].epoch = req[r].epoch
         \/ \E s \in Sids : /\ Live(s)
                            /\ req'[r].user = owner[s] /\ req'[r].epoch = epoch[s]
         \/ req'[r].epoch >= swept[req'[r].user]
<1>1. CASE req'[r] = req[r]
  BY <1>1
<1>2. CASE VersionMoved(r)
  <2>1. ASSUME NEW u \in Users, account[u].exists
        PROVE  account[u].password >= swept[u]
    <3>1. account[u].password \in Nat /\ swept[u] \in Nat
      BY ConstantsAssumption DEF Consistent, TypeOK, AccountType
    <3> QED BY <2>1, <3>1 DEF MarkInv
  <2> QED BY <1>2, <2>1 DEF VersionMoved, Creating
<1> QED BY <1>1, <1>2, OtherSlots, VersionEffects

\* Whatever is under way when it runs, the sweep of a password change leaves no
\* session of an older password, and once neither a session nor a request has
\* one any more, none has one again: an old password fades out.
THEOREM OldPasswordsFade == Spec => OldPasswordFades
<1>1. Init => MarkInv
  BY DEF Init, MarkInv, SlotMarked, Idle
<1>2. ASSUME Consistent, MarkInv, [Next]_vars, NEW u \in Users
      PROVE  IF swept'[u] # swept[u]
             THEN OutdatedSessions(u)' = {}
             ELSE OutdatedSessions(u) = {} /\ OutdatedRequests(u) = {}
                    => OutdatedSessions(u)' = {} /\ OutdatedRequests(u)' = {}
  <2>1. ASSUME swept'[u] # swept[u], NEW s \in OutdatedSessions(u)'
        PROVE  FALSE
    <3>1. PICK x \in Requests : SweepSessions(x)
      BY <1>2, <2>1, SweptMoves
    <3>2. swept \in [Users -> 0..MaxPassword]
      BY <1>2 DEF Consistent, TypeOK
    <3>3. req[x].user = u
      BY <1>2, <2>1, <3>1, <3>2, SweepEffects
    <3>4. s \in Sids /\ Live(s)' /\ owner'[s] = u
      BY <2>1 DEF OutdatedSessions
    <3>5. Live(s) /\ owner[s] = u
      BY <1>2, <2>1, <3>4, LiveOrigin
    <3> QED BY <1>2, <3>1, <3>3, <3>4, <3>5, SweepEffects
  <2>2. ASSUME swept'[u] = swept[u],
               OutdatedSessions(u) = {}, OutdatedRequests(u) = {},
               NEW s \in OutdatedSessions(u)'
        PROVE  FALSE
    <3>1. s \in Sids /\ Live(s)' /\ owner'[s] = u /\ epoch'[s] < swept[u]
      BY <2>2 DEF OutdatedSessions
    <3>2. ~(Live(s) /\ owner'[s] = owner[s] /\ epoch'[s] = epoch[s])
      BY <2>2, <3>1 DEF OutdatedSessions
    <3>3. PICK r \in Requests :
            /\ req[r].pc \in {"loginCreate", "refreshCreate"}
            /\ owner'[s] = req[r].user /\ epoch'[s] = req[r].epoch
      BY <1>2, <3>1, <3>2, LiveOrigin
    <3> QED BY <2>2, <3>1, <3>3 DEF OutdatedRequests
  <2>3. ASSUME swept'[u] = swept[u],
               OutdatedSessions(u) = {}, OutdatedRequests(u) = {},
               NEW r \in OutdatedRequests(u)'
        PROVE  FALSE
    <3>1. /\ r \in Requests /\ req'[r].pc \in Creating
          /\ req'[r].user = u /\ req'[r].epoch < swept[u]
      BY <2>3 DEF OutdatedRequests, Creating
    <3>2. req'[r].epoch \in Nat /\ swept[u] \in Nat
      BY <1>2, <3>1, ConsistentStep, ConstantsAssumption DEF Consistent, TypeOK, RequestType
    <3>3. ~(req'[r].epoch >= swept[req'[r].user])
      BY <3>1, <3>2
    <3>4. ASSUME NEW s \in Sids, Live(s),
                 req'[r].user = owner[s], req'[r].epoch = epoch[s]
          PROVE  FALSE
      BY <2>3, <3>1, <3>4 DEF OutdatedSessions
    <3>5. ASSUME req[r].pc \in Creating,
                 req'[r].user = req[r].user, req'[r].epoch = req[r].epoch
          PROVE  FALSE
      BY <2>3, <3>1, <3>5 DEF OutdatedRequests, Creating
    <3> QED BY <1>2, <3>1, <3>3, <3>4, <3>5, VersionOrigin
  <2> QED BY <2>1, <2>2, <2>3
<1>3. ASSUME Consistent, MarkInv, [Next]_vars
      PROVE  [\A u \in Users :
                IF swept'[u] # swept[u]
                THEN OutdatedSessions(u)' = {}
                ELSE OutdatedSessions(u) = {} /\ OutdatedRequests(u) = {}
                       => OutdatedSessions(u)' = {} /\ OutdatedRequests(u)' = {}]_vars
  BY <1>2, <1>3
<1> QED BY <1>1, <1>3, InitConsistent, ConsistentStep, MarkStep, PTL
        DEF Spec, OldPasswordFades

-----------------------------------------------------------------------------
\* Only its deletion ends an account.
LEMMA AccountsStay ==
  ASSUME Consistent, [Next]_vars, NEW u \in Users, account[u].exists
  PROVE  account'[u].exists \/ \E w \in Users : DeleteUser(w)
<1>1. account \in [Users -> AccountType] /\ account[u] \in AccountType
  BY DEF Consistent, TypeOK
<1>2. \/ UNCHANGED account
      \/ \E r \in Requests : WritePassword(r)
      \/ \E w \in Users, b \in BOOLEAN : SetBlocked(w, b) \/ SetActive(w, b)
      \/ \E w \in Users : DeleteUser(w)
  BY DEF Next, vars, Request, Login, LoginVerified, LoginRefused, LoginCreate,
      Refresh, RefreshAccepted, RefreshRejected, RefreshRevoke, RefreshCreate,
      Protected, GuardUser, GuardSession, Logout, LogoutUnusable, Password,
      ChangeVerified, ResetVerified, ResetMark, SweepSessions, Log, Abort,
      Administrator, RevokeSession, RevokeAllUserSessions, Elapse
<1>3. ASSUME NEW r \in Requests, WritePassword(r)
      PROVE  account'[u].exists
  BY <1>1, <1>3 DEF WritePassword, AccountType
<1>4. ASSUME NEW w \in Users, NEW b \in BOOLEAN, SetBlocked(w, b) \/ SetActive(w, b)
      PROVE  account'[u].exists
  BY <1>1, <1>4 DEF SetBlocked, SetActive, AccountType
<1> QED BY <1>2, <1>3, <1>4

\* Every step that leaves a session live finds its account there afterwards:
\* sessions are inserted under their foreign key, and go with the account.
LEMMA OwnedStep == Consistent /\ LiveSessionsOwned /\ [Next]_vars => LiveSessionsOwned'
<1> SUFFICES ASSUME Consistent, LiveSessionsOwned, [Next]_vars,
                    NEW s \in Sids, Live(s)'
             PROVE  account'[owner'[s]].exists
  BY DEF LiveSessionsOwned
<1>1. /\ account \in [Users -> AccountType]
      /\ \A x \in Sids : Live(x) => owner[x] \in Users
      /\ \A r \in Requests : SlotWellFormed(req[r])
  BY DEF Consistent, TypeOK, RowsOwned, Live
<1>2. CASE Live(s) /\ owner'[s] = owner[s]
  <2>1. owner[s] \in Users /\ account[owner[s]].exists
    BY <1>1, <1>2 DEF LiveSessionsOwned
  <2>2. ASSUME NEW u \in Users, DeleteUser(u)
        PROVE  account'[owner[s]].exists
    <3>1. owner[s] # u
      BY <1>2, <2>2 DEF DeleteUser, SessionsOf, Live, Consistent, TypeOK
    <3> QED BY <1>1, <2>1, <2>2, <3>1 DEF DeleteUser
  <2> QED BY <1>2, <2>1, <2>2, AccountsStay
<1>3. ASSUME NEW r \in Requests,
             req[r].pc \in {"loginCreate", "refreshCreate"},
             account[req[r].user].exists, owner'[s] = req[r].user, UNCHANGED account
      PROVE  account'[owner'[s]].exists
  BY <1>3
<1> QED BY <1>2, <1>3, LiveOrigin

\* However handlers interleave with deletions, and wherever they fail, no
\* session of a deleted account is live.
THEOREM SessionsOwned == Spec => []LiveSessionsOwned
<1>1. Init => LiveSessionsOwned
  BY DEF Init, LiveSessionsOwned, Live
<1> QED BY <1>1, InitConsistent, ConsistentStep, OwnedStep, PTL DEF Spec
=============================================================================

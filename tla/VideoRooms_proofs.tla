-------------------------- MODULE VideoRooms_proofs --------------------------
(* Proofs about VideoRooms, for every value of its constants. *)
EXTENDS VideoRooms, FiniteSetTheorems, TLAPS

-----------------------------------------------------------------------------
\* A room on its own: its entry has its type, and its participants are
\* invited, each user once, each socket with one entry.
RoomOK(x) ==
    /\ x \in RoomType
    /\ x.state # "open" => x.participants = {}
    /\ \A p, q \in x.participants :
         /\ p.userId \in x.allowedUserIds \union {x.createdBy}
         /\ p.userId = q.userId => p = q

\* The map from sockets to rooms points into the rooms.
CurrentRoomHolds ==
    \A s \in Sockets : socketToRoom[s] # NoRoom =>
        Exists(socketToRoom[s]) /\ In(s, socketToRoom[s])

Inv ==
    /\ TypeOK
    /\ \A R \in Rooms : RoomOK(rooms[R])
    /\ CurrentRoomHolds

LEMMA InitInv == Init => Inv
<1> SUFFICES ASSUME Init PROVE Inv
  OBVIOUS
<1>1. Unused \in RoomType
  BY DEF Unused, RoomType
<1>2. RoomOK(Unused)
  BY <1>1 DEF RoomOK, Unused
<1>3. TypeOK
  BY <1>1, RoomsAssumption DEF Init, TypeOK
<1> QED BY <1>2, <1>3 DEF Init, Inv, CurrentRoomHolds

\* What a step that rewrites the entry of one room must establish about it.
LEMMA RoomStep ==
  ASSUME Inv, NEW R \in Rooms, NEW x, RoomOK(x),
         rooms' = [rooms EXCEPT ![R] = x]
  PROVE  /\ rooms' \in [Rooms -> RoomType]
         /\ \A Q \in Rooms : RoomOK(rooms[Q])'
<1>1. \A Q \in Rooms : rooms'[Q] = IF Q = R THEN x ELSE rooms[Q]
  BY DEF Inv, TypeOK
<1>2. rooms' \in [Rooms -> RoomType]
  BY DEF Inv, TypeOK, RoomOK
<1>3. ASSUME NEW Q \in Rooms PROVE RoomOK(rooms[Q])'
  BY <1>1 DEF Inv, RoomOK
<1> QED BY <1>2, <1>3

LEMMA LeaveRoomInv ==
  ASSUME Inv, NEW s \in Sockets, NEW R \in Rooms, LeaveRoom(s, R)
  PROVE  /\ socketToRoom' \in [Sockets -> Rooms \union {NoRoom}]
         /\ rooms' \in [Rooms -> RoomType]
         /\ \A Q \in Rooms : RoomOK(rooms[Q])'
         /\ told' \in [Sockets -> SUBSET Participant]
         /\ CurrentRoomHolds'
<1>1. CASE ~Exists(R)
  BY <1>1 DEF LeaveRoom, Inv, TypeOK, CurrentRoomHolds, Exists, In, RoomOK
<1>2. CASE Exists(R)
  <2> DEFINE x == [rooms[R] EXCEPT
                     !.participants = Others(s, R),
                     !.state = IF Others(s, R) = {} THEN "deleted" ELSE @]
  <2>1. rooms[R] \in RoomType /\ RoomOK(rooms[R]) /\ Others(s, R) \subseteq rooms[R].participants
    BY DEF Inv, TypeOK, Others
  <2>2. /\ x \in RoomType
        /\ x.participants = Others(s, R)
        /\ x.allowedUserIds = rooms[R].allowedUserIds
        /\ x.createdBy = rooms[R].createdBy
        /\ x.state = IF Others(s, R) = {} THEN "deleted" ELSE "open"
    BY <1>2, <2>1 DEF RoomType, Exists
  <2>3. RoomOK(x)
    BY <2>1, <2>2 DEF RoomOK
  <2>4. rooms' = [rooms EXCEPT ![R] = x]
    BY <1>2 DEF LeaveRoom
  <2>5. socketToRoom' = [socketToRoom EXCEPT ![s] = NoRoom]
    BY <1>2 DEF LeaveRoom
  <2>6. told' \in [Sockets -> SUBSET Participant]
    <3>1. told \in [Sockets -> SUBSET Participant]
      BY DEF Inv, TypeOK
    <3>2. \A t \in Sockets : ListAfterLeave(t, s, R) \in SUBSET Participant
      BY <3>1 DEF ListAfterLeave, Without
    <3>3. told' = [t \in Sockets |-> ListAfterLeave(t, s, R)]
      BY <1>2 DEF LeaveRoom
    <3> QED BY <3>2, <3>3
  <2>7. ASSUME NEW t \in Sockets, socketToRoom'[t] # NoRoom
        PROVE  Exists(socketToRoom[t])' /\ In(t, socketToRoom[t])'
    <3>1. t # s /\ socketToRoom'[t] = socketToRoom[t] /\ socketToRoom[t] \in Rooms
      BY <2>5, <2>7 DEF Inv, TypeOK
    <3>2. Exists(socketToRoom[t]) /\ In(t, socketToRoom[t])
      BY <2>7, <3>1 DEF Inv, CurrentRoomHolds
    <3>3. CASE socketToRoom[t] = R
      <4>1. PICK p \in rooms[R].participants : p.socketId = t
        BY <3>2, <3>3 DEF In
      <4>2. p \in Others(s, R)
        BY <3>1, <4>1 DEF Others
      <4>3. rooms'[R] = x
        BY <2>4 DEF Inv, TypeOK
      <4> QED BY <2>2, <3>1, <3>3, <4>1, <4>2, <4>3 DEF Exists, In
    <3>4. CASE socketToRoom[t] # R
      BY <2>4, <3>1, <3>2, <3>4 DEF Inv, TypeOK, Exists, In
    <3> QED BY <3>3, <3>4
  <2> QED BY <2>3, <2>4, <2>5, <2>6, <2>7, RoomStep
          DEF CurrentRoomHolds, Inv, TypeOK
<1> QED BY <1>1, <1>2

LEMMA DisconnectInv ==
  ASSUME Inv, NEW s \in Sockets, HandleDisconnect(s),
         conn' \in [Sockets -> {"new", "checking", "dropped", "open", "closed"}],
         UNCHANGED <<payload, mixed, lost>>
  PROVE  Inv'
<1>1. socketToUser' \in [Sockets -> Users \union {NoUser}]
  BY DEF HandleDisconnect, Inv, TypeOK
<1>2. CASE socketToRoom[s] # NoRoom
  <2>1. socketToRoom[s] \in Rooms /\ LeaveRoom(s, socketToRoom[s])
    BY <1>2 DEF HandleDisconnect, Inv, TypeOK
  <2> QED BY <1>1, <2>1, LeaveRoomInv DEF Inv, TypeOK
<1>3. CASE socketToRoom[s] = NoRoom
  BY <1>1, <1>3
  DEF HandleDisconnect, Inv, TypeOK, CurrentRoomHolds, Exists, In, RoomOK
<1> QED BY <1>2, <1>3

-----------------------------------------------------------------------------
LEMMA ConnectionStep ==
  ASSUME Inv, NEW s \in Sockets,
         \/ \E u \in Users, type \in TokenTypes : Connect(s, u, type)
         \/ Authenticated(s) \/ Rejected(s) \/ Disconnect(s)
         \/ \E R \in Rooms : JoinDenied(s, R)
  PROVE  Inv'
<1>1. ASSUME NEW u \in Users, NEW type \in TokenTypes, Connect(s, u, type)
      PROVE  Inv'
  BY <1>1 DEF Connect, Inv, TypeOK, CurrentRoomHolds, Exists, In, RoomOK
<1>2. CASE Authenticated(s)
  BY <1>2 DEF Authenticated, Inv, TypeOK, CurrentRoomHolds, Exists, In, RoomOK
<1>3. ASSUME NEW R \in Rooms, Rejected(s) \/ JoinDenied(s, R) PROVE Inv'
  <2>1. conn' \in [Sockets -> {"new", "checking", "dropped", "open", "closed"}]
    BY <1>3 DEF Rejected, JoinDenied, Inv, TypeOK
  <2> QED BY <1>3, <2>1, DisconnectInv DEF Rejected, JoinDenied
<1>4. CASE Rejected(s) \/ Disconnect(s)
  <2>1. conn' \in [Sockets -> {"new", "checking", "dropped", "open", "closed"}]
    BY <1>4 DEF Rejected, Disconnect, Inv, TypeOK
  <2> QED BY <1>4, <2>1, DisconnectInv DEF Rejected, Disconnect
<1> QED BY <1>1, <1>2, <1>3, <1>4

LEMMA CreateRoomStep ==
  ASSUME Inv, NEW s \in Sockets, NEW R \in Rooms, NEW allowed \in SUBSET Users,
         NEW group \in BOOLEAN, CreateRoom(s, R, allowed, group)
  PROVE  Inv'
<1> DEFINE x == [state |-> "open", createdBy |-> socketToUser[s],
                 allowedUserIds |-> allowed, isGroupCall |-> group,
                 participants |-> {}]
<1>1. RoomOK(x)
  BY DEF RoomOK, RoomType, Inv, TypeOK
<1>2. rooms' = [rooms EXCEPT ![R] = x]
  BY DEF CreateRoom
<1>3. rooms' \in [Rooms -> RoomType] /\ \A Q \in Rooms : RoomOK(rooms[Q])'
  BY <1>1, <1>2, RoomStep
<1>4. rooms[R].state # "open"
  BY DEF CreateRoom
<1>5. CurrentRoomHolds'
  BY <1>2, <1>4 DEF CreateRoom, CurrentRoomHolds, Exists, In, Inv, TypeOK
<1> QED BY <1>3, <1>5 DEF CreateRoom, Inv, TypeOK

LEMMA JoinRoomStep ==
  ASSUME Inv, NEW s \in Sockets, NEW R \in Rooms, JoinRoom(s, R)
  PROVE  Inv'
<1> DEFINE u == socketToUser[s]
           p == [socketId |-> s, userId |-> u, muted |-> FALSE]
           x == [rooms[R] EXCEPT !.participants = @ \union {p}]
<1>1. /\ rooms[R] \in RoomType /\ RoomOK(rooms[R])
      /\ u \in Users /\ p \in Participant /\ p.userId = u /\ p.socketId = s
      /\ rooms[R].state = "open"
      /\ u \in rooms[R].allowedUserIds \union {rooms[R].createdBy}
      /\ \A q \in rooms[R].participants : q.userId # u
  BY DEF JoinRoom, Sending, Inv, TypeOK, Participant, isUserAllowed, AlreadyIn, Exists
<1>2. /\ x \in RoomType
      /\ x.participants = rooms[R].participants \union {p}
      /\ x.allowedUserIds = rooms[R].allowedUserIds
      /\ x.createdBy = rooms[R].createdBy
      /\ x.state = "open"
  BY <1>1 DEF RoomType
<1>3. RoomOK(x)
  BY <1>1, <1>2 DEF RoomOK
<1>4. rooms' = [rooms EXCEPT ![R] = x]
  BY DEF JoinRoom
<1>5. rooms' \in [Rooms -> RoomType] /\ \A Q \in Rooms : RoomOK(rooms[Q])'
  BY <1>3, <1>4, RoomStep
<1>6. told' \in [Sockets -> SUBSET Participant]
  <2>1. /\ rooms[R].participants \in SUBSET Participant
        /\ told \in [Sockets -> SUBSET Participant]
    BY <1>1 DEF RoomType, Inv, TypeOK
  <2>2. told' = [t \in Sockets |->
             IF t = s THEN rooms[R].participants
             ELSE IF t \in Listeners(s, R) THEN Without(told[t], s) \union {p}
             ELSE told[t]]
    BY DEF JoinRoom
  <2> HIDE DEF p
  <2> QED BY <1>1, <2>1, <2>2 DEF Without
<1>7. socketToRoom' = [socketToRoom EXCEPT ![s] = R]
  BY DEF JoinRoom
<1>8. \A Q \in Rooms : Q # R => rooms'[Q] = rooms[Q]
  BY <1>4 DEF Inv, TypeOK
<1>9. rooms'[R] = x
  BY <1>4 DEF Inv, TypeOK
<1>10. ASSUME NEW t \in Sockets, socketToRoom'[t] # NoRoom
       PROVE  Exists(socketToRoom[t])' /\ In(t, socketToRoom[t])'
  <2>1. CASE t = s
    <3>1. socketToRoom'[s] = R
      BY <1>7 DEF Inv, TypeOK
    <3>2. p \in rooms'[R].participants /\ rooms'[R].state = "open"
      BY <1>2, <1>9
    <3> QED BY <1>1, <2>1, <3>1, <3>2 DEF Exists, In
  <2>2. CASE t # s
    <3>1. /\ socketToRoom'[t] = socketToRoom[t]
          /\ socketToRoom[t] \in Rooms
          /\ Exists(socketToRoom[t])
          /\ In(t, socketToRoom[t])
      BY <1>7, <1>10, <2>2 DEF Inv, TypeOK, CurrentRoomHolds
    <3>2. /\ rooms'[R].state = "open"
          /\ rooms[R].participants \subseteq rooms'[R].participants
      BY <1>2, <1>9
    <3> HIDE DEF x
    <3> QED BY <1>8, <3>1, <3>2 DEF Exists, In
  <2> QED BY <2>1, <2>2
<1>11. mixed' \subseteq Sockets /\ lost' \subseteq Sockets \X Rooms
  BY DEF JoinRoom, Forget, Inv, TypeOK
<1>12. socketToRoom' \in [Sockets -> Rooms \union {NoRoom}]
  BY <1>7 DEF Inv, TypeOK
<1> QED BY <1>5, <1>6, <1>10, <1>11, <1>12
        DEF JoinRoom, Inv, TypeOK, CurrentRoomHolds

LEMMA LeaveNamedRoomStep ==
  ASSUME Inv, NEW s \in Sockets, NEW R \in Rooms, LeaveNamedRoom(s, R)
  PROVE  Inv'
<1>1. LeaveRoom(s, R)
  BY DEF LeaveNamedRoom
<1>2. lost' \subseteq Sockets \X Rooms
  BY DEF LeaveNamedRoom, Forget, Inv, TypeOK
<1> QED BY <1>1, <1>2, LeaveRoomInv DEF LeaveNamedRoom, Inv, TypeOK

\* Setting a media flag keeps who is in a room.
LEMMA ToggleStep ==
  ASSUME Inv, NEW s \in Sockets, NEW R \in Rooms, NEW flag \in BOOLEAN,
         Toggle(s, R, flag)
  PROVE  Inv'
<1> DEFINE one(p) == IF p.socketId = s THEN [p EXCEPT !.muted = flag] ELSE p
           set(P) == {one(p) : p \in P}
           x == [rooms[R] EXCEPT !.participants = set(@)]
<1>1. ASSUME NEW p \in Participant
      PROVE  /\ one(p) \in Participant
             /\ one(p).socketId = p.socketId
             /\ one(p).userId = p.userId
  BY DEF Participant
<1>2. \A P \in SUBSET Participant : set(P) \in SUBSET Participant
  BY <1>1
<1>3. /\ rooms[R] \in RoomType /\ RoomOK(rooms[R])
      /\ rooms[R].state = "open"
      /\ rooms[R].participants \in SUBSET Participant
  BY DEF Toggle, Exists, Inv, TypeOK, RoomType
<1>4. /\ x.participants = set(rooms[R].participants)
      /\ x.allowedUserIds = rooms[R].allowedUserIds
      /\ x.createdBy = rooms[R].createdBy
      /\ x.state = "open"
      /\ x \in RoomType
  <2> HIDE DEF one
  <2> QED BY <1>2, <1>3 DEF RoomType
<1>5. RoomOK(x)
  <2>1. ASSUME NEW a \in x.participants, NEW b \in x.participants
        PROVE  /\ a.userId \in x.allowedUserIds \union {x.createdBy}
               /\ a.userId = b.userId => a = b
    <3>1. PICK p \in rooms[R].participants, q \in rooms[R].participants :
            a = one(p) /\ b = one(q)
      BY <1>4
    <3>2. a.userId = p.userId /\ b.userId = q.userId
      BY <1>1, <1>3, <3>1
    <3> HIDE DEF one, x
    <3> QED BY <1>3, <1>4, <3>1, <3>2 DEF RoomOK
  <2> HIDE DEF x
  <2> QED BY <1>4, <2>1 DEF RoomOK
<1>6. rooms' = [rooms EXCEPT ![R] = x]
  BY DEF Toggle
<1>7. rooms' \in [Rooms -> RoomType] /\ \A Q \in Rooms : RoomOK(rooms[Q])'
  BY <1>5, <1>6, RoomStep
<1>8. told' \in [Sockets -> SUBSET Participant]
  <2>1. told \in [Sockets -> SUBSET Participant]
    BY DEF Inv, TypeOK
  <2>2. told' = [t \in Sockets |->
          IF t \in Listeners(s, R) THEN set(told[t]) ELSE told[t]]
    BY DEF Toggle
  <2> HIDE DEF set
  <2> QED BY <1>2, <2>1, <2>2
<1>9. ASSUME NEW t \in Sockets, NEW Q \in Rooms, Exists(Q), In(t, Q)
      PROVE  Exists(Q)' /\ In(t, Q)'
  <2>1. CASE Q # R
    BY <1>6, <1>9, <2>1 DEF Inv, TypeOK, Exists, In
  <2>2. CASE Q = R
    <3>1. PICK p \in rooms[R].participants : p.socketId = t
      BY <1>9, <2>2 DEF In
    <3>2. one(p) \in set(rooms[R].participants) /\ one(p).socketId = t
      BY <1>1, <1>3, <3>1
    <3>3. rooms'[R] = x
      BY <1>6 DEF Inv, TypeOK
    <3> HIDE DEF one, set, x
    <3> QED BY <1>4, <2>2, <3>2, <3>3 DEF Exists, In
  <2> QED BY <2>1, <2>2
<1>10. CurrentRoomHolds'
  BY <1>9 DEF Toggle, Inv, TypeOK, CurrentRoomHolds
<1> QED BY <1>7, <1>8, <1>10 DEF Toggle, Inv, TypeOK

LEMMA InvStep == Inv /\ [Next]_vars => Inv'
<1> SUFFICES ASSUME Inv, [Next]_vars PROVE Inv'
  OBVIOUS
<1>1. CASE UNCHANGED vars
  BY <1>1 DEF vars, Inv, TypeOK, CurrentRoomHolds, Exists, In, RoomOK
<1> QED BY <1>1, ConnectionStep, CreateRoomStep, JoinRoomStep,
           LeaveNamedRoomStep, ToggleStep DEF Next

LEMMA InvAlways == Spec => []Inv
  BY InitInv, InvStep, PTL DEF Spec

\* Every map of the gateway keeps its type.
THEOREM TypeCorrect == Spec => []TypeOK
<1>1. Inv => TypeOK
  BY DEF Inv
<1> QED BY <1>1, InvAlways, PTL

\* Whatever rooms a client joins, leaves and is dropped from, in whatever
\* order, the map from sockets to rooms never lags behind the rooms: a signal
\* passes between participants of one room only.
THEOREM RelaySound == Spec => []RelayWithinRoom
<1>1. Inv => RelayWithinRoom
  BY DEF Inv, TypeOK, CurrentRoomHolds, RelayWithinRoom, areInSameRoom
<1> QED BY <1>1, InvAlways, PTL

\* Nobody is in a room uninvited or twice.
THEOREM InvitedOnce == Spec => []OnlyInvitedOnce
<1>1. Inv => OnlyInvitedOnce
  BY DEF Inv, RoomOK, OnlyInvitedOnce
<1> QED BY <1>1, InvAlways, PTL

-----------------------------------------------------------------------------
(* What each operation does to the rooms and to what clients know of them. *)

Muting(p, s, flag) == IF p.socketId = s THEN [p EXCEPT !.muted = flag] ELSE p

\* What clients list once s has left R, once the participant n has joined R,
\* once s has set its flag in R.
ToldLeft(s, R) == \A t \in Sockets : told'[t] = ListAfterLeave(t, s, R)

ToldJoined(s, R, n) ==
    \A t \in Sockets :
        told'[t] =
          IF t = s THEN rooms[R].participants
          ELSE IF t \in Listeners(s, R) THEN Without(told[t], s) \union {n}
          ELSE told[t]

ToldMuted(s, R, flag) ==
    \A t \in Sockets :
        told'[t] = IF t \in Listeners(s, R)
                   THEN {Muting(p, s, flag) : p \in told[t]} ELSE told[t]

LEMMA LeaveEffect ==
  ASSUME Inv, NEW s \in Sockets, NEW R \in Rooms, Exists(R), LeaveRoom(s, R)
  PROVE  /\ rooms'[R].participants = Others(s, R)
         /\ rooms'[R].isGroupCall = rooms[R].isGroupCall
         /\ Others(s, R) = {} => rooms'[R].state = "deleted"
         /\ \A Q \in Rooms : Q # R => rooms'[Q] = rooms[Q]
         /\ socketToRoom' = [socketToRoom EXCEPT ![s] = NoRoom]
         /\ ToldLeft(s, R)
<1> DEFINE x == [rooms[R] EXCEPT
                   !.participants = Others(s, R),
                   !.state = IF Others(s, R) = {} THEN "deleted" ELSE @]
<1>1. rooms' = [rooms EXCEPT ![R] = x] /\ rooms \in [Rooms -> RoomType]
  BY DEF LeaveRoom, Inv, TypeOK
<1>2. rooms'[R] = x /\ \A Q \in Rooms : Q # R => rooms'[Q] = rooms[Q]
  BY <1>1
<1>3. /\ x.participants = Others(s, R) /\ x.isGroupCall = rooms[R].isGroupCall
      /\ Others(s, R) = {} => x.state = "deleted"
  BY <1>1 DEF RoomType
<1>4. told' = [t \in Sockets |-> ListAfterLeave(t, s, R)]
  BY DEF LeaveRoom
<1>5. socketToRoom' = [socketToRoom EXCEPT ![s] = NoRoom]
  BY DEF LeaveRoom
<1>6. ToldLeft(s, R)
  BY <1>4 DEF ToldLeft
<1> HIDE DEF x
<1> QED BY <1>2, <1>3, <1>5, <1>6

LEMMA DisconnectEffect ==
  ASSUME Inv, NEW s \in Sockets, HandleDisconnect(s)
  PROVE  \/ /\ socketToRoom[s] = NoRoom
            /\ UNCHANGED <<rooms, socketToRoom, told>>
         \/ \E R \in Rooms : socketToRoom[s] = R /\ Exists(R) /\ LeaveRoom(s, R)
  BY DEF HandleDisconnect, Inv, TypeOK, CurrentRoomHolds

LEMMA CreateEffect ==
  ASSUME Inv, NEW s \in Sockets, NEW R \in Rooms, NEW allowed \in SUBSET Users,
         NEW group \in BOOLEAN, CreateRoom(s, R, allowed, group)
  PROVE  /\ rooms[R].participants = {} /\ rooms'[R].participants = {}
         /\ rooms'[R].isGroupCall \in BOOLEAN
         /\ \A Q \in Rooms : Q # R => rooms'[Q] = rooms[Q]
<1>1. rooms[R].participants = {}
  BY DEF CreateRoom, Inv, RoomOK
<1> QED BY <1>1 DEF CreateRoom, Inv, TypeOK

LEMMA JoinEffect ==
  ASSUME Inv, NEW s \in Sockets, NEW R \in Rooms, JoinRoom(s, R)
  PROVE  \E p \in Participant :
           /\ p.socketId = s /\ p.userId = socketToUser[s]
           /\ rooms'[R].participants = rooms[R].participants \union {p}
           /\ rooms'[R].isGroupCall = rooms[R].isGroupCall
           /\ \A Q \in Rooms : Q # R => rooms'[Q] = rooms[Q]
           /\ socketToRoom' = [socketToRoom EXCEPT ![s] = R]
           /\ ToldJoined(s, R, p)
<1> DEFINE p == [socketId |-> s, userId |-> socketToUser[s], muted |-> FALSE]
           x == [rooms[R] EXCEPT !.participants = @ \union {p}]
<1>1. p \in Participant /\ p.socketId = s /\ p.userId = socketToUser[s]
  BY DEF JoinRoom, Sending, Inv, TypeOK, Participant
<1>2. rooms' = [rooms EXCEPT ![R] = x] /\ rooms \in [Rooms -> RoomType]
  BY DEF JoinRoom, Inv, TypeOK
<1>3. /\ x.participants = rooms[R].participants \union {p}
      /\ x.isGroupCall = rooms[R].isGroupCall
  BY <1>2 DEF RoomType
<1>4. rooms'[R] = x /\ \A Q \in Rooms : Q # R => rooms'[Q] = rooms[Q]
  BY <1>2
<1>5. told' = [t \in Sockets |->
             IF t = s THEN rooms[R].participants
             ELSE IF t \in Listeners(s, R) THEN Without(told[t], s) \union {p}
             ELSE told[t]]
  BY DEF JoinRoom
<1>6. socketToRoom' = [socketToRoom EXCEPT ![s] = R]
  BY DEF JoinRoom
<1> HIDE DEF p, x
<1>7. ToldJoined(s, R, p)
  BY <1>5 DEF ToldJoined
<1> QED BY <1>1, <1>3, <1>4, <1>6, <1>7

LEMMA ToggleEffect ==
  ASSUME Inv, NEW s \in Sockets, NEW R \in Rooms, NEW flag \in BOOLEAN,
         Toggle(s, R, flag)
  PROVE  /\ rooms'[R].participants =
              {Muting(p, s, flag) : p \in rooms[R].participants}
         /\ rooms'[R].isGroupCall = rooms[R].isGroupCall
         /\ \A Q \in Rooms : Q # R => rooms'[Q] = rooms[Q]
         /\ ToldMuted(s, R, flag)
<1> DEFINE set(P) == {Muting(p, s, flag) : p \in P}
           x == [rooms[R] EXCEPT !.participants = set(@)]
<1>1. rooms' = [rooms EXCEPT ![R] = x] /\ rooms \in [Rooms -> RoomType]
  BY DEF Toggle, Inv, TypeOK, Muting
<1>2. rooms'[R] = x /\ \A Q \in Rooms : Q # R => rooms'[Q] = rooms[Q]
  BY <1>1
<1>3. told' = [t \in Sockets |->
          IF t \in Listeners(s, R) THEN set(told[t]) ELSE told[t]]
  BY DEF Toggle, Muting
<1>4. ToldMuted(s, R, flag)
  BY <1>3 DEF ToldMuted
<1>5. rooms[R] \in RoomType
  BY <1>1
<1> HIDE DEF set
<1>6. x.participants = set(rooms[R].participants) /\ x.isGroupCall = rooms[R].isGroupCall
  BY <1>5 DEF RoomType
<1> QED BY <1>2, <1>4, <1>6 DEF set

\* Setting a flag leaves a participant who it is.
LEMMA MutingKeeps ==
  ASSUME NEW p \in Participant, NEW s, NEW flag \in BOOLEAN
  PROVE  /\ Muting(p, s, flag).socketId = p.socketId
         /\ Muting(p, s, flag).userId = p.userId
         /\ p.socketId # s => Muting(p, s, flag) = p
  BY DEF Muting, Participant

-----------------------------------------------------------------------------
(* Capacity, and rooms that empty.                                         *)

\* One room's part of WithinCapacity, with what counting its participants
\* takes.
Fits(x) ==
    /\ IsFiniteSet(x.participants)
    /\ Cardinality(x.participants)
         <= (IF x.isGroupCall THEN GroupLimit ELSE PairLimit)

\* The ways a step can change a room.
Evolves(x, y) ==
    \/ x = y
    \/ /\ x.participants = {} /\ y.participants = {}
       /\ y.isGroupCall \in BOOLEAN
    \/ /\ y.isGroupCall = x.isGroupCall
       /\ \/ \E s \in Sockets :
               /\ y.participants = {p \in x.participants : p.socketId # s}
               /\ y.participants = {} => y.state = "deleted"
          \/ /\ ~(Cardinality(x.participants)
                    >= (IF x.isGroupCall THEN GroupLimit ELSE PairLimit))
             /\ \E p \in Participant : y.participants = x.participants \union {p}
          \/ \E s \in Sockets, flag \in BOOLEAN :
               y.participants = {Muting(p, s, flag) : p \in x.participants}

LEMMA RoomsEvolve ==
  Inv /\ [Next]_vars => \A R \in Rooms : Evolves(rooms[R], rooms'[R])
<1> SUFFICES ASSUME Inv, [Next]_vars, NEW Q \in Rooms
             PROVE  Evolves(rooms[Q], rooms'[Q])
  OBVIOUS
<1>1. CASE UNCHANGED rooms
  BY <1>1 DEF Evolves
<1>2. ASSUME NEW s \in Sockets, NEW R \in Rooms, LeaveRoom(s, R)
      PROVE  Evolves(rooms[Q], rooms'[Q])
  <2>1. CASE ~Exists(R)
    BY <1>2, <2>1 DEF LeaveRoom, Evolves
  <2>2. CASE Exists(R)
    BY <1>2, <2>2, LeaveEffect DEF Evolves, Others
  <2> QED BY <2>1, <2>2
<1>3. ASSUME NEW s \in Sockets, HandleDisconnect(s)
      PROVE  Evolves(rooms[Q], rooms'[Q])
  BY <1>1, <1>2, <1>3, DisconnectEffect
<1>4. ASSUME NEW s \in Sockets, NEW R \in Rooms, JoinRoom(s, R)
      PROVE  Evolves(rooms[Q], rooms'[Q])
  <2>1. ~(Cardinality(rooms[R].participants)
            >= (IF rooms[R].isGroupCall THEN GroupLimit ELSE PairLimit))
    BY <1>4 DEF JoinRoom, Full, Capacity
  <2>2. CASE Q = R
    BY <1>4, <2>1, <2>2, JoinEffect DEF Evolves
  <2>3. CASE Q # R
    BY <1>4, <2>3, JoinEffect DEF Evolves
  <2> QED BY <2>2, <2>3
<1>5. ASSUME NEW s \in Sockets, NEW R \in Rooms, NEW allowed \in SUBSET Users,
             NEW group \in BOOLEAN, CreateRoom(s, R, allowed, group)
      PROVE  Evolves(rooms[Q], rooms'[Q])
  <2>1. CASE Q = R
    BY <1>5, <2>1, CreateEffect DEF Evolves
  <2>2. CASE Q # R
    BY <1>5, <2>2, CreateEffect DEF Evolves
  <2> QED BY <2>1, <2>2
<1>6. ASSUME NEW s \in Sockets, NEW R \in Rooms, NEW flag \in BOOLEAN,
             Toggle(s, R, flag)
      PROVE  Evolves(rooms[Q], rooms'[Q])
  BY <1>6, ToggleEffect DEF Evolves
<1>7. CASE UNCHANGED vars
  BY <1>1, <1>7 DEF vars
<1> QED BY <1>1, <1>2, <1>3, <1>4, <1>5, <1>6, <1>7
        DEF Next, Connect, Authenticated, Rejected, Disconnect, JoinDenied,
            LeaveNamedRoom

\* Setting flags makes no participants.
LEMMA MutingCounts ==
  ASSUME NEW P, IsFiniteSet(P), NEW s, NEW flag
  PROVE  LET Q == {Muting(p, s, flag) : p \in P}
         IN  IsFiniteSet(Q) /\ Cardinality(Q) <= Cardinality(P)
<1> DEFINE Q == {Muting(p, s, flag) : p \in P}
           f == [p \in P |-> Muting(p, s, flag)]
<1>1. f \in Surjection(P, Q)
  BY DEF Surjection
<1> QED BY <1>1, FS_Surjection

LEMMA EvolvesFits ==
  ASSUME NEW x \in RoomType, NEW y \in RoomType, Fits(x), Evolves(x, y)
  PROVE  Fits(y)
<1> DEFINE limit(z) == IF z.isGroupCall THEN GroupLimit ELSE PairLimit
<1>1. limit(x) \in Nat /\ limit(y) \in Nat
  BY RoomsAssumption
<1>2. CASE y.participants = {}
  BY <1>1, <1>2, FS_EmptySet DEF Fits
<1>3. ASSUME y.isGroupCall = x.isGroupCall, NEW s \in Sockets,
             y.participants = {p \in x.participants : p.socketId # s}
      PROVE  Fits(y)
  <2>1. y.participants \in SUBSET x.participants
    BY <1>3
  <2>2. /\ IsFiniteSet(y.participants)
        /\ Cardinality(y.participants) <= Cardinality(x.participants)
    BY <2>1, FS_Subset DEF Fits
  <2> QED BY <1>1, <1>3, <2>2, FS_CardinalityType DEF Fits
<1>4. ASSUME y.isGroupCall = x.isGroupCall, NEW p \in Participant,
             ~(Cardinality(x.participants) >= limit(x)),
             y.participants = x.participants \union {p}
      PROVE  Fits(y)
  <2>1. /\ IsFiniteSet(y.participants)
        /\ Cardinality(y.participants) <= Cardinality(x.participants) + 1
    <3>1. IsFiniteSet(x.participants) /\ Cardinality(x.participants) \in Nat
      BY FS_CardinalityType DEF Fits
    <3>2. /\ IsFiniteSet(x.participants \union {p})
          /\ \/ Cardinality(x.participants \union {p}) = Cardinality(x.participants)
             \/ Cardinality(x.participants \union {p}) = Cardinality(x.participants) + 1
      BY <3>1, FS_AddElement
    <3> QED BY <1>4, <3>1, <3>2
  <2> QED BY <1>1, <1>4, <2>1, FS_CardinalityType DEF Fits
<1>5. ASSUME y.isGroupCall = x.isGroupCall, NEW s \in Sockets, NEW flag \in BOOLEAN,
             y.participants = {Muting(p, s, flag) : p \in x.participants}
      PROVE  Fits(y)
  <2>1. /\ IsFiniteSet(y.participants)
        /\ Cardinality(y.participants) <= Cardinality(x.participants)
    BY <1>5, MutingCounts DEF Fits
  <2> QED BY <1>1, <1>5, <2>1, FS_CardinalityType DEF Fits
<1> QED BY <1>2, <1>3, <1>4, <1>5 DEF Evolves

AllFit == \A R \in Rooms : Fits(rooms[R])

LEMMA FitsAlways == Spec => []AllFit
<1>1. Init => AllFit
  <2>1. Unused.participants = {} /\ Unused.isGroupCall = FALSE
    BY DEF Unused
  <2>2. Fits(Unused)
    BY <2>1, RoomsAssumption, FS_EmptySet DEF Fits
  <2> QED BY <2>2 DEF Init, AllFit
<1>2. Inv /\ Inv' /\ AllFit /\ [Next]_vars => AllFit'
  BY RoomsEvolve, EvolvesFits DEF Inv, TypeOK, AllFit
<1> QED BY <1>1, <1>2, InvAlways, PTL DEF Spec

\* No call ever has more participants than its kind allows, however many
\* sockets join at once and whatever they leave.
THEOREM CapacityKept == Spec => []WithinCapacity
<1>1. AllFit => WithinCapacity
  BY DEF AllFit, Fits, WithinCapacity
<1> QED BY <1>1, FitsAlways, PTL

\* Whichever way the last participant goes, the room goes too.
THEOREM EmptyRoomsDeleted == Spec => NoAbandonedRoom
<1>1. ASSUME Inv, [Next]_vars, NEW R \in Rooms,
             rooms[R].participants # {}, rooms'[R].participants = {}
      PROVE  rooms'[R].state = "deleted"
  BY <1>1, RoomsEvolve DEF Evolves
<1>2. Inv /\ [Next]_vars =>
        [\A R \in Rooms :
           rooms[R].participants # {} /\ rooms'[R].participants = {}
             => rooms'[R].state = "deleted"]_vars
  BY <1>1
<1> QED BY <1>2, InvAlways, PTL DEF Spec, NoAbandonedRoom

-----------------------------------------------------------------------------
(* Where a socket is: nowhere before its handshake is over, and then only  *)
(* in the room it maps to and in those the gateway lost it in.             *)

Located(s) ==
    /\ conn[s] \in {"new", "checking"} => \A R \in Rooms : ~In(s, R)
    /\ conn[s] # "open" => socketToRoom[s] = NoRoom
    /\ \A R \in Rooms : In(s, R) => socketToRoom[s] = R \/ <<s, R>> \in lost

AllLocated == \A s \in Sockets : Located(s)

\* Leaving takes a socket out of the room, and no other.
LEMMA LeaveWho ==
  ASSUME Inv, NEW s \in Sockets, NEW R \in Rooms, Exists(R), LeaveRoom(s, R)
  PROVE  /\ ~In(s, R)'
         /\ \A t \in Sockets, Q \in Rooms : t # s \/ Q # R => (In(t, Q)' <=> In(t, Q))
<1>1. /\ rooms'[R].participants = Others(s, R)
      /\ \A Q \in Rooms : Q # R => rooms'[Q] = rooms[Q]
  BY LeaveEffect
<1> QED BY <1>1 DEF In, Others

LEMMA JoinWho ==
  ASSUME Inv, NEW s \in Sockets, NEW R \in Rooms, JoinRoom(s, R)
  PROVE  \A t \in Sockets, Q \in Rooms :
           In(t, Q)' <=> (In(t, Q) \/ (t = s /\ Q = R))
<1>1. PICK p \in Participant :
        /\ p.socketId = s
        /\ rooms'[R].participants = rooms[R].participants \union {p}
        /\ \A Q \in Rooms : Q # R => rooms'[Q] = rooms[Q]
  BY JoinEffect
<1> QED BY <1>1 DEF In

LEMMA ToggleWho ==
  ASSUME Inv, NEW s \in Sockets, NEW R \in Rooms, NEW flag \in BOOLEAN,
         Toggle(s, R, flag)
  PROVE  \A t \in Sockets, Q \in Rooms : In(t, Q)' <=> In(t, Q)
<1>1. /\ rooms'[R].participants = {Muting(p, s, flag) : p \in rooms[R].participants}
      /\ \A Q \in Rooms : Q # R => rooms'[Q] = rooms[Q]
  BY ToggleEffect
<1>2. rooms[R].participants \subseteq Participant
  BY DEF Inv, TypeOK, RoomType
<1>3. \A p \in rooms[R].participants : Muting(p, s, flag).socketId = p.socketId
  BY <1>2, MutingKeeps
<1> QED BY <1>1, <1>3 DEF In

LEMMA CreateWho ==
  ASSUME Inv, NEW s \in Sockets, NEW R \in Rooms, NEW allowed \in SUBSET Users,
         NEW group \in BOOLEAN, CreateRoom(s, R, allowed, group)
  PROVE  \A t \in Sockets, Q \in Rooms : In(t, Q)' <=> In(t, Q)
<1>1. /\ rooms[R].participants = {} /\ rooms'[R].participants = {}
      /\ \A Q \in Rooms : Q # R => rooms'[Q] = rooms[Q]
  BY CreateEffect
<1> QED BY <1>1 DEF In

LEMMA DisconnectWho ==
  ASSUME Inv, NEW s \in Sockets, HandleDisconnect(s)
  PROVE  /\ socketToRoom' = [socketToRoom EXCEPT ![s] = NoRoom]
         /\ \A t \in Sockets, Q \in Rooms :
              t # s \/ Q # socketToRoom[s] => (In(t, Q)' <=> In(t, Q))
         /\ \A Q \in Rooms : Q = socketToRoom[s] => ~In(s, Q)'
<1>1. CASE socketToRoom[s] = NoRoom /\ UNCHANGED <<rooms, socketToRoom, told>>
  <2>1. socketToRoom' = [socketToRoom EXCEPT ![s] = NoRoom]
    BY <1>1 DEF Inv, TypeOK
  <2> QED BY <1>1, <2>1, RoomsAssumption DEF In
<1>2. ASSUME NEW R \in Rooms, socketToRoom[s] = R, Exists(R), LeaveRoom(s, R)
      PROVE  /\ socketToRoom' = [socketToRoom EXCEPT ![s] = NoRoom]
             /\ \A t \in Sockets, Q \in Rooms :
                  t # s \/ Q # R => (In(t, Q)' <=> In(t, Q))
             /\ \A Q \in Rooms : Q = R => ~In(s, Q)'
  BY <1>2, LeaveEffect, LeaveWho
<1> QED BY <1>1, <1>2, DisconnectEffect

\* What Forget keeps of the pairs, and what it adds.
LEMMA ForgetEffect ==
  ASSUME NEW s \in Sockets, NEW R \in Rooms, Forget(s, R),
         NEW t \in Sockets, NEW Q \in Rooms
  PROVE  /\ <<t, Q>> \in lost /\ (t # s \/ Q # R) => <<t, Q>> \in lost'
         /\ t = s /\ Q # R /\ In(s, Q) => <<t, Q>> \in lost'
<1> DEFINE add == {<<s, q>> : q \in {q \in Rooms \ {R} : In(s, q)}}
<1>1. lost' = (lost \ {<<s, R>>}) \union add
  BY DEF Forget
<1>2. Q # R /\ In(s, Q) => <<s, Q>> \in add
  OBVIOUS
<1>3. t # s \/ Q # R => <<t, Q>> # <<s, R>>
  OBVIOUS
<1> HIDE DEF add
<1> QED BY <1>1, <1>2, <1>3

LEMMA LocatedStep == Inv /\ AllLocated /\ [Next]_vars => AllLocated'
<1> SUFFICES ASSUME Inv, AllLocated, [Next]_vars, NEW t \in Sockets
             PROVE  Located(t)'
  BY DEF AllLocated
<1>0. /\ Located(t)
      /\ conn \in [Sockets -> {"new", "checking", "dropped", "open", "closed"}]
      /\ socketToRoom \in [Sockets -> Rooms \union {NoRoom}]
  BY DEF AllLocated, Inv, TypeOK
<1>1. CASE UNCHANGED vars
  BY <1>0, <1>1 DEF vars, Located, In
<1>2. ASSUME NEW s \in Sockets, NEW u \in Users, NEW type \in TokenTypes,
             Connect(s, u, type)
      PROVE  Located(t)'
  BY <1>0, <1>2 DEF Connect, Located, In
<1>3. ASSUME NEW s \in Sockets, Authenticated(s) PROVE Located(t)'
  BY <1>0, <1>3 DEF Authenticated, Located, In
<1>4. ASSUME NEW s \in Sockets, HandleDisconnect(s), UNCHANGED lost,
             conn[s] \in {"checking", "dropped", "open"},
             NEW c \in {"dropped", "closed"}, conn' = [conn EXCEPT ![s] = c]
      PROVE  Located(t)'
  BY <1>0, <1>4, DisconnectWho DEF Located
<1>5. ASSUME NEW s \in Sockets, NEW R \in Rooms, JoinRoom(s, R)
      PROVE  Located(t)'
  <2>1. UNCHANGED conn /\ conn[s] = "open" /\ socketToRoom' = [socketToRoom EXCEPT ![s] = R]
    BY <1>5 DEF JoinRoom, Sending
  <2>2. Forget(s, R)
    BY <1>5 DEF JoinRoom
  <2>3. \A Q \in Rooms : In(t, Q)' <=> (In(t, Q) \/ (t = s /\ Q = R))
    BY <1>5, JoinWho
  <2>4. ASSUME NEW Q \in Rooms, In(t, Q)'
        PROVE  socketToRoom'[t] = Q \/ <<t, Q>> \in lost'
    <3>1. CASE t = s
      BY <1>0, <2>1, <2>2, <2>3, <2>4, <3>1, ForgetEffect
    <3>2. CASE t # s
      BY <1>0, <2>1, <2>2, <2>3, <2>4, <3>2, ForgetEffect DEF Located
    <3> QED BY <3>1, <3>2
  <2>5. CASE t = s
    BY <1>0, <2>1, <2>3, <2>4, <2>5, RoomsAssumption DEF Located
  <2>6. CASE t # s
    BY <1>0, <2>1, <2>3, <2>4, <2>6 DEF Located
  <2> QED BY <2>5, <2>6
<1>6. ASSUME NEW s \in Sockets, NEW R \in Rooms, LeaveNamedRoom(s, R)
      PROVE  Located(t)'
  <2>1. CASE ~Exists(R)
    BY <1>0, <1>6, <2>1 DEF LeaveNamedRoom, LeaveRoom, Located, In
  <2>2. CASE Exists(R)
    <3>1. LeaveRoom(s, R) /\ UNCHANGED conn /\ conn[s] = "open"
      BY <1>6 DEF LeaveNamedRoom, Sending
    <3>2. Forget(s, R)
      BY <1>6, <2>2 DEF LeaveNamedRoom
    <3>3. socketToRoom' = [socketToRoom EXCEPT ![s] = NoRoom]
      BY <2>2, <3>1, LeaveEffect
    <3>4. /\ ~In(s, R)'
          /\ \A Q \in Rooms : t # s \/ Q # R => (In(t, Q)' <=> In(t, Q))
      BY <2>2, <3>1, LeaveWho
    <3>5. ASSUME NEW Q \in Rooms, In(t, Q)'
          PROVE  socketToRoom'[t] = Q \/ <<t, Q>> \in lost'
      <4>1. CASE t = s
        BY <3>2, <3>4, <3>5, <4>1, ForgetEffect
      <4>2. CASE t # s
        BY <1>0, <3>2, <3>3, <3>4, <3>5, <4>2, ForgetEffect DEF Located
      <4> QED BY <4>1, <4>2
    <3> QED BY <1>0, <3>1, <3>3, <3>4, <3>5, RoomsAssumption DEF Located
  <2> QED BY <2>1, <2>2
<1>7. ASSUME NEW s \in Sockets, NEW R \in Rooms, NEW flag \in BOOLEAN,
             Toggle(s, R, flag)
      PROVE  Located(t)'
  BY <1>0, <1>7, ToggleWho DEF Toggle, Located
<1>8. ASSUME NEW s \in Sockets, NEW R \in Rooms, NEW allowed \in SUBSET Users,
             NEW group \in BOOLEAN, CreateRoom(s, R, allowed, group)
      PROVE  Located(t)'
  BY <1>0, <1>8, CreateWho DEF CreateRoom, Located
<1>9. ASSUME NEW s \in Sockets, Rejected(s) \/ Disconnect(s) \/ \E R \in Rooms : JoinDenied(s, R)
      PROVE  Located(t)'
  <2>1. \E c \in {"dropped", "closed"} : conn' = [conn EXCEPT ![s] = c]
    BY <1>9 DEF Rejected, Disconnect, JoinDenied
  <2> QED BY <1>4, <1>9, <2>1 DEF Rejected, Disconnect, JoinDenied, Sending
<1> QED BY <1>1, <1>2, <1>3, <1>5, <1>6, <1>7, <1>8, <1>9 DEF Next

LEMMA LocatedAlways == Spec => []AllLocated
<1>1. Init => AllLocated
  <2>1. Unused.participants = {}
    BY DEF Unused
  <2> QED BY <2>1 DEF Init, AllLocated, Located, In
<1> QED BY <1>1, LocatedStep, InvAlways, PTL DEF Spec

\* However a socket closes, late in its handshake, thrown out of a join or on
\* its own, it leaves every room but those it was lost in: the rooms it was in
\* when it joined another, or left another by name.
THEOREM NoGhostsStay == Spec => []NoGhosts
<1>1. AllLocated => NoGhosts
  BY RoomsAssumption DEF AllLocated, Located, NoGhosts
<1> QED BY <1>1, LocatedAlways, PTL

-----------------------------------------------------------------------------
(* What a client knows of its room.                                        *)

\* A participant whose socket is open is the user of that socket.
UsersKept ==
    \A R \in Rooms : \A p \in rooms[R].participants :
        conn[p.socketId] = "open" => p.userId = socketToUser[p.socketId]

\* Of one client and one room.
Knows(t, R) ==
    conn[t] = "open" /\ In(t, R) /\ t \notin mixed => told[t] = Others(t, R)

\* A client that never joined a room while in another hears of one room only.
OneRoom(t) ==
    t \notin mixed => \A R, Q \in Rooms : In(t, R) /\ In(t, Q) => R = Q

Known ==
    /\ UsersKept
    /\ \A t \in Sockets : OneRoom(t)
    /\ \A t \in Sockets, R \in Rooms : Knows(t, R)

\* A step that touches neither the rooms nor what is told of them, and opens
\* only sockets that are in no room.
LEMMA QuietStep ==
  ASSUME Inv, AllLocated, Known, UNCHANGED <<rooms, told, mixed>>,
         \A t \in Sockets : conn'[t] = "open" =>
            conn[t] = "checking"
              \/ (conn[t] = "open" /\ socketToUser'[t] = socketToUser[t])
  PROVE  Known'
<1>1. \A R \in Rooms : \A p \in rooms[R].participants :
        p.socketId \in Sockets /\ conn[p.socketId] # "checking"
  BY DEF Inv, TypeOK, RoomType, Participant, AllLocated, Located, In
<1>2. UsersKept'
  BY <1>1 DEF Known, UsersKept
<1>3. \A t \in Sockets, R \in Rooms : Knows(t, R)'
  BY DEF Known, Knows, AllLocated, Located, In, Others
<1>4. \A t \in Sockets : OneRoom(t)'
  BY DEF Known, OneRoom, In
<1> QED BY <1>2, <1>3, <1>4 DEF Known

LEMMA LeaveKnown ==
  ASSUME Inv, Known, NEW s \in Sockets, NEW R \in Rooms, Exists(R), LeaveRoom(s, R),
         UNCHANGED mixed,
         \A t \in Sockets : conn'[t] = "open" =>
            conn[t] = "open" /\ socketToUser'[t] = socketToUser[t]
  PROVE  Known'
<1>1. /\ rooms'[R].participants = Others(s, R)
      /\ \A Q \in Rooms : Q # R => rooms'[Q] = rooms[Q]
      /\ ToldLeft(s, R)
  BY LeaveEffect
<1>2. \A Q \in Rooms : /\ rooms[Q].participants \subseteq Participant
                       /\ rooms'[Q].participants \subseteq rooms[Q].participants
  <2>1. Others(s, R) \subseteq rooms[R].participants
    BY DEF Others
  <2>2. \A Q \in Rooms : rooms[Q].participants \subseteq Participant
    BY DEF Inv, TypeOK, RoomType
  <2> QED BY <1>1, <2>1, <2>2
<1>3. UsersKept'
  <2> SUFFICES ASSUME NEW Q \in Rooms, NEW p \in rooms'[Q].participants,
                      conn'[p.socketId] = "open"
               PROVE  p.userId = socketToUser'[p.socketId]
    BY DEF UsersKept
  <2>1. p.socketId \in Sockets /\ p \in rooms[Q].participants
    BY <1>2 DEF Participant
  <2> QED BY <2>1 DEF Known, UsersKept
<1>4. \A t \in Sockets : OneRoom(t)'
  BY LeaveWho DEF Known, OneRoom
<1>5. ASSUME NEW t \in Sockets, NEW Q \in Rooms, conn'[t] = "open", In(t, Q)',
             t \notin mixed'
      PROVE  told'[t] = Others(t, Q)'
  <2>1. In(t, Q) /\ told[t] = Others(t, Q)
    BY <1>2, <1>5 DEF In, Known, Knows
  <2>2. CASE Q # R
    <3>1. ~In(t, R)
      BY <1>5, <2>1, <2>2 DEF Known, OneRoom
    <3>2. told'[t] = told[t]
      BY <1>1, <3>1 DEF ToldLeft, ListAfterLeave, Listeners, SocketsIn, In
    <3> QED BY <1>1, <2>1, <2>2, <3>2 DEF Others
  <2>3. CASE Q = R
    <3>1. t # s
      BY <1>1, <1>5, <2>3 DEF In, Others
    <3>2. t \in Listeners(s, R)
      BY <1>5, <2>1, <2>3, <3>1 DEF Listeners, SocketsIn, In
    <3>3. told[t] = Others(t, R)
      BY <2>1, <2>3
    <3>4. Others(t, R)' = {p \in Others(t, R) : p.socketId # s}
      BY <1>1 DEF Others
    <3>5. CASE In(s, R)
      <4>1. told'[t] = {p \in told[t] : p.socketId # s}
        BY <1>1, <3>1, <3>2, <3>5 DEF ToldLeft, ListAfterLeave, Without
      <4> QED BY <2>3, <3>3, <3>4, <4>1
    <3>6. CASE ~In(s, R)
      <4>1. told'[t] = told[t]
        BY <1>1, <3>6 DEF ToldLeft, ListAfterLeave
      <4>2. {p \in Others(t, R) : p.socketId # s} = Others(t, R)
        BY <3>6 DEF Others, In
      <4> QED BY <2>3, <3>3, <3>4, <4>1, <4>2
    <3> QED BY <3>5, <3>6
  <2> QED BY <2>2, <2>3
<1> QED BY <1>3, <1>4, <1>5 DEF Known, Knows

LEMMA JoinKnown ==
  ASSUME Inv, Known, NEW s \in Sockets, NEW R \in Rooms, JoinRoom(s, R)
  PROVE  Known'
<1>1. PICK n \in Participant :
           /\ n.socketId = s /\ n.userId = socketToUser[s]
           /\ rooms'[R].participants = rooms[R].participants \union {n}
           /\ \A Q \in Rooms : Q # R => rooms'[Q] = rooms[Q]
           /\ ToldJoined(s, R, n)
  BY JoinEffect
<1>2. UNCHANGED <<conn, socketToUser>> /\ conn[s] = "open" /\ ~AlreadyIn(R, socketToUser[s])
  BY DEF JoinRoom, Sending
<1>3. UsersKept'
  BY <1>1, <1>2 DEF Known, UsersKept
<1>4. ~In(s, R)
  BY <1>2 DEF Known, UsersKept, In, AlreadyIn
<1>5. mixed' = IF \E Q \in Rooms : In(s, Q) THEN mixed \union {s} ELSE mixed \ {s}
  BY DEF JoinRoom
<1>6. ASSUME NEW t \in Sockets PROVE OneRoom(t)'
  BY <1>5, JoinWho DEF Known, OneRoom
<1>7. ASSUME NEW t \in Sockets, NEW Q \in Rooms, conn'[t] = "open", In(t, Q)',
             t \notin mixed'
      PROVE  told'[t] = Others(t, Q)'
  <2>1. CASE t = s
    <3>1. Q = R
      BY <1>5, <1>7, <2>1, JoinWho
    <3> QED BY <1>1, <1>4, <2>1, <3>1 DEF In, Others, ToldJoined
  <2>2. CASE t # s
    <3>1. In(t, Q) /\ t \notin mixed /\ told[t] = Others(t, Q)
      BY <1>2, <1>5, <1>7, <2>2, JoinWho DEF Known, Knows
    <3>2. CASE Q # R
      <4>1. ~In(t, R)
        BY <3>1, <3>2 DEF Known, OneRoom
      <4>2. told'[t] = told[t]
        BY <1>1, <2>2, <4>1 DEF ToldJoined, Listeners, SocketsIn, In
      <4> QED BY <1>1, <3>1, <3>2, <4>2 DEF Others
    <3>3. CASE Q = R
      <4>1. t \in Listeners(s, R)
        BY <1>2, <1>7, <2>2, <3>1, <3>3 DEF Listeners, SocketsIn, In
      <4>2. Others(t, R)' = Others(t, R) \union {n}
        BY <1>1, <2>2 DEF Others
      <4>3. Without(Others(t, R), s) = Others(t, R)
        BY <1>4 DEF Without, Others, In
      <4>4. told'[t] = Without(told[t], s) \union {n}
        BY <1>1, <2>2, <4>1 DEF ToldJoined
      <4> QED BY <3>1, <3>3, <4>2, <4>3, <4>4
    <3> QED BY <3>2, <3>3
  <2> QED BY <2>1, <2>2
<1> QED BY <1>3, <1>6, <1>7 DEF Known, Knows

LEMMA ToggleKnown ==
  ASSUME Inv, Known, NEW s \in Sockets, NEW R \in Rooms, NEW flag \in BOOLEAN,
         Toggle(s, R, flag)
  PROVE  Known'
<1>1. /\ rooms'[R].participants = {Muting(p, s, flag) : p \in rooms[R].participants}
      /\ \A Q \in Rooms : Q # R => rooms'[Q] = rooms[Q]
      /\ ToldMuted(s, R, flag)
  BY ToggleEffect
<1>2. UNCHANGED <<conn, socketToUser, mixed>>
  BY DEF Toggle
<1>3. rooms[R].participants \subseteq Participant
  BY DEF Inv, TypeOK, RoomType
<1>4. \A p \in rooms[R].participants :
        /\ Muting(p, s, flag).socketId = p.socketId
        /\ Muting(p, s, flag).userId = p.userId
        /\ p.socketId # s => Muting(p, s, flag) = p
  BY <1>3, MutingKeeps
<1>5. UsersKept'
  BY <1>1, <1>2, <1>4 DEF Known, UsersKept
<1>6. \A t \in Sockets : OneRoom(t)'
  BY <1>2, ToggleWho DEF Known, OneRoom
<1>7. ASSUME NEW t \in Sockets, NEW Q \in Rooms, conn'[t] = "open", In(t, Q)',
             t \notin mixed'
      PROVE  told'[t] = Others(t, Q)'
  <2>1. In(t, Q) /\ told[t] = Others(t, Q)
    BY <1>2, <1>7, ToggleWho DEF Known, Knows
  <2>2. CASE Q # R
    <3>1. ~In(t, R)
      BY <1>2, <1>7, <2>1, <2>2 DEF Known, OneRoom
    <3>2. told'[t] = told[t]
      BY <1>1, <3>1 DEF ToldMuted, Listeners, SocketsIn, In
    <3> QED BY <1>1, <2>1, <2>2, <3>2 DEF Others
  <2>3. CASE Q = R
    <3>1. Others(t, R)' = {Muting(p, s, flag) : p \in Others(t, R)}
      BY <1>1, <1>4 DEF Others
    <3>2. CASE t = s
      <4>1. {Muting(p, s, flag) : p \in Others(s, R)} = Others(s, R)
        BY <1>4 DEF Others
      <4>2. told'[s] = told[s]
        BY <1>1 DEF ToldMuted, Listeners
      <4> QED BY <2>1, <2>3, <3>1, <3>2, <4>1, <4>2
    <3>3. CASE t # s
      <4>1. t \in Listeners(s, R)
        BY <1>2, <1>7, <2>1, <2>3, <3>3 DEF Listeners, SocketsIn, In
      <4> QED BY <1>1, <2>1, <2>3, <3>1, <4>1 DEF ToldMuted
    <3> QED BY <3>2, <3>3
  <2> QED BY <2>2, <2>3
<1> QED BY <1>5, <1>6, <1>7 DEF Known, Knows

LEMMA CreateKnown ==
  ASSUME Inv, Known, NEW s \in Sockets, NEW R \in Rooms, NEW allowed \in SUBSET Users,
         NEW group \in BOOLEAN, CreateRoom(s, R, allowed, group)
  PROVE  Known'
<1>1. \A Q \in Rooms : rooms'[Q].participants = rooms[Q].participants
  BY CreateEffect
<1>2. UNCHANGED <<conn, socketToUser, told, mixed>>
  BY DEF CreateRoom
<1> QED BY <1>1, <1>2 DEF Known, UsersKept, OneRoom, Knows, In, Others

LEMMA KnownStep == Inv /\ AllLocated /\ Known /\ [Next]_vars => Known'
<1> SUFFICES ASSUME Inv, AllLocated, Known, [Next]_vars PROVE Known'
  OBVIOUS
<1>0. /\ conn \in [Sockets -> {"new", "checking", "dropped", "open", "closed"}]
      /\ socketToUser \in [Sockets -> Users \union {NoUser}]
  BY DEF Inv, TypeOK
<1>1. CASE UNCHANGED vars
  BY <1>1, QuietStep DEF vars
<1>2. ASSUME NEW s \in Sockets, NEW u \in Users, NEW type \in TokenTypes,
             Connect(s, u, type)
      PROVE  Known'
  BY <1>0, <1>2, QuietStep DEF Connect
<1>3. ASSUME NEW s \in Sockets, Authenticated(s) PROVE Known'
  BY <1>0, <1>3, QuietStep DEF Authenticated
<1>4. ASSUME NEW s \in Sockets, HandleDisconnect(s), UNCHANGED mixed,
             NEW c \in {"dropped", "closed"}, conn' = [conn EXCEPT ![s] = c]
      PROVE  Known'
  <2>1. socketToUser' = [socketToUser EXCEPT ![s] = NoUser]
    BY <1>4 DEF HandleDisconnect
  <2>2. \A t \in Sockets : conn'[t] = "open" => t # s /\ conn[t] = "open"
    BY <1>0, <1>4
  <2>3. \A t \in Sockets \ {s} : socketToUser'[t] = socketToUser[t]
    BY <1>0, <2>1
  <2>4. CASE UNCHANGED <<rooms, socketToRoom, told>>
    BY <1>4, <2>2, <2>3, <2>4, QuietStep
  <2>5. ASSUME NEW R \in Rooms, Exists(R), LeaveRoom(s, R) PROVE Known'
    BY <1>4, <2>2, <2>3, <2>5, LeaveKnown
  <2> QED BY <1>4, <2>4, <2>5, DisconnectEffect
<1>5. ASSUME NEW s \in Sockets, NEW R \in Rooms, LeaveNamedRoom(s, R)
      PROVE  Known'
  <2>1. LeaveRoom(s, R) /\ UNCHANGED <<conn, socketToUser, mixed>>
    BY <1>5 DEF LeaveNamedRoom
  <2>2. CASE ~Exists(R)
    BY <2>1, <2>2, QuietStep DEF LeaveRoom
  <2>3. CASE Exists(R)
    BY <2>1, <2>3, LeaveKnown
  <2> QED BY <2>2, <2>3
<1>6. ASSUME NEW s \in Sockets, Rejected(s) \/ Disconnect(s) \/ \E R \in Rooms : JoinDenied(s, R)
      PROVE  Known'
  <2>1. \E c \in {"dropped", "closed"} : conn' = [conn EXCEPT ![s] = c]
    BY <1>6 DEF Rejected, Disconnect, JoinDenied
  <2> QED BY <1>4, <1>6, <2>1 DEF Rejected, Disconnect, JoinDenied
<1> QED BY <1>1, <1>2, <1>3, <1>5, <1>6, JoinKnown, ToggleKnown, CreateKnown DEF Next

LEMMA KnownAlways == Spec => []Known
<1>1. Init => Known
  <2>1. Unused.participants = {}
    BY DEF Unused
  <2> QED BY <2>1 DEF Init, Known, UsersKept, OneRoom, Knows, In
<1> QED BY <1>1, KnownStep, LocatedAlways, InvAlways, PTL DEF Spec

\* The list a client got when it joined and the events since, which say what
\* socket they are about but not in which room, add up to the others in the
\* room, in every order of joins, leaves, toggles and closings: for a client
\* that has not joined a second room while in this one.
THEOREM ClientsKnow == Spec => []ClientsKnowRoom
<1>1. Known => ClientsKnowRoom
  BY DEF Known, Knows, ClientsKnowRoom
<1> QED BY <1>1, KnownAlways, PTL

-----------------------------------------------------------------------------
(* Rooms implement calls.                                                  *)

\* A step that rewrites one room rewrites that call and no other.
LEMMA OneCallChanges ==
  ASSUME Inv, NEW R \in Rooms, rooms' \in [Rooms -> RoomType],
         \A Q \in Rooms : Q # R => rooms'[Q] = rooms[Q]
  PROVE  /\ [Q \in Rooms |-> rooms'[Q].state] =
              [[Q \in Rooms |-> rooms[Q].state] EXCEPT ![R] = rooms'[R].state]
         /\ [Q \in Rooms |-> TermsOf(rooms'[Q])] =
              [[Q \in Rooms |-> TermsOf(rooms[Q])] EXCEPT ![R] = TermsOf(rooms'[R])]
         /\ [Q \in Rooms |-> MembersOf(rooms'[Q])] =
              [[Q \in Rooms |-> MembersOf(rooms[Q])] EXCEPT ![R] = MembersOf(rooms'[R])]
OBVIOUS

\* A step that changes nothing people see of a room is a stutter.
LEMMA CallStutters ==
  ASSUME NEW R \in Rooms, \A Q \in Rooms : Q # R => rooms'[Q] = rooms[Q],
         rooms'[R].state = rooms[R].state, TermsOf(rooms'[R]) = TermsOf(rooms[R]),
         MembersOf(rooms'[R]) = MembersOf(rooms[R])
  PROVE  UNCHANGED Call!vars
BY DEF Call!vars

\* Leaving a room, by a socket whose user is known, takes that user out of the
\* call, ends it, or changes nothing.
LEMMA LeaveIsCallStep ==
  ASSUME Inv, Inv', UsersKept, NEW s \in Sockets, NEW R \in Rooms, Exists(R),
         LeaveRoom(s, R), conn[s] = "open", socketToUser[s] \in Users
  PROVE  Call!Next \/ UNCHANGED Call!vars
<1> DEFINE u == socketToUser[s]
           x == [rooms[R] EXCEPT
                   !.participants = Others(s, R),
                   !.state = IF Others(s, R) = {} THEN "deleted" ELSE @]
<1>1. rooms' = [rooms EXCEPT ![R] = x] /\ rooms[R] \in RoomType
  BY DEF LeaveRoom, Inv, TypeOK
<1>2. /\ rooms' \in [Rooms -> RoomType] /\ rooms \in [Rooms -> RoomType]
      /\ rooms'[R] = x /\ \A Q \in Rooms : Q # R => rooms'[Q] = rooms[Q]
  BY <1>1 DEF Inv, TypeOK
<1>3. /\ x.state = IF Others(s, R) = {} THEN "deleted" ELSE rooms[R].state
      /\ TermsOf(x) = TermsOf(rooms[R])
      /\ x.participants = Others(s, R)
  BY <1>1 DEF RoomType, TermsOf
<1> HIDE DEF x
<1>4. \A p \in rooms[R].participants : p.socketId = s => p.userId = u
  BY DEF UsersKept
<1>5. \A p, q \in rooms[R].participants : p.userId = q.userId => p = q
  BY DEF Inv, RoomOK
<1>6. rooms[R].state = "open"
  BY DEF Exists
<1>7. CASE Others(s, R) = {}
  <2>1. MembersOf(rooms[R]) \subseteq {u}
    BY <1>4, <1>7 DEF Others, MembersOf
  <2>2. MembersOf(rooms'[R]) = {}
    BY <1>2, <1>3, <1>7 DEF MembersOf
  <2>3. Call!End(R)
    BY <1>2, <1>3, <1>6, <1>7, <2>1, <2>2, OneCallChanges DEF Call!End
  <2> QED BY <2>3 DEF Call!Next
<1>8. CASE Others(s, R) # {} /\ In(s, R)
  <2>1. PICK p \in rooms[R].participants : p.socketId = s /\ p.userId = u
    BY <1>4, <1>8 DEF In
  <2>2. \A q \in Others(s, R) : q.userId # u
    BY <1>5, <2>1 DEF Others
  <2>3. u \in MembersOf(rooms[R]) /\ MembersOf(rooms[R]) # {u}
    BY <1>8, <2>1, <2>2 DEF MembersOf, Others
  <2>4. MembersOf(rooms'[R]) = MembersOf(rooms[R]) \ {u}
    BY <1>2, <1>3, <1>4, <2>2 DEF MembersOf, Others
  <2>5. Call!Leave(R, u)
    BY <1>2, <1>3, <1>8, <2>3, <2>4, OneCallChanges DEF Call!Leave
  <2> QED BY <2>5 DEF Call!Next
<1>9. CASE Others(s, R) # {} /\ ~In(s, R)
  <2>1. Others(s, R) = rooms[R].participants
    BY <1>9 DEF Others, In
  <2> QED BY <1>2, <1>3, <1>9, <2>1, CallStutters DEF MembersOf
<1> QED BY <1>7, <1>8, <1>9

LEMMA JoinIsCallStep ==
  ASSUME Inv, Inv', AllFit, NEW s \in Sockets, NEW R \in Rooms, JoinRoom(s, R)
  PROVE  Call!Next
<1> DEFINE u == socketToUser[s]
           p == [socketId |-> s, userId |-> u, muted |-> FALSE]
           x == [rooms[R] EXCEPT !.participants = @ \union {p}]
           old == rooms[R].participants
<1>1. rooms' = [rooms EXCEPT ![R] = x] /\ rooms[R] \in RoomType
  BY DEF JoinRoom, Inv, TypeOK
<1>2. /\ rooms' \in [Rooms -> RoomType] /\ rooms \in [Rooms -> RoomType]
      /\ rooms'[R] = x /\ \A Q \in Rooms : Q # R => rooms'[Q] = rooms[Q]
  BY <1>1 DEF Inv, TypeOK
<1>3. /\ x.state = rooms[R].state /\ TermsOf(x) = TermsOf(rooms[R])
      /\ x.participants = old \union {p} /\ p.userId = u
  BY <1>1 DEF RoomType, TermsOf
<1> HIDE DEF x, p
<1>4. /\ u \in Users /\ rooms[R].state = "open"
      /\ u = rooms[R].createdBy \/ u \in rooms[R].allowedUserIds
      /\ u \notin MembersOf(rooms[R])
  BY DEF JoinRoom, Sending, Inv, TypeOK, Exists, isUserAllowed, AlreadyIn, MembersOf
<1>5. MembersOf(rooms'[R]) = MembersOf(rooms[R]) \union {u}
  BY <1>2, <1>3 DEF MembersOf
<1>6. Cardinality(MembersOf(rooms[R]))
        < IF rooms[R].isGroupCall THEN GroupLimit ELSE PairLimit
  <2> DEFINE f == [q \in old |-> q.userId]
  <2>1. f \in Surjection(old, MembersOf(rooms[R]))
    BY DEF Surjection, MembersOf
  <2>2. IsFiniteSet(old)
    BY DEF AllFit, Fits
  <2>3. /\ Cardinality(MembersOf(rooms[R])) <= Cardinality(old)
        /\ IsFiniteSet(MembersOf(rooms[R]))
    BY <2>1, <2>2, FS_Surjection
  <2>4. ~(Cardinality(old) >= IF rooms[R].isGroupCall THEN GroupLimit ELSE PairLimit)
    BY DEF JoinRoom, Full, Capacity
  <2> QED BY <2>2, <2>3, <2>4, FS_CardinalityType, RoomsAssumption
<1>7. Call!Enter(R, u)
  <2> DEFINE phase == [Q \in Rooms |-> rooms[Q].state]
             terms == [Q \in Rooms |-> TermsOf(rooms[Q])]
             members == [Q \in Rooms |-> MembersOf(rooms[Q])]
  <2>1. u \in Call!Invited(R)
    BY <1>4 DEF Call!Invited, TermsOf
  <2>2. Cardinality(MembersOf(rooms[R])) < Call!Limit(R)
    BY <1>6 DEF Call!Limit, TermsOf
  <2>3. UNCHANGED <<phase, terms>>
    BY <1>2, <1>3
  <2>4. phase[R] = "open" /\ members[R] = MembersOf(rooms[R])
    BY <1>4
  <2>5. u \in Call!Invited(R) \ members[R] /\ Call!Cardinality(members[R]) < Call!Limit(R)
    <3>1. Call!Cardinality(members[R]) = Cardinality(members[R])
      BY DEF Call!Cardinality, Cardinality
    <3> QED BY <1>4, <2>1, <2>2, <2>4, <3>1
  <2>6. members' = [members EXCEPT ![R] = members[R] \union {u}]
    BY <1>2, <1>5
  <2> QED BY <2>3, <2>4, <2>5, <2>6 DEF Call!Enter
<1> QED BY <1>4, <1>7 DEF Call!Next

LEMMA CreateIsCallStep ==
  ASSUME Inv, Inv', NEW s \in Sockets, NEW R \in Rooms, NEW allowed \in SUBSET Users,
         NEW group \in BOOLEAN, CreateRoom(s, R, allowed, group)
  PROVE  Call!Next
<1> DEFINE x == [state |-> "open", createdBy |-> socketToUser[s],
                 allowedUserIds |-> allowed, isGroupCall |-> group,
                 participants |-> {}]
<1>1. /\ rooms' \in [Rooms -> RoomType] /\ rooms \in [Rooms -> RoomType]
      /\ rooms'[R] = x /\ \A Q \in Rooms : Q # R => rooms'[Q] = rooms[Q]
  BY DEF CreateRoom, Inv, TypeOK
<1>2. rooms[R].state = "unused" /\ rooms[R].participants = {}
  BY DEF CreateRoom, Inv, RoomOK
<1>3. TermsOf(x) \in Call!Terms
  BY DEF CreateRoom, Sending, Inv, TypeOK, TermsOf, Call!Terms
<1>4. x.state = "open" /\ x.participants = {}
  OBVIOUS
<1> HIDE DEF x
<1>5. MembersOf(x) = {} /\ MembersOf(rooms[R]) = {}
  BY <1>2, <1>4 DEF MembersOf
<1>6. [Q \in Rooms |-> MembersOf(rooms'[Q])] = [Q \in Rooms |-> MembersOf(rooms[Q])]
  BY <1>1, <1>5
<1>7. Call!Open(R)
  BY <1>1, <1>2, <1>3, <1>4, <1>6, OneCallChanges DEF Call!Open
<1> QED BY <1>7 DEF Call!Next

LEMMA ToggleIsCallStutter ==
  ASSUME Inv, NEW s \in Sockets, NEW R \in Rooms, NEW flag \in BOOLEAN,
         Toggle(s, R, flag)
  PROVE  UNCHANGED Call!vars
<1> DEFINE set == {Muting(p, s, flag) : p \in rooms[R].participants}
           x == [rooms[R] EXCEPT !.participants = set]
<1>1. rooms' = [rooms EXCEPT ![R] = x] /\ rooms \in [Rooms -> RoomType]
  BY DEF Toggle, Inv, TypeOK, Muting
<1>2. rooms'[R] = x /\ \A Q \in Rooms : Q # R => rooms'[Q] = rooms[Q]
  BY <1>1
<1>3. rooms[R] \in RoomType
  BY <1>1
<1> HIDE DEF set
<1>4. /\ x.state = rooms[R].state /\ TermsOf(x) = TermsOf(rooms[R])
      /\ x.participants = set
  BY <1>3 DEF RoomType, TermsOf
<1>5. \A p \in rooms[R].participants : Muting(p, s, flag).userId = p.userId
  BY <1>3, MutingKeeps DEF RoomType
<1>6. MembersOf(x) = MembersOf(rooms[R])
  BY <1>4, <1>5 DEF MembersOf, set
<1> QED BY <1>2, <1>4, <1>6, CallStutters

\* Every handler is a step of the calls people see, or none: this takes that
\* an open socket has one user, and that a socket maps to no room before its
\* handshake ends or after it has closed.
THEOREM CallsImplemented == Spec => CallsSpec
<1>1. Init => Call!Init
  <2>1. Unused.participants = {} /\ Unused.state = "unused"
    BY DEF Unused
  <2> QED BY <2>1 DEF Init, Call!Init, MembersOf
<1>2. ASSUME Inv, Inv', AllLocated, Known, AllFit, [Next]_vars
      PROVE  Call!Next \/ UNCHANGED Call!vars
  <2>1. CASE UNCHANGED rooms
    BY <2>1 DEF Call!vars
  <2>2. ASSUME NEW s \in Sockets, HandleDisconnect(s),
               conn[s] \in {"checking", "dropped", "open"}
        PROVE  Call!Next \/ UNCHANGED Call!vars
    <3>1. ASSUME NEW R \in Rooms, socketToRoom[s] = R, Exists(R), LeaveRoom(s, R)
          PROVE  Call!Next \/ UNCHANGED Call!vars
      <4>1. conn[s] = "open"
        BY <1>2, <2>2, <3>1, RoomsAssumption DEF AllLocated, Located
      <4>2. PICK p \in rooms[R].participants : p.socketId = s
        BY <1>2, <3>1, RoomsAssumption DEF Inv, CurrentRoomHolds, In
      <4>3. p.userId \in Users
        BY <1>2 DEF Inv, TypeOK, RoomType, Participant
      <4>4. socketToUser[s] \in Users
        BY <1>2, <4>1, <4>2, <4>3 DEF Known, UsersKept
      <4> QED BY <1>2, <3>1, <4>1, <4>4, LeaveIsCallStep DEF Known
    <3> QED BY <1>2, <2>1, <2>2, <3>1, DisconnectEffect
  <2>3. ASSUME NEW s \in Sockets, NEW R \in Rooms, LeaveNamedRoom(s, R)
        PROVE  Call!Next \/ UNCHANGED Call!vars
    <3>1. CASE ~Exists(R)
      BY <2>1, <2>3, <3>1 DEF LeaveNamedRoom, LeaveRoom
    <3>2. CASE Exists(R)
      <4>1. LeaveRoom(s, R) /\ conn[s] = "open" /\ socketToUser[s] \in Users
        BY <1>2, <2>3 DEF LeaveNamedRoom, Sending, Inv, TypeOK
      <4> QED BY <1>2, <3>2, <4>1, LeaveIsCallStep DEF Known
    <3> QED BY <3>1, <3>2
  <2>4. ASSUME NEW s \in Sockets, Rejected(s) \/ Disconnect(s) \/ \E R \in Rooms : JoinDenied(s, R)
        PROVE  Call!Next \/ UNCHANGED Call!vars
    BY <2>2, <2>4 DEF Rejected, Disconnect, JoinDenied, Sending
  <2>5. ASSUME NEW s \in Sockets,
               Authenticated(s) \/ \E u \in Users, type \in TokenTypes : Connect(s, u, type)
        PROVE  UNCHANGED Call!vars
    BY <2>1, <2>5 DEF Authenticated, Connect, Call!vars
  <2> QED BY <1>2, <2>1, <2>3, <2>4, <2>5, JoinIsCallStep, CreateIsCallStep, ToggleIsCallStutter
          DEF Next, vars
<1>3. Inv /\ Inv' /\ AllLocated /\ Known /\ AllFit /\ [Next]_vars
        => [Call!Next]_(Call!vars)
  BY <1>2
<1> QED BY <1>1, <1>3, InvAlways, LocatedAlways, KnownAlways, FitsAlways, PTL
        DEF Spec, CallsSpec, Call!Spec
=============================================================================

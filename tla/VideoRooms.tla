----------------------------- MODULE VideoRooms -----------------------------
(***************************************************************************)
(* The signalling gateway of the video calls: which sockets are whose,     *)
(* who is in which room, what each client has been told, and between whom  *)
(* signals are relayed.  Message handlers run to completion; only the      *)
(* handshake awaits a database read, so a socket may close in the middle   *)
(* of it.                                                                  *)
(***************************************************************************)
EXTENDS Naturals, FiniteSets

CONSTANTS
    Users,
    Sockets,        \* socket ids, each used once (bound on connections)
    Rooms,          \* room ids, each used once (bound on rooms created)
    PairLimit,      \* participants of a 1-on-1 call: 2 in the code
    GroupLimit,     \* participants of a group call: 10 in the code
    TokenTypes,     \* the type claims of the tokens clients present
    NoUser, NoRoom

ASSUME RoomsAssumption ==
    /\ NoUser \notin Users
    /\ NoRoom \notin Rooms
    /\ PairLimit \in Nat
    /\ GroupLimit \in Nat
    /\ TokenTypes \subseteq {"access", "refresh"}

VARIABLES
    conn,           \* life of a socket; "dropped": closed during its handshake
    payload,        \* what its token says: the user, and the type claim
    socketToUser,
    socketToRoom,
    rooms,          \* rooms[R]: the entry of R, or what became of it
    told,           \* the participants on the list of the client of s: the
                    \* payloads name a socket and no room, so it is one list
    mixed,          \* history: sockets that joined a room while in another,
                    \* whose lists mix what they hear of both
    lost            \* history: <<s, R>> when s, a participant of R, has since
                    \* joined another room, or left another that exists

vars == <<conn, payload, socketToUser, socketToRoom, rooms, told, mixed, lost>>

-----------------------------------------------------------------------------
\* muted stands for either media flag of a participant.
Participant == [socketId : Sockets, userId : Users, muted : BOOLEAN]

RoomType ==
    [state : {"unused", "open", "deleted"}, createdBy : Users \union {NoUser},
     allowedUserIds : SUBSET Users, isGroupCall : BOOLEAN,
     participants : SUBSET Participant]

Unused == [state |-> "unused", createdBy |-> NoUser, allowedUserIds |-> {},
           isGroupCall |-> FALSE, participants |-> {}]

Init ==
    /\ conn = [s \in Sockets |-> "new"]
    /\ payload = [s \in Sockets |-> [sub |-> NoUser, type |-> "none"]]
    /\ socketToUser = [s \in Sockets |-> NoUser]
    /\ socketToRoom = [s \in Sockets |-> NoRoom]
    /\ rooms = [R \in Rooms |-> Unused]
    /\ told = [s \in Sockets |-> {}]
    /\ mixed = {}
    /\ lost = {}

-----------------------------------------------------------------------------
\* Definitions named M_ are faults the runs are shown to notice: what the
\* definition after them would be if the code had that bug.

\* A room that ended can still be found.
M_EndedExists(R) == rooms[R].state # "unused"

Exists(R) == rooms[R].state = "open"

In(s, R) == \E p \in rooms[R].participants : p.socketId = s

SocketsIn(R) == {p.socketId : p \in rooms[R].participants}

Others(s, R) == {p \in rooms[R].participants : p.socketId # s}

Without(P, s) == {p \in P : p.socketId # s}

\* Sockets an event emitted to room R by s reaches.
Listeners(s, R) == {t \in SocketsIn(R) \ {s} : conn[t] = "open"}

\* An empty invite list taken for an open room.
M_EmptyListOpens(R, u) ==
    \/ rooms[R].createdBy = u \/ u \in rooms[R].allowedUserIds
    \/ rooms[R].allowedUserIds = {}

isUserAllowed(R, u) ==
    rooms[R].createdBy = u \/ u \in rooms[R].allowedUserIds

AlreadyIn(R, u) == \E p \in rooms[R].participants : p.userId = u

Capacity(R) == IF rooms[R].isGroupCall THEN GroupLimit ELSE PairLimit

M_FullOneLate(R) == Cardinality(rooms[R].participants) > Capacity(R)

Full(R) == Cardinality(rooms[R].participants) >= Capacity(R)

\* Both ends of a signal map to one room.
areInSameRoom(s, t) == socketToRoom[s] # NoRoom /\ socketToRoom[s] = socketToRoom[t]

\* The gateway has a user for the socket, which is still there to send.
Sending(s) == conn[s] = "open" /\ socketToUser[s] # NoUser

\* The list of t when s leaves R: user-left goes to the others in R if s was
\* in it, and carries the socket that left but not the room.
ListAfterLeave(t, s, R) ==
    IF ~In(s, R) THEN told[t]
    ELSE IF t = s THEN {}
    ELSE IF t \in Listeners(s, R) THEN Without(told[t], s)
    ELSE told[t]

\* socketToRoom keeps its entry.
M_LeaveKeepsEntry(s, R) ==
    IF Exists(R)
    THEN /\ rooms' = [rooms EXCEPT
              ![R].participants = Others(s, R),
              ![R].state = IF Others(s, R) = {} THEN "deleted" ELSE @]
         /\ told' = [t \in Sockets |-> ListAfterLeave(t, s, R)]
         /\ UNCHANGED socketToRoom
    ELSE UNCHANGED <<rooms, socketToRoom, told>>

\* The others in the room do not hear of it.
M_LeaveSilently(s, R) ==
    IF Exists(R)
    THEN /\ rooms' = [rooms EXCEPT
              ![R].participants = Others(s, R),
              ![R].state = IF Others(s, R) = {} THEN "deleted" ELSE @]
         /\ socketToRoom' = [socketToRoom EXCEPT ![s] = NoRoom]
         /\ told' = [told EXCEPT ![s] = IF In(s, R) THEN {} ELSE @]
    ELSE UNCHANGED <<rooms, socketToRoom, told>>

\* The empty room stays.
M_LeaveKeepsRoom(s, R) ==
    IF Exists(R)
    THEN /\ rooms' = [rooms EXCEPT ![R].participants = Others(s, R)]
         /\ socketToRoom' = [socketToRoom EXCEPT ![s] = NoRoom]
         /\ told' = [t \in Sockets |-> ListAfterLeave(t, s, R)]
    ELSE UNCHANGED <<rooms, socketToRoom, told>>

\* leaveRoom: also of a room s is not in.  The last participant out, or a
\* visitor of a room nobody has joined, deletes it.
LeaveRoom(s, R) ==
    IF Exists(R)
    THEN /\ rooms' = [rooms EXCEPT
              ![R].participants = Others(s, R),
              ![R].state = IF Others(s, R) = {} THEN "deleted" ELSE @]
         /\ socketToRoom' = [socketToRoom EXCEPT ![s] = NoRoom]
         /\ told' = [t \in Sockets |-> ListAfterLeave(t, s, R)]
    ELSE UNCHANGED <<rooms, socketToRoom, told>>

\* The room is not left.
M_DisconnectStays(s) ==
    /\ socketToUser' = [socketToUser EXCEPT ![s] = NoUser]
    /\ UNCHANGED <<rooms, socketToRoom, told>>

\* handleDisconnect
HandleDisconnect(s) ==
    /\ socketToUser' = [socketToUser EXCEPT ![s] = NoUser]
    /\ IF socketToRoom[s] # NoRoom
       THEN LeaveRoom(s, socketToRoom[s])
       ELSE UNCHANGED <<rooms, socketToRoom, told>>

-----------------------------------------------------------------------------
\* handleConnection up to its await: the token verifies, whatever its type.
Connect(s, u, type) ==
    /\ conn[s] = "new"
    /\ conn' = [conn EXCEPT ![s] = "checking"]
    /\ payload' = [payload EXCEPT ![s] = [sub |-> u, type |-> type]]
    /\ UNCHANGED <<socketToUser, socketToRoom, rooms, told, mixed, lost>>

\* The user row is found, active and not blocked.  The entry is made for a
\* socket that has closed meanwhile, too.
Authenticated(s) ==
    /\ conn[s] \in {"checking", "dropped"}
    /\ conn' = [conn EXCEPT ![s] = IF @ = "checking" THEN "open" ELSE "closed"]
    /\ socketToUser' = [socketToUser EXCEPT ![s] = payload[s].sub]
    /\ UNCHANGED <<payload, socketToRoom, rooms, told, mixed, lost>>

\* The row is missing, inactive or blocked, or the read fails.
Rejected(s) ==
    /\ conn[s] \in {"checking", "dropped"}
    /\ conn' = [conn EXCEPT ![s] = "closed"]
    /\ HandleDisconnect(s)
    /\ UNCHANGED <<payload, mixed, lost>>

Disconnect(s) ==
    /\ conn[s] \in {"checking", "open"}
    /\ conn' = [conn EXCEPT ![s] = IF @ = "checking" THEN "dropped" ELSE "closed"]
    /\ HandleDisconnect(s)
    /\ UNCHANGED <<payload, mixed, lost>>

\* createdBy names the socket.
M_CreatedBySocket(s, R, allowed, group) ==
    /\ Sending(s)
    /\ rooms[R].state = "unused"
    /\ rooms' = [rooms EXCEPT ![R] =
         [state |-> "open", createdBy |-> s,
          allowedUserIds |-> allowed, isGroupCall |-> group,
          participants |-> {}]]
    /\ UNCHANGED <<conn, payload, socketToUser, socketToRoom, told, mixed, lost>>

CreateRoom(s, R, allowed, group) ==
    /\ Sending(s)
    /\ rooms[R].state = "unused"
    /\ rooms' = [rooms EXCEPT ![R] =
         [state |-> "open", createdBy |-> socketToUser[s],
          allowedUserIds |-> allowed, isGroupCall |-> group,
          participants |-> {}]]
    /\ UNCHANGED <<conn, payload, socketToUser, socketToRoom, told, mixed, lost>>

\* A client that is not invited is disconnected.
JoinDenied(s, R) ==
    /\ Sending(s)
    /\ Exists(R)
    /\ ~isUserAllowed(R, socketToUser[s])
    /\ conn' = [conn EXCEPT ![s] = "closed"]
    /\ HandleDisconnect(s)
    /\ UNCHANGED <<payload, mixed, lost>>

\* The rooms s is in, but R, have no entry of socketToRoom left to find them by.
Forget(s, R) ==
    lost' = (lost \ {<<s, R>>}) \union
              {<<s, Q>> : Q \in {Q \in Rooms \ {R} : In(s, Q)}}

\* Nothing happens when the user is in the room already, or the room is full.
JoinRoom(s, R) ==
    LET u == socketToUser[s]
        p == [socketId |-> s, userId |-> u, muted |-> FALSE]
    IN  /\ Sending(s)
        /\ Exists(R)
        /\ isUserAllowed(R, u)
        /\ ~AlreadyIn(R, u)
        /\ ~Full(R)
        /\ rooms' = [rooms EXCEPT ![R].participants = @ \union {p}]
        /\ socketToRoom' = [socketToRoom EXCEPT ![s] = R]
        /\ told' = [t \in Sockets |->
             IF t = s THEN rooms[R].participants
             ELSE IF t \in Listeners(s, R) THEN Without(told[t], s) \union {p}
             ELSE told[t]]
        /\ mixed' = IF \E Q \in Rooms : In(s, Q) THEN mixed \union {s} ELSE mixed \ {s}
        /\ Forget(s, R)
        /\ UNCHANGED <<conn, payload, socketToUser>>

\* leave-room, of a room the client names.
LeaveNamedRoom(s, R) ==
    /\ Sending(s)
    /\ LeaveRoom(s, R)
    /\ IF Exists(R) THEN Forget(s, R) ELSE UNCHANGED lost
    /\ UNCHANGED <<conn, payload, socketToUser, mixed>>

\* toggle-mute and toggle-camera.
Toggle(s, R, flag) ==
    LET set(P) == {IF p.socketId = s THEN [p EXCEPT !.muted = flag] ELSE p : p \in P}
    IN  /\ Sending(s)
        /\ Exists(R)
        /\ In(s, R)
        /\ rooms' = [rooms EXCEPT ![R].participants = set(@)]
        /\ told' = [t \in Sockets |->
             IF t \in Listeners(s, R) THEN set(told[t]) ELSE told[t]]
        /\ UNCHANGED <<conn, payload, socketToUser, socketToRoom, mixed, lost>>

-----------------------------------------------------------------------------
Next ==
    \/ \E s \in Sockets, u \in Users, type \in TokenTypes : Connect(s, u, type)
    \/ \E s \in Sockets : Authenticated(s) \/ Rejected(s) \/ Disconnect(s)
    \/ \E s \in Sockets, R \in Rooms, allowed \in SUBSET Users, group \in BOOLEAN :
         CreateRoom(s, R, allowed, group)
    \/ \E s \in Sockets, R \in Rooms :
         JoinDenied(s, R) \/ JoinRoom(s, R) \/ LeaveNamedRoom(s, R)
    \/ \E s \in Sockets, R \in Rooms, flag \in BOOLEAN : Toggle(s, R, flag)

Spec == Init /\ [][Next]_vars

-----------------------------------------------------------------------------
TypeOK ==
    /\ conn \in [Sockets -> {"new", "checking", "dropped", "open", "closed"}]
    /\ payload \in [Sockets -> [sub : Users \union {NoUser}, type : TokenTypes \union {"none"}]]
    /\ socketToUser \in [Sockets -> Users \union {NoUser}]
    /\ socketToRoom \in [Sockets -> Rooms \union {NoRoom}]
    /\ rooms \in [Rooms -> RoomType]
    /\ told \in [Sockets -> SUBSET Participant]
    /\ mixed \subseteq Sockets
    /\ lost \subseteq Sockets \X Rooms

\* Signalling is only relayed between participants of one room: two sockets
\* that areInSameRoom lets signal to each other are both participants of a
\* room that exists, however often they joined, left and disconnected.
RelayWithinRoom ==
    \A s, t \in Sockets :
        areInSameRoom(s, t) => \E R \in Rooms : Exists(R) /\ In(s, R) /\ In(t, R)

\* Everyone in a room is its creator or on its invite list, once.
OnlyInvitedOnce ==
    \A R \in Rooms : \A p, q \in rooms[R].participants :
        /\ p.userId \in rooms[R].allowedUserIds \union {rooms[R].createdBy}
        /\ p.userId = q.userId => p = q

\* A call never has more participants than its kind allows.
WithinCapacity ==
    \A R \in Rooms :
        Cardinality(rooms[R].participants)
          <= (IF rooms[R].isGroupCall THEN GroupLimit ELSE PairLimit)

\* A client in a room knows exactly the others in it, media flags included:
\* the list it got when it joined and every event since add up to the room.
\* The events name no room, so this is of clients that join one room at a time:
\* the list of a client that joined a second room mixes the two.
ClientsKnowRoom ==
    \A s \in Sockets, R \in Rooms :
        conn[s] = "open" /\ In(s, R) /\ s \notin mixed => told[s] = Others(s, R)

\* A closed socket stays a participant only of the rooms the gateway lost it
\* in: those it was in when it joined another room, or sent leave-room of
\* another, and has neither left nor joined again since.  From every other
\* room its place is free and its user can come back.
NoGhosts ==
    \A s \in Sockets, R \in Rooms :
        conn[s] \in {"dropped", "closed"} /\ In(s, R) => <<s, R>> \in lost

\* A room that empties is deleted: one whose last participant left is not
\* left behind for get-rooms to list.
NoAbandonedRoom ==
    [][\A R \in Rooms :
        rooms[R].participants # {} /\ rooms'[R].participants = {}
          => rooms'[R].state = "deleted"]_vars

\* Rooms as people see them.
TermsOf(x) == [host |-> x.createdBy, guests |-> x.allowedUserIds,
               isGroup |-> x.isGroupCall]

MembersOf(x) == {p.userId : p \in x.participants}

Call == INSTANCE Calls WITH
    phase <- [R \in Rooms |-> rooms[R].state],
    terms <- [R \in Rooms |-> TermsOf(rooms[R])],
    members <- [R \in Rooms |-> MembersOf(rooms[R])]

\* The handlers, with their sockets, maps and late handshakes, implement calls
\* people enter and leave one at a time: no message or disconnection takes two
\* people out of a call, puts one in twice, or takes up a call that ended.
CallsSpec == Call!Spec

\* A refresh token is rejected everywhere but at /auth/refresh.
RefreshTokenRefused ==
    \A s \in Sockets : Sending(s) => payload[s].type = "access"
=============================================================================

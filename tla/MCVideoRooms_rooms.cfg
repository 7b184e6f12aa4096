\* Two users with three connections between two rooms; limits small enough to
\* be met.
\* A run ends when every socket it may use has closed.
SPECIFICATION Spec
CONSTANTS
    Users = {u1, u2}
    Sockets = {s1, s2, s3}
    Rooms = {R1, R2}
    PairLimit = 1
    GroupLimit = 2
    TokenTypes = {"access"}
    NoUser = NoUser
    NoRoom = NoRoom
SYMMETRY Symmetry
CHECK_DEADLOCK FALSE
INVARIANTS
    TypeOK
    RelayWithinRoom
    OnlyInvitedOnce
    WithinCapacity
    ClientsKnowRoom
    NoGhosts
PROPERTIES
    CallsSpec

\* The tokens a socket is opened with.
\* A run ends when every socket it may use has closed.
SPECIFICATION Spec
CONSTANTS
    Users = {u1}
    Sockets = {s1, s2}
    Rooms = {R1}
    PairLimit = 2
    GroupLimit = 3
    TokenTypes = {"access", "refresh"}
    NoUser = NoUser
    NoRoom = NoRoom
SYMMETRY Symmetry
CHECK_DEADLOCK FALSE
INVARIANTS
    RefreshTokenRefused

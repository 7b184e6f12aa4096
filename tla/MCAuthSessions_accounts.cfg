\* Two accounts in the requests of one slot: one after another, failures,
\* tokens that expire.
SPECIFICATION Spec
CONSTANTS
    Users = {u1, u2}
    Sids = {s1, s2}
    Requests = {r1}
    MaxPassword = 1
    MaxAge = 2
    Tracked = {"PASSWORD_CHANGE"}
    Failures = TRUE
    NoUser = NoUser
    NoSid = NoSid
SYMMETRY Symmetry
PROPERTIES
    OnlyOwnSessionsRevoked
INVARIANTS
    ChangeLoggedAfterSweep

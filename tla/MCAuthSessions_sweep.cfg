\* A sign-in or a refresh under way during a password change.
SPECIFICATION Spec
CONSTANTS
    Users = {u1}
    Sids = {s1, s2}
    Requests = {r1, r2}
    MaxPassword = 1
    MaxAge = 0
    Tracked = {}
    Failures = FALSE
    NoUser = NoUser
    NoSid = NoSid
SYMMETRY Symmetry
INVARIANTS
    SweptSessionsDead

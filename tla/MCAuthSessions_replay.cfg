\* Two concurrent refreshes, no failure: more than one successor.
SPECIFICATION Spec
CONSTANTS
    Users = {u1}
    Sids = {s1, s2, s3}
    Requests = {r1, r2}
    MaxPassword = 0
    MaxAge = 0
    Tracked = {}
    Failures = FALSE
    NoUser = NoUser
    NoSid = NoSid
SYMMETRY Symmetry
INVARIANTS
    OneSuccessor

\* One account, three sessions, two concurrent requests, failures.
SPECIFICATION Spec
CONSTANTS
    Users = {u1}
    Sids = {s1, s2, s3}
    Requests = {r1, r2}
    MaxPassword = 1
    MaxAge = 0
    Tracked = {}
    Failures = TRUE
    NoUser = NoUser
    NoSid = NoSid
SYMMETRY Symmetry
INVARIANTS
    TypeOK
    RotationRetiresFirst
    LiveSessionsOwned
    OneSuccessorPerSlot
    DeadSessionNotAdmitted
PROPERTIES
    LifecycleSpec
    OldPasswordFades

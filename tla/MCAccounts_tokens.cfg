\* An administrator and two accounts to register, two concurrent requests, failures.
SPECIFICATION Spec
CONSTANTS
    Users = {u1, u2, u3}
    Seeded = {u1}
    Emails = {e1, e2}
    Tokens = {t1, t2}
    Requests = {r1, r2}
    None = None
SYMMETRY Symmetry
INVARIANTS
    TypeOK
    OneAccountPerEmail
    UsedTookEffect
    
    OneUsePerSlot
    LastingAdminUnblocked
CHECK_DEADLOCK FALSE

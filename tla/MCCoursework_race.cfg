\* A teacher and an administrator, two concurrent requests.
SPECIFICATION Spec
CONSTANTS
    Users = {u1, u2}
    Admins = {u2}
    Courses = {c1}
    Lessons = {l1, l2}
    Enrolments = {e1, e2}
    Requests = {r1, r2}
    MaxOrder = 1
    MaxList = 2
    None = None
SYMMETRY Symmetry
INVARIANTS
    TypeOK
    NoOrphans
    SameSlotApart
PROPERTIES
    OnlyEditorsEdit
    UnenrolEndsWhatItFound
    RosterSpec
CHECK_DEADLOCK FALSE

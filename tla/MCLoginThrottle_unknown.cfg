\* The code's limits, one attempt at a time under a name without account.
SPECIFICATION Spec
CONSTANTS
    Addresses = {i1}
    Names = {n1, x}
    Registered = {n1}
    Requests = {r1}
    UserLimit = 5
    IpLimit = 10
    Window = 1
    NoName = NoName
    NoAddress = NoAddress
SYMMETRY Symmetry
INVARIANTS
    OneNameLocksNoAddress

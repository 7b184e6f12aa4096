\* An address and attempts without one, an account and an unknown name; the
\* limit of the address is the larger, as in the code.  No symmetry: LocksEnd.
SPECIFICATION FairSpec
CONSTANTS
    Addresses = {i1}
    Names = {n1, x}
    Registered = {n1}
    Requests = {r1, r2}
    UserLimit = 2
    IpLimit = 3
    Window = 2
    NoName = NoName
    NoAddress = NoAddress
INVARIANTS
    TypeOK
    BurstBound
    AddressBound
PROPERTIES
    LockNotProlonged
    LocksEnd

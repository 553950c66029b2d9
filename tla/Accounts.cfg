SPECIFICATION FairSpec
CONSTANTS
    Workers = {w1, w2}
    b1 = b1
    b2 = b2
    u1 = u1
    u2 = u2
    Clients = {b1, b2}
    Users = {u1, u2}
    Stored <- MCStored
    None = None
    Empty = Empty
    Broken = Broken
    MaxRequests = 2
    MaxStarts = 1
INVARIANTS TypeOK EmptyWhileWritten AccountsKept LoggedOutStays OneOwner
PROPERTIES Answered
CHECK_DEADLOCK FALSE

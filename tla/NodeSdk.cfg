SPECIFICATION Spec
SYMMETRY AnyCaller
CONSTANTS
    Callers = {c1, c2}
    MaxBuffered = 1
    MaxPending = 2
    MaxSplit = 2
    MaxEvents = 2
    MaxQuiet = 0
    NoTicket = NoTicket
    NoCall = NoCall
INVARIANTS
    NoSilentLoss
    FlushIsHonest
    DeliveredInOrder
CHECK_DEADLOCK FALSE

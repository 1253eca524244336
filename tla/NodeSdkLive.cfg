SPECIFICATION FairSpec
CONSTANTS
    Callers = {c1}
    MaxBuffered = 1
    MaxPending = 2
    MaxSplit = 2
    MaxEvents = 2
    MaxQuiet = 0
    NoTicket = NoTicket
    NoCall = NoCall
PROPERTIES
    EveryCallResolves
    EventsLeave
CHECK_DEADLOCK FALSE

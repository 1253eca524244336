SPECIFICATION Spec
CONSTANTS
    MinuteMs = 1
    MinutesPerHour = 2
    HoursPerDay = 2
    Days = 1
    ClockSkewAllowance = 1
    MaxAcceptedPast = 2
    MaxClockSkew = 1
    CompactionInterval = 1
    MinuteRetention = 2
    HourRetention = 3
    DayRetention = 4
    MaxPendingBatches = 2
    MaxWriteBatchRows = 1
    Shapes = {b1, b2}
    b1 = b1
    b2 = b2
    NoBounds = NoBounds
    MaxNow = 9
    MaxFrames = 2
    MaxFailures = 1
    MaxStops = 1
INVARIANTS
    FinalRollupsAreExact
    PendingWorkIsScheduled
    CleanStopSavesAll
PROPERTIES
    ImplementsRollups

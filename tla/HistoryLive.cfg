SPECIFICATION FairSpec
CONSTANTS
    MinuteMs = 1
    MinutesPerHour = 2
    HoursPerDay = 2
    Days = 1
    ClockSkewAllowance = 1
    MaxAcceptedPast = 2
    MaxClockSkew = 1
    CompactionInterval = 1
    MinuteRetention = 2
    HourRetention = 3
    DayRetention = 4
    MaxPendingBatches = 2
    MaxWriteBatchRows = 1
    Shapes = {}
    NoBounds = NoBounds
    MaxNow = 8
    MaxFrames = 2
    MaxFailures = 1
    MaxStops = 1
PROPERTY
    EventuallyRolledUp

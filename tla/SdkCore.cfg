SPECIFICATION Spec
CONSTANTS
    s1 = s1
    s2 = s2
    s3 = s3
    e1 = e1
    e2 = e2
    k1 = k1
    k2 = k2
    m1 = m1
    m2 = m2
    control = control
    treated = treated
    x = x
    y = y
    Subjects = {s1, s2}
    Metrics = {m1, m2}
    ConfigKeys = {k1, k2}
    Configs <- MCConfigs
    Bucket <- MCBucket
    Buckets = 8
    Series <- MCSeries
    Invalid = Invalid
    Recordings <- MCRecordings
    Levels = {0, 1}
    Nil = Nil
    MaxSeries = 1
    MaxEvents = 2
    MaxLogs = 1
    MaxSubjects = 1
    MaxCalls = 6
INVARIANTS
    DropsAreReported
    CapturesAddUp
    GoalsAreProvable
    ExposedOncePerStay
CHECK_DEADLOCK FALSE

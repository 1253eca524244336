SPECIFICATION Spec
CONSTANTS
    u1 = u1
    u2 = u2
    u3 = u3
    e1 = e1
    Units = {u1, u2, u3}
    Oversized = {u3}
    Events = {e1}
    Nil = Nil
    MaxFaults = 1
    MaxRecorded = 2
INVARIANTS
    RetainedSurvives
    CountedTwiceOnlyInDoubt
    TakeTurns
    ShutdownSendsAll
CHECK_DEADLOCK FALSE
SYMMETRY Symmetry

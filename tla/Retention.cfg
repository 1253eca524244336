SPECIFICATION Spec
CONSTANTS
    Subjects <- MCSubjects
    Batches <- MCBatches
    u1 = u1
    u2 = u2
    u3 = u3
    Salts = {"salt", "other"}
    Channels = {1, 2}
    Goals = {1, 2}
    DayMs = 2
    Window = 2
    ReturnDays = {1, 2}
    MaxUsers = 2
    MaxChannels = 1
    MaxGoals = 1
    NoSalt = NoSalt
    NoUser = NoUser
    NoTouch = NoTouch
    NoConversion = NoConversion
    MaxEvents = 4
SYMMETRY SubjectSymmetry
INVARIANTS
    ReturnsAreExact
    FirstTouchStands
    ConversionsAreExact
CHECK_DEADLOCK FALSE

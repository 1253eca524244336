SPECIFICATION ViewsSpec
CONSTANTS
    a1 = a1
    a2 = a2
    b1 = b1
    ra = ra
    rb = rb
    d1 = d1
    d2 = d2
    d3 = d3
    none = none
    ex = ex
    lost = lost
    open = open
    tap = tap
    Instances = {a1, a2, b1}
    ClientRoles = {ra, rb}
    RoleOf <- MCRoleOf
    Rows <- MCRows
    Bodies <- MCBodies
    Registers = {1, 2}
    PersistNames = {lost}
    InspectNames = {open}
    Nil = none
    Minute = 2
    Retention = 2
    InstanceTtl = 1
    MaxSeries = 2
    MaxClients = 2
    MaxEvents = 2
    MaxLogs = 2
    Errors <- MCErrors
    MaxNow = 3
    MaxSpan = 1
    MaxFrames = 3
    MaxSyncs = 3
    MaxChanges = 2
    MaxRestarts = 1
INVARIANTS
    WindowsAreExact
    RollupsAreExact
    RingsHoldTheNewest
PROPERTIES
    SettledWindowsStand
CHECK_DEADLOCK FALSE

SPECIFICATION AllSpec
CONSTANTS
    Parts = {"archive"}
    q1 = q1 q2 = q2 a1 = a1 a2 = a2 first = first second = second k1 = k1
    HookRequest = {q1, q2}
    Archiver = {a1, a2}
    Of <- OwnSession
    MaxAttempts = 2
    MaxSlices = 1
    Source = {s1}
    Revision = {k1}
    Chunk = {h1, h2}
    Worker = {agent, dream, dream2}
    Reader = {agent, dream}
    Interactive = {agent}
    RecoveryBudget = 3
    Budget = 2
    NoOne = NoOne
    Invoker = {b1, b2}
    Archive = {x1, x2}
    Foreign = {x2}
    Version = {k1, k2, k0}
    Silent = {k0}
    Session = {1, 2, 3}
    Setups <- ScanSetups
    Scanner = {"p1", "p2"}
    MaxIncidents = 1
PROPERTY RecordsRemain
CHECK_DEADLOCK FALSE

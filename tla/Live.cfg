SPECIFICATION AllSpec
CONSTANTS
    N = 2
    Worker = {v, w}
    SessionOf <- MCSessionOf
    MaxFaults = 0
    r1 = r1 r2 = r2 r3 = r3 g1 = g1
    Run = {r1, r2, r3}
    Guarded = {g1}
    NoSession = none
    LaunchedBy <- LaunchedByHost
    Cleaner = {c1}
    MaxTurns = 2
    MaxMishaps = 2
    Source = {s1}
    Revision = {k1}
    Chunk = {h1, h2}
    Reader = {agent, dream, dream2}
    Interactive = {agent}
    RecoveryBudget = 3
    NoOne = NoOne
PROPERTIES NothingProcessesForever EveryRequestRetired DeadOwnerIsCleared ClaimsAreSettled
CHECK_DEADLOCK FALSE

SPECIFICATION AllSpec
CONSTANTS
    r1 = r1 r2 = r2 r3 = r3 g1 = g1
    Run = {r1, r2, r3}
    Guarded = {g1}
    NoSession = none
    LaunchedBy <- LaunchedByHost
    e1 = e1 e2 = e2 e3 = e3 d1 = d1 d2 = d2
    Entry = {e1, e2, e3}
    First = {e1, e2}
    Change = {d1, d2}
    Retires <- RetiresFirst
    Adds <- AddsThird
    Caller = {p, q}
    MaxVersion = 3
    Cleaner = {c1, c2}
    MaxTurns = 2
    MaxMishaps = 1
    n1 = n1 n2 = n2
    MaxRev = 2
    Record = {n1, n2}
    JobsOf <- FirstJob
    Observers = {}
    RefsOf <- SecondNamesFirst
    OrderOf <- FirstGoesFirst
    Capturer = {x1, x2}
    MaxErase = 1
    MaxErrors = 1
    HostSession = {s1}
    MaxDraft = 2
    Bundle = {b1, b2}
    Runner = {w}
    N = 3
    Worker = {v1, v2}
    SessionOf <- SecondIsOther
    MaxFaults = 1
INVARIANTS ExclusiveUnlessMisfired NoFactLost PruneIsLast ErasureHolds FrozenIsManual NoLostWakeup
PROPERTIES NoStartDuringMaintenance NothingStaleApplies NewBytesSurviveAlone NothingDropped
CHECK_DEADLOCK FALSE

SPECIFICATION AllSpec
CONSTANTS
    Source = {s1}
    Revision = {r1, r2}
    Chunk = {c1}
    Worker = {agent, dream}
    Interactive = {agent}
    RecoveryBudget = 2
    NoOne = NoOne
    s1 = s1
    r1 = r1
    r2 = r2
    c1 = c1
    agent = agent
    dream = dream
    Record = {m1}
    Server = {v1, v2}
    Run = {1, 2}
    MaxWrites = 4
    Hosts = {"codex", "codex-archive", "claude-code", "grok", "cursor", "cursor-db",
             "hermes", "hermes-db", "opencode", "antigravity", "antigravity-history"}
    Script <- ShortSession
    Starts = {3}
    Evidence = {"mine", "slug", "mention", "other"}
    MaxEvents = 2
SYMMETRY Symmetry
INVARIANT ExhaustedIsFailed
INVARIANT AuthorityIsWhole
INVARIANT CaptureIsWhole
PROPERTY NoLiveSteal
PROPERTY BackoffHolds
PROPERTY LifecycleSpec
CHECK_DEADLOCK FALSE

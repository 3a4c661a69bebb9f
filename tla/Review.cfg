SPECIFICATION Spec
CONSTANTS
    Worker = {w1, w2}
    Agent = {a1}
    Candidate = {c1}
    Nobody = nobody
    Departed = departed
    Point = {p1, p2}
    Truth = {t1, t2}
    BatchSize = 2
    MaxExtra = 1
    k1 = k1 k2 = k2 same = same less = less
    Tick = {k1, k2}
    ByHook = {k2}
    Fact = {1, 2, 3}
    Text = {same, less}
    Trimmed = less
    FirstText <- TwoAlike
    Checked = {1}
    Answer = {"durable", "temporary", "contradicted", "mixed", "unclear"}
    Unused = unused Gone = gone
    BatchLimit = 1
    MaxPasses = 1
    MaxEvents = 1
SYMMETRY Symmetric
INVARIANTS CompletionIsBacked PlansApply CompletedIsDone
PROPERTIES WritesAreOwned ChangesAreVerified
CHECK_DEADLOCK FALSE

SPECIFICATION Spec
CONSTANTS
    Obs = {o1, o2}
    MaxText = 2
    Builder = {b}
    Saver = {w, opener}
    Opener = opener
    MaxWork = 4
    MaxCrashes = 1
    Setter = {s1, s2}
    Loader = {r1}
    MaxWrites = 3
    Installer = {i1, i2}
    OldRunner = old
    NewRunner = new
    Mine = mine
    Other = other
    CallsScript = calls
    Garbled = garbled
    MaxChanges = 3
    Delivery = {d1, d2}
    Version = {v1}
    Missing = missing
    MaxMishaps = 2
SYMMETRY Symmetry
INVARIANTS
    SettledIsIndexed
    ReadsAreCurrent
    SettingsHold
    HostsHold
PROPERTY RepairsHeal
CHECK_DEADLOCK FALSE

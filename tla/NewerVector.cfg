SPECIFICATION StoreSpec
CONSTANTS
    Obs = {o1, o2}
    MaxText = 2
    Builder = {b}
    Saver = {w, opener}
    Opener = opener
    MaxWork = 3
    MaxCrashes = 0
SYMMETRY Symmetry
PROPERTY NewerVectorStays
CHECK_DEADLOCK FALSE

SPECIFICATION MCSpec
CONSTANTS
    Apps = {a1, a2}
    Handlers = {h1, h2}
    MaxCommits = 3
    Faults = TRUE
    None = None
SYMMETRY Symmetry
CHECK_DEADLOCK FALSE
INVARIANTS TypeOK PinnedUnlessMixed 
PROPERTY ImplementsPins

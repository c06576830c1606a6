SPECIFICATION Spec
CONSTANTS
    Apps = {a1}
    Handlers = {h1, h2}
    MaxCommits = 3
    Faults = FALSE
    None = None
CHECK_DEADLOCK FALSE
INVARIANT PinnedIsAsked

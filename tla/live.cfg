SPECIFICATION FairSpec
CONSTANTS
    Apps = {a1}
    Srcs = {s1}
    Handlers = {h1, h2}
    MaxJobs = 2
    MaxCommits = 1
    Dispatchers = {TRUE}
    Faults = FALSE
    None = None
INVARIANTS TypeOK ActiveIsOwned BuiltIsRebuildable
PROPERTIES EveryBuildSettles ImplementsLifecycle

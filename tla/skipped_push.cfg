SPECIFICATION FairSpec
CONSTANTS
    Apps = {a1}
    Srcs = {s1}
    Handlers = {h1}
    MaxJobs = 2
    MaxCommits = 2
    Dispatchers = {TRUE}
    Faults = FALSE
    None = None
PROPERTY EveryPushIsBuilt

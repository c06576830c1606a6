SPECIFICATION Spec
CONSTANTS
    Apps = {a1}
    Srcs = {s1}
    Handlers = {h1, h2}
    MaxJobs = 2
    MaxCommits = 1
    Dispatchers = {TRUE, FALSE}
    Faults = TRUE
    None = None
SYMMETRY Symmetry
CONSTRAINT OneReportAtATime
INVARIANTS OneActiveUnlessOverlapped OnlyBuiltIsDeployed ClaimedOnce

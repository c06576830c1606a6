SPECIFICATION FairSpec
CONSTANTS
    Sources = {s1, s2}
    Refreshers = {r1, r2}
    TTL = 2
    StaleAfter = 3
    CallTimeout = 4
    Cap = 8
    None = None
INVARIANTS TypeOK UnflaggedIsRecent NotReadyIsExplained
PROPERTIES PolledOncePerTTL SnapshotNeverGoesBack Recovers

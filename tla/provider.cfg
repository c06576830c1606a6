SPECIFICATION FairSpec
CONSTANTS
    N = 1
    Capabilities = {c1, c2}
    Fallback = {c1}
    TTL = 1
    CallTimeout = 1
    Cap = 4
INVARIANTS TypeOK DecidesOnRecentWord FallbackKept
PROPERTIES WiredIsNoticed

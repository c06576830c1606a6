SPECIFICATION FairSpec
CONSTANTS
    N = 1
    Capabilities = {c1}
    Fallback = {}
    TTL = 1
    CallTimeout = 1
    Cap = 4
PROPERTIES GainIsNoticed

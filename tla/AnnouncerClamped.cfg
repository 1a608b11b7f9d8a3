\* A TTL the registry clamps below the heartbeat interval; no call fails.
CONSTANTS
    Proposed = 6
    MinTtl = 1
    MaxTtl = 1
    CallTimeout = 1
    Latency = 0
    MaxFailures = 0
    Rivals = FALSE
    MaxLag = 0
    None = None
SPECIFICATION Spec
CHECK_DEADLOCK FALSE
INVARIANT HeldMeansLive

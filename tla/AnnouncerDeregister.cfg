\* Deregistering while the heartbeat runs.
CONSTANTS
    Proposed = 6
    MinTtl = 1
    MaxTtl = 60
    CallTimeout = 1
    Latency = 0
    MaxFailures = 0
    Rivals = FALSE
    MaxLag = 0
    None = None
SPECIFICATION Spec
CHECK_DEADLOCK FALSE
INVARIANT RemovedMeansGone

\* A TTL of three intervals, calls that fail or take as long as the timeout, two in a
\* row, requests served late, rivals, and ticks that fall behind.
CONSTANTS
    Proposed = 9
    MinTtl = 1
    MaxTtl = 60
    CallTimeout = 1
    Latency = 1
    MaxFailures = 2
    Rivals = TRUE
    MaxLag = 2
    None = None
SPECIFICATION FairSpec
CHECK_DEADLOCK FALSE
PROPERTIES
    ExpiresOnlyAfterFailures
    AlwaysBack
    GoneExpires

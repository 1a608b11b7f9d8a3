\* Two register calls at once.
CONSTANTS
    p1 = p1  p2 = p2  i1 = i1  d1 = d1  d2 = d2  c1 = c1  c2 = c2  None = None
    Ids = {p1, p2}
    Ifaces = {i1}
    Digests = {d1, d2}
    Claims <- MCClaims
    Submissions <- ConsistentSubmissions
    Questions <- MCQuestions
    Calls = {c1, c2}
    MinTtl = 1
    MaxTtl = 2
    MaxAge = 2
    Unreadable = {}
    MaxTime = 1
SPECIFICATION Spec
CHECK_DEADLOCK FALSE
INVARIANT NoConflictingClaims

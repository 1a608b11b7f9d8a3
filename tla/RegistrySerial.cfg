\* One handler at a time: registryd against the promise of registry.md.
CONSTANTS
    p1 = p1  p2 = p2  i1 = i1  d1 = d1  d2 = d2  c1 = c1  c2 = c2  None = None
    Ids = {p1, p2}
    Ifaces = {i1}
    Digests = {d1, d2}
    Claims <- MCClaims
    Submissions <- AllSubmissions
    Questions <- MCQuestions
    Calls = {c1}
    MinTtl = 1
    MaxTtl = 2
    MaxAge = 2
    Unreadable = {}
    MaxTime = 4
SPECIFICATION Spec
CHECK_DEADLOCK FALSE
PROPERTY KeepsPromise

\* Two handlers at once, of one or two registryd.
CONSTANTS
    p1 = p1  p2 = p2  i1 = i1  d1 = d1  d2 = d2  c1 = c1  c2 = c2  None = None
    Ids = {p1, p2}
    Ifaces = {i1}
    Digests = {d1, d2}
    Claims <- MCClaims
    Submissions <- MCSubmissions
    Questions <- MCQuestions
    Calls = {c1, c2}
    MinTtl = 1
    MaxTtl = 2
    MaxAge = 2
    Unreadable = {p1}
    MaxTime = 2
SPECIFICATION Spec
CHECK_DEADLOCK FALSE
INVARIANTS
    ReadingIsFaithful
    ConflictNeedsRace
    HeartbeatExtendsUnlessRaced
PROPERTY OnlyTheDeadAreCollected
SYMMETRY HandlerSymmetry

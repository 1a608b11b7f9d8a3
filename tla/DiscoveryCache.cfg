\* Two resolves of one question, two providers, one unreadable, two writes and
\* one error of the watch.
CONSTANTS
    a = a  b = b  v = v  w = w  q1 = q1  q2 = q2  r1 = r1  r2 = r2  Absent = Absent
    Ids = {a, b}
    Contents = {v}
    Questions = {q2}
    Selects <- MCOneQuestion
    Resolvers = {r1, r2}
    Unreadable = {b}
    MaxWrites = 2
    MaxErrors = 1
SPECIFICATION CacheFairSpec
CHECK_DEADLOCK FALSE
INVARIANTS
    TypeOK
    StaleOnlyWhileUndelivered
    StoppedCachesNothing
PROPERTY EventuallyCurrent

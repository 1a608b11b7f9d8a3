\* An application of four imports, providers that import each other or handle
\* what cannot cross a store, and answers of up to two providers; one plan for a
\* host that runs any two components, and two, one of them maybe outdated by the
\* other, for a host that runs nothing yet.
CONSTANTS
    x = x  x1 = x1  y = y  z = z  h = h  g = g  s = s  t = t  None = None
    app = app  left = left  newer = newer  right = right  both = both  keeper = keeper  last = last
    Ids = {x, x1, y, z, h, g}
    Components = {app, left, newer, right, both, keeper, last}
    Imports <- MCImports
    Exports <- MCExports
    Functional <- MCFunctional
    Shapes = {s, t}
    Providers <- MCProviders
    Resolutions <- MCResolutions
    Satisfies <- MCSatisfies
    MaxLive = 2
    MaxAnswer = 2
    HasProxy = TRUE
    MaxLoaded = 9
    MaxStores = 9
    Roots = {last, left}
    MaxPlans = 2
    MaxTraps = 1
SPECIFICATION HostPlansSpec
CHECK_DEADLOCK FALSE
INVARIANTS
    TypeOK
    DependenciesFirst
    WireOnlyWhatFits
    NestingBounded
    OneProviderOrLayered
    PlansStayValid

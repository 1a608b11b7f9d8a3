---------------------------- MODULE MCHostPlans ----------------------------
(* A small world for HostPlans.                                            *)
EXTENDS HostPlans, TLC

CONSTANTS x, x1, y, z, h, g, app, left, newer, right, both, keeper, last, s, t

Needed(id, shape) == [id |-> id, shape |-> shape]

\* left and right need each other; both offers what either does, and handles
\* (h), as keeper does of another kind (g), whose signatures cannot cross a
\* process boundary.
MCImports ==
       (app :> <<Needed(x, s), Needed(y, s), Needed(h, None), Needed(z, s)>>)
    @@ (left :> <<Needed(y, s)>>)
    @@ (right :> <<Needed(x, s)>>)
    @@ (newer :> <<>>)
    @@ (both :> <<>>)
    @@ (keeper :> <<>>)
    @@ (last :> <<Needed(x, s), Needed(h, None), Needed(g, None)>>)

MCExports ==
    app :> {} @@ left :> {x} @@ newer :> {x1} @@ right :> {y} @@ both :> {x, y, h} @@ keeper :> {g} @@ last :> {z}

\* z has types and no functions.
MCFunctional == [c \in Components |-> MCExports[c] \ {z}]

Artifact(p, id, digest, c) ==
    [provider |-> p, kind |-> "component", id |-> id, digest |-> digest, endpoint |-> c]
Service(p, id, digest) ==
    [provider |-> p, kind |-> "service", id |-> id, digest |-> digest, endpoint |-> None]

\* Providers that keep their word, one of a later version of x, which does not
\* export x itself, one with another shape, one whose kind its endpoint
\* contradicts, and services.
MCResolutions ==
    {Artifact("left", x, s, left), Artifact("right", y, s, right),
     Artifact("both", y, s, both), Artifact("both", h, t, both),
     Artifact("keeper", g, t, keeper), Artifact("last", z, s, last), Artifact("newer", x1, s, newer),
     Artifact("left", h, s, None), Service("daemon", x, s), Service("other", x, t), Service("daemon", h, s)}

MCProviders == {"left", "newer", "right", "both", "keeper", "last", "daemon", "other"}

MCSatisfies == {<<i, i>> : i \in Ids} \cup {<<x1, x>>}
=============================================================================

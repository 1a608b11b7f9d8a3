-------------------------- MODULE MCRegistryStore --------------------------
(* Instances of RegistryStore small enough to enumerate.                   *)
EXTENDS RegistryStore, TLC

CONSTANTS p1, p2, i1, d1, d2, c1, c2

Offer(id, claims, ttl) == [id |-> id, claims |-> claims, ttl |-> ttl]
One(d) == <<[iface |-> i1, digest |-> d]>>
Nothing == << >>
MCClaims == {One(d1), One(d2), One(d2) \o One(d1), Nothing}

\* One interface, its two shapes, and a submission that validate refuses.
ConsistentSubmissions ==
    {Offer(p1, One(d1), 1), Offer(p1, One(d2), 3), Offer(p2, One(d1), 0),
     Offer(p2, Nothing, 1)}

\* A provider that gives the interface both of its shapes.
Contradictory == Offer(p2, One(d2) \o One(d1), 0)

AllSubmissions == ConsistentSubmissions \cup {Contradictory}
MCSubmissions == AllSubmissions \ {Offer(p2, One(d1), 0)}

MCQuestions == {{}, {i1}}

\* Handlers are interchangeable, and no property counts them.
HandlerSymmetry == Permutations(Calls)
=============================================================================

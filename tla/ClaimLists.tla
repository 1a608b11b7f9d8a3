----------------------------- MODULE ClaimLists -----------------------------
(***************************************************************************)
(* What a provider claims: a list of interfaces, each with the digest of   *)
(* its shape.  The list may name an interface twice, with two digests:     *)
(* validate refuses neither (crates/registry/src/store.rs:277), and the    *)
(* last of them is the one that others are compared with.                  *)
(***************************************************************************)
EXTENDS Integers, Sequences

IfacesIn(list) == {list[n].iface : n \in DOMAIN list}

IsLastOn(list, i, n) ==
    /\ n \in DOMAIN list
    /\ list[n].iface = i
    /\ \A m \in DOMAIN list : m > n => list[m].iface # i

\* HashMap::insert keeps the digest that is given last.
LastWord(list, i) == list[CHOOSE n \in DOMAIN list : IsLastOn(list, i, n)].digest

\* All that x says of i is the last word of y.
Repeats(x, y, i) == \A n \in DOMAIN x : x[n].iface = i => x[n].digest = LastWord(y, i)

\* Of an interface that two lists claim, one says what the other says last.
Agree(x, y) == \A i \in IfacesIn(x) \cap IfacesIn(y) : Repeats(x, y, i) \/ Repeats(y, x, i)

\* Some claim of x gives an interface another digest than some claim of y.
Disagree(x, y) ==
    \E n \in DOMAIN x, m \in DOMAIN y : x[n].iface = y[m].iface /\ x[n].digest # y[m].digest

\* A list that gives no interface two digests.
Consistent(x) == ~ Disagree(x, x)
=============================================================================

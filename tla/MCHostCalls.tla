---------------------------- MODULE MCHostCalls ----------------------------
(* Small hosts for HostCalls.                                              *)
EXTENDS HostCalls, TLC

CONSTANTS c1, c2

\* Imports that cross a wire, and that need a store to be shared.
Wire(source, i) == [shape |-> "wire", source |-> source, index |-> i]
Handle(source, i) == [shape |-> "in-process", source |-> source, index |-> i]
Service == [shape |-> "wire", source |-> "nats"]
Nobody == [shape |-> "wire", source |-> "trap"]

\* Plans for an empty host: alone, in a chain, in a diamond, with two that must
\* share a store with a third, and with a store that calls itself through
\* another.
Fresh == {
    <<<<Service>>>>,
    <<<<Nobody>>>>,
    <<<<Service>>, <<Wire("planned", 1)>>>>,
    <<<<>>, <<Handle("planned", 1)>>>>,
    <<<<Service>>, <<Wire("planned", 1)>>, <<Wire("planned", 2)>>>>,
    <<<<>>, <<Wire("planned", 1)>>, <<Wire("planned", 1), Wire("planned", 2)>>>>,
    <<<<>>, <<Handle("planned", 1)>>, <<Handle("planned", 1), Wire("planned", 2)>>>>,
    <<<<>>, <<Wire("planned", 1)>>, <<Handle("planned", 1), Wire("planned", 2)>>>>}

\* Plans for a host that runs something already: among them one that must share
\* with two components, and one that makes a cycle of stores.
Later == {
    <<<<Wire("live", 1)>>>>,
    <<<<Handle("live", 1)>>>>,
    <<<<Handle("live", 1), Handle("live", 2)>>>>,
    <<<<Wire("live", 1)>>, <<Wire("planned", 1), Handle("live", 1)>>>>}

MCPlans == Fresh \cup Later

CallerSymmetry == Permutations(Callers)
=============================================================================

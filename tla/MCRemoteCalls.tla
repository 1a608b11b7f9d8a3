---------------------------- MODULE MCRemoteCalls ----------------------------
(* Two replicas whose components import what they serve.  One answers one   *)
(* request at a time, so that the next waits for a permit; the other two,   *)
(* so that the next waits for the store.                                    *)
EXTENDS RemoteCalls

CONSTANTS a1, a2, i1

MCServes == [a \in Adapters |-> i1]
MCConcurrency == [a \in Adapters |-> IF a = a1 THEN 1 ELSE 2]
=============================================================================

-------------------------- MODULE MCDiscoveryCache --------------------------
(* Instances of DiscoveryCache.                                            *)
EXTENDS DiscoveryCache, TLC

CONSTANTS a, b, v, w, q1, q2, r1, r2

\* One question, that only v answers.
MCOneQuestion == q2 :> {v}
=============================================================================

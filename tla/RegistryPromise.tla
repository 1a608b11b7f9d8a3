-------------------------- MODULE RegistryPromise --------------------------
(***************************************************************************)
(* What docs/spec/registry.md promises of a registry, without its bucket,  *)
(* its key-by-key reads or its garbage collector: a map from ids to live   *)
(* registrations that agree on the shape of an interface: whatever one     *)
(* says of it is what the other says last.                                 *)
(*                                                                         *)
(* A registration enters whole and without a conflict, and leaves in three *)
(* ways only: replaced by one of the same id, withdrawn because someone    *)
(* asked for it, or expired on its own deadline.                           *)
(***************************************************************************)
EXTENDS ClaimLists

CONSTANTS Ids, Claims, MaxTtl, MaxTime, None

VARIABLES
    time,
    live,       \* the live registration of each id, or None
    asked       \* ids a caller is asking to withdraw

promiseVars == <<time, live, asked>>

\* A registration, or the renewal of one.  One that took longer to arrive
\* than it was to last leaves nothing behind.
Announce(id) ==
    \E e \in [claims : Claims, expires : 0..(time + MaxTtl)] :
        /\ \A other \in Ids \ {id} :
              live[other] # None => Agree(e.claims, live[other].claims)
        /\ live' = [live EXCEPT ![id] = IF e.expires > time THEN e ELSE None]
        /\ UNCHANGED <<time, asked>>

Ask(id) ==
    /\ asked' = asked \cup {id}
    /\ UNCHANGED <<time, live>>

\* The withdrawal takes effect, or fails.
Withdraw(id) ==
    /\ id \in asked
    /\ asked' = asked \ {id}
    /\ live' \in {live, [live EXCEPT ![id] = None]}
    /\ UNCHANGED time

\* Time passes, and with it every registration whose deadline it reaches.
Pass ==
    /\ time < MaxTime
    /\ time' = time + 1
    /\ live' = [id \in Ids |->
          IF live[id] # None /\ live[id].expires <= time' THEN None ELSE live[id]]
    /\ UNCHANGED asked

PromiseInit ==
    /\ time = 0
    /\ live = [id \in Ids |-> None]
    /\ asked = {}

PromiseNext ==
    \/ \E id \in Ids : Announce(id) \/ Ask(id) \/ Withdraw(id)
    \/ Pass

PromiseSpec == PromiseInit /\ [][PromiseNext]_promiseVars
=============================================================================

------------------------------ MODULE HostPlans ------------------------------
(***************************************************************************)
(* A host from plan to running components: what it runs is offered to the  *)
(* resolver (Host::live), and the plan that comes of it is instantiated    *)
(* (crates/host/src/link.rs), maybe after other plans were.  Resolver has  *)
(* how a plan is made, Linker what becomes of stores.                      *)
(*                                                                         *)
(* live() gives a copy away, so that a host may load one plan while the    *)
(* next is made; it takes the host as &, so that it is not called while    *)
(* instantiate has it as &mut.  A plan is of one resolver, and a resolver  *)
(* makes one at a time.  While it does it does not look at the host, nor   *)
(* the host at it, and the host's steps wait until it is done.             *)
(***************************************************************************)
EXTENDS Resolver, SequencesExt

CONSTANTS
    HasProxy, MaxLoaded, MaxStores,  \* as in Linker
    Functional,  \* the exported interfaces of which a component has functions
    Roots,       \* components that plans are made for
    MaxPlans,    \* bound on the plans that are begun
    MaxTraps     \* bound on the components that are called and trap

ASSUME HostPlansAssumption ==
    /\ \A c \in Components : Functional[c] \subseteq Exports[c]
    /\ Roots \subseteq Components /\ MaxPlans \in Nat /\ MaxTraps \in Nat

VARIABLES
    stores, loaded, plan, assigned, base, poisoned, bonds, blamed,  \* as in Linker
    running,  \* the component of each loaded one
    ready,    \* a plan that waits for the host
    loading,  \* the plan that instantiate is at
    begun     \* how many were begun

L == INSTANCE Linker WITH Plans <- {}

storeVars == <<stores, loaded, plan, assigned, base, poisoned, bonds, blamed>>
hostVars == <<storeVars, running, ready, loading>>
hostPlansVars == <<vars, hostVars, begun>>

-----------------------------------------------------------------------------
\* Mutant: what cannot be entered any more is left out.
LiveHealthy ==
    LET healthy == SelectSeq([i \in DOMAIN running |-> i], LAMBDA i : loaded[i].group \notin poisoned)
    IN  [k \in DOMAIN healthy |-> running[healthy[k]]]

\* Host::live: everything that was loaded, in the order of Host::loaded.
Live == running

\* Resolver::plan, up to the first import.  What was left of the last plan, if
\* it failed, is dropped.
Begin(root) ==
    /\ L!Idle /\ begun < MaxPlans
    /\ outcome # "planning" /\ (outcome = "planned" => nodes = <<>>)
    /\ begun' = begun + 1
    /\ live' = Live
    /\ provided' =
          [id \in UNION {Exports[c] : c \in ToSet(Live)} |->
              [at |-> "live",
               index |-> CHOOSE i \in DOMAIN Live : IsFirst(i, {j \in DOMAIN Live : id \in Exports[Live[j]]})]]
    /\ stack' = <<Frame(root)>> /\ nodes' = <<>> /\ outcome' = "planning"
    /\ UNCHANGED <<missing, hostVars>>

\* The plan is returned.
Finish ==
    /\ outcome = "planned" /\ nodes # <<>> /\ ready = <<>>
    /\ ready' = nodes /\ nodes' = <<>>
    /\ UNCHANGED <<live, missing, stack, provided, outcome, begun, loading, running, storeVars>>

-----------------------------------------------------------------------------
(* instantiate.                                                            *)

\* A binding, as Linker has it.
AsLinked(b) ==
    IF b.source.kind = "in-process"
    THEN [shape |-> IF b.shape = InProcess THEN "in-process" ELSE "wire",
          source |-> b.source.key.at, index |-> b.source.key.index]
    ELSE [shape |-> IF b.shape = InProcess THEN "in-process" ELSE "wire", source |-> b.source.kind]

NodesOf(made) ==
    [i \in DOMAIN made |-> [k \in DOMAIN made[i].imports |-> AsLinked(made[i].imports[k])]]

Instantiate ==
    /\ ready # <<>> /\ ready' = <<>>
    /\ \/ L!Refuse(NodesOf(ready)) /\ UNCHANGED loading
       \/ L!Assign(NodesOf(ready)) /\ loading' = ready
    /\ UNCHANGED <<vars, running, begun>>

NextNode == loading[Len(loaded) - base + 1]

\* resolve_key.
TargetOf(key) == IF key.at = "live" THEN key.index ELSE base + key.index

\* The component an import is bound to exports the interface.
IsExported(binding) ==
    binding.source.kind = "in-process" =>
        binding.id \in Exports[running[TargetOf(binding.source.key)]]

\* wire finds functions to forward to.  Of an interface of types alone
\* (wit/math/world.wit has two) there are none: scan reports it like any other,
\* the resolver binds it, and wire fails with NotExported.
CanWire(binding) ==
    binding.source.kind = "in-process" =>
        binding.id \in Functional[running[TargetOf(binding.source.key)]]

CanWireNext == \A k \in DOMAIN NextNode.imports : CanWire(NextNode.imports[k])

EndLoading == loading' = IF plan' = <<>> THEN <<>> ELSE loading

LoadNext ==
    /\ L!Load
    /\ CanWireNext
    /\ running' = Append(running, NextNode.component)
    /\ EndLoading
    /\ UNCHANGED <<vars, ready, begun>>

\* A component that cannot be wired is not started.
LoadNextFails ==
    /\ L!LoadFails
    /\ CanWireNext \/ UNCHANGED <<poisoned, blamed>>
    /\ EndLoading
    /\ UNCHANGED <<vars, running, ready, begun>>

\* A call of the host enters a component, which traps.
Trap(i) ==
    /\ L!Idle /\ loaded[i].group \notin poisoned /\ Cardinality(blamed) < MaxTraps
    /\ poisoned' = poisoned \cup {loaded[i].group}
    /\ blamed' = blamed \cup {i}
    /\ UNCHANGED <<vars, stores, loaded, plan, assigned, base, bonds, running, ready, loading, begun>>

-----------------------------------------------------------------------------
Waiting == plan = <<>> /\ assigned = <<>> /\ base = 0 /\ poisoned = {} /\ blamed = {}
               /\ ready = <<>> /\ loading = <<>>

\* A host that runs nothing yet.
EmptyHost ==
    /\ live = <<>> /\ missing \in {"fail", "trap"} /\ stack = <<>> /\ nodes = <<>>
    /\ provided = <<>> /\ outcome = "planned"
    /\ stores = 0 /\ loaded = <<>> /\ running = <<>> /\ bonds = {}
    /\ begun = 0

\* A host that runs any components, each in a store of its own, and for which
\* a last plan is being made.
SomeHost ==
    /\ Init
    /\ stores = Len(live) /\ running = live
    /\ loaded = [i \in DOMAIN live |-> [group |-> i, links |-> {}]]
    /\ bonds = {<<i, i>> : i \in DOMAIN live}
    /\ begun = MaxPlans

HostInit == Waiting /\ (EmptyHost \/ SomeHost)

HostNext ==
    \/ \E root \in Roots : Begin(root)
    \/ Next /\ UNCHANGED <<hostVars, begun>>
    \/ Finish
    \/ /\ outcome # "planning"
       /\ Instantiate \/ LoadNext \/ LoadNextFails \/ \E i \in DOMAIN loaded : Trap(i)

HostPlansSpec == HostInit /\ [][HostNext]_hostPlansVars

-----------------------------------------------------------------------------
(* Properties.                                                             *)

\* "This host already has running, in the order ComponentKey::Live indexes"
\* (link.rs:65), and "each component's imports are already running by the time
\* it is reached" (link.rs:81): whatever was loaded, failed or trapped since
\* live() was taken, each import that a plan binds in process is, in the host
\* as it is, a component that exports it and runs before its importer, and a
\* call over NATS has a shape.  instantiate never fails with NotEncodable or an
\* index out of range, and with NotExported, "not exported by the component
\* meant to provide it" (link.rs:278), only for an interface that is exported
\* and has no function.
PlansStayValid ==
    /\ DOMAIN running = DOMAIN loaded /\ DOMAIN loading = DOMAIN plan
    /\ \A made \in {ready, loading} : \A i \in DOMAIN made : \A k \in DOMAIN made[i].imports :
          LET b == made[i].imports[k]
          IN  /\ Provides(b.source, b.id, running, made, i - 1)
              /\ b.source.kind = "nats" => b.shape # InProcess
    /\ ~L!Idle =>
          /\ \A i \in 1..(Len(loaded) - base) : running[base + i] = loading[i].component
          /\ \A k \in DOMAIN NextNode.imports : IsExported(NextNode.imports[k])
=============================================================================

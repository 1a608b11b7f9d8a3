------------------------------- MODULE Linker -------------------------------
(***************************************************************************)
(* How a host turns a plan into running components                         *)
(* (crates/host/src/link.rs): which of them share a store, and what each   *)
(* import is linked to.                                                    *)
(*                                                                         *)
(* Components are numbered as Host::loaded numbers them, stores as         *)
(* Host::groups does.  instantiate has the host to itself: Rust lends it   *)
(* as &mut while calls borrow it as &.  A step assigns the groups of a     *)
(* plan, or loads its next node.                                           *)
(***************************************************************************)
EXTENDS Integers, Sequences, FiniteSets, SequencesExt

CONSTANTS
    Plans,      \* what the resolver may hand over
    HasProxy,   \* whether with_remote gave the host one
    MaxLoaded,  \* bound on the components a host runs
    MaxStores   \* bound on the stores it makes

\* How the interface of a binding may travel.
Shape == {"wire", "in-process"}

\* An import bound to a component that is live, to one of the plan, to a
\* service, or to nothing.
Binding == [shape : Shape, source : {"live", "planned"}, index : Nat \ {0}]
              \cup [shape : {"wire"}, source : {"nats"}]
              \cup [shape : Shape, source : {"trap"}]

\* A plan lists the imports of each node, and dependencies first; its last node
\* is the root.
ASSUME LinkerAssumption ==
    /\ Plans \subseteq Seq(Seq(Binding)) \ {<<>>}
    /\ \A nodes \in Plans : \A i \in DOMAIN nodes : \A k \in DOMAIN nodes[i] :
          nodes[i][k].source = "planned" => nodes[i][k].index < i
    /\ HasProxy \in BOOLEAN
    /\ MaxLoaded \in Nat /\ MaxStores \in Nat

VARIABLES
    stores,    \* how many stores it has made
    loaded,    \* its components: the store of each, and its links
    plan,      \* the nodes instantiate has yet to load
    assigned,  \* the store of each of them
    base,      \* how many components there were before the plan
    poisoned,  \* stores no instance can be entered in any more
    bonds,     \* history: pairs of components a plan says must share a store
    blamed     \* history: components that trapped of their own accord

linkerVars == <<stores, loaded, plan, assigned, base, poisoned, bonds, blamed>>

-----------------------------------------------------------------------------
(* assign_groups.                                                          *)

Shares(binding, source) == binding.shape = "in-process" /\ binding.source = source

\* Each node that must share a store with a component of that source, and
\* which.
Shared(nodes, source) ==
    UNION {{<<i, nodes[i][k].index>> : k \in {l \in DOMAIN nodes[i] : Shares(nodes[i][l], source)}} :
              i \in DOMAIN nodes}

\* A round of find: halve the path, and go on from its middle.
Halve(s) ==
    LET halved == [s.parent EXCEPT ![s.at] = s.parent[s.parent[s.at]]]
    IN  IF s.parent[s.at] = s.at THEN s ELSE [parent |-> halved, at |-> halved[s.at]]

\* The root of a set: find stops at it, after no more rounds than there are
\* nodes, and another round would change nothing.
Find(parent, i) ==
    LET after[k \in 0..Len(parent)] ==
            IF k = 0 THEN [parent |-> parent, at |-> i] ELSE Halve(after[k - 1])
    IN  after[Len(parent)]

\* Mutant: the sets are joined below their roots, and one is torn apart.
UnionOfMembers(parent, a, b) == [Find(parent, a).parent EXCEPT ![b] = Find(parent, a).at]

Union(parent, a, b) ==
    LET found == Find(parent, a)
        other == Find(found.parent, b)
    IN  IF found.at = other.at THEN other.parent ELSE [other.parent EXCEPT ![other.at] = found.at]

\* The sets once node i is joined to those it must share with.
JoinNode(parent, i, node) ==
    LET joined[k \in 0..Len(node)] ==
            IF k = 0 THEN parent
            ELSE IF Shares(node[k], "planned") THEN Union(joined[k - 1], i, node[k].index)
            ELSE joined[k - 1]
    IN  joined[Len(node)]

SetRoots(nodes) ==
    LET parent[i \in 0..Len(nodes)] ==
            IF i = 0 THEN [j \in DOMAIN nodes |-> j] ELSE JoinNode(parent[i - 1], i, nodes[i])
    IN  [i \in DOMAIN nodes |-> Find(parent[Len(nodes)], i).at]

\* For each root, the stores its set must join, because a component that it
\* must share with is there.
Anchors(nodes, root) ==
    [r \in DOMAIN nodes |->
        {loaded[pair[2]].group :
            pair \in {p \in Shared(nodes, "live") : root[p[1]] = r}}]

\* Mutant: a set may join any store.
RefusedNever(nodes) == FALSE

Refused(nodes) ==
    \E groups \in Range(Anchors(nodes, SetRoots(nodes))) : Cardinality(groups) > 1

\* Mutant: one store for a plan.
OneStorePerPlan(nodes) == [i \in DOMAIN nodes |-> stores + 1]

\* Where each node goes: to the store of its set's anchor, else to a new one,
\* made when the first node of the set is reached.
Assignment(nodes) ==
    LET root == SetRoots(nodes)
        anchor == Anchors(nodes, root)
        opener(i) == /\ anchor[root[i]] = {}
                     /\ \A j \in 1..(i - 1) : root[j] # root[i]
        first(i) == CHOOSE j \in 1..i : root[j] = root[i] /\ \A k \in 1..(j - 1) : root[k] # root[i]
    IN  [i \in DOMAIN nodes |->
            IF anchor[root[i]] # {} THEN CHOOSE g \in anchor[root[i]] : TRUE
            ELSE stores + Cardinality({j \in 1..first(i) : opener(j)})]

-----------------------------------------------------------------------------
(* instantiate.                                                            *)

\* Whether edges lead from m to n: a set that has m, and every node to which
\* an edge leads from it, has n.
Leads(node, edge, m, n) ==
    \A S \in SUBSET node :
        m \in S /\ (\A e \in edge : e[1] \in S /\ e[2] \in node => e[2] \in S) => n \in S

\* The pairs of components that must share a store once a plan is loaded: the
\* reflexive, symmetric and transitive closure of what is joined by interfaces
\* that cannot cross one.
BondsWith(nodes) ==
    LET live == DOMAIN loaded
        at(i) == Len(loaded) + i
        node == live \cup {at(i) : i \in DOMAIN nodes}
        pairs == {<<at(p[1]), p[2]>> : p \in Shared(nodes, "live")}
                     \cup {<<at(p[1]), at(p[2])>> : p \in Shared(nodes, "planned")}
        edge == bonds \cup pairs \cup {<<p[2], p[1]>> : p \in pairs}
    IN  {p \in node \X node : Leads(node, edge, p[1], p[2])}

Among(pairs, members) == {p \in pairs : p[1] \in members /\ p[2] \in members}

Idle == plan = <<>>

\* Whether every live component a plan names is there: it was made for this host.
Fits(nodes) ==
    /\ Len(loaded) + Len(nodes) <= MaxLoaded
    /\ stores + Len(nodes) <= MaxStores
    /\ \A i \in DOMAIN nodes : \A k \in DOMAIN nodes[i] :
          nodes[i][k].source = "live" => nodes[i][k].index \in DOMAIN loaded

\* assign_groups fails with CannotShareStore, before it makes any store.
Refuse(nodes) ==
    /\ Idle /\ Fits(nodes) /\ Refused(nodes)
    /\ UNCHANGED linkerVars

Assign(nodes) ==
    /\ Idle /\ Fits(nodes) /\ ~Refused(nodes)
    /\ assigned' = Assignment(nodes)
    /\ stores' = stores + Cardinality({Assignment(nodes)[i] : i \in DOMAIN nodes} \ 1..stores)
    /\ plan' = nodes
    /\ base' = Len(loaded)
    /\ bonds' = BondsWith(nodes)
    /\ UNCHANGED <<loaded, poisoned, blamed>>

\* Mutant: a component forwards without the lock to whoever was loaded with it.
DirectWithinPlan(group, target) ==
    IF loaded[target].group = group \/ target > base THEN "direct" ELSE "locked"

\* Mutant: every forward locks.
AlwaysLocked(group, target) == "locked"

\* wire: a forward within a store is direct, one to another store locks it.
Forward(group, target) == IF loaded[target].group = group THEN "direct" ELSE "locked"

Link(binding, group) ==
    IF binding.source \in {"live", "planned"}
    THEN LET target == IF binding.source = "live" THEN binding.index ELSE base + binding.index
         IN  [kind |-> Forward(group, target), to |-> target]
    ELSE [kind |-> IF binding.source = "nats" THEN "remote" ELSE "stub", to |-> 0]

NextNode == plan[Len(loaded) - base + 1]
NextGroup == assigned[Len(loaded) - base + 1]
NeedsProxy(node) == \E k \in DOMAIN node : node[k].source = "nats"

EndPlan ==
    /\ plan' = <<>>
    /\ assigned' = <<>>
    /\ base' = 0

Load ==
    /\ ~Idle
    /\ NeedsProxy(NextNode) => HasProxy
    /\ loaded' = Append(loaded,
                    [group |-> NextGroup,
                     links |-> {Link(NextNode[k], NextGroup) : k \in DOMAIN NextNode}])
    /\ IF Len(loaded) + 1 = base + Len(plan) THEN EndPlan ELSE UNCHANGED <<plan, assigned, base>>
    /\ UNCHANGED <<stores, poisoned, bonds, blamed>>

\* What was loaded before the failure stays, and so do the stores made for the
\* rest.  A component that traps as it starts poisons its store.
LoadFails ==
    /\ ~Idle
    /\ EndPlan
    /\ bonds' = Among(bonds, DOMAIN loaded)
    /\ \/ UNCHANGED <<poisoned, blamed>>
       \/ /\ NeedsProxy(NextNode) => HasProxy
          /\ poisoned' = poisoned \cup {NextGroup}
          /\ blamed' = blamed \cup {i \in DOMAIN loaded : <<i, Len(loaded) + 1>> \in bonds}
    /\ UNCHANGED <<stores, loaded>>

LinkerInit ==
    /\ stores = 0
    /\ loaded = <<>>
    /\ plan = <<>> /\ assigned = <<>> /\ base = 0
    /\ poisoned = {}
    /\ bonds = {} /\ blamed = {}

Instantiate ==
    \/ /\ Idle /\ Len(loaded) < MaxLoaded
       /\ \E nodes \in Plans : Refuse(nodes) \/ Assign(nodes)
    \/ Load
    \/ LoadFails

-----------------------------------------------------------------------------
(* Properties.                                                             *)

\* "Two components must share a store when the interface linking them has no
\* wire shape ... computed transitively ... Everything else is separate"
\* (linking.md section 1), whatever plans came before, and also when one of
\* them failed half way.
TogetherOnlyIfBound ==
    \A i, j \in DOMAIN loaded : loaded[i].group = loaded[j].group <=> <<i, j>> \in bonds

\* A plan is refused only when it would make one store of two (linking.md
\* section 1), and then always.
RefusedOnlyForTwoStores ==
    Idle /\ Len(loaded) < MaxLoaded => \A nodes \in Plans : Fits(nodes) =>
        (Refused(nodes) <=>
            \E p \in Among(BondsWith(nodes), DOMAIN loaded) : loaded[p[1]].group # loaded[p[2]].group)
=============================================================================

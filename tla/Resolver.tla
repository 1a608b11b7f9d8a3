------------------------------ MODULE Resolver ------------------------------
(***************************************************************************)
(* How a host decides what satisfies each import of a component, and of    *)
(* every component that pulls in (crates/host/src/resolve.rs):             *)
(* Resolver::plan, the recursion of add, source_for and load, and the plan *)
(* they build.                                                             *)
(*                                                                         *)
(* add calls itself through source_for and load, across awaits.  Its calls *)
(* are the frames of stack, innermost last: each holds a component, the    *)
(* bindings made so far, and, below the top, the interface whose provider  *)
(* the frame above is loading.  A step is one import of the top frame, or  *)
(* its return.  What the registry answers may differ at every question.    *)
(***************************************************************************)
EXTENDS Integers, FiniteSets, Sequences

CONSTANTS
    Ids,           \* interfaces, at a version: InterfaceId
    Components,    \* components, live or to be fetched
    Imports,       \* what each component imports: a sequence of uses
    Exports,       \* the interfaces each exports
    Shapes,        \* shapes of interfaces, told apart by their digests
    Providers,     \* ids of providers
    Resolutions,   \* what the registry may know about
    Satisfies,     \* pairs <<offered, wanted>> with offered in ^wanted
    MaxLive,       \* bound on the components already running
    MaxAnswer,     \* bound on the providers one answer names
    None

\* The shape of an interface that cannot cross a process boundary.
InProcess == None

\* An import, as ComponentScan reports it.
Use == [id : Ids, shape : Shapes \cup {InProcess}]

\* A provider, and the interface of it that answers a question.  Its endpoint
\* is the component an artifact holds, or None for a subject.
Resolution == [provider : Providers, kind : {"component", "service"}, id : Ids,
               digest : Shapes, endpoint : Components \cup {None}]

ASSUME ResolverAssumption ==
    /\ IsFiniteSet(Ids)
    /\ None \notin Ids /\ None \notin Components
    /\ Imports \in [Components -> Seq(Use)]
    /\ Exports \in [Components -> SUBSET Ids]
    /\ Resolutions \subseteq Resolution
    /\ Satisfies \subseteq Ids \X Ids
    /\ MaxLive \in Nat /\ MaxAnswer \in Nat

VARIABLES
    live,      \* components this host runs
    missing,   \* what to do with an import nothing implements
    stack,     \* the calls of add under way
    nodes,     \* the plan so far
    provided,  \* which component of this host implements an interface
    outcome    \* "planning", "planned", or the error plan returned

vars == <<live, missing, stack, nodes, provided, outcome>>

\* Source and Binding.
Key == [at : {"live", "planned"}, index : Nat]
Source == [kind : {"in-process"}, key : Key] \cup [kind : {"nats"}, service : Resolutions]
              \cup [kind : {"trap"}]
Binding == [id : Ids, shape : Shapes \cup {InProcess}, source : Source]

Frame(c) == [component |-> c, bindings |-> <<>>, loading |-> None]

Top == stack[Len(stack)]
Used == Imports[Top.component][Len(Top.bindings) + 1]
AtImport == outcome = "planning" /\ Len(Top.bindings) < Len(Imports[Top.component])
AtEnd == outcome = "planning" /\ Len(Top.bindings) = Len(Imports[Top.component])

\* Mutant: only the innermost interface being resolved is remembered.
PendingNow == IF Len(stack) > 1 THEN {stack[Len(stack) - 1].loading} ELSE {}

\* Context::pending.
Pending == {stack[d].loading : d \in DOMAIN stack} \ {None}

Fail(error) ==
    /\ outcome' = error
    /\ UNCHANGED <<live, missing, stack, nodes, provided>>

\* Mutant: an interface stays pending once its provider is loaded.
BindStillPending(frame, used, source) ==
    [component |-> frame.component,
     bindings |-> Append(frame.bindings,
                         [id |-> used.id, shape |-> used.shape, source |-> source]),
     loading |-> frame.loading]

Bind(frame, used, source) ==
    [component |-> frame.component,
     bindings |-> Append(frame.bindings,
                         [id |-> used.id, shape |-> used.shape, source |-> source]),
     loading |-> None]

BindTop(source) ==
    /\ stack' = [stack EXCEPT ![Len(stack)] = Bind(@, Used, source)]
    /\ UNCHANGED <<live, missing, nodes, provided, outcome>>

InProcessSource(key) == [kind |-> "in-process", key |-> key]
NatsSource(r) == [kind |-> "nats", service |-> r]
TrapSource == [kind |-> "trap"]

-----------------------------------------------------------------------------
(* source_for and offers.                                                  *)

\* What the registry may answer: any of the providers that satisfy ^version,
\* in any order, each at most once.
Answers(id) ==
    LET known == {r \in Resolutions : <<r.id, id>> \in Satisfies}
    IN  {s \in UNION {[1..n -> known] : n \in 0..MaxAnswer} :
            \A i, j \in DOMAIN s : s[i] = s[j] => i = j}

\* Mutant: nobody compares digests.
AgreesAlways(used, r) == TRUE

Agrees(used, r) == used.shape = InProcess \/ r.digest = used.shape

IsArtifact(used, r) == Agrees(used, r) /\ r.kind = "component" /\ r.endpoint # None
IsService(used, r) ==
    /\ Agrees(used, r)
    /\ r.kind = "service" /\ r.endpoint = None
    /\ used.shape # InProcess

Artifacts(answer) == {i \in DOMAIN answer : IsArtifact(Used, answer[i])}
Services(answer) == {i \in DOMAIN answer : IsService(Used, answer[i])}
Mismatched(answer) == {i \in DOMAIN answer : ~Agrees(Used, answer[i])}
IsFirst(i, S) == i \in S /\ \A j \in S : i <= j

Wanted == AtImport /\ Used.id \notin DOMAIN provided

UseProvided ==
    /\ AtImport /\ Used.id \in DOMAIN provided
    /\ BindTop(InProcessSource(provided[Used.id]))

FindCycle ==
    /\ Wanted /\ Used.id \in Pending
    /\ Fail("cycle")

Ask(answer) ==
    /\ Wanted /\ Used.id \notin Pending
    /\ answer \in Answers(Used.id)

AskInVain ==
    /\ Wanted /\ Used.id \notin Pending
    /\ Fail("registry")

\* load: the artifact is fetched, its hash verified, and it is compiled; its
\* add then scans it.
Load(answer) ==
    /\ Ask(answer)
    /\ \E i \in DOMAIN answer :
          /\ IsFirst(i, Artifacts(answer))
          /\ stack' = Append([stack EXCEPT ![Len(stack)].loading = Used.id],
                             Frame(answer[i].endpoint))
    /\ UNCHANGED <<live, missing, nodes, provided, outcome>>

LoadFails(answer) ==
    /\ Ask(answer)
    /\ Artifacts(answer) # {}
    /\ \E error \in {"fetch", "artifact-mismatch", "compile", "scan"} : Fail(error)

UseService(answer) ==
    /\ Ask(answer)
    /\ Artifacts(answer) = {}
    /\ \E i \in DOMAIN answer :
          IsFirst(i, Services(answer)) /\ BindTop(NatsSource(answer[i]))

NobodyUsable(answer) ==
    /\ Ask(answer)
    /\ Artifacts(answer) = {} /\ Services(answer) = {}

FindMismatch(answer) ==
    /\ NobodyUsable(answer) /\ Mismatched(answer) # {}
    /\ Fail("shape-mismatch")

FindNobody(answer) ==
    /\ NobodyUsable(answer) /\ Mismatched(answer) = {}
    /\ \/ missing = "trap" /\ BindTop(TrapSource)
       \/ missing = "fail" /\ Used.shape = InProcess /\ Fail("in-process-only")
       \/ missing = "fail" /\ Used.shape # InProcess /\ Fail("unsatisfied")

SourceFor ==
    \/ UseProvided
    \/ FindCycle
    \/ AskInVain
    \/ Wanted /\ \E answer \in Answers(Used.id) :
          \/ Load(answer) \/ LoadFails(answer) \/ UseService(answer)
          \/ FindMismatch(answer) \/ FindNobody(answer)

-----------------------------------------------------------------------------
(* add.                                                                    *)

Added == Append(nodes, [component |-> Top.component, imports |-> Top.bindings])

Planned(index) == [at |-> "planned", index |-> index]

\* Mutant: the latest component to export an interface provides it.
ProvideLatest(c, key) ==
    [id \in DOMAIN provided \cup Exports[c] |->
        IF id \in Exports[c] THEN key ELSE provided[id]]

\* What a component exports is provided unless something already did.
Provide(c, key) ==
    [id \in DOMAIN provided \cup Exports[c] |->
        IF id \in DOMAIN provided THEN provided[id] ELSE key]

\* The root's add returns, and plan with it.
ReturnRoot ==
    /\ AtEnd /\ Len(stack) = 1
    /\ nodes' = Added
    /\ provided' = Provide(Top.component, Planned(Len(nodes')))
    /\ stack' = <<>>
    /\ outcome' = "planned"
    /\ UNCHANGED <<live, missing>>

\* A provider's add returns to the source_for that loads it.
Caller == stack[Len(stack) - 1]
CallerUse == Imports[Caller.component][Len(Caller.bindings) + 1]

\* Mutant: that the provider exports what it was loaded for is not checked.
ReturnUnchecked ==
    /\ AtEnd /\ Len(stack) > 1
    /\ nodes' = Added
    /\ provided' = Provide(Top.component, Planned(Len(nodes')))
    /\ stack' = [SubSeq(stack, 1, Len(stack) - 1) EXCEPT ![Len(stack) - 1] =
                    Bind(@, CallerUse, InProcessSource(Planned(Len(nodes'))))]
    /\ UNCHANGED <<live, missing, outcome>>

ReturnProvider ==
    /\ AtEnd /\ Len(stack) > 1
    /\ Caller.loading \in Exports[Top.component]
    /\ nodes' = Added
    /\ provided' = Provide(Top.component, Planned(Len(nodes')))
    /\ stack' = [SubSeq(stack, 1, Len(stack) - 1) EXCEPT ![Len(stack) - 1] =
                    Bind(@, CallerUse, InProcessSource(Planned(Len(nodes'))))]
    /\ UNCHANGED <<live, missing, outcome>>

ReturnUseless ==
    /\ AtEnd /\ Len(stack) > 1
    /\ Caller.loading \notin Exports[Top.component]
    /\ Fail("not-exported")

-----------------------------------------------------------------------------
Exporters(id) == {i \in DOMAIN live : id \in Exports[live[i]]}

\* The first live component to export an interface provides it.
ProvideLive ==
    LET exported == {id \in Ids : Exporters(id) # {}}
    IN  /\ provided \in [exported -> [at : {"live"}, index : DOMAIN live]]
        /\ \A id \in exported : IsFirst(provided[id].index, Exporters(id))

Init ==
    /\ live \in UNION {[1..n -> Components] : n \in 0..MaxLive}
    /\ missing \in {"fail", "trap"}
    /\ \E root \in Components : stack = <<Frame(root)>>
    /\ nodes = <<>>
    /\ ProvideLive
    /\ outcome = "planning"

Add == ReturnRoot \/ ReturnProvider \/ ReturnUseless

Next == SourceFor \/ Add

Spec == Init /\ [][Next]_vars

-----------------------------------------------------------------------------
(* Properties.                                                             *)

\* Every variable keeps its type, and every call of add but the innermost
\* waits for the provider of its next import.
TypeOK ==
    /\ live \in Seq(Components)
    /\ missing \in {"fail", "trap"}
    /\ stack \in Seq([component : Components, bindings : Seq(Binding), loading : Ids \cup {None}])
    /\ nodes \in Seq([component : Components, imports : Seq(Binding)])
    /\ provided \in [DOMAIN provided -> Key] /\ DOMAIN provided \subseteq Ids
    /\ outcome \in {"planning", "planned", "registry", "cycle", "fetch", "artifact-mismatch",
                    "compile", "scan", "shape-mismatch", "in-process-only", "unsatisfied",
                    "not-exported"}
    /\ outcome = "planned" <=> stack = <<>>
    /\ \A d \in DOMAIN stack :
          IF d = Len(stack) THEN stack[d].loading = None
          ELSE /\ Len(stack[d].bindings) < Len(Imports[stack[d].component])
               /\ stack[d].loading = Imports[stack[d].component][Len(stack[d].bindings) + 1].id

\* The component a key stands for, among those live and those planned.
At(key, running, plan) ==
    IF key.at = "live" THEN running[key.index] ELSE plan[key.index].component

\* Whether an in-process source is a component that exports the interface and
\* is live, or among the first n of the plan.
Provides(source, id, running, plan, n) ==
    source.kind = "in-process" =>
        LET key == source.key
        IN  /\ key.index \in IF key.at = "live" THEN DOMAIN running ELSE 1..n
            /\ id \in Exports[At(key, running, plan)]

\* Plan::nodes: "instantiating in this order never reaches a component whose
\* imports are not yet satisfiable" (resolve.rs:361).  Each import bound in
\* process goes to a component that exports it and runs already or precedes
\* its importer, also in the plan of an add that is under way.
DependenciesFirst ==
    /\ \A i \in DOMAIN nodes : \A b \in DOMAIN nodes[i].imports :
          Provides(nodes[i].imports[b].source, nodes[i].imports[b].id, live, nodes, i - 1)
    /\ \A d \in DOMAIN stack : \A b \in DOMAIN stack[d].bindings :
          Provides(stack[d].bindings[b].source, stack[d].bindings[b].id, live, nodes, Len(nodes))

Bindings ==
    (UNION {{nodes[i].imports[b] : b \in DOMAIN nodes[i].imports} : i \in DOMAIN nodes})
        \cup (UNION {{stack[d].bindings[b] : b \in DOMAIN stack[d].bindings} : d \in DOMAIN stack})

\* An import goes over NATS only if it has a wire shape, the provider advertises
\* that very shape, and nothing this host runs exports it (registry.md sections
\* 1, 2 and 5).
WireOnlyWhatFits ==
    \A b \in Bindings : b.source.kind = "nats" =>
        /\ b.shape # InProcess
        /\ b.source.service.digest = b.shape
        /\ \A i \in DOMAIN live : b.id \notin Exports[live[i]]

\* However the providers import each other, no chain of loads is longer than
\* there are interfaces: plan does not recurse for ever.
NestingBounded == Len(stack) <= Cardinality(Ids) + 1

\* The nodes of the plan that the imports of a node are bound to.
InPlan(source) == source.kind = "in-process" /\ source.key.at = "planned"
BoundTo(node) ==
    {node.imports[b].source.key.index : b \in {c \in DOMAIN node.imports : InPlan(node.imports[c].source)}}

\* The nodes of a plan each of its nodes needs, directly or not.
NeedsOf(plan) ==
    LET needs[i \in DOMAIN plan] == BoundTo(plan[i]) \cup UNION {needs[j] : j \in BoundTo(plan[i])}
    IN  needs

Needs == NeedsOf(nodes)

\* Two importers of one interface are bound to the same component, though add
\* asks the registry at different times, unless one of the two providers is
\* built on the other.
OneProviderOrLayered ==
    \A b, c \in Bindings :
        b.id = c.id /\ b.source.kind = "in-process" /\ c.source.kind = "in-process" =>
            LET k == b.source.key  l == c.source.key
            IN  \/ k = l
                \/ /\ k.at = "planned" /\ l.at = "planned"
                   /\ k.index \in Needs[l.index] \/ l.index \in Needs[k.index]
=============================================================================

--------------------------- MODULE HostPlansProofs ---------------------------
(***************************************************************************)
(* That every plan of Resolver lists dependencies first, and sends over    *)
(* NATS only what a wire can carry; that two importers of one interface    *)
(* are bound to one component, or to two of which one is built on the      *)
(* other, and that plan does not recurse for ever; and that a plan stays   *)
(* one the host can instantiate, however many plans are made and whatever  *)
(* is loaded, fails or traps meanwhile: for all components, all providers  *)
(* and all answers of the registry.                                        *)
(***************************************************************************)
EXTENDS HostPlans, Recursion, SequenceTheorems

FrameType == [component : Components, bindings : Seq(Binding), loading : Ids \cup {None}]
NodeType == [component : Components, imports : Seq(Binding)]

\* Whatever is provided is provided by a component that exports it, and what a
\* live component exports is provided.
ProvidedExports ==
    /\ \A id \in DOMAIN provided : Provides(InProcessSource(provided[id]), id, live, nodes, Len(nodes))
    /\ \A i \in DOMAIN live : Exports[live[i]] \subseteq DOMAIN provided

\* Whether a binding over NATS is one that WireOnlyWhatFits admits.
Fits(b, alive) ==
    b.source.kind = "nats" =>
        /\ b.shape # InProcess
        /\ b.source.service.digest = b.shape
        /\ \A i \in DOMAIN alive : b.id \notin Exports[alive[i]]

\* WireOnlyWhatFits, binding by binding.
AllFit ==
    /\ \A i \in DOMAIN nodes : \A b \in DOMAIN nodes[i].imports : Fits(nodes[i].imports[b], live)
    /\ \A d \in DOMAIN stack : \A b \in DOMAIN stack[d].bindings : Fits(stack[d].bindings[b], live)

\* The inductive invariant.
ResolverInv == TypeOK /\ DependenciesFirst /\ ProvidedExports /\ AllFit

-----------------------------------------------------------------------------
(* The call of add that is innermost.                                      *)

LEMMA TopType ==
    ASSUME TypeOK, outcome = "planning"
    PROVE  /\ Len(stack) \in Nat \ {0}
           /\ DOMAIN stack = 1..Len(stack)
           /\ Len(stack) \in DOMAIN stack
           /\ Top \in FrameType
           /\ Top.component \in Components
           /\ Top.bindings \in Seq(Binding)
           /\ Len(Top.bindings) \in Nat
           /\ DOMAIN Top.bindings = 1..Len(Top.bindings)
           /\ Imports[Top.component] \in Seq(Use)
           /\ Len(Imports[Top.component]) \in Nat
<1>1. stack \in Seq(FrameType) /\ stack # <<>>
  BY DEF TypeOK, FrameType
<1>2. Len(stack) \in Nat \ {0} /\ DOMAIN stack = 1..Len(stack) /\ Len(stack) \in DOMAIN stack
  BY <1>1
<1>3. Top \in FrameType
  BY <1>1, <1>2 DEF Top
<1>4. Top.component \in Components /\ Top.bindings \in Seq(Binding)
  BY <1>3 DEF FrameType
<1>5. Imports[Top.component] \in Seq(Use)
  BY <1>4, ResolverAssumption
<1> QED
  BY <1>1, <1>2, <1>3, <1>4, <1>5

\* The import that is looked at is one of its component's.
LEMMA UsedType ==
    ASSUME TypeOK, AtImport
    PROVE  Used \in Use
<1>1. Len(Top.bindings) + 1 \in 1..Len(Imports[Top.component])
  BY TopType DEF AtImport
<1> QED
  BY <1>1, TopType DEF AtImport, Used

-----------------------------------------------------------------------------
(* plan fails.                                                             *)

Errors == {"registry", "cycle", "fetch", "artifact-mismatch", "compile", "scan",
           "shape-mismatch", "in-process-only", "unsatisfied", "not-exported"}

\* A plan that fails is no plan.
LEMMA FailKeepsInv ==
    ASSUME ResolverInv, outcome = "planning", NEW error \in Errors, Fail(error)
    PROVE  ResolverInv'
<1>1. TypeOK'
  <2>1. outcome' \in Errors /\ outcome' # "planned" /\ stack # <<>>
    BY DEF ResolverInv, TypeOK, Errors, Fail
  <2> QED
    BY <2>1 DEF ResolverInv, TypeOK, Fail, Errors
<1>2. DependenciesFirst'
  BY DEF ResolverInv, DependenciesFirst, Fail
<1>3. ProvidedExports'
  BY DEF ResolverInv, ProvidedExports, Fail
<1>4. AllFit'
  BY DEF ResolverInv, AllFit, Fail
<1> QED
  BY <1>1, <1>2, <1>3, <1>4 DEF ResolverInv

-----------------------------------------------------------------------------
(* An import is bound without another component being added.               *)

\* What binding an import makes of the innermost call.
LEMMA BoundFrame ==
    ASSUME TypeOK, AtImport, NEW source \in Source, BindTop(source),
           NEW bound, bound = [id |-> Used.id, shape |-> Used.shape, source |-> source]
    PROVE  /\ bound \in Binding
           /\ stack' \in Seq(FrameType) /\ Len(stack') = Len(stack) /\ DOMAIN stack' = 1..Len(stack)
           /\ stack'[Len(stack)].component = Top.component /\ stack'[Len(stack)].loading = None
           /\ stack'[Len(stack)].bindings = Append(Top.bindings, bound)
           /\ \A d \in 1..Len(stack) : d # Len(stack) => stack'[d] = stack[d]
<1> DEFINE frame == [component |-> Top.component, bindings |-> Append(Top.bindings, bound),
                     loading |-> None]
           n == Len(stack)
<1>0. outcome = "planning"
  BY DEF AtImport
<1>1. n \in Nat \ {0} /\ DOMAIN stack = 1..n /\ n \in DOMAIN stack
  BY <1>0, TopType
<1>2. bound \in Binding
  BY UsedType DEF Use, Binding
<1>3. /\ frame \in FrameType /\ frame.loading = None /\ frame.component = Top.component
      /\ frame.bindings = Append(Top.bindings, bound)
  BY <1>0, <1>2, TopType DEF FrameType
<1>4. stack' = [stack EXCEPT ![n] = frame]
  BY DEF BindTop, Bind, Top
<1>5. stack \in Seq(FrameType)
  BY DEF TypeOK, FrameType
<1> HIDE DEF frame
<1>6. /\ stack' \in Seq(FrameType) /\ Len(stack') = n /\ DOMAIN stack' = 1..n
      /\ stack'[n] = frame
      /\ \A d \in 1..n : d # n => stack'[d] = stack[d]
  BY <1>1, <1>3, <1>4, <1>5, ExceptSeq
<1> QED
  BY <1>2, <1>3, <1>6

\* An import is bound to what provides it (resolve.rs, Planner::add).
LEMMA BindTopKeepsInv ==
    ASSUME ResolverInv, AtImport,
           NEW source \in Source,
           Provides(source, Used.id, live, nodes, Len(nodes)),
           Fits([id |-> Used.id, shape |-> Used.shape, source |-> source], live),
           BindTop(source)
    PROVE  ResolverInv'
<1> DEFINE bound == [id |-> Used.id, shape |-> Used.shape, source |-> source]
           n == Len(stack)
<1>0. TypeOK /\ outcome = "planning"
  BY DEF ResolverInv, AtImport
<1>1. n \in Nat \ {0} /\ DOMAIN stack = 1..n /\ n \in DOMAIN stack
  BY <1>0, TopType
<1>6. /\ stack' \in Seq(FrameType) /\ Len(stack') = n /\ DOMAIN stack' = 1..n
      /\ stack'[n].component = Top.component /\ stack'[n].loading = None
      /\ stack'[n].bindings = Append(Top.bindings, bound)
      /\ \A d \in 1..n : d # n => stack'[d] = stack[d]
  BY <1>0, BoundFrame
<1>7. UNCHANGED <<live, missing, nodes, provided, outcome>>
  BY DEF BindTop
<1>8. TypeOK'
  <2>1. \A d \in DOMAIN stack' :
           IF d = Len(stack') THEN stack'[d].loading = None
           ELSE /\ Len(stack'[d].bindings) < Len(Imports[stack'[d].component])
                /\ stack'[d].loading = Imports[stack'[d].component][Len(stack'[d].bindings) + 1].id
    BY <1>0, <1>1, <1>6 DEF TypeOK
  <2>2. (outcome = "planned" <=> stack = <<>>)'
    BY <1>0, <1>1, <1>6, <1>7 DEF TypeOK
  <2> QED
    BY <1>0, <1>6, <1>7, <2>1, <2>2 DEF TypeOK, FrameType
<1>9. \A d \in DOMAIN stack' : \A b \in DOMAIN stack'[d].bindings :
         \/ d \in DOMAIN stack /\ b \in DOMAIN stack[d].bindings
               /\ stack'[d].bindings[b] = stack[d].bindings[b]
         \/ stack'[d].bindings[b] = bound
  <2> SUFFICES ASSUME NEW d \in 1..n, NEW b \in DOMAIN stack'[d].bindings
               PROVE  \/ d \in DOMAIN stack /\ b \in DOMAIN stack[d].bindings
                            /\ stack'[d].bindings[b] = stack[d].bindings[b]
                      \/ stack'[d].bindings[b] = bound
    BY <1>6
  <2>1. CASE d # n
    BY <2>1, <1>1, <1>6
  <2>2. CASE d = n
    <3>1. Top.bindings \in Seq(Binding)
      BY <1>0, TopType
    <3>2. stack'[d].bindings = Append(stack[n].bindings, bound)
      BY <2>2, <1>6 DEF Top
    <3> QED
      BY <2>2, <3>1, <3>2, <1>1 DEF Top
  <2> QED
    BY <2>1, <2>2
<1>10. DependenciesFirst'
  BY <1>7, <1>9 DEF ResolverInv, DependenciesFirst
<1>11. ProvidedExports'
  BY <1>7 DEF ResolverInv, ProvidedExports
<1>12. AllFit'
  BY <1>7, <1>9 DEF ResolverInv, AllFit
<1> QED
  BY <1>8, <1>10, <1>11, <1>12 DEF ResolverInv

-----------------------------------------------------------------------------
(* A provider's add begins.                                                *)

\* What a call of add that loads a provider looks like, and the call it makes.
LEMMA LoadedFrame ==
    ASSUME TypeOK, AtImport, NEW answer \in Answers(Used.id), Load(answer)
    PROVE  /\ Used.id \in Ids
           /\ stack' \in Seq(FrameType) /\ Len(stack') = Len(stack) + 1
           /\ DOMAIN stack' = 1..(Len(stack) + 1)
           /\ stack'[Len(stack) + 1].bindings = <<>> /\ stack'[Len(stack) + 1].loading = None
           /\ stack'[Len(stack)].component = Top.component
           /\ stack'[Len(stack)].bindings = Top.bindings
           /\ stack'[Len(stack)].loading = Used.id
           /\ \A d \in 1..Len(stack) : d # Len(stack) => stack'[d] = stack[d]
<1> DEFINE n == Len(stack)
           waiting == [component |-> Top.component, bindings |-> Top.bindings,
                       loading |-> Used.id]
           rest == [stack EXCEPT ![n].loading = Used.id]
<1>0. TypeOK /\ outcome = "planning"
  BY DEF AtImport
<1>1. n \in Nat /\ n > 0 /\ DOMAIN stack = 1..n /\ n \in DOMAIN stack /\ stack \in Seq(FrameType)
  BY <1>0, TopType DEF TypeOK, FrameType
<1>2. PICK i \in DOMAIN answer :
         /\ IsFirst(i, Artifacts(answer))
         /\ stack' = Append(rest, Frame(answer[i].endpoint))
  BY DEF Load
<1>3. Used \in Use /\ Used.id \in Ids
  BY <1>0, UsedType DEF Use
<1>4. Frame(answer[i].endpoint) \in FrameType /\ Frame(answer[i].endpoint).bindings = <<>>
        /\ Frame(answer[i].endpoint).loading = None
  <2>1. answer[i] \in Resolutions
    <3>1. PICK k \in 0..MaxAnswer :
             answer \in [1..k -> {r \in Resolutions : <<r.id, Used.id>> \in Satisfies}]
      BY DEF Answers
    <3> QED
      BY <3>1
  <2>2. answer[i].endpoint \in Components
    BY <1>2, <2>1, ResolverAssumption DEF IsFirst, Artifacts, IsArtifact, Resolution
  <2> QED
    BY <2>2 DEF Frame, FrameType
<1>5. /\ rest = [stack EXCEPT ![n] = waiting] /\ waiting \in FrameType
      /\ waiting.component = Top.component /\ waiting.bindings = Top.bindings
      /\ waiting.loading = Used.id
  <2>1. Top = [component |-> Top.component, bindings |-> Top.bindings, loading |-> Top.loading]
    BY <1>0, TopType DEF FrameType
  <2>2. [Top EXCEPT !.loading = Used.id] = waiting
    BY <2>1
  <2>3. rest = [stack EXCEPT ![n] = [Top EXCEPT !.loading = Used.id]]
    BY DEF Top
  <2> QED
    BY <1>0, <1>3, <2>2, <2>3, TopType DEF FrameType
<1>6. /\ stack' \in Seq(FrameType) /\ Len(stack') = n + 1 /\ DOMAIN stack' = 1..(n + 1)
      /\ stack'[n + 1] = Frame(answer[i].endpoint)
      /\ stack'[n] = waiting
      /\ \A d \in 1..n : d # n => stack'[d] = stack[d]
  <2> HIDE DEF waiting
  <2>1. /\ rest \in Seq(FrameType) /\ Len(rest) = n /\ rest[n] = waiting
        /\ \A d \in 1..n : d # n => rest[d] = stack[d]
    BY <1>1, <1>5, ExceptSeq
  <2> HIDE DEF rest
  <2>2. /\ stack' \in Seq(FrameType) /\ Len(stack') = n + 1
        /\ \A d \in 1..n : stack'[d] = rest[d]
        /\ stack'[n + 1] = Frame(answer[i].endpoint)
    BY <1>2, <1>4, <2>1, AppendProperties
  <2>3. DOMAIN stack' = 1..(n + 1)
    BY <2>2, LenProperties
  <2>4. stack'[n] = waiting /\ \A d \in 1..n : d # n => stack'[d] = stack[d]
    BY <1>1, <2>1, <2>2
  <2> QED
    BY <2>2, <2>3, <2>4
<1> HIDE DEF waiting, rest
<1> QED
  BY <1>3, <1>4, <1>5, <1>6

\* A provider that is fetched is begun on top of whoever needs it.
LEMMA LoadKeepsInv ==
    ASSUME ResolverInv, AtImport, NEW answer \in Answers(Used.id), Load(answer)
    PROVE  ResolverInv'
<1> DEFINE n == Len(stack)
<1>0. TypeOK /\ outcome = "planning"
  BY DEF ResolverInv, AtImport
<1>1. n \in Nat /\ n > 0 /\ DOMAIN stack = 1..n /\ n \in DOMAIN stack /\ stack \in Seq(FrameType)
  BY <1>0, TopType DEF TypeOK, FrameType
<1>6. /\ stack' \in Seq(FrameType) /\ Len(stack') = n + 1 /\ DOMAIN stack' = 1..(n + 1)
      /\ stack'[n + 1].bindings = <<>> /\ stack'[n + 1].loading = None
      /\ stack'[n].component = Top.component /\ stack'[n].bindings = Top.bindings
      /\ stack'[n].loading = Used.id
      /\ \A d \in 1..n : d # n => stack'[d] = stack[d]
  BY <1>0, LoadedFrame
<1> HIDE DEF n
<1>7. UNCHANGED <<live, missing, nodes, provided, outcome>>
  BY DEF Load
<1>8. TypeOK'
  <2>1. \A d \in DOMAIN stack' :
           IF d = Len(stack') THEN stack'[d].loading = None
           ELSE /\ Len(stack'[d].bindings) < Len(Imports[stack'[d].component])
                /\ stack'[d].loading = Imports[stack'[d].component][Len(stack'[d].bindings) + 1].id
    <3> SUFFICES ASSUME NEW d \in 1..(n + 1)
                 PROVE  IF d = n + 1 THEN stack'[d].loading = None
                        ELSE /\ Len(stack'[d].bindings) < Len(Imports[stack'[d].component])
                             /\ stack'[d].loading =
                                   Imports[stack'[d].component][Len(stack'[d].bindings) + 1].id
      BY <1>6
    <3>1. CASE d = n + 1
      BY <3>1, <1>1, <1>6
    <3>2. CASE d = n
      BY <3>2, <1>0, <1>1, <1>6, TopType DEF AtImport, Used
    <3>3. CASE d \notin {n, n + 1}
      <4>1. d \in 1..n /\ d # n /\ d # n + 1
        BY <3>3, <1>1
      <4>2. stack'[d] = stack[d]
        BY <4>1, <1>6
      <4> QED
        BY <4>1, <4>2, <1>0, <1>1 DEF TypeOK, n
    <3> QED
      BY <3>1, <3>2, <3>3
  <2>2. (outcome = "planned" <=> stack = <<>>)'
    <3>1. Len(stack') # 0
      BY <1>1, <1>6
    <3> QED
      BY <1>0, <1>1, <1>7, <3>1
  <2> QED
    BY <1>0, <1>6, <1>7, <2>1, <2>2 DEF TypeOK, FrameType
<1>9. \A d \in DOMAIN stack' : \A b \in DOMAIN stack'[d].bindings :
         d \in DOMAIN stack /\ b \in DOMAIN stack[d].bindings
               /\ stack'[d].bindings[b] = stack[d].bindings[b]
  <2> SUFFICES ASSUME NEW d \in 1..(n + 1), NEW b \in DOMAIN stack'[d].bindings
               PROVE  d \in DOMAIN stack /\ b \in DOMAIN stack[d].bindings
                        /\ stack'[d].bindings[b] = stack[d].bindings[b]
    BY <1>6
  <2>1. CASE d = n + 1
    BY <2>1, <1>6
  <2>2. CASE d = n
    BY <2>2, <1>1, <1>6 DEF Top, n
  <2>3. CASE d \notin {n, n + 1}
    <3>1. d \in 1..n /\ d # n
      BY <2>3, <1>1
    <3> QED
      BY <3>1, <1>1, <1>6
  <2> QED
    BY <2>1, <2>2, <2>3
<1>10. DependenciesFirst'
  BY <1>7, <1>9 DEF ResolverInv, DependenciesFirst
<1>11. ProvidedExports'
  BY <1>7 DEF ResolverInv, ProvidedExports
<1>12. AllFit'
  BY <1>7, <1>9 DEF ResolverInv, AllFit
<1> QED
  BY <1>8, <1>10, <1>11, <1>12 DEF ResolverInv

-----------------------------------------------------------------------------
(* A component is added to the plan.                                       *)

\* A source that is provided stays so as the plan grows.
LEMMA ProvidesMore ==
    ASSUME NEW source \in Source, NEW id, NEW alive, NEW shorter, NEW longer,
           NEW n \in Nat, NEW m \in Nat, n <= m,
           \A i \in 1..n : longer[i] = shorter[i],
           Provides(source, id, alive, shorter, n)
    PROVE  Provides(source, id, alive, longer, m)
<1> SUFFICES ASSUME source.kind = "in-process"
             PROVE  /\ source.key.index \in IF source.key.at = "live" THEN DOMAIN alive
                                             ELSE 1..m
                    /\ id \in Exports[At(source.key, alive, longer)]
  BY DEF Provides
<1>1. /\ source.key.index \in IF source.key.at = "live" THEN DOMAIN alive ELSE 1..n
      /\ id \in Exports[At(source.key, alive, shorter)]
  BY DEF Provides
<1>2. CASE source.key.at = "live"
  BY <1>1, <1>2 DEF At
<1>3. CASE source.key.at # "live"
  <2>1. source.key.index \in 1..n /\ source.key.index \in 1..m
    BY <1>1, <1>3
  <2> QED
    BY <1>1, <1>3, <2>1 DEF At
<1> QED
  BY <1>2, <1>3

\* What add appends, and what it leaves as it was.
LEMMA AddedNode ==
    ASSUME TypeOK, outcome = "planning", nodes' = Added
    PROVE  /\ Len(nodes) \in Nat
           /\ nodes' \in Seq(NodeType)
           /\ Len(nodes') = Len(nodes) + 1
           /\ DOMAIN nodes' = 1..(Len(nodes) + 1)
           /\ \A i \in 1..Len(nodes) : nodes'[i] = nodes[i]
           /\ nodes'[Len(nodes) + 1].component = Top.component
           /\ nodes'[Len(nodes) + 1].imports = Top.bindings
<1> DEFINE node == [component |-> Top.component, imports |-> Top.bindings]
<1>1. node \in NodeType /\ node.component = Top.component /\ node.imports = Top.bindings
  BY TopType DEF NodeType
<1>2. nodes \in Seq(NodeType) /\ nodes' = Append(nodes, node)
  BY DEF TypeOK, NodeType, Added
<1> HIDE DEF node
<1>3. /\ nodes' \in Seq(NodeType) /\ Len(nodes') = Len(nodes) + 1
      /\ \A i \in 1..Len(nodes) : nodes'[i] = nodes[i]
      /\ nodes'[Len(nodes) + 1] = node
  BY <1>1, <1>2, AppendProperties
<1>4. Len(nodes) \in Nat /\ DOMAIN nodes' = 1..(Len(nodes) + 1)
  BY <1>2, <1>3, LenProperties
<1> QED
  BY <1>1, <1>3, <1>4

\* A node that is added needs earlier nodes only.
LEMMA AddKeepsPlan ==
    ASSUME ResolverInv, AtEnd, nodes' = Added, UNCHANGED live,
           provided' = Provide(Top.component, Planned(Len(nodes')))
    PROVE  /\ \A i \in DOMAIN nodes' : \A b \in DOMAIN nodes'[i].imports :
                 Provides(nodes'[i].imports[b].source, nodes'[i].imports[b].id, live', nodes', i - 1)
           /\ \A i \in DOMAIN nodes' : \A b \in DOMAIN nodes'[i].imports :
                 Fits(nodes'[i].imports[b], live')
           /\ \A d \in DOMAIN stack : \A b \in DOMAIN stack[d].bindings :
                 Provides(stack[d].bindings[b].source, stack[d].bindings[b].id, live', nodes',
                          Len(nodes'))
           /\ ProvidedExports'
           /\ provided' \in [DOMAIN provided' -> Key] /\ DOMAIN provided' \subseteq Ids
<1> DEFINE n == Len(nodes)
<1>0. TypeOK /\ outcome = "planning"
  BY DEF ResolverInv, AtEnd
<1>1. /\ n \in Nat /\ nodes' \in Seq(NodeType) /\ Len(nodes') = n + 1
      /\ DOMAIN nodes' = 1..(n + 1)
      /\ \A i \in 1..n : nodes'[i] = nodes[i]
      /\ nodes'[n + 1].component = Top.component
      /\ nodes'[n + 1].imports = Top.bindings
  BY <1>0, AddedNode
<1>2. nodes \in Seq(NodeType) /\ DOMAIN nodes = 1..n
  BY <1>0, LenProperties DEF TypeOK, NodeType
<1>3. /\ Len(stack) \in DOMAIN stack /\ Top.bindings = stack[Len(stack)].bindings
      /\ Top.component \in Components
  BY <1>0, TopType DEF Top
<1>4. /\ \A i \in 1..n : \A b \in DOMAIN nodes[i].imports :
            nodes[i].imports[b].source \in Source
      /\ \A d \in DOMAIN stack : \A b \in DOMAIN stack[d].bindings :
            stack[d].bindings[b].source \in Source
  <2>1. ASSUME NEW i \in 1..n, NEW b \in DOMAIN nodes[i].imports
        PROVE  nodes[i].imports[b].source \in Source
    <3>0. nodes[i] \in NodeType
      BY <1>2
    <3>1. nodes[i].imports \in Seq(Binding)
      BY <3>0 DEF NodeType
    <3>2. nodes[i].imports[b] \in Binding
      BY <3>1
    <3> QED
      BY <3>2 DEF Binding
  <2>2. ASSUME NEW d \in DOMAIN stack, NEW b \in DOMAIN stack[d].bindings
        PROVE  stack[d].bindings[b].source \in Source
    <3>0. stack[d] \in FrameType
      <4>1. stack \in Seq(FrameType)
        BY <1>0 DEF TypeOK, FrameType
      <4> QED
        BY <4>1
    <3>1. stack[d].bindings \in Seq(Binding)
      BY <3>0 DEF FrameType
    <3>2. stack[d].bindings[b] \in Binding
      BY <3>1
    <3> QED
      BY <3>2 DEF Binding
  <2> QED
    BY <2>1, <2>2
<1> HIDE DEF n
<1>5. ASSUME NEW d \in DOMAIN stack, NEW b \in DOMAIN stack[d].bindings, NEW m \in {n, n + 1}
      PROVE  Provides(stack[d].bindings[b].source, stack[d].bindings[b].id, live, nodes', m)
  <2>1. Provides(stack[d].bindings[b].source, stack[d].bindings[b].id, live, nodes, n)
    BY DEF ResolverInv, DependenciesFirst, n
  <2> QED
    BY <1>1, <1>4, <2>1, ProvidesMore
<1>6. \A i \in DOMAIN nodes' : \A b \in DOMAIN nodes'[i].imports :
         /\ Provides(nodes'[i].imports[b].source, nodes'[i].imports[b].id, live, nodes', i - 1)
         /\ Fits(nodes'[i].imports[b], live)
  <2> SUFFICES ASSUME NEW i \in 1..(n + 1), NEW b \in DOMAIN nodes'[i].imports
               PROVE  /\ Provides(nodes'[i].imports[b].source, nodes'[i].imports[b].id, live,
                                  nodes', i - 1)
                      /\ Fits(nodes'[i].imports[b], live)
    BY <1>1
  <2>1. CASE i = n + 1
    <3>1. nodes'[i].imports = stack[Len(stack)].bindings /\ i - 1 = n
      BY <2>1, <1>1, <1>3
    <3>2. Provides(nodes'[i].imports[b].source, nodes'[i].imports[b].id, live, nodes', i - 1)
      BY <3>1, <1>3, <1>5
    <3>3. Fits(nodes'[i].imports[b], live)
      BY <3>1, <1>3 DEF ResolverInv, AllFit
    <3> QED
      BY <3>2, <3>3
  <2>2. CASE i # n + 1
    <3>1. i \in 1..n /\ i - 1 \in Nat /\ \A j \in 1..(i - 1) : j \in 1..n
      BY <2>2, <1>1
    <3>2. nodes'[i] = nodes[i]
      BY <3>1, <1>1
    <3>3. Provides(nodes[i].imports[b].source, nodes[i].imports[b].id, live, nodes, i - 1)
      BY <3>1, <3>2, <1>2 DEF ResolverInv, DependenciesFirst
    <3>4. \A j \in 1..(i - 1) : nodes'[j] = nodes[j]
      BY <3>1, <1>1
    <3>5. Provides(nodes[i].imports[b].source, nodes[i].imports[b].id, live, nodes', i - 1)
      BY <3>1, <3>2, <3>3, <3>4, <1>4, ProvidesMore
    <3>6. Fits(nodes[i].imports[b], live)
      BY <3>1, <3>2, <1>2 DEF ResolverInv, AllFit
    <3> QED
      BY <3>2, <3>5, <3>6
  <2> QED
    BY <2>1, <2>2
<1>7. /\ DOMAIN provided' = DOMAIN provided \cup Exports[Top.component]
      /\ \A id \in DOMAIN provided : provided'[id] = provided[id]
      /\ \A id \in DOMAIN provided' \ DOMAIN provided : provided'[id] = Planned(n + 1)
  BY <1>1 DEF Provide
<1>8. Planned(n + 1) \in Key
  BY <1>1 DEF Planned, Key
<1>9. DOMAIN provided' \subseteq Ids /\ provided' \in [DOMAIN provided' -> Key]
  <2>1. Exports[Top.component] \subseteq Ids
    BY <1>3, ResolverAssumption
  <2>2. \A id \in DOMAIN provided' : provided'[id] \in Key
    BY <1>0, <1>7, <1>8 DEF TypeOK
  <2>3. provided' = [id \in DOMAIN provided' |-> provided'[id]]
    BY DEF Provide
  <2> QED
    BY <1>0, <1>7, <2>1, <2>2, <2>3 DEF TypeOK
<1>10. ASSUME NEW id \in DOMAIN provided'
       PROVE  Provides(InProcessSource(provided'[id]), id, live, nodes', n + 1)
  <2>1. CASE id \in DOMAIN provided
    <3>1. Provides(InProcessSource(provided[id]), id, live, nodes, n)
      BY <2>1 DEF ResolverInv, ProvidedExports, n
    <3>2. InProcessSource(provided[id]) \in Source
      BY <1>0, <2>1 DEF TypeOK, InProcessSource, Source
    <3>3. n <= n + 1 /\ n + 1 \in Nat
      BY <1>1
    <3> QED
      BY <1>1, <1>7, <2>1, <3>1, <3>2, <3>3, ProvidesMore
  <2>2. CASE id \notin DOMAIN provided
    <3>1. provided'[id] = Planned(n + 1) /\ id \in Exports[Top.component]
      BY <2>2, <1>7
    <3>2. At(Planned(n + 1), live, nodes') = Top.component
      BY <1>1 DEF At, Planned
    <3>3. n + 1 \in 1..(n + 1)
      BY <1>1
    <3> QED
      BY <3>1, <3>2, <3>3 DEF Provides, InProcessSource, Planned
  <2> QED
    BY <2>1, <2>2
<1>11. \A i \in DOMAIN live : Exports[live[i]] \subseteq DOMAIN provided'
  BY <1>7 DEF ResolverInv, ProvidedExports
<1> QED
  BY <1>1, <1>5, <1>6, <1>9, <1>10, <1>11 DEF ProvidedExports

\* The component that was asked for ends the plan.
LEMMA ReturnRootKeepsInv ==
    ASSUME ResolverInv, ReturnRoot
    PROVE  ResolverInv'
<1>1. /\ AtEnd /\ outcome = "planning" /\ TypeOK /\ nodes' = Added /\ stack' = <<>>
      /\ provided' = Provide(Top.component, Planned(Len(nodes'))) /\ outcome' = "planned"
      /\ UNCHANGED <<live, missing>>
  BY DEF ReturnRoot, AtEnd, ResolverInv
<1>2. nodes' \in Seq(NodeType)
  BY <1>1, AddedNode
<1>3. provided' \in [DOMAIN provided' -> Key] /\ DOMAIN provided' \subseteq Ids
  BY <1>1, AddKeepsPlan
<1>4. TypeOK'
  BY <1>1, <1>2, <1>3 DEF TypeOK, NodeType
<1>5. DependenciesFirst'
  BY <1>1, AddKeepsPlan DEF DependenciesFirst
<1>6. ProvidedExports'
  BY <1>1, AddKeepsPlan
<1>7. AllFit'
  BY <1>1, AddKeepsPlan DEF AllFit
<1> QED
  BY <1>4, <1>5, <1>6, <1>7 DEF ResolverInv

\* What the return of a provider makes of the call that loaded it.
LEMMA ReturnedFrame ==
    ASSUME TypeOK, ReturnProvider,
           NEW bound, bound = [id |-> CallerUse.id, shape |-> CallerUse.shape,
                               source |-> InProcessSource(Planned(Len(nodes) + 1))]
    PROVE  /\ bound \in Binding
           /\ Len(stack) \in Nat /\ Len(stack) > 1 /\ DOMAIN stack = 1..Len(stack)
           /\ Caller \in FrameType /\ Caller.loading = CallerUse.id
           /\ stack' \in Seq(FrameType) /\ Len(stack') = Len(stack) - 1
           /\ DOMAIN stack' = 1..(Len(stack) - 1)
           /\ stack'[Len(stack) - 1].component = Caller.component
           /\ stack'[Len(stack) - 1].bindings = Append(Caller.bindings, bound)
           /\ stack'[Len(stack) - 1].loading = None
           /\ \A d \in 1..(Len(stack) - 1) : d # Len(stack) - 1 => stack'[d] = stack[d]
<1> DEFINE n == Len(stack)
           source == InProcessSource(Planned(Len(nodes) + 1))
           frame == [component |-> Caller.component, bindings |-> Append(Caller.bindings, bound),
                     loading |-> None]
           popped == SubSeq(stack, 1, n - 1)
<1>1. /\ AtEnd /\ outcome = "planning" /\ TypeOK /\ nodes' = Added /\ n > 1
  BY DEF ReturnProvider, AtEnd
<1>2. Len(nodes) \in Nat /\ Len(nodes') = Len(nodes) + 1
  BY <1>1, AddedNode
<1>3. n \in Nat /\ n - 1 \in 1..n /\ n - 1 # n /\ DOMAIN stack = 1..n /\ stack \in Seq(FrameType)
  BY <1>1, TopType DEF TypeOK, FrameType
<1>4. /\ Caller = stack[n - 1] /\ Caller \in FrameType
      /\ Len(Caller.bindings) < Len(Imports[Caller.component])
      /\ Caller.loading = CallerUse.id
  <2>1. Caller = stack[n - 1]
    BY DEF Caller
  <2>2. /\ Len(stack[n - 1].bindings) < Len(Imports[stack[n - 1].component])
        /\ stack[n - 1].loading =
              Imports[stack[n - 1].component][Len(stack[n - 1].bindings) + 1].id
    <3>1. n - 1 \in DOMAIN stack /\ n - 1 # Len(stack)
      BY <1>3
    <3> HIDE DEF n
    <3> QED
      BY <1>1, <3>1 DEF TypeOK
  <2> HIDE DEF n
  <2>3. stack[n - 1] \in FrameType
    BY <1>3
  <2> QED
    BY <2>1, <2>2, <2>3 DEF CallerUse
<1>5. CallerUse \in Use
  <2>1. Caller.component \in Components /\ Len(Caller.bindings) \in Nat
    BY <1>4 DEF FrameType
  <2>2. Imports[Caller.component] \in Seq(Use)
    BY <2>1, ResolverAssumption
  <2>3. Len(Caller.bindings) + 1 \in 1..Len(Imports[Caller.component])
    BY <1>4, <2>1, <2>2
  <2> QED
    BY <2>2, <2>3 DEF CallerUse
<1>6. source \in Source /\ bound \in Binding
  <2>1. source \in Source
    BY <1>2 DEF InProcessSource, Planned, Source, Key
  <2> QED
    BY <1>5, <2>1 DEF Use, Binding
<1>7. /\ frame \in FrameType /\ frame.loading = None /\ frame.component = Caller.component
      /\ frame.bindings = Append(Caller.bindings, bound)
  BY <1>4, <1>6 DEF FrameType
<1>8. /\ popped \in Seq(FrameType) /\ Len(popped) = n - 1
      /\ \A d \in 1..(n - 1) : popped[d] = stack[d]
  <2> HIDE DEF n
  <2>1. \A d \in 1..(n - 1) : stack[d] \in FrameType
    BY <1>3
  <2> QED
    BY <1>3, <2>1, SubSeqProperties
<1>9. stack' = [popped EXCEPT ![n - 1] = frame]
  <2>1. popped[n - 1] = Caller
    <3> HIDE DEF n, popped
    <3>1. n - 1 \in 1..(n - 1)
      <4>1. n \in Nat /\ n > 1
        BY <1>1, <1>3
      <4> QED
        BY <4>1
    <3> QED
      BY <1>4, <1>8, <3>1
  <2> HIDE DEF n
  <2>2. stack' = [popped EXCEPT ![n - 1] =
                     Bind(@, CallerUse, InProcessSource(Planned(Len(nodes'))))]
    BY DEF ReturnProvider, n
  <2> HIDE DEF popped
  <2> QED
    BY <1>2, <2>1, <2>2 DEF Bind
<1> HIDE DEF frame
<1>10. /\ stack' \in Seq(FrameType) /\ Len(stack') = n - 1 /\ DOMAIN stack' = 1..(n - 1)
       /\ stack'[n - 1] = frame
       /\ \A d \in 1..(n - 1) : d # n - 1 => stack'[d] = stack[d]
  <2> HIDE DEF popped, n
  <2>1. n - 1 \in 1..Len(popped)
    BY <1>3, <1>8
  <2>2. /\ stack' \in Seq(FrameType) /\ Len(stack') = n - 1
        /\ \A d \in 1..(n - 1) : stack'[d] = IF d = n - 1 THEN frame ELSE popped[d]
    BY <1>7, <1>8, <1>9, <2>1, ExceptSeq
  <2>3. DOMAIN stack' = 1..(n - 1)
    BY <2>2, LenProperties
  <2> QED
    BY <1>3, <1>8, <2>2, <2>3
<1> QED
  BY <1>1, <1>3, <1>4, <1>6, <1>7, <1>10

\* A provider that is planned is bound to the import it was fetched for.
LEMMA ReturnProviderKeepsInv ==
    ASSUME ResolverInv, ReturnProvider
    PROVE  ResolverInv'
<1> DEFINE n == Len(stack)
           bound == [id |-> CallerUse.id, shape |-> CallerUse.shape,
                     source |-> InProcessSource(Planned(Len(nodes) + 1))]
<1>1. /\ AtEnd /\ outcome = "planning" /\ TypeOK /\ nodes' = Added /\ n > 1
      /\ provided' = Provide(Top.component, Planned(Len(nodes')))
      /\ UNCHANGED <<live, missing, outcome>>
      /\ Caller.loading \in Exports[Top.component]
  BY DEF ReturnProvider, AtEnd, ResolverInv
<1>2. /\ Len(nodes) \in Nat /\ nodes' \in Seq(NodeType) /\ Len(nodes') = Len(nodes) + 1
      /\ nodes'[Len(nodes) + 1].component = Top.component
  BY <1>1, AddedNode
<1>3. n \in Nat /\ n - 1 \in 1..n /\ n - 1 # n /\ DOMAIN stack = 1..n /\ stack \in Seq(FrameType)
  BY <1>1, TopType DEF TypeOK, FrameType
<1>4. Caller = stack[n - 1] /\ Caller \in FrameType /\ Caller.loading = CallerUse.id
  BY <1>1, ReturnedFrame DEF Caller
<1>10. /\ stack' \in Seq(FrameType) /\ Len(stack') = n - 1 /\ DOMAIN stack' = 1..(n - 1)
       /\ stack'[n - 1].loading = None
       /\ stack'[n - 1].bindings = Append(Caller.bindings, bound)
       /\ \A d \in 1..(n - 1) : d # n - 1 => stack'[d] = stack[d]
  BY <1>1, ReturnedFrame
<1> HIDE DEF n
<1>11. TypeOK'
  <2>1. \A d \in DOMAIN stack' :
           IF d = Len(stack') THEN stack'[d].loading = None
           ELSE /\ Len(stack'[d].bindings) < Len(Imports[stack'[d].component])
                /\ stack'[d].loading = Imports[stack'[d].component][Len(stack'[d].bindings) + 1].id
    <3> SUFFICES ASSUME NEW d \in 1..(n - 1), d # n - 1
                 PROVE  /\ Len(stack'[d].bindings) < Len(Imports[stack'[d].component])
                        /\ stack'[d].loading =
                              Imports[stack'[d].component][Len(stack'[d].bindings) + 1].id
      BY <1>10
    <3>1. stack'[d] = stack[d]
      BY <1>10
    <3>2. d \in 1..n /\ d # n
      BY <1>3
    <3> QED
      BY <1>1, <1>3, <3>1, <3>2 DEF TypeOK, n
  <2>2. (outcome = "planned" <=> stack = <<>>)'
    <3>1. Len(stack') # 0
      BY <1>3, <1>10
    <3> QED
      BY <1>1, <3>1
  <2>3. provided' \in [DOMAIN provided' -> Key] /\ DOMAIN provided' \subseteq Ids
    BY <1>1, AddKeepsPlan
  <2> QED
    BY <1>1, <1>2, <1>10, <2>1, <2>2, <2>3 DEF TypeOK, FrameType, NodeType
<1>12. \A d \in DOMAIN stack' : \A b \in DOMAIN stack'[d].bindings :
          \/ d \in DOMAIN stack /\ b \in DOMAIN stack[d].bindings
                /\ stack'[d].bindings[b] = stack[d].bindings[b]
          \/ stack'[d].bindings[b] = bound
  <2> SUFFICES ASSUME NEW d \in 1..(n - 1), NEW b \in DOMAIN stack'[d].bindings
               PROVE  \/ d \in DOMAIN stack /\ b \in DOMAIN stack[d].bindings
                            /\ stack'[d].bindings[b] = stack[d].bindings[b]
                      \/ stack'[d].bindings[b] = bound
    BY <1>10
  <2>0. d \in DOMAIN stack
    BY <1>3
  <2>1. CASE d # n - 1
    BY <2>0, <2>1, <1>10
  <2>2. CASE d = n - 1
    <3>1. Caller.bindings \in Seq(Binding)
      BY <1>4 DEF FrameType
    <3>2. stack'[d].bindings = Append(Caller.bindings, bound) /\ stack[d] = Caller
      BY <2>2, <1>4, <1>10
    <3> HIDE DEF bound
    <3> QED
      BY <2>0, <3>1, <3>2
  <2> QED
    BY <2>1, <2>2
<1>13. Provides(bound.source, bound.id, live', nodes', Len(nodes'))
  <2>1. At(Planned(Len(nodes) + 1), live', nodes') = Top.component
    BY <1>2 DEF At, Planned
  <2>2. Len(nodes) + 1 \in 1..Len(nodes')
    BY <1>2
  <2> QED
    BY <1>1, <1>4, <2>1, <2>2 DEF Provides, InProcessSource, Planned
<1>14. Fits(bound, live')
  BY DEF Fits, InProcessSource
<1> HIDE DEF bound
<1>15. DependenciesFirst'
  BY <1>1, <1>12, <1>13, AddKeepsPlan DEF DependenciesFirst
<1>16. ProvidedExports'
  BY <1>1, AddKeepsPlan
<1>17. AllFit'
  <2>1. \A d \in DOMAIN stack : \A b \in DOMAIN stack[d].bindings :
           Fits(stack[d].bindings[b], live')
    BY <1>1 DEF ResolverInv, AllFit
  <2> QED
    BY <1>1, <1>12, <1>14, <2>1, AddKeepsPlan DEF AllFit
<1> QED
  BY <1>11, <1>15, <1>16, <1>17 DEF ResolverInv

-----------------------------------------------------------------------------
(* plan begins, and every step keeps the invariant.                        *)

LEMMA InitInv == Init => ResolverInv
<1> SUFFICES ASSUME Init
             PROVE  ResolverInv
  OBVIOUS
<1>1. live \in Seq(Components)
  <2>1. PICK k \in 0..MaxLive : live \in [1..k -> Components]
    BY DEF Init
  <2>2. k \in Nat
    BY ResolverAssumption
  <2> QED
    BY <2>1, <2>2
<1>2. PICK root \in Components : stack = <<Frame(root)>>
  BY DEF Init
<1>3. Frame(root) \in FrameType /\ Frame(root).loading = None /\ Frame(root).bindings = <<>>
  BY DEF Frame, FrameType
<1>4. /\ stack \in Seq(FrameType) /\ Len(stack) = 1 /\ DOMAIN stack = {1} /\ stack # <<>>
      /\ stack[1].loading = None /\ stack[1].bindings = <<>>
  <2> HIDE DEF Frame
  <2> QED
    BY <1>2, <1>3
<1> DEFINE exported == {id \in Ids : Exporters(id) # {}}
<1>5. /\ provided \in [exported -> [at : {"live"}, index : DOMAIN live]]
      /\ \A id \in exported : IsFirst(provided[id].index, Exporters(id))
  BY DEF Init, ProvideLive
<1>6. provided \in [DOMAIN provided -> Key] /\ DOMAIN provided \subseteq Ids
  <2>1. DOMAIN live \subseteq Nat
    BY <1>1
  <2>2. [at : {"live"}, index : DOMAIN live] \subseteq Key
    BY <2>1 DEF Key
  <2> QED
    BY <1>5, <2>2
<1>7. TypeOK
  BY <1>1, <1>4, <1>6 DEF Init, TypeOK, FrameType
<1>8. nodes = <<>> /\ DOMAIN nodes = {}
  BY DEF Init
<1>9. DependenciesFirst
  BY <1>4, <1>8 DEF DependenciesFirst
<1>10. ProvidedExports
  <2>1. ASSUME NEW id \in DOMAIN provided
        PROVE  Provides(InProcessSource(provided[id]), id, live, nodes, Len(nodes))
    <3>1. id \in exported /\ provided[id].at = "live"
      BY <1>5
    <3>2. provided[id].index \in DOMAIN live /\ id \in Exports[live[provided[id].index]]
      BY <1>5, <3>1 DEF IsFirst, Exporters
    <3> QED
      BY <3>1, <3>2 DEF Provides, InProcessSource, At
  <2>2. ASSUME NEW i \in DOMAIN live, NEW id \in Exports[live[i]]
        PROVE  id \in DOMAIN provided
    <3>1. live[i] \in Components
      BY <1>1
    <3>2. id \in Ids
      BY <3>1, ResolverAssumption
    <3>3. id \in exported
      BY <3>2 DEF Exporters
    <3> QED
      BY <1>5, <3>3
  <2> QED
    BY <2>1, <2>2 DEF ProvidedExports
<1>11. AllFit
  BY <1>4, <1>8 DEF AllFit
<1> QED
  BY <1>7, <1>9, <1>10, <1>11 DEF ResolverInv

\* What the registry answers is a sequence of resolutions.
LEMMA AnswerType ==
    ASSUME NEW id, NEW answer \in Answers(id)
    PROVE  \A i \in DOMAIN answer : answer[i] \in Resolutions
<1>1. PICK k \in 0..MaxAnswer :
         answer \in [1..k -> {r \in Resolutions : <<r.id, id>> \in Satisfies}]
  BY DEF Answers
<1> QED
  BY <1>1

\* Every way of finding a source keeps it.
LEMMA SourceForKeepsInv ==
    ASSUME ResolverInv, SourceFor
    PROVE  ResolverInv'
<1>0. TypeOK
  BY DEF ResolverInv
<1>1. CASE UseProvided
  <2>1. AtImport /\ Used.id \in DOMAIN provided /\ BindTop(InProcessSource(provided[Used.id]))
    BY <1>1 DEF UseProvided
  <2>2. InProcessSource(provided[Used.id]) \in Source
    BY <1>0, <2>1 DEF TypeOK, InProcessSource, Source
  <2>3. Provides(InProcessSource(provided[Used.id]), Used.id, live, nodes, Len(nodes))
    BY <2>1 DEF ResolverInv, ProvidedExports
  <2>4. Fits([id |-> Used.id, shape |-> Used.shape,
              source |-> InProcessSource(provided[Used.id])], live)
    BY DEF Fits, InProcessSource
  <2> QED
    BY <2>1, <2>2, <2>3, <2>4, BindTopKeepsInv
<1>2. CASE FindCycle
  <2>1. "cycle" \in Errors /\ outcome = "planning" /\ Fail("cycle")
    BY <1>2 DEF FindCycle, Wanted, AtImport, Errors
  <2> QED
    BY <2>1, FailKeepsInv
<1>3. CASE AskInVain
  <2>1. "registry" \in Errors /\ outcome = "planning" /\ Fail("registry")
    BY <1>3 DEF AskInVain, Wanted, AtImport, Errors
  <2> QED
    BY <2>1, FailKeepsInv
<1>4. ASSUME Wanted, NEW answer \in Answers(Used.id),
             \/ Load(answer) \/ LoadFails(answer) \/ UseService(answer)
             \/ FindMismatch(answer) \/ FindNobody(answer)
      PROVE  ResolverInv'
  <2>0. AtImport /\ outcome = "planning" /\ Used.id \notin DOMAIN provided
    BY <1>4 DEF Wanted, AtImport
  <2>1. CASE Load(answer)
    BY <2>0, <2>1, LoadKeepsInv
  <2>2. CASE LoadFails(answer)
    <3>1. PICK error \in {"fetch", "artifact-mismatch", "compile", "scan"} : Fail(error)
      BY <2>2 DEF LoadFails
    <3>2. error \in Errors
      BY DEF Errors
    <3> QED
      BY <2>0, <3>1, <3>2, FailKeepsInv
  <2>3. CASE UseService(answer)
    <3>1. PICK i \in DOMAIN answer :
             IsFirst(i, Services(answer)) /\ BindTop(NatsSource(answer[i]))
      BY <2>3 DEF UseService
    <3>2. answer[i] \in Resolutions /\ IsService(Used, answer[i])
      BY <3>1, AnswerType DEF IsFirst, Services
    <3>3. NatsSource(answer[i]) \in Source /\ NatsSource(answer[i]).kind = "nats"
             /\ NatsSource(answer[i]).service = answer[i]
      BY <3>2 DEF NatsSource, Source
    <3>4. Provides(NatsSource(answer[i]), Used.id, live, nodes, Len(nodes))
      BY <3>3 DEF Provides
    <3>5. \A j \in DOMAIN live : Used.id \notin Exports[live[j]]
      BY <2>0 DEF ResolverInv, ProvidedExports
    <3>6. Used.shape # InProcess /\ answer[i].digest = Used.shape
      BY <3>2 DEF IsService, Agrees
    <3>7. Fits([id |-> Used.id, shape |-> Used.shape, source |-> NatsSource(answer[i])], live)
      BY <3>3, <3>5, <3>6 DEF Fits
    <3> QED
      BY <2>0, <3>1, <3>3, <3>4, <3>7, BindTopKeepsInv
  <2>4. CASE FindMismatch(answer)
    <3>1. "shape-mismatch" \in Errors /\ Fail("shape-mismatch")
      BY <2>4 DEF FindMismatch, Errors
    <3> QED
      BY <2>0, <3>1, FailKeepsInv
  <2>5. CASE FindNobody(answer)
    <3>1. CASE BindTop(TrapSource)
      <4>1. TrapSource \in Source /\ TrapSource.kind = "trap"
        BY DEF TrapSource, Source
      <4>2. Provides(TrapSource, Used.id, live, nodes, Len(nodes))
        BY <4>1 DEF Provides
      <4>3. Fits([id |-> Used.id, shape |-> Used.shape, source |-> TrapSource], live)
        BY <4>1 DEF Fits
      <4> QED
        BY <2>0, <3>1, <4>1, <4>2, <4>3, BindTopKeepsInv
    <3>2. ASSUME NEW error \in {"in-process-only", "unsatisfied"}, Fail(error)
          PROVE  ResolverInv'
      <4>1. error \in Errors
        BY DEF Errors
      <4> QED
        BY <2>0, <3>2, <4>1, FailKeepsInv
    <3> QED
      BY <2>5, <3>1, <3>2 DEF FindNobody
  <2> QED
    BY <1>4, <2>1, <2>2, <2>3, <2>4, <2>5
<1> QED
  BY <1>1, <1>2, <1>3, <1>4 DEF SourceFor

\* Every way of ending a component keeps it.
LEMMA AddStepKeepsInv ==
    ASSUME ResolverInv, Add
    PROVE  ResolverInv'
<1>1. CASE ReturnUseless
  <2>1. "not-exported" \in Errors /\ outcome = "planning" /\ Fail("not-exported")
    BY <1>1 DEF ReturnUseless, AtEnd, Errors
  <2> QED
    BY <2>1, FailKeepsInv
<1> QED
  BY <1>1, ReturnRootKeepsInv, ReturnProviderKeepsInv DEF Add

\* Nothing happens.
LEMMA StutterKeepsInv ==
    ASSUME ResolverInv, UNCHANGED vars
    PROVE  ResolverInv'
<1>1. UNCHANGED <<live, missing, stack, nodes, provided, outcome>>
  BY DEF vars
<1>2. TypeOK'
  BY <1>1 DEF ResolverInv, TypeOK
<1>3. DependenciesFirst' /\ ProvidedExports' /\ AllFit'
  BY <1>1 DEF ResolverInv, DependenciesFirst, ProvidedExports, AllFit
<1> QED
  BY <1>2, <1>3 DEF ResolverInv

\* A plan is what ResolverInv says at every step of planning.
LEMMA ResolverInvariant == Spec => []ResolverInv
<1>1. ResolverInv /\ [Next]_vars => ResolverInv'
  BY SourceForKeepsInv, AddStepKeepsInv, StutterKeepsInv DEF Next
<1> QED
  BY InitInv, <1>1, PTL DEF Spec

-----------------------------------------------------------------------------
(* The theorems.                                                           *)

\* The calls of add, the plan and what it provides keep their types, and each
\* call of add but the innermost waits for the provider of its next import.
THEOREM TypeCorrect == Spec => []TypeOK
<1>1. ResolverInv => TypeOK
  BY DEF ResolverInv
<1> QED
  BY <1>1, ResolverInvariant, PTL

\* Instantiating a plan in order never reaches an import whose provider is not
\* yet up, and no import goes to a component that does not export it.
THEOREM PlanIsDependenciesFirst == Spec => []DependenciesFirst
<1>1. ResolverInv => DependenciesFirst
  BY DEF ResolverInv
<1> QED
  BY <1>1, ResolverInvariant, PTL

\* Nothing goes over NATS that a wire cannot carry, whose provider advertises
\* another shape, or that a component of this host already exports.
THEOREM OnlyWhatFitsIsRemote == Spec => []WireOnlyWhatFits
<1>1. AllFit => WireOnlyWhatFits
  <2>1. SUFFICES ASSUME AllFit, NEW b \in Bindings
                 PROVE  Fits(b, live)
    BY DEF WireOnlyWhatFits, Fits
  <2>2. CASE b \in UNION {{nodes[i].imports[k] : k \in DOMAIN nodes[i].imports} :
                            i \in DOMAIN nodes}
    <3>1. PICK i \in DOMAIN nodes : \E k \in DOMAIN nodes[i].imports : b = nodes[i].imports[k]
      BY <2>2
    <3>2. PICK k \in DOMAIN nodes[i].imports : b = nodes[i].imports[k]
      BY <3>1
    <3>3. Fits(nodes[i].imports[k], live)
      BY <2>1 DEF AllFit
    <3> QED
      BY <3>2, <3>3
  <2>3. CASE b \in UNION {{stack[d].bindings[k] : k \in DOMAIN stack[d].bindings} :
                            d \in DOMAIN stack}
    <3>1. PICK d \in DOMAIN stack : \E k \in DOMAIN stack[d].bindings : b = stack[d].bindings[k]
      BY <2>3
    <3>2. PICK k \in DOMAIN stack[d].bindings : b = stack[d].bindings[k]
      BY <3>1
    <3>3. Fits(stack[d].bindings[k], live)
      BY <2>1 DEF AllFit
    <3> QED
      BY <3>2, <3>3
  <2> QED
    BY <2>2, <2>3 DEF Bindings
<1>2. ResolverInv => WireOnlyWhatFits
  BY <1>1 DEF ResolverInv
<1> QED
  BY <1>2, ResolverInvariant, PTL

-----------------------------------------------------------------------------
(* What a node needs.                                                      *)

\* Whether f is what each of the first n nodes of a plan needs.
Solves(f, made, n) == f = [i \in 1..n |-> BoundTo(made[i]) \cup UNION {f[j] : j \in BoundTo(made[i])}]

Backwards(made, n) == \A i \in 1..n : BoundTo(made[i]) \subseteq 1..(i - 1)

\* Needs is well defined where dependencies come first.
LEMMA NeedsExist ==
    ASSUME NEW made, NEW n \in Nat, Backwards(made, n)
    PROVE  \E f : Solves(f, made, n)
<1> DEFINE T == {k \in 1..n : ~ \E f : Solves(f, made, k)}
<1>1. \E f : Solves(f, made, 0)
  <2> DEFINE f == [i \in 1..0 |-> {}]
  <2>1. f = [i \in 1..0 |-> BoundTo(made[i]) \cup UNION {f[j] : j \in BoundTo(made[i])}]
    OBVIOUS
  <2> HIDE DEF f
  <2> QED
    BY <2>1 DEF Solves
<1>2. ASSUME NEW k \in T, IsFirst(k, T) PROVE FALSE
  <2>1. k \in 1..n /\ k - 1 \in 0..n /\ ~IsFirst(k - 1, T) /\ k - 1 \notin T
    BY <1>2 DEF IsFirst
  <2>2. PICK g : Solves(g, made, k - 1)
    BY <1>1, <2>1
  <2> DEFINE last == BoundTo(made[k]) \cup UNION {g[j] : j \in BoundTo(made[k])}
             f == [i \in 1..k |-> IF i = k THEN last ELSE g[i]]
  <2>3. \A i \in 1..k : \A j \in BoundTo(made[i]) : f[j] = g[j]
    <3> SUFFICES ASSUME NEW i \in 1..k, NEW j \in BoundTo(made[i]) PROVE f[j] = g[j]
      OBVIOUS
    <3>1. k \in Nat /\ i \in 1..n
      BY <2>1
    <3>2. j \in 1..(i - 1)
      BY <3>1 DEF Backwards
    <3>3. j \in 1..k /\ j # k
      BY <3>1, <3>2
    <3> QED
      BY <3>3
  <2>4. \A i \in 1..(k - 1) : g[i] = BoundTo(made[i]) \cup UNION {g[j] : j \in BoundTo(made[i])}
    BY <2>2 DEF Solves
  <2>5. ASSUME NEW i \in 1..k PROVE f[i] = BoundTo(made[i]) \cup UNION {f[j] : j \in BoundTo(made[i])}
    <3>1. {f[j] : j \in BoundTo(made[i])} = {g[j] : j \in BoundTo(made[i])}
      BY <2>3
    <3>2. f[i] = BoundTo(made[i]) \cup UNION {g[j] : j \in BoundTo(made[i])}
      <4>1. i = k \/ i \in 1..(k - 1)
        BY <2>1
      <4> QED
        BY <2>1, <2>4, <4>1
    <3> QED
      BY <3>1, <3>2
  <2>6. DOMAIN f = 1..k
    OBVIOUS
  <2> HIDE DEF f
  <2>7. f = [i \in 1..k |-> BoundTo(made[i]) \cup UNION {f[j] : j \in BoundTo(made[i])}]
    <3>1. f = [i \in 1..k |-> f[i]]
      BY <2>6 DEF f
    <3> QED
      BY <2>5, <3>1
  <2> QED
    BY <2>1, <2>7 DEF Solves
<1>3. T = {}
  BY <1>2, LeastNatural DEF IsFirst
<1> QED
  BY <1>1, <1>3

\* A longer plan changes nothing for the nodes there are.
LEMMA NeedsStay ==
    ASSUME NEW made, NEW more, NEW n \in Nat, NEW m \in Nat, n <= m, Backwards(made, n),
           \A i \in 1..n : more[i] = made[i],
           NEW f, Solves(f, made, n), NEW g, Solves(g, more, m)
    PROVE  \A i \in 1..n : g[i] = f[i]
<1> DEFINE T == {k \in 1..n : g[k] # f[k]}
<1>1. ASSUME NEW k \in T, IsFirst(k, T) PROVE FALSE
  <2>1. k \in 1..n /\ k \in 1..m /\ \A j \in 1..(k - 1) : g[j] = f[j]
    BY <1>1 DEF IsFirst
  <2>2. BoundTo(made[k]) \subseteq 1..(k - 1) /\ more[k] = made[k]
    BY <2>1 DEF Backwards
  <2>3. {g[j] : j \in BoundTo(made[k])} = {f[j] : j \in BoundTo(made[k])}
    BY <2>1, <2>2
  <2>4. f[k] = BoundTo(made[k]) \cup UNION {f[j] : j \in BoundTo(made[k])}
    BY <2>1 DEF Solves
  <2>5. g[k] = BoundTo(made[k]) \cup UNION {g[j] : j \in BoundTo(made[k])}
    BY <2>1, <2>2 DEF Solves
  <2> QED
    BY <1>1, <2>3, <2>4, <2>5
<1>2. T = {}
  BY <1>1, LeastNatural DEF IsFirst
<1> QED
  BY <1>2

\* What NeedsOf is.
LEMMA NeedsSolves ==
    ASSUME NEW made, NEW n \in Nat, DOMAIN made = 1..n, Backwards(made, n)
    PROVE  Solves(NeedsOf(made), made, n)
<1>1. PICK f : Solves(f, made, n)
  BY NeedsExist
<1> DEFINE P(g) == g = [i \in DOMAIN made |-> BoundTo(made[i]) \cup UNION {g[j] : j \in BoundTo(made[i])}]
<1>2. \A g : P(g) <=> Solves(g, made, n)
  BY DEF Solves
<1>3. NeedsOf(made) = CHOOSE g : P(g)
  BY DEF NeedsOf
<1> HIDE DEF P
<1>4. P(CHOOSE g : P(g))
  BY <1>1, <1>2, Zenon
<1> QED
  BY <1>2, <1>3, <1>4, Zenon

\* In a plan that lists dependencies first, nodes need only earlier ones.
LEMMA PlansGoBackwards ==
    ASSUME NEW made, NEW n \in Nat, NEW alive,
           \A i \in 1..n : \A b \in DOMAIN made[i].imports :
              Provides(made[i].imports[b].source, made[i].imports[b].id, alive, made, i - 1)
    PROVE  Backwards(made, n)
<1> SUFFICES ASSUME NEW i \in 1..n, NEW j \in BoundTo(made[i]) PROVE j \in 1..(i - 1)
  BY DEF Backwards
<1>1. PICK b \in DOMAIN made[i].imports :
         InPlan(made[i].imports[b].source) /\ j = made[i].imports[b].source.key.index
  BY DEF BoundTo
<1>2. Provides(made[i].imports[b].source, made[i].imports[b].id, alive, made, i - 1)
  OBVIOUS
<1> QED
  BY <1>1, <1>2 DEF Provides, InPlan

\* What add appends needs what it is bound to and what that needs, and the
\* others need what they did.
LEMMA NeedsGrow ==
    ASSUME ResolverInv, AtEnd, nodes' = Added, UNCHANGED live,
           provided' = Provide(Top.component, Planned(Len(nodes')))
    PROVE  /\ \A i \in 1..Len(nodes) : Needs'[i] = Needs[i]
           /\ \A b \in DOMAIN Top.bindings : InPlan(Top.bindings[b].source) =>
                 /\ Top.bindings[b].source.key.index \in Needs'[Len(nodes) + 1]
                 /\ Needs[Top.bindings[b].source.key.index] \subseteq Needs'[Len(nodes) + 1]
<1> DEFINE n == Len(nodes)
<1>0. TypeOK /\ outcome = "planning"
  BY DEF ResolverInv, AtEnd
<1>1. /\ n \in Nat /\ n + 1 \in Nat /\ DOMAIN nodes' = 1..(n + 1)
      /\ \A i \in 1..n : nodes'[i] = nodes[i]
      /\ nodes'[n + 1].imports = Top.bindings
  BY <1>0, AddedNode
<1>2. DOMAIN nodes = 1..n
  BY <1>0, LenProperties DEF TypeOK
<1> HIDE DEF n
<1>3. Backwards(nodes, n)
  BY <1>1, <1>2, PlansGoBackwards DEF ResolverInv, DependenciesFirst
<1>4. Backwards(nodes', n + 1)
  BY <1>1, AddKeepsPlan, PlansGoBackwards
<1>5. Solves(Needs, nodes, n)
  BY <1>1, <1>2, <1>3, NeedsSolves DEF Needs
<1>6. Solves(Needs', nodes', n + 1)
  BY <1>1, <1>4, NeedsSolves DEF Needs
<1>7. \A i \in 1..n : Needs'[i] = Needs[i]
  BY <1>1, <1>3, <1>5, <1>6, NeedsStay
<1>8. /\ n + 1 \in 1..(n + 1)
      /\ Needs'[n + 1] = BoundTo(nodes'[n + 1]) \cup UNION {Needs'[j] : j \in BoundTo(nodes'[n + 1])}
  BY <1>1, <1>6 DEF Solves
<1>9. ASSUME NEW b \in DOMAIN Top.bindings, InPlan(Top.bindings[b].source)
      PROVE  /\ Top.bindings[b].source.key.index \in Needs'[n + 1]
             /\ Needs[Top.bindings[b].source.key.index] \subseteq Needs'[n + 1]
  <2> DEFINE j == Top.bindings[b].source.key.index
  <2>1. j \in BoundTo(nodes'[n + 1])
    BY <1>1, <1>9 DEF BoundTo
  <2>2. j \in 1..n
    BY <1>1, <1>4, <1>8, <2>1 DEF Backwards
  <2> HIDE DEF j
  <2>3. Needs'[j] \subseteq UNION {Needs'[k] : k \in BoundTo(nodes'[n + 1])}
    BY <2>1
  <2> QED
    BY <1>7, <1>8, <2>1, <2>2, <2>3 DEF j
<1> QED
  BY <1>7, <1>9 DEF n

-----------------------------------------------------------------------------
(* The inductive invariant.                                                *)

Local(b) == b.source.kind = "in-process"

\* Whether a binding goes to the component that provides its interface, or to
\* one that needs that component: add of the one was under way when the other
\* came to provide it.
FirstOrOnTop(b, given, needs) ==
    /\ b.id \in DOMAIN given
    /\ \/ b.source.key = given[b.id]
       \/ /\ InPlan(b.source) /\ given[b.id].at = "planned"
          /\ given[b.id].index \in needs[b.source.key.index]

\* At most one component is on top of the one that provides an interface, and
\* none while that interface is pending.
OneFirst ==
    /\ \A b \in Bindings : Local(b) => FirstOrOnTop(b, provided, Needs)
    /\ \A b, c \in Bindings :
          Local(b) /\ Local(c) /\ b.id = c.id =>
              \/ b.source.key = c.source.key
              \/ b.source.key = provided[b.id]
              \/ c.source.key = provided[c.id]
    /\ \A b \in Bindings : Local(b) /\ b.id \in Pending => b.source.key = provided[b.id]

\* No two calls of add load a provider of the same interface.
LoadsDiffer ==
    \A d, e \in DOMAIN stack : d < e /\ e < Len(stack) => stack[d].loading # stack[e].loading

Reaches(source, i, needs) ==
    InPlan(source) /\ (source.key.index = i \/ i \in needs[source.key.index])

\* Whether an import of a call above d is bound to node i of the plan, or to
\* one that needs it.
ReachedAbove(d, calls, i, needs) ==
    \E e \in (d + 1)..Len(calls) : \E b \in DOMAIN calls[e].bindings :
        Reaches(calls[e].bindings[b].source, i, needs)

\* If something provides a pending interface already, what is being loaded for
\* it is being built on that.
BuiltOn ==
    \A d \in DOMAIN stack :
        d < Len(stack) /\ stack[d].loading \in DOMAIN provided =>
            /\ provided[stack[d].loading].at = "planned"
            /\ ReachedAbove(d, stack, provided[stack[d].loading].index, Needs)

SharingInv == OneFirst /\ LoadsDiffer /\ BuiltOn

-----------------------------------------------------------------------------
(* The bindings there are.                                                 *)

BindingsIn(made, calls) ==
    (UNION {{made[i].imports[b] : b \in DOMAIN made[i].imports} : i \in DOMAIN made})
        \cup (UNION {{calls[d].bindings[b] : b \in DOMAIN calls[d].bindings} : d \in DOMAIN calls})

\* A binding is an import of a node or of a call of add.
LEMMA BindingIsSomewhere ==
    ASSUME NEW made, NEW calls, NEW b
    PROVE  b \in BindingsIn(made, calls) <=>
              \/ \E i \in DOMAIN made : \E k \in DOMAIN made[i].imports : b = made[i].imports[k]
              \/ \E d \in DOMAIN calls : \E k \in DOMAIN calls[d].bindings : b = calls[d].bindings[k]
<1> DEFINE ofNode(i) == {made[i].imports[k] : k \in DOMAIN made[i].imports}
           ofCall(d) == {calls[d].bindings[k] : k \in DOMAIN calls[d].bindings}
<1>1. \A i \in DOMAIN made : b \in ofNode(i) <=> \E k \in DOMAIN made[i].imports : b = made[i].imports[k]
  OBVIOUS
<1>2. \A d \in DOMAIN calls : b \in ofCall(d) <=> \E k \in DOMAIN calls[d].bindings : b = calls[d].bindings[k]
  OBVIOUS
<1>3. BindingsIn(made, calls) =
         (UNION {ofNode(i) : i \in DOMAIN made}) \cup (UNION {ofCall(d) : d \in DOMAIN calls})
  BY DEF BindingsIn
<1> HIDE DEF ofNode, ofCall
<1>4. b \in BindingsIn(made, calls) <=>
         (\E i \in DOMAIN made : b \in ofNode(i)) \/ (\E d \in DOMAIN calls : b \in ofCall(d))
  BY <1>3
<1> QED
  BY <1>1, <1>2, <1>4

\* What is bound in process to a component of the plan is bound to one there is.
LEMMA InPlanIsPlanned ==
    ASSUME ResolverInv, NEW b \in Bindings, InPlan(b.source)
    PROVE  b.source.key.index \in 1..Len(nodes)
<1>0. nodes \in Seq(NodeType) /\ DOMAIN nodes = 1..Len(nodes) /\ Len(nodes) \in Nat
  BY LenProperties DEF ResolverInv, TypeOK, NodeType
<1>1. CASE \E i \in DOMAIN nodes : \E k \in DOMAIN nodes[i].imports : b = nodes[i].imports[k]
  <2>1. PICK i \in DOMAIN nodes : \E k \in DOMAIN nodes[i].imports : b = nodes[i].imports[k]
    BY <1>1
  <2>2. PICK k \in DOMAIN nodes[i].imports : b = nodes[i].imports[k]
    BY <2>1
  <2>3. Provides(b.source, b.id, live, nodes, i - 1)
    BY <2>2 DEF ResolverInv, DependenciesFirst
  <2>4. b.source.key.index \in 1..(i - 1)
    BY <2>3 DEF Provides, InPlan
  <2> QED
    BY <1>0, <2>4
<1>2. CASE \E d \in DOMAIN stack : \E k \in DOMAIN stack[d].bindings : b = stack[d].bindings[k]
  <2>1. PICK d \in DOMAIN stack : \E k \in DOMAIN stack[d].bindings : b = stack[d].bindings[k]
    BY <1>2
  <2>2. PICK k \in DOMAIN stack[d].bindings : b = stack[d].bindings[k]
    BY <2>1
  <2>3. Provides(b.source, b.id, live, nodes, Len(nodes))
    BY <2>2 DEF ResolverInv, DependenciesFirst
  <2> QED
    BY <2>3 DEF Provides, InPlan
<1>3. b \in BindingsIn(nodes, stack)
  BY DEF Bindings, BindingsIn
<1> QED
  BY <1>1, <1>2, <1>3, BindingIsSomewhere

\* What one more binding does to the bindings of a call.
LEMMA OneMore ==
    ASSUME NEW old \in Seq(Binding), NEW bound \in Binding, NEW now, now = Append(old, bound)
    PROVE  /\ \A k \in DOMAIN old : k \in DOMAIN now /\ now[k] = old[k]
           /\ \A k \in DOMAIN now : now[k] = bound \/ (k \in DOMAIN old /\ now[k] = old[k])
           /\ \E k \in DOMAIN now : now[k] = bound
<1>1. /\ now \in Seq(Binding) /\ Len(now) = Len(old) + 1
      /\ \A k \in 1..Len(old) : now[k] = old[k]
      /\ now[Len(old) + 1] = bound
  BY AppendProperties
<1>2. DOMAIN now = 1..(Len(old) + 1) /\ DOMAIN old = 1..Len(old) /\ Len(old) \in Nat
  BY <1>1, LenProperties
<1> QED
  BY <1>1, <1>2

-----------------------------------------------------------------------------
(* One more binding, or none.                                              *)

\* OneFirst survives a binding to what provides its interface, and one that is
\* on top of that if no other is.
LEMMA OneFirstGrows ==
    ASSUME OneFirst, NEW bound,
           Bindings' \subseteq Bindings \cup {bound},
           \A id \in DOMAIN provided : id \in DOMAIN provided' /\ provided'[id] = provided[id],
           \A b \in Bindings : InPlan(b.source) => Needs'[b.source.key.index] = Needs[b.source.key.index],
           \A id \in Pending' : id \in Pending \/ id \notin DOMAIN provided,
           Local(bound) =>
              /\ FirstOrOnTop(bound, provided', Needs')
              /\ \/ bound.source.key = provided'[bound.id]
                 \/ \A c \in Bindings : Local(c) /\ c.id = bound.id => c.source.key = provided'[c.id]
              /\ bound.id \in Pending' => bound.source.key = provided'[bound.id]
    PROVE  OneFirst'
<1>1. ASSUME NEW b \in Bindings, Local(b) PROVE FirstOrOnTop(b, provided', Needs')
  <2>1. FirstOrOnTop(b, provided, Needs)
    BY <1>1 DEF OneFirst
  <2>2. b.id \in DOMAIN provided /\ b.id \in DOMAIN provided' /\ provided'[b.id] = provided[b.id]
    BY <2>1 DEF FirstOrOnTop
  <2> QED
    BY <2>1, <2>2 DEF FirstOrOnTop
<1>2. \A b \in Bindings : Local(b) => b.id \in DOMAIN provided /\ provided'[b.id] = provided[b.id]
  BY DEF OneFirst, FirstOrOnTop
<1>3. (\A b \in Bindings : Local(b) => FirstOrOnTop(b, provided, Needs))'
  BY <1>1
<1>4. ASSUME NEW b \in Bindings', NEW c \in Bindings', Local(b), Local(c), b.id = c.id
      PROVE  \/ b.source.key = c.source.key
             \/ b.source.key = provided'[b.id]
             \/ c.source.key = provided'[c.id]
  <2>1. CASE b \in Bindings /\ c \in Bindings
    BY <1>2, <1>4, <2>1 DEF OneFirst
  <2>2. CASE b = bound \/ c = bound
    BY <1>4, <2>2
  <2> QED
    BY <2>1, <2>2
<1>5. ASSUME NEW b \in Bindings', Local(b), b.id \in Pending' PROVE b.source.key = provided'[b.id]
  <2>1. CASE b \in Bindings
    BY <1>2, <1>5, <2>1 DEF OneFirst
  <2> QED
    BY <1>5, <2>1
<1> QED
  BY <1>3, <1>4, <1>5 DEF OneFirst, Local

-----------------------------------------------------------------------------
(* plan fails.                                                             *)

LEMMA SameIsShared == ASSUME SharingInv, UNCHANGED <<stack, nodes, provided>> PROVE SharingInv'
BY DEF SharingInv, OneFirst, LoadsDiffer, BuiltOn, Bindings, Pending, Needs, Local

-----------------------------------------------------------------------------
(* An import is bound without another component being added.               *)

LEMMA BindTopKeepsSharing ==
    ASSUME ResolverInv, SharingInv, AtImport,
           NEW source \in Source,
           source.kind = "in-process" => Used.id \in DOMAIN provided /\ source.key = provided[Used.id],
           BindTop(source)
    PROVE  SharingInv'
<1> DEFINE n == Len(stack)
<1>0. TypeOK /\ outcome = "planning" /\ UNCHANGED <<nodes, provided>>
  BY DEF ResolverInv, AtImport, BindTop
<1>1. PICK bound : bound = [id |-> Used.id, shape |-> Used.shape, source |-> source]
  OBVIOUS
<1>2. bound.id = Used.id /\ bound.source = source
  BY <1>1
<1>3. /\ n \in Nat /\ n > 0 /\ DOMAIN stack = 1..n /\ n \in 1..n
      /\ Top = stack[n] /\ Top.bindings \in Seq(Binding)
  BY <1>0, TopType DEF Top
<1>4. /\ bound \in Binding /\ Len(stack') = n /\ DOMAIN stack' = 1..n
      /\ stack'[n].loading = None
      /\ stack'[n].bindings = Append(Top.bindings, bound)
      /\ \A d \in 1..n : d # n => stack'[d] = stack[d]
  BY <1>0, <1>1, BoundFrame
<1> HIDE DEF n
<1>5. /\ \A k \in DOMAIN stack[n].bindings :
            k \in DOMAIN stack'[n].bindings /\ stack'[n].bindings[k] = stack[n].bindings[k]
      /\ \A k \in DOMAIN stack'[n].bindings :
            \/ stack'[n].bindings[k] = bound
            \/ k \in DOMAIN stack[n].bindings /\ stack'[n].bindings[k] = stack[n].bindings[k]
  BY <1>3, <1>4, OneMore
<1>6. Bindings' \subseteq Bindings \cup {bound}
  <2> SUFFICES ASSUME NEW b \in Bindings', b # bound PROVE b \in Bindings
    OBVIOUS
  <2>1. b \in BindingsIn(nodes, stack') /\ Bindings = BindingsIn(nodes, stack)
    BY <1>0 DEF Bindings, BindingsIn
  <2>2. CASE \E i \in DOMAIN nodes : \E k \in DOMAIN nodes[i].imports : b = nodes[i].imports[k]
    BY <2>1, <2>2, BindingIsSomewhere
  <2>3. ASSUME NEW d \in 1..n, NEW k \in DOMAIN stack'[d].bindings, b = stack'[d].bindings[k]
        PROVE  b \in Bindings
    <3>1. k \in DOMAIN stack[d].bindings /\ b = stack[d].bindings[k]
      BY <1>4, <1>5, <2>3
    <3> QED
      BY <1>3, <2>1, <3>1, BindingIsSomewhere
  <2> QED
    BY <1>4, <2>1, <2>2, <2>3, BindingIsSomewhere
<1>7. Needs' = Needs
  BY <1>0 DEF Needs
<1>8. \A id \in Pending' : id \in Pending
  <2> SUFFICES ASSUME NEW d \in 1..n, stack'[d].loading # None PROVE stack'[d].loading \in Pending
    BY <1>4 DEF Pending
  <2>1. d # n /\ stack'[d] = stack[d]
    BY <1>4
  <2> QED
    BY <1>3, <2>1 DEF Pending
<1>9. OneFirst'
  <2>1. OneFirst
    BY DEF SharingInv
  <2>2. Local(bound) => FirstOrOnTop(bound, provided', Needs') /\ bound.source.key = provided'[bound.id]
    BY <1>0, <1>2 DEF FirstOrOnTop, Local
  <2> QED
    BY <1>0, <1>6, <1>7, <1>8, <2>1, <2>2, OneFirstGrows
<1>10. LoadsDiffer'
  <2> SUFFICES ASSUME NEW d \in 1..n, NEW e \in 1..n, d < e, e < n
               PROVE  stack'[d].loading # stack'[e].loading
    BY <1>4 DEF LoadsDiffer
  <2>1. stack'[d] = stack[d] /\ stack'[e] = stack[e]
    BY <1>3, <1>4
  <2> QED
    BY <1>3, <2>1 DEF SharingInv, LoadsDiffer, n
<1>11. BuiltOn'
  <2> SUFFICES ASSUME NEW d \in 1..n, d < n, stack'[d].loading \in DOMAIN provided
               PROVE  /\ provided[stack'[d].loading].at = "planned"
                      /\ ReachedAbove(d, stack', provided[stack'[d].loading].index, Needs)
    BY <1>0, <1>4, <1>7 DEF BuiltOn
  <2>1. stack'[d] = stack[d]
    BY <1>3, <1>4
  <2>2. /\ provided[stack[d].loading].at = "planned"
        /\ ReachedAbove(d, stack, provided[stack[d].loading].index, Needs)
    BY <1>3, <2>1 DEF SharingInv, BuiltOn, n
  <2>3. PICK e \in (d + 1)..n : \E b \in DOMAIN stack[e].bindings :
           Reaches(stack[e].bindings[b].source, provided[stack[d].loading].index, Needs)
    BY <2>2 DEF ReachedAbove, n
  <2>4. PICK b \in DOMAIN stack[e].bindings :
           Reaches(stack[e].bindings[b].source, provided[stack[d].loading].index, Needs)
    BY <2>3
  <2>5. e \in 1..n
    BY <1>3, <2>3
  <2>6. b \in DOMAIN stack'[e].bindings /\ stack'[e].bindings[b] = stack[e].bindings[b]
    BY <1>4, <1>5, <2>5
  <2> QED
    BY <1>4, <2>1, <2>2, <2>4, <2>6 DEF ReachedAbove
<1> QED
  BY <1>9, <1>10, <1>11 DEF SharingInv

-----------------------------------------------------------------------------
(* A provider's add begins.                                                *)

\* A binding that is not in process, for when there is no new one.
NoBinding == [source |-> TrapSource]

\* A provider that is fetched is not one that is being planned.
LEMMA LoadKeepsSharing ==
    ASSUME ResolverInv, SharingInv, Wanted, Used.id \notin Pending,
           NEW answer \in Answers(Used.id), Load(answer)
    PROVE  SharingInv'
<1> DEFINE n == Len(stack)
<1>0. /\ TypeOK /\ outcome = "planning" /\ UNCHANGED <<nodes, provided>>
      /\ AtImport /\ Used.id \notin DOMAIN provided
  BY DEF ResolverInv, AtImport, Load, Wanted
<1>1. /\ n \in Nat /\ n > 0 /\ DOMAIN stack = 1..n /\ n \in 1..n
      /\ Top = stack[n]
  BY <1>0, TopType DEF Top
<1>2. /\ Used.id \in Ids /\ Len(stack') = n + 1 /\ DOMAIN stack' = 1..(n + 1)
      /\ stack'[n + 1].bindings = <<>> /\ stack'[n + 1].loading = None
      /\ stack'[n].bindings = Top.bindings /\ stack'[n].loading = Used.id
      /\ \A d \in 1..n : d # n => stack'[d] = stack[d]
  BY <1>0, LoadedFrame
<1> HIDE DEF n
<1>3. \A d \in 1..n : stack'[d].bindings = stack[d].bindings
  BY <1>1, <1>2
<1>4. Bindings' \subseteq Bindings
  <2> SUFFICES ASSUME NEW b \in Bindings' PROVE b \in Bindings
    OBVIOUS
  <2>1. b \in BindingsIn(nodes, stack') /\ Bindings = BindingsIn(nodes, stack)
    BY <1>0 DEF Bindings, BindingsIn
  <2>2. CASE \E i \in DOMAIN nodes : \E k \in DOMAIN nodes[i].imports : b = nodes[i].imports[k]
    BY <2>1, <2>2, BindingIsSomewhere
  <2>3. ASSUME NEW d \in 1..(n + 1), NEW k \in DOMAIN stack'[d].bindings, b = stack'[d].bindings[k]
        PROVE  b \in Bindings
    <3>1. d # n + 1
      BY <1>2, <2>3
    <3>2. d \in 1..n
      BY <1>1, <3>1
    <3> QED
      BY <1>1, <1>3, <2>1, <2>3, <3>2, BindingIsSomewhere
  <2> QED
    BY <1>2, <2>1, <2>2, <2>3, BindingIsSomewhere
<1>5. Needs' = Needs
  BY <1>0 DEF Needs
<1>6. \A id \in Pending' : id \in Pending \/ id \notin DOMAIN provided
  <2> SUFFICES ASSUME NEW d \in 1..(n + 1), stack'[d].loading # None
               PROVE  stack'[d].loading \in Pending \/ stack'[d].loading \notin DOMAIN provided
    BY <1>2 DEF Pending
  <2>1. CASE d = n
    BY <1>0, <1>2, <2>1
  <2>2. CASE d # n
    <3>1. d # n + 1
      BY <1>2
    <3>2. d \in 1..n
      BY <1>1, <3>1
    <3> QED
      BY <1>1, <1>2, <2>2, <3>2 DEF Pending
  <2> QED
    BY <2>1, <2>2
<1>7. OneFirst'
  <2>1. OneFirst
    BY DEF SharingInv
  <2>2. ~Local(NoBinding)
    BY DEF Local, NoBinding, TrapSource
  <2> QED
    BY <1>0, <1>4, <1>5, <1>6, <2>1, <2>2, OneFirstGrows
<1>8. LoadsDiffer'
  <2> SUFFICES ASSUME NEW d \in 1..(n + 1), NEW e \in 1..(n + 1), d < e, e < n + 1
               PROVE  stack'[d].loading # stack'[e].loading
    BY <1>2 DEF LoadsDiffer
  <2>1. d \in 1..n /\ d # n /\ stack'[d] = stack[d] /\ e \in 1..n
    BY <1>1, <1>2
  <2>2. CASE e = n
    <3>1. stack[d].loading # Used.id
      BY <1>0, <1>1, <1>2, <2>1, ResolverAssumption DEF Pending
    <3> QED
      BY <1>2, <2>1, <2>2, <3>1
  <2>3. CASE e # n
    <3>1. stack'[e] = stack[e] /\ e < n
      BY <1>1, <1>2, <2>1, <2>3
    <3> QED
      BY <1>1, <2>1, <3>1 DEF SharingInv, LoadsDiffer, n
  <2> QED
    BY <2>2, <2>3
<1>9. BuiltOn'
  <2> SUFFICES ASSUME NEW d \in 1..(n + 1), d < n + 1, stack'[d].loading \in DOMAIN provided
               PROVE  /\ provided[stack'[d].loading].at = "planned"
                      /\ ReachedAbove(d, stack', provided[stack'[d].loading].index, Needs)
    BY <1>0, <1>2, <1>5 DEF BuiltOn
  <2>1. d # n /\ d \in 1..n /\ d < n
    BY <1>0, <1>1, <1>2
  <2>2. stack'[d] = stack[d]
    BY <1>2, <2>1
  <2>3. /\ provided[stack[d].loading].at = "planned"
        /\ ReachedAbove(d, stack, provided[stack[d].loading].index, Needs)
    BY <1>1, <2>1, <2>2 DEF SharingInv, BuiltOn, n
  <2>4. PICK e \in (d + 1)..n : \E b \in DOMAIN stack[e].bindings :
           Reaches(stack[e].bindings[b].source, provided[stack[d].loading].index, Needs)
    BY <2>3 DEF ReachedAbove, n
  <2>5. e \in 1..n /\ e \in (d + 1)..(n + 1) /\ stack'[e].bindings = stack[e].bindings
    BY <1>1, <1>3, <2>4
  <2> QED
    BY <1>2, <2>2, <2>3, <2>4, <2>5 DEF ReachedAbove
<1> QED
  BY <1>7, <1>8, <1>9 DEF SharingInv

-----------------------------------------------------------------------------
(* A component is added to the plan.                                       *)

\* A component that is added provides what nothing provided, and changes
\* nothing for the bindings there are.
LEMMA AddShares ==
    ASSUME ResolverInv, AtEnd, nodes' = Added, UNCHANGED live,
           provided' = Provide(Top.component, Planned(Len(nodes')))
    PROVE  /\ Len(nodes) \in Nat
           /\ \A id \in DOMAIN provided : id \in DOMAIN provided' /\ provided'[id] = provided[id]
           /\ \A id \in DOMAIN provided' \ DOMAIN provided : provided'[id] = Planned(Len(nodes) + 1)
           /\ Exports[Top.component] \subseteq DOMAIN provided'
           /\ \A b \in Bindings : InPlan(b.source) => Needs'[b.source.key.index] = Needs[b.source.key.index]
           /\ \A i \in DOMAIN nodes' : \A k \in DOMAIN nodes'[i].imports : nodes'[i].imports[k] \in Bindings
<1>0. TypeOK /\ outcome = "planning"
  BY DEF ResolverInv, AtEnd
<1>1. /\ Len(nodes) \in Nat /\ Len(nodes') = Len(nodes) + 1
      /\ DOMAIN nodes' = 1..(Len(nodes) + 1) /\ DOMAIN nodes = 1..Len(nodes)
      /\ \A i \in 1..Len(nodes) : nodes'[i] = nodes[i]
      /\ nodes'[Len(nodes) + 1].imports = Top.bindings
  BY <1>0, AddedNode, LenProperties DEF TypeOK
<1>2. \A b \in Bindings : InPlan(b.source) => Needs'[b.source.key.index] = Needs[b.source.key.index]
  BY InPlanIsPlanned, NeedsGrow
<1>3. ASSUME NEW i \in DOMAIN nodes', NEW k \in DOMAIN nodes'[i].imports
      PROVE  nodes'[i].imports[k] \in Bindings
  <2>1. Bindings = BindingsIn(nodes, stack)
    BY DEF Bindings, BindingsIn
  <2>2. CASE i \in 1..Len(nodes)
    BY <1>1, <2>1, <2>2, BindingIsSomewhere
  <2>3. CASE i = Len(nodes) + 1
    <3>1. Len(stack) \in DOMAIN stack /\ nodes'[i].imports = stack[Len(stack)].bindings
      BY <1>0, <1>1, <2>3, TopType DEF Top
    <3> QED
      BY <2>1, <3>1, BindingIsSomewhere
  <2> QED
    BY <1>1, <2>2, <2>3
<1>4. /\ \A id \in DOMAIN provided : id \in DOMAIN provided' /\ provided'[id] = provided[id]
      /\ \A id \in DOMAIN provided' \ DOMAIN provided : provided'[id] = Planned(Len(nodes) + 1)
      /\ Exports[Top.component] \subseteq DOMAIN provided'
  BY <1>1 DEF Provide
<1> QED
  BY <1>1, <1>2, <1>3, <1>4

\* The component that was asked for is nobody's provider.
LEMMA ReturnRootKeepsSharing == ASSUME ResolverInv, SharingInv, ReturnRoot PROVE SharingInv'
<1>1. /\ AtEnd /\ nodes' = Added /\ stack' = <<>> /\ UNCHANGED live
      /\ provided' = Provide(Top.component, Planned(Len(nodes')))
  BY DEF ReturnRoot
<1>2. Bindings' \subseteq Bindings
  <2>1. Bindings' = BindingsIn(nodes', <<>>)
    BY <1>1 DEF Bindings, BindingsIn
  <2> QED
    BY <1>1, <2>1, AddShares, BindingIsSomewhere
<1>3. OneFirst'
  <2>1. OneFirst
    BY DEF SharingInv
  <2>2. ~Local(NoBinding)
    BY DEF Local, NoBinding, TrapSource
  <2>3. Pending' = {}
    BY <1>1 DEF Pending
  <2> QED
    BY <1>1, <1>2, <2>1, <2>2, <2>3, AddShares, OneFirstGrows
<1>4. LoadsDiffer' /\ BuiltOn'
  BY <1>1 DEF LoadsDiffer, BuiltOn
<1> QED
  BY <1>3, <1>4 DEF SharingInv

\* What reaches a node of the plan goes on to.
LEMMA ReachesOn ==
    ASSUME NEW b \in Bindings, NEW i, Reaches(b.source, i, Needs),
           \A c \in Bindings : InPlan(c.source) => Needs'[c.source.key.index] = Needs[c.source.key.index]
    PROVE  Reaches(b.source, i, Needs')
BY DEF Reaches

\* A provider that is planned is the one that later importers share.
LEMMA ReturnProviderKeepsSharing ==
    ASSUME ResolverInv, SharingInv, ReturnProvider PROVE SharingInv'
<1> DEFINE n == Len(stack)
           new == Len(nodes) + 1
<1>0. /\ TypeOK /\ outcome = "planning" /\ AtEnd /\ nodes' = Added /\ UNCHANGED live
      /\ provided' = Provide(Top.component, Planned(Len(nodes')))
      /\ Caller.loading \in Exports[Top.component]
      /\ Top = stack[n] /\ Caller = stack[n - 1]
  BY DEF ResolverInv, ReturnProvider, AtEnd, Top, Caller
<1>1. PICK bound : bound = [id |-> CallerUse.id, shape |-> CallerUse.shape,
                            source |-> InProcessSource(Planned(Len(nodes) + 1))]
  OBVIOUS
<1> HIDE DEF new
<1>2. /\ bound \in Binding
      /\ n \in Nat /\ n > 1 /\ DOMAIN stack = 1..n
      /\ Caller \in FrameType /\ Caller.loading = CallerUse.id
      /\ Len(stack') = n - 1 /\ DOMAIN stack' = 1..(n - 1)
      /\ stack'[n - 1].bindings = Append(Caller.bindings, bound)
      /\ stack'[n - 1].loading = None
      /\ \A d \in 1..(n - 1) : d # n - 1 => stack'[d] = stack[d]
  BY <1>0, <1>1, ReturnedFrame
<1> HIDE DEF n
<1>3. n - 1 \in 1..n /\ n - 1 \in 1..(n - 1) /\ n \in 1..n /\ n - 1 < n
  BY <1>2
<1>4. bound.id = stack[n - 1].loading /\ bound.source = InProcessSource(Planned(new))
  BY <1>0, <1>1, <1>2 DEF new
<1>5. InPlan(bound.source) /\ bound.source.key = Planned(new) /\ bound.source.key.index = new
        /\ Planned(new).at = "planned" /\ Planned(new).index = new
  BY <1>4 DEF InPlan, InProcessSource, Planned
<1>6. /\ \A id \in DOMAIN provided : id \in DOMAIN provided' /\ provided'[id] = provided[id]
      /\ \A id \in DOMAIN provided' \ DOMAIN provided : provided'[id] = Planned(new)
      /\ Exports[Top.component] \subseteq DOMAIN provided'
      /\ \A b \in Bindings : InPlan(b.source) => Needs'[b.source.key.index] = Needs[b.source.key.index]
      /\ \A i \in DOMAIN nodes' : \A k \in DOMAIN nodes'[i].imports : nodes'[i].imports[k] \in Bindings
  BY <1>0, AddShares DEF new
<1>7. \A k \in DOMAIN stack[n].bindings : InPlan(stack[n].bindings[k].source) =>
         /\ stack[n].bindings[k].source.key.index \in Needs'[new]
         /\ Needs[stack[n].bindings[k].source.key.index] \subseteq Needs'[new]
  BY <1>0, NeedsGrow DEF new
<1>8. /\ \A k \in DOMAIN stack[n - 1].bindings :
            k \in DOMAIN stack'[n - 1].bindings /\ stack'[n - 1].bindings[k] = stack[n - 1].bindings[k]
      /\ \A k \in DOMAIN stack'[n - 1].bindings :
            \/ stack'[n - 1].bindings[k] = bound
            \/ k \in DOMAIN stack[n - 1].bindings /\ stack'[n - 1].bindings[k] = stack[n - 1].bindings[k]
      /\ \E k \in DOMAIN stack'[n - 1].bindings : stack'[n - 1].bindings[k] = bound
  <2>1. Caller.bindings \in Seq(Binding)
    BY <1>2 DEF FrameType
  <2>2. /\ stack[n - 1].bindings \in Seq(Binding)
        /\ stack'[n - 1].bindings = Append(stack[n - 1].bindings, bound)
    BY <1>0, <1>2, <2>1
  <2>3. PICK old \in Seq(Binding) : old = stack[n - 1].bindings
    BY <2>2
  <2>4. PICK longer : longer = stack'[n - 1].bindings
    OBVIOUS
  <2>5. longer = Append(old, bound) /\ bound \in Binding
    BY <1>2, <2>2, <2>3, <2>4
  <2>6. /\ \A k \in DOMAIN old : k \in DOMAIN longer /\ longer[k] = old[k]
        /\ \A k \in DOMAIN longer : longer[k] = bound \/ (k \in DOMAIN old /\ longer[k] = old[k])
        /\ \E k \in DOMAIN longer : longer[k] = bound
    BY <2>5, OneMore
  <2> QED
    BY <2>3, <2>4, <2>6
<1>9. \A d \in 1..(n - 1) : d \in 1..n
  BY <1>2
<1>10. Bindings' \subseteq Bindings \cup {bound}
  <2> SUFFICES ASSUME NEW b \in Bindings', b # bound PROVE b \in Bindings
    OBVIOUS
  <2>1. b \in BindingsIn(nodes', stack') /\ Bindings = BindingsIn(nodes, stack)
    BY DEF Bindings, BindingsIn
  <2>2. ASSUME NEW d \in 1..(n - 1), NEW k \in DOMAIN stack'[d].bindings, b = stack'[d].bindings[k]
        PROVE  b \in Bindings
    <3>1. k \in DOMAIN stack[d].bindings /\ b = stack[d].bindings[k]
      BY <1>2, <1>8, <2>2
    <3> QED
      BY <1>2, <1>9, <2>1, <3>1, BindingIsSomewhere
  <2> QED
    BY <1>2, <1>6, <2>1, <2>2, BindingIsSomewhere
<1>11. \A d \in 1..n : \A k \in DOMAIN stack[d].bindings : stack[d].bindings[k] \in Bindings
  <2>1. Bindings = BindingsIn(nodes, stack)
    BY DEF Bindings, BindingsIn
  <2> QED
    BY <1>2, <2>1, BindingIsSomewhere
\* While a call waits, no other waits for the same interface.
<1>12. ASSUME NEW d \in 1..(n - 1), stack'[d].loading # None
       PROVE  /\ d < n - 1 /\ d \in 1..n /\ stack'[d] = stack[d]
              /\ stack[d].loading \in Pending
              /\ stack[d].loading # stack[n - 1].loading
  <2>1. d # n - 1 /\ stack'[d] = stack[d]
    BY <1>2, <1>12
  <2>2. d < n - 1 /\ d \in 1..n
    BY <1>2, <2>1
  <2>3. stack[d].loading \in Pending
    BY <1>2, <1>12, <2>1, <2>2 DEF Pending
  <2>4. stack[d].loading # stack[n - 1].loading
    BY <1>2, <1>3, <2>2 DEF SharingInv, LoadsDiffer, n
  <2> QED
    BY <2>1, <2>2, <2>3, <2>4
<1>13. \A id \in Pending' : id \in Pending /\ id # bound.id
  <2> SUFFICES ASSUME NEW d \in 1..(n - 1), stack'[d].loading # None
               PROVE  stack'[d].loading \in Pending /\ stack'[d].loading # bound.id
    BY <1>2 DEF Pending
  <2> QED
    BY <1>4, <1>12
\* What the caller waited for was provided by something its provider needs, or
\* is by that provider.
<1>14. FirstOrOnTop(bound, provided', Needs')
  <2>1. bound.id \in DOMAIN provided'
    BY <1>0, <1>4, <1>6
  <2>2. CASE bound.id \in DOMAIN provided
    <3>1. /\ provided[bound.id].at = "planned"
          /\ ReachedAbove(n - 1, stack, provided[bound.id].index, Needs)
      BY <1>2, <1>3, <1>4, <2>2 DEF SharingInv, BuiltOn, n
    <3>2. PICK e \in (n - 1 + 1)..n : \E b \in DOMAIN stack[e].bindings :
             Reaches(stack[e].bindings[b].source, provided[bound.id].index, Needs)
      BY <3>1 DEF ReachedAbove, n
    <3>3. e = n
      BY <1>2, <3>2
    <3>4. PICK b \in DOMAIN stack[n].bindings :
             Reaches(stack[n].bindings[b].source, provided[bound.id].index, Needs)
      BY <3>2, <3>3
    <3>5. provided[bound.id].index \in Needs'[new]
      BY <1>7, <3>4 DEF Reaches
    <3> QED
      BY <1>5, <1>6, <2>1, <2>2, <3>1, <3>5 DEF FirstOrOnTop
  <2>3. CASE bound.id \notin DOMAIN provided
    BY <1>5, <1>6, <2>1, <2>3 DEF FirstOrOnTop
  <2> QED
    BY <2>2, <2>3
<1>15. ASSUME NEW c \in Bindings, Local(c), c.id = bound.id PROVE c.source.key = provided'[c.id]
  <2>1. bound.id \in Pending
    <3>1. stack[n - 1].loading # None
      <4>1. Caller.loading \in DOMAIN provided'
        BY <1>0, <1>6
      <4>2. DOMAIN provided' \subseteq Ids
        BY <1>0, AddKeepsPlan
      <4> QED
        BY <1>0, <4>1, <4>2, ResolverAssumption
    <3> QED
      BY <1>2, <1>3, <1>4, <3>1 DEF Pending
  <2>2. c.id \in DOMAIN provided /\ c.source.key = provided[c.id]
    BY <1>15, <2>1 DEF SharingInv, OneFirst, FirstOrOnTop
  <2> QED
    BY <1>6, <2>2
<1>16. OneFirst'
  <2>1. OneFirst
    BY DEF SharingInv
  <2> QED
    BY <1>6, <1>10, <1>13, <1>14, <1>15, <2>1, OneFirstGrows
<1>17. LoadsDiffer'
  <2> SUFFICES ASSUME NEW d \in 1..(n - 1), NEW e \in 1..(n - 1), d < e, e < n - 1
               PROVE  stack'[d].loading # stack'[e].loading
    BY <1>2 DEF LoadsDiffer
  <2>1. d # n - 1 /\ e # n - 1 /\ e < n
    BY <1>2
  <2>2. stack'[d] = stack[d] /\ stack'[e] = stack[e]
    BY <1>2, <2>1
  <2> QED
    BY <1>2, <1>9, <2>1, <2>2 DEF SharingInv, LoadsDiffer, n
<1>18. BuiltOn'
  <2> SUFFICES ASSUME NEW d \in 1..(n - 1), d < n - 1, stack'[d].loading \in DOMAIN provided'
               PROVE  /\ provided'[stack'[d].loading].at = "planned"
                      /\ ReachedAbove(d, stack', provided'[stack'[d].loading].index, Needs')
    BY <1>2 DEF BuiltOn
  <2>1. stack'[d] = stack[d] /\ d \in 1..n /\ d < n
    BY <1>2
  <2>2. n - 1 \in (d + 1)..(n - 1)
    BY <1>2
  <2>3. CASE stack[d].loading \in DOMAIN provided
    <3> DEFINE i == provided[stack[d].loading].index
    <3>1. /\ provided[stack[d].loading].at = "planned"
          /\ ReachedAbove(d, stack, i, Needs)
      BY <1>2, <2>1, <2>3 DEF SharingInv, BuiltOn, n
    <3>2. provided'[stack[d].loading] = provided[stack[d].loading]
      BY <1>6, <2>3
    <3> HIDE DEF i
    <3>3. PICK e \in (d + 1)..n : \E b \in DOMAIN stack[e].bindings :
             Reaches(stack[e].bindings[b].source, i, Needs)
      BY <3>1 DEF ReachedAbove, n
    <3>4. PICK b \in DOMAIN stack[e].bindings : Reaches(stack[e].bindings[b].source, i, Needs)
      BY <3>3
    <3>5. e \in 1..n
      BY <1>2, <3>3
    <3>6. Reaches(stack[e].bindings[b].source, i, Needs')
      BY <1>6, <1>11, <3>4, <3>5, ReachesOn
    <3>7. ReachedAbove(d, stack', i, Needs')
      <4>1. CASE e # n
        <5>1. e \in 1..(n - 1) /\ e \in (d + 1)..(n - 1)
          BY <1>2, <3>3, <3>5, <4>1
        <5>2. b \in DOMAIN stack'[e].bindings /\ stack'[e].bindings[b] = stack[e].bindings[b]
          BY <1>2, <1>8, <5>1
        <5> QED
          BY <1>2, <3>6, <5>1, <5>2 DEF ReachedAbove
      <4>2. CASE e = n
        <5>1. i \in Needs'[new]
          BY <1>7, <3>4, <4>2 DEF Reaches
        <5>2. Reaches(bound.source, i, Needs')
          BY <1>5, <5>1 DEF Reaches
        <5> QED
          BY <1>2, <1>8, <2>2, <5>2 DEF ReachedAbove
      <4> QED
        BY <4>1, <4>2
    <3> QED
      BY <2>1, <3>1, <3>2, <3>7 DEF i
  <2>4. CASE stack[d].loading \notin DOMAIN provided
    <3>1. provided'[stack[d].loading] = Planned(new)
      BY <1>6, <2>1, <2>4
    <3>2. Reaches(bound.source, new, Needs')
      BY <1>5 DEF Reaches
    <3>3. ReachedAbove(d, stack', new, Needs')
      BY <1>2, <1>8, <2>2, <3>2 DEF ReachedAbove
    <3> QED
      BY <1>5, <2>1, <3>1, <3>3
  <2> QED
    BY <2>3, <2>4
<1> QED
  BY <1>16, <1>17, <1>18 DEF SharingInv

-----------------------------------------------------------------------------
(* plan begins, and every step keeps what is shared.                       *)

\* Where no import was bound yet there is nothing to share.
LEMMA FreshIsShared == nodes = <<>> /\ (stack = <<>> \/ \E c : stack = <<Frame(c)>>) => SharingInv
<1> SUFFICES ASSUME nodes = <<>>, stack = <<>> \/ \E c : stack = <<Frame(c)>> PROVE SharingInv
  OBVIOUS
<1>1. DOMAIN nodes = {} /\ DOMAIN stack \subseteq {1} /\ \A d \in DOMAIN stack : d = 1 /\ Len(stack) = 1
  BY DEF Frame
<1>2. \A d \in DOMAIN stack : stack[d].bindings = <<>>
  BY DEF Frame
<1>3. Bindings = {}
  <2>1. Bindings = BindingsIn(nodes, stack)
    BY DEF Bindings, BindingsIn
  <2>2. \A b : b \notin Bindings
    BY <1>1, <1>2, <2>1, BindingIsSomewhere
  <2> QED
    BY <2>2
<1>4. OneFirst
  BY <1>3 DEF OneFirst
<1>5. \A d, e \in DOMAIN stack : ~ d < e /\ ~ d < Len(stack)
  BY <1>1
<1>6. LoadsDiffer
  BY <1>5 DEF LoadsDiffer
<1>7. BuiltOn
  BY <1>5 DEF BuiltOn
<1> QED
  BY <1>6, <1>7, <1>4, <1>5 DEF SharingInv

\* Every way of finding a source keeps it.
LEMMA SourceForKeepsSharing == ASSUME ResolverInv, SharingInv, SourceFor PROVE SharingInv'
<1>0. TypeOK
  BY DEF ResolverInv
<1>1. ASSUME NEW error, Fail(error) PROVE SharingInv'
  BY <1>1, SameIsShared DEF Fail
<1>2. CASE UseProvided
  <2>1. AtImport /\ Used.id \in DOMAIN provided /\ BindTop(InProcessSource(provided[Used.id]))
    BY <1>2 DEF UseProvided
  <2>2. /\ InProcessSource(provided[Used.id]) \in Source
        /\ InProcessSource(provided[Used.id]).key = provided[Used.id]
    BY <1>0, <2>1 DEF TypeOK, InProcessSource, Source
  <2> QED
    BY <2>1, <2>2, BindTopKeepsSharing
<1>3. CASE FindCycle \/ AskInVain
  BY <1>1, <1>3 DEF FindCycle, AskInVain
<1>4. ASSUME Wanted, NEW answer \in Answers(Used.id),
             \/ Load(answer) \/ LoadFails(answer) \/ UseService(answer)
             \/ FindMismatch(answer) \/ FindNobody(answer)
      PROVE  SharingInv'
  <2>0. AtImport
    BY <1>4 DEF Wanted
  <2>1. CASE Load(answer)
    <3>1. Used.id \notin Pending
      BY <2>1 DEF Load, Ask
    <3> QED
      BY <1>4, <2>1, <3>1, LoadKeepsSharing
  <2>2. CASE LoadFails(answer) \/ FindMismatch(answer)
    BY <1>1, <2>2 DEF LoadFails, FindMismatch
  <2>3. CASE UseService(answer)
    <3>1. PICK i \in DOMAIN answer :
             IsFirst(i, Services(answer)) /\ BindTop(NatsSource(answer[i]))
      BY <2>3 DEF UseService
    <3>2. NatsSource(answer[i]) \in Source /\ NatsSource(answer[i]).kind = "nats"
      BY AnswerType DEF NatsSource, Source
    <3> QED
      BY <2>0, <3>1, <3>2, BindTopKeepsSharing
  <2>4. CASE FindNobody(answer)
    <3>1. TrapSource \in Source /\ TrapSource.kind = "trap"
      BY DEF TrapSource, Source
    <3> QED
      BY <1>1, <2>0, <2>4, <3>1, BindTopKeepsSharing DEF FindNobody
  <2> QED
    BY <1>4, <2>1, <2>2, <2>3, <2>4
<1> QED
  BY <1>2, <1>3, <1>4 DEF SourceFor

\* Every step of planning keeps it.
LEMMA NextKeepsSharing == ASSUME ResolverInv, SharingInv, Next PROVE SharingInv'
<1>1. CASE ReturnUseless
  BY <1>1, SameIsShared DEF ReturnUseless, Fail
<1> QED
  BY <1>1, SourceForKeepsSharing, ReturnRootKeepsSharing, ReturnProviderKeepsSharing DEF Next, Add

\* Providers are shared at every step of planning.
LEMMA SharingInvariant == Spec => [](TypeOK /\ SharingInv)
<1>1. Init => SharingInv
  BY FreshIsShared DEF Init
<1>2. ResolverInv /\ SharingInv /\ [Next]_vars => SharingInv'
  BY NextKeepsSharing, SameIsShared DEF vars
<1>3. ResolverInv => TypeOK
  BY DEF ResolverInv
<1> QED
  BY <1>1, <1>2, <1>3, ResolverInvariant, PTL DEF Spec

-----------------------------------------------------------------------------
(* The theorems.                                                           *)

\* Loads of pairwise different interfaces nest no deeper than there are any.
LEMMA DifferentLoadsEnd == TypeOK /\ SharingInv => NestingBounded
<1> SUFFICES ASSUME TypeOK, SharingInv PROVE NestingBounded
  OBVIOUS
<1> DEFINE n == Len(stack)
           waiting == 1..(n - 1)
           loads == [d \in waiting |-> stack[d].loading]
<1>1. n \in Nat /\ DOMAIN stack = 1..n
  BY LenProperties DEF TypeOK
<1>2. IsFiniteSet(Ids) /\ Cardinality(Ids) \in Nat
  BY FS_CardinalityType, ResolverAssumption
<1>3. ASSUME NEW d \in waiting PROVE d \in 1..n /\ d < n /\ stack[d].loading \in Ids
  <2>1. d \in 1..n /\ d < n
    BY <1>1
  <2>2. /\ Len(stack[d].bindings) < Len(Imports[stack[d].component])
        /\ stack[d].loading = Imports[stack[d].component][Len(stack[d].bindings) + 1].id
    BY <1>1, <2>1 DEF TypeOK
  <2>3. stack \in Seq(FrameType)
    BY DEF TypeOK, FrameType
  <2>4. stack[d].component \in Components /\ Len(stack[d].bindings) \in Nat
    <3>1. stack[d] \in FrameType
      BY <1>1, <2>1, <2>3
    <3>2. stack[d].component \in Components /\ stack[d].bindings \in Seq(Binding)
      BY <3>1 DEF FrameType
    <3> QED
      BY <3>2
  <2>5. Imports[stack[d].component] \in Seq(Use)
    BY <2>4, ResolverAssumption
  <2>6. Imports[stack[d].component][Len(stack[d].bindings) + 1] \in Use
    BY <2>2, <2>4, <2>5
  <2> QED
    BY <2>1, <2>2, <2>6 DEF Use
<1>4. ASSUME NEW d \in waiting, NEW e \in waiting, d # e PROVE stack[d].loading # stack[e].loading
  <2>1. CASE d < e
    BY <1>1, <1>3, <2>1 DEF SharingInv, LoadsDiffer
  <2>2. CASE e < d
    BY <1>1, <1>3, <2>2 DEF SharingInv, LoadsDiffer
  <2> QED
    BY <1>1, <1>4, <2>1, <2>2
<1> HIDE DEF n, waiting
<1>5. loads \in Injection(waiting, Ids)
  <2>1. loads \in [waiting -> Ids]
    BY <1>3
  <2>2. \A d, e \in waiting : loads[d] = loads[e] => d = e
    BY <1>4
  <2> HIDE DEF loads
  <2> QED
    BY <2>1, <2>2 DEF Injection, IsInjective
<1>6. Cardinality(waiting) <= Cardinality(Ids)
  <2> HIDE DEF loads
  <2> QED
    BY <1>2, <1>5, FS_Injection
<1>7. Cardinality(waiting) = IF 1 > n - 1 THEN 0 ELSE n - 1
  <2>1. 1 \in Int /\ n - 1 \in Int
    BY <1>1
  <2>2. Cardinality(1..(n - 1)) = IF 1 > n - 1 THEN 0 ELSE n - 1 - 1 + 1
    BY <2>1, FS_Interval
  <2> QED
    BY <1>1, <2>2 DEF waiting
<1>8. n <= Cardinality(Ids) + 1
  BY <1>1, <1>2, <1>6, <1>7
<1> QED
  BY <1>8 DEF NestingBounded, n

\* An import bound first to a component, and one bound on top of it, make two
\* importers of an interface share, or stack, their providers.
LEMMA SharedOrLayered == OneFirst => OneProviderOrLayered
<1> SUFFICES ASSUME OneFirst, NEW b \in Bindings, NEW c \in Bindings,
                    b.id = c.id, Local(b), Local(c), b.source.key # c.source.key
             PROVE  /\ b.source.key.at = "planned" /\ c.source.key.at = "planned"
                    /\ \/ b.source.key.index \in Needs[c.source.key.index]
                       \/ c.source.key.index \in Needs[b.source.key.index]
  BY DEF OneProviderOrLayered, Local
<1>1. FirstOrOnTop(b, provided, Needs) /\ FirstOrOnTop(c, provided, Needs)
  BY DEF OneFirst
<1>2. b.source.key = provided[b.id] \/ c.source.key = provided[c.id]
  BY DEF OneFirst
<1> QED
  BY <1>1, <1>2 DEF FirstOrOnTop, InPlan

\* plan refuses an import that it is resolving already (Context::pending): its
\* calls of add each load another interface, and nest no deeper than there are
\* interfaces, however the providers import each other.
THEOREM PlanNestsNoDeeperThanInterfaces == Spec => []NestingBounded
BY DifferentLoadsEnd, SharingInvariant, PTL

\* A component that add comes to plan while the same interface is being
\* resolved further down (Context::provided) is the one that later imports are
\* bound to; the import further down alone is bound to another, which was built
\* on that one.
THEOREM ImportersShareOrLayer == Spec => []OneProviderOrLayered
<1>1. SharingInv => OneProviderOrLayered
  BY SharedOrLayered DEF SharingInv
<1> QED
  BY <1>1, SharingInvariant, PTL

-----------------------------------------------------------------------------
(* Plans that wait to be loaded.                                           *)

\* Resolver's invariant, once a plan may have been taken away: what is provided
\* then says nothing any more, until the next plan begins.
PlanInv == TypeOK /\ DependenciesFirst /\ AllFit /\ (outcome = "planning" => ProvidedExports)

\* instantiate is at a node of the plan that it was given.
Progress ==
    /\ running \in Seq(Components)
    /\ loaded = [i \in 1..Len(loaded) |-> loaded[i]] /\ Len(loaded) = Len(running)
    /\ ready \in Seq(NodeType) /\ loading \in Seq(NodeType)
    /\ plan = NodesOf(loading)
    /\ base \in Nat
    /\ plan # <<>> => base <= Len(loaded) /\ Len(loaded) < base + Len(loading)

\* What was live when the plan was begun is so still, under the same index.
StillLive == DOMAIN live \subseteq DOMAIN running /\ \A i \in DOMAIN live : running[i] = live[i]

\* Whether every import of a plan is there, and exported, and its shape can be sent.
Valid(made, others) ==
    \A i \in DOMAIN made : \A k \in DOMAIN made[i].imports :
        /\ Provides(made[i].imports[k].source, made[i].imports[k].id, others, made, i - 1)
        /\ made[i].imports[k].source.kind = "nats" => made[i].imports[k].shape # InProcess

\* What was loaded of the plan has the index the plan gives it.
InOrder == plan # <<>> => \A i \in 1..(Len(loaded) - base) : running[base + i] = loading[i].component

HostInv ==
    /\ PlanInv /\ Progress /\ StillLive /\ InOrder
    /\ Valid(ready, running) /\ Valid(loading, running)

-----------------------------------------------------------------------------
(* What more components do to a plan: nothing.                             *)

\* A component that provides goes on doing so when others are loaded.
LEMMA ValidStays ==
    ASSUME NEW made, NEW few, NEW many, Valid(made, few),
           DOMAIN few \subseteq DOMAIN many, \A i \in DOMAIN few : many[i] = few[i]
    PROVE  Valid(made, many)
<1> SUFFICES ASSUME NEW i \in DOMAIN made, NEW k \in DOMAIN made[i].imports
             PROVE  /\ Provides(made[i].imports[k].source, made[i].imports[k].id, many, made, i - 1)
                    /\ made[i].imports[k].source.kind = "nats" => made[i].imports[k].shape # InProcess
    BY DEF Valid
<1>1. Provides(made[i].imports[k].source, made[i].imports[k].id, few, made, i - 1)
    BY DEF Valid
<1>2. Provides(made[i].imports[k].source, made[i].imports[k].id, many, made, i - 1)
    BY <1>1 DEF Provides, At
<1> QED
    BY <1>2 DEF Valid

\* A plan of no nodes.
LEMMA NothingIsValid == ASSUME NEW others PROVE Valid(<<>>, others) /\ NodesOf(<<>>) = <<>> /\ <<>> \in Seq(NodeType)
BY DEF Valid, NodesOf

\* The host keeps what it runs, and the plans it has, while a plan is made.
LEMMA HostStays ==
    ASSUME Progress, InOrder, Valid(ready, running), Valid(loading, running),
           UNCHANGED <<running, loaded, ready, loading, plan, base>>
    PROVE  Progress' /\ InOrder' /\ Valid(ready, running)' /\ Valid(loading, running)'
BY DEF Progress, InOrder, Valid, NodesOf

\* A resolver keeps its plan while the host is at work.
LEMMA ResolverStays == ASSUME PlanInv, UNCHANGED vars PROVE PlanInv'
<1>1. UNCHANGED <<live, missing, stack, nodes, provided, outcome>>
    BY DEF vars
<1>2. TypeOK'
    BY <1>1 DEF PlanInv, TypeOK
<1> QED
    BY <1>1, <1>2 DEF PlanInv, DependenciesFirst, ProvidedExports, AllFit

-----------------------------------------------------------------------------
\* Nothing is loaded and no plan is made.
LEMMA HostPlansInit == HostInit => HostInv
<1> SUFFICES ASSUME HostInit PROVE HostInv
    OBVIOUS
<1>1. plan = <<>> /\ base = 0 /\ ready = <<>> /\ loading = <<>>
    BY DEF HostInit, Waiting
<1>2. Valid(ready, running) /\ Valid(loading, running) /\ plan = NodesOf(loading)
      /\ ready \in Seq(NodeType) /\ loading \in Seq(NodeType)
    BY <1>1, NothingIsValid
<1>3. InOrder
    BY <1>1 DEF InOrder
<1>4. CASE EmptyHost
    <2>1. live = <<>> /\ missing \in {"fail", "trap"} /\ stack = <<>> /\ nodes = <<>> /\ provided = <<>>
          /\ outcome = "planned" /\ running = <<>> /\ loaded = <<>>
        BY <1>4 DEF EmptyHost
    <2>2. TypeOK
        <3>1. DOMAIN provided = {} /\ DOMAIN stack = {}
            BY <2>1
        <3> QED
            BY <2>1, <3>1 DEF TypeOK
    <2>3. DependenciesFirst /\ AllFit
        BY <2>1 DEF DependenciesFirst, AllFit
    <2>4. PlanInv
        BY <2>1, <2>2, <2>3 DEF PlanInv
    <2>5. Progress
        BY <1>1, <1>2, <2>1 DEF Progress
    <2>6. StillLive
        BY <2>1 DEF StillLive
    <2> QED
        BY <1>2, <1>3, <2>4, <2>5, <2>6 DEF HostInv
<1>5. CASE SomeHost
    <2>1. Init /\ running = live /\ loaded = [i \in DOMAIN live |-> [group |-> i, links |-> {}]]
        BY <1>5 DEF SomeHost
    <2>2. ResolverInv
        BY <2>1, InitInv
    <2>3. PlanInv
        BY <2>2 DEF ResolverInv, PlanInv
    <2>4. running \in Seq(Components)
        BY <2>1, <2>2 DEF ResolverInv, TypeOK
    <2>5. Len(live) \in Nat /\ DOMAIN live = 1..Len(live)
        BY <2>1, <2>4
    <2> DEFINE S == {[group |-> i, links |-> {}] : i \in DOMAIN live}
               n == Len(live)
    <2>6. loaded \in [1..n -> S]
        BY <2>1, <2>5
    <2> HIDE DEF S, n
    <2>7. n \in Nat /\ n = Len(running) /\ loaded \in Seq(S) /\ Len(loaded) = n
        BY <2>1, <2>5, <2>6 DEF n
    <2>8. loaded = [i \in 1..Len(loaded) |-> loaded[i]]
        BY <2>6, <2>7
    <2>9. Progress
        BY <1>1, <1>2, <2>4, <2>7, <2>8 DEF Progress
    <2>10. StillLive
        BY <2>1 DEF StillLive
    <2> QED
        BY <1>2, <1>3, <2>3, <2>9, <2>10 DEF HostInv
<1> QED
    BY <1>4, <1>5 DEF HostInit

-----------------------------------------------------------------------------
(* Making a plan.                                                          *)

\* plan begins: what the live components export is provided, each by the first
\* that exports it.
LEMMA BeginKeepsInv == ASSUME HostInv, NEW root \in Roots, Begin(root) PROVE HostInv'
<1> DEFINE first(id) == CHOOSE i \in DOMAIN Live : IsFirst(i, {j \in DOMAIN Live : id \in Exports[Live[j]]})
           offered == UNION {Exports[c] : c \in ToSet(Live)}
<1>1. /\ live' = running /\ Live = running
      /\ provided' = [id \in offered |-> [at |-> "live", index |-> first(id)]]
      /\ stack' = <<Frame(root)>> /\ nodes' = <<>> /\ outcome' = "planning" /\ missing' = missing
      /\ UNCHANGED <<running, loaded, ready, loading, plan, base>>
    BY DEF Begin, Live, hostVars, storeVars
<1>2. running \in Seq(Components) /\ DOMAIN running = 1..Len(running) /\ Len(running) \in Nat
    BY DEF HostInv, Progress
<1>3. ASSUME NEW id \in offered
      PROVE  first(id) \in DOMAIN running /\ id \in Exports[running[first(id)]]
    <2> DEFINE T == {j \in DOMAIN Live : id \in Exports[Live[j]]}
    <2>1. T \in SUBSET (1..Len(running)) /\ T # {}
        BY <1>1, <1>2, <1>3 DEF ToSet
    <2>2. \E i \in DOMAIN Live : IsFirst(i, T)
        BY <1>1, <1>2, <2>1, LeastNatural DEF IsFirst
    <2>3. first(id) \in DOMAIN Live /\ IsFirst(first(id), T)
        BY <2>2
    <2> QED
        BY <1>1, <2>3 DEF IsFirst
<1>4. offered \subseteq Ids /\ \A i \in DOMAIN running : Exports[running[i]] \subseteq offered
    <2>1. \A i \in DOMAIN running : running[i] \in Components
        BY <1>2
    <2> QED
        BY <1>1, <2>1, ResolverAssumption DEF ToSet
<1> HIDE DEF first, offered
<1>5. Frame(root) \in FrameType /\ Frame(root).loading = None /\ Frame(root).bindings = <<>>
    BY HostPlansAssumption DEF Frame, FrameType
<1>6. /\ stack' \in Seq(FrameType) /\ Len(stack') = 1 /\ DOMAIN stack' = {1} /\ stack' # <<>>
      /\ stack'[1].loading = None /\ stack'[1].bindings = <<>>
    <2> HIDE DEF Frame
    <2> QED
        BY <1>1, <1>5
<1>7. provided' \in [DOMAIN provided' -> Key] /\ DOMAIN provided' = offered
    BY <1>1, <1>2, <1>3 DEF Key
<1>8. TypeOK'
    <2>1. \A d \in DOMAIN stack' : d = Len(stack') /\ stack'[d].loading = None
        BY <1>6
    <2>2. missing' \in {"fail", "trap"}
        BY <1>1 DEF HostInv, PlanInv, TypeOK
    <2>3. nodes' \in Seq(NodeType) /\ live' \in Seq(Components)
        BY <1>1, <1>2
    <2> QED
        BY <1>1, <1>4, <1>6, <1>7, <2>1, <2>2, <2>3 DEF TypeOK, FrameType, NodeType
<1>9. DependenciesFirst' /\ AllFit'
    BY <1>1, <1>6 DEF DependenciesFirst, AllFit
<1>10. ProvidedExports'
    <2>1. ASSUME NEW id \in DOMAIN provided' PROVE Provides(InProcessSource(provided[id]), id, live, nodes, Len(nodes))'
        <3>1. provided'[id].at = "live" /\ provided'[id].index = first(id) /\ id \in offered
            BY <1>1, <1>7
        <3> QED
            BY <1>1, <1>3, <3>1 DEF Provides, InProcessSource, At
    <2>2. \A i \in DOMAIN live' : Exports[live'[i]] \subseteq DOMAIN provided'
        BY <1>1, <1>4, <1>7
    <2> QED
        BY <2>1, <2>2 DEF ProvidedExports
<1>11. PlanInv'
    BY <1>8, <1>9, <1>10 DEF PlanInv
<1>12. StillLive'
    BY <1>1 DEF StillLive
<1> QED
    BY <1>1, <1>11, <1>12, HostStays DEF HostInv

\* A step of add: the host waits.
LEMMA AddKeepsHost == ASSUME HostInv, Next, UNCHANGED hostVars PROVE HostInv'
<1>1. outcome = "planning" /\ live' = live
    BY DEF Next, SourceFor, Add, UseProvided, FindCycle, AskInVain, Load, LoadFails, UseService, FindMismatch,
           FindNobody, NobodyUsable, Ask, Wanted, AtImport, AtEnd, BindTop, Fail, ReturnRoot, ReturnProvider, ReturnUseless
<1>2. ResolverInv
    BY <1>1 DEF HostInv, PlanInv, ResolverInv
<1>3. ResolverInv'
    BY <1>2, SourceForKeepsInv, AddStepKeepsInv DEF Next
<1>4. UNCHANGED <<running, loaded, ready, loading, plan, base>>
    BY DEF hostVars, storeVars
<1> QED
    BY <1>1, <1>3, <1>4, HostStays DEF HostInv, ResolverInv, PlanInv, StillLive

\* The plan is handed over: all of it can be linked, since what was live is so
\* still.
LEMMA FinishKeepsInv == ASSUME HostInv, Finish PROVE HostInv'
<1>1. /\ outcome = "planned" /\ ready' = nodes /\ nodes' = <<>>
      /\ UNCHANGED <<live, missing, stack, provided, outcome, loading, running, loaded, plan, base>>
    BY DEF Finish, storeVars
<1>2. TypeOK /\ stack = <<>> /\ nodes \in Seq(NodeType)
    BY <1>1 DEF HostInv, PlanInv, TypeOK, NodeType
<1>3. TypeOK'
    BY <1>1, <1>2 DEF TypeOK
<1>4. DependenciesFirst' /\ AllFit'
    BY <1>1, <1>2 DEF DependenciesFirst, AllFit
<1>5. Valid(nodes, live)
    BY DEF HostInv, PlanInv, DependenciesFirst, AllFit, Fits, Valid
<1>6. Valid(ready', running')
    BY <1>1, <1>5, ValidStays DEF HostInv, StillLive
<1>7. Progress' /\ InOrder' /\ StillLive' /\ Valid(loading', running')
    BY <1>1, <1>2 DEF HostInv, Progress, InOrder, StillLive
<1> QED
    BY <1>1, <1>3, <1>4, <1>6, <1>7 DEF HostInv, PlanInv, Valid

-----------------------------------------------------------------------------
(* instantiate.                                                            *)

\* The nodes of a plan are numbered as they were made.
LEMMA NodesCount ==
    ASSUME NEW made \in Seq(NodeType)
    PROVE  /\ DOMAIN NodesOf(made) = DOMAIN made
           /\ Len(NodesOf(made)) = Len(made)
           /\ NodesOf(made) = <<>> <=> made = <<>>
<1> DEFINE e(i) == [k \in DOMAIN made[i].imports |-> AsLinked(made[i].imports[k])]
           S == {e(i) : i \in 1..Len(made)}
           w == [i \in 1..Len(made) |-> e(i)]
<1>1. Len(made) \in Nat /\ DOMAIN made = 1..Len(made) /\ NodesOf(made) = w
    BY DEF NodesOf
<1>2. w \in [1..Len(made) -> S]
    OBVIOUS
<1> HIDE DEF S, w
<1>3. w \in Seq(S) /\ Len(w) = Len(made) /\ DOMAIN w = 1..Len(made)
    BY <1>1, <1>2
<1>4. (w = <<>> <=> Len(w) = 0) /\ (made = <<>> <=> Len(made) = 0)
    BY <1>3
<1> QED
    BY <1>1, <1>3, <1>4

\* The groups are assigned, and the plan begins where the host's components
\* end; or nothing comes of it.
LEMMA InstantiateKeepsInv == ASSUME HostInv, Instantiate PROVE HostInv'
<1>1. /\ ready # <<>> /\ ready' = <<>> /\ UNCHANGED vars /\ UNCHANGED running
    BY DEF Instantiate
<1>2. PlanInv' /\ live' = live
    BY <1>1, ResolverStays DEF HostInv, vars
<1>3. StillLive' /\ Valid(ready', running')
    BY <1>1, <1>2, NothingIsValid DEF HostInv, StillLive
<1>4. ready \in Seq(NodeType) /\ Len(ready) > 0
    BY <1>1 DEF HostInv, Progress
<1>5. CASE L!Refuse(NodesOf(ready)) /\ UNCHANGED loading
    <2>1. UNCHANGED <<loaded, plan, base, loading>>
        BY <1>5 DEF L!Refuse, L!linkerVars
    <2>2. Progress' /\ InOrder' /\ Valid(loading', running')
        BY <1>1, <2>1, NothingIsValid DEF HostInv, Progress, InOrder
    <2> QED
        BY <1>2, <1>3, <2>2 DEF HostInv, Valid
<1>6. CASE L!Assign(NodesOf(ready)) /\ loading' = ready
    <2>1. plan' = NodesOf(ready) /\ base' = Len(loaded) /\ loaded' = loaded
        BY <1>6 DEF L!Assign
    <2>2. Len(loaded) \in Nat
        BY DEF HostInv, Progress
    <2>3. plan' = NodesOf(loading') /\ Len(loading') > 0 /\ loading' \in Seq(NodeType)
        BY <1>4, <1>6, <2>1
    <2>4. base' \in Nat /\ base' <= Len(loaded') /\ Len(loaded') < base' + Len(loading')
        BY <2>1, <2>2, <2>3
    <2>5. Progress'
        BY <1>1, <2>1, <2>3, <2>4, NothingIsValid DEF HostInv, Progress
    <2>6. InOrder'
        BY <2>1, <2>2 DEF InOrder
    <2>7. Valid(loading', running')
        BY <1>1, <1>6 DEF HostInv
    <2> QED
        BY <1>2, <1>3, <2>5, <2>6, <2>7 DEF HostInv, Valid
<1> QED
    BY <1>5, <1>6 DEF Instantiate

\* What instantiate is at, while it is at something.
LEMMA AtNode ==
    ASSUME HostInv, ~L!Idle
    PROVE  /\ base \in Nat /\ Len(loaded) \in Nat /\ base <= Len(loaded) /\ Len(loaded) < base + Len(loading)
           /\ Len(loaded) = Len(running) /\ Len(plan) = Len(loading)
           /\ Len(loaded) - base + 1 \in DOMAIN loading
           /\ NextNode \in NodeType
<1>1. /\ base \in Nat /\ Len(loaded) = Len(running) /\ running \in Seq(Components)
      /\ base <= Len(loaded) /\ Len(loaded) < base + Len(loading) /\ loading \in Seq(NodeType)
      /\ plan = NodesOf(loading)
    BY DEF HostInv, Progress, L!Idle
<1>2. Len(loaded) \in Nat /\ Len(loading) \in Nat /\ DOMAIN loading = 1..Len(loading)
    BY <1>1
<1>3. Len(loaded) - base + 1 \in 1..Len(loading)
    BY <1>1, <1>2
<1> QED
    BY <1>1, <1>2, <1>3, NodesCount DEF NextNode

\* The plan is left, or stays.
LEMMA PlanGoesOn ==
    ASSUME HostInv, EndLoading, L!EndPlan \/ UNCHANGED <<plan, base>>
    PROVE  /\ loading' \in Seq(NodeType) /\ plan' = NodesOf(loading') /\ base' \in Nat
           /\ plan' # <<>> => UNCHANGED <<plan, base, loading>>
<1>1. CASE L!EndPlan
    <2>1. plan' = <<>> /\ base' = 0
        BY <1>1 DEF L!EndPlan
    <2>2. loading' = <<>>
        BY <2>1 DEF EndLoading
    <2> QED
        BY <2>1, <2>2, NothingIsValid
<1>2. CASE UNCHANGED <<plan, base>>
    <2>1. CASE plan = <<>>
        BY <1>2, <2>1, NothingIsValid DEF EndLoading, HostInv, Progress
    <2>2. CASE plan # <<>>
        BY <1>2, <2>2 DEF EndLoading, HostInv, Progress
    <2> QED
        BY <2>1, <2>2
<1> QED
    BY <1>1, <1>2

\* The next component is loaded, under the index that the plan gives it.
LEMMA LoadNextKeepsInv == ASSUME HostInv, LoadNext PROVE HostInv'
<1> DEFINE n == Len(loaded)
<1>1. /\ ~L!Idle /\ UNCHANGED <<vars, ready>> /\ EndLoading
      /\ running' = Append(running, NextNode.component)
      /\ \E x : loaded' = Append(loaded, x)
      /\ IF n + 1 = base + Len(plan) THEN L!EndPlan ELSE UNCHANGED <<plan, base>>
    BY DEF LoadNext, L!Load
<1>2. PlanInv' /\ live' = live
    BY <1>1, ResolverStays DEF HostInv, vars
<1>3. /\ base \in Nat /\ n \in Nat /\ base <= n /\ n < base + Len(loading)
      /\ n = Len(running) /\ Len(plan) = Len(loading) /\ n - base + 1 \in DOMAIN loading /\ NextNode \in NodeType
    BY <1>1, AtNode
<1>4. loaded = [i \in 1..n |-> loaded[i]] /\ running \in Seq(Components)
    BY DEF HostInv, Progress
<1>5. NextNode.component \in Components
    BY <1>3 DEF NodeType
<1>6. /\ running' \in Seq(Components) /\ Len(running') = n + 1
      /\ \A i \in 1..n : running'[i] = running[i]
      /\ running'[n + 1] = NextNode.component
    BY <1>1, <1>3, <1>4, <1>5, AppendProperties
<1>7. loaded' = [i \in 1..Len(loaded') |-> loaded'[i]] /\ Len(loaded') = n + 1
    <2>1. PICK x : loaded' = Append(loaded, x)
        BY <1>1
    <2> DEFINE S == {loaded[i] : i \in 1..n} \cup {x}
    <2>2. loaded \in [1..n -> S] /\ x \in S
        BY <1>4
    <2> HIDE DEF S, n
    <2>3. loaded \in Seq(S) /\ Len(loaded) = n
        BY <1>3, <2>2 DEF n
    <2>4. loaded' \in Seq(S) /\ Len(loaded') = n + 1
        BY <2>1, <2>2, <2>3, AppendProperties
    <2>5. loaded' \in [1..Len(loaded') -> S]
        BY <2>4, LenProperties
    <2> QED
        BY <2>4, <2>5
<1>8. /\ loading' \in Seq(NodeType) /\ plan' = NodesOf(loading') /\ base' \in Nat
      /\ plan' # <<>> => UNCHANGED <<plan, base, loading>>
    BY <1>1, PlanGoesOn
<1> HIDE DEF n
<1>9. ASSUME plan' # <<>> PROVE base' <= Len(loaded') /\ Len(loaded') < base' + Len(loading')
    <2>1. UNCHANGED <<plan, base, loading>>
        BY <1>8, <1>9
    <2>2. n + 1 # base + Len(plan)
        BY <1>1, <1>9 DEF L!EndPlan
    <2>3. Len(loading) \in Nat
        BY <1>8, <2>1
    <2> QED
        BY <1>3, <1>7, <2>1, <2>2, <2>3
<1>10. Progress'
    BY <1>1, <1>6, <1>7, <1>8, <1>9 DEF HostInv, Progress, vars
<1>11. DOMAIN running = 1..n /\ DOMAIN running' = 1..(n + 1)
    BY <1>3, <1>4, <1>6
<1>12. DOMAIN running \subseteq DOMAIN running' /\ \A i \in DOMAIN running : running'[i] = running[i]
    BY <1>3, <1>6, <1>11
<1>13. StillLive'
    BY <1>2, <1>12 DEF HostInv, StillLive
<1>14. Valid(ready', running')
    BY <1>1, <1>12, ValidStays DEF HostInv
<1>15. Valid(loading', running')
    <2>1. Valid(loading, running')
        BY <1>12, ValidStays DEF HostInv
    <2>2. loading' = <<>> \/ loading' = loading
        BY <1>1 DEF EndLoading
    <2> QED
        BY <2>1, <2>2, NothingIsValid
<1>16. InOrder'
    <2> SUFFICES ASSUME plan' # <<>>, NEW i \in 1..(Len(loaded') - base')
                 PROVE  running'[base' + i] = loading'[i].component
        BY DEF InOrder
    <2>1. UNCHANGED <<plan, base, loading>>
        BY <1>8
    <2>2. CASE i = n + 1 - base
        <3>1. base + i = n + 1 /\ i = n - base + 1
            BY <1>3, <2>2
        <3> QED
            BY <1>6, <2>1, <3>1 DEF NextNode, n
    <2>3. CASE i # n + 1 - base
        <3>1. i \in 1..(n - base) /\ base + i \in 1..n
            BY <1>3, <1>7, <2>1, <2>3
        <3>2. running[base + i] = loading[i].component
            BY <2>1, <3>1 DEF HostInv, InOrder, n
        <3> QED
            BY <1>6, <2>1, <3>1, <3>2
    <2> QED
        BY <2>2, <2>3
<1> QED
    BY <1>2, <1>10, <1>13, <1>14, <1>15, <1>16 DEF HostInv, Valid

\* What was loaded stays, and the rest of the plan is gone.
LEMMA LoadFailsKeepsInv == ASSUME HostInv, LoadNextFails PROVE HostInv'
<1>1. L!EndPlan /\ EndLoading /\ UNCHANGED <<vars, running, ready, loaded>>
    BY DEF LoadNextFails, L!LoadFails
<1>2. PlanInv' /\ live' = live
    BY <1>1, ResolverStays DEF HostInv, vars
<1>3. plan' = <<>> /\ base' = 0 /\ loading' = <<>>
    BY <1>1 DEF L!EndPlan, EndLoading
<1>4. Progress' /\ InOrder'
    BY <1>1, <1>3, NothingIsValid DEF HostInv, Progress, InOrder
<1>5. StillLive' /\ Valid(ready', running') /\ Valid(loading', running')
    BY <1>1, <1>2, <1>3, NothingIsValid DEF HostInv, StillLive
<1> QED
    BY <1>2, <1>4, <1>5 DEF HostInv, Valid

-----------------------------------------------------------------------------
\* Every step of instantiate keeps it: resolving, loading, failing or trapping.
LEMMA HostPlansNext == HostInv /\ [HostNext]_hostPlansVars => HostInv'
<1> SUFFICES ASSUME HostInv, [HostNext]_hostPlansVars PROVE HostInv'
    OBVIOUS
<1>1. ASSUME UNCHANGED <<vars, running, loaded, ready, loading, plan, base>> PROVE HostInv'
    <2>1. PlanInv' /\ live' = live
        BY <1>1, ResolverStays DEF HostInv, vars
    <2> QED
        BY <1>1, <2>1, HostStays DEF HostInv, StillLive
<1>2. ASSUME NEW i \in DOMAIN loaded, Trap(i) PROVE HostInv'
    BY <1>1, <1>2 DEF Trap
<1>3. CASE UNCHANGED hostPlansVars
    BY <1>1, <1>3 DEF hostPlansVars, hostVars, storeVars
<1> QED
    BY <1>2, <1>3, BeginKeepsInv, AddKeepsHost, FinishKeepsInv, InstantiateKeepsInv, LoadNextKeepsInv, LoadFailsKeepsInv
    DEF HostNext

\* For a node whose imports are among what runs, the key of each stands for a
\* component that exports it.
LEMMA NextIsExported == ASSUME HostInv, ~L!Idle, NEW k \in DOMAIN NextNode.imports PROVE IsExported(NextNode.imports[k])
<1> DEFINE b == NextNode.imports[k]
           n == Len(loaded) - base + 1
<1> SUFFICES ASSUME b.source.kind = "in-process" PROVE b.id \in Exports[running[TargetOf(b.source.key)]]
    BY DEF IsExported
<1>1. /\ base \in Nat /\ Len(loaded) \in Nat /\ base <= Len(loaded)
      /\ n \in DOMAIN loading /\ NextNode = loading[n] /\ n - 1 = Len(loaded) - base
    BY AtNode DEF NextNode
<1>2. Provides(b.source, b.id, running, loading, n - 1)
    BY <1>1 DEF HostInv, Valid
<1>3. CASE b.source.key.at = "live"
    BY <1>2, <1>3 DEF Provides, At, TargetOf
<1>4. CASE b.source.key.at # "live"
    <2>1. b.source.key.index \in 1..(Len(loaded) - base) /\ b.id \in Exports[loading[b.source.key.index].component]
        BY <1>1, <1>2, <1>4 DEF Provides, At
    <2>2. running[base + b.source.key.index] = loading[b.source.key.index].component
        BY <2>1 DEF HostInv, InOrder, L!Idle
    <2> QED
        BY <1>4, <2>1, <2>2 DEF TargetOf
<1> QED
    BY <1>3, <1>4

\* Whatever was loaded, failed or trapped since live() was taken (link.rs), a
\* plan that Resolver::plan returned still means what it meant: no import is
\* bound to an index out of range, to a component that does not export it, or
\* to one that runs only later, and none goes over NATS that no wire can carry.
\* What wire may still refuse is an interface without functions.
THEOREM PlansKeepTheirMeaning == HostPlansSpec => []PlansStayValid
<1>1. HostInv => PlansStayValid
    <2> SUFFICES ASSUME HostInv PROVE PlansStayValid
        OBVIOUS
    <2>1. DOMAIN running = DOMAIN loaded /\ DOMAIN loading = DOMAIN plan
        <3>1. running \in Seq(Components) /\ loading \in Seq(NodeType) /\ plan = NodesOf(loading)
            BY DEF HostInv, Progress
        <3>2. loaded = [i \in 1..Len(running) |-> loaded[i]]
            BY DEF HostInv, Progress
        <3> QED
            BY <3>1, <3>2, NodesCount
    <2>2. \A made \in {ready, loading} : \A i \in DOMAIN made : \A k \in DOMAIN made[i].imports :
             /\ Provides(made[i].imports[k].source, made[i].imports[k].id, running, made, i - 1)
             /\ made[i].imports[k].source.kind = "nats" => made[i].imports[k].shape # InProcess
        BY DEF HostInv, Valid
    <2>3. ~L!Idle => \A i \in 1..(Len(loaded) - base) : running[base + i] = loading[i].component
        BY DEF HostInv, InOrder, L!Idle
    <2>4. ~L!Idle => \A k \in DOMAIN NextNode.imports : IsExported(NextNode.imports[k])
        BY NextIsExported
    <2> QED
        BY <2>1, <2>2, <2>3, <2>4 DEF PlansStayValid
<1> QED
    BY <1>1, HostPlansInit, HostPlansNext, PTL DEF HostPlansSpec

\* The same of the plans that a host which runs something asks for one after
\* the other: what Resolver's own behaviours have, all of these have.
THEOREM EveryPlanIsDependenciesFirst == HostPlansSpec => [](TypeOK /\ DependenciesFirst)
<1>1. HostInv => TypeOK /\ DependenciesFirst
    BY DEF HostInv, PlanInv
<1> QED
    BY <1>1, HostPlansInit, HostPlansNext, PTL DEF HostPlansSpec

\* A plan begins, and is handed over, without imports that could share.
LEMMA HostKeepsSharing == ASSUME HostInv, SharingInv, [HostNext]_hostPlansVars PROVE SharingInv'
<1>1. ASSUME UNCHANGED vars PROVE SharingInv'
    BY <1>1, SameIsShared DEF vars
<1>2. (nodes = <<>> /\ (stack = <<>> \/ \E c : stack = <<Frame(c)>>))' => SharingInv'
    BY FreshIsShared, PTL
<1>3. ASSUME NEW root \in Roots, Begin(root) PROVE SharingInv'
    BY <1>2, <1>3 DEF Begin, Frame
<1>4. CASE Finish
    <2>1. stack' = <<>> /\ nodes' = <<>>
        BY <1>4 DEF Finish, HostInv, PlanInv, TypeOK
    <2> QED
        BY <1>2, <2>1
<1>5. CASE Next
    <2>1. outcome = "planning"
        BY <1>5 DEF Next, SourceFor, Add, UseProvided, FindCycle, AskInVain, Wanted, AtImport, AtEnd,
                    ReturnRoot, ReturnProvider, ReturnUseless
    <2>2. ResolverInv
        BY <2>1 DEF HostInv, PlanInv, ResolverInv
    <2> QED
        BY <1>5, <2>2, NextKeepsSharing
<1> QED
    BY <1>1, <1>3, <1>4, <1>5 DEF HostNext, hostPlansVars, Instantiate, LoadNext, LoadNextFails, Trap

\* However many plans a host asks for, and whatever it runs by then: each is
\* found without endless recursion, and two importers of one interface share
\* its provider unless one of two providers is built on the other.
THEOREM EveryPlanIsShared == HostPlansSpec => [](NestingBounded /\ OneProviderOrLayered)
<1>1. HostInit => SharingInv
    BY FreshIsShared DEF HostInit, EmptyHost, SomeHost, Init
<1>2. HostInv /\ SharingInv => NestingBounded /\ OneProviderOrLayered
    BY DifferentLoadsEnd, SharedOrLayered DEF HostInv, PlanInv, SharingInv
<1> QED
    BY <1>1, <1>2, HostKeepsSharing, HostPlansInit, HostPlansNext, PTL DEF HostPlansSpec
=============================================================================

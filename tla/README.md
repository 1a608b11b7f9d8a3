# A TLA+ development for wasm-engine

This directory models the framework of wasm-engine (`framework/crates`): a
cluster in which hosts load WebAssembly components, find implementations of the
interfaces those components import through a registry, and link each import in
process or over NATS. The modules are translated from the Rust sources. Where a
document and the code disagree the modules follow the code, and the
disagreement is a run of its own that TLC finds violated, or is listed in
section 5.

## 1. The system

Paths are under `framework/crates`.

| Component | Source | State it keeps | Operations | What makes it correct | Module |
| --- | --- | --- | --- | --- | --- |
| registryd store | `registry/src/store.rs`, `server.rs`, `types.rs` | one JetStream KV bucket: id -> provider with a deadline | register, deregister, heartbeat, resolve, list-interfaces | no two live claims of one interface disagree, as far as their providers agree with themselves; an entry lives until deregistered, replaced or expired; an answer is what the bucket held | `ClaimLists`, `RegistryStore`, `RegistryPromise` |
| registry client, cache | `registry/src/client.rs` | question -> answer, a generation, a stopped flag | resolve, the invalidating watch | a cached answer is stale only while a change is on its way | `DiscoveryCache` |
| registry client, announcer | `registry/src/client.rs` | a `Registration` and its heartbeat task | register, beat, deregister, drop | a healthy provider stays registered, a withdrawn one goes and stays gone | `Announcer` |
| resolver | `host/src/resolve.rs`, `scan.rs` | the plan under construction, a stack of pending components | plan | dependencies first, no endless recursion, shapes agree, no wire for shapes that cannot cross one; a plan can still be loaded when its turn comes | `Resolver`, `HostPlans` |
| linker | `host/src/link.rs` | loaded instances, groups sharing a store | instantiate | exactly the components that must share a store do | `Linker`, `HostPlans` |
| host calls | `host/src/link.rs` | one lock per store, calls under way | call, forward | whoever is inside holds the store; no lock is lost; a trap stays where it belongs | `HostCalls` |
| NATS proxy | `nats-link/src/lib.rs` | one call and its deadline | invoke, retry | at most one execution, a true verdict, an end by the deadline | `RemoteCalls`, `WireTrip`, `Addressing` |
| NATS adapter | `nats-serve/src/lib.rs` | a subscription, permits, tasks | serve, run, answer, drop | calls in flight within the limit, every permit and lock given back; nobody else's calls | `RemoteCalls`, `WireTrip`, `Addressing` |
| codec and shapes | `protocol/src/val.rs`, `ty.rs`, `shape.rs`, `envelope.rs`, `host/src/scan.rs` | none | encode, decode, project, digest | what arrives is what was sent, or is refused; equal digests encode alike | `EncodeLayer`, `DecodeLayer`, `TypeLayer`, `ShapeLayer`, `Codec`, `WireTrip` |
| subjects and interface names | `protocol/src/subject.rs`, `iface.rs`, `error.rs` | none | parse, print | a name survives its journey, a call reaches the interface it names and no other | `Names`, `Addressing` |
| registry wire | `registry/src/wire.rs`, `server.rs`, `client.rs` | none | encode, dispatch and decode registry calls | the store is asked what was meant, the caller told what it said, in the encoding the WIT prescribes | `RegistryWire`, `RegistryCall` |
| registryd command line | `registry/src/bin/registryd.rs` | none | reads options, calls serve | no logic | no |
| OCI fetch | `oci-fetch/src/lib.rs` | none | fetch | pure I/O | no |
| math example | `examples/math` | none | vector arithmetic | generated bindings, no logic of the engine | no |

How they meet. Providers announce themselves to a registryd by request and
reply over NATS; replicas of registryd share a queue group and the bucket, and
every request runs in a task of its own. Clients watch the bucket through
JetStream and empty their cache at every change. A host asks the client whom to
bind an import to, fetches artifacts, plans and links. Calls between components
go straight through when they share a store, through the callee's lock when
they do not, and through proxy, NATS and adapter when the provider is remote.

Hard to test here: handlers interleaving at each bucket operation; deadlines that pass
between two steps; an answer overtaken by its invalidation; a watch that ends; requests
applied after their caller gave up; a heartbeat task racing the deregister that ends it;
clamped TTLs; a recursion across awaits whose questions get different answers; stores
that call each other in a cycle; calls dropped in mid-flight with the locks they hold;
functions that nothing interrupts; hosts that wait for each other; a retry near the
deadline; an adapter dropped with calls waiting for a permit; two peers built against
different versions of a type; one encoding written twice, by hand and by the WIT; names
that pass through four forms; a plan made from a copy of what runs and loaded after
other plans. `PROJECT.json` lists each with its line and the properties that would catch
it going wrong.

## 2. The modules

A step of a module is what a task does between two awaits, or one operation of
an external system it awaits. Names are those of the Rust code where it has one.

### ClaimLists, RegistryStore, RegistryPromise

`RegistryStore` is registryd: `bucket` is the KV bucket, `Calls` the handler
tasks, each with a program counter. A step is one bucket operation with the
computation that follows it: `StartRegister` validates and lists, `ReadEntry` is
one get of `live_registrations`, `CheckConflicts` is `reject_conflicts` and the
computation of the deadline, `Put` the write; `StartHeartbeat` and
`StartDeregister` are the get, `Put` and `Delete` the write. Writes, or their
acknowledgements, may fail; gets of `Unreadable` ids may fail; the clock ticks,
and `Collect` is the bucket's `max_age`. `touched` is a history variable: what
was written since a handler began to read.

What a provider claims is a list (`ClaimLists`), as in the code, and may name an
interface twice, with two digests: `validate` refuses neither, and `reject_conflicts`
remembers of each other provider the one given last (`LastWord`) and compares none
with another of the same list.

`RegistryPromise` is what `docs/spec/registry.md` promises, without bucket,
keys or handlers: a registration enters whole and without a conflict, and leaves
by expiry or withdrawal. Where the document forbids two digests of one interface, the
promise is as strong as the code can keep it: of an interface that two providers claim,
all that one says is what the other says last (`Agree`). Of lists that give each
interface one digest that is the document's rule. `RegistryStore!Promise` is the
refinement mapping.

### DiscoveryCache

`Client::resolve` with its cache, the task `invalidate`, and a registry whose
entries are written, expire and are collected meanwhile. `bucket` keeps of an
entry only what a reader can tell. `captured` is the generation a resolve read
before it asked; `undelivered` counts, for each key, the changes the watch has
still to deliver.

### Announcer, RegistryClientProofs

`Client::register`, `beat`, `Registration::deregister` and the drop of a
`Registration`, against a registry taken at its word and a network that delays
and loses calls and may serve a request after its caller gave up (`orphans`). A call
fails (`Failed`) by its timeout, or before: registryd answers `unavailable` because it
cannot reach the bucket, before or after the write; nobody serves the registry; or the
reply cannot be read. `beat` makes no difference between these. `failures` counts calls
that failed in a row; those that `Falter` brings about are at most `MaxFailures`.
Time is counted in seconds down to each deadline: `left` of the entry, `due` of
the heartbeat's interval. `RegistryClientProofs` has the theorems about the two halves
of the client, this one and `DiscoveryCache`.

### Resolver

`Resolver::plan`. The recursion of `add` through `source_for` and `load` is an
explicit `stack` of frames, one component each; a step is one import of the top
frame, or its return. The registry may answer differently at each question.
Whether a signature can cross a wire is a constant of an import.

### Linker, HostCalls, HostCallsProofs

`Linker` is `Host::instantiate`: `assign_groups` with the union-find as the code
has it (path halving included), then one node of the plan at a time, each of
which may fail and leave the rest unloaded. `bonds` and `blamed` are history:
which components had to share a store, and which trapped of themselves.

`HostCalls` adds calls. A caller has a `stack` of frames; `queue` is for each
store the FIFO queue of its tokio mutex, whose head has the lock. Guests call
any import, return or trap; a call may be dropped at any await (`Cancel`).

### RemoteCalls, RemoteCallsProofs

One or several proxies, NATS and the adapters. A call is numbered when made; its
request has a reply subject for each attempt, so a reply to the first is not
taken for one to the second. `Begin`, `Hear`, `Retry`, `Timeout` are
`round_trip`; `Serve`, `Take`, `Publish` and `Drop` are `serve`, `run` and the
drop of `Served`; `Refuse`, `Dispatch`, `Enter`, `Return`, `Expire` are
`dispatch` with the call under its deadline. A served function may call a proxy
again (`CallOut`), and then waits inside its store. The deadline of a task is a timeout
around the call, which looks at the clock only when the call waits: `Expire` finds it in
line for the store or waiting for another call, and never computing (phase `inside`),
since `engine()` sets neither epochs nor fuel (`host/src/lib.rs:23-27`). A request may
come without a deadline, from a sender that is no proxy (`Ask`); its call is awaited
without one. An adapter serves a component
with a store of its own, as HostCalls has it without further frames. The error
codes `not-found` and `bad-request` of an adapter are one verdict, "refused",
apart from the `not-found` of a proxy that heard nobody.

### Packing, WitTypes, the layers, Codec, WireTrip

The pure functions of the protocol recurse over a WIT type. A layer says what is done
at a type, given what is done at the types that it is made of, which is its constant:
`TypeLayer` has `Carriable` (`from_component_type`), `EncodeLayer` `val_to_msgpack`,
`DecodeLayer` `msgpack_to_val`, `ShapeLayer` `Render` (`shape.rs`), and `ValueLayer`
the values that wasmtime lifts. `Packing` has what they share, `WitTypes` the types.
`Codec` stacks them, seven high, with nothing below: types may be nested six deep, as
those of the registry are. The recursion is spelled out so that it can be reasoned
about: a property of a layer, given the same of the one below, is a step of an
induction over types, and there is no recursive operator.

Widths of integers and the set of strings are small; an f64 is one
of four values of which f32 has two; what may fail is a sequence of at most one
element. The digest is the canonical text itself: sha256 is taken to be
injective. `WireTrip` sends one request from a caller with one shape to a
provider with the same or another, or from a stranger to a provider.

### RegistryWire, RegistryCall

`RegistryWire` has `wire.rs`: each type's `to_value` and `from_value`, written by hand,
and beside them the same types as `world.wit` declares them, for `Codec`.
`RegistryCall` is one call of the registry. The caller is the Rust client
(`ClientArgs`, `ToldClient`), a guest whose host knows only the WIT (`GuestArgs`,
`ToldGuest`), or a stranger; `TransportError`, `OrderOf` and `OutcomeReply` are
registryd's dispatch, arguments and result. The store may say anything it can
(`Outcomes`); another subscriber of the queue group may reply anything (`Mislead`).
An envelope is a record without its id and its trace, and an error has no wording.

### Names, Addressing, StoreAndAddressProofs

`Names` parses and prints interface names, versions and subjects, as sequences of
tokens: separators, and words for whatever is between them. `Addressing` is the
journey of a name: `Serve` (scan and subscribe), `Announce` (a claim, validated),
`Resolve` (scan, ask, pick the highest version), `Call` (the subject, and the name in
the envelope), and `Answer`, by any subscriber whose wildcard matches. A text may
have dots in its namespace, and a sender may contradict itself (`CallAmiss`).
`StoreAndAddressProofs` has the theorems about names and their journey, and about
`RegistryStore`.

### Trips, LayerProofs, WireProofs

`Trips` puts `WireTrip`, `RegistryCall` and `Addressing` side by side in one
specification: they share the codec and no state, and a behaviour is of one of them.
`LayerProofs` has what holds of one layer of the codec, `WireProofs` what follows for
all of them and for `WireTrip`.

### HostPlans, HostPlansProofs

The composition of `Resolver` and `Linker`. `Begin` takes `live()`, `Next` of
`Resolver` makes the plan, `Finish` returns it, `Instantiate`, `LoadNext` and
`LoadNextFails` load it, `Trap` poisons a store whenever the host is not loading, since
`instantiate` has it as `&mut`. One plan can wait to be loaded while the next is made,
which is then loaded into a host that has more components than `live()` told of.
An interface may be exported without a function, like `types` and `plane` of
`wit/math/world.wit`: it is scanned and bound like any other, and `wire` then fails
(`Functional`, `CanWire`). While the resolver is at work the host's steps wait: they
share nothing with it, so every interleaving equals one of these. `HostPlansProofs`
has the theorems about `Resolver` alone and about the composition.

### Recursion

What the proofs about loops share, and no model: the least and the greatest number
of a set (`LeastNatural`, `GreatestNatural`), the induction that follows (`Climb`),
the least set by inclusion (`Least`), and that a loop written as a recursive function
of the number of its rounds has a value for each (`RoundsExist`). The library's
theorems of induction take an operator, which no installed prover instantiates; these
take a set, and come from the library's facts about strict subsets of finite sets.

## 3. What is checked

| Run | Module | States | What it shows |
| --- | --- | --- | --- |
| `registry_concurrent` | `RegistryStore` | 769,596 | an answer is the bucket but for races, a conflict slips through only by a race or where what was read contradicts itself, a heartbeat extends what it read, only the dead are collected |
| `registry_serial` | `RegistryStore` | 13,782 | one handler at a time implements `RegistryPromise` |
| `registry_conflict_race` | `RegistryStore` | violated | finding 1 |
| `registry_revival` | `RegistryStore` | violated | finding 2 |
| `cache` | `DiscoveryCache` | 549,694 | freshness, nothing cached once the watch ended, eventual currency |
| `announcer` | `Announcer` | 11,699 | one failed call costs no registration, an expired one comes back, an ended one goes for good |
| `announcer_clamped` | `Announcer` | violated | finding 3 |
| `announcer_deregister` | `Announcer` | violated | finding 4 |
| `resolver` | `Resolver`, `Linker`, `HostPlans` | 182,766 | plans are in order, go over the wire only where it fits, end, do not mix providers by chance, and stay valid until they are loaded |
| `host_calls` | `Linker`, `HostCalls` | 307,475 | who shares a store, who holds it, what a trap poisons, when calls deadlock |
| `remote_calls` | `RemoteCalls` | 567,651 | at most one execution, true verdicts, permits and locks given back; nothing lasts but functions that compute, and who waits for their store without a deadline |
| `wire_trip` | `Codec` and its layers, `WireTrip`, `RegistryWire`, `RegistryCall`, `Names`, `Addressing`, `Trips` | 359,749 | what arrives is what was sent or is refused, for arguments, registry calls and names; digests tell shapes apart |

**Bounds, and why they are enough.**

- *Registry.* Two ids, one interface with two shapes and two handlers: a conflict and
  each race need two registrations and two handlers, and a third adds no pair. Lists of
  no claim, one, and two that contradict each other. TTLs from below the minimum to
  above the maximum, and time up to `MaxTime`, so that entries expire, are renewed and
  are collected between any two steps. The handlers are interchangeable (symmetry); no
  temporal property but an action property is checked with it. The serial run has one
  handler and more time.
- *Cache.* Two resolves of one question, so that one overlaps the other and the
  changes; two providers, one of which can be unreadable; two writes, the least
  for a change and a change back; one error of the watch. Questions do not
  interact but through the generation.
- *Announcer.* A TTL of three intervals, calls that may take as long as the timeout, two
  calls in a row that fail at any moment, after which the next does not, ticks that fall
  two seconds behind. Interval 3 exceeds timeout 1, as 10 s exceeds 5 s in the defaults.
- *Resolver.* An application of four imports; two providers that import each
  other; one that offers what either does; one of a later version; one with
  another shape; services; one that can only share a store; an interface without
  functions; up to two providers in
  an answer. Cycles, second providers and layered providers all occur. A host starts
  in one of two ways: with any two components live and one plan to make, the initial
  states of `Resolver` itself; or empty, with two plans, of which the second may
  be made before the first is loaded, or after it was or failed half way,
  and one trap. Two plans are the least of which one can outdate the other.
- *Host calls.* Plans of up to three components, in one or several instantiate
  calls, among them a store that calls itself through another; two callers, each
  of up to two calls. Locks that are waited for, and cycles of two stores,
  need no more.
- *Remote calls.* Two calls, one of which may be made by the function that answers the
  other, or a request without a deadline in place of either; two replicas, one with one
  permit (the next request waits in the subscription) and one with two (the next waits
  for the store); a deadline of two ticks and a pause of one, so that a retry lands
  before, at or after the deadline.
- *Wire.* A type for each constructor, most nested in another, in pairs that
  differ by name, order, length, width or arm; all values with lists of up to
  two elements; MessagePack values of depth two from strangers. Widths 2 to 5 bits
  keep the order of 8 to 64. Types are nested at most six deep, as deep as those of the
  registry are; what goes deeper is no type in `Codec`.
- *Registry calls.* A provider of each kind and one without interfaces; every
  error; every result with none, one and two items; from strangers, each
  registration with one entry less, twice, elsewhere or of another type at each
  level, and envelopes that contradict their subject; from misleading repliers,
  results that are none at each level. What reads one entry never looks at another.
- *Names.* Ten names: four versions, with a pre-release and a build; namespaces and
  packages with dots that make the same subject; one that is another with two parts
  swapped; three that do not parse. Two providers, two subscriptions: a call goes wrong
  only between the one it names and one other.

**Deadlock** is not checked where the system may stop: calls are used up,
providers are gone, a plan is made, a value has arrived. Callers that wait
for each other for ever are an invariant (`DeadlockNeedsCyclicStores`) or a
temporal property (`OnlyGuestsLast`) instead.

**Fairness.** `DiscoveryCache!CacheFairSpec`: the watch delivers, because the JetStream
consumer behind it resumes where it left off, and a resolve under way ends, if
only by its timeout; nobody has to write or ask. `Announcer!FairSpec`: the
runtime runs tasks and timers; a request is served or fails; and the network is
fair-lossy, which is the strong fairness of `BeatServed` and `ReAnnounce`: of
calls made again and again some get through. Nobody has to register, deregister or
die. `RemoteCalls!FairSpec`: a task of the adapter that can go on does, up to
`Host::call`, at its timer, when what it waited for has come, and to `publish`; and the
lock of a store, which tokio gives in the order of asking, goes to the first in line. This
takes a thread of the runtime that no guest computes on. Nothing is assumed of NATS, of
guests or of those who serve: a function may compute for ever, and `OnlyGuestsLast`
says that only it stays then, with those that wait for its store without a deadline.

Type invariants are checked where messages and plans of many forms meet
(`DiscoveryCache`, `Resolver`, `Trips`). Those of `RegistryStore`, `RemoteCalls`,
`Announcer`, `Linker` and `HostCalls` are part of the invariants that are proved (`Types`,
`HostTypes`, `PlanTypes`, `Stacks`, `Queues`). No run is spent on these.

Every property of a passing run has a mutant in `PROJECT.json`: a change of one
definition, such as a missing guard or a missing reset, under which TLC finds
the property violated.

## 4. What is proved

TLAPS checks these for all values of the constants, under the ASSUME of each module and
the hypotheses named below.

- `RegistryClientProofs`, of `DiscoveryCache`: `TypeCorrect`; `CacheFreshness`, that a
  cached answer is wrong about a provider only while the watch has a change of it to
  deliver; `NothingCachedOnceStopped`. The invariant `StaleOnlyWhileUndelivered` is not
  inductive: an answer under way is about to be cached. `CacheInv` adds
  `InFlightCurrent`, that what a resolve got so far is already current for every key
  with no change undelivered, while the generation it captured still stands. A change
  makes its key undelivered; a delivery moves the generation on, which empties the claim
  about every resolve in flight; `Return` caches only if the generation stands.
- `StoreAndAddressProofs`, of `RegistryStore`, with `Types`, `StoredBounded` (no stored
  deadline is further off than the longest TTL) and one `HandlerInv` for each handler in
  `StoreInv`. `AnswersAreTheBucket`: what a handler has read of an entry that nobody
  wrote since it listed the keys is what the bucket holds, so what raced is all in
  `touched`. `ConflictsNeedRaces` and `HeartbeatsExtend` say the same of what a handler
  that read is about to put. `CollectedWereDead`, the action property, has a hypothesis:
  the bucket's `max_age` is no less than the longest TTL. `open` (`store.rs:66`) creates
  it with just that; a bucket that an earlier registryd made with a smaller `max_ttl` is
  outside the theorem. `LoneHandlerKeepsPromise` is the refinement of `RegistryPromise`:
  one handler, entries that can all be read, the same hypothesis, and any lists of
  claims. `LoneInv` adds that live registrations agree with each other, and that what
  the handler is about to put agrees with the live (`HandlerAgrees`); then each bucket
  operation is a step of the promise or a stutter, and so are the clock and the
  collector. `LoneHandlerNeverConflicts` is the rule of `registry.md:91-92`, and has one
  hypothesis more: no list gives an interface two digests (`Consistent`). Without it a
  handler alone admits conflicting claims too: after `[i:d1, i:d2]` comes `[i:d2]`,
  which repeats the last word of the first (section 5). So `reject_conflicts` fails by
  concurrency, by an entry that cannot be read, or by a provider that contradicts
  itself.
- `HostPlansProofs`, about `Resolver!Spec`, one plan from any host: `TypeCorrect`;
  `PlanIsDependenciesFirst`; `OnlyWhatFitsIsRemote`. `ResolverInv` adds that whatever is
  provided is exported by a component that is live or in the plan (`ProvidedExports`),
  and that each binding already made fits (`AllFit`). `add` only appends to the plan, so
  a binding stays in order; the check of exports when `add` returns is what keeps the
  caller's binding true. `PlanNestsNoDeeperThanInterfaces`: the interfaces that the
  frames wait for differ (`LoadsDiffer`), so there are no more frames than these and
  one. `ImportersShareOrLayer` needs `SharingInv`: each binding in process goes to the
  component that provides its interface, or to one that needs that component
  (`OneFirst`), since what a frame was begun for builds on what came to be provided
  meanwhile (`BuiltOn`). About `HostPlansSpec`, any number of plans by one host:
  `PlansKeepTheirMeaning`, `EveryPlanIsDependenciesFirst` and `EveryPlanIsShared`. `HostInv`
  says that what `live()` told is still there (`StillLive`), since a host only ever
  appends; and that the plan that waits, and the one being loaded, name what is there
  and exports what is bound to it (`Valid`), at positions that do not move
  (`InOrder`, `Progress`). That `wire` succeeds is not proved, and not so: it also wants
  functions.
- `HostCallsProofs` is about `Linker` first. The union-find of `assign_groups`
  is a forest in which ranks grow towards the roots; halving a path changes neither
  roots nor which unions of trees there are (`Kept`), and a union of two roots joins two
  trees and no others. So the assignment of groups puts together the least that the
  bindings without a wire shape demand, and `LinkerInv` carries that through loads,
  failures and traps: who is bonded is who shares a store (`BondsAreStores`), links fit
  the stores of both ends (`LinksFit`), and a component to come gets a poisoned store
  only if a loaded one is in it already (`NoneIsSentToPoison`).
  `OnlyTheBoundShareAStore` and `OnlyTwoStoresAreRefused` follow. Of `HostCalls`:
  `CallsWithinAStoreAreSerial` and `LocksAreGivenUp` from `CallInv`, which
  adds that each frame was called by a link of the one below, with a lock of its own or
  within the other's store (`Stacks`), that the places in each line are those of frames
  that own one, none twice, and whose head alone may be past locking (`Queues`), and
  that nobody calls while `instantiate` has the host (`Quiet`).
  `OnlyCyclicStoresDeadlock`: the lock that each of them waits for is held by another of
  them, which waits in turn in a store reached from that one; if no stores called each
  other in a cycle, the set of stores reached would shrink strictly from one to the
  next, and strict subsets of a finite set do not go on for ever. `TrapsAreContained`:
  `TrapInv` follows an error that is passed up the frames to the component that trapped.
- `RemoteCallsProofs`: `CallsRunOnce`, that a function is run for a call at most once,
  and `VerdictsAreTrue`, that a guest told of results, of no provider or of a refusal is
  told what happened, for any number of calls, adapters and permits, and any deadline.
  What makes `CallInv` inductive is `OnePlace`: the request of a call, whatever its
  attempt, is on its way, or in one inbox, or answered by one task, and never in two of
  these. The places before the function is entered have `runs` at 0 (`PlaceTells`,
  `TaskTells`); a reply is for a call that still waits and says what happened
  (`ReplyTells`); and a call that pauses before its retry is `Untouched`: nothing ran
  for it and nothing of it is anywhere, so the second request is the only one
  (`CallTells`). Losses, drops and crashes only take away (`LossStep`).
  `PermitsAndStoresComeBack`: `StoresInv` counts each adapter's permits and tasks
  together (`PermitsAddUp`), gives whoever is inside the head of the line
  (`InsideHolds`), and has nobody in a line but tasks in a call (`LinesAreOfTasks`). `ProvidersWaitAsLong`: the request of a call that waits
  carries the whole deadline wherever it is (`RequestsSay`, `InboxesSay`), and from when it is taken, its task has
  no less time left than the call that waits for this attempt (`InTime`); requests of
  strangers are of no call that waits.
- `RegistryClientProofs`, of `Announcer`, says how long a registration outlives calls
  that fail. With `Pause` the longest between two beats and `Delay` the longest a reply
  takes, `LongEnough(n)` is TTL > interval + n pauses + the time until the next call is
  served + `Delay`. `ExpiryTakesFailures`: for any n up to `MaxFailures`, if
  `LongEnough(n)`, a held entry expires only after more than n calls in a row failed, at
  once or by their timeout; with n = 1 that is `OneFailureIsHarmless`,
  `ExpiresOnlyAfterFailures` of the run, and with n = `MaxFailures` `HeldIsLive`: where
  no more than these are lost or end in an error one after the other, and replies take
  less than the timeout, an entry never expires while it is held. `AnnouncerInv` has the
  forms of calls (`MainCalls`, `BeatCalls`), that none is late (`Prompt`), that a live
  entry is one's own (`Alone`), and that an answer is no older than the entry it speaks
  of (`Fresh`). `Covered(n)` bounds the time to the next beat, and the time its call may
  still take, by what the entry has left, less a pause for each failure counted. At the
  defaults (TTL 30, interval 10, timeout 5) one failure is harmless if replies take less
  than the timeout; two take a TTL of more than three intervals. The bound is sharp on
  the instances tried: one second less, and TLC finds the entry expired. `LongEnough`
  compares the TTL granted with an interval that comes from the one proposed: a
  hypothesis here, and finding 3 is the run without it.
- `StoreAndAddressProofs`, of `Addressing`: `NamesComeBack` and `CallsArrive`. Its
  lemmas are about `Names`: by induction over a text, splitting what was joined gives
  the parts, and joining what was split the text, so a printed interface parses as
  itself and two WIT interfaces with one subject are one; and a subscription matches a
  subject exactly if the interface is the same. `AddressInv` has what is served come
  from names, what is claimed be ids that parse, and the request be of what is bound.
  `CallsArrive` has the hypothesis `NoWildcards`: no interface is named with `*`, the
  wildcard of NATS. A WIT name cannot be; a provider that gives itself that name hears
  the calls of others, and refuses them. A function is one word here: those of
  resources, which have dots, are outside, as a proxy defines no resources.
- `LayerProofs` is about one layer of `Codec`, and assumes of the layer below what it
  proves of its own: whatever can be decoded has the type asked for (`DecodedHasType`);
  a value of a type that can be carried is encoded in one way and decodes to itself
  (`ReturnsAll`); records go by the names of their fields, whatever their order
  (`RecordByName`); and a number keeps its value even if it is read at another width
  (`NumberIsItself`).
- `WireProofs` puts seven layers one on the other, which is an induction over types:
  `P1` to `P7` are instances of `LayerProofs`, and what `P1` proves is what `P2`
  assumes. Of `WireTrip`, for any widths, interfaces, values and strangers:
  `WhatIsSentArrives`, `WhatArrivesHasItsType`, `WhatHasAShapeCanBeSent`,
  `NumbersArriveAsTheyAre` and `RecordsGoByName`, from `WireInv`, that what was sent is the
  encoding of what was chosen and what arrived is the decoding of what was sent.

Model-checked only: every liveness property, which is beyond this prover (of `Announcer`,
that an expired registration comes back and that an ended one goes);
`EqualDigestsAgree`, since a digest is of the text of a shape, and that two texts put
together are equal only if their parts are is an induction over characters;
`OneFormOfEach` (in effect about flags: records decode to the order of their declaration);
what `RegistryCall` says of whole calls; and the types of `Trips`.
What is proved holds whatever the bounds of
section 3 are: `MaxTime`, `MaxCalls`, `MaxLoaded` and the like are any natural numbers.

## 5. Findings

Each of the first four is a run.

1. `registry_conflict_race`: two registers at once with differing digests are both
   admitted (`store.rs:78`).
2. `registry_revival`: a heartbeat puts back what a deregister removed after it
   read (`store.rs:103`).
3. `announcer_clamped`: the interval comes from the TTL proposed, not the one
   granted (`client.rs:265`).
4. `announcer_deregister`: the heartbeat task, alive until deregister returns,
   announces again what was removed (`client.rs:230`).

Noted while modelling, without a run:

- An entry that merely expires is no change of the bucket, so nothing empties the
  cache (`client.rs:285`): where nothing else changes, a dead provider is answered
  for longer than the `ttl-secs` of `registry.md:70-71`. `EventuallyCurrent` is
  stated for entries that are written or deleted.
- `linking.md:81-82` says that a component parked on a remote import holds only
  its own store. The stores of its callers are held too, since a forward awaits
  the call under the caller's lock (`link.rs:263`, `link.rs:148`).
- `wire-protocol.md:71` calls `deadline_ms` the caller's remaining budget; the
  retry sends the whole one again (`nats-link/src/lib.rs:155`). `GivesUpNoSooner` is
  the half that holds.
- The pause before the retry is cut to what was left when the attempt began
  (`nats-link/src/lib.rs:160`), so a call may last its deadline and a pause more.
- Heartbeats of three intervals to the TTL leave nothing for the delay of a
  reply: two that are lost in a row may cost the registration, which is why
  `ExpiresOnlyAfterFailures` says two (`ExpiryTakesFailures` has what TTL it takes).
- `live()` goes on offering the components of a poisoned store (`link.rs:67`), and
  nothing ever discards a group, so later plans bind to what can never be entered
  again. `linking.md:50-51` says "a poisoned group has to be discarded and rebuilt"
  and does not say by whom.
- `validate` takes names with dots in them (`store.rs:280`), though "Name and version
  have to recombine into the form subjects are built from" is its purpose
  (`store.rs:278`): `a.b:c/d` gives a subject of seven tokens, which does not parse, and
  which it shares with `a:b.c/d`. WIT names have no dots, so the property `NamesSurvive`
  speaks of subjects for those only; `CallsReachTheirInterface` says that a call of a
  WIT name is safe from the others.
- An adapter never looks at the subject a request came on: it takes the function from
  the envelope (`nats-serve/src/lib.rs:225`), where registryd compares the two
  (`server.rs:79`). A request that contradicts itself is run as its envelope says.
- A provider may claim one interface with two digests in one list, and nothing compares
  them (`store.rs:277-296`); `reject_conflicts` keeps of the other providers the digest
  that is inserted last (`store.rs:151-158`). After `A = [i:d1, i:d2]` comes `B = [i:d2]`,
  one handler and no race, and `A` and `B` are live with differing digests, which
  `registry.md:91-92` rules out. The other way round the second is refused: all that a
  newcomer claims is compared.
- An interface of types alone gets an empty wire shape (`scan.rs:119-133`), is resolved
  and bound, and `wire` then finds no function of it and fails with `NotExported`
  (`link.rs:229-232`), "is not exported by the component meant to provide it"
  (`link.rs:278`), although it is exported. `types` and `plane` of `wit/math/world.wit`
  are such.
- A deadline does not interrupt a guest that computes (`nats-serve/src/lib.rs:247`): it
  keeps its store, its permit and a thread of the runtime for as long as it likes, and
  the reply `deadline-exceeded` of `wire-protocol.md:154` does not come. A request
  without `deadline_ms`, which `wire-protocol.md:71` makes optional, is awaited without
  one (`lib.rs:255`).
- A get that fails is skipped (`store.rs:210`), so an unreadable entry neither
  conflicts nor is found.

## 6. What is not modelled

Contents of artifacts and functions; the bytes of MessagePack, the wording of errors and
names character by character; tracing; the count of handled requests;
command lines and OCI, which have no state. The order of semver is a constant of
`Addressing`. Start functions that call imports while a plan is being
instantiated; shapes of exports within a process, which wasmtime
checks; the client's own request timeout in async-nats, which is `RequestFails`.
Timers in `RemoteCalls` and `Announcer` fire on time: the clock waits for
whatever is due.

What some properties do not say: `EventuallyCurrent` nothing of entries that merely
expire; `EqualDigestsAgree` is run on parameters, since the interfaces of the run have
no results, which `Render` treats alike; `AnswerIsTheStores` asks less of a guest, which
decodes by the WIT and traps on anything else, than of the client, and of resolve's
answer stops before `filter_map(Resolution::pick)` (`client.rs:113`), which is
`Addressing!Pick`; `GivesUpNoSooner` is one side of a deadline;
`DeadlockNeedsCyclicStores` does not meet the lock that `wire` takes (`link.rs:240`),
since `instantiate` has the host as `&mut` and no call overlaps it.

## 7. Plan

Done: `RegistryStore` with its promise, `DiscoveryCache`, `Announcer`, `Resolver`,
`Linker`, `HostCalls`, `RemoteCalls`, `Codec`, `WireTrip`; `Names`, `Addressing`,
`RegistryWire`, `RegistryCall` and `Trips`; `HostPlans`. Every component with a state or
an encoding of its own is modelled; the safety of all but the calls of the registry is
proved. What is left, in this order:

1. `RegistryCall`'s `StoreIsAskedWhatIsSaid` and `AnswerIsTheStores`, by what
   `WireProofs` says of the values of each type of the registry.
2. An abstract specification of a remote call, of which `RemoteCalls` is an
   implementation: today its promise is the four invariants of `RemoteCallsProofs`.

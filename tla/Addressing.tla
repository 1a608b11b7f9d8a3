------------------------------ MODULE Addressing ------------------------------
(***************************************************************************)
(* From the name of an export to a call that reaches it.  A provider scans *)
(* a component (crates/host/src/scan.rs), serves its exports and says so   *)
(* (crates/nats-serve/src/lib.rs); the registry checks the names           *)
(* (crates/registry/src/store.rs); a host asks for its import, picks a     *)
(* version (crates/registry/src/client.rs) and calls a function of it      *)
(* (crates/nats-link/src/lib.rs).  Only names travel; a service in another *)
(* language does the same under names of its own making.                   *)
(***************************************************************************)
EXTENDS Names, FiniteSets

CONSTANTS
    Providers,
    Texts,       \* names of exports and imports, and of what services offer
    Functions,   \* the functions of every interface
    Satisfies,   \* pairs <<offered, wanted>> of versions with offered in ^wanted
    NewerThan,   \* pairs <<newer, older>> of versions
    MaxServing   \* bound on the interfaces served at a time

IsWord(part) == Len(part) = 1 /\ part[1] \notin Separators

\* A function has the name of a WIT function.  Those of a resource, which have
\* dots, are left out: a proxy defines no resources, so nobody can call one.
ASSUME AddressingAssumption ==
    /\ Texts \subseteq Seq(STRING)
    /\ \A f \in Functions : f \in Seq(STRING) /\ IsWord(f)

VARIABLES
    serving,  \* subscriptions: who serves an interface, and the text it comes from
    claims,   \* what the registry holds
    wanted,   \* the interface that the host imports
    bound,    \* the resolution it is bound to
    request,  \* a request on its way, or answered
    verdict   \* what became of it, once it is known

addressingVars == <<serving, claims, wanted, bound, request, verdict>>

AtRest ==
    /\ serving = {} /\ claims = {}
    /\ wanted = <<>> /\ bound = <<>> /\ request = <<>> /\ verdict = <<>>

-----------------------------------------------------------------------------
(* The provider.  Nothing a host resolves depends on who still serves, nor *)
(* a call on what is claimed: subscriptions and claims are made before the *)
(* host has its resolution, and subscriptions end after it.                *)

\* scan_instance, and Adapter::serve, which subscribes.  A name that cannot be
\* parsed fails the scan.
Serve(p, text) ==
    /\ wanted = <<>> /\ Cardinality(serving) < MaxServing
    /\ \E id \in ToSet(ParseId(text)) :
          serving' = serving \cup {[by |-> p, interface |-> id, text |-> text]}
    /\ UNCHANGED <<claims, wanted, bound, request, verdict>>

\* Served is dropped.  The registration stays until it expires.
StopServing(s) ==
    /\ wanted # <<>>
    /\ serving' = serving \ {s}
    /\ UNCHANGED <<claims, wanted, bound, request, verdict>>

\* provider: a claim for each interface that is served.
Claimed(p) ==
    {[provider |-> p, name |-> BareName(s.interface), version |-> s.interface.version] :
        s \in {t \in serving : t.by = p}}

\* validate: name and version must recombine.
IsAddressable(claim) == ParseId(claim.name \o <<"@">> \o claim.version) # <<>>

Announce(p) ==
    /\ wanted = <<>>
    /\ Claimed(p) # {} /\ \A claim \in Claimed(p) : IsAddressable(claim)
    /\ claims' = {claim \in claims : claim.provider # p} \cup Claimed(p)
    /\ UNCHANGED <<serving, wanted, bound, request, verdict>>

-----------------------------------------------------------------------------
(* The host.                                                               *)

\* The claims that answer a question, of one provider.
Offers(p, id) ==
    {claim \in claims :
        /\ claim.provider = p
        /\ claim.name = BareName(id)
        /\ <<claim.version, id.version>> \in Satisfies}

\* Resolution::pick: the highest version.
Pick(p, id) ==
    LET highest == {claim \in Offers(p, id) :
                       \A other \in Offers(p, id) : <<other.version, claim.version>> \notin NewerThan}
    IN  {[provider |-> p, interface |-> interface] :
            interface \in UNION {ToSet(ParseId(claim.name \o <<"@">> \o claim.version)) : claim \in highest}}

\* Namespace, package and interface of a WIT name are words: "WIT identifiers
\* are already restricted to [a-z0-9-], so no escaping is needed"
\* (wire-protocol.md section 2).
IsWit(id) == \A part \in {id.namespace, id.package, id.interface} : IsWord(part)

\* The import is scanned, offers asks for it, and link binds one provider.
Resolve(text) ==
    /\ wanted = <<>> /\ request = <<>>
    /\ \E id \in ToSet(ParseId(text)), p \in Providers :
          /\ IsWit(id)
          /\ \E resolution \in Pick(p, id) :
                /\ wanted' = << id >>
                /\ bound' = << resolution >>
    /\ UNCHANGED <<serving, claims, request, verdict>>

Request(subject, iface, func) == [subject |-> subject, iface |-> iface, func |-> func]

\* Proxy::define, and a call of the function it defined.
Call(f) ==
    /\ bound # <<>> /\ request = <<>>
    /\ LET id == bound[1].interface
       IN  request' = << Request(Subject(id, f), IdText(id), f) >>
    /\ UNCHANGED <<serving, claims, wanted, bound, verdict>>

\* A sender whose envelope says something else than its subject.  Nothing it
\* meets depends on claims.
CallAmiss(f, text, other) ==
    /\ claims = {} /\ request = <<>>
    /\ \E id \in ToSet(ParseId(text)) : request' = << Request(Subject(id, f), other, f) >>
    /\ UNCHANGED <<serving, claims, wanted, bound, verdict>>

-----------------------------------------------------------------------------
(* The call arrives.                                                       *)

\* Who may get a request: one of each queue group that subscribed to its subject.
\* The group is named for the interface (queue_group), so its members are alike.
Listeners == {s \in serving : Matches(Wildcard(s.interface), request[1].subject)}

\* dispatch, up to the call.
Dispatch(s) ==
    IF request[1].iface = IdText(s.interface) /\ request[1].func \in Functions
    THEN "called" ELSE "not-found"

Answer(s) ==
    /\ s \in Listeners
    /\ verdict' = << [what |-> Dispatch(s), by |-> s] >>
    /\ UNCHANGED <<serving, claims, wanted, bound, request>>

\* NATS says that there are no responders.
NobodyListens ==
    /\ Listeners = {}
    /\ verdict' = << [what |-> "nobody"] >>
    /\ UNCHANGED <<serving, claims, wanted, bound, request>>

AddressingNext ==
    /\ verdict = <<>>
    /\ \/ \E p \in Providers, text \in Texts : Serve(p, text)
       \/ \E p \in Providers : Announce(p)
       \/ \E s \in serving : StopServing(s)
       \/ \E text \in Texts : Resolve(text)
       \/ \E f \in Functions : Call(f)
       \/ \E f \in Functions, text, other \in Texts : text # other /\ CallAmiss(f, text, other)
       \/ request # <<>> /\ (NobodyListens \/ \E s \in serving : Answer(s))

AddressingSpec == AtRest /\ [][AddressingNext]_addressingVars

-----------------------------------------------------------------------------
(* Properties.                                                             *)

AddressingTypeOK ==
    /\ \A s \in serving : s.by \in Providers /\ s.text \in Texts
    /\ \A claim \in claims : claim.provider \in Providers
    /\ \A maybe \in {wanted, bound, request, verdict} : Len(maybe) <= 1
    /\ bound # <<>> <=> wanted # <<>>
    /\ verdict # <<>> => request # <<>>

\* InterfaceId "is exactly the form wasmtime uses for component import and
\* export names, so it can be round-tripped through the linker without
\* translation" (iface.rs:8), by way of a registration and of a subject too:
\* a host can define what it resolved under the name that was exported, and a
\* receiver can tell from a subject what was called.
NamesSurvive ==
    /\ \A s \in serving :
          /\ IdText(s.interface) = s.text
          /\ IsWit(s.interface) => \A f \in Functions :
                ParseSubject(Subject(s.interface, f)) = << [interface |-> s.interface, function |-> f] >>
    /\ bound # <<>> => IdText(bound[1].interface) \in Texts

\* "Replicas of the same provider load-balance while distinct interfaces stay
\* independent" (wire-protocol.md section 2): whatever names others use, a
\* call of an import is never refused, comes to nobody else than who serves
\* exactly the interface that was resolved, and to somebody if anybody does.
\* No request at all is run by a provider of another interface than it names.
CallsReachTheirInterface ==
    verdict # <<>> =>
        /\ verdict[1].what = "called" => request[1].iface = IdText(verdict[1].by.interface)
        /\ bound # <<>> =>
              IF \E s \in serving : s.interface = bound[1].interface
              THEN verdict[1].what = "called" /\ verdict[1].by.interface = bound[1].interface
              ELSE verdict[1].what = "nobody"
=============================================================================

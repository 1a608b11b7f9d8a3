------------------------------ MODULE WireTrip ------------------------------
(***************************************************************************)
(* One request from a proxy to an adapter, as its arguments see it: the    *)
(* caller encodes them by the shape of its own import                      *)
(* (crates/nats-link/src/lib.rs), and the provider decodes them by the     *)
(* shape of its export (crates/nats-serve/src/lib.rs).  Nobody sends the   *)
(* types.  The two shapes need not be the same, and the sender need not    *)
(* be a host: the protocol is open to services in any language.            *)
(***************************************************************************)
EXTENDS Codec, FiniteSets

CONSTANTS
    Interfaces,  \* functions as interfaces declare them
    Strange      \* MessagePack values that a stranger may send

\* The names of an interface differ, so that they can be put in order.
ASSUME WireTripAssumption ==
    /\ \A names \in Before : names[1] # names[2]
    /\ \A functions \in Interfaces :
          /\ functions \in Seq(ToSet(functions)) /\ InOrder(functions) # {}
          /\ \A i \in DOMAIN functions :
                LET f == functions[i]
                IN  /\ f.params \in Seq(ToSet(f.params)) /\ f.results \in Seq(ToSet(f.results))
                    /\ \A t \in ToSet(f.params \o f.results) : IsType(t)

VARIABLES
    ours,    \* the shape of the caller
    theirs,  \* the shape of the provider
    phase,
    func,    \* the function that is called
    args,    \* its arguments; none of a stranger
    wire,    \* the request, if it could be encoded
    got      \* what the provider makes of it, if anything

vars == <<ours, theirs, phase, func, args, wire, got>>

\* scan: an interface has a shape only if all of its types can be carried.
HasShape(functions) ==
    \A i \in DOMAIN functions : \A t \in ToSet(functions[i].params \o functions[i].results) : Carriable(t)

Shapes == {Shape(functions) : functions \in {fs \in Interfaces : HasShape(fs)}}

Find(shape, name) == FirstOf(shape, LAMBDA f : f.name = name)

-----------------------------------------------------------------------------
Init ==
    /\ ours \in Shapes /\ theirs \in Shapes
    /\ phase = "idle"
    /\ func = "" /\ args = <<>> /\ wire = <<>> /\ got = <<>>

\* Call::invoke, up to the payload.
Send(f) ==
    /\ phase' = "sent"
    /\ func' = f.name
    /\ \E vals \in ValuesAll(f.params) :
          /\ args' = << vals >>
          /\ wire' = EncodeAll(vals, f.params)
    /\ UNCHANGED <<ours, theirs, got>>

\* A request of somebody else.
SendStrange(f, w) ==
    /\ phase' = "sent"
    /\ func' = f.name
    /\ wire' = << << w >> >>
    /\ UNCHANGED <<ours, theirs, args, got>>

\* dispatch, up to the call.
Receive ==
    LET f == Find(theirs, func)
    IN  /\ phase = "sent" /\ wire # <<>> /\ phase' = "received"
        /\ got' = IF f = <<>> THEN <<>> ELSE DecodeAll(wire[1], f[1].params)
        /\ UNCHANGED <<ours, theirs, func, args, wire>>

Next ==
    \/ phase = "idle" /\ \E f \in ToSet(ours) : Send(f)
    \/ phase = "idle" /\ ours = theirs /\ \E f \in ToSet(theirs), w \in Strange : SendStrange(f, w)
    \/ Receive

Spec == Init /\ [][Next]_vars

-----------------------------------------------------------------------------
(* Properties.                                                             *)

TypeOK ==
    /\ HasShape(ours) /\ HasShape(theirs)
    /\ phase \in {"idle", "sent", "received"}
    /\ phase # "idle" => Find(ours, func) # <<>>
    /\ \A maybe \in {args, wire, got} : Len(maybe) <= 1
    /\ got # <<>> => Len(got[1]) = Len(Find(theirs, func)[1].params)

Received == phase = "received" /\ Find(theirs, func) # <<>>
Params(shape) == Find(shape, func)[1].params

\* "Two interfaces with equal digests encode identically under this protocol"
\* (wire-protocol.md section 6): then the provider gets what the caller sent.
EqualDigestsAgree ==
    phase = "received" /\ args # <<>> /\ Canonical(ours) = Canonical(theirs) => got = args

\* An interface that got a shape never meets a value it cannot send.
ShapesCanBeSent == phase # "idle" => wire # <<>>

\* Whatever is sent by whatever types, what reaches a guest has the type the
\* guest declares.
NeverIllTyped ==
    Received /\ got # <<>> => HaveTypes(got[1], Params(theirs))

\* A number that arrives as another type of integer is the number that was
\* sent; it arrives if it fits.
NumbersKeepTheirValue ==
    Received /\ args # <<>> /\ Len(Params(ours)) = 1 /\ Len(Params(theirs)) = 1 =>
        LET from == Params(ours)[1].k
            to == Params(theirs)[1].k
        IN  from \in DOMAIN Bits /\ to \in DOMAIN Bits =>
                LET n == args[1][1][from]
                IN  got = IF n \in IntRange(to) THEN << << Only(to, n) >> >> ELSE <<>>

\* "Receivers must ignore map keys they do not recognise, and must reject a
\* payload missing a declared field" (wire-protocol.md section 4): records go
\* by the names of their fields, whatever their order and number.
FieldsGoByName ==
    Received /\ args # <<>> /\ Len(Params(ours)) = 1 /\ Len(Params(theirs)) = 1 =>
        LET from == Params(ours)[1]
            to == Params(theirs)[1]
        IN  from.k = "record" /\ to.k = "record" /\ ToSet(to.fields) \cap ToSet(from.fields) # {} =>
                IF ToSet(to.fields) \subseteq ToSet(from.fields)
                THEN got # <<>> /\ ToSet(got[1][1].record) \subseteq ToSet(args[1][1].record)
                ELSE {f.name : f \in ToSet(to.fields)} \subseteq {f.name : f \in ToSet(from.fields)} \/ got = <<>>

\* "Flags: array of str, names of set flags, declaration order" and the like
\* (wire-protocol.md section 4): what a stranger sent in a form of its own is
\* sent on in the one form that a value of a guest has.
OneFormOfEach ==
    Received /\ got # <<>> /\ args = <<>> =>
        LET types == Params(theirs)
        IN  \E vals \in ValuesAll(types) : EncodeAll(vals, types) = EncodeAll(got[1], types)
=============================================================================

----------------------------- MODULE RegistryCall -----------------------------
(***************************************************************************)
(* One call of the registry, from what a caller means to what it is told:  *)
(* the client in Rust (crates/registry/src/client.rs), or a guest whose    *)
(* host knows of the registry only the WIT (crates/nats-link/src/lib.rs),  *)
(* or a stranger; registryd's dispatch (crates/registry/src/server.rs);    *)
(* and the envelopes (crates/protocol/src/envelope.rs, error.rs).  What    *)
(* the store says is any answer of its; RegistryStore has how it comes by  *)
(* it.                                                                     *)
(***************************************************************************)
EXTENDS Names, Codec, RegistryWire

CONSTANTS
    Orders,          \* what a caller may mean: a method of Registry, and its arguments
    Outcomes,        \* what the store may say to each method
    StrangeMessages, \* requests of strangers
    StrangeReplies   \* replies of whoever else joined the queue group

VARIABLES
    caller,   \* "client", "guest" or "stranger"
    order,    \* what it means; of a stranger, nothing
    message,  \* the request
    asked,    \* what the store was asked
    outcome,  \* what it said
    reply,    \* the envelope that comes back
    answer    \* what the caller is told, and of what reply it was made

callVars == <<caller, order, message, asked, outcome, reply, answer>>

\* REGISTRATION_INTERFACE and DISCOVERY_INTERFACE.
InterfaceOf(interface) == Id(<<"ardo314">>, <<"registry">>, <<interface>>, <<"0", ".", "1", ".", "0">>)
Registration == InterfaceOf("registration")
Discovery == InterfaceOf("discovery")

FunctionsOf(id) ==
    IF id = Registration THEN {"register", "deregister", "heartbeat"} ELSE {"resolve", "list-interfaces"}
Home(func) == IF func \in FunctionsOf(Registration) THEN Registration ELSE Discovery

\* ENVELOPE_VERSION, and what each envelope carries of account.
Message(subject, iface, func, args) ==
    [v |-> 1, subject |-> subject, iface |-> iface, func |-> func, args |-> args]
ReplyOk(values) == [v |-> 1, ok |-> << values >>, err |-> <<>>]
ReplyErr(code) == [v |-> 1, ok |-> <<>>, err |-> << code >>]

NothingSaid ==
    /\ order = <<>> /\ message = <<>> /\ asked = <<>>
    /\ outcome = <<>> /\ reply = <<>> /\ answer = <<>>

NoCall == caller = "nobody" /\ NothingSaid
CallInit == caller \in {"client", "guest", "stranger"} /\ NothingSaid

-----------------------------------------------------------------------------
(* The request.                                                            *)

\* Client::register, deregister, heartbeat, resolve, list_interfaces.
ClientArgs(o) == [i \in DOMAIN o.with |-> IF o.op = "register" THEN ProviderToValue(o.with[i]) ELSE Str(o.with[i])]

GuestArgs(o) == [i \in DOMAIN o.with |-> IF o.op = "register" THEN ProviderOf(o.with[i]) ELSE StringOf(o.with[i])]

\* Client::call, and the proxy for a guest.
SendOrder(o, args) ==
    /\ order' = << o >>
    /\ message' = << Message(Subject(Home(o.op), <<o.op>>), IdText(Home(o.op)), o.op, args) >>
    /\ UNCHANGED <<caller, asked, outcome, reply, answer>>

Ask ==
    /\ message = <<>>
    /\ \/ caller = "client" /\ \E o \in Orders : SendOrder(o, ClientArgs(o))
       \/ caller = "guest" /\ \E o \in Orders :
             \E args \in ToSet(EncodeAll(GuestArgs(o), Signature(o.op).params)) : SendOrder(o, args)
       \/ /\ caller = "stranger"
          /\ \E m \in StrangeMessages : message' = << m >>
          /\ UNCHANGED <<caller, order, asked, outcome, reply, answer>>

-----------------------------------------------------------------------------
(* registryd.                                                              *)

\* serve: whether it subscribed to the subject of a request.
Heard(m) == \E id \in {Registration, Discovery} : Matches(Wildcard(id), m.subject)

\* Mutant: the envelope is taken at its word.
TransportErrorUnaddressed(m) ==
    IF m.v # 1 THEN <<"bad-request">>
    ELSE IF ~\E id \in {Registration, Discovery} : m.iface = IdText(id) /\ m.func \in FunctionsOf(id)
    THEN <<"not-found">>
    ELSE IF Len(m.args) # Len(Signature(m.func).params) THEN <<"bad-request">>
    ELSE <<>>

\* Request::decode, and call up to the function: the code of the envelope
\* error, if any.
TransportError(m) ==
    LET subject == ParseSubject(m.subject)
    IN  IF m.v # 1 \/ subject = <<>> THEN <<"bad-request">>
        ELSE IF IdText(subject[1].interface) # m.iface \/ subject[1].function # <<m.func>>
        THEN <<"bad-request">>
        ELSE IF ~\E id \in {Registration, Discovery} : m.iface = IdText(id) /\ m.func \in FunctionsOf(id)
        THEN <<"not-found">>
        ELSE IF Len(m.args) # Len(Signature(m.func).params) THEN <<"bad-request">>
        ELSE <<>>

\* register, deregister, heartbeat, resolve, list_interfaces: what the store is
\* asked, if the arguments can be read.
OrderOf(m) ==
    Map1(LAMBDA args : [op |-> m.func, with |-> args],
         All([i \in DOMAIN m.args |->
                 IF m.func = "register" THEN ProviderFromValue(m.args[i]) ELSE Text(m.args[i])]))

ResultValue(o, value) ==
    CASE o.op = "resolve" -> ArrayValue(value, ProviderToValue)
      [] o.op = "list-interfaces" -> ArrayValue(value, InterfaceRefToValue)
      [] OTHER -> Nil

\* Mutant: an error of the store is an error of the envelope.
OutcomeAsCode(o, result) ==
    IF Is(result, "ok") THEN ReplyOk(<<VariantValue("ok", ResultValue(o, result.ok))>>)
    ELSE ReplyErr(IF result.err = NotFound THEN "not-found" ELSE "internal")

\* outcome, in the reply of respond.
OutcomeReply(o, result) ==
    ReplyOk(<<IF Is(result, "ok") THEN VariantValue("ok", ResultValue(o, result.ok))
              ELSE VariantValue("err", ErrorToValue(result.err))>>)

Respond(m) ==
    LET error == TransportError(m)
        read == OrderOf(m)
    IN  \/ /\ error # <<>>
           /\ reply' = << ReplyErr(error[1]) >>
           /\ UNCHANGED <<asked, outcome>>
        \/ /\ error = <<>> /\ read = <<>>
           /\ reply' = << OutcomeReply([op |-> m.func], Err(Invalid)) >>
           /\ UNCHANGED <<asked, outcome>>
        \/ /\ error = <<>> /\ read # <<>>
           /\ asked' = read
           /\ \E result \in Outcomes[m.func] :
                 /\ outcome' = << result >>
                 /\ reply' = << OutcomeReply(read[1], result) >>

Handle ==
    /\ message # <<>> /\ reply = <<>>
    /\ Heard(message[1])
    /\ Respond(message[1])
    /\ UNCHANGED <<caller, order, message, answer>>

\* Anybody may subscribe to the queue group.
Mislead ==
    /\ order # <<>> /\ reply = <<>>
    /\ \E r \in StrangeReplies : reply' = << r >>
    /\ UNCHANGED <<caller, order, message, asked, outcome, answer>>

-----------------------------------------------------------------------------
(* The answer.                                                             *)

\* Reply::decode and into_result: whether the reply can be told from nonsense.
IsReply(r) == r.v = 1 /\ Len(r.ok) + Len(r.err) = 1

\* transport_error.
OfCode(code) ==
    IF code = "not-found" THEN NotFound ELSE IF code = "bad-request" THEN Invalid ELSE Unavailable

\* The ok arm of a result, as the method reads it.  Of what resolve reads,
\* filter_map(Resolution::pick) then keeps the providers that can be reached
\* (client.rs:113): Addressing!Picks.
ReturnedBy(op, w) ==
    CASE op = "resolve" -> OrInvalid(ArrayOf(w, ProviderFromValue))
      [] op = "list-interfaces" -> OrInvalid(ArrayOf(w, InterfaceRefFromValue))
      [] OTHER -> Ok(<<>>)

\* Client::call, and what its caller makes of the value.
ToldClient(r) ==
    IF ~IsReply(r) THEN Err(Unavailable)
    ELSE IF r.err # <<>> THEN Err(OfCode(r.err[1]))
    ELSE IF Len(r.ok[1]) # 1 THEN Err(Unavailable)
    ELSE LET result == ResultOf(r.ok[1][1])
         IN  IF Is(result, "err") THEN result ELSE ReturnedBy(order[1].op, result.ok)

Trap == [trap |-> TRUE]

\* Call::invoke: the result lifted into the guest, or a trap.
ToldGuest(r) ==
    LET values == IF IsReply(r) /\ r.err = <<>>
                  THEN DecodeAll(r.ok[1], <<Signature(order[1].op).result>>) ELSE <<>>
    IN  IF values = <<>> THEN Trap ELSE values[1][1]

Hear ==
    /\ order # <<>> /\ reply # <<>> /\ answer = <<>>
    /\ answer' = << [of |-> reply,
                     told |-> IF caller = "client" THEN ToldClient(reply[1]) ELSE ToldGuest(reply[1])] >>
    /\ UNCHANGED <<caller, order, message, asked, outcome, reply>>

\* CALL_TIMEOUT, or the deadline of the proxy, or nobody who subscribed.
HearNothing ==
    /\ order # <<>> /\ answer = <<>>
    /\ answer' = << [of |-> <<>>, told |-> IF caller = "client" THEN Err(Unavailable) ELSE Trap] >>
    /\ UNCHANGED <<caller, order, message, asked, outcome, reply>>

CallNext == Ask \/ Handle \/ Mislead \/ Hear \/ HearNothing

-----------------------------------------------------------------------------
(* Properties.                                                             *)

CallTypeOK ==
    /\ \A maybe \in {order, message, asked, outcome, reply, answer} : Len(maybe) <= 1
    /\ asked # <<>> => outcome # <<>> /\ outcome[1] \in Outcomes[asked[1].op]
    /\ answer # <<>> => order # <<>>

\* What arguments and replies say by the WIT signature of the function.
Meant(m) == DecodeAll(m.args, Signature(m.func).params)
Said(r) ==
    IF IsReply(r) /\ r.err = <<>> THEN DecodeAll(r.ok[1], <<Signature(order[1].op).result>>) ELSE <<>>

\* What the client was told, as a guest has it.
Lifted(op, result) ==
    IF Is(result, "err") THEN [result |-> "err", payload |-> <<ErrorOf(result.err)>>]
    ELSE [result |-> "ok",
          payload |-> CASE op = "resolve" -> << [list |-> [i \in DOMAIN result.ok |-> ProviderOf(result.ok[i])]] >>
                        [] op = "list-interfaces" ->
                              << [list |-> [i \in DOMAIN result.ok |-> InterfaceRefOf(result.ok[i])]] >>
                        [] OTHER -> <<>>]

\* "Their MessagePack encoding ... is the encoding wire-protocol.md section 4
\* prescribes for the WIT definitions" (types.rs:3), and a receiver can validate
\* that a call "was not mis-routed" (wire-protocol.md section 3.1): whoever
\* sends whatever, the store is asked what the arguments say by the WIT
\* signature of the function that the subject names, and nothing only if they
\* say nothing; what the client or a guest means is always asked.
StoreIsAskedWhatIsSaid ==
    /\ asked # <<>> =>
          /\ message[1].subject = Subject(Home(asked[1].op), <<asked[1].op>>)
          /\ Meant(message[1]) = << GuestArgs(asked[1]) >>
    /\ caller = "stranger" /\ reply # <<>> /\ asked = <<>> /\ TransportError(message[1]) = <<>> =>
          Meant(message[1]) = <<>>
    /\ order # <<>> => TransportError(message[1]) = <<>> /\ OrderOf(message[1]) = order

\* "A WIT result is a successful call whichever arm it carries; only transport
\* and dispatch failures become envelope errors" (server.rs:160): the client, and
\* a guest whose host knows only the WIT, are told what the store said, each of
\* its errors included; and whoever it is that replies, the client takes what
\* has a meaning in the WIT for what it means there.
AnswerIsTheStores ==
    answer # <<>> /\ answer[1].of # <<>> =>
        LET said == Said(reply[1])
            told == answer[1].told
        IN  /\ outcome # <<>> => said = << <<Lifted(order[1].op, outcome[1])>> >>
            /\ said # <<>> => said[1][1] = IF caller = "client" THEN Lifted(order[1].op, told) ELSE told
=============================================================================

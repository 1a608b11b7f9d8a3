------------------------------ MODULE MCTrips ------------------------------
(* Arguments: interfaces of one function for each of a number of types, and *)
(* some of two functions; a stranger that sends any small value.            *)
EXTENDS Trips

MCBits == [s8 |-> 2, u8 |-> 2, s16 |-> 3, u16 |-> 3, s32 |-> 4, u32 |-> 4, s64 |-> 5, u64 |-> 5]

Prim(kind) == [k |-> kind]
Bool == Prim("bool")
S8 == Prim("s8")
U8 == Prim("u8")
F32 == Prim("f32")
List(t) == [k |-> "list", of |-> t]
Fixed(t, n) == [k |-> "fixed", of |-> t, len |-> n]
Tuple(ts) == [k |-> "tuple", items |-> ts]
Field(n, t) == [name |-> n, ty |-> t]
Record(fs) == [k |-> "record", fields |-> fs]
Case(n, p) == [name |-> n, payload |-> p]
Variant(cs) == [k |-> "variant", cases |-> cs]
Option(t) == [k |-> "option", of |-> t]
Result(o, e) == [k |-> "result", ok |-> o, err |-> e]

Flat == {Prim(k) : k \in DOMAIN MCBits \cup {"bool", "f32", "f64", "char", "string"}}

Nested ==
    {Op : Op \in UNION {{List(t), Fixed(t, 1), Fixed(t, 2), Option(t), Tuple(<<t>>)} : t \in {Bool, U8, F32, Option(Bool)}}}
      \cup {Tuple(<<Bool, U8>>), Tuple(<<U8, Bool>>), Tuple(<<>>)}
      \cup {Record(<<Field("a", Bool)>>), Record(<<Field("b", Bool)>>), Record(<<Field("a", U8)>>),
            Record(<<Field("a", Bool), Field("b", U8)>>), Record(<<Field("b", U8), Field("a", Bool)>>),
            Record(<<Field("a", Bool), Field("b", Bool)>>), Record(<<Field("b", Bool), Field("a", Bool)>>),
            Record(<<Field("a", Record(<<Field("b", Bool)>>))>>)}
      \cup {Variant(<<Case("a", <<>>)>>), Variant(<<Case("a", <<Bool>>)>>), Variant(<<Case("a", <<>>), Case("b", <<U8>>)>>),
            Variant(<<Case("b", <<U8>>), Case("a", <<>>)>>), Variant(<<Case("ok", <<Bool>>), Case("err", <<>>)>>)}
      \cup {Result(o, e) : o, e \in {<<>>, <<Bool>>, <<S8>>}}
      \cup {[k |-> kind, names |-> ns] : kind \in {"enum", "flags"}, ns \in {<<"a">>, <<"a", "b">>, <<"b", "a">>}}
      \cup {List(Record(<<Field("a", Bool)>>)), Option(List(Bool)), Result(<<Prim("resource")>>, <<>>), List(Prim("stream"))}

Function(n, params) == [name |-> n, params |-> params, results |-> <<>>]

MCInterfaces ==
    {<<Function("f", <<t>>)>> : t \in Flat \cup Nested}
      \cup {<<Function("f", <<>>)>>, <<Function("f", <<Bool, U8>>)>>,
            <<Function("f", <<Bool>>), Function("g", <<U8>>)>>, <<Function("g", <<U8>>), Function("f", <<Bool>>)>>,
            <<Function("f", <<U8>>), Function("g", <<Bool>>)>>}

MCBefore == {<<"f", "g">>}
MCStrings == {"", "a", "b", "ab", "ok"}
MCChars == {"a", "b"}

Atoms == [nil : {TRUE}] \cup [bool : BOOLEAN] \cup [int : -17..33] \cup [f32 : 0..1] \cup [f64 : 0..3]
           \cup [str : MCStrings]
Few == {[nil |-> TRUE], [bool |-> TRUE], [int |-> 1], [f64 |-> 1], [str |-> "a"], [str |-> "b"], [str |-> "ok"]}
Keys == {[str |-> "a"], [str |-> "b"], [str |-> "ok"], [int |-> 1]}
MCStrange ==
    Atoms \cup [array : UpTo(2, Few \cup [array : UpTo(1, Few)])]
      \cup [map : {<<>>} \cup {<< <<k, v>> >> : k \in Keys, v \in Few}
                   \cup {<< <<k, v>>, <<l, u>> >> : k, l \in Keys, v, u \in Few}]

-----------------------------------------------------------------------------
(* Calls of the registry: providers of both kinds, one without interfaces;   *)
(* every error; strangers that send the arguments of one registration with  *)
(* one thing wrong, or a request that says two things.                      *)

InterfaceA == [name |-> "a", version |-> "b", shapeDigest |-> "ab"]
Service == [id |-> "a", kind |-> "service", interfaces |-> <<InterfaceA>>, endpoint |-> [nats |-> "b"], ttlSecs |-> 15]
ComponentP ==
    [id |-> "b", kind |-> "component", interfaces |-> <<InterfaceA, [InterfaceA EXCEPT !.version = "a"]>>,
     endpoint |-> [artifact |-> [uri |-> "a", sha256 |-> "ab"]], ttlSecs |-> 0]
Empty == [Service EXCEPT !.interfaces = <<>>]

MCOrders ==
    [op : {"register"}, with : {<<p>> : p \in {Service, ComponentP, Empty}}]
      \cup [op : {"deregister", "heartbeat"}, with : {<<"a">>, <<"ok">>}]
      \cup [op : {"resolve"}, with : {<<"a", "b">>, <<"b", "a">>}]
      \cup [op : {"list-interfaces"}, with : {<<>>}]

MCErrors == {Err(NotFound)} \cup {Err(Error(kind, <<why>>)) : kind \in {"conflict", "invalid", "unavailable"}, why \in {"", "a"}}
MCOutcomes ==
    [f \in {"register", "deregister", "heartbeat", "resolve", "list-interfaces"} |->
        MCErrors \cup
        {Ok(value) : value \in CASE f = "resolve" -> {<<>>, <<Service>>, <<ComponentP, Service>>}
                                [] f = "list-interfaces" -> {<<>>, <<InterfaceA>>, ComponentP.interfaces}
                                [] OTHER -> {<<>>}}]

\* A map with an entry less, more, twice or in another place, or with another value.
Without(s, i) == SubSeq(s, 1, i - 1) \o SubSeq(s, i + 1, Len(s))
Maps(entries) ==
    {[map |-> s] : s \in
        {Reverse(entries)}
          \cup {Without(entries, i) : i \in DOMAIN entries}
          \cup UNION {{Append(entries, <<k, v>>), <<<<k, v>>>> \o entries} :
                  k \in {entries[i][1] : i \in DOMAIN entries} \cup {[int |-> 1], [str |-> "a"]}, v \in Few}
          \cup {[entries EXCEPT ![i] = <<entries[i][1], v>>] : i \in DOMAIN entries, v \in Few}}

Odd(p) ==
    LET w == ProviderToValue(p)
        with(i, v) == [map |-> [w.map EXCEPT ![i] = <<w.map[i][1], v>>]]
        endpoint == w.map[4][2].map
    IN  Maps(w.map) \cup Few
          \cup {with(2, [str |-> kind]) : kind \in {"component", "nats"}}
          \cup {with(3, [array |-> s]) : s \in
                    UNION {{<<i>>, <<w.map[3][2].array[1], i>>} : i \in Maps(w.map[3][2].array[1].map) \cup Few}}
          \cup {with(4, e) : e \in Maps(endpoint)
                    \cup {VariantValue(case, payload) : case \in {"nats", "artifact", "a"},
                                                        payload \in Few \cup {endpoint[1][2]}}}
          \cup {with(4, VariantValue("artifact", a)) : a \in Maps(ArtifactRefToValue(ComponentP.endpoint.artifact).map)}
          \cup {with(5, v) : v \in {[int |-> n] : n \in {-1, 0, 15, 16}} \cup {[f32 |-> 2]}}

\* The request of an order, with other arguments.
Of(o, as) == Message(Subject(Home(o), <<o>>), IdText(Home(o)), o, as)
Heartbeat == Of("heartbeat", <<Str("a")>>)
MCStrangeMessages ==
    {Of("register", <<w>>) : w \in Odd(Service) \cup Odd(ComponentP)}
      \cup {Of(o, as) : o \in DOMAIN MCOutcomes, as \in {<<>>, <<Str("a")>>, <<Nil>>, <<Str("a"), Nil>>, <<Str("a"), Str("b")>>}}
      \cup {[Heartbeat EXCEPT !.v = 2], [Heartbeat EXCEPT !.func = "deregister"], [Heartbeat EXCEPT !.func = "list"],
            [Heartbeat EXCEPT !.iface = IdText(Discovery)], [Heartbeat EXCEPT !.subject = Subject(Registration, <<"list">>)],
            [Heartbeat EXCEPT !.subject = Subject(Discovery, <<"heartbeat">>)],
            Message(Subject(Registration, <<"list">>), IdText(Registration), "list", <<>>),
            Message(Subject(Discovery, <<"heartbeat">>), IdText(Discovery), "heartbeat", <<Str("a")>>)}

\* Results, and what is none, in replies good and bad.
MCStrangeReplies ==
    LET results == Few \cup {VariantValue(arm, w) : arm \in {"ok", "err", "a"},
                     w \in Few \cup {VariantValue(kind, v) : kind \in {"not-found", "conflict", "a"}, v \in Few}
                              \cup {[array |-> <<v>>] : v \in Few \cup {InterfaceRefToValue(InterfaceA), ProviderToValue(ComponentP)} \cup Maps(ProviderToValue(Service).map)}}
    IN  {ReplyOk(<<r>>) : r \in results}
          \cup {ReplyOk(<<>>), ReplyOk(<<VariantValue("ok", Nil), Nil>>), [v |-> 1, ok |-> <<>>, err |-> <<>>],
                [v |-> 1, ok |-> <<<<>>>>, err |-> <<"internal">>], [v |-> 2, ok |-> << <<Nil>> >>, err |-> <<>>]}
          \cup {ReplyErr(code) : code \in {"not-found", "bad-request", "unsupported", "deadline-exceeded", "internal"}}

-----------------------------------------------------------------------------
(* Names: versions with a pre-release and with a build, namespaces and       *)
(* packages with dots, a name that is another one swapped, and malformed    *)
(* ones.                                                                    *)

Full(namespace, package, interface, version) ==
    namespace \o <<":">> \o package \o <<"/">> \o interface \o <<"@">> \o version
Release(minor) == <<"1", ".", minor, ".", "0">>
Pre == Release("0") \o <<"-", "rc", ".", "1">>
Build == Release("0") \o <<"+", "1">>
MCTexts ==
    {Full(<<"a">>, <<"b">>, <<"c">>, v) : v \in {Release("0"), Release("1"), Pre, Build}}
      \cup {Full(<<"a", ".", "b">>, <<"c">>, <<"d">>, Release("0")), Full(<<"a">>, <<"b", ".", "c">>, <<"d">>, Release("0")),
            Full(<<"a">>, <<"c">>, <<"b">>, Release("0")),
            <<"a", ":", "b", "/", "c">>, <<"a", "/", "c", "@">> \o Release("0"), <<"b", ":", "c", "/", "@">> \o Release("0")}
MCNewerThan ==
    LET ascending == <<Pre, Release("0"), Build, Release("1")>>
    IN  {<<ascending[p[1]], ascending[p[2]]>> : p \in {q \in (1..4) \X (1..4) : q[1] > q[2]}}
MCSatisfies ==
    ({Release("0"), Build, Release("1")} \X {Release("0"), Build, Pre}) \cup {<<Release("1"), Release("1")>>, <<Pre, Pre>>}
MCFunctions == {<<"f">>, <<"g">>}
=============================================================================

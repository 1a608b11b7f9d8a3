----------------------------- MODULE RegistryWire -----------------------------
(***************************************************************************)
(* The registry's own encoding of its types (crates/registry/src/wire.rs), *)
(* written by hand for each, where Codec goes by the types of WIT.         *)
(*                                                                         *)
(* A struct of types.rs is a record; an endpoint is named by its one       *)
(* field; an error has its message, if any, in why.  What cannot be read   *)
(* is an error of kind invalid, whose wording is left out.                 *)
(***************************************************************************)
EXTENDS Packing

Str(s) == [str |-> s]
Nil == [nil |-> TRUE]
RecordValue(fields) == [map |-> [i \in DOMAIN fields |-> <<Str(fields[i][1]), fields[i][2]>>]]
VariantValue(case, payload) == [map |-> << <<Str(case), payload>> >>]
ArrayValue(items, Op(_)) == [array |-> [i \in DOMAIN items |-> Op(items[i])]]

-----------------------------------------------------------------------------
(* to_value.                                                               *)

InterfaceRefToValue(i) ==
    RecordValue(<< <<"name", Str(i.name)>>, <<"version", Str(i.version)>>,
                   <<"shape-digest", Str(i.shapeDigest)>> >>)

ArtifactRefToValue(a) == RecordValue(<< <<"uri", Str(a.uri)>>, <<"sha256", Str(a.sha256)>> >>)

EndpointToValue(e) ==
    IF Is(e, "nats") THEN VariantValue("nats", Str(e.nats))
    ELSE VariantValue("artifact", ArtifactRefToValue(e.artifact))

ProviderToValue(p) ==
    RecordValue(<< <<"id", Str(p.id)>>, <<"kind", Str(p.kind)>>,
                   <<"interfaces", ArrayValue(p.interfaces, InterfaceRefToValue)>>,
                   <<"endpoint", EndpointToValue(p.endpoint)>>, <<"ttl-secs", [int |-> p.ttlSecs]>> >>)

Error(kind, why) == [kind |-> kind, why |-> why]
NotFound == Error("not-found", <<>>)
Invalid == Error("invalid", <<"">>)
Unavailable == Error("unavailable", <<"">>)

ErrorToValue(error) ==
    VariantValue(error.kind, IF error.why = <<>> THEN Nil ELSE Str(error.why[1]))

-----------------------------------------------------------------------------
(* from_value.                                                             *)

\* map and field: the first of that name.
FieldOf(w, name) ==
    IF ~Is(w, "map") THEN <<>>
    ELSE LET found == Entry(w.map, name)
         IN  IF found = <<>> THEN <<>> ELSE << found[1][2] >>

\* case: the name and the payload of the one entry.
CaseOf(w) == IF IsTagged(w) THEN << [name |-> w.map[1][1].str, payload |-> w.map[1][2]] >> ELSE <<>>

U32Of(w) == IF Is(w, "int") /\ w.int \in IntRange("u32") THEN << w.int >> ELSE <<>>

ArrayOf(w, Op(_)) == IF Is(w, "array") THEN All([i \in DOMAIN w.array |-> Op(w.array[i])]) ELSE <<>>

KindFromValue(w) == If(Text(w), {"component", "service"})

InterfaceRefFromValue(w) ==
    Map1(LAMBDA read : [name |-> read[1], version |-> read[2], shapeDigest |-> read[3]],
         All(<<Then(FieldOf(w, "name"), Text), Then(FieldOf(w, "version"), Text),
               Then(FieldOf(w, "shape-digest"), Text)>>))

ArtifactRefFromValue(w) ==
    Map1(LAMBDA read : [uri |-> read[1], sha256 |-> read[2]],
         All(<<Then(FieldOf(w, "uri"), Text), Then(FieldOf(w, "sha256"), Text)>>))

EndpointFromCase(case) ==
    CASE case.name = "nats" -> Map1(LAMBDA s : [nats |-> s], Text(case.payload))
      [] case.name = "artifact" -> Map1(LAMBDA a : [artifact |-> a], ArtifactRefFromValue(case.payload))
      [] OTHER -> <<>>

EndpointFromValue(w) == Then(CaseOf(w), EndpointFromCase)

InterfacesFromValue(w) == ArrayOf(w, InterfaceRefFromValue)

ProviderFromValue(w) ==
    Map1(LAMBDA read : [id |-> read[1], kind |-> read[2], interfaces |-> read[3],
                        endpoint |-> read[4], ttlSecs |-> read[5]],
         All(<<Then(FieldOf(w, "id"), Text), Then(FieldOf(w, "kind"), KindFromValue),
               Then(FieldOf(w, "interfaces"), InterfacesFromValue),
               Then(FieldOf(w, "endpoint"), EndpointFromValue), Then(FieldOf(w, "ttl-secs"), U32Of)>>))

\* The payload of not-found is not looked at.
ErrorFromCase(case) ==
    IF case.name = "not-found" THEN << NotFound >>
    ELSE IF case.name \in {"conflict", "invalid", "unavailable"}
    THEN Map1(LAMBDA why : Error(case.name, << why >>), Text(case.payload))
    ELSE <<>>

ErrorFromValue(w) == Then(CaseOf(w), ErrorFromCase)

\* A Result of Rust: what was read, or an error.
Ok(value) == [ok |-> value]
Err(error) == [err |-> error]
OrInvalid(maybe) == IF maybe = <<>> THEN Err(Invalid) ELSE Ok(maybe[1])

\* result: the arm that is carried, or why it cannot be read.
ResultOf(w) ==
    LET case == CaseOf(w)
    IN  IF case = <<>> \/ case[1].name \notin {"ok", "err"} THEN Err(Invalid)
        ELSE IF case[1].name = "ok" THEN Ok(case[1].payload)
        ELSE LET error == ErrorFromValue(case[1].payload)
             IN  Err(IF error = <<>> THEN Invalid ELSE error[1])

-----------------------------------------------------------------------------
(* The same types, as WIT declares them (wit/registry/world.wit).          *)

StringType == [k |-> "string"]
FieldType(name, type) == [name |-> name, ty |-> type]
CaseType(name, payload) == [name |-> name, payload |-> payload]
ListType(type) == [k |-> "list", of |-> type]
ResultType(ok, err) == [k |-> "result", ok |-> ok, err |-> err]
RecordType(fields) == [k |-> "record", fields |-> fields]
VariantType(cases) == [k |-> "variant", cases |-> cases]

KindType == [k |-> "enum", names |-> <<"component", "service">>]
ArtifactRefType == RecordType(<<FieldType("uri", StringType), FieldType("sha256", StringType)>>)
EndpointType == VariantType(<<CaseType("nats", <<StringType>>), CaseType("artifact", <<ArtifactRefType>>)>>)
InterfaceRefType ==
    RecordType(<<FieldType("name", StringType), FieldType("version", StringType),
                 FieldType("shape-digest", StringType)>>)
ProviderType ==
    RecordType(<<FieldType("id", StringType), FieldType("kind", KindType),
                 FieldType("interfaces", ListType(InterfaceRefType)),
                 FieldType("endpoint", EndpointType), FieldType("ttl-secs", [k |-> "u32"])>>)
ErrorType ==
    VariantType(<<CaseType("conflict", <<StringType>>), CaseType("not-found", <<>>),
                  CaseType("invalid", <<StringType>>), CaseType("unavailable", <<StringType>>)>>)

\* The parameters and the result of each function.
Signature(func) ==
    CASE func = "register" -> [params |-> <<ProviderType>>, result |-> ResultType(<<>>, <<ErrorType>>)]
      [] func \in {"deregister", "heartbeat"} ->
            [params |-> <<StringType>>, result |-> ResultType(<<>>, <<ErrorType>>)]
      [] func = "resolve" ->
            [params |-> <<StringType, StringType>>, result |-> ResultType(<<ListType(ProviderType)>>, <<ErrorType>>)]
      [] func = "list-interfaces" ->
            [params |-> <<>>, result |-> ResultType(<<ListType(InterfaceRefType)>>, <<ErrorType>>)]

-----------------------------------------------------------------------------
(* What a guest has of each, in values of WIT.                             *)

StringOf(s) == [string |-> s]
InterfaceRefOf(i) ==
    [record |-> << <<"name", StringOf(i.name)>>, <<"version", StringOf(i.version)>>,
                   <<"shape-digest", StringOf(i.shapeDigest)>> >>]
EndpointOf(e) ==
    IF Is(e, "nats") THEN [variant |-> "nats", payload |-> <<StringOf(e.nats)>>]
    ELSE [variant |-> "artifact",
          payload |-> << [record |-> << <<"uri", StringOf(e.artifact.uri)>>,
                                        <<"sha256", StringOf(e.artifact.sha256)>> >>] >>]
ProviderOf(p) ==
    [record |-> << <<"id", StringOf(p.id)>>, <<"kind", [enum |-> p.kind]>>,
                   <<"interfaces", [list |-> [i \in DOMAIN p.interfaces |-> InterfaceRefOf(p.interfaces[i])]]>>,
                   <<"endpoint", EndpointOf(p.endpoint)>>, <<"ttl-secs", [u32 |-> p.ttlSecs]>> >>]
ErrorOf(error) ==
    [variant |-> error.kind, payload |-> [i \in DOMAIN error.why |-> StringOf(error.why[i])]]
=============================================================================

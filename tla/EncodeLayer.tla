---------------------------- MODULE EncodeLayer -----------------------------
(***************************************************************************)
(* How a value of a WIT type is sent (val_to_msgpack,                      *)
(* crates/protocol/src/val.rs).                                            *)
(***************************************************************************)
EXTENDS WitTypes

CONSTANT EncodePart(_, _)  \* the same at the types that a type is made of

Array(items) == Map1(LAMBDA s : [array |-> s], items)

EncodeEach(vals, type) == All([i \in DOMAIN vals |-> EncodePart(vals[i], type)])

\* vals_to_msgpack.
EncodeAll(vals, types) ==
    IF DOMAIN vals # DOMAIN types THEN <<>>
    ELSE All([i \in DOMAIN vals |-> EncodePart(vals[i], types[i])])

\* A payload there should be, and is, or neither.
EncodePayload(payload, type) ==
    IF (payload = <<>>) # (type = <<>>) THEN <<>>
    ELSE IF type = <<>> THEN << [nil |-> TRUE] >>
    ELSE EncodePart(payload[1], type[1])

\* A map of one entry.
Tagged(name, payload) == Map1(LAMBDA w : [map |-> << <<[str |-> name], w>> >>], payload)

\* Entries in the order of the declaration.
EncodeFields(entries, fields) ==
    LET of(f) == Under(entries, f.name)
        field(f) == IF of(f) = <<>> THEN <<>>
                    ELSE Map1(LAMBDA w : <<[str |-> f.name], w>>, EncodePart(of(f)[1][2], f.ty))
    IN  Map1(LAMBDA s : [map |-> s], All([i \in DOMAIN fields |-> field(fields[i])]))

\* Mutant: flags are sent in the order they come in.
EncodeFlagsAsTheyCome(set, names) ==
    IF Range(set) \subseteq Range(names)
    THEN << [array |-> [i \in DOMAIN set |-> [str |-> set[i]]]] >>
    ELSE <<>>

EncodeFlags(set, names) ==
    IF Range(set) \subseteq Range(names)
    THEN LET on == Chosen(names, Range(set))
         IN  << [array |-> [i \in DOMAIN on |-> [str |-> on[i]]]] >>
    ELSE <<>>

EncodeCase(v, cases) ==
    LET case == FindCase(cases, v.variant)
    IN  IF case = <<>> THEN <<>> ELSE Tagged(v.variant, EncodePayload(v.payload, case[1].payload))

Encode(v, t) ==
    IF ~Is(v, t.k) THEN <<>> ELSE
    CASE t.k = "bool" -> << [bool |-> v.bool] >>
      [] t.k \in DOMAIN Bits -> << [int |-> v[t.k]] >>
      [] t.k \in Floats -> << Only(t.k, v[t.k]) >>
      [] t.k \in {"char", "string"} -> << [str |-> v[t.k]] >>
      [] t.k = "list" -> Array(EncodeEach(v.list, t.of))
      [] t.k = "fixed" -> IF DOMAIN v.fixed # 1..t.len THEN <<>> ELSE Array(EncodeEach(v.fixed, t.of))
      [] t.k = "tuple" -> Array(EncodeAll(v.tuple, t.items))
      [] t.k = "record" -> EncodeFields(v.record, t.fields)
      [] t.k = "variant" -> EncodeCase(v, t.cases)
      [] t.k = "enum" -> IF v.enum \in Range(t.names) THEN << [str |-> v.enum] >> ELSE <<>>
      [] t.k = "flags" -> EncodeFlags(v.flags, t.names)
      [] t.k = "option" -> Array(EncodeEach(v.option, t.of))
      [] t.k = "result" -> Tagged(v.result, EncodePayload(v.payload, Arm(t, v.result)))
      [] OTHER -> <<>>
=============================================================================

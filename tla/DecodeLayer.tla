---------------------------- MODULE DecodeLayer -----------------------------
(***************************************************************************)
(* What arrives as a value of a WIT type (msgpack_to_val,                  *)
(* crates/protocol/src/val.rs).                                            *)
(***************************************************************************)
EXTENDS WitTypes

CONSTANT DecodePart(_, _)  \* the same at the types that a type is made of

\* Mutant: the number is cut to the width of the type.
Wrap(n, k) == << CHOOSE m \in IntRange(k) : (m - n) % 2^Bits[k] = 0 >>

Narrow(n, k) == IF n \in IntRange(k) THEN << n >> ELSE <<>>

\* There are twice as many f64: every other one is an f32, to which those
\* between are rounded.
Widened(n) == 2 * n
Rounded(n) == n \div 2

DecodeFloat(w, k) ==
    IF Is(w, "f32") THEN << IF k = "f64" THEN Widened(w.f32) ELSE w.f32 >>
    ELSE IF Is(w, "f64") THEN << IF k = "f32" THEN Rounded(w.f64) ELSE w.f64 >>
    ELSE <<>>

DecodeEach(ws, type) == All([i \in DOMAIN ws |-> DecodePart(ws[i], type)])

\* Mutant: the longer of the two lists is cut.
DecodeZipped(ws, types) == All([i \in DOMAIN ws \cap DOMAIN types |-> DecodePart(ws[i], types[i])])

\* msgpack_to_vals.
DecodeAll(ws, types) ==
    IF DOMAIN ws # DOMAIN types THEN <<>>
    ELSE All([i \in DOMAIN ws |-> DecodePart(ws[i], types[i])])

\* Mutant: entries are taken in the order they come in.
EntryInPlace(entries, fields, i) == IF i \in DOMAIN entries THEN << entries[i] >> ELSE <<>>

EntryOf(entries, fields, i) == Entry(entries, fields[i].name)

DecodeFields(entries, fields) ==
    LET of(i) == EntryOf(entries, fields, i)
        field(i) == IF of(i) = <<>> THEN <<>>
                    ELSE Map1(LAMBDA v : <<fields[i].name, v>>, DecodePart(of(i)[1][2], fields[i].ty))
    IN  Map1(LAMBDA s : [record |-> s], All([i \in DOMAIN fields |-> field(i)]))

\* The payload of a case that has none is not looked at.
DecodePayload(w, type) ==
    IF type = <<>> THEN << <<>> >> ELSE Map1(LAMBDA v : << v >>, DecodePart(w, type[1]))

DecodeCase(w, cases) ==
    LET name == w.map[1][1].str
        case == FindCase(cases, name)
    IN  IF case = <<>> THEN <<>>
        ELSE Map1(LAMBDA p : [variant |-> name, payload |-> p], DecodePayload(w.map[1][2], case[1].payload))

DecodeResult(w, t) ==
    LET name == w.map[1][1].str
    IN  IF name \notin {"ok", "err"} THEN <<>>
        ELSE Map1(LAMBDA p : [result |-> name, payload |-> p], DecodePayload(w.map[1][2], Arm(t, name)))

\* Mutant: names the type does not declare are let through.
DecodeAnyFlags(ws, names) == Map1(LAMBDA s : [flags |-> s], All([i \in DOMAIN ws |-> Text(ws[i])]))

\* In the order they come in, however often.
DecodeFlags(ws, names) ==
    Map1(LAMBDA s : [flags |-> s], All([i \in DOMAIN ws |-> If(Text(ws[i]), Range(names))]))

DecodeArray(ws, t) ==
    CASE t.k = "list" -> Map1(LAMBDA s : [list |-> s], DecodeEach(ws, t.of))
      [] t.k = "fixed" -> IF DOMAIN ws # 1..t.len THEN <<>> ELSE Map1(LAMBDA s : [fixed |-> s], DecodeEach(ws, t.of))
      [] t.k = "tuple" -> Map1(LAMBDA s : [tuple |-> s], DecodeAll(ws, t.items))
      [] t.k = "option" ->
            IF DOMAIN ws \notin {{}, {1}} THEN <<>> ELSE Map1(LAMBDA s : [option |-> s], DecodeEach(ws, t.of))
      [] t.k = "flags" -> DecodeFlags(ws, t.names)

Decode(w, t) ==
    CASE t.k = "bool" -> IF Is(w, "bool") THEN << [bool |-> w.bool] >> ELSE <<>>
      [] t.k \in DOMAIN Bits ->
            IF Is(w, "int") THEN Map1(LAMBDA n : Only(t.k, n), Narrow(w.int, t.k)) ELSE <<>>
      [] t.k \in Floats -> Map1(LAMBDA x : Only(t.k, x), DecodeFloat(w, t.k))
      [] t.k = "char" -> Map1(LAMBDA s : [char |-> s], If(Text(w), Chars))
      [] t.k = "string" -> Map1(LAMBDA s : [string |-> s], Text(w))
      [] t.k = "enum" -> Map1(LAMBDA s : [enum |-> s], If(Text(w), Range(t.names)))
      [] t.k \in {"list", "fixed", "tuple", "option", "flags"} ->
            IF Is(w, "array") THEN DecodeArray(w.array, t) ELSE <<>>
      [] t.k = "record" -> IF Is(w, "map") THEN DecodeFields(w.map, t.fields) ELSE <<>>
      [] t.k = "variant" -> IF IsTagged(w) THEN DecodeCase(w, t.cases) ELSE <<>>
      [] t.k = "result" -> IF IsTagged(w) THEN DecodeResult(w, t) ELSE <<>>
=============================================================================

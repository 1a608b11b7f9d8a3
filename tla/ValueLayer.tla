----------------------------- MODULE ValueLayer -----------------------------
(***************************************************************************)
(* The values of a WIT type as wasmtime lifts them, and what a guest can be*)
(* given as one of them.                                                   *)
(***************************************************************************)
EXTENDS WitTypes

CONSTANTS
    Strings,            \* what a string may be
    MaxList,            \* bound on the length of the lists that guests send
    ValuesPart(_),      \* the same of the types that a type is made of
    HasTypePart(_, _)

\* The values of the payload of each arm or case; of none, if there is none.
ValuesAll(types) == Product([i \in DOMAIN types |-> ValuesPart(types[i])])

Named(fields, vals) == [i \in DOMAIN fields |-> <<fields[i].name, vals[i]>>]

Values(t) ==
    CASE t.k = "bool" -> [bool : BOOLEAN]
      [] t.k \in DOMAIN Bits -> {Only(t.k, n) : n \in IntRange(t.k)}
      [] t.k = "f32" -> [f32 : 0..1]
      [] t.k = "f64" -> [f64 : 0..3]
      [] t.k = "char" -> [char : Chars]
      [] t.k = "string" -> [string : Strings]
      [] t.k = "list" -> [list : UpTo(MaxList, ValuesPart(t.of))]
      [] t.k = "fixed" -> [fixed : [1..t.len -> ValuesPart(t.of)]]
      [] t.k = "tuple" -> [tuple : ValuesAll(t.items)]
      [] t.k = "record" ->
            [record : {Named(t.fields, s) : s \in ValuesAll([i \in DOMAIN t.fields |-> t.fields[i].ty])}]
      [] t.k = "variant" ->
            UNION {[variant : {t.cases[i].name}, payload : ValuesAll(t.cases[i].payload)] : i \in DOMAIN t.cases}
      [] t.k = "enum" -> [enum : Range(t.names)]
      [] t.k = "flags" -> [flags : {Chosen(t.names, on) : on \in SUBSET Range(t.names)}]
      [] t.k = "option" -> [option : UpTo(1, ValuesPart(t.of))]
      [] t.k \in Unsupported -> {Only(t.k, 0)}
      [] t.k = "result" ->
            [result : {"ok"}, payload : ValuesAll(t.ok)] \cup [result : {"err"}, payload : ValuesAll(t.err)]

HaveTypes(vals, types) == DOMAIN vals = DOMAIN types /\ \A i \in DOMAIN types : HasTypePart(vals[i], types[i])

HasType(v, t) ==
    Is(v, t.k) /\
    CASE t.k \in DOMAIN Bits -> v[t.k] \in IntRange(t.k)
      [] t.k = "char" -> v.char \in Chars
      [] t.k = "list" -> \A i \in DOMAIN v.list : HasTypePart(v.list[i], t.of)
      [] t.k = "fixed" -> DOMAIN v.fixed = 1..t.len /\ \A i \in DOMAIN v.fixed : HasTypePart(v.fixed[i], t.of)
      [] t.k = "tuple" -> HaveTypes(v.tuple, t.items)
      [] t.k = "record" ->
            /\ DOMAIN v.record = DOMAIN t.fields
            /\ \A i \in DOMAIN t.fields :
                  v.record[i][1] = t.fields[i].name /\ HasTypePart(v.record[i][2], t.fields[i].ty)
      [] t.k = "variant" ->
            \E i \in DOMAIN t.cases : v.variant = t.cases[i].name /\ HaveTypes(v.payload, t.cases[i].payload)
      [] t.k = "enum" -> v.enum \in Range(t.names)
      [] t.k = "flags" -> Range(v.flags) \subseteq Range(t.names)
      [] t.k = "option" -> DOMAIN v.option \in {{}, {1}} /\ \A i \in DOMAIN v.option : HasTypePart(v.option[i], t.of)
      [] t.k = "result" -> HaveTypes(v.payload, Arm(t, v.result))
      [] OTHER -> TRUE
=============================================================================

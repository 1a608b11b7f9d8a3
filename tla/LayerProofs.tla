----------------------------- MODULE LayerProofs -----------------------------
(***************************************************************************)
(* What holds of the codec at a type, if it holds at the types that the    *)
(* type is made of: each layer of Codec is one step of an induction over   *)
(* types.                                                                  *)
(***************************************************************************)
EXTENDS TypeLayer, EncodeLayer, DecodeLayer, ValueLayer, TLAPS

-----------------------------------------------------------------------------
(* Constructors, and what may fail.                                        *)

\* What an interface with a shape is made of: a type that can be carried.
Carried(t) == IsType(t) /\ Carriable(t)
Part(p) == IsTypePart(p) /\ CarriablePart(p)

LEMMA Kinds ==
    /\ DOMAIN Bits = {"s8", "s16", "s32", "s64", "u8", "u16", "u32", "u64"}
    /\ Floats = {"f32", "f64"}
    /\ Unsupported = {"resource", "future", "stream", "error-context", "map"}
    /\ Primitive = {"s8", "s16", "s32", "s64", "u8", "u16", "u32", "u64", "f32", "f64", "bool", "char", "string"}
BY PackingAssumption DEF SignedInts, UnsignedInts, Floats, Unsupported, Primitive

LEMMA KindsOf ==
    ASSUME NEW t, IsType(t)
    PROVE  t.k \in {"s8", "s16", "s32", "s64", "u8", "u16", "u32", "u64", "f32", "f64", "bool", "char", "string",
                    "resource", "future", "stream", "error-context", "map",
                    "list", "fixed", "tuple", "record", "variant", "enum", "flags", "option", "result"}
BY Kinds DEF IsType

\* All of what may fail, if nothing fails.
LEMMA AllIs ==
    ASSUME NEW r
    PROVE  /\ All(r) # <<>> <=> \A i \in DOMAIN r : r[i] # <<>>
           /\ All(r) # <<>> => All(r)[1] = [i \in DOMAIN r |-> r[i][1]]
           /\ All(r) # <<>> => All(r) = << [i \in DOMAIN r |-> r[i][1]] >>
BY DEF All

\* Of cases whose names differ, one is found by its name.
LEMMA CaseNamed ==
    ASSUME NEW cases, AList(cases), NEW i \in DOMAIN cases,
           \A j, k \in DOMAIN cases : cases[j].name = cases[k].name => j = k
    PROVE  FindCase(cases, cases[i].name) = << cases[i] >>
<1> DEFINE n == Len(cases)
           name == cases[i].name
           first == CHOOSE k \in DOMAIN cases : cases[k].name = name /\ \A j \in 1..(k - 1) : ~(cases[j].name = name)
<1>1. n \in Nat /\ DOMAIN cases = 1..n
  BY DEF AList
<1> HIDE DEF n
<1>2. \A k \in DOMAIN cases : cases[k].name = name => k = i
  OBVIOUS
<1>3. \A j \in 1..(i - 1) : ~(cases[j].name = name)
  <2>1. \A j \in 1..(i - 1) : j \in 1..n /\ j # i
    BY <1>1
  <2> QED
    BY <1>1, <1>2, <2>1
<1>4. first \in DOMAIN cases /\ cases[first].name = name
  BY <1>3
<1>5. first = i
  BY <1>2, <1>4
<1> QED
  BY <1>5 DEF FindCase, FirstOf

-----------------------------------------------------------------------------
(* What is decoded has the type it is decoded by.                          *)

PartsHaveTypes ==
    \A x, p : Part(p) /\ DecodePart(x, p) # <<>> => HasTypePart(DecodePart(x, p)[1], p)

LEMMA DecodedEach ==
    ASSUME PartsHaveTypes, NEW ws, NEW p, Part(p), DecodeEach(ws, p) # <<>>
    PROVE  LET vals == DecodeEach(ws, p)[1]
           IN  DOMAIN vals = DOMAIN ws /\ \A i \in DOMAIN vals : HasTypePart(vals[i], p)
<1> DEFINE r == [i \in DOMAIN ws |-> DecodePart(ws[i], p)]
<1>1. All(r) # <<>> /\ DecodeEach(ws, p)[1] = [i \in DOMAIN r |-> r[i][1]]
  BY AllIs DEF DecodeEach
<1>2. \A i \in DOMAIN r : r[i] # <<>>
  BY <1>1, AllIs
<1> QED
  BY <1>1, <1>2 DEF PartsHaveTypes

\* The same of the arguments or the results of a function.
THEOREM DecodedAll ==
    ASSUME PartsHaveTypes, NEW ws, NEW types, \A i \in DOMAIN types : Part(types[i]), DecodeAll(ws, types) # <<>>
    PROVE  HaveTypes(DecodeAll(ws, types)[1], types)
<1> DEFINE r == [i \in DOMAIN ws |-> DecodePart(ws[i], types[i])]
<1>1. DOMAIN ws = DOMAIN types /\ All(r) # <<>> /\ DecodeAll(ws, types)[1] = [i \in DOMAIN r |-> r[i][1]]
  BY AllIs DEF DecodeAll
<1>2. \A i \in DOMAIN r : r[i] # <<>>
  BY <1>1, AllIs
<1> QED
  BY <1>1, <1>2 DEF PartsHaveTypes, HaveTypes

LEMMA DecodedPayload ==
    ASSUME PartsHaveTypes, NEW w, NEW type, Optional(type), \A p \in Range(type) : Part(p),
           DecodePayload(w, type) # <<>>
    PROVE  HaveTypes(DecodePayload(w, type)[1], type)
<1>1. CASE type = <<>>
  <2>1. DecodePayload(w, type)[1] = <<>>
    BY <1>1 DEF DecodePayload
  <2>2. DOMAIN type = {}
    BY <1>1
  <2> QED
    BY <1>1, <2>1, <2>2 DEF HaveTypes
<1>2. CASE type # <<>>
  <2>1. DOMAIN type = {1}
    <3>1. type \in Seq(Range(type)) /\ Len(type) \in Nat /\ Len(type) <= 1 /\ DOMAIN type = 1..Len(type)
      BY DEF Optional, AList
    <3>2. Len(type) # 0
      BY <1>2, <3>1
    <3> QED
      BY <3>1, <3>2
  <2>2. Part(type[1])
    BY <2>1 DEF Range
  <2>3. DecodePart(w, type[1]) # <<>> /\ DecodePayload(w, type) = << << DecodePart(w, type[1])[1] >> >>
    BY <1>2 DEF DecodePayload, Map1
  <2>4. HasTypePart(DecodePart(w, type[1])[1], type[1])
    BY <2>2, <2>3 DEF PartsHaveTypes
  <2> QED
    BY <2>1, <2>3, <2>4 DEF HaveTypes
<1> QED
  BY <1>1, <1>2

LEMMA DecodedFields ==
    ASSUME PartsHaveTypes, NEW w, NEW t, Carried(t), t.k = "record", Decode(w, t) # <<>>
    PROVE  HasType(Decode(w, t)[1], t)
<1> DEFINE of(i) == EntryOf(w.map, t.fields, i)
           field(i) == IF of(i) = <<>> THEN <<>>
                       ELSE IF DecodePart(of(i)[1][2], t.fields[i].ty) = <<>> THEN <<>>
                       ELSE << <<t.fields[i].name, DecodePart(of(i)[1][2], t.fields[i].ty)[1]>> >>
           r == [i \in DOMAIN t.fields |-> field(i)]
<1>1. Decode(w, t) = IF All(r) = <<>> THEN <<>> ELSE << [record |-> All(r)[1]] >>
  <2>1. Decode(w, t) = DecodeFields(w.map, t.fields)
    BY Kinds DEF Decode
  <2>2. DecodeFields(w.map, t.fields) = IF All(r) = <<>> THEN <<>> ELSE << [record |-> All(r)[1]] >>
    BY DEF DecodeFields, Map1
  <2> QED
    BY <2>1, <2>2
<1>2. All(r) # <<>> /\ Decode(w, t)[1] = [record |-> [i \in DOMAIN r |-> r[i][1]]]
  <2> HIDE DEF r
  <2> QED
    BY <1>1, AllIs
<1>3. ASSUME NEW i \in DOMAIN t.fields
      PROVE  r[i][1][1] = t.fields[i].name /\ HasTypePart(r[i][1][2], t.fields[i].ty)
  <2>1. r[i] # <<>> /\ r[i] = field(i)
    <3>1. r[i] # <<>>
      <4>1. i \in DOMAIN r
        OBVIOUS
      <4> HIDE DEF r
      <4> QED
        BY <1>2, <4>1, AllIs
    <3> QED
      BY <3>1
  <2>2. Part(t.fields[i].ty)
    BY Kinds DEF Part, Carried, Carriable, IsType, Parts, InnerParts
  <2>3. /\ DecodePart(of(i)[1][2], t.fields[i].ty) # <<>>
        /\ r[i] = << <<t.fields[i].name, DecodePart(of(i)[1][2], t.fields[i].ty)[1]>> >>
    BY <2>1
  <2> QED
    BY <2>2, <2>3 DEF PartsHaveTypes
<1>4. DOMAIN r = DOMAIN t.fields
  OBVIOUS
<1> HIDE DEF r
<1> DEFINE v == Decode(w, t)[1]
<1>5. v.record = [i \in DOMAIN t.fields |-> r[i][1]] /\ Is(v, "record")
  BY <1>2, <1>4 DEF Is
<1> HIDE DEF v
<1>6. HasType(v, t)
  BY <1>3, <1>5, Kinds DEF HasType
<1> QED
  BY <1>6 DEF v

LEMMA DecodedCase ==
    ASSUME PartsHaveTypes, NEW w, NEW t, Carried(t), t.k = "variant", Decode(w, t) # <<>>
    PROVE  HasType(Decode(w, t)[1], t)
<1> DEFINE name == w.map[1][1].str
           case == FindCase(t.cases, name)
           read == DecodePayload(w.map[1][2], case[1].payload)
<1>1. case # <<>> /\ read # <<>> /\ Decode(w, t) = << [variant |-> name, payload |-> read[1]] >>
  <2>1. Decode(w, t) = DecodeCase(w, t.cases)
    BY Kinds DEF Decode
  <2> QED
    BY <2>1 DEF DecodeCase, Map1
<1>2. \E i \in DOMAIN t.cases : t.cases[i].name = name
  BY <1>1 DEF FindCase, FirstOf
<1>3. PICK i \in DOMAIN t.cases : t.cases[i].name = name /\ case = << t.cases[i] >>
  <2> HIDE DEF name
  <2>1. AList(t.cases) /\ \A j, k \in DOMAIN t.cases : t.cases[j].name = t.cases[k].name => j = k
    BY DEF Carried, IsType, ListsNames
  <2> QED
    BY <1>2, <2>1, CaseNamed
<1>4. Optional(t.cases[i].payload) /\ \A p \in Range(t.cases[i].payload) : Part(p)
  BY Kinds DEF Part, Carried, Carriable, IsType, Parts, InnerParts, Payloads
<1>5. HaveTypes(read[1], t.cases[i].payload)
  BY <1>1, <1>3, <1>4, DecodedPayload
<1> HIDE DEF name, case, read
<1> DEFINE v == Decode(w, t)[1]
<1>6. v.variant = t.cases[i].name /\ v.payload = read[1] /\ Is(v, "variant")
  BY <1>1, <1>3 DEF Is
<1> HIDE DEF v
<1>7. HasType(v, t)
  BY <1>5, <1>6, Kinds DEF HasType
<1> QED
  BY <1>7 DEF v

LEMMA DecodedArm ==
    ASSUME PartsHaveTypes, NEW w, NEW t, Carried(t), t.k = "result", Decode(w, t) # <<>>
    PROVE  HasType(Decode(w, t)[1], t)
<1> DEFINE name == w.map[1][1].str
           read == DecodePayload(w.map[1][2], Arm(t, name))
<1>1. name \in {"ok", "err"} /\ read # <<>> /\ Decode(w, t) = << [result |-> name, payload |-> read[1]] >>
  <2>1. Decode(w, t) = DecodeResult(w, t)
    BY Kinds DEF Decode
  <2> QED
    BY <2>1 DEF DecodeResult, Map1
<1>2. Optional(Arm(t, name)) /\ \A p \in Range(Arm(t, name)) : Part(p)
  BY <1>1, Kinds DEF Part, Carried, Carriable, IsType, Parts, InnerParts, Arm
<1>3. HaveTypes(read[1], Arm(t, name))
  BY <1>1, <1>2, DecodedPayload
<1> HIDE DEF name, read
<1> DEFINE v == Decode(w, t)[1]
<1>4. v.result = name /\ v.payload = read[1] /\ Is(v, "result")
  BY <1>1 DEF Is
<1> HIDE DEF v
<1>5. HasType(v, t)
  BY <1>3, <1>4, Kinds DEF HasType
<1> QED
  BY <1>5 DEF v

LEMMA DecodedArray ==
    ASSUME PartsHaveTypes, NEW w, NEW t, Carried(t), t.k \in {"list", "fixed", "tuple", "option", "flags"},
           Decode(w, t) # <<>>
    PROVE  HasType(Decode(w, t)[1], t)
<1>1. Decode(w, t) = DecodeArray(w.array, t)
  BY Kinds DEF Decode
<1>2. CASE t.k = "list"
  <2>1. Part(t.of)
    BY <1>2 DEF Part, Carried, Carriable, IsType, Parts, InnerParts
  <2>2. DecodeEach(w.array, t.of) # <<>> /\ Decode(w, t) = << [list |-> DecodeEach(w.array, t.of)[1]] >>
    BY <1>1, <1>2 DEF DecodeArray, Map1
  <2> QED
    BY <1>2, <2>1, <2>2, DecodedEach, Kinds DEF HasType, Is
<1>3. CASE t.k = "fixed"
  <2>1. Part(t.of)
    BY <1>3 DEF Part, Carried, Carriable, IsType, Parts, InnerParts
  <2>2. /\ DecodeEach(w.array, t.of) # <<>> /\ DOMAIN w.array = 1..t.len
        /\ Decode(w, t) = << [fixed |-> DecodeEach(w.array, t.of)[1]] >>
    BY <1>1, <1>3 DEF DecodeArray, Map1
  <2> QED
    BY <1>3, <2>1, <2>2, DecodedEach, Kinds DEF HasType, Is
<1>4. CASE t.k = "tuple"
  <2>1. \A i \in DOMAIN t.items : Part(t.items[i])
    BY <1>4 DEF Part, Carried, Carriable, IsType, Parts, InnerParts, Range
  <2>2. DecodeAll(w.array, t.items) # <<>> /\ Decode(w, t) = << [tuple |-> DecodeAll(w.array, t.items)[1]] >>
    BY <1>1, <1>4 DEF DecodeArray, Map1
  <2>3. HaveTypes(DecodeAll(w.array, t.items)[1], t.items)
    BY <2>1, <2>2, DecodedAll
  <2> QED
    BY <1>4, <2>2, <2>3, Kinds DEF HasType, Is
<1>5. CASE t.k = "option"
  <2>1. Part(t.of)
    BY <1>5 DEF Part, Carried, Carriable, IsType, Parts, InnerParts
  <2>2. /\ DecodeEach(w.array, t.of) # <<>> /\ DOMAIN w.array \in {{}, {1}}
        /\ Decode(w, t) = << [option |-> DecodeEach(w.array, t.of)[1]] >>
    BY <1>1, <1>5 DEF DecodeArray, Map1
  <2> QED
    BY <1>5, <2>1, <2>2, DecodedEach, Kinds DEF HasType, Is
<1>6. CASE t.k = "flags"
  <2> DEFINE r == [i \in DOMAIN w.array |-> If(Text(w.array[i]), Range(t.names))]
  <2>1. All(r) # <<>> /\ Decode(w, t) = << [flags |-> All(r)[1]] >>
    BY <1>1, <1>6 DEF DecodeArray, DecodeFlags, Map1
  <2>2. \A i \in DOMAIN r : r[i] # <<>>
    BY <2>1, AllIs
  <2>3. \A i \in DOMAIN r : r[i][1] \in Range(t.names)
    BY <2>2 DEF If
  <2>4. All(r)[1] = [i \in DOMAIN r |-> r[i][1]]
    BY <2>1, AllIs
  <2> HIDE DEF r
  <2>5. Range(All(r)[1]) \subseteq Range(t.names)
    <3> DEFINE names == Range(t.names)
    <3>1. \A i \in DOMAIN r : r[i][1] \in names
      BY <2>3
    <3> HIDE DEF names
    <3>2. Range(All(r)[1]) \subseteq names
      BY <2>4, <3>1 DEF Range
    <3> QED
      BY <3>2 DEF names
  <2> QED
    BY <1>6, <2>1, <2>5, Kinds DEF HasType, Is
<1> QED
  BY <1>2, <1>3, <1>4, <1>5, <1>6

\* Whatever it is that is decoded, by whomever it was encoded, what comes of it
\* has the type it is decoded by, if what comes of its parts has (val.rs:188).
THEOREM DecodedHasType ==
    ASSUME PartsHaveTypes, NEW w, NEW t, Carried(t), Decode(w, t) # <<>>
    PROVE  HasType(Decode(w, t)[1], t)
<1>1. CASE t.k \in DOMAIN Bits
  <2>1. w.int \in IntRange(t.k) /\ Decode(w, t) = << Only(t.k, w.int) >>
    BY <1>1, Kinds DEF Decode, Map1, Narrow
  <2>2. t.k \in DOMAIN Only(t.k, w.int) /\ Only(t.k, w.int)[t.k] = w.int
    BY DEF Only
  <2> QED
    BY <1>1, <2>1, <2>2, Kinds DEF HasType, Is
<1>2. CASE t.k \in Floats
  <2>1. \E x : Decode(w, t) = << Only(t.k, x) >>
    BY <1>2, Kinds DEF Decode, Map1
  <2> QED
    BY <1>2, <2>1, Kinds DEF HasType, Is, Only
<1>3. CASE t.k \in {"bool", "char", "string", "enum"}
  <2>1. CASE t.k = "bool"
    BY <2>1, Kinds DEF Decode, HasType, Is
  <2>2. CASE t.k = "char"
    <3>1. If(Text(w), Chars) # <<>> /\ Decode(w, t) = << [char |-> If(Text(w), Chars)[1]] >>
      BY <2>2, Kinds DEF Decode, Map1
    <3>2. If(Text(w), Chars)[1] \in Chars
      BY <3>1 DEF If
    <3> QED
      BY <2>2, <3>1, <3>2, Kinds DEF HasType, Is
  <2>3. CASE t.k = "string"
    <3>1. Decode(w, t) = << [string |-> Text(w)[1]] >>
      BY <2>3, Kinds DEF Decode, Map1
    <3> QED
      BY <2>3, <3>1, Kinds DEF HasType, Is
  <2>4. CASE t.k = "enum"
    <3>1. /\ If(Text(w), Range(t.names)) # <<>>
          /\ Decode(w, t) = << [enum |-> If(Text(w), Range(t.names))[1]] >>
      BY <2>4, Kinds DEF Decode, Map1
    <3>2. If(Text(w), Range(t.names))[1] \in Range(t.names)
      BY <3>1 DEF If
    <3> QED
      BY <2>4, <3>1, <3>2, Kinds DEF HasType, Is
  <2> QED
    BY <1>3, <2>1, <2>2, <2>3, <2>4
<1>4. t.k \notin Unsupported
  BY DEF Carried, Carriable
<1>5. CASE t.k \in {"list", "fixed", "tuple", "option", "flags"}
  BY <1>5, DecodedArray
<1>6. CASE t.k = "record"
  BY <1>6, DecodedFields
<1>7. CASE t.k = "variant"
  BY <1>7, DecodedCase
<1>8. CASE t.k = "result"
  BY <1>8, DecodedArm
<1> QED
  BY <1>1, <1>2, <1>3, <1>4, <1>5, <1>6, <1>7, <1>8, Kinds, KindsOf DEF Carried

-----------------------------------------------------------------------------
(* What is encoded is what is decoded from it.                             *)

\* What Chosen comes to: an induction over sequences, which is not done here.
ChosenNames ==
    \A names, on : names \in Seq(Range(names)) =>
        Chosen(names, on) \in Seq(Range(names)) /\ Range(Chosen(names, on)) = Range(names) \cap on

PartsReturn ==
    \A x, p : Part(p) /\ x \in ValuesPart(p) =>
        EncodePart(x, p) # <<>> /\ DecodePart(EncodePart(x, p)[1], p) = << x >>

\* It can be sent, and arrives as what it is.
Returns(v, t) == Encode(v, t) # <<>> /\ Decode(Encode(v, t)[1], t) = << v >>

LEMMA ValuesAllAre ==
    ASSUME NEW types, NEW vals \in ValuesAll(types)
    PROVE  /\ DOMAIN vals = DOMAIN types
           /\ vals = [i \in DOMAIN types |-> vals[i]]
           /\ \A i \in DOMAIN types : vals[i] \in ValuesPart(types[i])
<1> DEFINE sets == [i \in DOMAIN types |-> ValuesPart(types[i])]
<1>1. vals \in [DOMAIN sets -> UNION Range(sets)] /\ \A i \in DOMAIN sets : vals[i] \in sets[i]
  BY DEF ValuesAll, Product
<1>2. DOMAIN sets = DOMAIN types /\ \A i \in DOMAIN types : sets[i] = ValuesPart(types[i])
  OBVIOUS
<1> HIDE DEF sets
<1> QED
  BY <1>1, <1>2

LEMMA ReturnsEach ==
    ASSUME PartsReturn, NEW p, Part(p), NEW vals, vals = [i \in DOMAIN vals |-> vals[i]],
           \A i \in DOMAIN vals : vals[i] \in ValuesPart(p)
    PROVE  /\ EncodeEach(vals, p) # <<>> /\ DOMAIN EncodeEach(vals, p)[1] = DOMAIN vals
           /\ DecodeEach(EncodeEach(vals, p)[1], p) = << vals >>
<1> DEFINE r == [i \in DOMAIN vals |-> EncodePart(vals[i], p)]
           ws == [i \in DOMAIN vals |-> r[i][1]]
           back == [i \in DOMAIN ws |-> DecodePart(ws[i], p)]
<1>1. \A i \in DOMAIN vals : r[i] # <<>> /\ DecodePart(r[i][1], p) = << vals[i] >>
  BY DEF PartsReturn
<1>2. DOMAIN r = DOMAIN vals /\ DOMAIN ws = DOMAIN vals /\ DOMAIN back = DOMAIN vals
  OBVIOUS
<1>3. EncodeEach(vals, p) # <<>> /\ EncodeEach(vals, p)[1] = ws
  <2>1. EncodeEach(vals, p) = All(r)
    BY DEF EncodeEach
  <2>2. All(r) # <<>> /\ All(r)[1] = [i \in DOMAIN r |-> r[i][1]]
    <3> HIDE DEF r
    <3> QED
      BY <1>1, <1>2, AllIs
  <2> QED
    BY <1>2, <2>1, <2>2
<1>4. \A i \in DOMAIN vals : back[i] = << vals[i] >>
  BY <1>1
<1>5. All(back) = << [i \in DOMAIN back |-> back[i][1]] >>
  <2> HIDE DEF back
  <2>1. \A i \in DOMAIN back : back[i] # <<>>
    BY <1>2, <1>4
  <2> QED
    BY <2>1, AllIs
<1>6. DecodeEach(ws, p) = All(back)
  BY DEF DecodeEach
<1> HIDE DEF back, ws
<1>7. [i \in DOMAIN back |-> back[i][1]] = vals
  BY <1>2, <1>4
<1> QED
  BY <1>2, <1>3, <1>5, <1>6, <1>7

\* The same of the arguments or the results of a function.
THEOREM ReturnsAll ==
    ASSUME PartsReturn, NEW types, \A i \in DOMAIN types : Part(types[i]), NEW vals \in ValuesAll(types)
    PROVE  EncodeAll(vals, types) # <<>> /\ DecodeAll(EncodeAll(vals, types)[1], types) = << vals >>
<1> DEFINE r == [i \in DOMAIN vals |-> EncodePart(vals[i], types[i])]
           ws == [i \in DOMAIN vals |-> r[i][1]]
           back == [i \in DOMAIN ws |-> DecodePart(ws[i], types[i])]
<1>0. DOMAIN vals = DOMAIN types /\ vals = [i \in DOMAIN types |-> vals[i]]
  BY ValuesAllAre
<1>1. \A i \in DOMAIN vals : r[i] # <<>> /\ DecodePart(r[i][1], types[i]) = << vals[i] >>
  BY <1>0, ValuesAllAre DEF PartsReturn
<1>2. DOMAIN r = DOMAIN vals /\ DOMAIN ws = DOMAIN vals /\ DOMAIN back = DOMAIN vals
  OBVIOUS
<1>3. EncodeAll(vals, types) # <<>> /\ EncodeAll(vals, types)[1] = ws
  <2>1. EncodeAll(vals, types) = All(r)
    BY <1>0 DEF EncodeAll
  <2>2. All(r) # <<>> /\ All(r)[1] = [i \in DOMAIN r |-> r[i][1]]
    <3> HIDE DEF r
    <3> QED
      BY <1>1, <1>2, AllIs
  <2> QED
    BY <1>2, <2>1, <2>2
<1>4. \A i \in DOMAIN vals : back[i] = << vals[i] >>
  BY <1>1
<1>5. All(back) = << [i \in DOMAIN back |-> back[i][1]] >>
  <2> HIDE DEF back
  <2>1. \A i \in DOMAIN back : back[i] # <<>>
    BY <1>2, <1>4
  <2> QED
    BY <2>1, AllIs
<1>6. DecodeAll(ws, types) = All(back)
  BY <1>0, <1>2 DEF DecodeAll
<1> HIDE DEF back, ws, r
<1>7. [i \in DOMAIN back |-> back[i][1]] = vals
  BY <1>0, <1>2, <1>4
<1> QED
  BY <1>3, <1>5, <1>6, <1>7

LEMMA OptionalIs ==
    ASSUME NEW type, Optional(type)
    PROVE  type = <<>> \/ DOMAIN type = {1}
<1>1. type \in Seq(Range(type)) /\ Len(type) \in Nat /\ Len(type) <= 1 /\ DOMAIN type = 1..Len(type)
  BY DEF Optional, AList
<1>2. Len(type) = 0 \/ Len(type) = 1
  BY <1>1
<1>3. CASE Len(type) = 0
  BY <1>1, <1>3
<1>4. CASE Len(type) = 1
  BY <1>1, <1>4
<1> QED
  BY <1>2, <1>3, <1>4

LEMMA ReturnsPayload ==
    ASSUME PartsReturn, NEW type, Optional(type), \A p \in Range(type) : Part(p), NEW payload \in ValuesAll(type)
    PROVE  /\ EncodePayload(payload, type) # <<>>
           /\ DecodePayload(EncodePayload(payload, type)[1], type) = << payload >>
<1>1. CASE type = <<>>
  <2>1. DOMAIN type = {}
    BY <1>1
  <2>2. payload = <<>>
    <3>1. DOMAIN payload = {} /\ payload = [i \in {} |-> payload[i]]
      BY <2>1, ValuesAllAre
    <3>2. payload \in Seq({})
      <4>1. 0 \in Nat /\ payload \in [1..0 -> {}]
        BY <3>1
      <4> QED
        BY <4>1
    <3>3. Len(payload) = 0
      BY <3>1, <3>2
    <3> QED
      BY <3>2, <3>3
  <2> QED
    BY <1>1, <2>2 DEF EncodePayload, DecodePayload
<1>2. CASE DOMAIN type = {1}
  <2>1. type # <<>> /\ type[1] \in Range(type)
    BY <1>2 DEF Range
  <2>2. DOMAIN payload = {1} /\ payload = [i \in {1} |-> payload[i]] /\ payload[1] \in ValuesPart(type[1])
    BY <1>2, ValuesAllAre
  <2>3. payload # <<>> /\ payload = << payload[1] >>
    <3>1. << payload[1] >> = [i \in {1} |-> payload[i]]
      OBVIOUS
    <3> QED
      BY <2>2, <3>1
  <2>4. EncodePart(payload[1], type[1]) # <<>> /\ DecodePart(EncodePart(payload[1], type[1])[1], type[1]) = << payload[1] >>
    BY <2>1, <2>2 DEF PartsReturn
  <2>5. EncodePayload(payload, type) = EncodePart(payload[1], type[1])
    BY <2>1, <2>3 DEF EncodePayload
  <2>6. DecodePayload(EncodePart(payload[1], type[1])[1], type) = << << payload[1] >> >>
    BY <2>1, <2>4 DEF DecodePayload, Map1
  <2> QED
    BY <2>3, <2>4, <2>5, <2>6
<1> QED
  BY <1>1, <1>2, OptionalIs

\* Names that differ are found where they are.
LEMMA FieldNamed ==
    ASSUME NEW n \in Nat, NEW entries, DOMAIN entries = 1..n, NEW name, NEW i \in DOMAIN entries, entries[i][1] = name,
           \A j \in DOMAIN entries : entries[j][1] = name => j = i
    PROVE  Under(entries, name) = << entries[i] >>
<1> DEFINE first == CHOOSE k \in DOMAIN entries :
                        entries[k][1] = name /\ \A j \in 1..(k - 1) : ~(entries[j][1] = name)
<1>1. \A j \in 1..(i - 1) : ~(entries[j][1] = name)
  <2>1. \A j \in 1..(i - 1) : j \in 1..n /\ j # i
    OBVIOUS
  <2> QED
    BY <2>1
<1>2. first \in DOMAIN entries /\ entries[first][1] = name
  BY <1>1
<1>3. first = i
  BY <1>2
<1> QED
  BY <1>3 DEF Under, FirstOf

LEMMA EntryNamed ==
    ASSUME NEW n \in Nat, NEW entries, DOMAIN entries = 1..n, NEW name, NEW i \in DOMAIN entries, entries[i][1] = [str |-> name],
           \A j \in DOMAIN entries : entries[j][1] = [str |-> name] => j = i
    PROVE  Entry(entries, name) = << entries[i] >>
BY FieldNamed DEF Entry

LEMMA FieldsAre ==
    ASSUME NEW t, Carried(t), t.k = "record"
    PROVE  /\ Len(t.fields) \in Nat /\ DOMAIN t.fields = 1..Len(t.fields)
           /\ \A i, j \in DOMAIN t.fields : t.fields[i].name = t.fields[j].name => i = j
           /\ \A i \in DOMAIN t.fields : Part(t.fields[i].ty)
<1>1. \A i \in DOMAIN t.fields : Part(t.fields[i].ty)
  BY DEF Part, Carried, Carriable, IsType, Parts, InnerParts
<1>2. AList(t.fields) /\ ListsNames([i \in DOMAIN t.fields |-> t.fields[i].name])
  BY DEF Carried, IsType
<1>3. t.fields \in Seq(Range(t.fields))
  BY <1>2 DEF AList
<1>4. Len(t.fields) \in Nat /\ DOMAIN t.fields = 1..Len(t.fields)
  BY <1>3
<1>5. ASSUME NEW i \in DOMAIN t.fields, NEW j \in DOMAIN t.fields, t.fields[i].name = t.fields[j].name
      PROVE  i = j
  BY <1>2, <1>5 DEF ListsNames
<1> QED
  BY <1>1, <1>4, <1>5

\* What a record with these values of its fields is sent as.
SentAs(m, s, fields) ==
    DOMAIN m = DOMAIN fields /\ \A i \in DOMAIN fields :
        \E x : m[i] = <<[str |-> fields[i].name], x>> /\ DecodePart(x, fields[i].ty) = << s[i] >>

LEMMA SentFields ==
    ASSUME PartsReturn, NEW t, Carried(t), t.k = "record", NEW v \in Values(t)
    PROVE  \E s, m : v = [record |-> Named(t.fields, s)] /\ Encode(v, t) = << [map |-> m] >> /\ SentAs(m, s, t.fields)
<1> DEFINE fields == t.fields
           n == Len(fields)
           types == [i \in DOMAIN fields |-> fields[i].ty]
<1>1. /\ n \in Nat /\ DOMAIN fields = 1..n
      /\ \A i, j \in DOMAIN fields : fields[i].name = fields[j].name => i = j
      /\ \A i \in DOMAIN fields : Part(fields[i].ty)
  BY FieldsAre
<1>2. PICK s \in ValuesAll(types) : v = [record |-> Named(fields, s)]
  BY Kinds DEF Values
<1>3. \A i \in DOMAIN fields : s[i] \in ValuesPart(fields[i].ty)
  BY <1>2, ValuesAllAre
<1> DEFINE entries == Named(fields, s)
<1>4. v.record = entries /\ Is(v, "record")
  BY <1>2 DEF Is
<1>5. DOMAIN entries = 1..n /\ \A i \in DOMAIN fields : entries[i] = <<fields[i].name, s[i]>>
  BY <1>1 DEF Named
<1> HIDE DEF fields, types, entries, n
<1> DEFINE sent(i) == EncodePart(s[i], fields[i].ty)
           m == [i \in DOMAIN fields |-> <<[str |-> fields[i].name], sent(i)[1]>>]
<1>6. \A i \in DOMAIN fields : sent(i) # <<>> /\ DecodePart(sent(i)[1], fields[i].ty) = << s[i] >>
  BY <1>1, <1>3 DEF PartsReturn
<1>7. ASSUME NEW i \in DOMAIN fields
      PROVE  Under(entries, fields[i].name) = << <<fields[i].name, s[i]>> >>
  <2>1. entries[i][1] = fields[i].name /\ i \in DOMAIN entries
    BY <1>1, <1>5
  <2>2. \A j \in DOMAIN entries : entries[j][1] = fields[i].name => j = i
    BY <1>1, <1>5
  <2>3. entries[i] = <<fields[i].name, s[i]>>
    BY <1>5
  <2> DEFINE name == fields[i].name
  <2>4. entries[i][1] = name /\ \A j \in DOMAIN entries : entries[j][1] = name => j = i
    BY <2>1, <2>2
  <2> HIDE DEF name
  <2>5. Under(entries, name) = << entries[i] >>
    BY <1>1, <1>5, <2>1, <2>4, FieldNamed
  <2> QED
    BY <2>3, <2>5 DEF name
<1>8. EncodeFields(entries, fields) = << [map |-> m] >>
  <2> DEFINE of(f) == Under(entries, f.name)
             field(f) == IF of(f) = <<>> THEN <<>>
                         ELSE IF EncodePart(of(f)[1][2], f.ty) = <<>> THEN <<>>
                         ELSE << <<[str |-> f.name], EncodePart(of(f)[1][2], f.ty)[1]>> >>
             r == [i \in DOMAIN fields |-> field(fields[i])]
  <2>1. EncodeFields(entries, fields) = IF All(r) = <<>> THEN <<>> ELSE << [map |-> All(r)[1]] >>
    BY DEF EncodeFields, Map1
  <2>2. ASSUME NEW i \in DOMAIN fields PROVE r[i] = << <<[str |-> fields[i].name], sent(i)[1]>> >>
    <3>1. of(fields[i]) = << <<fields[i].name, s[i]>> >>
      BY <1>7
    <3> HIDE DEF of
    <3>2. of(fields[i]) # <<>> /\ of(fields[i])[1][2] = s[i]
      BY <3>1
    <3>3. sent(i) # <<>>
      BY <1>6
    <3>4. field(fields[i]) = << <<[str |-> fields[i].name], sent(i)[1]>> >>
      BY <3>2, <3>3
    <3> QED
      BY <3>4
  <2>3. DOMAIN r = DOMAIN fields
    OBVIOUS
  <2> HIDE DEF r
  <2>4. All(r) # <<>> /\ All(r)[1] = [i \in DOMAIN r |-> r[i][1]]
    BY <2>2, <2>3, AllIs
  <2>5. All(r)[1] = m
    BY <2>2, <2>3, <2>4
  <2> QED
    BY <2>1, <2>4, <2>5
<1>9. DOMAIN m = 1..n /\ \A i \in DOMAIN fields : m[i] = <<[str |-> fields[i].name], sent(i)[1]>>
  BY <1>1
<1> HIDE DEF m, sent
<1>10. Encode(v, t) = << [map |-> m] >>
  BY <1>4, <1>8, Kinds DEF Encode, fields
<1>11. SentAs(m, s, fields)
  BY <1>1, <1>6, <1>9 DEF SentAs
<1> QED
  BY <1>2, <1>10, <1>11 DEF entries, fields

\* An entry is found by its name, and is the only one.
LEMMA SentEntry ==
    ASSUME NEW fields, NEW n \in Nat, DOMAIN fields = 1..n,
           \A i, j \in DOMAIN fields : fields[i].name = fields[j].name => i = j,
           NEW s, NEW m, SentAs(m, s, fields), NEW i \in DOMAIN fields
    PROVE  Entry(m, fields[i].name) = << m[i] >>
<1> DEFINE name == fields[i].name
<1>1. DOMAIN m = 1..n /\ i \in DOMAIN m /\ m[i][1] = [str |-> name]
  BY DEF SentAs
<1>2. ASSUME NEW j \in DOMAIN m, m[j][1] = [str |-> name] PROVE j = i
  <2>1. m[j][1] = [str |-> fields[j].name] /\ j \in DOMAIN fields
    BY DEF SentAs
  <2>2. fields[j].name = name
    <3>1. [str |-> fields[j].name].str = [str |-> name].str
      BY <1>2, <2>1
    <3> QED
      BY <3>1
  <2> QED
    BY <2>1, <2>2
<1> HIDE DEF name
<1>3. Entry(m, name) = << m[i] >>
  BY <1>1, <1>2, EntryNamed
<1> QED
  BY <1>3 DEF name

\* What is read of a record, of whatever is sent.
ReadFields(m, fields, r) ==
    /\ DOMAIN r = DOMAIN fields
    /\ \A i \in DOMAIN fields :
          LET of == Entry(m, fields[i].name)
          IN  r[i] = IF of = <<>> THEN <<>>
                     ELSE IF DecodePart(of[1][2], fields[i].ty) = <<>> THEN <<>>
                     ELSE << <<fields[i].name, DecodePart(of[1][2], fields[i].ty)[1]>> >>

LEMMA ReadsFields ==
    ASSUME NEW t, t.k = "record", NEW m
    PROVE  \E r : /\ Decode([map |-> m], t) = IF All(r) = <<>> THEN <<>> ELSE << [record |-> All(r)[1]] >>
                  /\ ReadFields(m, t.fields, r)
<1> DEFINE of(i) == Entry(m, t.fields[i].name)
           field(i) == IF of(i) = <<>> THEN <<>>
                       ELSE IF DecodePart(of(i)[1][2], t.fields[i].ty) = <<>> THEN <<>>
                       ELSE << <<t.fields[i].name, DecodePart(of(i)[1][2], t.fields[i].ty)[1]>> >>
           r == [i \in DOMAIN t.fields |-> field(i)]
<1>1. Decode([map |-> m], t) = DecodeFields(m, t.fields)
  <2>1. Is([map |-> m], "map")
    BY DEF Is
  <2> QED
    BY <2>1, Kinds DEF Decode
<1>2. DecodeFields(m, t.fields) = IF All(r) = <<>> THEN <<>> ELSE << [record |-> All(r)[1]] >>
  BY DEF DecodeFields, Map1, EntryOf
<1>3. ReadFields(m, t.fields, r)
  BY DEF ReadFields
<1> HIDE DEF r
<1> QED
  BY <1>1, <1>2, <1>3

LEMMA ReturnsFields ==
    ASSUME PartsReturn, NEW t, Carried(t), t.k = "record", NEW v \in Values(t)
    PROVE  Returns(v, t)
<1> DEFINE fields == t.fields
           n == Len(fields)
<1>1. PICK s, m : v = [record |-> Named(fields, s)] /\ Encode(v, t) = << [map |-> m] >> /\ SentAs(m, s, fields)
  BY SentFields
<1>2. /\ n \in Nat /\ DOMAIN fields = 1..n
      /\ \A i, j \in DOMAIN fields : fields[i].name = fields[j].name => i = j
  BY FieldsAre
<1>3. PICK r : /\ Decode([map |-> m], t) = IF All(r) = <<>> THEN <<>> ELSE << [record |-> All(r)[1]] >>
               /\ ReadFields(m, fields, r)
  BY ReadsFields
<1> HIDE DEF fields, n
<1>4. ASSUME NEW i \in DOMAIN fields PROVE r[i] = << <<fields[i].name, s[i]>> >>
  <2> DEFINE of == Entry(m, fields[i].name)
  <2>1. of = << m[i] >>
    BY <1>1, <1>2, SentEntry
  <2>2. of # <<>> /\ DecodePart(of[1][2], fields[i].ty) = << s[i] >>
    BY <1>1, <2>1 DEF SentAs
  <2> QED
    BY <1>3, <2>2 DEF ReadFields
<1>5. DOMAIN r = DOMAIN fields
  BY <1>3 DEF ReadFields
<1>6. All(r) # <<>> /\ All(r)[1] = [i \in DOMAIN r |-> r[i][1]]
  <2>1. \A i \in DOMAIN r : r[i] # <<>>
    BY <1>4, <1>5
  <2> QED
    BY <2>1, AllIs
<1>7. All(r)[1] = Named(fields, s)
  BY <1>4, <1>5, <1>6 DEF Named
<1> QED
  BY <1>1, <1>3, <1>6, <1>7 DEF Returns

\* A record goes by the names of its fields: those that another shape declares
\* as well are read by it, in whatever order; one that it alone declares is
\* missed, and nothing is read.
THEOREM RecordByName ==
    ASSUME PartsReturn, NEW from, NEW to, Carried(from), Carried(to), from.k = "record", to.k = "record",
           NEW v \in Values(from)
    PROVE  /\ Encode(v, from) # <<>>
           /\ Range(to.fields) \subseteq Range(from.fields) =>
                 /\ Decode(Encode(v, from)[1], to) # <<>>
                 /\ Range(Decode(Encode(v, from)[1], to)[1].record) \subseteq Range(v.record)
           /\ Decode(Encode(v, from)[1], to) # <<>> =>
                 {f.name : f \in Range(to.fields)} \subseteq {f.name : f \in Range(from.fields)}
<1> DEFINE fields == from.fields
           n == Len(fields)
<1>1. PICK s, m : v = [record |-> Named(fields, s)] /\ Encode(v, from) = << [map |-> m] >> /\ SentAs(m, s, fields)
  BY SentFields
<1>2. /\ n \in Nat /\ DOMAIN fields = 1..n
      /\ \A i, j \in DOMAIN fields : fields[i].name = fields[j].name => i = j
  BY FieldsAre
<1>3. PICK r : /\ Decode([map |-> m], to) = IF All(r) = <<>> THEN <<>> ELSE << [record |-> All(r)[1]] >>
               /\ ReadFields(m, to.fields, r)
  BY ReadsFields
<1> DEFINE got == Decode(Encode(v, from)[1], to)
<1>4. Encode(v, from) # <<>> /\ got = IF All(r) = <<>> THEN <<>> ELSE << [record |-> All(r)[1]] >>
  BY <1>1, <1>3
<1>5. v.record = Named(fields, s)
  BY <1>1
<1> HIDE DEF fields, n, got
<1>6. DOMAIN r = DOMAIN to.fields
  BY <1>3 DEF ReadFields
<1>7. ASSUME Range(to.fields) \subseteq Range(fields)
      PROVE  got # <<>> /\ Range(got[1].record) \subseteq Range(v.record)
  <2>1. ASSUME NEW i \in DOMAIN r PROVE r[i] # <<>> /\ r[i][1] \in Range(v.record)
    <3>1. PICK j \in DOMAIN fields : fields[j] = to.fields[i]
      BY <1>6, <1>7 DEF Range
    <3> DEFINE of == Entry(m, fields[j].name)
    <3>2. of = << m[j] >>
      BY <1>1, <1>2, SentEntry
    <3>3. of # <<>> /\ DecodePart(of[1][2], fields[j].ty) = << s[j] >>
      BY <1>1, <3>2 DEF SentAs
    <3>4. r[i] = << <<fields[j].name, s[j]>> >>
      <4> DEFINE f == to.fields[i]
      <4>1. r[i] = IF Entry(m, f.name) = <<>> THEN <<>>
                   ELSE IF DecodePart(Entry(m, f.name)[1][2], f.ty) = <<>> THEN <<>>
                   ELSE << <<f.name, DecodePart(Entry(m, f.name)[1][2], f.ty)[1]>> >>
        BY <1>3, <1>6 DEF ReadFields
      <4>2. f = fields[j]
        BY <3>1
      <4> HIDE DEF f
      <4> QED
        BY <3>3, <4>1, <4>2
    <3>5. <<fields[j].name, s[j]>> \in Range(v.record)
      BY <1>5 DEF Named, Range
    <3> QED
      BY <3>4, <3>5
  <2>2. All(r) # <<>> /\ All(r)[1] = [i \in DOMAIN r |-> r[i][1]]
    BY <2>1, AllIs
  <2>3. got # <<>> /\ got[1].record = [i \in DOMAIN r |-> r[i][1]]
    BY <1>4, <2>2
  <2> QED
    BY <2>1, <2>3 DEF Range
<1>8. ASSUME got # <<>>
      PROVE  {f.name : f \in Range(to.fields)} \subseteq {f.name : f \in Range(fields)}
  <2>1. \A i \in DOMAIN r : r[i] # <<>>
    BY <1>4, <1>8, AllIs
  <2>2. ASSUME NEW i \in DOMAIN to.fields PROVE \E j \in DOMAIN fields : fields[j].name = to.fields[i].name
    <3> DEFINE name == to.fields[i].name
    <3>1. Entry(m, name) # <<>>
      BY <1>3, <1>6, <2>1 DEF ReadFields
    <3> HIDE DEF name
    <3>2. PICK j \in DOMAIN m : m[j][1] = [str |-> name]
      BY <3>1 DEF Entry, Under, FirstOf
    <3>3. j \in DOMAIN fields /\ m[j][1] = [str |-> fields[j].name]
      BY <1>1 DEF SentAs
    <3>4. [str |-> name].str = [str |-> fields[j].name].str
      BY <3>2, <3>3
    <3> QED
      BY <3>3, <3>4 DEF name
  <2> QED
    BY <2>2 DEF Range
<1> QED
  BY <1>4, <1>7, <1>8 DEF got, fields

\* A number is sent as itself, and read by any type of integer that it fits.
THEOREM NumberIsItself ==
    ASSUME NEW from, NEW to, from.k \in DOMAIN Bits, to.k \in DOMAIN Bits, NEW v \in Values(from)
    PROVE  /\ Encode(v, from) # <<>>
           /\ Decode(Encode(v, from)[1], to) =
                 IF v[from.k] \in IntRange(to.k) THEN << Only(to.k, v[from.k]) >> ELSE <<>>
<1>1. PICK n \in IntRange(from.k) : v = Only(from.k, n)
  BY Kinds DEF Values
<1>2. Is(v, from.k) /\ v[from.k] = n
  BY <1>1 DEF Is, Only
<1>3. Encode(v, from) = << [int |-> n] >>
  BY <1>2, Kinds DEF Encode
<1>4. Decode([int |-> n], to) = IF n \in IntRange(to.k) THEN << Only(to.k, n) >> ELSE <<>>
  BY Kinds DEF Decode, Is, Map1, Narrow
<1> QED
  BY <1>2, <1>3, <1>4

\* A map of one entry, and what is read of it.
LEMMA TaggedIs ==
    ASSUME NEW name, NEW payload, payload # <<>>
    PROVE  LET w == [map |-> << <<[str |-> name], payload[1]>> >>]
           IN  /\ Tagged(name, payload) = << w >> /\ IsTagged(w)
               /\ w.map[1][1].str = name /\ w.map[1][2] = payload[1]
<1> DEFINE w == [map |-> << <<[str |-> name], payload[1]>> >>]
<1>1. Tagged(name, payload) = << w >>
  BY DEF Tagged, Map1
<1>2. w.map = << <<[str |-> name], payload[1]>> >> /\ "map" \in DOMAIN w
  OBVIOUS
<1> HIDE DEF w
<1>3. w.map[1][1] = [str |-> name] /\ w.map[1][2] = payload[1] /\ Len(w.map) = 1
  BY <1>2
<1>4. IsTagged(w) /\ w.map[1][1].str = name
  BY <1>2, <1>3 DEF IsTagged, Is
<1> QED
  BY <1>1, <1>3, <1>4 DEF w

LEMMA ReturnsCase ==
    ASSUME PartsReturn, NEW t, Carried(t), t.k = "variant", NEW v \in Values(t)
    PROVE  Returns(v, t)
<1> DEFINE cases == t.cases
<1>1. PICK i \in DOMAIN cases : v \in [variant : {cases[i].name}, payload : ValuesAll(cases[i].payload)]
  BY Kinds DEF Values
<1> DEFINE name == cases[i].name
           type == cases[i].payload
<1>2. /\ v = [variant |-> name, payload |-> v.payload] /\ v.payload \in ValuesAll(type) /\ v.variant = name
      /\ Is(v, "variant")
  BY <1>1 DEF Is
<1>3. AList(cases) /\ (\A j, k \in DOMAIN cases : cases[j].name = cases[k].name => j = k)
  BY DEF Carried, IsType, ListsNames
<1>4. FindCase(cases, name) = << cases[i] >>
  <2> HIDE DEF cases
  <2> QED
    BY <1>3, CaseNamed
<1>5. Optional(type) /\ \A p \in Range(type) : Part(p)
  BY Kinds DEF Part, Carried, Carriable, IsType, Parts, InnerParts, Payloads
<1> DEFINE sent == EncodePayload(v.payload, type)
<1>6. sent # <<>> /\ DecodePayload(sent[1], type) = << v.payload >>
  <2> HIDE DEF type
  <2> QED
    BY <1>2, <1>5, ReturnsPayload
<1>7. Encode(v, t) = EncodeCase(v, cases)
  BY <1>2, Kinds DEF Encode
<1>8. EncodeCase(v, cases) = Tagged(name, sent)
  <2>1. FindCase(cases, v.variant) # <<>> /\ FindCase(cases, v.variant)[1].payload = type
    BY <1>2, <1>4
  <2> QED
    BY <1>2, <2>1 DEF EncodeCase
<1> DEFINE w == [map |-> << <<[str |-> name], sent[1]>> >>]
<1>9. Encode(v, t) = << w >> /\ IsTagged(w) /\ w.map[1][1].str = name /\ w.map[1][2] = sent[1]
  <2> HIDE DEF name, sent
  <2> QED
    BY <1>6, <1>7, <1>8, TaggedIs
<1> HIDE DEF w
<1>10. Decode(w, t) = DecodeCase(w, cases)
  BY <1>9, Kinds DEF Decode
<1>11. DecodeCase(w, cases) = << v >>
  <2>1. FindCase(cases, w.map[1][1].str) # <<>> /\ FindCase(cases, w.map[1][1].str)[1].payload = type
    BY <1>4, <1>9
  <2> QED
    BY <1>2, <1>6, <1>9, <2>1 DEF DecodeCase, Map1
<1> QED
  BY <1>9, <1>10, <1>11 DEF Returns

LEMMA ReturnsArm ==
    ASSUME PartsReturn, NEW t, Carried(t), t.k = "result", NEW v \in Values(t)
    PROVE  Returns(v, t)
<1>1. v \in [result : {"ok"}, payload : ValuesAll(t.ok)] \cup [result : {"err"}, payload : ValuesAll(t.err)]
  BY Kinds DEF Values
<1> DEFINE name == v.result
           type == Arm(t, name)
<1>2. /\ v = [result |-> name, payload |-> v.payload] /\ v.payload \in ValuesAll(type) /\ name \in {"ok", "err"}
      /\ Is(v, "result")
  BY <1>1 DEF Is, Arm
<1>3. Optional(type) /\ \A p \in Range(type) : Part(p)
  BY <1>2, Kinds DEF Part, Carried, Carriable, IsType, Parts, InnerParts, Arm
<1> DEFINE sent == EncodePayload(v.payload, type)
<1>4. sent # <<>> /\ DecodePayload(sent[1], type) = << v.payload >>
  <2> HIDE DEF type
  <2> QED
    BY <1>2, <1>3, ReturnsPayload
<1>5. Encode(v, t) = Tagged(name, sent)
  BY <1>2, Kinds DEF Encode
<1> DEFINE w == [map |-> << <<[str |-> name], sent[1]>> >>]
<1>6. Encode(v, t) = << w >> /\ IsTagged(w) /\ w.map[1][1].str = name /\ w.map[1][2] = sent[1]
  <2> HIDE DEF name, sent
  <2> QED
    BY <1>4, <1>5, TaggedIs
<1> HIDE DEF w
<1>7. Decode(w, t) = DecodeResult(w, t)
  BY <1>6, Kinds DEF Decode
<1>8. DecodeResult(w, t) = << v >>
  <2> DEFINE said == w.map[1][1].str
             read == DecodePayload(w.map[1][2], Arm(t, said))
  <2>1. said = name /\ read = << v.payload >>
    BY <1>4, <1>6
  <2>2. said \in {"ok", "err"} /\ read # <<>> /\ read[1] = v.payload
    BY <1>2, <2>1
  <2>3. DecodeResult(w, t) = << [result |-> said, payload |-> read[1]] >>
    BY <2>2 DEF DecodeResult, Map1
  <2> QED
    BY <1>2, <2>1, <2>2, <2>3
<1> QED
  BY <1>6, <1>7, <1>8 DEF Returns

LEMMA ReturnsArray ==
    ASSUME PartsReturn, NEW t, Carried(t), t.k \in {"list", "fixed", "tuple", "option"}, NEW v \in Values(t)
    PROVE  Returns(v, t)
<1>0. ASSUME NEW ws PROVE Decode([array |-> ws], t) = DecodeArray(ws, t)
  BY Kinds DEF Decode, Is
<1>1. CASE t.k = "list"
  <2>1. Part(t.of)
    BY <1>1 DEF Part, Carried, Carriable, IsType, Parts, InnerParts
  <2>2. v \in [list : UpTo(MaxList, ValuesPart(t.of))]
    BY <1>1, Kinds DEF Values
  <2>3. PICK vals \in UpTo(MaxList, ValuesPart(t.of)) : v = [list |-> vals]
    BY <2>2
  <2>4. vals = [i \in DOMAIN vals |-> vals[i]] /\ \A i \in DOMAIN vals : vals[i] \in ValuesPart(t.of)
    BY DEF UpTo
  <2> DEFINE sent == EncodeEach(vals, t.of)
  <2>5. sent # <<>> /\ DecodeEach(sent[1], t.of) = << vals >>
    BY <2>1, <2>4, ReturnsEach
  <2> HIDE DEF sent
  <2>6. Encode(v, t) = << [array |-> sent[1]] >>
    BY <1>1, <2>3, <2>5, Kinds DEF Encode, Is, Array, Map1, sent
  <2>7. DecodeArray(sent[1], t) = << v >>
    BY <1>1, <2>3, <2>5 DEF DecodeArray, Map1
  <2> QED
    BY <1>0, <2>6, <2>7 DEF Returns
<1>2. CASE t.k = "fixed"
  <2>1. Part(t.of)
    BY <1>2 DEF Part, Carried, Carriable, IsType, Parts, InnerParts
  <2>2. v \in [fixed : [1..t.len -> ValuesPart(t.of)]]
    BY <1>2, Kinds DEF Values
  <2>3. PICK vals \in [1..t.len -> ValuesPart(t.of)] : v = [fixed |-> vals]
    BY <2>2
  <2>4. vals = [i \in DOMAIN vals |-> vals[i]] /\ DOMAIN vals = 1..t.len /\ \A i \in DOMAIN vals : vals[i] \in ValuesPart(t.of)
    OBVIOUS
  <2> DEFINE sent == EncodeEach(vals, t.of)
  <2>5. sent # <<>> /\ DOMAIN sent[1] = 1..t.len /\ DecodeEach(sent[1], t.of) = << vals >>
    BY <2>1, <2>4, ReturnsEach
  <2> HIDE DEF sent
  <2>6. Encode(v, t) = << [array |-> sent[1]] >>
    BY <1>2, <2>3, <2>4, <2>5, Kinds DEF Encode, Is, Array, Map1, sent
  <2>7. DecodeArray(sent[1], t) = << v >>
    BY <1>2, <2>3, <2>5 DEF DecodeArray, Map1
  <2> QED
    BY <1>0, <2>6, <2>7 DEF Returns
<1>3. CASE t.k = "tuple"
  <2>1. \A i \in DOMAIN t.items : Part(t.items[i])
    BY <1>3 DEF Part, Carried, Carriable, IsType, Parts, InnerParts, Range
  <2>2. v \in [tuple : ValuesAll(t.items)]
    BY <1>3, Kinds DEF Values
  <2>3. PICK vals \in ValuesAll(t.items) : v = [tuple |-> vals]
    BY <2>2
  <2> DEFINE sent == EncodeAll(vals, t.items)
  <2>5. sent # <<>> /\ DecodeAll(sent[1], t.items) = << vals >>
    BY <2>1, ReturnsAll
  <2> HIDE DEF sent
  <2>6. Encode(v, t) = << [array |-> sent[1]] >>
    BY <1>3, <2>3, <2>5, Kinds DEF Encode, Is, Array, Map1, sent
  <2>7. DecodeArray(sent[1], t) = << v >>
    BY <1>3, <2>3, <2>5 DEF DecodeArray, Map1
  <2> QED
    BY <1>0, <2>6, <2>7 DEF Returns
<1>4. CASE t.k = "option"
  <2>1. Part(t.of)
    BY <1>4 DEF Part, Carried, Carriable, IsType, Parts, InnerParts
  <2>2. v \in [option : UpTo(1, ValuesPart(t.of))]
    BY <1>4, Kinds DEF Values
  <2>3. PICK vals \in UpTo(1, ValuesPart(t.of)) : v = [option |-> vals]
    BY <2>2
  <2>4. /\ vals = [i \in DOMAIN vals |-> vals[i]] /\ DOMAIN vals \in {{}, {1}}
        /\ \A i \in DOMAIN vals : vals[i] \in ValuesPart(t.of)
    <3>1. PICK k \in 0..1 : vals \in [1..k -> ValuesPart(t.of)]
      BY DEF UpTo
    <3>2. 1..k = {} \/ 1..k = {1}
      BY <3>1
    <3> QED
      BY <3>1, <3>2
  <2> DEFINE sent == EncodeEach(vals, t.of)
  <2>5. sent # <<>> /\ DOMAIN sent[1] = DOMAIN vals /\ DecodeEach(sent[1], t.of) = << vals >>
    BY <2>1, <2>4, ReturnsEach
  <2> HIDE DEF sent
  <2>6. Encode(v, t) = << [array |-> sent[1]] >>
    BY <1>4, <2>3, <2>5, Kinds DEF Encode, Is, Array, Map1, sent
  <2>7. DecodeArray(sent[1], t) = << v >>
    BY <1>4, <2>3, <2>4, <2>5 DEF DecodeArray, Map1
  <2> QED
    BY <1>0, <2>6, <2>7 DEF Returns
<1> QED
  BY <1>1, <1>2, <1>3, <1>4

LEMMA ReturnsFlags ==
    ASSUME ChosenNames, NEW t, Carried(t), t.k = "flags", NEW v \in Values(t)
    PROVE  Returns(v, t)
<1> DEFINE names == t.names
<1>1. names \in Seq(Range(names))
  BY DEF Carried, IsType, ListsNames, AList
<1>2. PICK on \in SUBSET Range(names) : v = [flags |-> Chosen(names, on)]
  BY Kinds DEF Values
<1> HIDE DEF names
<1>3. Range(Chosen(names, on)) = on /\ Chosen(names, on) \in Seq(Range(names))
  <2>1. Range(names) \cap on = on
    BY <1>2
  <2> QED
    BY <1>1, <2>1 DEF ChosenNames
<1> DEFINE set == Chosen(names, on)
           ws == [i \in DOMAIN set |-> [str |-> set[i]]]
           back == [i \in DOMAIN ws |-> If(Text(ws[i]), Range(names))]
<1>4. Encode(v, t) = << [array |-> ws] >>
  <2>1. Encode(v, t) = EncodeFlags(set, names)
    BY <1>2, Kinds DEF Encode, Is, names
  <2>2. Chosen(names, Range(set)) = set
    BY <1>3
  <2> HIDE DEF set
  <2>3. Range(set) \subseteq Range(names)
    BY <1>2, <1>3 DEF set
  <2> QED
    BY <2>1, <2>2, <2>3 DEF EncodeFlags
<1>5. Decode([array |-> ws], t) = Map1(LAMBDA s : [flags |-> s], All(back))
  <2>1. Is([array |-> ws], "array")
    BY DEF Is
  <2>2. Decode([array |-> ws], t) = DecodeArray(ws, t)
    BY <2>1, Kinds DEF Decode
  <2>3. DecodeArray(ws, t) = DecodeFlags(ws, names)
    BY DEF DecodeArray, names
  <2> QED
    BY <2>2, <2>3 DEF DecodeFlags
<1>6. \A i \in DOMAIN set : set[i] \in Range(names)
  BY <1>2, <1>3 DEF Range
<1>7. set = [i \in DOMAIN set |-> set[i]]
  <2> HIDE DEF set
  <2>1. Len(set) \in Nat /\ set \in [1..Len(set) -> Range(names)]
    BY <1>3 DEF set
  <2> QED
    BY <2>1
<1> HIDE DEF set
<1>8. \A i \in DOMAIN set : back[i] = << set[i] >>
  BY <1>6 DEF If, Text, Is
<1>9. DOMAIN back = DOMAIN set
  OBVIOUS
<1> HIDE DEF back
<1>10. All(back) = << [i \in DOMAIN back |-> back[i][1]] >>
  <2>1. \A i \in DOMAIN back : back[i] # <<>>
    BY <1>8, <1>9
  <2> QED
    BY <2>1, AllIs
<1>11. All(back) = << set >>
  <2>1. [i \in DOMAIN back |-> back[i][1]] = set
    BY <1>7, <1>8, <1>9
  <2> QED
    BY <1>10, <2>1
<1>12. Decode([array |-> ws], t) = << v >>
  BY <1>2, <1>5, <1>11 DEF Map1, set
<1> QED
  BY <1>4, <1>12 DEF Returns

\* Every value of a type that can be carried can be sent, and arrives as what it
\* is, if the values of its parts do ("Encoding then decoding must be the
\* identity", val.rs:576).
THEOREM ReturnsAny ==
    ASSUME PartsReturn, ChosenNames, NEW t, Carried(t), NEW v \in Values(t)
    PROVE  Returns(v, t)
<1>1. CASE t.k \in DOMAIN Bits
  <2>1. PICK n \in IntRange(t.k) : v = Only(t.k, n)
    BY <1>1, Kinds DEF Values
  <2>2. Is(v, t.k) /\ v[t.k] = n
    BY <2>1 DEF Is, Only
  <2>3. Encode(v, t) = << [int |-> n] >>
    BY <1>1, <2>2, Kinds DEF Encode
  <2>4. Decode([int |-> n], t) = << v >>
    BY <1>1, <2>1, Kinds DEF Decode, Is, Map1, Narrow
  <2> QED
    BY <2>3, <2>4 DEF Returns
<1>2. CASE t.k \in Floats
  <2>1. PICK n : v = Only(t.k, n)
    BY <1>2, Kinds DEF Values, Only
  <2>2. Is(v, t.k) /\ v[t.k] = n
    BY <2>1 DEF Is, Only
  <2>3. Encode(v, t) = << Only(t.k, n) >>
    BY <1>2, <2>2, Kinds DEF Encode
  <2>4. DecodeFloat(Only(t.k, n), t.k) = << n >>
    BY <1>2, Kinds DEF DecodeFloat, Is, Only
  <2>5. Decode(Only(t.k, n), t) = << v >>
    BY <1>2, <2>1, <2>4, Kinds DEF Decode, Map1
  <2> QED
    BY <2>3, <2>5 DEF Returns
<1>3. CASE t.k \in {"bool", "char", "string", "enum"}
  <2>1. CASE t.k = "bool"
    <3>1. PICK b \in BOOLEAN : v = [bool |-> b]
      BY <2>1, Kinds DEF Values
    <3>2. Encode(v, t) = << [bool |-> b] >>
      BY <2>1, <3>1, Kinds DEF Encode, Is
    <3>3. Decode([bool |-> b], t) = << v >>
      BY <2>1, <3>1, Kinds DEF Decode, Is
    <3> QED
      BY <3>2, <3>3 DEF Returns
  <2>2. CASE t.k = "char"
    <3>1. PICK s \in Chars : v = [char |-> s]
      BY <2>2, Kinds DEF Values
    <3>2. Encode(v, t) = << [str |-> s] >>
      BY <2>2, <3>1, Kinds DEF Encode, Is
    <3>3. If(Text([str |-> s]), Chars) = << s >>
      BY <3>1 DEF If, Text, Is
    <3>4. Decode([str |-> s], t) = << v >>
      BY <2>2, <3>1, <3>3, Kinds DEF Decode, Map1
    <3> QED
      BY <3>2, <3>4 DEF Returns
  <2>3. CASE t.k = "string"
    <3>1. PICK s \in Strings : v = [string |-> s]
      BY <2>3, Kinds DEF Values
    <3>2. Encode(v, t) = << [str |-> s] >>
      BY <2>3, <3>1, Kinds DEF Encode, Is
    <3>3. Text([str |-> s]) = << s >>
      BY DEF Text, Is
    <3>4. Decode([str |-> s], t) = << v >>
      BY <2>3, <3>1, <3>3, Kinds DEF Decode, Map1
    <3> QED
      BY <3>2, <3>4 DEF Returns
  <2>4. CASE t.k = "enum"
    <3>1. PICK s \in Range(t.names) : v = [enum |-> s]
      BY <2>4, Kinds DEF Values
    <3>2. Encode(v, t) = << [str |-> s] >>
      BY <2>4, <3>1, Kinds DEF Encode, Is
    <3>3. If(Text([str |-> s]), Range(t.names)) = << s >>
      BY <3>1 DEF If, Text, Is
    <3>4. Decode([str |-> s], t) = << v >>
      BY <2>4, <3>1, <3>3, Kinds DEF Decode, Map1
    <3> QED
      BY <3>2, <3>4 DEF Returns
  <2> QED
    BY <1>3, <2>1, <2>2, <2>3, <2>4
<1>4. t.k \notin Unsupported
  BY DEF Carried, Carriable
<1>5. CASE t.k \in {"list", "fixed", "tuple", "option"}
  BY <1>5, ReturnsArray
<1>6. CASE t.k = "record"
  BY <1>6, ReturnsFields
<1>7. CASE t.k = "variant"
  BY <1>7, ReturnsCase
<1>8. CASE t.k = "result"
  BY <1>8, ReturnsArm
<1>9. CASE t.k = "flags"
  BY <1>9, ReturnsFlags
<1> QED
  BY <1>1, <1>2, <1>3, <1>4, <1>5, <1>6, <1>7, <1>8, <1>9, Kinds, KindsOf DEF Carried
=============================================================================

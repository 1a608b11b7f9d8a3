----------------------------- MODULE WireProofs -----------------------------
(***************************************************************************)
(* What becomes of arguments on their way, for all interfaces, values and  *)
(* MessagePack values of strangers: they can be sent, arrive as what they  *)
(* are, and what does not fit is refused.                                  *)
(*                                                                         *)
(* What LayerProofs shows of a type, given its parts, is put together here *)
(* layer by layer; WireInv then says what a request is the encoding of.    *)
(***************************************************************************)
EXTENDS Trips, Recursion, SequenceTheorems

-----------------------------------------------------------------------------
(* What the codec is built of.                                            *)

\* The members that are in a set, and no others.
LEMMA ChosenIs ==
    ASSUME NEW S, NEW names \in Seq(S), NEW on
    PROVE  /\ Chosen(names, on) \in Seq(S)
           /\ Range(Chosen(names, on)) = Range(names) \cap on
<1> DEFINE n == Len(names)
           next(w, k) == IF names[k] \in on THEN Append(w, names[k]) ELSE w
           step == [x \in (1..n) \X Seq(S) |-> next(x[2], x[1])]
           upTo == CHOOSE f : f = [k \in 0..n |->
                      IF k = 0 THEN <<>> ELSE IF names[k] \in on THEN Append(f[k - 1], names[k]) ELSE f[k - 1]]
<1>1. n \in Nat /\ DOMAIN names = 1..n /\ \A k \in 1..n : names[k] \in S
  BY LenProperties, ElementOfSeq
<1>2. ASSUME NEW w \in Seq(S), NEW k \in 1..n PROVE next(w, k) \in Seq(S)
  BY <1>1, AppendProperties
<1>3. step \in [(1..n) \X Seq(S) -> Seq(S)]
  <2> HIDE DEF next, n
  <2> QED
    BY <1>2
<1>4. <<>> \in Seq(S)
  BY EmptySeq
<1>5. PICK g \in [0..n -> Seq(S)] : g = [k \in 0..n |-> IF k = 0 THEN <<>> ELSE step[<<k, g[k - 1]>>]]
  <2> HIDE DEF step, n
  <2>1. \E g \in [0..n -> Seq(S)] : Rounds(g, n, <<>>, step)
    BY <1>1, <1>3, <1>4, RoundsExist
  <2> QED
    BY <2>1 DEF Rounds
<1>6. \A k \in 1..n : step[<<k, g[k - 1]>>] = next(g[k - 1], k)
  <2>1. \A k \in 1..n : k - 1 \in 0..n
    BY <1>1
  <2> HIDE DEF next, n
  <2> QED
    BY <2>1, <1>5
<1>7. \A k \in 0..n : k # 0 => k \in 1..n
  BY <1>1
<1>8. g = [k \in 0..n |-> IF k = 0 THEN <<>> ELSE IF names[k] \in on THEN Append(g[k - 1], names[k]) ELSE g[k - 1]]
  <2>1. \A k \in 0..n : g[k] = IF k = 0 THEN <<>> ELSE step[<<k, g[k - 1]>>]
    <3> HIDE DEF step, n
    <3> QED
      BY <1>5
  <2>2. \A k \in 0..n : g[k] = IF k = 0 THEN <<>> ELSE next(g[k - 1], k)
    <3> HIDE DEF step, n, next
    <3> QED
      BY <2>1, <1>6, <1>7
  <2>3. g = [k \in 0..n |-> g[k]]
    <3> HIDE DEF step, n
    <3> QED
      BY <1>5
  <2> HIDE DEF step, n
  <2> QED
    BY <2>2, <2>3
<1>9. upTo = [k \in 0..n |-> IF k = 0 THEN <<>> ELSE IF names[k] \in on THEN Append(upTo[k - 1], names[k]) ELSE upTo[k - 1]]
  <2> HIDE DEF n
  <2> QED
    BY <1>8
<1>10. Chosen(names, on) = upTo[n]
  BY DEF Chosen
<1> HIDE DEF upTo, n
<1>11. upTo[0] = <<>> /\ \A k \in 1..n : upTo[k] = next(upTo[k - 1], k)
  <2>1. 0 \in 0..n /\ \A k \in 1..n : k \in 0..n /\ k # 0
    BY <1>1
  <2> QED
    BY <1>9, <2>1
<1> DEFINE Members(w) == {w[m] : m \in DOMAIN w}
           T == {k \in 0..n : upTo[k] \in Seq(S) /\ Members(upTo[k]) = {names[j] : j \in 1..k} \cap on}
<1>12. 0 \in T
  <2>1. 0 \in 0..n /\ DOMAIN upTo[0] = {} /\ 1..0 = {}
    BY <1>1, <1>11
  <2> QED
    BY <1>4, <1>11, <2>1
<1>13. ASSUME NEW k \in 1..n, k - 1 \in T PROVE k \in T
  <2> DEFINE w == upTo[k - 1]
  <2>1. w \in Seq(S) /\ Members(w) = {names[j] : j \in 1..(k - 1)} \cap on
    BY <1>13
  <2>2. upTo[k] = next(w, k)
    BY <1>11
  <2> HIDE DEF w
  <2>3. k \in 0..n /\ {names[j] : j \in 1..k} = {names[j] : j \in 1..(k - 1)} \cup {names[k]}
    <3>1. k \in 0..n /\ 1..k = (1..(k - 1)) \cup {k}
      BY <1>1
    <3> QED
      BY <3>1
  <2>4. CASE names[k] \in on
    <3>1. upTo[k] = Append(w, names[k])
      BY <2>2, <2>4
    <3>2. upTo[k] \in Seq(S)
      BY <1>2, <2>1, <2>2
    <3>3. /\ Len(w) \in Nat /\ DOMAIN w = 1..Len(w) /\ DOMAIN upTo[k] = 1..(Len(w) + 1)
          /\ \A m \in 1..Len(w) : upTo[k][m] = w[m]
          /\ upTo[k][Len(w) + 1] = names[k]
      BY <1>1, <2>1, <3>1, AppendProperties, LenProperties
    <3>4. 1..(Len(w) + 1) = (1..Len(w)) \cup {Len(w) + 1}
      BY <3>3
    <3>5. Members(upTo[k]) = Members(w) \cup {names[k]}
      <4> DEFINE u == upTo[k]
      <4>1. DOMAIN u = (1..Len(w)) \cup {Len(w) + 1}
        BY <3>3, <3>4
      <4>2. (\A m \in 1..Len(w) : u[m] = w[m]) /\ u[Len(w) + 1] = names[k] /\ DOMAIN w = 1..Len(w)
        BY <3>3
      <4> HIDE DEF u
      <4>3. \A x : (\E m \in DOMAIN u : x = u[m]) <=> (\E m \in DOMAIN w : x = w[m]) \/ x = names[k]
        BY <4>1, <4>2
      <4> QED
        BY <4>3 DEF u
    <3> QED
      BY <2>1, <2>3, <2>4, <3>2, <3>5
  <2>5. CASE names[k] \notin on
    <3>1. upTo[k] = w
      BY <2>2, <2>5
    <3> QED
      BY <2>1, <2>3, <2>5, <3>1
  <2> QED
    BY <2>4, <2>5
<1>14. n \in T
  <2> HIDE DEF T
  <2>1. \A k \in 1..n : k - 1 \in T => k \in T
    BY <1>13
  <2>2. 0..n \subseteq T
    BY <1>1, <1>12, <2>1, Climb
  <2> QED
    BY <1>1, <2>2
<1>15. Range(names) = {names[j] : j \in 1..n}
  BY <1>1 DEF Range
<1> QED
  BY <1>10, <1>14, <1>15 DEF Range

-----------------------------------------------------------------------------
(* The induction over types, of as many steps as the codec has layers: what *)
(* LayerProofs shows of a layer, each on top of the one below.             *)

P1 == INSTANCE LayerProofs WITH
    CarriablePart <- NoCarriable, IsTypePart <- NoIsType, EncodePart <- NoEncode,
    DecodePart <- NoDecode, ValuesPart <- NoValues, HasTypePart <- NoHasType
P2 == INSTANCE LayerProofs WITH
    CarriablePart <- Types1!Carriable, IsTypePart <- Types1!IsType, EncodePart <- Encode1!Encode,
    DecodePart <- Decode1!Decode, ValuesPart <- Values1!Values, HasTypePart <- Values1!HasType
P3 == INSTANCE LayerProofs WITH
    CarriablePart <- Types2!Carriable, IsTypePart <- Types2!IsType, EncodePart <- Encode2!Encode,
    DecodePart <- Decode2!Decode, ValuesPart <- Values2!Values, HasTypePart <- Values2!HasType
P4 == INSTANCE LayerProofs WITH
    CarriablePart <- Types3!Carriable, IsTypePart <- Types3!IsType, EncodePart <- Encode3!Encode,
    DecodePart <- Decode3!Decode, ValuesPart <- Values3!Values, HasTypePart <- Values3!HasType
P5 == INSTANCE LayerProofs WITH
    CarriablePart <- Types4!Carriable, IsTypePart <- Types4!IsType, EncodePart <- Encode4!Encode,
    DecodePart <- Decode4!Decode, ValuesPart <- Values4!Values, HasTypePart <- Values4!HasType
P6 == INSTANCE LayerProofs WITH
    CarriablePart <- Types5!Carriable, IsTypePart <- Types5!IsType, EncodePart <- Encode5!Encode,
    DecodePart <- Decode5!Decode, ValuesPart <- Values5!Values, HasTypePart <- Values5!HasType
P7 == INSTANCE LayerProofs WITH
    CarriablePart <- Types6!Carriable, IsTypePart <- Types6!IsType, EncodePart <- Encode6!Encode,
    DecodePart <- Decode6!Decode, ValuesPart <- Values6!Values, HasTypePart <- Values6!HasType

\* What is proved of a layer is proved of the layers of Codec.
LEMMA SameParts1 == \A t : P1!Parts(t) = Types1!Parts(t)
BY DEF P1!Payloads, Types1!Payloads, P1!InnerParts, Types1!InnerParts, P1!Parts, Types1!Parts, P1!Range, Types1!Range

LEMMA SameForms1 ==
    /\ P1!Unsupported = Types1!Unsupported /\ P1!Primitive = Types1!Primitive
    /\ \A s : /\ P1!AList(s) <=> Types1!AList(s)
              /\ P1!ListsNames(s) <=> Types1!ListsNames(s)
              /\ P1!Optional(s) <=> Types1!Optional(s)
<1>1. P1!Unsupported = Types1!Unsupported /\ P1!Primitive = Types1!Primitive
  BY DEF P1!Unsupported, Types1!Unsupported, P1!Primitive, Types1!Primitive, P1!Floats, Types1!Floats
<1>2. \A s : P1!AList(s) <=> Types1!AList(s)
  BY DEF P1!AList, Types1!AList, P1!Range, Types1!Range
<1> QED
  BY <1>1, <1>2 DEF P1!ListsNames, Types1!ListsNames, P1!Optional, Types1!Optional

LEMMA SameCarriable1 == \A t : P1!Carriable(t) <=> Types1!Carriable(t)
BY SameParts1, SameForms1 DEF P1!Carriable, Types1!Carriable

LEMMA SameIsType1 == \A t : P1!IsType(t) <=> Types1!IsType(t)
BY SameParts1, SameForms1 DEF P1!IsType, Types1!IsType

LEMMA SameValues1 == \A t : P1!Values(t) = Values1!Values(t)
BY DEF P1!SignedInts, Values1!SignedInts, P1!UnsignedInts, Values1!UnsignedInts, P1!IntRange, Values1!IntRange,
       P1!Only, Values1!Only, P1!Chosen, Values1!Chosen, P1!Product, Values1!Product, P1!UpTo, Values1!UpTo,
       P1!Unsupported, Values1!Unsupported, P1!ValuesAll, Values1!ValuesAll, P1!Named, Values1!Named, P1!Values,
       Values1!Values

LEMMA SameHasType1 == \A v, t : P1!HasType(v, t) <=> Values1!HasType(v, t)
BY DEF P1!SignedInts, Values1!SignedInts, P1!UnsignedInts, Values1!UnsignedInts, P1!IntRange, Values1!IntRange,
       P1!Is, Values1!Is, P1!Arm, Values1!Arm, P1!HaveTypes, Values1!HaveTypes, P1!HasType, Values1!HasType

LEMMA SameEncode1 == \A v, t : P1!Encode(v, t) = Encode1!Encode(v, t)
<1>1. \A s, t : P1!EncodeEach(s, t) = Encode1!EncodeEach(s, t) /\ P1!EncodeAll(s, t) = Encode1!EncodeAll(s, t)
  BY DEF P1!All, Encode1!All, P1!EncodeEach, Encode1!EncodeEach, P1!EncodeAll, Encode1!EncodeAll
<1>2. \A p, t : P1!EncodePayload(p, t) = Encode1!EncodePayload(p, t)
  BY DEF P1!EncodePayload, Encode1!EncodePayload
<1>3. \A s, t : P1!EncodeFields(s, t) = Encode1!EncodeFields(s, t)
  BY DEF P1!All, Encode1!All, P1!Map1, Encode1!Map1, P1!FirstOf, Encode1!FirstOf, P1!Under, Encode1!Under,
         P1!EncodeFields, Encode1!EncodeFields
<1>4. \A s, names : P1!EncodeFlags(s, names) = Encode1!EncodeFlags(s, names)
  BY DEF P1!Range, Encode1!Range, P1!Chosen, Encode1!Chosen, P1!EncodeFlags, Encode1!EncodeFlags
<1>5. \A v, cases : P1!EncodeCase(v, cases) = Encode1!EncodeCase(v, cases)
  <2>1. \A cases, name : P1!FindCase(cases, name) = Encode1!FindCase(cases, name)
    BY DEF P1!FirstOf, Encode1!FirstOf, P1!FindCase, Encode1!FindCase
  <2>2. \A name, p : P1!Tagged(name, p) = Encode1!Tagged(name, p)
    BY DEF P1!Map1, Encode1!Map1, P1!Tagged, Encode1!Tagged
  <2> QED
    BY <1>2, <2>1, <2>2 DEF P1!EncodeCase, Encode1!EncodeCase
<1> QED
  BY <1>1, <1>2, <1>3, <1>4, <1>5 DEF P1!Floats, Encode1!Floats, P1!Is, Encode1!Is, P1!Only, Encode1!Only,
         P1!Map1, Encode1!Map1, P1!Array, Encode1!Array, P1!Tagged, Encode1!Tagged, P1!Arm, Encode1!Arm,
         P1!Encode, Encode1!Encode

LEMMA SameDecode1 == \A v, t : P1!Decode(v, t) = Decode1!Decode(v, t)
<1>1. \A s, t : P1!DecodeEach(s, t) = Decode1!DecodeEach(s, t) /\ P1!DecodeAll(s, t) = Decode1!DecodeAll(s, t)
  BY DEF P1!All, Decode1!All, P1!DecodeEach, Decode1!DecodeEach, P1!DecodeAll, Decode1!DecodeAll
<1>2. \A w, kind : P1!DecodeFloat(w, kind) = Decode1!DecodeFloat(w, kind)
  BY DEF P1!Is, Decode1!Is, P1!Widened, Decode1!Widened, P1!Rounded, Decode1!Rounded, P1!DecodeFloat,
         Decode1!DecodeFloat
<1>3. \A w, t : P1!DecodePayload(w, t) = Decode1!DecodePayload(w, t)
  BY DEF P1!Map1, Decode1!Map1, P1!DecodePayload, Decode1!DecodePayload
<1>4. \A w : P1!Text(w) = Decode1!Text(w) /\ (P1!IsTagged(w) <=> Decode1!IsTagged(w))
  BY DEF P1!Is, Decode1!Is, P1!Text, Decode1!Text, P1!IsTagged, Decode1!IsTagged
<1>5. \A s, t : P1!DecodeFields(s, t) = Decode1!DecodeFields(s, t)
  BY DEF P1!All, Decode1!All, P1!Is, Decode1!Is, P1!Map1, Decode1!Map1, P1!FirstOf, Decode1!FirstOf, P1!Text,
         Decode1!Text, P1!Under, Decode1!Under, P1!Entry, Decode1!Entry, P1!EntryOf, Decode1!EntryOf,
         P1!DecodeFields, Decode1!DecodeFields
<1>6. \A w, t : P1!DecodeCase(w, t) = Decode1!DecodeCase(w, t) /\ P1!DecodeResult(w, t) = Decode1!DecodeResult(w, t)
  <2>1. \A cases, name : P1!FindCase(cases, name) = Decode1!FindCase(cases, name)
    BY DEF P1!FirstOf, Decode1!FirstOf, P1!FindCase, Decode1!FindCase
  <2>2. \A w, t : P1!DecodeCase(w, t) = Decode1!DecodeCase(w, t)
    BY <1>3, <2>1 DEF P1!Map1, Decode1!Map1, P1!DecodeCase, Decode1!DecodeCase
  <2> QED
    BY <1>3, <2>2 DEF P1!Map1, Decode1!Map1, P1!Arm, Decode1!Arm, P1!DecodeResult, Decode1!DecodeResult
<1>7. \A s, names : P1!DecodeFlags(s, names) = Decode1!DecodeFlags(s, names)
  BY <1>4 DEF P1!Range, Decode1!Range, P1!All, Decode1!All, P1!Map1, Decode1!Map1, P1!If, Decode1!If,
         P1!DecodeFlags, Decode1!DecodeFlags
<1>8. \A s, t : P1!DecodeArray(s, t) = Decode1!DecodeArray(s, t)
  BY <1>1, <1>7 DEF P1!Map1, Decode1!Map1, P1!DecodeArray, Decode1!DecodeArray
<1>9. \A n, kind : P1!Narrow(n, kind) = Decode1!Narrow(n, kind)
  BY DEF P1!SignedInts, Decode1!SignedInts, P1!UnsignedInts, Decode1!UnsignedInts, P1!IntRange,
         Decode1!IntRange, P1!Narrow, Decode1!Narrow
<1> QED
  BY <1>1, <1>2, <1>4, <1>5, <1>6, <1>8, <1>9 DEF P1!Floats, Decode1!Floats, P1!Is, Decode1!Is, P1!Only,
         Decode1!Only, P1!Map1, Decode1!Map1, P1!If, Decode1!If, P1!Decode, Decode1!Decode

\* The same.
LEMMA SameParts2 == \A t : P2!Parts(t) = Types2!Parts(t)
BY DEF P2!Payloads, Types2!Payloads, P2!InnerParts, Types2!InnerParts, P2!Parts, Types2!Parts, P2!Range, Types2!Range

LEMMA SameForms2 ==
    /\ P2!Unsupported = Types2!Unsupported /\ P2!Primitive = Types2!Primitive
    /\ \A s : /\ P2!AList(s) <=> Types2!AList(s)
              /\ P2!ListsNames(s) <=> Types2!ListsNames(s)
              /\ P2!Optional(s) <=> Types2!Optional(s)
<1>1. P2!Unsupported = Types2!Unsupported /\ P2!Primitive = Types2!Primitive
  BY DEF P2!Unsupported, Types2!Unsupported, P2!Primitive, Types2!Primitive, P2!Floats, Types2!Floats
<1>2. \A s : P2!AList(s) <=> Types2!AList(s)
  BY DEF P2!AList, Types2!AList, P2!Range, Types2!Range
<1> QED
  BY <1>1, <1>2 DEF P2!ListsNames, Types2!ListsNames, P2!Optional, Types2!Optional

LEMMA SameCarriable2 == \A t : P2!Carriable(t) <=> Types2!Carriable(t)
BY SameParts2, SameForms2 DEF P2!Carriable, Types2!Carriable

LEMMA SameIsType2 == \A t : P2!IsType(t) <=> Types2!IsType(t)
BY SameParts2, SameForms2 DEF P2!IsType, Types2!IsType

LEMMA SameValues2 == \A t : P2!Values(t) = Values2!Values(t)
BY DEF P2!SignedInts, Values2!SignedInts, P2!UnsignedInts, Values2!UnsignedInts, P2!IntRange, Values2!IntRange,
       P2!Only, Values2!Only, P2!Chosen, Values2!Chosen, P2!Product, Values2!Product, P2!UpTo, Values2!UpTo,
       P2!Unsupported, Values2!Unsupported, P2!ValuesAll, Values2!ValuesAll, P2!Named, Values2!Named, P2!Values,
       Values2!Values

LEMMA SameHasType2 == \A v, t : P2!HasType(v, t) <=> Values2!HasType(v, t)
BY DEF P2!SignedInts, Values2!SignedInts, P2!UnsignedInts, Values2!UnsignedInts, P2!IntRange, Values2!IntRange,
       P2!Is, Values2!Is, P2!Arm, Values2!Arm, P2!HaveTypes, Values2!HaveTypes, P2!HasType, Values2!HasType

LEMMA SameEncode2 == \A v, t : P2!Encode(v, t) = Encode2!Encode(v, t)
<1>1. \A s, t : P2!EncodeEach(s, t) = Encode2!EncodeEach(s, t) /\ P2!EncodeAll(s, t) = Encode2!EncodeAll(s, t)
  BY DEF P2!All, Encode2!All, P2!EncodeEach, Encode2!EncodeEach, P2!EncodeAll, Encode2!EncodeAll
<1>2. \A p, t : P2!EncodePayload(p, t) = Encode2!EncodePayload(p, t)
  BY DEF P2!EncodePayload, Encode2!EncodePayload
<1>3. \A s, t : P2!EncodeFields(s, t) = Encode2!EncodeFields(s, t)
  BY DEF P2!All, Encode2!All, P2!Map1, Encode2!Map1, P2!FirstOf, Encode2!FirstOf, P2!Under, Encode2!Under,
         P2!EncodeFields, Encode2!EncodeFields
<1>4. \A s, names : P2!EncodeFlags(s, names) = Encode2!EncodeFlags(s, names)
  BY DEF P2!Range, Encode2!Range, P2!Chosen, Encode2!Chosen, P2!EncodeFlags, Encode2!EncodeFlags
<1>5. \A v, cases : P2!EncodeCase(v, cases) = Encode2!EncodeCase(v, cases)
  <2>1. \A cases, name : P2!FindCase(cases, name) = Encode2!FindCase(cases, name)
    BY DEF P2!FirstOf, Encode2!FirstOf, P2!FindCase, Encode2!FindCase
  <2>2. \A name, p : P2!Tagged(name, p) = Encode2!Tagged(name, p)
    BY DEF P2!Map1, Encode2!Map1, P2!Tagged, Encode2!Tagged
  <2> QED
    BY <1>2, <2>1, <2>2 DEF P2!EncodeCase, Encode2!EncodeCase
<1> QED
  BY <1>1, <1>2, <1>3, <1>4, <1>5 DEF P2!Floats, Encode2!Floats, P2!Is, Encode2!Is, P2!Only, Encode2!Only,
         P2!Map1, Encode2!Map1, P2!Array, Encode2!Array, P2!Tagged, Encode2!Tagged, P2!Arm, Encode2!Arm,
         P2!Encode, Encode2!Encode

LEMMA SameDecode2 == \A v, t : P2!Decode(v, t) = Decode2!Decode(v, t)
<1>1. \A s, t : P2!DecodeEach(s, t) = Decode2!DecodeEach(s, t) /\ P2!DecodeAll(s, t) = Decode2!DecodeAll(s, t)
  BY DEF P2!All, Decode2!All, P2!DecodeEach, Decode2!DecodeEach, P2!DecodeAll, Decode2!DecodeAll
<1>2. \A w, kind : P2!DecodeFloat(w, kind) = Decode2!DecodeFloat(w, kind)
  BY DEF P2!Is, Decode2!Is, P2!Widened, Decode2!Widened, P2!Rounded, Decode2!Rounded, P2!DecodeFloat,
         Decode2!DecodeFloat
<1>3. \A w, t : P2!DecodePayload(w, t) = Decode2!DecodePayload(w, t)
  BY DEF P2!Map1, Decode2!Map1, P2!DecodePayload, Decode2!DecodePayload
<1>4. \A w : P2!Text(w) = Decode2!Text(w) /\ (P2!IsTagged(w) <=> Decode2!IsTagged(w))
  BY DEF P2!Is, Decode2!Is, P2!Text, Decode2!Text, P2!IsTagged, Decode2!IsTagged
<1>5. \A s, t : P2!DecodeFields(s, t) = Decode2!DecodeFields(s, t)
  BY DEF P2!All, Decode2!All, P2!Is, Decode2!Is, P2!Map1, Decode2!Map1, P2!FirstOf, Decode2!FirstOf, P2!Text,
         Decode2!Text, P2!Under, Decode2!Under, P2!Entry, Decode2!Entry, P2!EntryOf, Decode2!EntryOf,
         P2!DecodeFields, Decode2!DecodeFields
<1>6. \A w, t : P2!DecodeCase(w, t) = Decode2!DecodeCase(w, t) /\ P2!DecodeResult(w, t) = Decode2!DecodeResult(w, t)
  <2>1. \A cases, name : P2!FindCase(cases, name) = Decode2!FindCase(cases, name)
    BY DEF P2!FirstOf, Decode2!FirstOf, P2!FindCase, Decode2!FindCase
  <2>2. \A w, t : P2!DecodeCase(w, t) = Decode2!DecodeCase(w, t)
    BY <1>3, <2>1 DEF P2!Map1, Decode2!Map1, P2!DecodeCase, Decode2!DecodeCase
  <2> QED
    BY <1>3, <2>2 DEF P2!Map1, Decode2!Map1, P2!Arm, Decode2!Arm, P2!DecodeResult, Decode2!DecodeResult
<1>7. \A s, names : P2!DecodeFlags(s, names) = Decode2!DecodeFlags(s, names)
  BY <1>4 DEF P2!Range, Decode2!Range, P2!All, Decode2!All, P2!Map1, Decode2!Map1, P2!If, Decode2!If,
         P2!DecodeFlags, Decode2!DecodeFlags
<1>8. \A s, t : P2!DecodeArray(s, t) = Decode2!DecodeArray(s, t)
  BY <1>1, <1>7 DEF P2!Map1, Decode2!Map1, P2!DecodeArray, Decode2!DecodeArray
<1>9. \A n, kind : P2!Narrow(n, kind) = Decode2!Narrow(n, kind)
  BY DEF P2!SignedInts, Decode2!SignedInts, P2!UnsignedInts, Decode2!UnsignedInts, P2!IntRange,
         Decode2!IntRange, P2!Narrow, Decode2!Narrow
<1> QED
  BY <1>1, <1>2, <1>4, <1>5, <1>6, <1>8, <1>9 DEF P2!Floats, Decode2!Floats, P2!Is, Decode2!Is, P2!Only,
         Decode2!Only, P2!Map1, Decode2!Map1, P2!If, Decode2!If, P2!Decode, Decode2!Decode

\* The same.
LEMMA SameParts3 == \A t : P3!Parts(t) = Types3!Parts(t)
BY DEF P3!Payloads, Types3!Payloads, P3!InnerParts, Types3!InnerParts, P3!Parts, Types3!Parts, P3!Range, Types3!Range

LEMMA SameForms3 ==
    /\ P3!Unsupported = Types3!Unsupported /\ P3!Primitive = Types3!Primitive
    /\ \A s : /\ P3!AList(s) <=> Types3!AList(s)
              /\ P3!ListsNames(s) <=> Types3!ListsNames(s)
              /\ P3!Optional(s) <=> Types3!Optional(s)
<1>1. P3!Unsupported = Types3!Unsupported /\ P3!Primitive = Types3!Primitive
  BY DEF P3!Unsupported, Types3!Unsupported, P3!Primitive, Types3!Primitive, P3!Floats, Types3!Floats
<1>2. \A s : P3!AList(s) <=> Types3!AList(s)
  BY DEF P3!AList, Types3!AList, P3!Range, Types3!Range
<1> QED
  BY <1>1, <1>2 DEF P3!ListsNames, Types3!ListsNames, P3!Optional, Types3!Optional

LEMMA SameCarriable3 == \A t : P3!Carriable(t) <=> Types3!Carriable(t)
BY SameParts3, SameForms3 DEF P3!Carriable, Types3!Carriable

LEMMA SameIsType3 == \A t : P3!IsType(t) <=> Types3!IsType(t)
BY SameParts3, SameForms3 DEF P3!IsType, Types3!IsType

LEMMA SameValues3 == \A t : P3!Values(t) = Values3!Values(t)
BY DEF P3!SignedInts, Values3!SignedInts, P3!UnsignedInts, Values3!UnsignedInts, P3!IntRange, Values3!IntRange,
       P3!Only, Values3!Only, P3!Chosen, Values3!Chosen, P3!Product, Values3!Product, P3!UpTo, Values3!UpTo,
       P3!Unsupported, Values3!Unsupported, P3!ValuesAll, Values3!ValuesAll, P3!Named, Values3!Named, P3!Values,
       Values3!Values

LEMMA SameHasType3 == \A v, t : P3!HasType(v, t) <=> Values3!HasType(v, t)
BY DEF P3!SignedInts, Values3!SignedInts, P3!UnsignedInts, Values3!UnsignedInts, P3!IntRange, Values3!IntRange,
       P3!Is, Values3!Is, P3!Arm, Values3!Arm, P3!HaveTypes, Values3!HaveTypes, P3!HasType, Values3!HasType

LEMMA SameEncode3 == \A v, t : P3!Encode(v, t) = Encode3!Encode(v, t)
<1>1. \A s, t : P3!EncodeEach(s, t) = Encode3!EncodeEach(s, t) /\ P3!EncodeAll(s, t) = Encode3!EncodeAll(s, t)
  BY DEF P3!All, Encode3!All, P3!EncodeEach, Encode3!EncodeEach, P3!EncodeAll, Encode3!EncodeAll
<1>2. \A p, t : P3!EncodePayload(p, t) = Encode3!EncodePayload(p, t)
  BY DEF P3!EncodePayload, Encode3!EncodePayload
<1>3. \A s, t : P3!EncodeFields(s, t) = Encode3!EncodeFields(s, t)
  BY DEF P3!All, Encode3!All, P3!Map1, Encode3!Map1, P3!FirstOf, Encode3!FirstOf, P3!Under, Encode3!Under,
         P3!EncodeFields, Encode3!EncodeFields
<1>4. \A s, names : P3!EncodeFlags(s, names) = Encode3!EncodeFlags(s, names)
  BY DEF P3!Range, Encode3!Range, P3!Chosen, Encode3!Chosen, P3!EncodeFlags, Encode3!EncodeFlags
<1>5. \A v, cases : P3!EncodeCase(v, cases) = Encode3!EncodeCase(v, cases)
  <2>1. \A cases, name : P3!FindCase(cases, name) = Encode3!FindCase(cases, name)
    BY DEF P3!FirstOf, Encode3!FirstOf, P3!FindCase, Encode3!FindCase
  <2>2. \A name, p : P3!Tagged(name, p) = Encode3!Tagged(name, p)
    BY DEF P3!Map1, Encode3!Map1, P3!Tagged, Encode3!Tagged
  <2> QED
    BY <1>2, <2>1, <2>2 DEF P3!EncodeCase, Encode3!EncodeCase
<1> QED
  BY <1>1, <1>2, <1>3, <1>4, <1>5 DEF P3!Floats, Encode3!Floats, P3!Is, Encode3!Is, P3!Only, Encode3!Only,
         P3!Map1, Encode3!Map1, P3!Array, Encode3!Array, P3!Tagged, Encode3!Tagged, P3!Arm, Encode3!Arm,
         P3!Encode, Encode3!Encode

LEMMA SameDecode3 == \A v, t : P3!Decode(v, t) = Decode3!Decode(v, t)
<1>1. \A s, t : P3!DecodeEach(s, t) = Decode3!DecodeEach(s, t) /\ P3!DecodeAll(s, t) = Decode3!DecodeAll(s, t)
  BY DEF P3!All, Decode3!All, P3!DecodeEach, Decode3!DecodeEach, P3!DecodeAll, Decode3!DecodeAll
<1>2. \A w, kind : P3!DecodeFloat(w, kind) = Decode3!DecodeFloat(w, kind)
  BY DEF P3!Is, Decode3!Is, P3!Widened, Decode3!Widened, P3!Rounded, Decode3!Rounded, P3!DecodeFloat,
         Decode3!DecodeFloat
<1>3. \A w, t : P3!DecodePayload(w, t) = Decode3!DecodePayload(w, t)
  BY DEF P3!Map1, Decode3!Map1, P3!DecodePayload, Decode3!DecodePayload
<1>4. \A w : P3!Text(w) = Decode3!Text(w) /\ (P3!IsTagged(w) <=> Decode3!IsTagged(w))
  BY DEF P3!Is, Decode3!Is, P3!Text, Decode3!Text, P3!IsTagged, Decode3!IsTagged
<1>5. \A s, t : P3!DecodeFields(s, t) = Decode3!DecodeFields(s, t)
  BY DEF P3!All, Decode3!All, P3!Is, Decode3!Is, P3!Map1, Decode3!Map1, P3!FirstOf, Decode3!FirstOf, P3!Text,
         Decode3!Text, P3!Under, Decode3!Under, P3!Entry, Decode3!Entry, P3!EntryOf, Decode3!EntryOf,
         P3!DecodeFields, Decode3!DecodeFields
<1>6. \A w, t : P3!DecodeCase(w, t) = Decode3!DecodeCase(w, t) /\ P3!DecodeResult(w, t) = Decode3!DecodeResult(w, t)
  <2>1. \A cases, name : P3!FindCase(cases, name) = Decode3!FindCase(cases, name)
    BY DEF P3!FirstOf, Decode3!FirstOf, P3!FindCase, Decode3!FindCase
  <2>2. \A w, t : P3!DecodeCase(w, t) = Decode3!DecodeCase(w, t)
    BY <1>3, <2>1 DEF P3!Map1, Decode3!Map1, P3!DecodeCase, Decode3!DecodeCase
  <2> QED
    BY <1>3, <2>2 DEF P3!Map1, Decode3!Map1, P3!Arm, Decode3!Arm, P3!DecodeResult, Decode3!DecodeResult
<1>7. \A s, names : P3!DecodeFlags(s, names) = Decode3!DecodeFlags(s, names)
  BY <1>4 DEF P3!Range, Decode3!Range, P3!All, Decode3!All, P3!Map1, Decode3!Map1, P3!If, Decode3!If,
         P3!DecodeFlags, Decode3!DecodeFlags
<1>8. \A s, t : P3!DecodeArray(s, t) = Decode3!DecodeArray(s, t)
  BY <1>1, <1>7 DEF P3!Map1, Decode3!Map1, P3!DecodeArray, Decode3!DecodeArray
<1>9. \A n, kind : P3!Narrow(n, kind) = Decode3!Narrow(n, kind)
  BY DEF P3!SignedInts, Decode3!SignedInts, P3!UnsignedInts, Decode3!UnsignedInts, P3!IntRange,
         Decode3!IntRange, P3!Narrow, Decode3!Narrow
<1> QED
  BY <1>1, <1>2, <1>4, <1>5, <1>6, <1>8, <1>9 DEF P3!Floats, Decode3!Floats, P3!Is, Decode3!Is, P3!Only,
         Decode3!Only, P3!Map1, Decode3!Map1, P3!If, Decode3!If, P3!Decode, Decode3!Decode

\* The same.
LEMMA SameParts4 == \A t : P4!Parts(t) = Types4!Parts(t)
BY DEF P4!Payloads, Types4!Payloads, P4!InnerParts, Types4!InnerParts, P4!Parts, Types4!Parts, P4!Range, Types4!Range

LEMMA SameForms4 ==
    /\ P4!Unsupported = Types4!Unsupported /\ P4!Primitive = Types4!Primitive
    /\ \A s : /\ P4!AList(s) <=> Types4!AList(s)
              /\ P4!ListsNames(s) <=> Types4!ListsNames(s)
              /\ P4!Optional(s) <=> Types4!Optional(s)
<1>1. P4!Unsupported = Types4!Unsupported /\ P4!Primitive = Types4!Primitive
  BY DEF P4!Unsupported, Types4!Unsupported, P4!Primitive, Types4!Primitive, P4!Floats, Types4!Floats
<1>2. \A s : P4!AList(s) <=> Types4!AList(s)
  BY DEF P4!AList, Types4!AList, P4!Range, Types4!Range
<1> QED
  BY <1>1, <1>2 DEF P4!ListsNames, Types4!ListsNames, P4!Optional, Types4!Optional

LEMMA SameCarriable4 == \A t : P4!Carriable(t) <=> Types4!Carriable(t)
BY SameParts4, SameForms4 DEF P4!Carriable, Types4!Carriable

LEMMA SameIsType4 == \A t : P4!IsType(t) <=> Types4!IsType(t)
BY SameParts4, SameForms4 DEF P4!IsType, Types4!IsType

LEMMA SameValues4 == \A t : P4!Values(t) = Values4!Values(t)
BY DEF P4!SignedInts, Values4!SignedInts, P4!UnsignedInts, Values4!UnsignedInts, P4!IntRange, Values4!IntRange,
       P4!Only, Values4!Only, P4!Chosen, Values4!Chosen, P4!Product, Values4!Product, P4!UpTo, Values4!UpTo,
       P4!Unsupported, Values4!Unsupported, P4!ValuesAll, Values4!ValuesAll, P4!Named, Values4!Named, P4!Values,
       Values4!Values

LEMMA SameHasType4 == \A v, t : P4!HasType(v, t) <=> Values4!HasType(v, t)
BY DEF P4!SignedInts, Values4!SignedInts, P4!UnsignedInts, Values4!UnsignedInts, P4!IntRange, Values4!IntRange,
       P4!Is, Values4!Is, P4!Arm, Values4!Arm, P4!HaveTypes, Values4!HaveTypes, P4!HasType, Values4!HasType

LEMMA SameEncode4 == \A v, t : P4!Encode(v, t) = Encode4!Encode(v, t)
<1>1. \A s, t : P4!EncodeEach(s, t) = Encode4!EncodeEach(s, t) /\ P4!EncodeAll(s, t) = Encode4!EncodeAll(s, t)
  BY DEF P4!All, Encode4!All, P4!EncodeEach, Encode4!EncodeEach, P4!EncodeAll, Encode4!EncodeAll
<1>2. \A p, t : P4!EncodePayload(p, t) = Encode4!EncodePayload(p, t)
  BY DEF P4!EncodePayload, Encode4!EncodePayload
<1>3. \A s, t : P4!EncodeFields(s, t) = Encode4!EncodeFields(s, t)
  BY DEF P4!All, Encode4!All, P4!Map1, Encode4!Map1, P4!FirstOf, Encode4!FirstOf, P4!Under, Encode4!Under,
         P4!EncodeFields, Encode4!EncodeFields
<1>4. \A s, names : P4!EncodeFlags(s, names) = Encode4!EncodeFlags(s, names)
  BY DEF P4!Range, Encode4!Range, P4!Chosen, Encode4!Chosen, P4!EncodeFlags, Encode4!EncodeFlags
<1>5. \A v, cases : P4!EncodeCase(v, cases) = Encode4!EncodeCase(v, cases)
  <2>1. \A cases, name : P4!FindCase(cases, name) = Encode4!FindCase(cases, name)
    BY DEF P4!FirstOf, Encode4!FirstOf, P4!FindCase, Encode4!FindCase
  <2>2. \A name, p : P4!Tagged(name, p) = Encode4!Tagged(name, p)
    BY DEF P4!Map1, Encode4!Map1, P4!Tagged, Encode4!Tagged
  <2> QED
    BY <1>2, <2>1, <2>2 DEF P4!EncodeCase, Encode4!EncodeCase
<1> QED
  BY <1>1, <1>2, <1>3, <1>4, <1>5 DEF P4!Floats, Encode4!Floats, P4!Is, Encode4!Is, P4!Only, Encode4!Only,
         P4!Map1, Encode4!Map1, P4!Array, Encode4!Array, P4!Tagged, Encode4!Tagged, P4!Arm, Encode4!Arm,
         P4!Encode, Encode4!Encode

LEMMA SameDecode4 == \A v, t : P4!Decode(v, t) = Decode4!Decode(v, t)
<1>1. \A s, t : P4!DecodeEach(s, t) = Decode4!DecodeEach(s, t) /\ P4!DecodeAll(s, t) = Decode4!DecodeAll(s, t)
  BY DEF P4!All, Decode4!All, P4!DecodeEach, Decode4!DecodeEach, P4!DecodeAll, Decode4!DecodeAll
<1>2. \A w, kind : P4!DecodeFloat(w, kind) = Decode4!DecodeFloat(w, kind)
  BY DEF P4!Is, Decode4!Is, P4!Widened, Decode4!Widened, P4!Rounded, Decode4!Rounded, P4!DecodeFloat,
         Decode4!DecodeFloat
<1>3. \A w, t : P4!DecodePayload(w, t) = Decode4!DecodePayload(w, t)
  BY DEF P4!Map1, Decode4!Map1, P4!DecodePayload, Decode4!DecodePayload
<1>4. \A w : P4!Text(w) = Decode4!Text(w) /\ (P4!IsTagged(w) <=> Decode4!IsTagged(w))
  BY DEF P4!Is, Decode4!Is, P4!Text, Decode4!Text, P4!IsTagged, Decode4!IsTagged
<1>5. \A s, t : P4!DecodeFields(s, t) = Decode4!DecodeFields(s, t)
  BY DEF P4!All, Decode4!All, P4!Is, Decode4!Is, P4!Map1, Decode4!Map1, P4!FirstOf, Decode4!FirstOf, P4!Text,
         Decode4!Text, P4!Under, Decode4!Under, P4!Entry, Decode4!Entry, P4!EntryOf, Decode4!EntryOf,
         P4!DecodeFields, Decode4!DecodeFields
<1>6. \A w, t : P4!DecodeCase(w, t) = Decode4!DecodeCase(w, t) /\ P4!DecodeResult(w, t) = Decode4!DecodeResult(w, t)
  <2>1. \A cases, name : P4!FindCase(cases, name) = Decode4!FindCase(cases, name)
    BY DEF P4!FirstOf, Decode4!FirstOf, P4!FindCase, Decode4!FindCase
  <2>2. \A w, t : P4!DecodeCase(w, t) = Decode4!DecodeCase(w, t)
    BY <1>3, <2>1 DEF P4!Map1, Decode4!Map1, P4!DecodeCase, Decode4!DecodeCase
  <2> QED
    BY <1>3, <2>2 DEF P4!Map1, Decode4!Map1, P4!Arm, Decode4!Arm, P4!DecodeResult, Decode4!DecodeResult
<1>7. \A s, names : P4!DecodeFlags(s, names) = Decode4!DecodeFlags(s, names)
  BY <1>4 DEF P4!Range, Decode4!Range, P4!All, Decode4!All, P4!Map1, Decode4!Map1, P4!If, Decode4!If,
         P4!DecodeFlags, Decode4!DecodeFlags
<1>8. \A s, t : P4!DecodeArray(s, t) = Decode4!DecodeArray(s, t)
  BY <1>1, <1>7 DEF P4!Map1, Decode4!Map1, P4!DecodeArray, Decode4!DecodeArray
<1>9. \A n, kind : P4!Narrow(n, kind) = Decode4!Narrow(n, kind)
  BY DEF P4!SignedInts, Decode4!SignedInts, P4!UnsignedInts, Decode4!UnsignedInts, P4!IntRange,
         Decode4!IntRange, P4!Narrow, Decode4!Narrow
<1> QED
  BY <1>1, <1>2, <1>4, <1>5, <1>6, <1>8, <1>9 DEF P4!Floats, Decode4!Floats, P4!Is, Decode4!Is, P4!Only,
         Decode4!Only, P4!Map1, Decode4!Map1, P4!If, Decode4!If, P4!Decode, Decode4!Decode

\* The same.
LEMMA SameParts5 == \A t : P5!Parts(t) = Types5!Parts(t)
BY DEF P5!Payloads, Types5!Payloads, P5!InnerParts, Types5!InnerParts, P5!Parts, Types5!Parts, P5!Range, Types5!Range

LEMMA SameForms5 ==
    /\ P5!Unsupported = Types5!Unsupported /\ P5!Primitive = Types5!Primitive
    /\ \A s : /\ P5!AList(s) <=> Types5!AList(s)
              /\ P5!ListsNames(s) <=> Types5!ListsNames(s)
              /\ P5!Optional(s) <=> Types5!Optional(s)
<1>1. P5!Unsupported = Types5!Unsupported /\ P5!Primitive = Types5!Primitive
  BY DEF P5!Unsupported, Types5!Unsupported, P5!Primitive, Types5!Primitive, P5!Floats, Types5!Floats
<1>2. \A s : P5!AList(s) <=> Types5!AList(s)
  BY DEF P5!AList, Types5!AList, P5!Range, Types5!Range
<1> QED
  BY <1>1, <1>2 DEF P5!ListsNames, Types5!ListsNames, P5!Optional, Types5!Optional

LEMMA SameCarriable5 == \A t : P5!Carriable(t) <=> Types5!Carriable(t)
BY SameParts5, SameForms5 DEF P5!Carriable, Types5!Carriable

LEMMA SameIsType5 == \A t : P5!IsType(t) <=> Types5!IsType(t)
BY SameParts5, SameForms5 DEF P5!IsType, Types5!IsType

LEMMA SameValues5 == \A t : P5!Values(t) = Values5!Values(t)
BY DEF P5!SignedInts, Values5!SignedInts, P5!UnsignedInts, Values5!UnsignedInts, P5!IntRange, Values5!IntRange,
       P5!Only, Values5!Only, P5!Chosen, Values5!Chosen, P5!Product, Values5!Product, P5!UpTo, Values5!UpTo,
       P5!Unsupported, Values5!Unsupported, P5!ValuesAll, Values5!ValuesAll, P5!Named, Values5!Named, P5!Values,
       Values5!Values

LEMMA SameHasType5 == \A v, t : P5!HasType(v, t) <=> Values5!HasType(v, t)
BY DEF P5!SignedInts, Values5!SignedInts, P5!UnsignedInts, Values5!UnsignedInts, P5!IntRange, Values5!IntRange,
       P5!Is, Values5!Is, P5!Arm, Values5!Arm, P5!HaveTypes, Values5!HaveTypes, P5!HasType, Values5!HasType

LEMMA SameEncode5 == \A v, t : P5!Encode(v, t) = Encode5!Encode(v, t)
<1>1. \A s, t : P5!EncodeEach(s, t) = Encode5!EncodeEach(s, t) /\ P5!EncodeAll(s, t) = Encode5!EncodeAll(s, t)
  BY DEF P5!All, Encode5!All, P5!EncodeEach, Encode5!EncodeEach, P5!EncodeAll, Encode5!EncodeAll
<1>2. \A p, t : P5!EncodePayload(p, t) = Encode5!EncodePayload(p, t)
  BY DEF P5!EncodePayload, Encode5!EncodePayload
<1>3. \A s, t : P5!EncodeFields(s, t) = Encode5!EncodeFields(s, t)
  BY DEF P5!All, Encode5!All, P5!Map1, Encode5!Map1, P5!FirstOf, Encode5!FirstOf, P5!Under, Encode5!Under,
         P5!EncodeFields, Encode5!EncodeFields
<1>4. \A s, names : P5!EncodeFlags(s, names) = Encode5!EncodeFlags(s, names)
  BY DEF P5!Range, Encode5!Range, P5!Chosen, Encode5!Chosen, P5!EncodeFlags, Encode5!EncodeFlags
<1>5. \A v, cases : P5!EncodeCase(v, cases) = Encode5!EncodeCase(v, cases)
  <2>1. \A cases, name : P5!FindCase(cases, name) = Encode5!FindCase(cases, name)
    BY DEF P5!FirstOf, Encode5!FirstOf, P5!FindCase, Encode5!FindCase
  <2>2. \A name, p : P5!Tagged(name, p) = Encode5!Tagged(name, p)
    BY DEF P5!Map1, Encode5!Map1, P5!Tagged, Encode5!Tagged
  <2> QED
    BY <1>2, <2>1, <2>2 DEF P5!EncodeCase, Encode5!EncodeCase
<1> QED
  BY <1>1, <1>2, <1>3, <1>4, <1>5 DEF P5!Floats, Encode5!Floats, P5!Is, Encode5!Is, P5!Only, Encode5!Only,
         P5!Map1, Encode5!Map1, P5!Array, Encode5!Array, P5!Tagged, Encode5!Tagged, P5!Arm, Encode5!Arm,
         P5!Encode, Encode5!Encode

LEMMA SameDecode5 == \A v, t : P5!Decode(v, t) = Decode5!Decode(v, t)
<1>1. \A s, t : P5!DecodeEach(s, t) = Decode5!DecodeEach(s, t) /\ P5!DecodeAll(s, t) = Decode5!DecodeAll(s, t)
  BY DEF P5!All, Decode5!All, P5!DecodeEach, Decode5!DecodeEach, P5!DecodeAll, Decode5!DecodeAll
<1>2. \A w, kind : P5!DecodeFloat(w, kind) = Decode5!DecodeFloat(w, kind)
  BY DEF P5!Is, Decode5!Is, P5!Widened, Decode5!Widened, P5!Rounded, Decode5!Rounded, P5!DecodeFloat,
         Decode5!DecodeFloat
<1>3. \A w, t : P5!DecodePayload(w, t) = Decode5!DecodePayload(w, t)
  BY DEF P5!Map1, Decode5!Map1, P5!DecodePayload, Decode5!DecodePayload
<1>4. \A w : P5!Text(w) = Decode5!Text(w) /\ (P5!IsTagged(w) <=> Decode5!IsTagged(w))
  BY DEF P5!Is, Decode5!Is, P5!Text, Decode5!Text, P5!IsTagged, Decode5!IsTagged
<1>5. \A s, t : P5!DecodeFields(s, t) = Decode5!DecodeFields(s, t)
  BY DEF P5!All, Decode5!All, P5!Is, Decode5!Is, P5!Map1, Decode5!Map1, P5!FirstOf, Decode5!FirstOf, P5!Text,
         Decode5!Text, P5!Under, Decode5!Under, P5!Entry, Decode5!Entry, P5!EntryOf, Decode5!EntryOf,
         P5!DecodeFields, Decode5!DecodeFields
<1>6. \A w, t : P5!DecodeCase(w, t) = Decode5!DecodeCase(w, t) /\ P5!DecodeResult(w, t) = Decode5!DecodeResult(w, t)
  <2>1. \A cases, name : P5!FindCase(cases, name) = Decode5!FindCase(cases, name)
    BY DEF P5!FirstOf, Decode5!FirstOf, P5!FindCase, Decode5!FindCase
  <2>2. \A w, t : P5!DecodeCase(w, t) = Decode5!DecodeCase(w, t)
    BY <1>3, <2>1 DEF P5!Map1, Decode5!Map1, P5!DecodeCase, Decode5!DecodeCase
  <2> QED
    BY <1>3, <2>2 DEF P5!Map1, Decode5!Map1, P5!Arm, Decode5!Arm, P5!DecodeResult, Decode5!DecodeResult
<1>7. \A s, names : P5!DecodeFlags(s, names) = Decode5!DecodeFlags(s, names)
  BY <1>4 DEF P5!Range, Decode5!Range, P5!All, Decode5!All, P5!Map1, Decode5!Map1, P5!If, Decode5!If,
         P5!DecodeFlags, Decode5!DecodeFlags
<1>8. \A s, t : P5!DecodeArray(s, t) = Decode5!DecodeArray(s, t)
  BY <1>1, <1>7 DEF P5!Map1, Decode5!Map1, P5!DecodeArray, Decode5!DecodeArray
<1>9. \A n, kind : P5!Narrow(n, kind) = Decode5!Narrow(n, kind)
  BY DEF P5!SignedInts, Decode5!SignedInts, P5!UnsignedInts, Decode5!UnsignedInts, P5!IntRange,
         Decode5!IntRange, P5!Narrow, Decode5!Narrow
<1> QED
  BY <1>1, <1>2, <1>4, <1>5, <1>6, <1>8, <1>9 DEF P5!Floats, Decode5!Floats, P5!Is, Decode5!Is, P5!Only,
         Decode5!Only, P5!Map1, Decode5!Map1, P5!If, Decode5!If, P5!Decode, Decode5!Decode

\* The same.
LEMMA SameParts6 == \A t : P6!Parts(t) = Types6!Parts(t)
BY DEF P6!Payloads, Types6!Payloads, P6!InnerParts, Types6!InnerParts, P6!Parts, Types6!Parts, P6!Range, Types6!Range

LEMMA SameForms6 ==
    /\ P6!Unsupported = Types6!Unsupported /\ P6!Primitive = Types6!Primitive
    /\ \A s : /\ P6!AList(s) <=> Types6!AList(s)
              /\ P6!ListsNames(s) <=> Types6!ListsNames(s)
              /\ P6!Optional(s) <=> Types6!Optional(s)
<1>1. P6!Unsupported = Types6!Unsupported /\ P6!Primitive = Types6!Primitive
  BY DEF P6!Unsupported, Types6!Unsupported, P6!Primitive, Types6!Primitive, P6!Floats, Types6!Floats
<1>2. \A s : P6!AList(s) <=> Types6!AList(s)
  BY DEF P6!AList, Types6!AList, P6!Range, Types6!Range
<1> QED
  BY <1>1, <1>2 DEF P6!ListsNames, Types6!ListsNames, P6!Optional, Types6!Optional

LEMMA SameCarriable6 == \A t : P6!Carriable(t) <=> Types6!Carriable(t)
BY SameParts6, SameForms6 DEF P6!Carriable, Types6!Carriable

LEMMA SameIsType6 == \A t : P6!IsType(t) <=> Types6!IsType(t)
BY SameParts6, SameForms6 DEF P6!IsType, Types6!IsType

LEMMA SameValues6 == \A t : P6!Values(t) = Values6!Values(t)
BY DEF P6!SignedInts, Values6!SignedInts, P6!UnsignedInts, Values6!UnsignedInts, P6!IntRange, Values6!IntRange,
       P6!Only, Values6!Only, P6!Chosen, Values6!Chosen, P6!Product, Values6!Product, P6!UpTo, Values6!UpTo,
       P6!Unsupported, Values6!Unsupported, P6!ValuesAll, Values6!ValuesAll, P6!Named, Values6!Named, P6!Values,
       Values6!Values

LEMMA SameHasType6 == \A v, t : P6!HasType(v, t) <=> Values6!HasType(v, t)
BY DEF P6!SignedInts, Values6!SignedInts, P6!UnsignedInts, Values6!UnsignedInts, P6!IntRange, Values6!IntRange,
       P6!Is, Values6!Is, P6!Arm, Values6!Arm, P6!HaveTypes, Values6!HaveTypes, P6!HasType, Values6!HasType

LEMMA SameEncode6 == \A v, t : P6!Encode(v, t) = Encode6!Encode(v, t)
<1>1. \A s, t : P6!EncodeEach(s, t) = Encode6!EncodeEach(s, t) /\ P6!EncodeAll(s, t) = Encode6!EncodeAll(s, t)
  BY DEF P6!All, Encode6!All, P6!EncodeEach, Encode6!EncodeEach, P6!EncodeAll, Encode6!EncodeAll
<1>2. \A p, t : P6!EncodePayload(p, t) = Encode6!EncodePayload(p, t)
  BY DEF P6!EncodePayload, Encode6!EncodePayload
<1>3. \A s, t : P6!EncodeFields(s, t) = Encode6!EncodeFields(s, t)
  BY DEF P6!All, Encode6!All, P6!Map1, Encode6!Map1, P6!FirstOf, Encode6!FirstOf, P6!Under, Encode6!Under,
         P6!EncodeFields, Encode6!EncodeFields
<1>4. \A s, names : P6!EncodeFlags(s, names) = Encode6!EncodeFlags(s, names)
  BY DEF P6!Range, Encode6!Range, P6!Chosen, Encode6!Chosen, P6!EncodeFlags, Encode6!EncodeFlags
<1>5. \A v, cases : P6!EncodeCase(v, cases) = Encode6!EncodeCase(v, cases)
  <2>1. \A cases, name : P6!FindCase(cases, name) = Encode6!FindCase(cases, name)
    BY DEF P6!FirstOf, Encode6!FirstOf, P6!FindCase, Encode6!FindCase
  <2>2. \A name, p : P6!Tagged(name, p) = Encode6!Tagged(name, p)
    BY DEF P6!Map1, Encode6!Map1, P6!Tagged, Encode6!Tagged
  <2> QED
    BY <1>2, <2>1, <2>2 DEF P6!EncodeCase, Encode6!EncodeCase
<1> QED
  BY <1>1, <1>2, <1>3, <1>4, <1>5 DEF P6!Floats, Encode6!Floats, P6!Is, Encode6!Is, P6!Only, Encode6!Only,
         P6!Map1, Encode6!Map1, P6!Array, Encode6!Array, P6!Tagged, Encode6!Tagged, P6!Arm, Encode6!Arm,
         P6!Encode, Encode6!Encode

LEMMA SameDecode6 == \A v, t : P6!Decode(v, t) = Decode6!Decode(v, t)
<1>1. \A s, t : P6!DecodeEach(s, t) = Decode6!DecodeEach(s, t) /\ P6!DecodeAll(s, t) = Decode6!DecodeAll(s, t)
  BY DEF P6!All, Decode6!All, P6!DecodeEach, Decode6!DecodeEach, P6!DecodeAll, Decode6!DecodeAll
<1>2. \A w, kind : P6!DecodeFloat(w, kind) = Decode6!DecodeFloat(w, kind)
  BY DEF P6!Is, Decode6!Is, P6!Widened, Decode6!Widened, P6!Rounded, Decode6!Rounded, P6!DecodeFloat,
         Decode6!DecodeFloat
<1>3. \A w, t : P6!DecodePayload(w, t) = Decode6!DecodePayload(w, t)
  BY DEF P6!Map1, Decode6!Map1, P6!DecodePayload, Decode6!DecodePayload
<1>4. \A w : P6!Text(w) = Decode6!Text(w) /\ (P6!IsTagged(w) <=> Decode6!IsTagged(w))
  BY DEF P6!Is, Decode6!Is, P6!Text, Decode6!Text, P6!IsTagged, Decode6!IsTagged
<1>5. \A s, t : P6!DecodeFields(s, t) = Decode6!DecodeFields(s, t)
  BY DEF P6!All, Decode6!All, P6!Is, Decode6!Is, P6!Map1, Decode6!Map1, P6!FirstOf, Decode6!FirstOf, P6!Text,
         Decode6!Text, P6!Under, Decode6!Under, P6!Entry, Decode6!Entry, P6!EntryOf, Decode6!EntryOf,
         P6!DecodeFields, Decode6!DecodeFields
<1>6. \A w, t : P6!DecodeCase(w, t) = Decode6!DecodeCase(w, t) /\ P6!DecodeResult(w, t) = Decode6!DecodeResult(w, t)
  <2>1. \A cases, name : P6!FindCase(cases, name) = Decode6!FindCase(cases, name)
    BY DEF P6!FirstOf, Decode6!FirstOf, P6!FindCase, Decode6!FindCase
  <2>2. \A w, t : P6!DecodeCase(w, t) = Decode6!DecodeCase(w, t)
    BY <1>3, <2>1 DEF P6!Map1, Decode6!Map1, P6!DecodeCase, Decode6!DecodeCase
  <2> QED
    BY <1>3, <2>2 DEF P6!Map1, Decode6!Map1, P6!Arm, Decode6!Arm, P6!DecodeResult, Decode6!DecodeResult
<1>7. \A s, names : P6!DecodeFlags(s, names) = Decode6!DecodeFlags(s, names)
  BY <1>4 DEF P6!Range, Decode6!Range, P6!All, Decode6!All, P6!Map1, Decode6!Map1, P6!If, Decode6!If,
         P6!DecodeFlags, Decode6!DecodeFlags
<1>8. \A s, t : P6!DecodeArray(s, t) = Decode6!DecodeArray(s, t)
  BY <1>1, <1>7 DEF P6!Map1, Decode6!Map1, P6!DecodeArray, Decode6!DecodeArray
<1>9. \A n, kind : P6!Narrow(n, kind) = Decode6!Narrow(n, kind)
  BY DEF P6!SignedInts, Decode6!SignedInts, P6!UnsignedInts, Decode6!UnsignedInts, P6!IntRange,
         Decode6!IntRange, P6!Narrow, Decode6!Narrow
<1> QED
  BY <1>1, <1>2, <1>4, <1>5, <1>6, <1>8, <1>9 DEF P6!Floats, Decode6!Floats, P6!Is, Decode6!Is, P6!Only,
         Decode6!Only, P6!Map1, Decode6!Map1, P6!If, Decode6!If, P6!Decode, Decode6!Decode

\* Nothing is a type at the bottom, and what holds of all types of a layer holds
\* of the parts of those above it.
LEMMA Step1 == P1!PartsHaveTypes /\ P1!PartsReturn
BY DEF P1!PartsHaveTypes, P1!PartsReturn, P1!Part, NoIsType

LEMMA Chosen1 == P1!ChosenNames
<1>1. \A s : P1!Range(s) = Range(s) /\ \A on : P1!Chosen(s, on) = Chosen(s, on)
  BY DEF P1!Range, Range, P1!Chosen, Chosen
<1> QED
  BY <1>1, ChosenIs DEF P1!ChosenNames

LEMMA Step2 == P2!PartsHaveTypes /\ P2!PartsReturn
<1>1. ASSUME NEW p, P2!Part(p) PROVE P1!Carried(p)
  BY <1>1, SameIsType1, SameCarriable1 DEF P2!Part, P1!Carried
<1>2. ASSUME NEW x, NEW p, P2!Part(p), Decode1!Decode(x, p) # <<>>
      PROVE  Values1!HasType(Decode1!Decode(x, p)[1], p)
  <2>1. P1!Decode(x, p) # <<>>
    BY <1>2, SameDecode1
  <2>2. P1!HasType(P1!Decode(x, p)[1], p)
    BY <1>1, <1>2, <2>1, Step1, PackingAssumption, P1!DecodedHasType DEF P1!SignedInts, P1!UnsignedInts, SignedInts, UnsignedInts
  <2> QED
    BY <2>2, SameDecode1, SameHasType1
<1>3. ASSUME NEW x, NEW p, P2!Part(p), x \in Values1!Values(p)
      PROVE  Encode1!Encode(x, p) # <<>> /\ Decode1!Decode(Encode1!Encode(x, p)[1], p) = << x >>
  <2>1. x \in P1!Values(p)
    BY <1>3, SameValues1
  <2>2. P1!Returns(x, p)
    BY <1>1, <1>3, <2>1, Step1, Chosen1, PackingAssumption, P1!ReturnsAny DEF P1!SignedInts, P1!UnsignedInts, SignedInts, UnsignedInts
  <2> QED
    BY <2>2, SameEncode1, SameDecode1 DEF P1!Returns
<1> QED
  BY <1>2, <1>3 DEF P2!PartsHaveTypes, P2!PartsReturn

LEMMA Chosen2 == P2!ChosenNames
<1>1. \A s : P2!Range(s) = Range(s) /\ \A on : P2!Chosen(s, on) = Chosen(s, on)
  BY DEF P2!Range, Range, P2!Chosen, Chosen
<1> QED
  BY <1>1, ChosenIs DEF P2!ChosenNames

LEMMA Step3 == P3!PartsHaveTypes /\ P3!PartsReturn
<1>1. ASSUME NEW p, P3!Part(p) PROVE P2!Carried(p)
  BY <1>1, SameIsType2, SameCarriable2 DEF P3!Part, P2!Carried
<1>2. ASSUME NEW x, NEW p, P3!Part(p), Decode2!Decode(x, p) # <<>>
      PROVE  Values2!HasType(Decode2!Decode(x, p)[1], p)
  <2>1. P2!Decode(x, p) # <<>>
    BY <1>2, SameDecode2
  <2>2. P2!HasType(P2!Decode(x, p)[1], p)
    BY <1>1, <1>2, <2>1, Step2, PackingAssumption, P2!DecodedHasType DEF P2!SignedInts, P2!UnsignedInts, SignedInts, UnsignedInts
  <2> QED
    BY <2>2, SameDecode2, SameHasType2
<1>3. ASSUME NEW x, NEW p, P3!Part(p), x \in Values2!Values(p)
      PROVE  Encode2!Encode(x, p) # <<>> /\ Decode2!Decode(Encode2!Encode(x, p)[1], p) = << x >>
  <2>1. x \in P2!Values(p)
    BY <1>3, SameValues2
  <2>2. P2!Returns(x, p)
    BY <1>1, <1>3, <2>1, Step2, Chosen2, PackingAssumption, P2!ReturnsAny DEF P2!SignedInts, P2!UnsignedInts, SignedInts, UnsignedInts
  <2> QED
    BY <2>2, SameEncode2, SameDecode2 DEF P2!Returns
<1> QED
  BY <1>2, <1>3 DEF P3!PartsHaveTypes, P3!PartsReturn

LEMMA Chosen3 == P3!ChosenNames
<1>1. \A s : P3!Range(s) = Range(s) /\ \A on : P3!Chosen(s, on) = Chosen(s, on)
  BY DEF P3!Range, Range, P3!Chosen, Chosen
<1> QED
  BY <1>1, ChosenIs DEF P3!ChosenNames

LEMMA Step4 == P4!PartsHaveTypes /\ P4!PartsReturn
<1>1. ASSUME NEW p, P4!Part(p) PROVE P3!Carried(p)
  BY <1>1, SameIsType3, SameCarriable3 DEF P4!Part, P3!Carried
<1>2. ASSUME NEW x, NEW p, P4!Part(p), Decode3!Decode(x, p) # <<>>
      PROVE  Values3!HasType(Decode3!Decode(x, p)[1], p)
  <2>1. P3!Decode(x, p) # <<>>
    BY <1>2, SameDecode3
  <2>2. P3!HasType(P3!Decode(x, p)[1], p)
    BY <1>1, <1>2, <2>1, Step3, PackingAssumption, P3!DecodedHasType DEF P3!SignedInts, P3!UnsignedInts, SignedInts, UnsignedInts
  <2> QED
    BY <2>2, SameDecode3, SameHasType3
<1>3. ASSUME NEW x, NEW p, P4!Part(p), x \in Values3!Values(p)
      PROVE  Encode3!Encode(x, p) # <<>> /\ Decode3!Decode(Encode3!Encode(x, p)[1], p) = << x >>
  <2>1. x \in P3!Values(p)
    BY <1>3, SameValues3
  <2>2. P3!Returns(x, p)
    BY <1>1, <1>3, <2>1, Step3, Chosen3, PackingAssumption, P3!ReturnsAny DEF P3!SignedInts, P3!UnsignedInts, SignedInts, UnsignedInts
  <2> QED
    BY <2>2, SameEncode3, SameDecode3 DEF P3!Returns
<1> QED
  BY <1>2, <1>3 DEF P4!PartsHaveTypes, P4!PartsReturn

LEMMA Chosen4 == P4!ChosenNames
<1>1. \A s : P4!Range(s) = Range(s) /\ \A on : P4!Chosen(s, on) = Chosen(s, on)
  BY DEF P4!Range, Range, P4!Chosen, Chosen
<1> QED
  BY <1>1, ChosenIs DEF P4!ChosenNames

LEMMA Step5 == P5!PartsHaveTypes /\ P5!PartsReturn
<1>1. ASSUME NEW p, P5!Part(p) PROVE P4!Carried(p)
  BY <1>1, SameIsType4, SameCarriable4 DEF P5!Part, P4!Carried
<1>2. ASSUME NEW x, NEW p, P5!Part(p), Decode4!Decode(x, p) # <<>>
      PROVE  Values4!HasType(Decode4!Decode(x, p)[1], p)
  <2>1. P4!Decode(x, p) # <<>>
    BY <1>2, SameDecode4
  <2>2. P4!HasType(P4!Decode(x, p)[1], p)
    BY <1>1, <1>2, <2>1, Step4, PackingAssumption, P4!DecodedHasType DEF P4!SignedInts, P4!UnsignedInts, SignedInts, UnsignedInts
  <2> QED
    BY <2>2, SameDecode4, SameHasType4
<1>3. ASSUME NEW x, NEW p, P5!Part(p), x \in Values4!Values(p)
      PROVE  Encode4!Encode(x, p) # <<>> /\ Decode4!Decode(Encode4!Encode(x, p)[1], p) = << x >>
  <2>1. x \in P4!Values(p)
    BY <1>3, SameValues4
  <2>2. P4!Returns(x, p)
    BY <1>1, <1>3, <2>1, Step4, Chosen4, PackingAssumption, P4!ReturnsAny DEF P4!SignedInts, P4!UnsignedInts, SignedInts, UnsignedInts
  <2> QED
    BY <2>2, SameEncode4, SameDecode4 DEF P4!Returns
<1> QED
  BY <1>2, <1>3 DEF P5!PartsHaveTypes, P5!PartsReturn

LEMMA Chosen5 == P5!ChosenNames
<1>1. \A s : P5!Range(s) = Range(s) /\ \A on : P5!Chosen(s, on) = Chosen(s, on)
  BY DEF P5!Range, Range, P5!Chosen, Chosen
<1> QED
  BY <1>1, ChosenIs DEF P5!ChosenNames

LEMMA Step6 == P6!PartsHaveTypes /\ P6!PartsReturn
<1>1. ASSUME NEW p, P6!Part(p) PROVE P5!Carried(p)
  BY <1>1, SameIsType5, SameCarriable5 DEF P6!Part, P5!Carried
<1>2. ASSUME NEW x, NEW p, P6!Part(p), Decode5!Decode(x, p) # <<>>
      PROVE  Values5!HasType(Decode5!Decode(x, p)[1], p)
  <2>1. P5!Decode(x, p) # <<>>
    BY <1>2, SameDecode5
  <2>2. P5!HasType(P5!Decode(x, p)[1], p)
    BY <1>1, <1>2, <2>1, Step5, PackingAssumption, P5!DecodedHasType DEF P5!SignedInts, P5!UnsignedInts, SignedInts, UnsignedInts
  <2> QED
    BY <2>2, SameDecode5, SameHasType5
<1>3. ASSUME NEW x, NEW p, P6!Part(p), x \in Values5!Values(p)
      PROVE  Encode5!Encode(x, p) # <<>> /\ Decode5!Decode(Encode5!Encode(x, p)[1], p) = << x >>
  <2>1. x \in P5!Values(p)
    BY <1>3, SameValues5
  <2>2. P5!Returns(x, p)
    BY <1>1, <1>3, <2>1, Step5, Chosen5, PackingAssumption, P5!ReturnsAny DEF P5!SignedInts, P5!UnsignedInts, SignedInts, UnsignedInts
  <2> QED
    BY <2>2, SameEncode5, SameDecode5 DEF P5!Returns
<1> QED
  BY <1>2, <1>3 DEF P6!PartsHaveTypes, P6!PartsReturn

LEMMA Chosen6 == P6!ChosenNames
<1>1. \A s : P6!Range(s) = Range(s) /\ \A on : P6!Chosen(s, on) = Chosen(s, on)
  BY DEF P6!Range, Range, P6!Chosen, Chosen
<1> QED
  BY <1>1, ChosenIs DEF P6!ChosenNames

LEMMA Step7 == P7!PartsHaveTypes /\ P7!PartsReturn
<1>1. ASSUME NEW p, P7!Part(p) PROVE P6!Carried(p)
  BY <1>1, SameIsType6, SameCarriable6 DEF P7!Part, P6!Carried
<1>2. ASSUME NEW x, NEW p, P7!Part(p), Decode6!Decode(x, p) # <<>>
      PROVE  Values6!HasType(Decode6!Decode(x, p)[1], p)
  <2>1. P6!Decode(x, p) # <<>>
    BY <1>2, SameDecode6
  <2>2. P6!HasType(P6!Decode(x, p)[1], p)
    BY <1>1, <1>2, <2>1, Step6, PackingAssumption, P6!DecodedHasType DEF P6!SignedInts, P6!UnsignedInts, SignedInts, UnsignedInts
  <2> QED
    BY <2>2, SameDecode6, SameHasType6
<1>3. ASSUME NEW x, NEW p, P7!Part(p), x \in Values6!Values(p)
      PROVE  Encode6!Encode(x, p) # <<>> /\ Decode6!Decode(Encode6!Encode(x, p)[1], p) = << x >>
  <2>1. x \in P6!Values(p)
    BY <1>3, SameValues6
  <2>2. P6!Returns(x, p)
    BY <1>1, <1>3, <2>1, Step6, Chosen6, PackingAssumption, P6!ReturnsAny DEF P6!SignedInts, P6!UnsignedInts, SignedInts, UnsignedInts
  <2> QED
    BY <2>2, SameEncode6, SameDecode6 DEF P6!Returns
<1> QED
  BY <1>2, <1>3 DEF P7!PartsHaveTypes, P7!PartsReturn

LEMMA SameAll7 ==
    /\ \A s, t : P7!EncodeAll(s, t) = Encode7!EncodeAll(s, t) /\ P7!DecodeAll(s, t) = Decode7!DecodeAll(s, t)
    /\ \A t : P7!ValuesAll(t) = Values7!ValuesAll(t)
    /\ \A s, t : P7!HaveTypes(s, t) <=> Values7!HaveTypes(s, t)
BY DEF P7!EncodeAll, Encode7!EncodeAll, P7!DecodeAll, Decode7!DecodeAll, P7!ValuesAll, Values7!ValuesAll,
       P7!HaveTypes, Values7!HaveTypes, P7!All, Encode7!All, Decode7!All, P7!Product, Values7!Product, P7!Range, Values7!Range

-----------------------------------------------------------------------------
(* Arguments.                                                              *)

\* What the parameters of a function are, if its interface has a shape.
Sendable(types) == \A i \in DOMAIN types : IsType(types[i]) /\ Carriable(types[i])

LEMMA PartsOfArguments ==
    ASSUME NEW types, Sendable(types)
    PROVE  \A i \in DOMAIN types : P7!Part(types[i])
BY DEF Sendable, IsType, Carriable, P7!Part

\* Arguments can be sent, and arrive as what they are if they are read by the
\* types that they were sent by.
THEOREM ArgumentsReturn ==
    ASSUME NEW types, Sendable(types), NEW vals \in ValuesAll(types)
    PROVE  EncodeAll(vals, types) # <<>> /\ DecodeAll(EncodeAll(vals, types)[1], types) = << vals >>
<1>1. vals \in P7!ValuesAll(types)
  BY SameAll7 DEF ValuesAll
<1>2. P7!EncodeAll(vals, types) # <<>> /\ P7!DecodeAll(P7!EncodeAll(vals, types)[1], types) = << vals >>
  BY <1>1, PartsOfArguments, Step7, PackingAssumption, P7!ReturnsAll
     DEF P7!SignedInts, P7!UnsignedInts, SignedInts, UnsignedInts
<1> QED
  BY <1>2, SameAll7 DEF EncodeAll, DecodeAll

\* Whatever is read by them, by whomever it was sent, has these types.
THEOREM ArgumentsHaveTypes ==
    ASSUME NEW types, Sendable(types), NEW ws, DecodeAll(ws, types) # <<>>
    PROVE  HaveTypes(DecodeAll(ws, types)[1], types)
<1>1. P7!DecodeAll(ws, types) # <<>>
  BY SameAll7 DEF DecodeAll
<1>2. P7!HaveTypes(P7!DecodeAll(ws, types)[1], types)
  BY <1>1, PartsOfArguments, Step7, PackingAssumption, P7!DecodedAll
     DEF P7!SignedInts, P7!UnsignedInts, SignedInts, UnsignedInts
<1> QED
  BY <1>2, SameAll7 DEF HaveTypes, DecodeAll

\* Of one argument alone.
LEMMA OneArgument ==
    ASSUME NEW from, DOMAIN from = {1}, NEW to, DOMAIN to = {1}, NEW vals \in ValuesAll(from)
    PROVE  LET sent == Encode6!Encode(vals[1], from[1])
               read == Decode6!Decode(sent[1], to[1])
           IN  /\ vals[1] \in Values6!Values(from[1])
               /\ sent # <<>> =>
                     /\ EncodeAll(vals, from) # <<>>
                     /\ DecodeAll(EncodeAll(vals, from)[1], to) =
                           IF read = <<>> THEN <<>> ELSE << << read[1] >> >>
<1> DEFINE sent == Encode6!Encode(vals[1], from[1])
           read == Decode6!Decode(sent[1], to[1])
<1>1. DOMAIN vals = {1} /\ vals[1] \in Values6!Values(from[1])
  <2> DEFINE sets == [i \in DOMAIN from |-> Values6!Values(from[i])]
  <2>1. vals \in [DOMAIN sets -> UNION Values7!Range(sets)] /\ \A i \in DOMAIN sets : vals[i] \in sets[i]
    BY DEF ValuesAll, Values7!ValuesAll, Values7!Product
  <2>2. DOMAIN sets = {1} /\ sets[1] = Values6!Values(from[1])
    OBVIOUS
  <2> HIDE DEF sets
  <2> QED
    BY <2>1, <2>2
<1>2. ASSUME sent # <<>>
      PROVE  /\ EncodeAll(vals, from) # <<>>
             /\ DecodeAll(EncodeAll(vals, from)[1], to) = IF read = <<>> THEN <<>> ELSE << << read[1] >> >>
  <2> DEFINE r == [i \in DOMAIN vals |-> Encode6!Encode(vals[i], from[i])]
             ws == [i \in {1} |-> sent[1]]
             back == [i \in DOMAIN ws |-> Decode6!Decode(ws[i], to[i])]
  <2>1. DOMAIN r = {1} /\ r[1] = sent
    BY <1>1
  <2>2. EncodeAll(vals, from) = Encode7!All(r)
    BY <1>1 DEF EncodeAll, Encode7!EncodeAll
  <2> HIDE DEF r, sent
  <2>3. Encode7!All(r) = << ws >>
    BY <1>2, <2>1 DEF Encode7!All
  <2>4. DOMAIN back = {1} /\ back[1] = read
    OBVIOUS
  <2>5. DecodeAll(ws, to) = Decode7!All(back)
    BY DEF DecodeAll, Decode7!DecodeAll
  <2> HIDE DEF back, read, ws
  <2>6. Decode7!All(back) = IF read = <<>> THEN <<>> ELSE << [i \in {1} |-> read[1]] >>
    BY <2>4 DEF Decode7!All
  <2>7. [i \in {1} |-> read[1]] = << read[1] >>
    OBVIOUS
  <2> QED
    BY <2>2, <2>3, <2>5, <2>6, <2>7
<1> QED
  BY <1>1, <1>2

-----------------------------------------------------------------------------
(* Shapes.                                                                 *)

GoodShape(shape) ==
    /\ shape \in Seq(ToSet(shape)) /\ HasShape(shape)
    /\ \A i, j \in DOMAIN shape : shape[i].name = shape[j].name => i = j
    /\ \A i \in DOMAIN shape : shape[i].params \in Seq(ToSet(shape[i].params)) /\ Sendable(shape[i].params)

LEMMA ShapesAreGood ==
    ASSUME NEW shape \in Shapes
    PROVE  GoodShape(shape)
<1>1. PICK functions \in Interfaces : HasShape(functions) /\ shape = Shape(functions)
  BY DEF Shapes
<1> DEFINE n == Len(functions)
<1>2. n \in Nat /\ DOMAIN functions = 1..n
  BY <1>1, WireTripAssumption, LenProperties
<1>3. PICK p \in InOrder(functions) : shape = [i \in DOMAIN functions |-> functions[p[i]]]
  BY <1>1, WireTripAssumption DEF Shape
<1> HIDE DEF n
<1>4. /\ p \in [1..n -> 1..n]
      /\ \A i, j \in 1..n : i < j => <<functions[p[i]].name, functions[p[j]].name>> \in Before
  <2>1. /\ p \in Bijection(DOMAIN functions, DOMAIN functions)
        /\ \A i, j \in DOMAIN functions : i < j => <<functions[p[i]].name, functions[p[j]].name>> \in Before
    BY <1>3 DEF InOrder
  <2>2. p \in [1..n -> 1..n]
    <3>1. p \in Bijection(1..n, 1..n)
      BY <1>2, <2>1
    <3> QED
      BY <3>1 DEF Bijection, Injection
  <2> QED
    BY <1>2, <2>1, <2>2
<1>5. DOMAIN shape = 1..n /\ \A i \in 1..n : p[i] \in 1..n /\ shape[i] = functions[p[i]]
  BY <1>2, <1>3, <1>4
<1>6. shape \in Seq(ToSet(shape))
  <2>1. shape \in [1..n -> ToSet(shape)]
    BY <1>2, <1>3, <1>5 DEF ToSet
  <2> QED
    BY <1>2, <2>1, SeqDef
<1>7. HasShape(shape)
  BY <1>1, <1>2, <1>5 DEF HasShape
<1>8. ASSUME NEW i \in 1..n, NEW j \in 1..n, i < j PROVE shape[i].name # shape[j].name
  <2> DEFINE names == <<functions[p[i]].name, functions[p[j]].name>>
  <2>1. names \in Before
    BY <1>4, <1>8
  <2>2. names[1] # names[2]
    BY <2>1, WireTripAssumption
  <2> QED
    BY <1>5, <2>2
<1>9. \A i, j \in DOMAIN shape : shape[i].name = shape[j].name => i = j
  <2>1. \A i, j \in 1..n : i = j \/ i < j \/ j < i
    BY <1>2
  <2> QED
    BY <1>5, <1>8, <2>1
<1>10. ASSUME NEW i \in DOMAIN shape
       PROVE  shape[i].params \in Seq(ToSet(shape[i].params)) /\ Sendable(shape[i].params)
  <2> DEFINE f == functions[p[i]]
  <2>1. /\ f.params \in Seq(ToSet(f.params)) /\ f.results \in Seq(ToSet(f.results))
        /\ \A t \in ToSet(f.params \o f.results) : IsType(t) /\ Carriable(t)
    BY <1>1, <1>2, <1>5, WireTripAssumption DEF HasShape
  <2> HIDE DEF f
  <2>2. ASSUME NEW k \in DOMAIN f.params PROVE f.params[k] \in ToSet(f.params \o f.results)
    <3> DEFINE a == f.params
               b == f.results
               S == ToSet(a) \cup ToSet(b)
    <3>1. a \in Seq(S) /\ b \in Seq(S) /\ k \in DOMAIN a
      BY <2>1, <2>2, SeqMonotonic
    <3> HIDE DEF a, b, S
    <3>2. k \in DOMAIN (a \o b) /\ (a \o b)[k] = a[k]
      BY <3>1, ConcatProperties, LenProperties
    <3> QED
      BY <3>2 DEF ToSet, a, b
  <2> QED
    BY <1>5, <2>1, <2>2 DEF Sendable, f
<1> QED
  BY <1>6, <1>7, <1>9, <1>10 DEF GoodShape

LEMMA NoFunctions == GoodShape(<<>>)
BY DEF GoodShape, HasShape, ToSet

\* A function is found by its name.
LEMMA FunctionNamed ==
    ASSUME NEW shape, GoodShape(shape), NEW i \in DOMAIN shape
    PROVE  Find(shape, shape[i].name) = << shape[i] >>
<1> DEFINE n == Len(shape)
           name == shape[i].name
           first == CHOOSE k \in DOMAIN shape : shape[k].name = name /\ \A j \in 1..(k - 1) : ~(shape[j].name = name)
<1>1. n \in Nat /\ DOMAIN shape = 1..n
  BY LenProperties DEF GoodShape
<1> HIDE DEF n
<1>2. \A k \in DOMAIN shape : shape[k].name = name => k = i
  BY DEF GoodShape
<1>3. \A j \in 1..(i - 1) : ~(shape[j].name = name)
  <2>1. \A j \in 1..(i - 1) : j \in 1..n /\ j # i
    BY <1>1
  <2> QED
    BY <1>1, <1>2, <2>1
<1>4. first \in DOMAIN shape /\ shape[first].name = name
  BY <1>3
<1>5. first = i
  BY <1>2, <1>4
<1> QED
  BY <1>5 DEF Find, FirstOf

LEMMA FoundIs ==
    ASSUME NEW shape, GoodShape(shape), NEW name, Find(shape, name) # <<>>
    PROVE  \E i \in DOMAIN shape : shape[i].name = name /\ Find(shape, name) = << shape[i] >>
<1>1. PICK i \in DOMAIN shape : shape[i].name = name
  BY DEF Find, FirstOf
<1> QED
  BY <1>1, FunctionNamed

-----------------------------------------------------------------------------
(* The trip of arguments.                                                  *)

\* What the provider makes of a request.
Made == IF Find(theirs, func) = <<>> THEN <<>> ELSE DecodeAll(wire[1], Find(theirs, func)[1].params)

\* Why it is that: the function is one of the caller's shape, and the request
\* is what its arguments are encoded to, or a stranger's.
WireInv ==
    /\ GoodShape(ours) /\ GoodShape(theirs)
    /\ phase \in {"idle", "sent", "received"}
    /\ phase = "idle" => args = <<>> /\ wire = <<>> /\ got = <<>>
    /\ phase # "idle" => \E f \in ToSet(ours) :
          /\ func = f.name
          /\ \/ \E vals \in ValuesAll(f.params) : args = << vals >> /\ wire = EncodeAll(vals, f.params)
             \/ args = <<>> /\ \E w : wire = << << w >> >>
    /\ phase = "sent" => got = <<>>
    /\ phase = "received" => got = Made

LEMMA WireInvHolds == TripsSpec => []WireInv
<1>1. TripsInit => WireInv
  <2> SUFFICES ASSUME TripsInit PROVE WireInv
    OBVIOUS
  <2>1. CASE Init
    <3>1. GoodShape(ours) /\ GoodShape(theirs)
      BY <2>1, ShapesAreGood DEF Init
    <3> QED
      BY <2>1, <3>1 DEF Init, WireInv
  <2>2. CASE NoArguments
    <3>1. GoodShape(ours) /\ GoodShape(theirs)
      BY <2>2, NoFunctions DEF NoArguments
    <3> QED
      BY <2>2, <3>1 DEF NoArguments, WireInv
  <2> QED
    BY <2>1, <2>2 DEF TripsInit
<1>2. WireInv /\ [TripsNext]_tripsVars => WireInv'
  <2> SUFFICES ASSUME WireInv, [TripsNext]_tripsVars PROVE WireInv'
    OBVIOUS
  <2>1. ASSUME NEW f \in ToSet(ours), phase = "idle", Send(f) PROVE WireInv'
    <3>1. PICK vals \in ValuesAll(f.params) : args' = << vals >> /\ wire' = EncodeAll(vals, f.params)
      BY <2>1 DEF Send
    <3>2. got = <<>>
      BY <2>1 DEF WireInv
    <3> QED
      BY <2>1, <3>1, <3>2 DEF WireInv, Send
  <2>2. ASSUME NEW f \in ToSet(theirs), NEW w \in Strange, phase = "idle", ours = theirs, SendStrange(f, w) PROVE WireInv'
    BY <2>2 DEF WireInv, SendStrange
  <2>3. CASE Receive
    <3>1. phase = "sent" /\ phase' = "received" /\ got' = Made /\ UNCHANGED <<ours, theirs, func, args, wire>>
      BY <2>3 DEF Receive, Made
    <3>2. Made' = Made
      BY <3>1 DEF Made
    <3> QED
      BY <3>1, <3>2 DEF WireInv
  <2>4. CASE UNCHANGED vars
    BY <2>4 DEF vars, WireInv, Made
  <2> QED
    BY <2>1, <2>2, <2>3, <2>4 DEF TripsNext, tripsVars, Next
<1> QED
  BY <1>1, <1>2, PTL DEF TripsSpec

\* What the arguments of a call are of, and what they are read by.
LEMMA Sender ==
    ASSUME WireInv, phase # "idle"
    PROVE  \E f \in ToSet(ours) :
              /\ Find(ours, func) = << f >> /\ f.params \in Seq(ToSet(f.params)) /\ Sendable(f.params)
              /\ \/ \E vals \in ValuesAll(f.params) : args = << vals >> /\ wire = EncodeAll(vals, f.params)
                 \/ args = <<>> /\ \E w : wire = << << w >> >>
<1>1. PICK f \in ToSet(ours) :
          /\ func = f.name
          /\ \/ \E vals \in ValuesAll(f.params) : args = << vals >> /\ wire = EncodeAll(vals, f.params)
             \/ args = <<>> /\ \E w : wire = << << w >> >>
  BY DEF WireInv
<1>2. PICK i \in DOMAIN ours : f = ours[i]
  BY DEF ToSet
<1>3. GoodShape(ours)
  BY DEF WireInv
<1>4. Find(ours, func) = << f >>
  BY <1>1, <1>2, <1>3, FunctionNamed
<1>5. f.params \in Seq(ToSet(f.params)) /\ Sendable(f.params)
  BY <1>2, <1>3 DEF GoodShape
<1> QED
  BY <1>1, <1>4, <1>5

LEMMA Reader ==
    ASSUME WireInv, Find(theirs, func) # <<>>
    PROVE  LET types == Find(theirs, func)[1].params
           IN  types \in Seq(ToSet(types)) /\ Sendable(types)
<1>1. PICK i \in DOMAIN theirs : Find(theirs, func) = << theirs[i] >>
  BY FoundIs DEF WireInv
<1> QED
  BY <1>1 DEF WireInv, GoodShape

\* An interface that got a shape never meets a value it cannot send: scan and
\* from_component_type leave nothing to val_to_msgpack to refuse.
THEOREM WhatHasAShapeCanBeSent == TripsSpec => []ShapesCanBeSent
<1>1. WireInv => ShapesCanBeSent
  <2> SUFFICES ASSUME WireInv, phase # "idle" PROVE wire # <<>>
    BY DEF ShapesCanBeSent
  <2>1. PICK f \in ToSet(ours) :
            /\ Sendable(f.params)
            /\ \/ \E vals \in ValuesAll(f.params) : wire = EncodeAll(vals, f.params)
               \/ \E w : wire = << << w >> >>
    BY Sender
  <2>2. CASE \E vals \in ValuesAll(f.params) : wire = EncodeAll(vals, f.params)
    BY <2>1, <2>2, ArgumentsReturn
  <2>3. CASE \E w : wire = << << w >> >>
    BY <2>3
  <2> QED
    BY <2>1, <2>2, <2>3
<1> QED
  BY <1>1, WireInvHolds, PTL

\* What reaches a guest has the type that the guest declares, whoever sent it
\* and by whatever types (msgpack_to_vals).
THEOREM WhatArrivesHasItsType == TripsSpec => []NeverIllTyped
<1>1. WireInv => NeverIllTyped
  <2> SUFFICES ASSUME WireInv, Received, got # <<>> PROVE HaveTypes(got[1], Params(theirs))
    BY DEF NeverIllTyped
  <2>1. got = DecodeAll(wire[1], Params(theirs))
    BY DEF WireInv, Made, Received, Params
  <2>2. Sendable(Params(theirs))
    BY Reader DEF Received, Params
  <2> QED
    BY <2>1, <2>2, ArgumentsHaveTypes
<1> QED
  BY <1>1, WireInvHolds, PTL

\* The provider gets what the caller sent if their shapes are the same: of
\* EqualDigestsAgree, what is not about the digest.
SameShapesAgree == phase = "received" /\ args # <<>> /\ ours = theirs => got = args

THEOREM WhatIsSentArrives == TripsSpec => []SameShapesAgree
<1>1. WireInv => SameShapesAgree
  <2> SUFFICES ASSUME WireInv, phase = "received", args # <<>>, ours = theirs PROVE got = args
    BY DEF SameShapesAgree
  <2>1. PICK f \in ToSet(ours) :
            /\ Find(ours, func) = << f >> /\ Sendable(f.params)
            /\ \E vals \in ValuesAll(f.params) : args = << vals >> /\ wire = EncodeAll(vals, f.params)
    BY Sender
  <2>2. got = DecodeAll(wire[1], f.params)
    BY <2>1 DEF WireInv, Made
  <2> QED
    BY <2>1, <2>2, ArgumentsReturn
<1> QED
  BY <1>1, WireInvHolds, PTL

LEMMA SingleIs ==
    ASSUME NEW types, types \in Seq(ToSet(types)), Len(types) = 1
    PROVE  DOMAIN types = {1}
BY LenProperties

LEMMA SingleIsSendable ==
    ASSUME NEW types, DOMAIN types = {1}, Sendable(types)
    PROVE  P6!Carried(types[1])
BY SameIsType6, SameCarriable6 DEF Sendable, IsType, Carriable, P6!Carried

\* A call of one argument by one shape, read by another of one parameter.
LEMMA OneArrives ==
    ASSUME WireInv, Received, args # <<>>, Len(Params(ours)) = 1, Len(Params(theirs)) = 1
    PROVE  LET from == Params(ours)[1]
               to == Params(theirs)[1]
               v == args[1][1]
               sent == P6!Encode(v, from)
               read == P6!Decode(sent[1], to)
           IN  /\ P6!Carried(from) /\ P6!Carried(to) /\ v \in P6!Values(from)
               /\ sent # <<>> => got = IF read = <<>> THEN <<>> ELSE << << read[1] >> >>
<1> DEFINE froms == Params(ours)
           tos == Params(theirs)
<1>1. /\ froms \in Seq(ToSet(froms)) /\ Sendable(froms)
      /\ \E vals \in ValuesAll(froms) : args = << vals >> /\ wire = EncodeAll(vals, froms)
  <2>1. phase # "idle"
    BY DEF Received
  <2>2. PICK f \in ToSet(ours) :
            /\ Find(ours, func) = << f >> /\ f.params \in Seq(ToSet(f.params)) /\ Sendable(f.params)
            /\ \E vals \in ValuesAll(f.params) : args = << vals >> /\ wire = EncodeAll(vals, f.params)
    BY <2>1, Sender
  <2>3. froms = f.params
    BY <2>2 DEF Params
  <2> QED
    BY <2>2, <2>3
<1>2. tos \in Seq(ToSet(tos)) /\ Sendable(tos) /\ got = DecodeAll(wire[1], tos)
  BY Reader DEF WireInv, Made, Received, Params
<1>3. Len(froms) = 1 /\ Len(tos) = 1
  OBVIOUS
<1> HIDE DEF froms, tos
<1>4. DOMAIN froms = {1} /\ DOMAIN tos = {1}
  BY <1>1, <1>2, <1>3, SingleIs
<1>5. PICK vals \in ValuesAll(froms) : args = << vals >> /\ wire = EncodeAll(vals, froms)
  BY <1>1
<1> DEFINE v == vals[1]
           sent == Encode6!Encode(v, froms[1])
           read == Decode6!Decode(sent[1], tos[1])
<1>6. /\ v \in Values6!Values(froms[1])
      /\ sent # <<>> => EncodeAll(vals, froms) # <<>>
            /\ DecodeAll(EncodeAll(vals, froms)[1], tos) = IF read = <<>> THEN <<>> ELSE << << read[1] >> >>
  BY <1>4, OneArgument
<1>7. P6!Carried(froms[1]) /\ P6!Carried(tos[1])
  BY <1>1, <1>2, <1>4, SingleIsSendable
<1>8. /\ P6!Encode(v, froms[1]) = sent /\ P6!Decode(sent[1], tos[1]) = read
      /\ P6!Values(froms[1]) = Values6!Values(froms[1])
  BY SameEncode6, SameDecode6, SameValues6
<1>9. args[1][1] = v
  BY <1>5
<1> HIDE DEF v, sent, read
<1>10. sent # <<>> => got = IF read = <<>> THEN <<>> ELSE << << read[1] >> >>
  BY <1>2, <1>5, <1>6
<1> QED
  BY <1>6, <1>7, <1>8, <1>9, <1>10 DEF froms, tos

\* A number that arrives as another type of integer is the number that was
\* sent; it arrives if it fits (narrow, val.rs).
THEOREM NumbersArriveAsTheyAre == TripsSpec => []NumbersKeepTheirValue
<1>1. WireInv => NumbersKeepTheirValue
  <2> DEFINE from == Params(ours)[1]
             to == Params(theirs)[1]
             v == args[1][1]
             n == v[from.k]
  <2> SUFFICES ASSUME WireInv, Received, args # <<>>, Len(Params(ours)) = 1, Len(Params(theirs)) = 1,
                      from.k \in DOMAIN Bits, to.k \in DOMAIN Bits
               PROVE  got = IF n \in IntRange(to.k) THEN << << Only(to.k, n) >> >> ELSE <<>>
    BY DEF NumbersKeepTheirValue
  <2> DEFINE sent == P6!Encode(v, from)
             read == P6!Decode(sent[1], to)
  <2>1. /\ v \in P6!Values(from)
        /\ sent # <<>> => got = IF read = <<>> THEN <<>> ELSE << << read[1] >> >>
    BY OneArrives
  <2> HIDE DEF from, to, v
  <2>2. sent # <<>> /\ read = IF n \in P6!IntRange(to.k) THEN << P6!Only(to.k, n) >> ELSE <<>>
    BY <2>1, PackingAssumption, P6!NumberIsItself DEF P6!SignedInts, P6!UnsignedInts, SignedInts, UnsignedInts
  <2>3. P6!IntRange(to.k) = IntRange(to.k) /\ P6!Only(to.k, n) = Only(to.k, n)
    BY DEF P6!IntRange, IntRange, P6!SignedInts, SignedInts, P6!Only, Only
  <2> HIDE DEF sent, read
  <2> QED
    BY <2>1, <2>2, <2>3
<1> QED
  BY <1>1, WireInvHolds, PTL

\* Records go by the names of their fields, whatever their order and number
\* (lookup, val.rs).
THEOREM RecordsGoByName == TripsSpec => []FieldsGoByName
<1>1. WireInv => FieldsGoByName
  <2> DEFINE from == Params(ours)[1]
             to == Params(theirs)[1]
             v == args[1][1]
  <2> SUFFICES ASSUME WireInv, Received, args # <<>>, Len(Params(ours)) = 1, Len(Params(theirs)) = 1,
                      from.k = "record", to.k = "record"
               PROVE  IF ToSet(to.fields) \subseteq ToSet(from.fields)
                      THEN got # <<>> /\ ToSet(got[1][1].record) \subseteq ToSet(v.record)
                      ELSE {f.name : f \in ToSet(to.fields)} \subseteq {f.name : f \in ToSet(from.fields)} \/ got = <<>>
    BY DEF FieldsGoByName
  <2> DEFINE sent == P6!Encode(v, from)
             read == P6!Decode(sent[1], to)
  <2>1. /\ P6!Carried(from) /\ P6!Carried(to) /\ v \in P6!Values(from)
        /\ sent # <<>> => got = IF read = <<>> THEN <<>> ELSE << << read[1] >> >>
    BY OneArrives
  <2> HIDE DEF from, to, v
  <2>2. /\ sent # <<>>
        /\ P6!Range(to.fields) \subseteq P6!Range(from.fields) =>
              read # <<>> /\ P6!Range(read[1].record) \subseteq P6!Range(v.record)
        /\ read # <<>> => {f.name : f \in P6!Range(to.fields)} \subseteq {f.name : f \in P6!Range(from.fields)}
    BY <2>1, Step6, PackingAssumption, P6!RecordByName DEF P6!SignedInts, P6!UnsignedInts, SignedInts, UnsignedInts
  <2>3. \A s : P6!Range(s) = ToSet(s)
    BY DEF P6!Range, ToSet
  <2> HIDE DEF sent, read
  <2>4. CASE ToSet(to.fields) \subseteq ToSet(from.fields)
    <3>1. read # <<>> /\ ToSet(read[1].record) \subseteq ToSet(v.record)
      BY <2>2, <2>3, <2>4
    <3>2. got = << << read[1] >> >>
      BY <2>1, <2>2, <3>1
    <3> QED
      BY <2>4, <3>1, <3>2
  <2>5. CASE ~(ToSet(to.fields) \subseteq ToSet(from.fields))
    <3>1. got = <<>> \/ read # <<>>
      BY <2>1, <2>2
    <3> QED
      BY <2>2, <2>3, <2>5, <3>1
  <2> QED
    BY <2>4, <2>5
<1> QED
  BY <1>1, WireInvHolds, PTL
=============================================================================

-------------------------------- MODULE Codec --------------------------------
(***************************************************************************)
(* The codec of the protocol (crates/protocol/src/val.rs and shape.rs), in *)
(* layers: at each, what is done at the types of a type is what the layer  *)
(* below does.  The code recurses as deep as a type goes; here it goes     *)
(* through six, as the deepest of the registry do: a result of a list of   *)
(* records of lists of records of strings.  What goes deeper is none here. *)
(***************************************************************************)
EXTENDS Packing, SequencesExt

CONSTANTS
    Strings,  \* what a string may be
    MaxList,  \* bound on the length of the lists that guests send
    Before    \* the pairs of function names that are in order

NoCarriable(t) == FALSE
NoIsType(t) == FALSE
NoEncode(v, t) == <<>>
NoDecode(w, t) == <<>>
NoValues(t) == {}
NoHasType(v, t) == FALSE
NoRender(t) == ""

Types1 == INSTANCE TypeLayer WITH CarriablePart <- NoCarriable, IsTypePart <- NoIsType
Types2 == INSTANCE TypeLayer WITH CarriablePart <- Types1!Carriable, IsTypePart <- Types1!IsType
Types3 == INSTANCE TypeLayer WITH CarriablePart <- Types2!Carriable, IsTypePart <- Types2!IsType
Types4 == INSTANCE TypeLayer WITH CarriablePart <- Types3!Carriable, IsTypePart <- Types3!IsType
Types5 == INSTANCE TypeLayer WITH CarriablePart <- Types4!Carriable, IsTypePart <- Types4!IsType
Types6 == INSTANCE TypeLayer WITH CarriablePart <- Types5!Carriable, IsTypePart <- Types5!IsType

Encode1 == INSTANCE EncodeLayer WITH EncodePart <- NoEncode
Encode2 == INSTANCE EncodeLayer WITH EncodePart <- Encode1!Encode
Encode3 == INSTANCE EncodeLayer WITH EncodePart <- Encode2!Encode
Encode4 == INSTANCE EncodeLayer WITH EncodePart <- Encode3!Encode
Encode5 == INSTANCE EncodeLayer WITH EncodePart <- Encode4!Encode
Encode6 == INSTANCE EncodeLayer WITH EncodePart <- Encode5!Encode
Encode7 == INSTANCE EncodeLayer WITH EncodePart <- Encode6!Encode

Decode1 == INSTANCE DecodeLayer WITH DecodePart <- NoDecode
Decode2 == INSTANCE DecodeLayer WITH DecodePart <- Decode1!Decode
Decode3 == INSTANCE DecodeLayer WITH DecodePart <- Decode2!Decode
Decode4 == INSTANCE DecodeLayer WITH DecodePart <- Decode3!Decode
Decode5 == INSTANCE DecodeLayer WITH DecodePart <- Decode4!Decode
Decode6 == INSTANCE DecodeLayer WITH DecodePart <- Decode5!Decode
Decode7 == INSTANCE DecodeLayer WITH DecodePart <- Decode6!Decode

Values1 == INSTANCE ValueLayer WITH ValuesPart <- NoValues, HasTypePart <- NoHasType
Values2 == INSTANCE ValueLayer WITH ValuesPart <- Values1!Values, HasTypePart <- Values1!HasType
Values3 == INSTANCE ValueLayer WITH ValuesPart <- Values2!Values, HasTypePart <- Values2!HasType
Values4 == INSTANCE ValueLayer WITH ValuesPart <- Values3!Values, HasTypePart <- Values3!HasType
Values5 == INSTANCE ValueLayer WITH ValuesPart <- Values4!Values, HasTypePart <- Values4!HasType
Values6 == INSTANCE ValueLayer WITH ValuesPart <- Values5!Values, HasTypePart <- Values5!HasType
Values7 == INSTANCE ValueLayer WITH ValuesPart <- Values6!Values, HasTypePart <- Values6!HasType

Shape1 == INSTANCE ShapeLayer WITH RenderPart <- NoRender
Shape2 == INSTANCE ShapeLayer WITH RenderPart <- Shape1!Render
Shape3 == INSTANCE ShapeLayer WITH RenderPart <- Shape2!Render
Shape4 == INSTANCE ShapeLayer WITH RenderPart <- Shape3!Render
Shape5 == INSTANCE ShapeLayer WITH RenderPart <- Shape4!Render
Shape6 == INSTANCE ShapeLayer WITH RenderPart <- Shape5!Render
Shape7 == INSTANCE ShapeLayer WITH RenderPart <- Shape6!Render

Carriable(t) == Types6!Carriable(t)
IsType(t) == Types6!IsType(t)

\* Of the arguments or the results of a function.
EncodeAll(vals, types) == Encode7!EncodeAll(vals, types)
DecodeAll(ws, types) == Decode7!DecodeAll(ws, types)
ValuesAll(types) == Values7!ValuesAll(types)
HaveTypes(vals, types) == Values7!HaveTypes(vals, types)

\* Functions in the order of their names.
InOrder(functions) ==
    {p \in Bijection(DOMAIN functions, DOMAIN functions) :
        \A i, j \in DOMAIN functions : i < j => <<functions[p[i]].name, functions[p[j]].name>> \in Before}
Shape(functions) ==
    LET p == CHOOSE p \in InOrder(functions) : TRUE
    IN  [i \in DOMAIN functions |-> functions[p[i]]]

\* The text that sha256 is taken of, which stands for the digest.
Canonical(shape) ==
    FoldLeft(LAMBDA text, f : text \o f.name \o Shape7!RenderAll(f.params) \o "->" \o Shape7!RenderAll(f.results) \o ";",
             "", shape)
=============================================================================

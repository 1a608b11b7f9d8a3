------------------------------ MODULE WitTypes ------------------------------
(***************************************************************************)
(* The types of WIT (WitType, crates/protocol/src/ty.rs): a type is a      *)
(* record with its constructor k.  What is done at a type, given what is   *)
(* done at those it is made of, have TypeLayer, EncodeLayer, DecodeLayer,  *)
(* ValueLayer and ShapeLayer; Codec puts the layers together.              *)
(***************************************************************************)
EXTENDS Packing

\* What the protocol has no form for.
Unsupported == {"resource", "future", "stream", "error-context", "map"}

Primitive == DOMAIN Bits \cup Floats \cup {"bool", "char", "string"}

\* The types that a type is made of.
Payloads(cases) == UNION {Range(cases[i].payload) : i \in DOMAIN cases}

InnerParts(t) ==
    CASE t.k \in {"list", "fixed", "option"} -> {t.of}
      [] t.k = "tuple" -> Range(t.items)
      [] t.k = "record" -> {t.fields[i].ty : i \in DOMAIN t.fields}
      [] t.k = "variant" -> Payloads(t.cases)
      [] OTHER -> {}

\* Mutant: the arms of a result are not looked into.
PartsButArms(t) == InnerParts(t)

Parts(t) == InnerParts(t) \cup (IF t.k = "result" THEN Range(t.ok) \cup Range(t.err) ELSE {})

\* The case of that name.
FindCase(cases, name) == FirstOf(cases, LAMBDA c : c.name = name)

Arm(t, name) == IF name = "ok" THEN t.ok ELSE t.err
=============================================================================

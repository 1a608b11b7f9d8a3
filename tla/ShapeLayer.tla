----------------------------- MODULE ShapeLayer -----------------------------
(***************************************************************************)
(* How the shape of an interface is rendered to be fingerprinted           *)
(* (crates/protocol/src/shape.rs).                                         *)
(***************************************************************************)
EXTENDS WitTypes, TLC

CONSTANT RenderPart(_)  \* the same of the types that a type is made of

\* A list of what is rendered, with commas.
Join(texts) ==
    LET upTo[i \in 0..Len(texts)] ==
            IF i = 0 THEN "" ELSE upTo[i - 1] \o (IF i = 1 THEN "" ELSE ",") \o texts[i]
    IN  upTo[Len(texts)]

\* Mutant: the length of a list is left out.
RenderNoLength(len) == ""

RenderLength(len) == "," \o ToString(len)

RenderAll(types) == "(" \o Join([i \in DOMAIN types |-> RenderPart(types[i])]) \o ")"
RenderArm(arm) == IF arm = <<>> THEN "_" ELSE RenderPart(arm[1])
RenderFields(fields) == Join([i \in DOMAIN fields |-> fields[i].name \o ":" \o RenderPart(fields[i].ty)])
RenderCase(c) == c.name \o (IF c.payload = <<>> THEN "" ELSE RenderAll(c.payload))

Render(t) ==
    CASE t.k = "list" -> "list<" \o RenderPart(t.of) \o ">"
      [] t.k = "fixed" -> "list<" \o RenderPart(t.of) \o RenderLength(t.len) \o ">"
      [] t.k = "tuple" -> "tuple" \o RenderAll(t.items)
      [] t.k = "record" -> "record{" \o RenderFields(t.fields) \o "}"
      [] t.k = "variant" -> "variant{" \o Join([i \in DOMAIN t.cases |-> RenderCase(t.cases[i])]) \o "}"
      [] t.k \in {"enum", "flags"} -> t.k \o "{" \o Join(t.names) \o "}"
      [] t.k = "option" -> "option<" \o RenderPart(t.of) \o ">"
      [] t.k = "result" -> "result<" \o RenderArm(t.ok) \o "," \o RenderArm(t.err) \o ">"
      [] OTHER -> t.k
=============================================================================

----------------------------- MODULE TypeLayer ------------------------------
(***************************************************************************)
(* Which types the protocol carries (WitType::from_component_type,         *)
(* crates/protocol/src/val.rs), and which are types.                       *)
(***************************************************************************)
EXTENDS WitTypes

CONSTANTS
    CarriablePart(_),  \* the same of the types that a type is made of
    IsTypePart(_)

Carriable(t) == t.k \notin Unsupported /\ \A p \in Parts(t) : CarriablePart(p)

AList(s) == s \in Seq(Range(s))
ListsNames(names) == AList(names) /\ \A i, j \in DOMAIN names : names[i] = names[j] => i = j
Optional(types) == AList(types) /\ Len(types) <= 1

\* Names differ.
IsType(t) ==
    /\ t.k \in Primitive \cup Unsupported
                 \cup {"list", "fixed", "tuple", "record", "variant", "enum", "flags", "option", "result"}
    /\ \A p \in Parts(t) : IsTypePart(p)
    /\ t.k = "fixed" => t.len \in Nat
    /\ t.k = "tuple" => AList(t.items)
    /\ t.k = "record" => AList(t.fields) /\ ListsNames([i \in DOMAIN t.fields |-> t.fields[i].name])
    /\ t.k = "variant" =>
          /\ AList(t.cases) /\ ListsNames([i \in DOMAIN t.cases |-> t.cases[i].name])
          /\ \A i \in DOMAIN t.cases : Optional(t.cases[i].payload)
    /\ t.k \in {"enum", "flags"} => ListsNames(t.names)
    /\ t.k = "result" => Optional(t.ok) /\ Optional(t.err)
=============================================================================

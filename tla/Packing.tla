------------------------------- MODULE Packing -------------------------------
(***************************************************************************)
(* What the encodings of the system have in common: MessagePack values,    *)
(* numbers of a width, and what may be absent or fail.                     *)
(*                                                                         *)
(* A MessagePack value is a record whose one field names what it is, as    *)
(* [int |-> 3]; a value of a WIT type is one whose first field does, as    *)
(* [u8 |-> 3].  What may be absent, or fail, is a sequence of at most one  *)
(* element.  Widths are small, and so is the set of strings; a float is    *)
(* numbered among those of its width.                                      *)
(***************************************************************************)
EXTENDS Integers, Sequences, Functions

CONSTANTS
    Bits,   \* the width of each integer type
    Chars   \* strings of one character

SignedInts == {"s8", "s16", "s32", "s64"}
UnsignedInts == {"u8", "u16", "u32", "u64"}
Floats == {"f32", "f64"}

ASSUME PackingAssumption ==
    /\ Bits \in [SignedInts \cup UnsignedInts -> Nat \ {0}]
    /\ \A k \in DOMAIN Bits : Bits[k] <= Bits["s64"] /\ Bits[k] <= Bits["u64"]

IntRange(k) ==
    IF k \in SignedInts THEN -(2^(Bits[k] - 1)) .. 2^(Bits[k] - 1) - 1 ELSE 0 .. 2^Bits[k] - 1

Is(value, kind) == kind \in DOMAIN value
Only(kind, content) == [x \in {kind} |-> content]

\* All of what may each have failed.
All(results) ==
    IF \E i \in DOMAIN results : results[i] = <<>> THEN <<>>
    ELSE << [i \in DOMAIN results |-> results[i][1]] >>

Map1(Op(_), maybe) == IF maybe = <<>> THEN <<>> ELSE << Op(maybe[1]) >>

\* The first to fail fails all.
Then(maybe, Op(_)) == IF maybe = <<>> THEN <<>> ELSE Op(maybe[1])

\* What is in a set.
If(maybe, S) == IF maybe # <<>> /\ maybe[1] \in S THEN maybe ELSE <<>>

\* The first that passes a test.
FirstOf(s, Test(_)) ==
    IF \E i \in DOMAIN s : Test(s[i])
    THEN << s[CHOOSE i \in DOMAIN s : Test(s[i]) /\ \A j \in 1..(i - 1) : ~Test(s[j])] >>
    ELSE <<>>

\* Those that are in a set.
Chosen(names, on) ==
    LET upTo[k \in 0..Len(names)] ==
            IF k = 0 THEN <<>> ELSE IF names[k] \in on THEN Append(upTo[k - 1], names[k]) ELSE upTo[k - 1]
    IN  upTo[Len(names)]

\* as_str, and the name and the payload of single_entry.
Text(w) == IF Is(w, "str") THEN << w.str >> ELSE <<>>
IsTagged(w) == Is(w, "map") /\ Len(w.map) = 1 /\ Is(w.map[1][1], "str")

\* The first entry under a key, and lookup: under that name.
Under(entries, key) == FirstOf(entries, LAMBDA e : e[1] = key)
Entry(entries, name) == Under(entries, [str |-> name])

\* Sequences of a member of each set, and of at most n members of one.
Product(sets) == {s \in [DOMAIN sets -> UNION Range(sets)] : \A i \in DOMAIN sets : s[i] \in sets[i]}
UpTo(n, S) == UNION {[1..k -> S] : k \in 0..n}
=============================================================================

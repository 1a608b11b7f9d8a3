-------------------------------- MODULE Names --------------------------------
(***************************************************************************)
(* How an interface is named and a function of it addressed                *)
(* (crates/protocol/src/iface.rs and subject.rs).                          *)
(*                                                                         *)
(* A text is a sequence of tokens: a separator or a word, which stands for *)
(* a run of characters that are none.  A dash separates only in a version: *)
(* the other names have theirs inside their words.  What may fail is a     *)
(* sequence of at most one element.                                        *)
(***************************************************************************)
EXTENDS Naturals, Sequences, SequencesExt

CONSTANT Numerals  \* words that are numbers without a leading zero

Separators == {".", "_", ":", "/", "@", "-", "+", "*"}

ASSUME NamesAssumption == Numerals \cap Separators = {}

\* What is before and after the first separator.
SplitOnce(text, sep) ==
    LET i == SelectInSeq(text, LAMBDA token : token = sep)
    IN  IF i = 0 THEN <<>>
        ELSE << <<SubSeq(text, 1, i - 1), SubSeq(text, i + 1, Len(text))>> >>

\* A separator begins another part, any other token goes on the last one.
PutToken(parts, token, sep) ==
    IF token = sep THEN Append(parts, <<>>) ELSE [parts EXCEPT ![Len(parts)] = Append(@, token)]

\* What is between the separators.
Split(text, sep) ==
    LET parts[n \in 0..Len(text)] ==
            IF n = 0 THEN << <<>> >> ELSE PutToken(parts[n - 1], text[n], sep)
    IN  parts[Len(text)]

-----------------------------------------------------------------------------
(* Version::parse.  A version prints as it was written, so it is its text. *)

IsIdentifiers(text) ==
    \A part \in ToSet(Split(text, ".")) : part # <<>> /\ ToSet(part) \cap (Separators \ {"-"}) = {}

IsVersion(text) ==
    LET build == SplitOnce(text, "+")
        release == IF build = <<>> THEN text ELSE build[1][1]
        pre == SplitOnce(release, "-")
        core == Split(IF pre = <<>> THEN release ELSE pre[1][1], ".")
    IN  /\ Len(core) = 3 /\ \A k \in 1..3 : Len(core[k]) = 1 /\ core[k][1] \in Numerals
        /\ \A part \in ToSet(pre) \cup ToSet(build) : IsIdentifiers(part[2])

-----------------------------------------------------------------------------
(* InterfaceId.                                                            *)

Id(namespace, package, interface, version) ==
    [namespace |-> namespace, package |-> package, interface |-> interface, version |-> version]

\* Without the version, as the registry has it.
BareName(id) == id.namespace \o <<":">> \o id.package \o <<"/">> \o id.interface

IdText(id) == BareName(id) \o <<"@">> \o id.version

ParseId(text) ==
    LET slash == SplitOnce(text, "/")
        colon == IF slash = <<>> THEN <<>> ELSE SplitOnce(slash[1][1], ":")
        at == IF slash = <<>> THEN <<>> ELSE SplitOnce(slash[1][2], "@")
        id == Id(colon[1][1], colon[1][2], at[1][1], at[1][2])
    IN  IF \/ colon = <<>> \/ at = <<>>
           \/ <<>> \in {id.namespace, id.package, id.interface}
           \/ ~IsVersion(id.version)
        THEN <<>>
        ELSE << id >>

-----------------------------------------------------------------------------
(* Subject.                                                                *)

\* Mutant: dots are left out.
DropDots(version) == SelectSeq(version, LAMBDA token : token # ".")

EncodeVersion(version) == ReplaceAll(version, ".", "_")
DecodeVersion(token) == ReplaceAll(token, "_", ".")

\* Mutant: the version is left out.
SubjectWithoutVersion(id, function) ==
    <<"wit", ".">> \o id.namespace \o <<".">> \o id.package \o <<".">> \o id.interface
        \o <<".">> \o function

Subject(id, function) ==
    <<"wit", ".">> \o id.namespace \o <<".">> \o id.package \o <<".">> \o EncodeVersion(id.version)
        \o <<".">> \o id.interface \o <<".">> \o function

Wildcard(id) == Subject(id, <<"*">>)

ParseSubject(text) ==
    LET parts == Split(text, ".")
    IN  IF Len(parts) # 6 \/ parts[1] # <<"wit">> \/ ~IsVersion(DecodeVersion(parts[4])) THEN <<>>
        ELSE << [interface |-> Id(parts[2], parts[3], parts[5], DecodeVersion(parts[4])),
                 function |-> parts[6]] >>

-----------------------------------------------------------------------------
(* The NATS server.                                                        *)

\* A star matches one token.
Matches(pattern, subject) ==
    LET p == Split(pattern, ".")
        s == Split(subject, ".")
    IN  /\ Len(p) = Len(s)
        /\ \A k \in DOMAIN p : p[k] = <<"*">> \/ p[k] = s[k]
=============================================================================

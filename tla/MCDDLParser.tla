---------------------------- MODULE MCDDLParser ----------------------------
(***************************************************************************)
(* Instances of DDLParser: well-formed documents built from a grammar, the *)
(* texts one edit away from them, and all short texts.                     *)
(***************************************************************************)
EXTENDS DDLParser

CONSTANT NoTree

Concat2(S, T) == {s \o t : s \in S, t \in T}

Name0 == {<<>>, <<"$", "id">>}
Props0 == {<<>>, <<"(", ")">>, <<"(", "id", "=", "num", ")">>, <<"(", "id", "=", "$", "id", ")">>}
Header0 == {<<"id">> \o n \o p : n \in Name0, p \in Props0}
Header1 == {<<"id">>, <<"id", "$", "id", "(", "id", "=", "num", ")">>}

Data == {<<"prim", "{", "num", "num", "}">>,
         <<"prim", "{", "}">>,
         <<"prim2", "{", "{", "num", "num", "},", "{", "num", "num", "}", "}">>}

\* header { body }
Structure(H, B) == {h \o <<"{">> \o b \o <<"}">> : h \in H, b \in B}

Leaf0 == Structure(Header0, Data)
Leaf1 == Structure({<<"id">>}, {<<"prim", "{", "num", "}">>})
Inner1 == Structure(Header1, Concat2(Leaf1, {<<>>} \cup Leaf1))
Mixed1 == Structure({<<"id">>}, Concat2(Leaf1, Data))
Inner2 == Structure({<<"id">>}, Concat2(Inner1, {<<>>} \cup Leaf1))

Nested == Structure({<<"id">>}, Structure({<<"id">>}, Leaf1))

MCDocuments == Nested \cup Leaf0 \cup Inner1 \cup Mixed1 \cup Inner2
                 \cup Concat2(Leaf1, Leaf1 \cup Mixed1)

Edits(b) ==
    {SubSeq(b, 1, i - 1) \o r \o SubSeq(b, i + d, Len(b)) :
        i \in DOMAIN b, d \in {0, 1}, r \in {<<>>} \cup {<<t>> : t \in Token}}
    \cup {SubSeq(b, 1, i) : i \in DOMAIN b}
EditsOf == {<<"id", "$", "id", "(", "id", "=", "num", ")", "{", "prim", "{", "num", "}", "}">>,
            <<"id", "{", "prim2", "{", "{", "num", "num", "},", "{", "num", "}", "}", "}">>}
           \cup Mixed1 \cup Concat2(Leaf1, Leaf1)
           \cup Nested

\* every text of up to four tokens
Short == UNION {[1 .. n -> Token] : n \in 0 .. 4}

\* a few texts of each kind, for a parser that is used again and again
Rejected == <<"id", "{", "id", "{", "prim", "(">>
Truncated == <<"id", "{", "id", "{">>
Headless == <<"id", "{", "{", "prim", "{", "num", "}", "}", "id", "{", "prim", "{", "num", "}", "}", "}">>
HeadlessTwice == <<"id", "{", "prim", "{", "}", "}", "{", "prim", "{", "num", "}", "}",
                   "$", "{", "prim", "{", "num", "}", "}">>
HeadlessBetween == <<"id", "{", "prim", "{", "num", "}", "}", "{", "prim", "{", "}", "}",
                     "id", "{", "prim", "{", "num", "}", "}">>
Remark == <<"//">>
MCReused == Structure({<<"id">>}, Leaf1)
              \cup {Rejected, Truncated, Headless, HeadlessTwice, HeadlessBetween,
                    Remark, Normalized(Remark)}

MCBuffers == MCReused \cup MCDocuments \cup UNION {Edits(b) : b \in EditsOf} \cup Short

Abstract == INSTANCE DDLDocument WITH
    Documents <- MCDocuments,
    text <- Normalized(buffer),
    busy <- pc # "idle",
    answer <- IF pc = "undefined" THEN "undefined" ELSE result,
    tree <- IF pc = "idle" /\ context # 0 THEN ReadTree ELSE NoTree

\* The parser keeps the promise of DDLDocument: on a well-formed text it ends
\* with success and the tree of the text, with comments in it or not, at a first
\* use or after other texts, accepted or not.
ImplementsDocument == Abstract!Spec
=============================================================================

----------------------------- MODULE MCDDLData -----------------------------
(* Lists of up to three literals, and arrays of up to three lists.         *)
EXTENDS DDLData

Concat(S, T) == {s \o t : s \in S, t \in T}
Words(S) == {<<l>> : l \in S}
Braced(S) == {<<"{">> \o s \o <<"}">> : s \in S}

Glue == {<<",">>, <<" ">>, <<",", " ">>, <<" ", ",">>}

Two == Concat(Words(Literal), Concat(Glue, Words(Literal)))
Three == Concat(Words({"int", "neg", "name", "word"}),
                Concat({<<",">>, <<" ">>}, Concat(Words({"hex", "str", "name"}),
                Concat({<<",">>, <<" ">>}, Words({"real", "name", "word"})))))
Lists == Braced({<<>>, <<" ">>} \cup Words(Literal) \cup Two \cup Three)

\* lists of lists
Short == Braced({<<>>} \cup Words({"int", "name", "word"})
                  \cup Concat(Words({"int", "name"}), Concat({<<",">>, <<" ">>}, Words({"real", "name"}))))
Arrays == Braced(Short \cup Concat(Short, Concat(Glue, Short))
                   \cup Concat(Short, Concat({<<",">>}, Concat(Braced({<<>>} \cup Words({"int", "name"})), Concat({<<",">>}, Short)))))

\* texts that were cut off
Cut == {SubSeq(t, 1, n) : t \in Braced(Braced(Two)), n \in 0 .. 6}

MCTexts == Lists \cup Arrays \cup Cut
=============================================================================

----------------------------- MODULE MCDDLHeader -----------------------------
(* DDLHeader for every text of up to four tokens, for headers put together *)
(* from a type, a name, a clause of properties and what follows, and for   *)
(* the headers the exporter writes with up to two properties.              *)
EXTENDS DDLHeader

Short == {t \in SeqOf(Token, 4) \ {<<>>} :
            \A i \in 2 .. Len(t) : ~(t[i - 1] = "=." /\ t[i] = "=.")}

Types  == {<<"id">>, <<"=">>, <<"$">>}
Names  == {<<>>, <<"$", "idx">>, <<"$", "(">>}
Keys   == {<<"id">>, <<"idx">>, <<"num">>, <<"id", "comma">>, <<"$">>}
Values == {<<v>> : v \in Token \ {"comma"}}
          \cup {<<"$", "id", "comma", "$", "idx">>, <<"$", "id", "comma", "num">>, <<"$", "id", "comma">>,
                <<"$", ")", "comma", "$", "$">>, <<"comma", "num">>, <<>>}
Tails  == {<<>>, <<")">>, <<"comma", "id", "=", "num", ")">>, <<")", "{">>, <<"num", ")">>}

Built == {t \o n \o <<"(">> \o k \o e \o v \o z :
            t \in Types, n \in Names, k \in Keys, e \in {<<"=">>, <<"=.">>},
            v \in Values \ {<<"=.">>}, z \in Tails}
MCTexts == Short \cup Built

Properties == [key : {"id", "idx"}, value : {"num", "neg", "real", "whole", "exp", "bool",
                                           "str", "quoted", "ref"}]
MCHeaders  == [type : {"id", "idx"}, name : {"empty", "id"}, props : SeqOf(Properties, 2)]
=============================================================================

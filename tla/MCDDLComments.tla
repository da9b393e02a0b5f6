--------------------------- MODULE MCDDLComments ---------------------------
(* DDLComments on every text of up to five characters, and on longer ones  *)
(* of those characters that open and close comments.                       *)
EXTENDS DDLComments
MCTexts == UNION {[1 .. n -> Char] : n \in 0 .. 5}
             \cup UNION {[1 .. n -> {"/", "*", "\n", "a"}] : n \in 6 .. 7}
=============================================================================

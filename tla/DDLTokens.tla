----------------------------- MODULE DDLTokens -----------------------------
(***************************************************************************)
(* A text buffer as the parser's character tests see it.  Tokens are set   *)
(* apart by blanks; a comma is a blank to lookForNextToken, so one is kept *)
(* only where the code looks for it: directly behind a closing brace.  The *)
(* text is over directly behind its last token.                            *)
(*                                                                         *)
(*   "id"     a word of several letters that begins with no type name      *)
(*   "prim"   a primitive type name, say float                             *)
(*   "prim0"  float[0]         "prim2"  float[2]                           *)
(*   "primcut" float[20, an array suffix without its bracket               *)
(*   "num"    a one-digit number                                           *)
(*   "},"     a closing brace with a comma directly behind it              *)
(*   "//"     a comment of either form                                     *)
(* and the characters { } $ ( ) = by themselves.                           *)
(***************************************************************************)
EXTENDS Integers, Sequences

Token == {"id", "prim", "prim0", "prim2", "primcut", "num",
          "{", "}", "},", "$", "(", ")", "=", "//"}

\* '}' whatever follows it
Closing == {"}", "},"}

\* a type name with an array suffix, and what begins with a letter or a digit
Suffixed == {"prim0", "prim2", "primcut"}
Alphanumeric == {"id", "prim", "num"} \cup Suffixed

\* normalizeBuffer: comments (and line ends, which are blanks here) are dropped
Normalized(buf) ==
    LET kept[i \in 0 .. Len(buf)] ==
          IF i = 0 THEN <<>>
          ELSE IF buf[i] = "//" THEN kept[i - 1] ELSE Append(kept[i - 1], buf[i])
    IN  kept[Len(buf)]

\* The character under the cursor i, and "end" where the buffer is over.
At(buf, i) == IF i \in DOMAIN buf THEN buf[i] ELSE "end"

(***************************************************************************)
(* parsePrimitiveDataType: the array length, -1 without a type, and the    *)
(* place behind the type.  The search for the bracket of an array suffix   *)
(* goes on over the rest of the buffer; at its end there is no type.       *)
(***************************************************************************)
PrimitiveType(buf, i) ==
    LET t == At(buf, i)
        closers == {j \in i + 1 .. Len(buf) : buf[j] \in {"prim0", "prim2"}}
        nearest == CHOOSE j \in closers : \A k \in closers : j <= k
    IN  CASE t = "prim"  -> [length |-> 1, next |-> i + 1]
          [] t = "prim0" -> [length |-> 0, next |-> i + 1]
          [] t = "prim2" -> [length |-> 2, next |-> i + 1]
          [] t = "primcut" -> IF closers # {} THEN [length |-> 20, next |-> nearest + 1]
                              ELSE [length |-> -1, next |-> Len(buf) + 1]
          [] OTHER -> [length |-> -1, next |-> i]

(***************************************************************************)
(* parseIdentifier: no Text at the end or before a number, an empty Text   *)
(* at a character that ends identifiers.  The [ of an array suffix ends    *)
(* one too: the cursor is then inside the token, and is left on it,        *)
(* because nothing the callers look for matches there either.              *)
(***************************************************************************)
Identifier(buf, i) ==
    LET t == At(buf, i) IN
    [text |-> CASE t \in {"end", "num"} -> "null"
                [] t \in {"id", "prim", "="} \cup Suffixed -> "word"
                [] OTHER -> "empty",
     next |-> IF t \in {"id", "prim", "="} THEN i + 1 ELSE i]

\* parseName: a Name is made when $ is followed by any Text, even an empty one.
Name(buf, i) ==
    IF At(buf, i) # "$" THEN [text |-> "null", next |-> i]
    ELSE Identifier(buf, i + 1)

(***************************************************************************)
(* parseProperty: key = number, or key = $name.  With the buffer over      *)
(* behind the equals sign getNextToken moves past its end.                 *)
(***************************************************************************)
PropertyAt(buf, i) ==
    LET key == Identifier(buf, i)
        val == key.next + 1
    IN  IF key.text = "null" \/ At(buf, key.next) # "="
        THEN [made |-> FALSE, next |-> key.next, overread |-> FALSE]
        ELSE IF At(buf, val) = "num"
        THEN [made |-> TRUE, next |-> val + 1, overread |-> FALSE]
        ELSE IF At(buf, val) = "end"
        THEN [made |-> FALSE, next |-> val + 1, overread |-> TRUE]
        ELSE [made |-> Name(buf, val).text # "null", next |-> Name(buf, val).next,
              overread |-> FALSE]

(***************************************************************************)
(* The property clause of parseHeader.  lookForNextToken skips commas, so  *)
(* after one property only ')' or the end is accepted: the loop turns at   *)
(* most once, and a property is kept only when ')' was found.              *)
(***************************************************************************)
Properties(buf, i) ==
    IF At(buf, i) # "(" THEN [ok |-> TRUE, made |-> FALSE, next |-> i, overread |-> FALSE]
    ELSE IF At(buf, i + 1) = ")"
    THEN [ok |-> TRUE, made |-> FALSE, next |-> i + 2, overread |-> FALSE]
    ELSE LET p == PropertyAt(buf, i + 1) IN
         [ok |-> At(buf, p.next) \in {")", "end"},
          made |-> p.made /\ At(buf, p.next) = ")",
          next |-> IF At(buf, p.next) = ")" THEN p.next + 1 ELSE p.next,
          overread |-> p.overread]
=============================================================================

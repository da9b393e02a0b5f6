---------------------------- MODULE DDLComments ----------------------------
(***************************************************************************)
(* OpenDDLParser::normalizeBuffer (code/OpenDDLParser.cpp) and the tests   *)
(* for comments it uses (OpenDDLParserUtils.h): parse() drops comments and *)
(* line ends from its buffer, character by character, before it reads it.  *)
(*                                                                         *)
(* A character is what those tests tell apart: a slash, a star, "\n",      *)
(* "\r", a letter "a", and any other ".".  The new buffer is kept as the   *)
(* positions its characters are copied from.                               *)
(***************************************************************************)
EXTENDS Integers, Sequences, SequencesExt

CONSTANT Texts  \* buffers that parse() is called on

Char == {"/", "*", "\n", "\r", "a", "."}

ASSUME TextsAssumption == Texts \subseteq Seq(Char)

VARIABLES
    text,   \* the buffer
    read,   \* readIdx
    kept,   \* newBuffer
    pc      \* the loop that runs: "scan", or "block" or "line" inside it; "done"

vars == <<text, read, kept, pc>>

At(i) == IF i \in DOMAIN text THEN text[i] ELSE "end"

IsNewLine(c) == c \in {"\n", "\r"}
IsEndofLine(c) == c = "\n"
IsCommentOpenTag(i) == At(i) = "/" /\ At(i + 1) = "*"

\* Some definitions are preceded by a variant with a plausible mistake.
CloseTagSlashOnly(i) == At(i) = "/"
IsCommentCloseTag(i) == At(i) = "*" /\ At(i + 1) = "/"

(***************************************************************************)
(* What isComment may return at i.  Two slashes are no comment when a      *)
(* letter and a slash follow, as in //c/.  Those two characters are read   *)
(* without a look at the end of the buffer: behind it, they are anything.  *)
(***************************************************************************)
Read(i) == IF i \in DOMAIN text THEN {text[i]} ELSE Char
IsComment(i) ==
    IF At(i) = "/" /\ At(i + 1) = "/"
    THEN {~(drive = "a" /\ behind = "/") : drive \in Read(i + 2), behind \in Read(i + 3)}
    ELSE {FALSE}

Init ==
    /\ text \in Texts
    /\ read = 1
    /\ kept = <<>>
    /\ pc = "scan"

\* One turn of the outer loop that finds no comment: the character is copied,
\* unless it ends a line.
NewLineOnly(c) == c = "\n"
Dropped(c) == IsNewLine(c)

Copy ==
    /\ pc = "scan"
    /\ read \in DOMAIN text
    /\ ~IsCommentOpenTag(read)
    /\ FALSE \in IsComment(read)
    /\ kept' = IF Dropped(text[read]) THEN kept ELSE Append(kept, read)
    /\ read' = read + 1
    /\ UNCHANGED <<text, pc>>

\* A comment opens.
Open ==
    /\ pc = "scan"
    /\ \/ IsCommentOpenTag(read) /\ pc' = "block"
       \/ ~IsCommentOpenTag(read) /\ TRUE \in IsComment(read) /\ pc' = "line"
    /\ read' = read + 1
    /\ UNCHANGED <<text, kept>>

\* The inner loop of a block comment, and the two increments that follow it
BehindCloseTag(i) == i + 2

Block ==
    /\ pc = "block"
    /\ IF read \in DOMAIN text /\ ~IsCommentCloseTag(read)
       THEN read' = read + 1 /\ UNCHANGED pc
       ELSE read' = BehindCloseTag(read) /\ pc' = "scan"
    /\ UNCHANGED <<text, kept>>

\* The inner loop of a line comment, and the increment of the outer loop
NotMoved(i) == i
Moved(i) == i + 1

Line ==
    /\ pc = "line"
    /\ IF read \in DOMAIN text /\ ~IsEndofLine(text[read])
       THEN read' = Moved(read) /\ UNCHANGED pc
       ELSE read' = read + 1 /\ pc' = "scan"
    /\ UNCHANGED <<text, kept>>

Return ==
    /\ pc = "scan"
    /\ read \notin DOMAIN text
    /\ pc' = "done"
    /\ UNCHANGED <<text, read, kept>>

Step == Copy \/ Open \/ Block \/ Line \/ Return
Next == Step
Spec == Init /\ [][Next]_vars /\ WF_vars(Step)

-----------------------------------------------------------------------------
\* Types of the variables: the cursor never gets further than three behind the end.
TypeOK ==
    /\ text \in Seq(Char)
    /\ read \in 1 .. Len(text) + 3
    /\ kept \in Seq(DOMAIN text)
    /\ pc \in {"scan", "block", "line", "done"}

\* normalizeBuffer only takes characters away: what it keeps keeps its order, no
\* character is copied twice or from ahead of the cursor, and no line end and no
\* slash that opens a block comment is ever copied.
OnlyRemoves ==
    /\ \A i, j \in DOMAIN kept : i < j => kept[i] < kept[j]
    /\ \A i \in DOMAIN kept : /\ kept[i] < read
                              /\ ~IsNewLine(text[kept[i]])
                              /\ ~IsCommentOpenTag(kept[i])

-----------------------------------------------------------------------------
(***************************************************************************)
(* What a comment is, read left to right with one character of memory: the *)
(* usual lexer of // and /* */ comments.                                   *)
(***************************************************************************)
Lex(s, i) ==
    LET c == text[i]
        none == IF IsNewLine(c) THEN {} ELSE {i}
    IN  CASE s.in = "text" /\ c = "/"   -> [s EXCEPT !.in = "slash"]
          [] s.in = "text" /\ c # "/"   -> [s EXCEPT !.out = @ \cup none]
          [] s.in = "slash" /\ c = "/"  -> [s EXCEPT !.in = "line"]
          [] s.in = "slash" /\ c = "*"  -> [s EXCEPT !.in = "block"]
          [] s.in = "slash" /\ c \notin {"/", "*"} ->
               [in |-> "text", out |-> s.out \cup {i - 1} \cup none]
          [] s.in = "line"              -> IF c = "\n" THEN [s EXCEPT !.in = "text"] ELSE s
          [] s.in = "star" /\ c = "/"   -> [s EXCEPT !.in = "text"]
          [] OTHER                      -> [s EXCEPT !.in = IF c = "*" THEN "star" ELSE "block"]

\* The lexer's states: before the first character, and behind each
Lexed ==
    LET lexed[i \in 0 .. Len(text)] ==
          IF i = 0 THEN [in |-> "text", out |-> {}] ELSE Lex(lexed[i - 1], i)
    IN  lexed

\* The positions outside comments
Uncommented ==
    LET s == Lexed[Len(text)]
    IN  s.out \cup (IF s.in = "slash" THEN {Len(text)} ELSE {})

Has(s) == \E i \in DOMAIN text : \A k \in DOMAIN s : At(i + k - 1) = s[k]

\* Texts on which the code has a view of its own: /*/ is a whole comment to it,
\* //c/ none, and // can be either within two characters of the end.
Peculiar ==
    \/ Has(<<"/", "*", "/">>)
    \/ Has(<<"/", "/", "a", "/">>)
    \/ Has(<<"/", "/", "end">>) \/ Has(<<"/", "/", "a", "end">>)

\* On any other text normalizeBuffer keeps exactly what is outside comments and
\* ends no line, whatever comments, half comments and cut-off comments it holds.
CommentsStripped ==
    /\ TypeOK
    /\ pc = "done" /\ ~Peculiar => ToSet(kept) = Uncommented

\* normalizeBuffer returns on every text.
Terminates == <>(pc = "done")
=============================================================================

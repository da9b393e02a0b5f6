------------------------- MODULE DDLCommentsProofs -------------------------
(***************************************************************************)
(* normalizeBuffer only takes characters away and keeps what a lexer finds *)
(* outside comments, whatever the text.                                    *)
(***************************************************************************)
EXTENDS DDLComments, Induction, TLAPS

\* The part of TypeOK the proof rests on; the cursor has no upper bound here.
Typed ==
    /\ text \in Seq(Char)
    /\ read \in Nat \ {0}
    /\ kept \in Seq(DOMAIN text)

\* A character copied from the cursor keeps the new buffer in order.
LEMMA AppendKept ==
    ASSUME Typed, OnlyRemoves, read \in DOMAIN text,
           ~IsNewLine(text[read]), ~IsCommentOpenTag(read)
    PROVE  LET s == Append(kept, read) IN
           /\ s \in Seq(DOMAIN text)
           /\ \A i, j \in DOMAIN s : i < j => s[i] < s[j]
           /\ \A i \in DOMAIN s : /\ s[i] < read + 1
                                  /\ ~IsNewLine(text[s[i]])
                                  /\ ~IsCommentOpenTag(s[i])
<1> DEFINE n == Len(kept)
           s == Append(kept, read)
<1>1. /\ n \in Nat /\ DOMAIN kept = 1 .. n
      /\ s \in Seq(DOMAIN text) /\ DOMAIN s = 1 .. n + 1
      /\ s[n + 1] = read
      /\ \A i \in 1 .. n : s[i] = kept[i] /\ kept[i] \in DOMAIN text
  BY DEF Typed
<1>2. DOMAIN text \subseteq Int /\ read \in Int
  BY DEF Typed
<1> HIDE DEF n, s
<1>3. \A i \in 1 .. n + 1 : i = n + 1 \/ i \in 1 .. n
  BY <1>1
<1>4. ASSUME NEW i \in DOMAIN s, NEW j \in DOMAIN s, i < j
      PROVE  s[i] < s[j]
  <2>1. i \in 1 .. n
    BY <1>4, <1>1
  <2>2. CASE j = n + 1
    BY <2>1, <2>2, <1>1 DEF OnlyRemoves
  <2>3. CASE j \in 1 .. n
    BY <2>1, <2>3, <1>1, <1>4 DEF OnlyRemoves
  <2> QED
    BY <2>2, <2>3, <1>3, <1>1
<1>5. ASSUME NEW i \in DOMAIN s
      PROVE  s[i] < read + 1 /\ ~IsNewLine(text[s[i]]) /\ ~IsCommentOpenTag(s[i])
  <2>1. CASE i = n + 1
    BY <2>1, <1>1, <1>2
  <2>2. CASE i \in 1 .. n
    <3>1. kept[i] < read /\ kept[i] \in Int
      BY <2>2, <1>1, <1>2 DEF OnlyRemoves
    <3> QED
      BY <3>1, <2>2, <1>1, <1>2 DEF OnlyRemoves
  <2> QED
    BY <2>1, <2>2, <1>3, <1>1
<1> QED
  BY <1>1, <1>4, <1>5 DEF s

\* Where only the cursor moves, it moves on.
LEMMA CursorMoves ==
    ASSUME Typed, OnlyRemoves, UNCHANGED <<text, kept>>,
           read' \in Nat, read' >= read
    PROVE  Typed' /\ OnlyRemoves'
<1>1. DOMAIN kept' = DOMAIN kept /\ \A i \in DOMAIN kept : kept[i] \in Int
  BY DEF Typed
<1>2. \A i : IsCommentOpenTag(i)' = IsCommentOpenTag(i)
  BY DEF IsCommentOpenTag, At
<1> QED
  BY <1>1, <1>2 DEF Typed, OnlyRemoves

\* For every text: what normalizeBuffer keeps is in the order of the text, taken
\* from behind the cursor, each character once, and no line end and no slash that
\* opens a block comment is among it.
THEOREM CommentsOnlyRemoved == Spec => []OnlyRemoves
<1>1. Init => Typed /\ OnlyRemoves
  BY TextsAssumption DEF Init, Typed, OnlyRemoves
<1>2. Typed /\ OnlyRemoves /\ [Next]_vars => Typed' /\ OnlyRemoves'
  <2> SUFFICES ASSUME Typed, OnlyRemoves, [Next]_vars
               PROVE  Typed' /\ OnlyRemoves'
    OBVIOUS
  <2>1. CASE Copy
    <3>1. read \in DOMAIN text /\ text' = text /\ read' = read + 1 /\ read + 1 >= read
      BY <2>1 DEF Copy, Typed
    <3>2. CASE Dropped(text[read])
      BY <2>1, <3>1, <3>2, CursorMoves DEF Copy, Typed
    <3>3. CASE ~Dropped(text[read])
      <4>1. kept' = Append(kept, read) /\ ~IsNewLine(text[read]) /\ ~IsCommentOpenTag(read)
        BY <2>1, <3>3 DEF Copy, Dropped
      <4>2. \A i : IsCommentOpenTag(i)' = IsCommentOpenTag(i)
        BY <3>1 DEF IsCommentOpenTag, At
      <4> QED
        BY <3>1, <4>1, <4>2, AppendKept DEF Typed, OnlyRemoves
    <3> QED
      BY <3>2, <3>3
  <2>2. CASE Open
    BY <2>2, CursorMoves DEF Open, Typed
  <2>3. CASE Block
    BY <2>3, CursorMoves DEF Block, BehindCloseTag, Typed
  <2>4. CASE Line
    BY <2>4, CursorMoves DEF Line, Moved, Typed
  <2>5. CASE Return
    BY <2>5, CursorMoves DEF Return, Typed
  <2>6. CASE UNCHANGED vars
    BY <2>6, CursorMoves DEF vars, Typed
  <2> QED
    BY <2>1, <2>2, <2>3, <2>4, <2>5, <2>6 DEF Next, Step
<1> QED
  BY <1>1, <1>2, PTL DEF Spec

-----------------------------------------------------------------------------
(***************************************************************************)
(* normalizeBuffer beside the lexer: in every state of the loops the lexer *)
(* has read what is before the cursor, and both have kept the same.  Only  *)
(* a slash the code has copied is still undecided for the lexer.           *)
(***************************************************************************)
In == Lexed[read - 1].in
Out == Lexed[read - 1].out
Kept == ToSet(kept)
AtEnd == read > Len(text) + 1

Scanning ==
    \/ In = "text" /\ Kept = Out
    \/ /\ In = "slash" /\ Kept = Out \cup {read - 1}
       /\ At(read - 1) = "/" /\ At(read) \notin {"/", "*"}

\* The comment was not closed.
CutOff ==
    /\ Lexed[Len(text)].in \in {"line", "block", "star"}
    /\ Kept = Lexed[Len(text)].out

InBlock ==
    /\ Kept = Out
    /\ \/ In = "slash" /\ At(read - 1) = "/" /\ At(read) = "*"
       \/ In = "block"
       \/ In = "star" /\ At(read - 1) = "*" /\ At(read) # "/"

InLine ==
    /\ Kept = Out
    /\ \/ In = "slash" /\ At(read - 1) = "/" /\ At(read) = "/"
       \/ In = "line"

Beside ==
    /\ pc = "scan" => IF AtEnd THEN CutOff ELSE Scanning
    /\ pc = "block" => read > 1 /\ ~AtEnd /\ InBlock
    /\ pc = "line"  => read > 1 /\ ~AtEnd /\ InLine
    /\ pc = "done"  => Kept = Uncommented

LexState == [in : {"text", "slash", "line", "block", "star"}, out : SUBSET Nat]

\* One character read by the lexer: its next state, and what it adds to the
\* positions kept
None(c, i) == IF IsNewLine(c) THEN {} ELSE {i}

LexesTo(s, t, c, i) ==
    /\ s.in = "text" /\ c = "/" => t.in = "slash" /\ t.out = s.out
    /\ s.in = "text" /\ c # "/" => t.in = "text" /\ t.out = s.out \cup None(c, i)
    /\ s.in = "slash" /\ c = "/" => t.in = "line" /\ t.out = s.out
    /\ s.in = "slash" /\ c = "*" => t.in = "block" /\ t.out = s.out
    /\ s.in = "slash" /\ c \notin {"/", "*"} =>
         t.in = "text" /\ t.out = s.out \cup {i - 1} \cup None(c, i)
    /\ s.in = "line" => t.in = (IF c = "\n" THEN "text" ELSE "line") /\ t.out = s.out
    /\ s.in = "star" /\ c = "/" => t.in = "text" /\ t.out = s.out
    /\ s.in \in {"star", "block"} /\ (s.in = "block" \/ c # "/") =>
         t.in = (IF c = "*" THEN "star" ELSE "block") /\ t.out = s.out

LEMMA LexStep ==
    ASSUME text \in Seq(Char), NEW i \in 1 .. Len(text), NEW s \in LexState, NEW c, c = text[i]
    PROVE  Lex(s, i) \in LexState /\ LexesTo(s, Lex(s, i), c, i)
<1> DEFINE t == Lex(s, i)
<1>1. PICK a, o : s = [in |-> a, out |-> o] /\ o \subseteq Nat
                  /\ a \in {"text", "slash", "line", "block", "star"}
  BY DEF LexState
<1>2. i \in Nat /\ i - 1 \in Nat /\ s.in = a /\ s.out = o
  BY <1>1
<1>3. CASE a = "text" /\ c = "/"
  <2>1. t = [in |-> "slash", out |-> o]
    BY <1>1, <1>3 DEF Lex
  <2> QED
    BY <2>1, <1>1, <1>3 DEF LexState, LexesTo
<1>4. CASE a = "text" /\ c # "/"
  <2>1. t = [in |-> "text", out |-> o \cup None(c, i)]
    BY <1>1, <1>4 DEF Lex, None
  <2> QED
    BY <2>1, <1>1, <1>2, <1>4 DEF LexState, LexesTo, None
<1>5. CASE a = "slash" /\ c = "/"
  <2>1. t = [in |-> "line", out |-> o]
    BY <1>1, <1>5 DEF Lex
  <2> QED
    BY <2>1, <1>1, <1>5 DEF LexState, LexesTo
<1>6. CASE a = "slash" /\ c = "*"
  <2>1. t = [in |-> "block", out |-> o]
    BY <1>1, <1>6 DEF Lex
  <2> QED
    BY <2>1, <1>1, <1>6 DEF LexState, LexesTo
<1>7. CASE a = "slash" /\ c \notin {"/", "*"}
  <2>1. t = [in |-> "text", out |-> o \cup {i - 1} \cup None(c, i)]
    BY <1>1, <1>7 DEF Lex, None
  <2> QED
    BY <2>1, <1>1, <1>2, <1>7 DEF LexState, LexesTo, None
<1>8. CASE a = "line"
  <2>1. t = [in |-> IF c = "\n" THEN "text" ELSE "line", out |-> o]
    BY <1>1, <1>8 DEF Lex
  <2> QED
    BY <2>1, <1>1, <1>8 DEF LexState, LexesTo
<1>9. CASE a = "star" /\ c = "/"
  <2>1. t = [in |-> "text", out |-> o]
    BY <1>1, <1>9 DEF Lex
  <2> QED
    BY <2>1, <1>1, <1>9 DEF LexState, LexesTo
<1>10. CASE a \in {"star", "block"} /\ (a = "block" \/ c # "/")
  <2>1. t = [in |-> IF c = "*" THEN "star" ELSE "block", out |-> o]
    BY <1>1, <1>10 DEF Lex
  <2> QED
    BY <2>1, <1>1, <1>10 DEF LexState, LexesTo
<1> QED
  BY <1>1, <1>3, <1>4, <1>5, <1>6, <1>7, <1>8, <1>9, <1>10

\* Lexed satisfies its equations.
LEMMA LexedIs ==
    ASSUME text \in Seq(Char)
    PROVE  /\ Lexed[0] = [in |-> "text", out |-> {}]
           /\ \A i \in 1 .. Len(text) : Lexed[i] = Lex(Lexed[i - 1], i)
           /\ \A i \in 0 .. Len(text) : Lexed[i] \in LexState
           /\ \A i \in 1 .. Len(text) : LexesTo(Lexed[i - 1], Lexed[i], text[i], i)
<1> DEFINE n == Len(text)
           start == [in |-> "text", out |-> {}]
           step == [x \in LexState \X (1 .. n) |-> Lex(x[1], x[2])]
           Def(l) == l = [i \in 0 .. n |-> IF i = 0 THEN start ELSE Lex(l[i - 1], i)]
<1>1. n \in Nat /\ DOMAIN text = 1 .. n
  OBVIOUS
<1>2. start \in LexState
  BY DEF LexState
<1>3. ASSUME NEW s \in LexState, NEW i \in 1 .. n PROVE Lex(s, i) \in LexState
  BY <1>1, <1>3, LexStep DEF n
<1> HIDE DEF n, start
<1>4. step \in [LexState \X (1 .. n) -> LexState]
  BY <1>3
<1>5. \A s \in LexState, i \in 1 .. n : step[<<s, i>>] = Lex(s, i)
  OBVIOUS
<1>6. PICK l \in [0 .. n -> LexState] : Recursive(l, start, step, n)
  <2> HIDE DEF step
  <2> QED
    BY <1>1, <1>2, <1>4, RecursiveFunction, Zenon
<1>7. Def(l)
  <2> HIDE DEF step
  <2>1. \A i \in 0 .. n : i # 0 => i \in 1 .. n /\ i - 1 \in 0 .. n
    BY <1>1
  <2>2. \A i \in 1 .. n : l[i] = Lex(l[i - 1], i)
    <3> SUFFICES ASSUME NEW i \in 1 .. n PROVE l[i] = Lex(l[i - 1], i)
      OBVIOUS
    <3>1. i \in 0 .. n /\ i # 0 /\ l[i - 1] \in LexState
      BY <1>1
    <3> QED
      BY <3>1, <1>5, <1>6 DEF Recursive
  <2> QED
    BY <2>1, <2>2, <1>6 DEF Recursive
<1>8. Def(Lexed)
  <2>1. \E f : Def(f)
    <3> HIDE DEF Def
    <3> QED
      BY <1>7
  <2>2. Def(CHOOSE f : Def(f))
    <3> HIDE DEF Def
    <3> QED
      BY <2>1, Zenon
  <2>3. Lexed = CHOOSE f : Def(f)
    BY Zenon DEF Lexed, n, start
  <2> QED
    BY <2>2, <2>3, Zenon
<1>9. Lexed[0] = start /\ \A i \in 1 .. n : Lexed[i] = Lex(Lexed[i - 1], i)
  <2>1. \A i \in 1 .. n : i \in 0 .. n /\ i # 0
    BY <1>1
  <2>2. 0 \in 0 .. n
    BY <1>1
  <2>3. \A f : Def(f) => f[0] = start /\ \A i \in 1 .. n : f[i] = Lex(f[i - 1], i)
    BY <2>1, <2>2
  <2> HIDE DEF Def
  <2> QED
    BY <1>8, <2>3
<1>10. \A i \in 0 .. n : Lexed[i] \in LexState
  <2> DEFINE T == {i \in 0 .. n : Lexed[i] \in LexState}
  <2>1. 0 \in T
    BY <1>1, <1>2, <1>9
  <2>2. \A i \in 0 .. n - 1 : i \in T => i + 1 \in T
    <3> SUFFICES ASSUME NEW i \in 0 .. n - 1, Lexed[i] \in LexState
                 PROVE  Lexed[i + 1] \in LexState
      BY <1>1
    <3>1. i + 1 \in 1 .. n /\ (i + 1) - 1 = i
      BY <1>1
    <3> QED
      BY <3>1, <1>3, <1>9
  <2> HIDE DEF T
  <2>3. \A i \in 0 .. n : i \in T
    BY <1>1, <2>1, <2>2, BoundedInduction
  <2> QED
    BY <2>3 DEF T
<1>11. \A i \in 1 .. n : LexesTo(Lexed[i - 1], Lexed[i], text[i], i)
  <2> SUFFICES ASSUME NEW i \in 1 .. n PROVE LexesTo(Lexed[i - 1], Lexed[i], text[i], i)
    OBVIOUS
  <2>1. i - 1 \in 0 .. n
    BY <1>1
  <2>2. Lexed[i - 1] \in LexState /\ Lexed[i] = Lex(Lexed[i - 1], i)
    BY <2>1, <1>9, <1>10
  <2> QED
    BY <2>2, LexStep DEF n
<1> QED
  BY <1>9, <1>10, <1>11 DEF n, start

-----------------------------------------------------------------------------
\* What the code tests is on the text.
LEMMA AtText ==
    ASSUME text \in Seq(Char), NEW i \in Int
    PROVE  /\ At(i) # "end" => i \in 1 .. Len(text) /\ At(i) = text[i]
           /\ i \in 1 .. Len(text) => At(i) = text[i] /\ At(i) # "end"
<1>1. DOMAIN text = 1 .. Len(text) /\ "end" \notin Char
  BY DEF Char
<1>2. \A k \in 1 .. Len(text) : text[k] \in Char
  OBVIOUS
<1> QED
  BY <1>1, <1>2 DEF At

\* Outside the peculiar texts two slashes are a comment for certain.
LEMMA SlashSlash ==
    ASSUME text \in Seq(Char), ~Peculiar, NEW i \in Int, At(i) = "/", At(i + 1) = "/"
    PROVE  FALSE \notin IsComment(i)
<1>1. i \in DOMAIN text /\ (i + 1) \in DOMAIN text /\ DOMAIN text = 1 .. Len(text)
  BY AtText
<1>0. ASSUME NEW x \in IsComment(i)
      PROVE  \E drive \in Read(i + 2), behind \in Read(i + 3) : x = ~(drive = "a" /\ behind = "/")
  BY DEF IsComment
<1> SUFFICES ASSUME FALSE \in IsComment(i) PROVE FALSE
  OBVIOUS
<1> PICK drive \in Read(i + 2), behind \in Read(i + 3) : FALSE = ~(drive = "a" /\ behind = "/")
  BY <1>0, Zenon
<1>6. drive = "a" /\ behind = "/"
  OBVIOUS
<1>2. i \in Nat /\ i + 1 - 1 = i /\ i + 2 - 1 = i + 1 /\ i + 3 - 1 = i + 2 /\ i + 4 - 1 = i + 3
  BY <1>1
<1>3. CASE i + 2 \notin DOMAIN text
  <2>1. At(i + 2) = "end"
    BY <1>3 DEF At
  <2>2. \A k \in DOMAIN <<"/", "/", "end">> : At(i + k - 1) = <<"/", "/", "end">>[k]
    BY <1>2, <2>1
  <2> QED
    BY <1>1, <2>2 DEF Peculiar, Has
<1>4. CASE i + 2 \in DOMAIN text /\ i + 3 \notin DOMAIN text
  <2>1. At(i + 2) = "a" /\ At(i + 3) = "end"
    BY <1>4, <1>6 DEF At, Read
  <2>2. \A k \in DOMAIN <<"/", "/", "a", "end">> : At(i + k - 1) = <<"/", "/", "a", "end">>[k]
    BY <1>2, <2>1
  <2> QED
    BY <1>1, <2>2 DEF Peculiar, Has
<1>5. CASE i + 2 \in DOMAIN text /\ i + 3 \in DOMAIN text
  <2>1. At(i + 2) = "a" /\ At(i + 3) = "/"
    BY <1>5, <1>6 DEF At, Read
  <2>2. \A k \in DOMAIN <<"/", "/", "a", "/">> : At(i + k - 1) = <<"/", "/", "a", "/">>[k]
    BY <1>2, <2>1
  <2> QED
    BY <1>1, <2>2 DEF Peculiar, Has
<1> QED
  BY <1>3, <1>4, <1>5

LEMMA SlashStarSlash ==
    ASSUME text \in Seq(Char), ~Peculiar, NEW i \in Int,
           At(i) = "/", At(i + 1) = "*", At(i + 2) = "/"
    PROVE  FALSE
<1>1. i \in DOMAIN text /\ i \in Nat /\ i + 1 - 1 = i /\ i + 2 - 1 = i + 1 /\ i + 3 - 1 = i + 2
  BY AtText
<1>2. \A k \in DOMAIN <<"/", "*", "/">> : At(i + k - 1) = <<"/", "*", "/">>[k]
  BY <1>1
<1> QED
  BY <1>1, <1>2 DEF Peculiar, Has

\* The lexer reads the character under the cursor.
LEMMA Reads ==
    ASSUME Typed, ~AtEnd, read \in DOMAIN text
    PROVE  /\ read \in 1 .. Len(text) /\ read + 1 - 1 = read
           /\ LexesTo(Lexed[read - 1], Lexed[read], text[read], read)
           /\ At(read) = text[read] /\ text[read] # "end"
<1>1. read \in 1 .. Len(text) /\ read + 1 - 1 = read
  BY DEF Typed
<1> QED
  BY <1>1, LexedIs, AtText DEF Typed

LEMMA AppendToSet ==
    ASSUME NEW S, NEW s \in Seq(S), NEW x \in S
    PROVE  ToSet(Append(s, x)) = ToSet(s) \cup {x}
<1> DEFINE n == Len(s)
           t == Append(s, x)
<1>1. /\ n \in Nat /\ DOMAIN s = 1 .. n /\ DOMAIN t = 1 .. n + 1
      /\ t[n + 1] = x /\ \A i \in 1 .. n : t[i] = s[i]
  OBVIOUS
<1> HIDE DEF n, t
<1>2. \A i \in 1 .. n + 1 : i = n + 1 \/ i \in 1 .. n
  BY <1>1
<1>3. n + 1 \in 1 .. n + 1 /\ \A i \in 1 .. n : i \in 1 .. n + 1
  BY <1>1
<1>4. ToSet(t) = ToSet(s) \cup {x}
  BY <1>1, <1>2, <1>3 DEF ToSet
<1> QED
  BY <1>4 DEF t

LEMMA BesideCopy ==
    ASSUME Typed, Typed', ~Peculiar, Beside, Copy
    PROVE  Beside'
<1> DEFINE c == text[read]
<1>1. /\ pc = "scan" /\ read \in DOMAIN text /\ text' = text /\ pc' = "scan"
      /\ read' = read + 1 /\ read \in 1 .. Len(text) /\ DOMAIN text = 1 .. Len(text)
      /\ kept' = IF Dropped(c) THEN kept ELSE Append(kept, read)
  BY DEF Copy, Typed
<1>2. ~AtEnd /\ ~AtEnd' /\ Scanning
  BY <1>1 DEF AtEnd, Beside
<1>3. LexesTo(Lexed[read - 1], Lexed[read], c, read) /\ At(read) = c /\ read + 1 - 1 = read
  BY <1>1, <1>2, Reads
<1>4. Kept' = Kept \cup None(c, read)
  <2>1. CASE Dropped(c)
    BY <2>1, <1>1 DEF Kept, None, Dropped
  <2>2. CASE ~Dropped(c)
    <3>1. kept' = Append(kept, read) /\ kept \in Seq(DOMAIN text) /\ read \in DOMAIN text
      BY <2>2, <1>1 DEF Typed
    <3>2. ToSet(kept') = ToSet(kept) \cup {read}
      <4>1. ToSet(Append(kept, read)) = ToSet(kept) \cup {read}
        BY <3>1, AppendToSet
      <4> QED
        BY <3>1, <4>1
    <3> QED
      BY <3>2, <2>2 DEF Kept, None, Dropped
  <2> QED
    BY <2>1, <2>2
<1>5. Lexed' = Lexed
  BY <1>1 DEF Lexed, Lex
<1>6. At(read + 1) # "*" \/ c # "/"
  BY <1>3 DEF Copy, IsCommentOpenTag
<1>7. At(read + 1) # "/" \/ c # "/"
  <2>1. FALSE \in IsComment(read)
    BY Zenon DEF Copy
  <2>2. read \in Int /\ text \in Seq(Char)
    BY DEF Typed
  <2> QED
    BY <2>1, <2>2, <1>3, SlashSlash, Zenon
<1>8. In' = Lexed[read].in /\ Out' = Lexed[read].out
  BY <1>1, <1>3, <1>5 DEF In, Out
<1>9. At(read - 1)' = c /\ At(read)' = At(read + 1) /\ (read - 1)' = read
  BY <1>1, <1>3 DEF At
<1>10. Scanning'
  <2>1. CASE c = "/"
    <3>1. In = "text" /\ Kept = Out
      BY <2>1, <1>2, <1>3 DEF Scanning
    <3>2. In' = "slash" /\ Out' = Out /\ ~IsNewLine(c)
      BY <3>1, <2>1, <1>3, <1>8 DEF LexesTo, In, Out, IsNewLine
    <3>3. Kept' = Out' \cup {read' - 1}
      BY <3>1, <3>2, <1>1, <1>3, <1>4 DEF None
    <3>4. At(read)' \notin {"/", "*"} /\ At(read - 1)' = "/"
      BY <1>6, <1>7, <1>9, <2>1
    <3> QED
      BY <3>2, <3>3, <3>4 DEF Scanning
  <2>2. CASE c # "/" /\ In = "text" /\ Kept = Out
    <3>1. In' = "text" /\ Out' = Out \cup None(c, read)
      BY <2>2, <1>3, <1>8 DEF LexesTo, In, Out
    <3> QED
      BY <3>1, <2>2, <1>4 DEF Scanning
  <2>3. CASE c # "/" /\ In = "slash" /\ Kept = Out \cup {read - 1} /\ At(read) \notin {"/", "*"}
    <3>1. In' = "text" /\ Out' = Out \cup {read - 1} \cup None(c, read)
      BY <2>3, <1>3, <1>8 DEF LexesTo, In, Out
    <3> QED
      BY <3>1, <2>3, <1>4 DEF Scanning
  <2> QED
    BY <2>1, <2>2, <2>3, <1>2 DEF Scanning
<1> QED
  BY <1>1, <1>2, <1>10 DEF Beside

\* A comment only opens at a slash.
LEMMA OpensAtSlash ==
    ASSUME Typed, Open
    PROVE  /\ pc = "scan" /\ At(read) = "/" /\ read \in DOMAIN text
           /\ At(read + 1) = IF pc' = "block" THEN "*" ELSE "/"
           /\ pc' \in {"block", "line"}
<1>1. CASE IsCommentOpenTag(read) /\ pc' = "block"
  BY <1>1, AtText DEF Open, IsCommentOpenTag, Typed
<1>2. CASE ~IsCommentOpenTag(read) /\ TRUE \in IsComment(read) /\ pc' = "line"
  <2>1. At(read) = "/" /\ At(read + 1) = "/"
    <3> SUFFICES ASSUME ~(At(read) = "/" /\ At(read + 1) = "/") PROVE FALSE
      OBVIOUS
    <3> DEFINE two == At(read) = "/" /\ At(read + 1) = "/"
               some == {~(drive = "a" /\ behind = "/") :
                          drive \in Read(read + 2), behind \in Read(read + 3)}
    <3>0. IsComment(read) = IF two THEN some ELSE {FALSE}
      BY DEF IsComment
    <3>1. IsComment(read) = {FALSE}
      <4> HIDE DEF two, some
      <4>1. ~two
        BY DEF two
      <4> QED
        BY <3>0, <4>1, Zenon
    <3> QED
      BY <1>2, <3>1, Zenon
  <2> QED
    BY <1>2, <2>1, AtText DEF Open, Typed
<1> QED
  BY <1>1, <1>2, Zenon DEF Open

\* What the lexer has read stays as it is while the text does.
LEMMA LexedKept ==
    ASSUME text' = text
    PROVE  Lexed' = Lexed
BY DEF Lexed, Lex

LEMMA BesideOpen ==
    ASSUME Typed, Beside, Open
    PROVE  Beside'
<1>1. /\ pc = "scan" /\ At(read) = "/" /\ read \in DOMAIN text
      /\ At(read + 1) = IF pc' = "block" THEN "*" ELSE "/"
      /\ pc' \in {"block", "line"}
  BY OpensAtSlash
<1>2. /\ text' = text /\ kept' = kept /\ read' = read + 1
      /\ DOMAIN text = 1 .. Len(text) /\ Len(text) \in Nat /\ read \in Int
  BY DEF Open, Typed
<1>3. ~AtEnd /\ ~AtEnd' /\ read' > 1 /\ Scanning
  BY <1>1, <1>2 DEF AtEnd, Beside
<1>4. LexesTo(Lexed[read - 1], Lexed[read], "/", read) /\ read + 1 - 1 = read
  BY <1>1, <1>3, Reads
<1>5. In = "text" /\ Kept = Out
  BY <1>1, <1>3 DEF Scanning
<1>6. In' = Lexed[read].in /\ Out' = Lexed[read].out /\ Kept' = Kept
  BY <1>2, <1>4, LexedKept DEF In, Out, Kept
<1>7. In' = "slash" /\ Out' = Out
  BY <1>4, <1>5, <1>6 DEF LexesTo, In, Out
<1>8. At(read - 1)' = "/" /\ At(read)' = At(read + 1)
  BY <1>1, <1>2, <1>4 DEF At
<1> QED
  BY <1>1, <1>3, <1>5, <1>6, <1>7, <1>8 DEF Beside, InBlock, InLine

\* Behind the last character, the lexer's state is its last one.
LEMMA BehindText ==
    ASSUME Typed, ~AtEnd, read \notin DOMAIN text
    PROVE  read - 1 = Len(text) /\ At(read) = "end"
<1>1. DOMAIN text = 1 .. Len(text) /\ Len(text) \in Nat
  BY DEF Typed
<1> QED
  BY <1>1 DEF Typed, AtEnd, At

LEMMA BesideBlock ==
    ASSUME Typed, ~Peculiar, Beside, Block
    PROVE  Beside'
<1>1. /\ pc = "block" /\ text' = text /\ kept' = kept /\ read > 1 /\ ~AtEnd /\ InBlock
      /\ DOMAIN text = 1 .. Len(text) /\ Len(text) \in Nat /\ read \in Int
  BY DEF Block, Beside, Typed
<1>2. Kept' = Kept /\ Lexed' = Lexed /\ Kept = Out
  BY <1>1, LexedKept DEF Kept, InBlock
<1>3. CASE read \in DOMAIN text /\ ~IsCommentCloseTag(read)
  <2>1. read' = read + 1 /\ pc' = "block" /\ ~AtEnd' /\ read' > 1
    BY <1>1, <1>3 DEF Block, AtEnd
  <2>2. LexesTo(Lexed[read - 1], Lexed[read], At(read), read) /\ read + 1 - 1 = read
    BY <1>1, <1>3, Reads
  <2>3. In' = Lexed[read].in /\ Out' = Lexed[read].out
    <3>1. read' - 1 = read
      BY <1>1, <2>1
    <3> QED
      BY <1>2, <3>1 DEF In, Out
  <2>4. At(read - 1)' = At(read) /\ At(read)' = At(read + 1)
    BY <1>1, <2>1, <2>2 DEF At
  <2>5. CASE In = "slash" /\ At(read) = "*"
    BY <1>1, <1>2, <2>1, <2>2, <2>3, <2>5 DEF LexesTo, In, Out, Beside, InBlock
  <2>6. CASE In = "block" \/ (In = "star" /\ At(read) # "/")
    <3>1. Out' = Out /\ In' = IF At(read) = "*" THEN "star" ELSE "block"
      BY <2>2, <2>3, <2>6 DEF LexesTo, In, Out
    <3>2. At(read) = "*" => At(read + 1) # "/"
      BY <1>3 DEF IsCommentCloseTag
    <3> QED
      BY <1>2, <2>1, <2>4, <3>1, <3>2 DEF Beside, InBlock
  <2> QED
    BY <1>1, <2>5, <2>6 DEF InBlock
<1>4. CASE read \in DOMAIN text /\ IsCommentCloseTag(read)
  <2>1. read' = read + 2 /\ pc' = "scan" /\ At(read) = "*" /\ At(read + 1) = "/"
    BY <1>1, <1>4 DEF Block, BehindCloseTag, IsCommentCloseTag
  <2>2. read + 1 \in 1 .. Len(text) /\ text[read + 1] = "/" /\ text[read] = "*"
    BY <1>1, <1>4, <2>1, AtText DEF Typed
  <2>3. ~AtEnd' /\ read' - 1 = read + 1 /\ (read + 1) - 1 = read
    BY <1>1, <2>1, <2>2 DEF AtEnd
  <2>4. In # "slash"
    <3>1. (read - 1) + 1 = read /\ (read - 1) + 2 = read + 1 /\ read - 1 \in Int /\ text \in Seq(Char)
      BY <1>1 DEF Typed
    <3> QED
      BY <1>1, <2>1, <3>1, SlashStarSlash DEF InBlock
  <2>5. /\ LexesTo(Lexed[read - 1], Lexed[read], "*", read)
        /\ LexesTo(Lexed[read], Lexed[read + 1], "/", read + 1)
    BY <1>1, <1>4, <2>2, <2>3, LexedIs DEF Typed
  <2>6. Lexed[read].in = "star" /\ Lexed[read].out = Out
    BY <1>1, <2>1, <2>4, <2>5 DEF LexesTo, In, Out, InBlock
  <2>7. Lexed[read + 1].in = "text" /\ Lexed[read + 1].out = Out
    BY <2>5, <2>6 DEF LexesTo
  <2>8. In' = "text" /\ Out' = Out
    BY <1>2, <2>3, <2>7 DEF In, Out
  <2> QED
    BY <1>2, <2>1, <2>3, <2>8 DEF Beside, Scanning
<1>5. CASE read \notin DOMAIN text
  <2>1. read' = read + 2 /\ pc' = "scan" /\ read - 1 = Len(text) /\ At(read) = "end"
    BY <1>1, <1>5, BehindText DEF Block, BehindCloseTag
  <2>2. AtEnd'
    BY <1>1, <2>1 DEF AtEnd
  <2>3. In \in {"block", "star"}
    BY <1>1, <2>1 DEF InBlock
  <2>4. CutOff'
    BY <1>1, <1>2, <2>1, <2>3 DEF CutOff, In, Out
  <2> QED
    BY <2>1, <2>2, <2>4 DEF Beside
<1> QED
  BY <1>3, <1>4, <1>5

LEMMA BesideLine ==
    ASSUME Typed, Beside, Line
    PROVE  Beside'
<1>1. /\ pc = "line" /\ text' = text /\ kept' = kept /\ read > 1 /\ ~AtEnd /\ InLine
      /\ DOMAIN text = 1 .. Len(text) /\ Len(text) \in Nat /\ read \in Int /\ read' = read + 1
  BY DEF Line, Moved, Beside, Typed
<1>2. Kept' = Kept /\ Lexed' = Lexed /\ Kept = Out
  BY <1>1, LexedKept DEF Kept, InLine
<1>3. CASE read \in DOMAIN text
  <2>1. ~AtEnd' /\ read' > 1 /\ At(read) = text[read]
    BY <1>1, <1>3 DEF AtEnd, At
  <2>2. LexesTo(Lexed[read - 1], Lexed[read], At(read), read) /\ read + 1 - 1 = read
    BY <1>1, <1>3, Reads
  <2>3. In' = Lexed[read].in /\ Out' = Lexed[read].out
    BY <1>1, <1>2, <2>2 DEF In, Out
  <2>4. In = "line" \/ (In = "slash" /\ At(read) = "/")
    BY <1>1 DEF InLine
  <2>5. Out' = Out /\ In' = IF In = "line" /\ At(read) = "\n" THEN "text" ELSE "line"
    BY <2>2, <2>3, <2>4 DEF LexesTo, In, Out
  <2>6. CASE At(read) = "\n"
    <3>1. pc' = "scan" /\ In' = "text"
      BY <1>1, <1>3, <2>1, <2>4, <2>5, <2>6 DEF Line, IsEndofLine
    <3> QED
      BY <1>2, <2>1, <2>5, <3>1 DEF Beside, Scanning
  <2>7. CASE At(read) # "\n"
    <3>1. pc' = "line" /\ In' = "line"
      BY <1>1, <1>3, <2>1, <2>5, <2>7 DEF Line, IsEndofLine
    <3> QED
      BY <1>2, <2>1, <2>5, <3>1 DEF Beside, InLine
  <2> QED
    BY <2>6, <2>7
<1>4. CASE read \notin DOMAIN text
  <2>1. pc' = "scan" /\ read - 1 = Len(text) /\ At(read) = "end"
    BY <1>1, <1>4, BehindText DEF Line
  <2>2. AtEnd'
    BY <1>1, <2>1 DEF AtEnd
  <2>3. In = "line"
    BY <1>1, <2>1 DEF InLine
  <2>4. CutOff'
    BY <1>1, <1>2, <2>1, <2>3 DEF CutOff, In, Out
  <2> QED
    BY <2>1, <2>2, <2>4 DEF Beside
<1> QED
  BY <1>3, <1>4

LEMMA BesideReturn ==
    ASSUME Typed, Beside, Return
    PROVE  Beside'
<1>1. /\ pc = "scan" /\ pc' = "done" /\ read \notin DOMAIN text
      /\ text' = text /\ kept' = kept
  BY DEF Return
<1>2. Lexed' = Lexed /\ Uncommented' = Uncommented /\ Kept' = Kept
  BY <1>1, LexedKept DEF Uncommented, Kept
<1>3. Kept = Uncommented
  <2>1. CASE AtEnd
    BY <1>1, <2>1 DEF Beside, CutOff, Uncommented
  <2>2. CASE ~AtEnd
    <3>1. read - 1 = Len(text) /\ Scanning
      BY <1>1, <2>2, BehindText DEF Beside
    <3> QED
      BY <3>1 DEF Scanning, Uncommented, In, Out
  <2> QED
    BY <2>1, <2>2
<1> QED
  BY <1>1, <1>2, <1>3 DEF Beside

\* How far the cursor gets in each loop.
Bounded ==
    /\ pc \in {"scan", "block", "line", "done"}
    /\ pc \in {"block", "line"} => read <= Len(text) + 1
    /\ read <= Len(text) + 3

\* For every text: normalizeBuffer keeps exactly what the lexer calls outside
\* comments, unless the text is one the code has a view of its own on.
THEOREM CommentsAreStripped == Spec => []CommentsStripped
<1> DEFINE IInv == Typed /\ Bounded /\ (~Peculiar => Beside)
<1>1. Init => IInv
  <2> SUFFICES ASSUME Init PROVE IInv
    OBVIOUS
  <2>1. text \in Seq(Char) /\ read = 1 /\ kept = <<>> /\ pc = "scan"
    BY TextsAssumption DEF Init
  <2>2. Typed /\ Bounded /\ ~AtEnd
    BY <2>1 DEF Typed, Bounded, AtEnd
  <2>3. Lexed[0] = [in |-> "text", out |-> {}]
    BY <2>1, LexedIs
  <2>4. ToSet(<<>>) = {}
    BY DEF ToSet
  <2>5. In = "text" /\ Out = {} /\ Kept = {}
    BY <2>1, <2>3, <2>4 DEF In, Out, Kept
  <2> QED
    BY <2>1, <2>2, <2>5 DEF Beside, Scanning
<1>2. IInv /\ [Next]_vars => IInv'
  <2> SUFFICES ASSUME IInv, [Next]_vars PROVE IInv'
    OBVIOUS
  <2>1. text' = text
    BY DEF Next, Step, Copy, Open, Block, Line, Return, vars
  <2>2. Peculiar' = Peculiar
    BY <2>1 DEF Peculiar, Has, At
  <2>3. /\ DOMAIN text = 1 .. Len(text) /\ Len(text) \in Nat /\ read \in Nat \ {0}
        /\ Len(text)' = Len(text)
    BY <2>1 DEF Typed
  <2>4. CASE Copy
    <3>1. Typed'
      <4>1. read \in DOMAIN text /\ read' \in Nat \ {0}
        BY <2>3, <2>4 DEF Copy
      <4>2. CASE kept' = kept
        BY <2>1, <4>1, <4>2 DEF Typed
      <4>3. CASE kept' = Append(kept, read)
        BY <2>1, <4>1, <4>3 DEF Typed
      <4> QED
        BY <2>4, <4>2, <4>3 DEF Copy
    <3>2. Bounded'
      BY <2>3, <2>4, <2>1 DEF Copy, Bounded
    <3> QED
      BY <2>2, <2>4, <3>1, <3>2, BesideCopy
  <2>5. CASE Open
    <3>1. read \in DOMAIN text /\ pc' \in {"block", "line"} /\ read' = read + 1 /\ kept' = kept
      BY <2>5, OpensAtSlash DEF Open
    <3>2. Typed' /\ Bounded'
      BY <2>1, <2>3, <3>1 DEF Typed, Bounded
    <3> QED
      BY <2>2, <2>5, <3>2, BesideOpen
  <2>6. CASE Block
    <3>1. Typed' /\ Bounded'
      BY <2>1, <2>3, <2>6 DEF Block, BehindCloseTag, Typed, Bounded
    <3> QED
      BY <2>2, <2>6, <3>1, BesideBlock
  <2>7. CASE Line
    <3>1. Typed' /\ Bounded'
      BY <2>1, <2>3, <2>7 DEF Line, Moved, Typed, Bounded
    <3> QED
      BY <2>2, <2>7, <3>1, BesideLine
  <2>8. CASE Return
    <3>1. Typed' /\ Bounded'
      BY <2>1, <2>3, <2>8 DEF Return, Typed, Bounded
    <3> QED
      BY <2>2, <2>8, <3>1, BesideReturn
  <2>9. CASE UNCHANGED vars
    <3>1. Typed' /\ Bounded'
      BY <2>1, <2>3, <2>9 DEF vars, Typed, Bounded
    <3>2. Lexed' = Lexed /\ UNCHANGED <<pc, kept, read, text>>
      BY <2>9, LexedKept DEF vars
    <3>3. In' = In /\ Out' = Out /\ Kept' = Kept /\ Uncommented' = Uncommented
      BY <3>2 DEF In, Out, Kept, Uncommented
    <3>4. /\ At(read)' = At(read) /\ At(read - 1)' = At(read - 1)
          /\ AtEnd' = AtEnd /\ CutOff' = CutOff
      BY <3>2, <3>3 DEF At, AtEnd, CutOff
    <3>5. Scanning' = Scanning /\ InBlock' = InBlock /\ InLine' = InLine
      BY <3>2, <3>3, <3>4 DEF Scanning, InBlock, InLine
    <3>6. (~Peculiar => Beside) => (~Peculiar' => Beside')
      BY <2>2, <3>2, <3>3, <3>4, <3>5 DEF Beside
    <3> QED
      BY <3>1, <3>6
  <2> QED
    BY <2>4, <2>5, <2>6, <2>7, <2>8, <2>9 DEF Next, Step
<1>3. IInv => CommentsStripped
  <2> SUFFICES ASSUME IInv PROVE CommentsStripped
    OBVIOUS
  <2>1. TypeOK
    BY DEF TypeOK, Typed, Bounded
  <2> QED
    BY <2>1 DEF CommentsStripped, Beside, Kept
<1> QED
  BY <1>1, <1>2, <1>3, PTL DEF Spec
=============================================================================

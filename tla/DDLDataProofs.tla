--------------------------- MODULE DDLDataProofs ---------------------------
(***************************************************************************)
(* Data lists, and lists of lists, for texts of every length.              *)
(***************************************************************************)
EXTENDS DDLData, Induction, SequenceTheorems, TLAPS

Place == DOMAIN text
N == Len(lists)

\* parseDataList is under way.
Open == pc \in {"item", "reference", "closed", "returned"}

\* s is the chain of nx from head on, with num values.
Chained(s, head, num, nx) ==
    /\ Len(s) = num
    /\ head = IF Len(s) = 0 THEN 0 ELSE s[1]
    /\ \A i \in 1 .. Len(s) : nx[s[i]] = IF i < Len(s) THEN s[i + 1] ELSE 0

Increasing(s) == \A j \in 1 .. Len(s) : \A i \in 1 .. j - 1 : s[i] < s[j]
Before(s, t) == \A i \in 1 .. Len(s), j \in 1 .. Len(t) : s[i] < t[j]

\* c has the chain of each list, and last the one under way.
Chains(c) ==
    /\ c \in [1 .. N + 1 -> Seq(Place)]
    /\ \A k \in 1 .. N : Chained(c[k], lists[k].head, lists[k].num, next)
    /\ Open => /\ Chained(c[N + 1], data, numValues, next)
               /\ Len(c[N + 1]) # 0 => prev = c[N + 1][Len(c[N + 1])]
    /\ ~Open => c[N + 1] = <<>>
    /\ \A k \in 1 .. N + 1 : Increasing(c[k]) /\ \A l \in 1 .. k - 1 : Before(c[l], c[k])
    /\ made = UNION {Range(c[k]) : k \in 1 .. N + 1}
    /\ \A x \in made : x < in
    /\ \A x \in Place : x \notin made => next[x] = 0

Entry == [head : Pointer, num : Pointer, refs : Seq(Place), numRefs : Pointer]

\* What the cursor bounds: it is beyond the end behind an array only.
Inside ==
    /\ in \in 1 .. Len(text) + 2
    /\ ~(array /\ Done) => in \in 1 .. Len(text) + 1
    /\ numValues \in Pointer /\ numRefs \in Pointer

Typed ==
    /\ text \in Texts /\ type \in Type /\ array \in BOOLEAN
    /\ Inside
    /\ pc \in {"begin", "list", "item", "reference", "closed", "returned", "done", "iterating"}
    /\ made \subseteq Place /\ allNames \subseteq Place
    /\ next \in [Place -> Pointer]
    /\ data \in Pointer /\ prev \in Pointer
    /\ numValues \in 0 .. in - 1
    /\ names \in Seq(Place) /\ Len(names) < in
    /\ refs \in Seq(Place) /\ numRefs \in 0 .. in - 1
    /\ \A i \in 1 .. Len(names) : names[i] \in allNames
    /\ lists \in Seq(Entry)
    /\ current \in Pointer /\ seen \in Seq(Place)

\* Names are read in lists of references only, values in the others only.
Kinds ==
    /\ type = "ref" => data = 0
    /\ type # "ref" => /\ allNames = {} /\ numRefs = 0 /\ pc # "reference"
                       /\ \A k \in 1 .. N : lists[k].numRefs = 0
    /\ pc # "reference" => names = <<>>
    /\ numRefs # 0 => Len(refs) = numRefs

\* The names in the lists, and in the Reference of the one under way
RefNames == UNION {Range(lists[k].refs) : k \in {l \in DOMAIN lists : lists[l].numRefs > 0}}
OwnNames == IF pc \in {"closed", "returned"} /\ numRefs > 0 THEN Range(refs) ELSE {}

\* Where no blank is in front of a comma, a list has at most one Reference.
Named ==
    CommaLists =>
      /\ pc = "item" => numRefs = 0
      /\ pc = "reference" => numRefs = 0 /\ At(in) \notin {" ", "name"}
      /\ allNames = RefNames \cup Range(names) \cup OwnNames

Sought(i) == IF type = "ref" THEN text[i] = "name" ELSE text[i] \in Makes(type)
Wanted(l) == {i \in l[1] .. l[2] : Sought(i)}
Inner == {l \in InnerLists : 1 < l[1]}

\* What is wanted of the lists of the text that end in front of m
Wants(m) == {Wanted(l) : l \in {q \in Inner : q[2] < m}} \ {{}}

\* What the lists hold, and what was found for the one under way
Held(c, k) == IF type = "ref" THEN Range(lists[k].refs) ELSE Range(c[k])
AllHeld(c) == {Held(c, k) : k \in 1 .. N}
Here(c) ==
    IF type # "ref" THEN Range(c[N + 1])
    ELSE IF pc \notin {"closed", "returned"} THEN Range(names)
    ELSE OwnNames

Ordered(c) ==
    \A k \in 1 .. N : \A j \in 1 .. k - 1 : \A a \in Held(c, j), b \in Held(c, k) : a < b

\* At the place p of parseDataList the cursor is at i, the lists hold hs, and h was found.
Finds(p, i, hs, h) ==
    /\ p = "begin" => i = 1 /\ hs = {}
    /\ p = "list" => /\ i \in 2 .. Len(text)
                     /\ \A l \in Inner : l[2] < i \/ i <= l[1]
                     /\ hs = Wants(i)
    /\ p \in {"item", "reference", "closed"} =>
         \E l \in Inner : /\ l[1] < i /\ i <= l[2]
                          /\ hs = Wants(l[1])
                          /\ h = {x \in Wanted(l) : x < i}
                          /\ p = "closed" => i = l[2]
    /\ p = "returned" =>
         \/ \E l \in Inner : i = l[2] + 1 /\ hs = Wants(l[1]) /\ h = Wanted(l)
         \/ i = Len(text) /\ h = {} /\ hs = Wants(Len(text) + 1)
    /\ p \in {"done", "iterating"} => hs = Wants(Len(text) + 1)

\* What the accessors let a client see: the loop that Value.h:49-57 shows goes
\* through all values of a list but the first, and a loop of as many turns as
\* size() says through all lists but the last of several.
AccessorsMissOne ==
    /\ pc = "iterating" /\ ~HasNext =>
         \E k \in DOMAIN lists :
           LET chain == Chain(lists[k].head) IN
           seen = IF chain = <<>> THEN <<>> ELSE Tail(chain)
    /\ Done /\ lists # <<>> =>
         LET last == IF Len(lists) = 1 THEN 0 ELSE lists[Len(lists)].head IN
         UNION {Range(Chain(lists[k].head)) : k \in 1 .. Size(1)} = made \ Range(Chain(last))

\* In a well-formed array, the lists found are those of the text.
Found(c) ==
    WellFormedArray /\ (type = "ref" => CommaLists) =>
      Ordered(c) /\ Finds(pc, in, AllHeld(c), Here(c))

\* An iterator is at a place of the chain of a list.
Iterating(c) ==
    pc = "iterating" =>
      \E k \in 1 .. N :
        LET s == c[k] IN
        IF Len(s) = 0 THEN current = 0 /\ seen = <<>>
        ELSE \E p \in 1 .. Len(s) : current = s[p] /\ seen = SubSeq(s, 2, p)

-----------------------------------------------------------------------------
(* Sequences and what they hold.                                           *)

LEMMA RangeIs ==
    ASSUME NEW S, NEW s \in Seq(S)
    PROVE  /\ Range(s) \subseteq S
           /\ \A x : x \in Range(s) <=> \E i \in 1 .. Len(s) : x = s[i]
<1>1. Len(s) \in Nat /\ DOMAIN s = 1 .. Len(s) /\ \A i \in 1 .. Len(s) : s[i] \in S
  BY LenProperties, ElementOfSeq
<1> QED
  BY <1>1 DEF Range

LEMMA RangeAppend ==
    ASSUME NEW S, NEW s \in Seq(S), NEW e \in S
    PROVE  /\ Append(s, e) \in Seq(S)
           /\ Len(Append(s, e)) = Len(s) + 1
           /\ Append(s, e)[Len(s) + 1] = e
           /\ \A i \in 1 .. Len(s) : Append(s, e)[i] = s[i]
           /\ Range(Append(s, e)) = Range(s) \cup {e}
<1> DEFINE t == Append(s, e)
<1>1. /\ t \in Seq(S) /\ Len(t) = Len(s) + 1 /\ t[Len(s) + 1] = e
      /\ \A i \in 1 .. Len(s) : t[i] = s[i]
  BY AppendProperties
<1> HIDE DEF t
<1>2. Len(s) \in Nat
  BY LenProperties
<1>3. /\ \A x : x \in Range(t) <=> \E i \in 1 .. Len(t) : x = t[i]
      /\ \A x : x \in Range(s) <=> \E i \in 1 .. Len(s) : x = s[i]
  BY <1>1, RangeIs
<1>4. \A x \in Range(t) : x \in Range(s) \cup {e}
  <2> SUFFICES ASSUME NEW i \in 1 .. Len(t) PROVE t[i] \in Range(s) \cup {e}
    BY <1>3
  <2>1. CASE i = Len(s) + 1
    BY <2>1, <1>1
  <2>2. CASE i # Len(s) + 1
    <3>1. i \in 1 .. Len(s)
      BY <2>2, <1>1, <1>2
    <3> QED
      BY <3>1, <1>1, <1>3
  <2> QED
    BY <2>1, <2>2
<1>5. \A x \in Range(s) \cup {e} : x \in Range(t)
  <2>1. e \in Range(t)
    <3>1. Len(s) + 1 \in 1 .. Len(t)
      BY <1>1, <1>2
    <3> QED
      BY <3>1, <1>1, <1>3
  <2>2. ASSUME NEW i \in 1 .. Len(s) PROVE s[i] \in Range(t)
    <3>1. i \in 1 .. Len(t) /\ t[i] = s[i]
      BY <1>1, <1>2
    <3> QED
      BY <3>1, <1>3
  <2> QED
    BY <2>1, <2>2, <1>3
<1> QED
  BY <1>1, <1>4, <1>5 DEF t

LEMMA RangeIsEmpty ==
    ASSUME NEW S, NEW s \in Seq(S)
    PROVE  Range(s) = {} <=> s = <<>>
<1>1. Len(s) \in Nat /\ (Len(s) = 0 <=> s = <<>>)
  BY LenProperties, EmptySeq
<1>2. \A x : x \in Range(s) <=> \E i \in 1 .. Len(s) : x = s[i]
  BY RangeIs
<1>3. Len(s) # 0 => 1 \in 1 .. Len(s)
  BY <1>1
<1> QED
  BY <1>1, <1>2, <1>3 DEF Range

LEMMA RangeEmpty == Range(<<>>) = {}
BY DEF Range

-----------------------------------------------------------------------------
(* The cursor.                                                             *)

LEMMA TextIs ==
    ASSUME text \in Texts
    PROVE  /\ text \in Seq(Literal \cup Separator) /\ Len(text) \in Nat
           /\ Place = 1 .. Len(text)
           /\ \A i \in Place : At(i) = text[i] /\ text[i] \in Literal \cup Separator
           /\ At(Len(text) + 1) = "end"
           /\ \A i \in 1 .. Len(text) - 1 : text[i] \in Literal => text[i + 1] \in Separator
<1>1. text \in Seq(Literal \cup Separator)
  BY TextsAssumption
<1>2. Len(text) \in Nat /\ DOMAIN text = 1 .. Len(text)
  BY <1>1, LenProperties
<1>3. \A i \in 1 .. Len(text) : text[i] \in Literal \cup Separator
  BY <1>1, ElementOfSeq
<1>4. Len(text) + 1 \notin 1 .. Len(text)
  BY <1>2
<1> QED
  BY <1>1, <1>2, <1>3, <1>4, TextsAssumption DEF At, Place

\* j is the first place from i on with a character outside S.
Skipped(i, S, j) ==
    /\ j \in i .. Len(text) + 1
    /\ At(j) \notin S
    /\ \A k \in i .. j - 1 : At(k) \in S

LEMMA SkipIs ==
    ASSUME text \in Texts, NEW S, "end" \notin S, NEW i \in 1 .. Len(text) + 1
    PROVE  Skipped(i, S, Skip(i, S))
<1> DEFINE T == {j \in i .. Len(text) + 1 : At(j) \notin S}
<1>1. Len(text) \in Nat /\ At(Len(text) + 1) = "end"
  BY TextIs
<1>2. T \in SUBSET Nat
  BY <1>1
<1>3. Len(text) + 1 \in T
  BY <1>1
<1> HIDE DEF T
<1>4. PICK m \in T : \A n \in T : m <= n
  BY <1>2, <1>3, LeastElement
<1>5. Skipped(i, S, m)
  <2>1. m \in i .. Len(text) + 1 /\ At(m) \notin S
    BY <1>4 DEF T
  <2>2. ASSUME NEW k \in i .. m - 1 PROVE At(k) \in S
    <3>1. k \in i .. Len(text) + 1 /\ ~(m <= k)
      BY <2>1, <1>1
    <3> QED
      BY <3>1, <1>4 DEF T
  <2> QED
    BY <2>1, <2>2 DEF Skipped
<1> DEFINE P(j) == At(j) \notin S /\ \A k \in i .. j - 1 : At(k) \in S
<1>6. \E j \in i .. Len(text) + 1 : P(j)
  BY <1>5 DEF Skipped
<1>7. Skip(i, S) = CHOOSE j \in i .. Len(text) + 1 : P(j)
  BY Zenon DEF Skip
<1> HIDE DEF P
<1>8. Skip(i, S) \in i .. Len(text) + 1 /\ P(Skip(i, S))
  BY <1>6, <1>7, Zenon
<1> QED
  BY <1>8 DEF P, Skipped

LEMMA LookIs ==
    ASSUME text \in Texts, NEW i \in 1 .. Len(text) + 1
    PROVE  /\ Look(i) \in i .. Len(text) + 1 /\ Look(i) \in 1 .. Len(text) + 1
           /\ At(Look(i)) \notin {",", " "}
           /\ \A k \in i .. Look(i) - 1 : At(k) \in {",", " "}
<1> DEFINE j == Look(i)
<1>1. Skipped(i, {",", " "}, j)
  <2>1. "end" \notin {",", " "}
    OBVIOUS
  <2> QED
    BY <2>1, SkipIs DEF Look
<1> HIDE DEF j
<1>2. Len(text) \in Nat
  BY TextIs
<1>3. /\ j \in i .. Len(text) + 1 /\ At(j) \notin {",", " "}
      /\ \A k \in i .. j - 1 : At(k) \in {",", " "}
  BY <1>1 DEF Skipped
<1>4. j \in 1 .. Len(text) + 1
  <2>1. j \in i .. Len(text) + 1
    BY <1>3
  <2> QED
    BY <2>1, <1>2
<1> QED
  BY <1>3, <1>4 DEF j

LEMMA NextSeparatorIs ==
    ASSUME text \in Texts, NEW i \in 1 .. Len(text) + 1
    PROVE  /\ NextSeparator(i) \in i .. Len(text) + 1 /\ NextSeparator(i) \in 1 .. Len(text) + 1
           /\ At(i) \in Literal => NextSeparator(i) = i + 1
           /\ At(i) \notin Literal => NextSeparator(i) = i
<1> DEFINE j == NextSeparator(i)
<1>1. Skipped(i, Literal, j)
  <2>1. "end" \notin Literal
    BY DEF Literal
  <2> QED
    BY <2>1, SkipIs DEF NextSeparator
<1> HIDE DEF j
<1>2. /\ j \in i .. Len(text) + 1 /\ At(j) \notin Literal /\ \A k \in i .. j - 1 : At(k) \in Literal
      /\ Len(text) \in Nat
  BY <1>1, TextIs DEF Skipped
<1>3. ASSUME At(i) \in Literal PROVE j = i + 1
  <2>1. i # j /\ i \in Place /\ At(Len(text) + 1) \notin Literal
    <3>1. At(Len(text) + 1) \notin Literal
      BY TextIs DEF Literal
    <3> QED
      BY <3>1, <1>2, <1>3, TextIs
  <2>2. At(i + 1) \notin Literal
    <3>1. CASE i + 1 \in Place
      <4>1. i \in 1 .. Len(text) - 1
        BY <3>1, <2>1, TextIs
      <4>2. At(i) = text[i] /\ At(i + 1) = text[i + 1]
        BY <3>1, <2>1, TextIs
      <4>3. text[i + 1] \in Separator
        BY <4>1, <4>2, <1>3, TextIs
      <4> QED
        BY <4>2, <4>3 DEF Separator, Literal
    <3>2. CASE i + 1 \notin Place
      <4>1. i + 1 = Len(text) + 1
        BY <3>2, <2>1, TextIs
      <4> QED
        BY <4>1, <2>1
    <3> QED
      BY <3>1, <3>2
  <2>3. ~(i + 1 \in i .. j - 1)
    BY <2>2, <1>2
  <2> QED
    BY <2>1, <2>3, <1>2
<1>4. ASSUME At(i) \notin Literal PROVE j = i
  <2>1. ~(i \in i .. j - 1)
    BY <1>2, <1>4
  <2> QED
    BY <2>1, <1>2
<1>5. j \in 1 .. Len(text) + 1
  BY <1>2
<1> QED
  BY <1>2, <1>3, <1>4, <1>5 DEF j

-----------------------------------------------------------------------------
(* Chains.                                                                 *)

LEMMA IncreasingLen ==
    ASSUME NEW L \in Nat, NEW s \in Seq(1 .. L), Increasing(s)
    PROVE  Len(s) <= L
<1> DEFINE m == Len(s)
           T == {k \in 0 .. m : k = 0 \/ s[k] >= k}
<1>1. m \in Nat /\ \A i \in 1 .. m : s[i] \in 1 .. L
  BY LenProperties, ElementOfSeq
<1>2. \A j \in 1 .. m : \A i \in 1 .. j - 1 : s[i] < s[j]
  BY DEF Increasing
<1> HIDE DEF m
<1>3. 0 \in T
  BY <1>1
<1>4. \A k \in 0 .. m - 1 : k \in T => k + 1 \in T
  <2> SUFFICES ASSUME NEW k \in 0 .. m - 1, k = 0 \/ s[k] >= k PROVE s[k + 1] >= k + 1
    BY <1>1
  <2>1. k + 1 \in 1 .. m /\ s[k + 1] \in 1 .. L
    BY <1>1
  <2>2. CASE k = 0
    BY <2>1, <2>2
  <2>3. CASE k # 0
    <3>1. k \in 1 .. (k + 1) - 1 /\ k \in 1 .. m
      BY <2>3, <1>1
    <3>2. s[k] < s[k + 1] /\ s[k] \in 1 .. L /\ s[k] >= k
      BY <2>1, <2>3, <3>1, <1>1, <1>2
    <3> QED
      BY <2>1, <3>2
  <2> QED
    BY <2>2, <2>3
<1>5. m \in T
  <2> HIDE DEF T
  <2>1. \A k \in 0 .. m : k \in T
    BY <1>1, <1>3, <1>4, BoundedInduction
  <2> QED
    BY <2>1, <1>1
<1>6. m = 0 \/ (s[m] >= m /\ s[m] \in 1 .. L)
  BY <1>1, <1>5
<1> QED
  BY <1>6, <1>1 DEF m

\* v gives the first n values of the chain from each place.
Follows(v, L, nx) ==
    /\ \A i \in 0 .. L : v[0][i] = <<>>
    /\ \A n \in 1 .. L + 1 : /\ v[n][0] = <<>>
                             /\ \A i \in 1 .. L : v[n][i] = <<i>> \o v[n - 1][nx[i]]

\* Chain satisfies its equations.
LEMMA ChainFollows ==
    ASSUME text \in Texts, next \in [Place -> Pointer]
    PROVE  \E v : Follows(v, Len(text), next) /\ \A h : Chain(h) = v[Len(text) + 1][h]
<1> DEFINE L == Len(text)
           V == [Pointer -> Seq(Pointer)]
           F(x) == [i \in Pointer |-> IF i = 0 THEN <<>> ELSE <<i>> \o x[next[i]]]
           base == [i \in Pointer |-> <<>>]
           step == [x \in V \X (1 .. L + 1) |-> F(x[1])]
           Def(u) == u = [n \in 0 .. L + 1 |->
                            [i \in Pointer |-> IF i = 0 \/ n = 0 THEN <<>> ELSE <<i>> \o u[n - 1][next[i]]]]
<1>1. L \in Nat /\ Place = 1 .. L /\ Pointer = 0 .. L
  BY TextIs DEF Pointer
<1>2. ASSUME NEW x \in V PROVE F(x) \in V
  <2> SUFFICES ASSUME NEW i \in Pointer, i # 0 PROVE <<i>> \o x[next[i]] \in Seq(Pointer)
    BY EmptySeq
  <2>1. next[i] \in Pointer
    BY <1>1
  <2>2. x[next[i]] \in Seq(Pointer) /\ <<i>> \in Seq(Pointer)
    BY <2>1
  <2> QED
    BY <2>2, ConcatProperties
<1>3. base \in V
  BY EmptySeq
<1>4. step \in [V \X (1 .. L + 1) -> V] /\ \A x \in V, n \in 1 .. L + 1 : step[<<x, n>>] = F(x)
  <2> HIDE DEF V, F, L
  <2> QED
    BY <1>2
<1>5. PICK g \in [0 .. L + 1 -> V] : Recursive(g, base, step, L + 1)
  <2>1. L + 1 \in Nat
    BY <1>1
  <2> HIDE DEF V, F, base, step, L
  <2> QED
    BY <1>3, <1>4, <2>1, RecursiveFunction, Zenon
<1>6. Def(g)
  <2>1. g[0] = base /\ \A n \in 1 .. L + 1 : g[n] = F(g[n - 1])
    <3>1. \A n \in 1 .. L + 1 : n - 1 \in 0 .. L + 1
      BY <1>1
    <3> HIDE DEF V, F, base, step, L
    <3> QED
      BY <3>1, <1>4, <1>5 DEF Recursive
  <2>2. ASSUME NEW n \in 0 .. L + 1
        PROVE  g[n] = [i \in Pointer |-> IF i = 0 \/ n = 0 THEN <<>> ELSE <<i>> \o g[n - 1][next[i]]]
    <3>1. CASE n = 0
      BY <3>1, <2>1
    <3>2. CASE n # 0
      <4>1. n \in 1 .. L + 1
        BY <3>2, <1>1
      <4>2. g[n] = F(g[n - 1])
        BY <4>1, <2>1
      <4> QED
        BY <4>2, <3>2
    <3> QED
      BY <3>1, <3>2
  <2>3. g = [n \in 0 .. L + 1 |-> g[n]]
    BY <1>5
  <2> QED
    BY <2>2, <2>3
<1> DEFINE v == CHOOSE u : Def(u)
<1>7. Def(v)
  <2> HIDE DEF Def
  <2> QED
    BY <1>6, Zenon
<1>8. \A h : Chain(h) = v[L + 1][h]
  BY Zenon DEF Chain
<1> HIDE DEF v
<1>9. \A n \in 0 .. L + 1 : \A i \in Pointer :
        v[n][i] = IF i = 0 \/ n = 0 THEN <<>> ELSE <<i>> \o v[n - 1][next[i]]
  <2>1. \A u : Def(u) => \A n \in 0 .. L + 1 : \A i \in Pointer :
          u[n][i] = IF i = 0 \/ n = 0 THEN <<>> ELSE <<i>> \o u[n - 1][next[i]]
    <3> SUFFICES ASSUME NEW u, Def(u), NEW n \in 0 .. L + 1, NEW i \in Pointer
                 PROVE  u[n][i] = IF i = 0 \/ n = 0 THEN <<>> ELSE <<i>> \o u[n - 1][next[i]]
      OBVIOUS
    <3> HIDE DEF L
    <3>1. u[n] = [j \in Pointer |-> IF j = 0 \/ n = 0 THEN <<>> ELSE <<j>> \o u[n - 1][next[j]]]
      BY Zenon
    <3> QED
      BY <3>1, Zenon
  <2> HIDE DEF Def
  <2> QED
    BY <1>7, <2>1, Zenon
<1>10. Follows(v, L, next)
  <2>1. 0 \in 0 .. L + 1 /\ 0 \in Pointer /\ \A n \in 1 .. L + 1 : n \in 0 .. L + 1 /\ n # 0
    BY <1>1
  <2>2. \A i \in 1 .. L : i \in Pointer /\ i # 0
    BY <1>1
  <2>3. Pointer = 0 .. L
    BY <1>1
  <2> HIDE DEF L
  <2> QED
    BY <1>9, <2>1, <2>2, <2>3, Zenon DEF Follows
<1> QED
  BY <1>8, <1>10

\* An increasing chain is what Chain goes through.
LEMMA ChainIs ==
    ASSUME text \in Texts, next \in [Place -> Pointer],
           NEW s \in Seq(Place), NEW h, NEW num, Chained(s, h, num, next), Increasing(s)
    PROVE  Chain(h) = s
<1> DEFINE L == Len(text)
           m == Len(s)
           From(k) == IF k = 0 THEN 0 ELSE s[m - k + 1]
           T == {k \in 0 .. m : \A n \in k .. L + 1 : \A v :
                   Follows(v, L, next) => v[n][From(k)] = SubSeq(s, m - k + 1, m)}
<1>1. /\ L \in Nat /\ Place = 1 .. L /\ s \in Seq(1 .. L)
      /\ m \in Nat /\ \A i \in 1 .. m : s[i] \in 1 .. L
  BY TextIs, LenProperties, ElementOfSeq
<1>2. m <= L
  BY <1>1, IncreasingLen
<1>3. /\ h = IF m = 0 THEN 0 ELSE s[1]
      /\ \A i \in 1 .. m : next[s[i]] = IF i < m THEN s[i + 1] ELSE 0
  BY DEF Chained
<1> HIDE DEF L, m
<1>4. 0 \in T
  <2> SUFFICES ASSUME NEW n \in 0 .. L + 1, NEW v, Follows(v, L, next)
               PROVE  v[n][0] = SubSeq(s, m - 0 + 1, m)
    BY <1>1
  <2>1. SubSeq(s, m - 0 + 1, m) = <<>>
    BY <1>1, SubSeqEmpty
  <2>2. n = 0 \/ n \in 1 .. L + 1
    BY <1>1
  <2>3. 0 \in 0 .. L
    BY <1>1
  <2> QED
    BY <2>1, <2>2, <2>3 DEF Follows
<1>5. \A k \in 0 .. m - 1 : k \in T => k + 1 \in T
  <2> SUFFICES ASSUME NEW k \in 0 .. m - 1, k \in T PROVE k + 1 \in T
    OBVIOUS
  <2>0. k + 1 \in 0 .. m
    BY <1>1
  <2> SUFFICES ASSUME NEW n \in k + 1 .. L + 1, NEW v, Follows(v, L, next)
               PROVE  v[n][From(k + 1)] = SubSeq(s, m - (k + 1) + 1, m)
    BY <2>0
  <2>1. /\ n - 1 \in k .. L + 1 /\ n \in 1 .. L + 1
        /\ m - (k + 1) + 1 = m - k /\ m - k \in 1 .. m /\ m \in m - k .. m
        /\ (m - k) + 1 = m - k + 1
    BY <1>1
  <2>2. s[m - k] \in 1 .. L /\ From(k + 1) = s[m - k]
    BY <1>1, <2>1
  <2>3. next[s[m - k]] = From(k)
    BY <1>1, <1>3, <2>1
  <2>4. v[n][s[m - k]] = <<s[m - k]>> \o v[n - 1][From(k)]
    BY <2>1, <2>2, <2>3 DEF Follows
  <2>5. v[n - 1][From(k)] = SubSeq(s, m - k + 1, m)
    BY <2>1
  <2>6. SubSeq(s, m - k, m) = <<s[m - k]>> \o SubSeq(s, (m - k) + 1, m)
    BY <2>1, SubSeqRecursiveFirst DEF m
  <2> HIDE DEF From, T
  <2> QED
    BY <2>1, <2>2, <2>4, <2>5, <2>6
<1>6. m \in T
  <2> HIDE DEF T
  <2>1. \A k \in 0 .. m : k \in T
    BY <1>1, <1>4, <1>5, BoundedInduction
  <2> QED
    BY <2>1, <1>1
<1>7. PICK v : Follows(v, L, next) /\ Chain(h) = v[L + 1][h]
  BY ChainFollows, Zenon DEF L
<1>8. v[L + 1][From(m)] = SubSeq(s, m - m + 1, m)
  <2>1. L + 1 \in m .. L + 1
    BY <1>1, <1>2
  <2> QED
    BY <2>1, <1>6, <1>7
<1>9. From(m) = h /\ m - m + 1 = 1
  BY <1>1, <1>3
<1>10. SubSeq(s, 1, m) = s
  BY SubSeqFull DEF m
<1> HIDE DEF From
<1> QED
  BY <1>7, <1>8, <1>9, <1>10

-----------------------------------------------------------------------------
(* Types.                                                                  *)

LEMMA SameText == text' = text => Place' = Place /\ Pointer' = Pointer /\ Entry' = Entry
BY DEF Place, Pointer, Entry

\* The end of the text is the only place behind its characters.
LEMMA AtIs ==
    ASSUME text \in Texts, NEW i \in 1 .. Len(text) + 1, At(i) # "end"
    PROVE  i \in Place /\ i + 1 \in 1 .. Len(text) + 1
<1>1. Len(text) \in Nat /\ Place = 1 .. Len(text) /\ i # Len(text) + 1
  BY TextIs
<1> QED
  BY <1>1

\* Typed by its parts
LEMMA TypedText ==
    ASSUME Typed
    PROVE  /\ text \in Texts /\ Len(text) \in Nat /\ Place = 1 .. Len(text)
           /\ Pointer = 0 .. Len(text) /\ in \in 1 .. Len(text) + 2
BY TextIs DEF Typed, Inside, Pointer

\* As long as a function runs, the cursor is in the text or at its end.
LEMMA TypedParts ==
    ASSUME Typed, Begin \/ ParseDataList \/ ParseLiteral \/ ParseName \/ MakeReference \/ Close \/ Return
    PROVE  /\ text \in Texts /\ Len(text) \in Nat /\ Place = 1 .. Len(text)
           /\ Pointer = 0 .. Len(text) /\ in \in 1 .. Len(text) + 1
           /\ Look(in) \in in .. Len(text) + 1 /\ Look(in) \in 1 .. Len(text) + 1
<1>1. ~Done
  BY DEF Begin, ParseDataList, ParseLiteral, ParseName, MakeReference, Close, Return, Done
<1>2. in \in 1 .. Len(text) + 1
  BY <1>1 DEF Typed, Inside
<1> QED
  BY <1>2, TypedText, LookIs

LEMMA InsideNow ==
    ASSUME text \in Texts, text' = text, in' \in 1 .. Len(text) + 1,
           numValues' \in 0 .. in' - 1, numRefs' \in 0 .. in' - 1
    PROVE  Inside'
<1>1. Len(text) \in Nat /\ Len(text') = Len(text) /\ Pointer' = 0 .. Len(text)
  BY TextIs DEF Pointer
<1>2. in' \in 1 .. Len(text) + 2 /\ numValues' \in 0 .. Len(text) /\ numRefs' \in 0 .. Len(text)
  <2>1. \A L \in Nat : \A i \in 1 .. L + 1 : /\ i \in 1 .. L + 2
                                            /\ \A n \in 0 .. i - 1 : n \in 0 .. L
    OBVIOUS
  <2> QED
    BY <2>1, <1>1
<1> QED
  BY <1>1, <1>2 DEF Inside

LEMMA InitTyped == Init => Typed /\ Kinds
<1> SUFFICES ASSUME Init PROVE Typed /\ Kinds
  OBVIOUS
<1>1. /\ text \in Texts /\ type \in Type /\ array \in BOOLEAN
      /\ in = 1 /\ pc = "begin"
      /\ made = {} /\ next = [j \in DOMAIN text |-> 0]
      /\ data = 0 /\ prev = 0 /\ numValues = 0
      /\ names = <<>> /\ allNames = {} /\ refs = <<>> /\ numRefs = 0
      /\ lists = <<>> /\ current = 0 /\ seen = <<>>
  BY DEF Init
<1>2. Len(text) \in Nat /\ Place = 1 .. Len(text) /\ Pointer = 0 .. Len(text)
  BY <1>1, TextIs DEF Pointer
<1>3. next \in [Place -> Pointer]
  BY <1>1, <1>2 DEF Place
<1>4. <<>> \in Seq(Place) /\ <<>> \in Seq(Entry) /\ Len(<<>>) = 0
  BY EmptySeq
<1>5. Inside
  BY <1>1, <1>2 DEF Inside
<1>6. Typed
  BY <1>1, <1>2, <1>3, <1>4, <1>5 DEF Typed
<1>7. Kinds
  <2>1. N = 0
    BY <1>1, <1>4 DEF N
  <2> QED
    BY <1>1, <2>1 DEF Kinds
<1> QED
  BY <1>6, <1>7

LEMMA KindsStill ==
    ASSUME Kinds, UNCHANGED <<type, allNames, lists>>,
           type = "ref" => data' = 0,
           type # "ref" => numRefs' = 0 /\ pc' # "reference",
           pc' # "reference" => names' = <<>>,
           numRefs' = 0 \/ (refs' = refs /\ numRefs' = numRefs)
    PROVE  Kinds'
BY DEF Kinds, N

\* Behind a character
LEMMA LookBehind ==
    ASSUME Typed, At(Look(in)) # "end",
           Begin \/ ParseDataList \/ ParseLiteral \/ ParseName \/ MakeReference \/ Close \/ Return
    PROVE  Look(in) \in Place /\ Look(in) + 1 \in in .. Len(text) + 1
<1>1. Look(in) \in Place /\ Look(in) + 1 \in 1 .. Len(text) + 1
  BY TypedParts, AtIs
<1>2. Look(in) \in in .. Len(text) + 1 /\ in \in 1 .. Len(text) + 1 /\ Len(text) \in Nat
  BY TypedParts
<1> QED
  BY <1>1, <1>2

\* What is bounded by the cursor stays so when it goes forwards.
LEMMA Forwards ==
    ASSUME NEW L \in Nat, NEW i \in 1 .. L + 1, NEW j \in i .. L + 1,
           NEW v \in 0 .. i - 1, NEW r \in 0 .. i - 1, NEW n \in Nat, n < i
    PROVE  j \in 1 .. L + 1 /\ v \in 0 .. j - 1 /\ r \in 0 .. j - 1 /\ n < j
OBVIOUS

\* The parts of Typed that most actions leave alone
LEMMA TypedStill ==
    ASSUME Typed, UNCHANGED <<text, type, array, values, references, lists, iterator>>,
           in \in 1 .. Len(text) + 1, in' \in in .. Len(text) + 1,
           pc' \in {"begin", "list", "item", "reference", "closed", "returned", "done", "iterating"}
    PROVE  Typed'
<1>1. Place' = Place /\ Pointer' = Pointer /\ Entry' = Entry
  BY SameText
<1>2. Len(text) \in Nat /\ in \in 1 .. Len(text) + 1 /\ numValues \in 0 .. in - 1
      /\ numRefs \in 0 .. in - 1 /\ Len(names) < in /\ Len(names) \in Nat
  BY TypedText, LenProperties DEF Typed
<1>3. /\ in' \in 1 .. Len(text) + 1 /\ numValues \in 0 .. in' - 1
      /\ numRefs \in 0 .. in' - 1 /\ Len(names) < in'
  BY <1>2, Forwards
<1>4. text \in Texts /\ UNCHANGED <<text, numValues, numRefs>>
  BY DEF Typed, values, references
<1>5. Inside'
  BY <1>3, <1>4, InsideNow
<1> QED
  BY <1>1, <1>3, <1>5 DEF Typed, values, references, iterator

LEMMA BeginTyped == Typed /\ Kinds /\ Begin => Typed' /\ Kinds'
<1> SUFFICES ASSUME Typed, Kinds, Begin PROVE Typed' /\ Kinds'
  OBVIOUS
<1>1. /\ UNCHANGED <<text, type, array, values, references, lists, iterator>>
      /\ \/ pc' = "list" /\ in' = in
         \/ At(Look(in)) = "{" /\ pc' = "list" /\ in' = Look(in) + 1
         \/ pc' = "done" /\ in' = Look(in)
  BY DEF Begin, Goto
<1>2. in' \in in .. Len(text) + 1
  <2>1. At(Look(in)) = "{" => Look(in) + 1 \in in .. Len(text) + 1
    BY LookBehind
  <2>2. in \in in .. Len(text) + 1 /\ Look(in) \in in .. Len(text) + 1
    BY TypedParts
  <2> QED
    BY <1>1, <2>1, <2>2
<1>3. Typed'
  BY <1>1, <1>2, TypedParts, TypedStill
<1>4. Kinds'
  <2>1. /\ UNCHANGED <<type, allNames, lists, data, refs, numRefs, names>>
        /\ pc # "reference" /\ pc' # "reference"
    BY <1>1 DEF Begin, values, references
  <2> QED
    BY <2>1, KindsStill DEF Kinds
<1> QED
  BY <1>3, <1>4

LEMMA ParseDataListTyped == Typed /\ Kinds /\ ParseDataList => Typed' /\ Kinds'
<1> SUFFICES ASSUME Typed, Kinds, ParseDataList PROVE Typed' /\ Kinds'
  OBVIOUS
<1>1. /\ UNCHANGED <<text, type, array, made, next, names, allNames, refs, lists, current, seen>>
      /\ data' = 0 /\ prev' = 0 /\ numValues' = 0 /\ numRefs' = 0
      /\ \/ pc' = "returned" /\ in' = Look(in)
         \/ At(Look(in)) = "{" /\ pc' \in {"closed", "item"} /\ in' = Look(in) + 1
  BY DEF ParseDataList, Goto, iterator
<1>2. in' \in in .. Len(text) + 1
  <2>1. At(Look(in)) = "{" => Look(in) + 1 \in in .. Len(text) + 1
    BY LookBehind
  <2>2. in \in in .. Len(text) + 1 /\ Look(in) \in in .. Len(text) + 1
    BY TypedParts
  <2> QED
    BY <1>1, <2>1, <2>2
<1>3. Place' = Place /\ Pointer' = Pointer /\ Entry' = Entry
  BY <1>1, SameText
<1>4. /\ in' \in 1 .. Len(text) + 1 /\ Len(names) < in' /\ 0 \in 0 .. in' - 1 /\ 0 \in Pointer
  <2>1. Len(names) \in Nat /\ Len(names) < in
    BY LenProperties DEF Typed
  <2>2. Len(text) \in Nat /\ in \in 1 .. Len(text) + 1 /\ Pointer = 0 .. Len(text)
    BY TypedParts
  <2>3. 0 \in 0 .. in - 1
    BY <2>2
  <2>4. in' \in 1 .. Len(text) + 1 /\ 0 \in 0 .. in' - 1 /\ Len(names) < in'
    BY <1>2, <2>1, <2>2, <2>3, Forwards
  <2>5. 0 \in Pointer
    BY <2>2
  <2> QED
    BY <2>4, <2>5, Zenon
<1>5. Inside'
  BY <1>1, <1>4, InsideNow DEF Typed
<1>6. Typed'
  BY <1>1, <1>3, <1>4, <1>5 DEF Typed
<1>7. Kinds'
  <2>1. pc # "reference" /\ pc' # "reference"
    BY <1>1 DEF ParseDataList
  <2> QED
    BY <1>1, <2>1, KindsStill DEF Kinds
<1> QED
  BY <1>6, <1>7

\* Where a turn of parseDataList's loop leaves it
LEMMA TurnIs ==
    ASSUME text \in Texts, NEW i \in 1 .. Len(text) + 1, Turn(i)
    PROVE  /\ in' = NextSeparator(i)
           /\ in' \in i .. Len(text) + 1
           /\ pc' = IF At(in') \in {",", " "} THEN "item" ELSE "closed"
<1>1. NextSeparator(i) \in i .. Len(text) + 1
  BY NextSeparatorIs
<1> QED
  BY <1>1 DEF Turn, Goto, On

LEMMA ParseLiteralTyped == Typed /\ Kinds /\ ParseLiteral => Typed' /\ Kinds'
<1> SUFFICES ASSUME Typed, Kinds, ParseLiteral PROVE Typed' /\ Kinds'
  OBVIOUS
<1> DEFINE i == Look(in)
<1>1. /\ UNCHANGED <<text, type, array, names, allNames, refs, numRefs, lists, current, seen>>
      /\ type # "ref" /\ pc = "item" /\ Turn(i)
      /\ IF At(i) \in Makes(type)
         THEN /\ made' = made \cup {i}
              /\ data' = IF data = 0 THEN i ELSE data
              /\ next' = IF data = 0 THEN next ELSE [next EXCEPT ![prev] = i]
              /\ prev' = i
              /\ numValues' = numValues + 1
         ELSE UNCHANGED <<made, next, data, prev, numValues>>
  BY DEF ParseLiteral, PrevMoved, values, references, iterator
<1>2. /\ text \in Texts /\ Len(text) \in Nat /\ Place = 1 .. Len(text) /\ Pointer = 0 .. Len(text)
      /\ i \in in .. Len(text) + 1 /\ i \in 1 .. Len(text) + 1 /\ in \in 1 .. Len(text) + 1
  BY TypedParts
<1> HIDE DEF i
<1>3. in' \in i .. Len(text) + 1 /\ pc' \in {"item", "closed"} /\ in' = NextSeparator(i)
  BY <1>1, <1>2, TurnIs
<1>4. Place' = Place /\ Pointer' = Pointer /\ Entry' = Entry
  BY <1>1, SameText
<1>5. /\ in' \in 1 .. Len(text) + 1 /\ Len(names) < in' /\ numRefs \in 0 .. in' - 1
      /\ numValues \in 0 .. in' - 1
  <2>1. /\ Len(names) \in Nat /\ Len(names) < in /\ numRefs \in 0 .. in - 1
        /\ numValues \in 0 .. in - 1
    BY LenProperties DEF Typed
  <2> QED
    BY <1>2, <1>3, <2>1
<1>6. /\ made' \subseteq Place /\ next' \in [Place -> Pointer]
      /\ data' \in Pointer /\ prev' \in Pointer /\ numValues' \in 0 .. in' - 1
  <2>1. made \subseteq Place /\ next \in [Place -> Pointer] /\ data \in Pointer /\ prev \in Pointer
    BY DEF Typed
  <2>2. CASE At(i) \in Makes(type)
    <3>1. At(i) \in Literal
      <4>1. type \in Type
        BY DEF Typed
      <4> QED
        BY <2>2, <4>1 DEF Makes, Literal, Type
    <3>2. i \in Place /\ i \in Pointer /\ in' = i + 1
      <4>1. At(i) # "end"
        BY <3>1 DEF Literal
      <4>2. i \in Place
        BY <4>1, <1>2, AtIs
      <4> QED
        BY <4>2, <3>1, <1>2, <1>3, NextSeparatorIs
    <3>3. made' \subseteq Place /\ data' \in Pointer /\ prev' \in Pointer
      BY <2>1, <2>2, <3>2, <1>1
    <3>4. next' \in [Place -> Pointer]
      BY <2>1, <2>2, <3>2, <1>1
    <3>5. numValues' \in 0 .. in' - 1
      <4>1. numValues \in 0 .. in - 1
        BY DEF Typed
      <4> QED
        BY <4>1, <2>2, <3>2, <1>1, <1>2
    <3> QED
      BY <3>3, <3>4, <3>5
  <2>3. CASE At(i) \notin Makes(type)
    BY <2>1, <2>3, <1>1, <1>5
  <2> QED
    BY <2>2, <2>3
<1>7. Typed'
  <2>1. Inside'
    BY <1>1, <1>2, <1>5, <1>6, InsideNow
  <2> QED
    BY <2>1, <1>1, <1>3, <1>4, <1>5, <1>6 DEF Typed
<1>8. Kinds'
  <2>1. pc # "reference" /\ pc' # "reference"
    BY <1>1, <1>3
  <2> QED
    BY <1>1, <2>1, KindsStill DEF Kinds
<1> QED
  BY <1>7, <1>8

LEMMA ParseNameTyped == Typed /\ Kinds /\ ParseName => Typed' /\ Kinds'
<1> SUFFICES ASSUME Typed, Kinds, ParseName PROVE Typed' /\ Kinds'
  OBVIOUS
<1> DEFINE i == Look(in)
<1>1. /\ UNCHANGED <<text, type, array, made, next, data, prev, numValues, refs, numRefs, lists, current, seen>>
      /\ (pc = "item" /\ type = "ref") \/ pc = "reference"
      /\ pc' = "reference"
      /\ \/ At(i) = "name" /\ names' = Append(names, i) /\ allNames' = allNames \cup {i} /\ in' = i + 1
         \/ At(i) # "name" /\ names' = names /\ allNames' = allNames /\ in' = i
  BY DEF ParseName, Pushed, Goto, values, iterator
<1>2. At(i) = "name" => i \in Place /\ i + 1 \in in .. Len(text) + 1
  BY LookBehind
<1>3. i \in in .. Len(text) + 1
  BY TypedParts
<1> HIDE DEF i
<1>4. in' \in in .. Len(text) + 1
  BY <1>1, <1>2, <1>3
<1>5. Place' = Place /\ Pointer' = Pointer /\ Entry' = Entry
  BY <1>1, SameText
<1>6. /\ Len(text) \in Nat /\ in \in 1 .. Len(text) + 1 /\ numValues \in 0 .. in - 1
      /\ numRefs \in 0 .. in - 1 /\ Len(names) < in /\ Len(names) \in Nat
  BY TypedParts, LenProperties DEF Typed
<1>7. in' \in 1 .. Len(text) + 1 /\ numValues \in 0 .. in' - 1 /\ numRefs \in 0 .. in' - 1
  BY <1>4, <1>6, Forwards
<1>8. /\ names' \in Seq(Place) /\ Len(names') < in' /\ allNames' \subseteq Place
      /\ \A j \in 1 .. Len(names') : names'[j] \in allNames'
  <2>1. /\ names \in Seq(Place) /\ allNames \subseteq Place
        /\ \A j \in 1 .. Len(names) : names[j] \in allNames
    BY DEF Typed
  <2>2. CASE At(i) = "name"
    <3>1. i \in Place
      BY <2>2, <1>2
    <3>2. /\ names' \in Seq(Place) /\ Len(names') = Len(names) + 1
          /\ names'[Len(names) + 1] = i /\ \A j \in 1 .. Len(names) : names'[j] = names[j]
      BY <2>1, <2>2, <3>1, <1>1, RangeAppend
    <3>3. Len(names') < in'
      <4>1. in' = i + 1 /\ in <= i /\ i \in Int
        BY <2>2, <1>1, <1>3, <1>6
      <4> QED
        BY <4>1, <3>2, <1>6
    <3>4. ASSUME NEW j \in 1 .. Len(names') PROVE names'[j] \in allNames'
      <4>1. j \in 1 .. Len(names) \/ j = Len(names) + 1
        BY <3>2, <1>6
      <4> QED
        BY <4>1, <3>2, <2>1, <2>2, <1>1
    <3> QED
      BY <3>1, <3>2, <3>3, <3>4, <2>1, <2>2, <1>1
  <2>3. CASE At(i) # "name"
    <3>1. Len(names) < in'
      BY <1>4, <1>6, Forwards
    <3> QED
      BY <3>1, <2>1, <2>3, <1>1
  <2> QED
    BY <2>2, <2>3
<1>9. Typed'
  <2>1. Inside'
    BY <1>1, <1>7, InsideNow DEF Typed
  <2> QED
    BY <2>1, <1>1, <1>5, <1>7, <1>8 DEF Typed
<1>10. Kinds'
  <2>1. type = "ref"
    BY <1>1 DEF Kinds
  <2> QED
    BY <2>1, <1>1 DEF Kinds
<1> QED
  BY <1>9, <1>10

LEMMA MakeReferenceTyped == Typed /\ Kinds /\ MakeReference => Typed' /\ Kinds'
<1> SUFFICES ASSUME Typed, Kinds, MakeReference PROVE Typed' /\ Kinds'
  OBVIOUS
<1>1. /\ UNCHANGED <<text, type, array, made, next, data, prev, numValues, allNames, lists, current, seen>>
      /\ pc = "reference" /\ names' = <<>> /\ Turn(in)
      /\ \/ refs' = names /\ numRefs' = Len(names)
         \/ refs' = refs /\ numRefs' = numRefs
  BY DEF MakeReference, values, iterator
<1>2. in' \in in .. Len(text) + 1 /\ pc' \in {"item", "closed"}
  BY <1>1, TypedParts, TurnIs
<1>3. Place' = Place /\ Pointer' = Pointer /\ Entry' = Entry
  BY <1>1, SameText
<1>4. /\ Len(text) \in Nat /\ in \in 1 .. Len(text) + 1 /\ numValues \in 0 .. in - 1
      /\ numRefs \in 0 .. in - 1 /\ Len(names) < in /\ Len(names) \in Nat
  BY TypedParts, LenProperties DEF Typed
<1>5. in' \in 1 .. Len(text) + 1 /\ numValues \in 0 .. in' - 1 /\ numRefs \in 0 .. in' - 1
      /\ Len(names) < in'
  BY <1>2, <1>4, Forwards
<1>6. Len(names) \in 0 .. in' - 1 /\ 0 < in'
  <2>1. \A n \in Nat : \A L \in Nat : \A i \in 1 .. L + 1 : n < i => n \in 0 .. i - 1 /\ 0 < i
    OBVIOUS
  <2> QED
    BY <2>1, <1>4, <1>5
<1>7. numRefs' \in 0 .. in' - 1 /\ refs' \in Seq(Place)
  <2>1. names \in Seq(Place) /\ refs \in Seq(Place)
    BY DEF Typed
  <2> QED
    BY <2>1, <1>1, <1>5, <1>6, Zenon
<1>8. /\ names' \in Seq(Place) /\ Len(names') < in'
      /\ \A j \in 1 .. Len(names') : names'[j] \in allNames
  <2>1. Len(<<>>) = 0 /\ <<>> \in Seq(Place)
    BY EmptySeq
  <2> QED
    BY <2>1, <1>1, <1>6
<1>9. Typed'
  <2>1. Inside'
    BY <1>1, <1>5, <1>7, InsideNow DEF Typed
  <2> QED
    BY <2>1, <1>1, <1>2, <1>3, <1>5, <1>7, <1>8 DEF Typed
<1>10. Kinds'
  <2>1. type = "ref" /\ pc' # "reference"
    BY <1>1, <1>2 DEF Kinds
  <2>2. numRefs' # 0 => Len(refs') = numRefs'
    BY <1>1 DEF Kinds
  <2> QED
    BY <2>1, <2>2, <1>1 DEF Kinds
<1> QED
  BY <1>9, <1>10

LEMMA CloseTyped == Typed /\ Kinds /\ Close => Typed' /\ Kinds'
<1> SUFFICES ASSUME Typed, Kinds, Close PROVE Typed' /\ Kinds'
  OBVIOUS
<1>1. /\ UNCHANGED <<text, type, array, values, references, lists, iterator>>
      /\ pc = "closed" /\ pc' = "returned"
      /\ \/ in' = in
         \/ At(in) # "end" /\ in' = in + 1
  BY DEF Close, Goto, Behind
<1>2. in' \in in .. Len(text) + 1
  <2>1. in \in 1 .. Len(text) + 1 /\ Len(text) \in Nat
    BY TypedParts
  <2>2. At(in) # "end" => in + 1 \in 1 .. Len(text) + 1
    BY TypedParts, AtIs
  <2> QED
    BY <1>1, <2>1, <2>2
<1>3. Typed'
  BY <1>1, <1>2, TypedParts, TypedStill
<1>4. Kinds'
  <2>1. /\ UNCHANGED <<type, allNames, lists, data, refs, numRefs, names>>
        /\ pc # "reference" /\ pc' # "reference"
    BY <1>1 DEF values, references
  <2> QED
    BY <2>1, KindsStill DEF Kinds
<1> QED
  BY <1>3, <1>4

LEMMA ReturnTyped == Typed /\ Kinds /\ Return => Typed' /\ Kinds'
<1> SUFFICES ASSUME Typed, Kinds, Return PROVE Typed' /\ Kinds'
  OBVIOUS
<1>1. /\ UNCHANGED <<text, type, array, made, next, data, prev, numValues,
                     names, allNames, refs, numRefs, current, seen>>
      /\ in' = in \/ (array /\ pc' = "done" /\ in' = Look(in) + 1)
      /\ pc = "returned" /\ pc' \in {"list", "done"}
      /\ lists' = Append(lists, List) \/ lists' = lists
  BY DEF Return, Goto, values, references, iterator
<1>2. Place' = Place /\ Pointer' = Pointer /\ Entry' = Entry
  BY <1>1, SameText
<1>3. /\ lists \in Seq(Entry) /\ data \in Pointer /\ refs \in Seq(Place)
      /\ numValues \in 0 .. in - 1 /\ numRefs \in 0 .. in - 1
  BY DEF Typed
<1>4. List \in Entry
  <2>1. numValues \in Pointer /\ numRefs \in Pointer
    BY <1>3, TypedParts
  <2> QED
    BY <2>1, <1>3 DEF List, Entry
<1>5. /\ lists' \in Seq(Entry)
      /\ \A k \in 1 .. Len(lists') : \/ k \in 1 .. Len(lists) /\ lists'[k] = lists[k]
                                     \/ lists'[k] = List
  <2>1. CASE lists' = lists
    BY <2>1, <1>3
  <2>2. CASE lists' = Append(lists, List)
    <3>1. /\ lists' \in Seq(Entry) /\ Len(lists') = Len(lists) + 1
          /\ lists'[Len(lists) + 1] = List /\ \A k \in 1 .. Len(lists) : lists'[k] = lists[k]
      BY <2>2, <1>3, <1>4, RangeAppend
    <3>2. Len(lists) \in Nat
      BY <1>3, LenProperties
    <3>3. \A k \in 1 .. Len(lists) + 1 : k \in 1 .. Len(lists) \/ k = Len(lists) + 1
      BY <3>2
    <3> QED
      BY <3>1, <3>3
  <2> QED
    BY <2>1, <2>2, <1>1
<1>6. Typed'
  <2>1. /\ Len(text) \in Nat /\ Pointer = 0 .. Len(text) /\ in \in 1 .. Len(text) + 1
        /\ Look(in) \in in .. Len(text) + 1 /\ Len(names) \in Nat /\ Len(names) < in
    BY TypedParts, LenProperties DEF Typed
  <2>2. numValues \in 0 .. in' - 1 /\ numRefs \in 0 .. in' - 1 /\ Len(names) < in'
    BY <2>1, <1>1, <1>3
  <2>3. Inside'
    <3>1. CASE in' = in
      BY <3>1, <2>1, <2>2, <1>1, InsideNow DEF Typed
    <3>2. CASE array /\ pc' = "done" /\ in' = Look(in) + 1
      <4>1. in' \in 1 .. Len(text) + 2 /\ numValues \in Pointer /\ numRefs \in Pointer
        BY <3>2, <2>1, <1>3
      <4> QED
        BY <4>1, <3>2, <1>1, <1>2 DEF Inside, Done
    <3> QED
      BY <3>1, <3>2, <1>1
  <2> QED
    BY <2>2, <2>3, <1>1, <1>2, <1>5 DEF Typed
<1>7. Kinds'
  <2>1. pc # "reference" /\ pc' # "reference"
    BY <1>1
  <2>2. type # "ref" => List.numRefs = 0
    BY DEF Kinds, List
  <2>3. type # "ref" => \A k \in 1 .. N' : lists'[k].numRefs = 0
    BY <2>2, <1>5 DEF Kinds, N
  <2> QED
    BY <2>1, <2>3, <1>1 DEF Kinds
<1> QED
  BY <1>6, <1>7

LEMMA IterateTyped == ASSUME NEW k \in DOMAIN lists, Typed, Kinds, Iterate(k) PROVE Typed' /\ Kinds'
<1>1. /\ UNCHANGED <<text, type, array, in, made, next, data, prev, numValues,
                     names, allNames, refs, numRefs, lists>>
      /\ pc = "done" /\ pc' = "iterating" /\ current' = lists[k].head /\ seen' = <<>>
  BY DEF Iterate, values, references
<1>2. Place' = Place /\ Pointer' = Pointer /\ Entry' = Entry
  BY <1>1, SameText
<1>3. lists[k] \in Entry
  BY ElementOfSeq, LenProperties DEF Typed
<1>4. current' \in Pointer /\ seen' \in Seq(Place)
  BY <1>1, <1>3, EmptySeq DEF Entry
<1>5. Typed'
  <2>1. Inside'
    BY <1>1, <1>2 DEF Typed, Inside, Done
  <2> QED
    BY <2>1, <1>1, <1>2, <1>4 DEF Typed
<1>6. Kinds'
  BY <1>1, KindsStill DEF Kinds
<1> QED
  BY <1>5, <1>6

LEMMA GetNextTyped == Typed /\ Kinds /\ GetNext => Typed' /\ Kinds'
<1> SUFFICES ASSUME Typed, Kinds, GetNext PROVE Typed' /\ Kinds'
  OBVIOUS
<1>1. /\ UNCHANGED <<text, type, array, in, pc, made, next, data, prev, numValues,
                     names, allNames, refs, numRefs, lists>>
      /\ pc = "iterating" /\ current # 0 /\ next[current] # 0
      /\ current' = next[current] /\ seen' = Append(seen, current')
  BY DEF GetNext, HasNext, values, references
<1>2. Place' = Place /\ Pointer' = Pointer /\ Entry' = Entry
  BY <1>1, SameText
<1>3. current' \in Place /\ current' \in Pointer
  <2>1. next \in [Place -> Pointer] /\ current \in Pointer
    BY DEF Typed
  <2> QED
    BY <2>1, <1>1, TypedText
<1>4. seen' \in Seq(Place)
  BY <1>1, <1>3, AppendProperties DEF Typed
<1>5. Typed'
  <2>1. Inside'
    BY <1>1, <1>2 DEF Typed, Inside, Done
  <2> QED
    BY <2>1, <1>1, <1>2, <1>3, <1>4 DEF Typed
<1>6. Kinds'
  BY <1>1, KindsStill DEF Kinds
<1> QED
  BY <1>5, <1>6

LEMMA StutterTyped == Typed /\ Kinds /\ UNCHANGED vars => Typed' /\ Kinds'
<1> SUFFICES ASSUME Typed, Kinds, UNCHANGED vars PROVE Typed' /\ Kinds'
  OBVIOUS
<1>1. UNCHANGED <<text, type, array, in, pc, values, references, lists, iterator>>
  BY DEF vars
<1>2. Place' = Place /\ Pointer' = Pointer /\ Entry' = Entry
  BY <1>1, SameText
<1>3. Typed'
  <2>1. Inside'
    BY <1>1, <1>2 DEF Typed, Inside, Done, values, references
  <2> QED
    BY <2>1, <1>1, <1>2 DEF Typed, values, references, iterator
<1>4. Kinds'
  BY <1>1, KindsStill DEF Kinds, values, references
<1> QED
  BY <1>3, <1>4

LEMMA TypedNext == Typed /\ Kinds /\ [Next]_vars => Typed' /\ Kinds'
<1> SUFFICES ASSUME Typed, Kinds, [Next]_vars PROVE Typed' /\ Kinds'
  OBVIOUS
<1>1. CASE Step
  BY <1>1, BeginTyped, ParseDataListTyped, ParseLiteralTyped, ParseNameTyped, MakeReferenceTyped,
     CloseTyped, ReturnTyped, GetNextTyped DEF Step
<1>2. ASSUME NEW k \in DOMAIN lists, Iterate(k) PROVE Typed' /\ Kinds'
  BY <1>2, IterateTyped
<1>3. CASE UNCHANGED vars
  BY <1>3, StutterTyped
<1> QED
  BY <1>1, <1>2, <1>3 DEF Next

-----------------------------------------------------------------------------
(* The chains of the lists.                                                *)

\* A value i behind the others of a chain, its last one, and what appending it gives
Growing(L, s, h, num, nx, i, last, nx2) ==
    /\ L \in Nat /\ s \in Seq(1 .. L) /\ nx \in [1 .. L -> 0 .. L]
    /\ Chained(s, h, num, nx) /\ Increasing(s)
    /\ i \in 1 .. L /\ \A j \in 1 .. Len(s) : s[j] < i
    /\ nx[i] = 0
    /\ Len(s) # 0 => last = s[Len(s)]
    /\ nx2 = IF h = 0 THEN nx ELSE [nx EXCEPT ![last] = i]

Grown(s, h, num, i, nx2) ==
    /\ Chained(Append(s, i), IF h = 0 THEN i ELSE h, num + 1, nx2)
    /\ Increasing(Append(s, i))
    /\ h = 0 <=> Len(s) = 0

\* A value behind the others of a chain is appended to it ...
LEMMA ChainGrows ==
    ASSUME NEW L, NEW s, NEW h, NEW num, NEW nx, NEW i, NEW last, NEW nx2,
           Growing(L, s, h, num, nx, i, last, nx2)
    PROVE  Grown(s, h, num, i, nx2)
<1>0. /\ L \in Nat /\ s \in Seq(1 .. L) /\ nx \in [1 .. L -> 0 .. L]
      /\ Chained(s, h, num, nx) /\ Increasing(s)
      /\ i \in 1 .. L /\ \A j \in 1 .. Len(s) : s[j] < i
      /\ nx[i] = 0
      /\ Len(s) # 0 => last = s[Len(s)]
      /\ nx2 = IF h = 0 THEN nx ELSE [nx EXCEPT ![last] = i]
  BY DEF Growing
<1> DEFINE m == Len(s)
           t == Append(s, i)
<1>1. /\ Len(t) = m + 1 /\ t[m + 1] = i /\ \A j \in 1 .. m : t[j] = s[j]
      /\ m \in Nat /\ \A j \in 1 .. m : s[j] \in 1 .. L
  <2>1. /\ Len(t) = m + 1 /\ t[m + 1] = i /\ \A j \in 1 .. m : t[j] = s[j]
    BY <1>0, RangeAppend
  <2>2. m \in Nat
    BY <1>0, LenProperties
  <2>3. \A j \in 1 .. m : s[j] \in 1 .. L
    BY <1>0, ElementOfSeq
  <2> QED
    BY <2>1, <2>2, <2>3
<1>2. /\ m = num /\ h = IF m = 0 THEN 0 ELSE s[1]
      /\ \A j \in 1 .. m : nx[s[j]] = IF j < m THEN s[j + 1] ELSE 0
      /\ \A j \in 1 .. m : \A k \in 1 .. j - 1 : s[k] < s[j]
      /\ \A j \in 1 .. m : s[j] < i
      /\ m # 0 => last = s[m]
  BY <1>0 DEF Chained, Increasing
<1> HIDE DEF m, t
<1>3. h = 0 <=> m = 0
  BY <1>1, <1>2
<1>4. Increasing(t)
  <2> SUFFICES ASSUME NEW j \in 1 .. m + 1, NEW k \in 1 .. j - 1 PROVE t[k] < t[j]
    BY <1>1 DEF Increasing
  <2>1. k \in 1 .. m /\ t[k] = s[k]
    BY <1>1
  <2>2. CASE j = m + 1
    BY <2>1, <2>2, <1>0, <1>1, <1>2
  <2>3. CASE j # m + 1
    <3>1. j \in 1 .. m
      BY <2>3, <1>1
    <3> QED
      BY <3>1, <2>1, <1>1, <1>2
  <2> QED
    BY <2>2, <2>3
<1>5. ASSUME NEW j \in 1 .. m + 1 PROVE nx2[t[j]] = IF j < m + 1 THEN t[j + 1] ELSE 0
  <2>1. CASE j = m + 1
    <3>1. t[j] = i
      BY <2>1, <1>1
    <3>2. h # 0 => last # i
      <4>1. h # 0 => last = s[m] /\ s[m] < i /\ s[m] \in 1 .. L
        BY <1>1, <1>2, <1>3
      <4> QED
        BY <4>1, <1>0
    <3>3. nx2[i] = 0
      BY <3>2, <1>0
    <3> QED
      BY <3>1, <3>3, <2>1, <1>1
  <2>2. CASE j = m
    <3>1. m # 0 /\ j \in 1 .. m /\ h # 0 /\ last = s[m] /\ s[m] \in 1 .. L
      BY <2>2, <1>1, <1>2, <1>3
    <3>2. t[j] = last /\ t[j + 1] = i
      BY <3>1, <2>2, <1>1
    <3>3. nx2[last] = i
      BY <3>1, <1>0
    <3> QED
      BY <3>2, <3>3, <2>2, <1>1
  <2>3. CASE j # m + 1 /\ j # m
    <3>1. j \in 1 .. m /\ m \in 1 .. m /\ j \in 1 .. m - 1 /\ j + 1 \in 1 .. m /\ m # 0 /\ j < m /\ j < m + 1
      BY <2>3, <1>1
    <3>2. last = s[m] /\ h # 0 /\ s[j] < s[m] /\ s[j] \in 1 .. L /\ s[m] \in 1 .. L
      BY <3>1, <1>1, <1>2, <1>3
    <3>3. s[j] # last
      BY <3>2
    <3>4. nx2[s[j]] = nx[s[j]]
      BY <3>2, <3>3, <1>0
    <3>5. nx[s[j]] = s[j + 1] /\ t[j] = s[j] /\ t[j + 1] = s[j + 1]
      BY <3>1, <1>1, <1>2
    <3> QED
      BY <3>1, <3>4, <3>5
  <2> QED
    BY <2>1, <2>2, <2>3
<1>6. (IF h = 0 THEN i ELSE h) = t[1] /\ Len(t) = num + 1 /\ Len(t) # 0
  <2>1. CASE m = 0
    BY <2>1, <1>1, <1>2, <1>3
  <2>2. CASE m # 0
    <3>1. 1 \in 1 .. m
      BY <2>2, <1>1
    <3> QED
      BY <3>1, <2>2, <1>1, <1>2, <1>3
  <2> QED
    BY <2>1, <2>2
<1>7. Chained(t, IF h = 0 THEN i ELSE h, num + 1, nx2)
  BY <1>1, <1>5, <1>6 DEF Chained
<1> QED
  BY <1>3, <1>4, <1>7 DEF t, m, Grown

\* ... and the chains without the value that it is appended to stay as they are.
LEMMA ChainKept ==
    ASSUME NEW S, NEW s \in Seq(S), NEW h, NEW num, NEW nx, DOMAIN nx = S,
           Chained(s, h, num, nx), NEW last, NEW i, \A j \in 1 .. Len(s) : s[j] # last
    PROVE  Chained(s, h, num, [nx EXCEPT ![last] = i])
<1>1. \A j \in 1 .. Len(s) : s[j] \in S
  BY ElementOfSeq, LenProperties
<1>2. \A x \in S : x # last => [nx EXCEPT ![last] = i][x] = nx[x]
  OBVIOUS
<1> QED
  BY <1>1, <1>2 DEF Chained

\* What a chain holds, as Chains says it
LEMMA ChainsParts ==
    ASSUME Typed, NEW c, Chains(c)
    PROVE  /\ N \in Nat /\ N + 1 \in 1 .. N + 1
           /\ \A k \in 1 .. N + 1 : /\ c[k] \in Seq(Place) /\ Len(c[k]) \in Nat
                                    /\ \A j \in 1 .. Len(c[k]) : c[k][j] \in made
                                    /\ \A x : x \in Range(c[k]) <=> \E j \in 1 .. Len(c[k]) : x = c[k][j]
           /\ \A x : x \in made <=> \E k \in 1 .. N + 1 : x \in Range(c[k])
<1>1. N \in Nat /\ N + 1 \in 1 .. N + 1
  BY LenProperties DEF Typed, N
<1>2. c \in [1 .. N + 1 -> Seq(Place)] /\ made = UNION {Range(c[k]) : k \in 1 .. N + 1}
  BY DEF Chains
<1>3. \A x : x \in made <=> \E k \in 1 .. N + 1 : x \in Range(c[k])
  BY <1>2
<1>4. ASSUME NEW k \in 1 .. N + 1
      PROVE  /\ c[k] \in Seq(Place) /\ Len(c[k]) \in Nat
             /\ \A x : x \in Range(c[k]) <=> \E j \in 1 .. Len(c[k]) : x = c[k][j]
  <2>1. c[k] \in Seq(Place)
    BY <1>2
  <2> QED
    BY <2>1, RangeIs, LenProperties
<1> QED
  BY <1>1, <1>3, <1>4

LEMMA ChainsStill ==
    ASSUME Typed, NEW c, Chains(c),
           UNCHANGED <<text, made, next, lists, data, prev, numValues>>,
           in' \in in .. Len(text) + 2, Open' <=> Open
    PROVE  Chains(c)'
<1>1. N' = N /\ Place' = Place
  BY DEF N, Place
<1>2. \A x \in made : x < in'
  <2>1. \A x \in made : x < in /\ x \in Place
    BY DEF Chains, Typed
  <2>2. Len(text) \in Nat /\ Place = 1 .. Len(text) /\ in \in 1 .. Len(text) + 2
    BY TypedText
  <2> QED
    BY <2>1, <2>2
<1> QED
  BY <1>1, <1>2 DEF Chains

LEMMA InitChains == Init => \E c : Chains(c)
<1> SUFFICES ASSUME Init PROVE \E c : Chains(c)
  OBVIOUS
<1> DEFINE c == [k \in 1 .. 1 |-> <<>>]
<1>1. /\ text \in Texts /\ in = 1 /\ pc = "begin" /\ made = {} /\ next = [j \in DOMAIN text |-> 0]
      /\ lists = <<>>
  BY DEF Init
<1>2. N = 0 /\ N + 1 = 1 /\ ~Open
  BY <1>1 DEF N, Open
<1>3. Len(<<>>) = 0 /\ <<>> \in Seq(Place) /\ Range(<<>>) = {}
  BY EmptySeq, RangeEmpty
<1>4. c \in [1 .. 1 -> Seq(Place)] /\ c[1] = <<>> /\ \A k \in 1 .. 1 : k = 1
  BY <1>3
<1> HIDE DEF c
<1>5. /\ \A k \in 1 .. 1 : Increasing(c[k]) /\ \A l \in 1 .. k - 1 : Before(c[l], c[k])
  BY <1>3, <1>4 DEF Increasing, Before
<1>6. {} = UNION {Range(c[k]) : k \in 1 .. 1}
  BY <1>3, <1>4
<1>7. \A x \in Place : next[x] = 0
  BY <1>1 DEF Place
<1>8. Chains(c)
  BY <1>1, <1>2, <1>4, <1>5, <1>6, <1>7 DEF Chains
<1> QED
  BY <1>8, Zenon

LEMMA BeginChains == ASSUME Typed, NEW c, Chains(c), Begin PROVE Chains(c)'
<1>1. /\ UNCHANGED <<text, values, lists>>
      /\ pc = "begin" /\ pc' \in {"list", "done"}
      /\ \/ in' = in
         \/ At(Look(in)) = "{" /\ in' = Look(in) + 1
         \/ in' = Look(in)
  BY DEF Begin, Goto
<1>2. in' \in in .. Len(text) + 1
  <2>1. At(Look(in)) = "{" => Look(in) + 1 \in in .. Len(text) + 1
    BY LookBehind
  <2>2. in \in in .. Len(text) + 1 /\ Look(in) \in in .. Len(text) + 1
    BY TypedParts
  <2> QED
    BY <1>1, <2>1, <2>2
<1>3. in' \in in .. Len(text) + 2
  BY <1>2, TypedParts
<1>4. UNCHANGED <<made, next, data, prev, numValues>> /\ (Open' <=> Open)
  BY <1>1 DEF Open, values
<1> QED
  BY <1>1, <1>3, <1>4, ChainsStill

LEMMA ParseDataListChains == ASSUME Typed, NEW c, Chains(c), ParseDataList PROVE Chains(c)'
<1>1. /\ UNCHANGED <<text, made, next, lists>>
      /\ data' = 0 /\ prev' = 0 /\ numValues' = 0
      /\ pc = "list" /\ pc' \in {"returned", "closed", "item"}
      /\ \/ At(Look(in)) = "{" /\ in' = Look(in) + 1
         \/ in' = Look(in)
  BY DEF ParseDataList, Goto
<1>2. in' \in in .. Len(text) + 1
  <2>1. At(Look(in)) = "{" => Look(in) + 1 \in in .. Len(text) + 1
    BY LookBehind
  <2>2. in \in in .. Len(text) + 1 /\ Look(in) \in in .. Len(text) + 1
    BY TypedParts
  <2> QED
    BY <1>1, <2>1, <2>2
<1>3. N' = N /\ Place' = Place /\ ~Open /\ Open'
  BY <1>1 DEF N, Place, Open
<1>4. \A x \in made : x < in'
  <2>1. \A x \in made : x < in /\ x \in Place
    BY DEF Chains, Typed
  <2>2. Len(text) \in Nat /\ Place = 1 .. Len(text) /\ in \in 1 .. Len(text) + 1
    BY TypedParts
  <2> QED
    BY <1>2, <2>1, <2>2
<1>5. c[N + 1] = <<>>
  BY <1>3 DEF Chains
<1>6. Chained(c[N + 1], 0, 0, next) /\ Len(c[N + 1]) = 0
  BY <1>5 DEF Chained
<1> QED
  BY <1>1, <1>3, <1>4, <1>6 DEF Chains

\* A list that is under way and has no value has an empty chain.
LEMMA ChainEmpty ==
    ASSUME Typed, NEW c, Chains(c), Open
    PROVE  data = 0 <=> c[N + 1] = <<>>
<1>1. N + 1 \in 1 .. N + 1 /\ c[N + 1] \in Seq(Place) /\ Len(c[N + 1]) \in Nat
  BY ChainsParts
<1>2. Chained(c[N + 1], data, numValues, next)
  BY DEF Chains
<1>3. Len(c[N + 1]) # 0 => c[N + 1][1] \in Place
  BY <1>1, ElementOfSeq
<1>4. 0 \notin Place
  BY TypedText
<1>5. Len(c[N + 1]) = 0 <=> c[N + 1] = <<>>
  BY <1>1, EmptySeq
<1> QED
  BY <1>2, <1>3, <1>4, <1>5 DEF Chained

\* d is c with i at the end of the chain under way.
Longer(c, d, i) ==
    /\ d \in [1 .. N + 1 -> Seq(Place)]
    /\ d[N + 1] = Append(c[N + 1], i)
    /\ \A k \in 1 .. N : d[k] = c[k]

\* What a turn of parseDataList's loop does to the chains
ParseLiteralDoes(c, d) ==
    LET i == Look(in) IN
    /\ At(i) \in Makes(type) => i \in Place /\ in' = i + 1 /\ Longer(c, d, i)
    /\ At(i) \notin Makes(type) => d = c

LEMMA LongerIs ==
    ASSUME Typed, NEW c, Chains(c), NEW i \in Place, in <= i
    PROVE  \E d : Longer(c, d, i)
<1> DEFINE d == [k \in 1 .. N + 1 |-> IF k = N + 1 THEN Append(c[k], i) ELSE c[k]]
<1>1. N \in Nat /\ \A k \in 1 .. N + 1 : c[k] \in Seq(Place)
  BY ChainsParts
<1>2. \A k \in 1 .. N + 1 : Append(c[k], i) \in Seq(Place)
  BY <1>1, AppendProperties
<1>3. d \in [1 .. N + 1 -> Seq(Place)] /\ d[N + 1] = Append(c[N + 1], i)
  BY <1>1, <1>2
<1>4. \A k \in 1 .. N : d[k] = c[k]
  BY <1>1
<1> HIDE DEF d
<1>5. Longer(c, d, i)
  BY <1>3, <1>4 DEF Longer
<1> QED
  BY <1>5, Zenon

LEMMA LiteralMade ==
    ASSUME Typed, NEW c, Chains(c), NEW d, ParseLiteral,
           At(Look(in)) \in Makes(type), Look(in) \in Place, in' = Look(in) + 1,
           Longer(c, d, Look(in))
    PROVE  Chains(d)'
<1>1. PICK i : i = Look(in)
  OBVIOUS
<1>2. /\ UNCHANGED <<text, lists>>
      /\ pc = "item" /\ pc' \in {"item", "closed"}
      /\ made' = made \cup {i}
      /\ data' = IF data = 0 THEN i ELSE data
      /\ next' = IF data = 0 THEN next ELSE [next EXCEPT ![prev] = i]
      /\ prev' = i
      /\ numValues' = numValues + 1
  BY <1>1 DEF ParseLiteral, PrevMoved, Turn, Goto
<1>3. /\ N \in Nat /\ N + 1 \in 1 .. N + 1 /\ N' = N /\ Place' = Place /\ Open /\ Open'
      /\ Place = 1 .. Len(text) /\ Len(text) \in Nat /\ Pointer = 0 .. Len(text)
      /\ i \in Place /\ in <= i /\ in' = i + 1 /\ in \in Nat
      /\ next \in [Place -> Pointer]
  <2>1. Look(in) \in in .. Len(text) + 1 /\ in \in 1 .. Len(text) + 1 /\ Len(text) \in Nat
    BY TypedParts
  <2>2. in <= i /\ in \in Nat
    BY <2>1, <1>1
  <2> QED
    BY <1>1, <1>2, <2>2, ChainsParts, TypedParts DEF N, Place, Open, Typed
<1>4. /\ \A k \in 1 .. N + 1 : /\ c[k] \in Seq(Place) /\ Len(c[k]) \in Nat
                               /\ \A j \in 1 .. Len(c[k]) : c[k][j] \in made
      /\ \A x : x \in made <=> \E k \in 1 .. N + 1 : x \in Range(c[k])
  BY ChainsParts
<1>5. \A x \in made : x < i /\ x \in Place /\ x # i
  <2>1. \A x \in made : x < in /\ x \in Place
    BY DEF Chains, Typed
  <2> QED
    BY <2>1, <1>3
<1> DEFINE s == c[N + 1]
           m == Len(s)
<1>6. /\ s \in Seq(Place) /\ m \in Nat /\ \A j \in 1 .. m : s[j] \in made
      /\ Chained(s, data, numValues, next) /\ (m # 0 => prev = s[m]) /\ Increasing(s)
  BY <1>3, <1>4 DEF Chains
<1>7. next[i] = 0
  BY <1>3, <1>5 DEF Chains
<1> HIDE DEF s
<1>8. /\ Chained(Append(s, i), data', numValues', next')
      /\ Increasing(Append(s, i))
      /\ data = 0 <=> m = 0
  <2>1. \A j \in 1 .. Len(s) : s[j] < i
    BY <1>5, <1>6
  <2>2. i \in 1 .. Len(text) /\ s \in Seq(1 .. Len(text)) /\ next \in [1 .. Len(text) -> 0 .. Len(text)]
    BY <1>3, <1>6
  <2>3. /\ Chained(s, data, numValues, next) /\ Increasing(s) /\ (Len(s) # 0 => prev = s[Len(s)])
        /\ Len(text) \in Nat
    BY <1>3, <1>6
  <2>4. next' = IF data = 0 THEN next ELSE [next EXCEPT ![prev] = i]
    BY <1>2
  <2>5. Growing(Len(text), s, data, numValues, next, i, prev, next')
    BY <1>7, <2>1, <2>2, <2>3, <2>4 DEF Growing
  <2>6. Grown(s, data, numValues, i, next')
    BY <2>5, ChainGrows, Zenon
  <2> QED
    BY <2>6, <1>2 DEF Grown
<1>9. /\ Append(s, i) \in Seq(Place) /\ Len(Append(s, i)) = m + 1
      /\ Append(s, i)[m + 1] = i /\ \A j \in 1 .. m : Append(s, i)[j] = s[j]
      /\ Range(Append(s, i)) = Range(s) \cup {i}
  BY <1>3, <1>6, RangeAppend
<1> DEFINE t == d[N + 1]
<1>10. /\ d \in [1 .. N + 1 -> Seq(Place)] /\ t = Append(s, i)
       /\ \A k \in 1 .. N : d[k] = c[k]
  BY <1>1 DEF Longer, s
<1> HIDE DEF t
<1>11. \A k \in 1 .. N : Chained(d[k], lists[k].head, lists[k].num, next')
  <2> SUFFICES ASSUME NEW k \in 1 .. N PROVE Chained(c[k], lists[k].head, lists[k].num, next')
    BY <1>10
  <2>1. k \in 1 .. N + 1 /\ k \in 1 .. (N + 1) - 1
    BY <1>3
  <2>2. Chained(c[k], lists[k].head, lists[k].num, next) /\ Before(c[k], s)
    BY <2>1, <1>3 DEF Chains, s
  <2>3. CASE data = 0
    BY <2>2, <2>3, <1>2
  <2>4. CASE data # 0
    <3>1. prev = s[m] /\ m \in 1 .. m
      BY <2>4, <1>6, <1>8
    <3>2. \A j \in 1 .. Len(c[k]) : c[k][j] # prev
      <4> SUFFICES ASSUME NEW j \in 1 .. Len(c[k]) PROVE c[k][j] # prev
        OBVIOUS
      <4>1. c[k][j] < s[m]
        BY <2>2, <3>1 DEF Before
      <4>2. s[m] \in Place
        BY <3>1, <1>5, <1>6
      <4> QED
        BY <4>1, <4>2, <3>1, <1>3
    <3>3. c[k] \in Seq(Place) /\ DOMAIN next = Place
      BY <2>1, <1>3, <1>4
    <3>4. Chained(c[k], lists[k].head, lists[k].num, [next EXCEPT ![prev] = i])
      BY <2>2, <3>2, <3>3, ChainKept
    <3> QED
      BY <3>4, <2>4, <1>2
  <2> QED
    BY <2>3, <2>4
<1>12. Len(t) # 0 => prev' = t[Len(t)]
  BY <1>2, <1>9, <1>10
<1>13. \A k \in 1 .. N + 1 : Increasing(d[k]) /\ \A l \in 1 .. k - 1 : Before(d[l], d[k])
  <2> SUFFICES ASSUME NEW k \in 1 .. N + 1
               PROVE  Increasing(d[k]) /\ \A l \in 1 .. k - 1 : Before(d[l], d[k])
    OBVIOUS
  <2>1. Increasing(c[k]) /\ \A l \in 1 .. k - 1 : Before(c[l], c[k])
    BY DEF Chains
  <2>2. \A l \in 1 .. k - 1 : l \in 1 .. N /\ l \in 1 .. N + 1
    BY <1>3
  <2>3. CASE k = N + 1
    <3>1. d[k] = Append(s, i) /\ Increasing(d[k])
      BY <2>3, <1>8, <1>10 DEF t
    <3>2. ASSUME NEW l \in 1 .. k - 1 PROVE Before(d[l], d[k])
      <4>1. d[l] = c[l] /\ Before(c[l], s) /\ \A j \in 1 .. Len(c[l]) : c[l][j] \in made
        BY <2>1, <2>2, <2>3, <1>4, <1>10 DEF s
      <4>2. \A j \in 1 .. m + 1 : j \in 1 .. m \/ j = m + 1
        BY <1>6
      <4>3. Before(c[l], Append(s, i))
        BY <4>1, <4>2, <1>5, <1>9 DEF Before
      <4> QED
        BY <4>1, <4>3, <3>1
    <3> QED
      BY <3>1, <3>2
  <2>4. CASE k # N + 1
    <3>1. k \in 1 .. N
      BY <2>4, <1>3
    <3> QED
      BY <3>1, <2>1, <2>2, <1>10
  <2> QED
    BY <2>3, <2>4
<1>14. made' = UNION {Range(d[k]) : k \in 1 .. N + 1}
  <2>1. \A k \in 1 .. N + 1 : k \in 1 .. N \/ k = N + 1
    BY <1>3
  <2>2. \A k \in 1 .. N : k \in 1 .. N + 1
    BY <1>3
  <2>3. Range(d[N + 1]) = Range(c[N + 1]) \cup {i}
    BY <1>9, <1>10 DEF t, s
  <2>4. ASSUME NEW x PROVE x \in made' <=> \E k \in 1 .. N + 1 : x \in Range(d[k])
    BY <2>1, <2>2, <2>3, <1>2, <1>3, <1>4, <1>10
  <2> QED
    BY <2>4
<1>15. \A x \in made' : x < in'
  BY <1>2, <1>3, <1>5
<1>16. \A x \in Place : x \notin made' => next'[x] = 0
  <2> SUFFICES ASSUME NEW x \in Place, x \notin made, x # i PROVE next'[x] = 0
    BY <1>2
  <2>1. next[x] = 0
    BY DEF Chains
  <2>2. CASE data = 0
    BY <2>1, <2>2, <1>2
  <2>3. CASE data # 0
    <3>1. prev \in made
      <4>1. prev = s[m] /\ m \in 1 .. m
        BY <2>3, <1>6, <1>8
      <4> QED
        BY <4>1, <1>6
    <3>2. x # prev
      BY <3>1
    <3> QED
      BY <3>2, <2>1, <2>3, <1>2, <1>3
  <2> QED
    BY <2>2, <2>3
<1>17. Chained(t, data', numValues', next')
  BY <1>8, <1>10
<1> QED
  BY <1>2, <1>3, <1>10, <1>11, <1>12, <1>13, <1>14, <1>15, <1>16, <1>17 DEF Chains, t

LEMMA ParseLiteralChains ==
    ASSUME Typed, NEW c, Chains(c), ParseLiteral
    PROVE  \E d : Chains(d)' /\ ParseLiteralDoes(c, d)
<1> DEFINE i == Look(in)
<1>1. /\ text \in Texts /\ i \in in .. Len(text) + 1 /\ i \in 1 .. Len(text) + 1 /\ in \in 1 .. Len(text) + 1
      /\ Len(text) \in Nat
  BY TypedParts
<1>2. Turn(i) /\ UNCHANGED <<text, lists>> /\ pc = "item"
  BY DEF ParseLiteral
<1>3. in' = NextSeparator(i) /\ in' \in i .. Len(text) + 1 /\ pc' \in {"item", "closed"}
  BY <1>1, <1>2, TurnIs
<1>4. CASE At(i) \in Makes(type)
  <2>1. At(i) \in Literal
    <3>1. type \in Type
      BY DEF Typed
    <3> QED
      BY <1>4, <3>1 DEF Makes, Literal, Type
  <2>2. i \in Place /\ in' = i + 1
    <3>1. At(i) # "end"
      BY <2>1 DEF Literal
    <3>2. i \in Place
      BY <3>1, <1>1, AtIs
    <3> QED
      BY <3>2, <2>1, <1>1, <1>3, NextSeparatorIs
  <2>3. PICK d : Longer(c, d, i)
    <3>1. in <= i
      BY <1>1
    <3> QED
      BY <3>1, <2>2, LongerIs
  <2>4. Chains(d)'
    BY <1>4, <2>2, <2>3, LiteralMade
  <2>5. ParseLiteralDoes(c, d)
    BY <1>4, <2>2, <2>3 DEF ParseLiteralDoes
  <2> QED
    BY <2>4, <2>5
<1>5. CASE At(i) \notin Makes(type)
  <2>1. UNCHANGED <<made, next, data, prev, numValues>>
    BY <1>5 DEF ParseLiteral, values
  <2>2. in' \in in .. Len(text) + 1
    BY <1>1, <1>3
  <2>3. Chains(c)'
    BY <2>1, <2>2, <1>2, <1>3, ChainsStill DEF Open
  <2>4. ParseLiteralDoes(c, c)
    BY <1>5 DEF ParseLiteralDoes
  <2> QED
    BY <2>3, <2>4
<1> QED
  BY <1>4, <1>5

LEMMA ParseNameChains == ASSUME Typed, Kinds, NEW c, Chains(c), ParseName PROVE Chains(c)'
<1>1. /\ UNCHANGED <<text, made, next, data, prev, numValues, lists>>
      /\ pc \in {"item", "reference"} /\ pc' = "reference"
      /\ \/ At(Look(in)) = "name" /\ in' = Look(in) + 1
         \/ in' = Look(in)
  BY DEF ParseName, Goto, values
<1>2. in' \in in .. Len(text) + 1
  <2>1. At(Look(in)) = "name" => Look(in) + 1 \in in .. Len(text) + 1
    BY LookBehind
  <2>2. in \in in .. Len(text) + 1 /\ Look(in) \in in .. Len(text) + 1
    BY TypedParts
  <2> QED
    BY <1>1, <2>1, <2>2
<1> QED
  BY <1>1, <1>2, ChainsStill DEF Open

LEMMA MakeReferenceChains == ASSUME Typed, NEW c, Chains(c), MakeReference PROVE Chains(c)'
<1>1. /\ UNCHANGED <<text, made, next, data, prev, numValues, lists>>
      /\ pc = "reference" /\ Turn(in)
  BY DEF MakeReference, values
<1>2. in' \in in .. Len(text) + 1 /\ pc' \in {"item", "closed"}
  BY <1>1, TypedParts, TurnIs
<1> QED
  BY <1>1, <1>2, ChainsStill DEF Open

LEMMA CloseIn ==
    ASSUME Typed, Close
    PROVE  in' \in in .. Len(text) + 1 /\ (At(in) # "end" => in' = in + 1)
<1>1. /\ \/ in' = in /\ At(in) = "end"
         \/ At(in) # "end" /\ in' = in + 1
  BY DEF Close, Goto, Behind
<1>2. in \in 1 .. Len(text) + 1 /\ Len(text) \in Nat
  BY TypedParts
<1>3. At(in) # "end" => in + 1 \in 1 .. Len(text) + 1
  BY TypedParts, AtIs
<1> QED
  BY <1>1, <1>2, <1>3

LEMMA CloseChains == ASSUME Typed, NEW c, Chains(c), Close PROVE Chains(c)'
<1>1. /\ UNCHANGED <<text, made, next, data, prev, numValues, lists>>
      /\ pc = "closed" /\ pc' = "returned"
  BY DEF Close, Goto, values
<1>2. in' \in in .. Len(text) + 1
  BY CloseIn
<1> QED
  BY <1>1, <1>2, ChainsStill DEF Open

\* The chains with an empty one for a list that is not there yet
Another(c, d) ==
    /\ d \in [1 .. N + 2 -> Seq(Place)]
    /\ \A k \in 1 .. N + 1 : d[k] = c[k]
    /\ d[N + 2] = <<>>

\* What Return does to the chains
ReturnDoes(c, d) ==
    \/ /\ ~array \/ NotEmpty
       /\ lists' = Append(lists, List) /\ N' = N + 1
       /\ lists'[N + 1] = List /\ \A k \in 1 .. N : lists'[k] = lists[k]
       /\ Another(c, d)
    \/ /\ array /\ ~NotEmpty
       /\ lists' = lists /\ N' = N /\ d = c /\ c[N + 1] = <<>>

LEMMA AnotherIs ==
    ASSUME Typed, NEW c, Chains(c)
    PROVE  \E d : Another(c, d)
<1> DEFINE d == [k \in 1 .. N + 2 |-> IF k = N + 2 THEN <<>> ELSE c[k]]
<1>1. N \in Nat /\ \A k \in 1 .. N + 1 : c[k] \in Seq(Place)
  BY ChainsParts
<1>2. d \in [1 .. N + 2 -> Seq(Place)]
  <2> SUFFICES ASSUME NEW k \in 1 .. N + 2, k # N + 2 PROVE c[k] \in Seq(Place)
    BY EmptySeq
  <2>1. k \in 1 .. N + 1
    BY <1>1
  <2> QED
    BY <2>1, <1>1
<1>3. d[N + 2] = <<>> /\ \A k \in 1 .. N + 1 : d[k] = c[k]
  BY <1>1
<1> HIDE DEF d
<1>4. Another(c, d)
  BY <1>2, <1>3 DEF Another
<1> QED
  BY <1>4, Zenon

\* Return appends a list, or leaves the lists alone, and no list is under way.
LEMMA ReturnIs ==
    ASSUME Typed, Return
    PROVE  /\ UNCHANGED <<text, made, next, data, prev, numValues>>
           /\ \A n \in Nat : n < in => n < in'
           /\ pc' = "list" => in' = in
           /\ pc = "returned" /\ pc' \in {"list", "done"} /\ Open /\ ~Open'
           /\ pc' = "list" <=> array /\ At(in) = ","
           /\ N \in Nat
           /\ \/ /\ ~array \/ NotEmpty
                 /\ lists' = Append(lists, List) /\ N' = N + 1
                 /\ lists'[N + 1] = List /\ \A k \in 1 .. N : lists'[k] = lists[k]
              \/ array /\ ~NotEmpty /\ lists' = lists /\ N' = N
<1>1. /\ UNCHANGED <<text, made, next, data, prev, numValues>>
      /\ pc = "returned" /\ pc' \in {"list", "done"}
      /\ pc' = "list" <=> array /\ At(in) = ","
      /\ in' = in \/ (pc' # "list" /\ in' = Look(in) + 1)
      /\ lists' = IF ~array \/ NotEmpty THEN Append(lists, List) ELSE lists
  BY DEF Return, Goto, values
<1>6. (\A n \in Nat : n < in => n < in') /\ (pc' = "list" => in' = in)
  <2>1. in \in 1 .. Len(text) + 1 /\ Look(in) \in in .. Len(text) + 1 /\ Len(text) \in Nat
    BY TypedParts
  <2>2. \A L \in Nat : \A i \in 1 .. L + 1 : \A j \in i .. L + 1 : \A n \in Nat : n < i => n < j + 1
    OBVIOUS
  <2>3. \A n \in Nat : n < in => n < Look(in) + 1
    BY <2>1, <2>2
  <2> QED
    BY <2>3, <1>1
<1>2. lists \in Seq(Entry)
  BY DEF Typed
<1>3. List \in Entry
  <2>1. data \in Pointer /\ refs \in Seq(Place) /\ numValues \in 0 .. in - 1 /\ numRefs \in 0 .. in - 1
    BY DEF Typed
  <2>2. numValues \in Pointer /\ numRefs \in Pointer
    BY <2>1, TypedParts
  <2> QED
    BY <2>1, <2>2 DEF List, Entry
<1>4. N \in Nat
  BY <1>2, LenProperties DEF N
<1>5. LET l == Append(lists, List)
      IN  Len(l) = N + 1 /\ l[N + 1] = List /\ \A k \in 1 .. N : l[k] = lists[k]
  BY <1>2, <1>3, RangeAppend DEF N
<1> QED
  BY <1>1, <1>4, <1>5, <1>6 DEF N, Open

LEMMA BehindReturn ==
    ASSUME Typed, NEW c, Chains(c), Return
    PROVE  \A x \in made : x < in'
<1>1. \A x \in made : x \in Nat /\ x < in
  <2>1. made \subseteq Place /\ Place \subseteq Nat
    BY TypedText DEF Typed
  <2> QED
    BY <2>1 DEF Chains
<1> QED
  BY <1>1, ReturnIs

LEMMA ListAppended ==
    ASSUME Typed, NEW c, Chains(c), Return, NEW d, Another(c, d), N' = N + 1,
           lists'[N + 1] = List, \A k \in 1 .. N : lists'[k] = lists[k]
    PROVE  Chains(d)'
<1>1. /\ UNCHANGED <<text, made, next>> /\ Open /\ ~Open' /\ N \in Nat /\ Place' = Place
  BY ReturnIs DEF Place
<1>2. /\ \A k \in 1 .. N + 1 : c[k] \in Seq(Place)
      /\ \A x : x \in made <=> \E k \in 1 .. N + 1 : x \in Range(c[k])
      /\ \A k \in 1 .. N + 1 : Len(c[k]) \in Nat
  BY ChainsParts
<1>3. /\ d \in [1 .. N + 2 -> Seq(Place)]
      /\ \A k \in 1 .. N + 1 : d[k] = c[k]
      /\ d[N + 2] = <<>>
  BY DEF Another
<1>4. /\ N' + 1 = N + 2
      /\ \A k \in 1 .. N + 1 : k \in 1 .. N \/ k = N + 1
      /\ \A k \in 1 .. N + 2 : /\ k \in 1 .. N + 1 \/ k = N + 2
                               /\ \A l \in 1 .. k - 1 : l \in 1 .. N + 1
      /\ N + 1 \in 1 .. N + 1 /\ \A k \in 1 .. N : k \in 1 .. N + 1
  BY <1>1
<1>5. \A k \in 1 .. N + 1 : Chained(d[k], lists'[k].head, lists'[k].num, next)
  <2>1. \A k \in 1 .. N : Chained(c[k], lists[k].head, lists[k].num, next)
    BY DEF Chains
  <2>2. Chained(c[N + 1], List.head, List.num, next)
    BY <1>1 DEF Chains, List
  <2> QED
    BY <2>1, <2>2, <1>3, <1>4
<1>6. \A k \in 1 .. N + 2 : Increasing(d[k]) /\ \A l \in 1 .. k - 1 : Before(d[l], d[k])
  <2> SUFFICES ASSUME NEW k \in 1 .. N + 2
               PROVE  Increasing(d[k]) /\ \A l \in 1 .. k - 1 : Before(d[l], d[k])
    OBVIOUS
  <2>1. CASE k \in 1 .. N + 1
    <3>1. Increasing(c[k]) /\ \A l \in 1 .. k - 1 : Before(c[l], c[k])
      BY <2>1 DEF Chains
    <3> QED
      BY <3>1, <2>1, <1>3, <1>4
  <2>2. CASE k = N + 2
    <3>1. d[k] = <<>> /\ Len(d[k]) = 0
      BY <2>2, <1>3
    <3> QED
      BY <3>1 DEF Increasing, Before
  <2> QED
    BY <2>1, <2>2, <1>4
<1>7. made = UNION {Range(d[k]) : k \in 1 .. N + 2}
  <2>1. \A k \in 1 .. N + 1 : k \in 1 .. N + 2
    BY <1>1
  <2>2. Range(d[N + 2]) = {}
    BY <1>3, RangeEmpty
  <2>3. ASSUME NEW x PROVE x \in made <=> \E k \in 1 .. N + 2 : x \in Range(d[k])
    BY <2>1, <2>2, <1>2, <1>3, <1>4
  <2> QED
    BY <2>3
<1>8. /\ \A x \in made : x < in'
      /\ \A x \in Place : x \notin made => next[x] = 0
  BY BehindReturn DEF Chains
<1>9. d[N' + 1] = <<>>
  BY <1>3, <1>4
<1> QED
  BY <1>1, <1>3, <1>4, <1>5, <1>6, <1>7, <1>8, <1>9 DEF Chains

LEMMA ReturnChains ==
    ASSUME Typed, NEW c, Chains(c), Return
    PROVE  \E d : Chains(d)' /\ ReturnDoes(c, d)
<1>1. CASE ~array \/ NotEmpty
  <2>1. PICK d : Another(c, d)
    BY AnotherIs
  <2>2. /\ lists' = Append(lists, List) /\ N' = N + 1
        /\ lists'[N + 1] = List /\ \A k \in 1 .. N : lists'[k] = lists[k]
    BY <1>1, ReturnIs
  <2>3. Chains(d)'
    BY <2>1, <2>2, ListAppended
  <2>4. ReturnDoes(c, d)
    BY <1>1, <2>1, <2>2 DEF ReturnDoes
  <2> QED
    BY <2>3, <2>4
<1>2. CASE array /\ ~NotEmpty
  <2>1. lists' = lists /\ N' = N
    BY <1>2, ReturnIs
  <2>2. /\ UNCHANGED <<text, made, next, data, prev, numValues>> /\ Open /\ ~Open' /\ Place' = Place
        /\ \A x \in made : x < in'
    BY ReturnIs, BehindReturn DEF Place
  <2>3. c[N + 1] = <<>>
    BY <1>2, <2>2, ChainEmpty DEF NotEmpty
  <2>4. Chains(c)'
    BY <2>1, <2>2, <2>3 DEF Chains
  <2>5. ReturnDoes(c, c)
    BY <1>2, <2>1, <2>3 DEF ReturnDoes
  <2> QED
    BY <2>4, <2>5
<1> QED
  BY <1>1, <1>2

LEMMA IterateChains == ASSUME Typed, NEW c, Chains(c), NEW k, Iterate(k) PROVE Chains(c)'
<1>1. /\ UNCHANGED <<text, in, made, next, data, prev, numValues, lists>>
      /\ pc = "done" /\ pc' = "iterating" /\ in \in in .. Len(text) + 2
  BY TypedText DEF Iterate, values
<1> QED
  BY <1>1, ChainsStill DEF Open

LEMMA GetNextChains == ASSUME Typed, NEW c, Chains(c), GetNext PROVE Chains(c)'
<1>1. /\ UNCHANGED <<text, in, pc, made, next, data, prev, numValues, lists>>
      /\ in \in in .. Len(text) + 2
  BY TypedText DEF GetNext, values
<1> QED
  BY <1>1, ChainsStill DEF Open

LEMMA StutterChains == ASSUME Typed, NEW c, Chains(c), UNCHANGED vars PROVE Chains(c)'
<1>1. /\ UNCHANGED <<text, in, pc, made, next, data, prev, numValues, lists>>
      /\ in \in in .. Len(text) + 2
  BY TypedText DEF vars, values
<1> QED
  BY <1>1, ChainsStill DEF Open

-----------------------------------------------------------------------------
(* The names of references.                                                *)

\* What Named reads besides the names
LEMMA SameNames ==
    /\ text' = text => (CommaLists' <=> CommaLists) /\ (\A i : At(i)' = At(i))
    /\ lists' = lists => RefNames' = RefNames
    /\ numRefs' = 0 \/ pc' \notin {"closed", "returned"} => OwnNames' = {}
    /\ numRefs = 0 \/ pc \notin {"closed", "returned"} => OwnNames = {}
<1>1. text' = text => (CommaLists' <=> CommaLists) /\ (\A i : At(i)' = At(i))
  BY DEF CommaLists, At
<1>2. lists' = lists => RefNames' = RefNames
  BY DEF RefNames
<1> QED
  BY <1>1, <1>2 DEF OwnNames

LEMMA InitNamed == Init => Named
<1> SUFFICES ASSUME Init PROVE Named
  OBVIOUS
<1>1. /\ pc = "begin" /\ names = <<>> /\ allNames = {} /\ lists = <<>>
  BY DEF Init
<1>2. RefNames = {} /\ OwnNames = {} /\ Range(names) = {}
  BY <1>1, RangeEmpty, EmptySeq DEF RefNames, OwnNames
<1> QED
  BY <1>1, <1>2 DEF Named

LEMMA BeginNamed == Named /\ Begin => Named'
<1> SUFFICES ASSUME Named, Begin PROVE Named'
  OBVIOUS
<1>1. /\ UNCHANGED <<text, names, allNames, lists>>
      /\ pc = "begin" /\ pc' \in {"list", "done"}
  BY DEF Begin, Goto, references
<1>2. OwnNames = {} /\ OwnNames' = {} /\ RefNames' = RefNames /\ (CommaLists' <=> CommaLists)
  BY <1>1, SameNames
<1> QED
  BY <1>1, <1>2 DEF Named

LEMMA ParseDataListNamed == Named /\ ParseDataList => Named'
<1> SUFFICES ASSUME Named, ParseDataList PROVE Named'
  OBVIOUS
<1>1. /\ UNCHANGED <<text, names, allNames, lists>>
      /\ numRefs' = 0
      /\ pc = "list" /\ pc' \in {"returned", "closed", "item"}
  BY DEF ParseDataList, Goto
<1>2. OwnNames = {} /\ OwnNames' = {} /\ RefNames' = RefNames /\ (CommaLists' <=> CommaLists)
  BY <1>1, SameNames
<1> QED
  BY <1>1, <1>2 DEF Named

LEMMA ParseLiteralNamed == Typed /\ Kinds /\ Named /\ ParseLiteral => Named'
<1> SUFFICES ASSUME Typed, Kinds, Named, ParseLiteral PROVE Named'
  OBVIOUS
<1>1. /\ UNCHANGED <<text, names, allNames, numRefs, lists>>
      /\ pc = "item" /\ type # "ref" /\ Turn(Look(in))
  BY DEF ParseLiteral, references
<1>2. pc' \in {"item", "closed"}
  BY <1>1, TypedParts, TurnIs
<1>3. numRefs = 0
  BY <1>1 DEF Kinds
<1>4. OwnNames = {} /\ OwnNames' = {} /\ RefNames' = RefNames /\ (CommaLists' <=> CommaLists)
  BY <1>1, <1>3, SameNames
<1> QED
  BY <1>1, <1>2, <1>3, <1>4 DEF Named

\* What follows a name in a text of names
LEMMA CommaListIs ==
    ASSUME text \in Texts, CommaLists, NEW i \in 1 .. Len(text) + 1
    PROVE  /\ At(i) \in Separator \cup {"name", "end"}
           /\ At(i) = "name" => At(i + 1) \in {",", "}"}
<1>1. i \in Place \/ i = Len(text) + 1
  BY TextIs
<1>2. At(Len(text) + 1) = "end" /\ \A j \in Place : At(j) = text[j]
  BY TextIs
<1>3. i \in Place => At(i) \in Separator \cup {"name"} /\ (At(i) = "name" => At(i + 1) \in {",", "}"})
  BY <1>2 DEF CommaLists, Place
<1> QED
  BY <1>1, <1>2, <1>3

LEMMA ParseNameNamed == Typed /\ Kinds /\ Named /\ ParseName => Named'
<1> SUFFICES ASSUME Typed, Kinds, Named, ParseName PROVE Named'
  OBVIOUS
<1> DEFINE i == Look(in)
<1>1. /\ UNCHANGED <<text, numRefs, lists>>
      /\ pc \in {"item", "reference"} /\ pc' = "reference"
      /\ \/ At(i) = "name" /\ names' = Append(names, i) /\ allNames' = allNames \cup {i} /\ in' = i + 1
         \/ At(i) # "name" /\ names' = names /\ allNames' = allNames /\ in' = i
  BY DEF ParseName, Pushed, Goto
<1>2. text \in Texts /\ i \in 1 .. Len(text) + 1 /\ At(i) \notin {",", " "}
  BY TypedParts, LookIs
<1>3. At(i) = "name" => i \in Place
  BY LookBehind
<1> HIDE DEF i
<1>4. OwnNames = {} /\ OwnNames' = {} /\ RefNames' = RefNames /\ (CommaLists' <=> CommaLists)
      /\ \A j : At(j)' = At(j)
  BY <1>1, SameNames
<1> SUFFICES ASSUME CommaLists
             PROVE  /\ numRefs' = 0 /\ At(in)' \notin {" ", "name"}
                    /\ allNames' = RefNames' \cup Range(names')
  BY <1>1, <1>4 DEF Named
<1>5. numRefs' = 0
  BY <1>1 DEF Named
<1>6. At(in') \notin {" ", "name"}
  BY <1>1, <1>2, CommaListIs
<1>7. At(in)' = At(in')
  BY <1>1 DEF At
<1>8. allNames = RefNames \cup Range(names)
  BY <1>4 DEF Named
<1>9. allNames' = RefNames' \cup Range(names')
  <2>1. CASE At(i) = "name"
    <3>1. names \in Seq(Place)
      BY DEF Typed
    <3>2. Range(names') = Range(names) \cup {i}
      <4>1. i \in Place /\ names' = Append(names, i)
        BY <2>1, <1>1, <1>3
      <4>2. Range(Append(names, i)) = Range(names) \cup {i}
        BY <4>1, <3>1, RangeAppend
      <4> QED
        BY <4>1, <4>2
    <3> QED
      BY <3>2, <2>1, <1>1, <1>4, <1>8
  <2>2. CASE At(i) # "name"
    BY <2>2, <1>1, <1>4, <1>8
  <2> QED
    BY <2>1, <2>2
<1> QED
  BY <1>5, <1>6, <1>7, <1>9

\* The end of a Reference in a text of names
LEMMA ReferenceEnds ==
    ASSUME Typed, Kinds, Named, CommaLists, MakeReference
    PROVE  /\ At(in) \in {"{", "}", "end"} /\ in' = in /\ pc' = "closed"
           /\ OwnNames' = Range(names)
<1>1. /\ pc = "reference" /\ At(in) # "," /\ Turn(in)
      /\ IF names # <<>> THEN refs' = names /\ numRefs' = Len(names)
         ELSE UNCHANGED <<refs, numRefs>>
  BY DEF MakeReference
<1>2. /\ text \in Texts /\ in \in 1 .. Len(text) + 1 /\ names \in Seq(Place)
      /\ in' = NextSeparator(in) /\ pc' = IF At(in') \in {",", " "} THEN "item" ELSE "closed"
  BY <1>1, TypedParts, TurnIs DEF Typed
<1>3. At(in) \in {"{", "}", "end"} /\ numRefs = 0
  <2>1. At(in) \notin {",", " ", "name"} /\ numRefs = 0
    BY <1>1 DEF Named
  <2> QED
    BY <2>1, <1>2, CommaListIs DEF Separator
<1>4. in' = in /\ pc' = "closed"
  <2>1. At(in) \notin Literal
    BY <1>3 DEF Literal
  <2> QED
    BY <2>1, <1>2, <1>3, NextSeparatorIs
<1>5. OwnNames' = Range(names)
  <2>1. CASE names # <<>>
    <3>1. Len(names) > 0
      <4>1. Len(names) \in Nat
        BY <1>2, LenProperties
      <4>2. Len(names) # 0
        BY <2>1, <1>2, EmptySeq
      <4> QED
        BY <4>1, <4>2
    <3> QED
      BY <3>1, <2>1, <1>1, <1>4 DEF OwnNames
  <2>2. CASE names = <<>>
    <3>1. numRefs' = 0 /\ Range(names) = {}
      BY <2>2, <1>1, <1>3, RangeEmpty
    <3>2. OwnNames' = {}
      BY <3>1, SameNames
    <3> QED
      BY <3>1, <3>2
  <2> QED
    BY <2>1, <2>2
<1> QED
  BY <1>3, <1>4, <1>5

LEMMA MakeReferenceNamed == Typed /\ Kinds /\ Named /\ MakeReference => Named'
<1> SUFFICES ASSUME Typed, Kinds, Named, MakeReference PROVE Named'
  OBVIOUS
<1>1. UNCHANGED <<text, allNames, lists>> /\ pc = "reference" /\ names' = <<>>
  BY DEF MakeReference
<1>2. OwnNames = {} /\ RefNames' = RefNames /\ (CommaLists' <=> CommaLists)
  BY <1>1, SameNames
<1> SUFFICES ASSUME CommaLists
             PROVE  pc' = "closed" /\ allNames' = RefNames' \cup Range(names') \cup OwnNames'
  BY <1>1, <1>2 DEF Named
<1>3. pc' = "closed" /\ OwnNames' = Range(names)
  BY ReferenceEnds
<1>4. allNames = RefNames \cup Range(names)
  BY <1>2 DEF Named
<1> QED
  BY <1>1, <1>2, <1>3, <1>4, RangeEmpty

LEMMA CloseNamed == Named /\ Close => Named'
<1> SUFFICES ASSUME Named, Close PROVE Named'
  OBVIOUS
<1>1. /\ UNCHANGED <<text, names, allNames, refs, numRefs, lists>>
      /\ pc = "closed" /\ pc' = "returned"
  BY DEF Close, Goto, references
<1>2. RefNames' = RefNames /\ (CommaLists' <=> CommaLists)
  BY <1>1, SameNames
<1>3. OwnNames' = OwnNames
  BY <1>1 DEF OwnNames
<1> QED
  BY <1>1, <1>2, <1>3 DEF Named

\* The list that Return appends has the names of its Reference.
LEMMA ReturnRefNames == Typed /\ Kinds /\ Return => RefNames' = RefNames \cup OwnNames
<1> SUFFICES ASSUME Typed, Kinds, Return PROVE RefNames' = RefNames \cup OwnNames
  OBVIOUS
<1>1. /\ pc = "returned" /\ N \in Nat
      /\ \/ /\ N' = N + 1 /\ lists'[N + 1] = List /\ \A k \in 1 .. N : lists'[k] = lists[k]
         \/ ~NotEmpty /\ lists' = lists
  BY ReturnIs
<1>2. numRefs \in Nat
  BY TypedParts DEF Typed
<1>3. DOMAIN lists = 1 .. N /\ DOMAIN lists' = 1 .. N'
  <2>1. DOMAIN lists = 1 .. N
    BY LenProperties DEF Typed, N
  <2>2. Typed'
    BY ReturnTyped
  <2>3. DOMAIN lists' = 1 .. N'
    BY <2>2, LenProperties DEF Typed, N
  <2> QED
    BY <2>1, <2>3
<1>4. CASE ~NotEmpty /\ lists' = lists
  BY <1>4, <1>2, SameNames DEF NotEmpty
<1>5. CASE N' = N + 1 /\ lists'[N + 1] = List /\ \A k \in 1 .. N : lists'[k] = lists[k]
  <2>1. \A k \in 1 .. N + 1 : k \in 1 .. N \/ k = N + 1
    BY <1>1
  <2>2. \A k \in 1 .. N : k \in 1 .. N + 1
    BY <1>1
  <2>3. N + 1 \in 1 .. N + 1
    BY <1>1
  <2>4. List.refs = refs /\ List.numRefs = numRefs
    BY DEF List
  <2>5. ASSUME NEW x
        PROVE  x \in RefNames' <=> x \in RefNames \/ x \in OwnNames
    <3>1. x \in RefNames' <=> \E k \in 1 .. N + 1 : lists'[k].numRefs > 0 /\ x \in Range(lists'[k].refs)
      BY <1>3, <1>5 DEF RefNames
    <3>2. x \in RefNames <=> \E k \in 1 .. N : lists[k].numRefs > 0 /\ x \in Range(lists[k].refs)
      BY <1>3 DEF RefNames
    <3>3. x \in OwnNames <=> numRefs > 0 /\ x \in Range(refs)
      BY <1>1 DEF OwnNames
    <3> QED
      BY <2>1, <2>2, <2>3, <2>4, <3>1, <3>2, <3>3, <1>5
  <2> QED
    BY <2>5
<1> QED
  BY <1>1, <1>4, <1>5

LEMMA ReturnNamed == Typed /\ Kinds /\ Named /\ Return => Named'
<1> SUFFICES ASSUME Typed, Kinds, Named, Return PROVE Named'
  OBVIOUS
<1>1. /\ UNCHANGED <<text, names, allNames>>
      /\ pc = "returned" /\ pc' \in {"list", "done"}
  BY DEF Return, Goto, references
<1>2. OwnNames' = {} /\ RefNames' = RefNames \cup OwnNames /\ (CommaLists' <=> CommaLists)
  BY <1>1, SameNames, ReturnRefNames
<1>3. CommaLists => allNames' = RefNames' \cup Range(names') \cup OwnNames'
  BY <1>1, <1>2 DEF Named
<1> QED
  BY <1>1, <1>2, <1>3 DEF Named

LEMMA ClientNamed ==
    ASSUME Named, UNCHANGED <<text, in, references, lists>>,
           pc' = pc \/ (pc = "done" /\ pc' = "iterating")
    PROVE  Named'
<1>1. UNCHANGED <<text, in, names, allNames, refs, numRefs, lists>>
  BY DEF references
<1>2. RefNames' = RefNames /\ (CommaLists' <=> CommaLists) /\ \A i : At(i)' = At(i)
  BY <1>1, SameNames
<1>3. OwnNames' = OwnNames /\ At(in)' = At(in)
  BY <1>1 DEF OwnNames, At
<1> QED
  BY <1>1, <1>2, <1>3 DEF Named

LEMMA NamedNext == Typed /\ Kinds /\ Named /\ [Next]_vars => Named'
<1> SUFFICES ASSUME Typed, Kinds, Named, [Next]_vars PROVE Named'
  OBVIOUS
<1>1. CASE GetNext
  BY <1>1, ClientNamed DEF GetNext
<1>2. CASE Step
  BY <1>1, <1>2, BeginNamed, ParseDataListNamed, ParseLiteralNamed, ParseNameNamed,
     MakeReferenceNamed, CloseNamed, ReturnNamed DEF Step
<1>3. ASSUME NEW k \in DOMAIN lists, Iterate(k) PROVE Named'
  BY <1>3, ClientNamed DEF Iterate
<1>4. CASE UNCHANGED vars
  <2>1. UNCHANGED <<text, in, references, lists>> /\ pc' = pc
    BY <1>4 DEF vars
  <2> QED
    BY <2>1, ClientNamed
<1> QED
  BY <1>2, <1>3, <1>4 DEF Next

-----------------------------------------------------------------------------
(* The client's iterator.                                                  *)

LEMMA IterateIterating ==
    ASSUME Typed, NEW c, Chains(c), NEW k \in DOMAIN lists, Iterate(k)
    PROVE  Iterating(c)'
<1>1. /\ lists' = lists /\ current' = lists[k].head /\ seen' = <<>> /\ pc = "done"
  BY DEF Iterate
<1>2. k \in 1 .. N /\ k \in 1 .. N + 1 /\ N' = N
  <2>1. k \in 1 .. N /\ N \in Nat
    BY LenProperties DEF Typed, N
  <2> QED
    BY <2>1, <1>1 DEF N
<1> DEFINE s == c[k]
<1>3. s \in Seq(Place) /\ Len(s) \in Nat
  BY <1>2, ChainsParts
<1>4. lists[k].head = IF Len(s) = 0 THEN 0 ELSE s[1]
  BY <1>2 DEF Chains, Chained
<1>5. CASE Len(s) = 0
  BY <1>5, <1>1, <1>2, <1>4 DEF Iterating
<1>6. CASE Len(s) # 0
  <2>1. 1 \in 1 .. Len(s)
    BY <1>3, <1>6
  <2>2. SubSeq(s, 2, 1) = <<>>
    BY <1>3, SubSeqEmpty
  <2>3. \E p \in 1 .. Len(s) : current' = s[p] /\ seen' = SubSeq(s, 2, p)
    BY <2>1, <2>2, <1>1, <1>4, <1>6
  <2> QED
    BY <2>3, <1>2, <1>6 DEF Iterating
<1> QED
  BY <1>5, <1>6

LEMMA GetNextIterating ==
    ASSUME Typed, NEW c, Chains(c), Iterating(c), GetNext
    PROVE  Iterating(c)'
<1>1. /\ lists' = lists /\ pc = "iterating" /\ current # 0 /\ next[current] # 0
      /\ current' = next[current] /\ seen' = Append(seen, next[current])
  BY DEF GetNext, HasNext
<1>2. PICK k \in 1 .. N :
        IF Len(c[k]) = 0 THEN current = 0 /\ seen = <<>>
        ELSE \E p \in 1 .. Len(c[k]) : current = c[k][p] /\ seen = SubSeq(c[k], 2, p)
  BY <1>1 DEF Iterating
<1> DEFINE s == c[k]
<1>3. k \in 1 .. N + 1 /\ N' = N
  <2>1. N \in Nat
    BY ChainsParts
  <2> QED
    BY <2>1, <1>1 DEF N
<1>4. s \in Seq(Place) /\ Len(s) \in Nat
  BY <1>3, ChainsParts
<1>5. Len(s) # 0
  BY <1>1, <1>2
<1>6. PICK p \in 1 .. Len(s) : current = s[p] /\ seen = SubSeq(s, 2, p)
  BY <1>2, <1>5
<1>7. next[s[p]] = IF p < Len(s) THEN s[p + 1] ELSE 0
  BY <1>2 DEF Chains, Chained
<1>8. /\ p < Len(s) /\ next[current] = s[p + 1] /\ p + 1 \in 1 .. Len(s) /\ 2 \in 1 .. Len(s)
      /\ p + 1 \in 2 .. Len(s) /\ (p + 1) - 1 = p
  BY <1>1, <1>4, <1>6, <1>7
<1>9. seen' = SubSeq(s, 2, p + 1)
  <2>1. SubSeq(s, 2, p + 1) = SubSeq(s, 2, (p + 1) - 1) \o <<s[p + 1]>>
    BY <1>4, <1>8, SubSeqRecursiveSecond
  <2>2. SubSeq(s, 2, p) \in Seq(Place) /\ s[p + 1] \in Place
    <3>1. \A j \in 1 .. Len(s) : s[j] \in Place
      BY <1>4, ElementOfSeq
    <3>2. \A j \in 2 .. p : j \in 1 .. Len(s)
      BY <1>4, <1>6
    <3> QED
      BY <3>1, <3>2, <1>4, <1>8, SubSeqProperties
  <2>3. Append(SubSeq(s, 2, p), s[p + 1]) = SubSeq(s, 2, p) \o <<s[p + 1]>>
    BY <2>2, AppendIsConcat
  <2> QED
    BY <2>1, <2>3, <1>1, <1>6, <1>8
<1>10. \E q \in 1 .. Len(s) : current' = s[q] /\ seen' = SubSeq(s, 2, q)
  BY <1>1, <1>8, <1>9
<1> QED
  BY <1>2, <1>3, <1>5, <1>10 DEF Iterating

LEMMA IteratingStill ==
    ASSUME NEW c, Iterating(c), UNCHANGED <<pc, lists, iterator>>
    PROVE  Iterating(c)'
BY DEF Iterating, iterator, N

-----------------------------------------------------------------------------
(* What a client finds.                                                    *)

\* The chains are what Chain goes through.
LEMMA ChainsAre ==
    ASSUME Typed, NEW c, Chains(c), Done
    PROVE  /\ DOMAIN lists = 1 .. N /\ N \in Nat
           /\ \A k \in 1 .. N : /\ Chain(lists[k].head) = c[k] /\ Len(c[k]) = lists[k].num
                                /\ c[k] \in Seq(Place) /\ DOMAIN c[k] = 1 .. Len(c[k])
                                /\ Increasing(c[k])
                                /\ \A l \in 1 .. k - 1 : Before(c[l], c[k])
                                /\ \A x : x \in Range(c[k]) <=> \E j \in 1 .. Len(c[k]) : x = c[k][j]
           /\ \A x : x \in made <=> \E k \in 1 .. N : x \in Range(c[k])
<1>1. DOMAIN lists = 1 .. N /\ N \in Nat
  BY LenProperties DEF Typed, N
<1>2. text \in Texts /\ next \in [Place -> Pointer]
  BY DEF Typed
<1>3. ASSUME NEW k \in 1 .. N
      PROVE  /\ Chain(lists[k].head) = c[k] /\ Len(c[k]) = lists[k].num
             /\ c[k] \in Seq(Place) /\ DOMAIN c[k] = 1 .. Len(c[k])
             /\ Increasing(c[k])
             /\ \A l \in 1 .. k - 1 : Before(c[l], c[k])
             /\ \A x : x \in Range(c[k]) <=> \E j \in 1 .. Len(c[k]) : x = c[k][j]
  <2>1. k \in 1 .. N + 1
    BY <1>1
  <2>2. /\ c[k] \in Seq(Place) /\ \A x : x \in Range(c[k]) <=> \E j \in 1 .. Len(c[k]) : x = c[k][j]
        /\ Increasing(c[k]) /\ \A l \in 1 .. k - 1 : Before(c[l], c[k])
    <3>1. /\ c[k] \in Seq(Place)
          /\ \A x : x \in Range(c[k]) <=> \E j \in 1 .. Len(c[k]) : x = c[k][j]
      BY <2>1, ChainsParts
    <3>2. Increasing(c[k]) /\ \A l \in 1 .. k - 1 : Before(c[l], c[k])
      BY <2>1 DEF Chains
    <3> QED
      BY <3>1, <3>2
  <2>3. Chained(c[k], lists[k].head, lists[k].num, next)
    BY DEF Chains
  <2>4. Chain(lists[k].head) = c[k]
    BY <1>2, <2>2, <2>3, ChainIs, Zenon
  <2>5. Len(c[k]) = lists[k].num /\ DOMAIN c[k] = 1 .. Len(c[k])
    BY <2>2, <2>3, LenProperties DEF Chained
  <2> QED
    BY <2>2, <2>4, <2>5
<1>4. ASSUME NEW x PROVE x \in made <=> \E k \in 1 .. N : x \in Range(c[k])
  <2>1. c[N + 1] = <<>>
    BY DEF Chains, Done, Open
  <2>2. Range(c[N + 1]) = {}
    BY <2>1, RangeEmpty
  <2>3. x \in made <=> \E k \in 1 .. N + 1 : x \in Range(c[k])
    BY ChainsParts
  <2>4. \A k \in 1 .. N + 1 : k \in 1 .. N \/ k = N + 1
    BY <1>1
  <2>5. \A k \in 1 .. N : k \in 1 .. N + 1
    BY <1>1
  <2> QED
    BY <2>2, <2>3, <2>4, <2>5
<1> QED
  BY <1>1, <1>3, <1>4

LEMMA TypedOK == Typed => TypeOK
<1> SUFFICES ASSUME Typed PROVE TypeOK
  OBVIOUS
<1>1. in \in 1 .. Len(text) + (IF array /\ Done THEN 2 ELSE 1)
  BY DEF Typed, Inside
<1>2. {data, prev, numValues, numRefs, current} \subseteq Pointer
  BY DEF Typed, Inside
<1>3. DOMAIN names = 1 .. Len(names)
  BY LenProperties DEF Typed
<1>4. \A k \in DOMAIN lists : lists[k].head \in Pointer /\ lists[k].num \in Pointer
  <2>1. \A k \in DOMAIN lists : lists[k] \in Entry
    BY LenProperties, ElementOfSeq DEF Typed
  <2> QED
    BY <2>1 DEF Entry
<1> QED
  BY <1>1, <1>2, <1>3, <1>4 DEF Typed, TypeOK, Place

\* Two chains hold different values.
LEMMA ChainsApart ==
    ASSUME Typed, NEW c, Chains(c), Done, NEW k \in 1 .. N, NEW l \in 1 .. N, k # l
    PROVE  Range(c[l]) \cap Range(c[k]) = {}
<1>1. N \in Nat /\ Len(text) \in Nat /\ Place = 1 .. Len(text)
  BY ChainsAre, TypedText
<1>2. ASSUME NEW a \in 1 .. N, NEW b \in 1 .. a - 1, NEW x, x \in Range(c[a]), x \in Range(c[b])
      PROVE  FALSE
  <2>1. b \in 1 .. N
    BY <1>1
  <2>2. /\ Before(c[b], c[a]) /\ c[a] \in Seq(Place)
        /\ x \in Range(c[a]) <=> \E j \in 1 .. Len(c[a]) : x = c[a][j]
        /\ x \in Range(c[b]) <=> \E j \in 1 .. Len(c[b]) : x = c[b][j]
    <3>1. /\ \A d \in 1 .. a - 1 : Before(c[d], c[a])
          /\ c[a] \in Seq(Place)
          /\ \A y : y \in Range(c[a]) <=> \E j \in 1 .. Len(c[a]) : y = c[a][j]
      BY ChainsAre
    <3>2. \A y : y \in Range(c[b]) <=> \E j \in 1 .. Len(c[b]) : y = c[b][j]
      BY <2>1, ChainsAre
    <3> QED
      BY <3>1, <3>2
  <2>3. PICK i \in 1 .. Len(c[b]), j \in 1 .. Len(c[a]) : x = c[b][i] /\ x = c[a][j]
    BY <2>2, <1>2
  <2>4. x < x
    BY <2>2, <2>3 DEF Before
  <2>5. x \in Place
    BY <2>2, <2>3, ElementOfSeq
  <2> QED
    BY <2>4, <2>5, <1>1
<1>3. l \in 1 .. k - 1 \/ k \in 1 .. l - 1
  BY <1>1
<1> QED
  BY <1>2, <1>3

LEMMA ChainsOwned == ASSUME Typed, NEW c, Chains(c) PROVE ValuesOwned
<1>1. TypeOK
  BY TypedOK
<1> SUFFICES ASSUME Done
             PROVE  /\ made = UNION {Range(Chain(lists[k].head)) : k \in DOMAIN lists}
                    /\ \A k \in DOMAIN lists :
                         LET chain == Chain(lists[k].head) IN
                         /\ Len(chain) = lists[k].num
                         /\ \A i \in DOMAIN chain : \A j \in 1 .. i - 1 : chain[j] < chain[i]
                    /\ \A k \in DOMAIN lists : \A l \in 1 .. k - 1 :
                         Range(Chain(lists[l].head)) \cap Range(Chain(lists[k].head)) = {}
  BY <1>1 DEF ValuesOwned
<1>2. /\ DOMAIN lists = 1 .. N /\ N \in Nat
      /\ \A k \in 1 .. N : /\ Chain(lists[k].head) = c[k] /\ Len(c[k]) = lists[k].num
                           /\ DOMAIN c[k] = 1 .. Len(c[k]) /\ Increasing(c[k])
      /\ \A x : x \in made <=> \E k \in 1 .. N : x \in Range(c[k])
  BY ChainsAre
<1>3. made = UNION {Range(Chain(lists[k].head)) : k \in DOMAIN lists}
  BY <1>2
<1>4. \A k \in DOMAIN lists :
        LET chain == Chain(lists[k].head) IN
        /\ Len(chain) = lists[k].num
        /\ \A i \in DOMAIN chain : \A j \in 1 .. i - 1 : chain[j] < chain[i]
  BY <1>2 DEF Increasing
<1>5. ASSUME NEW k \in DOMAIN lists, NEW l \in 1 .. k - 1
      PROVE  Range(Chain(lists[l].head)) \cap Range(Chain(lists[k].head)) = {}
  <2>1. k \in 1 .. N
    BY <1>2
  <2>2. l \in 1 .. N /\ k # l
    BY <2>1, <1>2
  <2>3. Range(c[l]) \cap Range(c[k]) = {}
    BY <2>1, <2>2, ChainsApart
  <2>4. Chain(lists[l].head) = c[l] /\ Chain(lists[k].head) = c[k]
    BY <2>1, <2>2, <1>2
  <2> QED
    BY <2>3, <2>4
<1> QED
  BY <1>3, <1>4, <1>5

LEMMA NamesAreOwned == Kinds /\ Named => NamesOwned
<1> SUFFICES ASSUME Kinds, Named, Done, CommaLists PROVE allNames = RefNames
  BY DEF NamesOwned, RefNames
<1>1. names = <<>> /\ OwnNames = {}
  BY SameNames DEF Kinds, Done
<1> QED
  BY <1>1, RangeEmpty DEF Named

LEMMA IteratorMissesOne ==
    ASSUME Typed, NEW c, Chains(c), Iterating(c), pc = "iterating", ~HasNext
    PROVE  \E k \in DOMAIN lists :
             LET chain == Chain(lists[k].head) IN
             seen = IF chain = <<>> THEN <<>> ELSE Tail(chain)
<1>1. PICK k \in 1 .. N :
        IF Len(c[k]) = 0 THEN current = 0 /\ seen = <<>>
        ELSE \E p \in 1 .. Len(c[k]) : current = c[k][p] /\ seen = SubSeq(c[k], 2, p)
  BY DEF Iterating
<1> DEFINE s == c[k]
<1>2. DOMAIN lists = 1 .. N /\ Chain(lists[k].head) = s /\ s \in Seq(Place) /\ Len(s) \in Nat
  BY ChainsAre, LenProperties DEF Done
<1>3. seen = IF s = <<>> THEN <<>> ELSE Tail(s)
  <2>1. CASE Len(s) = 0
    BY <2>1, <1>1, <1>2, EmptySeq
  <2>2. CASE Len(s) # 0
    <3>1. PICK p \in 1 .. Len(s) : current = s[p] /\ seen = SubSeq(s, 2, p)
      BY <2>2, <1>1
    <3>2. next[s[p]] = IF p < Len(s) THEN s[p + 1] ELSE 0
      BY DEF Chains, Chained
    <3>3. s[p] \in Place /\ (p < Len(s) => s[p + 1] \in Place) /\ 0 \notin Place
      <4>1. p < Len(s) => p + 1 \in 1 .. Len(s)
        BY <1>2
      <4>2. \A j \in 1 .. Len(s) : s[j] \in Place
        BY <1>2, ElementOfSeq
      <4>3. 0 \notin Place
        BY TypedText
      <4> QED
        BY <4>1, <4>2, <4>3
    <3>4. p = Len(s)
      BY <3>1, <3>2, <3>3, <1>2 DEF HasNext
    <3>5. s # <<>> /\ Tail(s) = SubSeq(s, 2, Len(s))
      <4>1. s # <<>>
        BY <2>2, <1>2, EmptySeq
      <4> QED
        BY <4>1, <1>2, TailIsSubSeq
    <3> QED
      BY <3>1, <3>4, <3>5
  <2> QED
    BY <2>1, <2>2
<1> QED
  BY <1>1, <1>2, <1>3

LEMMA SizeMissesLast ==
    ASSUME Typed, NEW c, Chains(c), Done, lists # <<>>
    PROVE  LET last == IF Len(lists) = 1 THEN 0 ELSE lists[Len(lists)].head IN
           UNION {Range(Chain(lists[k].head)) : k \in 1 .. Size(1)} = made \ Range(Chain(last))
<1>1. /\ DOMAIN lists = 1 .. N /\ N \in Nat
      /\ \A k \in 1 .. N : Chain(lists[k].head) = c[k] /\ c[k] \in Seq(Place)
      /\ \A x : x \in made <=> \E k \in 1 .. N : x \in Range(c[k])
  BY ChainsAre
<1>2. N # 0 /\ N = Len(lists)
  BY EmptySeq DEF Typed, N
<1>3. CASE N = 1
  <2>1. Chain(0) = <<>>
    <3>1. Chained(<<>>, 0, 0, next) /\ Increasing(<<>>) /\ <<>> \in Seq(Place)
      BY EmptySeq DEF Chained, Increasing
    <3> QED
      BY <3>1, ChainIs DEF Typed
  <2>2. \A k \in 1 .. N : k = 1
    BY <1>3
  <2>3. 1 \in 1 .. N /\ Range(c[1]) = made
    <3>1. 1 \in 1 .. N
      BY <1>3
    <3>2. \A x : x \in made <=> x \in Range(c[1])
      BY <2>2, <3>1, <1>1
    <3> QED
      BY <3>1, <3>2
  <2>4. Size(1) = IF lists[1].head # 0 THEN 1 ELSE 0
    BY <1>2, <1>3 DEF Size
  <2>5. lists[1].head = 0 => Range(c[1]) = {}
    <3>1. Chained(c[1], lists[1].head, lists[1].num, next)
      BY <2>3 DEF Chains
    <3>2. Len(c[1]) # 0 => c[1][1] \in Place
      BY <2>3, <1>1, ElementOfSeq, LenProperties
    <3>3. 0 \notin Place
      BY TypedText
    <3>4. lists[1].head = 0 => c[1] = <<>>
      BY <3>1, <3>2, <3>3, <2>3, <1>1, EmptySeq DEF Chained
    <3> QED
      BY <3>4, RangeEmpty
  <2>6. UNION {Range(Chain(lists[k].head)) : k \in 1 .. Size(1)} = made
    <3>1. CASE lists[1].head = 0
      <4>1. 1 .. Size(1) = {} /\ made = {}
        BY <3>1, <2>3, <2>4, <2>5
      <4> QED
        BY <4>1
    <3>2. CASE lists[1].head # 0
      <4>1. 1 .. Size(1) = {1}
        BY <3>2, <2>4
      <4> QED
        BY <4>1, <2>3, <1>1
    <3> QED
      BY <3>1, <3>2
  <2> QED
    BY <2>1, <2>6, <1>2, <1>3, RangeEmpty
<1>4. CASE N # 1
  <2>1. Size(1) = N - 1 /\ N \in 1 .. N /\ (\A k \in 1 .. N - 1 : k \in 1 .. N)
        /\ \A k \in 1 .. N : k \in 1 .. N - 1 \/ k = N
    <3>1. N \in Nat /\ 1 < N
      BY <1>1, <1>2, <1>4
    <3>2. Size(1) = N - 1
      BY <3>1 DEF Size, N
    <3> QED
      BY <3>1, <3>2
  <2>2. ASSUME NEW k \in 1 .. N - 1 PROVE Range(c[k]) \cap Range(c[N]) = {}
    <3>1. k \in 1 .. N /\ k # N
      BY <1>1
    <3> QED
      BY <3>1, <2>1, ChainsApart
  <2>3. UNION {Range(Chain(lists[k].head)) : k \in 1 .. N - 1} = made \ Range(c[N])
    <3>1. \A x : x \in made \ Range(c[N]) <=> \E k \in 1 .. N - 1 : x \in Range(c[k])
      BY <1>1, <2>1, <2>2
    <3>2. \A k \in 1 .. N - 1 : Chain(lists[k].head) = c[k]
      BY <1>1, <2>1
    <3> QED
      BY <3>1, <3>2
  <2>4. Chain(lists[N].head) = c[N]
    BY <1>1, <2>1
  <2> QED
    BY <2>1, <2>3, <2>4, <1>2, <1>4
<1> QED
  BY <1>3, <1>4

-----------------------------------------------------------------------------
(* The lists of a well-formed array.                                       *)

LEMMA FindsNext ==
    ASSUME text' = text, type' = type, NEW d,
           NEW p, NEW i, NEW hs, NEW h, p = pc', i = in', hs = AllHeld(d)', h = Here(d)',
           Finds(p, i, hs, h)
    PROVE  Finds(pc, in, AllHeld(d), Here(d))'
<1>1. InnerLists' = InnerLists
  BY DEF InnerLists
<1>2. Inner' = Inner
  BY <1>1 DEF Inner
<1>3. ASSUME NEW l PROVE Wanted(l)' = Wanted(l)
  BY DEF Wanted, Sought
<1>4. ASSUME NEW m PROVE Wants(m)' = Wants(m)
  BY <1>2, <1>3 DEF Wants
<1>5. Finds(p, i, hs, h)' <=> Finds(p, i, hs, h)
  BY <1>2, <1>3, <1>4 DEF Finds
<1>6. Finds(pc, in, AllHeld(d), Here(d))' <=> Finds(p, i, hs, h)'
  BY DEF Finds
<1> QED
  BY <1>5, <1>6

LEMMA PlaceIs ==
    ASSUME text \in Texts
    PROVE  /\ Len(text) \in Nat
           /\ \A i \in Place : i \in Int /\ 1 <= i /\ i <= Len(text)
           /\ \A i \in Int : 1 <= i /\ i <= Len(text) => i \in Place
<1>1. Place = 1 .. Len(text) /\ Len(text) \in Nat /\ \A i \in Place : At(i) = text[i]
  BY TextIs
<1> QED
  BY <1>1

LEMMA InnerIs ==
    ASSUME text \in Texts, NEW l \in Inner
    PROVE  /\ l[1] \in Place /\ l[2] \in Place /\ 1 < l[1] /\ l[1] < l[2]
           /\ l = <<l[1], l[2]>>
           /\ At(l[1]) = "{" /\ At(l[2]) = "}"
           /\ \A i \in l[1] + 1 .. l[2] - 1 : At(i) \notin {"{", "}"}
<1>1. /\ l \in Place \X Place /\ 1 < l[1] /\ l[1] < l[2]
      /\ text[l[1]] = "{" /\ text[l[2]] = "}"
      /\ \A i \in l[1] + 1 .. l[2] - 1 : text[i] \notin {"{", "}"}
  BY DEF Inner, InnerLists, Place
<1>2. l[1] \in Place /\ l[2] \in Place /\ l = <<l[1], l[2]>>
  <2>1. \A S : \A x \in S \X S : x[1] \in S /\ x[2] \in S /\ x = <<x[1], x[2]>>
    OBVIOUS
  <2>2. l \in Place \X Place
    BY <1>1
  <2> QED
    BY <2>1, <2>2, Zenon
<1>3. \A i \in Place : At(i) = text[i]
  BY TextIs
<1>4. ASSUME NEW i \in l[1] + 1 .. l[2] - 1 PROVE At(i) \notin {"{", "}"}
  <2>1. i \in Place
    <3>1. l[1] \in Place /\ l[2] \in Place
      BY <1>2
    <3> QED
      BY <3>1, PlaceIs
  <2> QED
    BY <2>1, <1>1, <1>3
<1> QED
  BY <1>1, <1>2, <1>3, <1>4

LEMMA InnerAt ==
    ASSUME text \in Texts, NEW l \in Inner
    PROVE  /\ l[1] \in Int /\ l[2] \in Int /\ Len(text) \in Nat
           /\ 1 < l[1] /\ l[1] < l[2] /\ l[2] <= Len(text)
<1>1. l[1] \in Place /\ l[2] \in Place /\ 1 < l[1] /\ l[1] < l[2]
  BY InnerIs
<1>2. Len(text) \in Nat /\ \A x \in Place : x \in Int /\ x <= Len(text)
  BY PlaceIs
<1> QED
  BY <1>1, <1>2

LEMMA InnersApart ==
    ASSUME text \in Texts, NEW l \in Inner, NEW q \in Inner
    PROVE  l = q \/ l[2] < q[1] \/ q[2] < l[1]
<1>1. /\ Len(text) \in Nat
      /\ \A x \in Place : x \in Int /\ 1 <= x /\ x <= Len(text)
  BY PlaceIs
<1>2. ASSUME NEW a \in Inner, NEW b \in Inner, a[1] < b[1] PROVE a[2] < b[1]
  <2>1. /\ At(a[2]) = "}" /\ \A i \in a[1] + 1 .. a[2] - 1 : At(i) \notin {"{", "}"}
    BY InnerIs
  <2>2. At(b[1]) = "{"
    BY InnerIs
  <2>3. b[1] \notin a[1] + 1 .. a[2] - 1 /\ b[1] # a[2]
    BY <2>1, <2>2
  <2>4. a[1] \in Int /\ a[2] \in Int /\ b[1] \in Int
    BY InnerAt
  <2> QED
    BY <2>3, <2>4, <1>2
<1>3. ASSUME NEW a \in Inner, NEW b \in Inner, a[1] = b[1] PROVE b[2] <= a[2]
  <2>1. At(a[2]) = "}"
    BY InnerIs
  <2>2. \A i \in b[1] + 1 .. b[2] - 1 : At(i) \notin {"{", "}"}
    BY InnerIs
  <2>3. a[2] \notin b[1] + 1 .. b[2] - 1
    BY <2>1, <2>2
  <2>4. /\ a[1] \in Int /\ a[2] \in Int /\ a[1] < a[2] /\ b[1] \in Int /\ b[2] \in Int
    BY InnerAt
  <2> QED
    BY <2>3, <2>4, <1>3
<1>4. /\ l[1] \in Place /\ l[2] \in Place /\ l = <<l[1], l[2]>>
      /\ q[1] \in Place /\ q[2] \in Place /\ q = <<q[1], q[2]>>
  BY InnerIs
<1>5. CASE l[1] = q[1]
  <2>1. l[2] <= q[2] /\ q[2] <= l[2]
    BY <1>3, <1>5
  <2>2. l[2] = q[2]
    BY <2>1, <1>1, <1>4
  <2> QED
    BY <2>2, <1>4, <1>5
<1>6. CASE l[1] # q[1]
  <2>1. l[1] < q[1] \/ q[1] < l[1]
    BY <1>1, <1>4, <1>6
  <2> QED
    BY <2>1, <1>2
<1> QED
  BY <1>5, <1>6

\* WellFormedArray at the cursor
LEMMA ArrayIs ==
    ASSUME text \in Texts, WellFormedArray
    PROVE  /\ array /\ Len(text) > 1 /\ At(1) = "{" /\ At(Len(text)) = "}"
           /\ \A i \in 2 .. Len(text) - 1 :
                /\ At(i) = "{" => \E l \in Inner : l[1] = i
                /\ At(i) = "}" => At(i + 1) \in {",", "}"} /\ \E l \in Inner : l[2] = i
                /\ At(i) \in Literal => \E l \in Inner : l[1] < i /\ i < l[2]
<1>1. \A x \in Place : At(x) = text[x]
  BY TextIs
<1>2. array /\ Len(text) > 1 /\ text[1] = "{" /\ text[Len(text)] = "}"
  BY DEF WellFormedArray
<1>3. At(1) = "{" /\ At(Len(text)) = "}"
  <2>1. Len(text) > 1
    BY <1>2
  <2>2. 1 \in Place /\ Len(text) \in Place
    BY <2>1, PlaceIs
  <2> QED
    BY <2>2, <1>1, <1>2
<1>4. ASSUME NEW i \in 2 .. Len(text) - 1
      PROVE  /\ At(i) = "{" => \E l \in Inner : l[1] = i
             /\ At(i) = "}" => At(i + 1) \in {",", "}"} /\ \E l \in Inner : l[2] = i
             /\ At(i) \in Literal => \E l \in Inner : l[1] < i /\ i < l[2]
  <2>1. i \in Place /\ i + 1 \in Place /\ 1 < i
    BY PlaceIs
  <2>2. /\ text[i] = "{" => \E l \in InnerLists : l[1] = i
        /\ text[i] = "}" => text[i + 1] \in {",", "}"} /\ \E l \in InnerLists : 1 < l[1] /\ l[2] = i
        /\ text[i] \in Literal => \E l \in InnerLists : 1 < l[1] /\ l[1] < i /\ i < l[2]
    BY DEF WellFormedArray
  <2>3. At(i) = text[i] /\ At(i + 1) = text[i + 1]
    BY <2>1, <1>1
  <2>4. CASE text[i] = "{"
    <3>1. PICK l \in InnerLists : l[1] = i
      BY <2>2, <2>4
    <3>2. l \in Inner
      BY <3>1, <2>1 DEF Inner
    <3> QED
      BY <3>1, <3>2, <2>3, <2>4 DEF Literal
  <2>5. CASE text[i] = "}"
    <3>1. PICK l \in InnerLists : 1 < l[1] /\ l[2] = i
      BY <2>2, <2>5
    <3>2. l \in Inner
      BY <3>1 DEF Inner
    <3> QED
      BY <3>1, <3>2, <2>2, <2>3, <2>5 DEF Literal
  <2>6. CASE text[i] \in Literal
    <3>1. PICK l \in InnerLists : 1 < l[1] /\ l[1] < i /\ i < l[2]
      BY <2>2, <2>6
    <3>2. l \in Inner
      BY <3>1 DEF Inner
    <3> QED
      BY <3>1, <3>2, <2>3, <2>6 DEF Literal
  <2> QED
    BY <2>3, <2>4, <2>5, <2>6
<1> QED
  BY <1>2, <1>3, <1>4

\* What is sought is a literal.
LEMMA SoughtIs ==
    ASSUME text \in Texts, type \in Type, NEW x \in Place
    PROVE  Sought(x) <=> IF type = "ref" THEN At(x) = "name" ELSE At(x) \in Makes(type)
BY TextIs DEF Sought

LEMMA SoughtLiteral ==
    ASSUME text \in Texts, type \in Type, NEW x \in Place, Sought(x)
    PROVE  At(x) \in Literal
<1>1. Makes(type) \subseteq Literal
  BY DEF Makes, Literal, Type
<1>2. "name" \in Literal
  BY DEF Literal
<1> QED
  BY <1>1, <1>2, SoughtIs

LEMMA WantedIs ==
    ASSUME text \in Texts, type \in Type, NEW l \in Inner, NEW x
    PROVE  x \in Wanted(l) <=> x \in Place /\ l[1] < x /\ x < l[2] /\ Sought(x)
<1>1. l[1] \in Place /\ l[2] \in Place /\ At(l[1]) = "{" /\ At(l[2]) = "}"
  BY InnerIs
<1>2. ~Sought(l[1]) /\ ~Sought(l[2])
  BY <1>1, SoughtLiteral DEF Literal
<1>3. x \in Wanted(l) <=> x \in l[1] .. l[2] /\ Sought(x)
  BY DEF Wanted
<1>4. Sought(x) => x # l[1] /\ x # l[2]
  BY <1>2
<1>5. x \in l[1] .. l[2] /\ x # l[1] /\ x # l[2] <=> x \in Place /\ l[1] < x /\ x < l[2]
  <2>1. \A y \in Place : y \in Int
    BY PlaceIs
  <2>2. \A y \in Int : 1 <= y /\ y <= Len(text) => y \in Place
    BY PlaceIs
  <2> QED
    BY <2>1, <2>2, InnerAt
<1> QED
  BY <1>3, <1>4, <1>5

LEMMA WantsSame ==
    ASSUME NEW m, NEW n, \A q \in Inner : q[2] < m <=> q[2] < n
    PROVE  Wants(m) = Wants(n)
<1>1. {q \in Inner : q[2] < m} = {q \in Inner : q[2] < n}
  OBVIOUS
<1> QED
  BY <1>1 DEF Wants

\* One list more
LEMMA WantsGrow ==
    ASSUME text \in Texts, NEW l \in Inner
    PROVE  Wants(l[2] + 1) = (Wants(l[1]) \cup {Wanted(l)}) \ {{}}
<1>1. /\ Len(text) \in Nat
      /\ \A x \in Place : x \in Int /\ 1 <= x /\ x <= Len(text)
      /\ \A x \in Int : 1 <= x /\ x <= Len(text) => x \in Place
  BY PlaceIs
<1>2. l[1] \in Place /\ l[2] \in Place /\ l[1] < l[2]
  BY InnerIs
<1>3. {q \in Inner : q[2] < l[2] + 1} = {q \in Inner : q[2] < l[1]} \cup {l}
  <2> SUFFICES ASSUME NEW q \in Inner PROVE q[2] < l[2] + 1 <=> q[2] < l[1] \/ q = l
    OBVIOUS
  <2>1. /\ q[1] \in Int /\ q[2] \in Int /\ q[1] < q[2]
        /\ l[1] \in Int /\ l[2] \in Int /\ l[1] < l[2]
    BY InnerAt
  <2>2. l = q \/ l[2] < q[1] \/ q[2] < l[1]
    BY InnersApart
  <2> QED
    BY <2>1, <2>2
<1> QED
  BY <1>3 DEF Wants

\* In a list, the next item is in it or its end.
LEMMA LookInside ==
    ASSUME text \in Texts, NEW l \in Inner, NEW i \in 1 .. Len(text) + 1, l[1] < i, i <= l[2]
    PROVE  /\ Look(i) \in i .. l[2] /\ l[1] < Look(i) /\ Look(i) \in Place
           /\ \A k \in i .. Look(i) - 1 : At(k) \in {",", " "}
           /\ At(Look(i)) \in {"{", "}", "end"} => Look(i) = l[2]
           /\ At(i) \in {"{", "}", "end"} => i = l[2]
<1> DEFINE j == Look(i)
<1>1. l[1] \in Int /\ l[2] \in Int /\ l[1] < l[2] /\ 1 < l[1] /\ l[2] <= Len(text) /\ Len(text) \in Nat
  BY InnerAt
<1>2. At(l[2]) = "}" /\ \A k \in l[1] + 1 .. l[2] - 1 : At(k) \notin {"{", "}"}
  BY InnerIs
<1>3. j \in i .. Len(text) + 1 /\ \A k \in i .. j - 1 : At(k) \in {",", " "}
  BY LookIs
<1> HIDE DEF j
<1>4. l[2] \notin i .. j - 1
  BY <1>2, <1>3
<1>5. j \in Int /\ i \in Int /\ j \in i .. l[2] /\ l[1] < j /\ l[1] < i /\ i <= l[2] /\ j <= l[2]
  <2>1. j \in i .. Len(text) + 1
    BY <1>3
  <2> QED
    BY <2>1, <1>1, <1>4
<1>6. ASSUME NEW k \in Int, l[1] < k, k <= l[2]
      PROVE  k \in Place /\ (At(k) \in {"{", "}", "end"} => k = l[2])
  <2>1. k \in Place
    <3>1. 1 <= k /\ k <= Len(text)
      BY <1>1, <1>6
    <3> QED
      BY <3>1, PlaceIs
  <2>2. At(k) # "end"
    <3>1. At(k) \in Literal \cup Separator
      BY <2>1, TextIs
    <3> QED
      BY <3>1 DEF Literal, Separator
  <2>3. At(k) \in {"{", "}", "end"} => k \notin l[1] + 1 .. l[2] - 1
    BY <2>2, <1>2
  <2>4. k \notin l[1] + 1 .. l[2] - 1 => k = l[2]
    BY <1>1, <1>6
  <2> QED
    BY <2>1, <2>3, <2>4
<1>7. j \in Place /\ (At(j) \in {"{", "}", "end"} => j = l[2])
  BY <1>5, <1>6
<1>8. At(i) \in {"{", "}", "end"} => i = l[2]
  BY <1>5, <1>6
<1> QED
  BY <1>3, <1>5, <1>7, <1>8 DEF j

\* parseDataArrayList goes into the array ...
LEMMA FindsBegin ==
    ASSUME text \in Texts, WellFormedArray, NEW h
    PROVE  Look(1) = 1 /\ Finds("list", 2, {}, h)
<1>1. Len(text) \in Nat /\ Len(text) > 1
  BY ArrayIs, TextIs
<1>2. 1 \in 1 .. Len(text) + 1
  BY <1>1
<1>3. Look(1) \in 1 .. Len(text) + 1 /\ \A k \in 1 .. Look(1) - 1 : At(k) \in {",", " "}
  BY <1>2, LookIs
<1>4. At(1) = "{"
  BY ArrayIs
<1>5. 1 \notin 1 .. Look(1) - 1
  BY <1>3, <1>4
<1>6. Look(1) = 1
  <2>1. Len(text) \in Nat
    BY <1>1
  <2>2. Look(1) \in 1 .. Len(text) + 1
    BY <1>3
  <2> QED
    BY <2>1, <2>2, <1>5
<1>7. \A l \in Inner : 2 <= l[1] /\ ~(l[2] < 2)
  BY InnerAt
<1>8. Wants(2) = {}
  <2>1. {q \in Inner : q[2] < 2} = {}
    BY <1>7
  <2> QED
    BY <2>1 DEF Wants
<1>9. 2 \in 2 .. Len(text)
  BY <1>1
<1> QED
  BY <1>6, <1>7, <1>8, <1>9 DEF Finds

\* ... and comes to each list, and to the closing brace of the array behind them.
LEMMA FindsList ==
    ASSUME text \in Texts, type \in Type, WellFormedArray,
           NEW i, NEW hs, NEW g, Finds("list", i, hs, g), NEW p
    PROVE  LET j == Look(i) IN
           /\ At(j) # "{" => Finds("returned", j, hs, {})
           /\ At(j) = "{" /\ p = (IF At(j + 1) \in {"}", "end"} THEN "closed" ELSE "item")
                => Finds(p, j + 1, hs, {})
<1> DEFINE j == Look(i)
           L == Len(text)
<1>1. i \in 2 .. L /\ (\A l \in Inner : l[2] < i \/ i <= l[1]) /\ hs = Wants(i)
  BY DEF Finds
<1>2. At(L) = "}"
  BY ArrayIs
<1>3. L \in Nat /\ L > 1
  BY ArrayIs, TextIs
<1>4. i \in 1 .. Len(text) + 1
  <2>1. i \in 2 .. L
    BY <1>1
  <2> QED
    BY <2>1, <1>3
<1>5. j \in i .. L + 1 /\ At(j) \notin {",", " "} /\ \A k \in i .. j - 1 : At(k) \in {",", " "}
  BY <1>4, LookIs
<1>6. \A l \in Inner : l[1] \in Int /\ l[2] \in Int /\ 1 < l[1] /\ l[1] < l[2] /\ l[2] <= L
  BY InnerAt
<1> HIDE DEF j, L
<1>7. L \notin i .. j - 1
  BY <1>2, <1>5
<1>8. j \in 2 .. L /\ i <= j /\ i \in Int
  <2>1. j \in i .. L + 1
    BY <1>5
  <2>2. i \in 2 .. L /\ L \in Nat
    BY <1>1, <1>3
  <2> QED
    BY <2>1, <2>2, <1>7
\* No list begins in front of the cursor's next character.
<1>9. \A l \in Inner : l[2] < i \/ j <= l[1]
  <2> SUFFICES ASSUME NEW l \in Inner, i <= l[1], l[1] < j PROVE FALSE
    BY <1>1, <1>6, <1>8
  <2>1. At(l[1]) = "{"
    BY InnerIs
  <2>2. l[1] \in i .. j - 1
    BY <1>6, <1>8
  <2> QED
    BY <2>1, <2>2, <1>5
<1>10. CASE At(j) = "{"
  <2>1. j \in 2 .. L - 1
    <3>1. j # L
      BY <1>2, <1>10
    <3> QED
      BY <3>1, <1>8, <1>3
  <2>2. PICK l \in Inner : l[1] = j
    BY <2>1, <1>10, ArrayIs DEF L
  <2>3. Wants(i) = Wants(l[1])
    <3>1. \A q \in Inner : q[2] < i <=> q[2] < l[1]
      BY <2>2, <1>6, <1>8, <1>9
    <3> QED
      BY <3>1, WantsSame
  <2>4. {x \in Wanted(l) : x < j + 1} = {}
    <3> SUFFICES ASSUME NEW x \in Wanted(l), x < j + 1 PROVE FALSE
      OBVIOUS
    <3>1. x \in Place /\ j < x
      BY <2>2, WantedIs
    <3>2. x \in Int
      BY <3>1, PlaceIs
    <3> QED
      BY <3>1, <3>2, <1>8
  <2>5. At(j + 1) \in {"}", "end"} => j + 1 = l[2]
    <3>1. j + 1 \in 1 .. Len(text) + 1 /\ l[1] < j + 1 /\ j + 1 <= l[2]
      <4>1. l[1] \in Int /\ l[2] \in Int /\ l[1] < l[2] /\ l[1] = j /\ j \in 2 .. L /\ L \in Nat
        BY <1>3, <1>6, <1>8, <2>2
      <4> QED
        BY <4>1 DEF L
    <3> QED
      BY <3>1, LookInside
  <2>6. l[1] < j + 1 /\ j + 1 <= l[2]
    BY <2>2, <1>6
  <2>7. hs = Wants(l[1])
    BY <2>3, <1>1
  <2>8. ASSUME p = (IF At(j + 1) \in {"}", "end"} THEN "closed" ELSE "item")
        PROVE  Finds(p, j + 1, hs, {})
    <3>1. p \in {"item", "closed"} /\ (p = "closed" => j + 1 = l[2])
      BY <2>5, <2>8
    <3> QED
      BY <3>1, <2>4, <2>6, <2>7 DEF Finds
  <2> QED
    BY <2>8, <1>10 DEF j
<1>11. CASE At(j) # "{"
  <2>1. j = L
    <3> SUFFICES ASSUME j # L PROVE FALSE
      OBVIOUS
    <3>1. j \in 2 .. L - 1
      BY <1>3, <1>8
    <3>2. At(j) \in Literal \cup {"}"}
      <4>1. j \in Place
        <5>1. j \in Int /\ 1 <= j /\ j <= L
          BY <3>1, <1>3
        <5> QED
          BY <5>1, PlaceIs DEF L
      <4>2. At(j) \in Literal \cup Separator
        BY <4>1, TextIs
      <4> QED
        BY <4>2, <1>5, <1>11 DEF Separator
    <3>3. PICK l \in Inner : l[1] < j /\ j <= l[2]
      <4>1. \A l \in Inner : l[2] = j => l[1] < j /\ j <= l[2]
        BY <1>6
      <4>2. \A l \in Inner : j < l[2] => j <= l[2]
        BY <1>6, <1>8
      <4>3. /\ At(j) = "}" => \E l \in Inner : l[2] = j
            /\ At(j) \in Literal => \E l \in Inner : l[1] < j /\ j < l[2]
        BY <3>1, ArrayIs DEF L
      <4> QED
        BY <3>2, <4>1, <4>2, <4>3
    <3>4. l[2] < i \/ j <= l[1]
      BY <1>9
    <3> QED
      BY <3>3, <3>4, <1>6, <1>8
  <2>2. Wants(i) = Wants(L + 1)
    <3>1. \A q \in Inner : q[2] < i <=> q[2] < L + 1
      <4> SUFFICES ASSUME NEW q \in Inner PROVE q[2] < i <=> q[2] < L + 1
        OBVIOUS
      <4>1. /\ q[2] < i \/ L <= q[1]
            /\ q[1] \in Int /\ q[2] \in Int /\ q[1] < q[2] /\ q[2] <= L
        BY <2>1, <1>6, <1>9
      <4>2. i \in Int /\ L \in Nat /\ i <= L
        BY <2>1, <1>3, <1>8
      <4> QED
        BY <4>1, <4>2
    <3> QED
      BY <3>1, WantsSame
  <2>3. Finds("returned", j, hs, {})
    BY <2>1, <2>2, <1>1 DEF Finds, L
  <2> QED
    BY <2>3, <1>11 DEF j
<1> QED
  BY <1>10, <1>11

\* The cursor goes on to the next item, or behind it when it is found.
LEMMA FoundUpto ==
    ASSUME text \in Texts, type \in Type, NEW l \in Inner, NEW i \in 1 .. Len(text) + 1,
           l[1] < i, i <= l[2]
    PROVE  /\ ~Sought(Look(i)) => {x \in Wanted(l) : x < Look(i)} = {x \in Wanted(l) : x < i}
           /\ ~Sought(Look(i)) => {x \in Wanted(l) : x < Look(i) + 1} = {x \in Wanted(l) : x < i}
           /\ Sought(Look(i)) =>
                {x \in Wanted(l) : x < Look(i) + 1} = {x \in Wanted(l) : x < i} \cup {Look(i)}
<1> DEFINE j == Look(i)
<1>1. /\ j \in i .. l[2] /\ l[1] < j /\ j \in Place /\ \A k \in i .. j - 1 : At(k) \in {",", " "}
      /\ At(j) \in {"{", "}", "end"} => j = l[2]
  BY LookInside
<1>2. At(l[2]) = "}" /\ l[2] \in Place
  BY InnerIs
<1> HIDE DEF j
<1>3. l[1] \in Int /\ l[2] \in Int /\ j \in Int /\ i \in Int /\ i <= j /\ j <= l[2]
  <2>1. l[1] \in Int /\ l[2] \in Int
    BY InnerAt
  <2>2. i \in Int
    BY TextIs
  <2>3. j \in i .. l[2]
    BY <1>1
  <2> QED
    BY <2>1, <2>2, <2>3
<1>4. ASSUME NEW x \in Wanted(l), i <= x PROVE j <= x
  <2>1. x \in Place /\ Sought(x)
    BY WantedIs
  <2>2. At(x) \in Literal
    BY <2>1, SoughtLiteral
  <2>3. x \in Int
    BY <2>1, PlaceIs
  <2>4. x \notin i .. j - 1
    BY <2>2, <1>1 DEF Literal
  <2> QED
    BY <2>3, <2>4, <1>3, <1>4
<1>5. \A x \in Wanted(l) : x \in Int /\ Sought(x)
  BY WantedIs, PlaceIs
<1>6. ASSUME NEW x \in Wanted(l)
      PROVE  (x < j <=> x < i) /\ (x < j + 1 <=> x < i \/ x = j)
  <2>1. x \in Int /\ (i <= x => j <= x)
    BY <1>4, <1>5
  <2> QED
    BY <2>1, <1>3
<1>7. Sought(j) => j \in Wanted(l)
  <2> SUFFICES ASSUME Sought(j) PROVE j \in Wanted(l)
    OBVIOUS
  <2>1. At(j) \in Literal
    BY <1>1, SoughtLiteral
  <2>2. j # l[2]
    BY <2>1, <1>2 DEF Literal
  <2>3. j < l[2]
    BY <2>2, <1>3
  <2> QED
    BY <2>3, <1>1, WantedIs
<1>8. ASSUME ~Sought(j)
      PROVE  /\ {x \in Wanted(l) : x < j} = {x \in Wanted(l) : x < i}
             /\ {x \in Wanted(l) : x < j + 1} = {x \in Wanted(l) : x < i}
  <2>1. \A x \in Wanted(l) : x # j
    BY <1>5, <1>8
  <2> QED
    BY <2>1, <1>6
<1>9. ASSUME Sought(j)
      PROVE  {x \in Wanted(l) : x < j + 1} = {x \in Wanted(l) : x < i} \cup {j}
  BY <1>6, <1>7, <1>9
<1> QED
  BY <1>8, <1>9 DEF j

\* In front of the end of a list
Within(l, i, hs, h) ==
    /\ l[1] < i /\ i <= l[2]
    /\ hs = Wants(l[1])
    /\ h = {x \in Wanted(l) : x < i}

LEMMA FindsIn ==
    ASSUME NEW p, p \in {"item", "reference", "closed"}, NEW i, NEW hs, NEW h
    PROVE  Finds(p, i, hs, h) <=> \E l \in Inner : Within(l, i, hs, h) /\ (p = "closed" => i = l[2])
BY DEF Finds, Within

\* Where the cursor is behind an item of a list: still in the list
LEMMA LiteralGoes ==
    ASSUME text \in Texts, type \in Type,
           NEW l \in Inner, NEW i \in 1 .. Len(text) + 1, l[1] < i, i <= l[2]
    PROVE  LET j == Look(i)
               n == NextSeparator(j)
           IN  /\ l[1] < n /\ n <= l[2] /\ (n = j \/ n = j + 1)
               /\ Sought(j) => n = j + 1
               /\ At(n) \notin {",", " "} => n = l[2]
<1> DEFINE j == Look(i)
           n == NextSeparator(j)
<1>3. /\ j \in i .. l[2] /\ l[1] < j /\ j \in Place
      /\ At(j) \in {"{", "}", "end"} => j = l[2]
  BY LookInside
<1>4. l[1] \in Int /\ l[2] \in Int /\ j \in Int /\ j <= l[2] /\ l[2] <= Len(text) /\ 1 < l[1] /\ Len(text) \in Nat
  <2>1. l[1] \in Int /\ l[2] \in Int /\ l[2] <= Len(text) /\ 1 < l[1] /\ Len(text) \in Nat
    BY InnerAt
  <2>2. i \in Int
    BY TextIs
  <2>3. j \in i .. l[2]
    BY <1>3
  <2> QED
    BY <2>1, <2>2, <2>3
<1>5. j \in 1 .. Len(text) + 1
  BY LookIs
<1>6. /\ At(j) \in Literal => n = j + 1
      /\ At(j) \notin Literal => n = j
      /\ n \in 1 .. Len(text) + 1
  BY <1>5, NextSeparatorIs
<1>7. At(l[2]) = "}"
  BY InnerIs
<1> HIDE DEF j
<1>8. /\ l[1] < n /\ n <= l[2] /\ (n = j \/ n = j + 1)
      /\ Sought(j) => n = j + 1
      /\ At(n) \notin {",", " "} => n = l[2]
  <2>1. CASE At(j) \in Literal
    <3>1. n = j + 1 /\ j # l[2]
      BY <2>1, <1>6, <1>7 DEF Literal
    <3> HIDE DEF n
    <3>2. l[1] < n /\ n <= l[2] /\ j \in 1 .. Len(text) - 1
      <4>1. l[1] < j /\ n = j + 1 /\ j # l[2]
        BY <3>1, <1>3
      <4> QED
        BY <4>1, <1>4
    <3>3. At(n) \in Separator
      <4>1. j \in Place /\ n \in Place
        <5>1. j \in Int /\ n \in Int /\ 1 <= j /\ j <= Len(text) /\ 1 <= n /\ n <= Len(text)
          <6>1. n = j + 1 /\ j \in 1 .. Len(text) - 1
            BY <3>1, <3>2
          <6> QED
            BY <6>1, <1>4
        <5> QED
          BY <5>1, PlaceIs
      <4>2. text[j] \in Literal => text[j + 1] \in Separator
        BY <3>2, TextIs
      <4>3. At(j) = text[j] /\ At(n) = text[n]
        BY <4>1, TextIs
      <4> QED
        BY <4>2, <4>3, <2>1, <3>1
    <3>4. At(n) \notin {",", " "} => n = l[2]
      <4>1. n \in 1 .. Len(text) + 1
        BY <1>6 DEF n
      <4>2. At(n) \in {"{", "}", "end"} => n = l[2]
        BY <4>1, <3>2, LookInside
      <4> QED
        BY <4>2, <3>3 DEF Separator
    <3> QED
      BY <3>1, <3>2, <3>4 DEF n
  <2>2. CASE At(j) \notin Literal
    <3>1. n = j
      BY <2>2, <1>6
    <3>2. ~Sought(j)
      BY <2>2, <1>3, SoughtLiteral
    <3>3. At(j) \in {"{", "}", "end"}
      <4>1. At(j) \notin {",", " "}
        BY LookIs DEF j
      <4>2. At(j) \in Literal \cup Separator
        BY <1>3, TextIs
      <4> QED
        BY <4>1, <4>2, <2>2 DEF Separator
    <3>4. j = l[2]
      BY <3>3, <1>3
    <3> QED
      BY <3>1, <3>2, <3>4, <1>3, <1>4
  <2> QED
    BY <2>1, <2>2
<1> QED
  BY <1>8 DEF n, j

LEMMA FindsLiteral ==
    ASSUME text \in Texts, type \in Type, type # "ref",
           NEW i \in 1 .. Len(text) + 1, NEW hs, NEW h, Finds("item", i, hs, h),
           NEW p, p = IF At(NextSeparator(Look(i))) \in {",", " "} THEN "item" ELSE "closed"
    PROVE  Finds(p, NextSeparator(Look(i)), hs,
                 IF At(Look(i)) \in Makes(type) THEN h \cup {Look(i)} ELSE h)
<1> DEFINE j == Look(i)
           n == NextSeparator(j)
           g == IF At(j) \in Makes(type) THEN h \cup {j} ELSE h
<1>1. PICK l \in Inner : Within(l, i, hs, h)
  BY FindsIn
<1>2. l[1] < i /\ i <= l[2] /\ hs = Wants(l[1]) /\ h = {x \in Wanted(l) : x < i}
  BY <1>1 DEF Within
<1>3. j \in Place
  BY <1>2, LookInside
<1>4. Sought(j) <=> At(j) \in Makes(type)
  BY <1>3, SoughtIs
<1>5. /\ ~Sought(j) => {x \in Wanted(l) : x < j} = h
      /\ ~Sought(j) => {x \in Wanted(l) : x < j + 1} = h
      /\ Sought(j) => {x \in Wanted(l) : x < j + 1} = h \cup {j}
  BY <1>2, FoundUpto
<1>6. /\ l[1] < n /\ n <= l[2] /\ (n = j \/ n = j + 1)
      /\ Sought(j) => n = j + 1
      /\ At(n) \notin {",", " "} => n = l[2]
  BY <1>2, LiteralGoes
<1> HIDE DEF j, n
<1>7. {x \in Wanted(l) : x < n} = g
  <2>1. CASE Sought(j)
    BY <2>1, <1>4, <1>5, <1>6
  <2>2. CASE ~Sought(j)
    BY <2>2, <1>4, <1>5, <1>6
  <2> QED
    BY <2>1, <2>2
<1> HIDE DEF g
<1>8. Within(l, n, hs, g)
  BY <1>2, <1>6, <1>7, Zenon DEF Within
<1>9. p \in {"item", "closed"} /\ (p = "closed" => n = l[2])
  BY <1>6 DEF n, j
<1>10. Finds(p, n, hs, g)
  BY <1>8, <1>9, FindsIn
<1> QED
  BY <1>10 DEF n, j, g

LEMMA FindsName ==
    ASSUME text \in Texts, type \in Type, type = "ref", NEW p, p \in {"item", "reference"},
           NEW i \in 1 .. Len(text) + 1, NEW hs, NEW h, Finds(p, i, hs, h)
    PROVE  /\ At(Look(i)) = "name" => Finds("reference", Look(i) + 1, hs, h \cup {Look(i)})
           /\ At(Look(i)) # "name" => Finds("reference", Look(i), hs, h)
<1> DEFINE j == Look(i)
<1>1. PICK l \in Inner : Within(l, i, hs, h)
  BY FindsIn
<1>2. l[1] < i /\ i <= l[2] /\ hs = Wants(l[1]) /\ h = {x \in Wanted(l) : x < i}
  BY <1>1 DEF Within
<1>3. j \in Place /\ j \in i .. l[2] /\ l[1] < j
  BY <1>2, LookInside
<1>4. Sought(j) <=> At(j) = "name"
  BY <1>3, SoughtIs
<1>5. /\ ~Sought(j) => {x \in Wanted(l) : x < j} = h
      /\ Sought(j) => {x \in Wanted(l) : x < j + 1} = h \cup {j}
  BY <1>2, FoundUpto
<1>6. l[1] \in Int /\ l[2] \in Int
  BY InnerAt
<1>7. At(l[2]) = "}"
  BY InnerIs
<1> HIDE DEF j
<1>8. j \in Int /\ l[1] < j /\ j <= l[2]
  <2>1. i \in Int
    BY TextIs
  <2>2. j \in i .. l[2] /\ l[1] < j
    BY <1>3
  <2> QED
    BY <2>1, <2>2, <1>6
<1>9. ASSUME At(j) = "name" PROVE Finds("reference", j + 1, hs, h \cup {j})
  <2>1. j # l[2]
    BY <1>7, <1>9
  <2>2. l[1] < j + 1 /\ j + 1 <= l[2]
    BY <2>1, <1>6, <1>8
  <2>3. {x \in Wanted(l) : x < j + 1} = h \cup {j}
    BY <1>4, <1>5, <1>9
  <2>4. Within(l, j + 1, hs, h \cup {j})
    BY <2>2, <2>3, <1>2, Zenon DEF Within
  <2> QED
    BY <2>4, FindsIn
<1>10. ASSUME At(j) # "name" PROVE Finds("reference", j, hs, h)
  <2>1. {x \in Wanted(l) : x < j} = h
    BY <1>4, <1>5, <1>10
  <2>2. Within(l, j, hs, h)
    BY <2>1, <1>2, <1>8, Zenon DEF Within
  <2> QED
    BY <2>2, FindsIn
<1> QED
  BY <1>9, <1>10 DEF j

LEMMA FindsReference ==
    ASSUME text \in Texts, NEW i \in 1 .. Len(text) + 1, NEW hs, NEW h,
           Finds("reference", i, hs, h), At(i) \in {"{", "}", "end"}
    PROVE  Finds("closed", i, hs, h)
<1>1. PICK l \in Inner : Within(l, i, hs, h)
  BY FindsIn
<1>2. i = l[2]
  BY <1>1, LookInside DEF Within
<1> QED
  BY <1>1, <1>2, FindsIn

LEMMA FindsClose ==
    ASSUME text \in Texts, type \in Type, NEW i, NEW hs, NEW h, Finds("closed", i, hs, h)
    PROVE  At(i) # "end" /\ Finds("returned", i + 1, hs, h)
<1>1. PICK l \in Inner : Within(l, i, hs, h) /\ i = l[2]
  BY FindsIn
<1>2. hs = Wants(l[1]) /\ h = {x \in Wanted(l) : x < l[2]}
  BY <1>1 DEF Within
<1>3. h = Wanted(l)
  BY <1>2, WantedIs
<1>4. At(i) = "}"
  BY <1>1, InnerIs
<1> QED
  BY <1>1, <1>2, <1>3, <1>4 DEF Finds

\* What was found for a list is behind what the lists hold.
LEMMA FindsBehind ==
    ASSUME text \in Texts, type \in Type, NEW i, NEW hs, NEW h, Finds("returned", i, hs, h)
    PROVE  /\ \A w \in hs : \A a \in w, b \in h : a < b
           /\ {} \notin hs
<1>1. \A m : {} \notin Wants(m)
  BY DEF Wants
<1>2. CASE i = Len(text) /\ h = {} /\ hs = Wants(Len(text) + 1)
  BY <1>1, <1>2
<1>3. CASE \E l \in Inner : i = l[2] + 1 /\ hs = Wants(l[1]) /\ h = Wanted(l)
  <2>1. PICK l \in Inner : hs = Wants(l[1]) /\ h = Wanted(l)
    BY <1>3
  <2>2. ASSUME NEW w \in hs, NEW a \in w, NEW b \in h PROVE a < b
    <3>1. PICK q \in Inner : q[2] < l[1] /\ w = Wanted(q)
      BY <2>1 DEF Wants
    <3>2. a \in Place /\ a < q[2]
      BY <3>1, WantedIs
    <3>3. b \in Place /\ l[1] < b
      BY <2>1, WantedIs
    <3>4. a \in Int /\ b \in Int /\ q[2] \in Int /\ l[1] \in Int
      BY <3>2, <3>3, PlaceIs, InnerAt
    <3> QED
      BY <3>1, <3>2, <3>3, <3>4
  <2> QED
    BY <2>1, <2>2, <1>1
<1> QED
  BY <1>2, <1>3 DEF Finds

\* Behind a list is the next one, or the end of the array.
LEMMA FindsReturn ==
    ASSUME text \in Texts, type \in Type, WellFormedArray,
           NEW i, NEW hs, NEW h, Finds("returned", i, hs, h), NEW g
    PROVE  /\ At(i) = "," => Finds("list", i, (hs \cup {h}) \ {{}}, g)
           /\ At(i) # "," => Finds("done", i, (hs \cup {h}) \ {{}}, g)
<1> DEFINE L == Len(text)
           new == (hs \cup {h}) \ {{}}
<1>1. L \in Nat /\ L > 1
  BY ArrayIs, TextIs
<1>2. At(L) = "}"
  BY ArrayIs
<1>3. CASE i = L /\ h = {} /\ hs = Wants(L + 1)
  <2>1. new = Wants(L + 1)
    BY <1>3, FindsBehind
  <2> HIDE DEF new
  <2>2. At(i) # ","
    BY <1>2, <1>3
  <2> QED
    BY <2>1, <2>2 DEF Finds, new
<1>4. CASE \E l \in Inner : i = l[2] + 1 /\ hs = Wants(l[1]) /\ h = Wanted(l)
  <2>1. PICK l \in Inner : i = l[2] + 1 /\ hs = Wants(l[1]) /\ h = Wanted(l)
    BY <1>4
  <2>2. new = Wants(l[2] + 1)
    BY <2>1, WantsGrow
  <2> HIDE DEF new, L
  <2>3. /\ l[1] \in Int /\ l[2] \in Int /\ 1 < l[1] /\ l[1] < l[2] /\ l[2] <= L
        /\ \A q \in Inner : q[1] \in Int /\ q[2] \in Int /\ 1 < q[1] /\ q[1] < q[2] /\ q[2] <= L
    BY InnerAt DEF L
  <2>4. \A q \in Inner : q = l \/ l[2] < q[1] \/ q[2] < l[1]
    BY InnersApart
  <2>5. CASE At(i) = ","
    <3>1. i \in 2 .. Len(text)
      <4>1. i # L + 1
        <5>1. At(L + 1) = "end"
          BY TextIs DEF L
        <5> QED
          BY <5>1, <2>5
      <4>2. i = l[2] + 1
        BY <2>1
      <4> QED
        BY <4>1, <4>2, <2>3, <1>1 DEF L
    <3>2. ASSUME NEW q \in Inner PROVE q[2] < i \/ i <= q[1]
      <4>1. i = l[2] + 1 /\ (q = l \/ l[2] < q[1] \/ q[2] < l[1])
        BY <2>1, <2>4
      <4>2. q[1] \in Int /\ q[2] \in Int
        BY <2>3
      <4> QED
        BY <4>1, <4>2, <2>3
    <3>3. new = Wants(i)
      BY <2>1, <2>2
    <3> QED
      BY <3>1, <3>2, <3>3, <2>5 DEF Finds, new
  <2>6. CASE At(i) # ","
    <3>1. ASSUME NEW q \in Inner, l[2] < q[1] PROVE FALSE
      <4>1. q[1] \in Int /\ q[2] \in Int /\ q[1] < q[2] /\ q[2] <= L
        BY <2>3
      <4>2. l[2] \in 2 .. L - 1 /\ i = l[2] + 1
        BY <4>1, <2>1, <2>3, <1>1, <3>1
      <4>3. At(l[2]) = "}"
        BY InnerIs
      <4>4. At(i) = "}"
        <5>1. At(l[2] + 1) \in {",", "}"}
          BY <4>2, <4>3, ArrayIs DEF L
        <5> QED
          BY <5>1, <4>2, <2>6
      <4>5. i # L
        BY <4>1, <4>2, <3>1, <1>1
      <4>6. i \in 2 .. Len(text) - 1
        BY <4>2, <4>5, <2>3, <1>1 DEF L
      <4>7. PICK r \in Inner : r[2] = i
        BY <4>4, <4>6, ArrayIs
      <4>8. r = l \/ l[2] < r[1] \/ r[2] < l[1]
        BY <2>4
      <4>9. r[1] \in Int /\ r[2] \in Int /\ r[1] < r[2] /\ r[2] = l[2] + 1
        BY <4>2, <4>7, <2>3
      <4>10. r # l
        BY <4>9, <2>3
      <4> QED
        BY <4>8, <4>9, <4>10, <2>3
    <3>2. \A q \in Inner : q[2] < l[2] + 1 <=> q[2] < L + 1
      <4> SUFFICES ASSUME NEW q \in Inner PROVE q[2] < l[2] + 1 <=> q[2] < L + 1
        OBVIOUS
      <4>1. q = l \/ q[2] < l[1]
        BY <3>1, <2>4
      <4>2. q[2] \in Int /\ q[2] <= L
        BY <2>3
      <4> QED
        BY <4>1, <4>2, <2>3, <1>1
    <3>3. Wants(l[2] + 1) = Wants(L + 1)
      BY <3>2, WantsSame
    <3> QED
      BY <3>3, <2>2, <2>6 DEF Finds, new, L
  <2> QED
    BY <2>5, <2>6
<1> QED
  BY <1>3, <1>4 DEF Finds

-----------------------------------------------------------------------------
(* What the lists hold of a well-formed array.                             *)

Matched == WellFormedArray /\ (type = "ref" => CommaLists)

LEMMA SameMatched ==
    text' = text /\ type' = type /\ array' = array => (Matched' <=> Matched)
<1> SUFFICES ASSUME text' = text, type' = type, array' = array PROVE Matched' <=> Matched
  OBVIOUS
<1>1. InnerLists' = InnerLists
  BY DEF InnerLists
<1>2. CommaLists' <=> CommaLists
  BY SameNames
<1>3. WellFormedArray' <=> WellFormedArray
  BY <1>1 DEF WellFormedArray
<1> QED
  BY <1>2, <1>3 DEF Matched

LEMMA FoundIs ==
    ASSUME NEW c
    PROVE  Found(c) <=> (Matched => Ordered(c) /\ Finds(pc, in, AllHeld(c), Here(c)))
BY DEF Found, Matched

\* The lists are those that there were.
LEMMA HeldStill ==
    ASSUME Typed, NEW c, NEW d, type' = type, lists' = lists, \A k \in 1 .. N : d[k] = c[k]
    PROVE  /\ N' = N /\ AllHeld(d)' = AllHeld(c) /\ (Ordered(d)' <=> Ordered(c))
<1>1. N' = N /\ N \in Nat
  BY LenProperties DEF Typed, N
<1>2. ASSUME NEW k \in 1 .. N PROVE Held(d, k)' = Held(c, k)
  BY DEF Held
<1>3. AllHeld(d)' = AllHeld(c)
  BY <1>1, <1>2 DEF AllHeld
<1>4. \A k \in 1 .. N : \A j \in 1 .. k - 1 : j \in 1 .. N
  BY <1>1
<1>5. Ordered(d)' <=> Ordered(c)
  BY <1>1, <1>2, <1>4 DEF Ordered
<1> QED
  BY <1>1, <1>3, <1>5

\* A step that leaves the lists alone and finds as much as the text has
LEMMA FoundStill ==
    ASSUME Typed, NEW c, Found(c), NEW d, UNCHANGED <<text, type, array, lists>>,
           \A k \in 1 .. N : d[k] = c[k],
           Matched => \E p, i, h : /\ p = pc' /\ i = in' /\ h = Here(d)'
                                   /\ Finds(p, i, AllHeld(c), h)
    PROVE  Found(d)'
<1>1. Matched' <=> Matched
  BY SameMatched
<1>2. AllHeld(d)' = AllHeld(c) /\ (Ordered(d)' <=> Ordered(c))
  BY HeldStill
<1>3. ASSUME Matched PROVE Ordered(d)' /\ Finds(pc, in, AllHeld(d), Here(d))'
  <2>1. PICK p, i, h : p = pc' /\ i = in' /\ h = Here(d)' /\ Finds(p, i, AllHeld(c), h)
    BY <1>3
  <2>2. PICK hs : hs = AllHeld(c)
    OBVIOUS
  <2>3. Finds(pc, in, AllHeld(d), Here(d))'
    BY <2>1, <2>2, <1>2, FindsNext
  <2>4. Ordered(c)
    BY <1>3 DEF Found, Matched
  <2> QED
    BY <2>3, <2>4, <1>2
<1> QED
  BY <1>1, <1>3 DEF Found, Matched

LEMMA InitFound == ASSUME Init, NEW c PROVE Found(c)
<1>1. pc = "begin" /\ in = 1 /\ lists = <<>>
  BY DEF Init
<1>2. N = 0
  BY <1>1, EmptySeq DEF N
<1>3. AllHeld(c) = {} /\ Ordered(c)
  BY <1>2 DEF AllHeld, Ordered
<1> QED
  BY <1>1, <1>3 DEF Found, Finds

LEMMA BeginFound == ASSUME Typed, NEW c, Chains(c), Found(c), Begin PROVE Found(c)'
<1>1. UNCHANGED <<text, type, array, lists>> /\ pc = "begin"
  BY DEF Begin
<1>2. ASSUME Matched
      PROVE  \E p, i, h : p = pc' /\ i = in' /\ h = Here(c)' /\ Finds(p, i, AllHeld(c), h)
  <2>1. text \in Texts /\ WellFormedArray /\ Finds(pc, in, AllHeld(c), Here(c))
    BY <1>2 DEF Typed, Found, Matched
  <2>2. in = 1 /\ AllHeld(c) = {}
    BY <2>1, <1>1 DEF Finds
  <2>3. PICK h : h = Here(c)'
    OBVIOUS
  <2>4. Look(1) = 1 /\ Finds("list", 2, {}, h)
    BY <2>1, FindsBegin
  <2>5. array /\ At(1) = "{"
    BY <2>1, ArrayIs
  <2>6. pc' = "list" /\ in' = Look(in) + 1
    <3>1. Look(in) = 1
      BY <2>2, <2>4
    <3>2. array /\ At(Look(in)) = "{"
      BY <2>5, <3>1, Zenon
    <3> QED
      BY <3>2, Zenon DEF Begin, Goto
  <2>7. pc' = "list" /\ in' = 2
    BY <2>2, <2>4, <2>6
  <2> QED
    BY <2>2, <2>3, <2>4, <2>7
<1> QED
  BY <1>1, <1>2, FoundStill

LEMMA ParseDataListFound ==
    ASSUME Typed, Kinds, NEW c, Chains(c), Found(c), ParseDataList
    PROVE  Found(c)'
<1>1. UNCHANGED <<text, type, array, lists, names>> /\ pc = "list" /\ numRefs' = 0
      /\ pc' \in {"returned", "closed", "item"}
  BY DEF ParseDataList, Goto
<1>2. Here(c)' = {}
  <2>1. names' = <<>>
    BY <1>1 DEF Kinds
  <2>2. OwnNames' = {}
    BY <1>1, SameNames
  <2>3. N' = N /\ c[N + 1] = <<>>
    BY <1>1 DEF N, Chains, Open
  <2> QED
    BY <2>1, <2>2, <2>3, RangeEmpty DEF Here
<1>3. ASSUME Matched
      PROVE  \E p, i, h : p = pc' /\ i = in' /\ h = Here(c)' /\ Finds(p, i, AllHeld(c), h)
  <2>1. text \in Texts /\ type \in Type /\ WellFormedArray /\ Finds("list", in, AllHeld(c), Here(c))
    BY <1>1, <1>3 DEF Typed, Found, Matched
  <2>2. PICK p : p = pc'
    OBVIOUS
  <2>3. LET j == Look(in) IN
        /\ At(j) # "{" => Finds("returned", j, AllHeld(c), {})
        /\ At(j) = "{" /\ p = (IF At(j + 1) \in {"}", "end"} THEN "closed" ELSE "item")
             => Finds(p, j + 1, AllHeld(c), {})
    BY <2>1, FindsList
  <2>4. LET j == Look(in) IN
        \/ At(j) # "{" /\ pc' = "returned" /\ in' = j
        \/ /\ At(j) = "{" /\ in' = j + 1
           /\ pc' = (IF At(j + 1) \in {"}", "end"} THEN "closed" ELSE "item")
    BY DEF ParseDataList, Goto
  <2>5. Finds(pc', in', AllHeld(c), {})
    BY <2>2, <2>3, <2>4
  <2> QED
    BY <2>5, <1>2
<1> QED
  BY <1>1, <1>3, FoundStill

LEMMA ParseLiteralFound ==
    ASSUME Typed, Kinds, NEW c, Chains(c), Found(c), ParseLiteral, NEW d, ParseLiteralDoes(c, d)
    PROVE  Found(d)'
<1>1. UNCHANGED <<text, type, array, lists>> /\ pc = "item" /\ type # "ref" /\ Turn(Look(in))
  BY DEF ParseLiteral
<1>2. N' = N /\ \A k \in 1 .. N : d[k] = c[k]
  BY <1>1 DEF N, ParseLiteralDoes, Longer
<1>3. Here(d)' = IF At(Look(in)) \in Makes(type) THEN Here(c) \cup {Look(in)} ELSE Here(c)
  <2>1. Here(d)' = Range(d[N + 1]) /\ Here(c) = Range(c[N + 1])
    BY <1>1, <1>2 DEF Here
  <2>2. CASE At(Look(in)) \in Makes(type)
    <3>1. d[N + 1] = Append(c[N + 1], Look(in)) /\ Look(in) \in Place
      BY <2>2 DEF ParseLiteralDoes, Longer
    <3>2. c[N + 1] \in Seq(Place)
      BY ChainsParts
    <3>3. Range(Append(c[N + 1], Look(in))) = Range(c[N + 1]) \cup {Look(in)}
      BY <3>1, <3>2, RangeAppend
    <3> QED
      BY <2>1, <2>2, <3>1, <3>3
  <2>3. CASE At(Look(in)) \notin Makes(type)
    BY <2>1, <2>3 DEF ParseLiteralDoes
  <2> QED
    BY <2>2, <2>3
<1>4. ASSUME Matched
      PROVE  \E p, i, h : p = pc' /\ i = in' /\ h = Here(d)' /\ Finds(p, i, AllHeld(c), h)
  <2>1. text \in Texts /\ type \in Type /\ Finds("item", in, AllHeld(c), Here(c))
    BY <1>1, <1>4 DEF Typed, Found, Matched
  <2>2. in \in 1 .. Len(text) + 1 /\ Look(in) \in 1 .. Len(text) + 1
    BY TypedParts
  <2>3. /\ in' = NextSeparator(Look(in))
        /\ pc' = IF At(in') \in {",", " "} THEN "item" ELSE "closed"
    BY <2>1, <2>2, <1>1, TurnIs
  <2>4. PICK p : p = pc'
    OBVIOUS
  <2>5. p = IF At(NextSeparator(Look(in))) \in {",", " "} THEN "item" ELSE "closed"
    BY <2>3, <2>4
  <2>6. Finds(p, NextSeparator(Look(in)), AllHeld(c),
              IF At(Look(in)) \in Makes(type) THEN Here(c) \cup {Look(in)} ELSE Here(c))
    BY <2>1, <2>2, <2>5, <1>1, FindsLiteral
  <2> QED
    BY <2>3, <2>4, <2>6, <1>3
<1> QED
  BY <1>1, <1>2, <1>4, FoundStill

LEMMA ParseNameFound ==
    ASSUME Typed, Kinds, NEW c, Chains(c), Found(c), ParseName
    PROVE  Found(c)'
<1>1. /\ UNCHANGED <<text, type, array, lists>> /\ pc \in {"item", "reference"} /\ pc' = "reference"
      /\ type = "ref"
  BY DEF ParseName, Goto, Kinds
<1> DEFINE j == Look(in)
<1>2. \/ At(j) = "name" /\ names' = Append(names, j) /\ in' = j + 1
      \/ At(j) # "name" /\ names' = names /\ in' = j
  BY DEF ParseName, Pushed, Goto
<1>3. Here(c) = Range(names) /\ Here(c)' = Range(names')
  BY <1>1 DEF Here
<1>4. ASSUME Matched
      PROVE  \E p, i, h : p = pc' /\ i = in' /\ h = Here(c)' /\ Finds(p, i, AllHeld(c), h)
  <2>1. /\ text \in Texts /\ type \in Type /\ Finds(pc, in, AllHeld(c), Here(c))
        /\ names \in Seq(Place)
    BY <1>1, <1>4 DEF Typed, Found, Matched
  <2>2. in \in 1 .. Len(text) + 1
    BY TypedParts
  <2>3. /\ At(j) = "name" => Finds("reference", j + 1, AllHeld(c), Here(c) \cup {j})
        /\ At(j) # "name" => Finds("reference", j, AllHeld(c), Here(c))
    BY <2>1, <2>2, <1>1, FindsName
  <2>4. At(j) = "name" => j \in Place
    BY LookBehind
  <2>5. CASE At(j) = "name"
    <3>1. Range(Append(names, j)) = Range(names) \cup {j}
      BY <2>1, <2>4, <2>5, RangeAppend
    <3>2. Here(c)' = Here(c) \cup {j} /\ in' = j + 1
      BY <3>1, <2>5, <1>2, <1>3
    <3> QED
      BY <3>2, <2>3, <2>5, <1>1
  <2>6. CASE At(j) # "name"
    <3>1. Here(c)' = Here(c) /\ in' = j
      BY <2>6, <1>2, <1>3
    <3> QED
      BY <3>1, <2>3, <2>6, <1>1
  <2> QED
    BY <2>5, <2>6
<1> QED
  BY <1>1, <1>4, FoundStill

LEMMA MakeReferenceFound ==
    ASSUME Typed, Kinds, Named, NEW c, Chains(c), Found(c), MakeReference
    PROVE  Found(c)'
<1>1. UNCHANGED <<text, type, array, lists>> /\ pc = "reference" /\ type = "ref"
  BY DEF MakeReference, Kinds
<1>2. ASSUME Matched
      PROVE  \E p, i, h : p = pc' /\ i = in' /\ h = Here(c)' /\ Finds(p, i, AllHeld(c), h)
  <2>1. /\ text \in Texts /\ Finds("reference", in, AllHeld(c), Here(c)) /\ CommaLists
    BY <1>1, <1>2 DEF Typed, Found, Matched
  <2>2. /\ At(in) \in {"{", "}", "end"} /\ in' = in /\ pc' = "closed" /\ OwnNames' = Range(names)
    BY <2>1, ReferenceEnds
  <2>3. Here(c)' = Here(c)
    BY <1>1, <2>2 DEF Here
  <2>4. in \in 1 .. Len(text) + 1
    BY TypedParts
  <2>5. Finds("closed", in, AllHeld(c), Here(c))
    BY <2>1, <2>2, <2>4, FindsReference
  <2> QED
    BY <2>2, <2>3, <2>5
<1> QED
  BY <1>1, <1>2, FoundStill

LEMMA CloseFound == ASSUME Typed, NEW c, Chains(c), Found(c), Close PROVE Found(c)'
<1>1. /\ UNCHANGED <<text, type, array, names, refs, numRefs, lists>>
      /\ pc = "closed" /\ pc' = "returned"
  BY DEF Close, Goto, references
<1>2. Here(c)' = Here(c)
  BY <1>1 DEF Here, N, OwnNames
<1>3. ASSUME Matched
      PROVE  \E p, i, h : p = pc' /\ i = in' /\ h = Here(c)' /\ Finds(p, i, AllHeld(c), h)
  <2>1. text \in Texts /\ type \in Type /\ Finds("closed", in, AllHeld(c), Here(c))
    BY <1>1, <1>3 DEF Typed, Found, Matched
  <2>2. At(in) # "end" /\ Finds("returned", in + 1, AllHeld(c), Here(c))
    BY <2>1, FindsClose
  <2>3. in' = in + 1
    BY <2>2, CloseIn
  <2> QED
    BY <2>2, <2>3, <1>1, <1>2
<1> QED
  BY <1>1, <1>3, FoundStill

\* A list is appended if something was found for it.
LEMMA HereEmpty ==
    ASSUME Typed, Kinds, NEW c, Chains(c), pc = "returned"
    PROVE  /\ NotEmpty <=> Here(c) # {}
           /\ NotEmpty => Here(c) = IF type = "ref" THEN Range(refs) ELSE Range(c[N + 1])
<1>1. Open
  BY DEF Open
<1>2. CASE type # "ref"
  <2>1. Here(c) = Range(c[N + 1]) /\ numRefs = 0
    BY <1>2 DEF Here, Kinds
  <2>2. data = 0 <=> c[N + 1] = <<>>
    BY <1>1, ChainEmpty
  <2>3. Range(c[N + 1]) = {} <=> c[N + 1] = <<>>
    <3>1. c[N + 1] \in Seq(Place)
      BY ChainsParts
    <3> QED
      BY <3>1, RangeIsEmpty
  <2> QED
    BY <2>1, <2>2, <2>3, <1>2 DEF NotEmpty
<1>3. CASE type = "ref"
  <2>1. Here(c) = OwnNames /\ data = 0
    BY <1>3 DEF Here, Kinds
  <2>2. numRefs \in Nat /\ refs \in Seq(Place)
    BY TypedParts DEF Typed
  <2>3. numRefs # 0 => Range(refs) # {}
    <3>1. numRefs # 0 => Len(refs) # 0
      BY DEF Kinds
    <3> QED
      BY <3>1, <2>2, RangeIsEmpty, EmptySeq
  <2>4. numRefs # 0 <=> numRefs > 0
    BY <2>2
  <2> QED
    BY <2>1, <2>3, <2>4, <1>3 DEF NotEmpty, OwnNames
<1> QED
  BY <1>2, <1>3

\* Return puts what was found for the list under way into the lists.
LEMMA ReturnHeld ==
    ASSUME Typed, Kinds, NEW c, Chains(c), Return, NEW d, ReturnDoes(c, d), array, {} \notin AllHeld(c),
           Ordered(c), \A w \in AllHeld(c) : \A a \in w, b \in Here(c) : a < b
    PROVE  AllHeld(d)' = (AllHeld(c) \cup {Here(c)}) \ {{}} /\ Ordered(d)'
<1>1. pc = "returned" /\ N \in Nat /\ type' = type
  BY ReturnIs DEF Return
<1>2. NotEmpty <=> Here(c) # {}
  BY <1>1, HereEmpty
<1>3. ASSUME lists' = lists, d = c, Here(c) = {}
      PROVE  AllHeld(d)' = (AllHeld(c) \cup {Here(c)}) \ {{}} /\ Ordered(d)'
  <2>1. AllHeld(d)' = AllHeld(c) /\ (Ordered(d)' <=> Ordered(c))
    BY <1>1, <1>3, HeldStill
  <2> QED
    BY <2>1, <1>3
<1>4. ASSUME NotEmpty, N' = N + 1, lists'[N + 1] = List, \A k \in 1 .. N : lists'[k] = lists[k],
             Another(c, d)
      PROVE  AllHeld(d)' = (AllHeld(c) \cup {Here(c)}) \ {{}} /\ Ordered(d)'
  <2>1. \A k \in 1 .. N + 1 : d[k] = c[k]
    BY <1>4 DEF Another
  <2>2. /\ \A k \in 1 .. N : k \in 1 .. N + 1
        /\ \A k \in 1 .. N + 1 : k \in 1 .. N \/ k = N + 1
        /\ N + 1 \in 1 .. N + 1
        /\ \A k \in 1 .. N + 1 : \A j \in 1 .. k - 1 : j \in 1 .. N
    BY <1>1
  <2>3. ASSUME NEW k \in 1 .. N PROVE Held(d, k)' = Held(c, k)
    <3>1. d[k] = c[k] /\ lists'[k] = lists[k]
      BY <2>1, <2>2, <1>4
    <3> QED
      BY <3>1, <1>1 DEF Held
  <2>4. PICK n : n = N + 1
    OBVIOUS
  <2>5. Held(d, n)' = Here(c)
    <3>1. Here(c) = IF type = "ref" THEN Range(refs) ELSE Range(c[N + 1])
      BY <1>1, <1>4, HereEmpty
    <3>2. d[n] = c[N + 1] /\ lists'[n].refs = refs
      BY <2>1, <2>2, <2>4, <1>4 DEF List
    <3> QED
      BY <3>1, <3>2, <1>1 DEF Held
  <2>6. AllHeld(d)' = AllHeld(c) \cup {Here(c)}
    <3>1. AllHeld(d)' = {Held(d, k)' : k \in 1 .. n}
      BY <2>4, <1>4 DEF AllHeld
    <3>2. \A k \in 1 .. n : k \in 1 .. N \/ k = n
      BY <2>2, <2>4
    <3>3. n \in 1 .. n /\ \A k \in 1 .. N : k \in 1 .. n
      BY <2>2, <2>4
    <3> QED
      BY <3>1, <3>2, <3>3, <2>3, <2>5 DEF AllHeld
  <2>7. AllHeld(d)' = (AllHeld(c) \cup {Here(c)}) \ {{}}
    BY <2>6, <1>2, <1>4
  <2>8. Ordered(d)'
    <3> SUFFICES ASSUME NEW k \in 1 .. N + 1, NEW j \in 1 .. k - 1,
                        NEW a \in Held(d, j)', NEW b \in Held(d, k)'
                 PROVE  a < b
      BY <1>4 DEF Ordered
    <3>1. j \in 1 .. N /\ a \in Held(c, j) /\ Held(c, j) \in AllHeld(c)
      BY <2>2, <2>3 DEF AllHeld
    <3>2. CASE k \in 1 .. N
      BY <3>1, <3>2, <2>3 DEF Ordered
    <3>3. CASE k = N + 1
      <4>1. b \in Here(c)
        BY <3>3, <2>4, <2>5
      <4> QED
        BY <3>1, <4>1
    <3> QED
      BY <3>2, <3>3, <2>2
  <2> QED
    BY <2>7, <2>8
<1>5. \/ /\ NotEmpty /\ N' = N + 1 /\ lists'[N + 1] = List /\ Another(c, d)
         /\ \A k \in 1 .. N : lists'[k] = lists[k]
      \/ ~NotEmpty /\ lists' = lists /\ d = c
  BY Zenon DEF ReturnDoes
<1> QED
  BY <1>2, <1>3, <1>4, <1>5

LEMMA ReturnFound ==
    ASSUME Typed, Kinds, NEW c, Chains(c), Found(c), Return, NEW d, ReturnDoes(c, d)
    PROVE  Found(d)'
<1>1. /\ text' = text /\ pc = "returned" /\ pc' \in {"list", "done"}
      /\ pc' = "list" => in' = in
      /\ pc' = "list" <=> array /\ At(in) = ","
  BY ReturnIs
<1>2. UNCHANGED <<type, array>>
  BY DEF Return
<1>3. Matched' <=> Matched
  BY <1>1, <1>2, SameMatched
<1>4. ASSUME Matched PROVE Ordered(d)' /\ Finds(pc, in, AllHeld(d), Here(d))'
  <2>1. /\ text \in Texts /\ type \in Type /\ WellFormedArray /\ Ordered(c)
        /\ Finds("returned", in, AllHeld(c), Here(c))
    BY <1>1, <1>4 DEF Typed, Found, Matched
  <2>2. array
    BY <2>1, ArrayIs
  <2>3. (\A w \in AllHeld(c) : \A a \in w, b \in Here(c) : a < b) /\ {} \notin AllHeld(c)
    BY <2>1, FindsBehind
  <2>4. AllHeld(d)' = (AllHeld(c) \cup {Here(c)}) \ {{}} /\ Ordered(d)'
    BY <2>1, <2>2, <2>3, ReturnHeld
  <2>5. PICK p, i, hs, h : p = pc' /\ i = in' /\ hs = AllHeld(d)' /\ h = Here(d)'
    OBVIOUS
  <2>6. /\ At(in) = "," => Finds("list", in, (AllHeld(c) \cup {Here(c)}) \ {{}}, h)
        /\ At(in) # "," => Finds("done", in, (AllHeld(c) \cup {Here(c)}) \ {{}}, h)
    BY <2>1, FindsReturn
  <2>7. \/ At(in) = "," /\ pc' = "list"
        \/ At(in) # "," /\ pc' = "done"
    BY <2>2, <1>1, Zenon
  <2>8. Finds(p, i, hs, h)
    <3>1. CASE p = "list"
      BY <3>1, <2>4, <2>5, <2>6, <2>7, <1>1
    <3>2. CASE p = "done"
      <4>1. Finds("done", in, hs, h)
        BY <3>2, <2>4, <2>5, <2>6, <2>7
      <4> QED
        BY <4>1, <3>2 DEF Finds
    <3> QED
      BY <3>1, <3>2, <2>5, <1>1
  <2>9. Finds(pc, in, AllHeld(d), Here(d))'
    BY <2>5, <2>8, <1>1, <1>2, FindsNext
  <2> QED
    BY <2>4, <2>9
<1> QED
  BY <1>3, <1>4 DEF Found, Matched

\* A client changes nothing of it.
LEMMA ClientFound ==
    ASSUME Typed, NEW c, Found(c), UNCHANGED <<text, type, array, in, values, references, lists>>,
           pc' = pc \/ (pc = "done" /\ pc' = "iterating")
    PROVE  Found(c)'
<1>1. UNCHANGED <<text, type, array, in, names, refs, numRefs, lists>>
  BY DEF references
<1>2. Here(c)' = Here(c)
  BY <1>1 DEF Here, N, OwnNames
<1>3. ASSUME Matched
      PROVE  \E p, i, h : p = pc' /\ i = in' /\ h = Here(c)' /\ Finds(p, i, AllHeld(c), h)
  <2>1. Finds(pc, in, AllHeld(c), Here(c))
    BY <1>3 DEF Found, Matched
  <2>2. Finds("done", in, AllHeld(c), Here(c)) => Finds("iterating", in, AllHeld(c), Here(c))
    BY DEF Finds
  <2>3. Finds(pc', in, AllHeld(c), Here(c))
    BY <2>1, <2>2
  <2> QED
    BY <2>3, <1>1, <1>2
<1> QED
  BY <1>1, <1>3, FoundStill

\* The lists of a well-formed array, once the functions have returned
LEMMA FoundMatches ==
    ASSUME Typed, NEW c, Chains(c), Found(c)
    PROVE  ListsMatch
<1> SUFFICES ASSUME Done, Matched
             PROVE  LET wanted(l) == {i \in l[1] .. l[2] : IF type = "ref" THEN text[i] = "name"
                                                          ELSE text[i] \in Makes(type)}
                        held(k) == IF type = "ref" THEN Range(lists[k].refs)
                                   ELSE Range(Chain(lists[k].head))
                    IN  /\ {held(k) : k \in DOMAIN lists} = {wanted(l) : l \in InnerLists} \ {{}}
                        /\ \A k \in DOMAIN lists : \A j \in 1 .. k - 1 :
                             \A a \in held(j), b \in held(k) : a < b
  BY DEF ListsMatch, Matched
<1> DEFINE held(k) == IF type = "ref" THEN Range(lists[k].refs)
                      ELSE Range(Chain(lists[k].head))
<1>1. DOMAIN lists = 1 .. N /\ N \in Nat /\ \A k \in 1 .. N : Chain(lists[k].head) = c[k]
  BY ChainsAre
<1>2. \A k \in 1 .. N : held(k) = Held(c, k)
  BY <1>1 DEF Held
<1>3. text \in Texts /\ type \in Type
  BY DEF Typed
<1>4. Ordered(c) /\ AllHeld(c) = Wants(Len(text) + 1)
  <2>1. Ordered(c) /\ Finds(pc, in, AllHeld(c), Here(c))
    BY DEF Found, Matched
  <2> QED
    BY <2>1 DEF Finds, Done
\* The braces around the array are no list, or hold nothing.
<1>5. Wants(Len(text) + 1) = {Wanted(l) : l \in InnerLists} \ {{}}
  <2>1. {q \in Inner : q[2] < Len(text) + 1} = Inner
    <3>1. \A q \in Inner : q[2] < Len(text) + 1
      BY InnerAt, <1>3
    <3> QED
      BY <3>1
  <2>2. ASSUME NEW l \in InnerLists, l \notin Inner PROVE Wanted(l) = {}
    <3>1. /\ l \in Place \X Place /\ ~(1 < l[1]) /\ l[1] < l[2]
          /\ \A i \in l[1] + 1 .. l[2] - 1 : text[i] \notin {"{", "}"}
      BY <2>2 DEF Inner, InnerLists, Place
    <3>2. l[1] \in Place /\ l[2] \in Place /\ text[l[1]] = "{" /\ text[l[2]] = "}"
      BY <2>2 DEF InnerLists, Place
    <3>3. l[1] = 1 /\ l[1] \in Int /\ l[2] \in Int /\ l[2] <= Len(text) /\ Len(text) \in Nat
      <4>1. l[1] \in Int /\ 1 <= l[1] /\ l[2] \in Int /\ l[2] <= Len(text) /\ Len(text) \in Nat
        BY <1>3, <3>2, PlaceIs
      <4>2. ~(1 < l[1])
        BY <3>1
      <4> QED
        BY <4>1, <4>2
    <3> SUFFICES ASSUME NEW x \in Wanted(l) PROVE FALSE
      OBVIOUS
    <3>4. x \in l[1] .. l[2] /\ Sought(x)
      BY DEF Wanted
    <3>5. x \in Int /\ 1 <= x /\ x <= l[2]
      BY <3>3, <3>4
    <3>6. x \in Place
      <4>1. x <= Len(text)
        BY <3>3, <3>5
      <4> QED
        BY <4>1, <3>5, <1>3, PlaceIs
    <3>7. At(x) \in Literal
      BY <3>4, <3>6, <1>3, SoughtLiteral
    <3>8. x # 1 /\ x # l[2]
      <4>1. At(1) = "{" /\ At(l[2]) = "}"
        BY <3>2, <3>3, <1>3, TextIs
      <4> QED
        BY <4>1, <3>7 DEF Literal
    <3>9. x \in 2 .. Len(text) - 1
      BY <3>3, <3>5, <3>8
    <3>10. PICK q \in Inner : q[1] < x /\ x < q[2]
      BY <3>7, <3>9, <1>3, ArrayIs DEF Matched
    <3>11. q[1] \in Int /\ 1 < q[1]
      BY <1>3, InnerAt
    <3>12. q[1] \in l[1] + 1 .. l[2] - 1
      BY <3>3, <3>5, <3>8, <3>10, <3>11
    <3>13. text[q[1]] = "{"
      BY DEF Inner, InnerLists
    <3> QED
      BY <3>1, <3>12, <3>13
  <2>3. \A l \in Inner : l \in InnerLists
    BY DEF Inner
  <2> QED
    BY <2>1, <2>2, <2>3 DEF Wants
<1>6. {held(k) : k \in DOMAIN lists} = {Wanted(l) : l \in InnerLists} \ {{}}
  <2>1. {held(k) : k \in DOMAIN lists} = AllHeld(c)
    BY <1>1, <1>2 DEF AllHeld
  <2> QED
    BY <2>1, <1>4, <1>5
<1>7. \A k \in DOMAIN lists : \A j \in 1 .. k - 1 : \A a \in held(j), b \in held(k) : a < b
  <2>1. \A k \in 1 .. N : \A j \in 1 .. k - 1 : j \in 1 .. N
    BY <1>1
  <2> HIDE DEF held
  <2> QED
    BY <2>1, <1>1, <1>2, <1>4 DEF Ordered
<1> QED
  BY <1>6, <1>7 DEF Wanted, Sought

-----------------------------------------------------------------------------
(* The invariant, and what follows from it.                                *)

DInv == Typed /\ Kinds /\ Named /\ \E c : Chains(c) /\ Iterating(c) /\ Found(c)

LEMMA DInvInit == Init => DInv
<1> SUFFICES ASSUME Init PROVE DInv
  OBVIOUS
<1>1. PICK c : Chains(c)
  BY InitChains
<1>2. Iterating(c)
  BY DEF Init, Iterating
<1> QED
  BY <1>1, <1>2, InitTyped, InitNamed, InitFound DEF DInv

LEMMA StepChains ==
    ASSUME Typed, Kinds, Named, NEW c, Chains(c), Iterating(c), Found(c), Step
    PROVE  \E d : (Chains(d) /\ Iterating(d) /\ Found(d))'
<1>1. CASE Begin
  <2>1. Iterating(c)'
    BY <1>1 DEF Begin, Goto, Iterating
  <2> QED
    BY <2>1, <1>1, BeginChains, BeginFound
<1>2. CASE ParseDataList
  <2>1. Iterating(c)'
    BY <1>2 DEF ParseDataList, Goto, Iterating
  <2> QED
    BY <2>1, <1>2, ParseDataListChains, ParseDataListFound
<1>3. CASE ParseLiteral
  <2>1. PICK d : Chains(d)' /\ ParseLiteralDoes(c, d)
    BY <1>3, ParseLiteralChains
  <2>2. Iterating(d)'
    BY <1>3 DEF ParseLiteral, Turn, Goto, Iterating
  <2> QED
    BY <2>1, <2>2, <1>3, ParseLiteralFound
<1>4. CASE ParseName
  <2>1. Iterating(c)'
    BY <1>4 DEF ParseName, Goto, Iterating
  <2> QED
    BY <2>1, <1>4, ParseNameChains, ParseNameFound
<1>5. CASE MakeReference
  <2>1. Iterating(c)'
    BY <1>5 DEF MakeReference, Turn, Goto, Iterating
  <2> QED
    BY <2>1, <1>5, MakeReferenceChains, MakeReferenceFound
<1>6. CASE Close
  <2>1. Iterating(c)'
    BY <1>6 DEF Close, Goto, Iterating
  <2> QED
    BY <2>1, <1>6, CloseChains, CloseFound
<1>7. CASE Return
  <2>1. PICK d : Chains(d)' /\ ReturnDoes(c, d)
    BY <1>7, ReturnChains
  <2>2. Iterating(d)'
    BY <1>7 DEF Return, Goto, Iterating
  <2> QED
    BY <2>1, <2>2, <1>7, ReturnFound
<1>8. CASE GetNext
  <2>1. Found(c)'
    BY <1>8, ClientFound DEF GetNext
  <2> QED
    BY <2>1, <1>8, GetNextChains, GetNextIterating
<1> QED
  BY <1>1, <1>2, <1>3, <1>4, <1>5, <1>6, <1>7, <1>8 DEF Step

LEMMA DInvNext == DInv /\ [Next]_vars => DInv'
<1> SUFFICES ASSUME DInv, [Next]_vars PROVE DInv'
  OBVIOUS
<1>1. Typed /\ Kinds /\ Named
  BY DEF DInv
<1>2. PICK c : Chains(c) /\ Iterating(c) /\ Found(c)
  BY DEF DInv
<1>3. Typed' /\ Kinds' /\ Named'
  BY <1>1, TypedNext, NamedNext
<1>4. ASSUME Step PROVE \E d : (Chains(d) /\ Iterating(d) /\ Found(d))'
  BY <1>1, <1>2, <1>4, StepChains
<1>5. ASSUME NEW k \in DOMAIN lists, Iterate(k)
      PROVE  (Chains(c) /\ Iterating(c) /\ Found(c))'
  <2>1. Found(c)'
    BY <1>1, <1>2, <1>5, ClientFound DEF Iterate
  <2> QED
    BY <2>1, <1>1, <1>2, <1>5, IterateChains, IterateIterating
<1>6. ASSUME UNCHANGED vars PROVE (Chains(c) /\ Iterating(c) /\ Found(c))'
  <2>1. /\ UNCHANGED <<text, type, array, in, values, references, lists>>
        /\ pc' = pc /\ iterator' = iterator
    BY <1>6 DEF vars
  <2>2. Found(c)'
    BY <1>1, <1>2, <2>1, ClientFound
  <2>3. Iterating(c)'
    BY <1>2, <2>1, IteratingStill
  <2> QED
    BY <2>2, <2>3, <1>1, <1>2, <1>6, StutterChains
<1>7. \E d : (Chains(d) /\ Iterating(d) /\ Found(d))'
  BY <1>4, <1>5, <1>6 DEF Next
<1> QED
  BY <1>3, <1>7 DEF DInv

LEMMA DInvAlways == Spec => []DInv
BY DInvInit, DInvNext, PTL DEF Spec

\* Every value that parseDataList makes is deleted by the list that it is on, and
\* by no other, and the chains are in the order of the text.
THEOREM DataValuesOwned == Spec => []ValuesOwned
<1>1. DInv => ValuesOwned
  BY ChainsOwned DEF DInv
<1> QED
  BY <1>1, DInvAlways, PTL

\* Where no blank is in front of a comma, no name that parseReference makes is lost.
THEOREM DataNamesOwned == Spec => []NamesOwned
<1>1. DInv => NamesOwned
  BY NamesAreOwned DEF DInv
<1> QED
  BY <1>1, DInvAlways, PTL

\* The lists of a well-formed array are those that parseDataArrayList returns.
THEOREM DataListsMatch == Spec => []ListsMatch
<1>1. DInv => ListsMatch
  BY FoundMatches DEF DInv
<1> QED
  BY <1>1, DInvAlways, PTL

\* What the documented accessors really do, for texts of every length: the loop that
\* Value.h:49-57 shows yields all values of a list but the first, and as many lists
\* as DataArrayList::size() says are all but the last of several.
THEOREM DataAccessorsMissOne == Spec => []AccessorsMissOne
<1>1. DInv => AccessorsMissOne
  <2> SUFFICES ASSUME Typed, NEW c, Chains(c), Iterating(c) PROVE AccessorsMissOne
    BY DEF DInv
  <2>1. pc = "iterating" /\ ~HasNext =>
          \E k \in DOMAIN lists :
            LET chain == Chain(lists[k].head) IN
            seen = IF chain = <<>> THEN <<>> ELSE Tail(chain)
    BY IteratorMissesOne
  <2>2. Done /\ lists # <<>> =>
          LET last == IF Len(lists) = 1 THEN 0 ELSE lists[Len(lists)].head IN
          UNION {Range(Chain(lists[k].head)) : k \in 1 .. Size(1)} = made \ Range(Chain(last))
    BY SizeMissesLast
  <2> QED
    BY <2>1, <2>2 DEF AccessorsMissOne
<1> QED
  BY <1>1, DInvAlways, PTL
=============================================================================

---------------------------- MODULE DDLDocument ----------------------------
(***************************************************************************)
(* What a parser of OpenDDL texts promises its client, with no stack, no   *)
(* cursor and no recursion: parse() on a well-formed text succeeds and     *)
(* gives the tree that the brackets of the text describe, whatever the     *)
(* parser was used for before.                                             *)
(***************************************************************************)
EXTENDS DDLTokens, FiniteSets

CONSTANTS
    Documents,  \* the well-formed texts
    NoTree      \* no tree is available

VARIABLES
    text,       \* the text handed over
    busy,       \* parse() has been called and has not returned
    answer,     \* of the last parse()
    tree        \* the tree a client can read

Opening == {"{"}
Positions(b, Q(_)) == SelectSeq([i \in DOMAIN b |-> i], Q)

\* Brackets open in front of position p
Nesting(b, p) ==
    Cardinality({q \in 1 .. p - 1 : b[q] \in Opening})
      - Cardinality({q \in 1 .. p - 1 : b[q] \in Closing})

\* The words that name a structure: no key of a property and no node name
Headers(b) == {p \in DOMAIN b : b[p] = "id" /\ At(b, p - 1) \notin {"$", "("}}

\* q lies between the braces of the structure whose header is at h.
Contains(b, h, q) ==
    \E o \in h + 1 .. q - 1 :
      /\ b[o] = "{"
      /\ \A k \in h + 1 .. o : Nesting(b, k) = Nesting(b, h)
      /\ \A k \in o + 1 .. q : Nesting(b, k) > Nesting(b, h)

\* The innermost structure around q, 0 at the outermost level
Encloser(b, q) ==
    LET around == {h \in Headers(b) : Contains(b, h, q)}
    IN  IF around = {} THEN 0 ELSE CHOOSE h \in around : \A g \in around : g <= h

\* Data items of the structure at h, n brackets below it
Items(b, h, n) ==
    {q \in DOMAIN b : /\ b[q] = "num"
                      /\ b[q - 1] # "="
                      /\ Encloser(b, q) = h
                      /\ Nesting(b, q) = Nesting(b, h) + n}

\* Sizes of the lists in the array list of the structure at h
Sizes(b, h) ==
    LET item(l) == {q \in Items(b, h, 3) : q > l /\ \A k \in l .. q : b[k] \notin Closing}
        lists == Positions(b, LAMBDA l : /\ b[l] = "{"
                                         /\ Encloser(b, l) = h
                                         /\ Nesting(b, l) = Nesting(b, h) + 2
                                         /\ item(l) # {})
    IN  [k \in DOMAIN lists |-> Cardinality(item(lists[k]))]

\* The tree of a text: what is known of each node, and its parent.
Tree(b) ==
    [h \in Headers(b) |->
       LET named == At(b, h + 1) = "$" IN
       [parent   |-> Encloser(b, h),
        name     |-> IF named THEN h + 2 ELSE 0,
        property |-> LET o == IF named THEN h + 3 ELSE h + 1
                     IN  At(b, o) = "(" /\ At(b, o + 1) # ")",
        values   |-> Cardinality(Items(b, h, 2)),
        arrays   |-> Sizes(b, h)]]

Init == text = <<>> /\ busy = FALSE /\ answer = "none" /\ tree = NoTree

HandOver ==
    /\ ~busy
    /\ tree' = NoTree
    /\ answer' = "none"
    /\ UNCHANGED busy

\* A text that cannot be parsed may be refused at once.
Refuse ==
    /\ ~busy
    /\ text \notin Documents
    /\ answer' = "failed"
    /\ UNCHANGED <<text, busy, tree>>

Start ==
    /\ ~busy
    /\ busy' = TRUE
    /\ answer' = "none"
    /\ tree' = NoTree
    /\ UNCHANGED text

Finish ==
    /\ busy
    /\ busy' = FALSE
    /\ answer' \in {"parsed", "failed"}
    /\ text \in Documents => answer' = "parsed" /\ tree' = Tree(text)
    /\ UNCHANGED text

\* Only a text that is not well-formed may make the parser misbehave.
Break ==
    /\ busy
    /\ text \notin Documents
    /\ answer' = "undefined"
    /\ UNCHANGED <<text, busy, tree>>

Next == HandOver \/ Refuse \/ Start \/ Finish \/ Break

Spec == Init /\ [][Next]_<<text, busy, answer, tree>>
=============================================================================

------------------------------ MODULE DDLHeader ------------------------------
(***************************************************************************)
(* The header of a structure, type $name (key = value), as parseHeader     *)
(* reads it with parseIdentifier, parseName, parseProperty, parseReference *)
(* and the literal parsers, and the objects it allocates on the way: Text, *)
(* Name, Value, Reference and Property.  Behind it a client copies a       *)
(* reference into a Value, and destroys the node and the copy.             *)
(*                                                                         *)
(* A text is a sequence of tokens set apart by blanks, except that a comma *)
(* stands directly behind the token before it, and that "=." is an equals  *)
(* sign without a blank behind it:                                         *)
(*   "id" "idx"  words, the first a prefix of the second                   *)
(*   "num" "neg" "real" "exp"  12, -12, 1.5 and 1e+06                      *)
(*   "str"  "abc" in quotes                                                *)
(* The empty string is "empty".  No name is one of OpenDDLExport's, so     *)
(* that a module can extend both.                                          *)
(* An object's number is its place in `heap', so none is ever used twice.  *)
(* Some definitions are preceded by a mistaken variant, as in DDLNode.     *)
(***************************************************************************)
EXTENDS Integers, SequencesExt

CONSTANTS
    HeaderTexts, \* texts a header is read from
    Headers,    \* headers the exporter writes, read as well
    Null        \* nullptr

Token == {"id", "idx", "num", "neg", "real", "exp", "str", "$", "(", ")", "{", "=", "=.", "comma"}

\* An equals sign that stands behind another is a token of its own.
IsText(t) ==
    /\ t \in Seq(Token) \ {<<>>}
    /\ \A i \in 2 .. Len(t) : ~(t[i - 1] = "=." /\ t[i] = "=.")
ASSUME HeaderTextsAssumption == \A t \in HeaderTexts : IsText(t)

(***************************************************************************)
(* What the exporter writes a header of: the node's type, its name and its *)
(* properties.  A value is an integer "num" or "neg", a real that a stream *)
(* writes as "real", as "whole", without a point, as "neg", a whole one    *)
(* below zero, or with an exponent, "exp", or one that is written as a     *)
(* word, "bool": a bool, or a real that is infinite or none.  It is a      *)
(* string "str", a string with a quotation mark in it, "quoted", or one    *)
(* that nothing is written of, "ref": a reference, or a half.              *)
(***************************************************************************)
Word == {"id", "idx"}
Header == [type : Word, name : Word \cup {"empty"},
           props : Seq([key : Word, value : {"num", "neg", "real", "whole", "exp", "bool",
                                             "str", "quoted", "ref"}])]
ASSUME HeadersAssumption == Headers \subseteq Header \ {Null}
ASSUME NullAssumption == Null \notin Nat

VARIABLES
    text,       \* the text from the header on
    origin,     \* the header the exporter wrote it from, or null
    in,         \* the cursor; Len(text) + 1 is end, 0 the nullptr of an error
    reading,    \* what is read next
    node,       \* the DDLNode: its type, its name and m_properties
    key,        \* the Text of a property's key
    names,      \* the Names of a property's value
    prop,       \* the property just read
    copy,       \* the Reference a client's Value holds
    heap,       \* objects in the order of their allocation
    live        \* those not deleted

cursor == <<text, origin, in, reading>>
locals == <<key, names, prop>>
headerVars == <<cursor, node, locals, copy, heap, live>>

NoNode == [made |-> FALSE, type |-> "empty", name |-> "empty", props |-> Null]
Object(k, c, parts) == [kind |-> k, of |-> c, owns |-> parts]

\* The character under the cursor, and lookForNextToken
At(i) == IF i \in DOMAIN text THEN text[i] ELSE "end"
Look(i) == Min({j \in i .. Len(text) + 1 : At(j) # "comma"} \cup {Len(text) + 1})

(***************************************************************************)
(* parseIdentifier: no Text at the end and before a digit, an empty one at *)
(* a character that ends identifiers.  An equals sign ends none.           *)
(***************************************************************************)
Ends == {"(", ")", "$", "{", "comma", "end"}
Numeral == {"num", "real", "exp"}
Identifier(i) ==
    LET j == Look(i) IN
    [of |-> CASE At(j) \in Numeral \cup {"end"} -> "null"
              [] At(j) \in Ends \ {"end"} -> "empty"
              [] OTHER -> At(j),
     next |-> IF At(j) \in Ends \cup Numeral THEN j
              ELSE IF At(j) = "=." /\ At(j + 1) \notin Ends THEN j + 2
              ELSE j + 1]

\* Objects that a delete of those in S reaches through the destructors.
Reached(S) ==
    LET Parts(Z) == Z \cup UNION {{heap[o].owns[i] : i \in DOMAIN heap[o].owns} : o \in Z}
    IN  Parts(Parts(Parts(S \ {Null})))

(***************************************************************************)
(* writeNodeHeader, writeProperties and writeValue: a comma and a blank    *)
(* between the properties.  A bool is a word, and what follows a quotation *)
(* mark in a string is one to parseStringLiteral, which ends there.        *)
(***************************************************************************)
WrittenValue(v) ==
    CASE v = "ref"    -> <<>>
      [] v = "whole"  -> <<"num">>
      [] v = "bool"   -> <<"id">>
      [] v = "quoted" -> <<"str", "id">>
      [] OTHER -> <<v>>

WrittenHeader(h) ==
    LET Property(i) == (IF i = 1 THEN <<>> ELSE <<"comma">>)
                       \o <<h.props[i].key, "=">> \o WrittenValue(h.props[i].value)
        Properties == FlattenSeq([i \in DOMAIN h.props |-> Property(i)])
    IN  <<h.type>> \o (IF h.name = "empty" THEN <<>> ELSE <<"$", h.name>>)
        \o (IF h.props = <<>> THEN <<>> ELSE <<"(">> \o Properties \o <<")">>)

InitHeader ==
    /\ \/ origin = Null /\ text \in HeaderTexts
       \/ origin \in Headers /\ text = WrittenHeader(origin)
    /\ in = 1
    /\ reading = "id"
    /\ node = NoNode
    /\ key = Null /\ names = <<>> /\ prop = Null
    /\ copy = Null
    /\ heap = <<>>
    /\ live = {}

Goto(label, i) == reading' = label /\ in' = i /\ UNCHANGED <<text, origin>>

\* New objects, numbered behind those there are, beside the objects kept
NewBeside(kept, objects) ==
    /\ heap' = heap \o objects
    /\ live' = kept \cup (Len(heap) + 1 .. Len(heap'))
New(objects) == NewBeside(live, objects)
Newest == Len(heap')

\* The node's type.  Its Text is deleted as soon as the node is created, and an
\* empty one creates none.
ReadType ==
    LET id == Identifier(in) IN
    /\ reading = "id"
    /\ IF id.of = "null"
       THEN Goto("done", id.next) /\ UNCHANGED node
       ELSE /\ Goto("name", Look(id.next))
            /\ node' = IF id.of = "empty" THEN node
                       ELSE [node EXCEPT !.made = TRUE, !.type = id.of]
    /\ UNCHANGED <<locals, copy, heap, live>>

\* parseName
NameAt(i) == IF At(Look(i)) # "$" THEN [of |-> "null", next |-> Look(i)]
             ELSE Identifier(Look(i) + 1)

\* The node's name: the Name is deleted only when the node took it.
NeverTaken(of) == FALSE
NameTaken(of) == of # "empty" /\ node.made

ReadName ==
    LET n == NameAt(in) IN
    /\ reading = "name"
    /\ Goto("clause", Look(n.next))
    /\ IF n.of = "null" THEN UNCHANGED <<node, heap, live>>
       ELSE IF NameTaken(n.of)
       THEN node' = [node EXCEPT !.name = n.of] /\ UNCHANGED <<heap, live>>
       ELSE /\ New(<<Object("Text", n.of, <<>>), Object("Name", "empty", <<Len(heap) + 1>>)>>)
            /\ UNCHANGED node
    /\ UNCHANGED <<locals, copy>>

OpenClause ==
    /\ reading = "clause"
    /\ IF At(in) = "(" /\ Look(in + 1) <= Len(text)
       THEN Goto("key", Look(in + 1))
       ELSE Goto("done", IF At(in) = "(" THEN Look(in + 1) ELSE in)
    /\ UNCHANGED <<node, locals, copy, heap, live>>

\* parseProperty: the key's Text is deleted when no equals sign follows.
ReadKey ==
    LET id == Identifier(in)
        eq == Look(id.next)
    IN
    /\ reading = "key"
    /\ IF id.of # "null" /\ At(eq) \in {"=", "=."}
       THEN /\ New(<<Object("Text", id.of, <<>>)>>)
            /\ key' = Newest
            /\ Goto("value", eq + 1)
       ELSE Goto("behind", eq) /\ UNCHANGED <<key, heap, live>>
    /\ UNCHANGED <<node, names, prop, copy>>

(***************************************************************************)
(* The value.  getNextToken drops a character when no blank stands behind  *)
(* the equals sign.  A negative integer is an integer to isInteger and     *)
(* none to parseIntegerLiteral, and .5 is a float to isFloat and none to   *)
(* parseFloatingLiteral.  A number with an exponent is neither to the two  *)
(* tests, and read as a reference, which it is not.                        *)
(***************************************************************************)
DroppedAlways == At(in) # "comma"
Dropped == text[in - 1] = "=." /\ At(in) # "comma"
ValueAt == IF Dropped THEN in ELSE Look(in)
LiteralRead ==
    CASE At(ValueAt) = "num"  -> IF Dropped THEN "2" ELSE "12"
      [] At(ValueAt) = "neg"  -> IF Dropped THEN "12" ELSE "null"
      [] At(ValueAt) = "real" -> IF Dropped THEN "null" ELSE "1.5"
      [] At(ValueAt) = "str"  -> IF Dropped THEN "none" ELSE "abc"
      [] OTHER -> "none"

\* The key's Text is never deleted once the equals sign is read: it goes into
\* the property or, when no value is made, is left behind.
KeyDeleted == live \ {key}
KeyKept == live

ReadValue ==
    /\ reading = "value"
    /\ ValueAt <= Len(text)
    /\ CASE LiteralRead = "none" ->
              /\ Goto("names", IF Dropped /\ At(in) \in Ends \cup {"=", "=."} THEN in + 1 ELSE ValueAt)
              /\ UNCHANGED <<key, prop, heap, live>>
         [] LiteralRead = "null" ->
              /\ Goto("behind", ValueAt + 1)
              /\ key' = Null
              /\ live' = KeyKept
              /\ UNCHANGED <<prop, heap>>
         [] OTHER ->
              /\ NewBeside(KeyKept, <<Object("Value", LiteralRead, <<>>),
                                      Object("Property", "empty", <<key, Len(heap) + 1>>)>>)
              /\ prop' = Newest
              /\ key' = Null
              /\ Goto("behind", ValueAt + 1)
    /\ UNCHANGED <<node, names, copy>>

\* Nothing behind the equals sign: the tests of the value's kind read past the
\* end.  They find nothing, or go on to read there, which is undefined.  They do
\* when no blank is behind the sign: getNextToken has stepped past the end then.
ReadPastEnd ==
    /\ reading = "value"
    /\ ValueAt > Len(text)
    /\ \/ ~Dropped /\ Goto("behind", Len(text) + 1)
       \/ Goto("wild", Len(text) + 1)
    /\ key' = Null
    /\ UNCHANGED <<node, names, prop, copy, heap, live>>

\* parseReference: names go on behind a comma that follows one directly.
ReadReference ==
    LET n == NameAt(in) IN
    /\ reading = "names"
    /\ IF n.of = "null"
       THEN UNCHANGED <<names, heap, live>>
       ELSE /\ New(<<Object("Text", n.of, <<>>), Object("Name", "empty", <<Len(heap) + 1>>)>>)
            /\ names' = Append(names, Newest)
    /\ Goto(IF At(n.next) = "comma" THEN "names" ELSE "reference", n.next)
    /\ UNCHANGED <<node, key, prop, copy>>

MakeReference ==
    /\ reading = "reference"
    /\ IF names = <<>> THEN UNCHANGED <<prop, heap, live>>
       ELSE /\ New(<<Object("Reference", "empty", names),
                     Object("Property", "empty", <<key, Len(heap) + 1>>)>>)
            /\ prop' = Newest
    /\ key' = Null
    /\ names' = <<>>
    /\ Goto("behind", in)
    /\ UNCHANGED <<node, copy>>

(***************************************************************************)
(* Behind a property, lookForNextToken skips the comma the loop goes on to *)
(* look for.  So a second property is an error, and the loop ends at ')',  *)
(* where the property becomes the node's, or at the end of the text, where *)
(* it does not.                                                            *)
(***************************************************************************)
KeptAlways == node.made
Kept == At(Look(in)) = ")" /\ node.made

BehindProperty ==
    LET j == Look(in) IN
    /\ reading = "behind"
    /\ CASE At(j) = "end" -> Goto("done", j)
         [] At(j) = ")"   -> Goto("done", j + 1)
         [] OTHER         -> Goto("failed", 0)
    /\ node' = IF Kept THEN [node EXCEPT !.props = prop] ELSE node
    /\ prop' = Null
    /\ UNCHANGED <<key, names, copy, heap, live>>

Step ==
    \/ ReadType \/ ReadName \/ OpenClause \/ ReadKey \/ ReadValue \/ ReadPastEnd
    \/ ReadReference \/ MakeReference \/ BehindProperty

-----------------------------------------------------------------------------
Read == reading \in {"done", "failed"}

\* The property of the node: its key and what it holds
Key == heap[heap[node.props].owns[1]].of
Held == heap[heap[node.props].owns[2]]
HasReference == node.props # Null /\ Held.kind = "Reference"
NamesOf(ref) == [i \in DOMAIN heap[ref].owns |-> heap[heap[heap[ref].owns[i]].owns[1]].of]

\* A client's Value::setRef: a deep copy, made only when the names have letters.
\* The bound: one copy, so the property is the newest object.
Copied(ns) ==
    LET Pair(i) == <<Object("Text", ns[i], <<>>), Object("Name", "empty", <<Len(heap) + 2 * i - 1>>)>>
    IN  FlattenSeq([i \in DOMAIN ns |-> Pair(i)])
        \o <<Object("Reference", "empty", [i \in DOMAIN ns |-> Len(heap) + 2 * i])>>

SetRef ==
    /\ Read
    /\ HasReference
    /\ node.props = Len(heap)
    /\ LET ns == NamesOf(heap[node.props].owns[2]) IN
       /\ \E i \in DOMAIN ns : ns[i] # "empty"
       /\ New(Copied(ns))
    /\ copy' = Newest
    /\ UNCHANGED <<cursor, node, locals>>

\* delete of the node and of the Value, in either order
DeleteNode ==
    /\ Read
    /\ node.made
    /\ live' = live \ Reached({node.props})
    /\ node' = NoNode
    /\ Goto("deleted", in)
    /\ UNCHANGED <<locals, copy, heap>>

DeleteValue ==
    /\ copy # Null
    /\ live' = live \ Reached({copy})
    /\ copy' = Null
    /\ UNCHANGED <<cursor, node, locals, heap>>

NextHeader == Step \/ SetRef \/ DeleteNode \/ DeleteValue

HeaderSpec == InitHeader /\ [][NextHeader]_headerVars

-----------------------------------------------------------------------------
Labels == {"id", "name", "clause", "key", "value", "names", "reference", "behind",
           "done", "failed", "wild", "deleted"}

\* Types of the variables; the cursor leaves the text only where the label is "wild".
HeaderTypeOK ==
    /\ text \in Seq(Token)
    /\ in \in 0 .. Len(text) + 1
    /\ reading \in Labels
    /\ node \in [made : BOOLEAN, type : Token \cup {"empty"}, name : Token \cup {"empty"},
                 props : DOMAIN heap \cup {Null}]
    /\ {key, prop, copy} \cup ToSet(names) \subseteq DOMAIN heap \cup {Null}
    /\ live \subseteq DOMAIN heap

\* Where a pointer to an object is, and the pointer there: <<0, i>> in the parser's
\* variables, the node and the client's Value, <<o, i>> in the object o
Variables == <<key, prop, node.props, copy>> \o names
Places == ({0} \X DOMAIN Variables) \cup UNION {{o} \X DOMAIN heap[o].owns : o \in live}
Pointer(p) == IF p[1] = 0 THEN Variables[p[2]] ELSE heap[p[1]].owns[p[2]]

\* No pointer names an object that was deleted, and no two name one object: each
\* is deleted at most once, in whatever order node and copy go.
OwnedOnce ==
    /\ HeaderTypeOK
    /\ \A p \in Places : Pointer(p) # Null =>
         /\ Pointer(p) \in live
         /\ \A q \in Places \ {p} : Pointer(p) # Pointer(q)

\* What the parser makes of a property the exporter writes: no property, or none of
\* the header; the others it reads, a whole real as an integer.
Skipped == {"neg", "ref"}
Refused == {"exp", "bool", "quoted"}
Readable(p) == p.value \notin Skipped \cup Refused
ValueOf == [num |-> "12", whole |-> "12", real |-> "1.5", str |-> "abc"]

\* A header the exporter writes with one property at most is read back whole, with
\* its type, its name and the property, when that is an integer that is not
\* negative, a real that is written without an exponent, or a string without a
\* quotation mark.  A negative integer and what nothing is written of leave no
\* property; any other value, and a second property, has the header refused.
ReadsBack ==
    Read /\ origin # Null =>
      IF Len(origin.props) > 1 \/ \E i \in DOMAIN origin.props : origin.props[i].value \in Refused
      THEN reading = "failed"
      ELSE /\ reading = "done" /\ At(in) = "end"
           /\ node.type = origin.type /\ node.name = origin.name
           /\ IF origin.props # <<>> /\ Readable(origin.props[1])
              THEN /\ node.props # Null
                   /\ Key = origin.props[1].key
                   /\ Held.of = ValueOf[origin.props[1].value]
              ELSE node.props = Null

\* Objects nothing can delete any more
Lost == live \ Reached({key, prop, copy, node.props} \cup ToSet(names))

\* Only a header the parser refuses, or a property it cannot read, makes it lose
\* objects; a name, a type and a key without a value are released.
LosesNoOther ==
    Read /\ origin # Null /\ Lost # {} =>
        Len(origin.props) > 1 \/ \E i \in DOMAIN origin.props : ~Readable(origin.props[i])

\* What DDLParser takes from DDLTokens in one step is what the steps here come to:
\* the cursor, the verdict, and whether there is a node, a name and a property.
\* DDLParser stops where the header reads past the end of the text.
Tokens == INSTANCE DDLTokens
SummaryAgrees ==
    LET id == Tokens!Identifier(text, 1)
        n  == Tokens!Name(text, id.next)
        p  == Tokens!Properties(text, n.next)
    IN  Read /\ ToSet(text) \subseteq Tokens!Token /\ ~p.overread =>
          IF id.text = "null" THEN in = id.next /\ ~node.made
          ELSE /\ (reading = "failed") = ~p.ok
               /\ reading = "done" => in = p.next
               /\ node.made = (id.text = "word")
               /\ (node.name # "empty") = (node.made /\ n.text = "word")
               /\ (node.props # Null) = (node.made /\ p.ok /\ p.made)

\* findPropertyByName: a comparison of as many characters as the name has
Prefix == {<<"id", "id">>, <<"idx", "idx">>, <<"id", "idx">>}
Found(name) == node.props # Null /\ <<name, Key>> \in Prefix

\* DDLNode.h:105-106: hasProperty tells whether "a corresponding property is
\* assigned to the node", for the property with the name it is given.
FindsOnlyItsName == Read => \A name \in {"id", "idx"} : Found(name) => Key = name
=============================================================================

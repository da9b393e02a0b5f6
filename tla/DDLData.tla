------------------------------ MODULE DDLData ------------------------------
(***************************************************************************)
(* The data of a structure (code/OpenDDLParser.cpp): parseDataList,        *)
(* parseReference and parseDataArrayList turn, by turn, a list or a list   *)
(* of lists into Value, Name, Reference and DataArrayList objects, and a   *)
(* client goes over the values with a Value::Iterator (code/Value.cpp).    *)
(*                                                                         *)
(* An object is known by the place of the literal it was made from; 0 is   *)
(* nullptr.  Literals are whole tokens, set apart by commas and blanks:    *)
(*   "int"  12     "neg"  -1      "real" 1.5     "hex"  0xff               *)
(*   "str"  "ab"   "name" $ab     "word" abc                               *)
(***************************************************************************)
EXTENDS Integers, Sequences, Functions

CONSTANT Texts  \* what follows the type name: the texts of lists, and of lists of lists

Literal   == {"int", "neg", "real", "hex", "str", "name", "word"}
Separator == {",", " ", "{", "}"}
Type      == {"none", "bool", "int", "float", "string", "ref"}

ASSUME TextsAssumption ==
    /\ Texts \subseteq Seq(Literal \cup Separator)
    /\ \A t \in Texts : \A i \in 1 .. Len(t) - 1 : t[i] \in Literal => t[i + 1] \in Separator

VARIABLES
    text,       \* the buffer
    type,       \* the type asked for
    array,      \* parseDataArrayList was called, and not parseDataList alone
    in,         \* the cursor
    pc,         \* where the functions are
    made,       \* Value objects created
    next,       \* Value::m_next
    data, prev, numValues,          \* of parseDataList
    names,      \* parseReference: the names read so far
    allNames,   \* Name objects created
    refs, numRefs,                  \* of parseDataList
    lists,      \* the chain of DataArrayList objects
    current,    \* m_current of a client's iterator
    seen        \* what the iterator returned

values == <<made, next, data, prev, numValues>>
references == <<names, allNames, refs, numRefs>>
iterator == <<current, seen>>
vars == <<text, type, array, in, pc, values, references, lists, iterator>>

At(i) == IF i \in DOMAIN text THEN text[i] ELSE "end"

\* lookForNextToken and getNextSeparator
Skip(i, S) == CHOOSE j \in i .. Len(text) + 1 :
                 At(j) \notin S /\ \A k \in i .. j - 1 : At(k) \in S
Look(i) == Skip(i, {",", " "})
NextSeparator(i) == Skip(i, Literal)

(***************************************************************************)
(* Literals that make a Value in a list of type t.  isNumeric looks at the *)
(* first character, so a negative number is no integer; parseFloating-     *)
(* Literal takes a hexadecimal one; parseBooleanLiteral is never called.   *)
(***************************************************************************)
Makes(t) ==
    CASE t = "none"   -> {"int", "real", "hex", "str"}
      [] t = "int"    -> {"int", "real", "hex"}
      [] t = "float"  -> {"int", "neg", "real", "hex"}
      [] t = "string" -> {"str"}
      [] OTHER        -> {}

Init ==
    /\ text \in Texts
    /\ type \in Type
    /\ array \in BOOLEAN
    /\ in = 1 /\ pc = "begin"
    /\ made = {} /\ next = [i \in DOMAIN text |-> 0]
    /\ data = 0 /\ prev = 0 /\ numValues = 0
    /\ names = <<>> /\ allNames = {} /\ refs = <<>> /\ numRefs = 0
    /\ lists = <<>>
    /\ current = 0 /\ seen = <<>>

Goto(p, i) == pc' = p /\ in' = i

\* parseDataArrayList up to its loop, or parseDataList called directly
Begin ==
    /\ pc = "begin"
    /\ IF ~array THEN Goto("list", in)
       ELSE IF At(Look(in)) = "{" THEN Goto("list", Look(in) + 1)
       ELSE Goto("done", Look(in))
    /\ UNCHANGED <<text, type, array, values, references, lists, iterator>>

\* parseDataList up to its loop
ParseDataList ==
    /\ pc = "list"
    /\ data' = 0 /\ prev' = 0 /\ numValues' = 0 /\ numRefs' = 0
    /\ IF At(Look(in)) # "{" THEN Goto("returned", Look(in))
       ELSE Goto(IF At(Look(in) + 1) \in {"}", "end"} THEN "closed" ELSE "item", Look(in) + 1)
    /\ UNCHANGED <<text, type, array, made, next, names, allNames, refs, lists, iterator>>

\* The end of a turn of its loop: go to a separator, and on at a comma or blank.
\* Some definitions are preceded by a mistaken variant.
OnUnlessClosed(j) == At(j) # "}"
On(j) == At(j) \in {",", " "}

Turn(i) ==
    LET j == NextSeparator(i)
    IN  Goto(IF On(j) THEN "item" ELSE "closed", j)

\* The value of a literal is appended to the chain.
PrevNotMoved(i) == IF prev = 0 THEN i ELSE prev
PrevMoved(i) == i

ParseLiteral ==
    LET i == Look(in) IN
    /\ pc = "item"
    /\ type # "ref"
    /\ IF At(i) \in Makes(type)
       THEN /\ made' = made \cup {i}
            /\ data' = IF data = 0 THEN i ELSE data
            /\ next' = IF data = 0 THEN next ELSE [next EXCEPT ![prev] = i]
            /\ prev' = PrevMoved(i)
            /\ numValues' = numValues + 1
       ELSE UNCHANGED values
    /\ Turn(i)
    /\ UNCHANGED <<text, type, array, references, lists, iterator>>

\* parseReference: the first name, and each one behind a comma that follows a
\* name directly.  A blank in front of the comma ends it.
Overwritten(i) == <<i>>
Pushed(i) == Append(names, i)

ParseName ==
    LET i == Look(in) IN
    /\ \/ pc = "item" /\ type = "ref"
       \/ pc = "reference" /\ At(in) = ","
    /\ IF At(i) = "name"
       THEN /\ names' = Pushed(i)
            /\ allNames' = allNames \cup {i}
            /\ Goto("reference", i + 1)
       ELSE /\ Goto("reference", i)
            /\ UNCHANGED <<names, allNames>>
    /\ UNCHANGED <<text, type, array, values, refs, numRefs, lists, iterator>>

\* A Reference is made of the names; the one before it is overwritten.
MakeReference ==
    /\ pc = "reference"
    /\ At(in) # ","
    /\ IF names # <<>>
       THEN refs' = names /\ numRefs' = Len(names)
       ELSE UNCHANGED <<refs, numRefs>>
    /\ names' = <<>>
    /\ Turn(in)
    /\ UNCHANGED <<text, type, array, values, allNames, lists, iterator>>

\* parseDataList goes behind the character that ended its loop.
Behind == IF At(in) = "end" THEN in ELSE in + 1

Close ==
    /\ pc = "closed"
    /\ Goto("returned", Behind)
    /\ UNCHANGED <<text, type, array, values, references, lists, iterator>>

\* What parseDataList returned: an array list for it unless it is empty, and
\* another turn of parseDataArrayList's loop if a comma follows directly.  Behind
\* the last list it steps over the next token, whatever that is: on a text that
\* was cut off, it goes beyond the end.
Always == TRUE
NotEmpty == data # 0 \/ numRefs # 0
List == [head |-> data, num |-> numValues, refs |-> refs, numRefs |-> numRefs]

Return ==
    /\ pc = "returned"
    /\ lists' = IF ~array \/ NotEmpty THEN Append(lists, List) ELSE lists
    /\ IF ~array THEN Goto("done", in)
       ELSE IF At(in) = "," THEN Goto("list", in)
       ELSE Goto("done", Look(in) + 1)
    /\ UNCHANGED <<text, type, array, values, references, iterator>>

\* A client makes an iterator for a list of values, and asks it for more as
\* long as it has more.
Iterate(k) ==
    /\ pc = "done"
    /\ current' = lists[k].head
    /\ seen' = <<>>
    /\ pc' = "iterating"
    /\ UNCHANGED <<text, type, array, in, values, references, lists>>

HasNext == current # 0 /\ next[current] # 0

GetNext ==
    /\ pc = "iterating"
    /\ HasNext
    /\ current' = next[current]
    /\ seen' = Append(seen, current')
    /\ UNCHANGED <<text, type, array, in, pc, values, references, lists>>

Step ==
    \/ Begin \/ ParseDataList \/ ParseLiteral \/ ParseName \/ MakeReference
    \/ Close \/ Return
    \/ GetNext

Next == Step \/ \E k \in DOMAIN lists : Iterate(k)

\* The functions, and the loop around an iterator, run in their caller's thread.
Spec == Init /\ [][Next]_vars /\ WF_vars(Step)

-----------------------------------------------------------------------------
\* Types of the variables.
Pointer == 0 .. Len(text)

Done == pc \in {"done", "iterating"}

TypeOK ==
    /\ in \in 1 .. Len(text) + (IF array /\ Done THEN 2 ELSE 1)
    /\ pc \in {"begin", "list", "item", "reference", "closed", "returned", "done", "iterating"}
    /\ made \subseteq DOMAIN text /\ allNames \subseteq DOMAIN text
    /\ next \in [DOMAIN text -> Pointer]
    /\ {data, prev, numValues, numRefs, current} \subseteq Pointer
    /\ \A i \in DOMAIN names : names[i] \in allNames
    /\ \A k \in DOMAIN lists : lists[k].head \in Pointer /\ lists[k].num \in Pointer

\* The values of a chain in their order; a chain in which a value comes twice
\* has no end and is cut off.
Chain(head) ==
    LET upto[n \in 0 .. Len(text) + 1] ==
          [i \in Pointer |-> IF i = 0 \/ n = 0 THEN <<>> ELSE <<i>> \o upto[n - 1][next[i]]]
    IN  upto[Len(text) + 1][head]

\* Every value that was made is on the chain of exactly one list, and every chain
\* holds as many values as its list says, in the order of the text: deleting the
\* lists deletes each value once.
ValuesOwned ==
    /\ TypeOK
    /\ Done =>
        /\ made = UNION {Range(Chain(lists[k].head)) : k \in DOMAIN lists}
        /\ \A k \in DOMAIN lists :
             LET chain == Chain(lists[k].head) IN
             /\ Len(chain) = lists[k].num
             /\ \A i \in DOMAIN chain : \A j \in 1 .. i - 1 : chain[j] < chain[i]
        /\ \A k \in DOMAIN lists : \A l \in 1 .. k - 1 :
             Range(Chain(lists[l].head)) \cap Range(Chain(lists[k].head)) = {}

\* No blank is in front of a comma or between two names, and all is a name.
CommaLists ==
    \A i \in DOMAIN text :
      /\ text[i] \in Separator \cup {"name"}
      /\ text[i] = "name" => At(i + 1) \in {",", "}"}

\* Every name that was made belongs to a Reference that a list holds, when no
\* blank is in front of a comma.
NamesOwned ==
    Done /\ CommaLists =>
      allNames = UNION {Range(lists[k].refs) : k \in {l \in DOMAIN lists : lists[l].numRefs > 0}}

\* The lists the brackets of a text describe: the places of their braces
InnerLists ==
    {l \in (DOMAIN text) \X (DOMAIN text) :
        /\ l[1] < l[2] /\ text[l[1]] = "{" /\ text[l[2]] = "}"
        /\ \A i \in l[1] + 1 .. l[2] - 1 : text[i] \notin {"{", "}"}}

\* A text of an array list as parseDataArrayList wants it
WellFormedArray ==
    /\ array
    /\ Len(text) > 1 /\ text[1] = "{" /\ text[Len(text)] = "}"
    /\ \A i \in 2 .. Len(text) - 1 :
         /\ text[i] = "{" => text[i - 1] \in {"{", ",", " "} /\ \E l \in InnerLists : l[1] = i
         /\ text[i] = "}" => text[i + 1] \in {",", "}"} /\ \E l \in InnerLists : 1 < l[1] /\ l[2] = i
         /\ text[i] \in Literal => \E l \in InnerLists : 1 < l[1] /\ l[1] < i /\ i < l[2]

\* A well-formed array gives one entry for each inner list that holds a literal
\* of its type, with the values or names in it: no list is cut off, doubled or
\* mixed up with the list before it.
ListsMatch ==
    Done /\ WellFormedArray /\ (type = "ref" => CommaLists) =>
      LET wanted(l) == {i \in l[1] .. l[2] : IF type = "ref" THEN text[i] = "name"
                                             ELSE text[i] \in Makes(type)}
          held(k) == IF type = "ref" THEN Range(lists[k].refs)
                     ELSE Range(Chain(lists[k].head))
      IN  /\ {held(k) : k \in DOMAIN lists} = {wanted(l) : l \in InnerLists} \ {{}}
          /\ \A k \in DOMAIN lists : \A j \in 1 .. k - 1 :
               \A a \in held(j), b \in held(k) : a < b

\* The functions return, on every text, and an iterator comes to its end.
Terminates == <>[](pc \in {"done", "iterating"} /\ ~HasNext)

\* DataArrayList::size() of the k-th list, which counts those behind it
Size(k) == IF k < Len(lists) THEN Len(lists) - k
           ELSE IF lists[k].head # 0 THEN 1 ELSE 0
=============================================================================

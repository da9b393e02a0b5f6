----------------------------- MODULE DDLParser -----------------------------
(***************************************************************************)
(* An object of class OpenDDLParser (code/OpenDDLParser.cpp): the calls a  *)
(* client makes on it, and parse() step by step, one action for each       *)
(* function of the recursive descent.  The functions keep no local state   *)
(* across the recursion but the cursor, so the call stack is the number of *)
(* parseStructure activations.                                             *)
(*                                                                         *)
(* Nodes are numbered as they are created.  A number is not used again, so *)
(* a pointer kept too long is seen as a pointer to a freed node.           *)
(***************************************************************************)
EXTENDS DDLTokens, FiniteSets

CONSTANTS
    Buffers,    \* texts a client may hand over
    Reused,     \* bound: the texts of them one object may parse after another
    MaxParses,  \* bound: calls of parse(), of an object that is used again
    MaxNodes    \* bound: nodes created, large enough never to be reached

ASSUME BuffersAssumption == Buffers \subseteq Seq(Token) /\ Reused \subseteq Seq(Token)
ASSUME BoundsAssumption == MaxParses \in Nat /\ MaxNodes \in Nat

VARIABLES
    buffer,     \* m_buffer
    context,    \* m_context->m_root, 0 without a context
    stack,      \* m_stack
    created,    \* number of nodes created so far
    freed,      \* nodes destroyed with their context
    parent,     \* m_parent, 0 for nullptr
    children,   \* m_children
    content,    \* type, name, properties, value, dtArrayList of a node
    pc,         \* function that runs next, "idle" between calls
    in,         \* the cursor
    depth,      \* parseStructure activations whose loop is open
    pushed,     \* the last parseHeader pushed a node
    values,     \* parseDataList: values read so far
    arrays,     \* parseDataArrayList: sizes of the lists read so far
    inArray,    \* parseDataList was called by parseDataArrayList
    result,     \* of the last parse()
    parses,     \* number of parse() calls, for MaxParses
    headed      \* every structure this parse opened had a header that made a node

heap   == <<created, freed, parent, children, content>>
locals == <<values, arrays, inArray>>
vars   == <<buffer, context, stack, heap, pc, in, depth, pushed, locals,
            result, parses, headed>>

Node == 1 .. MaxNodes
Blank == [at |-> 0, name |-> 0, property |-> FALSE, values |-> 0, arrays |-> <<>>]
Char == At(buffer, in)
Elems(s) == {s[i] : i \in DOMAIN s}

\* top(): 0 for nullptr.  As in DDLNode, some definitions are preceded by a
\* mistaken variant.
Bottom == IF stack = <<>> THEN 0 ELSE stack[1]
Top == IF stack = <<>> THEN 0 ELSE stack[Len(stack)]
PopTwo == IF Len(stack) < 2 THEN <<>> ELSE SubSeq(stack, 1, Len(stack) - 2)
PopNode == IF stack = <<>> THEN <<>> ELSE SubSeq(stack, 1, Len(stack) - 1)

\* What delete m_context destroys: the root and, child by child, all below it.
\* Children are younger than their parents.
Subtree(r) ==
    LET below[n \in Node] ==
          n = r \/ \E m \in 1 .. n - 1 : below[m] /\ n \in Elems(children[m])
    IN  {n \in 1 .. created : below[n]}

Init ==
    /\ buffer = <<>> /\ context = 0 /\ stack = <<>>
    /\ created = 0 /\ freed = {}
    /\ parent = [n \in Node |-> 0]
    /\ children = [n \in Node |-> <<>>]
    /\ content = [n \in Node |-> Blank]
    /\ pc = "idle" /\ in = 1 /\ depth = 0 /\ pushed = FALSE
    /\ values = 0 /\ arrays = <<>> /\ inArray = FALSE
    /\ result = "none" /\ parses = 0 /\ headed = TRUE

\* What the constructor of node n does to the child list of m
AdoptTwice(m, p, n) == IF m = p THEN children[m] \o <<n, n>> ELSE children[m]
Adopt(m, p, n) == IF m = p THEN Append(children[m], n) ELSE children[m]

\* DDLNode::create
Create(p, c) ==
    LET n == created + 1 IN
    /\ created < MaxNodes
    /\ created' = n
    /\ parent' = [parent EXCEPT ![n] = p]
    /\ children' = [m \in Node |-> Adopt(m, p, n)]
    /\ content' = [content EXCEPT ![n] = c]
    /\ UNCHANGED freed

Goto(p, i) == pc' = p /\ in' = i

\* parse() returns, and every activation with it.
Return(r) ==
    /\ Goto("idle", 1)
    /\ result' = r
    /\ depth' = 0 /\ pushed' = FALSE
    /\ values' = 0 /\ arrays' = <<>> /\ inArray' = FALSE

\* A freed node was used, or the buffer was left behind with the cursor at i:
\* nothing is known about the rest of the execution.
Undefined(i) ==
    /\ Goto("undefined", i)
    /\ UNCHANGED <<buffer, context, stack, heap, depth, pushed, locals,
                   result, parses, headed>>

PastEnd == Len(buffer) + 2

-----------------------------------------------------------------------------
\* The calls of a client.

\* clear() and setBuffer(): the context goes, m_stack stays as it is.
SetBuffer(buf) ==
    /\ pc = "idle"
    /\ buffer' = buf
    /\ freed' = IF context = 0 THEN freed ELSE freed \cup Subtree(context)
    /\ context' = 0
    /\ result' = "none"
    /\ UNCHANGED <<stack, created, parent, children, content, pc, in, depth,
                   pushed, locals, parses, headed>>

Clear == SetBuffer(<<>>)

\* parse() up to its loop.  A context it finds is overwritten, not deleted.
Parse ==
    LET text == Normalized(buffer) IN
    /\ pc = "idle"
    /\ parses < MaxParses
    /\ parses' = IF buffer \in Reused THEN parses + 1 ELSE MaxParses
    /\ buffer' = text
    /\ IF buffer = <<>> \/ (text # <<>> /\ At(text, 1) \notin Alphanumeric)
       THEN /\ result' = "failed"
            /\ UNCHANGED <<context, stack, heap, pc, in, depth, pushed, locals, headed>>
       ELSE /\ Create(0, Blank)
            /\ context' = created'
            /\ stack' = Append(stack, created')
            /\ Goto("parse", 1)
            /\ result' = "none"
            /\ headed' = TRUE
            /\ UNCHANGED <<depth, pushed, locals>>

-----------------------------------------------------------------------------
\* The functions of the recursive descent.

\* The loop of parse()
ParseLoop ==
    /\ pc = "parse"
    /\ IF Char = "end" THEN Return("parsed")
       ELSE /\ Goto("header", in)
            /\ UNCHANGED <<result, depth, pushed, locals>>
    /\ UNCHANGED <<buffer, context, stack, heap, parses, headed>>

\* parseHeader where it makes no Text: at the end, and before a number
NoHeader ==
    /\ pc = "header"
    /\ Identifier(buffer, in).text = "null"
    /\ Goto("structure", in)
    /\ pushed' = FALSE
    /\ UNCHANGED <<buffer, context, stack, heap, depth, locals, result, parses, headed>>

\* parseHeader: type, optional name, optional properties.  The node is created
\* and pushed before the properties are read; an empty Text makes no node.  A value
\* that is not there takes the cursor past the end.
ParseHeader ==
    LET id    == Identifier(buffer, in)
        name  == Name(buffer, id.next)
        props == Properties(buffer, name.next)
        node  == [Blank EXCEPT !.at = in,
                               !.name = IF name.text = "word" THEN id.next + 1 ELSE 0,
                               !.property = props.ok /\ props.made]
    IN
    /\ pc = "header"
    /\ id.text # "null"
    /\ IF id.text = "word"
       THEN Create(Top, node) /\ stack' = Append(stack, created')
       ELSE UNCHANGED <<heap, stack>>
    /\ IF props.overread
       THEN Goto("undefined", props.next) /\ UNCHANGED <<depth, pushed, locals, result>>
       ELSE IF props.ok
       THEN /\ Goto("structure", props.next)
            /\ pushed' = (id.text = "word")
            /\ UNCHANGED <<depth, locals, result>>
       ELSE Return("failed")
    /\ id.text = "word" => Top \notin freed
    /\ UNCHANGED <<buffer, context, parses, headed>>

\* parseHeader on a parent that was freed
BadHeader ==
    /\ pc = "header"
    /\ Identifier(buffer, in).text = "word"
    /\ Top \in freed
    /\ Undefined(in)

\* Where a parseStructure that returns leaves its caller: at the loop test of
\* the enclosing structure, or in parse().
Back(d) == IF d = 0 THEN "parse" ELSE "loop"

ParseStructure ==
    /\ pc = "structure"
    /\ CASE Char = "end" ->
              /\ Goto(Back(depth), in)
              /\ UNCHANGED <<depth, pushed, locals, result, headed>>
         [] Char = "{" ->
              /\ Goto("body", in)
              /\ depth' = depth + 1
              /\ headed' = (headed /\ pushed)
              /\ UNCHANGED <<pushed, locals, result>>
         [] OTHER -> Return("failed") /\ UNCHANGED headed
    /\ UNCHANGED <<buffer, context, stack, heap, parses>>

\* parseStructureBody up to its data list or its child.  One character that
\* is no letter or digit is skipped, whatever it is.
BodyCursor == IF Char \in Alphanumeric THEN in ELSE in + 1

ParseStructureBody ==
    LET prim == PrimitiveType(buffer, BodyCursor)
        list == prim.length > 0 /\ At(buffer, prim.next) = "{"
    IN
    /\ pc = "body"
    /\ IF prim.length < 0 THEN Goto("header", prim.next)
       ELSE IF ~list THEN Goto("close", prim.next)
       ELSE Goto(IF prim.length = 1 THEN "data" ELSE "array", prim.next + 1)
    /\ inArray' = (list /\ prim.length > 1)
    /\ values' = 0
    /\ arrays' = <<>>
    /\ UNCHANGED <<buffer, context, stack, heap, depth, pushed, result, parses, headed>>

\* A type name that ends the buffer, and an array suffix that is open there: the
\* character behind the buffer is looked at, and may be the bracket.
BadBody ==
    /\ pc = "body"
    /\ \/ At(buffer, BodyCursor) = "prim" /\ At(buffer, BodyCursor + 1) = "end"
       \/ /\ At(buffer, BodyCursor) = "primcut"
          /\ PrimitiveType(buffer, BodyCursor).length < 0
    /\ Undefined(PastEnd)

\* getNextSeparator goes over the item whether it made a value or not.
AfterNumber == IF Char = "num" THEN in + 1 ELSE in
AfterItem == in + 1

\* parseDataList: one turn of its loop.  A word that is no number is passed over.
ParseDataItem ==
    /\ pc = "data"
    /\ Char \in {"num", "id", "prim", "$", "="}
    /\ values' = IF Char = "num" THEN values + 1 ELSE values
    /\ Goto("data", AfterItem)
    /\ UNCHANGED <<buffer, context, stack, heap, depth, pushed, arrays, inArray,
                   result, parses, headed>>

\* Where parseDataList leaves the cursor: behind the character that ended it.
AfterAnyList == in + 1
AfterList == IF Char \in {"end"} \cup Suffixed THEN in ELSE in + 1

EndOfList == Char \in {"end", "{", "(", ")"} \cup Suffixed \cup Closing

\* parseDataList ends, in parseStructureBody: the values go to the node on top.
SetNodeValues ==
    /\ pc = "data"
    /\ ~inArray
    /\ EndOfList
    /\ values > 0 => Top \notin freed
    /\ content' = IF values > 0 /\ Top # 0
                  THEN [content EXCEPT ![Top].values = values] ELSE content
    /\ Goto("close", AfterList)
    /\ UNCHANGED <<buffer, context, stack, created, freed, parent, children,
                   depth, pushed, locals, result, parses, headed>>

\* parseDataList ends, in parseDataArrayList: an empty list leaves no entry,
\* and only a comma directly behind the list asks for another one.
EndOfArrayItem ==
    /\ pc = "data"
    /\ inArray
    /\ EndOfList
    /\ arrays' = IF values > 0 THEN Append(arrays, values) ELSE arrays
    /\ values' = 0
    /\ Goto(IF Char = "}," THEN "array" ELSE "arrayEnd", AfterList)
    /\ UNCHANGED <<buffer, context, stack, heap, depth, pushed, inArray,
                   result, parses, headed>>

\* The head of parseDataArrayList's loop
ParseArrayItem ==
    /\ pc = "array"
    /\ IF Char = "{" THEN Goto("data", in + 1) ELSE Goto("arrayEnd", in)
    /\ UNCHANGED <<buffer, context, stack, heap, depth, pushed, locals,
                   result, parses, headed>>

\* parseDataArrayList skips one character, whatever it is, and returns: at the end
\* of the buffer too, which puts the cursor past it.
SetNodeDataArrayList ==
    /\ pc = "arrayEnd"
    /\ Len(arrays) > 0 => Top \notin freed
    /\ content' = IF Len(arrays) > 0 /\ Top # 0
                  THEN [content EXCEPT ![Top].arrays = arrays] ELSE content
    /\ Goto("close", IF Char \in {"id", "prim"} \cup Suffixed THEN in ELSE in + 1)
    /\ UNCHANGED <<buffer, context, stack, created, freed, parent, children,
                   depth, pushed, locals, result, parses, headed>>

\* Data for a freed node
BadData ==
    /\ \/ pc = "data" /\ ~inArray /\ EndOfList /\ values > 0 /\ Top \in freed
       \/ pc = "arrayEnd" /\ Len(arrays) > 0 /\ Top \in freed
    /\ Undefined(in)

\* parseStructureBody behind a primitive: only '}' may follow.
CloseDataUnchecked ==
    /\ pc = "close"
    /\ Goto("loop", in)
    /\ UNCHANGED <<buffer, context, stack, heap, depth, pushed, locals,
                   result, parses, headed>>
CloseData ==
    /\ pc = "close"
    /\ in # PastEnd
    /\ IF Char \in Closing
       THEN Goto("loop", in) /\ UNCHANGED <<depth, pushed, locals, result>>
       ELSE Return("failed")
    /\ UNCHANGED <<buffer, context, stack, heap, parses, headed>>

\* The same past the end: no test for the end holds any more.
BadClose ==
    /\ pc = "close"
    /\ in = PastEnd
    /\ Undefined(in)

\* The loop test of parseStructure; when the loop ends a node is popped.
StructureLoop ==
    /\ pc = "loop"
    /\ IF Char \in Closing \cup {"end"}
       THEN /\ Goto(Back(depth - 1), IF Char = "end" THEN in ELSE in + 1)
            /\ depth' = depth - 1
            /\ stack' = PopNode
       ELSE Goto("body", in) /\ UNCHANGED <<depth, stack>>
    /\ UNCHANGED <<buffer, context, heap, pushed, locals, result, parses, headed>>

Step ==
    \/ ParseLoop \/ NoHeader \/ ParseHeader \/ BadHeader
    \/ ParseStructure \/ ParseStructureBody \/ BadBody
    \/ ParseDataItem \/ SetNodeValues
    \/ ParseArrayItem \/ EndOfArrayItem \/ SetNodeDataArrayList \/ BadData
    \/ CloseData \/ BadClose \/ StructureLoop

\* A text that replaces one not parsed yet is left out: it has the effect of
\* handing over the second alone.
Call ==
    \/ /\ parses < MaxParses
       /\ buffer = <<>> \/ result # "none"
       /\ \E buf \in IF parses = 0 THEN Buffers ELSE Reused : SetBuffer(buf)
    \/ Clear
    \/ Parse

Next == Call \/ Step

\* parse() runs in its caller's thread: it is not left in the middle.
Spec == Init /\ [][Next]_vars /\ WF_vars(Step)
-----------------------------------------------------------------------------
\* Types of the variables, and where the cursor can stand: it goes no further past
\* the end of the buffer than one place, and no function of the descent but the one
\* that looks for the brace behind an array list is ever entered there.
TypeOK ==
    /\ buffer \in Seq(Token)
    /\ context \in 0 .. created
    /\ stack \in Seq(1 .. created)
    /\ created \in 0 .. MaxNodes
    /\ freed \subseteq 1 .. created
    /\ parent \in [Node -> 0 .. created]
    /\ children \in [Node -> Seq(1 .. created)]
    /\ pc \in {"idle", "parse", "header", "structure", "body", "data", "array",
              "arrayEnd", "close", "loop", "undefined"}
    /\ in \in 1 .. PastEnd
    /\ in = PastEnd => pc \in {"close", "undefined"}
    /\ depth \in Nat
    /\ pushed \in BOOLEAN /\ inArray \in BOOLEAN /\ headed \in BOOLEAN
    /\ values \in Nat /\ arrays \in Seq(Nat \ {0})
    /\ result \in {"none", "parsed", "failed"}

Parsing == pc \notin {"idle", "undefined"}

\* While every structure has had a header, the parser works on a node of the
\* context it is building, whatever clear() and earlier parses, failed ones
\* included, have left on m_stack: top() is never null and never destroyed.
TopLive ==
    Parsing /\ headed =>
        Top # 0 /\ Top \notin freed /\ context <= Top

\* Nodes this parse owns on m_stack: one for parse(), one for each structure that
\* is open, and one for a header whose structure has not been looked at yet.
Owed == 1 + depth + IF pc = "structure" /\ pushed THEN 1 ELSE 0

\* Why TopLive holds: the entries owed lie on top of the stack and are no older
\* than the context; all that was destroyed is.
StackInv ==
    /\ Parsing => context > 0 /\ freed \subseteq 1 .. context - 1
    /\ pc \in {"idle", "parse"} => depth = 0
    /\ pc \in {"body", "data", "array", "arrayEnd", "close", "loop"} => depth > 0
    /\ Parsing /\ headed =>
         \E b \in 0 .. Len(stack) :
           /\ Len(stack) - b >= Owed
           /\ \A i \in b + 1 .. Len(stack) : stack[i] >= context

\* Parent pointers and child lists describe the same links, each node is in one
\* list and once: the recursive delete of a context meets no node twice.
Forest ==
    /\ \A n \in Node : parent[n] # 0 => n \in Elems(children[parent[n]])
    /\ \A m \in Node : \A i \in DOMAIN children[m] :
         /\ parent[children[m][i]] = m
         /\ children[m][i] > m
         /\ \A j \in 1 .. i - 1 : children[m][j] < children[m][i]

\* A value or an array list is given to a node once, while every structure has
\* a header: the setters do not delete what they replace.
DataSetOnce ==
    [][Parsing /\ headed =>
         \A n \in Node : /\ content[n].values > 0 => content'[n].values = content[n].values
                         /\ content[n].arrays # <<>> => content'[n].arrays = content[n].arrays]_vars

\* Nodes that are neither destroyed nor destroyed with the context
Lost == {n \in 1 .. created : n \notin freed /\ n \notin Subtree(context)}

\* Nodes get out of reach in two ways only.  When a structure without a header has
\* popped a node it did not push, the node of a later header can miss the tree, and
\* is then lost by itself; and parse() loses the context of an earlier parse that
\* no clear() or setBuffer() has taken away, to its last node and with no other.
\* So clear() and setBuffer() destroy the whole tree of the context, and never a
\* node outside it.
LostOnlyKnown ==
    [][Lost' # Lost =>
         \/ /\ pc = "header" /\ ~headed /\ Top \notin Subtree(context)
            /\ Lost' = Lost \cup {created'}
         \/ /\ pc = "idle" /\ context # 0
            /\ Lost' = Lost \cup Subtree(context)]_<<context, heap>>

\* Every parse() comes to an end, on every text.
Terminates == Parsing ~> ~Parsing

\* The tree a client reads: a node is known by the place of its type.  An
\* orphan's parent is -1.
ReadTree ==
    LET mine == context + 1 .. created
        node(p) == CHOOSE n \in mine : content[n].at = p
    IN  [p \in {content[n].at : n \in mine} |->
           LET n == node(p) IN
           [parent   |-> IF parent[n] = 0 THEN -1 ELSE content[parent[n]].at,
            name     |-> content[n].name,
            property |-> content[n].property,
            values   |-> content[n].values,
            arrays   |-> content[n].arrays]]
=============================================================================

-------------------------- MODULE DDLParserProofs --------------------------
(* Theorems about DDLParser, for every set of texts and every bound. *)
EXTENDS DDLParser, Induction, SequenceTheorems, TLAPS

Control == {"idle", "parse", "header", "structure", "body", "data", "array",
            "arrayEnd", "close", "loop", "undefined"}

\* The part of TypeOK that m_stack and the node heap depend on.
StackTyped ==
    /\ context \in 0 .. created
    /\ stack \in Seq(1 .. created)
    /\ created \in 0 .. MaxNodes
    /\ freed \subseteq 1 .. created
    /\ pc \in Control
    /\ depth \in Nat
    /\ pushed \in BOOLEAN
    /\ headed \in BOOLEAN

\* The children part of the heap: links only between nodes created so far.
HeapTyped ==
    /\ parent \in [Node -> 0 .. created]
    /\ children \in [Node -> Seq(1 .. created)]
    /\ \A n \in Node : n > created => parent[n] = 0 /\ children[n] = <<>>

IInv == StackTyped /\ StackInv

\* A stack that grows by one node is a stack of nodes again; its older entries
\* are where they were.
LEMMA PushNode ==
    ASSUME NEW n \in Nat, NEW s \in Seq(1 .. n)
    PROVE  /\ Append(s, n + 1) \in Seq(1 .. n + 1)
           /\ Len(Append(s, n + 1)) = Len(s) + 1
           /\ Append(s, n + 1)[Len(s) + 1] = n + 1
           /\ \A i \in 1 .. Len(s) : Append(s, n + 1)[i] = s[i]
  <1>1. s \in Seq(1 .. n + 1)
    BY 1 .. n \subseteq 1 .. n + 1
  <1>2. n + 1 \in 1 .. n + 1
    OBVIOUS
  <1> QED
    BY <1>1, <1>2, AppendProperties

\* popNode removes the last entry, or does nothing.
LEMMA PopNodeProperties ==
    ASSUME NEW S, stack \in Seq(S)
    PROVE  /\ PopNode \in Seq(S)
           /\ Len(PopNode) \in Nat
           /\ stack # <<>> => Len(PopNode) = Len(stack) - 1
           /\ \A i \in 1 .. Len(PopNode) : PopNode[i] = stack[i]
  <1>1. CASE stack = <<>>
    BY <1>1, EmptySeq DEF PopNode
  <1>2. CASE stack # <<>>
    <2>1. Len(stack) \in Nat /\ Len(stack) > 0
      BY <1>2, LenProperties, EmptySeq
    <2>2. PopNode = SubSeq(stack, 1, Len(stack) - 1)
      BY <1>2 DEF PopNode
    <2>3. \A i \in 1 .. Len(stack) - 1 : stack[i] \in S
      BY <2>1, ElementOfSeq
    <2>4. /\ PopNode \in Seq(S)
          /\ Len(PopNode) = IF 1 <= Len(stack) - 1 THEN Len(stack) - 1 - 1 + 1 ELSE 0
          /\ \A i \in 1 .. Len(stack) - 1 - 1 + 1 : PopNode[i] = stack[1 + i - 1]
      BY <2>1, <2>2, <2>3, SubSeqProperties
    <2>5. Len(PopNode) = Len(stack) - 1
      <3> DEFINE n == Len(stack)
      <3>1. n \in Nat /\ n > 0 /\ Len(PopNode) = IF 1 <= n - 1 THEN n - 1 - 1 + 1 ELSE 0
        BY <2>1, <2>4
      <3> HIDE DEF n
      <3>2. Len(PopNode) = n - 1
        BY <3>1
      <3> QED
        BY <3>2 DEF n
    <2>6. \A i \in 1 .. Len(PopNode) : PopNode[i] = stack[i]
      <3> TAKE i \in 1 .. Len(PopNode)
      <3>1. i \in 1 .. Len(stack) - 1 - 1 + 1 /\ 1 + i - 1 = i
        BY <2>1, <2>5
      <3> QED
        BY <2>4, <3>1
    <2> QED
      BY <2>1, <2>4, <2>5, <2>6
  <1> QED
    BY <1>1, <1>2

\* The initial state has nothing on the stack and nothing running.
LEMMA InitIInv == Init => IInv
  <1> SUFFICES ASSUME Init PROVE IInv
    OBVIOUS
  <1>1. stack \in Seq(1 .. created)
    BY EmptySeq DEF Init
  <1>2. StackTyped
    <2>1. context \in 0 .. created /\ created \in 0 .. MaxNodes /\ depth \in Nat
      BY BoundsAssumption DEF Init
    <2>2. freed \subseteq 1 .. created /\ pc \in Control
      BY DEF Init, Control
    <2>3. pushed \in BOOLEAN /\ headed \in BOOLEAN
      BY Zenon DEF Init
    <2> QED
      BY <1>1, <2>1, <2>2, <2>3 DEF StackTyped
  <1>3. StackInv
    BY DEF Init, StackInv, Parsing
  <1> QED
    BY <1>2, <1>3 DEF IInv

\* How many entries of m_stack this parse owes.
LEMMA OwedCases ==
    /\ pc = "structure" /\ pushed => Owed = 1 + depth + 1
    /\ ~(pc = "structure" /\ pushed) => Owed = 1 + depth + 0
  BY Zenon DEF Owed

\* The same for the state after a step.
LEMMA OwedCasesNext ==
    /\ pc' = "structure" /\ pushed' => Owed' = 1 + depth' + 1
    /\ ~(pc' = "structure" /\ pushed') => Owed' = 1 + depth' + 0
  BY Zenon DEF Owed

\* Inside parse(), a step that touches neither the stack nor the heap keeps the
\* invariant when it does not enter "structure".
LEMMA KeepStack ==
    ASSUME IInv, Parsing,
           UNCHANGED <<context, stack, created, freed>>,
           pc' \in Control \ {"structure"},
           depth' \in Nat, pushed' \in BOOLEAN, headed' \in BOOLEAN,
           headed' => headed,
           pc' \in {"idle", "parse"} => depth' = 0,
           \/ pc' \in {"idle", "undefined"}
           \/ depth' = depth /\ pc' \in {"parse", "header"}
           \/ depth' = depth /\ depth > 0
           \/ depth' = depth + 1 /\ (headed' => pushed /\ pc = "structure")
    PROVE  IInv'
  <1>1. StackTyped'
    BY DEF IInv, StackTyped
  <1>2. (Parsing => context > 0 /\ freed \subseteq 1 .. context - 1)'
    BY DEF IInv, StackInv, Parsing
  <1>5. (pc \in {"idle", "parse"} => depth = 0)'
    OBVIOUS
  <1>3. (pc \in {"body", "data", "array", "arrayEnd", "close", "loop"} => depth > 0)'
    BY DEF IInv, StackTyped, Control
  <1>4. ASSUME Parsing', headed'
        PROVE  (\E b \in 0 .. Len(stack) : /\ Len(stack) - b >= Owed
                                           /\ \A i \in b + 1 .. Len(stack) : stack[i] >= context)'
    <2>1. PICK b \in 0 .. Len(stack) : /\ Len(stack) - b >= Owed
                                       /\ \A i \in b + 1 .. Len(stack) : stack[i] >= context
      BY <1>4 DEF IInv, StackInv
    <2>2. Owed' <= Owed /\ Owed \in Nat /\ Owed' \in Nat
      <3>1. pc' \notin {"idle", "undefined", "structure"}
        BY <1>4 DEF Parsing
      <3>2. Owed' = 1 + depth' + 0
        BY <3>1, OwedCasesNext
      <3>3. depth \in Nat /\ depth' \in Nat
        BY DEF IInv, StackTyped
      <3>4. CASE depth' = depth
        BY <3>2, <3>3, <3>4, OwedCases
      <3>5. CASE depth' = depth + 1 /\ (headed' => pushed /\ pc = "structure")
        BY <1>4, <3>2, <3>3, <3>5, OwedCases
      <3> QED
        BY <3>1, <3>4, <3>5
    <2>3. Len(stack) \in Nat
      BY LenProperties DEF IInv, StackTyped
    <2>4. Len(stack) - b >= Owed'
      BY <2>1, <2>2, <2>3
    <2> QED
      BY <2>1, <2>4
  <1> QED
    BY <1>1, <1>2, <1>3, <1>4, <1>5 DEF IInv, StackInv

\* A header that makes a node pushes it: the entry is owed until its structure
\* is left.
LEMMA PushStep ==
    ASSUME IInv, pc = "header",
           created < MaxNodes, created' = created + 1,
           stack' = Append(stack, created'),
           UNCHANGED <<context, freed, headed>>,
           pushed' \in BOOLEAN,
           \/ pc' \in {"structure", "undefined"} /\ depth' = depth
           \/ pc' = "idle" /\ depth' = 0
    PROVE  IInv'
  <1>1. /\ created \in Nat /\ MaxNodes \in Nat
        /\ stack \in Seq(1 .. created) /\ Len(stack) \in Nat
        /\ context \in Nat /\ depth \in Nat
    BY BoundsAssumption, LenProperties DEF IInv, StackTyped
  <1>2. /\ stack' \in Seq(1 .. created')
        /\ Len(stack') = Len(stack) + 1
        /\ stack'[Len(stack) + 1] = created + 1
        /\ \A i \in 1 .. Len(stack) : stack'[i] = stack[i]
    BY <1>1, PushNode
  <1>3. context > 0 /\ freed \subseteq 1 .. context - 1 /\ context <= created
    BY <1>1 DEF IInv, StackInv, StackTyped, Parsing
  <1>4. StackTyped'
    <2>1. context' \in 0 .. created' /\ created' \in 0 .. MaxNodes /\ depth' \in Nat
      BY <1>1, <1>3
    <2>2. freed' \subseteq 1 .. created' /\ pc' \in Control
      BY <1>1, <1>3 DEF Control
    <2>3. pushed' \in BOOLEAN /\ headed' \in BOOLEAN
      BY DEF IInv, StackTyped
    <2> QED
      BY <1>2, <2>1, <2>2, <2>3 DEF StackTyped
  <1>5. ASSUME Parsing', headed'
        PROVE  (\E b \in 0 .. Len(stack) : /\ Len(stack) - b >= Owed
                                           /\ \A i \in b + 1 .. Len(stack) : stack[i] >= context)'
    <2>1. PICK b \in 0 .. Len(stack) : /\ Len(stack) - b >= Owed
                                       /\ \A i \in b + 1 .. Len(stack) : stack[i] >= context
      BY <1>5 DEF IInv, StackInv, Parsing
    <2>2. Owed = 1 + depth + 0
      BY OwedCases
    <2>3. depth' = depth /\ Owed' \in {1 + depth + 1, 1 + depth + 0}
      BY <1>5, OwedCasesNext DEF Parsing
    <2>4. b \in 0 .. Len(stack') /\ Len(stack') - b >= Owed'
      BY <1>1, <1>2, <2>1, <2>2, <2>3
    <2>5. \A i \in b + 1 .. Len(stack') : stack'[i] >= context'
      <3> TAKE i \in b + 1 .. Len(stack')
      <3>1. CASE i = Len(stack) + 1
        BY <1>1, <1>2, <1>3, <3>1
      <3>2. CASE i # Len(stack) + 1
        <4>1. i \in b + 1 .. Len(stack) /\ i \in 1 .. Len(stack)
          BY <1>1, <1>2, <3>2
        <4> QED
          BY <1>2, <2>1, <4>1
      <3> QED
        BY <3>1, <3>2
    <2> QED
      BY <2>4, <2>5
  <1>6. (Parsing => context > 0 /\ freed \subseteq 1 .. context - 1)'
    BY <1>3
  <1>7. (/\ pc \in {"idle", "parse"} => depth = 0
         /\ pc \in {"body", "data", "array", "arrayEnd", "close", "loop"} => depth > 0)'
    OBVIOUS
  <1> QED
    BY <1>4, <1>5, <1>6, <1>7 DEF IInv, StackInv

\* parse() makes a new root the youngest node, and owes one entry for it.
LEMMA ParseStep ==
    ASSUME IInv, Parse
    PROVE  IInv'
  <1>1. /\ created \in Nat /\ MaxNodes \in Nat /\ pc = "idle" /\ depth = 0
        /\ stack \in Seq(1 .. created) /\ Len(stack) \in Nat
    BY BoundsAssumption, LenProperties DEF IInv, StackTyped, StackInv, Parse
  <1>2. CASE UNCHANGED <<context, stack, heap, pc, in, depth, pushed, locals, headed>>
    BY <1>1, <1>2 DEF IInv, StackTyped, StackInv, Parsing, Owed, heap
  <1>3. CASE /\ Create(0, Blank)
             /\ context' = created'
             /\ stack' = Append(stack, created')
             /\ Goto("parse", 1)
             /\ headed' = TRUE
             /\ UNCHANGED <<depth, pushed, locals>>
    <2>1. created < MaxNodes /\ created' = created + 1 /\ freed' = freed /\ pc' = "parse"
      BY <1>3 DEF Create, Goto
    <2>2. /\ stack' \in Seq(1 .. created')
          /\ Len(stack') = Len(stack) + 1
          /\ stack'[Len(stack) + 1] = created + 1
      BY <1>1, <1>3, <2>1, PushNode
    <2>3. StackTyped'
      <3>1. context' \in 0 .. created' /\ created' \in 0 .. MaxNodes /\ depth' \in Nat
        BY <1>1, <1>3, <2>1
      <3>2. freed' \subseteq 1 .. created' /\ pc' \in Control
        BY <1>1, <2>1 DEF IInv, StackTyped, Control
      <3>3. pushed' \in BOOLEAN /\ headed' \in BOOLEAN
        BY <1>3, Zenon DEF IInv, StackTyped
      <3> QED
        BY <2>2, <3>1, <3>2, <3>3 DEF StackTyped
    <2>4. Owed' = 1 + depth' + 0
      BY <2>1, OwedCasesNext
    <2>5. Len(stack) \in 0 .. Len(stack') /\ Len(stack') - Len(stack) >= Owed'
      BY <1>1, <1>3, <2>2, <2>4
    <2>6. \A i \in Len(stack) + 1 .. Len(stack') : stack'[i] >= context'
      BY <1>1, <1>3, <2>1, <2>2
    <2>7. context' > 0 /\ freed' \subseteq 1 .. context' - 1 /\ depth' = 0
      BY <1>1, <1>3, <2>1 DEF IInv, StackTyped
    <2>8. StackInv'
      <3>1. (\E b \in 0 .. Len(stack) : /\ Len(stack) - b >= Owed
                                        /\ \A i \in b + 1 .. Len(stack) : stack[i] >= context)'
        BY <2>5, <2>6
      <3> QED
        BY <2>1, <2>7, <3>1 DEF StackInv
    <2> QED
      BY <2>3, <2>8 DEF IInv
  <1> QED
    BY <1>2, <1>3, Zenon DEF Parse

\* Between two calls nothing is owed; clear() destroys only what exists.
LEMMA SetBufferStep ==
    ASSUME IInv, NEW buf, SetBuffer(buf)
    PROVE  IInv'
  <1>1. /\ context' = 0 /\ pc' = "idle" /\ depth' = 0
        /\ UNCHANGED <<stack, created, pushed, headed>>
    BY DEF SetBuffer, IInv, StackInv
  <1>2. freed' \subseteq 1 .. created'
    BY DEF SetBuffer, Subtree, IInv, StackTyped
  <1>3. StackTyped'
    BY <1>1, <1>2 DEF IInv, StackTyped, Control
  <1> QED
    BY <1>1, <1>3 DEF IInv, StackInv, Parsing

\* When a structure is left, the entry owed for it goes.
LEMMA StructureLoopStep ==
    ASSUME IInv, StructureLoop
    PROVE  IInv'
  <1>1. /\ depth \in Nat /\ depth > 0 /\ context \in Nat
        /\ stack \in Seq(1 .. created) /\ Len(stack) \in Nat /\ Parsing
        /\ UNCHANGED <<context, created, freed, pushed, headed>>
    BY LenProperties DEF IInv, StackTyped, StackInv, StructureLoop, Parsing, heap
  <1>2. CASE Goto("body", in) /\ UNCHANGED <<depth, stack>>
    <2>1. pc' = "body"
      BY <1>2 DEF Goto
    <2>2. pc' \in Control \ {"structure"} /\ pc' \notin {"idle", "parse"}
      BY <2>1 DEF Control
    <2>3. pushed' \in BOOLEAN /\ headed' \in BOOLEAN /\ (headed' => headed)
      BY <1>1, Zenon DEF IInv, StackTyped
    <2> QED
      BY <1>1, <1>2, <2>2, <2>3, KeepStack
  <1>3. CASE pc' = Back(depth - 1) /\ depth' = depth - 1 /\ stack' = PopNode
    <2>1. /\ pc' \in {"parse", "loop"} /\ depth' \in Nat
          /\ pc' = "parse" => depth' = 0
          /\ pc' = "loop" => depth' > 0
      BY <1>1, <1>3 DEF Back
    <2>2. /\ stack' \in Seq(1 .. created)
          /\ Len(stack') \in Nat
          /\ stack # <<>> => Len(stack') = Len(stack) - 1
          /\ \A i \in 1 .. Len(stack') : stack'[i] = stack[i]
      BY <1>1, <1>3, PopNodeProperties
    <2>3. StackTyped'
      BY <1>1, <2>1, <2>2 DEF IInv, StackTyped, Control
    <2>4. ASSUME headed'
          PROVE  (\E b \in 0 .. Len(stack) : /\ Len(stack) - b >= Owed
                                             /\ \A i \in b + 1 .. Len(stack) : stack[i] >= context)'
      <3>1. PICK b \in 0 .. Len(stack) : /\ Len(stack) - b >= Owed
                                         /\ \A i \in b + 1 .. Len(stack) : stack[i] >= context
        BY <1>1, <2>4 DEF IInv, StackInv
      <3>2. Owed = 1 + depth + 0 /\ Owed' = 1 + depth' + 0
        BY <2>1, OwedCases, OwedCasesNext DEF StructureLoop
      <3>3. stack # <<>>
        BY <1>1, <3>1, <3>2, EmptySeq
      <3>4. b \in 0 .. Len(stack') /\ Len(stack') - b >= Owed'
        BY <1>1, <1>3, <2>2, <3>1, <3>2, <3>3
      <3>5. \A i \in b + 1 .. Len(stack') : stack'[i] >= context'
        <4> TAKE i \in b + 1 .. Len(stack')
        <4>1. i \in 1 .. Len(stack') /\ i \in b + 1 .. Len(stack)
          BY <1>1, <2>2, <3>1, <3>3
        <4> QED
          BY <1>1, <2>2, <3>1, <4>1
      <3> QED
        BY <3>4, <3>5
    <2>5. (Parsing => context > 0 /\ freed \subseteq 1 .. context - 1)'
      BY <1>1 DEF IInv, StackInv
    <2> QED
      BY <2>1, <2>3, <2>4, <2>5 DEF IInv, StackInv
  <1> QED
    BY <1>2, <1>3, Zenon DEF StructureLoop, Goto

\* Steps of the descent that leave the stack and the heap as they are.
LEMMA QuietStep ==
    ASSUME IInv,
           \/ ParseLoop \/ NoHeader \/ ParseStructureBody \/ ParseDataItem
           \/ SetNodeValues \/ ParseArrayItem \/ EndOfArrayItem
           \/ SetNodeDataArrayList \/ CloseData
           \/ BadHeader \/ BadBody \/ BadData \/ BadClose
    PROVE  IInv'
  <1> USE DEF heap
  <1>1. depth \in Nat /\ pushed \in BOOLEAN /\ headed \in BOOLEAN
    BY DEF IInv, StackTyped
  <1>2. CASE BadHeader \/ BadBody \/ BadData \/ BadClose
    <2>1. /\ Parsing /\ pc' = "undefined"
          /\ UNCHANGED <<context, stack, created, freed, depth, pushed, headed>>
      BY <1>2, Zenon DEF BadHeader, BadBody, BadData, BadClose, Undefined, Goto, Parsing
    <2> QED
      BY <1>1, <2>1, KeepStack DEF Control
  <1>3. CASE NoHeader
    <2>1. /\ Parsing /\ pc = "header" /\ pc' = "structure" /\ pushed' = FALSE
          /\ UNCHANGED <<context, stack, created, freed, depth, headed>>
      BY <1>3 DEF NoHeader, Goto, Parsing
    <2>2. Owed' = 1 + depth' + 0 /\ Owed = 1 + depth + 0
      BY <2>1, OwedCases, OwedCasesNext
    <2>3. StackTyped'
      BY <2>1 DEF IInv, StackTyped, Control
    <2>4. StackInv'
      BY <2>1, <2>2 DEF IInv, StackInv, Parsing
    <2> QED
      BY <2>3, <2>4 DEF IInv
  <1>4. CASE ParseLoop
    <2>1. /\ Parsing /\ pc = "parse" /\ depth = 0
          /\ UNCHANGED <<context, stack, created, freed, headed>>
      BY <1>4 DEF ParseLoop, Parsing, IInv, StackInv
    <2>2. CASE Return("parsed")
      BY <1>1, <2>1, <2>2, KeepStack DEF Return, Goto, Control
    <2>3. CASE Goto("header", in) /\ UNCHANGED <<result, depth, pushed, locals>>
      BY <1>1, <2>1, <2>3, KeepStack DEF Goto, Control
    <2> QED
      BY <1>4, <2>2, <2>3 DEF ParseLoop
  <1>5. CASE ParseStructureBody
    <2>1. /\ Parsing /\ depth > 0 /\ pc' \in {"header", "close", "data", "array"}
          /\ UNCHANGED <<context, stack, created, freed, depth, pushed, headed>>
      BY <1>5, <1>1 DEF ParseStructureBody, Goto, Parsing, IInv, StackInv
    <2> QED
      BY <1>1, <2>1, KeepStack DEF Control
  <1>6. CASE ParseDataItem \/ SetNodeValues \/ ParseArrayItem \/ EndOfArrayItem \/ SetNodeDataArrayList
    <2>1. /\ Parsing /\ depth > 0 /\ pc' \in {"close", "data", "array", "arrayEnd"}
          /\ UNCHANGED <<context, stack, created, freed, depth, pushed, headed>>
      BY <1>6, <1>1
      DEF ParseDataItem, SetNodeValues, ParseArrayItem, EndOfArrayItem,
          SetNodeDataArrayList, Goto, Parsing, IInv, StackInv
    <2> QED
      BY <1>1, <2>1, KeepStack DEF Control
  <1>7. CASE CloseData
    <2>1. /\ Parsing /\ depth > 0
          /\ UNCHANGED <<context, stack, created, freed, headed>>
      BY <1>7 DEF CloseData, Parsing, IInv, StackInv
    <2>2. CASE Return("failed")
      BY <1>1, <2>1, <2>2, KeepStack DEF Return, Goto, Control
    <2>3. CASE Goto("loop", in) /\ UNCHANGED <<depth, pushed, locals, result>>
      BY <1>1, <2>1, <2>3, KeepStack DEF Goto, Control
    <2> QED
      BY <1>7, <2>2, <2>3 DEF CloseData
  <1> QED
    BY <1>2, <1>3, <1>4, <1>5, <1>6, <1>7

\* A header makes a node and pushes it, or makes none.
LEMMA ParseHeaderStep ==
    ASSUME IInv, ParseHeader
    PROVE  IInv'
  <1> DEFINE id == Identifier(buffer, in)
             name == Name(buffer, id.next)
             props == Properties(buffer, name.next)
             node == [Blank EXCEPT !.at = in,
                                   !.name = IF name.text = "word" THEN id.next + 1 ELSE 0,
                                   !.property = props.ok /\ props.made]
  <1>1. /\ pc = "header" /\ Parsing /\ depth \in Nat
        /\ headed \in BOOLEAN /\ pushed \in BOOLEAN
        /\ UNCHANGED <<context, headed>>
    BY DEF ParseHeader, Parsing, IInv, StackTyped
  <1>2. /\ IF id.text = "word"
           THEN Create(Top, node) /\ stack' = Append(stack, created')
           ELSE UNCHANGED <<heap, stack>>
        /\ IF props.overread
           THEN Goto("undefined", props.next) /\ UNCHANGED <<depth, pushed, locals, result>>
           ELSE IF props.ok
           THEN /\ Goto("structure", props.next)
                /\ pushed' = (id.text = "word")
                /\ UNCHANGED <<depth, locals, result>>
           ELSE Return("failed")
    BY Zenon DEF ParseHeader
  <1> HIDE DEF id, name, props, node
  <1>3. /\ pushed' \in BOOLEAN
        /\ \/ pc' = "structure" /\ depth' = depth /\ (id.text # "word" => pushed' = FALSE)
           \/ pc' = "undefined" /\ depth' = depth
           \/ pc' = "idle" /\ depth' = 0
    BY <1>1, <1>2, Zenon DEF Goto, Return
  <1>4. CASE id.text = "word"
    <2>1. /\ created < MaxNodes /\ created' = created + 1 /\ freed' = freed
          /\ stack' = Append(stack, created')
      BY <1>2, <1>4 DEF Create
    <2> QED
      BY <1>1, <1>3, <2>1, PushStep
  <1>5. CASE id.text # "word"
    <2>1. UNCHANGED <<context, stack, created, freed, headed>>
      BY <1>1, <1>2, <1>5 DEF heap
    <2>2. CASE \/ pc' = "undefined" /\ depth' = depth
               \/ pc' = "idle" /\ depth' = 0
      BY <1>1, <1>3, <2>1, <2>2, KeepStack DEF Control
    <2>3. CASE pc' = "structure" /\ depth' = depth /\ pushed' = FALSE
      <3>1. Owed' = 1 + depth' + 0 /\ Owed = 1 + depth + 0
        BY <1>1, <2>3, OwedCases, OwedCasesNext
      <3>2. StackTyped'
        BY <2>1, <2>3 DEF IInv, StackTyped, Control
      <3>3. StackInv'
        BY <1>1, <2>1, <2>3, <3>1 DEF IInv, StackInv, Parsing
      <3> QED
        BY <3>2, <3>3 DEF IInv
    <2>4. \/ pc' = "structure" /\ depth' = depth /\ pushed' = FALSE
          \/ pc' = "undefined" /\ depth' = depth
          \/ pc' = "idle" /\ depth' = 0
      BY <1>3, <1>5, Zenon
    <2> QED
      BY <2>2, <2>3, <2>4
  <1> QED
    BY <1>4, <1>5

\* A structure that opens owes the entry its header pushed.
LEMMA ParseStructureStep ==
    ASSUME IInv, ParseStructure
    PROVE  IInv'
  <1>1. /\ pc = "structure" /\ Parsing
        /\ UNCHANGED <<context, stack, created, freed>>
        /\ depth \in Nat /\ pushed \in BOOLEAN /\ headed \in BOOLEAN
    BY DEF ParseStructure, Parsing, IInv, StackTyped, heap
  <1>2. CASE Goto(Back(depth), in) /\ UNCHANGED <<depth, pushed, locals, result, headed>>
    <2>1. pc' \in {"parse", "loop"} /\ (pc' = "parse" => depth = 0) /\ (pc' = "loop" => depth > 0)
      BY <1>1, <1>2 DEF Back, Goto
    <2> QED
      BY <1>1, <1>2, <2>1, KeepStack DEF Control
  <1>3. CASE /\ Goto("body", in)
             /\ depth' = depth + 1
             /\ headed' = (headed /\ pushed)
             /\ UNCHANGED <<pushed, locals, result>>
    <2>1. headed' \in BOOLEAN /\ (headed' => headed) /\ (headed' => pushed)
      BY <1>3, Zenon
    <2>2. pc' = "body" /\ pushed' = pushed /\ depth' = depth + 1
      BY <1>3 DEF Goto
    <2> QED
      BY <1>1, <2>1, <2>2, KeepStack DEF Control
  <1>4. CASE Return("failed") /\ UNCHANGED headed
    BY <1>1, <1>4, KeepStack DEF Return, Goto, Control
  <1> QED
    BY <1>2, <1>3, <1>4 DEF ParseStructure

\* The invariant is inductive.
THEOREM IInvInductive == IInv /\ [Next]_vars => IInv'
  <1> SUFFICES ASSUME IInv, [Next]_vars PROVE IInv'
    OBVIOUS
  <1>1. CASE Call
    BY <1>1, ParseStep, SetBufferStep DEF Call, Clear
  <1>2. CASE Step
    BY <1>2, QuietStep, ParseHeaderStep, ParseStructureStep, StructureLoopStep DEF Step
  <1>3. CASE UNCHANGED vars
    BY <1>3 DEF vars, heap, IInv, StackTyped, StackInv, Parsing, Owed
  <1> QED
    BY <1>1, <1>2, <1>3 DEF Next

\* What is owed lies on top of the stack, so top() is a living node.
LEMMA IInvTopLive == IInv => TopLive
  <1> SUFFICES ASSUME IInv, Parsing, headed
               PROVE  Top # 0 /\ Top \notin freed /\ context <= Top
    BY DEF TopLive
  <1>1. PICK b \in 0 .. Len(stack) : /\ Len(stack) - b >= Owed
                                     /\ \A i \in b + 1 .. Len(stack) : stack[i] >= context
    BY DEF IInv, StackInv
  <1>2. /\ context \in Nat /\ context > 0 /\ freed \subseteq 1 .. context - 1
        /\ depth \in Nat /\ stack \in Seq(1 .. created) /\ Len(stack) \in Nat /\ created \in Nat
    BY LenProperties DEF IInv, StackInv, StackTyped
  <1>3. Owed >= 1
    BY <1>2, OwedCases
  <1>4. Len(stack) \in b + 1 .. Len(stack) /\ Len(stack) \in 1 .. Len(stack)
    BY <1>1, <1>2, <1>3, OwedCases
  <1>5. stack # <<>> /\ Top = stack[Len(stack)]
    BY <1>2, <1>4, EmptySeq DEF Top
  <1>6. Top >= context /\ Top \in 1 .. created
    BY <1>1, <1>2, <1>4, <1>5, ElementOfSeq
  <1> QED
    BY <1>2, <1>6

\* The parser, on every set of texts and used any number of times, works on a
\* living node of its own context as long as every structure has a header
\* (top(), createDDLNode, setNodeValues of OpenDDLParser.cpp).
THEOREM ParserTopLive == Spec => []TopLive
  <1>1. Init => IInv
    BY InitIInv
  <1>2. IInv /\ [Next]_vars => IInv'
    BY IInvInductive
  <1>3. IInv => TopLive
    BY IInvTopLive
  <1> QED
    BY <1>1, <1>2, <1>3, PTL DEF Spec

-----------------------------------------------------------------------------
(* The node heap. *)

\* Between an older parent and a new node, create adds the one link, and no
\* other child list or parent pointer changes.
LEMMA CreateForest ==
    ASSUME StackTyped, HeapTyped, Forest,
           NEW p \in 0 .. created, NEW c, Create(p, c)
    PROVE  HeapTyped' /\ Forest'
  <1> DEFINE n == created + 1
  <1>1. /\ created \in Nat /\ MaxNodes \in Nat /\ n \in Node /\ p \in Nat /\ p < n
        /\ created' = n
        /\ parent' = [parent EXCEPT ![n] = p]
        /\ children' = [m \in Node |-> Adopt(m, p, n)]
    BY BoundsAssumption DEF StackTyped, Create, Node
  <1>2. /\ parent \in [Node -> 0 .. created]
        /\ children \in [Node -> Seq(1 .. created)]
        /\ \A k \in Node : k > created => parent[k] = 0 /\ children[k] = <<>>
    BY DEF HeapTyped
  <1> HIDE DEF n
  <1>3. created \in Nat /\ n = created + 1
    BY <1>1 DEF n
  <1>4. \A m \in Node : /\ m # p => children'[m] = children[m]
                        /\ m = p => children'[m] = Append(children[m], n)
    BY <1>1 DEF Adopt
  <1>5. \A k \in Node : /\ k # n => parent'[k] = parent[k]
                        /\ k = n => parent'[k] = p
    BY <1>1, <1>2
  <1>6. \A m \in Node : /\ children'[m] \in Seq(1 .. n)
                        /\ Len(children[m]) \in Nat
                        /\ DOMAIN children[m] = 1 .. Len(children[m])
                        /\ DOMAIN children'[m] = 1 .. Len(children'[m])
                        /\ m # p => Len(children'[m]) = Len(children[m])
                        /\ m = p => Len(children'[m]) = Len(children[m]) + 1
                        /\ m = p => children'[m][Len(children[m]) + 1] = n
                        /\ \A i \in 1 .. Len(children[m]) : children'[m][i] = children[m][i]
    <2> TAKE m \in Node
    <2>1. children[m] \in Seq(1 .. created)
      BY <1>2
    <2>2. /\ Len(children[m]) \in Nat
          /\ DOMAIN children[m] = 1 .. Len(children[m])
      BY <2>1, LenProperties
    <2>3. CASE m # p
      <3>1. children[m] \in Seq(1 .. n)
        BY <1>3, <2>1, SeqMonotonic, 1 .. created \subseteq 1 .. n
      <3> QED
        BY <1>4, <2>2, <2>3, <3>1
    <2>4. CASE m = p
      <3>1. /\ children'[m] \in Seq(1 .. n)
            /\ Len(children'[m]) = Len(children[m]) + 1
            /\ children'[m][Len(children[m]) + 1] = n
            /\ \A i \in 1 .. Len(children[m]) : children'[m][i] = children[m][i]
        <4>1. children'[m] = Append(children[m], created + 1)
          BY <1>3, <1>4, <2>4
        <4> QED
          BY <1>3, <2>1, <4>1, PushNode
      <3>2. DOMAIN children'[m] = 1 .. Len(children'[m])
        BY <3>1, LenProperties
      <3> QED
        BY <2>2, <2>4, <3>1, <3>2
    <2> QED
      BY <2>3, <2>4
  <1>7. HeapTyped'
    <2>1. parent' \in [Node -> 0 .. n]
      <3>1. \A k \in 0 .. created : k \in 0 .. n
        BY <1>3
      <3>2. p \in 0 .. n
        BY <3>1
      <3> QED
        BY <1>1, <1>2, <3>1, <3>2
    <2>2. children' \in [Node -> Seq(1 .. n)]
      BY <1>1, <1>6
    <2>3. \A k \in Node : k > n => parent'[k] = 0 /\ children'[k] = <<>>
      <3> TAKE k \in Node
      <3> HAVE k > n
      <3>1. k > created /\ k # n /\ k # p
        BY <1>1, <1>3 DEF Node
      <3> QED
        BY <1>2, <1>4, <1>5, <3>1
    <2> QED
      BY <1>1, <2>1, <2>2, <2>3 DEF HeapTyped
  <1>8. ASSUME NEW k \in Node, parent'[k] # 0
        PROVE  k \in Elems(children'[parent'[k]])
    <2>1. CASE k = n
      <3>1. parent'[k] = p /\ p \in Node
        BY <1>1, <1>3, <1>5, <1>8, <2>1 DEF Node
      <3>2. Len(children[p]) + 1 \in DOMAIN children'[p] /\ children'[p][Len(children[p]) + 1] = n
        BY <1>6, <3>1
      <3> QED
        BY <2>1, <3>1, <3>2 DEF Elems
    <2>2. CASE k # n
      <3>1. parent'[k] = parent[k] /\ parent[k] \in 1 .. created /\ parent[k] \in Node
        <4>1. parent'[k] = parent[k] /\ parent[k] \in 0 .. created /\ parent[k] # 0
          BY <1>2, <1>5, <1>8, <2>2
        <4>2. \A q \in 0 .. created : q # 0 => q \in 1 .. created /\ q \in Node
          BY <1>1, <1>3 DEF Node
        <4> QED
          BY <4>1, <4>2
      <3>2. k \in Elems(children[parent[k]])
        BY <1>8, <3>1 DEF Forest
      <3>3. PICK i \in DOMAIN children[parent[k]] : children[parent[k]][i] = k
        BY <3>2 DEF Elems
      <3>4. PICK q \in Node : q = parent[k]
        BY <3>1
      <3>5. /\ DOMAIN children[q] = 1 .. Len(children[q])
            /\ DOMAIN children'[q] = 1 .. Len(children'[q])
            /\ Len(children[q]) \in Nat
            /\ Len(children'[q]) \in {Len(children[q]), Len(children[q]) + 1}
            /\ \A j \in 1 .. Len(children[q]) : children'[q][j] = children[q][j]
        BY <1>6, <3>4
      <3>6. i \in 1 .. Len(children[q])
        BY <3>3, <3>4, <3>5
      <3>7. i \in DOMAIN children'[q]
        BY <3>5, <3>6
      <3>8. children'[q][i] = k
        BY <3>3, <3>4, <3>5, <3>6
      <3> QED
        BY <3>1, <3>4, <3>7, <3>8 DEF Elems
    <2> QED
      BY <2>1, <2>2
  <1>9. ASSUME NEW m \in Node, NEW i \in DOMAIN children'[m]
        PROVE  /\ parent'[children'[m][i]] = m
               /\ children'[m][i] > m
               /\ \A j \in 1 .. i - 1 : children'[m][j] < children'[m][i]
    <2>1. i \in 1 .. Len(children'[m])
      BY <1>6, <1>9
    <2>2. CASE i \in 1 .. Len(children[m])
      <3>1. /\ children'[m][i] = children[m][i]
            /\ children[m][i] \in 1 .. created
            /\ \A j \in 1 .. i - 1 : children'[m][j] = children[m][j]
        <4>1. children[m] \in Seq(1 .. created) /\ Len(children[m]) \in Nat
          BY <1>2, <1>6
        <4>2. children[m][i] \in 1 .. created
          BY <2>2, <4>1, ElementOfSeq
        <4>3. \A j \in 1 .. i - 1 : j \in 1 .. Len(children[m])
          BY <2>2, <4>1
        <4> QED
          BY <1>6, <2>2, <4>2, <4>3
      <3>2. /\ parent[children[m][i]] = m
            /\ children[m][i] > m
            /\ \A j \in 1 .. i - 1 : children[m][j] < children[m][i]
        BY <1>6, <2>2 DEF Forest
      <3>3. children[m][i] \in Node /\ children[m][i] # n
        BY <1>1, <1>3, <3>1 DEF Node
      <3> QED
        BY <1>5, <3>1, <3>2, <3>3
    <2>3. CASE i = Len(children[m]) + 1 /\ m = p
      <3>1. children'[m][i] = n /\ parent'[n] = m /\ n > m
        BY <1>1, <1>5, <1>6, <2>3
      <3>2. \A j \in 1 .. i - 1 : children'[m][j] < n
        <4> TAKE j \in 1 .. i - 1
        <4>1. j \in 1 .. Len(children[m])
          BY <1>6, <2>3
        <4>2. children'[m][j] = children[m][j] /\ children[m][j] \in 1 .. created
          BY <1>2, <1>6, <4>1, ElementOfSeq
        <4> QED
          BY <1>3, <4>2
      <3> QED
        BY <3>1, <3>2
    <2> QED
      BY <1>6, <2>1, <2>2, <2>3
  <1>10. Forest'
    BY <1>8, <1>9 DEF Forest
  <1> QED
    BY <1>7, <1>10

\* top() is null or a node created before.
LEMMA TopTyped == StackTyped => Top \in 0 .. created
  <1> SUFFICES ASSUME StackTyped PROVE Top \in 0 .. created
    OBVIOUS
  <1>1. stack \in Seq(1 .. created) /\ Len(stack) \in Nat /\ created \in Nat
    BY LenProperties DEF StackTyped
  <1>2. CASE stack = <<>>
    BY <1>1, <1>2 DEF Top
  <1>3. CASE stack # <<>>
    <2>1. Len(stack) \in 1 .. Len(stack)
      BY <1>1, <1>3, EmptySeq
    <2> QED
      BY <1>1, <1>3, <2>1, ElementOfSeq DEF Top
  <1> QED
    BY <1>2, <1>3

\* Only create changes links.
LEMMA ForestStep == StackTyped /\ HeapTyped /\ Forest /\ [Next]_vars => HeapTyped' /\ Forest'
  <1> SUFFICES ASSUME StackTyped, HeapTyped, Forest, [Next]_vars
               PROVE  HeapTyped' /\ Forest'
    OBVIOUS
  <1>1. CASE UNCHANGED <<created, parent, children>>
    BY <1>1 DEF HeapTyped, Forest
  <1>2. CASE Parse
    <2>1. \/ UNCHANGED heap
          \/ Create(0, Blank)
      BY <1>2, Zenon DEF Parse
    <2>2. 0 \in 0 .. created
      BY DEF StackTyped
    <2> QED
      BY <1>1, <2>1, <2>2, CreateForest DEF heap
  <1>3. CASE ParseHeader
    <2>1. UNCHANGED heap \/ \E c : Create(Top, c)
      BY <1>3, Zenon DEF ParseHeader
    <2> QED
      BY <1>1, <2>1, TopTyped, CreateForest DEF heap
  <1>4. CASE UNCHANGED vars
    BY <1>1, <1>4 DEF vars, heap
  <1>5. ASSUME Next, ~Parse, ~ParseHeader
        PROVE  UNCHANGED <<created, parent, children>>
    BY <1>5 DEF Next, Call, Step, Clear, SetBuffer, ParseLoop, NoHeader, BadHeader,
       ParseStructure, ParseStructureBody, BadBody, ParseDataItem, SetNodeValues,
       ParseArrayItem, EndOfArrayItem, SetNodeDataArrayList, BadData, CloseData, BadClose,
       StructureLoop, Undefined, heap
  <1> QED
    BY <1>1, <1>2, <1>3, <1>4, <1>5

\* In the initial state there are no links.
LEMMA InitForest == Init => HeapTyped /\ Forest
  <1> SUFFICES ASSUME Init PROVE HeapTyped /\ Forest
    OBVIOUS
  <1>1. /\ created = 0
        /\ parent = [n \in Node |-> 0]
        /\ children = [n \in Node |-> <<>>]
    BY DEF Init
  <1>2. <<>> \in Seq(1 .. created)
    BY EmptySeq
  <1>3. \A m \in Node : DOMAIN children[m] = {}
    BY <1>1
  <1> QED
    BY <1>1, <1>2, <1>3 DEF HeapTyped, Forest

\* The nodes form a forest on every set of texts: a node is in the child list of
\* its parent, once, and in no other, so that the recursive delete of a context
\* meets each node once (DDLNode::create and ~DDLNode).
THEOREM ParserForest == Spec => []Forest
  <1>1. Init => IInv /\ HeapTyped /\ Forest
    BY InitIInv, InitForest
  <1>2. IInv /\ HeapTyped /\ Forest /\ [Next]_vars => (IInv /\ HeapTyped /\ Forest)'
    BY IInvInductive, ForestStep DEF IInv
  <1> QED
    BY <1>1, <1>2, PTL DEF Spec

\* On every set of texts, the entries of m_stack that the parse under way answers
\* for lie on top of it and are no older than its context.
THEOREM ParserStackInv == Spec => []StackInv
  <1>1. IInv => StackInv
    BY DEF IInv
  <1> QED
    BY <1>1, InitIInv, IInvInductive, PTL DEF Spec

-----------------------------------------------------------------------------
(* What is given to a node is given once.                                    *)

Empty(n) == content[n].values = 0 /\ content[n].arrays = <<>>

\* The node on top has had its data: its structure is about to be closed.
Given == pc = "close" \/ (pc = "loop" /\ Char \in Closing)

ContentTyped ==
    /\ DOMAIN content = Node
    /\ \A n \in Node : {"values", "arrays"} \subseteq DOMAIN content[n]
    /\ \A n \in Node : n > created => Empty(n)

\* The stack rises, and of the nodes of this parse on it only the one on top can
\* have data, when nothing but a closing brace follows.
GivenInv ==
    /\ \A i, j \in DOMAIN stack : i < j => stack[i] < stack[j]
    /\ Parsing /\ headed =>
         \A i \in DOMAIN stack : stack[i] >= context /\ (i = Len(stack) => ~Given)
                                   => Empty(stack[i])

DInv == ContentTyped /\ GivenInv

\* A node made and pushed is empty, and the newest of all.
LEMMA PushEmpty ==
    ASSUME IInv, DInv, NEW p, NEW c, Create(p, c), stack' = Append(stack, created'),
           {"values", "arrays"} \subseteq DOMAIN c, c.values = 0, c.arrays = <<>>
    PROVE  /\ ContentTyped'
           /\ \A i, j \in DOMAIN stack' : i < j => stack'[i] < stack'[j]
           /\ \A n \in Node : n # created + 1 => content'[n] = content[n]
           /\ Empty(created + 1)
           /\ content'[created + 1].values = 0 /\ content'[created + 1].arrays = <<>>
           /\ DOMAIN stack = 1 .. Len(stack) /\ DOMAIN stack' = 1 .. Len(stack) + 1
           /\ Len(stack') = Len(stack) + 1 /\ Len(stack) \in Nat
           /\ stack'[Len(stack) + 1] = created + 1
           /\ \A i \in 1 .. Len(stack) : stack'[i] = stack[i] /\ stack[i] \in Node
           /\ created + 1 \in Node
<1> DEFINE k == Len(stack)
           n == created + 1
<1>1. /\ stack \in Seq(1 .. created) /\ created \in Nat /\ MaxNodes \in Nat
      /\ created < MaxNodes /\ created' = n /\ content' = [content EXCEPT ![n] = c]
  BY BoundsAssumption DEF IInv, StackTyped, Create
<1>2. n \in Node /\ DOMAIN content = Node
  BY <1>1 DEF Node, DInv, ContentTyped
<1>3. /\ DOMAIN content' = Node
      /\ content'[n] = c
      /\ \A m \in Node : m # n => content'[m] = content[m]
  BY <1>1, <1>2
<1>4. Empty(n) /\ content'[n].values = 0 /\ content'[n].arrays = <<>>
  <2>1. Empty(n)
    BY <1>1, <1>2 DEF DInv, ContentTyped
  <2>2. content'[n].values = 0 /\ content'[n].arrays = <<>>
    BY <1>3
  <2> QED
    BY <2>1, <2>2
<1>5. ContentTyped'
  <2>1. \A m \in Node : {"values", "arrays"} \subseteq DOMAIN content'[m]
    BY <1>3 DEF DInv, ContentTyped
  <2>2. ASSUME NEW m \in Node, m > created' PROVE Empty(m)'
    <3>1. m # n /\ m > created
      BY <2>2, <1>1 DEF Node
    <3>2. content'[m] = content[m] /\ Empty(m)
      BY <3>1, <1>3 DEF DInv, ContentTyped
    <3> QED
      BY <3>2 DEF Empty
  <2> QED
    BY <2>1, <2>2, <1>3 DEF ContentTyped
<1>6. /\ k \in Nat /\ DOMAIN stack = 1 .. k
      /\ Len(stack') = k + 1 /\ stack'[k + 1] = n /\ DOMAIN stack' = 1 .. k + 1
      /\ \A i \in 1 .. k : stack'[i] = stack[i] /\ stack[i] \in 1 .. created
  <2>1. stack' \in Seq(1 .. n)
    BY <1>1, PushNode
  <2>2. Len(stack') = k + 1 /\ stack'[k + 1] = n /\ \A i \in 1 .. k : stack'[i] = stack[i]
    BY <1>1, PushNode
  <2>3. k \in Nat /\ DOMAIN stack = 1 .. k /\ DOMAIN stack' = 1 .. Len(stack')
    BY <1>1, <2>1, LenProperties
  <2>4. \A i \in 1 .. k : stack[i] \in 1 .. created
    BY <1>1, ElementOfSeq
  <2> QED
    BY <2>2, <2>3, <2>4
<1> HIDE DEF k, n
<1>7. ASSUME NEW i \in DOMAIN stack', NEW j \in DOMAIN stack', i < j
      PROVE  stack'[i] < stack'[j]
  <2>1. i \in 1 .. k
    BY <1>7, <1>6
  <2>2. CASE j = k + 1
    BY <2>1, <2>2, <1>1, <1>6 DEF n
  <2>3. CASE j \in 1 .. k
    BY <2>1, <2>3, <1>6, <1>7 DEF DInv, GivenInv
  <2> QED
    BY <2>2, <2>3, <1>6
<1>8. \A i \in 1 .. k : stack[i] \in Node
  BY <1>1, <1>6 DEF Node
<1> QED
  BY <1>2, <1>3, <1>4, <1>5, <1>6, <1>7, <1>8 DEF n, k

\* Steps that leave stack and content as they are, and give nothing more
LEMMA KeepGiven ==
    ASSUME DInv, UNCHANGED <<stack, content, created, context>>,
           Parsing' /\ headed' => Parsing /\ headed /\ (Given => Given')
    PROVE  DInv'
<1>1. ContentTyped'
  BY DEF DInv, ContentTyped, Empty
<1>2. GivenInv'
  <2>1. ASSUME Parsing', headed', NEW i \in DOMAIN stack,
               stack[i] >= context, i = Len(stack) => ~Given'
        PROVE  Empty(stack[i])'
    <3>1. Empty(stack[i])
      BY <2>1 DEF DInv, GivenInv
    <3> QED
      BY <3>1 DEF Empty
  <2> QED
    BY <2>1 DEF DInv, GivenInv
<1> QED
  BY <1>1, <1>2 DEF DInv


\* What the node on top is given: a value or an array list, when it has neither.
LEMMA GiveTop ==
    ASSUME IInv, DInv, Parsing, ~Given, pc' = "close",
           UNCHANGED <<stack, created, context, headed>>,
           \/ content' = content
           \/ \E v : content' = [content EXCEPT ![Top].values = v]
           \/ \E v : content' = [content EXCEPT ![Top].arrays = v],
           Top = 0 => content' = content
    PROVE  /\ DInv'
           /\ headed => \A n \in Node :
                /\ content[n].values > 0 => content'[n].values = content[n].values
                /\ content[n].arrays # <<>> => content'[n].arrays = content[n].arrays
<1>1. /\ stack \in Seq(1 .. created) /\ Len(stack) \in Nat /\ DOMAIN stack = 1 .. Len(stack)
      /\ created \in Nat /\ 1 .. created \subseteq Node
      /\ \A i \in DOMAIN stack : stack[i] \in 1 .. created
  BY LenProperties, ElementOfSeq, BoundsAssumption DEF IInv, StackTyped, Node
<1>2. CASE content' = content
  BY <1>2, KeepGiven DEF Given, Parsing
<1>3. CASE content' # content
  <2>1. /\ stack # <<>> /\ Top = stack[Len(stack)] /\ Len(stack) \in DOMAIN stack
        /\ Top \in 1 .. created /\ Top \in Node
    BY <1>1, <1>3, EmptySeq DEF Top
  <2>2. \A n \in Node : n # Top => content'[n] = content[n]
    BY <2>1 DEF DInv, ContentTyped
  <2>3. DOMAIN content' = Node /\ \A n \in Node : DOMAIN content'[n] = DOMAIN content[n]
    BY <2>1, <1>3 DEF DInv, ContentTyped
  <2>4. ContentTyped'
    <3>1. ASSUME NEW n \in Node, n > created PROVE Empty(n)'
      <4>1. n # Top
        BY <3>1, <2>1, <1>1
      <4> QED
        BY <4>1, <3>1, <2>2 DEF DInv, ContentTyped, Empty
    <3> QED
      BY <3>1, <2>3 DEF DInv, ContentTyped
  <2>5. GivenInv'
    <3>1. ASSUME headed, NEW i \in DOMAIN stack, stack[i] >= context, i # Len(stack)
          PROVE  content'[stack[i]].values = 0 /\ content'[stack[i]].arrays = <<>>
      <4>1. stack[i] < Top /\ stack[i] \in Node /\ stack[i] \in Int
        BY <3>1, <2>1, <1>1 DEF DInv, GivenInv
      <4>2. stack[i] # Top
        BY <4>1, <2>1, <1>1
      <4>3. Empty(stack[i])
        BY <3>1 DEF DInv, GivenInv
      <4> QED
        BY <4>1, <4>2, <4>3, <2>2 DEF Empty
    <3>2. Given'
      BY DEF Given
    <3> QED
      BY <3>1, <3>2 DEF DInv, GivenInv, Empty
  <2>6. ASSUME headed PROVE Empty(Top)
    <3>1. Top >= context
      BY <2>6, IInvTopLive DEF TopLive
    <3> QED
      BY <3>1, <2>1, <2>6 DEF DInv, GivenInv
  <2>7. ASSUME headed, NEW n \in Node
        PROVE  /\ content[n].values > 0 => content'[n].values = content[n].values
               /\ content[n].arrays # <<>> => content'[n].arrays = content[n].arrays
    <3>1. CASE n = Top
      BY <3>1, <2>6, <2>7 DEF Empty
    <3>2. CASE n # Top
      BY <3>2, <2>2
    <3> QED
      BY <3>1, <3>2
  <2> QED
    BY <2>4, <2>5, <2>7 DEF DInv
<1> QED
  BY <1>2, <1>3

\* One step: the invariant is kept, and nothing that was given is replaced.
GivenOnce ==
    Parsing /\ headed =>
        \A n \in Node : /\ content[n].values > 0 => content'[n].values = content[n].values
                        /\ content[n].arrays # <<>> => content'[n].arrays = content[n].arrays

LEMMA SameContent == content' = content => GivenOnce
BY DEF GivenOnce

LEMMA PushGiven ==
    ASSUME IInv, DInv, NEW p, NEW c, Create(p, c), stack' = Append(stack, created'),
           {"values", "arrays"} \subseteq DOMAIN c, c.values = 0, c.arrays = <<>>,
           (pc = "header" /\ UNCHANGED <<context, headed>>) \/ (~Parsing /\ context' = created')
    PROVE  DInv' /\ GivenOnce
<1> DEFINE k == Len(stack)
           n == created + 1
<1>1. /\ ContentTyped'
      /\ \A i, j \in DOMAIN stack' : i < j => stack'[i] < stack'[j]
      /\ \A m \in Node : m # n => content'[m] = content[m]
      /\ Empty(n)
      /\ content'[n].values = 0 /\ content'[n].arrays = <<>>
      /\ DOMAIN stack = 1 .. k /\ DOMAIN stack' = 1 .. k + 1
      /\ Len(stack') = k + 1 /\ k \in Nat
      /\ stack'[k + 1] = n
      /\ \A i \in 1 .. k : stack'[i] = stack[i] /\ stack[i] \in Node
      /\ n \in Node
  BY PushEmpty
<1>0. created' = n
  BY DEF Create
<1> HIDE DEF k, n
<1>2. ASSUME NEW i \in DOMAIN stack', Parsing', headed', stack'[i] >= context'
      PROVE  content'[stack'[i]].values = 0 /\ content'[stack'[i]].arrays = <<>>
  <2>1. CASE i = k + 1
    BY <2>1, <1>1
  <2>2. CASE i \in 1 .. k
    <3>1. stack'[i] < n /\ stack'[i] = stack[i]
      BY <2>2, <1>1
    <3>2. stack[i] # n
      BY <3>1, <1>1 DEF Node
    <3>3. CASE ~Parsing /\ context' = created'
      BY <3>1, <3>3, <1>0, <1>1, <1>2 DEF Node
    <3>4. CASE pc = "header" /\ UNCHANGED <<context, headed>>
      <4>1. Empty(stack[i])
        BY <2>2, <3>1, <3>4, <1>1, <1>2 DEF DInv, GivenInv, Given, Parsing
      <4> QED
        BY <4>1, <3>1, <3>2, <2>2, <1>1 DEF Empty
    <3> QED
      BY <3>3, <3>4
  <2> QED
    BY <2>1, <2>2, <1>1
<1>3. DInv'
  BY <1>1, <1>2 DEF DInv, GivenInv, Empty
<1>4. GivenOnce
  <2>1. ASSUME NEW m \in Node
        PROVE  /\ content[m].values > 0 => content'[m].values = content[m].values
               /\ content[m].arrays # <<>> => content'[m].arrays = content[m].arrays
    <3>1. CASE m = n
      BY <3>1, <1>1 DEF Empty
    <3>2. CASE m # n
      BY <3>2, <1>1
    <3> QED
      BY <3>1, <3>2
  <2> QED
    BY <2>1 DEF GivenOnce
<1> QED
  BY <1>3, <1>4


\* A structure is left: the node on top goes, and with it the one that was given.
LEMMA LoopGiven ==
    ASSUME IInv, DInv, StructureLoop
    PROVE  DInv'
<1>1. /\ Parsing /\ UNCHANGED <<buffer, context, created, content, headed>>
      /\ pc = "loop"
  BY DEF StructureLoop, Parsing, heap
<1>2. /\ stack \in Seq(1 .. created) /\ Len(stack) \in Nat /\ DOMAIN stack = 1 .. Len(stack)
  BY LenProperties DEF IInv, StackTyped
<1>3. CASE Char \in Closing \cup {"end"}
  <2>1. stack' = PopNode
    BY <1>3 DEF StructureLoop
  <2>2. /\ stack' \in Seq(1 .. created)
        /\ Len(stack') \in Nat
        /\ stack # <<>> => Len(stack') = Len(stack) - 1
        /\ \A i \in 1 .. Len(stack') : stack'[i] = stack[i]
    BY <1>2, <2>1, PopNodeProperties
  <2>3. /\ DOMAIN stack' = 1 .. Len(stack') /\ stack = <<>> => Len(stack') = 0
    BY <2>1, <2>2, LenProperties DEF PopNode
  <2>4. ASSUME NEW i \in DOMAIN stack'
        PROVE  i \in DOMAIN stack /\ i # Len(stack) /\ stack'[i] = stack[i]
    <3>1. i \in 1 .. Len(stack') /\ stack # <<>>
      BY <2>3
    <3>2. i \in 1 .. Len(stack) /\ i # Len(stack)
      BY <3>1, <1>2, <2>2
    <3> QED
      BY <3>1, <3>2, <1>2, <2>2
  <2>5. ContentTyped'
    BY <1>1 DEF DInv, ContentTyped, Empty
  <2>6. \A i, j \in DOMAIN stack' : i < j => stack'[i] < stack'[j]
    BY <2>4 DEF DInv, GivenInv
  <2>7. ASSUME NEW i \in DOMAIN stack', headed', stack'[i] >= context'
        PROVE  Empty(stack'[i]) /\ Empty(stack[i])
    BY <2>4, <2>7, <1>1 DEF DInv, GivenInv
  <2> QED
    BY <2>5, <2>6, <2>7, <1>1 DEF DInv, GivenInv, Empty
<1>4. CASE Char \notin Closing \cup {"end"}
  <2>1. UNCHANGED stack
    BY <1>4 DEF StructureLoop
  <2>2. ~Given
    BY <1>1, <1>4 DEF Given
  <2> QED
    BY <1>1, <2>1, <2>2, KeepGiven
<1> QED
  BY <1>3, <1>4

\* Steps of the descent that neither push, pop nor give
LEMMA QuietGiven ==
    ASSUME IInv, DInv,
           \/ ParseLoop \/ NoHeader \/ BadHeader \/ ParseStructure \/ ParseStructureBody
           \/ BadBody \/ ParseDataItem \/ ParseArrayItem \/ EndOfArrayItem \/ BadData
           \/ CloseData \/ BadClose
    PROVE  DInv' /\ content' = content
<1>1. UNCHANGED <<stack, content, created, context>>
  BY DEF ParseLoop, NoHeader, BadHeader, ParseStructure, ParseStructureBody, BadBody,
     ParseDataItem, ParseArrayItem, EndOfArrayItem, BadData, CloseData, BadClose, Undefined, heap
<1>2. Parsing
  BY DEF ParseLoop, NoHeader, BadHeader, ParseStructure, ParseStructureBody, BadBody,
     ParseDataItem, ParseArrayItem, EndOfArrayItem, BadData, CloseData, BadClose, Parsing
<1>3. headed' => headed
  <2>1. headed' = headed \/ headed' = (headed /\ pushed)
    <3>1. CASE ParseStructure
      BY <3>1, Zenon DEF ParseStructure
    <3>2. CASE ~ParseStructure
      BY <3>2 DEF ParseLoop, NoHeader, BadHeader, ParseStructureBody, BadBody,
         ParseDataItem, ParseArrayItem, EndOfArrayItem, BadData, CloseData, BadClose, Undefined
    <3> QED
      BY <3>1, <3>2
  <2> QED
    BY <2>1, Zenon
<1>4. Parsing' /\ Given => Given'
  <2>1. CASE CloseData
    <3>1. pc = "close"
      BY <2>1 DEF CloseData
    <3>2. CASE Char \in Closing
      <4>1. pc' = "loop" /\ in' = in /\ buffer' = buffer
        BY <2>1, <3>2 DEF CloseData, Goto
      <4> QED
        BY <4>1, <3>2 DEF Given, Char
    <3>3. CASE Char \notin Closing
      BY <2>1, <3>3 DEF CloseData, Return, Goto, Parsing
    <3> QED
      BY <3>2, <3>3
  <2>2. CASE ~CloseData
    BY <2>2 DEF ParseLoop, NoHeader, BadHeader, ParseStructure, ParseStructureBody, BadBody,
       ParseDataItem, ParseArrayItem, EndOfArrayItem, BadData, BadClose, Undefined, Goto, Given, Parsing
  <2> QED
    BY <2>1, <2>2
<1> QED
  BY <1>1, <1>2, <1>3, <1>4, KeepGiven

LEMMA GivenNext ==
    ASSUME IInv, DInv, [Next]_vars
    PROVE  DInv' /\ GivenOnce
<1>1. CASE SetNodeValues
  <2>1. /\ Parsing /\ ~Given /\ pc' = "close"
        /\ UNCHANGED <<stack, created, context, headed>>
        /\ content' = IF values > 0 /\ Top # 0
                      THEN [content EXCEPT ![Top].values = values] ELSE content
    BY <1>1 DEF SetNodeValues, Goto, Parsing, Given
  <2> QED
    BY <2>1, GiveTop DEF GivenOnce
<1>2. CASE SetNodeDataArrayList
  <2>1. /\ Parsing /\ ~Given /\ pc' = "close"
        /\ UNCHANGED <<stack, created, context, headed>>
        /\ content' = IF Len(arrays) > 0 /\ Top # 0
                      THEN [content EXCEPT ![Top].arrays = arrays] ELSE content
    BY <1>2 DEF SetNodeDataArrayList, Goto, Parsing, Given
  <2> QED
    BY <2>1, GiveTop DEF GivenOnce
<1>3. CASE StructureLoop
  BY <1>3, LoopGiven, SameContent DEF StructureLoop, heap
<1>4. CASE ParseHeader
  <2> DEFINE id    == Identifier(buffer, in)
             name  == Name(buffer, id.next)
             props == Properties(buffer, name.next)
             node  == [Blank EXCEPT !.at = in,
                                    !.name = IF name.text = "word" THEN id.next + 1 ELSE 0,
                                    !.property = props.ok /\ props.made]
  <2>1. /\ pc = "header" /\ UNCHANGED <<buffer, context, headed>>
        /\ IF id.text = "word"
           THEN Create(Top, node) /\ stack' = Append(stack, created')
           ELSE UNCHANGED <<heap, stack>>
    BY <1>4 DEF ParseHeader
  <2>2. {"values", "arrays"} \subseteq DOMAIN node /\ node.values = 0 /\ node.arrays = <<>>
    BY DEF Blank
  <2> HIDE DEF id, node
  <2>3. CASE id.text = "word"
    BY <2>1, <2>2, <2>3, PushGiven
  <2>4. CASE id.text # "word"
    <3>1. UNCHANGED <<stack, content, created, context, headed>>
      BY <2>1, <2>4 DEF heap
    <3>2. Parsing /\ ~Given
      BY <2>1 DEF Parsing, Given
    <3> QED
      BY <3>1, <3>2, KeepGiven, SameContent
  <2> QED
    BY <2>3, <2>4
<1>5. CASE Parse
  <2>1. /\ pc = "idle" /\ ~Parsing
        /\ \/ UNCHANGED <<context, stack, heap, pc, headed>>
           \/ /\ Create(0, Blank) /\ context' = created'
              /\ stack' = Append(stack, created')
    BY <1>5, Zenon DEF Parse, Parsing
  <2>2. {"values", "arrays"} \subseteq DOMAIN Blank /\ Blank.values = 0 /\ Blank.arrays = <<>>
    BY DEF Blank
  <2>3. CASE UNCHANGED <<context, stack, heap, pc, headed>>
    <3>1. UNCHANGED <<stack, content, created, context>> /\ ~Parsing'
      BY <2>1, <2>3 DEF heap, Parsing
    <3> QED
      BY <3>1, KeepGiven, SameContent
  <2>4. CASE Create(0, Blank) /\ context' = created' /\ stack' = Append(stack, created')
    BY <2>1, <2>2, <2>4, PushGiven
  <2> QED
    BY <2>1, <2>3, <2>4
<1>6. ASSUME NEW buf, SetBuffer(buf) PROVE DInv' /\ GivenOnce
  <2>1. UNCHANGED <<stack, content, created>> /\ ~Parsing'
    BY <1>6 DEF SetBuffer, Parsing
  <2>2. ContentTyped' /\ GivenInv'
    BY <2>1 DEF DInv, ContentTyped, GivenInv, Empty
  <2> QED
    BY <2>1, <2>2, SameContent DEF DInv
<1>7. CASE \/ ParseLoop \/ NoHeader \/ BadHeader \/ ParseStructure \/ ParseStructureBody
           \/ BadBody \/ ParseDataItem \/ ParseArrayItem \/ EndOfArrayItem \/ BadData
           \/ CloseData \/ BadClose
  BY <1>7, QuietGiven, SameContent
<1>8. CASE UNCHANGED vars
  <2>1. /\ UNCHANGED <<stack, content, created, context>>
        /\ Parsing' = Parsing /\ headed' = headed /\ Given' = Given
    BY <1>8 DEF vars, heap, Parsing, Given, Char
  <2> QED
    BY <2>1, KeepGiven, SameContent
<1>9. CASE Call
  BY <1>9, <1>5, <1>6 DEF Call, Clear
<1> QED
  BY <1>1, <1>2, <1>3, <1>4, <1>7, <1>8, <1>9 DEF Next, Step

LEMMA InitDInv == Init => DInv
<1> SUFFICES ASSUME Init PROVE DInv
  OBVIOUS
<1>1. content = [n \in Node |-> Blank] /\ stack = <<>> /\ pc = "idle"
  BY DEF Init
<1>2. {"values", "arrays"} \subseteq DOMAIN Blank /\ Blank.values = 0 /\ Blank.arrays = <<>>
  BY DEF Blank
<1>3. \A n \in Node : content[n] = Blank
  BY <1>1
<1>4. ContentTyped
  BY <1>1, <1>2, <1>3 DEF ContentTyped, Empty
<1> QED
  BY <1>1, <1>4 DEF DInv, GivenInv, Parsing

\* On every set of texts a node is given its values, and its array list, once:
\* the setters of DDLNode, which do not delete what they replace, lose nothing.
THEOREM ParserDataSetOnce == Spec => DataSetOnce
<1>1. IInv /\ DInv /\ [Next]_vars
        => IInv' /\ DInv'
           /\ [Parsing /\ headed =>
                 \A n \in Node : /\ content[n].values > 0 => content'[n].values = content[n].values
                                 /\ content[n].arrays # <<>> => content'[n].arrays = content[n].arrays]_vars
  BY IInvInductive, GivenNext DEF GivenOnce
<1>2. Init => IInv /\ DInv
  BY InitIInv, InitDInv
<1> QED
  BY <1>1, <1>2, PTL DEF Spec, DataSetOnce

-----------------------------------------------------------------------------
(* The cursor, and the types of all variables. *)

\* What normalizeBuffer makes of a text is a text.
LEMMA NormalizedTyped ==
    ASSUME NEW buf \in Seq(Token)
    PROVE  Normalized(buf) \in Seq(Token)
<1> DEFINE m == Len(buf)
           V == Seq(Token)
           step == [x \in V \X (1 .. m) |->
                      IF buf[x[2]] = "//" THEN x[1] ELSE Append(x[1], buf[x[2]])]
           Kept(f) == f = [i \in 0 .. m |->
                             IF i = 0 THEN <<>>
                             ELSE IF buf[i] = "//" THEN f[i - 1] ELSE Append(f[i - 1], buf[i])]
           kept == CHOOSE f : Kept(f)
<1>1. m \in Nat /\ \A i \in 1 .. m : buf[i] \in Token
  BY LenProperties, ElementOfSeq
<1>2. <<>> \in V
  BY EmptySeq
<1>3. step \in [V \X (1 .. m) -> V]
  <2>1. ASSUME NEW s \in V, NEW i \in 1 .. m PROVE Append(s, buf[i]) \in V
    BY <1>1, AppendProperties
  <2>2. \A x \in V \X (1 .. m) : x[1] \in V /\ x[2] \in 1 .. m
    OBVIOUS
  <2> HIDE DEF V, m
  <2>3. \A x \in V \X (1 .. m) :
          (IF buf[x[2]] = "//" THEN x[1] ELSE Append(x[1], buf[x[2]])) \in V
    BY <2>1, <2>2
  <2> QED
    BY <2>3
<1>4. PICK g \in [0 .. m -> V] : Recursive(g, <<>>, step, m)
  <2> HIDE DEF V, m, step
  <2> QED
    BY <1>1, <1>2, <1>3, RecursiveFunction
<1>5. Kept(g)
  <2>1. g[0] = <<>>
    BY <1>4 DEF Recursive
  <2>2. ASSUME NEW i \in 1 .. m
        PROVE  g[i] = IF buf[i] = "//" THEN g[i - 1] ELSE Append(g[i - 1], buf[i])
    <3>1. g[i] = step[<<g[i - 1], i>>]
      BY <1>4 DEF Recursive
    <3>2. g[i - 1] \in V
      <4>1. i - 1 \in 0 .. m
        BY <1>1
      <4> HIDE DEF V, m
      <4> QED
        BY <4>1, <1>4
    <3>3. <<g[i - 1], i>> \in V \X (1 .. m)
      <4> HIDE DEF V, m
      <4> QED
        BY <3>2
    <3> HIDE DEF V, m
    <3> QED
      BY <3>1, <3>3
  <2>3. g = [i \in 0 .. m |-> g[i]]
    <3> HIDE DEF V, m
    <3> QED
      BY <1>4
  <2>4. \A i \in 0 .. m : i = 0 \/ i \in 1 .. m
    BY <1>1
  <2>5. \A i \in 0 .. m :
          g[i] = IF i = 0 THEN <<>>
                 ELSE IF buf[i] = "//" THEN g[i - 1] ELSE Append(g[i - 1], buf[i])
    <3> HIDE DEF V, m
    <3> QED
      BY <2>1, <2>2, <2>4
  <2> HIDE DEF V, m
  <2> QED
    BY <2>3, <2>5
<1>6. Kept(kept)
  <2> HIDE DEF Kept
  <2> QED
    BY <1>5
<1>7. \A i \in 0 .. m : kept[i] \in V
  <2> DEFINE T == {i \in 0 .. m : kept[i] \in V}
  <2>1. kept[0] = <<>>
    <3>1. 0 \in 0 .. m
      BY <1>1
    <3> HIDE DEF kept, m
    <3> QED
      BY <1>6, <3>1
  <2>2. ASSUME NEW i \in 1 .. m
        PROVE  kept[i] = IF buf[i] = "//" THEN kept[i - 1] ELSE Append(kept[i - 1], buf[i])
    <3>1. i \in 0 .. m /\ i # 0
      BY <1>1
    <3> HIDE DEF kept, m
    <3> QED
      BY <1>6, <3>1
  <2> HIDE DEF kept
  <2>3. 0 \in T
    <3>1. 0 \in 0 .. m
      BY <1>1
    <3> QED
      BY <3>1, <2>1, <1>2
  <2>4. \A i \in 0 .. m - 1 : i \in T => i + 1 \in T
    <3> SUFFICES ASSUME NEW i \in 0 .. m - 1, kept[i] \in V PROVE i + 1 \in T
      OBVIOUS
    <3>1. i + 1 \in 1 .. m /\ i + 1 \in 0 .. m /\ (i + 1) - 1 = i
      BY <1>1
    <3>2. buf[i + 1] \in Token
      BY <3>1, <1>1
    <3>3. Append(kept[i], buf[i + 1]) \in V
      BY <3>2, AppendProperties
    <3>4. kept[i + 1] \in V
      BY <3>1, <3>3, <2>2
    <3> QED
      BY <3>1, <3>4
  <2>5. \A i \in 0 .. m : i \in T
    <3> HIDE DEF T, m
    <3> QED
      BY <1>1, <2>3, <2>4, BoundedInduction
  <2> QED
    BY <2>5
<1>8. Normalized(buf) = kept[m]
  BY DEF Normalized
<1>9. m \in 0 .. m
  BY <1>1
<1> HIDE DEF kept, m, V
<1> QED
  BY <1>7, <1>8, <1>9 DEF V

\* The places a cursor can be at
Cursor(b) == 1 .. Len(b) + 1

\* A token is under the cursor, or the buffer is over.
LEMMA AtIs ==
    ASSUME NEW b \in Seq(Token), NEW i \in Cursor(b)
    PROVE  /\ Len(b) \in Nat
           /\ At(b, i) # "end" => i \in 1 .. Len(b) /\ i + 1 \in Cursor(b)
           /\ At(b, i) = "end" => i = Len(b) + 1
<1>1. Len(b) \in Nat /\ DOMAIN b = 1 .. Len(b) /\ \A k \in 1 .. Len(b) : b[k] \in Token
  BY LenProperties, ElementOfSeq
<1>2. "end" \notin Token
  BY DEF Token
<1>3. CASE i \in 1 .. Len(b)
  <2>1. At(b, i) \in Token
    BY <1>1, <1>3 DEF At
  <2> QED
    BY <1>1, <1>2, <1>3, <2>1 DEF Cursor
<1>4. CASE i \notin 1 .. Len(b)
  <2>1. At(b, i) = "end" /\ i = Len(b) + 1
    BY <1>1, <1>4 DEF At, Cursor
  <2> QED
    BY <1>1, <2>1
<1> QED
  BY <1>3, <1>4

LEMMA IdentifierNext ==
    ASSUME NEW b \in Seq(Token), NEW i \in Cursor(b)
    PROVE  Identifier(b, i).next \in Cursor(b)
<1>1. At(b, i) # "end" => i + 1 \in Cursor(b)
  BY AtIs
<1>2. Identifier(b, i).next = IF At(b, i) \in {"id", "prim", "="} THEN i + 1 ELSE i
  BY DEF Identifier
<1> QED
  BY <1>1, <1>2

LEMMA NameNext ==
    ASSUME NEW b \in Seq(Token), NEW i \in Cursor(b)
    PROVE  Name(b, i).next \in Cursor(b)
<1>1. CASE At(b, i) # "$"
  BY <1>1 DEF Name
<1>2. CASE At(b, i) = "$"
  <2>1. i + 1 \in Cursor(b)
    BY <1>2, AtIs
  <2>2. Name(b, i) = Identifier(b, i + 1)
    BY <1>2 DEF Name
  <2> QED
    BY <2>1, <2>2, IdentifierNext
<1> QED
  BY <1>1, <1>2

\* Behind an equals sign with nothing behind it the cursor is past the end.
LEMMA PropertyNext ==
    ASSUME NEW b \in Seq(Token), NEW i \in Cursor(b)
    PROVE  /\ ~PropertyAt(b, i).overread => PropertyAt(b, i).next \in Cursor(b)
           /\ PropertyAt(b, i).overread => PropertyAt(b, i).next = Len(b) + 2
<1> DEFINE key == Identifier(b, i)
           val == key.next + 1
<1>1. key.next \in Cursor(b)
  BY IdentifierNext
<1>2. CASE key.text = "null" \/ At(b, key.next) # "="
  <2>1. PropertyAt(b, i) = [made |-> FALSE, next |-> key.next, overread |-> FALSE]
    BY <1>2 DEF PropertyAt
  <2> HIDE DEF key
  <2> QED
    BY <1>1, <2>1
<1>3. CASE ~(key.text = "null" \/ At(b, key.next) # "=")
  <2> HIDE DEF key
  <2>1. val \in Cursor(b) /\ Len(b) \in Nat
    BY <1>1, <1>3, AtIs
  <2> USE DEF key
  <2>2. CASE At(b, val) = "num"
    <3>1. PropertyAt(b, i) = [made |-> TRUE, next |-> val + 1, overread |-> FALSE]
      BY <1>3, <2>2 DEF PropertyAt
    <3> HIDE DEF val
    <3>2. val + 1 \in Cursor(b)
      BY <2>1, <2>2, AtIs
    <3> QED
      BY <3>1, <3>2
  <2>3. CASE At(b, val) = "end"
    <3>1. PropertyAt(b, i) = [made |-> FALSE, next |-> val + 1, overread |-> TRUE]
      BY <1>3, <2>3 DEF PropertyAt
    <3> HIDE DEF val
    <3>2. val = Len(b) + 1
      BY <2>1, <2>3, AtIs
    <3> QED
      BY <2>1, <3>1, <3>2
  <2>4. CASE At(b, val) \notin {"num", "end"}
    <3>1. /\ PropertyAt(b, i).next = Name(b, val).next
          /\ PropertyAt(b, i).overread = FALSE
      BY <1>3, <2>4 DEF PropertyAt
    <3> HIDE DEF val
    <3> QED
      BY <3>1, <2>1, NameNext
  <2> QED
    BY <2>2, <2>3, <2>4
<1> QED
  BY <1>2, <1>3

LEMMA PropertiesNext ==
    ASSUME NEW b \in Seq(Token), NEW i \in Cursor(b)
    PROVE  /\ ~Properties(b, i).overread => Properties(b, i).next \in Cursor(b)
           /\ Properties(b, i).overread => Properties(b, i).next = Len(b) + 2
<1>1. CASE At(b, i) # "("
  <2>1. Properties(b, i).next = i /\ Properties(b, i).overread = FALSE
    BY <1>1 DEF Properties
  <2> QED
    BY <2>1
<1>2. CASE At(b, i) = "("
  <2>1. i + 1 \in Cursor(b)
    BY <1>2, AtIs
  <2>2. CASE At(b, i + 1) = ")"
    <3>1. Properties(b, i).next = i + 2 /\ Properties(b, i).overread = FALSE
      BY <1>2, <2>2 DEF Properties
    <3>2. (i + 1) + 1 \in Cursor(b)
      BY <2>1, <2>2, AtIs
    <3>3. (i + 1) + 1 = i + 2
      BY DEF Cursor
    <3> QED
      BY <3>1, <3>2, <3>3
  <2>3. CASE At(b, i + 1) # ")"
    <3> DEFINE p == PropertyAt(b, i + 1)
               n == p.next
    <3>1. /\ ~p.overread => n \in Cursor(b)
          /\ p.overread => n = Len(b) + 2
      BY <2>1, PropertyNext
    <3>2. /\ Properties(b, i).next = IF At(b, n) = ")" THEN n + 1 ELSE n
          /\ Properties(b, i).overread = p.overread
      BY <1>2, <2>3 DEF Properties
    <3> HIDE DEF n, p
    <3>3. n \in Cursor(b) /\ At(b, n) = ")" => n + 1 \in Cursor(b)
      BY AtIs
    <3>4. n = Len(b) + 2 => At(b, n) # ")"
      <4>1. DOMAIN b = 1 .. Len(b) /\ Len(b) \in Nat
        BY LenProperties
      <4>2. Len(b) + 2 \notin 1 .. Len(b)
        BY <4>1
      <4> QED
        BY <4>1, <4>2 DEF At
    <3>5. CASE p.overread
      BY <3>1, <3>2, <3>4, <3>5
    <3>6. CASE ~p.overread
      BY <3>1, <3>2, <3>3, <3>6
    <3> QED
      BY <3>5, <3>6
  <2> QED
    BY <2>2, <2>3
<1> QED
  BY <1>1, <1>2

\* Behind a type name, and behind the search for the bracket of its suffix
LEMMA PrimitiveNext ==
    ASSUME NEW b \in Seq(Token), NEW i \in Cursor(b)
    PROVE  PrimitiveType(b, i).next \in Cursor(b)
<1> DEFINE t == At(b, i)
           closers == {j \in i + 1 .. Len(b) : b[j] \in {"prim0", "prim2"}}
           nearest == CHOOSE j \in closers : \A k \in closers : j <= k
<1>1. /\ Len(b) \in Nat /\ i \in Nat /\ Len(b) + 1 \in Cursor(b)
      /\ t # "end" => i + 1 \in Cursor(b)
  BY AtIs DEF Cursor
<1>2. CASE t # "primcut"
  <2>1. PrimitiveType(b, i).next = IF t \in {"prim", "prim0", "prim2"} THEN i + 1 ELSE i
    BY <1>2 DEF PrimitiveType
  <2> HIDE DEF t
  <2>2. t \in {"prim", "prim0", "prim2"} => t # "end"
    OBVIOUS
  <2> QED
    BY <1>1, <2>1, <2>2
<1>3. CASE t = "primcut" /\ closers = {}
  <2>1. PrimitiveType(b, i).next = Len(b) + 1
    BY <1>3 DEF PrimitiveType
  <2> QED
    BY <1>1, <2>1
<1>4. CASE t = "primcut" /\ closers # {}
  <2>1. PrimitiveType(b, i).next = nearest + 1
    BY <1>4 DEF PrimitiveType
  <2>2. closers \in SUBSET Nat
    BY <1>1
  <2>3. \E j \in closers : \A k \in closers : j <= k
    BY <1>4, <2>2, LeastElement
  <2>4. nearest \in closers
    BY <2>3
  <2>5. nearest \in i + 1 .. Len(b)
    BY <2>4
  <2> HIDE DEF nearest
  <2> QED
    BY <1>1, <2>1, <2>5 DEF Cursor
<1> QED
  BY <1>2, <1>3, <1>4

\* Where the cursor is.  A body begins in front of a character.
CursorInv ==
    /\ buffer \in Seq(Token)
    /\ in \in Cursor(buffer) \/ (in = PastEnd /\ pc \in {"close", "undefined"})
    /\ pc = "idle" => in = 1
    /\ pc = "body" => Char # "end"

\* What parseDataList and parseDataArrayList have read, and the result
DataTyped ==
    /\ inArray \in BOOLEAN
    /\ values \in Nat
    /\ arrays \in Seq(Nat \ {0})
    /\ result \in {"none", "parsed", "failed"}

LEMMA FirstPlace ==
    ASSUME NEW b \in Seq(Token)
    PROVE  1 \in Cursor(b)
  BY LenProperties DEF Cursor

\* A step that leaves the buffer alone keeps the invariant when the cursor it goes to
\* is one, or is past the end where that can be.
LEMMA KeepCursor ==
    ASSUME CursorInv, buffer' = buffer,
           in' \in Cursor(buffer) \/ (in' = PastEnd /\ pc' \in {"close", "undefined"}),
           pc' = "idle" => in' = 1,
           pc' = "body" => At(buffer, in') # "end"
    PROVE  CursorInv'
  BY DEF CursorInv, Char, PastEnd

\* parse() returns.
LEMMA LeaveCursor ==
    ASSUME CursorInv, buffer' = buffer, \E r : Return(r)
    PROVE  CursorInv'
<1>1. in' = 1 /\ pc' = "idle"
  BY DEF Return, Goto
<1>2. 1 \in Cursor(buffer)
  BY FirstPlace DEF CursorInv
<1> QED
  BY <1>1, <1>2, KeepCursor

LEMMA BodyCursorIs ==
    ASSUME CursorInv, pc = "body"
    PROVE  BodyCursor \in Cursor(buffer)
<1>0. in \in Cursor(buffer) /\ buffer \in Seq(Token) /\ At(buffer, in) # "end"
  BY DEF CursorInv, Char
<1>1. in + 1 \in Cursor(buffer) /\ in \in Cursor(buffer)
  BY <1>0, AtIs
<1> QED
  BY <1>1 DEF BodyCursor

LEMMA BodyStep ==
    ASSUME CursorInv, ParseStructureBody
    PROVE  CursorInv'
<1> DEFINE prim == PrimitiveType(buffer, BodyCursor)
           list == prim.length > 0 /\ At(buffer, prim.next) = "{"
<1>1. /\ pc = "body" /\ buffer' = buffer
      /\ IF prim.length < 0 THEN Goto("header", prim.next)
         ELSE IF ~list THEN Goto("close", prim.next)
         ELSE Goto(IF prim.length = 1 THEN "data" ELSE "array", prim.next + 1)
  BY DEF ParseStructureBody
<1>2. BodyCursor \in Cursor(buffer) /\ buffer \in Seq(Token)
  BY <1>1, BodyCursorIs DEF CursorInv
<1>3. prim.next \in Cursor(buffer)
  BY <1>2, PrimitiveNext
<1> HIDE DEF prim
<1>4. list => prim.next + 1 \in Cursor(buffer)
  BY <1>2, <1>3, AtIs
<1> HIDE DEF list
<1>5. in' \in Cursor(buffer) /\ pc' \in {"header", "close", "data", "array"}
  BY <1>1, <1>3, <1>4 DEF Goto
<1> QED
  BY <1>1, <1>5, KeepCursor

LEMMA HeaderStep ==
    ASSUME CursorInv, ParseHeader
    PROVE  CursorInv'
<1> DEFINE id == Identifier(buffer, in)
           name == Name(buffer, id.next)
           props == Properties(buffer, name.next)
<1>1. /\ buffer' = buffer
      /\ IF props.overread
         THEN Goto("undefined", props.next) /\ UNCHANGED <<depth, pushed, locals, result>>
         ELSE IF props.ok
         THEN /\ Goto("structure", props.next)
              /\ pushed' = (id.text = "word")
              /\ UNCHANGED <<depth, locals, result>>
         ELSE Return("failed")
  BY Zenon DEF ParseHeader
<1>2. /\ ~props.overread => props.next \in Cursor(buffer)
      /\ props.overread => props.next = PastEnd
  <2>0. in \in Cursor(buffer) /\ buffer \in Seq(Token)
    BY DEF CursorInv, ParseHeader
  <2>1. id.next \in Cursor(buffer) /\ buffer \in Seq(Token)
    BY <2>0, IdentifierNext
  <2> HIDE DEF id
  <2>2. name.next \in Cursor(buffer)
    BY <2>1, NameNext
  <2> HIDE DEF name
  <2> QED
    BY <2>1, <2>2, PropertiesNext DEF PastEnd
<1> HIDE DEF id, name, props
<1>3. CASE props.overread
  <2>1. in' = PastEnd /\ pc' = "undefined"
    BY <1>1, <1>2, <1>3 DEF Goto
  <2> QED
    BY <1>1, <2>1, KeepCursor
<1>4. CASE ~props.overread /\ props.ok
  <2>1. in' = props.next /\ pc' = "structure"
    BY <1>1, <1>4 DEF Goto
  <2> QED
    BY <1>1, <1>2, <1>4, <2>1, KeepCursor
<1>5. CASE ~props.overread /\ ~props.ok
  BY <1>1, <1>5, LeaveCursor
<1> QED
  BY <1>3, <1>4, <1>5

LEMMA StepCursor == ASSUME CursorInv, Step PROVE CursorInv'
<1>0. CASE BadHeader \/ BadBody \/ BadData \/ BadClose
  <2>1. /\ buffer' = buffer /\ pc' = "undefined" /\ in' \in {in, PastEnd}
    BY <1>0 DEF BadHeader, BadBody, BadData, BadClose, Undefined, Goto
  <2>2. in \in Cursor(buffer) \/ in = PastEnd
    BY DEF CursorInv
  <2> QED
    BY <2>1, <2>2, KeepCursor
<1> DEFINE Inside == in \in Cursor(buffer)
<1>14. CASE ~Inside
  <2>1. in = PastEnd /\ pc = "close"
    BY <1>14 DEF CursorInv, Step, ParseLoop, NoHeader, ParseHeader, BadHeader, ParseStructure,
       ParseStructureBody, BadBody, ParseDataItem, SetNodeValues, ParseArrayItem,
       EndOfArrayItem, SetNodeDataArrayList, BadData, CloseData, BadClose, StructureLoop
  <2>2. BadClose
    BY <2>1 DEF Step, ParseLoop, NoHeader, ParseHeader, BadHeader, ParseStructure,
       ParseStructureBody, BadBody, ParseDataItem, SetNodeValues, ParseArrayItem,
       EndOfArrayItem, SetNodeDataArrayList, BadData, CloseData, StructureLoop
  <2> QED
    BY <1>0, <2>2
<1> SUFFICES ASSUME in \in Cursor(buffer) PROVE CursorInv'
  BY <1>14
<1>1. /\ buffer \in Seq(Token) /\ in \in Cursor(buffer)
      /\ Char # "end" => in + 1 \in Cursor(buffer)
      /\ Char = "end" => in + 1 = PastEnd
  <2>1. buffer \in Seq(Token)
    BY DEF CursorInv
  <2>2. /\ Len(buffer) \in Nat
        /\ Char # "end" => in + 1 \in Cursor(buffer)
        /\ Char = "end" => in = Len(buffer) + 1
    BY <2>1, AtIs DEF Char
  <2> QED
    BY <2>1, <2>2 DEF PastEnd
<1>2. CASE ParseLoop
  <2>1. buffer' = buffer /\ (Return("parsed") \/ Goto("header", in))
    BY <1>2 DEF ParseLoop
  <2> QED
    BY <2>1, <1>1, LeaveCursor, KeepCursor DEF Goto
<1>3. CASE NoHeader
  BY <1>1, <1>3, KeepCursor DEF NoHeader, Goto
<1>4. CASE ParseHeader
  BY <1>4, HeaderStep
<1>6. CASE ParseStructure
  <2>1. /\ buffer' = buffer
        /\ \/ Goto(Back(depth), in)
           \/ Char = "{" /\ Goto("body", in)
           \/ Return("failed")
    BY <1>6, Zenon DEF ParseStructure
  <2>2. Back(depth) \in {"parse", "loop"}
    BY DEF Back
  <2>3. CASE Goto(Back(depth), in)
    BY <2>1, <2>2, <2>3, <1>1, KeepCursor DEF Goto
  <2>4. CASE Char = "{" /\ Goto("body", in)
    BY <2>1, <2>4, <1>1, KeepCursor DEF Goto, Char
  <2>5. CASE Return("failed")
    BY <2>1, <2>5, LeaveCursor
  <2> QED
    BY <2>1, <2>3, <2>4, <2>5
<1>7. CASE ParseStructureBody
  BY <1>7, BodyStep
<1>8. CASE ParseDataItem
  BY <1>1, <1>8, KeepCursor DEF ParseDataItem, Goto, AfterItem
<1>9. CASE SetNodeValues \/ EndOfArrayItem
  <2>1. buffer' = buffer /\ in' = AfterList /\ pc' \in {"close", "array", "arrayEnd"}
    BY <1>9 DEF SetNodeValues, EndOfArrayItem, Goto
  <2>2. AfterList \in Cursor(buffer)
    BY <1>1 DEF AfterList
  <2> QED
    BY <2>1, <2>2, KeepCursor
<1>10. CASE ParseArrayItem
  BY <1>1, <1>10, KeepCursor DEF ParseArrayItem, Goto
<1>11. CASE SetNodeDataArrayList
  <2>1. buffer' = buffer /\ in' \in {in, in + 1} /\ pc' = "close"
    BY <1>11 DEF SetNodeDataArrayList, Goto
  <2>2. in' \in Cursor(buffer) \/ in' = PastEnd
    BY <1>1, <2>1
  <2> QED
    BY <2>1, <2>2, KeepCursor
<1>12. CASE CloseData
  <2>1. buffer' = buffer /\ (Return("failed") \/ Goto("loop", in))
    BY <1>12 DEF CloseData
  <2> QED
    BY <2>1, <1>1, LeaveCursor, KeepCursor DEF Goto
<1>13. CASE StructureLoop
  <2>1. /\ buffer' = buffer
        /\ \/ Goto(Back(depth - 1), IF Char = "end" THEN in ELSE in + 1)
           \/ Char # "end" /\ Goto("body", in)
    BY <1>13 DEF StructureLoop
  <2>2. Back(depth - 1) \in {"parse", "loop"}
    BY DEF Back
  <2>3. CASE Goto(Back(depth - 1), IF Char = "end" THEN in ELSE in + 1)
    BY <2>1, <2>2, <2>3, <1>1, KeepCursor DEF Goto
  <2>4. CASE Char # "end" /\ Goto("body", in)
    BY <2>1, <2>4, <1>1, KeepCursor DEF Goto, Char
  <2> QED
    BY <2>1, <2>3, <2>4
<1> QED
  BY <1>0, <1>2, <1>3, <1>4, <1>6, <1>7, <1>8, <1>9, <1>10, <1>11, <1>12, <1>13 DEF Step

LEMMA CursorNext == CursorInv /\ [Next]_vars => CursorInv'
<1> SUFFICES ASSUME CursorInv, [Next]_vars PROVE CursorInv'
  OBVIOUS
<1>1. ASSUME NEW buf \in Seq(Token), SetBuffer(buf) PROVE CursorInv'
  <2>1. buffer' = buf /\ pc' = "idle" /\ in' = 1
    BY <1>1 DEF SetBuffer, CursorInv
  <2> QED
    BY <2>1, FirstPlace DEF CursorInv
<1>2. CASE Parse
  <2>1. buffer' \in Seq(Token)
    BY <1>2, NormalizedTyped DEF Parse, CursorInv
  <2>2. in' = 1 /\ pc' \in {"idle", "parse"}
    BY <1>2 DEF Parse, Goto, CursorInv
  <2> QED
    BY <2>1, <2>2, FirstPlace DEF CursorInv
<1>3. CASE Call
  <2>1. <<>> \in Seq(Token)
    BY EmptySeq
  <2> QED
    BY <1>1, <1>2, <1>3, <2>1, BuffersAssumption DEF Call, Clear
<1>4. CASE UNCHANGED vars
  BY <1>4 DEF vars, CursorInv, Char, PastEnd
<1> QED
  BY <1>3, <1>4, StepCursor DEF Next

LEMMA DataNext == DataTyped /\ [Next]_vars => DataTyped'
<1> SUFFICES ASSUME DataTyped, [Next]_vars PROVE DataTyped'
  OBVIOUS
<1> USE DEF locals
<1>1. <<>> \in Seq(Nat \ {0})
  BY EmptySeq
<1>2. ASSUME NEW r \in {"parsed", "failed"}, Return(r) PROVE DataTyped'
  BY <1>1, <1>2 DEF Return, DataTyped
<1>3. CASE UNCHANGED <<locals, result>>
  BY <1>3 DEF DataTyped
<1>4. ASSUME NEW buf, SetBuffer(buf) PROVE DataTyped'
  BY <1>4 DEF SetBuffer, DataTyped
<1>5. CASE Parse
  <2>1. UNCHANGED locals /\ result' \in {"failed", "none"}
    BY <1>5 DEF Parse
  <2> QED
    BY <2>1 DEF DataTyped
<1>6. CASE Call
  BY <1>4, <1>5, <1>6 DEF Call, Clear
<1>7. CASE ParseLoop \/ CloseData
  BY <1>2, <1>3, <1>7 DEF ParseLoop, CloseData
<1>8. CASE NoHeader \/ ParseArrayItem \/ SetNodeDataArrayList \/ StructureLoop
  BY <1>3, <1>8 DEF NoHeader, ParseArrayItem, SetNodeDataArrayList, StructureLoop
<1>9. CASE ParseHeader
  <2>1. UNCHANGED <<locals, result>> \/ Return("failed")
    BY <1>9, Zenon DEF ParseHeader
  <2> QED
    BY <2>1, <1>2, <1>3
<1>10. CASE BadHeader \/ BadBody \/ BadData \/ BadClose
  BY <1>3, <1>10 DEF BadHeader, BadBody, BadData, BadClose, Undefined
<1>11. CASE ParseStructure
  <2>1. UNCHANGED <<locals, result>> \/ Return("failed")
    BY <1>11, Zenon DEF ParseStructure
  <2> QED
    BY <2>1, <1>2, <1>3
<1>12. CASE ParseStructureBody
  <2>1. inArray' \in BOOLEAN /\ values' = 0 /\ arrays' = <<>> /\ result' = result
    BY <1>12, Zenon DEF ParseStructureBody
  <2> QED
    BY <2>1, <1>1 DEF DataTyped
<1>13. CASE ParseDataItem
  <2>1. values' \in Nat /\ UNCHANGED <<arrays, inArray, result>>
    BY <1>13 DEF ParseDataItem, DataTyped
  <2> QED
    BY <2>1 DEF DataTyped
<1>14. CASE SetNodeValues
  BY <1>3, <1>14 DEF SetNodeValues
<1>15. CASE EndOfArrayItem
  <2>1. values' = 0 /\ UNCHANGED <<inArray, result>>
        /\ arrays' = IF values > 0 THEN Append(arrays, values) ELSE arrays
    BY <1>15 DEF EndOfArrayItem
  <2>2. values > 0 => Append(arrays, values) \in Seq(Nat \ {0})
    BY AppendProperties DEF DataTyped
  <2> QED
    BY <2>1, <2>2 DEF DataTyped
<1>16. CASE UNCHANGED vars
  BY <1>3, <1>16 DEF vars
<1> QED
  BY <1>6, <1>7, <1>8, <1>9, <1>10, <1>11, <1>12, <1>13, <1>14, <1>15, <1>16 DEF Next, Step

\* At all times every variable has its type, and the cursor is at a character of the
\* buffer or directly behind the last one, but for one place further: behind an array
\* list the text ends in (parseDataArrayList), where only parseStructureBody's look
\* for the closing brace is left to do, and once the execution is undefined.
THEOREM ParserTypeOK == Spec => []TypeOK
<1> DEFINE TInv == IInv /\ HeapTyped /\ Forest /\ CursorInv /\ DataTyped
<1>1. Init => TInv
  <2>1. Init => CursorInv
    <3>1. <<>> \in Seq(Token) /\ 1 \in Cursor(<<>>)
      BY EmptySeq, FirstPlace
    <3> QED
      BY <3>1 DEF Init, CursorInv
  <2>2. Init => DataTyped
    <3>1. <<>> \in Seq(Nat \ {0})
      BY EmptySeq
    <3>2. Init => inArray \in BOOLEAN /\ result \in {"none", "parsed", "failed"}
      BY Zenon DEF Init
    <3>3. Init => values = 0 /\ arrays = <<>>
      BY DEF Init
    <3> QED
      BY <3>1, <3>2, <3>3 DEF DataTyped
  <2> QED
    BY <2>1, <2>2, InitIInv, InitForest
<1>2. TInv /\ [Next]_vars => TInv'
  BY IInvInductive, ForestStep, CursorNext, DataNext DEF IInv
<1>3. TInv => TypeOK
  BY DEF IInv, StackTyped, HeapTyped, CursorInv, DataTyped, Cursor, PastEnd, Control, TypeOK
<1> QED
  BY <1>1, <1>2, <1>3, PTL DEF Spec
-----------------------------------------------------------------------------
(* What a delete of the context reaches, and what it leaves.  The links are  *)
(* parameters here, so that a lemma speaks of the state before a step and of *)
(* the one after it.                                                         *)

\* f says of each node whether it is r or in the child list of a node of f before it.
Reaches(ch, r, f) ==
    f = [n \in Node |-> n = r \/ \E m \in 1 .. n - 1 : f[m] /\ n \in Elems(ch[m])]

\* Of the nodes up to k: r, and child by child all below it
Tree(ch, r, k) == {n \in 1 .. k : (CHOOSE f : Reaches(ch, r, f))[n]}

LEMMA SubtreeIsTree ==
    /\ Subtree(context) = Tree(children, context, created)
    /\ Subtree(context)' = Tree(children', context', created')
BY DEF Subtree, Tree, Reaches

\* The recursion of Subtree goes to smaller numbers only: there is such a function.
LEMMA ReachesExists ==
    ASSUME NEW ch, NEW r
    PROVE  \E f : Reaches(ch, r, f)
<1> DEFINE V == SUBSET Node
           Joins(s, n) == n = r \/ \E m \in 1 .. n - 1 : m \in s /\ n \in Elems(ch[m])
           step == [a \in V \X Node |-> IF Joins(a[1], a[2]) THEN a[1] \cup {a[2]} ELSE a[1]]
<1>1. MaxNodes \in Nat /\ {} \in V /\ step \in [V \X (1 .. MaxNodes) -> V]
  <2>1. ASSUME NEW a \in V \X Node PROVE step[a] \in V
    OBVIOUS
  <2> QED
    BY <2>1, BoundsAssumption DEF Node
<1>2. PICK g \in [0 .. MaxNodes -> V] : Recursive(g, {}, step, MaxNodes)
  <2> HIDE DEF V, step
  <2> QED
    BY <1>1, RecursiveFunction, Zenon
<1>3. /\ g[0] = {}
      /\ \A n \in Node : g[n] = IF Joins(g[n - 1], n) THEN g[n - 1] \cup {n} ELSE g[n - 1]
  <2>1. g[0] = {}
    BY <1>2 DEF Recursive
  <2>2. ASSUME NEW n \in Node
        PROVE  g[n] = IF Joins(g[n - 1], n) THEN g[n - 1] \cup {n} ELSE g[n - 1]
    <3>1. g[n] = step[<<g[n - 1], n>>]
      BY <1>2 DEF Recursive, Node
    <3>2. n - 1 \in 0 .. MaxNodes
      BY <1>1 DEF Node
    <3>3. g[n - 1] \in V
      BY <3>2
    <3>4. <<g[n - 1], n>> \in V \X Node
      BY <3>3
    <3> HIDE DEF V, Joins
    <3> QED
      BY <3>1, <3>4
  <2> QED
    BY <2>1, <2>2
<1> HIDE DEF Joins, step
\* A set holds no number above its own, and the numbers below it are those of the earlier sets.
<1>4. \A n \in 0 .. MaxNodes : \A m \in g[n] : m <= n /\ m \in g[m]
  <2> DEFINE T == {n \in 0 .. MaxNodes : \A m \in g[n] : m <= n /\ m \in g[m]}
  <2>1. 0 \in T
    BY <1>1, <1>3
  <2>2. ASSUME NEW n \in 0 .. MaxNodes - 1, n \in T PROVE n + 1 \in T
    <3>1. n + 1 \in Node /\ n + 1 \in 0 .. MaxNodes /\ (n + 1) - 1 = n
      BY <1>1 DEF Node
    <3>2. ASSUME NEW m \in g[n + 1] PROVE m <= n + 1 /\ m \in g[m]
      <4>1. m \in g[n] \/ m = n + 1
        BY <1>3, <3>1
      <4>2. CASE m \in g[n]
        <5>1. m <= n /\ m \in g[m] /\ m \in Node
          BY <2>2, <4>2, <1>1
        <5> QED
          BY <5>1, <1>1 DEF Node
      <4>3. CASE m = n + 1
        BY <4>3
      <4> QED
        BY <4>1, <4>2, <4>3
    <3> QED
      BY <3>1, <3>2
  <2>3. \A n \in 0 .. MaxNodes : n \in T
    <3> HIDE DEF T
    <3> QED
      BY <1>1, <2>1, <2>2, BoundedInduction
  <2> QED
    BY <2>3
<1>5. \A n \in 0 .. MaxNodes : \A m \in 0 .. n : m \in g[m] => m \in g[n]
  <2> DEFINE T == {n \in 0 .. MaxNodes : \A m \in 0 .. n : m \in g[m] => m \in g[n]}
  <2>1. 0 \in T
    BY <1>1
  <2>2. ASSUME NEW n \in 0 .. MaxNodes - 1, n \in T PROVE n + 1 \in T
    <3>1. n + 1 \in Node /\ n + 1 \in 0 .. MaxNodes /\ (n + 1) - 1 = n
      BY <1>1 DEF Node
    <3>2. g[n] \subseteq g[n + 1]
      BY <1>3, <3>1
    <3>3. ASSUME NEW m \in 0 .. n + 1, m \in g[m] PROVE m \in g[n + 1]
      <4>1. m = n + 1 \/ m \in 0 .. n
        OBVIOUS
      <4> QED
        BY <4>1, <2>2, <3>2, <3>3
    <3> QED
      BY <3>1, <3>3
  <2>3. \A n \in 0 .. MaxNodes : n \in T
    <3> HIDE DEF T
    <3> QED
      BY <1>1, <2>1, <2>2, BoundedInduction
  <2> QED
    BY <2>3
<1> DEFINE f == [n \in Node |-> n \in g[n]]
<1>6. ASSUME NEW n \in Node
      PROVE  f[n] = (n = r \/ \E m \in 1 .. n - 1 : f[m] /\ n \in Elems(ch[m]))
  <2>1. n - 1 \in 0 .. MaxNodes /\ \A m \in 1 .. n - 1 : m \in Node /\ m \in 0 .. n - 1
    BY <1>1 DEF Node
  <2>2. n \notin g[n - 1]
    BY <1>4, <2>1 DEF Node
  <2>3. n \in g[n] <=> Joins(g[n - 1], n)
    BY <1>3, <2>2
  <2>4. \A m \in 1 .. n - 1 : m \in g[n - 1] <=> f[m]
    BY <1>4, <1>5, <2>1
  <2> HIDE DEF f
  <2>5. Joins(g[n - 1], n) <=> (n = r \/ \E m \in 1 .. n - 1 : f[m] /\ n \in Elems(ch[m]))
    BY <2>4 DEF Joins
  <2>6. f[n] = (n \in g[n])
    BY DEF f
  <2> QED
    BY <2>3, <2>5, <2>6
<1>7. Reaches(ch, r, f)
  <2>1. f = [n \in Node |-> f[n]]
    OBVIOUS
  <2> HIDE DEF f
  <2> QED
    BY <1>6, <2>1 DEF Reaches
<1> HIDE DEF f
<1> QED
  BY <1>7

\* Forest, of the links ch and pa between the nodes up to k
Linked(ch, pa, k) ==
    /\ \A n \in 1 .. k : pa[n] \in 0 .. n - 1
    /\ \A n \in 1 .. k : pa[n] # 0 => n \in Elems(ch[pa[n]])
    /\ \A n, m \in 1 .. k : n \in Elems(ch[m]) => pa[n] = m

\* S is r and every node whose parent is in S: what the parent pointers say of a tree.
Family(S, pa, r, k) ==
    /\ S \subseteq 1 .. k
    /\ \A n \in 1 .. k : n \in S <=> (n = r \/ pa[n] \in S)

LEMMA TreeFamily ==
    ASSUME NEW k \in 0 .. MaxNodes, NEW ch, NEW pa, NEW r, Linked(ch, pa, k)
    PROVE  Family(Tree(ch, r, k), pa, r, k)
<1> DEFINE f == CHOOSE g : Reaches(ch, r, g)
           S == Tree(ch, r, k)
<1>1. Reaches(ch, r, f)
  BY ReachesExists
<1>2. S = {n \in 1 .. k : f[n]}
  BY DEF Tree
<1> HIDE DEF f
<1>3. MaxNodes \in Nat /\ k \in Nat /\ \A n \in 1 .. k : n \in Node
  BY BoundsAssumption DEF Node
<1>4. \A n \in 1 .. k :
        f[n] = (n = r \/ \E m \in 1 .. n - 1 : f[m] /\ n \in Elems(ch[m]))
  BY <1>1, <1>3 DEF Reaches
<1> HIDE DEF S
<1>5. ASSUME NEW n \in 1 .. k, n \in S, n # r PROVE pa[n] \in S
  <2>1. PICK m \in 1 .. n - 1 : f[m] /\ n \in Elems(ch[m])
    BY <1>2, <1>4, <1>5
  <2>2. m \in 1 .. k
    BY <1>3
  <2>3. pa[n] = m
    BY <2>1, <2>2 DEF Linked
  <2> QED
    BY <1>2, <2>1, <2>2, <2>3
<1>6. ASSUME NEW n \in 1 .. k, pa[n] \in S PROVE n \in S
  <2>1. pa[n] \in 1 .. k /\ f[pa[n]]
    BY <1>2, <1>6
  <2>2. pa[n] \in 1 .. n - 1 /\ n \in Elems(ch[pa[n]])
    BY <2>1 DEF Linked
  <2>3. f[n]
    BY <1>4, <2>1, <2>2
  <2> QED
    BY <1>2, <2>3
<1>7. \A n \in 1 .. k : n = r => n \in S
  BY <1>2, <1>4
<1>8. S \subseteq 1 .. k
  BY <1>2
<1> QED
  BY <1>5, <1>6, <1>7, <1>8 DEF Family, S

\* Nodes made later change nothing for the ones before.
LEMMA FamilyGrows ==
    ASSUME NEW k \in Nat, NEW pa, NEW S, NEW k2 \in Nat, NEW pa2, NEW S2, NEW r,
           k <= k2, \A n \in 1 .. k : pa2[n] = pa[n] /\ pa[n] \in 0 .. n - 1,
           Family(S, pa, r, k), Family(S2, pa2, r, k2)
    PROVE  \A n \in 1 .. k : n \in S <=> n \in S2
<1> DEFINE U == {n \in Nat : n \in 1 .. k => (n \in S <=> n \in S2)}
<1>1. ASSUME NEW n \in Nat, \A m \in 0 .. n - 1 : m \in U PROVE n \in U
  <2>1. SUFFICES ASSUME n \in 1 .. k PROVE n \in S <=> n \in S2
    OBVIOUS
  <2>2. n \in 1 .. k2 /\ pa2[n] = pa[n] /\ pa[n] \in 0 .. n - 1
    BY <2>1
  <2>3. pa[n] \in S <=> pa[n] \in S2
    <3>1. CASE pa[n] = 0
      <4>1. 0 \notin S /\ 0 \notin S2
        BY DEF Family
      <4> QED
        BY <3>1, <4>1
    <3>2. CASE pa[n] # 0
      <4>1. pa[n] \in 1 .. k /\ pa[n] \in U
        BY <1>1, <2>1, <2>2, <3>2
      <4> QED
        BY <4>1
    <3> QED
      BY <3>1, <3>2
  <2>4. n \in S <=> (n = r \/ pa[n] \in S)
    BY <2>1 DEF Family
  <2>5. n \in S2 <=> (n = r \/ pa[n] \in S2)
    BY <2>2 DEF Family
  <2> QED
    BY <2>3, <2>4, <2>5
<1>2. \A n \in Nat : n \in U
  <2> HIDE DEF U
  <2> QED
    BY <1>1, StrongInduction
<1> QED
  BY <1>2

\* Nothing is older than the root, and there is no tree without one.
LEMMA FamilyYounger ==
    ASSUME NEW k \in Nat, NEW pa, NEW S, NEW r \in Nat,
           \A n \in 1 .. k : pa[n] \in 0 .. n - 1, Family(S, pa, r, k)
    PROVE  /\ \A n \in S : n >= r /\ n \in 1 .. k
           /\ r \in 1 .. k => r \in S
           /\ r = 0 => S = {}
<1> DEFINE U == {n \in Nat : n \in S => n >= r /\ r # 0}
<1>1. ASSUME NEW n \in Nat, \A m \in 0 .. n - 1 : m \in U PROVE n \in U
  <2>1. SUFFICES ASSUME n \in S, n # r PROVE n >= r /\ r # 0
    <3>1. n = r => (n \in S => n # 0)
      BY DEF Family
    <3> QED
      BY <3>1
  <2>2. n \in 1 .. k /\ pa[n] \in S /\ pa[n] \in 0 .. n - 1
    BY <2>1 DEF Family
  <2>3. pa[n] \in U
    BY <1>1, <2>2
  <2> QED
    BY <2>2, <2>3
<1>2. \A n \in Nat : n \in U
  <2> HIDE DEF U
  <2> QED
    BY <1>1, StrongInduction
<1> QED
  BY <1>2 DEF Family

\* The tree of the context, before a step and after it
LEMMA ForestLinked ==
    ASSUME NEW k \in 0 .. MaxNodes, NEW pa \in [Node -> 0 .. k], NEW ch \in [Node -> Seq(1 .. k)],
           \A n \in Node : pa[n] # 0 => n \in Elems(ch[pa[n]]),
           \A m \in Node : \A i \in DOMAIN ch[m] : pa[ch[m][i]] = m /\ ch[m][i] > m
    PROVE  Linked(ch, pa, k)
<1>1. MaxNodes \in Nat /\ k \in Nat /\ \A n \in 1 .. k : n \in Node
  BY BoundsAssumption DEF Node
<1>2. ASSUME NEW n, NEW m \in Node, n \in Elems(ch[m]) PROVE pa[n] = m /\ n > m
  BY <1>2 DEF Elems
<1>3. ASSUME NEW n \in 1 .. k PROVE pa[n] \in 0 .. n - 1
  <2>1. pa[n] \in 0 .. k
    BY <1>1
  <2>2. CASE pa[n] = 0
    BY <2>2
  <2>3. CASE pa[n] # 0
    <3>1. pa[n] \in Node /\ n \in Elems(ch[pa[n]])
      BY <1>1, <2>1, <2>3
    <3>2. n > pa[n]
      BY <1>2, <3>1
    <3> QED
      BY <1>1, <2>1, <3>2
  <2> QED
    BY <2>2, <2>3
<1> QED
  BY <1>1, <1>2, <1>3 DEF Linked

LEMMA ContextFamily ==
    /\ StackTyped /\ HeapTyped /\ Forest
         => /\ \A n \in 1 .. created : parent[n] \in 0 .. n - 1
            /\ Family(Subtree(context), parent, context, created)
    /\ (StackTyped /\ HeapTyped /\ Forest)'
         => /\ \A n \in 1 .. created' : parent'[n] \in 0 .. n - 1
            /\ Family(Subtree(context)', parent', context', created')
<1>1. ASSUME StackTyped, HeapTyped, Forest
      PROVE  /\ \A n \in 1 .. created : parent[n] \in 0 .. n - 1
             /\ Family(Subtree(context), parent, context, created)
  <2>1. created \in 0 .. MaxNodes /\ Linked(children, parent, created)
    BY <1>1, ForestLinked DEF StackTyped, HeapTyped, Forest
  <2> QED
    BY <2>1, TreeFamily, SubtreeIsTree DEF Linked
<1>2. ASSUME (StackTyped /\ HeapTyped /\ Forest)'
      PROVE  /\ \A n \in 1 .. created' : parent'[n] \in 0 .. n - 1
             /\ Family(Subtree(context)', parent', context', created')
  <2>1. created' \in 0 .. MaxNodes /\ Linked(children', parent', created')
    BY <1>2, ForestLinked DEF StackTyped, HeapTyped, Forest
  <2> QED
    BY <2>1, TreeFamily, SubtreeIsTree DEF Linked
<1> QED
  BY <1>1, <1>2

\* What was destroyed is older than the context; and while every structure has had a
\* header, the tree of the context is all that was made since.
TreeInv ==
    /\ context # 0 => freed \subseteq 1 .. context - 1
    /\ Parsing /\ headed => context .. created \subseteq Subtree(context)

LostInv == IInv /\ HeapTyped /\ Forest /\ TreeInv

\* One step of LostOnlyKnown
Accounted ==
    Lost' # Lost =>
      \/ /\ pc = "header" /\ ~headed /\ Top \notin Subtree(context)
         /\ Lost' = Lost \cup {created'}
      \/ /\ pc = "idle" /\ context # 0
         /\ Lost' = Lost \cup Subtree(context)

\* Before and after a step, without the definitions: k nodes, of which those in d are
\* destroyed and those in S in the tree of the context c
LEMMA TreesOf ==
    ASSUME LostInv, (IInv /\ HeapTyped /\ Forest)'
    PROVE  /\ created \in Nat /\ created' \in Nat
           /\ freed \subseteq 1 .. created
           /\ context \in 0 .. created /\ context' \in 0 .. created'
           /\ \A n \in 1 .. created : parent[n] \in 0 .. n - 1
           /\ \A n \in 1 .. created' : parent'[n] \in 0 .. n - 1
           /\ Family(Subtree(context), parent, context, created)
           /\ Family(Subtree(context)', parent', context', created')
           /\ context = 0 => Subtree(context) = {}
           /\ context' = 0 => Subtree(context)' = {}
           /\ \A n \in Subtree(context) : n >= context /\ n \in 1 .. created
           /\ \A n \in Subtree(context)' : n >= context' /\ n \in 1 .. created'
           /\ context' # 0 => context' \in Subtree(context)'
<1>1. /\ created \in Nat /\ created' \in Nat
      /\ freed \subseteq 1 .. created
      /\ context \in 0 .. created /\ context' \in 0 .. created'
  BY BoundsAssumption DEF LostInv, IInv, StackTyped
<1>2. /\ \A n \in 1 .. created : parent[n] \in 0 .. n - 1
      /\ Family(Subtree(context), parent, context, created)
  BY ContextFamily DEF LostInv, IInv
<1>3. /\ \A n \in 1 .. created' : parent'[n] \in 0 .. n - 1
      /\ Family(Subtree(context)', parent', context', created')
  BY ContextFamily DEF IInv
<1>4. context \in Nat /\ context' \in Nat
  BY <1>1
<1>5. /\ context = 0 => Subtree(context) = {}
      /\ \A n \in Subtree(context) : n >= context /\ n \in 1 .. created
  BY <1>1, <1>2, <1>4, FamilyYounger
<1>6. /\ context' = 0 => Subtree(context)' = {}
      /\ \A n \in Subtree(context)' : n >= context' /\ n \in 1 .. created'
      /\ context' \in 1 .. created' => context' \in Subtree(context)'
  BY <1>1, <1>3, <1>4, FamilyYounger
<1>7. context' # 0 => context' \in 1 .. created'
  BY <1>1
<1> QED
  BY <1>1, <1>2, <1>3, <1>5, <1>6, <1>7

\* What create does to the parent pointers
LEMMA CreateRoots ==
    ASSUME IInv, HeapTyped, NEW p, NEW c, Create(p, c)
    PROVE  /\ created' = created + 1 /\ freed' = freed
           /\ parent'[created + 1] = p
           /\ \A n \in 1 .. created : parent'[n] = parent[n]
           /\ created + 1 \notin freed /\ created \in Nat
           /\ 1 .. created' = (1 .. created) \cup {created + 1}
<1>1. /\ created \in Nat /\ MaxNodes \in Nat /\ created < MaxNodes
      /\ freed \subseteq 1 .. created /\ DOMAIN parent = Node
  BY BoundsAssumption DEF IInv, StackTyped, HeapTyped, Create
<1>2. /\ created' = created + 1 /\ freed' = freed
      /\ parent' = [parent EXCEPT ![created + 1] = p]
  BY DEF Create
<1>3. created + 1 \in Node /\ \A n \in 1 .. created : n \in Node /\ n # created + 1
  BY <1>1 DEF Node
<1> QED
  BY <1>1, <1>2, <1>3

\* A step that leaves the heap alone loses nothing.
LEMMA SameHeap ==
    ASSUME LostInv, UNCHANGED <<context, created, freed, children>>,
           Parsing' /\ headed' => Parsing /\ headed
    PROVE  TreeInv' /\ Accounted
<1>1. Subtree(context)' = Subtree(context)
  BY SubtreeIsTree
<1>2. Lost' = Lost
  BY <1>1 DEF Lost
<1>3. TreeInv'
  BY <1>1 DEF LostInv, TreeInv
<1> QED
  BY <1>2, <1>3 DEF Accounted

\* A second parse without clear() loses the tree of the context of the first, and that only.
LEMMA ParseLost ==
    ASSUME LostInv, (IInv /\ HeapTyped /\ Forest)', Parse
    PROVE  TreeInv' /\ Accounted
<1>1. /\ pc = "idle"
      /\ \/ UNCHANGED <<context, heap>> /\ pc' = pc
         \/ Create(0, Blank) /\ context' = created'
  BY Zenon DEF Parse
<1>2. CASE UNCHANGED <<context, heap>> /\ pc' = pc
  BY <1>1, <1>2, SameHeap DEF Parsing, heap
<1>3. CASE Create(0, Blank) /\ context' = created'
  <2> DEFINE S == Subtree(context)
             S2 == Subtree(context)'
             k == created
  <2>1. /\ k \in Nat /\ freed \subseteq 1 .. k /\ context \in 0 .. k
        /\ context = 0 => S = {}
        /\ \A n \in S : n >= context /\ n \in 1 .. k
        /\ \A n \in S2 : n >= context' /\ n \in 1 .. created'
        /\ context' # 0 => context' \in S2
    BY TreesOf
  <2>2. /\ created' = k + 1 /\ context' = k + 1 /\ freed' = freed
        /\ 1 .. created' = (1 .. k) \cup {k + 1}
    BY <1>3, CreateRoots DEF LostInv
  <2>3. Lost = {n \in 1 .. k : n \notin freed /\ n \notin S}
    BY DEF Lost
  <2>4. Lost' = {n \in 1 .. k + 1 : n \notin freed /\ n \notin S2}
    BY <2>2 DEF Lost
  <2>5. context # 0 => freed \subseteq 1 .. context - 1
    BY DEF LostInv, TreeInv
  <2> HIDE DEF S, S2, k
  <2>6. S2 = {k + 1}
    BY <2>1, <2>2
  <2>7. TreeInv'
    <3>1. (k + 1) .. (k + 1) \subseteq S2 /\ freed \subseteq 1 .. (k + 1) - 1
      BY <2>1, <2>6
    <3> QED
      BY <2>2, <3>1 DEF TreeInv, S2
  <2>8. Lost' = {n \in 1 .. k : n \notin freed}
    BY <2>1, <2>4, <2>6
  <2>9. CASE context = 0
    BY <2>1, <2>3, <2>7, <2>8, <2>9 DEF Accounted
  <2>10. CASE context # 0
    <3>1. \A n \in S : n \notin freed /\ n \in 1 .. k
      BY <2>1, <2>5, <2>10
    <3>2. Lost' = Lost \cup S
      BY <2>3, <2>8, <3>1
    <3> QED
      BY <1>1, <2>7, <2>10, <3>2 DEF Accounted, S
  <2> QED
    BY <2>9, <2>10
<1> QED
  BY <1>1, <1>2, <1>3

\* clear() and setBuffer() destroy the tree of the context: nothing of it is left
\* behind, and nothing else goes with it.
LEMMA SetBufferLost ==
    ASSUME LostInv, (IInv /\ HeapTyped /\ Forest)', NEW buf, SetBuffer(buf)
    PROVE  TreeInv' /\ Accounted
<1>1. /\ freed' = IF context = 0 THEN freed ELSE freed \cup Subtree(context)
      /\ context' = 0 /\ created' = created /\ pc = "idle" /\ pc' = pc
  BY DEF SetBuffer
<1>2. Subtree(context)' = {} /\ (context = 0 => Subtree(context) = {})
  BY <1>1, TreesOf
<1>3. Lost = {n \in 1 .. created : n \notin freed /\ n \notin Subtree(context)}
  BY DEF Lost
<1>4. Lost' = {n \in 1 .. created : n \notin freed'}
  BY <1>1, <1>2 DEF Lost
<1>5. Lost' = Lost
  BY <1>1, <1>2, <1>3, <1>4
<1>6. TreeInv'
  BY <1>1 DEF TreeInv, Parsing
<1> QED
  BY <1>5, <1>6 DEF Accounted

\* The node of a header is in the tree when every structure has had a header.
LEMMA HeaderLost ==
    ASSUME LostInv, (IInv /\ HeapTyped /\ Forest)', ParseHeader
    PROVE  TreeInv' /\ Accounted
<1>1. /\ pc = "header" /\ context' = context /\ headed' = headed
      /\ UNCHANGED heap \/ \E c : Create(Top, c)
  BY Zenon DEF ParseHeader
<1>2. CASE UNCHANGED heap
  BY <1>1, <1>2, SameHeap DEF Parsing, heap
<1>3. ASSUME NEW c, Create(Top, c) PROVE TreeInv' /\ Accounted
  <2> DEFINE S == Subtree(context)
             S2 == Subtree(context)'
             k == created
             t == Top
  <2>1. /\ k \in Nat /\ freed \subseteq 1 .. k /\ context \in 0 .. k
        /\ Family(S, parent, context, k)
        /\ Family(S2, parent', context', created')
        /\ \A n \in 1 .. k : parent[n] \in 0 .. n - 1
    BY TreesOf
  <2>2. /\ created' = k + 1 /\ freed' = freed
        /\ parent'[k + 1] = t
        /\ \A n \in 1 .. k : parent'[n] = parent[n]
        /\ 1 .. created' = (1 .. k) \cup {k + 1}
    BY <1>3, CreateRoots DEF LostInv
  <2>3. Lost = {n \in 1 .. k : n \notin freed /\ n \notin S}
    BY DEF Lost
  <2>4. Lost' = {n \in 1 .. k + 1 : n \notin freed /\ n \notin S2}
    BY <2>2 DEF Lost
  <2>5. t \in 0 .. k
    BY TopTyped DEF LostInv, IInv
  <2>6. context # 0 => freed \subseteq 1 .. context - 1
    BY DEF LostInv, TreeInv
  <2>7. headed => context .. k \subseteq S /\ t \in context .. k
    <3>1. headed => context .. k \subseteq S
      BY <1>1 DEF LostInv, TreeInv, Parsing
    <3>2. headed => context <= t
      BY <1>1, IInvTopLive DEF LostInv, TopLive, Parsing
    <3> QED
      BY <2>1, <2>5, <3>1, <3>2
  <2> HIDE DEF S, S2, k, t
  <2>8. \A n \in 1 .. k : n \in S <=> n \in S2
    <3>1. k + 1 \in Nat /\ k <= k + 1
      BY <2>1
    <3>2. Family(S2, parent', context, k + 1)
      BY <1>1, <2>1, <2>2
    <3> QED
      BY <2>1, <2>2, <3>1, <3>2, FamilyGrows
  <2>9. k + 1 \in S2 <=> t \in S
    <3>1. k + 1 \in S2 <=> (k + 1 = context \/ t \in S2)
      BY <1>1, <2>1, <2>2 DEF Family
    <3>2. t \in S2 <=> t \in S
      <4>1. 0 \notin S /\ 0 \notin S2
        BY <2>1 DEF Family
      <4>2. t = 0 \/ t \in 1 .. k
        BY <2>1, <2>5
      <4> QED
        BY <2>8, <4>1, <4>2
    <3>3. k + 1 # context
      BY <2>1
    <3> QED
      BY <3>1, <3>2, <3>3
  <2>10. TreeInv'
    <3>1. headed => context .. k + 1 \subseteq S2
      <4>1. ASSUME headed, NEW n \in context .. k + 1 PROVE n \in S2
        <5>1. n = k + 1 \/ n \in context .. k
          BY <2>1
        <5>2. n \in context .. k => n \in S /\ n \in 1 .. k
          BY <2>1, <2>7, <4>1 DEF Family
        <5> QED
          BY <2>7, <2>8, <2>9, <4>1, <5>1, <5>2
      <4> QED
        BY <4>1
    <3> QED
      BY <1>1, <2>2, <2>6, <3>1 DEF TreeInv, S2
  <2>11. CASE t \in S
    <3>1. Lost' = Lost
      BY <2>3, <2>4, <2>8, <2>9, <2>1, <2>11
    <3> QED
      BY <2>10, <3>1 DEF Accounted
  <2>12. CASE t \notin S
    <3>1. Lost' = Lost \cup {k + 1}
      BY <2>3, <2>4, <2>8, <2>9, <2>1, <2>12
    <3>2. ~headed
      BY <2>7, <2>12
    <3> QED
      BY <1>1, <2>2, <2>10, <2>12, <3>1, <3>2 DEF Accounted, S, t
  <2> QED
    BY <2>11, <2>12
<1> QED
  BY <1>1, <1>2, <1>3

LEMMA LostNext ==
    ASSUME LostInv, [Next]_vars
    PROVE  LostInv' /\ Accounted
<1>1. (IInv /\ HeapTyped /\ Forest)'
  BY IInvInductive, ForestStep DEF LostInv, IInv
<1>2. TreeInv' /\ Accounted
  <2>1. CASE Call
    BY <1>1, <2>1, ParseLost, SetBufferLost DEF Call, Clear
  <2>2. CASE ParseHeader
    BY <1>1, <2>2, HeaderLost
  <2>3. CASE UNCHANGED vars
    <3>1. UNCHANGED <<context, heap>> /\ Parsing' = Parsing /\ headed' = headed
      BY <2>3 DEF vars, Parsing
    <3> QED
      BY <3>1, SameHeap DEF heap
  <2>4. ASSUME Step, ~ParseHeader PROVE TreeInv' /\ Accounted
    <3>1. Parsing
      BY <2>4 DEF Step, ParseLoop, NoHeader, BadHeader,
         ParseStructure, ParseStructureBody, BadBody, ParseDataItem, SetNodeValues,
         ParseArrayItem, EndOfArrayItem, SetNodeDataArrayList, BadData, CloseData,
         BadClose, StructureLoop, Parsing
    <3>2. UNCHANGED <<context, created, freed, parent, children>>
      BY <2>4 DEF Step, ParseLoop, NoHeader, BadHeader,
         ParseStructure, ParseStructureBody, BadBody, ParseDataItem, SetNodeValues,
         ParseArrayItem, EndOfArrayItem, SetNodeDataArrayList, BadData, CloseData,
         BadClose, StructureLoop, Undefined, heap
    <3>3. headed' => headed
      <4>1. headed' = headed \/ headed' = (headed /\ pushed)
        <5>1. CASE ParseStructure
          BY <5>1, Zenon DEF ParseStructure
        <5>2. CASE ~ParseStructure
          BY <2>4, <5>2 DEF Step, ParseLoop, NoHeader, BadHeader,
             ParseStructureBody, BadBody, ParseDataItem, SetNodeValues,
             ParseArrayItem, EndOfArrayItem, SetNodeDataArrayList, BadData, CloseData,
             BadClose, StructureLoop, Undefined
        <5> QED
          BY <5>1, <5>2
      <4> QED
        BY <4>1, Zenon
    <3> QED
      BY <3>1, <3>2, <3>3, SameHeap
  <2> QED
    BY <2>1, <2>2, <2>3, <2>4 DEF Next
<1> QED
  BY <1>1, <1>2 DEF LostInv

\* On every set of texts, however often the parser is used: nodes get out of reach
\* only as the node of a header behind a structure without one, and then by itself, or
\* as the whole tree of a context that a second parse() overwrites.  clear() and
\* setBuffer() destroy the tree of the context to its last node, and nothing else.
THEOREM ParserLostOnlyKnown == Spec => LostOnlyKnown
<1>1. Init => LostInv
  <2>1. Init => TreeInv
    BY DEF Init, TreeInv, Parsing
  <2> QED
    BY <2>1, InitIInv, InitForest DEF LostInv
<1>2. LostInv /\ [Next]_vars => LostInv' /\ [Accounted]_<<context, heap>>
  BY LostNext
<1> QED
  BY <1>1, <1>2, PTL DEF Spec, LostOnlyKnown, Accounted
=============================================================================

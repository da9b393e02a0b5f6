------------------------ MODULE OpenDDLExportProofs ------------------------
(***************************************************************************)
(* The exporter and its file, for trees and numbers of exports of any size;*)
(* the values it writes, which the parser reads again; and the headers the *)
(* parser reads, with the objects they are made of, of any length.         *)
(***************************************************************************)
EXTENDS OpenDDLExport, DDLValue, DDLHeader, Induction, SequenceTheorems, TLAPS

Activation == [node : Node, idx : Nat]
Statements == {Statement(n) : n \in Node}

\* The part of the state TypeOK says nothing about, and the files that are open:
\* none before the first export, only the one in hand before the second.
IInv ==
    /\ TypeOK
    /\ children \in Children
    /\ file \in Seq(Statements)
    /\ opened \in Nat
    /\ exports = 0 => handle = 0
    /\ exports <= 1 => open \subseteq {handle}
    /\ pc = "gone" => handle = 0 /\ (exports <= 1 => open = {})
    /\ 0 \notin open

\* TypeOK by its parts.
LEMMA Types ==
    TypeOK => /\ handle \in 0 .. opened /\ open \subseteq 1 .. opened
              /\ exports \in Nat /\ exports \in 0 .. MaxExports
              /\ frames \in Seq(Activation) /\ visited \in Seq(Node)
              /\ (pc = "walk" <=> frames # <<>> /\ pc # "undefined")
<1>1. TypeOK => exports \in 0 .. MaxExports
  BY Zenon DEF TypeOK
<1>2. TypeOK => /\ handle \in 0 .. opened /\ open \subseteq 1 .. opened
                /\ frames \in Seq(Activation) /\ visited \in Seq(Node)
                /\ (pc = "walk" <=> frames # <<>> /\ pc # "undefined")
  BY Zenon DEF TypeOK, Activation
<1>3. exports \in 0 .. MaxExports => exports \in Nat
  OBVIOUS
<1> QED
  BY <1>1, <1>2, <1>3, Zenon

LEMMA InitIInv == Init => IInv
<1> SUFFICES ASSUME Init PROVE IInv
  OBVIOUS
<1>1. frames \in Seq(Activation) /\ visited \in Seq(Node) /\ file \in Seq(Statements)
  BY EmptySeq DEF Init
<1>2. handle \in 0 .. opened /\ open \subseteq 1 .. opened /\ exports \in 0 .. MaxExports
  BY MaxExportsAssumption DEF Init
<1>3. TypeOK
  BY <1>1, <1>2 DEF Init, TypeOK, Activation
<1> QED
  BY <1>1, <1>3 DEF Init, IInv

LEMMA OpenStream ==
    ASSUME IInv, Open
    PROVE  /\ opened' \in Nat /\ handle' \in 0 .. opened' /\ open' \subseteq 1 .. opened'
           /\ open' \subseteq open \cup {handle'}
           /\ file' = file
<1>1. opened \in Nat /\ open \subseteq 1 .. opened
  BY DEF IInv, TypeOK
<1>2. CASE opened' = opened + 1 /\ handle' = opened' /\ open' = open \cup {handle'} /\ file' = Appended(file)
  BY <1>1, <1>2 DEF Appended
<1>3. CASE handle' = 0 /\ UNCHANGED <<opened, open, file>>
  BY <1>1, <1>3
<1> QED
  BY <1>2, <1>3 DEF Open

LEMMA ExportIInv == ASSUME NEW named \in BOOLEAN PROVE IInv /\ Export(named) => IInv'
<1> SUFFICES ASSUME IInv, Export(named) PROVE IInv'
  OBVIOUS
<1>1. /\ pc = "idle" /\ exports < MaxExports /\ exports' = exports + 1
      /\ visited' = <<>> /\ lost' = FALSE
      /\ children' = children
      /\ IF named THEN Open ELSE UNCHANGED stream
  BY DEF Export, input
<1>2. exports \in Nat /\ MaxExports \in Nat /\ exports' \in 0 .. MaxExports /\ exports' # 0
  BY <1>1, MaxExportsAssumption, Types DEF IInv
<1>3. /\ opened' \in Nat /\ handle' \in 0 .. opened' /\ open' \subseteq 1 .. opened'
      /\ open' \subseteq open \cup {handle'} /\ file' = file
  <2>1. CASE named
    BY <2>1, <1>1, OpenStream
  <2>2. CASE ~named
    BY <2>2, <1>1 DEF stream, IInv, TypeOK
  <2> QED
    BY <2>1, <2>2
<1>4. exports' <= 1 => open' \subseteq {handle'}
  <2>1. exports' <= 1 => exports = 0 /\ open = {}
    BY <1>1, <1>2 DEF IInv
  <2> QED
    BY <2>1, <1>3
<1>5. /\ frames' \in Seq(Activation)
      /\ result' \in {"none", "true", "false", "empty"}
      /\ pc' \in {"idle", "walk"}
      /\ pc' = "walk" <=> frames' # <<>>
  <2>1. CASE named /\ handle' = 0
    <3>1. result' = "false" /\ frames' = frames /\ pc' = pc
      BY <2>1 DEF Export
    <3> QED
      BY <3>1, <1>1 DEF IInv, TypeOK, Activation
  <2>2. CASE ~(named /\ handle' = 0)
    <3>1. /\ frames' = <<[node |-> 1, idx |-> 0]>> /\ result' = "none" /\ pc' = "walk"
      BY <2>2 DEF Export
    <3>2. [node |-> 1, idx |-> 0] \in Activation
      BY NodeAssumption DEF Activation
    <3> QED
      BY <3>1, <3>2
  <2> QED
    BY <2>1, <2>2
<1>6. visited' \in Seq(Node) /\ lost' \in BOOLEAN
  BY <1>1, EmptySeq
<1>7. TypeOK'
  BY <1>2, <1>3, <1>5, <1>6 DEF TypeOK, Activation
<1> QED
  BY <1>1, <1>2, <1>3, <1>4, <1>5, <1>7 DEF IInv

LEMMA WriteNodeIInv ==
    IInv /\ WriteNode => IInv' /\ (file' = file \/ file' = Append(file, Statement(Current)))
<1> SUFFICES ASSUME IInv, WriteNode
             PROVE  IInv' /\ (file' = file \/ file' = Append(file, Statement(Current)))
  OBVIOUS
<1> DEFINE k == Len(frames)
<1>1. frames \in Seq(Activation) /\ frames # <<>> /\ k \in Nat /\ DOMAIN frames = 1 .. k
  BY Types, LenProperties DEF WriteNode, IInv
<1>2. k # 0 /\ k \in DOMAIN frames /\ frames[k] \in Activation
  BY <1>1
<1>3. Siblings \in Seq(Node) /\ Frame.idx \in Nat /\ Frame = frames[k]
  BY <1>2, ChildrenAssumption DEF Siblings, Frame, Activation, IInv
<1>4. Current \in Node
  BY <1>3 DEF WriteNode, HasNext, Current
<1>5. /\ frames' = Append([frames EXCEPT ![k].idx = frames[k].idx + 1],
                           [node |-> Current, idx |-> 0])
      /\ visited' = Append(visited, Current)
      /\ UNCHANGED <<children, handle, opened, open, result, exports, pc>>
      /\ (file' = Append(file, Statement(Current)) /\ lost' = lost) \/ (lost' = TRUE /\ file' = file)
  BY DEF WriteNode, Entered, input
<1> HIDE DEF k
<1>6. [frames[k] EXCEPT !.idx = frames[k].idx + 1] \in Activation
  BY <1>2 DEF Activation
<1>7. [frames EXCEPT ![k].idx = frames[k].idx + 1] \in Seq(Activation)
  BY <1>6, <1>1, <1>2, ExceptSeq
<1>8. [node |-> Current, idx |-> 0] \in Activation
  BY <1>4 DEF Activation
<1>9. frames' \in Seq(Activation) /\ frames' # <<>>
  BY <1>5, <1>7, <1>8, AppendProperties
<1>10. visited' \in Seq(Node)
  BY <1>4, <1>5, AppendProperties DEF IInv, TypeOK
<1>11. file' \in Seq(Statements) /\ lost' \in BOOLEAN /\ (file' = file \/ file' = Append(file, Statement(Current)))
  <2>1. CASE file' = Append(file, Statement(Current)) /\ lost' = lost
    <3>1. Statement(Current) \in Statements
      BY <1>4 DEF Statements
    <3> QED
      BY <2>1, <3>1, AppendProperties DEF IInv, TypeOK
  <2>2. CASE lost' = TRUE /\ file' = file
    BY <2>2 DEF IInv
  <2> QED
    BY <2>1, <2>2, <1>5
<1>12. pc = "walk" /\ pc' = "walk"
  BY <1>5 DEF WriteNode
<1>13. TypeOK'
  BY <1>5, <1>9, <1>10, <1>11, <1>12 DEF IInv, TypeOK, Activation
<1> QED
  BY <1>5, <1>11, <1>12, <1>13 DEF IInv

LEMMA EndOfChildrenIInv == IInv /\ EndOfChildren => IInv'
<1> SUFFICES ASSUME IInv, EndOfChildren PROVE IInv'
  OBVIOUS
<1> DEFINE k == Len(frames)
<1>1. frames \in Seq(Activation) /\ frames # <<>> /\ k \in Nat
  BY Types, LenProperties DEF EndOfChildren, IInv
<1>2. k # 0
  BY <1>1
<1>3. /\ frames' = SubSeq(frames, 1, k - 1)
      /\ UNCHANGED <<children, file, handle, opened, open, visited, lost, exports>>
      /\ IF k = 1 THEN pc' = "idle" /\ result' = "true" ELSE UNCHANGED <<pc, result>>
      /\ pc = "walk"
  BY DEF EndOfChildren, Front, Outermost, input, stream
<1> HIDE DEF k
<1>4. frames' \in Seq(Activation) /\ Len(frames') = k - 1
  <2>1. \A i \in 1 .. k - 1 : frames[i] \in Activation
    BY <1>1, ElementOfSeq DEF k
  <2> QED
    BY <2>1, <1>1, <1>2, <1>3, SubSeqProperties
<1>5. frames' = <<>> <=> k = 1
  BY <1>4, <1>1, EmptySeq
<1>6. /\ result' \in {"none", "true", "false", "empty"}
      /\ pc' \in {"idle", "walk"}
      /\ pc' = "walk" <=> frames' # <<>>
  <2>1. CASE k = 1
    BY <2>1, <1>3, <1>5
  <2>2. CASE k # 1
    BY <2>2, <1>3, <1>5 DEF IInv, TypeOK
  <2> QED
    BY <2>1, <2>2
<1>7. TypeOK'
  BY <1>3, <1>4, <1>6 DEF IInv, TypeOK, Activation
<1> QED
  BY <1>3, <1>6, <1>7 DEF IInv

LEMMA IInvNext == IInv /\ [Next]_vars => IInv' /\ IsPrefix(file, file')
<1> SUFFICES ASSUME IInv, [Next]_vars PROVE IInv' /\ IsPrefix(file, file')
  OBVIOUS
<1>0. file \in Seq(Statements)
  BY DEF IInv
<1>1. file' = file => IsPrefix(file, file')
  BY <1>0, LenProperties DEF IsPrefix
<1>2. CASE ExportNothing
  <2>1. /\ pc = "idle" /\ result' \in {"false", "empty"}
        /\ UNCHANGED <<input, stream, walk, exports, pc>>
    BY <1>2 DEF ExportNothing
  <2> QED
    BY <2>1, <1>1 DEF input, stream, walk, IInv, TypeOK
<1>3. ASSUME NEW named \in BOOLEAN, Export(named) PROVE IInv' /\ file' = file
  <2>1. IInv'
    BY <1>3, ExportIInv
  <2>2. file' = file
    BY <1>3, OpenStream DEF Export, stream
  <2> QED
    BY <2>1, <2>2
<1>4. CASE WriteNode
  <2>1. IInv' /\ (file' = file \/ file' = Append(file, Statement(Current)))
    BY <1>4, WriteNodeIInv
  <2>2. CASE file' = Append(file, Statement(Current))
    <3> DEFINE n == Len(file)
    <3>1. n \in Nat /\ Len(file') = n + 1 /\ \A i \in 1 .. n : file'[i] = file[i]
      BY <2>2, <1>0, AppendProperties
    <3>2. file' \in Seq(Statements)
      BY <2>1 DEF IInv
    <3> HIDE DEF n
    <3>3. SubSeq(file', 1, n) = SubSeq(file, 1, n)
      BY <3>1, <3>2, <1>0
    <3> QED
      BY <2>1, <3>1, <3>3 DEF IsPrefix, n
  <2> QED
    BY <2>1, <2>2, <1>1
<1>5. CASE WriteNodeWithoutValues
  <2>1. /\ pc = "walk" /\ pc' = "undefined"
        /\ UNCHANGED <<input, stream, walk, result, exports>>
    BY <1>5 DEF WriteNodeWithoutValues
  <2> QED
    BY <2>1, <1>1 DEF input, stream, walk, IInv, TypeOK
<1>6. CASE EndOfChildren
  BY <1>6, <1>1, EndOfChildrenIInv DEF EndOfChildren, stream
<1>7. CASE Destroy
  <2>1. /\ pc = "idle" /\ open' = open \ {handle} /\ handle' = 0 /\ pc' = "gone"
        /\ UNCHANGED <<input, file, opened, walk, result, exports>>
    BY <1>7 DEF Destroy, Closed
  <2>2. handle' \in 0 .. opened' /\ open' \subseteq 1 .. opened'
    BY <2>1, Types DEF IInv
  <2> QED
    BY <2>1, <2>2, <1>1 DEF input, walk, IInv, TypeOK
<1>8. CASE UNCHANGED vars
  BY <1>8, <1>1 DEF vars, input, stream, walk, IInv, TypeOK
<1> QED
  BY <1>1, <1>2, <1>3, <1>4, <1>5, <1>6, <1>7, <1>8 DEF Next

\* The variables keep their types: no activation of handleNode, and no entry of
\* what was visited, is anything but a node of the tree.
THEOREM ExportTypeOK == Spec => []TypeOK
<1>1. IInv => TypeOK
  BY DEF IInv
<1> QED
  BY <1>1, InitIInv, IInvNext, PTL DEF Spec

\* An exporter used once leaves no file open when it is destroyed, whatever the
\* tree and whether opening and writing failed or not; only a second export to a
\* named file can leave one.
THEOREM ExportNoFileLeftOpen == Spec => []NoFileLeftOpen
<1>1. IInv => NoFileLeftOpen
  <2> SUFFICES ASSUME IInv PROVE NoFileLeftOpen
    OBVIOUS
  <2>1. exports \in Nat
    BY Types DEF IInv
  <2> QED
    BY <2>1 DEF IInv, NoFileLeftOpen
<1> QED
  BY <1>1, InitIInv, IInvNext, PTL DEF Spec

\* No export takes anything out of a file that is there.
THEOREM ExportFileOnlyGrows == Spec => FileOnlyGrows
<1>1. IInv /\ [Next]_vars => [IsPrefix(file, file')]_file
  BY IInvNext
<1>2. Spec => [][IsPrefix(file, file')]_file
  BY <1>1, InitIInv, IInvNext, PTL DEF Spec
<1> QED
  BY <1>2 DEF FileOnlyGrows

-----------------------------------------------------------------------------
(* Sequences of sequences, flattened.                                      *)

\* What joins x, y and z does so from either end.
Joined(x, y, z) == (x \o y) \o z = x \o (y \o z)

LEMMA JoinThree ==
    \A S : \A x, y, z \in Seq(S) : Joined(x, y, z)
<1> SUFFICES ASSUME NEW S, NEW x \in Seq(S), NEW y \in Seq(S), NEW z \in Seq(S)
             PROVE  (x \o y) \o z = x \o (y \o z)
  BY DEF Joined
<1> QED
  BY ConcatAssociative

LEMMA FlattenEmpty ==
    ASSUME NEW S, NEW s \in Seq(S), Len(s) = 0
    PROVE  FlattenSeq(s) = <<>>
<1>1. FlattenSeq(s) = s
  BY Zenon DEF FlattenSeq
<1> QED
  BY <1>1, EmptySeq

\* f is, at each number, what that many sequences of s come to.
Flattens(f, s, m) == f[1] = s[1] /\ \A i \in 2 .. m : f[i] = f[i - 1] \o s[i]

\* FlattenSeq satisfies its equations.
LEMMA FlattenIs ==
    ASSUME NEW S, NEW s \in Seq(Seq(S)), NEW m \in Nat, m = Len(s), m # 0
    PROVE  \E f \in [1 .. m -> Seq(S)] : Flattens(f, s, m) /\ FlattenSeq(s) = f[m]
<1> DEFINE V == Seq(S)
           k == m - 1
           step == [x \in V \X (1 .. k) |-> x[1] \o s[x[2] + 1]]
           Def(f) == f = [i \in 1 .. m |-> IF i = 1 THEN s[i] ELSE f[i - 1] \o s[i]]
<1>1. k \in Nat /\ \A i \in 1 .. m : s[i] \in V
  BY ElementOfSeq
<1>2. \A x, y \in V : x \o y \in V
  BY ConcatProperties
<1>3. \A i \in 1 .. k : i + 1 \in 1 .. m
  BY <1>1
<1> HIDE DEF V, k
<1>4. step \in [V \X (1 .. k) -> V] /\ \A x \in V, i \in 1 .. k : step[<<x, i>>] = x \o s[i + 1]
  BY <1>1, <1>2, <1>3
<1>5. s[1] \in V
  BY <1>1
<1>6. PICK g \in [0 .. k -> V] : Recursive(g, s[1], step, k)
  <2> HIDE DEF step
  <2> QED
    BY <1>1, <1>4, <1>5, RecursiveFunction, Zenon
<1>7. \E f : Def(f)
  <2> DEFINE f == [i \in 1 .. m |-> g[i - 1]]
  <2>1. ASSUME NEW i \in 1 .. m PROVE f[i] = IF i = 1 THEN s[i] ELSE f[i - 1] \o s[i]
    <3>1. CASE i = 1
      BY <3>1, <1>6 DEF Recursive
    <3>2. CASE i # 1
      <4>1. i - 1 \in 1 .. k /\ i - 1 \in 1 .. m /\ (i - 1) + 1 = i /\ (i - 1) - 1 \in 0 .. k
        BY <3>2 DEF k
      <4>2. f[i] = g[i - 1] /\ f[i - 1] = g[(i - 1) - 1]
        BY <4>1
      <4>3. g[i - 1] = step[<<g[(i - 1) - 1], i - 1>>]
        BY <4>1, <1>6 DEF Recursive
      <4>4. g[(i - 1) - 1] \in V
        BY <4>1
      <4> HIDE DEF f, step
      <4>5. step[<<g[(i - 1) - 1], i - 1>>] = g[(i - 1) - 1] \o s[(i - 1) + 1]
        BY <4>1, <4>4, <1>4
      <4> QED
        BY <4>1, <4>2, <4>3, <4>5, <3>2
    <3> QED
      BY <3>1, <3>2
  <2>2. f = [i \in 1 .. m |-> f[i]]
    OBVIOUS
  <2> HIDE DEF f
  <2>3. Def(f)
    BY <2>1, <2>2
  <2> HIDE DEF Def
  <2> QED
    BY <2>3
<1> DEFINE c == CHOOSE f : Def(f)
<1>8. Def(c)
  <2> HIDE DEF Def
  <2> QED
    BY <1>7, Zenon
<1>9. FlattenSeq(s) = c[m]
  <2>1. FlattenSeq(s) = c[Len(s)]
    BY Zenon DEF FlattenSeq
  <2> QED
    BY <2>1
<1> HIDE DEF c
<1>10. c = [i \in 1 .. m |-> c[i]] /\ c[1] = s[1] /\ \A i \in 2 .. m : c[i] = c[i - 1] \o s[i]
  <2>1. \A f : Def(f) => /\ f = [i \in 1 .. m |-> f[i]] /\ f[1] = s[1]
                         /\ \A i \in 2 .. m : f[i] = f[i - 1] \o s[i]
    <3>1. 1 \in 1 .. m /\ \A i \in 2 .. m : i \in 1 .. m /\ i # 1
      OBVIOUS
    <3> QED
      BY <3>1, Zenon
  <2> HIDE DEF Def
  <2> QED
    BY <1>8, <2>1
<1>11. \A i \in 1 .. m : c[i] \in V
  <2> DEFINE T == {i \in 0 .. k : c[i + 1] \in V}
  <2>1. 0 \in T
    BY <1>1, <1>5, <1>10
  <2>2. \A i \in 0 .. k - 1 : i \in T => i + 1 \in T
    <3> SUFFICES ASSUME NEW i \in 0 .. k - 1, c[i + 1] \in V PROVE c[(i + 1) + 1] \in V
      BY <1>1
    <3>1. (i + 1) + 1 \in 2 .. m /\ ((i + 1) + 1) - 1 = i + 1
      BY <1>1 DEF k
    <3>2. c[(i + 1) + 1] = c[i + 1] \o s[(i + 1) + 1] /\ s[(i + 1) + 1] \in V
      <4>1. (i + 1) + 1 \in 1 .. m
        BY <3>1
      <4> QED
        BY <3>1, <4>1, <1>1, <1>10
    <3> QED
      BY <3>2, <1>2, Zenon
  <2> HIDE DEF T
  <2>3. \A i \in 0 .. k : i \in T
    BY <1>1, <2>1, <2>2, BoundedInduction
  <2>4. \A i \in 1 .. m : i - 1 \in 0 .. k /\ (i - 1) + 1 = i
    BY DEF k
  <2> QED
    BY <2>3, <2>4 DEF T
<1>12. c \in [1 .. m -> V]
  BY <1>10, <1>11
<1> QED
  BY <1>9, <1>10, <1>12 DEF V, Flattens

LEMMA FlattenTyped ==
    ASSUME NEW S, NEW s \in Seq(Seq(S))
    PROVE  FlattenSeq(s) \in Seq(S)
<1>1. CASE Len(s) = 0
  BY <1>1, FlattenEmpty, EmptySeq
<1>2. CASE Len(s) # 0
  <2>1. Len(s) \in Nat
    BY LenProperties
  <2>2. PICK f \in [1 .. Len(s) -> Seq(S)] : FlattenSeq(s) = f[Len(s)]
    BY <1>2, <2>1, FlattenIs, Zenon
  <2>3. Len(s) \in 1 .. Len(s)
    BY <1>2, <2>1
  <2> QED
    BY <2>2, <2>3, Zenon
<1> QED
  BY <1>1, <1>2

\* The first sequence comes first, the others behind it.
LEMMA FlattenFirst ==
    ASSUME NEW S, NEW s \in Seq(Seq(S)), NEW t \in Seq(Seq(S)), Len(s) = Len(t) + 1,
           \A i \in 1 .. Len(t) : t[i] = s[i + 1]
    PROVE  FlattenSeq(s) = s[1] \o FlattenSeq(t)
<1> DEFINE k == Len(t)
<1>1. k \in Nat /\ k + 1 = Len(s) /\ k + 1 # 0 /\ k + 1 \in Nat
  BY LenProperties
<1>2. (\A i \in 1 .. k + 1 : s[i] \in Seq(S)) /\ (\A i \in 1 .. k : t[i] \in Seq(S) /\ t[i] = s[i + 1])
  BY <1>1, ElementOfSeq
<1> HIDE DEF k
<1>3. PICK f \in [1 .. k + 1 -> Seq(S)] : Flattens(f, s, k + 1) /\ FlattenSeq(s) = f[k + 1]
  BY <1>1, FlattenIs, Zenon
<1>4. CASE k = 0
  <2>1. FlattenSeq(t) = <<>>
    BY <1>4, FlattenEmpty DEF k
  <2> QED
    <3>1. 1 \in 1 .. k + 1 /\ k + 1 = 1
      BY <1>4
    <3>2. s[1] \in Seq(S) /\ f[1] = s[1]
      BY <3>1, <1>2, <1>3 DEF Flattens
    <3>3. s[1] \o <<>> = s[1]
      BY <3>2, ConcatEmptySeq
    <3> QED
      BY <2>1, <1>3, <3>1, <3>2, <3>3
<1>5. CASE k # 0
  <2>1. PICK g \in [1 .. k -> Seq(S)] : Flattens(g, t, k) /\ FlattenSeq(t) = g[k]
    <3>1. k = Len(t)
      BY DEF k
    <3> QED
      BY <1>1, <1>5, <3>1, FlattenIs, Zenon
  <2> DEFINE T == {i \in 0 .. k - 1 : f[i + 2] = s[1] \o g[i + 1]}
  <2>2. 0 \in T
    <3>1. 0 \in 0 .. k - 1 /\ 2 \in 2 .. k + 1 /\ 2 - 1 = 1 /\ 0 + 2 = 2 /\ 0 + 1 = 1 /\ 1 \in 1 .. k
          /\ 1 + 1 = 2
      BY <1>1, <1>5
    <3>2. f[2] = f[1] \o s[2] /\ t[1] = s[2]
      BY <3>1, <1>2, <1>3 DEF Flattens
    <3>3. f[0 + 2] = s[1] \o g[0 + 1]
      BY <3>1, <3>2, <1>3, <2>1 DEF Flattens
    <3> QED
      BY <3>1, <3>3
  <2>3. \A i \in 0 .. (k - 1) - 1 : i \in T => i + 1 \in T
    <3> SUFFICES ASSUME NEW i \in 0 .. (k - 1) - 1, f[i + 2] = s[1] \o g[i + 1]
                 PROVE  i + 1 \in 0 .. k - 1 /\ f[(i + 1) + 2] = s[1] \o g[(i + 1) + 1]
      BY <1>1
    <3>1. /\ (i + 1) + 2 = i + 3 /\ (i + 1) + 1 = i + 2 /\ (i + 3) - 1 = i + 2 /\ (i + 2) - 1 = i + 1
          /\ i + 3 \in 2 .. k + 1 /\ i + 2 \in 2 .. k /\ i + 2 \in 1 .. k /\ i + 1 \in 1 .. k
          /\ (i + 2) + 1 = i + 3 /\ 1 \in 1 .. k + 1
      BY <1>1
    <3>2. f[i + 3] = f[i + 2] \o s[i + 3]
      BY <3>1, <1>3 DEF Flattens
    <3>3. g[i + 2] = g[i + 1] \o t[i + 2]
      BY <3>1, <2>1 DEF Flattens
    <3>4. s[1] \in Seq(S) /\ g[i + 1] \in Seq(S) /\ t[i + 2] \in Seq(S)
      BY <3>1, <1>2
    <3>5. f[i + 3] = s[1] \o g[i + 2]
      <4>1. t[i + 2] = s[i + 3]
        BY <3>1, <1>2
      <4>2. f[i + 3] = (s[1] \o g[i + 1]) \o t[i + 2]
        BY <3>1, <3>2, <4>1
      <4>3. Joined(s[1], g[i + 1], t[i + 2])
        BY <3>4, JoinThree, Zenon
      <4> QED
        BY <3>3, <4>2, <4>3, Zenon DEF Joined
    <3>6. i + 1 \in 0 .. k - 1
      BY <1>1
    <3> QED
      BY <3>1, <3>5, <3>6
  <2>4. \A i \in 0 .. k - 1 : i \in T
    <3>1. k - 1 \in Nat
      BY <1>1, <1>5
    <3> HIDE DEF T
    <3> QED
      BY <3>1, <2>2, <2>3, BoundedInduction
  <2>5. f[k + 1] = s[1] \o g[k]
    <3>1. k - 1 \in 0 .. k - 1 /\ (k - 1) + 2 = k + 1 /\ (k - 1) + 1 = k
      BY <1>1, <1>5
    <3>2. f[(k - 1) + 2] = s[1] \o g[(k - 1) + 1]
      BY <3>1, <2>4
    <3> QED
      BY <3>1, <3>2
  <2> QED
    BY <1>3, <2>1, <2>5
<1> QED
  BY <1>4, <1>5

-----------------------------------------------------------------------------
(* The order in which a tree is written.                                   *)

\* What is written of the children c of a node behind index i: each of them and
\* what b says is written below it.
Blocks(b, c, i) == [j \in 1 .. Len(c) - 1 - i |-> <<c[i + 1 + j]>> \o b[c[i + 1 + j]]]
Rest(b, c, i) == FlattenSeq(Blocks(b, c, i))

LEMMA FunctionSeq ==
    ASSUME NEW S, NEW k \in Nat, NEW f \in [1 .. k -> S]
    PROVE  f \in Seq(S) /\ Len(f) = k
<1>1. f \in Seq(S)
  BY IsASeq
<1> QED
  BY <1>1, LenProperties

\* They are sequences of nodes, as many as there are children behind i.
NodeBlocks(b, c, i) ==
    /\ Blocks(b, c, i) \in Seq(Seq(Node))
    /\ Len(Blocks(b, c, i)) = IF Len(c) > i + 1 THEN Len(c) - 1 - i ELSE 0
    /\ \A j \in 1 .. Len(c) - 1 - i : Blocks(b, c, i)[j] = <<c[i + 1 + j]>> \o b[c[i + 1 + j]]

LEMMA BlocksAre ==
    ASSUME NEW c \in Seq(Node), NEW b, \A j \in 1 .. Len(c) : b[c[j]] \in Seq(Node), NEW i \in Nat
    PROVE  NodeBlocks(b, c, i)
<1> DEFINE k == IF Len(c) > i + 1 THEN Len(c) - 1 - i ELSE 0
           s == Blocks(b, c, i)
<1>1. Len(c) \in Nat /\ \A j \in 1 .. Len(c) : c[j] \in Node
  BY LenProperties, ElementOfSeq
<1>2. k \in Nat /\ 1 .. Len(c) - 1 - i = 1 .. k
  BY <1>1
<1>3. ASSUME NEW j \in 1 .. Len(c) - 1 - i PROVE <<c[i + 1 + j]>> \o b[c[i + 1 + j]] \in Seq(Node)
  <2>1. i + 1 + j \in 1 .. Len(c)
    BY <1>1
  <2>2. <<c[i + 1 + j]>> \in Seq(Node) /\ b[c[i + 1 + j]] \in Seq(Node)
    BY <1>1, <2>1
  <2> QED
    BY <2>2, ConcatProperties
<1>4. s \in [1 .. k -> Seq(Node)]
  <2>1. s = [j \in 1 .. Len(c) - 1 - i |-> <<c[i + 1 + j]>> \o b[c[i + 1 + j]]]
    BY DEF Blocks
  <2> HIDE DEF s, k
  <2> QED
    BY <1>2, <1>3, <2>1
<1>5. s \in Seq(Seq(Node)) /\ Len(s) = k
  <2> HIDE DEF s, k
  <2> QED
    BY <1>2, <1>4, FunctionSeq
<1> QED
  BY <1>5 DEF NodeBlocks, Blocks

LEMMA RestTyped ==
    ASSUME NEW c \in Seq(Node), NEW b, \A j \in 1 .. Len(c) : b[c[j]] \in Seq(Node), NEW i \in Nat
    PROVE  Rest(b, c, i) \in Seq(Node)
<1>1. Blocks(b, c, i) \in Seq(Seq(Node))
  BY BlocksAre DEF NodeBlocks
<1> QED
  BY <1>1, FlattenTyped DEF Rest

LEMMA RestNone ==
    ASSUME NEW c \in Seq(Node), NEW b, \A j \in 1 .. Len(c) : b[c[j]] \in Seq(Node), NEW i \in Nat,
           ~(Len(c) > i + 1)
    PROVE  Rest(b, c, i) = <<>>
<1>1. Blocks(b, c, i) \in Seq(Seq(Node)) /\ Len(Blocks(b, c, i)) = 0
  BY BlocksAre DEF NodeBlocks
<1> QED
  BY <1>1, FlattenEmpty DEF Rest

LEMMA RestFirst ==
    ASSUME NEW c \in Seq(Node), NEW b, \A j \in 1 .. Len(c) : b[c[j]] \in Seq(Node), NEW i \in Nat,
           Len(c) > i + 1
    PROVE  Rest(b, c, i) = (<<c[i + 2]>> \o b[c[i + 2]]) \o Rest(b, c, i + 1)
<1> DEFINE s == Blocks(b, c, i)
           t == Blocks(b, c, i + 1)
           n == Len(c)
<1>1. n \in Nat /\ i + 1 \in Nat
  BY LenProperties
<1>2. NodeBlocks(b, c, i) /\ NodeBlocks(b, c, i + 1)
  BY <1>1, BlocksAre, Zenon
<1>3. /\ s \in Seq(Seq(Node)) /\ Len(s) = n - 1 - i
      /\ \A j \in 1 .. n - 1 - i : s[j] = <<c[i + 1 + j]>> \o b[c[i + 1 + j]]
  BY <1>2 DEF NodeBlocks
<1>4. /\ t \in Seq(Seq(Node)) /\ Len(t) = IF n > (i + 1) + 1 THEN n - 1 - (i + 1) ELSE 0
      /\ \A j \in 1 .. n - 1 - (i + 1) : t[j] = <<c[(i + 1) + 1 + j]>> \o b[c[(i + 1) + 1 + j]]
  BY <1>2, Zenon DEF NodeBlocks
<1> HIDE DEF s, t, n
<1>5. n > i + 1
  BY DEF n
<1>6. Len(s) = Len(t) + 1 /\ Len(t) = n - 1 - (i + 1)
  BY <1>1, <1>3, <1>4, <1>5
<1>7. \A j \in 1 .. Len(t) : t[j] = s[j + 1]
  <2> SUFFICES ASSUME NEW j \in 1 .. Len(t) PROVE t[j] = s[j + 1]
    OBVIOUS
  <2>1. /\ j \in 1 .. n - 1 - (i + 1) /\ j + 1 \in 1 .. n - 1 - i
        /\ (i + 1) + 1 + j = i + 1 + (j + 1)
    BY <1>1, <1>6
  <2> QED
    BY <2>1, <1>3, <1>4
<1>8. FlattenSeq(s) = s[1] \o FlattenSeq(t)
  BY <1>3, <1>4, <1>6, <1>7, FlattenFirst, Zenon
<1>9. s[1] = <<c[i + 2]>> \o b[c[i + 2]]
  <2>1. 1 \in 1 .. n - 1 - i /\ i + 1 + 1 = i + 2
    BY <1>1, <1>5
  <2> QED
    BY <2>1, <1>3
<1> QED
  BY <1>8, <1>9 DEF Rest, s, t

\* It depends on what is written below each of the children only.
Agree(b, d, c) == \A j \in 1 .. Len(c) : b[c[j]] = d[c[j]]

LEMMA RestSame ==
    ASSUME NEW c \in Seq(Node), NEW b, NEW d, Agree(b, d, c)
    PROVE  Rest(b, c, 0) = Rest(d, c, 0)
<1>1. Len(c) \in Nat
  BY LenProperties
<1>2. \A j \in 1 .. Len(c) - 1 - 0 : 0 + 1 + j \in 1 .. Len(c)
  BY <1>1
<1>3. Blocks(b, c, 0) = Blocks(d, c, 0)
  BY <1>2 DEF Blocks, Agree
<1> QED
  BY <1>3 DEF Rest

\* b says of each node what is written below it, c being the child lists.
OrderOf(b, c) == b \in [Node -> Seq(Node)] /\ \A n \in Node : b[n] = Rest(b, c[n], 0)
Order(b) == OrderOf(b, children)

LEMMA ChildIs ==
    ASSUME children \in Children, NEW n \in Node
    PROVE  /\ children[n] \in Seq(Node) /\ Len(children[n]) \in Nat
           /\ \A j \in 1 .. Len(children[n]) : children[n][j] \in Node /\ children[n][j] > n
<1>1. children \in [Node -> Seq(Node)] /\ \A i \in DOMAIN children[n] : children[n][i] > n
  BY ChildrenAssumption
<1>2. children[n] \in Seq(Node)
  BY <1>1
<1> QED
  BY <1>1, <1>2, LenProperties, ElementOfSeq

\* There is such an order, because children have larger numbers.
LEMMA WrittenIs ==
    ASSUME children \in Children
    PROVE  \E b : Order(b) /\ Written = b[1]
<1> DEFINE V == [Node -> Seq(Node)]
           F(b) == [n \in Node |-> Rest(b, children[n], 0)]
           Def(b) == b = [n \in Node |->
                            FlattenSeq([i \in 1 .. Len(children[n]) - 1 |->
                              <<children[n][i + 1]>> \o b[children[n][i + 1]]])]
<1>1. PICK N \in Nat \ {0} : Node = 1 .. N
  BY NodeAssumption
<1>2. ASSUME NEW b PROVE Def(b) <=> b = F(b)
  <2>1. ASSUME NEW n \in Node
        PROVE  FlattenSeq([i \in 1 .. Len(children[n]) - 1 |->
                              <<children[n][i + 1]>> \o b[children[n][i + 1]]]) = Rest(b, children[n], 0)
    <3>1. Len(children[n]) \in Nat
      BY ChildIs
    <3>2. /\ Len(children[n]) - 1 - 0 = Len(children[n]) - 1
          /\ \A j \in 1 .. Len(children[n]) - 1 : 0 + 1 + j = j + 1
      BY <3>1
    <3>3. [i \in 1 .. Len(children[n]) - 1 |-> <<children[n][i + 1]>> \o b[children[n][i + 1]]]
            = Blocks(b, children[n], 0)
      BY <3>2 DEF Blocks
    <3> QED
      BY <3>3 DEF Rest
  <2> QED
    BY <2>1
<1>3. ASSUME NEW b \in V PROVE F(b) \in V
  BY ChildIs, RestTyped
<1>4. \E b \in V : b = F(b)
  <2> DEFINE base == [n \in Node |-> <<>>]
             step == [x \in V \X (1 .. N + 1) |-> F(x[1])]
  <2>1. base \in V
    BY EmptySeq
  <2>2. step \in [V \X (1 .. N + 1) -> V] /\ \A b \in V, k \in 1 .. N + 1 : step[<<b, k>>] = F(b)
    <3> HIDE DEF V, F
    <3> QED
      BY <1>3
  <2>3. PICK g \in [0 .. N + 1 -> V] : Recursive(g, base, step, N + 1)
    <3>1. N + 1 \in Nat
      OBVIOUS
    <3> HIDE DEF V, F, base, step
    <3> QED
      BY <2>1, <2>2, <3>1, RecursiveFunction, Zenon
  <2>4. \A k \in 0 .. N : g[k + 1] = F(g[k]) /\ g[k] \in V /\ g[k + 1] \in V
    <3> SUFFICES ASSUME NEW k \in 0 .. N PROVE g[k + 1] = F(g[k]) /\ g[k] \in V /\ g[k + 1] \in V
      OBVIOUS
    <3>1. k + 1 \in 1 .. N + 1 /\ (k + 1) - 1 = k /\ k \in 0 .. N + 1 /\ k + 1 \in 0 .. N + 1
      OBVIOUS
    <3> HIDE DEF V, F, step
    <3>2. g[k + 1] = step[<<g[k], k + 1>>] /\ g[k] \in V /\ g[k + 1] \in V
      BY <3>1, <2>3 DEF Recursive
    <3> QED
      BY <3>1, <3>2, <2>2
  <2> HIDE DEF step, base
  <2> DEFINE T == {k \in 0 .. N : \A n \in Node : n > N - k => g[k + 1][n] = g[k][n]}
  <2>5. 0 \in T
    BY <1>1
  <2>6. \A k \in 0 .. N - 1 : k \in T => k + 1 \in T
    <3> SUFFICES ASSUME NEW k \in 0 .. N - 1, \A n \in Node : n > N - k => g[k + 1][n] = g[k][n],
                        NEW n \in Node, n > N - (k + 1)
                 PROVE  g[(k + 1) + 1][n] = g[k + 1][n]
      <4>1. \A k \in 0 .. N - 1 : k + 1 \in 0 .. N
        OBVIOUS
      <4> QED
        BY <4>1
    <3>1. k \in 0 .. N /\ k + 1 \in 0 .. N /\ 0 \in Nat
      OBVIOUS
    <3>2. g[(k + 1) + 1][n] = Rest(g[k + 1], children[n], 0) /\ g[k + 1][n] = Rest(g[k], children[n], 0)
      BY <3>1, <2>4
    <3>3. children[n] \in Seq(Node)
      BY ChildIs
    <3>4. \A j \in 1 .. Len(children[n]) : g[k + 1][children[n][j]] = g[k][children[n][j]]
      <4>1. \A j \in 1 .. Len(children[n]) : children[n][j] \in Node /\ children[n][j] > N - k
        <5>1. \A j \in 1 .. Len(children[n]) : children[n][j] \in Node /\ children[n][j] > n
          BY ChildIs
        <5>2. \A m \in Node : m > n => m > N - k
          BY <1>1
        <5> QED
          BY <5>1, <5>2
      <4> QED
        BY <4>1
    <3>5. Rest(g[k + 1], children[n], 0) = Rest(g[k], children[n], 0)
      <4>1. Agree(g[k + 1], g[k], children[n])
        BY <3>4 DEF Agree
      <4> QED
        BY <3>3, <4>1, RestSame, Zenon
    <3> QED
      BY <3>2, <3>5
  <2>7. N \in T
    <3> HIDE DEF T
    <3>1. \A k \in 0 .. N : k \in T
      BY <2>5, <2>6, BoundedInduction
    <3> QED
      BY <3>1
  <2>8. \A n \in Node : g[N + 1][n] = g[N][n]
    BY <2>7, <1>1
  <2>9. N \in 0 .. N
    OBVIOUS
  <2>10. g[N + 1] = g[N]
    <3>1. g[N + 1] \in V /\ g[N] \in V
      BY <2>4, <2>9
    <3> QED
      BY <3>1, <2>8
  <2> HIDE DEF F, V
  <2> QED
    BY <2>4, <2>9, <2>10
<1> DEFINE c == CHOOSE b : Def(b)
<1>5. c = F(c)
  <2>1. \E b : Def(b)
    <3> HIDE DEF Def, F, V
    <3> QED
      BY <1>2, <1>4
  <2>2. Def(c)
    <3> HIDE DEF Def
    <3> QED
      BY <2>1, Zenon
  <2> HIDE DEF Def, F, c
  <2> QED
    BY <1>2, <2>2
<1>6. Written = c[1]
  BY Zenon DEF Written
<1> HIDE DEF c
<1>7. \A n \in Node : c[n] = Rest(c, children[n], 0)
  BY <1>5
<1>8. \A n \in Node : c[n] \in Seq(Node)
  <2> DEFINE T == {k \in 0 .. N : \A n \in Node : n > N - k => c[n] \in Seq(Node)}
  <2>1. 0 \in T
    BY <1>1
  <2>2. \A k \in 0 .. N - 1 : k \in T => k + 1 \in T
    <3> SUFFICES ASSUME NEW k \in 0 .. N - 1, k \in T, NEW n \in Node, n > N - (k + 1)
                 PROVE  c[n] \in Seq(Node)
      OBVIOUS
    <3>1. children[n] \in Seq(Node) /\ 0 \in Nat
      BY ChildIs
    <3>2. \A j \in 1 .. Len(children[n]) : c[children[n][j]] \in Seq(Node)
      <4>1. \A j \in 1 .. Len(children[n]) : children[n][j] \in Node /\ children[n][j] > N - k
        <5>1. \A j \in 1 .. Len(children[n]) : children[n][j] \in Node /\ children[n][j] > n
          BY ChildIs
        <5> QED
          BY <5>1, <1>1
      <4> QED
        BY <4>1
    <3>3. Rest(c, children[n], 0) \in Seq(Node)
      <4> HIDE DEF T
      <4> QED
        BY <3>1, <3>2, RestTyped
    <3> QED
      BY <3>3, <1>7
  <2>3. N \in T
    <3> HIDE DEF T
    <3>1. \A k \in 0 .. N : k \in T
      BY <2>1, <2>2, BoundedInduction
    <3> QED
      BY <3>1
  <2> QED
    BY <2>3, <1>1
<1>9. c \in [Node -> Seq(Node)]
  <2>1. c = [n \in Node |-> c[n]]
    BY <1>5
  <2> QED
    BY <2>1, <1>8
<1>10. Order(c)
  BY <1>7, <1>9 DEF Order, OrderOf
<1> QED
  BY <1>6, <1>10

-----------------------------------------------------------------------------
(* The walk.  Every activation has the rest of its node's children to write *)
(* before the activation below it goes on.                                  *)

\* t[k] is what the first k activations have still to write.
Left(t, fs, b, c) ==
    /\ t \in [0 .. Len(fs) -> Seq(Node)]
    /\ t[0] = <<>>
    /\ \A k \in 1 .. Len(fs) : t[k] = Rest(b, c[fs[k].node], fs[k].idx) \o t[k - 1]

LEMMA PrefixOf ==
    ASSUME NEW S, NEW x \in Seq(S), NEW y \in Seq(S)
    PROVE  IsPrefix(x, x \o y)
<1>1. Len(x) \in Nat /\ Len(y) \in Nat
  BY LenProperties
<1>2. x \o y \in Seq(S) /\ Len(x \o y) = Len(x) + Len(y) /\ \A i \in 1 .. Len(x) : (x \o y)[i] = x[i]
  BY <1>1, ConcatProperties
<1>3. SubSeq(x, 1, Len(x)) = SubSeq(x \o y, 1, Len(x))
  BY <1>1, <1>2
<1> QED
  BY <1>1, <1>2, <1>3 DEF IsPrefix

\* What an activation has to write is a sequence of nodes: its next child, what
\* is below that, and the rest.
NextIs(r, n, b, q) == n \in Node /\ r = (<<n>> \o b[n]) \o q

LEMMA RestAt ==
    ASSUME NEW c \in [Node -> Seq(Node)], NEW b \in [Node -> Seq(Node)], NEW n \in Node, NEW i \in Nat
    PROVE  /\ Rest(b, c[n], i) \in Seq(Node)
           /\ IF Len(c[n]) > i + 1
              THEN NextIs(Rest(b, c[n], i), c[n][i + 2], b, Rest(b, c[n], i + 1))
              ELSE Rest(b, c[n], i) = <<>>
<1>1. c[n] \in Seq(Node) /\ Len(c[n]) \in Nat
  BY LenProperties
<1>2. \A j \in 1 .. Len(c[n]) : c[n][j] \in Node /\ b[c[n][j]] \in Seq(Node)
  BY <1>1, ElementOfSeq
<1>3. Len(c[n]) > i + 1 => c[n][i + 2] \in Node
  BY <1>1, <1>2
<1> QED
  BY <1>1, <1>2, <1>3, RestTyped, RestFirst, RestNone DEF NextIs

\* fs[m], the top of fs, is the activation for p at index i; gs has it advanced and
\* one for n above it, or is without it.
Writing(fs, m, p, i) == m = Len(fs) /\ m # 0 /\ fs[m].node = p /\ fs[m].idx = i

Entering(fs, gs, m, p, i, n) ==
    /\ Len(gs) = m + 1
    /\ gs[m].node = p /\ gs[m].idx = i + 1 /\ gs[m + 1].node = n /\ gs[m + 1].idx = 0
    /\ \A k \in 1 .. m - 1 : gs[k] = fs[k]

Returning(fs, gs, m) == Len(gs) = m - 1 /\ \A k \in 1 .. m - 1 : gs[k] = fs[k]

\* The k activations gs have x to write; or they have what follows n in x.
Leaves(x, k, gs, b, c) == \E u : Left(u, gs, b, c) /\ u[k] = x
LeavesAfter(n, x, k, gs, b, c) ==
    \E u : Left(u, gs, b, c) /\ u[k] \in Seq(Node) /\ x = <<n>> \o u[k]

\* Writing the next child and entering it leaves the rest to its activation.
LEMMA LeftEntering ==
    ASSUME NEW c \in [Node -> Seq(Node)], NEW b, OrderOf(b, c),
           NEW m \in Nat, NEW p \in Node, NEW i \in Nat, Len(c[p]) > i + 1,
           NEW fs, Writing(fs, m, p, i), NEW gs, Entering(fs, gs, m, p, i, c[p][i + 2]),
           NEW t, Left(t, fs, b, c)
    PROVE  LeavesAfter(c[p][i + 2], t[m], m + 1, gs, b, c)
<1> DEFINE n == c[p][i + 2]
           R == Rest(b, c[p], i + 1)
           w == R \o t[m - 1]
           u == [k \in 0 .. m + 1 |-> IF k < m THEN t[k] ELSE IF k = m THEN w ELSE b[n] \o w]
<1>1. m = Len(fs) /\ m # 0 /\ fs[m].node = p /\ fs[m].idx = i
  BY DEF Writing
<1>2. /\ Len(gs) = m + 1
       /\ gs[m].node = p /\ gs[m].idx = i + 1 /\ gs[m + 1].node = n /\ gs[m + 1].idx = 0
       /\ \A k \in 1 .. m - 1 : gs[k] = fs[k]
  BY Zenon DEF Entering
<1>3. b \in [Node -> Seq(Node)] /\ \A q \in Node : b[q] = Rest(b, c[q], 0)
  BY DEF OrderOf
<1>4. /\ t \in [0 .. m -> Seq(Node)] /\ t[0] = <<>>
      /\ \A k \in 1 .. m : t[k] = Rest(b, c[fs[k].node], fs[k].idx) \o t[k - 1]
  BY <1>1 DEF Left
<1>5. m - 1 \in 0 .. m /\ m \in 1 .. m /\ i + 1 \in Nat /\ t[m - 1] \in Seq(Node)
  <2>1. m - 1 \in 0 .. m /\ m \in 1 .. m /\ i + 1 \in Nat
    BY <1>1
  <2> QED
    BY <1>4, <2>1
<1>6. /\ n \in Node /\ b[n] \in Seq(Node) /\ <<n>> \in Seq(Node)
      /\ Rest(b, c[p], i) = (<<n>> \o b[n]) \o R
  <2>1. NextIs(Rest(b, c[p], i), n, b, R)
    BY <1>3, RestAt, Zenon
  <2>2. n \in Node /\ Rest(b, c[p], i) = (<<n>> \o b[n]) \o R
    BY <2>1, Zenon DEF NextIs
  <2>3. b[n] \in Seq(Node) /\ <<n>> \in Seq(Node)
    BY <2>2, <1>3
  <2> QED
    BY <2>2, <2>3, Zenon
<1>7. R \in Seq(Node)
  BY <1>5, <1>3, RestAt
<1> HIDE DEF R
<1>8. w \in Seq(Node) /\ b[n] \o w \in Seq(Node) /\ <<n>> \o b[n] \in Seq(Node)
  BY <1>5, <1>6, <1>7, ConcatProperties
<1>9. t[m] = <<n>> \o (b[n] \o w)
  <2>1. t[m] = ((<<n>> \o b[n]) \o R) \o t[m - 1]
    BY <1>1, <1>4, <1>5, <1>6, Zenon
  <2>2. Joined(<<n>> \o b[n], R, t[m - 1])
    BY <1>5, <1>7, <1>8, JoinThree, Zenon
  <2>3. Joined(<<n>>, b[n], w)
    BY <1>6, <1>8, JoinThree, Zenon
  <2>4. t[m] = (<<n>> \o b[n]) \o (R \o t[m - 1])
    BY <2>1, <2>2, Zenon DEF Joined
  <2> QED
    BY <2>3, <2>4, Zenon DEF Joined
<1> HIDE DEF w
<1>10. u \in [0 .. m + 1 -> Seq(Node)]
  <2> SUFFICES ASSUME NEW k \in 0 .. m + 1
               PROVE  (IF k < m THEN t[k] ELSE IF k = m THEN w ELSE b[n] \o w) \in Seq(Node)
    OBVIOUS
  <2>1. k < m => k \in 0 .. m
    OBVIOUS
  <2> QED
    BY <2>1, <1>4, <1>8
<1>11. /\ u[m + 1] = b[n] \o w /\ u[m] = w /\ u[0] = t[0]
      /\ \A k \in 0 .. m - 1 : u[k] = t[k]
  <2>1. \A k \in 0 .. m + 1 : u[k] = IF k < m THEN t[k] ELSE IF k = m THEN w ELSE b[n] \o w
    BY Zenon
  <2>2. /\ 0 \in 0 .. m + 1 /\ m \in 0 .. m + 1 /\ m + 1 \in 0 .. m + 1
        /\ ~(m < m) /\ ~(m + 1 < m) /\ m + 1 # m
    OBVIOUS
  <2>3. 0 < m
    BY <1>1
  <2>4. ASSUME NEW k \in 0 .. m - 1 PROVE k \in 0 .. m + 1 /\ k < m
    OBVIOUS
  <2> HIDE DEF u
  <2> QED
    BY <2>1, <2>2, <2>3, <2>4, Zenon
<1> HIDE DEF u
<1>12. ASSUME NEW k \in 1 .. m + 1 PROVE u[k] = Rest(b, c[gs[k].node], gs[k].idx) \o u[k - 1]
  <2>1. CASE k < m
    <3>1. k \in 1 .. m /\ k \in 0 .. m - 1 /\ k - 1 \in 0 .. m - 1 /\ k \in 1 .. m - 1
      BY <2>1
    <3>2. gs[k] = fs[k]
      BY <3>1, <1>2, Zenon
    <3> QED
      BY <3>1, <3>2, <1>4, <1>11, Zenon
  <2>2. CASE k = m
    <3>1. m - 1 \in 0 .. m - 1
      BY <1>1
    <3>2. gs[m].node = p /\ gs[m].idx = i + 1 /\ u[m - 1] = t[m - 1]
      BY <3>1, <1>11, <1>2, Zenon
    <3> QED
      BY <2>2, <3>2, <1>11, Zenon DEF w, R
  <2>3. CASE k = m + 1
    <3>1. (m + 1) - 1 = m
      OBVIOUS
    <3>2. gs[m + 1].node = n /\ gs[m + 1].idx = 0 /\ u[(m + 1) - 1] = w
      BY <3>1, <1>11, <1>2, Zenon
    <3>3. Rest(b, c[n], 0) = b[n]
      BY <1>6, <1>3, Zenon
    <3> QED
      BY <2>3, <3>2, <3>3, <1>11, Zenon
  <2>4. k < m \/ k = m \/ k = m + 1
    OBVIOUS
  <2> QED
    BY <2>1, <2>2, <2>3, <2>4, Zenon
<1>13. Left(u, gs, b, c)
  BY <1>4, <1>10, <1>11, <1>12, <1>2 DEF Left
<1> QED
  BY <1>8, <1>9, <1>11, <1>13 DEF LeavesAfter

\* An activation without further children has nothing left.
LEMMA LeftReturning ==
    ASSUME NEW c \in [Node -> Seq(Node)], NEW b \in [Node -> Seq(Node)],
           NEW m \in Nat, NEW p \in Node, NEW i \in Nat, ~(Len(c[p]) > i + 1),
           NEW fs, Writing(fs, m, p, i), NEW gs, Returning(fs, gs, m),
           NEW t, Left(t, fs, b, c)
    PROVE  Leaves(t[m], m - 1, gs, b, c)
<1> DEFINE u == [k \in 0 .. m - 1 |-> t[k]]
<1>1. m = Len(fs) /\ m # 0 /\ fs[m].node = p /\ fs[m].idx = i
  BY DEF Writing
<1>2. Len(gs) = m - 1 /\ \A k \in 1 .. m - 1 : gs[k] = fs[k]
  BY Zenon DEF Returning
<1>3. /\ t \in [0 .. m -> Seq(Node)] /\ t[0] = <<>>
      /\ \A k \in 1 .. m : t[k] = Rest(b, c[fs[k].node], fs[k].idx) \o t[k - 1]
  BY <1>1 DEF Left
<1>4. m \in 1 .. m /\ m - 1 \in 0 .. m /\ m - 1 \in 0 .. m - 1 /\ \A k \in 0 .. m - 1 : k \in 0 .. m
  BY <1>1
<1>5. t[m] = t[m - 1]
  <2>1. t[m] = <<>> \o t[m - 1]
    <3>1. Rest(b, c[p], i) = <<>>
      BY RestAt, Zenon
    <3> QED
      BY <1>1, <1>3, <1>4, <3>1, Zenon
  <2> QED
    BY <1>3, <1>4, <2>1, ConcatEmptySeq
<1>6. u \in [0 .. m - 1 -> Seq(Node)] /\ \A k \in 0 .. m - 1 : u[k] = t[k]
  BY <1>3, <1>4
<1> HIDE DEF u
<1>7. ASSUME NEW k \in 1 .. m - 1 PROVE u[k] = Rest(b, c[gs[k].node], gs[k].idx) \o u[k - 1]
  <2>1. k \in 1 .. m /\ k \in 0 .. m - 1 /\ k - 1 \in 0 .. m - 1
    OBVIOUS
  <2>2. gs[k] = fs[k]
    BY <1>2, Zenon
  <2> QED
    BY <2>1, <2>2, <1>3, <1>6, Zenon
<1>8. u[0] = <<>>
  BY <1>3, <1>4, <1>6
<1>9. Left(u, gs, b, c)
  BY <1>6, <1>7, <1>8, <1>2 DEF Left
<1> QED
  BY <1>4, <1>5, <1>6, <1>9 DEF Leaves

\* What was visited, and what the activations have left, is the whole order.
Walking ==
    \E b, t : /\ Order(b) /\ Written = b[1]
              /\ Left(t, frames, b, children)
              /\ visited \o t[Len(frames)] = Written

WInv ==
    /\ pc = "walk" => Walking
    /\ WritesInOrder

LEMMA OrderTyped == children \in Children => Written \in Seq(Node)
<1>1. 1 \in Node
  BY NodeAssumption
<1> QED
  BY <1>1, WrittenIs DEF Order, OrderOf

\* The order is that of the same tree.
LEMMA OrderSame ==
    ASSUME children' = children
    PROVE  Written' = Written /\ \A b : Order(b)' <=> Order(b)
<1>1. Written' = Written
  BY Zenon DEF Written
<1>2. \A b : Order(b)' <=> Order(b)
  BY Zenon DEF Order
<1> QED
  BY <1>1, <1>2

\* A step that is none of the walk's.
LEMMA WStill ==
    ASSUME IInv, WInv, UNCHANGED <<children, visited>>,
           pc' = "walk" => pc = "walk" /\ frames' = frames,
           pc' = "idle" /\ result' = "true" => pc = "idle" /\ result = "true"
    PROVE  WInv'
<1>1. Written' = Written /\ (\A b : Order(b)' <=> Order(b)) /\ visited' = visited /\ children' = children
  BY OrderSame
<1>2. WritesInOrder'
  BY <1>1 DEF WInv, WritesInOrder
<1>3. ASSUME pc' = "walk" PROVE Walking'
  <2>1. PICK b, t : /\ Order(b) /\ Written = b[1]
                    /\ Left(t, frames, b, children)
                    /\ visited \o t[Len(frames)] = Written
    BY <1>3 DEF WInv, Walking
  <2>2. frames' = frames
    BY <1>3
  <2> QED
    BY <1>1, <2>1, <2>2, Zenon DEF Walking
<1> QED
  BY <1>2, <1>3 DEF WInv

LEMMA ExportWInv == ASSUME NEW named \in BOOLEAN PROVE IInv /\ WInv /\ Export(named) => WInv'
<1> SUFFICES ASSUME IInv, WInv, Export(named) PROVE WInv'
  OBVIOUS
<1>1. /\ pc = "idle" /\ visited' = <<>> /\ children' = children /\ children \in Children
      /\ \/ result' = "false" /\ pc' = pc
         \/ frames' = <<[node |-> 1, idx |-> 0]>> /\ result' = "none" /\ pc' = "walk"
  BY DEF Export, input, IInv
<1>2. Written' = Written /\ (\A b : Order(b)' <=> Order(b)) /\ Written \in Seq(Node)
  BY <1>1, OrderSame, OrderTyped
<1>3. <<>> \in Seq(Node) /\ <<>> \o Written = Written
  BY <1>2, EmptySeq, ConcatEmptySeq
<1>4. IsPrefix(visited', Written')
  BY <1>1, <1>2, <1>3, PrefixOf
<1>5. WritesInOrder'
  BY <1>1, <1>4 DEF WritesInOrder
<1>6. ASSUME pc' = "walk" PROVE Walking'
  <2>1. frames' = <<[node |-> 1, idx |-> 0]>>
    BY <1>1, <1>6
  <2>2. PICK b : Order(b) /\ Written = b[1]
    BY <1>1, WrittenIs
  <2> DEFINE t == [k \in 0 .. 1 |-> IF k = 0 THEN <<>> ELSE b[1]]
  <2>3. 1 \in Node /\ b[1] = Rest(b, children[1], 0) /\ b[1] \in Seq(Node)
    BY <2>2, NodeAssumption DEF Order, OrderOf
  <2>4. t \in [0 .. 1 -> Seq(Node)] /\ t[0] = <<>> /\ t[1] = b[1]
    BY <2>3, <1>3
  <2> HIDE DEF t
  <2>5. Len(frames') = 1 /\ frames'[1].node = 1 /\ frames'[1].idx = 0
    BY <2>1
  <2>6. b[1] = b[1] \o <<>>
    BY <2>3, ConcatEmptySeq
  <2>7. Left(t, frames', b, children')
    <3>1. ASSUME NEW k \in 1 .. 1 PROVE k = 1 /\ k - 1 = 0
      OBVIOUS
    <3>2. t[1] = Rest(b, children'[frames'[1].node], frames'[1].idx) \o t[0]
      BY <1>1, <2>3, <2>4, <2>5, <2>6, Zenon
    <3> QED
      BY <2>4, <2>5, <3>1, <3>2 DEF Left
  <2>8. visited' \o t[Len(frames')] = Written'
    BY <1>1, <1>2, <1>3, <2>2, <2>4, <2>5
  <2>9. Order(b)' /\ Written' = b[1]
    BY <1>2, <2>2
  <2> QED
    BY <2>7, <2>8, <2>9, Zenon DEF Walking
<1> QED
  BY <1>5, <1>6 DEF WInv

LEMMA WriteNodeWInv == IInv /\ WInv /\ WriteNode => WInv'
<1> SUFFICES ASSUME IInv, WInv, WriteNode PROVE WInv'
  OBVIOUS
<1> DEFINE m == Len(frames)
           p == frames[m].node
           i == frames[m].idx
           n == children[p][i + 2]
<1>1. /\ frames \in Seq(Activation) /\ m \in Nat /\ m # 0 /\ visited \in Seq(Node)
      /\ pc = "walk" /\ children \in Children /\ children \in [Node -> Seq(Node)]
  <2>1. frames # <<>> /\ frames \in Seq(Activation) /\ visited \in Seq(Node)
    BY Types DEF WriteNode, IInv
  <2>2. m \in Nat /\ m # 0
    BY <2>1, LenProperties, EmptySeq
  <2> QED
    BY <2>1, <2>2, ChildrenAssumption DEF WriteNode, IInv
<1>2. p \in Node /\ i \in Nat
  <2>1. frames[m] \in Activation
    BY <1>1, ElementOfSeq
  <2> QED
    BY <2>1 DEF Activation
<1>3. /\ Len(children[p]) > i + 1
      /\ frames' = Append([frames EXCEPT ![m].idx = i + 1], [node |-> n, idx |-> 0])
      /\ visited' = Append(visited, n)
      /\ children' = children /\ pc' = "walk"
  BY <1>1 DEF WriteNode, HasNext, Siblings, Frame, Current, Entered, input
<1>4. Written' = Written /\ (\A b : Order(b)' <=> Order(b)) /\ Written \in Seq(Node)
  BY <1>1, <1>3, OrderSame, OrderTyped
<1>5. frames' \in Seq(Activation)
  BY WriteNodeIInv, Types DEF IInv, TypeOK, Activation
<1> HIDE DEF m, p, i, n
<1>6. /\ Len(frames') = m + 1
      /\ frames'[m].node = p /\ frames'[m].idx = i + 1
      /\ frames'[m + 1].node = n /\ frames'[m + 1].idx = 0
      /\ \A k \in 1 .. m - 1 : frames'[k] = frames[k]
  <2> DEFINE fs == [frames EXCEPT ![m].idx = i + 1]
  <2>1. [frames[m] EXCEPT !.idx = i + 1] \in Activation
    <3>1. frames[m] \in Activation
      BY <1>1, ElementOfSeq DEF m
    <3> QED
      BY <3>1, <1>2 DEF Activation
  <2>2. /\ fs \in Seq(Activation) /\ Len(fs) = m
        /\ fs[m] = [frames[m] EXCEPT !.idx = i + 1]
        /\ \A k \in 1 .. m - 1 : fs[k] = frames[k]
    <3> DEFINE e == [frames[m] EXCEPT !.idx = i + 1]
               gs == [frames EXCEPT ![m] = e]
    <3>1. fs = gs
      OBVIOUS
    <3>2. m = Len(frames) /\ m \in 1 .. m
      BY <1>1 DEF m
    <3>3. \A j \in 1 .. m - 1 : j \in 1 .. m /\ j # m
      BY <1>1
    <3> HIDE DEF e, m, fs, gs
    <3>4. /\ gs \in Seq(Activation) /\ Len(gs) = m
          /\ \A j \in 1 .. m : gs[j] = IF j = m THEN e ELSE frames[j]
      BY <1>1, <2>1, <3>2, ExceptSeq DEF e, gs
    <3>5. gs[m] = e /\ \A j \in 1 .. m - 1 : gs[j] = frames[j]
      BY <3>2, <3>3, <3>4
    <3> QED
      BY <3>1, <3>4, <3>5 DEF e
  <2> HIDE DEF fs
  <2>3. [node |-> n, idx |-> 0] \in Activation
    BY <1>1, <1>2, <1>3, ElementOfSeq DEF n, Activation
  <2>4. /\ Len(frames') = m + 1 /\ frames'[m + 1] = [node |-> n, idx |-> 0]
        /\ \A k \in 1 .. m : frames'[k] = fs[k]
    BY <1>3, <2>2, <2>3, AppendProperties DEF fs
  <2>5. frames'[m].node = p /\ frames'[m].idx = i + 1
    <3>1. m \in 1 .. m
      BY <1>1
    <3>2. frames[m] \in Activation /\ frames[m].node = p
      BY <1>1, <3>1, ElementOfSeq DEF m, p
    <3>3. frames'[m] = [frames[m] EXCEPT !.idx = i + 1]
      BY <2>2, <2>4, <3>1
    <3> QED
      BY <3>2, <3>3 DEF Activation
  <2>6. \A k \in 1 .. m - 1 : frames'[k] = frames[k]
    BY <1>1, <2>2, <2>4
  <2> QED
    BY <2>4, <2>5, <2>6
<1>7. PICK b, t : /\ Order(b) /\ Written = b[1]
                  /\ Left(t, frames, b, children)
                  /\ visited \o t[m] = Written
  BY <1>1 DEF WInv, Walking, m
<1>8. PICK u : /\ Left(u, frames', b, children)
               /\ u[m + 1] \in Seq(Node) /\ t[m] = <<n>> \o u[m + 1]
  <2>1. OrderOf(b, children)
    BY <1>7 DEF Order
  <2>2. Writing(frames, m, p, i) /\ n = children[p][i + 2]
    BY <1>1 DEF Writing, m, p, i, n
  <2>3. Entering(frames, frames', m, p, i, n)
    BY <1>6 DEF Entering
  <2> QED
    <3>1. children \in [Node -> Seq(Node)] /\ m \in Nat /\ Len(children[p]) > i + 1
      BY <1>1, <1>3
    <3>2. Left(t, frames, b, children)
      BY <1>7
    <3>3. Entering(frames, frames', m, p, i, children[p][i + 2])
      BY <2>2, <2>3
    <3>4. LeavesAfter(children[p][i + 2], t[m], m + 1, frames', b, children)
      BY <1>2, <2>1, <2>2, <3>1, <3>2, <3>3, LeftEntering, Zenon
    <3> QED
      BY <2>2, <3>4, Zenon DEF LeavesAfter
<1>9. n \in Node
  BY <1>1, <1>2, <1>3, ElementOfSeq DEF n
<1>10. visited' \in Seq(Node) /\ visited' = visited \o <<n>> /\ <<n>> \in Seq(Node)
  BY <1>1, <1>3, <1>9, AppendProperties
<1>11. visited' \o u[m + 1] = Written
  <2>1. Joined(visited, <<n>>, u[m + 1])
    BY <1>1, <1>8, <1>10, JoinThree, Zenon
  <2> QED
    BY <1>7, <1>8, <1>10, <2>1, Zenon DEF Joined
<1>12. IsPrefix(visited', Written')
  BY <1>4, <1>8, <1>10, <1>11, PrefixOf
<1>13. Walking'
  BY <1>3, <1>4, <1>6, <1>7, <1>8, <1>11, Zenon DEF Walking
<1> QED
  BY <1>3, <1>12, <1>13 DEF WInv, WritesInOrder

LEMMA EndOfChildrenWInv == IInv /\ WInv /\ EndOfChildren => WInv'
<1> SUFFICES ASSUME IInv, WInv, EndOfChildren PROVE WInv'
  OBVIOUS
<1> DEFINE m == Len(frames)
           p == frames[m].node
           i == frames[m].idx
<1>1. /\ frames \in Seq(Activation) /\ m \in Nat /\ m # 0 /\ visited \in Seq(Node)
      /\ pc = "walk" /\ children \in Children /\ children \in [Node -> Seq(Node)]
  <2>1. frames # <<>> /\ frames \in Seq(Activation) /\ visited \in Seq(Node)
    BY Types DEF EndOfChildren, IInv
  <2>2. m \in Nat /\ m # 0
    BY <2>1, LenProperties, EmptySeq
  <2> QED
    BY <2>1, <2>2, ChildrenAssumption DEF EndOfChildren, IInv
<1>2. p \in Node /\ i \in Nat
  <2>1. frames[m] \in Activation
    BY <1>1, ElementOfSeq
  <2> QED
    BY <2>1 DEF Activation
<1>3. /\ ~(Len(children[p]) > i + 1)
      /\ frames' = SubSeq(frames, 1, m - 1)
      /\ visited' = visited /\ children' = children
      /\ IF m = 1 THEN pc' = "idle" /\ result' = "true" ELSE UNCHANGED <<pc, result>>
  BY <1>1 DEF EndOfChildren, HasNext, Siblings, Frame, Front, Outermost, input
<1>4. Written' = Written /\ (\A b : Order(b)' <=> Order(b)) /\ Written \in Seq(Node)
  BY <1>1, <1>3, OrderSame, OrderTyped
<1> HIDE DEF m, p, i
<1>5. /\ frames' \in Seq(Activation) /\ Len(frames') = m - 1
      /\ \A k \in 1 .. m - 1 : frames'[k] = frames[k]
  <2>1. \A k \in 1 .. m - 1 : frames[k] \in Activation
    BY <1>1, ElementOfSeq DEF m
  <2> QED
    BY <1>1, <1>3, <2>1, SubSeqProperties
<1>6. PICK b, t : /\ Order(b) /\ Written = b[1]
                  /\ Left(t, frames, b, children)
                  /\ visited \o t[m] = Written
  BY <1>1 DEF WInv, Walking, m
<1>7. PICK u : Left(u, frames', b, children) /\ u[m - 1] = t[m]
  <2>1. b \in [Node -> Seq(Node)]
    BY <1>6 DEF Order, OrderOf
  <2>2. Writing(frames, m, p, i)
    BY <1>1 DEF Writing, m, p, i
  <2>3. Returning(frames, frames', m)
    BY <1>5 DEF Returning
  <2> QED
    <3>1. children \in [Node -> Seq(Node)] /\ m \in Nat /\ ~(Len(children[p]) > i + 1)
      BY <1>1, <1>3
    <3>2. Left(t, frames, b, children)
      BY <1>6
    <3>3. Leaves(t[m], m - 1, frames', b, children)
      BY <1>2, <2>1, <2>2, <2>3, <3>1, <3>2, LeftReturning, Zenon
    <3> QED
      BY <3>3, Zenon DEF Leaves
<1>8. visited' \o u[m - 1] = Written'
  BY <1>3, <1>4, <1>6, <1>7
<1>9. Walking'
  BY <1>3, <1>4, <1>5, <1>6, <1>7, <1>8, Zenon DEF Walking
<1>10. m = 1 => visited' = Written'
  <2>1. m = 1 => u[m - 1] = <<>>
    BY <1>7 DEF Left
  <2>2. visited \o <<>> = visited
    BY <1>1, ConcatEmptySeq
  <2> QED
    BY <1>3, <1>8, <2>1, <2>2
<1>11. IsPrefix(visited', Written')
  BY <1>3, <1>4 DEF WInv, WritesInOrder
<1>12. pc' = "idle" => m = 1
  BY <1>1, <1>3
<1> QED
  BY <1>9, <1>10, <1>11, <1>12 DEF WInv, WritesInOrder

LEMMA InitWInv == Init => WInv
<1> SUFFICES ASSUME Init PROVE WInv
  OBVIOUS
<1>1. visited = <<>> /\ pc = "idle" /\ result = "none" /\ children \in Children
  BY DEF Init
<1>2. Written \in Seq(Node) /\ <<>> \in Seq(Node) /\ <<>> \o Written = Written
  BY <1>1, OrderTyped, EmptySeq, ConcatEmptySeq
<1>3. IsPrefix(visited, Written)
  BY <1>1, <1>2, PrefixOf
<1> QED
  BY <1>1, <1>3 DEF WInv, WritesInOrder

LEMMA WInvNext == IInv /\ WInv /\ [Next]_vars => WInv'
<1> SUFFICES ASSUME IInv, WInv, [Next]_vars PROVE WInv'
  OBVIOUS
<1>1. CASE ExportNothing
  BY <1>1, WStill DEF ExportNothing, input, walk
<1>2. ASSUME NEW named \in BOOLEAN, Export(named) PROVE WInv'
  BY <1>2, ExportWInv
<1>3. CASE WriteNode
  BY <1>3, WriteNodeWInv
<1>4. CASE WriteNodeWithoutValues
  BY <1>4, WStill DEF WriteNodeWithoutValues, input, walk
<1>5. CASE EndOfChildren
  BY <1>5, EndOfChildrenWInv
<1>6. CASE Destroy
  BY <1>6, WStill DEF Destroy, input, walk
<1>7. CASE UNCHANGED vars
  BY <1>7, WStill DEF vars, input, walk
<1> QED
  BY <1>1, <1>2, <1>3, <1>4, <1>5, <1>6, <1>7 DEF Next

\* Whatever the tree, an export has at any time written a beginning of its order,
\* and when it reports success the whole: no node is left out, written twice or
\* before one it comes after.
THEOREM ExportWritesInOrder == Spec => []WritesInOrder
<1>1. IInv /\ WInv => WritesInOrder
  BY DEF WInv
<1> QED
  BY <1>1, InitIInv, IInvNext, InitWInv, WInvNext, PTL DEF Spec

-----------------------------------------------------------------------------
(***************************************************************************)
(* One value between a text and memory (DDLValue), for bytes of any even   *)
(* number of values.                                                       *)
(***************************************************************************)

Even(m) == m \in Nat /\ m > 0 /\ \E h \in Nat : m = 2 * h

\* What is kept of a number by m numbers in two's complement
Congruent(x, n, m) == x \in Int /\ \E q \in Int : x = n + m * q

LEMMA HalfIs ==
    ASSUME NEW m, Even(m)
    PROVE  Half(m) \in Nat /\ Half(m) > 0 /\ m = 2 * Half(m)
<1>1. PICK h \in Nat : m = 2 * h
  BY DEF Even
<1>2. (2 * h) \div 2 = h
  OBVIOUS
<1>3. m > 0
  BY DEF Even
<1>4. Half(m) = h
  BY <1>1, <1>2 DEF Half
<1> QED
  BY <1>1, <1>3, <1>4

LEMMA EvenTimes ==
    ASSUME NEW m, Even(m), NEW k \in Nat, k > 0
    PROVE  Even(m * k) /\ m <= m * k
<1>1. PICK h \in Nat : m = 2 * h
  BY DEF Even
<1>2. m \in Nat /\ m > 0
  BY DEF Even
<1>3. m * k \in Nat /\ m * k > 0 /\ m <= m * k
  BY <1>2
<1>4. m * k = 2 * (h * k) /\ h * k \in Nat
  BY <1>1
<1> QED
  BY <1>3, <1>4 DEF Even

LEMMA Sizes ==
    /\ Even(Byte) /\ Even(Byte2) /\ Even(Byte4) /\ Even(Byte8)
    /\ Byte <= Byte8 /\ Byte2 <= Byte8 /\ Byte4 <= Byte8
<1>1. Even(Byte)
  <2>1. Byte \in Nat /\ Byte > 0 /\ Byte % 2 = 0
    BY ByteAssumption
  <2>2. Byte = 2 * (Byte \div 2) + (Byte % 2) /\ Byte \div 2 \in Nat
    BY <2>1
  <2>3. Byte = 2 * (Byte \div 2)
    BY <2>1, <2>2
  <2> QED
    BY <2>1, <2>2, <2>3 DEF Even
<1>2. Even(Byte2) /\ Byte <= Byte2
  BY <1>1, EvenTimes DEF Byte2, Even
<1>3. Even(Byte4) /\ Byte2 <= Byte4
  BY <1>2, EvenTimes DEF Byte4, Even
<1>4. Even(Byte8) /\ Byte4 <= Byte8
  BY <1>3, EvenTimes DEF Byte8, Even
<1>5. Byte \in Nat /\ Byte2 \in Nat /\ Byte4 \in Nat /\ Byte8 \in Nat
  BY <1>1, <1>2, <1>3, <1>4 DEF Even
<1> QED
  BY <1>1, <1>2, <1>3, <1>4, <1>5

LEMMA SpanIs ==
    ASSUME NEW t
    PROVE  Even(Span(t)) /\ Span(t) <= Byte8
<1>1. Span(t) \in {Byte, Byte2, Byte4, Byte8}
  BY DEF Span
<1>2. Byte8 <= Byte8
  BY Sizes DEF Even
<1> QED
  BY <1>1, <1>2, Sizes

LEMMA WrapIs ==
    ASSUME NEW n \in Int, NEW m, Even(m)
    PROVE  /\ Wrap(n, m) \in 0 .. m - 1
           /\ Congruent(Wrap(n, m), n, m)
           /\ n \in 0 .. m - 1 => Wrap(n, m) = n
<1>1. m \in Int /\ m > 0
  BY DEF Even
<1>2. n = m * (n \div m) + (n % m) /\ n \div m \in Int /\ n % m \in 0 .. m - 1
  BY <1>1
<1> DEFINE q == n \div m
           r == n % m
<1>3. n = m * q + r /\ q \in Int /\ r \in 0 .. m - 1
  BY <1>2
<1>4. n \in 0 .. m - 1 => r = n
  BY <1>1
<1> HIDE DEF q, r
<1>5. r = n + m * (0 - q) /\ 0 - q \in Int /\ r \in Int
  BY <1>1, <1>3
<1>6. Wrap(n, m) = r
  BY DEF Wrap, r
<1> QED
  BY <1>3, <1>4, <1>5, <1>6 DEF Congruent

LEMMA SignedIs ==
    ASSUME NEW n \in Int, NEW m, Even(m)
    PROVE  /\ AsSigned(n, m) \in -Half(m) .. Half(m) - 1
           /\ Congruent(AsSigned(n, m), n, m)
           /\ n \in 0 .. Half(m) - 1 => AsSigned(n, m) = n
<1> DEFINE w == Wrap(n, m)
           h == Half(m)
<1>1. h \in Nat /\ h > 0 /\ m = 2 * h /\ m \in Nat
  BY HalfIs DEF Even
<1>2. w \in 0 .. m - 1 /\ (n \in 0 .. m - 1 => w = n)
  BY WrapIs
<1>3. PICK q \in Int : w = n + m * q
  BY WrapIs DEF Congruent
<1>4. AsSigned(n, m) = IF w < h THEN w ELSE w - m
  BY DEF AsSigned
<1> HIDE DEF w, h
<1>5. AsSigned(n, m) \in -h .. h - 1
  BY <1>1, <1>2, <1>4
<1>6. n \in 0 .. h - 1 => AsSigned(n, m) = n
  BY <1>1, <1>2, <1>4
<1>7. Congruent(AsSigned(n, m), n, m)
  <2>1. CASE w < h
    <3>1. AsSigned(n, m) = n + m * q
      BY <1>3, <1>4, <2>1
    <3> QED
      BY <3>1, <1>1 DEF Congruent
  <2>2. CASE ~(w < h)
    <3>1. AsSigned(n, m) = n + m * q - m
      <4>1. AsSigned(n, m) = w - m
        BY <1>4, <2>2
      <4> QED
        BY <4>1, <1>1, <1>3
    <3>2. n + m * q - m = n + m * (q - 1) /\ q - 1 \in Int
      BY <1>1
    <3> QED
      BY <3>1, <3>2, <1>1 DEF Congruent
  <2> QED
    BY <2>1, <2>2
<1> QED
  BY <1>5, <1>6, <1>7 DEF h

LEMMA CongruentIs ==
    ASSUME NEW x, NEW n \in Int, NEW m, Even(m), Congruent(x, n, m)
    PROVE  (x - n) % m = 0
<1>1. m \in Nat /\ m > 0
  BY DEF Even
<1>2. PICK q \in Int : x = n + m * q
  BY DEF Congruent
<1>3. x - n = q * m
  BY <1>1, <1>2
<1> DEFINE d == x - n
<1>4. d \in Int /\ d = q * m
  BY <1>1, <1>3
<1> HIDE DEF d
<1>5. d % m = 0
  BY <1>1, <1>4
<1> QED
  BY <1>5 DEF d

\* The cast to an integral type gives a number of that type, which is the number
\* itself if the type has it, and else has the same low bits.
LEMMA CastIs ==
    ASSUME NEW t \in Integral, NEW n \in Nat
    PROVE  /\ Cast(t, n) \in InRange(t) /\ Cast(t, n) \in Int
           /\ n \in InRange(t) => Cast(t, n) = n
           /\ n < Half(Byte8) => (Cast(t, n) - n) % Span(t) = 0
<1> DEFINE m == Span(t)
           h == Half(m)
           H == Half(Byte8)
<1>1. Even(m) /\ m <= Byte8
  BY SpanIs
<1>2. h \in Nat /\ h > 0 /\ m = 2 * h /\ m \in Nat
  BY <1>1, HalfIs DEF Even
<1>3. H \in Nat /\ H > 0 /\ Byte8 = 2 * H /\ Byte8 \in Nat
  BY Sizes, HalfIs DEF Even
<1>4. h <= H
  <2> HIDE DEF m, h, H
  <2> QED
    BY <1>1, <1>2, <1>3
<1>5. /\ Long(n) = IF n > H - 1 THEN H - 1 ELSE n
      /\ ULong(n) = IF n > Byte8 - 1 THEN Byte8 - 1 ELSE n
  BY DEF Long, ULong, AtMost
<1>6. CASE t \in Signed
  <2>1. /\ Cast(t, n) = AsSigned(Long(n), m)
        /\ InRange(t) = -h .. h - 1
    BY <1>6 DEF Cast, InRange
  <2> HIDE DEF m, h, H
  <2>2. Long(n) \in Int
    BY <1>3, <1>5
  <2>3. n < H => Long(n) = n
    BY <1>3, <1>5
  <2>4. n \in -h .. h - 1 => n < H /\ n \in 0 .. h - 1
    BY <1>2, <1>3, <1>4
  <2> USE DEF h
  <2>5. /\ AsSigned(Long(n), m) \in -h .. h - 1
        /\ Congruent(AsSigned(Long(n), m), Long(n), m)
        /\ Long(n) \in 0 .. h - 1 => AsSigned(Long(n), m) = Long(n)
    BY <1>1, <2>2, SignedIs
  <2> HIDE DEF h
  <2>6. n < H => (Cast(t, n) - n) % m = 0
    BY <1>1, <2>1, <2>3, <2>5, CongruentIs
  <2>7. n \in InRange(t) => Cast(t, n) = n
    BY <2>1, <2>3, <2>4, <2>5
  <2>8. Cast(t, n) \in InRange(t) /\ Cast(t, n) \in Int
    BY <2>1, <2>5 DEF Congruent
  <2> QED
    BY <2>6, <2>7, <2>8 DEF m, H
<1>7. CASE t \notin Signed
  <2>1. /\ Cast(t, n) = Wrap(ULong(n), m)
        /\ InRange(t) = 0 .. m - 1
    BY <1>7 DEF Cast, InRange
  <2> HIDE DEF m, h, H
  <2>2. ULong(n) \in Int
    BY <1>3, <1>5
  <2>3. n < H => ULong(n) = n
    BY <1>3, <1>5
  <2>4. n \in 0 .. m - 1 => ULong(n) = n
    BY <1>1, <1>2, <1>3, <1>5
  <2>5. /\ Wrap(ULong(n), m) \in 0 .. m - 1
        /\ Congruent(Wrap(ULong(n), m), ULong(n), m)
        /\ ULong(n) \in 0 .. m - 1 => Wrap(ULong(n), m) = ULong(n)
    BY <1>1, <2>2, WrapIs
  <2>6. n < H => (Cast(t, n) - n) % m = 0
    BY <1>1, <2>1, <2>3, <2>5, CongruentIs
  <2>7. n \in InRange(t) => Cast(t, n) = n
    BY <2>1, <2>4, <2>5
  <2>8. Cast(t, n) \in InRange(t) /\ Cast(t, n) \in Int
    BY <2>1, <2>5 DEF Congruent
  <2> QED
    BY <2>6, <2>7, <2>8 DEF m, H
<1> QED
  BY <1>6, <1>7

\* A hexadecimal literal is an unsigned 64 bit number, and is kept up to 31 bits.
LEMMA HexIs ==
    ASSUME NEW n \in Int
    PROVE  /\ Wrap(AsSigned(n, Byte4), Byte8) \in InRange("unsigned_int64")
           /\ Wrap(AsSigned(n, Byte4), Byte8) \in Int
           /\ n \in 0 .. Half(Byte4) - 1 => Wrap(AsSigned(n, Byte4), Byte8) = n
<1> DEFINE a == AsSigned(n, Byte4)
           h == Half(Byte4)
<1>1. /\ h \in Nat /\ Byte4 = 2 * h /\ Byte4 \in Nat
      /\ Byte8 \in Nat /\ Byte4 <= Byte8 /\ Even(Byte8)
  BY Sizes, HalfIs DEF Even
<1>2. a \in Int /\ (n \in 0 .. h - 1 => a = n)
  BY Sizes, SignedIs DEF Congruent
<1>3. InRange("unsigned_int64") = 0 .. Byte8 - 1
  BY DEF InRange, Signed, Span, Size
<1> HIDE DEF a, h
<1>4. /\ Wrap(a, Byte8) \in 0 .. Byte8 - 1 /\ Wrap(a, Byte8) \in Int
      /\ a \in 0 .. Byte8 - 1 => Wrap(a, Byte8) = a
  BY <1>1, <1>2, WrapIs DEF Congruent
<1>5. n \in 0 .. h - 1 => n \in 0 .. Byte8 - 1
  BY <1>1
<1> QED
  BY <1>2, <1>3, <1>4, <1>5 DEF a, h
-----------------------------------------------------------------------------
(* Real numbers. *)

LEMMA MagnitudeIs ==
    ASSUME NEW n \in Int
    PROVE  Magnitude(n) \in Nat /\ Magnitude(n - n) = 0
  BY DEF Magnitude

LEMMA WidthIs ==
    ASSUME NEW n \in Int
    PROVE  1 + Magnitude(n) \div FloatWhole \in Nat
<1>1. Magnitude(n) \in Nat /\ FloatWhole \in Nat /\ FloatWhole > 0
  BY MagnitudeIs, FloatAssumption
<1> DEFINE m == Magnitude(n)
<1>2. m \in Nat
  BY <1>1
<1> HIDE DEF m
<1>3. m \div FloatWhole \in Nat
  BY <1>1, <1>2
<1> QED
  BY <1>3 DEF m

LEMMA NearIs ==
    ASSUME NEW n \in Int, NEW w, NEW s \in Near(n, w)
    PROVE  /\ s[1] \in Int /\ s[2] \in Nat
           /\ w \in Nat => Magnitude(s[1] - n) <= w
<1>1. s \in (n - w .. n + w) \X (0 .. MaxPlaces)
  BY DEF Near
<1>2. s[1] \in n - w .. n + w /\ s[2] \in 0 .. MaxPlaces
  BY <1>1
<1>3. s[1] \in Int /\ s[2] \in Nat
  BY <1>2
<1>4. w \in Nat => Magnitude(s[1] - n) <= w
  BY <1>2 DEF Magnitude
<1> QED
  BY <1>3, <1>4

\* A float is near the number it was made of, and is that number if it can be.
LEMMA RoundedIs ==
    ASSUME NEW n \in Int, NEW p \in Nat, NEW s \in Rounded(n, p)
    PROVE  /\ s[1] \in Int /\ s[2] \in Nat
           /\ Exact(n, p) => s[1] = n /\ s[2] = p
           /\ Magnitude(s[1] - n) <= 1 + Magnitude(n) \div FloatWhole
<1> DEFINE w == 1 + Magnitude(n) \div FloatWhole
<1>1. w \in Nat
  BY WidthIs
<1>2. CASE Exact(n, p)
  <2>1. s = <<n, p>>
    BY <1>2 DEF Rounded
  <2>2. s[1] = n /\ s[2] = p
    BY <2>1
  <2> HIDE DEF w
  <2>3. Magnitude(s[1] - n) <= w
    BY <2>2, <1>1, MagnitudeIs
  <2> QED
    BY <2>2, <2>3 DEF w
<1>3. CASE ~Exact(n, p)
  <2>1. s \in Near(n, w)
    BY <1>3 DEF Rounded
  <2> HIDE DEF w
  <2>2. s[1] \in Int /\ s[2] \in Nat /\ Magnitude(s[1] - n) <= w
    BY <2>1, <1>1, NearIs
  <2> QED
    BY <2>2, <1>3 DEF w
<1> QED
  BY <1>2, <1>3

LEMMA ShortWhole ==
    ASSUME NEW n, NEW p \in Nat, Short(n, p)
    PROVE  ~TooLong(n) /\ Exact(n, p)
<1>1. \A d \in 0 .. Precision - p : d \in 0 .. Precision - 0
  BY FloatAssumption
<1>2. Short(n, 0)
  BY <1>1 DEF Short
<1> QED
  BY <1>2 DEF TooLong, Exact

LEMMA StreamedIs ==
    ASSUME NEW n \in Int, NEW p \in Nat, NEW s \in Streamed(n, p)
    PROVE  /\ s[1] \in Int /\ s[2] \in Nat
           /\ Short(n, p) => s = <<n, p>>
<1>1. CASE Short(n, p)
  <2>1. s = <<n, p>>
    BY <1>1 DEF Streamed
  <2> QED
    BY <2>1
<1>2. CASE ~Short(n, p)
  <2> DEFINE w == 1 + Magnitude(n) \div (2 * 10 ^ (Precision - 1))
  <2>1. s \in Near(n, w)
    BY <1>2 DEF Streamed
  <2> HIDE DEF w
  <2> QED
    BY <2>1, <1>2, NearIs
<1> QED
  BY <1>1, <1>2

-----------------------------------------------------------------------------
(* Objects of class Value. *)

\* What a value object is: nothing, or a number or string of its type
Values ==
    {v \in [type : Type \cup {"none"}, n : Int, rest : Nat] :
       v.type \in Integral => v.n \in InRange(v.type) /\ v.rest = 0}

\* What the literals of a text are
ReadableLiterals == {l \in Literal : l.form = "hex" => l.n >= 0}

LEMMA TypesApart ==
    /\ Integral \subseteq Type \ {"none"} /\ Real \subseteq Type \ {"none"}
    /\ Integral \cap Real = {} /\ "string" \in Type
    /\ {"string", "ref", "property", "half", "bool", "none"} \cap (Integral \cup Real) = {}
    /\ "int32" \in Integral /\ "unsigned_int64" \in Integral /\ {"float", "double"} = Real
    /\ "none" \notin Type
  BY DEF Integral, Signed, Unsigned, Real, Type

LEMMA MakeValue ==
    ASSUME NEW t \in Type, NEW n \in Int, NEW r \in Nat,
           t \in Integral => n \in InRange(t) /\ r = 0
    PROVE  [type |-> t, n |-> n, rest |-> r] \in Values
  BY DEF Values

LEMMA NothingIs == Nothing \in Values /\ Nothing.type = "none"
  BY TypesApart DEF Nothing, Values

\* What parseIntegerLiteral makes of a literal
LEMMA IntegerIs ==
    ASSUME NEW t \in Integral, NEW l \in ReadableLiterals, NEW v \in IntegerLiteral(t, l)
    PROVE  \/ v = Nothing /\ ~StartsNumeric(l)
           \/ /\ StartsNumeric(l) /\ l.n \in Nat
              /\ \E d \in Digits(l) : /\ d \in Nat
                                      /\ v = [type |-> t, n |-> Cast(t, d), rest |-> 0]
<1>1. l.n \in Int
  BY DEF ReadableLiterals, Literal
<1>2. CASE ~StartsNumeric(l)
  BY <1>2 DEF IntegerLiteral
<1>3. CASE StartsNumeric(l)
  <2>1. l.n \in Nat
    BY <1>1, <1>3 DEF StartsNumeric
  <2>2. Digits(l) \subseteq Nat
    BY <2>1 DEF Digits
  <2>3. PICK d \in Digits(l) : v = [type |-> t, n |-> Cast(t, d), rest |-> 0]
    BY <1>3 DEF IntegerLiteral
  <2> QED
    BY <2>1, <2>2, <2>3, <1>3
<1> QED
  BY <1>2, <1>3

LEMMA CastZero ==
    ASSUME NEW t \in Integral
    PROVE  Cast(t, 0) = 0
<1> DEFINE m == Span(t)
           h == Half(m)
<1>1. Even(m)
  BY SpanIs
<1>2. h \in Nat /\ h > 0 /\ m \in Nat /\ m > 0
  BY <1>1, HalfIs DEF Even
<1>3. InRange(t) = IF t \in Signed THEN -h .. h - 1 ELSE 0 .. m - 1
  BY DEF InRange
<1> HIDE DEF m, h
<1>4. 0 \in InRange(t)
  BY <1>2, <1>3
<1> QED
  BY <1>4, CastIs

\* A digit survives every cast but for the bits that are too many.
LEMMA CastLow ==
    ASSUME NEW t \in Integral, NEW d \in 0 .. 9
    PROVE  Cast(t, d) \in Int /\ (Cast(t, d) - d) % Span(t) = 0
<1>1. /\ Byte2 \in Nat /\ Byte4 \in Nat /\ Byte8 \in Nat /\ Byte \in Nat
      /\ Byte = 2 * Half(Byte) /\ Half(Byte) \in Nat /\ Half(Byte) > 0
      /\ Byte8 = 2 * Half(Byte8) /\ Half(Byte8) \in Nat
  BY Sizes, HalfIs DEF Even
<1>2. Byte >= 2
  BY <1>1
<1>3. Byte2 >= 4
  <2>1. \A x \in Nat : x >= 2 => x * x >= 4
    OBVIOUS
  <2> QED
    BY <2>1, <1>1, <1>2 DEF Byte2
<1>4. Byte4 >= 16
  <2>1. \A x \in Nat : x >= 4 => x * x >= 16
    OBVIOUS
  <2> QED
    BY <2>1, <1>1, <1>3 DEF Byte4
<1>5. Byte8 >= 256
  <2>1. \A x \in Nat : x >= 16 => x * x >= 256
    OBVIOUS
  <2> QED
    BY <2>1, <1>1, <1>4 DEF Byte8
<1>6. d < Half(Byte8) /\ d \in Nat
  BY <1>1, <1>5
<1> QED
  BY <1>6, CastIs

LEMMA IntegerKept ==
    ASSUME NEW t \in Integral, NEW l \in ReadableLiterals, NEW v \in IntegerLiteral(t, l)
    PROVE  /\ v \in Values
           /\ v = Nothing <=> l.form \in {"string", "word"} \/ l.n < 0
           /\ v # Nothing => /\ v.type = t
                             /\ l.form = "hex" => v.n = 0
                             /\ l.form \in {"dec", "real"} => IntegerHeld(l, v)
                             /\ l.form = "exp" => ExponentHeld(v)
<1>1. l.n \in Int /\ l.form \in {"dec", "hex", "real", "exp", "string", "word"}
  BY DEF ReadableLiterals, Literal
<1>2. StartsNumeric(l) <=> ~(l.form \in {"string", "word"} \/ l.n < 0)
  BY <1>1 DEF StartsNumeric
<1>3. t # "none" /\ t \in Type
  BY TypesApart
<1>4. CASE v = Nothing /\ ~StartsNumeric(l)
  BY <1>2, <1>4, NothingIs
<1>5. ASSUME StartsNumeric(l), l.n \in Nat,
             NEW d \in Digits(l), d \in Nat, v = [type |-> t, n |-> Cast(t, d), rest |-> 0]
      PROVE  /\ v \in Values /\ v # Nothing /\ v.type = t
             /\ l.form = "hex" => v.n = 0
             /\ l.form \in {"dec", "real"} => IntegerHeld(l, v)
             /\ l.form = "exp" => ExponentHeld(v)
  <2>1. /\ Cast(t, d) \in InRange(t) /\ Cast(t, d) \in Int
        /\ d \in InRange(t) => Cast(t, d) = d
        /\ d < Half(Byte8) => (Cast(t, d) - d) % Span(t) = 0
    BY <1>5, CastIs
  <2>2. v \in Values
    BY <1>5, <1>3, <2>1, MakeValue
  <2>3. v.type = t /\ v.n = Cast(t, d) /\ v # Nothing
    <3>1. v.type = t /\ v.n = Cast(t, d)
      BY <1>5
    <3> QED
      BY <3>1, <1>3, NothingIs
  <2>4. CASE l.form = "hex"
    <3>1. d = 0
      BY <2>4 DEF Digits, IsHex
    <3> QED
      BY <3>1, <2>2, <2>3, <2>4, CastZero
  <2>5. CASE l.form = "exp"
    <3>1. d \in 0 .. 9
      BY <2>5 DEF Digits, IsHex
    <3>2. (v.n - d) % Span(v.type) = 0
      BY <3>1, <2>3, CastLow
    <3>3. ExponentHeld(v)
      BY <3>1, <3>2 DEF ExponentHeld, SameBits
    <3> QED
      BY <3>3, <2>2, <2>3, <2>5
  <2>6. CASE l.form \in {"dec", "real"}
    <3>1. d = l.n
      BY <2>6 DEF Digits, IsHex
    <3>2. IntegerHeld(l, v)
      BY <3>1, <2>1, <2>3 DEF IntegerHeld, SameBits
    <3> QED
      BY <3>2, <2>2, <2>3, <2>6
  <2>7. CASE l.form \in {"string", "word"}
    BY <2>7, <1>2, <1>5
  <2> QED
    BY <2>4, <2>5, <2>6, <2>7, <1>1
<1> QED
  BY <1>2, <1>4, <1>5, IntegerIs

\* A hexadecimal literal is a number of 64 bits, and its low 32 bits are the literal's.
LEMMA HexaKept ==
    ASSUME NEW l \in ReadableLiterals, l.form = "hex"
    PROVE  /\ HexaLiteral(l) \in Values /\ HexaLiteral(l) # Nothing
           /\ HexaHeld(l, HexaLiteral(l))
<1> DEFINE a == AsSigned(l.n, Byte4)
           w == Wrap(a, Byte8)
           h == Half(Byte4)
<1>1. l.n \in Int /\ l.n >= 0
  BY DEF ReadableLiterals, Literal
<1>2. h \in Nat /\ Even(Byte4) /\ Even(Byte8) /\ Byte4 \in Nat /\ Byte8 = Byte4 * Byte4
  BY Sizes, HalfIs DEF Even, Byte8
<1>3. w \in InRange("unsigned_int64") /\ w \in Int /\ (l.n \in 0 .. h - 1 => w = l.n)
  BY <1>1, HexIs
<1>4. (w - l.n) % Byte4 = 0
  <2>1. PICK q \in Int : a = l.n + Byte4 * q
    BY <1>1, <1>2, SignedIs DEF Congruent
  <2>2. a \in Int
    BY <1>1, <1>2, <2>1
  <2>3. PICK r \in Int : w = a + Byte8 * r
    BY <1>2, <2>2, WrapIs DEF Congruent
  <2> HIDE DEF a, w, h
  <2>4. \A b \in Nat, x \in Int, y \in Int : b * x + (b * b) * y = b * (x + b * y) /\ x + b * y \in Int
    OBVIOUS
  <2>5. Byte4 * q + Byte8 * r = Byte4 * (q + Byte4 * r) /\ q + Byte4 * r \in Int
    BY <1>2, <2>4
  <2>6. w = l.n + (Byte4 * q + Byte8 * r)
    BY <1>1, <1>2, <2>1, <2>3
  <2>7. w = l.n + Byte4 * (q + Byte4 * r)
    BY <2>5, <2>6
  <2>8. Congruent(w, l.n, Byte4)
    BY <1>3, <2>5, <2>7 DEF Congruent, w
  <2> QED
    BY <1>1, <1>2, <2>8, CongruentIs
<1>5. HexaLiteral(l) = [type |-> "unsigned_int64", n |-> w, rest |-> 0]
  BY DEF HexaLiteral
<1> HIDE DEF w, h
<1>6. HexaLiteral(l) \in Values
  BY <1>3, <1>5, MakeValue, TypesApart
<1>7. HexaLiteral(l).type = "unsigned_int64" /\ HexaLiteral(l).n = w
  BY <1>5
<1>8. HexaLiteral(l) # Nothing
  BY <1>7, NothingIs
<1>9. l.n < h => l.n \in 0 .. h - 1
  BY <1>1, <1>2
<1> QED
  BY <1>3, <1>4, <1>6, <1>7, <1>8, <1>9 DEF HexaHeld, SameBits, h

\* What parseFloatingLiteral makes of a literal
LEMMA FloatingKept ==
    ASSUME NEW t \in Type, NEW l \in ReadableLiterals, NEW v \in FloatingLiteral(t, l)
    PROVE  /\ v \in Values
           /\ v = Nothing <=> l.form \in {"string", "word"}
           /\ l.form = "hex" => HexaHeld(l, v)
           /\ l.form \in {"dec", "real", "exp"} =>
                v.type \in Real /\ RealHeld(l, v) /\ (t \in Real => v.type = t)
<1>1. /\ l.n \in Int /\ l.rest \in Nat
      /\ l.form \in {"dec", "hex", "real", "exp", "string", "word"}
  BY DEF ReadableLiterals, Literal
<1>2. CASE l.form = "hex"
  <2>1. v = HexaLiteral(l)
    BY <1>2 DEF FloatingLiteral, IsHex
  <2> QED
    BY <2>1, <1>2, HexaKept
<1>3. CASE l.form \in {"string", "word"}
  <2>1. v = Nothing
    BY <1>3 DEF FloatingLiteral, IsHex
  <2> QED
    BY <2>1, <1>3, NothingIs
<1>4. CASE l.form \in {"dec", "real", "exp"}
  <2>1. CASE t = "double"
    <3>1. v = [type |-> "double", n |-> l.n, rest |-> l.rest]
      BY <1>4, <2>1 DEF FloatingLiteral, IsHex
    <3>2. v.type = "double" /\ v.n = l.n /\ v.rest = l.rest
      BY <3>1
    <3>3. v \in Values
      BY <1>1, <3>1, MakeValue, TypesApart
    <3>4. v # Nothing /\ v.type \in Real
      BY <3>2, NothingIs, TypesApart
    <3>5. Magnitude(v.n - l.n) <= 1 + Magnitude(l.n) \div FloatWhole
      <4> DEFINE w == 1 + Magnitude(l.n) \div FloatWhole
      <4>1. w \in Nat
        BY <1>1, WidthIs
      <4> HIDE DEF w
      <4>2. Magnitude(v.n - l.n) <= w
        BY <1>1, <3>2, <4>1, MagnitudeIs
      <4> QED
        BY <4>2 DEF w
    <3>6. RealHeld(l, v)
      BY <3>2, <3>5 DEF RealHeld
    <3> QED
      BY <1>4, <2>1, <3>2, <3>3, <3>4, <3>6
  <2>2. CASE t # "double"
    <3>1. PICK s \in Rounded(l.n, l.rest) : v = [type |-> "float", n |-> s[1], rest |-> s[2]]
      <4>1. v \in {[type |-> "float", n |-> s[1], rest |-> s[2]] : s \in Rounded(l.n, l.rest)}
        BY <1>4, <2>2 DEF FloatingLiteral, IsHex
      <4> QED
        BY <4>1
    <3>2. /\ s[1] \in Int /\ s[2] \in Nat
          /\ Exact(l.n, l.rest) => s[1] = l.n /\ s[2] = l.rest
          /\ Magnitude(s[1] - l.n) <= 1 + Magnitude(l.n) \div FloatWhole
      BY <1>1, RoundedIs
    <3>3. v.type = "float" /\ v.n = s[1] /\ v.rest = s[2]
      BY <3>1
    <3>4. v \in Values
      BY <3>1, <3>2, MakeValue, TypesApart
    <3>5. v # Nothing /\ v.type \in Real /\ v.type # "double"
      BY <3>3, NothingIs, TypesApart
    <3>6. RealHeld(l, v)
      BY <3>2, <3>3, <3>5 DEF RealHeld
    <3>7. t \in Real => v.type = t
      BY <2>2, <3>3, TypesApart
    <3> QED
      BY <1>4, <3>4, <3>5, <3>6, <3>7
  <2> QED
    BY <2>1, <2>2
<1> QED
  BY <1>1, <1>2, <1>3, <1>4

LEMMA StringKept ==
    ASSUME NEW l \in ReadableLiterals, NEW v \in StringLiteral(l)
    PROVE  /\ v \in Values
           /\ v = Nothing <=> l.form # "string"
           /\ v # Nothing => v.type = "string" /\ StringHeld(l, v)
<1>1. l.n \in Int
  BY DEF ReadableLiterals, Literal
<1>2. CASE l.form = "string"
  <2>1. v = [type |-> "string", n |-> l.n, rest |-> 0]
    BY <1>2 DEF StringLiteral
  <2>2. v.type = "string" /\ v.n = l.n /\ v.rest = 0
    BY <2>1
  <2>3. v \in Values
    BY <1>1, <2>1, MakeValue, TypesApart
  <2>4. v # Nothing
    BY <2>2, NothingIs
  <2> QED
    BY <1>2, <2>2, <2>3, <2>4 DEF StringHeld
<1>3. CASE l.form # "string"
  <2>1. v = Nothing
    BY <1>3 DEF StringLiteral
  <2> QED
    BY <2>1, <1>3, NothingIs
<1> QED
  BY <1>2, <1>3

-----------------------------------------------------------------------------
(* The parsers, by the declared type. *)

\* The dispatch of parseDataList and parseProperty
LEMMA ParsedIs ==
    ASSUME NEW t \in Type, NEW l
    PROVE  /\ t \in Integral => Parsed(t, l) = IntegerLiteral(t, l)
           /\ t \in Real \cup {"half"} => Parsed(t, l) = FloatingLiteral(t, l)
           /\ t = "string" => Parsed(t, l) = StringLiteral(l)
           /\ t = "property" => Parsed(t, l) = PropertyLiteral(l)
           /\ t \in {"bool", "ref"} => Parsed(t, l) = {Nothing}
<1>1. t \in Integral => t \notin Real \cup {"half", "string", "property"}
  BY TypesApart
<1>2. t \in Real \cup {"half"} => t \notin Integral \cup {"string", "property"}
  BY TypesApart
<1>3. t \in {"string", "property", "bool", "ref"} => t \notin Integral \cup Real \cup {"half"}
  BY TypesApart
<1> QED
  BY <1>1, <1>2, <1>3 DEF Parsed

LEMMA PropertyIs ==
    ASSUME NEW l
    PROVE  /\ l.form = "dec" => PropertyLiteral(l) = IntegerLiteral("int32", l)
           /\ l.form = "real" => PropertyLiteral(l) = FloatingLiteral("float", l)
           /\ l.form = "string" => PropertyLiteral(l) = StringLiteral(l)
           /\ l.form \notin {"dec", "real", "string"} => PropertyLiteral(l) = {Nothing}
  BY DEF PropertyLiteral, IsInteger, IsFloat

\* What becomes of a literal, as LiteralKept wants it
Becomes(t, l, v) ==
    /\ v = Nothing <=> MakesNothing(t, l)
    /\ v # Nothing => (v.type = t \/ t \in {"half", "property"} \/ l.form = "hex") /\ LiteralHeld(t, l, v)

\* Every text but a word becomes what LiteralKept says, whichever value is made.
LEMMA ParsedKept ==
    ASSUME NEW t \in Type, NEW l \in ReadableLiterals, NEW v \in Parsed(t, l), l.form # "word"
    PROVE  v \in Values /\ Becomes(t, l, v)
<1>1. l.n \in Int /\ l.form \in {"dec", "hex", "real", "exp", "string"}
  BY DEF ReadableLiterals, Literal
<1>2. t \in Integral \/ t \in Real \cup {"half"} \/ t \in {"string", "property", "bool", "ref"}
  BY DEF Type
<1>3. CASE t \in Integral
  <2>1. v \in IntegerLiteral(t, l)
    BY <1>3, ParsedIs
  <2>2. /\ v \in Values
        /\ v = Nothing <=> l.form \in {"string", "word"} \/ l.n < 0
        /\ v # Nothing => /\ v.type = t
                          /\ l.form = "hex" => v.n = 0
                          /\ l.form \in {"dec", "real"} => IntegerHeld(l, v)
                          /\ l.form = "exp" => ExponentHeld(v)
    BY <1>3, <2>1, IntegerKept
  <2>3. t \notin {"string", "property", "bool", "ref"} /\ t \notin Real
    BY <1>3, TypesApart
  <2>4. MakesNothing(t, l) <=> l.n < 0 \/ l.form = "string"
    BY <1>3, <2>3 DEF MakesNothing
  <2>5. ASSUME v # Nothing PROVE LiteralHeld(t, l, v)
    <3>1. v.type \notin Real /\ l.form # "string"
      BY <1>1, <2>2, <2>3, <2>5
    <3> QED
      BY <1>1, <1>3, <2>2, <2>5, <3>1 DEF LiteralHeld
  <2> QED
    BY <1>1, <2>2, <2>4, <2>5 DEF Becomes
<1>4. CASE t \in Real \cup {"half"}
  <2>1. v \in FloatingLiteral(t, l)
    BY <1>4, ParsedIs
  <2>2. /\ v \in Values
        /\ v = Nothing <=> l.form \in {"string", "word"}
        /\ l.form = "hex" => HexaHeld(l, v)
        /\ l.form \in {"dec", "real", "exp"} =>
             v.type \in Real /\ RealHeld(l, v) /\ (t \in Real => v.type = t)
    BY <2>1, FloatingKept
  <2>3. t \notin {"string", "property", "bool", "ref"} /\ t \notin Integral
    BY <1>4, TypesApart
  <2>4. MakesNothing(t, l) <=> l.form = "string"
    BY <2>3 DEF MakesNothing
  <2>5. ASSUME v # Nothing PROVE LiteralHeld(t, l, v)
    BY <1>1, <2>2, <2>3, <2>5 DEF LiteralHeld
  <2>6. v # Nothing => v.type = t \/ t \in {"half", "property"} \/ l.form = "hex"
    BY <1>1, <1>4, <2>2
  <2> QED
    BY <1>1, <2>2, <2>4, <2>5, <2>6 DEF Becomes
<1>5. CASE t = "string"
  <2>1. v \in StringLiteral(l)
    BY <1>5, ParsedIs
  <2>2. /\ v \in Values
        /\ v = Nothing <=> l.form # "string"
        /\ v # Nothing => v.type = "string" /\ StringHeld(l, v)
    BY <2>1, StringKept
  <2>3. t \notin Integral
    BY <1>5, TypesApart
  <2>4. MakesNothing(t, l) <=> l.form # "string"
    BY <1>5, <2>3 DEF MakesNothing
  <2>5. v # Nothing => LiteralHeld(t, l, v)
    BY <2>2 DEF LiteralHeld
  <2> QED
    BY <1>5, <2>2, <2>4, <2>5 DEF Becomes
<1>6. CASE t = "property"
  <2>1. v \in PropertyLiteral(l)
    BY <1>6, ParsedIs
  <2>2. t \notin Integral
    BY <1>6, TypesApart
  <2>3. MakesNothing(t, l) <=> l.form \in {"hex", "exp"} \/ (l.form = "dec" /\ l.n < 0)
    BY <1>1, <1>6, <2>2 DEF MakesNothing
  <2>4. CASE l.form = "dec"
    <3>1. v \in IntegerLiteral("int32", l) /\ "int32" \in Integral /\ "int32" \notin Real
      BY <2>1, <2>4, PropertyIs, TypesApart
    <3>2. /\ v \in Values
          /\ v = Nothing <=> l.form \in {"string", "word"} \/ l.n < 0
          /\ v # Nothing => /\ v.type = "int32"
                            /\ l.form \in {"dec", "real"} => IntegerHeld(l, v)
      BY <3>1, IntegerKept
    <3>3. v # Nothing => LiteralHeld(t, l, v)
      BY <2>4, <3>1, <3>2 DEF LiteralHeld
    <3> QED
      BY <1>6, <2>3, <2>4, <3>2, <3>3 DEF Becomes
  <2>5. CASE l.form = "real"
    <3>1. v \in FloatingLiteral("float", l) /\ "float" \in Type
      BY <2>1, <2>5, PropertyIs, TypesApart
    <3>2. v \in Values /\ v # Nothing /\ v.type \in Real /\ RealHeld(l, v)
      BY <2>5, <3>1, FloatingKept
    <3>3. LiteralHeld(t, l, v)
      BY <2>5, <3>2 DEF LiteralHeld
    <3> QED
      BY <1>6, <2>3, <2>5, <3>2, <3>3 DEF Becomes
  <2>6. CASE l.form = "string"
    <3>1. v \in StringLiteral(l)
      BY <2>1, <2>6, PropertyIs
    <3>2. v \in Values /\ v # Nothing /\ StringHeld(l, v)
      BY <2>6, <3>1, StringKept
    <3>3. LiteralHeld(t, l, v)
      BY <2>6, <3>2 DEF LiteralHeld
    <3> QED
      BY <1>6, <2>3, <2>6, <3>2, <3>3 DEF Becomes
  <2>7. CASE l.form \in {"hex", "exp"}
    <3>1. v = Nothing
      BY <2>1, <2>7, PropertyIs
    <3> QED
      BY <2>3, <2>7, <3>1, NothingIs DEF Becomes
  <2> QED
    BY <1>1, <2>4, <2>5, <2>6, <2>7
<1>7. CASE t \in {"bool", "ref"}
  <2>1. v = Nothing
    BY <1>7, ParsedIs
  <2>2. MakesNothing(t, l)
    BY <1>7 DEF MakesNothing
  <2> QED
    BY <2>1, <2>2, NothingIs DEF Becomes
<1> QED
  BY <1>2, <1>3, <1>4, <1>5, <1>6, <1>7

\* A word becomes no value.
LEMMA WordLost ==
    ASSUME NEW t \in Type, NEW l \in ReadableLiterals, NEW v \in Parsed(t, l), l.form = "word"
    PROVE  v = Nothing
<1>1. t \in Integral \/ t \in Real \cup {"half"} \/ t \in {"string", "property", "bool", "ref"}
  BY DEF Type
<1>2. t \in Integral => v = Nothing
  <2>1. t \in Integral => v \in IntegerLiteral(t, l)
    BY ParsedIs
  <2> QED
    BY <2>1, IntegerKept
<1>3. t \in Real \cup {"half"} => v = Nothing
  <2>1. t \in Real \cup {"half"} => v \in FloatingLiteral(t, l)
    BY ParsedIs
  <2> QED
    BY <2>1, FloatingKept
<1>4. t = "string" => v = Nothing
  <2>1. t = "string" => v \in StringLiteral(l)
    BY ParsedIs
  <2> QED
    BY <2>1, StringKept
<1>5. t \in {"property", "bool", "ref"} => v = Nothing
  BY ParsedIs, PropertyIs
<1> QED
  BY <1>1, <1>2, <1>3, <1>4, <1>5

\* What a parser makes has a type.
LEMMA ParsedTyped ==
    ASSUME NEW t \in Type, NEW l \in ReadableLiterals, NEW v \in Parsed(t, l), v # Nothing
    PROVE  v.type # "none"
<1>1. \A u \in Integral : \A w \in IntegerLiteral(u, l) : w = Nothing \/ w.type = u
  BY IntegerKept
<1>2. \A u \in Type : \A w \in FloatingLiteral(u, l) :
        w = Nothing \/ w.type \in {"double", "float", "unsigned_int64"}
  BY DEF FloatingLiteral, HexaLiteral
<1>3. \A w \in StringLiteral(l) : w = Nothing \/ w.type = "string"
  BY StringKept
<1>4. "float" \in Type /\ "int32" \in Integral
  BY TypesApart
<1>5. \A w \in PropertyLiteral(l) : w = Nothing \/ w.type # "none"
  BY <1>1, <1>2, <1>3, <1>4, PropertyIs, TypesApart
<1>6. t \in Integral \/ t \in Real \cup {"half"} \/ t \in {"string", "property", "bool", "ref"}
  BY DEF Type
<1> QED
  BY <1>1, <1>2, <1>3, <1>5, <1>6, ParsedIs, TypesApart

-----------------------------------------------------------------------------
(* The value on its way. *)

\* A text that was given, and what was made of it, are as they were parsed, until
\* the value is written.
VInv ==
    /\ type \in Type
    /\ literal \in ReadableLiterals
    /\ value \in Values
    /\ trips \in 0 .. MaxTrips
    /\ stage \in {"start", "text", "value", "dropped"}
    /\ stage = "start" => literal.form = "word"
    /\ stage = "value" => value.type # "none"
    /\ stage = "value" /\ literal.form # "word" /\ trips = 0 =>
         Becomes(type, literal, value) /\ value # Nothing
    /\ stage = "dropped" /\ literal.form # "word" /\ trips = 0 => MakesNothing(type, literal)

LEMMA InitVInv == InitValue => VInv
<1> SUFFICES ASSUME InitValue PROVE VInv
  OBVIOUS
<1>1. literal \in ReadableLiterals
  BY DEF InitValue, ReadableLiterals, Literal
<1>2. 0 \in 0 .. MaxTrips
  BY NumbersAssumption
<1> QED
  BY <1>1, <1>2, NothingIs DEF InitValue, VInv

LEMMA SetValue ==
    ASSUME NEW t \in Type, Set(t)
    PROVE  value' \in Values /\ value'.type # "none"
<1>1. PICK n, r : SetTo(t, n, r) /\ n \in Int /\ r \in Nat
                    /\ (t \in Integral => n \in InRange(t) /\ r = 0)
  <2>1. Numbers \subseteq Int /\ Wholes \subseteq Int /\ Decimals \subseteq Nat
    BY NumbersAssumption DEF Decimals
  <2>2. CASE t \in Integral /\ \E n \in Numbers \cap InRange(t) : SetTo(t, n, 0)
    <3>1. PICK n \in Numbers \cap InRange(t) : SetTo(t, n, 0)
      BY <2>2
    <3>2. n \in Int /\ 0 \in Nat /\ n \in InRange(t)
      BY <2>1
    <3> QED
      BY <3>1, <3>2
  <2>3. CASE t = "float" /\ \E n \in Wholes, p \in Decimals : \E s \in Rounded(n, p) : SetTo(t, s[1], s[2])
    <3>1. PICK n \in Wholes, p \in Decimals : \E s \in Rounded(n, p) : SetTo(t, s[1], s[2])
      BY <2>3
    <3>2. PICK s \in Rounded(n, p) : SetTo(t, s[1], s[2])
      BY <3>1
    <3>3. s[1] \in Int /\ s[2] \in Nat
      BY <2>1, RoundedIs
    <3>4. t \notin Integral
      BY <2>3, TypesApart
    <3> QED
      BY <3>2, <3>3, <3>4
  <2>4. CASE t = "double" /\ \E n \in Wholes, p \in Decimals : SetTo(t, n, p)
    <3>1. t \notin Integral
      BY <2>4, TypesApart
    <3> QED
      BY <2>1, <2>4, <3>1
  <2>5. CASE t = "string" /\ \E n \in Wholes, r \in {0, 1} : SetTo(t, n, r)
    <3>1. t \notin Integral /\ {0, 1} \subseteq Nat
      BY <2>5, TypesApart
    <3> QED
      BY <2>1, <2>5, <3>1
  <2>6. CASE t = "bool" /\ \E n \in {0, 1} : SetTo(t, n, 0)
    <3>1. t \notin Integral /\ {0, 1} \subseteq Int /\ 0 \in Nat
      BY <2>6, TypesApart
    <3> QED
      BY <2>6, <3>1
  <2> QED
    BY <2>2, <2>3, <2>4, <2>5, <2>6 DEF Set
<1>2. value' = [type |-> t, n |-> n, rest |-> r]
  BY <1>1 DEF SetTo
<1>3. value' \in Values
  BY <1>1, <1>2, MakeValue
<1>4. value'.type = t
  BY <1>2
<1> QED
  BY <1>3, <1>4, TypesApart

LEMMA SetKeeps ==
    ASSUME NEW t, Set(t)
    PROVE  stage = "start" /\ stage' = "value" /\ UNCHANGED <<type, literal, trips>>
  BY DEF Set, SetTo

\* A real value is written as a real number, in any of the forms.
LEMMA RealTextIs ==
    ASSUME NEW v \in Values, v.type \in Real, NEW l \in WrittenText(v)
    PROVE  \E r \in GetReal(v) : \E s \in Streamed(r[1], r[2]) : l \in RealText(s)
<1>1. v.type \notin Integral
  BY TypesApart
<1>2. l \in UNION {UNION {RealText(s) : s \in Streamed(r[1], r[2])} : r \in GetReal(v)}
  <2>1. v.type # "string"
    BY TypesApart
  <2>2. WrittenText(v) = UNION {UNION {RealText(s) : s \in Streamed(r[1], r[2])} : r \in GetReal(v)}
    BY <1>1, <2>1 DEF WrittenText
  <2> QED
    BY <2>2
<1>3. PICK r \in GetReal(v) : l \in UNION {RealText(s) : s \in Streamed(r[1], r[2])}
  BY <1>2, Zenon
<1>4. PICK s \in Streamed(r[1], r[2]) : l \in RealText(s)
  BY <1>3, Zenon
<1> QED
  BY <1>4

LEMMA GetRealIs ==
    ASSUME NEW v \in Values, NEW r \in GetReal(v)
    PROVE  /\ r[1] \in Int /\ r[2] \in Nat
           /\ Short(v.n, v.rest) => r = <<v.n, v.rest>>
<1>1. v.n \in Int /\ v.rest \in Nat
  BY DEF Values
<1>2. CASE v.type = "double"
  <2>1. r \in Rounded(v.n, v.rest)
    BY <1>2 DEF GetReal
  <2>2. r[1] \in Int /\ r[2] \in Nat
    BY <1>1, <2>1, RoundedIs
  <2>3. ASSUME Short(v.n, v.rest) PROVE r = <<v.n, v.rest>>
    <3>1. Exact(v.n, v.rest)
      BY <2>3 DEF Exact
    <3> QED
      BY <2>1, <3>1 DEF Rounded
  <2> QED
    BY <2>2, <2>3
<1>3. CASE v.type # "double"
  <2>1. r = <<v.n, v.rest>>
    BY <1>3 DEF GetReal
  <2> QED
    BY <1>1, <2>1
<1> QED
  BY <1>2, <1>3

LEMMA WrittenReadable ==
    ASSUME NEW v \in Values, NEW l \in WrittenText(v)
    PROVE  l \in ReadableLiterals
<1>1. v.n \in Int /\ v.rest \in Nat
  BY DEF Values
<1>2. CASE v.type \in Real
  <2>1. PICK r \in GetReal(v) : \E s \in Streamed(r[1], r[2]) : l \in RealText(s)
    BY <1>2, RealTextIs
  <2>2. PICK s \in Streamed(r[1], r[2]) : l \in RealText(s)
    BY <2>1
  <2>3. s[1] \in Int /\ s[2] \in Nat
    BY GetRealIs, StreamedIs
  <2>4. PICK f \in StreamedForm(s[1], s[2]) : l = [form |-> f, n |-> s[1], rest |-> s[2]]
    BY <2>2 DEF RealText
  <2>5. f \in {"exp", "dec", "real"}
    BY DEF StreamedForm
  <2>6. l \in Literal
    BY <2>3, <2>4, <2>5 DEF Literal
  <2>7. l.form # "hex"
    BY <2>4, <2>5
  <2> QED
    BY <2>6, <2>7 DEF ReadableLiterals
<1>3. CASE v.type \in Integral
  <2>1. l = [form |-> "dec", n |-> ThroughInt(v.n), rest |-> 0]
    <3>1. v.type \notin Real /\ v.type # "string"
      BY <1>3, TypesApart
    <3> QED
      BY <1>3, <3>1 DEF WrittenText
  <2>2. ThroughInt(v.n) \in Int
    BY <1>1, Sizes, SignedIs DEF ThroughInt, Congruent
  <2> QED
    BY <2>1, <2>2 DEF ReadableLiterals, Literal
<1>4. CASE v.type \notin Integral \cup Real
  <2>1. \/ l = [form |-> "string", n |-> v.n, rest |-> v.rest]
        \/ l = [form |-> "word", n |-> v.n, rest |-> 0]
    BY <1>4 DEF WrittenText
  <2> QED
    BY <1>1, <2>1 DEF ReadableLiterals, Literal
<1> QED
  BY <1>2, <1>3, <1>4

LEMMA TextReadable ==
    ASSUME NEW l \in GivenLiterals
    PROVE  l \in ReadableLiterals
<1>1. Numbers \subseteq Int /\ Wholes \subseteq Int /\ Decimals \subseteq Nat
  BY NumbersAssumption DEF Decimals
<1>2. \/ l \in [form : {"dec"}, n : Numbers, rest : {0}]
      \/ l \in [form : {"hex"}, n : Numbers \cap Nat, rest : {0}]
      \/ l \in [form : {"real", "exp"}, n : Wholes, rest : Decimals]
      \/ l \in [form : {"string"}, n : Wholes, rest : {0, 1}]
      \/ l \in [form : {"word"}, n : {0}, rest : {0}]
  BY Zenon DEF GivenLiterals
<1>3. CASE l \in [form : {"dec"}, n : Numbers, rest : {0}]
  <2>1. l = [form |-> "dec", n |-> l.n, rest |-> 0] /\ l.n \in Int
    BY <1>1, <1>3
  <2> QED
    BY <2>1 DEF ReadableLiterals, Literal
<1>4. CASE l \in [form : {"hex"}, n : Numbers \cap Nat, rest : {0}]
  BY <1>4 DEF ReadableLiterals, Literal
<1>5. CASE l \in [form : {"real", "exp"}, n : Wholes, rest : Decimals]
  BY <1>1, <1>5 DEF ReadableLiterals, Literal
<1>6. CASE l \in [form : {"string"}, n : Wholes, rest : {0, 1}]
  <2>1. l = [form |-> "string", n |-> l.n, rest |-> l.rest] /\ l.n \in Int /\ l.rest \in {0, 1}
    BY <1>1, <1>6
  <2> QED
    BY <2>1 DEF ReadableLiterals, Literal
<1>7. CASE l \in [form : {"word"}, n : {0}, rest : {0}]
  BY <1>7 DEF ReadableLiterals, Literal
<1> QED
  BY <1>2, <1>3, <1>4, <1>5, <1>6, <1>7

LEMMA VInvNext == VInv /\ [NextValue]_valueVars => VInv'
<1> SUFFICES ASSUME VInv, [NextValue]_valueVars PROVE VInv'
  OBVIOUS
<1>1. ASSUME NEW l \in GivenLiterals, Give(l) PROVE VInv'
  <2>1. l \in ReadableLiterals
    BY TextReadable
  <2> QED
    BY <1>1, <2>1 DEF Give, VInv
<1>2. ASSUME NEW t \in Type, Set(t) PROVE VInv'
  <2>1. value' \in Values /\ value'.type # "none"
    BY <1>2, SetValue
  <2>2. stage = "start" /\ stage' = "value" /\ UNCHANGED <<type, literal, trips>>
    BY <1>2, SetKeeps
  <2> QED
    BY <2>1, <2>2 DEF VInv
<1>3. CASE Parse
  <2>1. PICK v \in Parsed(type, literal) :
          IF v = Nothing THEN stage' = "dropped" /\ UNCHANGED value
          ELSE stage' = "value" /\ value' = v
    BY <1>3 DEF Parse
  <2>2. UNCHANGED <<type, literal, trips>>
    BY <1>3 DEF Parse
  <2>3. type \in Type /\ literal \in ReadableLiterals
    BY DEF VInv
  <2>4. literal.form # "word" => v \in Values /\ Becomes(type, literal, v)
    BY <2>3, ParsedKept
  <2>5. literal.form = "word" => v = Nothing
    BY <2>3, WordLost
  <2>6. CASE v = Nothing
    <3>1. literal.form # "word" => MakesNothing(type, literal)
      BY <2>4, <2>6 DEF Becomes
    <3> QED
      BY <2>1, <2>2, <2>6, <3>1 DEF VInv
  <2>7. CASE v # Nothing
    <3>1. literal.form # "word" /\ v \in Values /\ Becomes(type, literal, v)
      BY <2>4, <2>5, <2>7
    <3>2. v.type # "none"
      BY <2>3, <2>7, ParsedTyped
    <3>3. stage' = "value" /\ value' = v
      BY <2>1, <2>7
    <3> QED
      BY <2>2, <2>7, <3>1, <3>2, <3>3 DEF VInv
  <2> QED
    BY <2>6, <2>7
<1>4. CASE Write
  <2>1. literal' \in ReadableLiterals
    BY <1>4, WrittenReadable DEF Write, VInv
  <2>2. value.type \in Type \cup {"none"} /\ value.type # "none"
    BY <1>4 DEF Write, VInv, Values
  <2>3. type' \in Type
    BY <1>4, <2>2 DEF Write, VInv
  <2>4. trips' \in 0 .. MaxTrips
    BY <1>4, NumbersAssumption DEF Write, VInv
  <2>5. stage' = "text" /\ value' = value
    BY <1>4 DEF Write
  <2> QED
    BY <2>1, <2>3, <2>4, <2>5 DEF VInv
<1>5. CASE UNCHANGED valueVars
  BY <1>5 DEF valueVars, VInv
<1> QED
  BY <1>1, <1>2, <1>3, <1>4, <1>5 DEF NextValue

\* What becomes of a literal, whatever its declared type and its form: which make no
\* value, which integers are held or keep their low bits, what is left of hexadecimal
\* ones, of real numbers and of strings; and an integer in memory fits its type
\* (parseIntegerLiteral, parseHexaLiteral, parseFloatingLiteral, parseStringLiteral).
THEOREM ValueLiteralKept == ValueSpec => []LiteralKept
<1>1. VInv => LiteralKept
  <2> SUFFICES ASSUME VInv PROVE LiteralKept
    OBVIOUS
  <2>1. ValueTypeOK
    BY DEF VInv, ValueTypeOK, Values, ReadableLiterals
  <2>2. ASSUME stage = "value", literal.form # "word", trips = 0
        PROVE  /\ ~MakesNothing(type, literal)
               /\ value.type = type \/ type \in {"half", "property"} \/ literal.form = "hex"
               /\ LiteralHeld(type, literal, value)
    BY <2>2 DEF VInv, Becomes
  <2>3. ASSUME stage = "dropped", literal.form # "word", trips = 0
        PROVE  MakesNothing(type, literal)
    BY <2>3 DEF VInv
  <2> QED
    BY <2>1, <2>2, <2>3 DEF LiteralKept
<1> QED
  BY <1>1, InitVInv, VInvNext, PTL DEF ValueSpec

\* An integer that an int holds is written and read as the same value, by a list of
\* its type, and by a property if it is an int.
LEMMA IntegerBack ==
    ASSUME NEW v \in Values, v.type \in Integral, v.n \in 0 .. Half(Byte4) - 1,
           NEW l \in WrittenText(v), NEW t,
           \/ t = v.type
           \/ t = "property" /\ v.type = "int32"
    PROVE  Parsed(t, l) = {v}
<1>1. /\ v = [type |-> v.type, n |-> v.n, rest |-> 0]
      /\ v.n \in InRange(v.type) /\ v.n \in Int
  BY DEF Values
<1>2. ThroughInt(v.n) = v.n /\ v.n \in Nat
  <2>1. v.n \in Nat
    BY Sizes, HalfIs
  <2> QED
    BY <2>1, <1>1, Sizes, SignedIs DEF ThroughInt
<1>3. l = [form |-> "dec", n |-> v.n, rest |-> 0]
  <2>1. WrittenText(v) = {[form |-> "dec", n |-> ThroughInt(v.n), rest |-> 0]}
    <3>1. v.type \notin Real /\ v.type # "string"
      BY TypesApart
    <3> QED
      BY <3>1 DEF WrittenText
  <2>2. l = [form |-> "dec", n |-> ThroughInt(v.n), rest |-> 0]
    BY <2>1, Zenon
  <2> QED
    BY <2>2, <1>2
<1>4. l.form = "dec" /\ l.n = v.n
  BY <1>3
<1>5. Parsed(t, l) = IntegerLiteral(v.type, l)
  <2>1. v.type \in Type /\ "property" \in Type
    BY TypesApart DEF Type
  <2> QED
    BY <2>1, <1>4, ParsedIs, PropertyIs
<1>6. StartsNumeric(l) /\ Digits(l) = {v.n}
  BY <1>2, <1>4 DEF StartsNumeric, Digits, IsHex
<1>7. Cast(v.type, v.n) = v.n
  BY <1>1, <1>2, CastIs
<1>8. IntegerLiteral(v.type, l) = {[type |-> v.type, n |-> Cast(v.type, v.n), rest |-> 0]}
  BY <1>6 DEF IntegerLiteral
<1> QED
  BY <1>1, <1>5, <1>7, <1>8

\* The same of a string without a quotation mark, ...
LEMMA StringBack ==
    ASSUME NEW v \in Values, v.type = "string", v.rest = 0,
           NEW l \in WrittenText(v), NEW t \in {"string", "property"}
    PROVE  Parsed(t, l) = {v}
<1>1. v = [type |-> "string", n |-> v.n, rest |-> 0]
  BY DEF Values
<1>2. v.type \notin Integral /\ v.type \notin Real /\ "property" \in Type /\ "string" \in Type
  BY TypesApart DEF Type
<1>3. WrittenText(v) = {[form |-> "string", n |-> v.n, rest |-> v.rest]}
  BY <1>2 DEF WrittenText
<1>4. l.form = "string" /\ l.n = v.n
  BY <1>3
<1>5. Parsed(t, l) = StringLiteral(l)
  BY <1>2, <1>4, ParsedIs, PropertyIs
<1>6. StringLiteral(l) = {[type |-> "string", n |-> l.n, rest |-> 0]}
  BY <1>4 DEF StringLiteral
<1> QED
  BY <1>1, <1>4, <1>5, <1>6

\* ... of a number of a float's precision in a list, and of a float with up to four
\* decimal places in a property.
LEMMA RealBack ==
    ASSUME NEW v \in Values, v.type \in Real, Short(v.n, v.rest),
           NEW l \in WrittenText(v), NEW t,
           \/ t = v.type
           \/ t = "property" /\ v.type = "float" /\ v.rest \in 1 .. 4
    PROVE  Parsed(t, l) = {v}
<1>1. /\ v = [type |-> v.type, n |-> v.n, rest |-> v.rest]
      /\ v.n \in Int /\ v.rest \in Nat
  BY DEF Values
<1>2. v.type \in Type /\ v.type \in {"float", "double"} /\ "property" \in Type
  BY TypesApart DEF Type
<1>3. ~TooLong(v.n) /\ Exact(v.n, v.rest)
  BY <1>1, ShortWhole
<1>4. PICK f \in StreamedForm(v.n, v.rest) : l = [form |-> f, n |-> v.n, rest |-> v.rest]
  <2>1. PICK r \in GetReal(v) : \E s \in Streamed(r[1], r[2]) : l \in RealText(s)
    BY RealTextIs
  <2>2. r = <<v.n, v.rest>>
    BY <2>1, GetRealIs
  <2>3. PICK s \in Streamed(v.n, v.rest) : l \in RealText(s)
    BY <2>1, <2>2
  <2>4. s = <<v.n, v.rest>>
    BY <1>1, <2>3, StreamedIs
  <2> QED
    BY <2>3, <2>4 DEF RealText
<1>5. l.form = f /\ l.n = v.n /\ l.rest = v.rest
  BY <1>4
<1>6. f \in {"exp", "dec", "real"} /\ (v.rest \in 1 .. 4 => f = "real")
  BY <1>1, <1>3 DEF StreamedForm
<1>7. Parsed(t, l) = FloatingLiteral(v.type, l)
  BY <1>2, <1>5, <1>6, ParsedIs, PropertyIs
<1>8. FloatingLiteral(v.type, l) = {[type |-> v.type, n |-> v.n, rest |-> v.rest]}
  <2>1. ~IsHex(l) /\ l.form \in {"dec", "real", "exp"}
    BY <1>5, <1>6 DEF IsHex
  <2>2. CASE v.type = "double"
    BY <1>5, <2>1, <2>2 DEF FloatingLiteral
  <2>3. CASE v.type = "float"
    <3>1. Rounded(l.n, l.rest) = {<<v.n, v.rest>>}
      BY <1>3, <1>5 DEF Rounded
    <3>2. FloatingLiteral(v.type, l) =
            {[type |-> "float", n |-> s[1], rest |-> s[2]] : s \in Rounded(l.n, l.rest)}
      BY <2>1, <2>3 DEF FloatingLiteral
    <3> QED
      BY <2>3, <3>1, <3>2
  <2> QED
    BY <1>2, <2>2, <2>3
<1> QED
  BY <1>1, <1>7, <1>8

\* A value that its text says all of is read back as it was written, and can be read
\* as nothing else: integers that an int holds, strings without a quotation mark, and
\* real numbers of a float's precision (writeValueType and writeValue, against
\* parseDataList and parseProperty).
THEOREM ValueReadsBack == ValueSpec => WrittenReadsBack
<1> DEFINE ReadBack == stage = "value" /\ stage' = "text" /\ Plain(type, value)
                          => Parsed(type', literal') = {value}
<1>1. VInv /\ [NextValue]_valueVars => [ReadBack]_valueVars
  <2> SUFFICES ASSUME VInv, NextValue, stage = "value", stage' = "text", Plain(type, value)
               PROVE  Parsed(type', literal') = {value}
    OBVIOUS
  <2>1. Write
    <3>1. ~Parse
      BY DEF Parse
    <3>2. \A l \in GivenLiterals : ~Give(l)
      BY DEF Give
    <3>3. \A t \in Type : ~Set(t)
      BY SetKeeps
    <3> QED
      BY <3>1, <3>2, <3>3 DEF NextValue
  <2>2. /\ value \in Values /\ literal' \in WrittenText(value)
        /\ type' = IF type = "property" THEN type ELSE value.type
    BY <2>1 DEF Write, VInv
  <2>3. CASE /\ value.type \in Integral /\ value.n \in 0 .. Half(Byte4) - 1
             /\ (type = "property" => value.type = "int32")
    BY <2>2, <2>3, IntegerBack
  <2>4. CASE value.type = "string" /\ value.rest = 0
    BY <2>2, <2>4, StringBack
  <2>5. CASE /\ value.type \in Real /\ Short(value.n, value.rest)
             /\ (type = "property" => value.type = "float" /\ value.rest \in 1 .. 4)
    BY <2>2, <2>5, RealBack
  <2> QED
    BY <2>3, <2>4, <2>5 DEF Plain
<1> QED
  BY <1>1, InitVInv, VInvNext, PTL DEF ValueSpec, WrittenReadsBack

-----------------------------------------------------------------------------
(* Reading a header, token by token. *)

\* Where there is a character, and which
LEMMA AtIs ==
    ASSUME text \in Seq(Token), NEW i \in Int
    PROVE  /\ At(i) \in Token \cup {"end"}
           /\ At(i) # "end" <=> i \in 1 .. Len(text)
           /\ i \in 1 .. Len(text) => At(i) = text[i]
<1>1. "end" \notin Token
  BY DEF Token
<1>2. DOMAIN text = 1 .. Len(text) /\ \A k \in 1 .. Len(text) : text[k] \in Token
  BY ElementOfSeq
<1> QED
  BY <1>1, <1>2 DEF At

LEMMA LookIs ==
    ASSUME text \in Seq(Token), NEW i \in 1 .. Len(text) + 1
    PROVE  /\ Look(i) \in i .. Len(text) + 1
           /\ At(Look(i)) # "comma"
           /\ \A j \in i .. Look(i) - 1 : At(j) = "comma"
<1> DEFINE n == Len(text) + 1
           S == {j \in i .. n : At(j) # "comma"} \cup {n}
<1>1. n \in Nat /\ i \in Nat /\ i \in 1 .. n
  BY LenProperties
<1>2. At(n) # "comma"
  <2>1. n \in Int /\ n \notin 1 .. Len(text)
    BY LenProperties
  <2>2. At(n) = "end"
    BY <2>1, AtIs
  <2> QED
    BY <2>2
<1> HIDE DEF n
<1>3. n \in i .. n
  BY <1>1
<1>4. S # {} /\ S \subseteq Nat /\ \A j \in i .. n : At(j) # "comma" => j \in S
  <2>1. n \in S /\ \A j \in i .. n : At(j) # "comma" => j \in S
    OBVIOUS
  <2>2. i .. n \subseteq Nat
    BY <1>1
  <2>3. S \subseteq Nat
    BY <1>1, <2>2, Zenon
  <2> QED
    BY <2>1, <2>3
<1>5. PICK m \in S : \A k \in S : m <= k
  <2> HIDE DEF S
  <2> QED
    BY <1>4, LeastElement
<1>6. Look(i) = CHOOSE x \in S : \A y \in S : x <= y
  BY DEF Look, Min, n
<1>7. Look(i) \in S /\ \A k \in S : Look(i) <= k
  <2> HIDE DEF S
  <2> QED
    BY <1>5, <1>6, Zenon
<1>8. Look(i) \in i .. n
  BY <1>3, <1>7
<1>9. ASSUME NEW j \in i .. Look(i) - 1 PROVE At(j) = "comma"
  <2> DEFINE q == Look(i)
  <2>1. q \in i .. n /\ j \in i .. q - 1
    BY <1>8, <1>9
  <2> HIDE DEF q
  <2>2. j \in i .. n /\ ~(q <= j)
    <3>1. i \in Int /\ q \in Int /\ j \in Int /\ n \in Int
      BY <1>1, <2>1
    <3>2. i <= j /\ j <= q - 1 /\ q <= n
      BY <2>1, <3>1
    <3> QED
      BY <3>1, <3>2
  <2>3. j \notin S
    <3> HIDE DEF S
    <3> QED
      BY <1>7, <2>2 DEF q
  <2> QED
    BY <1>4, <2>2, <2>3, Zenon
<1>10. At(Look(i)) # "comma"
  BY <1>2, <1>7
<1> QED
  BY <1>8, <1>9, <1>10 DEF n

LEMMA LookStays ==
    ASSUME text \in Seq(Token), NEW i \in 1 .. Len(text) + 1, At(i) # "comma"
    PROVE  Look(i) = i
<1>1. Look(i) \in i .. Len(text) + 1 /\ \A j \in i .. Look(i) - 1 : At(j) = "comma"
  BY LookIs
<1>2. Look(i) # i => i \in i .. Look(i) - 1
  <2> DEFINE q == Look(i)
             n == Len(text)
  <2>1. n \in Nat /\ i \in 1 .. n + 1 /\ q \in i .. n + 1
    BY <1>1, LenProperties
  <2> HIDE DEF q, n
  <2>2. i \in Int /\ q \in Int /\ i <= q
    BY <2>1
  <2>3. q # i => i \in i .. q - 1
    BY <2>2
  <2> QED
    BY <2>3 DEF q
<1> QED
  BY <1>1, <1>2

\* What parseIdentifier and parseName can read
Reads == Token \cup {"empty", "null"}

LEMMA IdentifierIs ==
    ASSUME text \in Seq(Token), NEW i \in 1 .. Len(text) + 1
    PROVE  /\ Identifier(i).next \in i .. Len(text) + 1
           /\ Identifier(i).of \in Reads
           /\ Identifier(i).of = "null" => Identifier(i).next = Look(i)
<1> DEFINE j == Look(i)
           n == Len(text)
<1>1. n \in Nat /\ i \in 1 .. n + 1 /\ j \in i .. n + 1
  BY LookIs, LenProperties
<1>2. At(j) \in Token \cup {"end"} /\ (At(j) # "end" => j <= n)
  BY <1>1, AtIs
<1>3. j \in Int /\ (At(j + 1) # "end" => j + 1 <= n)
  <2>1. j \in Int /\ j + 1 \in Int
    BY <1>1
  <2> QED
    BY <2>1, AtIs
<1>4. /\ Identifier(i).of = CASE At(j) \in Numeral \cup {"end"} -> "null"
                              [] At(j) \in Ends \ {"end"} -> "empty"
                              [] OTHER -> At(j)
      /\ Identifier(i).next = IF At(j) \in Ends \cup Numeral THEN j
                              ELSE IF At(j) = "=." /\ At(j + 1) \notin Ends THEN j + 2
                              ELSE j + 1
  BY DEF Identifier
<1>5. Identifier(i).of \in Reads
  BY <1>2, <1>4 DEF Reads, Ends
<1>6. Identifier(i).of = "null" => At(j) \in Numeral \cup {"end"}
  BY <1>2, <1>4 DEF Ends, Token
<1>7. At(j) \notin Ends => j <= n
  BY <1>2 DEF Ends
<1>8. At(j + 1) \notin Ends => j + 2 <= n + 1
  <2>1. At(j + 1) \notin Ends => j + 1 <= n
    BY <1>3 DEF Ends
  <2>2. j + 1 <= n => j + 2 <= n + 1
    BY <1>1, <1>3
  <2> QED
    BY <2>1, <2>2
<1>9. Identifier(i).next \in i .. n + 1
  <2> HIDE DEF j, n
  <2>1. \/ Identifier(i).next = j
        \/ Identifier(i).next = j + 2 /\ At(j + 1) \notin Ends
        \/ Identifier(i).next = j + 1 /\ At(j) \notin Ends
    BY <1>4, Zenon
  <2>2. \/ Identifier(i).next = j
        \/ Identifier(i).next = j + 2 /\ j + 2 <= n + 1
        \/ Identifier(i).next = j + 1 /\ j <= n
    BY <1>7, <1>8, <2>1, Zenon
  <2> QED
    BY <1>1, <2>2
<1> QED
  BY <1>4, <1>5, <1>6, <1>9 DEF Ends

LEMMA NameAtIs ==
    ASSUME text \in Seq(Token), NEW i \in 1 .. Len(text) + 1
    PROVE  NameAt(i).next \in i .. Len(text) + 1 /\ NameAt(i).of \in Reads
<1> DEFINE j == Look(i)
<1>1. j \in i .. Len(text) + 1
  BY LookIs
<1>2. CASE At(j) # "$"
  BY <1>1, <1>2 DEF NameAt, Reads
<1>3. CASE At(j) = "$"
  <2>1. j <= Len(text)
    BY <1>1, <1>3, AtIs
  <2>2. j + 1 \in 1 .. Len(text) + 1
    BY <1>1, <2>1
  <2>3. NameAt(i) = Identifier(j + 1)
    BY <1>3 DEF NameAt
  <2> HIDE DEF j
  <2>4. Identifier(j + 1).next \in j + 1 .. Len(text) + 1 /\ Identifier(j + 1).of \in Reads
    BY <2>2, IdentifierIs
  <2> QED
    BY <1>1, <2>3, <2>4
<1> QED
  BY <1>2, <1>3

\* The values a property can have; how many tokens are written of one, and the first
Kind == {"num", "neg", "real", "whole", "exp", "bool", "str", "quoted", "ref"}
Width(v) == IF v = "ref" THEN 0 ELSE IF v = "quoted" THEN 2 ELSE 1
First(v) == IF v = "whole" THEN "num" ELSE IF v = "bool" THEN "id"
            ELSE IF v = "quoted" THEN "str" ELSE v

LEMMA ValueWritten ==
    ASSUME NEW v \in Kind
    PROVE  /\ WrittenValue(v) \in Seq(Token) /\ Len(WrittenValue(v)) = Width(v)
           /\ v # "ref" => WrittenValue(v)[1] = First(v) /\ First(v) \in Token
           /\ v = "quoted" => WrittenValue(v)[2] = "id"
<1>1. \A x, y \in Token : /\ <<x, y>> \in Seq(Token) /\ Len(<<x, y>>) = 2
                         /\ <<x, y>>[1] = x /\ <<x, y>>[2] = y
                         /\ <<x>> \in Seq(Token) /\ Len(<<x>>) = 1 /\ <<x>>[1] = x
  OBVIOUS
<1>2. <<>> \in Seq(Token) /\ Len(<<>>) = 0
  OBVIOUS
<1>3. "num" \in Token /\ "id" \in Token /\ "str" \in Token
  BY DEF Token
<1>4. CASE v = "ref"
  BY <1>2, <1>4 DEF WrittenValue, Width
<1>5. CASE v = "quoted"
  BY <1>1, <1>3, <1>5 DEF WrittenValue, Width, First
<1>6. CASE v \notin {"ref", "quoted"}
  <2>1. First(v) \in Token
    BY <1>3, <1>6 DEF First, Kind, Token
  <2>2. WrittenValue(v) = <<First(v)>> /\ Width(v) = 1
    BY <1>6 DEF WrittenValue, Width, First
  <2> QED
    BY <1>1, <1>6, <2>1, <2>2
<1> QED
  BY <1>4, <1>5, <1>6

\* What the exporter writes of a property, and of a header
Piece(h, i) == (IF i = 1 THEN <<>> ELSE <<"comma">>) \o <<h.props[i].key, "=">>
               \o WrittenValue(h.props[i].value)
Pieces(h) == [i \in DOMAIN h.props |-> Piece(h, i)]

\* The properties of a header are pairs of a word and a value.
LEMMA PropertiesTyped ==
    ASSUME NEW h \in Header
    PROVE  h.props \in Seq([key : Word, value : Kind])
  BY DEF Header, Kind

LEMMA WrittenHeaderIs ==
    ASSUME NEW h
    PROVE  WrittenHeader(h) =
             <<h.type>> \o (IF h.name = "empty" THEN <<>> ELSE <<"$", h.name>>)
             \o (IF h.props = <<>> THEN <<>> ELSE <<"(">> \o FlattenSeq(Pieces(h)) \o <<")">>)
  BY Zenon DEF WrittenHeader, Pieces, Piece

LEMMA PiecesTyped ==
    ASSUME NEW h \in Header
    PROVE  Pieces(h) \in Seq(Seq(Token)) /\ Len(Pieces(h)) = Len(h.props)
<1> DEFINE P == [key : Word, value : Kind]
<1>1. h.props \in Seq(P)
  BY PropertiesTyped
<1>2. DOMAIN h.props = 1 .. Len(h.props) /\ Len(h.props) \in Nat
  BY <1>1
<1>3. ASSUME NEW i \in 1 .. Len(h.props) PROVE Piece(h, i) \in Seq(Token)
  <2> DEFINE a == IF i = 1 THEN <<>> ELSE <<"comma">>
             b == <<h.props[i].key, "=">>
             c == WrittenValue(h.props[i].value)
  <2>1. h.props[i] \in P
    <3> HIDE DEF P
    <3> QED
      BY <1>1, <1>3, ElementOfSeq
  <2>2. h.props[i].key \in Token /\ h.props[i].value \in Kind
    BY <2>1 DEF Word, Token
  <2>3. a \in Seq(Token) /\ b \in Seq(Token)
    <3>1. "comma" \in Token /\ "=" \in Token
      BY DEF Token
    <3>2. \A x, y \in Token : <<x, y>> \in Seq(Token) /\ <<x>> \in Seq(Token)
      OBVIOUS
    <3>3. <<>> \in Seq(Token)
      OBVIOUS
    <3> QED
      BY <2>2, <3>1, <3>2, <3>3, Zenon
  <2>4. c \in Seq(Token)
    BY <2>2, ValueWritten
  <2>5. Piece(h, i) = a \o b \o c
    BY DEF Piece
  <2> HIDE DEF a, b, c
  <2> QED
    BY <2>3, <2>4, <2>5
<1> QED
  BY <1>2, <1>3 DEF Pieces

LEMMA WrittenTyped ==
    ASSUME NEW h \in Header
    PROVE  WrittenHeader(h) \in Seq(Token)
<1>1. FlattenSeq(Pieces(h)) \in Seq(Token)
  BY PiecesTyped, FlattenTyped
<1>2. h.type \in Token /\ h.name \in Token \cup {"empty"}
  BY DEF Header, Word, Token
<1>3. /\ <<h.type>> \in Seq(Token) /\ <<>> \in Seq(Token)
      /\ h.name # "empty" => <<"$", h.name>> \in Seq(Token)
      /\ <<"(">> \in Seq(Token) /\ <<")">> \in Seq(Token)
  <2>1. "(" \in Token /\ ")" \in Token /\ "$" \in Token
    BY DEF Token
  <2>2. \A x, y \in Token : <<x, y>> \in Seq(Token) /\ <<x>> \in Seq(Token)
    OBVIOUS
  <2>3. <<>> \in Seq(Token)
    OBVIOUS
  <2>4. h.name # "empty" => h.name \in Token
    BY <1>2
  <2> QED
    BY <1>2, <2>1, <2>2, <2>3, <2>4, Zenon
<1> DEFINE f == FlattenSeq(Pieces(h))
           a == IF h.name = "empty" THEN <<>> ELSE <<"$", h.name>>
           b == IF h.props = <<>> THEN <<>> ELSE <<"(">> \o f \o <<")">>
<1>4. a \in Seq(Token)
  BY <1>3
<1>5. b \in Seq(Token)
  <2>1. f \in Seq(Token) /\ <<"(">> \in Seq(Token) /\ <<")">> \in Seq(Token) /\ <<>> \in Seq(Token)
    BY <1>1, <1>3
  <2> HIDE DEF f
  <2>2. <<"(">> \o f \o <<")">> \in Seq(Token)
    <3> DEFINE x == <<"(">>
               y == <<")">>
    <3>1. x \in Seq(Token) /\ y \in Seq(Token)
      BY <2>1
    <3> HIDE DEF x, y
    <3>2. (x \o f) \o y \in Seq(Token)
      BY <2>1, <3>1, ConcatProperties
    <3> QED
      BY <3>2 DEF x, y
  <2> QED
    BY <2>1, <2>2
<1>6. WrittenHeader(h) = <<h.type>> \o a \o b
  BY WrittenHeaderIs
<1> DEFINE t == <<h.type>>
<1>7. t \in Seq(Token)
  BY <1>3
<1> HIDE DEF a, b, t
<1>8. (t \o a) \o b \in Seq(Token)
  BY <1>4, <1>5, <1>7, ConcatProperties
<1> QED
  BY <1>6, <1>8 DEF t

-----------------------------------------------------------------------------
(* Objects and who owns them. *)

\* Each live object owns live objects, and no object has two owners.
Tree ==
    /\ \E S : heap \in Seq(S)
    /\ live \subseteq DOMAIN heap
    /\ \A o \in live : heap[o].owns \in Seq(live)
    /\ \A o, q \in live : \A i \in DOMAIN heap[o].owns, j \in DOMAIN heap[q].owns :
         heap[o].owns[i] = heap[q].owns[j] => o = q /\ i = j

\* An object that no other one owns
Unowned == {x \in live : \A o \in live : \A i \in DOMAIN heap[o].owns : heap[o].owns[i] # x}

\* One owner is all an object has.
LEMMA OneOwner ==
    ASSUME Tree, NEW o \in live, NEW q \in live,
           NEW i \in DOMAIN heap[o].owns, NEW j \in DOMAIN heap[q].owns,
           heap[o].owns[i] = heap[q].owns[j]
    PROVE  o = q /\ i = j
  BY DEF Tree

LEMMA HeapIs ==
    ASSUME Tree
    PROVE  /\ Len(heap) \in Nat /\ DOMAIN heap = 1 .. Len(heap)
           /\ \A o \in live : o \in 1 .. Len(heap) /\ o \in Nat /\ o # Null
<1>1. PICK S : heap \in Seq(S)
  BY DEF Tree
<1>2. Len(heap) \in Nat /\ DOMAIN heap = 1 .. Len(heap)
  BY <1>1, LenProperties
<1>3. ASSUME NEW o \in live PROVE o \in 1 .. Len(heap)
  BY <1>2, <1>3 DEF Tree
<1>4. ASSUME NEW o \in 1 .. Len(heap) PROVE o \in Nat /\ o # Null
  BY <1>2, NullAssumption
<1> QED
  BY <1>2, <1>3, <1>4

\* What the objects `objs' own; it is new, or was nobody's.
Given(objs) == UNION {{objs[k].owns[i] : i \in DOMAIN objs[k].owns} : k \in DOMAIN objs}
Allocatable(objs, fresh) ==
    /\ \A k \in DOMAIN objs : objs[k].owns \in Seq(live \cup fresh)
    /\ \A k \in DOMAIN objs : \A i \in DOMAIN objs[k].owns :
         objs[k].owns[i] \in fresh \/ objs[k].owns[i] \in Unowned
    /\ \A k, m \in DOMAIN objs : \A i \in DOMAIN objs[k].owns, j \in DOMAIN objs[m].owns :
         objs[k].owns[i] = objs[m].owns[j] => k = m /\ i = j

\* Objects that are allocated join the tree.
LEMMA Allocates ==
    ASSUME Tree, NEW objs, \E S : objs \in Seq(S), New(objs),
           NEW fresh, fresh = Len(heap) + 1 .. Len(heap) + Len(objs), Allocatable(objs, fresh)
    PROVE  /\ Tree'
           /\ live' = live \cup fresh
           /\ Len(heap') = Len(heap) + Len(objs)
           /\ \A k \in DOMAIN objs : heap'[Len(heap) + k] = objs[k]
           /\ \A o \in live : heap'[o] = heap[o]
           /\ \A x \in fresh : x \notin live
           /\ (fresh \cup Unowned) \ Given(objs) \subseteq Unowned'
<1> DEFINE n == Len(heap)
           m == Len(objs)
<1>1. PICK S : objs \in Seq(S)
  OBVIOUS
<1>2. PICK Z : heap \in Seq(Z)
  BY DEF Tree
<1>3. /\ n \in Nat /\ DOMAIN heap = 1 .. n /\ m \in Nat /\ DOMAIN objs = 1 .. m
      /\ \A o \in live : o \in 1 .. n /\ o \in Nat
  BY <1>1, HeapIs, LenProperties
<1>4. heap' = heap \o objs /\ live' = live \cup (n + 1 .. Len(heap'))
  BY DEF New, NewBeside
<1>5. heap \in Seq(Z \cup S) /\ objs \in Seq(Z \cup S)
  <2>1. \A A, B : Seq(A) \subseteq Seq(A \cup B) /\ Seq(B) \subseteq Seq(A \cup B)
    OBVIOUS
  <2> QED
    BY <1>1, <1>2, <2>1, Zenon
<1>6. /\ heap' \in Seq(Z \cup S) /\ Len(heap') = n + m
      /\ \A o \in 1 .. n + m : heap'[o] = IF o <= n THEN heap[o] ELSE objs[o - n]
  BY <1>4, <1>5, ConcatProperties
<1>7. fresh = n + 1 .. n + m /\ live' = live \cup fresh
  BY <1>4, <1>6
<1> HIDE DEF n, m
<1>8. \A o \in live : heap'[o] = heap[o]
  BY <1>3, <1>6
<1>9. \A k \in 1 .. m : heap'[n + k] = objs[k]
  <2> SUFFICES ASSUME NEW k \in 1 .. m PROVE heap'[n + k] = objs[k]
    OBVIOUS
  <2>1. n + k \in 1 .. n + m /\ ~(n + k <= n) /\ (n + k) - n = k
    BY <1>3
  <2> QED
    BY <1>6, <2>1
<1>10. \A x \in fresh : x \notin live /\ x - n \in 1 .. m /\ n + (x - n) = x
  BY <1>3, <1>7
<1>11. \A x \in fresh : heap'[x] = objs[x - n]
  BY <1>9, <1>10
<1>12. \A o \in live : heap'[o].owns \in Seq(live)
  BY <1>8 DEF Tree
<1>13. \A o \in live' : heap'[o].owns \in Seq(live')
  <2>1. \A A, B : Seq(A) \subseteq Seq(A \cup B)
    OBVIOUS
  <2>2. \A o \in live : heap'[o].owns \in Seq(live \cup fresh)
    BY <1>12, <2>1, Zenon
  <2>3. \A o \in fresh : heap'[o].owns \in Seq(live \cup fresh)
    BY <1>3, <1>10, <1>11 DEF Allocatable
  <2> QED
    BY <1>7, <2>2, <2>3
<1>14. \A o \in live : \A i \in DOMAIN heap'[o].owns : heap'[o].owns[i] \in live
  BY <1>12, ElementOfSeq
<1>15. ASSUME NEW o \in live', NEW q \in live',
              NEW i \in DOMAIN heap'[o].owns, NEW j \in DOMAIN heap'[q].owns,
              heap'[o].owns[i] = heap'[q].owns[j]
       PROVE  o = q /\ i = j
  <2>1. CASE o \in live /\ q \in live
    <3>1. heap'[o] = heap[o] /\ heap'[q] = heap[q]
      BY <1>8, <2>1
    <3>2. /\ i \in DOMAIN heap[o].owns /\ j \in DOMAIN heap[q].owns
          /\ heap[o].owns[i] = heap[q].owns[j]
      BY <1>15, <3>1
    <3> QED
      BY <2>1, <3>2, OneOwner
  <2>2. CASE o \in fresh /\ q \in fresh
    <3>1. /\ heap'[o] = objs[o - n] /\ heap'[q] = objs[q - n]
          /\ o - n \in DOMAIN objs /\ q - n \in DOMAIN objs
      BY <1>3, <1>10, <1>11, <2>2
    <3>2. o - n = q - n /\ i = j
      <4> DEFINE k == o - n
                 l == q - n
      <4>1. /\ k \in DOMAIN objs /\ l \in DOMAIN objs
            /\ i \in DOMAIN objs[k].owns /\ j \in DOMAIN objs[l].owns
            /\ objs[k].owns[i] = objs[l].owns[j]
        BY <1>15, <3>1
      <4> HIDE DEF k, l
      <4>2. k = l /\ i = j
        BY <4>1, Zenon DEF Allocatable
      <4> QED
        BY <4>2 DEF k, l
    <3> QED
      BY <1>10, <2>2, <3>2
  <2>3. ASSUME NEW a \in live, NEW b \in fresh,
               NEW k \in DOMAIN heap'[a].owns, NEW l \in DOMAIN heap'[b].owns
        PROVE  heap'[a].owns[k] # heap'[b].owns[l]
    <3>1. heap'[b] = objs[b - n] /\ b - n \in DOMAIN objs
      BY <1>3, <1>10, <1>11
    <3>2. heap'[b].owns[l] \in fresh \/ heap'[b].owns[l] \in Unowned
      BY <3>1 DEF Allocatable
    <3>3. heap'[a].owns[k] \in live
      BY <1>14
    <3>4. heap'[a] = heap[a]
      BY <1>8
    <3> QED
      BY <1>10, <3>2, <3>3, <3>4 DEF Unowned
  <2> QED
    BY <1>7, <1>15, <2>1, <2>2, <2>3
<1>16. Tree'
  <2>1. live' \subseteq DOMAIN heap'
    <3>1. DOMAIN heap' = 1 .. n + m
      BY <1>6, LenProperties
    <3>2. fresh \subseteq 1 .. n + m /\ live \subseteq 1 .. n + m
      BY <1>3, <1>7
    <3> QED
      BY <1>7, <3>1, <3>2
  <2>2. \E Y : heap' \in Seq(Y)
    BY <1>6
  <2> QED
    BY <1>13, <1>15, <2>1, <2>2 DEF Tree
<1>17. ASSUME NEW x \in (fresh \cup Unowned) \ Given(objs) PROVE x \in Unowned'
  <2>0. \A k \in DOMAIN objs : \A i \in DOMAIN objs[k].owns : objs[k].owns[i] # x
    BY <1>17 DEF Given
  <2>1. x \in live'
    BY <1>7, <1>17 DEF Unowned
  <2>2. ASSUME NEW o \in live', NEW i \in DOMAIN heap'[o].owns PROVE heap'[o].owns[i] # x
    <3>1. CASE o \in live
      <4>1. heap'[o] = heap[o] /\ heap'[o].owns[i] \in live
        BY <1>8, <1>14, <3>1
      <4> QED
        BY <1>10, <1>17, <3>1, <4>1 DEF Unowned
    <3>2. CASE o \in fresh
      <4>1. heap'[o] = objs[o - n] /\ o - n \in DOMAIN objs
        BY <1>3, <1>10, <1>11, <3>2
      <4> QED
        BY <2>0, <4>1
    <3> QED
      BY <1>7, <3>1, <3>2
  <2> QED
    BY <2>1, <2>2 DEF Unowned
<1> QED
  BY <1>3, <1>6, <1>7, <1>8, <1>9, <1>10, <1>16, <1>17 DEF n, m

\* What a delete of an object that nobody owns reaches is a tree of its own.
LEMMA Deletes ==
    ASSUME Tree, NEW r, r # Null => r \in Unowned, UNCHANGED heap, live' = live \ Reached({r})
    PROVE  /\ Tree'
           /\ \A x : x \in Unowned /\ x # r => x \in Unowned'
<1> DEFINE Owned(o) == {heap[o].owns[i] : i \in DOMAIN heap[o].owns}
           Parts(Z) == Z \cup UNION {Owned(o) : o \in Z}
           OK(Z) == /\ Z \subseteq live
                    /\ \A x \in Z : x = r \/ \E o \in Z : x \in Owned(o)
<1>1. Reached({r}) = Parts(Parts(Parts({r} \ {Null})))
  BY Zenon DEF Reached
<1>2. \A o \in live : Owned(o) \subseteq live
  BY ElementOfSeq DEF Tree
<1>3. ASSUME NEW Z, OK(Z) PROVE OK(Parts(Z))
  <2>1. Parts(Z) \subseteq live
    BY <1>2, <1>3
  <2>2. ASSUME NEW x \in Parts(Z) PROVE x = r \/ \E o \in Parts(Z) : x \in Owned(o)
    <3> HIDE DEF Owned
    <3> QED
      BY <1>3, <2>2, Zenon
  <2> QED
    BY <2>1, <2>2
<1>4. OK({r} \ {Null})
  BY DEF Unowned
<1>5. OK(Reached({r}))
  <2> HIDE DEF OK, Parts
  <2> QED
    BY <1>1, <1>3, <1>4
<1> DEFINE X == Reached({r})
<1>6. X \subseteq live /\ \A x \in X : x = r \/ \E o \in X : x \in Owned(o)
  BY <1>5
<1>7. ASSUME NEW x, x \in Unowned, x # r PROVE x \notin X
  BY <1>6, <1>7 DEF Unowned
<1>8. ASSUME NEW o \in live \ X, NEW i \in DOMAIN heap[o].owns PROVE heap[o].owns[i] \notin X
  <2> DEFINE x == heap[o].owns[i]
  <2> SUFFICES ASSUME x \in X PROVE FALSE
    OBVIOUS
  <2>1. x # Null
    BY <1>6, HeapIs
  <2>2. x # r
    BY <2>1 DEF Unowned
  <2>3. PICK q \in X : \E j \in DOMAIN heap[q].owns : x = heap[q].owns[j]
    BY <1>6, <2>2
  <2>4. o = q
    BY <1>6, <2>3 DEF Tree
  <2> QED
    BY <2>4
<1> HIDE DEF X
<1>9. live' = live \ X
  BY DEF X
<1>10. Tree'
  <2>1. ASSUME NEW o \in live \ X PROVE heap[o].owns \in Seq(live \ X)
    <3>1. heap[o].owns \in Seq(live)
      BY DEF Tree
    <3>2. \A i \in DOMAIN heap[o].owns : heap[o].owns[i] \in live \ X
      BY <1>8, <3>1, ElementOfSeq
    <3>3. \A A, B : \A s \in Seq(A) : (\A i \in DOMAIN s : s[i] \in B) => s \in Seq(B)
      OBVIOUS
    <3> QED
      BY <3>1, <3>2, <3>3, Zenon
  <2>2. \E S : heap' \in Seq(S)
    BY DEF Tree
  <2>3. live' \subseteq DOMAIN heap'
    BY <1>9 DEF Tree
  <2>4. \A o \in live' : heap'[o].owns \in Seq(live')
    BY <1>9, <2>1
  <2>5. \A o, q \in live' : \A i \in DOMAIN heap'[o].owns, j \in DOMAIN heap'[q].owns :
          heap'[o].owns[i] = heap'[q].owns[j] => o = q /\ i = j
    <3>1. live' \subseteq live /\ heap' = heap
      BY <1>9
    <3> SUFFICES ASSUME NEW o \in live', NEW q \in live',
                        NEW i \in DOMAIN heap'[o].owns, NEW j \in DOMAIN heap'[q].owns,
                        heap'[o].owns[i] = heap'[q].owns[j]
                 PROVE  o = q /\ i = j
      OBVIOUS
    <3>2. /\ o \in live /\ q \in live /\ i \in DOMAIN heap[o].owns /\ j \in DOMAIN heap[q].owns
          /\ heap[o].owns[i] = heap[q].owns[j]
      BY <3>1
    <3> QED
      BY <3>2, OneOwner
  <2> QED
    BY <2>2, <2>3, <2>4, <2>5 DEF Tree
<1>11. ASSUME NEW x, x \in Unowned, x # r PROVE x \in Unowned'
  BY <1>7, <1>9, <1>11 DEF Unowned
<1> QED
  BY <1>10, <1>11

\* A Text by itself, ...
LEMMA NewText ==
    ASSUME Tree, NEW of, New(<<Object("Text", of, <<>>)>>)
    PROVE  /\ Tree' /\ Unowned \cup {Newest} \subseteq Unowned' /\ Newest \notin live
           /\ live \subseteq live' /\ \A o \in live : heap'[o] = heap[o]
<1> DEFINE t == Object("Text", of, <<>>)
           objs == <<t>>
           n == Len(heap)
           fresh == n + 1 .. n + Len(objs)
<1>1. /\ \E S : objs \in Seq(S)
      /\ DOMAIN objs = {1} /\ Len(objs) = 1 /\ objs[1] = t
  <2>1. objs \in Seq({t}) /\ DOMAIN objs = {1} /\ Len(objs) = 1 /\ objs[1] = t
    OBVIOUS
  <2> QED
    BY <2>1, Zenon
<1>2. t.owns = <<>>
  BY DEF Object
<1>3. n \in Nat /\ \A o \in live : o \in 1 .. n
  BY HeapIs
<1>4. New(objs)
  OBVIOUS
<1> HIDE DEF t, objs
<1>5. fresh = {n + 1}
  BY <1>1, <1>3
<1>6. fresh = Len(heap) + 1 .. Len(heap) + Len(objs)
  OBVIOUS
<1> HIDE DEF fresh
<1>7. Allocatable(objs, fresh)
  <2>1. \A k \in DOMAIN objs : objs[k].owns = <<>>
    BY <1>1, <1>2
  <2>2. <<>> \in Seq(live \cup fresh) /\ DOMAIN <<>> = {}
    OBVIOUS
  <2>3. \A k \in DOMAIN objs : objs[k].owns \in Seq(live \cup fresh) /\ DOMAIN objs[k].owns = {}
    BY <2>1, <2>2, Zenon
  <2> QED
    BY <2>3, Zenon DEF Allocatable
<1> HIDE DEF n
<1>8. /\ Tree' /\ live' = live \cup fresh /\ Len(heap') = Len(heap) + Len(objs)
      /\ \A o \in live : heap'[o] = heap[o]
      /\ (fresh \cup Unowned) \ Given(objs) \subseteq Unowned'
  BY <1>1, <1>4, <1>6, <1>7, Allocates, Zenon
<1>9. Given(objs) = {}
  <2>1. DOMAIN <<>> = {}
    OBVIOUS
  <2> QED
    BY <1>1, <1>2, <2>1 DEF Given
<1>10. \A x : x \in fresh \/ x \in Unowned => x \in Unowned'
  BY <1>8, <1>9
<1>11. Newest = n + 1
  BY <1>1, <1>8 DEF Newest, n
<1>12. \A o \in live : o # n + 1
  BY <1>3
<1>13. \A x : x = n + 1 => x \in fresh
  BY <1>5
<1> HIDE DEF n
<1> QED
  BY <1>8, <1>10, <1>11, <1>12, <1>13

\* ... and an object with one that owns it, besides what is nobody's.
Pairable(a, b, new) ==
    /\ a.owns \in Seq(Unowned)
    /\ b.owns \in Seq(Unowned \cup {new})
    /\ \A i, j \in DOMAIN a.owns : a.owns[i] = a.owns[j] => i = j
    /\ \A i, j \in DOMAIN b.owns : b.owns[i] = b.owns[j] => i = j
    /\ \A i \in DOMAIN a.owns, j \in DOMAIN b.owns : a.owns[i] # b.owns[j]
    /\ \E j \in DOMAIN b.owns : b.owns[j] = new

LEMMA NewTwo ==
    ASSUME Tree, NEW a, NEW b, New(<<a, b>>), NEW new, new = Len(heap) + 1, Pairable(a, b, new)
    PROVE  /\ Tree' /\ (Unowned \ (ToSet(a.owns) \cup ToSet(b.owns))) \cup {Newest} \subseteq Unowned'
           /\ Newest \notin live /\ heap'[Newest] = b
           /\ live \subseteq live' /\ \A o \in live : heap'[o] = heap[o]
<1> DEFINE objs == <<a, b>>
           n == Len(heap)
           fresh == n + 1 .. n + Len(objs)
<1>1. /\ \E S : objs \in Seq(S)
      /\ DOMAIN objs = {1, 2} /\ Len(objs) = 2 /\ objs[1] = a /\ objs[2] = b
  <2>1. objs \in Seq({a, b}) /\ DOMAIN objs = {1, 2} /\ Len(objs) = 2 /\ objs[1] = a /\ objs[2] = b
    OBVIOUS
  <2> QED
    BY <2>1, Zenon
<1>3. n \in Nat /\ \A o \in live : o \in 1 .. n
  BY HeapIs
<1>4. New(objs)
  OBVIOUS
<1> HIDE DEF objs
<1>5. fresh = {new, n + 2}
  BY <1>1, <1>3
<1>6. fresh = Len(heap) + 1 .. Len(heap) + Len(objs)
  OBVIOUS
<1> HIDE DEF fresh
<1>7. Unowned \subseteq live /\ \A x \in Unowned : x # new /\ x # n + 2
  BY <1>3 DEF Unowned
<1>71. /\ \A i \in DOMAIN a.owns : a.owns[i] \in Unowned
       /\ \A j \in DOMAIN b.owns : b.owns[j] \in Unowned \cup {new}
  BY ElementOfSeq DEF Pairable
<1>72. Allocatable(objs, fresh)
  <2>1. a.owns \in Seq(live \cup fresh) /\ b.owns \in Seq(live \cup fresh)
    <3>1. \A A, B : A \subseteq B => Seq(A) \subseteq Seq(B)
      OBVIOUS
    <3>2. Unowned \subseteq live \cup fresh /\ Unowned \cup {new} \subseteq live \cup fresh
      BY <1>5, <1>7
    <3> QED
      BY <3>1, <3>2, Zenon DEF Pairable
  <2>2. \A k \in DOMAIN objs : objs[k].owns \in Seq(live \cup fresh)
    BY <1>1, <2>1
  <2>3. \A k \in DOMAIN objs : \A i \in DOMAIN objs[k].owns :
          objs[k].owns[i] \in fresh \/ objs[k].owns[i] \in Unowned
    BY <1>1, <1>5, <1>71
  <2>4. ASSUME NEW k \in DOMAIN objs, NEW m \in DOMAIN objs,
               NEW i \in DOMAIN objs[k].owns, NEW j \in DOMAIN objs[m].owns,
               objs[k].owns[i] = objs[m].owns[j]
        PROVE  k = m /\ i = j
    BY <1>1, <2>4 DEF Pairable
  <2> QED
    BY <2>2, <2>3, <2>4 DEF Allocatable
<1> HIDE DEF n
<1>8. /\ Tree' /\ live' = live \cup fresh /\ Len(heap') = Len(heap) + Len(objs)
      /\ \A k \in DOMAIN objs : heap'[Len(heap) + k] = objs[k]
      /\ \A o \in live : heap'[o] = heap[o]
      /\ (fresh \cup Unowned) \ Given(objs) \subseteq Unowned'
  BY <1>1, <1>4, <1>6, <1>72, Allocates, Zenon
<1>9. Given(objs) = ToSet(a.owns) \cup ToSet(b.owns)
  BY <1>1 DEF Given, ToSet
<1>11. Newest = n + 2 /\ heap'[Newest] = b
  <2>1. Newest = n + 2
    BY <1>1, <1>8 DEF Newest, n
  <2> QED
    BY <1>1, <1>8, <2>1 DEF n
<1>12. n + 2 \in fresh /\ n + 2 \notin live
  BY <1>3, <1>5
<1>13. n + 2 \notin ToSet(a.owns) \cup ToSet(b.owns)
  <2>1. n + 2 # new
    BY <1>3 DEF n
  <2> QED
    BY <1>7, <1>71, <2>1 DEF ToSet
<1> QED
  BY <1>8, <1>9, <1>11, <1>12, <1>13

-----------------------------------------------------------------------------
\* What pairs come to: the parts of the i-th are at 2 * i - 1 and 2 * i.
PairsOf(s, t, m) ==
    Len(t) = 2 * m /\ \A i \in 1 .. m : t[2 * i - 1] = s[i][1] /\ t[2 * i] = s[i][2]

LEMMA OnePairMore ==
    ASSUME NEW S, NEW s, NEW t \in Seq(S), NEW m \in Nat, PairsOf(s, t, m),
           s[m + 1] \in Seq(S), Len(s[m + 1]) = 2
    PROVE  t \o s[m + 1] \in Seq(S) /\ PairsOf(s, t \o s[m + 1], m + 1)
<1> DEFINE p == s[m + 1]
           u == t \o p
<1>1. Len(t) = 2 * m /\ p \in Seq(S) /\ Len(p) = 2
  BY DEF PairsOf
<1> HIDE DEF p
<1>2. /\ u \in Seq(S) /\ Len(u) = 2 * m + 2
      /\ \A j \in 1 .. 2 * m + 2 : u[j] = IF j <= 2 * m THEN t[j] ELSE p[j - 2 * m]
  <2>1. /\ u \in Seq(S) /\ Len(u) = Len(t) + Len(p)
        /\ \A j \in 1 .. Len(t) + Len(p) : u[j] = IF j <= Len(t) THEN t[j] ELSE p[j - Len(t)]
    BY <1>1, ConcatProperties
  <2> QED
    BY <1>1, <2>1
<1> HIDE DEF u
<1>3. ASSUME NEW i \in 1 .. m + 1 PROVE u[2 * i - 1] = s[i][1] /\ u[2 * i] = s[i][2]
  <2>1. CASE i \in 1 .. m
    <3>1. /\ 2 * i - 1 \in 1 .. 2 * m + 2 /\ 2 * i \in 1 .. 2 * m + 2
          /\ 2 * i - 1 <= 2 * m /\ 2 * i <= 2 * m
      BY <2>1
    <3> QED
      BY <1>2, <2>1, <3>1 DEF PairsOf
  <2>2. CASE i = m + 1
    <3>1. /\ 2 * i - 1 = 2 * m + 1 /\ 2 * i = 2 * m + 2
          /\ 2 * m + 1 \in 1 .. 2 * m + 2 /\ 2 * m + 2 \in 1 .. 2 * m + 2
          /\ ~(2 * m + 1 <= 2 * m) /\ ~(2 * m + 2 <= 2 * m)
          /\ (2 * m + 1) - 2 * m = 1 /\ (2 * m + 2) - 2 * m = 2
      BY <2>2
    <3>2. u[2 * m + 1] = p[1] /\ u[2 * m + 2] = p[2]
      BY <1>2, <3>1
    <3> QED
      BY <2>2, <3>1, <3>2 DEF p
  <2> QED
    BY <2>1, <2>2
<1>4. 2 * (m + 1) = 2 * m + 2
  OBVIOUS
<1> QED
  BY <1>2, <1>3, <1>4 DEF PairsOf, u, p

LEMMA FlattenPairs ==
    ASSUME NEW S, NEW s \in Seq(Seq(S)), \A i \in 1 .. Len(s) : Len(s[i]) = 2
    PROVE  FlattenSeq(s) \in Seq(S) /\ PairsOf(s, FlattenSeq(s), Len(s))
<1> DEFINE m == Len(s)
<1>1. m \in Nat /\ \A i \in 1 .. m : s[i] \in Seq(S) /\ Len(s[i]) = 2
  BY ElementOfSeq, LenProperties
<1>2. CASE m = 0
  <2>1. FlattenSeq(s) = <<>>
    BY <1>2, FlattenEmpty
  <2>2. PairsOf(s, <<>>, 0)
    BY DEF PairsOf
  <2>3. <<>> \in Seq(S)
    OBVIOUS
  <2> QED
    BY <1>2, <2>1, <2>2, <2>3
<1>3. CASE m # 0
  <2>1. PICK f \in [1 .. m -> Seq(S)] : Flattens(f, s, m) /\ FlattenSeq(s) = f[m]
    BY <1>1, <1>3, FlattenIs, Zenon
  <2> HIDE DEF m
  <2> DEFINE T == {i \in 0 .. m - 1 : PairsOf(s, f[i + 1], i + 1)}
  <2>2. 0 \in T
    <3>1. f[1] = s[1] /\ 1 \in 1 .. m /\ 0 \in 0 .. m - 1
      BY <1>1, <1>3, <2>1 DEF Flattens
    <3>2. PairsOf(s, f[1], 1)
      BY <1>1, <3>1 DEF PairsOf
    <3> QED
      BY <3>1, <3>2
  <2>3. \A i \in 0 .. (m - 1) - 1 : i \in T => i + 1 \in T
    <3> SUFFICES ASSUME NEW i \in 0 .. (m - 1) - 1, i \in T PROVE i + 1 \in T
      OBVIOUS
    <3> DEFINE k == i + 1
    <3>1. /\ k \in Nat /\ k \in 1 .. m /\ k + 1 \in 1 .. m /\ k + 1 \in 2 .. m /\ k \in 0 .. m - 1
          /\ (k + 1) - 1 = k
      BY <1>1
    <3>2. PairsOf(s, f[k], k)
      OBVIOUS
    <3> HIDE DEF k
    <3>3. f[k + 1] = f[k] \o s[k + 1]
      BY <2>1, <3>1 DEF Flattens
    <3>4. f[k] \in Seq(S) /\ s[k + 1] \in Seq(S) /\ Len(s[k + 1]) = 2
      BY <1>1, <3>1
    <3>5. PairsOf(s, f[k + 1], k + 1)
      BY <3>1, <3>2, <3>3, <3>4, OnePairMore
    <3> QED
      BY <3>1, <3>5 DEF k
  <2>4. \A i \in 0 .. m - 1 : i \in T
    <3>1. m - 1 \in Nat
      BY <1>1, <1>3
    <3> HIDE DEF T
    <3> QED
      BY <3>1, <2>2, <2>3, BoundedInduction
  <2>5. m - 1 \in 0 .. m - 1 /\ (m - 1) + 1 = m /\ m \in 1 .. m
    BY <1>1, <1>3
  <2>6. PairsOf(s, f[(m - 1) + 1], (m - 1) + 1)
    BY <2>4, <2>5
  <2> HIDE DEF T
  <2> QED
    BY <2>1, <2>5, <2>6 DEF m
<1> QED
  BY <1>2, <1>3

\* The objects of a copied reference: Texts, Names that own them, and last the
\* Reference that owns the Names
LEMMA CopiedIs ==
    ASSUME NEW ns, NEW m \in Nat, DOMAIN ns = 1 .. m
    PROVE  /\ \E S : Copied(ns) \in Seq(S)
           /\ Len(Copied(ns)) = 2 * m + 1
           /\ \A i \in 1 .. m : /\ Copied(ns)[2 * i - 1].owns = <<>>
                                /\ Copied(ns)[2 * i].owns = <<Len(heap) + 2 * i - 1>>
           /\ Copied(ns)[2 * m + 1].owns = [i \in 1 .. m |-> Len(heap) + 2 * i]
<1> DEFINE n == Len(heap)
           Txt(i) == Object("Text", ns[i], <<>>)
           Nam(i) == Object("Name", "empty", <<n + 2 * i - 1>>)
           ref == Object("Reference", "empty", [i \in 1 .. m |-> n + 2 * i])
           S == {Txt(i) : i \in 1 .. m} \cup {Nam(i) : i \in 1 .. m} \cup {ref}
           s == [i \in 1 .. m |-> <<Txt(i), Nam(i)>>]
           t == FlattenSeq(s)
<1>1. Copied(ns) = t \o <<ref>>
  BY DEF Copied
<1>2. \A i \in 1 .. m : Txt(i) \in S /\ Nam(i) \in S
  OBVIOUS
<1>3. ref \in S
  OBVIOUS
<1>4. \A i \in 1 .. m : Txt(i).owns = <<>> /\ Nam(i).owns = <<n + 2 * i - 1>>
  BY DEF Object
<1>5. ref.owns = [i \in 1 .. m |-> n + 2 * i]
  BY DEF Object
<1> HIDE DEF Txt, Nam, S, ref
<1>6. s \in Seq(Seq(S)) /\ Len(s) = m /\ \A i \in 1 .. m : s[i] = <<Txt(i), Nam(i)>> /\ Len(s[i]) = 2
  <2>1. \A i \in 1 .. m : <<Txt(i), Nam(i)>> \in Seq(S)
    BY <1>2
  <2>2. s \in Seq(Seq(S)) /\ Len(s) = m
    BY <2>1
  <2> QED
    BY <2>2
<1> HIDE DEF s
<1>7. t \in Seq(S) /\ PairsOf(s, t, m)
  BY <1>6, FlattenPairs
<1>8. <<ref>> \in Seq(S) /\ Len(<<ref>>) = 1 /\ <<ref>>[1] = ref
  BY <1>3
<1> DEFINE r == <<ref>>
           c == t \o r
<1>9. Len(t) = 2 * m
  BY <1>7 DEF PairsOf
<1> HIDE DEF t, r
<1>10. /\ c \in Seq(S) /\ Len(c) = 2 * m + 1
       /\ \A j \in 1 .. 2 * m + 1 : c[j] = IF j <= 2 * m THEN t[j] ELSE r[j - 2 * m]
  BY <1>7, <1>8, <1>9, ConcatProperties DEF r
<1> HIDE DEF c
<1>11. ASSUME NEW i \in 1 .. m
       PROVE  c[2 * i - 1].owns = <<>> /\ c[2 * i].owns = <<n + 2 * i - 1>>
  <2>1. /\ 2 * i - 1 \in 1 .. 2 * m + 1 /\ 2 * i \in 1 .. 2 * m + 1
        /\ 2 * i - 1 <= 2 * m /\ 2 * i <= 2 * m
    OBVIOUS
  <2>2. t[2 * i - 1] = Txt(i) /\ t[2 * i] = Nam(i)
    BY <1>6, <1>7 DEF PairsOf
  <2> QED
    BY <1>4, <1>10, <2>1, <2>2
<1>12. c[2 * m + 1] = ref
  <2>1. 2 * m + 1 \in 1 .. 2 * m + 1 /\ ~(2 * m + 1 <= 2 * m) /\ (2 * m + 1) - 2 * m = 1
    OBVIOUS
  <2> QED
    BY <1>8, <1>10, <2>1 DEF r
<1>13. Copied(ns) = c
  BY <1>1 DEF c, r
<1> QED
  BY <1>5, <1>10, <1>11, <1>12, <1>13, Zenon DEF n

\* A copied reference is a tree of its own.
LEMMA NewCopy ==
    ASSUME Tree, NEW ns, NEW m \in Nat, DOMAIN ns = 1 .. m, New(Copied(ns))
    PROVE  /\ Tree' /\ Unowned \cup {Newest} \subseteq Unowned' /\ Newest \notin live
           /\ live \subseteq live' /\ \A o \in live : heap'[o] = heap[o]
<1> DEFINE objs == Copied(ns)
           n == Len(heap)
           fresh == n + 1 .. n + Len(objs)
           own(k) == objs[k].owns
<1>1. /\ \E S : objs \in Seq(S)
      /\ DOMAIN objs = 1 .. 2 * m + 1 /\ Len(objs) = 2 * m + 1
      /\ \A i \in 1 .. m : own(2 * i - 1) = <<>> /\ own(2 * i) = <<n + 2 * i - 1>>
      /\ own(2 * m + 1) = [i \in 1 .. m |-> n + 2 * i]
  <2>1. /\ \E S : objs \in Seq(S)
        /\ Len(objs) = 2 * m + 1
        /\ \A i \in 1 .. m : own(2 * i - 1) = <<>> /\ own(2 * i) = <<n + 2 * i - 1>>
        /\ own(2 * m + 1) = [i \in 1 .. m |-> n + 2 * i]
    BY CopiedIs
  <2>2. \A S : objs \in Seq(S) => DOMAIN objs = 1 .. Len(objs)
    <3> HIDE DEF objs
    <3> QED
      BY LenProperties
  <2> QED
    BY <2>1, <2>2, Zenon
<1>2. n \in Nat /\ \A o \in live : o \in 1 .. n
  BY HeapIs
<1>3. New(objs)
  OBVIOUS
<1> HIDE DEF objs
<1>4. fresh = Len(heap) + 1 .. Len(heap) + Len(objs)
  OBVIOUS
<1>5. fresh = n + 1 .. n + (2 * m + 1)
  BY <1>1
<1> HIDE DEF fresh, n
<1>6. \A k \in 1 .. 2 * m + 1 :
        k = 2 * m + 1 \/ \E i \in 1 .. m : k = 2 * i - 1 \/ k = 2 * i
  <2> SUFFICES ASSUME NEW k \in 1 .. 2 * m + 1, k # 2 * m + 1
               PROVE  \E i \in 1 .. m : k = 2 * i - 1 \/ k = 2 * i
    OBVIOUS
  <2> DEFINE i == (k + 1) \div 2
  <2>1. i \in 1 .. m /\ (k = 2 * i - 1 \/ k = 2 * i)
    OBVIOUS
  <2> HIDE DEF i
  <2> QED
    BY <2>1
\* What is owned, and by whom
<1>7. ASSUME NEW k \in DOMAIN objs, NEW i \in DOMAIN own(k)
      PROVE  /\ own(k)[i] \in n + 1 .. n + 2 * m
             /\ \/ k = 2 * m + 1 /\ i \in 1 .. m /\ own(k)[i] = n + 2 * i
                \/ \E j \in 1 .. m : k = 2 * j /\ i = 1 /\ own(k)[i] = n + 2 * j - 1
  <2>1. CASE k = 2 * m + 1
    <3>1. i \in 1 .. m /\ own(k)[i] = n + 2 * i
      BY <1>1, <1>7, <2>1
    <3> HIDE DEF own
    <3> QED
      BY <1>2, <2>1, <3>1
  <2>2. CASE \E j \in 1 .. m : k = 2 * j - 1
    <3>1. own(k) = <<>>
      BY <1>1, <2>2
    <3> HIDE DEF own
    <3> QED
      BY <1>7, <3>1
  <2>3. CASE \E j \in 1 .. m : k = 2 * j
    <3>1. PICK j \in 1 .. m : k = 2 * j
      BY <2>3
    <3>2. own(k) = <<n + 2 * j - 1>>
      BY <1>1, <3>1
    <3> HIDE DEF own
    <3>3. i = 1 /\ own(k)[i] = n + 2 * j - 1
      BY <1>7, <3>2
    <3>4. n + 2 * j - 1 \in n + 1 .. n + 2 * m
      BY <1>2
    <3> QED
      BY <3>1, <3>3, <3>4
  <2> QED
    BY <1>1, <1>6, <2>1, <2>2, <2>3
<1>8. Allocatable(objs, fresh)
  <2>1. ASSUME NEW k \in DOMAIN objs PROVE own(k) \in Seq(live \cup fresh)
    <3>1. n + 1 .. n + 2 * m \subseteq live \cup fresh
      BY <1>2, <1>5
    <3>2. \A i \in DOMAIN own(k) : own(k)[i] \in live \cup fresh
      <4> HIDE DEF own
      <4> QED
        BY <1>7, <3>1, <2>1
    <3>3. \E A : own(k) \in Seq(A)
      <4>1. CASE k = 2 * m + 1
        <5> DEFINE X == {n + 2 * i : i \in 1 .. m}
        <5>0. own(k) = [i \in 1 .. m |-> n + 2 * i] /\ \A i \in 1 .. m : n + 2 * i \in X
          BY <1>1, <4>1
        <5> HIDE DEF X, own
        <5>1. own(k) \in Seq(X)
          BY <5>0
        <5> HIDE DEF own
        <5> QED
          BY <5>1
      <4>2. CASE \E j \in 1 .. m : k = 2 * j - 1
        <5>1. own(k) = <<>> /\ <<>> \in Seq({})
          BY <1>1, <4>2
        <5> HIDE DEF own
        <5> QED
          BY <5>1
      <4>3. CASE \E j \in 1 .. m : k = 2 * j
        <5>1. PICK j \in 1 .. m : own(k) = <<n + 2 * j - 1>>
          BY <1>1, <4>3
        <5>2. <<n + 2 * j - 1>> \in Seq({n + 2 * j - 1})
          OBVIOUS
        <5> HIDE DEF own
        <5> QED
          BY <5>1, <5>2
      <4> QED
        BY <1>1, <1>6, <2>1, <4>1, <4>2, <4>3
    <3> HIDE DEF own
    <3>4. \A A, B : \A s \in Seq(A) : (\A i \in DOMAIN s : s[i] \in B) => s \in Seq(B)
      OBVIOUS
    <3> QED
      BY <3>2, <3>3, <3>4, Zenon
  <2>2. \A k \in DOMAIN objs : \A i \in DOMAIN own(k) : own(k)[i] \in fresh
    <3>1. n + 1 .. n + 2 * m \subseteq fresh
      BY <1>2, <1>5
    <3> HIDE DEF own
    <3> QED
      BY <1>7, <3>1
  <2>3. ASSUME NEW k \in DOMAIN objs, NEW l \in DOMAIN objs,
               NEW i \in DOMAIN own(k), NEW j \in DOMAIN own(l), own(k)[i] = own(l)[j]
        PROVE  k = l /\ i = j
    <3>1. /\ \/ k = 2 * m + 1 /\ i \in 1 .. m /\ own(k)[i] = n + 2 * i
             \/ \E a \in 1 .. m : k = 2 * a /\ i = 1 /\ own(k)[i] = n + 2 * a - 1
          /\ \/ l = 2 * m + 1 /\ j \in 1 .. m /\ own(l)[j] = n + 2 * j
             \/ \E b \in 1 .. m : l = 2 * b /\ j = 1 /\ own(l)[j] = n + 2 * b - 1
      BY <1>7
    <3> HIDE DEF own
    <3> QED
      BY <1>2, <2>3, <3>1
  <2> QED
    BY <2>1, <2>2, <2>3 DEF Allocatable
<1>9. /\ Tree' /\ live' = live \cup fresh /\ Len(heap') = Len(heap) + Len(objs)
      /\ \A o \in live : heap'[o] = heap[o]
      /\ (fresh \cup Unowned) \ Given(objs) \subseteq Unowned'
  BY <1>1, <1>3, <1>4, <1>8, Allocates, Zenon
<1>10. Given(objs) \subseteq n + 1 .. n + 2 * m
  BY <1>7 DEF Given
<1>11. Newest = n + (2 * m + 1)
  BY <1>1, <1>9 DEF Newest, n
<1>12. /\ n + (2 * m + 1) \in fresh /\ n + (2 * m + 1) \notin n + 1 .. n + 2 * m
       /\ \A x \in Unowned : x \notin n + 1 .. n + 2 * m
       /\ n + (2 * m + 1) \notin live
  BY <1>2, <1>5 DEF Unowned
<1> HIDE DEF own
<1> QED
  BY <1>9, <1>10, <1>11, <1>12

\* A Name with its Text
LEMMA NewNamed ==
    ASSUME Tree, NEW of,
           New(<<Object("Text", of, <<>>), Object("Name", "empty", <<Len(heap) + 1>>)>>)
    PROVE  /\ Tree' /\ Unowned \cup {Newest} \subseteq Unowned' /\ Newest \notin live
           /\ live \subseteq live' /\ \A o \in live : heap'[o] = heap[o]
<1> DEFINE a == Object("Text", of, <<>>)
           new == Len(heap) + 1
           b == Object("Name", "empty", <<new>>)
<1>1. a.owns = <<>> /\ b.owns = <<new>> /\ New(<<a, b>>)
  BY DEF Object
<1>2. /\ <<>> \in Seq(Unowned) /\ <<new>> \in Seq(Unowned \cup {new})
      /\ DOMAIN <<>> = {} /\ DOMAIN <<new>> = {1} /\ <<new>>[1] = new
  OBVIOUS
<1>3. new \notin Unowned
  BY HeapIs DEF Unowned
<1>4. new = Len(heap) + 1
  OBVIOUS
<1> HIDE DEF a, b, new
<1>5. /\ a.owns \in Seq(Unowned) /\ b.owns \in Seq(Unowned \cup {new})
      /\ DOMAIN a.owns = {} /\ DOMAIN b.owns = {1} /\ b.owns[1] = new
  BY <1>1, <1>2, Zenon
<1>6. /\ Tree' /\ (Unowned \ (ToSet(a.owns) \cup ToSet(b.owns))) \cup {Newest} \subseteq Unowned'
      /\ Newest \notin live
      /\ live \subseteq live' /\ \A o \in live : heap'[o] = heap[o]
  <2>1. Pairable(a, b, new)
    BY <1>5 DEF Pairable
  <2> QED
    BY <1>1, <1>4, <2>1, NewTwo
<1>7. ToSet(a.owns) = {} /\ ToSet(b.owns) = {new}
  BY <1>5 DEF ToSet
<1> QED
  BY <1>3, <1>6, <1>7

-----------------------------------------------------------------------------
(* The invariant: whose the objects are, while a header is read. *)

CursorOK ==
    /\ text \in Seq(Token)
    /\ in \in 0 .. Len(text) + 1
    /\ reading \in Labels
    /\ reading \notin {"failed", "deleted"} => in # 0
    /\ reading = "value" => in # 1

NodeOK ==
    node \in [made : BOOLEAN, type : Token \cup {"empty"}, name : Token \cup {"empty"},
              props : Nat \cup {Null}]

\* What the parser, the node and the client's Value point to is nobody else's:
\* the key while its property is read, the Names beside it, then the property,
\* which becomes the node's.
RootsOK ==
    /\ key # Null <=> reading \in {"value", "names", "reference"}
    /\ {key, prop, node.props, copy} \subseteq Unowned \cup {Null}
    /\ names \in Seq(Unowned \ {key})
    /\ \A i, j \in DOMAIN names : names[i] = names[j] => i = j
    /\ names # <<>> => reading \in {"names", "reference"}
    /\ prop # Null => reading = "behind" /\ Len(heap[prop].owns) = 2
    /\ node.props # Null => reading = "done" /\ Len(heap[node.props].owns) = 2
    /\ copy # Null => reading \in {"done", "failed", "deleted"} /\ copy # node.props

HeaderInv == CursorOK /\ NodeOK /\ Tree /\ RootsOK

LEMMA SameObjects ==
    ASSUME UNCHANGED <<heap, live>>
    PROVE  (Tree' <=> Tree) /\ Unowned' = Unowned
  BY DEF Tree, Unowned

\* Where a step can leave the cursor
LEMMA CursorGoes ==
    ASSUME CursorOK, NEW label \in Labels, NEW i \in 1 .. Len(text) + 1, Goto(label, i),
           label = "value" => i # 1
    PROVE  CursorOK'
  BY DEF CursorOK, Goto

LEMMA CursorAt ==
    ASSUME CursorOK, reading \notin {"failed", "deleted"}
    PROVE  text \in Seq(Token) /\ Len(text) \in Nat /\ in \in 1 .. Len(text) + 1 /\ in \in Int
  BY LenProperties DEF CursorOK

\* Two tokens further on, behind what stands between them
LEMMA LookOn ==
    ASSUME text \in Seq(Token), NEW i \in 1 .. Len(text) + 1, NEW j \in i .. Len(text) + 1
    PROVE  Look(j) \in i .. Len(text) + 1 /\ Look(j) \in 1 .. Len(text) + 1 /\ j \in 1 .. Len(text) + 1
<1> DEFINE n == Len(text)
           k == Look(j)
<1>1. n \in Nat /\ i \in 1 .. n + 1 /\ j \in i .. n + 1
  BY LenProperties
<1>2. j \in 1 .. n + 1
  BY <1>1
<1>3. k \in j .. n + 1
  BY <1>2, LookIs
<1> HIDE DEF k, n
<1>4. k \in i .. n + 1 /\ k \in 1 .. n + 1
  BY <1>1, <1>3
<1> QED
  BY <1>2, <1>4 DEF k, n

LEMMA InitInv == InitHeader => HeaderInv
<1> SUFFICES ASSUME InitHeader PROVE HeaderInv
  OBVIOUS
<1>1. text \in Seq(Token)
  <2>1. CASE text \in HeaderTexts
    BY <2>1, HeaderTextsAssumption DEF IsText
  <2>2. CASE origin \in Headers /\ text = WrittenHeader(origin)
    BY <2>2, HeadersAssumption, WrittenTyped
  <2> QED
    BY <2>1, <2>2 DEF InitHeader
<1>2. CursorOK
  BY <1>1, LenProperties DEF InitHeader, CursorOK, Labels
<1>3. NodeOK
  BY DEF InitHeader, NodeOK, NoNode
<1>4. Tree
  BY DEF InitHeader, Tree
<1>5. RootsOK
  BY DEF InitHeader, RootsOK, NoNode
<1> QED
  BY <1>2, <1>3, <1>4, <1>5 DEF HeaderInv

LEMMA TypeRead == HeaderInv /\ ReadType => HeaderInv'
<1> SUFFICES ASSUME HeaderInv, ReadType PROVE HeaderInv'
  OBVIOUS
<1> DEFINE id == Identifier(in)
<1>1. CursorOK /\ NodeOK /\ Tree /\ RootsOK /\ reading = "id" /\ UNCHANGED <<key, names, prop, copy, heap, live>>
  BY DEF HeaderInv, ReadType, locals
<1>2. id.next \in in .. Len(text) + 1 /\ id.of \in Reads
  BY <1>1, CursorAt, IdentifierIs
<1>3. CursorOK'
  <2>1. Look(id.next) \in 1 .. Len(text) + 1 /\ id.next \in 1 .. Len(text) + 1
    BY <1>1, <1>2, CursorAt, LookOn
  <2>2. Goto("done", id.next) \/ Goto("name", Look(id.next))
    BY DEF ReadType
  <2>3. "done" \in Labels /\ "name" \in Labels
    BY DEF Labels
  <2> HIDE DEF id
  <2> QED
    BY <1>1, <2>1, <2>2, <2>3, CursorGoes
<1>4. NodeOK' /\ node'.props = node.props
  <2>1. id.of # "null" => id.of \in Token \cup {"empty"}
    BY <1>2 DEF Reads
  <2>2. \/ UNCHANGED node
        \/ id.of \in Token \cup {"empty"} /\ node' = [node EXCEPT !.made = TRUE, !.type = id.of]
    BY <2>1 DEF ReadType
  <2> HIDE DEF id
  <2> QED
    BY <1>1, <2>2 DEF NodeOK
<1>5. Tree' /\ Unowned' = Unowned
  BY <1>1, SameObjects
<1>6. reading' \in {"done", "name"}
  BY DEF ReadType, Goto
<1>7. RootsOK'
  BY <1>1, <1>4, <1>5, <1>6 DEF RootsOK
<1> QED
  BY <1>3, <1>4, <1>5, <1>7 DEF HeaderInv

LEMMA NameRead == HeaderInv /\ ReadName => HeaderInv'
<1> SUFFICES ASSUME HeaderInv, ReadName PROVE HeaderInv'
  OBVIOUS
<1> DEFINE n == NameAt(in)
           made == New(<<Object("Text", n.of, <<>>), Object("Name", "empty", <<Len(heap) + 1>>)>>)
<1>1. CursorOK /\ NodeOK /\ Tree /\ RootsOK /\ reading = "name" /\ UNCHANGED <<key, names, prop, copy>>
  BY DEF HeaderInv, ReadName, locals
<1>2. n.next \in in .. Len(text) + 1 /\ n.of \in Reads
  BY <1>1, CursorAt, NameAtIs
<1>3. CursorOK'
  <2>1. Look(n.next) \in 1 .. Len(text) + 1
    BY <1>1, <1>2, CursorAt, LookOn
  <2>2. Goto("clause", Look(n.next)) /\ "clause" \in Labels
    BY DEF ReadName, Labels
  <2> HIDE DEF n
  <2> QED
    BY <1>1, <2>1, <2>2, CursorGoes
<1>4. \/ UNCHANGED <<node, heap, live>>
      \/ n.of \in Token \cup {"empty"} /\ node' = [node EXCEPT !.name = n.of] /\ UNCHANGED <<heap, live>>
      \/ made /\ UNCHANGED node
  <2>1. n.of # "null" => n.of \in Token \cup {"empty"}
    BY <1>2 DEF Reads
  <2> HIDE DEF n
  <2> QED
    BY <2>1 DEF ReadName, n
<1>5. NodeOK' /\ node'.props = node.props
  <2> HIDE DEF n, made
  <2> QED
    BY <1>1, <1>4 DEF NodeOK
<1>6. Tree' /\ Unowned \subseteq Unowned'
  <2>1. CASE UNCHANGED <<heap, live>>
    BY <1>1, <2>1, SameObjects
  <2>2. CASE made
    BY <1>1, <2>2, NewNamed
  <2> HIDE DEF made
  <2> QED
    BY <1>4, <2>1, <2>2
<1>7. reading' = "clause"
  BY DEF ReadName, Goto
<1>8. RootsOK'
  <2>1. key = Null /\ prop = Null /\ node.props = Null /\ copy = Null /\ names = <<>>
    BY <1>1 DEF RootsOK
  <2>2. <<>> \in Seq(Unowned' \ {key'})
    OBVIOUS
  <2> QED
    BY <1>1, <1>5, <1>7, <2>1, <2>2 DEF RootsOK
<1> QED
  BY <1>3, <1>5, <1>6, <1>8 DEF HeaderInv

\* A new object is not null.
LEMMA NewestIs == Tree' => Newest # Null
<1> SUFFICES ASSUME Tree' PROVE Newest # Null
  OBVIOUS
<1>1. PICK S : heap' \in Seq(S)
  BY DEF Tree
<1>2. Len(heap') \in Nat
  BY <1>1, LenProperties
<1> QED
  BY <1>2, NullAssumption DEF Newest

LEMMA ClauseOpened == HeaderInv /\ OpenClause => HeaderInv'
<1> SUFFICES ASSUME HeaderInv, OpenClause PROVE HeaderInv'
  OBVIOUS
<1>1. /\ CursorOK /\ NodeOK /\ Tree /\ RootsOK /\ reading = "clause"
      /\ UNCHANGED <<node, key, names, prop, copy, heap, live>>
  BY DEF HeaderInv, OpenClause, locals
<1>2. text \in Seq(Token) /\ Len(text) \in Nat /\ in \in 1 .. Len(text) + 1 /\ in \in Int
  BY <1>1, CursorAt
<1>3. At(in) = "(" => in + 1 \in in .. Len(text) + 1
  <2>1. At(in) = "(" => in <= Len(text)
    BY <1>2, AtIs
  <2> QED
    BY <1>2, <2>1
<1>4. At(in) = "(" => Look(in + 1) \in 1 .. Len(text) + 1
  BY <1>2, <1>3, LookOn
<1>5. CursorOK'
  <2>1. "key" \in Labels /\ "done" \in Labels
    BY DEF Labels
  <2>2. \/ At(in) = "(" /\ (Goto("key", Look(in + 1)) \/ Goto("done", Look(in + 1)))
        \/ Goto("done", in)
    BY DEF OpenClause
  <2> QED
    BY <1>1, <1>2, <1>4, <2>1, <2>2, CursorGoes
<1>6. Tree' /\ Unowned' = Unowned
  BY <1>1, SameObjects
<1>7. reading' \in {"key", "done"}
  BY DEF OpenClause, Goto
<1>8. RootsOK' /\ NodeOK'
  BY <1>1, <1>6, <1>7 DEF RootsOK, NodeOK
<1> QED
  BY <1>5, <1>6, <1>8 DEF HeaderInv

LEMMA KeyRead == HeaderInv /\ ReadKey => HeaderInv'
<1> SUFFICES ASSUME HeaderInv, ReadKey PROVE HeaderInv'
  OBVIOUS
<1> DEFINE id == Identifier(in)
           eq == Look(id.next)
           made == /\ New(<<Object("Text", id.of, <<>>)>>)
                   /\ key' = Newest
<1>1. /\ CursorOK /\ NodeOK /\ Tree /\ RootsOK /\ reading = "key"
      /\ UNCHANGED <<node, names, prop, copy>>
  BY DEF HeaderInv, ReadKey
<1>2. text \in Seq(Token) /\ Len(text) \in Nat /\ in \in 1 .. Len(text) + 1 /\ in \in Int
  BY <1>1, CursorAt
<1>3. eq \in 1 .. Len(text) + 1
  BY <1>2, IdentifierIs, LookOn
<1>4. At(eq) \in {"=", "=."} => eq + 1 \in 1 .. Len(text) + 1 /\ eq + 1 # 1
  <2>1. At(eq) \in {"=", "=."} => eq <= Len(text)
    BY <1>2, <1>3, AtIs
  <2> HIDE DEF eq
  <2> QED
    BY <1>2, <1>3, <2>1
<1>5. \/ At(eq) \in {"=", "=."} /\ Goto("value", eq + 1) /\ made
      \/ Goto("behind", eq) /\ UNCHANGED <<key, heap, live>>
  BY DEF ReadKey
<1>6. CursorOK'
  <2>1. "value" \in Labels /\ "behind" \in Labels
    BY DEF Labels
  <2> HIDE DEF eq, made
  <2> QED
    BY <1>1, <1>3, <1>4, <1>5, <2>1, CursorGoes
<1>7. key = Null /\ prop = Null /\ node.props = Null /\ copy = Null /\ names = <<>>
  BY <1>1 DEF RootsOK
<1>8. <<>> \in Seq(Unowned' \ {key'})
  OBVIOUS
<1>9. Tree' /\ RootsOK'
  <2>1. CASE made /\ reading' = "value"
    <3>1. Tree' /\ Unowned \cup {Newest} \subseteq Unowned'
      BY <1>1, <2>1, NewText
    <3>2. key' \in Unowned' /\ key' # Null
      BY <2>1, <3>1, NewestIs
    <3> QED
      BY <1>1, <1>7, <1>8, <2>1, <3>1, <3>2 DEF RootsOK
  <2>2. CASE UNCHANGED <<key, heap, live>> /\ reading' = "behind"
    <3>1. Tree' /\ Unowned' = Unowned
      BY <1>1, <2>2, SameObjects
    <3> QED
      BY <1>1, <1>7, <1>8, <2>2, <3>1 DEF RootsOK
  <2> HIDE DEF made, eq
  <2> QED
    BY <1>5, <2>1, <2>2 DEF Goto
<1> QED
  BY <1>1, <1>6, <1>9 DEF HeaderInv, NodeOK

\* A Property takes its key, and is nobody's.
LEMMA NewProperty ==
    ASSUME Tree, key \in Unowned, NEW of, NEW kind, NEW parts, parts \in Seq(Unowned \ {key}),
           \A i, j \in DOMAIN parts : parts[i] = parts[j] => i = j,
           New(<<Object(kind, of, parts), Object("Property", "empty", <<key, Len(heap) + 1>>)>>)
    PROVE  /\ Tree' /\ Newest \in Unowned' /\ Len(heap'[Newest].owns) = 2
<1> DEFINE a == Object(kind, of, parts)
           new == Len(heap) + 1
           b == Object("Property", "empty", <<key, new>>)
<1>1. a.owns = parts /\ b.owns = <<key, new>> /\ New(<<a, b>>)
  BY DEF Object
<1>2. new \notin Unowned /\ new = Len(heap) + 1
  BY HeapIs DEF Unowned
<1> HIDE DEF a, b, new
<1>3. /\ <<key, new>> \in Seq(Unowned \cup {new}) /\ DOMAIN <<key, new>> = {1, 2}
      /\ <<key, new>>[1] = key /\ <<key, new>>[2] = new /\ Len(<<key, new>>) = 2
  OBVIOUS
<1>4. parts \in Seq(Unowned) /\ \A i \in DOMAIN parts : parts[i] \in Unowned /\ parts[i] # key
  <2>1. \A i \in DOMAIN parts : parts[i] \in Unowned \ {key}
    BY ElementOfSeq
  <2>2. \A A, x : Seq(A \ {x}) \subseteq Seq(A)
    OBVIOUS
  <2> QED
    BY <2>1, <2>2, Zenon
<1>5. Pairable(a, b, new)
  BY <1>1, <1>2, <1>3, <1>4 DEF Pairable
<1>6. /\ Tree' /\ (Unowned \ (ToSet(a.owns) \cup ToSet(b.owns))) \cup {Newest} \subseteq Unowned'
      /\ heap'[Newest] = b
  BY <1>1, <1>2, <1>5, NewTwo
<1>7. Newest \in Unowned'
  BY <1>6
<1> QED
  BY <1>1, <1>3, <1>6, <1>7

LEMMA ValueRead == HeaderInv /\ ReadValue => HeaderInv'
<1> SUFFICES ASSUME HeaderInv, ReadValue PROVE HeaderInv'
  OBVIOUS
<1> DEFINE new == <<Object("Value", LiteralRead, <<>>), Object("Property", "empty", <<key, Len(heap) + 1>>)>>
           next == IF Dropped /\ At(in) \in Ends \cup {"=", "=."} THEN in + 1 ELSE ValueAt
<1>1. /\ CursorOK /\ NodeOK /\ Tree /\ RootsOK /\ reading = "value"
      /\ UNCHANGED <<node, names, copy>>
  BY DEF HeaderInv, ReadValue
<1>2. text \in Seq(Token) /\ Len(text) \in Nat /\ in \in 1 .. Len(text) + 1 /\ in \in Int
  BY <1>1, CursorAt
<1>3. ValueAt \in in .. Len(text) + 1 /\ ValueAt <= Len(text)
  <2>1. Look(in) \in in .. Len(text) + 1
    BY <1>2, LookIs
  <2>2. ValueAt = in \/ ValueAt = Look(in)
    BY DEF ValueAt
  <2>3. ValueAt <= Len(text)
    BY DEF ReadValue
  <2> QED
    BY <1>2, <2>1, <2>2, <2>3
<1>4. ValueAt \in 1 .. Len(text) + 1 /\ ValueAt + 1 \in 1 .. Len(text) + 1
  BY <1>2, <1>3
<1>5. next \in 1 .. Len(text) + 1
  <2>1. Dropped => ValueAt = in
    BY DEF ValueAt
  <2> QED
    BY <1>2, <1>3, <1>4, <2>1
<1>6. \/ Goto("names", next) /\ UNCHANGED <<key, prop, heap, live>>
      \/ Goto("behind", ValueAt + 1) /\ key' = Null /\ UNCHANGED <<prop, heap, live>>
      \/ Goto("behind", ValueAt + 1) /\ New(new) /\ prop' = Newest /\ key' = Null
  <2>1. live' = KeyKept => UNCHANGED live
    BY DEF KeyKept
  <2>2. NewBeside(KeyKept, new) => New(new)
    BY DEF KeyKept, New
  <2>3. CASE LiteralRead = "none"
    BY <2>3 DEF ReadValue
  <2>4. CASE LiteralRead = "null"
    BY <2>1, <2>4 DEF ReadValue
  <2>5. CASE LiteralRead \notin {"none", "null"}
    <3>1. NewBeside(KeyKept, new) /\ prop' = Newest /\ key' = Null /\ Goto("behind", ValueAt + 1)
      BY <2>5 DEF ReadValue
    <3> HIDE DEF new
    <3> QED
      BY <2>2, <3>1
  <2> QED
    BY <2>3, <2>4, <2>5
<1> HIDE DEF new, next
<1>7. CursorOK'
  <2>1. "names" \in Labels /\ "behind" \in Labels
    BY DEF Labels
  <2> QED
    BY <1>1, <1>4, <1>5, <1>6, <2>1, CursorGoes
<1>8. key \in Unowned /\ key # Null /\ prop = Null /\ node.props = Null /\ copy = Null /\ names = <<>>
  BY <1>1 DEF RootsOK
<1>9. \A x : <<>> \in Seq(Unowned' \ {x})
  OBVIOUS
<1>10. Tree' /\ RootsOK'
  <2>1. CASE UNCHANGED <<key, prop, heap, live>> /\ reading' = "names"
    <3>1. Tree' /\ Unowned' = Unowned
      BY <1>1, <2>1, SameObjects
    <3> QED
      BY <1>1, <1>8, <1>9, <2>1, <3>1 DEF RootsOK
  <2>2. CASE key' = Null /\ UNCHANGED <<prop, heap, live>> /\ reading' = "behind"
    <3>1. Tree' /\ Unowned' = Unowned
      BY <1>1, <2>2, SameObjects
    <3> QED
      BY <1>1, <1>8, <1>9, <2>2, <3>1 DEF RootsOK
  <2>3. CASE New(new) /\ prop' = Newest /\ key' = Null /\ reading' = "behind"
    <3>1. Tree' /\ Newest \in Unowned' /\ Len(heap'[Newest].owns) = 2
      <4>1. <<>> \in Seq(Unowned \ {key}) /\ \A i, j \in DOMAIN <<>> : <<>>[i] = <<>>[j] => i = j
        OBVIOUS
      <4> QED
        BY <1>1, <1>8, <2>3, <4>1, NewProperty DEF new
    <3>2. prop' \in Unowned' /\ Len(heap'[prop'].owns) = 2
      BY <2>3, <3>1
    <3> QED
      BY <1>1, <1>8, <1>9, <2>3, <3>1, <3>2 DEF RootsOK
  <2> QED
    BY <1>6, <2>1, <2>2, <2>3 DEF Goto
<1> QED
  BY <1>1, <1>7, <1>10 DEF HeaderInv, NodeOK

LEMMA PastEndRead == HeaderInv /\ ReadPastEnd => HeaderInv'
<1> SUFFICES ASSUME HeaderInv, ReadPastEnd PROVE HeaderInv'
  OBVIOUS
<1>1. /\ CursorOK /\ NodeOK /\ Tree /\ RootsOK /\ reading = "value"
      /\ key' = Null /\ UNCHANGED <<node, names, prop, copy, heap, live>>
  BY DEF HeaderInv, ReadPastEnd
<1>2. CursorOK'
  <2>1. "behind" \in Labels /\ "wild" \in Labels
    BY DEF Labels
  <2>2. Len(text) + 1 \in 1 .. Len(text) + 1
    BY <1>1, CursorAt
  <2>3. Goto("behind", Len(text) + 1) \/ Goto("wild", Len(text) + 1)
    BY DEF ReadPastEnd
  <2> QED
    BY <1>1, <2>1, <2>2, <2>3, CursorGoes
<1>3. Tree' /\ Unowned' = Unowned
  BY <1>1, SameObjects
<1>4. reading' \in {"behind", "wild"}
  BY DEF ReadPastEnd, Goto
<1>5. <<>> \in Seq(Unowned' \ {key'})
  OBVIOUS
<1>6. prop = Null /\ node.props = Null /\ copy = Null /\ names = <<>>
  BY <1>1 DEF RootsOK
<1>7. RootsOK'
  BY <1>1, <1>3, <1>4, <1>5, <1>6 DEF RootsOK
<1> QED
  BY <1>1, <1>2, <1>3, <1>7 DEF HeaderInv, NodeOK

LEMMA ReferenceRead == HeaderInv /\ ReadReference => HeaderInv'
<1> SUFFICES ASSUME HeaderInv, ReadReference PROVE HeaderInv'
  OBVIOUS
<1> DEFINE n == NameAt(in)
           label == IF At(n.next) = "comma" THEN "names" ELSE "reference"
           made == /\ New(<<Object("Text", n.of, <<>>), Object("Name", "empty", <<Len(heap) + 1>>)>>)
                   /\ names' = Append(names, Newest)
<1>1. /\ CursorOK /\ NodeOK /\ Tree /\ RootsOK /\ reading = "names"
      /\ UNCHANGED <<node, key, prop, copy>> /\ reading' \in {"names", "reference"}
  BY DEF HeaderInv, ReadReference, Goto
<1>2. text \in Seq(Token) /\ Len(text) \in Nat /\ in \in 1 .. Len(text) + 1 /\ in \in Int
  BY <1>1, CursorAt
<1>3. n.next \in 1 .. Len(text) + 1
  BY <1>2, NameAtIs
<1>4. Goto(label, n.next) /\ (made \/ UNCHANGED <<names, heap, live>>)
  BY DEF ReadReference
<1>5. CursorOK'
  <2>1. label \in Labels /\ label # "value"
    BY DEF Labels
  <2> HIDE DEF n, label, made
  <2> QED
    BY <1>1, <1>3, <1>4, <2>1, CursorGoes
<1>6. /\ key \in Unowned /\ key # Null /\ prop = Null /\ node.props = Null /\ copy = Null
      /\ names \in Seq(Unowned \ {key}) /\ \A i, j \in DOMAIN names : names[i] = names[j] => i = j
  BY <1>1 DEF RootsOK
<1>7. Tree' /\ RootsOK'
  <2>1. CASE UNCHANGED <<names, heap, live>>
    <3>1. Tree' /\ Unowned' = Unowned
      BY <1>1, <2>1, SameObjects
    <3> QED
      BY <1>1, <1>6, <2>1, <3>1 DEF RootsOK
  <2>2. CASE made
    <3>1. Tree' /\ Unowned \subseteq Unowned' /\ Newest \in Unowned' /\ Newest \notin live
      <4>1. Tree' /\ Unowned \cup {Newest} \subseteq Unowned' /\ Newest \notin live
        <5> HIDE DEF n
        <5> QED
          BY <1>1, <2>2, NewNamed
      <4> QED
        BY <4>1
    <3>2. \A i \in DOMAIN names : names[i] \in Unowned /\ names[i] \in live
      <4>1. \A i \in DOMAIN names : names[i] \in Unowned \ {key}
        BY <1>6, ElementOfSeq
      <4> QED
        BY <4>1 DEF Unowned
    <3> DEFINE x == Newest
               U == Unowned' \ {key}
    <3>3. x \in U /\ names' = Append(names, x)
      BY <1>6, <2>2, <3>1 DEF Unowned
    <3>4. names \in Seq(U)
      <4>1. Unowned \ {key} \subseteq U
        BY <3>1
      <4>2. \A A, B : A \subseteq B => Seq(A) \subseteq Seq(B)
        OBVIOUS
      <4> HIDE DEF U
      <4> QED
        BY <1>6, <4>1, <4>2, Zenon
    <3>5. \A i \in DOMAIN names : names[i] # x
      BY <3>1, <3>2
    <3> HIDE DEF x, U
    <3>6. names' \in Seq(U) /\ \A i, j \in DOMAIN names' : names'[i] = names'[j] => i = j
      BY <1>6, <3>3, <3>4, <3>5, AppendProperties
    <3> QED
      BY <1>1, <1>6, <3>1, <3>6 DEF RootsOK, U
  <2> HIDE DEF n, made
  <2> QED
    BY <1>4, <2>1, <2>2
<1> QED
  BY <1>1, <1>5, <1>7 DEF HeaderInv, NodeOK

LEMMA ReferenceMade == HeaderInv /\ MakeReference => HeaderInv'
<1> SUFFICES ASSUME HeaderInv, MakeReference PROVE HeaderInv'
  OBVIOUS
<1> DEFINE new == <<Object("Reference", "empty", names), Object("Property", "empty", <<key, Len(heap) + 1>>)>>
<1>1. /\ CursorOK /\ NodeOK /\ Tree /\ RootsOK /\ reading = "reference"
      /\ UNCHANGED <<node, copy>> /\ key' = Null /\ names' = <<>> /\ reading' = "behind"
  BY DEF HeaderInv, MakeReference, Goto
<1>2. CursorOK'
  <2>1. in \in 1 .. Len(text) + 1
    BY <1>1, CursorAt
  <2>2. Goto("behind", in) /\ "behind" \in Labels
    BY DEF MakeReference, Labels
  <2> QED
    BY <1>1, <2>1, <2>2, CursorGoes
<1>3. UNCHANGED <<prop, heap, live>> \/ (New(new) /\ prop' = Newest)
  BY DEF MakeReference
<1>4. /\ key \in Unowned /\ prop = Null /\ node.props = Null /\ copy = Null
      /\ names \in Seq(Unowned \ {key}) /\ \A i, j \in DOMAIN names : names[i] = names[j] => i = j
  BY <1>1 DEF RootsOK
<1>5. <<>> \in Seq(Unowned' \ {key'})
  OBVIOUS
<1>6. Tree' /\ RootsOK'
  <2>1. CASE UNCHANGED <<prop, heap, live>>
    <3>1. Tree' /\ Unowned' = Unowned
      BY <1>1, <2>1, SameObjects
    <3> QED
      BY <1>1, <1>4, <1>5, <2>1, <3>1 DEF RootsOK
  <2>2. CASE New(new) /\ prop' = Newest
    <3>1. Tree' /\ Newest \in Unowned' /\ Len(heap'[Newest].owns) = 2
      BY <1>1, <1>4, <2>2, NewProperty
    <3>2. prop' \in Unowned' /\ Len(heap'[prop'].owns) = 2
      BY <2>2, <3>1
    <3> QED
      BY <1>1, <1>4, <1>5, <2>2, <3>1, <3>2 DEF RootsOK
  <2> HIDE DEF new
  <2> QED
    BY <1>3, <2>1, <2>2
<1> QED
  BY <1>1, <1>2, <1>6 DEF HeaderInv, NodeOK

LEMMA PropertyLeft == HeaderInv /\ BehindProperty => HeaderInv'
<1> SUFFICES ASSUME HeaderInv, BehindProperty PROVE HeaderInv'
  OBVIOUS
<1> DEFINE j == Look(in)
<1>1. /\ CursorOK /\ NodeOK /\ Tree /\ RootsOK /\ reading = "behind"
      /\ UNCHANGED <<key, names, copy, heap, live>> /\ prop' = Null
  BY DEF HeaderInv, BehindProperty
<1>2. text \in Seq(Token) /\ Len(text) \in Nat /\ in \in 1 .. Len(text) + 1 /\ in \in Int
  BY <1>1, CursorAt
<1>3. j \in 1 .. Len(text) + 1
  BY <1>2, LookOn
<1>4. At(j) = ")" => j + 1 \in 1 .. Len(text) + 1
  <2>1. At(j) = ")" => j <= Len(text)
    BY <1>2, <1>3, AtIs
  <2> HIDE DEF j
  <2> QED
    BY <1>2, <1>3, <2>1
<1>5. \/ Goto("done", j)
      \/ At(j) = ")" /\ Goto("done", j + 1)
      \/ At(j) # ")" /\ Goto("failed", 0)
  <2>1. CASE At(j) = "end"
    BY <2>1 DEF BehindProperty
  <2>2. CASE At(j) = ")"
    <3>1. At(j) # "end"
      BY <2>2
    <3> QED
      BY <2>2, <3>1 DEF BehindProperty
  <2>3. CASE At(j) \notin {"end", ")"}
    BY <2>3 DEF BehindProperty
  <2> QED
    BY <2>1, <2>2, <2>3
<1>6. CursorOK'
  <2>1. "done" \in Labels /\ "failed" \in Labels
    BY DEF Labels
  <2>2. CASE Goto("failed", 0)
    BY <1>1, <1>2, <2>1, <2>2 DEF CursorOK, Goto
  <2>3. CASE \E i \in {j, j + 1} : i \in 1 .. Len(text) + 1 /\ Goto("done", i)
    <3> HIDE DEF j
    <3>1. PICK i \in {j, j + 1} : i \in 1 .. Len(text) + 1 /\ Goto("done", i)
      BY <2>3
    <3> QED
      BY <1>1, <2>1, <3>1, CursorGoes
  <2> QED
    BY <1>3, <1>4, <1>5, <2>2, <2>3
<1>7. /\ key = Null /\ node.props = Null /\ copy = Null /\ names = <<>>
      /\ prop # Null => prop \in Unowned /\ Len(heap[prop].owns) = 2
  BY <1>1 DEF RootsOK
<1>8. Tree' /\ Unowned' = Unowned
  BY <1>1, SameObjects
<1>9. prop # Null => prop \in Nat
  BY <1>1, <1>7, HeapIs DEF Unowned
<1>10. /\ NodeOK' /\ reading' \in {"done", "failed"}
       /\ node'.props = Null \/ (node'.props = prop /\ reading' = "done")
  <2>1. reading' \in {"done", "failed"} /\ (At(j) = ")" => reading' = "done")
    BY <1>5 DEF Goto
  <2>2. node' = node \/ (At(j) = ")" /\ node' = [node EXCEPT !.props = prop])
    BY DEF BehindProperty, Kept
  <2> HIDE DEF j
  <2> QED
    BY <1>1, <1>7, <1>9, <2>1, <2>2 DEF NodeOK
<1>11. <<>> \in Seq(Unowned' \ {key'})
  OBVIOUS
<1>12. RootsOK'
  BY <1>1, <1>7, <1>8, <1>10, <1>11 DEF RootsOK
<1> QED
  BY <1>6, <1>8, <1>10, <1>12 DEF HeaderInv

LEMMA RefSet == HeaderInv /\ SetRef => HeaderInv'
<1> SUFFICES ASSUME HeaderInv, SetRef PROVE HeaderInv'
  OBVIOUS
<1> DEFINE ref == heap[node.props].owns[2]
           ns == NamesOf(ref)
<1>1. /\ CursorOK /\ NodeOK /\ Tree /\ RootsOK /\ reading \in {"done", "failed"}
      /\ UNCHANGED <<text, in, reading, node, key, names, prop>>
      /\ node.props # Null /\ New(Copied(ns)) /\ copy' = Newest
  BY DEF HeaderInv, SetRef, Read, HasReference, cursor, locals
<1>2. /\ key = Null /\ prop = Null /\ names = <<>>
      /\ node.props \in Unowned /\ reading = "done" /\ Len(heap[node.props].owns) = 2
  BY <1>1 DEF RootsOK
<1>3. node.props \in live
  BY <1>2 DEF Unowned
<1>4. ref \in live
  <2> DEFINE owned == heap[node.props].owns
  <2>1. owned \in Seq(live) /\ Len(owned) = 2
    BY <1>1, <1>2, <1>3 DEF Tree
  <2>2. 2 \in 1 .. Len(owned)
    BY <2>1
  <2> HIDE DEF owned
  <2>3. owned[2] \in live
    BY <2>1, <2>2, ElementOfSeq
  <2> QED
    BY <2>3 DEF owned
<1>5. \E m \in Nat : DOMAIN ns = 1 .. m
  <2>1. heap[ref].owns \in Seq(live)
    BY <1>1, <1>4 DEF Tree
  <2>2. DOMAIN ns = DOMAIN heap[ref].owns
    BY DEF NamesOf
  <2> HIDE DEF ref, ns
  <2> QED
    BY <2>1, <2>2, LenProperties
<1> HIDE DEF ns, ref
<1>6. /\ Tree' /\ Unowned \cup {Newest} \subseteq Unowned' /\ Newest \notin live
      /\ live \subseteq live' /\ \A o \in live : heap'[o] = heap[o]
  BY <1>1, <1>5, NewCopy
<1>7. /\ copy' \in Unowned' /\ copy' \notin live /\ Unowned \subseteq Unowned'
      /\ heap'[node.props] = heap[node.props]
  BY <1>1, <1>3, <1>6
<1>8. <<>> \in Seq(Unowned' \ {key'})
  OBVIOUS
<1>9. RootsOK'
  BY <1>1, <1>2, <1>3, <1>7, <1>8 DEF RootsOK
<1>10. CursorOK' /\ NodeOK'
  BY <1>1 DEF CursorOK, NodeOK
<1> QED
  BY <1>6, <1>9, <1>10 DEF HeaderInv

LEMMA NodeDeleted == HeaderInv /\ DeleteNode => HeaderInv'
<1> SUFFICES ASSUME HeaderInv, DeleteNode PROVE HeaderInv'
  OBVIOUS
<1>1. /\ CursorOK /\ NodeOK /\ Tree /\ RootsOK /\ reading \in {"done", "failed"}
      /\ UNCHANGED <<text, in, key, names, prop, copy, heap>>
      /\ live' = live \ Reached({node.props}) /\ node' = NoNode /\ reading' = "deleted"
  BY DEF HeaderInv, DeleteNode, Read, Goto, locals
<1>2. /\ key = Null /\ prop = Null /\ names = <<>>
      /\ node.props # Null => node.props \in Unowned
      /\ copy # Null => copy \in Unowned /\ copy # node.props
  BY <1>1 DEF RootsOK
<1> DEFINE r == node.props
<1>3. Tree' /\ \A x : x \in Unowned /\ x # r => x \in Unowned'
  BY <1>1, <1>2, Deletes
<1>4. copy' # Null => copy' \in Unowned'
  BY <1>1, <1>2, <1>3
<1>5. <<>> \in Seq(Unowned' \ {key'})
  OBVIOUS
<1>6. NodeOK' /\ node'.props = Null
  BY <1>1 DEF NodeOK, NoNode
<1>7. RootsOK'
  BY <1>1, <1>2, <1>4, <1>5, <1>6 DEF RootsOK
<1>8. CursorOK'
  BY <1>1 DEF CursorOK, Labels
<1> QED
  BY <1>3, <1>6, <1>7, <1>8 DEF HeaderInv

LEMMA ValueDeleted == HeaderInv /\ DeleteValue => HeaderInv'
<1> SUFFICES ASSUME HeaderInv, DeleteValue PROVE HeaderInv'
  OBVIOUS
<1>1. /\ CursorOK /\ NodeOK /\ Tree /\ RootsOK /\ copy # Null
      /\ UNCHANGED <<text, in, reading, node, key, names, prop, heap>>
      /\ live' = live \ Reached({copy}) /\ copy' = Null
  BY DEF HeaderInv, DeleteValue, cursor, locals
<1>2. /\ copy \in Unowned /\ reading \in {"done", "failed", "deleted"}
      /\ key = Null /\ prop = Null /\ names = <<>>
      /\ node.props # Null => /\ node.props \in Unowned /\ node.props # copy
                              /\ reading = "done" /\ Len(heap[node.props].owns) = 2
  BY <1>1 DEF RootsOK
<1>3. Tree' /\ \A x : x \in Unowned /\ x # copy => x \in Unowned'
  BY <1>1, <1>2, Deletes
<1>4. <<>> \in Seq(Unowned' \ {key'})
  OBVIOUS
<1>5. RootsOK'
  BY <1>1, <1>2, <1>3, <1>4 DEF RootsOK
<1>6. CursorOK' /\ NodeOK'
  BY <1>1 DEF CursorOK, NodeOK
<1> QED
  BY <1>3, <1>5, <1>6 DEF HeaderInv

LEMMA HeaderInvStays == HeaderInv /\ [NextHeader]_headerVars => HeaderInv'
<1> SUFFICES ASSUME HeaderInv, [NextHeader]_headerVars PROVE HeaderInv'
  OBVIOUS
<1>1. CASE Step
  BY <1>1, TypeRead, NameRead, ClauseOpened, KeyRead, ValueRead, PastEndRead,
     ReferenceRead, ReferenceMade, PropertyLeft DEF Step
<1>2. CASE SetRef \/ DeleteNode \/ DeleteValue
  BY <1>2, RefSet, NodeDeleted, ValueDeleted
<1>3. CASE UNCHANGED headerVars
  <2>1. UNCHANGED <<text, in, reading, node, key, names, prop, copy, heap, live>>
    BY <1>3 DEF headerVars, cursor, locals
  <2> QED
    BY <2>1 DEF HeaderInv, CursorOK, NodeOK, Tree, RootsOK, Unowned
<1> QED
  BY <1>1, <1>2, <1>3 DEF NextHeader

LEMMA HeaderInvAlways == HeaderSpec => []HeaderInv
  BY InitInv, HeaderInvStays, PTL DEF HeaderSpec

\* What the pointers point to, place by place
LEMMA VariablesDiffer ==
    ASSUME HeaderInv
    PROVE  /\ \A i \in DOMAIN Variables : Variables[i] # Null => Variables[i] \in Unowned
           /\ \A i, j \in DOMAIN Variables :
                Variables[i] # Null /\ Variables[i] = Variables[j] => i = j
<1> DEFINE f == <<key, prop, node.props, copy>>
<1>1. /\ RootsOK /\ names \in Seq(Unowned \ {key})
      /\ \A i, j \in DOMAIN names : names[i] = names[j] => i = j
      /\ \A x \in {key, prop, node.props, copy} : x # Null => x \in Unowned
  BY DEF HeaderInv, RootsOK
<1>2. \A i \in DOMAIN names : names[i] \in Unowned /\ names[i] # key
  BY <1>1, ElementOfSeq
<1>3. /\ f \in Seq({key, prop, node.props, copy}) /\ Len(f) = 4
      /\ f[1] = key /\ f[2] = prop /\ f[3] = node.props /\ f[4] = copy
  OBVIOUS
<1>4. \A i, j \in 1 .. 4 : f[i] # Null /\ f[i] = f[j] => i = j
  <2>1. /\ key # Null => prop = Null /\ node.props = Null /\ copy = Null
        /\ prop # Null => node.props = Null /\ copy = Null
        /\ copy # Null => copy # node.props
    BY <1>1 DEF RootsOK
  <2>2. \A i \in 1 .. 4 : i = 1 \/ i = 2 \/ i = 3 \/ i = 4
    OBVIOUS
  <2> HIDE DEF f
  <2> QED
    BY <1>3, <2>1, <2>2
<1>5. \A i \in 1 .. 4, j \in DOMAIN names : f[i] # names[j]
  <2>1. names # <<>> => prop = Null /\ node.props = Null /\ copy = Null
    BY <1>1 DEF RootsOK
  <2>2. \A j \in DOMAIN names : names # <<>> /\ names[j] # Null
    <3>1. \A x \in Unowned : x # Null
      BY HeapIs DEF HeaderInv, Unowned
    <3>2. \A j \in DOMAIN names : names # <<>>
      OBVIOUS
    <3> QED
      BY <1>2, <3>1, <3>2
  <2>3. \A i \in 1 .. 4 : i = 1 \/ i = 2 \/ i = 3 \/ i = 4
    OBVIOUS
  <2> HIDE DEF f
  <2> QED
    BY <1>2, <1>3, <2>1, <2>2, <2>3
<1>6. \A i \in 1 .. 4 : f[i] \in {key, prop, node.props, copy}
  BY <1>3
<1> HIDE DEF f
<1> DEFINE n == Len(names)
<1>7. n \in Nat /\ DOMAIN names = 1 .. n
  BY <1>1, LenProperties
<1>8. /\ DOMAIN Variables = 1 .. 4 + n
      /\ \A i \in 1 .. 4 + n : Variables[i] = IF i <= 4 THEN f[i] ELSE names[i - 4]
  <2> DEFINE S == {key, prop, node.props, copy}
             U == Unowned \ {key}
  <2>1. \A A, B : Seq(A) \subseteq Seq(A \cup B) /\ Seq(B) \subseteq Seq(A \cup B)
    OBVIOUS
  <2>2. f \in Seq(S) /\ names \in Seq(U)
    BY <1>1, <1>3
  <2> HIDE DEF S, U
  <2>3. f \in Seq(S \cup U) /\ names \in Seq(S \cup U)
    BY <2>1, <2>2, Zenon
  <2> DEFINE v == f \o names
  <2>4. /\ v \in Seq(S \cup U) /\ Len(v) = Len(f) + n
        /\ \A i \in 1 .. Len(f) + n : v[i] = IF i <= Len(f) THEN f[i] ELSE names[i - Len(f)]
    BY <2>3, ConcatProperties
  <2>5. Variables = v
    BY DEF Variables, f
  <2> HIDE DEF v
  <2>6. DOMAIN v = 1 .. Len(v)
    BY <2>4
  <2> QED
    BY <1>3, <2>4, <2>5, <2>6
<1> HIDE DEF n
<1>9. \A i \in 1 .. 4 + n : (i <= 4 /\ i \in 1 .. 4) \/ (~(i <= 4) /\ i - 4 \in 1 .. n)
  BY <1>7
<1>10. ASSUME NEW i \in DOMAIN Variables, Variables[i] # Null PROVE Variables[i] \in Unowned
  BY <1>1, <1>2, <1>6, <1>7, <1>8, <1>9, <1>10
<1>11. ASSUME NEW i \in DOMAIN Variables, NEW j \in DOMAIN Variables,
              Variables[i] # Null, Variables[i] = Variables[j]
       PROVE  i = j
  <2>1. i \in 1 .. 4 + n /\ j \in 1 .. 4 + n
    BY <1>8
  <2>2. CASE i <= 4 /\ j <= 4
    BY <1>4, <1>8, <1>9, <1>11, <2>1, <2>2
  <2>3. CASE i <= 4 /\ ~(j <= 4)
    BY <1>5, <1>7, <1>8, <1>9, <1>11, <2>1, <2>3
  <2>4. CASE ~(i <= 4) /\ j <= 4
    BY <1>5, <1>7, <1>8, <1>9, <1>11, <2>1, <2>4
  <2>5. CASE ~(i <= 4) /\ ~(j <= 4)
    <3>1. names[i - 4] = names[j - 4] /\ i - 4 \in DOMAIN names /\ j - 4 \in DOMAIN names
      BY <1>7, <1>8, <1>9, <1>11, <2>1, <2>5
    <3>2. i - 4 = j - 4
      BY <1>1, <3>1
    <3> QED
      BY <2>1, <3>2, <1>7
  <2> QED
    BY <2>2, <2>3, <2>4, <2>5
<1> QED
  BY <1>10, <1>11

LEMMA InvTyped == HeaderInv => HeaderTypeOK
<1> SUFFICES ASSUME HeaderInv PROVE HeaderTypeOK
  OBVIOUS
<1>1. CursorOK /\ NodeOK /\ Tree /\ RootsOK
  BY DEF HeaderInv
<1>2. Unowned \subseteq DOMAIN heap /\ live \subseteq DOMAIN heap
  BY <1>1 DEF Tree, Unowned
<1>3. {key, prop, node.props, copy} \subseteq DOMAIN heap \cup {Null}
  BY <1>1, <1>2 DEF RootsOK
<1>4. ToSet(names) \subseteq DOMAIN heap \cup {Null}
  <2>1. \A i \in DOMAIN names : names[i] \in Unowned \ {key}
    <3>1. names \in Seq(Unowned \ {key})
      BY <1>1 DEF RootsOK
    <3> QED
      BY <3>1, ElementOfSeq
  <2> QED
    BY <1>2, <2>1 DEF ToSet
<1>5. node \in [made : BOOLEAN, type : Token \cup {"empty"}, name : Token \cup {"empty"},
                props : DOMAIN heap \cup {Null}]
  BY <1>1, <1>3 DEF NodeOK
<1> QED
  BY <1>1, <1>2, <1>3, <1>4, <1>5 DEF CursorOK, HeaderTypeOK

LEMMA InvOwnedOnce == HeaderInv => OwnedOnce
<1> SUFFICES ASSUME HeaderInv PROVE OwnedOnce
  OBVIOUS
<1>1. Tree
  BY DEF HeaderInv
<1>2. \A p \in Places :
        \/ \E i \in DOMAIN Variables : p = <<0, i>>
        \/ \E o \in live : \E i \in DOMAIN heap[o].owns : p = <<o, i>>
  BY DEF Places
<1>3. \A i : Pointer(<<0, i>>) = Variables[i]
  BY DEF Pointer
<1>4. \A o \in live : \A i : o # 0 /\ Pointer(<<o, i>>) = heap[o].owns[i]
  BY <1>1, HeapIs DEF Pointer
<1>5. \A o \in live : \A i \in DOMAIN heap[o].owns : heap[o].owns[i] \in live \ Unowned
  <2>1. \A o \in live : \A i \in DOMAIN heap[o].owns : heap[o].owns[i] \in live
    BY <1>1, ElementOfSeq DEF Tree
  <2> QED
    BY <2>1 DEF Unowned
<1>6. ASSUME NEW p \in Places, Pointer(p) # Null PROVE Pointer(p) \in live
  <2>1. CASE \E i \in DOMAIN Variables : p = <<0, i>>
    BY <1>3, <1>6, <2>1, VariablesDiffer DEF Unowned
  <2>2. CASE \E o \in live : \E i \in DOMAIN heap[o].owns : p = <<o, i>>
    BY <1>4, <1>5, <2>2
  <2> QED
    BY <1>2, <2>1, <2>2
<1>7. ASSUME NEW p \in Places, NEW q \in Places, Pointer(p) # Null, Pointer(p) = Pointer(q)
      PROVE  p = q
  <2>1. ASSUME NEW i \in DOMAIN Variables, NEW j \in DOMAIN Variables, p = <<0, i>>, q = <<0, j>>
        PROVE  p = q
    <3>1. Variables[i] # Null /\ Variables[i] = Variables[j]
      BY <1>3, <1>7, <2>1
    <3>2. i = j
      BY <3>1, VariablesDiffer
    <3> QED
      BY <2>1, <3>2
  <2>2. ASSUME NEW i \in DOMAIN Variables, NEW o \in live, NEW j \in DOMAIN heap[o].owns,
               (p = <<0, i>> /\ q = <<o, j>>) \/ (p = <<o, j>> /\ q = <<0, i>>)
        PROVE  FALSE
    <3>1. Variables[i] # Null /\ Variables[i] = heap[o].owns[j]
      BY <1>3, <1>4, <1>7, <2>2
    <3>2. Variables[i] \in Unowned
      BY <3>1, VariablesDiffer
    <3> QED
      BY <1>5, <3>1, <3>2
  <2>3. ASSUME NEW o \in live, NEW z \in live, NEW i \in DOMAIN heap[o].owns, NEW j \in DOMAIN heap[z].owns,
               p = <<o, i>>, q = <<z, j>>
        PROVE  p = q
    <3>1. heap[o].owns[i] = heap[z].owns[j]
      BY <1>4, <1>7, <2>3
    <3>2. o = z /\ i = j
      BY <1>1, <3>1, OneOwner
    <3> QED
      BY <2>3, <3>2
  <2> QED
    BY <1>2, <2>1, <2>2, <2>3
<1> QED
  BY <1>6, <1>7, InvTyped DEF OwnedOnce

\* While a header is read, and when its node and a copied reference are destroyed,
\* no pointer names a deleted object and no two pointers name one.
THEOREM HeaderOwnedOnce == HeaderSpec => []OwnedOnce
  BY HeaderInvAlways, InvOwnedOnce, PTL

-----------------------------------------------------------------------------
(* A header that the exporter wrote, read again. *)

\* Where its clause of properties begins, and what is behind the first property's value
ClauseAt(h) == IF h.name = "empty" THEN 2 ELSE 4
ValueEnd(h) == ClauseAt(h) + 3 + Width(h.props[1].value)

\* Whether its value is no literal to the parser, whether the parser refuses the header,
\* and where the parser is behind the value
NoLiteral(h) == h.props[1].value \in {"ref", "exp", "bool"}
IsRefused(h) == Len(h.props) > 1 \/ (Len(h.props) > 0 /\ h.props[1].value \in Refused)
NamesAt(h) ==
    ClauseAt(h) + (IF h.props[1].value = "ref" /\ Len(h.props) # 1 THEN 4 ELSE 3)
BehindAt(h) == IF NoLiteral(h) THEN NamesAt(h) ELSE ClauseAt(h) + 4

\* The objects of a key, and of a property
KeyObjects(h) == <<Object("Text", h.props[1].key, <<>>)>>
PropertyObjects(h) ==
    <<Object("Text", h.props[1].key, <<>>), Object("Value", ValueOf[h.props[1].value], <<>>),
      Object("Property", "empty", <<1, 2>>)>>

\* What is read with which outcome, up to where
BeforeKey == heap = <<>> /\ live = {} /\ key = Null /\ prop = Null
BehindKey(h) == heap = KeyObjects(h) /\ live = {1} /\ key = 1 /\ prop = Null
BehindValue(h, p) ==
    /\ key = Null
    /\ Readable(h.props[1]) => heap = PropertyObjects(h) /\ live = {1, 2, 3} /\ p = 3
    /\ h.props[1].value \in Skipped => p = Null

Cursors(h) ==
    /\ reading = "id" => in = 1
    /\ reading = "name" => in = 2
    /\ reading = "clause" => in = ClauseAt(h)
    /\ reading = "key" => in = ClauseAt(h) + 1
    /\ reading = "value" => in = ClauseAt(h) + 3
    /\ reading \in {"names", "reference"} => NoLiteral(h) /\ in = NamesAt(h)
    /\ reading = "behind" => in = BehindAt(h)
    /\ reading = "done" => in = Len(text) + 1 /\ Len(h.props) \in {0, 1} /\ ~IsRefused(h)
    /\ reading = "failed" => IsRefused(h)
    /\ reading \in {"key", "value", "names", "reference", "behind"} => Len(h.props) > 0
    /\ reading # "wild"

NodeRead(h) ==
    LET made(n, p) == node = [made |-> TRUE, type |-> h.type, name |-> n, props |-> p] IN
    /\ reading = "id" => node = NoNode
    /\ reading = "name" => made("empty", Null)
    /\ reading \in {"clause", "key", "value", "names", "reference", "behind", "failed"} =>
         made(h.name, Null)
    /\ reading = "done" => made(h.name, node.props)

ObjectsRead(h) ==
    /\ names = <<>> /\ copy = Null
    /\ reading \in {"id", "name", "clause", "key"} => BeforeKey
    /\ reading \in {"value", "names", "reference"} => BehindKey(h)
    /\ reading = "behind" => BehindValue(h, prop)
    /\ reading = "done" /\ Len(h.props) = 0 => BeforeKey /\ node.props = Null
    /\ reading = "done" /\ Len(h.props) = 1 => BehindValue(h, node.props) /\ prop = Null

\* The inductive invariant of reading back: where the cursor is, what the node has and
\* which objects there are, for each thing that is read next
BackInv ==
    origin # Null =>
      /\ origin \in Headers /\ text = WrittenHeader(origin)
      /\ Cursors(origin) /\ NodeRead(origin) /\ ObjectsRead(origin)

\* What joins two sequences of tokens, place by place
JoinedAt(z, x, y, m, k) ==
    /\ z \in Seq(Token) /\ Len(z) = m + k
    /\ \A i \in 1 .. m : z[i] = x[i]
    /\ \A i \in 1 .. k : z[m + i] = y[i]

LEMMA JoinAt ==
    ASSUME NEW x \in Seq(Token), NEW y \in Seq(Token), NEW z, z = x \o y,
           NEW m, Len(x) = m, NEW k, Len(y) = k
    PROVE  JoinedAt(z, x, y, m, k)
<1>0. m \in Nat
  BY LenProperties
<1> DEFINE n == Len(y)
<1>1. n \in Nat
  BY LenProperties
<1>2. /\ z \in Seq(Token) /\ Len(z) = Len(x) + Len(y)
      /\ \A i \in 1 .. Len(x) + Len(y) : z[i] = IF i <= Len(x) THEN x[i] ELSE y[i - Len(x)]
  BY ConcatProperties
<1> HIDE DEF n
<1>3. \A i \in 1 .. m + n : z[i] = IF i <= m THEN x[i] ELSE y[i - m]
  BY <1>2 DEF n
<1>4. \A i \in 1 .. m : i \in 1 .. m + n /\ i <= m
  BY <1>0, <1>1
<1>5. \A i \in 1 .. n : m + i \in 1 .. m + n /\ ~(m + i <= m) /\ (m + i) - m = i
  BY <1>0, <1>1
<1>6. \A i \in 1 .. n : z[m + i] = y[i]
  BY <1>3, <1>5
<1> QED
  BY <1>1, <1>2, <1>3, <1>4, <1>6 DEF n, JoinedAt

\* The text of one property, behind c commas
PieceAt(z, p, c) ==
    /\ p.key \in Word /\ p.value \in Kind
    /\ z \in Seq(Token) /\ Len(z) = c + 2 + Width(p.value)
    /\ c = 1 => z[1] = "comma"
    /\ z[c + 1] = p.key /\ z[c + 2] = "="
    /\ p.value # "ref" => z[c + 3] = First(p.value)
    /\ p.value = "quoted" => z[c + 4] = "id"

LEMMA PieceIs ==
    ASSUME NEW h \in Header, NEW i \in 1 .. Len(h.props)
    PROVE  PieceAt(Piece(h, i), h.props[i], IF i = 1 THEN 0 ELSE 1)
<1> DEFINE p == h.props[i]
           x == IF i = 1 THEN <<>> ELSE <<"comma">>
           y == <<p.key, "=">>
           v == WrittenValue(p.value)
           c == IF i = 1 THEN 0 ELSE 1
           m == Width(p.value)
<1>1. p \in [key : Word, value : Kind]
  <2>1. h.props \in Seq([key : Word, value : Kind])
    BY PropertiesTyped
  <2> QED
    BY <2>1, ElementOfSeq
<1>2. p.key \in Word /\ p.value \in Kind /\ p.key \in Token
  BY <1>1 DEF Word, Token
<1>3. "comma" \in Token /\ "=" \in Token
  BY DEF Token
<1> HIDE DEF p
<1>4. x \in Seq(Token) /\ Len(x) = c /\ (c = 1 => x[1] = "comma") /\ c \in Nat
  BY <1>3
<1>5. y \in Seq(Token) /\ Len(y) = 2 /\ y[1] = p.key /\ y[2] = "="
  BY <1>2, <1>3
<1>6. /\ v \in Seq(Token) /\ Len(v) = m
      /\ p.value # "ref" => v[1] = First(p.value)
      /\ p.value = "quoted" => v[2] = "id"
  BY <1>2, ValueWritten
<1>7. Piece(h, i) = (x \o y) \o v
  BY DEF Piece, p
<1>8. /\ c \in {0, 1} /\ m \in {0, 1, 2} /\ (c = 1 <=> i # 1)
      /\ (m = 0 <=> p.value = "ref") /\ (m = 2 <=> p.value = "quoted")
  BY DEF Width
<1> HIDE DEF x, y, v, c, m
<1> DEFINE u == x \o y
           z == u \o v
<1>9. /\ u \in Seq(Token) /\ Len(u) = c + 2
      /\ \A k \in 1 .. c : u[k] = x[k]
      /\ \A k \in 1 .. 2 : u[c + k] = y[k]
  <2>1. u = x \o y
    OBVIOUS
  <2> HIDE DEF u
  <2>2. JoinedAt(u, x, y, c, 2)
    BY <1>4, <1>5, <2>1, JoinAt
  <2> QED
    BY <2>2 DEF JoinedAt
<1>10. u[c + 1] = p.key /\ u[c + 2] = "=" /\ (c = 1 => u[1] = "comma")
  <2>1. 1 \in 1 .. 2 /\ 2 \in 1 .. 2 /\ (c = 1 => 1 \in 1 .. c)
    OBVIOUS
  <2> QED
    BY <1>4, <1>5, <1>9, <2>1
<1> HIDE DEF u
<1>11. c + 2 \in Nat
  BY <1>4
<1>12. /\ z \in Seq(Token) /\ Len(z) = c + 2 + m
       /\ \A k \in 1 .. c + 2 : z[k] = u[k]
       /\ \A k \in 1 .. Len(v) : z[c + 2 + k] = v[k]
  <2> DEFINE b == c + 2
  <2>1. z = u \o v /\ b \in Nat /\ Len(u) = b
    BY <1>9, <1>11
  <2> HIDE DEF z, b
  <2>2. JoinedAt(z, u, v, b, Len(v))
    BY <1>6, <1>9, <2>1, JoinAt
  <2> QED
    BY <1>6, <2>2 DEF b, JoinedAt
<1> HIDE DEF z
<1>13. /\ z[c + 1] = p.key /\ z[c + 2] = "=" /\ (c = 1 => z[1] = "comma")
  <2>1. c + 1 \in 1 .. c + 2 /\ c + 2 \in 1 .. c + 2 /\ 1 \in 1 .. c + 2
    BY <1>4
  <2> QED
    BY <1>10, <1>12, <2>1
<1>14. /\ p.value # "ref" => z[c + 3] = First(p.value)
       /\ p.value = "quoted" => z[c + 4] = "id"
  <2>1. /\ p.value # "ref" => 1 \in 1 .. Len(v)
        /\ p.value = "quoted" => 2 \in 1 .. Len(v)
    BY <1>6, <1>8
  <2>2. c + 2 + 1 = c + 3 /\ c + 2 + 2 = c + 4
    BY <1>4
  <2> QED
    BY <1>6, <1>12, <2>1, <2>2
<1>16. Piece(h, i) = z
  BY <1>7 DEF z, u
<1> QED
  <2>1. PieceAt(z, p, c)
    BY <1>2, <1>8, <1>12, <1>13, <1>14 DEF PieceAt, m
  <2> QED
    BY <1>16, <2>1, Zenon DEF p, c

\* The texts of all properties: the first, and behind it a comma and the next
LEMMA PiecesAre ==
    ASSUME NEW h \in Header, Len(h.props) > 0
    PROVE  \E g \in Seq(Token) :
             /\ FlattenSeq(Pieces(h)) = Piece(h, 1) \o g
             /\ Len(h.props) = 1 => g = <<>>
             /\ Len(h.props) # 1 => Len(g) > 1 /\ g[1] = "comma" /\ g[2] = h.props[2].key
<1> DEFINE n == Len(h.props)
           s == Pieces(h)
           t == [i \in 1 .. n - 1 |-> Piece(h, i + 1)]
           u == [i \in 1 .. n - 2 |-> Piece(h, i + 2)]
<1>1. n \in Nat /\ DOMAIN h.props = 1 .. n /\ n > 0
  BY LenProperties DEF Header
<1>2. \A i \in 1 .. n : Piece(h, i) \in Seq(Token)
  <2>1. \A i \in 1 .. n : PieceAt(Piece(h, i), h.props[i], IF i = 1 THEN 0 ELSE 1)
    BY PieceIs
  <2> QED
    BY <2>1, Zenon DEF PieceAt
<1>3. s \in Seq(Seq(Token)) /\ Len(s) = n /\ \A i \in 1 .. n : s[i] = Piece(h, i)
  BY <1>1, PiecesTyped DEF Pieces
<1> HIDE DEF n, s
<1>4. t \in Seq(Seq(Token)) /\ Len(t) = n - 1 /\ \A i \in 1 .. n - 1 : t[i] = s[i + 1]
  <2>1. \A i \in 1 .. n - 1 : i + 1 \in 1 .. n
    BY <1>1
  <2>2. n - 1 \in Nat /\ \A i \in 1 .. n - 1 : Piece(h, i + 1) \in Seq(Token)
    BY <1>1, <1>2, <2>1
  <2>3. t \in [1 .. n - 1 -> Seq(Token)]
    BY <2>2
  <2>4. \A i \in 1 .. n - 1 : t[i] = s[i + 1]
    BY <1>3, <2>1
  <2> HIDE DEF t
  <2> QED
    BY <2>2, <2>3, <2>4
<1> DEFINE g == FlattenSeq(t)
<1>5. g \in Seq(Token)
  BY <1>4, FlattenTyped
<1>6. FlattenSeq(s) = s[1] \o g
  <2>1. Len(s) = Len(t) + 1
    BY <1>1, <1>3, <1>4
  <2>2. \A i \in 1 .. Len(t) : t[i] = s[i + 1]
    BY <1>4
  <2> HIDE DEF t
  <2> QED
    BY <1>3, <1>4, <2>1, <2>2, FlattenFirst
<1>7. n = 1 => g = <<>>
  <2> HIDE DEF t
  <2>1. n = 1 => Len(t) = 0
    BY <1>4
  <2> QED
    BY <1>4, <2>1, FlattenEmpty
<1>8. n # 1 => Len(g) > 1 /\ g[1] = "comma" /\ g[2] = h.props[2].key
  <2> SUFFICES ASSUME n # 1 PROVE Len(g) > 1 /\ g[1] = "comma" /\ g[2] = h.props[2].key
    OBVIOUS
  <2>1. u \in Seq(Seq(Token)) /\ Len(u) = n - 2 /\ \A i \in 1 .. n - 2 : u[i] = t[i + 1]
    <3>1. \A i \in 1 .. n - 2 : i + 2 \in 1 .. n /\ i + 1 \in 1 .. n - 1 /\ (i + 1) + 1 = i + 2
      BY <1>1
    <3>2. n - 2 \in Nat /\ \A i \in 1 .. n - 2 : Piece(h, i + 2) \in Seq(Token)
      BY <1>1, <1>2, <3>1
    <3>3. u \in [1 .. n - 2 -> Seq(Token)]
      BY <3>2
    <3>4. \A i \in 1 .. n - 2 : u[i] = t[i + 1]
      BY <3>1
    <3> HIDE DEF u, t
    <3>5. \A m \in Nat : u \in [1 .. m -> Seq(Token)] => u \in Seq(Seq(Token)) /\ Len(u) = m
      OBVIOUS
    <3>6. n - 2 \in Nat
      BY <3>2
    <3> QED
      BY <3>3, <3>4, <3>5, <3>6, Zenon
  <2>2. Len(t) = Len(u) + 1 /\ \A i \in 1 .. Len(u) : u[i] = t[i + 1]
    BY <1>1, <1>4, <2>1
  <2> DEFINE f == FlattenSeq(u)
             q == Piece(h, 2)
  <2>3. t[1] = q
    <3>1. 1 \in 1 .. n - 1 /\ 1 + 1 = 2 /\ 2 \in 1 .. n
      BY <1>1
    <3> QED
      BY <1>3, <1>4, <3>1
  <2>4. g = q \o f /\ f \in Seq(Token)
    <3> HIDE DEF t, u
    <3>1. g = t[1] \o FlattenSeq(u)
      BY <1>4, <2>1, <2>2, FlattenFirst
    <3> QED
      BY <2>1, <2>3, <3>1, FlattenTyped
  <2>5. /\ q \in Seq(Token) /\ Len(q) \in {3, 4, 5} /\ q[1] = "comma" /\ q[2] = h.props[2].key
    <3>1. 2 \in 1 .. n
      BY <1>1
    <3>2. 2 \in 1 .. Len(h.props)
      BY <3>1 DEF n
    <3>3. PieceAt(q, h.props[2], IF 2 = 1 THEN 0 ELSE 1)
      BY <3>2, PieceIs
    <3>4. PieceAt(q, h.props[2], 1)
      BY <3>3
    <3> HIDE DEF q
    <3> QED
      BY <3>4 DEF PieceAt, Width
  <2> HIDE DEF g, f, q, t, u
  <2> DEFINE m == Len(q)
  <2>6. m \in Nat /\ 1 \in 1 .. m /\ 2 \in 1 .. m /\ m > 1
    BY <2>5
  <2> HIDE DEF m
  <2>7. /\ Len(g) = m + Len(f)
        /\ \A i \in 1 .. m : g[i] = q[i]
    <3>1. JoinedAt(g, q, f, m, Len(f))
      BY <2>4, <2>5, JoinAt DEF m
    <3> QED
      BY <3>1 DEF JoinedAt
  <2>8. Len(f) \in Nat
    BY <2>4, LenProperties
  <2> QED
    BY <2>5, <2>6, <2>7, <2>8
<1> HIDE DEF g
<1>9. s[1] = Piece(h, 1)
  <2>1. 1 \in 1 .. n
    BY <1>1
  <2> QED
    BY <1>3, <2>1
<1> QED
  BY <1>5, <1>6, <1>7, <1>8, <1>9 DEF n, s

\* The text of a header h, with its clause at c and what is behind the value at d
TextIs(t, h, c, d) ==
    /\ t \in Seq(Token) /\ Len(t) \in Nat
    /\ t[1] = h.type
    /\ h.name # "empty" => t[2] = "$" /\ t[3] = h.name
    /\ IF Len(h.props) = 0 THEN Len(t) = c - 1
       ELSE /\ t[c] = "(" /\ t[c + 1] = h.props[1].key /\ t[c + 2] = "="
            /\ h.props[1].value # "ref" => t[c + 3] = First(h.props[1].value)
            /\ h.props[1].value = "quoted" => t[c + 4] = "id"
            /\ IF Len(h.props) = 1 THEN Len(t) = d /\ t[d] = ")"
               ELSE Len(t) > d + 1 /\ t[d] = "comma" /\ t[d + 1] = h.props[2].key

\* What an origin is made of
OriginIs(h) ==
    /\ h.type \in Word /\ h.name \in Word \cup {"empty"}
    /\ Len(h.props) \in Nat
    /\ \A i \in 1 .. Len(h.props) :
         h.props[i].key \in Word /\ h.props[i].value \in Kind

\* A written header is made of words and of values.
LEMMA HeaderIs ==
    ASSUME NEW h \in Header
    PROVE  OriginIs(h)
<1> DEFINE P == [key : Word, value : Kind]
<1>1. h.type \in Word /\ h.name \in Word \cup {"empty"} /\ h.props \in Seq(P)
  BY PropertiesTyped DEF Header
<1>2. Len(h.props) \in Nat /\ \A i \in 1 .. Len(h.props) : h.props[i] \in P
  <2> HIDE DEF P
  <2> QED
    BY <1>1, ElementOfSeq, LenProperties
<1> QED
  BY <1>1, <1>2 DEF OriginIs

\* The clause of properties, from its bracket on, with m tokens in the first property
ClauseIs(b, h, m) ==
    /\ b \in Seq(Token) /\ m = 2 + Width(h.props[1].value)
    /\ b[1] = "(" /\ b[2] = h.props[1].key /\ b[3] = "="
    /\ h.props[1].value # "ref" => b[4] = First(h.props[1].value)
    /\ h.props[1].value = "quoted" => b[5] = "id"
    /\ IF Len(h.props) = 1 THEN Len(b) = m + 2 /\ b[m + 2] = ")"
       ELSE /\ Len(b) \in Nat /\ Len(b) > m + 3
            /\ b[m + 2] = "comma" /\ b[m + 3] = h.props[2].key

LEMMA ClauseTextIs ==
    ASSUME NEW h \in Header, Len(h.props) > 0, NEW m, m = ValueEnd(h) - ClauseAt(h) - 1
    PROVE  ClauseIs(<<"(">> \o FlattenSeq(Pieces(h)) \o <<")">>, h, m)
<1> DEFINE q == Piece(h, 1)
           f == FlattenSeq(Pieces(h))
           p == h.props[1]
           x == <<"(">>
           y == <<")">>
<1>1. PICK g \in Seq(Token) :
        /\ f = q \o g
        /\ Len(h.props) = 1 => g = <<>>
        /\ Len(h.props) # 1 => Len(g) > 1 /\ g[1] = "comma" /\ g[2] = h.props[2].key
  BY PiecesAre
<1>2. /\ m \in {2, 3, 4} /\ m = 2 + Width(p.value)
      /\ (p.value # "ref" => m >= 3) /\ (p.value = "quoted" => m = 4)
  BY DEF ValueEnd, ClauseAt, Width
<1>3. /\ q \in Seq(Token) /\ Len(q) = m /\ q[1] = p.key /\ q[2] = "="
      /\ p.value # "ref" => q[3] = First(p.value)
      /\ p.value = "quoted" => q[4] = "id"
  <2>1. 1 \in 1 .. Len(h.props)
    BY HeaderIs DEF OriginIs
  <2>2. PieceAt(q, p, IF 1 = 1 THEN 0 ELSE 1)
    BY <2>1, PieceIs
  <2>3. PieceAt(q, p, 0)
    BY <2>2
  <2> HIDE DEF q, p
  <2> QED
    BY <1>2, <2>3 DEF PieceAt
<1>4. x \in Seq(Token) /\ Len(x) = 1 /\ x[1] = "(" /\ y \in Seq(Token) /\ Len(y) = 1 /\ y[1] = ")"
  <2>1. "(" \in Token /\ ")" \in Token
    BY DEF Token
  <2> QED
    BY <2>1
<1> HIDE DEF q, f, p, x, y
<1> DEFINE k == Len(g)
           u == x \o f
           b == u \o y
<1>5. k \in Nat /\ (Len(h.props) = 1 => k = 0) /\ (Len(h.props) # 1 => k > 1)
  BY <1>1, LenProperties
<1>6. JoinedAt(f, q, g, m, k)
  BY <1>1, <1>3, JoinAt
<1>7. f \in Seq(Token) /\ Len(f) = m + k
  BY <1>6 DEF JoinedAt
<1>8. JoinedAt(u, x, f, 1, m + k)
  <2>1. u = x \o f
    OBVIOUS
  <2> HIDE DEF u
  <2> QED
    BY <1>4, <1>7, <2>1, JoinAt
<1>9. u \in Seq(Token) /\ Len(u) = 1 + (m + k)
  BY <1>8 DEF JoinedAt
<1> HIDE DEF u
<1>10. JoinedAt(b, u, y, 1 + (m + k), 1)
  <2>1. b = u \o y
    OBVIOUS
  <2> HIDE DEF b
  <2> QED
    BY <1>4, <1>9, <2>1, JoinAt
<1> HIDE DEF b, k
<1>11. b \in Seq(Token) /\ Len(b) = m + k + 2
  BY <1>2, <1>5, <1>10 DEF JoinedAt
\* Place by place
<1>12. \A i \in 1 .. 1 + (m + k) : b[i] = u[i]
  BY <1>10 DEF JoinedAt
<1>13. b[1] = "("
  <2>1. 1 \in 1 .. 1 /\ 1 \in 1 .. 1 + (m + k)
    BY <1>2, <1>5
  <2> QED
    BY <1>4, <1>8, <1>12, <2>1 DEF JoinedAt
<1>14. \A i \in 1 .. m + k : b[i + 1] = f[i]
  <2> SUFFICES ASSUME NEW i \in 1 .. m + k PROVE b[i + 1] = f[i]
    OBVIOUS
  <2>1. i + 1 \in 1 .. 1 + (m + k) /\ 1 + i = i + 1
    BY <1>2, <1>5
  <2>2. u[1 + i] = f[i]
    BY <1>8 DEF JoinedAt
  <2> QED
    BY <1>12, <2>1, <2>2
<1>15. \A i \in 1 .. m : b[i + 1] = q[i]
  <2> SUFFICES ASSUME NEW i \in 1 .. m PROVE b[i + 1] = q[i]
    OBVIOUS
  <2>1. i \in 1 .. m + k
    BY <1>2, <1>5
  <2> QED
    BY <1>6, <1>14, <2>1 DEF JoinedAt
<1>16. /\ b[2] = p.key /\ b[3] = "="
       /\ p.value # "ref" => b[4] = First(p.value)
       /\ p.value = "quoted" => b[5] = "id"
  <2>1. /\ 1 \in 1 .. m /\ 2 \in 1 .. m /\ (m >= 3 => 3 \in 1 .. m) /\ (m = 4 => 4 \in 1 .. m)
        /\ 1 + 1 = 2 /\ 2 + 1 = 3 /\ 3 + 1 = 4 /\ 4 + 1 = 5
    BY <1>2
  <2> QED
    BY <1>2, <1>3, <1>15, <2>1
<1>17. \A i \in 1 .. k : b[m + 1 + i] = g[i]
  <2> SUFFICES ASSUME NEW i \in 1 .. k PROVE b[m + 1 + i] = g[i]
    OBVIOUS
  <2>1. m + i \in 1 .. m + k /\ m + i + 1 = m + 1 + i
    BY <1>2, <1>5
  <2> QED
    BY <1>6, <1>14, <2>1 DEF JoinedAt
<1>18. ASSUME Len(h.props) = 1 PROVE Len(b) = m + 2 /\ b[m + 2] = ")"
  <2>1. k = 0 /\ 1 + (m + k) + 1 = m + 2 /\ m + k + 2 = m + 2 /\ 1 \in 1 .. 1
    BY <1>2, <1>5, <1>18
  <2>2. b[1 + (m + k) + 1] = ")"
    BY <1>4, <1>10, <2>1 DEF JoinedAt
  <2> QED
    BY <1>11, <2>1, <2>2
<1>19. ASSUME Len(h.props) # 1
       PROVE  /\ Len(b) \in Nat /\ Len(b) > m + 3
              /\ b[m + 2] = "comma" /\ b[m + 3] = h.props[2].key
  <2>1. /\ 1 \in 1 .. k /\ 2 \in 1 .. k /\ m + 1 + 1 = m + 2 /\ m + 1 + 2 = m + 3
        /\ m + k + 2 > m + 3 /\ m + k + 2 \in Nat
    BY <1>2, <1>5, <1>19
  <2>2. b[m + 2] = "comma" /\ b[m + 3] = h.props[2].key
    BY <1>1, <1>17, <1>19, <2>1
  <2> QED
    BY <1>11, <2>1, <2>2
<1> QED
  <2>1. ClauseIs(b, h, m)
    BY <1>2, <1>11, <1>13, <1>16, <1>18, <1>19 DEF p, ClauseIs
  <2> QED
    BY <2>1 DEF b, u, x, f, y

\* What writeNodeHeader writes, token by token
LEMMA WrittenIsText ==
    ASSUME NEW h \in Header, NEW c, c = ClauseAt(h), NEW d, d = ValueEnd(h)
    PROVE  TextIs(WrittenHeader(h), h, c, d)
<1> DEFINE ty == <<h.type>>
           a == IF h.name = "empty" THEN <<>> ELSE <<"$", h.name>>
           b == IF h.props = <<>> THEN <<>> ELSE <<"(">> \o FlattenSeq(Pieces(h)) \o <<")">>
           w == ty \o a
           t == w \o b
           l == c - 2
<1>1. OriginIs(h)
  BY HeaderIs
<1>2. ty \in Seq(Token) /\ Len(ty) = 1 /\ ty[1] = h.type
  <2>1. h.type \in Token
    BY <1>1 DEF OriginIs, Word, Token
  <2> QED
    BY <2>1
<1>3. a \in Seq(Token) /\ Len(a) = l /\ (h.name # "empty" => a[1] = "$" /\ a[2] = h.name) /\ l \in {0, 2}
      /\ (h.name # "empty" <=> l = 2)
  <2>1. "$" \in Token /\ (h.name # "empty" => h.name \in Token)
    BY <1>1 DEF OriginIs, Word, Token
  <2>2. CASE h.name = "empty"
    BY <2>2 DEF ClauseAt
  <2>3. CASE h.name # "empty"
    BY <2>1, <2>3 DEF ClauseAt
  <2> QED
    BY <2>2, <2>3
<1>4. t = WrittenHeader(h)
  BY WrittenHeaderIs
<1>5. c = l + 2
  BY DEF ClauseAt
<1> HIDE DEF ty, a, b, l
<1>6. JoinedAt(w, ty, a, 1, l)
  <2>1. w = ty \o a
    OBVIOUS
  <2> HIDE DEF w
  <2> QED
    BY <1>2, <1>3, <2>1, JoinAt
<1>7. w \in Seq(Token) /\ Len(w) = c - 1
  BY <1>3, <1>5, <1>6 DEF JoinedAt
<1>8. w[1] = h.type /\ (h.name # "empty" => w[2] = "$" /\ w[3] = h.name)
  <2>1. 1 \in 1 .. 1 /\ (l = 2 => 1 \in 1 .. l /\ 2 \in 1 .. l) /\ 1 + 1 = 2 /\ 1 + 2 = 3
    OBVIOUS
  <2>2. w[1] = ty[1] /\ (l = 2 => w[2] = a[1] /\ w[3] = a[2])
    BY <1>6, <2>1 DEF JoinedAt
  <2> QED
    BY <1>2, <1>3, <2>2
<1> HIDE DEF w
<1>9. c \in {2, 4} /\ (h.name # "empty" => c = 4)
  BY <1>3, <1>5
<1>10. CASE Len(h.props) = 0
  <2>1. b = <<>>
    <3>1. h.props = <<>>
      BY <1>10, EmptySeq DEF Header
    <3> QED
      BY <3>1 DEF b
  <2>2. t = w
    BY <1>7, <2>1, ConcatEmptySeq
  <2> HIDE DEF t
  <2> QED
    BY <1>4, <1>7, <1>8, <1>9, <1>10, <2>2 DEF TextIs
<1>11. CASE Len(h.props) # 0
  <2>1. Len(h.props) > 0 /\ h.props # <<>>
    BY <1>1, <1>11 DEF OriginIs
  <2> DEFINE m == d - c - 1
  <2>2. ClauseIs(b, h, m)
    <3>1. m = ValueEnd(h) - ClauseAt(h) - 1
      OBVIOUS
    <3>2. b = <<"(">> \o FlattenSeq(Pieces(h)) \o <<")">>
      BY <2>1 DEF b
    <3> HIDE DEF m
    <3> QED
      BY <2>1, <3>1, <3>2, ClauseTextIs
  <2>3. d = c + m + 1
    BY DEF ValueEnd, ClauseAt
  <2> HIDE DEF m
  <2> DEFINE n == Len(b)
  <2> DEFINE v == h.props[1].value
  <2>0. m \in {2, 3, 4} /\ (v # "ref" => m >= 3) /\ (v = "quoted" => m = 4)
    BY <2>2 DEF ClauseIs, Width
  <2>4. n \in Nat /\ n >= m + 2 /\ n >= 4 /\ (m = 4 => n >= 5)
    BY <2>0, <2>2 DEF ClauseIs
  <2> HIDE DEF n
  <2>5. JoinedAt(t, w, b, c - 1, n)
    <3>1. t = w \o b
      OBVIOUS
    <3> HIDE DEF t
    <3> QED
      BY <1>7, <2>2, <3>1, JoinAt DEF n, ClauseIs
  <2> HIDE DEF t
  <2>6. t \in Seq(Token) /\ Len(t) = c - 1 + n /\ Len(t) \in Nat
    BY <1>9, <2>4, <2>5 DEF JoinedAt
  <2>7. \A i \in 1 .. c - 1 : t[i] = w[i]
    BY <2>5 DEF JoinedAt
  <2>8. \A i \in 1 .. n : t[c - 1 + i] = b[i]
    BY <2>5 DEF JoinedAt
  <2>9. t[1] = h.type /\ (h.name # "empty" => t[2] = "$" /\ t[3] = h.name)
    BY <1>8, <1>9, <2>7
  <2>10. t[c] = "(" /\ t[c + 1] = h.props[1].key /\ t[c + 2] = "="
    <3>1. 1 \in 1 .. n /\ 2 \in 1 .. n /\ 3 \in 1 .. n
      BY <2>4
    <3>2. c - 1 + 1 = c /\ c - 1 + 2 = c + 1 /\ c - 1 + 3 = c + 2
      BY <1>9
    <3> QED
      BY <2>2, <2>8, <3>1, <3>2 DEF ClauseIs
  <2>11. /\ v # "ref" => t[c + 3] = First(v)
         /\ v = "quoted" => t[c + 4] = "id"
    <3>1. 4 \in 1 .. n /\ c - 1 + 4 = c + 3 /\ (m = 4 => 5 \in 1 .. n) /\ c - 1 + 5 = c + 4
      BY <1>9, <2>4
    <3> QED
      BY <2>0, <2>2, <2>8, <3>1 DEF ClauseIs
  <2>12. m + 2 \in 1 .. n /\ c - 1 + (m + 2) = d
    BY <1>9, <2>0, <2>3, <2>4
  <2>13. CASE Len(h.props) = 1
    <3>1. n = m + 2 /\ t[d] = ")"
      BY <2>2, <2>8, <2>12, <2>13 DEF n, ClauseIs
    <3>2. Len(t) = d
      BY <2>6, <2>12, <3>1
    <3> QED
      BY <1>4, <1>11, <2>6, <2>9, <2>10, <2>11, <2>13, <3>1, <3>2 DEF TextIs
  <2>14. CASE Len(h.props) # 1
    <3>1. n > m + 3 /\ t[d] = "comma"
      BY <2>2, <2>8, <2>12, <2>14 DEF n, ClauseIs
    <3>2. m + 3 \in 1 .. n /\ c - 1 + (m + 3) = d + 1
      BY <1>9, <2>0, <2>4, <2>12, <3>1
    <3>3. t[d + 1] = h.props[2].key
      BY <2>2, <2>8, <2>14, <3>2 DEF ClauseIs
    <3>4. Len(t) > d + 1
      BY <1>9, <2>0, <2>4, <2>6, <2>12, <3>1
    <3> QED
      BY <1>4, <1>11, <2>6, <2>9, <2>10, <2>11, <2>14, <3>1, <3>3, <3>4 DEF TextIs
  <2> QED
    BY <2>13, <2>14
<1> QED
  BY <1>10, <1>11

\* A word under the cursor
LEMMA WordAt ==
    ASSUME text \in Seq(Token), NEW i \in 1 .. Len(text) + 1, At(i) \in Word
    PROVE  /\ Look(i) = i /\ i <= Len(text)
           /\ Identifier(i) = [of |-> At(i), next |-> i + 1]
<1>1. At(i) \notin Ends \cup Numeral \cup {"=."} /\ At(i) # "comma" /\ At(i) # "end"
  BY DEF Word, Ends, Numeral
<1>2. Look(i) = i
  BY <1>1, LookStays
<1>3. i <= Len(text)
  <2>1. Len(text) \in Nat /\ i \in Int
    BY LenProperties
  <2> QED
    BY <1>1, <2>1, AtIs
<1>4. /\ (CASE At(i) \in Numeral \cup {"end"} -> "null"
            [] At(i) \in Ends \ {"end"} -> "empty"
            [] OTHER -> At(i)) = At(i)
      /\ (IF At(i) \in Ends \cup Numeral THEN i
          ELSE IF At(i) = "=." /\ At(i + 1) \notin Ends THEN i + 2 ELSE i + 1) = i + 1
  BY <1>1
<1> QED
  BY <1>2, <1>3, <1>4 DEF Identifier

\* Where the tokens of a written header h stand, its clause at c and d behind the value
Marks(h, c, d) ==
    /\ text \in Seq(Token) /\ Len(text) \in Nat
    /\ c \in {2, 4} /\ d \in c + 3 .. c + 5
    /\ Identifier(1) = [of |-> h.type, next |-> 2] /\ Look(2) = 2
    /\ NameAt(2) = [of |-> IF h.name = "empty" THEN "null" ELSE h.name, next |-> c]
    /\ Look(c) = c
ClauseMarks(h, c, d) ==
    /\ At(c) = "(" /\ Look(c + 1) = c + 1 /\ c + 1 <= Len(text)
    /\ Identifier(c + 1) = [of |-> h.props[1].key, next |-> c + 2]
    /\ Look(c + 2) = c + 2 /\ At(c + 2) = "=" /\ text[c + 2] = "="
    /\ d = c + 3 + Width(h.props[1].value)
    /\ h.props[1].value # "ref" =>
         c + 3 <= Len(text) /\ Look(c + 3) = c + 3 /\ At(c + 3) = First(h.props[1].value)
    /\ h.props[1].value = "quoted" => Look(c + 4) = c + 4 /\ At(c + 4) = "id"
    /\ IF Len(h.props) = 1 THEN d = Len(text) /\ Look(d) = d /\ At(d) = ")"
       ELSE /\ d + 1 <= Len(text) /\ Look(d) = d + 1 /\ Look(d + 1) = d + 1
            /\ At(d) = "comma" /\ At(d + 1) \in Word

\* What the parser's helpers find at each place of a text that was written
LEMMA ClauseIsMarked ==
    ASSUME NEW h \in Header, Len(h.props) > 0, NEW c, c = ClauseAt(h), NEW d, d = ValueEnd(h),
           text = WrittenHeader(h)
    PROVE  ClauseMarks(h, c, d)
<1> DEFINE n == Len(text)
           p == h.props[1]
<1>1. TextIs(text, h, c, d)
  BY WrittenIsText
<1>2. OriginIs(h)
  BY HeaderIs
<1>3. /\ c \in {2, 4} /\ d = c + 3 + Width(p.value) /\ Width(p.value) \in 0 .. 2
      /\ (p.value = "quoted" => d = c + 5)
      /\ text \in Seq(Token) /\ n \in Nat
  BY <1>1 DEF ClauseAt, ValueEnd, TextIs, Width
<1>4. p.key \in Word /\ p.value \in Kind
  BY <1>2 DEF OriginIs
<1>5. Len(h.props) # 1 => h.props[2].key \in Word
  <2>1. Len(h.props) # 1 => 2 \in 1 .. Len(h.props)
    <3> DEFINE l == Len(h.props)
    <3>1. l \in Nat /\ l > 0
      BY <1>2 DEF OriginIs
    <3> HIDE DEF l
    <3>2. l # 1 => 2 \in 1 .. l
      BY <3>1
    <3> QED
      BY <3>2 DEF l
  <2> QED
    BY <1>2, <2>1 DEF OriginIs
<1>6. /\ text[c] = "(" /\ text[c + 1] = p.key /\ text[c + 2] = "="
      /\ p.value # "ref" => text[c + 3] = First(p.value)
      /\ p.value = "quoted" => text[c + 4] = "id"
      /\ Len(h.props) = 1 => n = d /\ text[d] = ")"
      /\ Len(h.props) # 1 => n > d + 1 /\ text[d] = "comma" /\ text[d + 1] = h.props[2].key
  BY <1>1 DEF TextIs
<1> HIDE DEF p, n
<1>7. /\ n >= d /\ c + 1 <= n /\ c + 2 <= n /\ c + 3 <= n /\ (Len(h.props) # 1 => d + 1 <= n)
      /\ d \in c + 3 .. c + 5 /\ (p.value = "quoted" => c + 4 <= n)
  BY <1>3, <1>6
<1>8. \A i \in 1 .. n : At(i) = text[i]
  <2>1. \A i \in 1 .. n : i \in Int
    OBVIOUS
  <2> QED
    BY <1>3, <2>1, AtIs DEF n
<1>9. /\ At(c) = "(" /\ At(c + 1) = p.key /\ At(c + 2) = "="
      /\ p.value # "ref" => At(c + 3) = First(p.value)
      /\ p.value = "quoted" => At(c + 4) = "id"
      /\ Len(h.props) = 1 => At(d) = ")"
      /\ Len(h.props) # 1 => At(d) = "comma" /\ At(d + 1) \in Word
  <2>1. c \in 1 .. n /\ c + 1 \in 1 .. n /\ c + 2 \in 1 .. n /\ c + 3 \in 1 .. n /\ d \in 1 .. n
        /\ (Len(h.props) # 1 => d + 1 \in 1 .. n) /\ (p.value = "quoted" => c + 4 \in 1 .. n)
    BY <1>3, <1>7
  <2> QED
    BY <1>5, <1>6, <1>8, <2>1
<1>10. \A i \in 1 .. n : At(i) # "comma" => Look(i) = i
  <2>1. \A i \in 1 .. n : i \in 1 .. Len(text) + 1
    BY <1>3 DEF n
  <2> QED
    BY <1>3, <2>1, LookStays
<1>11. Look(c + 1) = c + 1 /\ Identifier(c + 1) = [of |-> p.key, next |-> c + 2]
  <2>1. c + 1 \in 1 .. Len(text) + 1 /\ At(c + 1) \in Word /\ (c + 1) + 1 = c + 2
    BY <1>3, <1>4, <1>7, <1>9 DEF n
  <2> DEFINE i == c + 1
  <2> HIDE DEF i
  <2>2. Look(i) = i /\ Identifier(i) = [of |-> At(i), next |-> i + 1]
    BY <1>3, <2>1, WordAt DEF i
  <2> QED
    BY <1>9, <2>1, <2>2 DEF i
<1>12. Look(c + 2) = c + 2
  <2>1. c + 2 \in 1 .. n
    BY <1>3, <1>7
  <2> QED
    BY <1>9, <1>10, <2>1
<1>13. /\ p.value # "ref" => Look(c + 3) = c + 3
       /\ p.value = "quoted" => Look(c + 4) = c + 4
  <2>1. c + 3 \in 1 .. n /\ (p.value = "quoted" => c + 4 \in 1 .. n)
    BY <1>3, <1>7
  <2>2. p.value # "ref" => At(c + 3) # "comma"
    BY <1>4, <1>9 DEF First, Kind
  <2>3. p.value = "quoted" => At(c + 4) # "comma"
    BY <1>9
  <2> QED
    BY <1>10, <2>1, <2>2, <2>3
<1>14. Len(h.props) = 1 => Look(d) = d
  <2>1. d \in 1 .. n
    BY <1>3, <1>7
  <2> QED
    BY <1>9, <1>10, <2>1
<1>15. Len(h.props) # 1 => Look(d + 1) = d + 1 /\ Look(d) = d + 1
  <2> SUFFICES ASSUME Len(h.props) # 1 PROVE Look(d + 1) = d + 1 /\ Look(d) = d + 1
    OBVIOUS
  <2>1. d + 1 \in 1 .. n /\ d \in 1 .. Len(text) + 1
    BY <1>3, <1>7 DEF n
  <2>2. At(d + 1) # "comma" /\ At(d) = "comma"
    BY <1>9 DEF Word
  <2>3. Look(d + 1) = d + 1
    BY <1>10, <2>1, <2>2
  <2> DEFINE l == Look(d)
  <2>4. l \in d .. Len(text) + 1 /\ At(l) # "comma" /\ \A j \in d .. l - 1 : At(j) = "comma"
    BY <1>3, <2>1, LookIs
  <2> HIDE DEF l
  <2>5. l # d
    BY <2>2, <2>4
  <2>6. l > d + 1 => d + 1 \in d .. l - 1
    BY <1>3, <2>1, <2>4
  <2>7. l = d + 1
    BY <1>3, <2>1, <2>2, <2>4, <2>5, <2>6
  <2> QED
    BY <2>3, <2>7 DEF l
<1> QED
  <2>1. /\ d = c + 3 + Width(p.value)
        /\ p.value # "ref" => c + 3 <= n /\ Look(c + 3) = c + 3 /\ At(c + 3) = First(p.value)
        /\ p.value = "quoted" => Look(c + 4) = c + 4 /\ At(c + 4) = "id"
    BY <1>3, <1>7, <1>9, <1>13
  <2>2. IF Len(h.props) = 1 THEN d = n /\ Look(d) = d /\ At(d) = ")"
        ELSE /\ d + 1 <= n /\ Look(d) = d + 1 /\ Look(d + 1) = d + 1
             /\ At(d) = "comma" /\ At(d + 1) \in Word
    BY <1>6, <1>7, <1>9, <1>14, <1>15
  <2> QED
    BY <1>6, <1>7, <1>9, <1>11, <1>12, <2>1, <2>2 DEF ClauseMarks, n, p

LEMMA HeaderIsMarked ==
    ASSUME NEW h \in Header, NEW c, c = ClauseAt(h), NEW d, d = ValueEnd(h),
           text = WrittenHeader(h)
    PROVE  Marks(h, c, d) /\ (Len(h.props) = 0 => At(c) = "end" /\ c = Len(text) + 1)
<1> DEFINE n == Len(text)
<1>1. TextIs(text, h, c, d)
  BY WrittenIsText
<1>2. OriginIs(h)
  BY HeaderIs
<1>3. /\ (h.name = "empty" => c = 2) /\ (h.name # "empty" => c = 4)
      /\ d \in c + 3 .. c + 5 /\ text \in Seq(Token) /\ n \in Nat
  BY <1>1 DEF ClauseAt, ValueEnd, TextIs, Width
<1>4. h.type \in Word /\ (h.name # "empty" => h.name \in Word) /\ Len(h.props) \in Nat
  BY <1>2 DEF OriginIs
<1>5. /\ text[1] = h.type
      /\ h.name # "empty" => text[2] = "$" /\ text[3] = h.name
      /\ Len(h.props) = 0 => n = c - 1
      /\ Len(h.props) # 0 => text[c] = "(" /\ n >= d
  <2>1. Len(h.props) # 0 => text[c] = "("
    BY <1>1 DEF TextIs
  <2>2. Len(h.props) # 0 => n = d \/ n > d + 1
    BY <1>1 DEF TextIs
  <2>3. Len(h.props) # 0 => n >= d
    BY <1>3, <2>2
  <2> QED
    BY <1>1, <2>1, <2>3 DEF TextIs
<1> HIDE DEF n
<1>6. n >= c - 1 /\ n >= 1 /\ (Len(h.props) # 0 => c <= n)
  BY <1>3, <1>4, <1>5
<1>7. \A i \in 1 .. n : At(i) = text[i]
  <2>1. \A i \in 1 .. n : i \in Int
    OBVIOUS
  <2> QED
    BY <1>3, <2>1, AtIs DEF n
<1>8. At(1) = h.type /\ (h.name # "empty" => At(2) = "$" /\ At(3) = h.name)
  <2>1. 1 \in 1 .. n /\ (h.name # "empty" => 2 \in 1 .. n /\ 3 \in 1 .. n)
    BY <1>3, <1>6
  <2> QED
    BY <1>5, <1>7, <2>1
<1>9. (Len(h.props) # 0 => At(c) = "(") /\ (Len(h.props) = 0 => At(c) = "end" /\ c = n + 1)
  <2>1. Len(h.props) # 0 => c \in 1 .. n
    BY <1>3, <1>6
  <2>2. Len(h.props) = 0 => c = n + 1 /\ c \notin 1 .. n /\ c \in Int
    BY <1>3, <1>5
  <2>3. Len(h.props) = 0 => At(c) = "end"
    BY <1>3, <2>2, AtIs DEF n
  <2> QED
    BY <1>5, <1>7, <2>1, <2>2, <2>3
<1>10. c \in 1 .. Len(text) + 1
  BY <1>3, <1>6 DEF n
<1>11. Look(c) = c
  BY <1>3, <1>9, <1>10, LookStays
<1>12. Identifier(1) = [of |-> h.type, next |-> 2]
  <2>1. 1 \in 1 .. Len(text) + 1 /\ At(1) \in Word /\ 1 + 1 = 2
    BY <1>3, <1>4, <1>8 DEF n
  <2>2. Identifier(1) = [of |-> At(1), next |-> 1 + 1]
    BY <1>3, <2>1, WordAt
  <2> QED
    BY <1>8, <2>1, <2>2
<1>13. CASE h.name = "empty"
  <2>1. c = 2 /\ At(2) # "$"
    BY <1>3, <1>9, <1>13
  <2>2. Look(2) = 2
    BY <1>11, <2>1
  <2>3. NameAt(2) = [of |-> "null", next |-> 2]
    BY <2>1, <2>2 DEF NameAt
  <2> QED
    BY <1>3, <1>9, <1>11, <1>12, <1>13, <2>1, <2>2, <2>3 DEF Marks, n
<1>14. CASE h.name # "empty"
  <2>1. c = 4 /\ At(2) = "$" /\ 2 \in 1 .. Len(text) + 1 /\ 3 \in 1 .. Len(text) + 1
    BY <1>3, <1>6, <1>8, <1>14 DEF n
  <2>2. Look(2) = 2
    BY <1>3, <2>1, LookStays
  <2>3. At(3) \in Word
    BY <1>4, <1>8, <1>14
  <2>4. Identifier(3) = [of |-> At(3), next |-> 3 + 1]
    BY <1>3, <2>1, <2>3, WordAt
  <2>5. NameAt(2) = Identifier(3)
    <3>1. 2 + 1 = 3
      OBVIOUS
    <3> QED
      BY <2>1, <2>2, <3>1 DEF NameAt
  <2>6. NameAt(2) = [of |-> h.name, next |-> 4]
    BY <1>8, <1>14, <2>4, <2>5
  <2> QED
    BY <1>3, <1>9, <1>11, <1>12, <1>14, <2>1, <2>2, <2>6 DEF Marks, n
<1> QED
  BY <1>13, <1>14

\* What the text has in store for a header that was written
InStore(h) ==
    /\ OriginIs(h)
    /\ Marks(h, ClauseAt(h), ValueEnd(h))
    /\ Len(h.props) = 0 => At(ClauseAt(h)) = "end" /\ ClauseAt(h) = Len(text) + 1
    /\ Len(h.props) # 0 => ClauseMarks(h, ClauseAt(h), ValueEnd(h))

LEMMA BackReads ==
    ASSUME BackInv, origin # Null
    PROVE  InStore(origin) /\ Cursors(origin) /\ NodeRead(origin) /\ ObjectsRead(origin)
<1>1. /\ origin \in Header /\ text = WrittenHeader(origin)
      /\ Cursors(origin) /\ NodeRead(origin) /\ ObjectsRead(origin)
  BY HeadersAssumption DEF BackInv
<1> DEFINE h == origin
           c == ClauseAt(h)
           d == ValueEnd(h)
<1>2. OriginIs(h)
  BY <1>1, HeaderIs
<1>3. Marks(h, c, d) /\ (Len(h.props) = 0 => At(c) = "end" /\ c = Len(text) + 1)
  BY <1>1, HeaderIsMarked
<1>4. Len(h.props) # 0 => ClauseMarks(h, c, d)
  <2>1. Len(h.props) # 0 => Len(h.props) > 0
    BY <1>2 DEF OriginIs
  <2> QED
    BY <1>1, <2>1, ClauseIsMarked
<1> QED
  BY <1>1, <1>2, <1>3, <1>4 DEF InStore

\* The invariant, from its parts behind a step
LEMMA BackHolds ==
    ASSUME BackInv, UNCHANGED <<text, origin>>,
           Cursors(origin)', NodeRead(origin)', ObjectsRead(origin)'
    PROVE  BackInv'
<1>1. origin # Null => origin' \in Headers /\ text' = WrittenHeader(origin')
  <2>1. origin # Null => origin \in Headers /\ text = WrittenHeader(origin)
    BY DEF BackInv
  <2> QED
    BY <2>1
<1> QED
  BY <1>1 DEF BackInv

\* A text nothing wrote stays one.
LEMMA NotWritten ==
    ASSUME origin = Null, UNCHANGED origin
    PROVE  BackInv'
  BY DEF BackInv

LEMMA OriginStays == NextHeader => UNCHANGED <<text, origin>>
  BY DEF NextHeader, Step, ReadType, ReadName, OpenClause, ReadKey, ReadValue, ReadPastEnd,
         ReadReference, MakeReference, BehindProperty, SetRef, DeleteNode, DeleteValue,
         Goto, cursor

LEMMA InitBack == InitHeader => BackInv
<1> SUFFICES ASSUME InitHeader, origin # Null PROVE BackInv
  BY DEF BackInv
<1>1. /\ origin \in Headers /\ text = WrittenHeader(origin)
      /\ in = 1 /\ reading = "id" /\ node = NoNode /\ key = Null /\ names = <<>>
      /\ prop = Null /\ copy = Null /\ heap = <<>> /\ live = {}
  BY DEF InitHeader
<1>2. Cursors(origin)
  BY <1>1 DEF Cursors
<1>3. NodeRead(origin)
  BY <1>1 DEF NodeRead
<1>4. ObjectsRead(origin)
  BY <1>1 DEF ObjectsRead, BeforeKey
<1> QED
  BY <1>1, <1>2, <1>3, <1>4 DEF BackInv

\* Each step of the parser takes the part of the written header that is next.
LEMMA TypeBack ==
    ASSUME BackInv, ReadType, origin # Null
    PROVE  BackInv'
<1>1. /\ InStore(origin) /\ reading = "id" /\ in = 1 /\ node = NoNode
      /\ names = <<>> /\ copy = Null /\ BeforeKey
  BY BackReads DEF ReadType, Cursors, NodeRead, ObjectsRead
<1>2. Identifier(1) = [of |-> origin.type, next |-> 2] /\ Look(2) = 2 /\ origin.type \in Word
  BY <1>1 DEF InStore, Marks, OriginIs
<1>3. origin.type \notin {"null", "empty"}
  BY <1>2 DEF Word
<1>4. /\ reading' = "name" /\ in' = 2 /\ UNCHANGED <<text, origin, key, names, prop, copy, heap, live>>
      /\ node' = [node EXCEPT !.made = TRUE, !.type = origin.type]
  <2>1. Identifier(in).of = origin.type /\ Look(Identifier(in).next) = 2
    BY <1>1, <1>2
  <2> DEFINE of == Identifier(in).of
             j == Look(Identifier(in).next)
  <2>2. /\ of \notin {"null", "empty"} /\ of = origin.type /\ j = 2
    BY <1>3, <2>1
  <2>3. /\ of # "null" => /\ reading' = "name" /\ in' = j
                         /\ UNCHANGED <<text, origin, key, names, prop, copy, heap, live>>
                         /\ node' = IF of = "empty" THEN node
                                    ELSE [node EXCEPT !.made = TRUE, !.type = of]
    BY DEF ReadType, Goto, locals
  <2> HIDE DEF of, j
  <2> QED
    BY <2>2, <2>3
<1>5. node' = [made |-> TRUE, type |-> origin'.type, name |-> "empty", props |-> Null]
  BY <1>1, <1>4 DEF NoNode
<1>6. Cursors(origin)'
  BY <1>4 DEF Cursors
<1>7. NodeRead(origin)'
  BY <1>4, <1>5 DEF NodeRead
<1>8. ObjectsRead(origin)'
  BY <1>1, <1>4 DEF ObjectsRead, BeforeKey
<1> QED
  BY <1>4, <1>6, <1>7, <1>8, BackHolds

LEMMA NameBack ==
    ASSUME BackInv, ReadName, origin # Null
    PROVE  BackInv'
<1> DEFINE c == ClauseAt(origin)
<1>1. /\ InStore(origin) /\ reading = "name" /\ in = 2
      /\ node = [made |-> TRUE, type |-> origin.type, name |-> "empty", props |-> Null]
      /\ names = <<>> /\ copy = Null /\ BeforeKey
  BY BackReads DEF ReadName, Cursors, NodeRead, ObjectsRead
<1>2. /\ NameAt(2) = [of |-> IF origin.name = "empty" THEN "null" ELSE origin.name, next |-> c]
      /\ Look(c) = c /\ origin.name \in Word \cup {"empty"}
  BY <1>1 DEF InStore, Marks, OriginIs
<1>3. origin.name # "null"
  BY <1>2 DEF Word
<1> HIDE DEF c
<1>4. reading' = "clause" /\ in' = c /\ UNCHANGED <<text, origin, key, names, prop, copy>>
  BY <1>1, <1>2 DEF ReadName, Goto, locals
<1>5. /\ UNCHANGED <<heap, live>>
      /\ node' = [made |-> TRUE, type |-> origin'.type, name |-> origin'.name, props |-> Null]
  <2>1. CASE origin.name = "empty"
    <3>1. NameAt(in).of = "null"
      BY <1>1, <1>2, <2>1
    <3>2. UNCHANGED <<node, heap, live>>
      BY <3>1 DEF ReadName
    <3> QED
      BY <1>1, <1>4, <2>1, <3>2
  <2>2. CASE origin.name # "empty"
    <3>1. NameAt(in).of = origin.name /\ NameTaken(origin.name)
      BY <1>1, <1>2, <2>2 DEF NameTaken
    <3>2. node' = [node EXCEPT !.name = origin.name] /\ UNCHANGED <<heap, live>>
      BY <1>3, <3>1 DEF ReadName
    <3> QED
      BY <1>1, <1>4, <3>2
  <2> QED
    BY <2>1, <2>2
<1>6. Cursors(origin)'
  BY <1>4 DEF Cursors, c
<1>7. NodeRead(origin)'
  BY <1>4, <1>5 DEF NodeRead
<1>8. ObjectsRead(origin)'
  BY <1>1, <1>4, <1>5 DEF ObjectsRead, BeforeKey
<1> QED
  BY <1>4, <1>6, <1>7, <1>8, BackHolds

LEMMA ClauseBack ==
    ASSUME BackInv, OpenClause, origin # Null
    PROVE  BackInv'
<1> DEFINE c == ClauseAt(origin)
           d == ValueEnd(origin)
<1>1. /\ InStore(origin) /\ reading = "clause" /\ in = c
      /\ node = [made |-> TRUE, type |-> origin.type, name |-> origin.name, props |-> Null]
      /\ names = <<>> /\ copy = Null /\ BeforeKey
  BY BackReads DEF OpenClause, Cursors, NodeRead, ObjectsRead
<1>2. /\ Len(origin.props) \in Nat
      /\ Len(origin.props) = 0 => At(c) = "end" /\ c = Len(text) + 1
      /\ Len(origin.props) # 0 => At(c) = "(" /\ Look(c + 1) = c + 1 /\ c + 1 <= Len(text)
  BY <1>1 DEF InStore, OriginIs, ClauseMarks
<1> HIDE DEF c, d
<1>3. UNCHANGED <<text, origin, node, key, names, prop, copy, heap, live>>
  BY DEF OpenClause, Goto, locals
<1>4. NodeRead(origin)'
  <2>1. node' = [made |-> TRUE, type |-> origin'.type, name |-> origin'.name, props |-> Null]
    BY <1>1, <1>3
  <2>2. reading' \in {"key", "done"}
    BY DEF OpenClause, Goto
  <2> QED
    BY <2>1, <2>2 DEF NodeRead
<1>5. CASE Len(origin.props) = 0
  <2>1. reading' = "done" /\ in' = c /\ c = Len(text) + 1
    BY <1>1, <1>2, <1>5 DEF OpenClause, Goto
  <2>2. Cursors(origin)'
    <3>1. ~IsRefused(origin')
      BY <1>3, <1>5 DEF IsRefused
    <3> QED
      BY <1>3, <1>5, <2>1, <3>1 DEF Cursors
  <2>3. ObjectsRead(origin)'
    BY <1>1, <1>3, <1>5, <2>1 DEF ObjectsRead, BeforeKey
  <2> QED
    BY <1>3, <1>4, <2>2, <2>3, BackHolds
<1>6. CASE Len(origin.props) # 0
  <2>1. reading' = "key" /\ in' = c + 1
    BY <1>1, <1>2, <1>6 DEF OpenClause, Goto
  <2>2. Cursors(origin)'
    BY <1>2, <1>3, <1>6, <2>1 DEF Cursors, c
  <2>3. ObjectsRead(origin)'
    BY <1>1, <1>3, <2>1 DEF ObjectsRead, BeforeKey
  <2> QED
    BY <1>3, <1>4, <2>2, <2>3, BackHolds
<1> QED
  BY <1>5, <1>6

\* Short sequences, joined
LEMMA JoinsShort ==
    /\ \A x : <<>> \o <<x>> = <<x>> /\ Len(<<x>>) = 1 /\ Len(<<>>) = 0
    /\ \A x, y, z : <<x>> \o <<y, z>> = <<x, y, z>> /\ Len(<<x, y, z>>) = 3
<1>1. \A x : <<>> \o <<x>> = <<x>> /\ Len(<<x>>) = 1 /\ Len(<<>>) = 0
  <2> SUFFICES ASSUME NEW x PROVE <<>> \o <<x>> = <<x>> /\ Len(<<x>>) = 1 /\ Len(<<>>) = 0
    OBVIOUS
  <2> DEFINE s == <<x>>
  <2>1. s \in Seq({x}) /\ Len(s) = 1
    OBVIOUS
  <2> HIDE DEF s
  <2>2. <<>> \o s = s
    BY <2>1, ConcatEmptySeq
  <2> QED
    BY <2>1, <2>2 DEF s
<1>2. ASSUME NEW x, NEW y, NEW z PROVE <<x>> \o <<y, z>> = <<x, y, z>> /\ Len(<<x, y, z>>) = 3
  <2> DEFINE a == <<x>>
             b == <<y, z>>
             c == <<x, y, z>>
             S == {x, y, z}
  <2>1. /\ a \in Seq(S) /\ Len(a) = 1 /\ a[1] = x
        /\ b \in Seq(S) /\ Len(b) = 2 /\ b[1] = y /\ b[2] = z
        /\ c \in Seq(S) /\ Len(c) = 3 /\ c[1] = x /\ c[2] = y /\ c[3] = z
    OBVIOUS
  <2> HIDE DEF a, b, c, S
  <2> DEFINE u == a \o b
  <2>2. /\ u \in Seq(S) /\ Len(u) = Len(a) + Len(b)
        /\ \A i \in 1 .. Len(a) + Len(b) : u[i] = IF i <= Len(a) THEN a[i] ELSE b[i - Len(a)]
    BY <2>1, ConcatProperties
  <2> HIDE DEF u
  <2>3. Len(u) = 3 /\ u[1] = x /\ u[2] = y /\ u[3] = z
    BY <2>1, <2>2
  <2>4. \A i \in 1 .. 3 : i = 1 \/ i = 2 \/ i = 3
    OBVIOUS
  <2>5. \A i \in 1 .. 3 : u[i] = c[i]
    BY <2>1, <2>3, <2>4
  <2>6. u = c
    BY <2>1, <2>2, <2>3, <2>5, SeqEqual
  <2> QED
    BY <2>1, <2>6 DEF u, a, b, c
<1> QED
  BY <1>1, <1>2

LEMMA KeyBack ==
    ASSUME BackInv, ReadKey, origin # Null
    PROVE  BackInv'
<1> DEFINE c == ClauseAt(origin)
           d == ValueEnd(origin)
           x == Object("Text", origin.props[1].key, <<>>)
<1>1. /\ InStore(origin) /\ reading = "key" /\ in = c + 1 /\ Len(origin.props) > 0
      /\ node = [made |-> TRUE, type |-> origin.type, name |-> origin.name, props |-> Null]
      /\ names = <<>> /\ copy = Null /\ BeforeKey
  BY BackReads DEF ReadKey, Cursors, NodeRead, ObjectsRead
<1>2. /\ Identifier(c + 1) = [of |-> origin.props[1].key, next |-> c + 2]
      /\ Look(c + 2) = c + 2 /\ At(c + 2) = "=" /\ origin.props[1].key \in Word
      /\ c \in {2, 4}
  <2>1. 1 \in 1 .. Len(origin.props) /\ Len(origin.props) # 0
    BY <1>1 DEF InStore, OriginIs
  <2> QED
    BY <1>1, <2>1 DEF InStore, OriginIs, Marks, ClauseMarks
<1>3. origin.props[1].key # "null"
  BY <1>2 DEF Word
<1> HIDE DEF c, d
<1>4. /\ Identifier(in).of = origin.props[1].key /\ Identifier(in).of # "null"
      /\ Look(Identifier(in).next) = c + 2 /\ At(Look(Identifier(in).next)) = "="
  BY <1>1, <1>2, <1>3
<1>5. /\ reading' = "value" /\ in' = c + 3
      /\ UNCHANGED <<text, origin, node, names, prop, copy>>
  <2>1. Goto("value", Look(Identifier(in).next) + 1) /\ UNCHANGED <<node, names, prop, copy>>
    BY <1>4 DEF ReadKey
  <2>2. (c + 2) + 1 = c + 3
    BY <1>2
  <2> QED
    BY <1>4, <2>1, <2>2 DEF Goto
<1>6. heap' = <<x>> /\ live' = {1} /\ key' = 1
  <2>1. NewBeside(live, <<Object("Text", Identifier(in).of, <<>>)>>) /\ key' = Newest
    BY <1>4 DEF ReadKey, New
  <2>2. NewBeside({}, <<x>>) /\ heap = <<>>
    BY <1>1, <1>4, <2>1 DEF BeforeKey
  <2> HIDE DEF x
  <2>3. heap' = <<x>> /\ Len(heap) = 0 /\ Len(heap') = 1
    BY <2>2, JoinsShort DEF NewBeside
  <2>4. live' = (1 .. 1) /\ key' = 1
    BY <2>1, <2>2, <2>3 DEF NewBeside, Newest
  <2>5. 1 .. 1 = {1}
    OBVIOUS
  <2> QED
    BY <2>3, <2>4, <2>5
<1>7. Cursors(origin)'
  BY <1>1, <1>5 DEF Cursors, c
<1>8. NodeRead(origin)'
  BY <1>1, <1>5 DEF NodeRead
<1>9. ObjectsRead(origin)'
  <2>1. BehindKey(origin)'
    BY <1>1, <1>5, <1>6 DEF BehindKey, BeforeKey, KeyObjects
  <2> QED
    BY <1>1, <1>5, <2>1 DEF ObjectsRead
<1> QED
  BY <1>5, <1>7, <1>8, <1>9, BackHolds

\* The value of a written property is read whole
LEMMA ValueInStore ==
    ASSUME BackInv, origin # Null, reading = "value"
    PROVE  /\ ~Dropped /\ ValueAt = Look(in) /\ ValueAt <= Len(text)
           /\ IF NoLiteral(origin) THEN LiteralRead = "none"
              ELSE IF Readable(origin.props[1])
              THEN LiteralRead = ValueOf[origin.props[1].value] /\ LiteralRead \notin {"none", "null"}
              ELSE IF origin.props[1].value = "neg" THEN LiteralRead = "null"
              ELSE LiteralRead \notin {"none", "null"}
<1> DEFINE c == ClauseAt(origin)
           d == ValueEnd(origin)
           p == origin.props[1]
<1>1. /\ InStore(origin) /\ in = c + 3 /\ Len(origin.props) > 0
  BY BackReads DEF Cursors
<1>2. /\ p.value \in Kind /\ c \in {2, 4} /\ ClauseMarks(origin, c, d)
      /\ Len(text) \in Nat
  <2>1. 1 \in 1 .. Len(origin.props) /\ Len(origin.props) # 0
    BY <1>1 DEF InStore, OriginIs
  <2> QED
    BY <1>1, <2>1 DEF InStore, OriginIs, Marks
<1>3. /\ text[c + 2] = "="
      /\ p.value = "ref" => d = c + 3
      /\ p.value # "ref" =>
           c + 3 <= Len(text) /\ Look(c + 3) = c + 3 /\ At(c + 3) = First(p.value)
      /\ IF Len(origin.props) = 1 THEN d = Len(text) /\ Look(d) = d /\ At(d) = ")"
         ELSE d + 1 <= Len(text) /\ Look(d) = d + 1 /\ At(d + 1) \in Word
  BY <1>2 DEF ClauseMarks, Width
<1> HIDE DEF c, d, p
<1>4. ~Dropped
  <2>1. in - 1 = c + 2
    BY <1>1, <1>2
  <2> QED
    BY <1>3, <2>1 DEF Dropped
<1>5. ValueAt = Look(in)
  BY <1>4 DEF ValueAt
<1>6. CASE p.value = "ref"
  <2>1. in = d
    BY <1>1, <1>3, <1>6
  <2>2. ValueAt <= Len(text) /\ At(ValueAt) \in Word \cup {")"}
    BY <1>2, <1>3, <1>5, <2>1
  <2>3. LiteralRead = "none"
    BY <2>2 DEF LiteralRead, Word
  <2> QED
    BY <1>4, <1>5, <1>6, <2>2, <2>3 DEF p, NoLiteral
<1>7. CASE p.value # "ref"
  <2>1. ValueAt <= Len(text) /\ At(ValueAt) = First(p.value)
    BY <1>1, <1>3, <1>5, <1>7
  <2>2. CASE p.value = "neg"
    <3>1. LiteralRead = "null"
      BY <1>4, <2>1, <2>2 DEF LiteralRead, First
    <3> QED
      BY <1>4, <1>5, <2>1, <2>2, <3>1 DEF Readable, Skipped, NoLiteral, p
  <2>3. CASE p.value \in {"exp", "bool"}
    <3>1. LiteralRead = "none"
      BY <1>4, <2>1, <2>3 DEF LiteralRead, First
    <3> QED
      BY <1>4, <1>5, <2>1, <2>3, <3>1 DEF NoLiteral, p
  <2>4. CASE p.value = "quoted"
    <3>1. LiteralRead = "abc"
      BY <1>4, <2>1, <2>4 DEF LiteralRead, First
    <3> QED
      BY <1>4, <1>5, <2>1, <2>4, <3>1 DEF Readable, Refused, NoLiteral, p
  <2>5. CASE p.value \in {"num", "whole", "real", "str"}
    <3>1. LiteralRead = ValueOf[p.value] /\ LiteralRead \notin {"none", "null"}
      BY <1>4, <2>1, <2>5 DEF LiteralRead, ValueOf, First
    <3>2. ~NoLiteral(origin) /\ Readable(p)
      BY <2>5 DEF Readable, Skipped, Refused, NoLiteral, p
    <3> QED
      BY <1>4, <1>5, <2>1, <3>1, <3>2 DEF p
  <2> QED
    BY <1>2, <1>7, <2>2, <2>3, <2>4, <2>5 DEF Kind
<1> QED
  BY <1>6, <1>7

\* A written header never ends behind an equals sign.
LEMMA PastEndBack ==
    ASSUME BackInv, ReadPastEnd, origin # Null
    PROVE  FALSE
<1>1. reading = "value" /\ ValueAt > Len(text)
  BY DEF ReadPastEnd
<1>2. ValueAt <= Len(text) /\ ValueAt = Look(in)
  BY <1>1, ValueInStore
<1>3. ValueAt \in Int /\ Len(text) \in Int
  <2> DEFINE c == ClauseAt(origin)
  <2>1. /\ InStore(origin) /\ in = c + 3 /\ Len(origin.props) > 0
    BY <1>1, BackReads DEF Cursors
  <2>2. Len(origin.props) # 0
    BY <2>1 DEF InStore, OriginIs
  <2>3. ClauseMarks(origin, c, ValueEnd(origin)) /\ Marks(origin, c, ValueEnd(origin))
    BY <2>1, <2>2 DEF InStore
  <2> DEFINE v == origin.props[1].value
             d == ValueEnd(origin)
  <2>4. Look(c + 3) \in Int /\ Len(text) \in Nat
    <3>1. c \in {2, 4} /\ d = c + 3 + Width(v) /\ Len(text) \in Nat
      BY <2>3 DEF ClauseMarks, Marks
    <3>2. v # "ref" => Look(c + 3) = c + 3
      BY <2>3 DEF ClauseMarks
    <3>3. Look(d) = d \/ Look(d) = d + 1
      BY <2>3 DEF ClauseMarks
    <3> HIDE DEF c, d
    <3>4. v = "ref" => d = c + 3
      BY <3>1 DEF Width
    <3> QED
      BY <3>1, <3>2, <3>3, <3>4
  <2> HIDE DEF c
  <2> QED
    BY <1>2, <2>1, <2>4
<1> QED
  BY <1>1, <1>2, <1>3

LEMMA ValueBack ==
    ASSUME BackInv, ReadValue, origin # Null
    PROVE  BackInv'
<1> DEFINE c == ClauseAt(origin)
           d == ValueEnd(origin)
           p == origin.props[1]
           l == Look(in)
<1>1. /\ InStore(origin) /\ reading = "value" /\ in = c + 3 /\ Len(origin.props) > 0
      /\ node = [made |-> TRUE, type |-> origin.type, name |-> origin.name, props |-> Null]
      /\ names = <<>> /\ copy = Null /\ BehindKey(origin)
  BY BackReads DEF ReadValue, Cursors, NodeRead, ObjectsRead
<1>2. /\ c \in {2, 4} /\ ClauseMarks(origin, c, d) /\ Len(origin.props) # 0
      /\ p.value \in Kind
  <2>1. 1 \in 1 .. Len(origin.props) /\ Len(origin.props) # 0
    BY <1>1 DEF InStore, OriginIs
  <2> QED
    BY <1>1, <2>1 DEF InStore, Marks, OriginIs
<1>3. IF p.value = "ref" /\ Len(origin.props) # 1 THEN l = c + 4 ELSE l = c + 3
  <2>1. p.value = "ref" => d = c + 3
    BY <1>2 DEF ClauseMarks, Width
  <2> QED
    BY <1>1, <1>2, <2>1 DEF ClauseMarks
<1>4. UNCHANGED <<text, origin, node, names, copy>>
  BY DEF ReadValue, Goto
<1>5. ~Dropped /\ ValueAt = l
  BY <1>1, ValueInStore
<1> HIDE DEF d, l
<1>6. CASE NoLiteral(origin)
  <2>1. LiteralRead = "none"
    BY <1>1, <1>6, ValueInStore
  <2>2. reading' = "names" /\ in' = l /\ UNCHANGED <<key, prop, heap, live>>
    <3>1. Goto("names", ValueAt) /\ UNCHANGED <<key, prop, heap, live>>
      BY <1>5, <2>1 DEF ReadValue
    <3> QED
      BY <1>5, <3>1 DEF Goto
  <2>3. l = NamesAt(origin)
    BY <1>3 DEF NamesAt
  <2>4. Cursors(origin)'
    BY <1>1, <1>4, <1>6, <2>2, <2>3 DEF Cursors
  <2>5. NodeRead(origin)'
    BY <1>1, <1>4, <2>2 DEF NodeRead
  <2>6. ObjectsRead(origin)'
    <3>1. BehindKey(origin)'
      BY <1>1, <1>4, <2>2 DEF BehindKey
    <3> QED
      BY <1>1, <1>4, <2>2, <3>1 DEF ObjectsRead
  <2> QED
    BY <1>4, <2>4, <2>5, <2>6, BackHolds
<1>7. CASE ~NoLiteral(origin)
  <2>1. l + 1 = BehindAt(origin)
    <3>1. p.value # "ref"
      BY <1>7 DEF NoLiteral
    <3> QED
      BY <1>2, <1>3, <1>7, <3>1 DEF BehindAt
  <2> DEFINE e == BehindAt(origin)
  <2> HIDE DEF c, p
  <2>2. ASSUME reading' = "behind", in' = e
        PROVE  Cursors(origin)' /\ NodeRead(origin)'
    <3>1. Cursors(origin)'
      BY <1>1, <1>4, <2>2 DEF Cursors
    <3>2. NodeRead(origin)'
      BY <1>1, <1>4, <2>2 DEF NodeRead
    <3> QED
      BY <3>1, <3>2
  <2> HIDE DEF e
  <2> USE DEF p
  <2>3. CASE Readable(p)
    <3>1. LiteralRead = ValueOf[p.value] /\ LiteralRead \notin {"none", "null"}
      BY <1>1, <1>7, <2>3, ValueInStore
    <3> DEFINE x == Object("Value", LiteralRead, <<>>)
               y == Object("Property", "empty", <<key, Len(heap) + 1>>)
               t == Object("Text", p.key, <<>>)
    <3>2. /\ NewBeside(KeyKept, <<x, y>>) /\ prop' = Newest /\ key' = Null
          /\ Goto("behind", ValueAt + 1)
      BY <3>1, Zenon DEF ReadValue
    <3>3. reading' = "behind" /\ in' = e
      BY <1>5, <2>1, <3>2 DEF Goto, e
    <3>4. heap = <<t>> /\ live = {1} /\ key = 1 /\ Len(heap) = 1
      BY <1>1, JoinsShort DEF BehindKey, KeyObjects
    <3>5. x = Object("Value", ValueOf[p.value], <<>>) /\ y = Object("Property", "empty", <<1, 2>>)
      BY <3>1, <3>4
    <3> HIDE DEF x, y, t
    <3>6. heap' = <<t, x, y>> /\ Len(heap') = 3
      BY <3>2, <3>4, JoinsShort DEF NewBeside
    <3>7. live' = {1, 2, 3}
      <4>1. live' = {1} \cup (2 .. 3)
        BY <3>2, <3>4, <3>6 DEF NewBeside, KeyKept
      <4> QED
        BY <4>1
    <3>8. prop' = 3 /\ key' = Null
      BY <3>2, <3>6 DEF Newest
    <3>9. ObjectsRead(origin)'
      <4>1. heap' = PropertyObjects(origin)
        BY <3>5, <3>6 DEF PropertyObjects, t
      <4>2. heap' = PropertyObjects(origin')
        BY <1>4, <4>1
      <4>3. BehindValue(origin, prop)'
        BY <1>4, <2>3, <3>7, <3>8, <4>2 DEF BehindValue, Readable
      <4> QED
        BY <1>1, <1>4, <3>3, <4>3 DEF ObjectsRead
    <3> QED
      BY <1>4, <2>2, <3>3, <3>9, BackHolds
  <2>4. CASE p.value = "neg"
    <3>1. LiteralRead = "null" /\ ~Readable(p)
      BY <1>1, <1>7, <2>4, ValueInStore DEF Readable, Skipped
    <3>2. /\ Goto("behind", ValueAt + 1) /\ key' = Null /\ UNCHANGED <<prop, heap>>
      BY <3>1 DEF ReadValue
    <3>3. reading' = "behind" /\ in' = e
      BY <1>5, <2>1, <3>2 DEF Goto, e
    <3>4. BehindValue(origin, prop)'
      BY <1>1, <1>4, <3>1, <3>2 DEF BehindValue, BehindKey
    <3>5. ObjectsRead(origin)'
      BY <1>1, <1>4, <3>3, <3>4 DEF ObjectsRead
    <3> QED
      BY <1>4, <2>2, <3>3, <3>5, BackHolds
  <2>5. CASE p.value = "quoted"
    <3>1. LiteralRead \notin {"none", "null"} /\ ~Readable(p) /\ p.value \notin Skipped
      BY <1>1, <1>7, <2>5, ValueInStore DEF Readable, Skipped, Refused
    <3>2. key' = Null /\ Goto("behind", ValueAt + 1)
      BY <3>1, Zenon DEF ReadValue
    <3>3. reading' = "behind" /\ in' = e
      BY <1>5, <2>1, <3>2 DEF Goto, e
    <3>4. BehindValue(origin, prop)'
      BY <1>4, <3>1, <3>2 DEF BehindValue
    <3>5. ObjectsRead(origin)'
      BY <1>1, <1>4, <3>3, <3>4 DEF ObjectsRead
    <3> QED
      BY <1>4, <2>2, <3>3, <3>5, BackHolds
  <2>6. Readable(p) \/ p.value = "neg" \/ p.value = "quoted"
    BY <1>2, <1>7 DEF Readable, Skipped, Refused, NoLiteral, Kind
  <2> QED
    BY <2>3, <2>4, <2>5, <2>6
<1> QED
  BY <1>6, <1>7

LEMMA ReferenceBack ==
    ASSUME BackInv, ReadReference, origin # Null
    PROVE  BackInv'
<1> DEFINE c == ClauseAt(origin)
           d == ValueEnd(origin)
           e == NamesAt(origin)
           v == origin.props[1].value
<1>1. /\ InStore(origin) /\ reading = "names" /\ in = e /\ Len(origin.props) > 0
      /\ NoLiteral(origin)
      /\ node = [made |-> TRUE, type |-> origin.type, name |-> origin.name, props |-> Null]
      /\ names = <<>> /\ copy = Null /\ BehindKey(origin)
  BY BackReads DEF ReadReference, Cursors, NodeRead, ObjectsRead
<1>2. c \in {2, 4} /\ ClauseMarks(origin, c, d)
  <2>1. Len(origin.props) # 0
    BY <1>1 DEF InStore, OriginIs
  <2> QED
    BY <1>1, <2>1 DEF InStore, Marks
<1>3. Look(e) = e /\ At(e) \in Word \cup {")", "exp"}
  <2>1. CASE v = "ref"
    <3>1. d = c + 3 /\ e = c + (IF Len(origin.props) # 1 THEN 4 ELSE 3)
      BY <1>2, <2>1 DEF ClauseMarks, NamesAt, Width
    <3> QED
      BY <1>2, <3>1 DEF ClauseMarks
  <2>2. CASE v # "ref"
    <3>1. e = c + 3 /\ First(v) \in {"exp", "id"}
      BY <1>1, <2>2 DEF NamesAt, NoLiteral, First
    <3> QED
      BY <1>2, <2>2, <3>1 DEF ClauseMarks, Word
  <2> QED
    BY <2>1, <2>2
<1>4. At(e) # "$" /\ At(e) # "comma"
  BY <1>3 DEF Word
<1> HIDE DEF c, d, e, v
<1>5. NameAt(in) = [of |-> "null", next |-> e]
  BY <1>1, <1>3, <1>4 DEF NameAt
<1>6. /\ reading' = "reference" /\ in' = e
      /\ UNCHANGED <<text, origin, names, heap, live, node, key, prop, copy>>
  <2>1. /\ UNCHANGED <<names, heap, live, node, key, prop, copy>>
        /\ Goto("reference", e)
    BY <1>4, <1>5 DEF ReadReference
  <2> QED
    BY <2>1 DEF Goto
<1>7. Cursors(origin)'
  BY <1>1, <1>6 DEF Cursors, e
<1>8. NodeRead(origin)'
  BY <1>1, <1>6 DEF NodeRead
<1>9. ObjectsRead(origin)'
  <2>1. BehindKey(origin)'
    BY <1>1, <1>6 DEF BehindKey
  <2> QED
    BY <1>1, <1>6, <2>1 DEF ObjectsRead
<1> QED
  BY <1>6, <1>7, <1>8, <1>9, BackHolds

LEMMA MadeBack ==
    ASSUME BackInv, MakeReference, origin # Null
    PROVE  BackInv'
<1>1. /\ reading = "reference" /\ in = NamesAt(origin) /\ Len(origin.props) > 0
      /\ NoLiteral(origin)
      /\ node = [made |-> TRUE, type |-> origin.type, name |-> origin.name, props |-> Null]
      /\ names = <<>> /\ copy = Null /\ BehindKey(origin)
  BY BackReads DEF MakeReference, Cursors, NodeRead, ObjectsRead
<1>2. /\ reading' = "behind" /\ in' = NamesAt(origin) /\ key' = Null /\ names' = <<>>
      /\ UNCHANGED <<text, origin, heap, live, node, prop, copy>>
  BY <1>1 DEF MakeReference, Goto
<1>3. NamesAt(origin) = BehindAt(origin)
  BY <1>1 DEF BehindAt
<1>4. ~Readable(origin.props[1])
  BY <1>1 DEF NoLiteral, Readable, Skipped, Refused
<1>5. Cursors(origin)'
  BY <1>1, <1>2, <1>3 DEF Cursors
<1>6. NodeRead(origin)'
  BY <1>1, <1>2 DEF NodeRead
<1>7. ObjectsRead(origin)'
  <2>1. BehindValue(origin, prop)'
    BY <1>1, <1>2, <1>4 DEF BehindValue, BehindKey
  <2> QED
    BY <1>1, <1>2, <2>1 DEF ObjectsRead
<1> QED
  BY <1>2, <1>5, <1>6, <1>7, BackHolds

\* What stands behind the value of a header that is not refused, and of one that is
LEMMA BehindIs ==
    ASSUME InStore(origin), Len(origin.props) > 0, NEW j, j = Look(BehindAt(origin))
    PROVE  IF IsRefused(origin) THEN At(j) \notin {"end", ")"}
           ELSE j = Len(text) /\ At(j) = ")" /\ Len(origin.props) = 1
<1> DEFINE c == ClauseAt(origin)
           d == ValueEnd(origin)
           e == BehindAt(origin)
           v == origin.props[1].value
           l == Len(origin.props)
<1>1. l \in Nat /\ l > 0 /\ l # 0 /\ v \in Kind
  <2>1. 1 \in 1 .. l
    BY DEF InStore, OriginIs
  <2> QED
    BY <2>1 DEF InStore, OriginIs
<1>2. ClauseMarks(origin, c, d) /\ c \in {2, 4}
  BY <1>1 DEF InStore, Marks
<1>3. IF l = 1 THEN d = Len(text) /\ Look(d) = d /\ At(d) = ")"
      ELSE Look(d) = d + 1 /\ Look(d + 1) = d + 1 /\ At(d + 1) \in Word
  BY <1>2 DEF ClauseMarks
<1>4. l # 1 => l > 1
  <2> HIDE DEF l
  <2> QED
    BY <1>1
<1>5. CASE v = "quoted"
  <2>1. e = c + 4 /\ Look(c + 4) = c + 4 /\ At(c + 4) = "id"
    BY <1>2, <1>5 DEF ClauseMarks, BehindAt, NoLiteral
  <2>2. IsRefused(origin)
    BY <1>1, <1>5 DEF IsRefused, Refused
  <2> QED
    BY <2>1, <2>2
<1>6. CASE v \in {"exp", "bool"}
  <2>1. e = c + 3 /\ First(v) \in {"exp", "id"}
    BY <1>6 DEF BehindAt, NoLiteral, NamesAt, First
  <2>2. Look(c + 3) = c + 3 /\ At(c + 3) = First(v)
    BY <1>2, <1>6 DEF ClauseMarks
  <2>3. IsRefused(origin)
    BY <1>1, <1>6 DEF IsRefused, Refused
  <2> QED
    BY <2>1, <2>2, <2>3
<1>7. CASE v \notin {"quoted", "exp", "bool"}
  <2>1. d = e \/ (e = d + 1 /\ l # 1)
    <3>1. CASE v = "ref"
      <4>1. d = c + 3 /\ e = IF l # 1 THEN c + 4 ELSE c + 3
        BY <1>2, <3>1 DEF ClauseMarks, Width, BehindAt, NoLiteral, NamesAt
      <4> QED
        BY <1>2, <4>1
    <3>2. CASE v # "ref"
      <4>1. Width(v) = 1 /\ ~NoLiteral(origin)
        BY <1>7, <3>2 DEF Width, NoLiteral
      <4>2. d = c + 3 + 1 /\ e = c + 4
        BY <1>2, <4>1 DEF ClauseMarks, BehindAt
      <4> QED
        BY <1>2, <4>2
    <3> QED
      BY <3>1, <3>2
  <2>2. IsRefused(origin) <=> l # 1
    <3>1. v \notin Refused
      BY <1>7 DEF Refused
    <3>2. IsRefused(origin) <=> l > 1
      BY <3>1 DEF IsRefused
    <3>3. l = 1 => ~(l > 1)
      OBVIOUS
    <3> HIDE DEF l
    <3> QED
      BY <1>4, <3>2, <3>3
  <2>3. l # 1 => At(j) \in Word
    BY <1>3, <2>1
  <2>4. l = 1 => j = d /\ At(j) = ")" /\ d = Len(text)
    BY <1>3, <2>1
  <2>5. At(j) \in Word => At(j) \notin {"end", ")"}
    BY DEF Word
  <2> QED
    BY <2>2, <2>3, <2>4, <2>5
<1> QED
  BY <1>5, <1>6, <1>7

LEMMA PropertyBack ==
    ASSUME BackInv, BehindProperty, origin # Null
    PROVE  BackInv'
<1> DEFINE j == Look(in)
<1>1. /\ reading = "behind" /\ in = BehindAt(origin)
      /\ Len(origin.props) > 0 /\ InStore(origin)
      /\ node = [made |-> TRUE, type |-> origin.type, name |-> origin.name, props |-> Null]
      /\ names = <<>> /\ copy = Null /\ BehindValue(origin, prop)
  BY BackReads DEF BehindProperty, Cursors, NodeRead, ObjectsRead
<1>2. IF IsRefused(origin) THEN At(j) \notin {"end", ")"}
      ELSE j = Len(text) /\ At(j) = ")" /\ Len(origin.props) = 1
  BY <1>1, BehindIs
<1>3. /\ prop' = Null /\ UNCHANGED <<text, origin, key, names, copy, heap, live>>
      /\ node' = IF At(j) = ")" /\ node.made THEN [node EXCEPT !.props = prop] ELSE node
  BY DEF BehindProperty, Goto, Kept
<1>4. /\ At(j) = "end" => Goto("done", j)
      /\ At(j) = ")" => Goto("done", j + 1)
      /\ At(j) \notin {"end", ")"} => Goto("failed", 0)
  BY DEF BehindProperty
<1> HIDE DEF j
<1>5. CASE ~IsRefused(origin)
  <2>1. j = Len(text) /\ At(j) = ")" /\ Len(origin.props) = 1
    BY <1>2, <1>5
  <2>2. reading' = "done" /\ in' = Len(text') + 1
    BY <1>3, <1>4, <2>1 DEF Goto
  <2>3. /\ node' = [made |-> TRUE, type |-> origin'.type, name |-> origin'.name, props |-> prop]
        /\ node'.props = prop
    BY <1>1, <1>3, <2>1
  <2>4. Cursors(origin)'
    BY <1>3, <1>5, <2>1, <2>2 DEF Cursors
  <2>5. NodeRead(origin)'
    BY <1>3, <2>2, <2>3 DEF NodeRead
  <2>6. BehindValue(origin, node.props)'
    BY <1>1, <1>3, <2>3 DEF BehindValue
  <2>7. ObjectsRead(origin)'
    BY <1>1, <1>3, <2>1, <2>2, <2>6 DEF ObjectsRead
  <2> QED
    BY <1>3, <2>4, <2>5, <2>7, BackHolds
<1>6. CASE IsRefused(origin)
  <2>1. reading' = "failed"
    BY <1>2, <1>4, <1>6 DEF Goto
  <2>2. node' = node
    BY <1>2, <1>3, <1>6
  <2>3. Cursors(origin)'
    BY <1>3, <1>6, <2>1 DEF Cursors
  <2>4. NodeRead(origin)'
    BY <1>1, <1>3, <2>1, <2>2 DEF NodeRead
  <2>5. ObjectsRead(origin)'
    BY <1>1, <1>3, <2>1 DEF ObjectsRead
  <2> QED
    BY <1>3, <2>3, <2>4, <2>5, BackHolds
<1> QED
  BY <1>5, <1>6

\* What a node has of a written header is a value, so there is no reference to copy.
LEMMA NoReference ==
    ASSUME BackInv, origin # Null
    PROVE  copy = Null /\ (Read => ~HasReference)
<1>1. Cursors(origin) /\ NodeRead(origin) /\ ObjectsRead(origin)
  BY BackReads
<1>2. CASE reading = "failed"
  BY <1>1, <1>2 DEF NodeRead, ObjectsRead, HasReference
<1>3. CASE reading = "done" /\ node.props = Null
  BY <1>1, <1>3 DEF ObjectsRead, HasReference
<1>4. CASE reading = "done" /\ node.props # Null
  <2>1. BehindValue(origin, node.props)
    BY <1>1, <1>4 DEF Cursors, ObjectsRead
  <2>2. Readable(origin.props[1])
    <3>1. Len(origin.props) = 1 /\ ~IsRefused(origin)
      BY <1>1, <1>4 DEF Cursors, ObjectsRead
    <3>2. origin.props[1].value \notin Refused
      BY <3>1 DEF IsRefused
    <3>3. origin.props[1].value \notin Skipped
      BY <1>4, <2>1 DEF BehindValue
    <3> QED
      BY <3>2, <3>3 DEF Readable
  <2>3. heap = PropertyObjects(origin) /\ node.props = 3
    BY <2>1, <2>2 DEF BehindValue
  <2>4. Held.kind = "Value"
    BY <2>3 DEF Held, PropertyObjects, Object
  <2> QED
    BY <1>1, <2>4 DEF ObjectsRead, HasReference
<1> QED
  BY <1>1, <1>2, <1>3, <1>4 DEF ObjectsRead, Read

LEMMA BackStays == BackInv /\ [NextHeader]_headerVars => BackInv'
<1> SUFFICES ASSUME BackInv, [NextHeader]_headerVars PROVE BackInv'
  OBVIOUS
<1>1. UNCHANGED <<text, origin>>
  BY OriginStays DEF headerVars, cursor
<1>2. CASE origin = Null
  BY <1>1, <1>2, NotWritten
<1>3. CASE origin # Null /\ Step
  BY <1>3, TypeBack, NameBack, ClauseBack, KeyBack, ValueBack, PastEndBack,
     ReferenceBack, MadeBack, PropertyBack DEF Step
<1>4. CASE origin # Null /\ (SetRef \/ DeleteValue)
  BY <1>4, NoReference DEF SetRef, DeleteValue
<1>5. CASE origin # Null /\ DeleteNode
  <2>1. reading' = "deleted" /\ UNCHANGED <<names, copy>>
    BY <1>5 DEF DeleteNode, Goto, locals
  <2>2. Cursors(origin)' /\ NodeRead(origin)'
    BY <2>1 DEF Cursors, NodeRead
  <2>3. ObjectsRead(origin)'
    BY <1>5, <2>1, BackReads DEF ObjectsRead
  <2> QED
    BY <1>1, <2>2, <2>3, BackHolds
<1>6. CASE UNCHANGED headerVars
  <2>1. UNCHANGED <<text, origin, in, reading, node, key, names, prop, copy, heap, live>>
    BY <1>6 DEF headerVars, cursor, locals
  <2> QED
    BY <2>1 DEF BackInv, Cursors, NodeRead, ObjectsRead, BeforeKey, BehindKey, BehindValue
<1> QED
  BY <1>2, <1>3, <1>4, <1>5, <1>6 DEF NextHeader

LEMMA BackAlways == HeaderSpec => []BackInv
  BY InitBack, BackStays, PTL DEF HeaderSpec

\* A header is refused when it has several properties or one that is refused.
LEMMA RefusedIs ==
    ASSUME NEW h \in Header
    PROVE  IsRefused(h) <=> Len(h.props) > 1 \/ \E i \in DOMAIN h.props : h.props[i].value \in Refused
<1> DEFINE l == Len(h.props)
<1>1. l \in Nat /\ DOMAIN h.props = 1 .. l
  BY PropertiesTyped, LenProperties
<1> HIDE DEF l
<1>2. ~(l > 1) => /\ l > 0 => 1 .. l = {1}
                  /\ ~(l > 0) => 1 .. l = {}
  BY <1>1
<1> QED
  BY <1>1, <1>2 DEF IsRefused, l

LEMMA BackIsWhole == BackInv => ReadsBack
<1> SUFFICES ASSUME BackInv, Read, origin # Null
             PROVE  IF Len(origin.props) > 1 \/ \E i \in DOMAIN origin.props : origin.props[i].value \in Refused
                    THEN reading = "failed"
                    ELSE /\ reading = "done" /\ At(in) = "end"
                         /\ node.type = origin.type /\ node.name = origin.name
                         /\ IF origin.props # <<>> /\ Readable(origin.props[1])
                            THEN /\ node.props # Null
                                 /\ Key = origin.props[1].key
                                 /\ Held.of = ValueOf[origin.props[1].value]
                            ELSE node.props = Null
  BY DEF ReadsBack
<1>1. /\ InStore(origin) /\ Cursors(origin) /\ NodeRead(origin) /\ ObjectsRead(origin)
  BY BackReads
<1>0. IsRefused(origin) <=> \/ Len(origin.props) > 1
                           \/ \E i \in DOMAIN origin.props : origin.props[i].value \in Refused
  <2>1. origin \in Header
    BY HeadersAssumption DEF BackInv
  <2> QED
    BY <2>1, RefusedIs
<1>2. IsRefused(origin) => reading = "failed"
  BY <1>1 DEF Read, Cursors
<1>3. ASSUME ~IsRefused(origin)
      PROVE  /\ reading = "done" /\ At(in) = "end"
             /\ node.type = origin.type /\ node.name = origin.name
  <2>1. reading = "done"
    BY <1>1, <1>3 DEF Cursors, Read
  <2>2. At(in) = "end"
    <3> DEFINE n == Len(text)
    <3>1. in = n + 1 /\ n \in Nat /\ text \in Seq(Token)
      BY <1>1, <2>1 DEF Cursors, InStore, Marks
    <3>2. in \in Int /\ in \notin 1 .. n
      BY <3>1
    <3> QED
      BY <3>1, <3>2, AtIs
  <2>3. node.type = origin.type /\ node.name = origin.name
    BY <1>1, <2>1 DEF NodeRead
  <2> QED
    BY <2>1, <2>2, <2>3
<1>4. origin.props = <<>> <=> Len(origin.props) = 0
  <2>1. origin \in Header
    BY HeadersAssumption DEF BackInv
  <2>2. origin.props \in Seq([key : Word, value : Kind])
    BY <2>1, PropertiesTyped
  <2> QED
    BY <2>2, EmptySeq
<1>5. ASSUME ~IsRefused(origin)
      PROVE  IF origin.props # <<>> /\ Readable(origin.props[1])
             THEN /\ node.props # Null
                  /\ Key = origin.props[1].key
                  /\ Held.of = ValueOf[origin.props[1].value]
             ELSE node.props = Null
  <2>1. reading = "done" /\ Len(origin.props) \in {0, 1}
    BY <1>1, <1>3, <1>5 DEF Cursors
  <2>2. CASE Len(origin.props) = 0
    BY <1>1, <1>4, <2>1, <2>2 DEF ObjectsRead
  <2>3. CASE Len(origin.props) = 1
    <3>1. BehindValue(origin, node.props) /\ origin.props # <<>>
      BY <1>1, <1>4, <2>1, <2>3 DEF ObjectsRead
    <3>2. CASE ~Readable(origin.props[1])
      <4>1. origin.props[1].value \in Skipped
        <5>1. Len(origin.props) > 0
          BY <2>3
        <5>2. origin.props[1].value \notin Refused
          BY <1>5, <5>1 DEF IsRefused
        <5> QED
          BY <3>2, <5>2 DEF Readable
      <4> QED
        BY <3>1, <3>2, <4>1 DEF BehindValue
    <3>3. CASE Readable(origin.props[1])
      <4>1. heap = PropertyObjects(origin) /\ node.props = 3
        BY <3>1, <3>3 DEF BehindValue
      <4>2. node.props # Null
        BY <4>1, NullAssumption
      <4>3. Key = origin.props[1].key
        BY <4>1 DEF Key, PropertyObjects, Object
      <4>4. Held.of = ValueOf[origin.props[1].value]
        BY <4>1 DEF Held, PropertyObjects, Object
      <4> QED
        BY <3>1, <3>3, <4>2, <4>3, <4>4
    <3> QED
      BY <3>2, <3>3
  <2> QED
    BY <2>1, <2>2, <2>3
<1> QED
  BY <1>0, <1>2, <1>3, <1>5

LEMMA BackLosesNone == BackInv => LosesNoOther
<1> SUFFICES ASSUME BackInv, Read, origin # Null, Lost # {}, ~(Len(origin.props) > 1),
                    \A i \in DOMAIN origin.props : Readable(origin.props[i])
             PROVE  FALSE
  BY DEF LosesNoOther
<1>1. Cursors(origin) /\ ObjectsRead(origin)
  BY BackReads
<1>2. reading = "done" /\ Len(origin.props) \in {0, 1}
  <2>1. origin \in Header
    BY HeadersAssumption DEF BackInv
  <2>2. ~IsRefused(origin)
    BY <2>1, RefusedIs DEF Readable
  <2> QED
    BY <1>1, <2>2 DEF Cursors, Read
<1>3. CASE Len(origin.props) = 0
  BY <1>1, <1>2, <1>3 DEF ObjectsRead, BeforeKey, Lost
<1>4. CASE Len(origin.props) = 1
  <2>1. Readable(origin.props[1])
    <3>1. origin \in Header
      BY HeadersAssumption DEF BackInv
    <3>2. 1 \in DOMAIN origin.props
      BY <1>4, <3>1 DEF Header
    <3> QED
      BY <3>2
  <2>2. heap = PropertyObjects(origin) /\ live = {1, 2, 3} /\ node.props = 3
    BY <1>1, <1>2, <1>4, <2>1 DEF ObjectsRead, BehindValue
  <2>3. heap[3].owns = <<1, 2>>
    BY <2>2 DEF PropertyObjects, Object
  <2> DEFINE S == {key, prop, copy, node.props} \cup ToSet(names)
             P(Z) == Z \cup UNION {{heap[o].owns[i] : i \in DOMAIN heap[o].owns} : o \in Z}
  <2>4. 3 \in S \ {Null}
    BY <2>2, NullAssumption
  <2>5. Reached(S) = P(P(P(S \ {Null})))
    BY DEF Reached
  <2>6. \A Z : Z \subseteq P(Z) /\ (3 \in Z => {1, 2, 3} \subseteq P(Z))
    <3> SUFFICES ASSUME NEW Z PROVE Z \subseteq P(Z) /\ (3 \in Z => {1, 2, 3} \subseteq P(Z))
      OBVIOUS
    <3>1. 1 \in DOMAIN heap[3].owns /\ 2 \in DOMAIN heap[3].owns /\ heap[3].owns[1] = 1 /\ heap[3].owns[2] = 2
      BY <2>3
    <3> QED
      BY <3>1
  <2> HIDE DEF S, P
  <2>7. live \subseteq Reached(S)
    BY <2>2, <2>4, <2>5, <2>6
  <2> QED
    BY <2>7 DEF Lost, S
<1> QED
  BY <1>2, <1>3, <1>4

\* A header the exporter writes is read back whole, with its type, its name and its
\* property, when that is a non-negative integer, a real written without an exponent
\* or a string without a quotation mark.  A negative integer and what nothing is written
\* of leave no property; a bool, a real with an exponent, a string with a quotation mark
\* and a second property have the header refused.  For every header of these values.
THEOREM HeaderReadsBack == HeaderSpec => []ReadsBack
  BY BackAlways, BackIsWhole, PTL

\* Of what the exporter writes, only a header the parser refuses, or a property it
\* cannot read, makes it lose objects.
THEOREM HeaderLosesNoOther == HeaderSpec => []LosesNoOther
  BY BackAlways, BackLosesNone, PTL

-----------------------------------------------------------------------------
(* A header of tokens that DDLTokens knows, step by step and at once. *)

\* The parts of a header as DDLTokens sees them
TypeOf(t) == Tokens!Identifier(t, 1)
NameOf(t) == Tokens!Name(t, TypeOf(t).next)
ClauseOf(t) == NameOf(t).next
KeyOf(t) == Tokens!Identifier(t, ClauseOf(t) + 1)
HasValue(t) == KeyOf(t).text # "null" /\ Tokens!At(t, KeyOf(t).next) = "="
ValuePlace(t) == KeyOf(t).next + 1
ValueName(t) == Tokens!Name(t, ValuePlace(t))
PropertyOf(t) == Tokens!PropertyAt(t, ClauseOf(t) + 1)
PropertiesOf(t) == Tokens!Properties(t, ClauseOf(t))

\* A text of the tokens both modules know, with a header that ends in it, and these
Common ==
    text \in Seq(Token) /\ ToSet(text) \subseteq Tokens!Token /\ ~PropertiesOf(text).overread
CommonToken == {"id", "num", "=", "$", "(", ")", "{"}

LEMMA CommonAt ==
    ASSUME Common, NEW i \in Int
    PROVE  /\ At(i) \in CommonToken \cup {"end"}
           /\ Tokens!At(text, i) = At(i)
<1>1. Tokens!At(text, i) = At(i)
  BY DEF Tokens!At, At
<1>2. At(i) \in Token \cup {"end"} /\ (At(i) # "end" => At(i) \in Tokens!Token)
  <2>1. /\ At(i) \in Token \cup {"end"}
        /\ At(i) # "end" => i \in 1 .. Len(text) /\ At(i) = text[i]
    BY AtIs DEF Common
  <2>2. \A k \in 1 .. Len(text) : text[k] \in ToSet(text)
    BY DEF Common, ToSet
  <2> QED
    BY <2>1, <2>2, Zenon DEF Common
<1>3. \A t \in Token : t \in Tokens!Token => t \in CommonToken
  <2> SUFFICES ASSUME NEW t \in Token, t \in Tokens!Token PROVE t \in CommonToken
    OBVIOUS
  <2>1. t \notin {"idx", "neg", "real", "exp", "str", "=.", "comma"}
    BY Zenon DEF Tokens!Token
  <2> QED
    BY <2>1, Zenon DEF Token, CommonToken
<1> QED
  BY <1>1, <1>2, <1>3, Zenon

\* There are no commas to skip, so lookForNextToken stays where it is
LEMMA CommonLook ==
    ASSUME Common, NEW i \in 1 .. Len(text) + 1
    PROVE  Look(i) = i
<1>1. i \in Int
  BY DEF Common
<1>2. At(i) # "comma"
  BY <1>1, CommonAt, Zenon DEF CommonToken
<1> QED
  BY <1>2, LookStays DEF Common

\* What the two say of an identifier, and of a name
Outcome(of) == IF of \in {"null", "empty"} THEN of ELSE "word"

LEMMA CommonIdentifier ==
    ASSUME Common, NEW i \in 1 .. Len(text) + 1
    PROVE  /\ Tokens!Identifier(text, i).next = Identifier(i).next
           /\ Tokens!Identifier(text, i).text = Outcome(Identifier(i).of)
           /\ Identifier(i).next \in i .. Len(text) + 1
<1> DEFINE t == At(i)
<1>1. i \in Int
  BY DEF Common
<1>2. Look(i) = i
  BY CommonLook
<1>3. t \in CommonToken \cup {"end"} /\ Tokens!At(text, i) = t
  BY <1>1, CommonAt
<1>4. /\ Identifier(i).of = CASE t \in Numeral \cup {"end"} -> "null"
                              [] t \in Ends \ {"end"} -> "empty"
                              [] OTHER -> t
      /\ Identifier(i).next = IF t \in Ends \cup Numeral THEN i
                              ELSE IF t = "=." /\ At(i + 1) \notin Ends THEN i + 2
                              ELSE i + 1
  BY <1>2, Zenon DEF Identifier
<1>5. /\ Tokens!Identifier(text, i).text = CASE t \in {"end", "num"} -> "null"
                              [] t \in {"id", "prim", "="} \cup Tokens!Suffixed -> "word"
                              [] OTHER -> "empty"
      /\ Tokens!Identifier(text, i).next = IF t \in {"id", "prim", "="} THEN i + 1 ELSE i
  BY <1>3, Zenon DEF Tokens!Identifier
<1> HIDE DEF t
<1>6. t \in {"id", "="} \/ t \in {"num", "end"} \/ t \in Ends \ {"end"}
  BY <1>3, Zenon DEF CommonToken, Ends
<1>7. CASE t \in {"id", "="}
  <2>1. t \notin Ends /\ t \notin Numeral /\ t \notin {"num", "=.", "end", "null", "empty"}
    BY <1>7, Zenon DEF Ends, Numeral
  <2>2. Identifier(i).of = t /\ Identifier(i).next = i + 1
    BY <1>4, <2>1, Zenon
  <2>3. Tokens!Identifier(text, i).text = "word" /\ Tokens!Identifier(text, i).next = i + 1
    BY <1>5, <1>7, <2>1, Zenon
  <2> QED
    BY <2>1, <2>2, <2>3, IdentifierIs, Zenon DEF Outcome, Common
<1>8. CASE t \in {"num", "end"}
  <2>1. t \in Ends \cup Numeral /\ t \notin {"id", "prim", "="} \cup Tokens!Suffixed
    BY <1>8, Zenon DEF Ends, Numeral, Tokens!Suffixed
  <2>2. Identifier(i).of = "null" /\ Identifier(i).next = i
    <3>1. t \in Numeral \cup {"end"} /\ t \notin Ends \ {"end"}
      BY <1>8, Zenon DEF Ends, Numeral
    <3> QED
      BY <1>4, <2>1, <3>1, Zenon
  <2>3. Tokens!Identifier(text, i).text = "null" /\ Tokens!Identifier(text, i).next = i
    BY <1>5, <1>8, <2>1
  <2> QED
    BY <2>2, <2>3, IdentifierIs, Zenon DEF Outcome, Common
<1>9. CASE t \in Ends \ {"end"}
  <2>1. /\ t \notin Numeral \cup {"end"} /\ t \notin {"end", "num"}
        /\ t \notin {"id", "prim", "="} \cup Tokens!Suffixed
    BY <1>9, Zenon DEF Ends, Numeral, Tokens!Suffixed
  <2>2. Identifier(i).of = "empty" /\ Identifier(i).next = i
    BY <1>4, <1>9, <2>1, Zenon
  <2>3. Tokens!Identifier(text, i).text = "empty" /\ Tokens!Identifier(text, i).next = i
    BY <1>5, <2>1, Zenon
  <2> QED
    BY <2>2, <2>3, IdentifierIs, Zenon DEF Outcome, Common
<1> QED
  BY <1>6, <1>7, <1>8, <1>9, Zenon

LEMMA CommonName ==
    ASSUME Common, NEW i \in 1 .. Len(text) + 1
    PROVE  /\ Tokens!Name(text, i).next = NameAt(i).next
           /\ Tokens!Name(text, i).text = Outcome(NameAt(i).of)
           /\ NameAt(i).next \in i .. Len(text) + 1
<1>1. i \in Int /\ Look(i) = i
  BY CommonLook DEF Common
<1>2. Tokens!At(text, i) = At(i)
  BY <1>1, CommonAt
<1>3. NameAt(i).next \in i .. Len(text) + 1
  BY NameAtIs DEF Common
<1>4. CASE At(i) # "$"
  <2>1. NameAt(i).of = "null" /\ NameAt(i).next = i
    BY <1>1, <1>4 DEF NameAt
  <2>2. Tokens!Name(text, i).text = "null" /\ Tokens!Name(text, i).next = i
    BY <1>2, <1>4 DEF Tokens!Name
  <2> QED
    BY <1>3, <2>1, <2>2, Zenon DEF Outcome
<1>5. CASE At(i) = "$"
  <2> DEFINE k == i + 1
  <2>1. k \in 1 .. Len(text) + 1
    <3> DEFINE n == Len(text)
    <3>1. n \in Nat /\ i \in 1 .. n
      BY <1>1, <1>5, AtIs DEF Common
    <3> QED
      BY <3>1
  <2>2. NameAt(i) = Identifier(k) /\ Tokens!Name(text, i) = Tokens!Identifier(text, k)
    BY <1>1, <1>2, <1>5, Zenon DEF NameAt, Tokens!Name
  <2> HIDE DEF k
  <2> QED
    BY <1>3, <2>1, <2>2, CommonIdentifier, Zenon
<1> QED
  BY <1>4, <1>5

\* Whether there is a node and whether it has a name
TypeSo == node.made <=> TypeOf(text).text # "empty"
NameSo == node.name # "empty" <=> node.made /\ NameOf(text).text = "word"

\* Where the cursor is for each thing that is read next, and what was found before it
InPlace ==
    /\ reading = "name" => in = TypeOf(text).next /\ node.name = "empty"
    /\ reading = "clause" => in = ClauseOf(text)
    /\ reading \in {"key", "value", "names", "reference", "behind"} =>
         Tokens!At(text, ClauseOf(text)) = "("
    /\ reading = "key" => in = ClauseOf(text) + 1
    /\ reading \in {"value", "names", "reference"} => HasValue(text)
    /\ reading = "value" => in = ValuePlace(text)
    /\ reading \in {"names", "reference"} => Tokens!At(text, ValuePlace(text)) # "num"
    /\ reading = "names" => in = ValuePlace(text) /\ names = <<>>
    /\ reading = "reference" =>
         in = ValueName(text).next /\ (names # <<>> <=> ValueName(text).text # "null")
    /\ reading = "behind" =>
         in = PropertyOf(text).next /\ (prop # Null <=> PropertyOf(text).made)

\* What a header comes to
Ended ==
    reading \in {"done", "failed"} =>
      /\ reading = "failed" <=> ~PropertiesOf(text).ok
      /\ reading = "done" => in = PropertiesOf(text).next
      /\ node.props # Null <=> node.made /\ PropertiesOf(text).ok /\ PropertiesOf(text).made

\* The inductive invariant of SummaryAgrees
SumInv ==
    Common =>
      /\ reading = "id" => in = 1 /\ node = NoNode
      /\ reading \notin {"id", "deleted"} /\ TypeOf(text).text = "null" =>
           reading = "done" /\ in = TypeOf(text).next /\ ~node.made
      /\ reading \notin {"id", "deleted"} /\ TypeOf(text).text # "null" =>
           TypeSo /\ (reading # "name" => NameSo) /\ InPlace /\ Ended

\* The cursor's places, and one further
Spots == 1 .. Len(text) + 1

LEMMA SpotAfter ==
    ASSUME Common, NEW i \in Spots, Tokens!At(text, i) # "end"
    PROVE  i + 1 \in Spots /\ i <= Len(text)
<1> DEFINE n == Len(text)
<1>1. n \in Nat /\ i \in 1 .. n + 1 /\ i \in Int
  BY LenProperties DEF Common, Spots
<1>2. i \in 1 .. n
  BY <1>1, CommonAt, AtIs DEF Common
<1> HIDE DEF n
<1>3. i + 1 \in 1 .. n + 1 /\ i <= n
  BY <1>1, <1>2
<1> QED
  BY <1>3 DEF n, Spots

\* The parts of a header, as DDLHeader reads them
LEMMA TypeThere ==
    ASSUME Common
    PROVE  /\ TypeOf(text).next = Identifier(1).next
           /\ TypeOf(text).text = Outcome(Identifier(1).of)
           /\ TypeOf(text).next \in Spots
<1>1. 1 \in 1 .. Len(text) + 1
  BY LenProperties DEF Common
<1>2. Identifier(1).next \in 1 .. Len(text) + 1
  BY <1>1, CommonIdentifier
<1> QED
  BY <1>1, <1>2, CommonIdentifier DEF TypeOf, Spots

LEMMA SpotsFrom ==
    ASSUME Common, NEW i \in Spots, NEW j \in i .. Len(text) + 1
    PROVE  j \in Spots
<1> DEFINE n == Len(text)
<1>1. n \in Nat /\ i \in 1 .. n + 1 /\ j \in i .. n + 1
  BY LenProperties DEF Common, Spots
<1> HIDE DEF n
<1>2. j \in 1 .. n + 1
  BY <1>1
<1> QED
  BY <1>2 DEF n, Spots

LEMMA NameThere ==
    ASSUME Common, NEW i, i = TypeOf(text).next
    PROVE  /\ NameOf(text).next = NameAt(i).next
           /\ NameOf(text).text = Outcome(NameAt(i).of)
           /\ ClauseOf(text) = NameAt(i).next /\ ClauseOf(text) \in Spots
<1>1. i \in Spots
  BY TypeThere
<1>2. /\ Tokens!Name(text, i).next = NameAt(i).next
      /\ Tokens!Name(text, i).text = Outcome(NameAt(i).of)
      /\ NameAt(i).next \in i .. Len(text) + 1
  BY <1>1, CommonName DEF Spots
<1>3. NameAt(i).next \in Spots
  BY <1>1, <1>2, SpotsFrom
<1> QED
  BY <1>2, <1>3 DEF NameOf, ClauseOf

LEMMA KeyThere ==
    ASSUME Common, Tokens!At(text, ClauseOf(text)) = "(", NEW i, i = ClauseOf(text) + 1
    PROVE  /\ i \in Spots
           /\ KeyOf(text).next = Identifier(i).next
           /\ KeyOf(text).text = Outcome(Identifier(i).of)
           /\ KeyOf(text).next \in Spots
           /\ HasValue(text) => ValuePlace(text) \in Spots /\ KeyOf(text).next <= Len(text)
<1>1. ClauseOf(text) \in Spots
  BY NameThere
<1>2. i \in Spots
  <2>1. Tokens!At(text, ClauseOf(text)) # "end"
    OBVIOUS
  <2> QED
    BY <1>1, <2>1, SpotAfter
<1>3. /\ Tokens!Identifier(text, i).next = Identifier(i).next
      /\ Tokens!Identifier(text, i).text = Outcome(Identifier(i).of)
      /\ Identifier(i).next \in i .. Len(text) + 1
  BY <1>2, CommonIdentifier DEF Spots
<1>4. Identifier(i).next \in Spots
  BY <1>2, <1>3, SpotsFrom
<1>5. KeyOf(text) = Tokens!Identifier(text, i)
  BY DEF KeyOf
<1>6. HasValue(text) => ValuePlace(text) \in Spots /\ KeyOf(text).next <= Len(text)
  <2> DEFINE k == KeyOf(text).next
  <2>1. k \in Spots
    BY <1>3, <1>4, <1>5
  <2>2. HasValue(text) => Tokens!At(text, k) # "end"
    BY DEF HasValue
  <2> HIDE DEF k
  <2>3. HasValue(text) => k + 1 \in Spots /\ k <= Len(text)
    BY <2>1, <2>2, SpotAfter
  <2> QED
    BY <2>3 DEF k, ValuePlace
<1> QED
  BY <1>2, <1>3, <1>4, <1>5, <1>6

\* What Tokens!PropertyAt and Tokens!Properties come to
LEMMA PropertyThere ==
    /\ ~HasValue(text) => PropertyOf(text).next = KeyOf(text).next /\ PropertyOf(text).made = FALSE
    /\ HasValue(text) /\ Tokens!At(text, ValuePlace(text)) = "num" =>
         PropertyOf(text).next = ValuePlace(text) + 1 /\ PropertyOf(text).made = TRUE
    /\ HasValue(text) /\ Tokens!At(text, ValuePlace(text)) \notin {"num", "end"} =>
         /\ PropertyOf(text).next = ValueName(text).next
         /\ PropertyOf(text).made = (ValueName(text).text # "null")
    /\ HasValue(text) /\ Tokens!At(text, ValuePlace(text)) = "end" => PropertyOf(text).overread
<1> DEFINE v == ValuePlace(text)
           n == ValueName(text)
           t == Tokens!At(text, v)
<1>1. PropertyOf(text) =
        IF ~HasValue(text) THEN [made |-> FALSE, next |-> KeyOf(text).next, overread |-> FALSE]
        ELSE IF t = "num" THEN [made |-> TRUE, next |-> v + 1, overread |-> FALSE]
        ELSE IF t = "end" THEN [made |-> FALSE, next |-> v + 1, overread |-> TRUE]
        ELSE [made |-> n.text # "null", next |-> n.next, overread |-> FALSE]
  <2>1. ~HasValue(text) <=>
          KeyOf(text).text = "null" \/ Tokens!At(text, KeyOf(text).next) # "="
    BY DEF HasValue
  <2>2. PropertyOf(text) =
          IF KeyOf(text).text = "null" \/ Tokens!At(text, KeyOf(text).next) # "="
          THEN [made |-> FALSE, next |-> KeyOf(text).next, overread |-> FALSE]
          ELSE IF t = "num" THEN [made |-> TRUE, next |-> v + 1, overread |-> FALSE]
          ELSE IF t = "end" THEN [made |-> FALSE, next |-> v + 1, overread |-> TRUE]
          ELSE [made |-> n.text # "null", next |-> n.next, overread |-> FALSE]
    BY Zenon DEF PropertyOf, KeyOf, ValuePlace, ValueName, Tokens!PropertyAt
  <2> QED
    BY <2>1, <2>2, Zenon
<1> HIDE DEF v, n, t
<1>2. CASE ~HasValue(text)
  <2>1. PropertyOf(text) = [made |-> FALSE, next |-> KeyOf(text).next, overread |-> FALSE]
    BY <1>1, <1>2, Zenon
  <2> DEFINE k == KeyOf(text).next
  <2> HIDE DEF k
  <2>2. PropertyOf(text).next = k /\ PropertyOf(text).made = FALSE
    BY <2>1 DEF k
  <2> QED
    BY <1>2, <2>2, Zenon DEF k
<1>3. CASE HasValue(text) /\ t = "num"
  BY <1>1, <1>3 DEF t, v
<1>4. CASE HasValue(text) /\ t = "end"
  BY <1>1, <1>4 DEF t, v
<1>5. CASE HasValue(text) /\ t \notin {"num", "end"}
  <2>1. PropertyOf(text) = [made |-> n.text # "null", next |-> n.next, overread |-> FALSE]
    BY <1>1, <1>5
  <2>2. PropertyOf(text).next = n.next /\ PropertyOf(text).made = (n.text # "null")
    BY <2>1
  <2> QED
    BY <1>5, <2>2 DEF t, v, n
<1> QED
  BY <1>2, <1>3, <1>4, <1>5

LEMMA PropertiesAre ==
    ASSUME Common, NEW c, c = ClauseOf(text), NEW d, d = PropertyOf(text).next
    PROVE  /\ Tokens!At(text, c) # "(" =>
                PropertiesOf(text) = [ok |-> TRUE, made |-> FALSE, next |-> c, overread |-> FALSE]
           /\ Tokens!At(text, c) = "(" =>
                /\ PropertiesOf(text).ok = (Tokens!At(text, d) \in {")", "end"})
                /\ PropertiesOf(text).made <=> PropertyOf(text).made /\ Tokens!At(text, d) = ")"
                /\ PropertiesOf(text).next = IF Tokens!At(text, d) = ")" THEN d + 1 ELSE d
<1>1. Tokens!At(text, c) # "(" =>
        PropertiesOf(text) = [ok |-> TRUE, made |-> FALSE, next |-> c, overread |-> FALSE]
  BY DEF PropertiesOf, Tokens!Properties
<1>2. ASSUME Tokens!At(text, c) = "(", Tokens!At(text, c + 1) = ")"
      PROVE  /\ PropertiesOf(text) = [ok |-> TRUE, made |-> FALSE, next |-> c + 2, overread |-> FALSE]
             /\ d = c + 1 /\ PropertyOf(text).made = FALSE
  <2>1. PropertiesOf(text) = [ok |-> TRUE, made |-> FALSE, next |-> c + 2, overread |-> FALSE]
    BY <1>2 DEF PropertiesOf, Tokens!Properties
  <2>2. KeyOf(text) = [text |-> "empty", next |-> c + 1]
    <3>1. ")" \notin {"end", "num"} /\ ")" \notin {"id", "prim", "="} \cup Tokens!Suffixed
      BY DEF Tokens!Suffixed
    <3> QED
      BY <1>2, <3>1 DEF KeyOf, Tokens!Identifier
  <2>3. ~HasValue(text)
    BY <1>2, <2>2 DEF HasValue
  <2> QED
    BY <2>1, <2>2, <2>3, PropertyThere
<1>3. ASSUME Tokens!At(text, c) = "(", Tokens!At(text, c + 1) # ")"
      PROVE  PropertiesOf(text) =
               [ok |-> Tokens!At(text, d) \in {")", "end"},
                made |-> PropertyOf(text).made /\ Tokens!At(text, d) = ")",
                next |-> IF Tokens!At(text, d) = ")" THEN d + 1 ELSE d,
                overread |-> PropertyOf(text).overread]
  BY <1>3, Zenon DEF PropertiesOf, PropertyOf, Tokens!Properties
<1>4. c \in Int
  BY NameThere DEF Spots
<1>5. CASE Tokens!At(text, c) = "(" /\ Tokens!At(text, c + 1) = ")"
  <2>1. c + 2 = d + 1 /\ Tokens!At(text, d) = ")"
    BY <1>2, <1>4, <1>5
  <2>2. PropertiesOf(text) = [ok |-> TRUE, made |-> FALSE, next |-> c + 2, overread |-> FALSE]
    BY <1>2, <1>5
  <2>3. /\ PropertiesOf(text).ok = TRUE /\ PropertiesOf(text).made = FALSE
        /\ PropertiesOf(text).next = d + 1
    BY <2>1, <2>2
  <2>4. (Tokens!At(text, d) \in {")", "end"}) = TRUE
    BY <2>1
  <2>5. PropertyOf(text).made = FALSE
    BY <1>2, <1>5
  <2> QED
    BY <1>5, <2>1, <2>3, <2>4, <2>5, Zenon
<1>6. CASE Tokens!At(text, c) = "(" /\ Tokens!At(text, c + 1) # ")"
  <2> DEFINE o == Tokens!At(text, d) \in {")", "end"}
             m == PropertyOf(text).made /\ Tokens!At(text, d) = ")"
             n == IF Tokens!At(text, d) = ")" THEN d + 1 ELSE d
             r == PropertyOf(text).overread
  <2>1. PropertiesOf(text) = [ok |-> o, made |-> m, next |-> n, overread |-> r]
    BY <1>3, <1>6, Zenon
  <2> HIDE DEF o, m, n, r
  <2>2. PropertiesOf(text).ok = o /\ PropertiesOf(text).made = m /\ PropertiesOf(text).next = n
    BY <2>1
  <2> QED
    BY <1>6, <2>2, Zenon DEF o, m, n
<1> QED
  BY <1>1, <1>5, <1>6, Zenon

\* Behind the equals sign of a common text something follows.
LEMMA ValueFollows ==
    ASSUME Common, Tokens!At(text, ClauseOf(text)) = "(", HasValue(text)
    PROVE  Tokens!At(text, ValuePlace(text)) # "end"
<1> DEFINE c == ClauseOf(text)
           d == PropertyOf(text).next
           r == PropertyOf(text).overread
<1>1. SUFFICES ASSUME r PROVE FALSE
  BY PropertyThere
<1>2. CASE Tokens!At(text, c + 1) = ")"
  <2>1. ")" \notin {"end", "num"} /\ ")" \notin {"id", "prim", "="} \cup Tokens!Suffixed
    BY DEF Tokens!Suffixed
  <2>2. KeyOf(text) = [text |-> "empty", next |-> c + 1]
    BY <1>2, <2>1 DEF KeyOf, Tokens!Identifier
  <2> QED
    BY <1>2, <2>2 DEF HasValue
<1>3. CASE Tokens!At(text, c + 1) # ")"
  <2> DEFINE o == Tokens!At(text, d) \in {")", "end"}
             m == PropertyOf(text).made /\ Tokens!At(text, d) = ")"
             n == IF Tokens!At(text, d) = ")" THEN d + 1 ELSE d
  <2>1. PropertiesOf(text) = [ok |-> o, made |-> m, next |-> n, overread |-> r]
    BY <1>3, Zenon DEF PropertiesOf, PropertyOf, Tokens!Properties
  <2> HIDE DEF o, m, n, r
  <2>2. PropertiesOf(text).overread = r
    BY <2>1
  <2> QED
    BY <1>1, <2>2 DEF Common
<1> QED
  BY <1>2, <1>3

LEMMA CommonStays == UNCHANGED text => (Common' <=> Common)
  BY DEF Common

\* The invariant, from its parts behind a step
LEMMA SumHolds ==
    ASSUME Common, UNCHANGED text, TypeOf(text).text # "null", reading' \notin {"id", "deleted"},
           TypeSo', reading' # "name" => NameSo', InPlace', Ended'
    PROVE  SumInv'
<1>1. TypeOf(text') = TypeOf(text)
  OBVIOUS
<1> QED
  BY <1>1 DEF SumInv

LEMMA SumReads ==
    ASSUME Common, SumInv, reading \notin {"id", "deleted", "done"}
    PROVE  /\ TypeOf(text).text # "null" /\ TypeSo /\ (reading # "name" => NameSo) /\ InPlace /\ Ended
  BY DEF SumInv

\* Steps that leave the node's type and name alone
LEMMA SumKeeps ==
    ASSUME Common, SumInv, reading \notin {"id", "name", "deleted", "done"},
           UNCHANGED text, node'.made = node.made, node'.name = node.name,
           reading' \notin {"id", "deleted"}, InPlace', Ended'
    PROVE  SumInv'
<1>1. TypeOf(text).text # "null" /\ TypeSo /\ NameSo
  BY SumReads
<1>2. TypeSo' /\ NameSo'
  BY <1>1 DEF TypeSo, NameSo
<1> QED
  BY <1>1, <1>2, SumHolds

LEMMA SumInit == InitHeader => SumInv
  BY DEF InitHeader, SumInv

\* Each step leaves the cursor where DDLTokens has it.
LEMMA TypeSum ==
    ASSUME HeaderInv, Common, SumInv, ReadType
    PROVE  SumInv'
<1> DEFINE i == Identifier(1)
           j == i.next
<1>1. reading = "id" /\ in = 1 /\ node = NoNode /\ UNCHANGED text
  BY DEF ReadType, SumInv, Goto
<1>2. TypeOf(text).next = j /\ TypeOf(text).text = Outcome(i.of) /\ j \in Spots
  BY TypeThere
<1>3. Look(j) = j
  BY <1>2, CommonLook DEF Spots
<1>4. IF i.of = "null" THEN Goto("done", j) /\ UNCHANGED node
      ELSE /\ Goto("name", j)
           /\ node' = IF i.of = "empty" THEN node
                      ELSE [node EXCEPT !.made = TRUE, !.type = i.of]
  BY <1>1, <1>3 DEF ReadType
<1> HIDE DEF i, j
<1>5. CASE i.of = "null"
  <2>1. reading' = "done" /\ in' = TypeOf(text').next /\ ~node'.made
    BY <1>1, <1>2, <1>4, <1>5 DEF Goto, NoNode
  <2>2. TypeOf(text').text = "null"
    BY <1>1, <1>2, <1>5 DEF Outcome
  <2> QED
    BY <2>1, <2>2 DEF SumInv
<1>6. CASE i.of # "null"
  <2>1. reading' = "name" /\ in' = TypeOf(text').next
    BY <1>1, <1>2, <1>4, <1>6 DEF Goto
  <2>2. TypeOf(text).text # "null" /\ (TypeOf(text).text = "empty" <=> i.of = "empty")
    BY <1>2, <1>6, Zenon DEF Outcome
  <2>3. node'.name = "empty" /\ (node'.made <=> i.of # "empty")
    <3>1. node.made = FALSE /\ node.name = "empty"
          /\ node = [made |-> FALSE, type |-> "empty", name |-> "empty", props |-> Null]
      BY <1>1 DEF NoNode
    <3>2. CASE i.of = "empty"
      BY <1>4, <1>6, <3>1, <3>2
    <3>3. CASE i.of # "empty"
      <4>1. node' = [node EXCEPT !.made = TRUE, !.type = i.of]
        BY <1>4, <1>6, <3>3
      <4>2. node'.made = TRUE /\ node'.name = "empty"
        BY <3>1, <4>1
      <4> QED
        BY <3>3, <4>2
    <3> QED
      BY <3>2, <3>3
  <2>4. TypeSo'
    BY <1>1, <2>2, <2>3 DEF TypeSo
  <2>5. InPlace'
    BY <2>1, <2>3 DEF InPlace
  <2>6. Ended'
    BY <2>1 DEF Ended
  <2> QED
    BY <1>1, <2>1, <2>2, <2>4, <2>5, <2>6, SumHolds
<1> QED
  BY <1>5, <1>6

LEMMA NameSum ==
    ASSUME HeaderInv, Common, SumInv, ReadName
    PROVE  SumInv'
<1> DEFINE n == NameAt(in)
           j == n.next
<1>1. /\ reading = "name" /\ in = TypeOf(text).next /\ node.name = "empty" /\ UNCHANGED text
      /\ TypeOf(text).text # "null" /\ TypeSo
  BY SumReads DEF ReadName, InPlace, Goto
<1>2. NameOf(text).text = Outcome(n.of) /\ ClauseOf(text) = j /\ j \in Spots
  BY <1>1, NameThere
<1>3. Look(j) = j
  BY <1>2, CommonLook DEF Spots
<1>4. /\ Goto("clause", j)
      /\ n.of = "null" => UNCHANGED node
      /\ n.of # "null" /\ NameTaken(n.of) => node' = [node EXCEPT !.name = n.of]
      /\ n.of # "null" /\ ~NameTaken(n.of) => UNCHANGED node
  BY <1>3 DEF ReadName
<1>5. node \in [made : BOOLEAN, type : Token \cup {"empty"}, name : Token \cup {"empty"},
                props : Nat \cup {Null}]
  BY DEF HeaderInv, NodeOK
<1> HIDE DEF n, j
<1>6. NameTaken(n.of) <=> n.of # "empty" /\ node.made
  BY DEF NameTaken
<1>7. reading' = "clause" /\ in' = ClauseOf(text')
  BY <1>1, <1>2, <1>4 DEF Goto
<1>8. /\ node'.made = node.made
      /\ node'.name # "empty" <=> node.made /\ n.of \notin {"null", "empty"}
  <2>1. CASE n.of # "null" /\ NameTaken(n.of)
    BY <1>4, <1>5, <1>6, <2>1
  <2>2. CASE ~(n.of # "null" /\ NameTaken(n.of))
    <3>1. node' = node
      BY <1>4, <2>2
    <3> QED
      BY <1>1, <1>6, <2>2, <3>1
  <2> QED
    BY <2>1, <2>2
<1>9. TypeSo'
  BY <1>1, <1>8 DEF TypeSo
<1>10. NameSo'
  <2>1. NameOf(text).text = "word" <=> n.of \notin {"null", "empty"}
    BY <1>2 DEF Outcome
  <2> QED
    BY <1>1, <1>8, <2>1 DEF NameSo
<1>11. InPlace' /\ Ended'
  BY <1>7 DEF InPlace, Ended
<1> QED
  BY <1>1, <1>7, <1>9, <1>10, <1>11, SumHolds

LEMMA ClauseSum ==
    ASSUME HeaderInv, Common, SumInv, OpenClause
    PROVE  SumInv'
<1> DEFINE c == ClauseOf(text)
           k == c + 1
           p == PropertiesOf(text)
           n == Len(text)
<1>1. /\ reading = "clause" /\ in = c /\ UNCHANGED <<text, node>> /\ c \in Spots
  BY SumReads, NameThere DEF OpenClause, InPlace, Goto
<1>2. c \in Int /\ Tokens!At(text, c) = At(c) /\ n \in Nat
  <2>1. c \in Int
    BY <1>1 DEF Spots
  <2> QED
    BY <2>1, CommonAt, LenProperties DEF Common
<1>3. node'.props = Null
  BY <1>1 DEF HeaderInv, RootsOK
<1> HIDE DEF c, n, p
<1>4. CASE At(c) # "("
  <2>1. reading' = "done" /\ in' = c
    BY <1>1, <1>4 DEF OpenClause, Goto
  <2>2. p = [ok |-> TRUE, made |-> FALSE, next |-> c, overread |-> FALSE]
    BY <1>2, <1>4, PropertiesAre DEF c, p
  <2>3. p.ok = TRUE /\ p.made = FALSE /\ p.next = c
    BY <2>2
  <2>4. InPlace'
    BY <2>1 DEF InPlace
  <2>5. Ended'
    <3>1. PropertiesOf(text') = p
      BY <1>1 DEF p
    <3> QED
      BY <1>3, <2>1, <2>3, <3>1 DEF Ended
  <2> QED
    BY <1>1, <2>1, <2>4, <2>5, SumKeeps
<1>5. CASE At(c) = "("
  <2>1. k \in Spots /\ Look(k) = k
    <3>1. k \in Spots
      BY <1>2, <1>5, KeyThere DEF c
    <3> HIDE DEF k
    <3> QED
      BY <3>1, CommonLook DEF Spots
  <2>2. k \in Int /\ k <= n + 1
    BY <1>2, <2>1 DEF Spots, n
  <2>3. CASE k <= n
    <3>1. reading' = "key" /\ in' = k
      BY <1>1, <1>5, <2>1, <2>3 DEF OpenClause, Goto, n
    <3>2. InPlace'
      BY <1>1, <1>2, <1>5, <3>1 DEF InPlace, c
    <3>3. Ended'
      BY <3>1 DEF Ended
    <3> QED
      BY <1>1, <3>1, <3>2, <3>3, SumKeeps
  <2>4. CASE ~(k <= n)
    <3>1. reading' = "done" /\ in' = k
      BY <1>1, <1>5, <2>1, <2>4 DEF OpenClause, Goto, n
    <3>2. Tokens!At(text, k) = "end"
      <4>1. At(k) = "end"
        <5>1. k \notin 1 .. n
          BY <1>2, <2>2, <2>4
        <5> QED
          BY <2>2, <5>1, AtIs DEF Common, n
      <4> QED
        BY <2>2, <4>1, CommonAt
    <3>3. KeyOf(text) = [text |-> "null", next |-> k]
      <4>1. "end" \notin {"id", "prim", "="} \cup Tokens!Suffixed
        BY DEF Tokens!Suffixed
      <4> QED
        BY <3>2, <4>1 DEF KeyOf, Tokens!Identifier, c
    <3> DEFINE d == PropertyOf(text).next
    <3>4. d = k /\ PropertyOf(text).made = FALSE
      <4>1. ~HasValue(text)
        BY <3>3 DEF HasValue
      <4> QED
        BY <3>3, <4>1, PropertyThere
    <3>5. /\ p.ok = (Tokens!At(text, d) \in {")", "end"})
          /\ p.made <=> PropertyOf(text).made /\ Tokens!At(text, d) = ")"
          /\ p.next = IF Tokens!At(text, d) = ")" THEN d + 1 ELSE d
      BY <1>2, <1>5, PropertiesAre DEF c, p
    <3>6. p.ok /\ ~p.made /\ p.next = k
      <4>1. p.ok
        BY <3>2, <3>4, <3>5
      <4>2. ~p.made
        BY <3>4, <3>5, Zenon
      <4>3. p.next = k
        BY <3>2, <3>4, <3>5
      <4> QED
        BY <4>1, <4>2, <4>3
    <3>7. InPlace'
      BY <3>1 DEF InPlace
    <3>8. Ended'
      <4>1. PropertiesOf(text') = p
        BY <1>1 DEF p
      <4> QED
        BY <1>3, <3>1, <3>6, <4>1 DEF Ended
    <3> QED
      BY <1>1, <3>1, <3>7, <3>8, SumKeeps
  <2> QED
    BY <2>3, <2>4
<1> QED
  BY <1>4, <1>5

LEMMA KeySum ==
    ASSUME HeaderInv, Common, SumInv, ReadKey
    PROVE  SumInv'
<1> DEFINE c == ClauseOf(text)
           k == c + 1
           id == Identifier(k)
           j == id.next
<1>1. /\ reading = "key" /\ in = k /\ UNCHANGED <<text, node, prop>>
      /\ Tokens!At(text, c) = "("
  BY SumReads DEF ReadKey, InPlace, Goto
<1>2. KeyOf(text).next = j /\ KeyOf(text).text = Outcome(id.of) /\ j \in Spots
  BY <1>1, KeyThere
<1>3. Look(j) = j
  BY <1>2, CommonLook DEF Spots
<1>4. Tokens!At(text, j) = At(j) /\ At(j) # "=."
  <2>1. j \in Int
    BY <1>2 DEF Spots
  <2>2. At(j) \in CommonToken \cup {"end"} /\ Tokens!At(text, j) = At(j)
    BY <2>1, CommonAt
  <2> HIDE DEF j
  <2>3. At(j) # "=."
    BY <2>2, Zenon DEF CommonToken
  <2> QED
    BY <2>2, <2>3
<1>5. IF id.of # "null" /\ At(j) \in {"=", "=."}
      THEN Goto("value", j + 1)
      ELSE Goto("behind", j)
  BY <1>1, <1>3 DEF ReadKey
<1>6. prop = Null
  BY <1>1 DEF HeaderInv, RootsOK
<1>7. HasValue(text) <=> id.of # "null" /\ At(j) = "="
  BY <1>2, <1>4 DEF HasValue, Outcome
<1> HIDE DEF c, k, id, j
<1>8. CASE HasValue(text)
  <2>1. reading' = "value" /\ in' = ValuePlace(text)
    BY <1>2, <1>5, <1>7, <1>8 DEF Goto, ValuePlace
  <2>2. InPlace'
    BY <1>1, <1>8, <2>1 DEF InPlace, c
  <2>3. Ended'
    BY <2>1 DEF Ended
  <2> QED
    BY <1>1, <2>1, <2>2, <2>3, SumKeeps
<1>9. CASE ~HasValue(text)
  <2>1. reading' = "behind" /\ in' = PropertyOf(text).next /\ PropertyOf(text).made = FALSE
    BY <1>2, <1>4, <1>5, <1>7, <1>9, PropertyThere DEF Goto
  <2>2. InPlace'
    BY <1>1, <1>6, <2>1 DEF InPlace, c
  <2>3. Ended'
    BY <2>1 DEF Ended
  <2> QED
    BY <1>1, <2>1, <2>2, <2>3, SumKeeps
<1> QED
  BY <1>8, <1>9

\* Where a value is read, and what is there
LEMMA ValueThere ==
    ASSUME HeaderInv, Common, SumInv, reading = "value"
    PROVE  /\ Tokens!At(text, ClauseOf(text)) = "(" /\ HasValue(text)
           /\ in = ValuePlace(text) /\ in \in Spots /\ in \in Int
           /\ ~Dropped /\ ValueAt = in
           /\ Tokens!At(text, in) = At(in) /\ At(in) # "end"
           /\ LiteralRead = IF At(in) = "num" THEN "12" ELSE "none"
<1> DEFINE q == KeyOf(text).next
<1>1. Tokens!At(text, ClauseOf(text)) = "(" /\ HasValue(text) /\ in = ValuePlace(text)
  BY SumReads DEF InPlace
<1>2. in \in Spots /\ q \in Spots /\ q <= Len(text)
  BY <1>1, KeyThere
<1>3. Look(in) = in
  BY <1>2, CommonLook DEF Spots
<1>4. in = q + 1 /\ q \in Int /\ in \in Int /\ in - 1 = q /\ q \in 1 .. Len(text)
  <2>1. in = q + 1
    BY <1>1 DEF ValuePlace
  <2> DEFINE n == Len(text)
  <2>2. q \in 1 .. n + 1 /\ q <= n /\ n \in Nat
    BY <1>2, LenProperties DEF Spots, Common
  <2> HIDE DEF q, n
  <2>3. q \in Int /\ in \in Int /\ in - 1 = q /\ q \in 1 .. n
    BY <2>1, <2>2
  <2> QED
    BY <2>1, <2>3 DEF n
<1>5. Tokens!At(text, q) = "="
  BY <1>1 DEF HasValue
<1> HIDE DEF q
<1>6. text[q] = "="
  <2>1. At(q) = "=" /\ At(q) = text[q]
    BY <1>4, <1>5, CommonAt, AtIs DEF Common
  <2> QED
    BY <2>1
<1>7. ~Dropped
  BY <1>4, <1>6 DEF Dropped
<1>8. ValueAt = in
  BY <1>3, <1>7 DEF ValueAt
<1>11. Tokens!At(text, in) # "end"
  BY <1>1, ValueFollows
<1>9. Tokens!At(text, in) = At(in) /\ At(in) \notin {"neg", "real", "str"}
  <2>1. Tokens!At(text, in) = At(in) /\ At(in) \in CommonToken \cup {"end"}
    BY <1>4, CommonAt
  <2>2. At(in) \notin {"neg", "real", "str"}
    BY <2>1, Zenon DEF CommonToken
  <2> QED
    BY <2>1, <2>2
<1>10. LiteralRead = IF At(in) = "num" THEN "12" ELSE "none"
  <2> DEFINE t == At(in)
  <2>1. LiteralRead = CASE t = "num"  -> "12"
                        [] t = "neg"  -> "null"
                        [] t = "real" -> "1.5"
                        [] t = "str"  -> "abc"
                        [] OTHER -> "none"
    BY <1>7, <1>8 DEF LiteralRead
  <2> HIDE DEF t
  <2>2. t \notin {"neg", "real", "str"}
    BY <1>9 DEF t
  <2>3. LiteralRead = IF t = "num" THEN "12" ELSE "none"
    BY <2>1, <2>2
  <2> QED
    BY <2>3 DEF t
<1> QED
  BY <1>1, <1>2, <1>4, <1>7, <1>8, <1>9, <1>10, <1>11

LEMMA ValueSum ==
    ASSUME HeaderInv, Common, SumInv, ReadValue
    PROVE  SumInv'
<1>1. /\ reading = "value" /\ UNCHANGED <<text, node, names>>
  BY DEF ReadValue, Goto
<1>2. /\ Tokens!At(text, ClauseOf(text)) = "(" /\ HasValue(text)
      /\ in = ValuePlace(text) /\ in \in Int /\ ~Dropped /\ ValueAt = in
      /\ Tokens!At(text, in) = At(in)
      /\ LiteralRead = IF At(in) = "num" THEN "12" ELSE "none"
  BY <1>1, ValueThere
<1>3. names = <<>> /\ prop = Null
  BY <1>1 DEF HeaderInv, RootsOK
<1>4. CASE At(in) = "num"
  <2>1. prop' = Newest /\ Goto("behind", in + 1)
    <3>1. LiteralRead \notin {"none", "null"}
      BY <1>2, <1>4
    <3> QED
      BY <1>2, <3>1, Zenon DEF ReadValue
  <2>2. prop' # Null
    <3>1. Tree'
      BY ValueRead DEF HeaderInv
    <3> QED
      BY <2>1, <3>1, NewestIs
  <2>3. PropertyOf(text).next = in + 1 /\ PropertyOf(text).made = TRUE
    BY <1>2, <1>4, PropertyThere
  <2>4. reading' = "behind" /\ in' = PropertyOf(text).next
    BY <2>1, <2>3 DEF Goto
  <2>5. InPlace'
    BY <1>1, <1>2, <2>2, <2>3, <2>4 DEF InPlace
  <2>6. Ended'
    BY <2>4 DEF Ended
  <2> QED
    BY <1>1, <2>4, <2>5, <2>6, SumKeeps
<1>5. CASE At(in) # "num"
  <2>1. Goto("names", in) /\ UNCHANGED prop
    <3>1. LiteralRead = "none"
      BY <1>2, <1>5
    <3> QED
      BY <1>2, <3>1 DEF ReadValue
  <2>2. reading' = "names" /\ in' = in
    BY <2>1 DEF Goto
  <2>3. InPlace'
    BY <1>1, <1>2, <1>3, <1>5, <2>2 DEF InPlace
  <2>4. Ended'
    BY <2>2 DEF Ended
  <2> QED
    BY <1>1, <2>2, <2>3, <2>4, SumKeeps
<1> QED
  BY <1>4, <1>5

LEMMA PastEndSum ==
    ASSUME HeaderInv, Common, SumInv, ReadPastEnd
    PROVE  FALSE
<1> DEFINE n == Len(text)
<1>1. reading = "value" /\ ValueAt > n
  BY DEF ReadPastEnd
<1>2. in \in Int /\ ValueAt = in /\ At(in) # "end"
  BY <1>1, ValueThere
<1>3. n \in Nat
  BY LenProperties DEF Common
<1> HIDE DEF n
<1>4. in \notin 1 .. n
  BY <1>1, <1>2, <1>3
<1> QED
  BY <1>2, <1>4, AtIs DEF Common, n

LEMMA ReferenceSum ==
    ASSUME HeaderInv, Common, SumInv, ReadReference
    PROVE  SumInv'
<1> DEFINE n == NameAt(in)
           v == ValueName(text)
<1>1. /\ reading = "names" /\ names = <<>> /\ in = ValuePlace(text) /\ UNCHANGED <<text, node, prop>>
      /\ Tokens!At(text, ClauseOf(text)) = "(" /\ HasValue(text)
      /\ Tokens!At(text, ValuePlace(text)) # "num"
  BY SumReads DEF ReadReference, InPlace, Goto
<1>2. in \in Spots
  BY <1>1, KeyThere
<1>3. v.next = n.next /\ v.text = Outcome(n.of) /\ n.next \in Spots
  <2>1. /\ Tokens!Name(text, in).next = n.next /\ Tokens!Name(text, in).text = Outcome(n.of)
        /\ n.next \in in .. Len(text) + 1
    BY <1>2, CommonName DEF Spots
  <2>2. n.next \in Spots
    BY <1>2, <2>1, SpotsFrom
  <2> QED
    BY <1>1, <2>1, <2>2 DEF ValueName
<1>4. At(n.next) # "comma"
  <2> DEFINE j == n.next
  <2>1. j \in Int
    BY <1>3 DEF Spots
  <2> HIDE DEF j
  <2>2. At(j) \in CommonToken \cup {"end"}
    BY <2>1, CommonAt
  <2>3. At(j) # "comma"
    BY <2>2, Zenon DEF CommonToken
  <2> QED
    BY <2>3 DEF j
<1>5. /\ Goto("reference", n.next)
      /\ IF n.of = "null" THEN names' = names ELSE names' = Append(names, Newest)
  BY <1>4 DEF ReadReference
<1> HIDE DEF n, v
<1>6. names' # <<>> <=> v.text # "null"
  <2>1. v.text = "null" <=> n.of = "null"
    BY <1>3 DEF Outcome
  <2>2. \A x : Append(<<>>, x) # <<>>
    OBVIOUS
  <2> QED
    BY <1>1, <1>5, <2>1, <2>2
<1>7. reading' = "reference" /\ in' = v.next
  BY <1>3, <1>5 DEF Goto
<1>8. InPlace'
  BY <1>1, <1>6, <1>7 DEF InPlace, v
<1>9. Ended'
  BY <1>7 DEF Ended
<1> QED
  BY <1>1, <1>7, <1>8, <1>9, SumKeeps

LEMMA MadeSum ==
    ASSUME HeaderInv, Common, SumInv, MakeReference
    PROVE  SumInv'
<1> DEFINE v == ValueName(text)
<1>1. /\ reading = "reference" /\ UNCHANGED <<text, node>>
      /\ Tokens!At(text, ClauseOf(text)) = "(" /\ HasValue(text)
      /\ Tokens!At(text, ValuePlace(text)) # "num"
      /\ in = v.next /\ (names # <<>> <=> v.text # "null")
  BY SumReads DEF MakeReference, InPlace, Goto
<1>2. prop = Null
  BY <1>1 DEF HeaderInv, RootsOK
<1>3. PropertyOf(text).next = v.next /\ PropertyOf(text).made = (v.text # "null")
  BY <1>1, ValueFollows, PropertyThere
<1> HIDE DEF v
<1>4. reading' = "behind" /\ in' = PropertyOf(text).next
  BY <1>1, <1>3 DEF MakeReference, Goto
<1>5. prop' # Null <=> names # <<>>
  <2>1. CASE names = <<>>
    BY <1>2, <2>1 DEF MakeReference
  <2>2. CASE names # <<>>
    <3>1. prop' = Newest
      BY <2>2 DEF MakeReference
    <3>2. Tree'
      BY ReferenceMade DEF HeaderInv
    <3> QED
      BY <2>2, <3>1, <3>2, NewestIs
  <2> QED
    BY <2>1, <2>2
<1>6. prop' # Null <=> PropertyOf(text).made
  BY <1>1, <1>3, <1>5, Zenon
<1>7. InPlace'
  BY <1>1, <1>4, <1>6 DEF InPlace
<1>8. Ended'
  BY <1>4 DEF Ended
<1> QED
  BY <1>1, <1>4, <1>7, <1>8, SumKeeps

LEMMA PropertySum ==
    ASSUME HeaderInv, Common, SumInv, BehindProperty
    PROVE  SumInv'
<1> DEFINE q == PropertyOf(text)
           p == PropertiesOf(text)
           d == q.next
<1>1. /\ reading = "behind" /\ UNCHANGED text /\ Tokens!At(text, ClauseOf(text)) = "("
      /\ in = d /\ (prop # Null <=> q.made)
  BY SumReads DEF BehindProperty, InPlace, Goto
<1>2. in \in Spots /\ in \in Int
  <2>1. in \in 1 .. Len(text) + 1
    BY <1>1, CursorAt DEF HeaderInv
  <2> QED
    BY <2>1 DEF Spots
<1>3. Look(in) = in /\ Tokens!At(text, in) = At(in)
  BY <1>2, CommonLook, CommonAt DEF Spots
<1>4. /\ p.ok = (Tokens!At(text, d) \in {")", "end"})
      /\ p.made <=> q.made /\ Tokens!At(text, d) = ")"
      /\ p.next = IF Tokens!At(text, d) = ")" THEN d + 1 ELSE d
  BY <1>1, PropertiesAre
<1> HIDE DEF q, p, d
<1>5. /\ At(in) = "end" => Goto("done", in)
      /\ At(in) = ")" => Goto("done", in + 1)
      /\ At(in) \notin {"end", ")"} => Goto("failed", 0)
      /\ node' = IF At(in) = ")" /\ node.made THEN [node EXCEPT !.props = prop] ELSE node
  BY <1>3 DEF BehindProperty, Kept
<1>6. /\ node \in [made : BOOLEAN, type : Token \cup {"empty"}, name : Token \cup {"empty"},
                   props : Nat \cup {Null}]
      /\ node.props = Null
  BY <1>1 DEF HeaderInv, NodeOK, RootsOK
<1>7. /\ node'.made = node.made /\ node'.name = node.name
      /\ node'.props = IF At(in) = ")" /\ node.made THEN prop ELSE Null
  BY <1>5, <1>6
<1>8. /\ reading' \in {"done", "failed"} /\ (reading' = "failed" <=> At(in) \notin {"end", ")"})
      /\ reading' = "done" => in' = p.next
  <2>1. CASE At(in) = "end"
    BY <1>1, <1>3, <1>4, <1>5, <2>1 DEF Goto
  <2>2. CASE At(in) = ")"
    BY <1>1, <1>3, <1>4, <1>5, <2>2 DEF Goto
  <2>3. CASE At(in) \notin {"end", ")"}
    BY <1>5, <2>3 DEF Goto
  <2> QED
    BY <2>1, <2>2, <2>3
<1>9. p.ok <=> At(in) \in {"end", ")"}
  <2>1. (Tokens!At(text, d) \in {")", "end"}) <=> At(in) \in {"end", ")"}
    BY <1>1, <1>3
  <2> QED
    BY <1>4, <2>1, Zenon
<1>10. p.made <=> prop # Null /\ At(in) = ")"
  <2>1. Tokens!At(text, d) = At(in)
    BY <1>1, <1>3
  <2> QED
    BY <1>1, <1>4, <2>1, Zenon
<1>11. node'.props # Null <=> node'.made /\ p.ok /\ p.made
  <2>1. node'.props # Null <=> node.made /\ At(in) = ")" /\ prop # Null
    BY <1>7
  <2>2. At(in) = ")" => At(in) \in {"end", ")"}
    OBVIOUS
  <2> QED
    BY <1>7, <1>9, <1>10, <2>1, <2>2, Zenon
<1>12. Ended'
  <2>1. PropertiesOf(text') = p
    BY <1>1 DEF p
  <2>2. reading' = "failed" <=> ~p.ok
    BY <1>8, <1>9, Zenon
  <2> QED
    BY <1>8, <1>11, <2>1, <2>2, Zenon DEF Ended
<1>13. InPlace'
  BY <1>8 DEF InPlace
<1> QED
  BY <1>1, <1>7, <1>8, <1>12, <1>13, SumKeeps

LEMMA SumStays == HeaderInv /\ SumInv /\ [NextHeader]_headerVars => SumInv'
<1> SUFFICES ASSUME HeaderInv, SumInv, [NextHeader]_headerVars PROVE SumInv'
  OBVIOUS
<1>1. UNCHANGED text
  BY OriginStays DEF headerVars, cursor
<1>2. CASE ~Common
  BY <1>1, <1>2, CommonStays DEF SumInv
<1>3. CASE Common /\ Step
  BY <1>3, TypeSum, NameSum, ClauseSum, KeySum, ValueSum, PastEndSum,
     ReferenceSum, MadeSum, PropertySum DEF Step
<1>4. CASE DeleteNode
  <2>1. reading' = "deleted"
    BY <1>4 DEF DeleteNode, Goto
  <2> QED
    BY <2>1 DEF SumInv
<1>5. CASE SetRef \/ DeleteValue \/ UNCHANGED headerVars
  <2>1. UNCHANGED <<text, in, reading, node, names, prop>>
    BY <1>5 DEF SetRef, DeleteValue, headerVars, cursor, locals
  <2>2. Common' <=> Common
    BY <1>1, CommonStays
  <2>3. InPlace' <=> InPlace
    BY <2>1 DEF InPlace
  <2>4. (Ended' <=> Ended) /\ (TypeSo' <=> TypeSo) /\ (NameSo' <=> NameSo)
    BY <2>1 DEF Ended, TypeSo, NameSo
  <2> QED
    BY <2>1, <2>2, <2>3, <2>4 DEF SumInv
<1> QED
  BY <1>2, <1>3, <1>4, <1>5 DEF NextHeader

LEMMA SumAlways == HeaderSpec => []SumInv
  BY SumInit, SumStays, HeaderInvAlways, PTL DEF HeaderSpec

LEMMA SumAgrees == HeaderInv /\ SumInv => SummaryAgrees
<1> DEFINE id == Tokens!Identifier(text, 1)
           n  == Tokens!Name(text, id.next)
           p  == Tokens!Properties(text, n.next)
<1> SUFFICES ASSUME HeaderInv, SumInv, Read, ToSet(text) \subseteq Tokens!Token, ~p.overread
             PROVE  IF id.text = "null" THEN in = id.next /\ ~node.made
                    ELSE /\ (reading = "failed") = ~p.ok
                         /\ reading = "done" => in = p.next
                         /\ node.made = (id.text = "word")
                         /\ (node.name # "empty") = (node.made /\ n.text = "word")
                         /\ (node.props # Null) = (node.made /\ p.ok /\ p.made)
  BY Zenon DEF SummaryAgrees
<1>2. id = TypeOf(text) /\ n = NameOf(text) /\ p = PropertiesOf(text)
  BY DEF TypeOf, NameOf, PropertiesOf, ClauseOf
<1>1. Common
  BY <1>2 DEF Common, HeaderInv, CursorOK
<1>3. reading \in {"done", "failed"}
  BY DEF Read
<1> HIDE DEF id, n, p
<1>4. CASE id.text = "null"
  BY <1>1, <1>2, <1>3, <1>4 DEF SumInv
<1>5. CASE id.text # "null"
  <2>1. TypeSo /\ NameSo /\ Ended
    BY <1>1, <1>2, <1>3, <1>5 DEF SumInv
  <2>2. node.made \in BOOLEAN /\ (id.text = "word" <=> id.text # "empty")
    <3>1. id.text = Outcome(Identifier(1).of)
      BY <1>1, <1>2, TypeThere
    <3>2. node.made \in BOOLEAN
      BY DEF HeaderInv, NodeOK
    <3> QED
      BY <1>5, <3>1, <3>2 DEF Outcome
  <2>3. (reading = "failed") = ~p.ok /\ (reading = "done" => in = p.next)
    BY <1>2, <1>3, <2>1, Zenon DEF Ended
  <2>4. node.made = (id.text = "word")
    BY <1>2, <2>1, <2>2, Zenon DEF TypeSo
  <2>5. (node.name # "empty") = (node.made /\ n.text = "word")
    BY <1>2, <2>1, Zenon DEF NameSo
  <2>6. (node.props # Null) = (node.made /\ p.ok /\ p.made)
    BY <1>2, <1>3, <2>1, Zenon DEF Ended
  <2> QED
    BY <1>5, <2>3, <2>4, <2>5, <2>6, Zenon
<1> QED
  BY <1>4, <1>5

\* On every text of DDLTokens' tokens whose header does not read past the end, the calls
\* of a header come to the cursor, the verdict, the node, the name and the property that DDLParser takes in one step.
THEOREM HeaderSummaryAgrees == HeaderSpec => []SummaryAgrees
  BY HeaderInvAlways, SumAlways, SumAgrees, PTL
=============================================================================

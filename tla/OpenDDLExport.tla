--------------------------- MODULE OpenDDLExport ---------------------------
(***************************************************************************)
(* An object of class OpenDDLExport (code/OpenDDLExport.cpp) with the      *)
(* IOStreamBase it owns (code/OpenDDLStream.cpp) and the file behind it.   *)
(* A client exports a parsed context, to a named file or to the stream as  *)
(* it is, and destroys the exporter.  Opening a file and writing to it can *)
(* fail.                                                                   *)
(*                                                                         *)
(* Node 1 is the root of the context; a child's number is greater than its *)
(* parent's.  What is written is a sequence of statements.                 *)
(***************************************************************************)
EXTENDS Integers, SequencesExt

CONSTANTS
    Node,       \* 1 .. n
    Children,   \* the child lists a context can have
    MaxExports  \* bound: calls of exportContext

ASSUME NodeAssumption == \E n \in Node \cap Nat : Node = 1 .. n
ASSUME ChildrenAssumption ==
    /\ Children \subseteq [Node -> Seq(Node)]
    /\ \A c \in Children : \A n \in Node : \A i \in DOMAIN c[n] : c[n][i] > n
ASSUME MaxExportsAssumption == MaxExports \in Nat

VARIABLES
    children,   \* m_children
    refsOnly,   \* nodes whose dtArrayList is a list of references without values
    file,       \* the statements in the file
    handle,     \* m_file, 0 for nullptr
    opened,     \* FILE objects created so far
    open,       \* FILE objects that were not closed
    frames,     \* handleNode activations: the node and the iterator's m_idx
    visited,    \* nodes given to writeNode by the export under way
    lost,       \* a write of the export under way did not reach the file
    result,     \* of the last exportContext, "empty" for true without a root
    exports,    \* calls of exportContext, for MaxExports
    pc          \* "idle", "walk", "gone" once destroyed, or "undefined"

input  == <<children, refsOnly>>
stream == <<file, handle, opened, open>>
walk   == <<frames, visited, lost>>
vars   == <<input, stream, walk, result, exports, pc>>

Init ==
    /\ children \in Children
    /\ refsOnly \in SUBSET Node
    /\ file = <<>> /\ handle = 0 /\ opened = 0 /\ open = {}
    /\ frames = <<>> /\ visited = <<>> /\ lost = FALSE
    /\ result = "none" /\ exports = 0 /\ pc = "idle"

\* IOStreamBase::open: the file is appended to; a handle already there is
\* overwritten, not closed.
Truncated(f) == <<>>
Appended(f) == f

Open ==
    \/ /\ opened' = opened + 1
       /\ handle' = opened'
       /\ open' = open \cup {handle'}
       /\ file' = Appended(file)
    \/ handle' = 0 /\ UNCHANGED <<opened, open, file>>

\* exportContext without a context returns false, with one that has no root true
ExportNothing ==
    /\ pc = "idle"
    /\ result' \in {"false", "empty"}
    /\ UNCHANGED <<input, stream, walk, exports, pc>>

\* exportContext up to its handleNode
Export(named) ==
    /\ pc = "idle"
    /\ exports < MaxExports
    /\ exports' = exports + 1
    /\ IF named THEN Open ELSE UNCHANGED stream
    /\ visited' = <<>>
    /\ lost' = FALSE
    /\ IF named /\ handle' = 0
       THEN result' = "false" /\ UNCHANGED <<frames, pc>>
       ELSE /\ frames' = <<[node |-> 1, idx |-> 0]>>
            /\ result' = "none"
            /\ pc' = "walk"
    /\ UNCHANGED input

Frame == frames[Len(frames)]
Siblings == children[Frame.node]

\* DDLNodeIterator::getNext: m_idx is incremented before it is used.
HasNext == Len(Siblings) > Frame.idx + 1
Current == Siblings[Frame.idx + 2]

\* The activation of handleNode for the node just written, or none by mistake
NotEntered(fs, n) == fs
Entered(fs, n) == Append(fs, [node |-> n, idx |-> 0])

(***************************************************************************)
(* One turn of handleNode's loop.  writeNode collects header, properties   *)
(* and data in its statement, but assigns a lone brace to it in the end:   *)
(* that is all it writes.  Without a file the statement is dropped, and a  *)
(* failed fwrite is not noticed.                                           *)
(***************************************************************************)
Statement(n) == "}"

WriteNode ==
    /\ pc = "walk"
    /\ HasNext
    /\ Current \notin refsOnly
    /\ visited' = Append(visited, Current)
    /\ \/ handle # 0 /\ file' = Append(file, Statement(Current)) /\ UNCHANGED lost
       \/ lost' = TRUE /\ UNCHANGED file
    /\ frames' = Entered([frames EXCEPT ![Len(frames)].idx = @ + 1], Current)
    /\ UNCHANGED <<input, handle, opened, open, result, exports, pc>>

\* writeNode reads the type of the first value of the array list: without one
\* it dereferences a null pointer.
WriteNodeWithoutValues ==
    /\ pc = "walk"
    /\ HasNext
    /\ Current \in refsOnly
    /\ pc' = "undefined"
    /\ UNCHANGED <<input, stream, walk, result, exports>>

\* handleNode returns, the outermost one to exportContext.  No error reaches it.
AnyActivation == TRUE
Outermost == Len(frames) = 1

EndOfChildren ==
    /\ pc = "walk"
    /\ ~HasNext
    /\ frames' = Front(frames)
    /\ IF Outermost
       THEN pc' = "idle" /\ result' = "true"
       ELSE UNCHANGED <<pc, result>>
    /\ UNCHANGED <<input, stream, visited, lost, exports>>

\* ~OpenDDLExport closes the stream, if it is open, and deletes it.
LeftOpen == open
Closed == open \ {handle}

Destroy ==
    /\ pc = "idle"
    /\ open' = Closed
    /\ handle' = 0
    /\ pc' = "gone"
    /\ UNCHANGED <<input, file, opened, walk, result, exports>>

Next ==
    \/ ExportNothing
    \/ \E named \in BOOLEAN : Export(named)
    \/ WriteNode \/ WriteNodeWithoutValues \/ EndOfChildren
    \/ Destroy

Spec == Init /\ [][Next]_vars

-----------------------------------------------------------------------------
\* Types of the variables.
TypeOK ==
    /\ handle \in 0 .. opened
    /\ open \subseteq 1 .. opened
    /\ frames \in Seq([node : Node, idx : Nat])
    /\ visited \in Seq(Node)
    /\ exports \in 0 .. MaxExports
    /\ lost \in BOOLEAN
    /\ result \in {"none", "true", "false", "empty"}
    /\ pc \in {"idle", "walk", "gone", "undefined"}
    /\ pc = "walk" <=> frames # <<>> /\ pc # "undefined"

\* The order in which a tree is written when every child list lacks its first
\* element: a node before what is below it, siblings in their order.
Written ==
    LET below[n \in Node] ==
          FlattenSeq([i \in 1 .. Len(children[n]) - 1 |->
                        <<children[n][i + 1]>> \o below[children[n][i + 1]]])
    IN  below[1]

\* While the walk is under way it has written a beginning of that order, with
\* no node left out or written twice, and at its end the whole of it: saving
\* one iterator in each activation is enough.
WritesInOrder ==
    /\ IsPrefix(visited, Written)
    /\ pc = "idle" /\ result = "true" => visited = Written

\* What earlier exports, and other users, have put into a file stays there.
FileOnlyGrows == [][IsPrefix(file, file')]_file

\* An exporter leaves no file open behind it but those a later exportContext of
\* its own took the place of; one that is used once leaves none, whether opening
\* and writing failed or not.
NoFileLeftOpen ==
    /\ pc = "gone" /\ exports <= 1 => open = {}
    /\ open \ {handle} # {} => exports > 1

\* OpenDDLExport.h:51: exportContext returns "True in case of success, false in
\* case of an error": what it reports as written to a file is in that file.
TrueMeansWritten ==
    pc = "idle" /\ result = "true" /\ handle # 0 => ~lost
=============================================================================

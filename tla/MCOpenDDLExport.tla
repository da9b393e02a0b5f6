-------------------------- MODULE MCOpenDDLExport --------------------------
(* Every tree of up to five nodes, with any of them without values.        *)
EXTENDS OpenDDLExport

MCNode == 1 .. 5

\* The child lists of a tree given by its parents; a node of parent 0 is not in it.
ListsOf(up) == [n \in MCNode |-> SelectSeq(<<2, 3, 4, 5>>, LAMBDA m : up[m] = n)]

MCChildren ==
    {ListsOf(up) : up \in {f \in [2 .. 5 -> 0 .. 4] : \A m \in 2 .. 5 : f[m] < m}}
=============================================================================

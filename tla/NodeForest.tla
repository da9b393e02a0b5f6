----------------------------- MODULE NodeForest -----------------------------
(***************************************************************************)
(* What the node tree promises to its owner: nodes form a forest, a node   *)
(* is linked to and unlinked from a parent, and deleting a node that has   *)
(* no parent destroys exactly the nodes below it, in one step.             *)
(***************************************************************************)
CONSTANTS Node, Null

VARIABLES
    nodes,      \* nodes that exist
    up          \* the parent of each

Descends(S) == \A m \in nodes : up[m] \in S => m \in S

\* n and the nodes below it: the smallest set with n that is closed under child
Subtree(n) ==
    {m \in nodes : \A S \in SUBSET nodes : n \in S /\ Descends(S) => m \in S}

Init == nodes = {} /\ up = [n \in {} |-> Null]

Create(n, p) ==
    /\ n \notin nodes
    /\ p \in nodes \cup {Null}
    /\ nodes' = nodes \cup {n}
    /\ up' = [m \in nodes' |-> IF m = n THEN p ELSE up[m]]

Attach(n, p) ==
    /\ n \in nodes /\ p \in nodes
    /\ up[n] = Null
    /\ up' = [up EXCEPT ![n] = p]
    /\ UNCHANGED nodes

Detach(n) ==
    /\ n \in nodes
    /\ up[n] # Null
    /\ up' = [up EXCEPT ![n] = Null]
    /\ UNCHANGED nodes

Delete(n) ==
    /\ n \in nodes
    /\ up[n] = Null
    /\ nodes' = nodes \ Subtree(n)
    /\ up' = [m \in nodes' |-> up[m]]

Next == \E n \in Node :
    \/ \E p \in Node \cup {Null} : Create(n, p)
    \/ \E p \in Node : Attach(n, p)
    \/ Detach(n)
    \/ Delete(n)

Spec == Init /\ [][Next]_<<nodes, up>>
=============================================================================

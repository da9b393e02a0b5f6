------------------------------ MODULE DDLNode ------------------------------
(***************************************************************************)
(* The node tree of code/DDLNode.cpp: objects of class DDLNode, the child  *)
(* lists and parent pointers that link them, the payload a node owns, and  *)
(* the static registry s_allocatedNodes.                                   *)
(*                                                                         *)
(* An element of Node is an address: once an object is destroyed, a later  *)
(* create may return its address again, so a pointer kept too long can     *)
(* name a younger object.  Destructors run step by step: `dtors' is the    *)
(* stack of destructor activations and pos[n] the loop index of the one    *)
(* that runs on n.                                                         *)
(*                                                                         *)
(* Some definitions are preceded by a variant of the same form: a mistake  *)
(* the code could plausibly have made, under which a property fails.       *)
(***************************************************************************)
EXTENDS Integers, Sequences, FiniteSets

CONSTANTS
    Node,       \* addresses an object of class DDLNode can have
    Payload,    \* addresses of Property, Value, DataArrayList, Reference objects
    Null,       \* nullptr
    MaxSlots    \* bound: the registry never shrinks, so creations are capped

ASSUME NullAssumption == Null \notin Node /\ Null \notin Payload
ASSUME SlotsAssumption == MaxSlots \in Nat

VARIABLES
    live,       \* objects that are allocated (a running destructor's included)
    parent,     \* m_parent
    children,   \* m_children
    idx,        \* m_idx
    properties, \* m_properties
    value,      \* m_value (m_dtArrayList and m_references are kept alike)
    payloads,   \* payload objects that are allocated
    allocated,  \* s_allocatedNodes
    dtors,      \* stack of running destructors, innermost last
    pos,        \* the destructors' loop index i
    fault       \* a destructor was run on an object already destroyed

tree     == <<live, parent, children, idx>>
payload  == <<properties, value, payloads>>
running  == <<dtors, pos, fault>>
vars     == <<tree, payload, allocated, running>>

Elems(s) == {s[i] : i \in DOMAIN s}

\* std::find and vector::erase of its first match
EraseLast(s, e) == SubSeq(s, 1, Len(s) - 1)
EraseNothing(s, e) == s
Erase(s, e) ==
    IF e \notin Elems(s) THEN s
    ELSE LET i == CHOOSE j \in DOMAIN s :
                    s[j] = e /\ \A k \in DOMAIN s : s[k] = e => j <= k
         IN  SubSeq(s, 1, i - 1) \o SubSeq(s, i + 1, Len(s))

\* m_parent->m_children.push_back( this )
AdoptTwice(m, p, n) == IF m = p THEN children[m] \o <<n, n>> ELSE children[m]
Adopt(m, p, n) == IF m = p THEN Append(children[m], n) ELSE children[m]

\* The index a node remembers: the size of the registry
LivingIndex == Cardinality(live)
LastIndex == Len(allocated) - 1
NextIndex == Len(allocated)

\* What the destructor of n deletes, and what setProperties deletes
OwnedProperties(n) == {properties[n]}
Owned(n) == {properties[n], value[n]}
ReplacedAll(n) == {properties[n], value[n]}
Replaced(n) == {properties[n]}

Init ==
    /\ live = {}
    /\ parent = [n \in Node |-> Null]
    /\ children = [n \in Node |-> <<>>]
    /\ idx = [n \in Node |-> 0]
    /\ properties = [n \in Node |-> Null]
    /\ value = [n \in Node |-> Null]
    /\ payloads = {}
    /\ allocated = <<>>
    /\ dtors = <<>>
    /\ pos = [n \in Node |-> 1]
    /\ fault = FALSE

\* A client calls a method only between destructions, and nothing is defined
\* once an object was destroyed twice.
Ready == dtors = <<>> /\ ~fault

\* DDLNode::create and the constructor it calls
Create(n, p) ==
    /\ Ready
    /\ n \notin live
    /\ p \in live \cup {Null}
    /\ Len(allocated) < MaxSlots
    /\ live' = live \cup {n}
    /\ parent' = [parent EXCEPT ![n] = p]
    /\ children' = [m \in Node |-> IF m = n THEN <<>> ELSE Adopt(m, p, n)]
    /\ idx' = [idx EXCEPT ![n] = NextIndex]
    /\ properties' = [properties EXCEPT ![n] = Null]
    /\ value' = [value EXCEPT ![n] = Null]
    /\ allocated' = Append(allocated, n)
    /\ UNCHANGED <<payloads, running>>

AttachParent(n, p) ==
    /\ Ready
    /\ n \in live
    /\ p \in live \cup {Null}
    /\ parent[n] # p
    /\ parent' = [parent EXCEPT ![n] = p]
    /\ children' = [m \in Node |-> Adopt(m, p, n)]
    /\ UNCHANGED <<live, idx, payload, allocated, running>>

DetachParent(n) ==
    /\ Ready
    /\ n \in live
    /\ parent[n] # Null
    /\ children' = [children EXCEPT ![parent[n]] = Erase(@, n)]
    /\ parent' = [parent EXCEPT ![n] = Null]
    /\ UNCHANGED <<live, idx, payload, allocated, running>>

\* setProperties with a list the caller has just built: the old one is deleted
SetProperties(n, d) ==
    /\ Ready
    /\ n \in live
    /\ d \in Payload \ payloads
    /\ payloads' = (payloads \ Replaced(n)) \cup {d}
    /\ properties' = [properties EXCEPT ![n] = d]
    /\ UNCHANGED <<tree, value, allocated, running>>

\* setValue, setDataArrayList, setReferences: the old object is not deleted
SetValue(n, d) ==
    /\ Ready
    /\ n \in live
    /\ d \in Payload \ payloads
    /\ payloads' = payloads \cup {d}
    /\ value' = [value EXCEPT ![n] = d]
    /\ UNCHANGED <<tree, properties, allocated, running>>

\* The destructor of n up to its loop: the payload is released, the registry
\* slot is cleared when it still holds n.  i is the callers' loop indices.
EnterDestructor(n, i) ==
    /\ dtors' = Append(dtors, n)
    /\ pos' = [i EXCEPT ![n] = 1]
    /\ payloads' = payloads \ Owned(n)
    /\ allocated' = IF allocated[idx[n] + 1] = n
                    THEN [allocated EXCEPT ![idx[n] + 1] = Null]
                    ELSE allocated
    /\ UNCHANGED <<tree, properties, value, fault>>

\* A client deletes an object.  Its parent's child list is not touched.
Delete(n) ==
    /\ Ready
    /\ n \in live
    /\ EnterDestructor(n, pos)

Running == dtors[Len(dtors)]
ChildLeftButLast == pos[Running] < Len(children[Running])
ChildLeft == pos[Running] <= Len(children[Running])

\* One turn of the destructor's loop: delete m_children[i].  Deleting what is
\* destroyed already, or is being destroyed, is undefined.
DeleteChild ==
    /\ dtors # <<>>
    /\ ~fault
    /\ ChildLeft
    /\ LET c == children[Running][pos[Running]] IN
       IF c \in live /\ c \notin Elems(dtors)
       THEN EnterDestructor(c, [pos EXCEPT ![Running] = @ + 1])
       ELSE fault' = TRUE /\ UNCHANGED <<tree, payload, allocated, dtors, pos>>

\* The loop is over: the destructor returns and the object's memory is freed.
Deallocate ==
    /\ dtors # <<>>
    /\ ~fault
    /\ ~ChildLeft
    /\ live' = live \ {Running}
    /\ dtors' = SubSeq(dtors, 1, Len(dtors) - 1)
    /\ UNCHANGED <<parent, children, idx, payload, allocated, pos, fault>>

Destructor == DeleteChild \/ Deallocate

\* Every call the class accepts.
Next ==
    \/ \E n \in Node, p \in Node \cup {Null} : Create(n, p) \/ AttachParent(n, p)
    \/ \E n \in Node : DetachParent(n) \/ Delete(n)
    \/ \E n \in Node, d \in Payload : SetProperties(n, d) \/ SetValue(n, d)
    \/ Destructor

Spec == Init /\ [][Next]_vars

-----------------------------------------------------------------------------
(***************************************************************************)
(* The calls of a client that keeps the tree's ownership rule, as the      *)
(* parser does: it attaches only nodes without a parent, detaches a node   *)
(* before it deletes it, and gives a node its value once.                  *)
(***************************************************************************)
OwnerNext ==
    \/ \E n \in Node, p \in Node \cup {Null} : Create(n, p)
    \/ \E n \in Node, p \in Node : parent[n] = Null /\ AttachParent(n, p)
    \/ \E n \in Node : DetachParent(n)
    \/ \E n \in Node : parent[n] = Null /\ Delete(n)
    \/ \E n \in Node, d \in Payload : SetProperties(n, d)
    \/ \E n \in Node, d \in Payload : value[n] = Null /\ SetValue(n, d)
    \/ Destructor

\* A destructor runs to its end: nothing else is scheduled meanwhile.
OwnerSpec == Init /\ [][OwnerNext]_vars /\ WF_vars(Destructor)

-----------------------------------------------------------------------------
\* Types of the variables.
TypeOK ==
    /\ live \subseteq Node
    /\ parent \in [Node -> Node \cup {Null}]
    /\ children \in [Node -> Seq(Node)]
    /\ idx \in [Node -> Nat]
    /\ properties \in [Node -> Payload \cup {Null}]
    /\ value \in [Node -> Payload \cup {Null}]
    /\ payloads \subseteq Payload
    /\ allocated \in Seq(Node \cup {Null})
    /\ dtors \in Seq(Node)
    /\ pos \in [Node -> Nat]
    /\ fault \in BOOLEAN

\* No destructor ever reaches an object that is destroyed or being destroyed,
\* whatever the order in which nodes were created, moved and deleted.
NoDoubleDelete == ~fault

\* Between two calls, parent pointers and child lists describe the same links:
\* a node is in the list of its parent, once, and in no other list.
LinksAgree ==
    Ready =>
      /\ \A n \in live : parent[n] # Null =>
           parent[n] \in live /\ n \in Elems(children[parent[n]])
      /\ \A m \in live : \A i \in DOMAIN children[m] :
           /\ children[m][i] \in live
           /\ parent[children[m][i]] = m
           /\ \A j \in DOMAIN children[m] : children[m][i] = children[m][j] => i = j

\* The registry names every living node at the index the node remembers, and
\* its other slots are null: a reused address never confuses two objects.
RegistryExact ==
    /\ \A n \in live \ Elems(dtors) :
         idx[n] + 1 \in DOMAIN allocated /\ allocated[idx[n] + 1] = n
    /\ \A s \in DOMAIN allocated : allocated[s] # Null =>
         /\ allocated[s] \in live \ Elems(dtors)
         /\ idx[allocated[s]] + 1 = s

\* No living node keeps a pointer to a payload that was released.
PayloadLive ==
    \A n \in live \ Elems(dtors) :
        {properties[n], value[n]} \subseteq payloads \cup {Null}

\* Between calls each payload object that is allocated belongs to exactly one
\* living node, in one of its roles: none leaks, none would be released twice,
\* and at no time does a living node hold a released one.
PayloadOwnedOnce ==
    /\ PayloadLive
    /\ Ready => \A d \in payloads :
         \E n \in live :
           /\ (properties[n] = d) # (value[n] = d)
           /\ \A m \in live \ {n} : d \notin {properties[m], value[m]}

\* A delete that starts comes to its end, with the whole subtree destroyed.
DeleteCompletes == dtors # <<>> ~> dtors = <<>>

\* Nodes below the one a client deletes: they leave the forest when the delete
\* starts, although their destructors run one after the other.
Below(S) == \A m \in live : parent[m] \in S => m \in S
Doomed ==
    IF dtors = <<>> THEN {}
    ELSE {m \in live : \A S \in SUBSET live : dtors[1] \in S /\ Below(S) => m \in S}

Forest == INSTANCE NodeForest WITH
            nodes <- live \ Doomed,
            up <- [m \in live \ Doomed |-> parent[m]]

\* An owner sees a forest: running the destructors one child at a time has the
\* effect of destroying the subtree, and nothing else, in one step.
ImplementsForest == Forest!Spec

\* DDLNode.h:65: attachParent "Will attach a parent node instance, an older one
\* will be released": after the call the older parent no longer lists the node.
OlderParentReleased ==
    [][\A n \in live : (parent[n] # Null /\ parent'[n] # parent[n]
                        /\ parent[n] \in live')
          => n \notin Elems(children'[parent[n]])]_vars
=============================================================================

--------------------------- MODULE DDLNodeProofs ---------------------------
(* Theorems about DDLNode, for every set of addresses and every bound. *)
EXTENDS DDLNode, SequenceTheorems, FiniteSetTheorems, TLAPS

-----------------------------------------------------------------------------
(* Sequences, as the child lists, the registry and the stack use them. *)

\* push_back
LEMMA AppendElems ==
    ASSUME NEW S, NEW s \in Seq(S), NEW e \in S
    PROVE  /\ Append(s, e) \in Seq(S)
           /\ Len(s) \in Nat
           /\ DOMAIN s = 1 .. Len(s)
           /\ DOMAIN Append(s, e) = 1 .. Len(s) + 1
           /\ Append(s, e)[Len(s) + 1] = e
           /\ \A i \in 1 .. Len(s) : Append(s, e)[i] = s[i]
           /\ Elems(Append(s, e)) = Elems(s) \cup {e}
  <1>1. /\ Append(s, e) \in Seq(S)
        /\ Len(Append(s, e)) = Len(s) + 1
        /\ \A i \in 1 .. Len(s) : Append(s, e)[i] = s[i]
        /\ Append(s, e)[Len(s) + 1] = e
    BY AppendProperties
  <1>2. Len(s) \in Nat /\ DOMAIN s = 1 .. Len(s)
    BY LenProperties
  <1>3. DOMAIN Append(s, e) = 1 .. Len(s) + 1
    BY <1>1, LenProperties
  <1>4. Elems(Append(s, e)) = Elems(s) \cup {e}
    <2>1. ASSUME NEW x \in Elems(Append(s, e)) PROVE x \in Elems(s) \cup {e}
      <3>1. PICK i \in 1 .. Len(s) + 1 : x = Append(s, e)[i]
        BY <1>3 DEF Elems
      <3>2. CASE i = Len(s) + 1
        BY <3>1, <3>2, <1>1
      <3>3. CASE i \in 1 .. Len(s)
        BY <3>1, <3>3, <1>1, <1>2 DEF Elems
      <3> QED
        BY <3>2, <3>3, <1>2
    <2>2. ASSUME NEW x \in Elems(s) PROVE x \in Elems(Append(s, e))
      <3>1. PICK i \in 1 .. Len(s) : x = s[i]
        BY <1>2 DEF Elems
      <3>2. i \in 1 .. Len(s) + 1 /\ Append(s, e)[i] = x
        BY <3>1, <1>1, <1>2
      <3> QED
        BY <3>2, <1>3 DEF Elems
    <2>3. e \in Elems(Append(s, e))
      <3>1. Len(s) + 1 \in 1 .. Len(s) + 1
        BY <1>2
      <3> QED
        BY <3>1, <1>1, <1>3 DEF Elems
    <2> QED
      BY <2>1, <2>2, <2>3
  <1> QED
    BY <1>1, <1>2, <1>3, <1>4

\* pop_back of a stack that is not empty
LEMMA FrontElems ==
    ASSUME NEW S, NEW s \in Seq(S), s # <<>>,
           NEW f, f = SubSeq(s, 1, Len(s) - 1)
    PROVE  /\ f \in Seq(S)
           /\ Len(s) \in Nat \ {0}
           /\ DOMAIN s = 1 .. Len(s)
           /\ DOMAIN f = 1 .. Len(s) - 1
           /\ \A i \in 1 .. Len(s) - 1 : f[i] = s[i]
           /\ Elems(s) = Elems(f) \cup {s[Len(s)]}
           /\ s[Len(s)] \in S
  <1> DEFINE n == Len(s)
  <1>1. n \in Nat \ {0} /\ DOMAIN s = 1 .. n
    BY EmptySeq, LenProperties
  <1>2. \A i \in 1 .. n - 1 : s[i] \in S
    BY <1>1, ElementOfSeq
  <1>3. /\ f \in Seq(S)
        /\ Len(f) = IF 1 <= n - 1 THEN n - 1 - 1 + 1 ELSE 0
        /\ \A i \in 1 .. n - 1 - 1 + 1 : f[i] = s[1 + i - 1]
    BY <1>1, <1>2, SubSeqProperties
  <1>4. DOMAIN f = 1 .. Len(f)
    BY <1>3, LenProperties
  <1>8. s[n] \in S
    <2>1. n \in 1 .. Len(s)
      BY <1>1
    <2> QED
      BY <2>1, ElementOfSeq
  <1> HIDE DEF n
  <1>5. Len(f) = n - 1
    BY <1>1, <1>3
  <1>6. \A i \in 1 .. n - 1 : f[i] = s[i]
    <2> TAKE i \in 1 .. n - 1
    <2>1. i \in 1 .. n - 1 - 1 + 1 /\ 1 + i - 1 = i
      BY <1>1
    <2> QED
      BY <1>3, <2>1
  <1>7. Elems(s) = Elems(f) \cup {s[n]}
    <2>1. ASSUME NEW x \in Elems(s) PROVE x \in Elems(f) \cup {s[n]}
      <3>1. PICK i \in 1 .. n : x = s[i]
        BY <1>1 DEF Elems
      <3>2. CASE i \in 1 .. n - 1
        BY <3>1, <3>2, <1>4, <1>5, <1>6 DEF Elems
      <3> QED
        BY <3>1, <3>2, <1>1
    <2>2. ASSUME NEW x \in Elems(f) PROVE x \in Elems(s)
      <3>1. PICK i \in 1 .. n - 1 : x = f[i]
        BY <1>4, <1>5 DEF Elems
      <3>2. i \in 1 .. n /\ x = s[i]
        BY <3>1, <1>1, <1>6
      <3> QED
        BY <3>2, <1>1 DEF Elems
    <2>3. s[n] \in Elems(s)
      <3>1. n \in 1 .. n
        BY <1>1
      <3> QED
        BY <3>1, <1>1 DEF Elems
    <2> QED
      BY <2>1, <2>2, <2>3
  <1> QED
    BY <1>1, <1>3, <1>4, <1>5, <1>6, <1>7, <1>8 DEF n

\* pop_back of a stack without duplicates
LEMMA FrontOnce ==
    ASSUME NEW S, NEW s \in Seq(S), s # <<>>,
           NEW f, f = SubSeq(s, 1, Len(s) - 1),
           \A i, j \in DOMAIN s : s[i] = s[j] => i = j
    PROVE  /\ s[Len(s)] \notin Elems(f)
           /\ \A i, j \in DOMAIN f : f[i] = f[j] => i = j
  <1> DEFINE n == Len(s)
  <1>1. /\ n \in Nat \ {0}
        /\ DOMAIN s = 1 .. n
        /\ DOMAIN f = 1 .. n - 1
        /\ \A i \in 1 .. n - 1 : f[i] = s[i]
    BY FrontElems
  <1> HIDE DEF n
  <1>2. \A i \in 1 .. n - 1 : i \in 1 .. n /\ n \in 1 .. n /\ i # n
    BY <1>1
  <1>3. s[n] \notin Elems(f)
    BY <1>1, <1>2 DEF Elems
  <1>4. \A i, j \in DOMAIN f : f[i] = f[j] => i = j
    BY <1>1, <1>2
  <1> QED
    BY <1>3, <1>4 DEF n

\* A set of indices has a least one.
LEMMA LeastIndex ==
    ASSUME NEW n \in Nat, NEW T \in SUBSET (1 .. n), T # {}
    PROVE  \E i \in T : \A j \in T : i <= j
  <1> DEFINE U == SUBSET (1 .. n)
             B == {b \in U : \E i \in T : b = 1 .. i}
  <1>1. IsFiniteSet(1 .. n)
    BY FS_Interval
  <1>2. IsWellFoundedOn(StrictSubsetOrdering(1 .. n), U)
    BY <1>1, FS_FiniteSubsetsOfFinite, FS_StrictSubsetOrderingWellFounded
  <1>3. \A i \in T : 1 .. i \in B
    OBVIOUS
  <1>4. B # {} /\ B \subseteq U
    BY <1>3
  <1>5. PICK b \in B : \A c \in B : <<c, b>> \notin StrictSubsetOrdering(1 .. n)
    BY <1>2, <1>4, WFMin
  <1>6. PICK i \in T : b = 1 .. i
    OBVIOUS
  <1>7. ASSUME NEW j \in T, ~(i <= j) PROVE FALSE
    <2>1. 1 .. j \subseteq 1 .. i /\ 1 .. j # 1 .. i
      <3>1. i \in 1 .. i /\ i \notin 1 .. j
        BY <1>7
      <3> QED
        BY <3>1, <1>7
    <2>2. <<1 .. j, b>> \in StrictSubsetOrdering(1 .. n)
      BY <2>1, <1>3, <1>6 DEF StrictSubsetOrdering
    <2> QED
      BY <2>2, <1>3, <1>5
  <1> QED
    BY <1>7

\* Erase gives a sequence again, whatever it finds.
LEMMA EraseType ==
    ASSUME NEW S, NEW s \in Seq(S), NEW e
    PROVE  Erase(s, e) \in Seq(S)
  <1>1. CASE e \notin Elems(s)
    BY <1>1 DEF Erase
  <1>2. CASE e \in Elems(s)
    <2> DEFINE First(j) == s[j] = e /\ \A k \in DOMAIN s : s[k] = e => j <= k
               i == CHOOSE j \in DOMAIN s : First(j)
               n == Len(s)
    <2>1. n \in Nat /\ DOMAIN s = 1 .. n
      BY LenProperties
    <2>2. \E j \in DOMAIN s : First(j)
      <3> DEFINE At == {j \in DOMAIN s : s[j] = e}
      <3>1. At # {} /\ At \in SUBSET (1 .. n)
        BY <1>2, <2>1 DEF Elems
      <3>2. \E m \in At : \A k \in At : m <= k
        BY <2>1, <3>1, LeastIndex
      <3> QED
        BY <3>2
    <2>3. i \in DOMAIN s
      BY <2>2
    <2>4. Erase(s, e) = SubSeq(s, 1, i - 1) \o SubSeq(s, i + 1, n)
      BY <1>2 DEF Erase
    <2> HIDE DEF i
    <2>5. \A k \in 1 .. n : s[k] \in S
      BY ElementOfSeq
    <2> HIDE DEF n
    <2>6. i \in 1 .. n
      BY <2>1, <2>3
    <2>7. SubSeq(s, 1, i - 1) \in Seq(S)
      <3>1. \A k \in 1 .. i - 1 : s[k] \in S
        BY <2>1, <2>5, <2>6
      <3> QED
        BY <3>1, <2>1, <2>6, SubSeqProperties
    <2>8. SubSeq(s, i + 1, n) \in Seq(S)
      <3>1. \A k \in i + 1 .. n : s[k] \in S
        BY <2>1, <2>5, <2>6
      <3> QED
        BY <3>1, <2>1, <2>6, SubSeqProperties
    <2> QED
      BY <2>4, <2>7, <2>8, ConcatProperties
  <1> QED
    BY <1>1, <1>2

-----------------------------------------------------------------------------
(* Types and the registry: every call the class accepts keeps them.          *)

RInv == TypeOK /\ RegistryExact

LEMMA RunningNode ==
    ASSUME TypeOK, dtors # <<>>
    PROVE  Running \in Node /\ Running \in Elems(dtors)
  <1>1. dtors \in Seq(Node)
    BY DEF TypeOK
  <1>2. Len(dtors) \in 1 .. Len(dtors) /\ DOMAIN dtors = 1 .. Len(dtors)
    BY <1>1, EmptySeq, LenProperties
  <1> QED
    BY <1>1, <1>2, ElementOfSeq DEF Running, Elems

\* The destructor's first half clears the slot of the node it runs on.
LEMMA EnterRegistry ==
    ASSUME RInv, NEW n \in live \ Elems(dtors), NEW i \in [Node -> Nat],
           EnterDestructor(n, i)
    PROVE  RInv'
  <1> DEFINE k == idx[n] + 1
  <1>1. /\ n \in Node
        /\ n # Null
        /\ dtors \in Seq(Node)
        /\ allocated \in Seq(Node \cup {Null})
        /\ idx \in [Node -> Nat]
        /\ payloads \subseteq Payload
    BY NullAssumption DEF RInv, TypeOK
  <1>2. k \in DOMAIN allocated /\ allocated[k] = n
    BY DEF RInv, RegistryExact
  <1>3. DOMAIN allocated = 1 .. Len(allocated)
    BY <1>1, LenProperties
  <1>4. allocated' = [allocated EXCEPT ![k] = Null]
    BY <1>2 DEF EnterDestructor
  <1> HIDE DEF k
  <1>5. /\ allocated' \in Seq(Node \cup {Null})
        /\ DOMAIN allocated' = DOMAIN allocated
    BY <1>1, <1>2, <1>3, <1>4, ExceptSeq
  <1>6. dtors' \in Seq(Node) /\ Elems(dtors') = Elems(dtors) \cup {n}
    <2>1. dtors' = Append(dtors, n)
      BY DEF EnterDestructor
    <2> QED
      BY <1>1, <2>1, AppendElems
  <1>7. TypeOK'
    <2>1. pos' \in [Node -> Nat]
      BY <1>1 DEF EnterDestructor
    <2>2. UNCHANGED <<live, parent, children, idx, properties, value, fault>>
      BY DEF EnterDestructor, tree
    <2>3. payloads' \subseteq Payload
      BY <1>1 DEF EnterDestructor
    <2> QED
      BY <1>5, <1>6, <2>1, <2>2, <2>3 DEF RInv, TypeOK
  <1>8. live' = live /\ idx' = idx
    BY DEF EnterDestructor, tree
  <1>9. ASSUME NEW m \in live' \ Elems(dtors')
        PROVE  idx'[m] + 1 \in DOMAIN allocated' /\ allocated'[idx'[m] + 1] = m
    <2>1. m \in live \ Elems(dtors) /\ m # n
      BY <1>6, <1>8, <1>9
    <2>2. idx[m] + 1 \in DOMAIN allocated /\ allocated[idx[m] + 1] = m
      BY <2>1 DEF RInv, RegistryExact
    <2>3. idx[m] + 1 # k
      BY <1>2, <2>1, <2>2
    <2> QED
      BY <1>4, <1>5, <1>8, <2>2, <2>3
  <1>10. ASSUME NEW s \in DOMAIN allocated', allocated'[s] # Null
         PROVE  allocated'[s] \in live' \ Elems(dtors') /\ idx'[allocated'[s]] + 1 = s
    <2>1. s # k /\ allocated'[s] = allocated[s]
      BY <1>2, <1>4, <1>5, <1>10
    <2>2. allocated[s] \in live \ Elems(dtors) /\ idx[allocated[s]] + 1 = s
      BY <1>5, <1>10, <2>1 DEF RInv, RegistryExact
    <2>3. allocated[s] # n
      BY <2>1, <2>2 DEF k
    <2> QED
      BY <1>6, <1>8, <2>1, <2>2, <2>3
  <1> QED
    BY <1>7, <1>9, <1>10 DEF RInv, RegistryExact

\* A new node takes the slot behind the last one.
LEMMA CreateRegistry ==
    ASSUME RInv, NEW n \in Node, NEW p \in Node \cup {Null}, Create(n, p)
    PROVE  RInv'
  <1> DEFINE k == Len(allocated) + 1
  <1>1. /\ n # Null
        /\ allocated \in Seq(Node \cup {Null})
        /\ idx \in [Node -> Nat]
        /\ children \in [Node -> Seq(Node)]
        /\ n \notin live
        /\ live' = live \cup {n}
        /\ dtors = <<>> /\ dtors' = <<>>
    BY NullAssumption DEF RInv, TypeOK, Create, Ready, running
  <1>2. /\ allocated' \in Seq(Node \cup {Null})
        /\ Len(allocated) \in Nat
        /\ DOMAIN allocated = 1 .. Len(allocated)
        /\ DOMAIN allocated' = 1 .. Len(allocated) + 1
        /\ allocated'[Len(allocated) + 1] = n
        /\ \A i \in 1 .. Len(allocated) : allocated'[i] = allocated[i]
    <2>1. allocated' = Append(allocated, n)
      BY DEF Create
    <2>2. n \in Node \cup {Null}
      OBVIOUS
    <2> QED
      BY <1>1, <2>1, <2>2, AppendElems
  <1>3. idx' = [idx EXCEPT ![n] = Len(allocated)]
    BY DEF Create, NextIndex
  <1>4. TypeOK'
    <2>1. children' \in [Node -> Seq(Node)]
      <3>1. \A m \in Node : Adopt(m, p, n) \in Seq(Node)
        BY <1>1, AppendProperties DEF Adopt
      <3>2. <<>> \in Seq(Node)
        BY EmptySeq
      <3> QED
        BY <3>1, <3>2 DEF Create
    <2>2. /\ live' \subseteq Node
          /\ parent' \in [Node -> Node \cup {Null}]
          /\ properties' \in [Node -> Payload \cup {Null}]
          /\ value' \in [Node -> Payload \cup {Null}]
          /\ UNCHANGED <<payloads, dtors, pos, fault>>
      BY DEF Create, RInv, TypeOK, running
    <2>3. idx' \in [Node -> Nat]
      BY <1>1, <1>2, <1>3
    <2> QED
      BY <1>2, <2>1, <2>2, <2>3 DEF RInv, TypeOK
  <1>5. Elems(dtors) = {} /\ Elems(dtors') = {}
    BY <1>1 DEF Elems
  <1>6. ASSUME NEW m \in live' \ Elems(dtors')
        PROVE  idx'[m] + 1 \in DOMAIN allocated' /\ allocated'[idx'[m] + 1] = m
    <2>1. CASE m = n
      BY <1>1, <1>2, <1>3, <2>1
    <2>2. CASE m # n
      <3>1. m \in live \ Elems(dtors) /\ idx'[m] = idx[m]
        BY <1>1, <1>3, <1>5, <1>6, <2>2 DEF RInv, TypeOK
      <3>2. idx[m] + 1 \in DOMAIN allocated /\ allocated[idx[m] + 1] = m
        BY <3>1 DEF RInv, RegistryExact
      <3> QED
        BY <1>2, <3>1, <3>2
    <2> QED
      BY <2>1, <2>2
  <1>7. ASSUME NEW s \in DOMAIN allocated', allocated'[s] # Null
        PROVE  allocated'[s] \in live' \ Elems(dtors') /\ idx'[allocated'[s]] + 1 = s
    <2>1. CASE s = Len(allocated) + 1
      BY <1>1, <1>2, <1>3, <1>5, <2>1
    <2>2. CASE s # Len(allocated) + 1
      <3>1. s \in DOMAIN allocated /\ allocated'[s] = allocated[s]
        BY <1>2, <1>7, <2>2
      <3>2. allocated[s] \in live \ Elems(dtors) /\ idx[allocated[s]] + 1 = s
        BY <1>7, <3>1 DEF RInv, RegistryExact
      <3>3. allocated[s] # n /\ allocated[s] \in Node
        BY <1>1, <3>2 DEF RInv, TypeOK
      <3> QED
        BY <1>1, <1>3, <1>5, <3>1, <3>2, <3>3
    <2> QED
      BY <2>1, <2>2
  <1> QED
    BY <1>4, <1>6, <1>7 DEF RInv, RegistryExact

\* A destructor that returns takes its node out of both sets the registry
\* compares.
LEMMA DeallocateRegistry ==
    ASSUME RInv, Deallocate
    PROVE  RInv'
  <1>1. dtors \in Seq(Node) /\ dtors # <<>>
    BY DEF RInv, TypeOK, Deallocate
  <1>2. /\ dtors' \in Seq(Node)
        /\ Elems(dtors) = Elems(dtors') \cup {Running}
    <2>1. dtors' = SubSeq(dtors, 1, Len(dtors) - 1)
      BY DEF Deallocate
    <2> QED
      BY <1>1, <2>1, FrontElems DEF Running
  <1>3. live' = live \ {Running}
    BY DEF Deallocate
  <1>4. live' \ Elems(dtors') = live \ Elems(dtors)
    BY <1>2, <1>3
  <1>5. UNCHANGED <<parent, children, idx, properties, value, payloads, allocated, pos, fault>>
    BY DEF Deallocate, payload
  <1>6. TypeOK'
    BY <1>2, <1>3, <1>5 DEF RInv, TypeOK
  <1> QED
    BY <1>4, <1>5, <1>6 DEF RInv, RegistryExact

LEMMA RInvNext ==
    ASSUME RInv, [Next]_vars
    PROVE  RInv'
  <1>1. ASSUME NEW n \in Node, NEW p \in Node \cup {Null}, Create(n, p)
        PROVE  RInv'
    BY <1>1, CreateRegistry
  <1>2. ASSUME NEW n \in Node, NEW p \in Node \cup {Null}, AttachParent(n, p)
        PROVE  RInv'
    <2>1. children' \in [Node -> Seq(Node)]
      <3>1. \A m \in Node : Adopt(m, p, n) \in Seq(Node)
        BY AppendProperties DEF Adopt, RInv, TypeOK
      <3> QED
        BY <1>2, <3>1 DEF AttachParent
    <2>2. parent' \in [Node -> Node \cup {Null}]
      BY <1>2 DEF AttachParent, RInv, TypeOK
    <2>3. UNCHANGED <<live, idx, properties, value, payloads, allocated, dtors, pos, fault>>
      BY <1>2 DEF AttachParent, payload, running
    <2> QED
      BY <2>1, <2>2, <2>3 DEF RInv, TypeOK, RegistryExact
  <1>3. ASSUME NEW n \in Node, DetachParent(n)
        PROVE  RInv'
    <2>1. parent[n] \in Node /\ children \in [Node -> Seq(Node)]
      BY <1>3 DEF DetachParent, RInv, TypeOK
    <2>2. children' \in [Node -> Seq(Node)]
      <3>1. Erase(children[parent[n]], n) \in Seq(Node)
        BY <2>1, EraseType
      <3> QED
        BY <1>3, <2>1, <3>1 DEF DetachParent
    <2>3. parent' \in [Node -> Node \cup {Null}]
      BY <1>3 DEF DetachParent, RInv, TypeOK
    <2>4. UNCHANGED <<live, idx, properties, value, payloads, allocated, dtors, pos, fault>>
      BY <1>3 DEF DetachParent, payload, running
    <2> QED
      BY <2>2, <2>3, <2>4 DEF RInv, TypeOK, RegistryExact
  <1>4. ASSUME NEW n \in Node, Delete(n)
        PROVE  RInv'
    <2>1. dtors = <<>> /\ n \in live /\ EnterDestructor(n, pos)
      BY <1>4 DEF Delete, Ready
    <2>2. n \in live \ Elems(dtors)
      BY <2>1 DEF Elems
    <2>3. pos \in [Node -> Nat]
      BY DEF RInv, TypeOK
    <2> QED
      BY <2>1, <2>2, <2>3, EnterRegistry
  <1>5. ASSUME NEW n \in Node, NEW d \in Payload, SetProperties(n, d)
        PROVE  RInv'
    BY <1>5 DEF SetProperties, RInv, TypeOK, RegistryExact, tree, running
  <1>6. ASSUME NEW n \in Node, NEW d \in Payload, SetValue(n, d)
        PROVE  RInv'
    BY <1>6 DEF SetValue, RInv, TypeOK, RegistryExact, tree, running
  <1>7. CASE DeleteChild
    <2> DEFINE c == children[Running][pos[Running]]
               i == [pos EXCEPT ![Running] = @ + 1]
    <2>1. CASE c \in live /\ c \notin Elems(dtors)
      <3>1. EnterDestructor(c, i)
        BY <1>7, <2>1 DEF DeleteChild
      <3>2. i \in [Node -> Nat]
        <4>1. Running \in Node
          BY <1>7, RunningNode DEF DeleteChild, RInv
        <4> QED
          BY <4>1 DEF RInv, TypeOK
      <3> QED
        BY <2>1, <3>1, <3>2, EnterRegistry
    <2>2. CASE ~(c \in live /\ c \notin Elems(dtors))
      <3>1. fault' = TRUE /\ UNCHANGED <<tree, payload, allocated, dtors, pos>>
        BY <1>7, <2>2 DEF DeleteChild
      <3> QED
        BY <3>1 DEF tree, payload, RInv, TypeOK, RegistryExact
    <2> QED
      BY <2>1, <2>2
  <1>8. CASE Deallocate
    BY <1>8, DeallocateRegistry
  <1>9. CASE UNCHANGED vars
    BY <1>9 DEF vars, tree, payload, running, RInv, TypeOK, RegistryExact
  <1> QED
    BY <1>1, <1>2, <1>3, <1>4, <1>5, <1>6, <1>7, <1>8, <1>9
    DEF Next, Destructor

LEMMA RInvInit == Init => RInv
  <1> SUFFICES ASSUME Init PROVE RInv
    OBVIOUS
  <1>1. /\ <<>> \in Seq(Node) /\ <<>> \in Seq(Node \cup {Null})
        /\ DOMAIN << >> = {}
    BY EmptySeq
  <1> QED
    BY <1>1 DEF Init, RInv, TypeOK, RegistryExact

\* Whatever a client calls, and in whatever order, the variables have their
\* types and the registry of code/DDLNode.cpp names exactly the living nodes.
THEOREM NodeRegistry == Spec => [](TypeOK /\ RegistryExact)
  <1>1. Init => RInv
    BY RInvInit
  <1>2. RInv /\ [Next]_vars => RInv'
    BY RInvNext
  <1>3. RInv => TypeOK /\ RegistryExact
    BY DEF RInv
  <1> QED
    BY <1>1, <1>2, <1>3, PTL DEF Spec

-----------------------------------------------------------------------------
(* Payload ownership, for a client that gives a node its value once.         *)

Alive == live \ Elems(dtors)

Held(n) == {properties[n], value[n]}

\* What the ownership of payloads rests on: a node's two roles and two nodes
\* share nothing, and nothing that is allocated has no owner.  Nodes whose
\* destructor runs have released theirs.
PInv ==
    /\ \A n \in Alive : Held(n) \subseteq payloads \cup {Null}
    /\ \A n \in Alive : properties[n] # Null => properties[n] # value[n]
    /\ \A n, m \in Alive : n # m => Held(n) \cap Held(m) \subseteq {Null}
    /\ \A d \in payloads : \E n \in Alive : d \in Held(n)

LEMMA OwnerStep ==
    OwnerNext => Next
  BY DEF OwnerNext, Next

\* A node whose destructor starts takes its payload, and nothing else, with it.
LEMMA EnterPayload ==
    ASSUME PInv, RInv, NEW n \in Alive, NEW i \in [Node -> Nat],
           EnterDestructor(n, i)
    PROVE  PInv'
  <1>1. Elems(dtors') = Elems(dtors) \cup {n}
    <2>1. dtors \in Seq(Node) /\ n \in Node /\ dtors' = Append(dtors, n)
      BY DEF Alive, RInv, TypeOK, EnterDestructor
    <2> QED
      BY <2>1, AppendElems
  <1>2. /\ live' = live
        /\ properties' = properties
        /\ value' = value
        /\ payloads' = payloads \ Held(n)
    BY DEF EnterDestructor, tree, Owned, Held
  <1>3. Alive' = Alive \ {n}
    BY <1>1, <1>2 DEF Alive
  <1>4. \A m \in Alive' : Held(m)' = Held(m)
    BY <1>2 DEF Held
  <1>5. \A m \in Alive' : Held(m)' \subseteq payloads' \cup {Null}
    BY <1>2, <1>3, <1>4 DEF PInv
  <1>6. \A d \in payloads' : \E m \in Alive' : d \in Held(m)'
    BY <1>2, <1>3, <1>4 DEF PInv
  <1> QED
    BY <1>2, <1>3, <1>4, <1>5, <1>6 DEF PInv

LEMMA PInvNext ==
    ASSUME PInv, RInv, [OwnerNext]_vars
    PROVE  PInv'
  <1> USE DEF Held
  <1>1. ASSUME NEW n \in Node, NEW p \in Node \cup {Null}, Create(n, p)
        PROVE  PInv'
    <2>1. /\ Alive' = Alive \cup {n}
          /\ n \notin Alive
      BY <1>1 DEF Create, Ready, Alive, Elems, running
    <2>2. /\ properties' = [properties EXCEPT ![n] = Null]
          /\ value' = [value EXCEPT ![n] = Null]
          /\ payloads' = payloads
      BY <1>1 DEF Create
    <2>3. properties'[n] = Null /\ value'[n] = Null
      BY <2>2 DEF RInv, TypeOK
    <2>4. \A m \in Alive : properties'[m] = properties[m] /\ value'[m] = value[m]
      BY <2>1, <2>2 DEF RInv, TypeOK, Alive
    <2> QED
      BY <2>1, <2>2, <2>3, <2>4 DEF PInv
  <1>2. ASSUME NEW n \in Node, NEW p \in Node, AttachParent(n, p)
        PROVE  PInv'
    BY <1>2 DEF AttachParent, payload, running, PInv, Alive
  <1>3. ASSUME NEW n \in Node, DetachParent(n)
        PROVE  PInv'
    BY <1>3 DEF DetachParent, payload, running, PInv, Alive
  <1>4. ASSUME NEW n \in Node, Delete(n)
        PROVE  PInv'
    <2>1. n \in Alive /\ EnterDestructor(n, pos)
      BY <1>4 DEF Delete, Ready, Alive, Elems
    <2>2. pos \in [Node -> Nat]
      BY DEF RInv, TypeOK
    <2> QED
      BY <2>1, <2>2, EnterPayload
  <1>5. ASSUME NEW n \in Node, NEW d \in Payload, SetProperties(n, d)
        PROVE  PInv'
    <2>1. /\ Alive' = Alive
          /\ n \in Alive
          /\ d \notin payloads
          /\ d # Null
          /\ payloads' = (payloads \ {properties[n]}) \cup {d}
          /\ value' = value
      BY <1>5, NullAssumption
      DEF SetProperties, Ready, Alive, Elems, Replaced, tree, running
    <2>2. /\ properties'[n] = d
          /\ \A m \in Alive \ {n} : properties'[m] = properties[m]
      BY <1>5 DEF SetProperties, RInv, TypeOK, Alive
    <2>3. \A m \in Alive' : Held(m)' \subseteq payloads' \cup {Null}
      <3>1. value[n] \in payloads \cup {Null} /\ (properties[n] # Null => value[n] # properties[n])
        BY <2>1 DEF PInv
      <3>2. \A m \in Alive \ {n} :
               Held(m) \subseteq payloads \cup {Null} /\ Held(m) \cap Held(n) \subseteq {Null}
        BY <2>1 DEF PInv
      <3>3. value'[n] \in payloads' \cup {Null}
        <4>1. CASE value[n] = Null
          BY <2>1, <4>1
        <4>2. CASE value[n] # Null
          BY <2>1, <3>1, <4>2
        <4> QED
          BY <4>1, <4>2
      <3>4. ASSUME NEW m \in Alive \ {n} PROVE Held(m) \subseteq payloads' \cup {Null}
        <4> SUFFICES ASSUME NEW e \in Held(m) PROVE e \in payloads' \cup {Null}
          OBVIOUS
        <4>1. CASE e = Null
          BY <4>1
        <4>2. CASE e # Null
          <5>1. e \in payloads /\ e # properties[n]
            BY <3>2, <4>2
          <5> QED
            BY <2>1, <5>1
        <4> QED
          BY <4>1, <4>2
      <3>5. ASSUME NEW m \in Alive', m # n PROVE Held(m)' \subseteq payloads' \cup {Null}
        <4>1. Held(m)' = Held(m)
          BY <2>1, <2>2, <3>5
        <4> QED
          BY <2>1, <3>4, <3>5, <4>1
      <3>6. Held(n)' \subseteq payloads' \cup {Null}
        BY <2>1, <2>2, <3>3
      <3> QED
        BY <3>5, <3>6
    <2>4. \A m \in Alive' : properties'[m] # Null => properties'[m] # value'[m]
      BY <2>1, <2>2 DEF PInv
    <2>5. \A k, m \in Alive' : k # m => Held(k)' \cap Held(m)' \subseteq {Null}
      <3>1. \A m \in Alive : d \notin Held(m)
        BY <2>1 DEF PInv
      <3>2. \A m \in Alive \ {n} : Held(m)' = Held(m)
        BY <2>1, <2>2
      <3>3. Held(n)' = {d, value[n]}
        BY <2>1, <2>2
      <3>4. \A m \in Alive \ {n} : Held(n)' \cap Held(m)' \subseteq {Null}
        BY <2>1, <3>1, <3>2, <3>3 DEF PInv
      <3> QED
        BY <2>1, <3>2, <3>4 DEF PInv
    <2>6. \A e \in payloads' : \E m \in Alive' : e \in Held(m)'
      <3> TAKE e \in payloads'
      <3>1. CASE e = d
        BY <2>1, <2>2, <3>1
      <3>2. CASE e \in payloads /\ e # properties[n]
        <4>1. PICK m \in Alive : e \in Held(m)
          BY <3>2 DEF PInv
        <4> QED
          BY <2>1, <2>2, <3>2, <4>1
      <3> QED
        BY <2>1, <3>1, <3>2
    <2> QED
      BY <2>3, <2>4, <2>5, <2>6 DEF PInv
  <1>6. ASSUME NEW n \in Node, NEW d \in Payload, value[n] = Null, SetValue(n, d)
        PROVE  PInv'
    <2>1. /\ Alive' = Alive
          /\ n \in Alive
          /\ d \notin payloads
          /\ d # Null
          /\ payloads' = payloads \cup {d}
          /\ properties' = properties
      BY <1>6, NullAssumption
      DEF SetValue, Ready, Alive, Elems, tree, running
    <2>2. /\ value'[n] = d
          /\ \A m \in Alive \ {n} : value'[m] = value[m]
      BY <1>6 DEF SetValue, RInv, TypeOK, Alive
    <2>3. Null \notin payloads
      BY NullAssumption DEF RInv, TypeOK
    <2>4. \A e \in payloads' : \E m \in Alive' : e \in Held(m)'
      <3> TAKE e \in payloads'
      <3>1. CASE e = d
        BY <2>1, <2>2, <3>1
      <3>2. CASE e \in payloads
        <4>1. PICK m \in Alive : e \in Held(m)
          BY <3>2 DEF PInv
        <4> QED
          BY <1>6, <2>1, <2>2, <2>3, <3>2, <4>1
      <3> QED
        BY <2>1, <3>1, <3>2
    <2>5. \A m \in Alive : d \notin Held(m)
      BY <2>1 DEF PInv
    <2>6. \A m \in Alive' : Held(m)' \subseteq payloads' \cup {Null}
      BY <2>1, <2>2 DEF PInv
    <2>7. \A m \in Alive' : properties'[m] # Null => properties'[m] # value'[m]
      BY <2>1, <2>2, <2>5 DEF PInv
    <2>8. \A k, m \in Alive' : k # m => Held(k)' \cap Held(m)' \subseteq {Null}
      <3>1. \A m \in Alive \ {n} : Held(m)' = Held(m)
        BY <2>1, <2>2
      <3>2. Held(n)' = {properties[n], d}
        BY <2>1, <2>2
      <3>3. \A m \in Alive \ {n} : Held(n)' \cap Held(m)' \subseteq {Null}
        BY <2>1, <2>5, <3>1, <3>2 DEF PInv
      <3> QED
        BY <2>1, <3>1, <3>3 DEF PInv
    <2> QED
      BY <2>4, <2>6, <2>7, <2>8 DEF PInv
  <1>7. CASE DeleteChild
    <2> DEFINE c == children[Running][pos[Running]]
               i == [pos EXCEPT ![Running] = @ + 1]
    <2>1. CASE c \in live /\ c \notin Elems(dtors)
      <3>1. EnterDestructor(c, i)
        BY <1>7, <2>1 DEF DeleteChild
      <3>2. i \in [Node -> Nat]
        <4>1. Running \in Node
          BY <1>7, RunningNode DEF DeleteChild, RInv
        <4> QED
          BY <4>1 DEF RInv, TypeOK
      <3>3. c \in Alive
        BY <2>1 DEF Alive
      <3> QED
        BY <3>1, <3>2, <3>3, EnterPayload
    <2>2. CASE ~(c \in live /\ c \notin Elems(dtors))
      <3>1. UNCHANGED <<tree, payload, allocated, dtors, pos>>
        BY <1>7, <2>2 DEF DeleteChild
      <3> QED
        BY <3>1 DEF tree, payload, PInv, Alive
    <2> QED
      BY <2>1, <2>2
  <1>8. CASE Deallocate
    <2>1. Elems(dtors) = Elems(dtors') \cup {Running}
      <3>1. /\ dtors \in Seq(Node) /\ dtors # <<>>
            /\ dtors' = SubSeq(dtors, 1, Len(dtors) - 1)
        BY <1>8 DEF RInv, TypeOK, Deallocate
      <3> QED
        BY <3>1, FrontElems DEF Running
    <2>2. Alive' = Alive
      BY <1>8, <2>1 DEF Alive, Deallocate
    <2> QED
      BY <1>8, <2>2 DEF Deallocate, payload, PInv
  <1>9. CASE UNCHANGED vars
    BY <1>9 DEF vars, tree, payload, running, PInv, Alive
  <1> QED
    BY <1>1, <1>2, <1>3, <1>4, <1>5, <1>6, <1>7, <1>8, <1>9
    DEF OwnerNext, Destructor

\* For an owner that sets a node's value once, every payload that is allocated
\* between two calls belongs to one node, in one role, and no living node ever
\* holds one that was released: none leaks and none is released twice.
THEOREM NodePayload == OwnerSpec => []PayloadOwnedOnce
  <1>1. Init => RInv /\ PInv
    BY RInvInit DEF Init, PInv, Alive, Held
  <1>2. RInv /\ PInv /\ [OwnerNext]_vars => RInv' /\ PInv'
    <2>1. [OwnerNext]_vars => [Next]_vars
      BY OwnerStep
    <2> QED
      BY <2>1, RInvNext, PInvNext
  <1>3. RInv /\ PInv => PayloadOwnedOnce
    <2> SUFFICES ASSUME RInv, PInv PROVE PayloadOwnedOnce
      OBVIOUS
    <2>1. PayloadLive
      BY DEF PInv, PayloadLive, Held, Alive
    <2>2. ASSUME Ready, NEW d \in payloads
          PROVE  \E n \in live :
                   /\ (properties[n] = d) # (value[n] = d)
                   /\ \A m \in live \ {n} : d \notin {properties[m], value[m]}
      <3>1. Alive = live
        BY <2>2 DEF Ready, Alive, Elems
      <3>2. d # Null
        BY <2>2, NullAssumption DEF RInv, TypeOK
      <3>3. PICK n \in live : d \in Held(n)
        BY <2>2, <3>1 DEF PInv
      <3>4. \A m \in live \ {n} : d \notin {properties[m], value[m]}
        <4> SUFFICES ASSUME NEW m \in live \ {n}, d \in Held(m) PROVE FALSE
          BY DEF Held
        <4>1. Held(n) \cap Held(m) \subseteq {Null}
          BY <3>1 DEF PInv
        <4> QED
          BY <3>2, <3>3, <4>1
      <3>5. properties[n] # Null => properties[n] # value[n]
        BY <3>1 DEF PInv
      <3>6. (properties[n] = d) # (value[n] = d)
        BY <3>2, <3>3, <3>5 DEF Held
      <3> QED
        BY <3>4, <3>6
    <2> QED
      BY <2>1, <2>2 DEF PayloadOwnedOnce
  <1> QED
    BY <1>1, <1>2, <1>3, PTL DEF OwnerSpec

-----------------------------------------------------------------------------
(* The links, for a client that keeps the ownership rule.                    *)

\* The entries of a child list that matter: all of them, or those the running
\* destructor has still to delete.
Left(m) == IF m \in Elems(dtors) THEN pos[m] .. Len(children[m])
           ELSE 1 .. Len(children[m])

\* The entries left in a child list name living nodes whose parent that is.
ListsDown ==
    \A m \in live : \A i \in Left(m) :
        children[m][i] \in Alive /\ parent[children[m][i]] = m

\* They name each node once.
ListsOnce ==
    \A m \in live : \A i, j \in Left(m) : children[m][i] = children[m][j] => i = j

\* A node that has a parent is in what is left of the parent's list.
ParentsUp ==
    \A n \in Alive : parent[n] # Null =>
        /\ parent[n] \in live
        /\ \E i \in Left(parent[n]) : children[parent[n]][i] = n

\* Destructors run on distinct nodes, which are allocated until they return.
DtorsInv ==
    /\ Elems(dtors) \subseteq live
    /\ \A i, j \in DOMAIN dtors : dtors[i] = dtors[j] => i = j
    /\ \A m \in Elems(dtors) : pos[m] >= 1

LInv == ListsDown /\ ListsOnce /\ ParentsUp /\ DtorsInv /\ ~fault

\* What Erase leaves of a list without duplicates.
LEMMA EraseOnce ==
    ASSUME NEW S, NEW s \in Seq(S), NEW e \in Elems(s),
           \A i, j \in DOMAIN s : s[i] = s[j] => i = j
    PROVE  LET t == Erase(s, e) IN
           /\ \A i \in 1 .. Len(t) : \E j \in 1 .. Len(s) : t[i] = s[j] /\ s[j] # e
           /\ \A j \in 1 .. Len(s) : s[j] # e => \E i \in 1 .. Len(t) : t[i] = s[j]
           /\ \A i, j \in 1 .. Len(t) : t[i] = t[j] => i = j
  <1> DEFINE First(j) == s[j] = e /\ \A k \in DOMAIN s : s[k] = e => j <= k
             d == CHOOSE j \in DOMAIN s : First(j)
             n == Len(s)
             t == Erase(s, e)
  <1>1. n \in Nat /\ DOMAIN s = 1 .. n
    BY LenProperties
  <1>2. \E j \in DOMAIN s : First(j)
    <2>1. PICK j \in DOMAIN s : s[j] = e
      BY DEF Elems
    <2>2. \A k \in DOMAIN s : s[k] = e => j = k
      BY <2>1
    <2> QED
      BY <1>1, <2>1, <2>2
  <1>3. d \in DOMAIN s /\ s[d] = e
    BY <1>2
  <1>4. t = SubSeq(s, 1, d - 1) \o SubSeq(s, d + 1, n)
    BY DEF Erase
  <1> HIDE DEF d, t
  <1>5. \A k \in 1 .. n : s[k] \in S
    BY ElementOfSeq
  <1>6. \A i, j \in 1 .. n : s[i] = s[j] => i = j
    BY <1>1
  <1> HIDE DEF n
  <1>7. d \in 1 .. n
    BY <1>1, <1>3
  <1> DEFINE a == SubSeq(s, 1, d - 1)
             b == SubSeq(s, d + 1, n)
  <1>8. a \in Seq(S) /\ Len(a) = d - 1 /\ \A i \in 1 .. d - 1 : a[i] = s[i]
    <2>1. \A k \in 1 .. d - 1 : s[k] \in S
      BY <1>1, <1>5, <1>7
    <2>2. /\ a \in Seq(S)
          /\ Len(a) = IF 1 <= d - 1 THEN d - 1 - 1 + 1 ELSE 0
          /\ \A i \in 1 .. d - 1 - 1 + 1 : a[i] = s[1 + i - 1]
      BY <1>1, <1>7, <2>1, SubSeqProperties
    <2> HIDE DEF a
    <2>3. Len(a) = d - 1
      BY <1>1, <1>7, <2>2
    <2>4. \A i \in 1 .. d - 1 : a[i] = s[i]
      <3> TAKE i \in 1 .. d - 1
      <3>1. i \in 1 .. d - 1 - 1 + 1 /\ 1 + i - 1 = i
        BY <1>1, <1>7
      <3> QED
        BY <2>2, <3>1
    <2> QED
      BY <2>2, <2>3, <2>4
  <1>9. b \in Seq(S) /\ Len(b) = n - d /\ \A i \in 1 .. n - d : b[i] = s[d + i]
    <2>1. \A k \in d + 1 .. n : s[k] \in S
      BY <1>1, <1>5, <1>7
    <2>2. /\ b \in Seq(S)
          /\ Len(b) = IF d + 1 <= n THEN n - (d + 1) + 1 ELSE 0
          /\ \A i \in 1 .. n - (d + 1) + 1 : b[i] = s[d + 1 + i - 1]
      BY <1>1, <1>7, <2>1, SubSeqProperties
    <2> HIDE DEF b
    <2>3. Len(b) = n - d
      BY <1>1, <1>7, <2>2
    <2>4. \A i \in 1 .. n - d : b[i] = s[d + i]
      <3> TAKE i \in 1 .. n - d
      <3>1. i \in 1 .. n - (d + 1) + 1 /\ d + 1 + i - 1 = d + i
        BY <1>1, <1>7
      <3> QED
        BY <2>2, <3>1
    <2> QED
      BY <2>2, <2>3, <2>4
  <1> HIDE DEF a, b
  <1>10. /\ Len(t) = n - 1
         /\ \A i \in 1 .. d - 1 : t[i] = s[i]
         /\ \A i \in d .. n - 1 : t[i] = s[i + 1]
    <2>1. t = a \o b
      BY <1>4 DEF a, b
    <2>2. /\ Len(t) = Len(a) + Len(b)
          /\ \A i \in 1 .. Len(a) + Len(b) :
               t[i] = IF i <= Len(a) THEN a[i] ELSE b[i - Len(a)]
      BY <1>8, <1>9, <2>1, ConcatProperties
    <2>3. \A i \in 1 .. n - 1 : t[i] = IF i <= d - 1 THEN a[i] ELSE b[i - (d - 1)]
      BY <1>1, <1>7, <1>8, <1>9, <2>2
    <2>4. Len(t) = n - 1
      BY <1>1, <1>7, <1>8, <1>9, <2>2
    <2>5. \A i \in 1 .. d - 1 : t[i] = s[i]
      BY <1>1, <1>7, <1>8, <2>3
    <2>6. \A i \in d .. n - 1 : t[i] = s[i + 1]
      <3> TAKE i \in d .. n - 1
      <3>1. /\ i \in 1 .. n - 1
            /\ ~(i <= d - 1)
            /\ i - (d - 1) \in 1 .. n - d
            /\ d + (i - (d - 1)) = i + 1
        BY <1>1, <1>7
      <3> QED
        BY <1>9, <2>3, <3>1
    <2> QED
      BY <2>4, <2>5, <2>6
  <1>11. \A i \in 1 .. n - 1 :
           \E j \in 1 .. n : t[i] = s[j] /\ j # d /\ j = (IF i < d THEN i ELSE i + 1)
    BY <1>1, <1>7, <1>10
  <1>12. ASSUME NEW i \in 1 .. Len(t) PROVE \E j \in 1 .. n : t[i] = s[j] /\ s[j] # e
    BY <1>3, <1>6, <1>7, <1>10, <1>11
  <1>13. ASSUME NEW j \in 1 .. n, s[j] # e PROVE \E i \in 1 .. Len(t) : t[i] = s[j]
    <2>1. j # d
      BY <1>3, <1>13
    <2>2. CASE j < d
      BY <1>1, <1>7, <1>10, <2>2
    <2>3. CASE j > d
      <3>1. j - 1 \in d .. n - 1 /\ j - 1 \in 1 .. n - 1 /\ (j - 1) + 1 = j
        BY <1>1, <1>7, <2>3
      <3> QED
        BY <1>10, <3>1
    <2> QED
      BY <1>1, <1>7, <2>1, <2>2, <2>3
  <1>14. ASSUME NEW i \in 1 .. Len(t), NEW j \in 1 .. Len(t), t[i] = t[j] PROVE i = j
    <2>1. PICK k \in 1 .. n : t[i] = s[k] /\ k = (IF i < d THEN i ELSE i + 1)
      BY <1>10, <1>11
    <2>2. PICK l \in 1 .. n : t[j] = s[l] /\ l = (IF j < d THEN j ELSE j + 1)
      BY <1>10, <1>11
    <2>3. k = l
      BY <1>6, <1>14, <2>1, <2>2
    <2> QED
      BY <1>1, <1>7, <1>10, <2>1, <2>2, <2>3
  <1> QED
    BY <1>12, <1>13, <1>14 DEF t, n

\* Entering the destructor of n, whose own entry, if it has one, is no longer
\* in what is left of any list.
LEMMA EnterLinks ==
    ASSUME RInv, LInv, NEW n \in Alive, NEW i \in [Node -> Nat],
           EnterDestructor(n, i),
           \A m \in Elems(dtors) : i[m] \in {pos[m], pos[m] + 1},
           \A m \in live : \A k \in Left(m) :
               children[m][k] = n => m \in Elems(dtors) /\ i[m] = pos[m] + 1 /\ k = pos[m],
           \A m \in Elems(dtors) : i[m] = pos[m] + 1 => children[m][pos[m]] = n
    PROVE  LInv'
  <1>1. /\ dtors' = Append(dtors, n)
        /\ dtors \in Seq(Node)
        /\ n \in Node
        /\ n \in live
        /\ n \notin Elems(dtors)
        /\ live \subseteq Node
    BY DEF EnterDestructor, RInv, TypeOK, Alive
  <1>2. /\ Elems(dtors') = Elems(dtors) \cup {n}
        /\ Len(dtors) \in Nat
        /\ DOMAIN dtors = 1 .. Len(dtors)
        /\ DOMAIN dtors' = 1 .. Len(dtors) + 1
        /\ dtors'[Len(dtors) + 1] = n
        /\ \A j \in 1 .. Len(dtors) : dtors'[j] = dtors[j]
    BY <1>1, AppendElems
  <1>3. UNCHANGED <<live, parent, children, fault>>
    BY DEF EnterDestructor, tree
  <1>4. Alive' = Alive \ {n}
    BY <1>2, <1>3 DEF Alive
  <1>5. pos' = [i EXCEPT ![n] = 1] /\ pos'[n] = 1 /\ pos \in [Node -> Nat]
    BY <1>1 DEF EnterDestructor, RInv, TypeOK
  <1>6. \A m \in live : Len(children[m]) \in Nat
    BY <1>1, LenProperties DEF RInv, TypeOK
  <1>7. \A m \in live : Left(m)' \subseteq Left(m)
    <2> TAKE m \in live
    <2>1. CASE m = n
      BY <1>1, <1>2, <1>3, <1>5, <2>1 DEF Left
    <2>2. CASE m # n /\ m \in Elems(dtors)
      <3>1. pos'[m] \in {pos[m], pos[m] + 1} /\ pos[m] \in Nat
        BY <1>1, <1>5, <2>2
      <3>2. Left(m)' = pos'[m] .. Len(children[m]) /\ Left(m) = pos[m] .. Len(children[m])
        BY <1>2, <1>3, <2>2 DEF Left
      <3> QED
        BY <1>6, <3>1, <3>2
    <2>3. CASE m # n /\ m \notin Elems(dtors)
      BY <1>2, <1>3, <2>3 DEF Left
    <2> QED
      BY <2>1, <2>2, <2>3
  <1>8. ASSUME NEW m \in live, NEW k \in Left(m)' PROVE children[m][k] # n
    <2> SUFFICES ASSUME children[m][k] = n PROVE FALSE
      OBVIOUS
    <2>1. m \in Elems(dtors) /\ i[m] = pos[m] + 1 /\ k = pos[m] /\ m # n /\ m \in Node
      BY <1>1, <1>7
    <2>2. pos'[m] = pos[m] + 1 /\ pos[m] \in Nat
      BY <1>5, <2>1
    <2>3. k \in pos'[m] .. Len(children[m])
      BY <1>2, <1>3, <2>1 DEF Left
    <2> QED
      BY <1>6, <2>1, <2>2, <2>3
  <1>9. ASSUME NEW m \in live, NEW k \in Left(m), children[m][k] # n
        PROVE  k \in Left(m)'
    <2>1. CASE m = n
      <3>1. Left(m) = 1 .. Len(children[m]) /\ Left(m)' = pos'[m] .. Len(children[m])
        BY <1>1, <1>2, <1>3, <2>1 DEF Left
      <3> QED
        BY <1>5, <2>1, <3>1
    <2>2. CASE m # n /\ m \in Elems(dtors)
      <3>1. pos'[m] = i[m] /\ pos[m] \in Nat
        BY <1>1, <1>5, <2>2
      <3>2. Left(m)' = i[m] .. Len(children[m]) /\ Left(m) = pos[m] .. Len(children[m])
        BY <1>2, <1>3, <2>2, <3>1 DEF Left
      <3>3. i[m] = pos[m] + 1 => k # pos[m]
        BY <1>9, <2>2
      <3> QED
        BY <1>6, <2>2, <3>1, <3>2, <3>3
    <2>3. CASE m # n /\ m \notin Elems(dtors)
      BY <1>2, <1>3, <2>3 DEF Left
    <2> QED
      BY <2>1, <2>2, <2>3
  <1>10. ListsDown'
    <2>1. ASSUME NEW m \in live, NEW k \in Left(m)'
          PROVE  children[m][k] \in Alive' /\ parent[children[m][k]] = m
      <3>1. k \in Left(m)
        BY <1>7
      <3>2. children[m][k] \in Alive /\ parent[children[m][k]] = m
        BY <3>1 DEF LInv, ListsDown
      <3> QED
        BY <1>4, <1>8, <3>2
    <2> QED
      BY <1>3, <2>1 DEF ListsDown
  <1>11. ListsOnce'
    <2>1. \A m \in live : \A j, k \in Left(m)' : children[m][j] = children[m][k] => j = k
      BY <1>7 DEF LInv, ListsOnce
    <2> QED
      BY <1>3, <2>1 DEF ListsOnce
  <1>12. ParentsUp'
    <2>1. ASSUME NEW m \in Alive', NEW p, parent[m] = p, p # Null
          PROVE  p \in live /\ \E k \in Left(p)' : children[p][k] = m
      <3>1. m \in Alive /\ m # n
        BY <1>4
      <3>2. p \in live /\ \E k \in Left(p) : children[p][k] = m
        BY <2>1, <3>1 DEF LInv, ParentsUp
      <3>3. PICK k \in Left(p) : children[p][k] = m
        BY <3>2
      <3>4. k \in Left(p)'
        BY <1>9, <3>1, <3>2, <3>3
      <3> QED
        BY <3>2, <3>3, <3>4
    <2> QED
      BY <1>3, <2>1 DEF ParentsUp, Left
  <1>13. DtorsInv'
    <2>1. \A j, k \in DOMAIN dtors' : dtors'[j] = dtors'[k] => j = k
      <3> SUFFICES ASSUME NEW j \in DOMAIN dtors', NEW k \in DOMAIN dtors',
                          dtors'[j] = dtors'[k]
                   PROVE  j = k
        OBVIOUS
      <3>1. \A l \in 1 .. Len(dtors) : dtors[l] # n
        BY <1>1, <1>2 DEF Elems
      <3>2. \A l \in DOMAIN dtors' : l = Len(dtors) + 1 \/ l \in 1 .. Len(dtors)
        BY <1>2
      <3>3. \A l, h \in 1 .. Len(dtors) : dtors[l] = dtors[h] => l = h
        BY <1>2 DEF LInv, DtorsInv
      <3> QED
        BY <1>2, <3>1, <3>2, <3>3
    <2>2. \A m \in Elems(dtors') : pos'[m] >= 1
      <3> TAKE m \in Elems(dtors')
      <3>1. CASE m = n
        BY <1>5, <3>1
      <3>2. CASE m # n
        <4>1. m \in Elems(dtors) /\ m \in Node /\ pos[m] >= 1 /\ pos[m] \in Nat
          BY <1>1, <1>2, <1>5, <3>2 DEF LInv, DtorsInv
        <4>2. pos'[m] = i[m]
          BY <1>5, <3>2, <4>1
        <4> QED
          BY <4>1, <4>2
      <3> QED
        BY <3>1, <3>2
    <2>3. Elems(dtors') \subseteq live'
      BY <1>1, <1>2, <1>3 DEF LInv, DtorsInv
    <2> QED
      BY <2>1, <2>2, <2>3 DEF DtorsInv
  <1> QED
    BY <1>3, <1>10, <1>11, <1>12, <1>13 DEF LInv

\* When no destructor runs, all of every list is left.
LEMMA ReadyLeft ==
    ASSUME RInv, dtors = <<>>
    PROVE  /\ Alive = live
           /\ \A m \in Node : Left(m) = 1 .. Len(children[m])
  <1>1. Elems(dtors) = {}
    BY DEF Elems
  <1> QED
    BY <1>1 DEF Alive, Left

\* A node that has no parent is not in what is left of a list.
LEMMA RootUnlisted ==
    ASSUME RInv, LInv, NEW n, parent[n] = Null,
           NEW m \in live, NEW k \in Left(m)
    PROVE  children[m][k] # n
  <1>1. m # Null
    BY NullAssumption DEF RInv, TypeOK
  <1> QED
    BY <1>1 DEF LInv, ListsDown

\* Child lists ch and parents par of the nodes L describe the same links.
Links(L, par, ch) ==
    /\ \A m \in L : \A i \in 1 .. Len(ch[m]) : ch[m][i] \in L /\ par[ch[m][i]] = m
    /\ \A m \in L : \A i, j \in 1 .. Len(ch[m]) : ch[m][i] = ch[m][j] => i = j
    /\ \A n \in L : par[n] # Null =>
          par[n] \in L /\ \E i \in 1 .. Len(ch[par[n]]) : ch[par[n]][i] = n

\* LInv when no destructor runs.
QInv == Links(live, parent, children) /\ ~fault

LEMMA ReadyLinks ==
    RInv /\ dtors = <<>> => (LInv <=> QInv)
  <1> SUFFICES ASSUME RInv, dtors = <<>> PROVE LInv <=> QInv
    OBVIOUS
  <1>1. /\ Alive = live
        /\ \A m \in Node : Left(m) = 1 .. Len(children[m])
        /\ live \subseteq Node
    BY ReadyLeft DEF RInv, TypeOK
  <1>2. DtorsInv
    BY DEF DtorsInv, Elems
  <1>3. ListsDown <=> \A m \in live : \A i \in 1 .. Len(children[m]) :
                        children[m][i] \in live /\ parent[children[m][i]] = m
    BY <1>1 DEF ListsDown
  <1>4. ListsOnce <=> \A m \in live : \A i, j \in 1 .. Len(children[m]) :
                        children[m][i] = children[m][j] => i = j
    BY <1>1 DEF ListsOnce
  <1>5. ParentsUp <=> \A n \in live : parent[n] # Null =>
                        /\ parent[n] \in live
                        /\ \E i \in 1 .. Len(children[parent[n]]) :
                              children[parent[n]][i] = n
    <2>1. \A n \in live : parent[n] \in live =>
             Left(parent[n]) = 1 .. Len(children[parent[n]])
      BY <1>1
    <2> QED
      BY <1>1, <2>1 DEF ParentsUp
  <1> QED
    BY <1>2, <1>3, <1>4, <1>5 DEF LInv, QInv, Links

\* The constructor: a node that no list names yet.
LEMMA NewLinks ==
    ASSUME NEW L \in SUBSET Node, NEW par \in [Node -> Node \cup {Null}],
           NEW ch \in [Node -> Seq(Node)], Links(L, par, ch),
           NEW n \in Node, n \notin L
    PROVE  Links(L \cup {n}, [par EXCEPT ![n] = Null], [ch EXCEPT ![n] = <<>>])
  <1> DEFINE q == [par EXCEPT ![n] = Null]
             c == [ch EXCEPT ![n] = <<>>]
  <1>1. /\ q[n] = Null /\ c[n] = <<>> /\ Len(c[n]) = 0
        /\ \A m \in L : q[m] = par[m] /\ c[m] = ch[m]
    BY EmptySeq
  <1> HIDE DEF q, c
  <1>2. \A m \in L : \A i \in 1 .. Len(c[m]) : c[m][i] \in L /\ q[c[m][i]] = m
    BY <1>1 DEF Links
  <1>3. \A m \in L \cup {n} : \A i \in 1 .. Len(c[m]) : c[m][i] \in L \cup {n} /\ q[c[m][i]] = m
    BY <1>1, <1>2
  <1>4. \A m \in L \cup {n} : \A i, j \in 1 .. Len(c[m]) : c[m][i] = c[m][j] => i = j
    <2>1. \A m \in L : \A i, j \in 1 .. Len(c[m]) : c[m][i] = c[m][j] => i = j
      <3> SUFFICES ASSUME NEW m \in L
                   PROVE  \A i, j \in 1 .. Len(c[m]) : c[m][i] = c[m][j] => i = j
        OBVIOUS
      <3>1. c[m] = ch[m]
        BY <1>1
      <3> QED
        BY <3>1 DEF Links
    <2> QED
      BY <1>1, <2>1
  <1>5. \A k \in L \cup {n} : q[k] # Null =>
          q[k] \in L \cup {n} /\ \E i \in 1 .. Len(c[q[k]]) : c[q[k]][i] = k
    <2> SUFFICES ASSUME NEW k \in L, q[k] # Null
                 PROVE  q[k] \in L /\ \E i \in 1 .. Len(c[q[k]]) : c[q[k]][i] = k
      BY <1>1
    <2>1. q[k] = par[k]
      BY <1>1
    <2>2. q[k] \in L /\ \E i \in 1 .. Len(ch[q[k]]) : ch[q[k]][i] = k
      BY <2>1 DEF Links
    <2> QED
      BY <1>1, <2>2
  <1> QED
    BY <1>3, <1>4, <1>5 DEF Links, q, c

\* A node without a parent is linked to one.
LEMMA AdoptLinks ==
    ASSUME NEW L \in SUBSET Node, NEW par \in [Node -> Node \cup {Null}],
           NEW ch \in [Node -> Seq(Node)], Links(L, par, ch),
           NEW n \in L, NEW p \in L, par[n] = Null
    PROVE  Links(L, [par EXCEPT ![n] = p], [ch EXCEPT ![p] = Append(@, n)])
  <1> DEFINE q == [par EXCEPT ![n] = p]
             c == [ch EXCEPT ![p] = Append(@, n)]
             l == Len(ch[p])
  <1>1. /\ q[n] = p
        /\ \A m \in L : m # n => q[m] = par[m]
        /\ \A m \in L : m # p => c[m] = ch[m]
        /\ c[p] = Append(ch[p], n)
        /\ p # Null
        /\ n \in Node
        /\ ch[p] \in Seq(Node)
    BY NullAssumption
  <1>2. /\ l \in Nat
        /\ Len(c[p]) = l + 1
        /\ c[p][l + 1] = n
        /\ \A i \in 1 .. l : c[p][i] = ch[p][i]
    BY <1>1, AppendProperties, LenProperties
  <1>3. \A m \in L : \A i \in 1 .. Len(ch[m]) : ch[m][i] \in L /\ ch[m][i] # n
    BY NullAssumption DEF Links
  <1> HIDE DEF q, c, l
  <1>4. \A i \in 1 .. l + 1 : i = l + 1 \/ i \in 1 .. l
    BY <1>2
  <1>5. ASSUME NEW m \in L, NEW i \in 1 .. Len(c[m])
        PROVE  c[m][i] \in L /\ q[c[m][i]] = m
    <2>1. CASE m # p
      BY <1>1, <1>3, <1>5, <2>1 DEF Links
    <2>2. CASE m = p /\ i = l + 1
      BY <1>1, <1>2, <2>2
    <2>3. CASE m = p /\ i \in 1 .. l
      <3>1. c[m][i] = ch[m][i] /\ i \in 1 .. Len(ch[m])
        BY <1>2, <2>3 DEF l
      <3> QED
        BY <1>1, <1>3, <3>1 DEF Links
    <2> QED
      BY <1>2, <1>4, <1>5, <2>1, <2>2, <2>3
  <1>6. ASSUME NEW m \in L, NEW i \in 1 .. Len(c[m]), NEW j \in 1 .. Len(c[m]),
               c[m][i] = c[m][j]
        PROVE  i = j
    <2>1. CASE m # p
      BY <1>1, <1>6, <2>1 DEF Links
    <2>2. CASE m = p
      <3>1. \A k \in 1 .. l : c[p][k] # n /\ c[p][k] = ch[p][k]
        BY <1>2, <1>3 DEF l
      <3>2. \A h, k \in 1 .. l : ch[p][h] = ch[p][k] => h = k
        BY DEF Links, l
      <3> QED
        BY <1>2, <1>4, <1>6, <2>2, <3>1, <3>2
    <2> QED
      BY <2>1, <2>2
  <1>7. ASSUME NEW k \in L, q[k] # Null
        PROVE  q[k] \in L /\ \E i \in 1 .. Len(c[q[k]]) : c[q[k]][i] = k
    <2>1. CASE k = n
      <3>1. l + 1 \in 1 .. Len(c[p])
        BY <1>2
      <3> QED
        BY <1>1, <1>2, <2>1, <3>1
    <2>2. CASE k # n
      <3>1. q[k] = par[k] /\ par[k] \in L
        BY <1>1, <1>7, <2>2 DEF Links
      <3>2. PICK i \in 1 .. Len(ch[q[k]]) : ch[q[k]][i] = k
        BY <1>7, <3>1 DEF Links
      <3>3. CASE q[k] # p
        BY <1>1, <3>1, <3>2, <3>3
      <3>4. CASE q[k] = p
        <4>1. i \in 1 .. l /\ i \in 1 .. l + 1
          BY <1>2, <3>2, <3>4 DEF l
        <4> QED
          BY <1>2, <3>1, <3>2, <3>4, <4>1
      <3> QED
        BY <3>3, <3>4
    <2> QED
      BY <2>1, <2>2
  <1> QED
    BY <1>5, <1>6, <1>7 DEF Links, q, c

\* A node is unlinked from its parent.
LEMMA EraseLinks ==
    ASSUME NEW L \in SUBSET Node, NEW par \in [Node -> Node \cup {Null}],
           NEW ch \in [Node -> Seq(Node)], Links(L, par, ch),
           NEW n \in L, NEW p, p = par[n], p # Null
    PROVE  Links(L, [par EXCEPT ![n] = Null], [ch EXCEPT ![p] = Erase(@, n)])
  <1> DEFINE q == [par EXCEPT ![n] = Null]
             c == [ch EXCEPT ![p] = Erase(@, n)]
  <1>1. /\ q[n] = Null
        /\ \A m \in L : m # n => q[m] = par[m]
        /\ \A m \in L : m # p => c[m] = ch[m]
        /\ p \in L
        /\ c[p] = Erase(ch[p], n)
        /\ ch[p] \in Seq(Node)
        /\ DOMAIN ch[p] = 1 .. Len(ch[p])
    BY LenProperties DEF Links
  <1> HIDE DEF q, c
  <1>2. n \in Elems(ch[p]) /\ \A i, j \in DOMAIN ch[p] : ch[p][i] = ch[p][j] => i = j
    <2>1. PICK k \in 1 .. Len(ch[p]) : ch[p][k] = n
      BY DEF Links
    <2>2. \A i, j \in 1 .. Len(ch[p]) : ch[p][i] = ch[p][j] => i = j
      BY <1>1 DEF Links
    <2> QED
      BY <1>1, <2>1, <2>2 DEF Elems
  <1>3. /\ \A i \in 1 .. Len(c[p]) : \E j \in 1 .. Len(ch[p]) : c[p][i] = ch[p][j] /\ ch[p][j] # n
        /\ \A j \in 1 .. Len(ch[p]) : ch[p][j] # n => \E i \in 1 .. Len(c[p]) : c[p][i] = ch[p][j]
        /\ \A i, j \in 1 .. Len(c[p]) : c[p][i] = c[p][j] => i = j
    <2>1. LET t == Erase(ch[p], n) IN
          /\ \A i \in 1 .. Len(t) : \E j \in 1 .. Len(ch[p]) : t[i] = ch[p][j] /\ ch[p][j] # n
          /\ \A j \in 1 .. Len(ch[p]) : ch[p][j] # n => \E i \in 1 .. Len(t) : t[i] = ch[p][j]
          /\ \A i, j \in 1 .. Len(t) : t[i] = t[j] => i = j
      BY <1>1, <1>2, EraseOnce
    <2> QED
      BY <1>1, <2>1
  <1>4. ASSUME NEW m \in L, NEW i \in 1 .. Len(c[m])
        PROVE  c[m][i] \in L /\ q[c[m][i]] = m
    <2>1. CASE m # p
      <3>1. c[m][i] \in L /\ par[c[m][i]] = m
        BY <1>1, <1>4, <2>1 DEF Links
      <3> QED
        BY <1>1, <2>1, <3>1
    <2>2. CASE m = p
      <3>1. PICK j \in 1 .. Len(ch[p]) : c[p][i] = ch[p][j] /\ ch[p][j] # n
        BY <1>3, <1>4, <2>2
      <3>2. ch[p][j] \in L /\ par[ch[p][j]] = p
        BY <1>1, <3>1 DEF Links
      <3> QED
        BY <1>1, <2>2, <3>1, <3>2
    <2> QED
      BY <2>1, <2>2
  <1>5. ASSUME NEW m \in L, NEW i \in 1 .. Len(c[m]), NEW j \in 1 .. Len(c[m]),
               c[m][i] = c[m][j]
        PROVE  i = j
    <2>1. CASE m # p
      <3>1. c[m] = ch[m]
        BY <1>1, <2>1
      <3> QED
        BY <1>5, <3>1 DEF Links
    <2>2. CASE m = p
      BY <1>3, <1>5, <2>2
    <2> QED
      BY <2>1, <2>2
  <1>6. ASSUME NEW k \in L, q[k] # Null
        PROVE  q[k] \in L /\ \E i \in 1 .. Len(c[q[k]]) : c[q[k]][i] = k
    <2>1. k # n /\ q[k] = par[k]
      BY <1>1, <1>6
    <2>2. par[k] \in L /\ \E i \in 1 .. Len(ch[par[k]]) : ch[par[k]][i] = k
      BY <1>6, <2>1 DEF Links
    <2>3. CASE par[k] # p
      BY <1>1, <2>1, <2>2, <2>3
    <2>4. CASE par[k] = p
      <3>1. PICK j \in 1 .. Len(ch[p]) : ch[p][j] = k
        BY <2>2, <2>4
      <3>2. \E i \in 1 .. Len(c[p]) : c[p][i] = k
        BY <1>3, <2>1, <3>1
      <3> QED
        BY <2>1, <2>2, <2>4, <3>2
    <2> QED
      BY <2>3, <2>4
  <1> QED
    BY <1>4, <1>5, <1>6 DEF Links, q, c

LEMMA LInvNext ==
    ASSUME LInv, RInv, RInv', [OwnerNext]_vars
    PROVE  LInv'
  <1>1. ASSUME NEW n \in Node, Delete(n), parent[n] = Null
        PROVE  LInv'
    <2>1. n \in Alive /\ EnterDestructor(n, pos) /\ Elems(dtors) = {}
      BY <1>1 DEF Delete, Ready, Alive, Elems
    <2>2. pos \in [Node -> Nat]
      BY DEF RInv, TypeOK
    <2> QED
      BY <1>1, <2>1, <2>2, EnterLinks, RootUnlisted
  <1>2. CASE DeleteChild
    <2> DEFINE c == children[Running][pos[Running]]
               i == [pos EXCEPT ![Running] = @ + 1]
    <2>1. /\ Running \in Node
          /\ Running \in Elems(dtors)
          /\ Running \in live
          /\ pos \in [Node -> Nat]
          /\ pos[Running] \in Left(Running)
      <3>1. Running \in Node
        BY <1>2, RunningNode DEF DeleteChild, RInv
      <3>2. Running \in Elems(dtors)
        BY <1>2, RunningNode DEF DeleteChild, RInv
      <3>3. Running \in live /\ pos[Running] >= 1
        BY <3>2 DEF LInv, DtorsInv
      <3>4. pos \in [Node -> Nat] /\ Len(children[Running]) \in Nat
        BY <3>1, LenProperties DEF RInv, TypeOK
      <3>5. pos[Running] \in pos[Running] .. Len(children[Running])
        BY <1>2, <3>1, <3>4 DEF DeleteChild, ChildLeft
      <3> QED
        BY <3>1, <3>2, <3>3, <3>4, <3>5 DEF Left
    <2>2. c \in Alive /\ parent[c] = Running
      BY <2>1 DEF LInv, ListsDown
    <2>3. EnterDestructor(c, i)
      BY <1>2, <2>2 DEF DeleteChild, Alive
    <2>4. i \in [Node -> Nat] /\ i[Running] = pos[Running] + 1
      BY <2>1
    <2>5. \A m \in Elems(dtors) : m # Running => i[m] = pos[m]
      BY <2>1 DEF LInv, DtorsInv, RInv, TypeOK
    <2>6. \A m \in Elems(dtors) : i[m] \in {pos[m], pos[m] + 1}
      BY <2>4, <2>5
    <2>7. ASSUME NEW m \in live, NEW k \in Left(m), children[m][k] = c
          PROVE  m \in Elems(dtors) /\ i[m] = pos[m] + 1 /\ k = pos[m]
      <3>1. m = Running
        BY <2>2, <2>7 DEF LInv, ListsDown
      <3>2. k = pos[Running]
        BY <2>1, <2>7, <3>1 DEF LInv, ListsOnce
      <3> QED
        BY <2>1, <2>4, <3>1, <3>2
    <2>8. ASSUME NEW m \in Elems(dtors), i[m] = pos[m] + 1
          PROVE  children[m][pos[m]] = c
      <3>1. m \in Node /\ pos[m] \in Nat
        BY <2>1 DEF LInv, DtorsInv, RInv, TypeOK
      <3>2. m = Running
        BY <2>5, <2>8, <3>1
      <3> QED
        BY <3>2
    <2> HIDE DEF c, i
    <2> QED
      BY <2>2, <2>3, <2>4, <2>6, <2>7, <2>8, EnterLinks
  <1>3. CASE Deallocate
    <2> DEFINE f == dtors'
    <2>1. /\ dtors \in Seq(Node) /\ dtors # <<>>
          /\ f = SubSeq(dtors, 1, Len(dtors) - 1)
      BY <1>3 DEF RInv, TypeOK, Deallocate
    <2>2. Elems(dtors) = Elems(f) \cup {Running} /\ Running \in Node
      BY <2>1, FrontElems, RunningNode DEF Running, RInv
    <2>3. /\ Running \notin Elems(f)
          /\ \A i, j \in DOMAIN f : f[i] = f[j] => i = j
      BY <2>1, FrontOnce DEF Running, LInv, DtorsInv
    <2>4. /\ live' = live \ {Running}
          /\ UNCHANGED <<parent, children, pos, fault>>
      BY <1>3 DEF Deallocate
    <2>5. Alive' = Alive
      BY <2>2, <2>4 DEF Alive
    <2>6. \A m \in live' : Left(m)' = Left(m)
      BY <2>2, <2>3, <2>4 DEF Left
    <2>7. Left(Running) = {}
      <3>1. Len(children[Running]) \in Nat /\ pos[Running] \in Nat
        BY <2>2, LenProperties DEF RInv, TypeOK
      <3>2. ~(pos[Running] <= Len(children[Running]))
        BY <1>3 DEF Deallocate, ChildLeft
      <3> QED
        BY <2>2, <3>1, <3>2 DEF Left
    <2>8. ListsDown' /\ ListsOnce'
      BY <2>4, <2>5, <2>6 DEF LInv, ListsDown, ListsOnce
    <2>9. ParentsUp'
      <3>1. ASSUME NEW n \in Alive', NEW p, parent[n] = p, p # Null
            PROVE  p \in live' /\ \E k \in Left(p)' : children[p][k] = n
        BY <2>4, <2>5, <2>6, <2>7, <3>1 DEF LInv, ParentsUp
      <3> QED
        BY <2>4, <3>1 DEF ParentsUp, Left
    <2>10. DtorsInv'
      <3>1. Elems(f) \subseteq live' /\ \A m \in Elems(f) : pos'[m] >= 1
        BY <2>2, <2>3, <2>4 DEF LInv, DtorsInv
      <3> QED
        BY <2>3, <3>1 DEF DtorsInv
    <2> QED
      BY <2>4, <2>8, <2>9, <2>10 DEF LInv
  <1>4. ASSUME NEW n \in Node, NEW p \in Node \cup {Null}, Create(n, p)
        PROVE  LInv'
    <2> DEFINE par == [parent EXCEPT ![n] = Null]
               ch == [children EXCEPT ![n] = <<>>]
    <2>1. /\ dtors = <<>> /\ dtors' = <<>>
          /\ n \notin live
          /\ p \in live \cup {Null}
          /\ live' = live \cup {n}
          /\ parent' = [parent EXCEPT ![n] = p]
          /\ children' = [m \in Node |-> IF m = n THEN <<>> ELSE Adopt(m, p, n)]
          /\ fault' = fault
      BY <1>4 DEF Create, Ready, running
    <2>2. /\ live \in SUBSET Node
          /\ parent \in [Node -> Node \cup {Null}]
          /\ children \in [Node -> Seq(Node)]
      BY DEF RInv, TypeOK
    <2>3. QInv
      BY <2>1, ReadyLinks
    <2>4. Links(live', par, ch)
      BY <2>1, <2>2, <2>3, NewLinks DEF QInv
    <2>5. Links(live', parent', children')
      <3>1. CASE p = Null
        <4>1. children' = ch
          BY <2>1, <2>2, <3>1, NullAssumption DEF Adopt
        <4> QED
          BY <2>1, <2>4, <3>1, <4>1
      <3>2. CASE p # Null
        <4>1. p \in live /\ p \in live' /\ n \in live' /\ p # n /\ p \in Node
          BY <2>1, <2>2, <3>2
        <4>2. /\ par \in [Node -> Node \cup {Null}]
              /\ ch \in [Node -> Seq(Node)]
              /\ live' \in SUBSET Node
              /\ par[n] = Null
          BY <2>1, <2>2, EmptySeq
        <4>3. children' = [ch EXCEPT ![p] = Append(@, n)]
          BY <2>1, <2>2, <4>1 DEF Adopt
        <4>4. parent' = [par EXCEPT ![n] = p]
          BY <2>1, <2>2
        <4> HIDE DEF par, ch
        <4> QED
          BY <2>4, <4>1, <4>2, <4>3, <4>4, AdoptLinks
      <3> QED
        BY <3>1, <3>2
    <2>6. QInv'
      BY <2>1, <2>3, <2>5 DEF QInv, Links
    <2>7. (RInv /\ dtors = <<>> => (LInv <=> QInv))'
      BY ReadyLinks, PTL
    <2> QED
      BY <2>1, <2>6, <2>7
  <1>5. ASSUME NEW n \in Node, NEW p \in Node, parent[n] = Null, AttachParent(n, p)
        PROVE  LInv'
    <2>1. /\ dtors = <<>> /\ dtors' = <<>>
          /\ n \in live /\ p \in live
          /\ live' = live
          /\ parent' = [parent EXCEPT ![n] = p]
          /\ children' = [m \in Node |-> Adopt(m, p, n)]
          /\ fault' = fault
      BY <1>5, NullAssumption DEF AttachParent, Ready, running
    <2>2. /\ live \in SUBSET Node
          /\ parent \in [Node -> Node \cup {Null}]
          /\ children \in [Node -> Seq(Node)]
      BY DEF RInv, TypeOK
    <2>3. QInv
      BY <2>1, ReadyLinks
    <2>4. children' = [children EXCEPT ![p] = Append(@, n)]
      BY <2>1, <2>2 DEF Adopt
    <2>5. Links(live', parent', children')
      <3>1. Links(live, [parent EXCEPT ![n] = p], [children EXCEPT ![p] = Append(@, n)])
        BY <1>5, <2>1, <2>2, <2>3, AdoptLinks DEF QInv
      <3> QED
        BY <2>1, <2>4, <3>1
    <2>6. QInv'
      BY <2>1, <2>3, <2>5 DEF QInv, Links
    <2>7. (RInv /\ dtors = <<>> => (LInv <=> QInv))'
      BY ReadyLinks, PTL
    <2> QED
      BY <2>1, <2>6, <2>7
  <1>6. ASSUME NEW n \in Node, DetachParent(n)
        PROVE  LInv'
    <2>1. /\ dtors = <<>> /\ dtors' = <<>>
          /\ n \in live
          /\ parent[n] # Null
          /\ live' = live
          /\ parent' = [parent EXCEPT ![n] = Null]
          /\ children' = [children EXCEPT ![parent[n]] = Erase(@, n)]
          /\ fault' = fault
      BY <1>6 DEF DetachParent, Ready, running
    <2>2. /\ live \in SUBSET Node
          /\ parent \in [Node -> Node \cup {Null}]
          /\ children \in [Node -> Seq(Node)]
      BY DEF RInv, TypeOK
    <2>3. QInv
      BY <2>1, ReadyLinks
    <2>4. Links(live', parent', children')
      BY <2>1, <2>2, <2>3, EraseLinks DEF QInv
    <2>5. QInv'
      BY <2>1, <2>3, <2>4 DEF QInv, Links
    <2>6. (RInv /\ dtors = <<>> => (LInv <=> QInv))'
      BY ReadyLinks, PTL
    <2> QED
      BY <2>1, <2>5, <2>6
  <1>7. ASSUME UNCHANGED <<tree, running>>
        PROVE  LInv'
    BY <1>7 DEF tree, running, LInv, ListsDown, ListsOnce, ParentsUp, DtorsInv, Alive, Left
  <1>8. ASSUME NEW n \in Node, NEW d \in Payload, SetProperties(n, d) \/ SetValue(n, d)
        PROVE  LInv'
    BY <1>7, <1>8 DEF SetProperties, SetValue
  <1>9. CASE UNCHANGED vars
    BY <1>7, <1>9 DEF vars
  <1> QED
    BY <1>1, <1>2, <1>3, <1>4, <1>5, <1>6, <1>8, <1>9 DEF OwnerNext, Destructor

\* For an owner that attaches only nodes without a parent and detaches a node
\* before it deletes it, no destructor reaches a node that is destroyed or being
\* destroyed, and between two calls the parent pointers and the child lists
\* describe the same links.
THEOREM NodeLinks == OwnerSpec => [](NoDoubleDelete /\ LinksAgree)
  <1>1. Init => RInv /\ LInv
    <2> SUFFICES ASSUME Init PROVE RInv /\ LInv
      OBVIOUS
    <2>1. RInv /\ dtors = <<>>
      BY RInvInit DEF Init
    <2>2. QInv
      BY DEF Init, QInv, Links
    <2> QED
      BY <2>1, <2>2, ReadyLinks
  <1>2. RInv /\ LInv /\ [OwnerNext]_vars => RInv' /\ LInv'
    <2>1. [OwnerNext]_vars => [Next]_vars
      BY OwnerStep
    <2> QED
      BY <2>1, RInvNext, LInvNext
  <1>3. RInv /\ LInv => NoDoubleDelete /\ LinksAgree
    <2> SUFFICES ASSUME RInv, LInv PROVE NoDoubleDelete /\ LinksAgree
      OBVIOUS
    <2>1. NoDoubleDelete
      BY DEF LInv, NoDoubleDelete
    <2>2. LinksAgree
      <3> SUFFICES ASSUME Ready PROVE
            /\ \A n \in live : parent[n] # Null =>
                 parent[n] \in live /\ n \in Elems(children[parent[n]])
            /\ \A m \in live : \A i \in DOMAIN children[m] :
                 /\ children[m][i] \in live
                 /\ parent[children[m][i]] = m
                 /\ \A j \in DOMAIN children[m] : children[m][i] = children[m][j] => i = j
        BY DEF LinksAgree
      <3>1. QInv
        BY ReadyLinks DEF Ready
      <3>2. \A m \in live : DOMAIN children[m] = 1 .. Len(children[m])
        BY LenProperties DEF RInv, TypeOK
      <3> QED
        BY <3>1, <3>2 DEF QInv, Links, Elems
    <2> QED
      BY <2>1, <2>2
  <1> QED
    BY <1>1, <1>2, <1>3, PTL DEF OwnerSpec

\* Whatever an owner does in whatever order, every pointer the class keeps is of
\* its type: the lists hold nodes, the registry and the destructors under way too.
COROLLARY NodeTypeOK == Spec => []TypeOK
  BY NodeRegistry, PTL

\* For such an owner ~DDLNode never runs on a node twice, in trees of any size.
COROLLARY NodeNoDoubleDelete == OwnerSpec => []NoDoubleDelete
  BY NodeLinks, PTL

-----------------------------------------------------------------------------
(***************************************************************************)
(* The node tree implements NodeForest: for an owner, the destructors that *)
(* run one child at a time have the effect of one step of the forest.      *)
(***************************************************************************)

\* The nodes of L that every set with r in it that is closed under child holds
DoomedOf(L, par, r) ==
    {m \in L : \A S \in SUBSET L : r \in S /\ (\A k \in L : par[k] \in S => k \in S) => m \in S}

\* The state of the forest
Nodes == live \ Doomed
Up == [m \in live \ Doomed |-> parent[m]]

\* The stack of destructors is a path down from the node a client deletes, and
\* what lies on it is doomed.
PathInv ==
    /\ \A i \in DOMAIN dtors : i > 1 => parent[dtors[i]] = dtors[i - 1]
    /\ dtors # <<>> => parent[dtors[1]] = Null
    /\ Elems(dtors) \subseteq Doomed

LEMMA DoomedIs ==
    /\ dtors = <<>> => Doomed = {}
    /\ dtors # <<>> => Doomed = DoomedOf(live, parent, dtors[1])
BY DEF Doomed, DoomedOf, Below

LEMMA DoomedIsNext ==
    /\ dtors' = <<>> => Doomed' = {}
    /\ dtors' # <<>> => Doomed' = DoomedOf(live', parent', dtors'[1])
<1>1. (/\ dtors = <<>> => Doomed = {}
       /\ dtors # <<>> => Doomed = DoomedOf(live, parent, dtors[1]))'
  BY DoomedIs, PTL
<1> QED
  BY <1>1 DEF DoomedOf

\* The root is doomed, and so is a child of what is doomed.
LEMMA DoomedClosed ==
    ASSUME NEW L, NEW par, NEW r \in L
    PROVE  /\ r \in DoomedOf(L, par, r)
           /\ \A k \in L : par[k] \in DoomedOf(L, par, r) => k \in DoomedOf(L, par, r)
BY DEF DoomedOf

\* Without the leaf e what is doomed is the same but for e.
LEMMA DoomedWithout ==
    ASSUME NEW L, NEW par, NEW r \in L, NEW e \in L, e # r,
           \A k \in L : par[k] # e
    PROVE  DoomedOf(L \ {e}, par, r) = DoomedOf(L, par, r) \ {e}
<1>1. ASSUME NEW m \in DoomedOf(L \ {e}, par, r) PROVE m \in DoomedOf(L, par, r) \ {e}
  <2>1. m \in L \ {e}
    BY <1>1 DEF DoomedOf
  <2>2. ASSUME NEW S \in SUBSET L, r \in S, \A k \in L : par[k] \in S => k \in S
        PROVE  m \in S
    <3>1. S \ {e} \in SUBSET (L \ {e}) /\ r \in S \ {e}
      BY <2>2
    <3>2. \A k \in L \ {e} : par[k] \in S \ {e} => k \in S \ {e}
      BY <2>2
    <3> QED
      BY <1>1, <3>1, <3>2 DEF DoomedOf
  <2> QED
    BY <2>1, <2>2 DEF DoomedOf
<1>2. ASSUME NEW m \in DoomedOf(L, par, r) \ {e} PROVE m \in DoomedOf(L \ {e}, par, r)
  <2>1. m \in L \ {e}
    BY <1>2 DEF DoomedOf
  <2>2. ASSUME NEW S \in SUBSET (L \ {e}), r \in S, \A k \in L \ {e} : par[k] \in S => k \in S
        PROVE  m \in S
    <3>1. S \cup {e} \in SUBSET L /\ r \in S \cup {e}
      BY <2>2
    <3>2. \A k \in L : par[k] \in S \cup {e} => k \in S \cup {e}
      BY <2>2
    <3>3. m \in S \cup {e}
      BY <1>2, <3>1, <3>2 DEF DoomedOf
    <3> QED
      BY <3>3, <2>1
  <2> QED
    BY <2>1, <2>2 DEF DoomedOf
<1> QED
  BY <1>1, <1>2

\* A root without a child is doomed alone.
LEMMA DoomedAlone ==
    ASSUME NEW L, NEW par, NEW r \in L, \A k \in L : par[k] # r
    PROVE  DoomedOf(L, par, r) = {r}
<1>1. {r} \in SUBSET L /\ \A k \in L : par[k] \in {r} => k \in {r}
  OBVIOUS
<1>2. \A m \in DoomedOf(L, par, r) : m \in {r}
  BY <1>1 DEF DoomedOf
<1> QED
  BY <1>2, DoomedClosed

\* Where the nodes, their parents and the first destructor stay, the forest does.
LEMMA ForestStays ==
    ASSUME UNCHANGED <<live, parent>>, dtors # <<>>, dtors' # <<>>, dtors'[1] = dtors[1]
    PROVE  Doomed' = Doomed /\ UNCHANGED <<Nodes, Up>>
<1>1. Doomed' = Doomed
  BY DoomedIs, DoomedIsNext
<1> QED
  BY <1>1 DEF Nodes, Up

LEMMA CreateForestStep ==
    ASSUME RInv, NEW n \in Node, NEW p \in Node \cup {Null}, Create(n, p)
    PROVE  Forest!Create(n, p)
<1>1. /\ dtors = <<>> /\ dtors' = <<>> /\ n \notin live /\ p \in live \cup {Null}
      /\ live' = live \cup {n} /\ parent' = [parent EXCEPT ![n] = p]
  BY DEF Create, Ready, running
<1>2. Doomed = {} /\ Doomed' = {}
  BY <1>1, DoomedIs, DoomedIsNext
<1>3. parent \in [Node -> Node \cup {Null}] /\ live \subseteq Node
  BY DEF RInv, TypeOK
<1>4. [m \in live' \ Doomed' |-> parent'[m]]
        = [m \in live' \ Doomed' |-> IF m = n THEN p ELSE [k \in live \ Doomed |-> parent[k]][m]]
  BY <1>1, <1>2, <1>3
<1> QED
  BY <1>1, <1>2, <1>4 DEF Forest!Create

LEMMA AttachForestStep ==
    ASSUME RInv, NEW n \in Node, NEW p \in Node, parent[n] = Null, AttachParent(n, p)
    PROVE  Forest!Attach(n, p)
<1>1. /\ dtors = <<>> /\ dtors' = <<>> /\ n \in live /\ p \in live \cup {Null}
      /\ live' = live /\ parent' = [parent EXCEPT ![n] = p]
  BY DEF AttachParent, Ready, running
<1>2. Doomed = {} /\ Doomed' = {}
  BY <1>1, DoomedIs, DoomedIsNext
<1>3. parent \in [Node -> Node \cup {Null}] /\ live \subseteq Node /\ p # Null
  BY NullAssumption DEF RInv, TypeOK
<1>4. [m \in live' \ Doomed' |-> parent'[m]]
        = [[m \in live \ Doomed |-> parent[m]] EXCEPT ![n] = p]
  BY <1>1, <1>2, <1>3
<1> QED
  BY <1>1, <1>2, <1>3, <1>4 DEF Forest!Attach

LEMMA DetachForestStep ==
    ASSUME RInv, NEW n \in Node, DetachParent(n)
    PROVE  Forest!Detach(n)
<1>1. /\ dtors = <<>> /\ dtors' = <<>> /\ n \in live /\ parent[n] # Null
      /\ live' = live /\ parent' = [parent EXCEPT ![n] = Null]
  BY DEF DetachParent, Ready, running
<1>2. Doomed = {} /\ Doomed' = {}
  BY <1>1, DoomedIs, DoomedIsNext
<1>3. parent \in [Node -> Node \cup {Null}] /\ live \subseteq Node
  BY DEF RInv, TypeOK
<1>4. [m \in live' \ Doomed' |-> parent'[m]]
        = [[m \in live \ Doomed |-> parent[m]] EXCEPT ![n] = Null]
  BY <1>1, <1>2, <1>3
<1> QED
  BY <1>1, <1>2, <1>4 DEF Forest!Detach

\* The delete of a client takes the whole subtree out of the forest at once.
LEMMA DeleteForestStep ==
    ASSUME RInv, NEW n \in Node, parent[n] = Null, Delete(n)
    PROVE  Forest!Delete(n) /\ PathInv'
<1>1. /\ dtors = <<>> /\ dtors' = <<n>> /\ n \in live
      /\ live' = live /\ parent' = parent
  BY DEF Delete, Ready, EnterDestructor, tree
<1>2. Doomed = {} /\ Doomed' = DoomedOf(live, parent, n)
  BY <1>1, DoomedIs, DoomedIsNext
<1>3. Forest!Subtree(n) = DoomedOf(live, parent, n)
  BY <1>2 DEF Forest!Subtree, Forest!Descends, DoomedOf
<1>4. [m \in live' \ Doomed' |-> parent'[m]]
        = [m \in live' \ Doomed' |-> [k \in live \ Doomed |-> parent[k]][m]]
  BY <1>1, <1>2
<1>5. Forest!Delete(n)
  BY <1>1, <1>2, <1>3, <1>4 DEF Forest!Delete
<1>6. PathInv'
  <2>1. n \in Doomed'
    BY <1>1, <1>2, DoomedClosed
  <2> QED
    BY <1>1, <2>1 DEF PathInv, Elems
<1> QED
  BY <1>5, <1>6

\* The stack of destructors by its elements.
LEMMA StackElems ==
    ASSUME RInv, dtors # <<>>
    PROVE  /\ Len(dtors) \in Nat \ {0} /\ DOMAIN dtors = 1 .. Len(dtors)
           /\ Running \in Elems(dtors) /\ dtors[1] \in Elems(dtors)
           /\ Elems(dtors) \subseteq Node
<1>1. dtors \in Seq(Node)
  BY DEF RInv, TypeOK
<1>2. Len(dtors) \in Nat \ {0} /\ DOMAIN dtors = 1 .. Len(dtors)
  BY <1>1, LenProperties, EmptySeq
<1> QED
  BY <1>1, <1>2 DEF Running, Elems

\* A destructor that deletes the next child, or finds it destroyed
LEMMA DeleteChildForestStep ==
    ASSUME RInv, LInv, PathInv, DeleteChild
    PROVE  UNCHANGED <<Nodes, Up>> /\ PathInv'
<1> DEFINE c == children[Running][pos[Running]]
           n == Len(dtors)
<1>1. /\ dtors # <<>> /\ pos[Running] <= Len(children[Running])
      /\ IF c \in live /\ c \notin Elems(dtors)
         THEN EnterDestructor(c, [pos EXCEPT ![Running] = pos[Running] + 1])
         ELSE UNCHANGED <<tree, payload, allocated, dtors, pos>>
  BY DEF DeleteChild, ChildLeft
<1>2. /\ n \in Nat \ {0} /\ DOMAIN dtors = 1 .. n
      /\ Running \in Elems(dtors) /\ dtors[1] \in Elems(dtors)
      /\ Elems(dtors) \subseteq Node /\ Running = dtors[n]
  BY <1>1, StackElems DEF Running
<1>3. live' = live /\ parent' = parent
  <2>1. CASE c \in live /\ c \notin Elems(dtors)
    BY <2>1, <1>1 DEF EnterDestructor, tree
  <2>2. CASE ~(c \in live /\ c \notin Elems(dtors))
    BY <2>2, <1>1 DEF tree
  <2> QED
    BY <2>1, <2>2
<1>4. CASE ~(c \in live /\ c \notin Elems(dtors))
  <2>1. dtors' = dtors
    BY <1>4, <1>1
  <2> QED
    BY <2>1, <1>1, <1>3, ForestStays DEF PathInv, Elems
<1>5. CASE c \in live /\ c \notin Elems(dtors)
  <2>1. parent[c] = Running
    <3>1. Running \in live /\ pos[Running] >= 1 /\ pos[Running] \in Nat
      BY <1>2 DEF LInv, DtorsInv, RInv, TypeOK
    <3>2. Len(children[Running]) \in Nat
      BY <1>2, LenProperties DEF RInv, TypeOK
    <3>3. pos[Running] \in Left(Running)
      BY <1>1, <1>2, <3>1, <3>2 DEF Left
    <3> QED
      BY <3>1, <3>3 DEF LInv, ListsDown
  <2>2. /\ dtors' = Append(dtors, c) /\ dtors \in Seq(Node) /\ c \in Node
    BY <1>5, <1>1 DEF EnterDestructor, RInv, TypeOK
  <2> HIDE DEF c
  <2>3. /\ Elems(dtors') = Elems(dtors) \cup {c}
        /\ DOMAIN dtors' = 1 .. n + 1
        /\ dtors'[n + 1] = c
        /\ \A j \in 1 .. n : dtors'[j] = dtors[j]
    BY <2>2, AppendElems
  <2> HIDE DEF n
  <2>4. dtors'[1] = dtors[1] /\ dtors' # <<>>
    BY <2>3, <1>2
  <2>5. Doomed' = Doomed /\ UNCHANGED <<Nodes, Up>>
    BY <2>4, <1>1, <1>3, ForestStays
  <2>6. c \in Doomed
    <3>1. Doomed = DoomedOf(live, parent, dtors[1])
      BY <1>1, DoomedIs
    <3>2. Running \in Doomed /\ dtors[1] \in live
      BY <1>2 DEF PathInv, LInv, DtorsInv
    <3> QED
      BY <3>1, <3>2, <2>1, <1>5, DoomedClosed
  <2>7. ASSUME NEW i \in DOMAIN dtors', i > 1
        PROVE  parent'[dtors'[i]] = dtors'[i - 1]
    <3>1. CASE i = n + 1
      <4>1. i - 1 = n /\ n \in 1 .. n
        BY <3>1, <1>2
      <4> QED
        BY <4>1, <3>1, <2>1, <2>3, <1>2, <1>3
    <3>2. CASE i \in 1 .. n
      <4>1. i - 1 \in 1 .. n
        BY <3>2, <2>7, <1>2
      <4> QED
        BY <4>1, <3>2, <2>3, <2>7, <1>2, <1>3 DEF PathInv
    <3> QED
      BY <3>1, <3>2, <2>3, <1>2
  <2>8. parent'[dtors'[1]] = Null
    BY <2>4, <1>1, <1>3 DEF PathInv
  <2>9. Elems(dtors') \subseteq Doomed'
    BY <2>3, <2>5, <2>6 DEF PathInv
  <2> QED
    BY <2>5, <2>7, <2>8, <2>9 DEF PathInv
<1> QED
  BY <1>4, <1>5

\* A destructor that returns has no node below it left.
LEMMA NoChildLeft ==
    ASSUME RInv, LInv, PathInv, dtors # <<>>, ~ChildLeft
    PROVE  \A k \in live : parent[k] # Running
<1> DEFINE n == Len(dtors)
<1>1. /\ n \in Nat \ {0} /\ DOMAIN dtors = 1 .. n
      /\ Running \in Elems(dtors) /\ Running \in Node /\ Running = dtors[n]
  BY StackElems DEF Running
<1>2. Left(Running) = {}
  <2>1. Len(children[Running]) \in Nat /\ pos[Running] \in Nat
    BY <1>1, LenProperties DEF RInv, TypeOK
  <2>2. pos[Running] > Len(children[Running])
    BY <2>1 DEF ChildLeft
  <2> QED
    BY <1>1, <2>1, <2>2 DEF Left
<1>3. Running # Null
  BY <1>1, NullAssumption
<1>4. ASSUME NEW k \in live, parent[k] = Running PROVE FALSE
  <2>1. CASE k \in Alive
    BY <2>1, <1>2, <1>3, <1>4 DEF LInv, ParentsUp
  <2>2. CASE k \in Elems(dtors)
    <3>1. PICK j \in 1 .. n : k = dtors[j]
      BY <2>2, <1>1 DEF Elems
    <3>2. j > 1
      BY <3>1, <1>1, <1>3, <1>4 DEF PathInv
    <3>3. j - 1 \in 1 .. n /\ n \in 1 .. n /\ dtors[j - 1] = dtors[n]
      BY <3>1, <3>2, <1>1, <1>4 DEF PathInv
    <3>4. j - 1 = n
      BY <3>3, <1>1 DEF LInv, DtorsInv
    <3> QED
      BY <3>1, <3>4, <1>1
  <2> QED
    BY <2>1, <2>2 DEF Alive
<1> QED
  BY <1>4

LEMMA DeallocateForestStep ==
    ASSUME RInv, LInv, PathInv, Deallocate
    PROVE  UNCHANGED <<Nodes, Up>> /\ PathInv'
<1> DEFINE n == Len(dtors)
<1>1. /\ dtors # <<>> /\ ~ChildLeft
      /\ live' = live \ {Running} /\ parent' = parent
      /\ dtors' = SubSeq(dtors, 1, n - 1)
  BY DEF Deallocate
<1>2. /\ n \in Nat \ {0} /\ DOMAIN dtors = 1 .. n /\ Running = dtors[n]
      /\ Running \in live /\ dtors[1] \in live
  BY <1>1, StackElems DEF Running, LInv, DtorsInv
<1> HIDE DEF n
<1>3. \A k \in live : parent[k] # Running
  BY <1>1, NoChildLeft
<1>4. /\ Elems(dtors) \subseteq Doomed
      /\ Doomed = DoomedOf(live, parent, dtors[1])
      /\ Running \in Elems(dtors)
  BY <1>1, DoomedIs, StackElems DEF PathInv
<1>5. \A i \in 1 .. n - 1 : dtors[i] # Running
  <2>1. ASSUME NEW i \in 1 .. n - 1, dtors[i] = dtors[n] PROVE FALSE
    <3>1. i \in DOMAIN dtors /\ n \in DOMAIN dtors /\ i # n
      BY <1>2, <2>1
    <3> QED
      BY <3>1, <2>1 DEF LInv, DtorsInv
  <2> QED
    BY <2>1, <1>2
<1>6. /\ Len(dtors') = n - 1 /\ DOMAIN dtors' = 1 .. n - 1
      /\ \A i \in 1 .. n - 1 : dtors'[i] = dtors[i]
  <2>1. dtors \in Seq(Node)
    BY DEF RInv, TypeOK
  <2>2. \A i \in 1 .. n - 1 : dtors[i] \in Node
    BY <2>1, <1>2, ElementOfSeq
  <2>3. /\ dtors' \in Seq(Node)
        /\ Len(dtors') = IF 1 <= n - 1 THEN n - 1 - 1 + 1 ELSE 0
        /\ \A i \in 1 .. n - 1 - 1 + 1 : dtors'[i] = dtors[1 + i - 1]
    BY <2>2, <1>1, <1>2, SubSeqProperties
  <2>4. Len(dtors') = n - 1 /\ DOMAIN dtors' = 1 .. n - 1
    BY <2>3, <1>2, LenProperties
  <2>5. ASSUME NEW i \in 1 .. n - 1 PROVE dtors'[i] = dtors[i]
    <3>1. i \in 1 .. n - 1 - 1 + 1 /\ 1 + i - 1 = i
      BY <1>2
    <3> QED
      BY <3>1, <2>3
  <2> QED
    BY <2>4, <2>5
<1>7. CASE n = 1
  <2>1. dtors' = <<>>
    BY <1>6, <1>7
  <2>2. Doomed' = {} /\ Doomed = {Running}
    BY <2>1, <1>2, <1>3, <1>4, <1>7, DoomedAlone, DoomedIsNext
  <2>3. Nodes' = Nodes
    BY <2>2, <1>1 DEF Nodes
  <2>4. Up' = Up
    BY <2>3, <1>1 DEF Nodes, Up
  <2>5. PathInv'
    BY <2>1 DEF PathInv, Elems
  <2> QED
    BY <2>3, <2>4, <2>5
<1>8. CASE n # 1
  <2>1. dtors' # <<>> /\ dtors'[1] = dtors[1] /\ dtors[1] # Running
    BY <1>2, <1>5, <1>6, <1>8
  <2>2. Doomed' = Doomed \ {Running}
    <3>1. Doomed' = DoomedOf(live \ {Running}, parent, dtors[1])
      BY <2>1, <1>1, DoomedIsNext
    <3> QED
      BY <3>1, <2>1, <1>2, <1>3, <1>4, DoomedWithout
  <2>3. Nodes' = Nodes
    BY <2>2, <1>1, <1>4 DEF Nodes
  <2>4. Up' = Up
    BY <2>3, <1>1 DEF Nodes, Up
  <2>5. ASSUME NEW i \in DOMAIN dtors', i > 1
        PROVE  parent'[dtors'[i]] = dtors'[i - 1]
    <3>1. i \in 1 .. n - 1 /\ i - 1 \in 1 .. n - 1 /\ i \in 1 .. n
      BY <2>5, <1>2, <1>6
    <3> QED
      BY <3>1, <2>5, <1>1, <1>2, <1>6 DEF PathInv
  <2>6. parent'[dtors'[1]] = Null
    BY <2>1, <1>1 DEF PathInv
  <2>7. Elems(dtors') \subseteq Doomed'
    <3>1. ASSUME NEW i \in 1 .. n - 1 PROVE dtors[i] \in Doomed \ {Running}
      <4>1. i \in 1 .. n
        BY <1>2
      <4> QED
        BY <4>1, <1>2, <1>4, <1>5 DEF Elems
    <3> QED
      BY <3>1, <2>2, <1>6 DEF Elems
  <2> QED
    BY <2>3, <2>4, <2>5, <2>6, <2>7 DEF PathInv
<1> QED
  BY <1>7, <1>8

\* Steps that leave the links and the destructors alone
LEMMA QuietForestStep ==
    ASSUME PathInv, UNCHANGED <<live, parent, dtors>>
    PROVE  UNCHANGED <<Nodes, Up>> /\ PathInv'
<1>1. Doomed' = Doomed
  BY DoomedIs, DoomedIsNext
<1> QED
  BY <1>1 DEF Nodes, Up, PathInv, Elems

LEMMA PathInvReady ==
    ASSUME dtors' = <<>>
    PROVE  PathInv'
BY DEF PathInv, Elems

LEMMA ForestStep ==
    ASSUME RInv, LInv, PathInv, [OwnerNext]_vars
    PROVE  PathInv' /\ [Forest!Next]_<<Nodes, Up>>
<1>1. ASSUME NEW n \in Node, NEW p \in Node \cup {Null}, Create(n, p)
      PROVE  PathInv' /\ [Forest!Next]_<<Nodes, Up>>
  <2>1. dtors' = <<>>
    BY <1>1 DEF Create, Ready, running
  <2> QED
    BY <2>1, <1>1, CreateForestStep, PathInvReady DEF Forest!Next
<1>2. ASSUME NEW n \in Node, NEW p \in Node, parent[n] = Null, AttachParent(n, p)
      PROVE  PathInv' /\ [Forest!Next]_<<Nodes, Up>>
  <2>1. dtors' = <<>>
    BY <1>2 DEF AttachParent, Ready, running
  <2> QED
    BY <2>1, <1>2, AttachForestStep, PathInvReady DEF Forest!Next
<1>3. ASSUME NEW n \in Node, DetachParent(n)
      PROVE  PathInv' /\ [Forest!Next]_<<Nodes, Up>>
  <2>1. dtors' = <<>>
    BY <1>3 DEF DetachParent, Ready, running
  <2> QED
    BY <2>1, <1>3, DetachForestStep, PathInvReady DEF Forest!Next
<1>4. ASSUME NEW n \in Node, parent[n] = Null, Delete(n)
      PROVE  PathInv' /\ [Forest!Next]_<<Nodes, Up>>
  BY <1>4, DeleteForestStep DEF Forest!Next
<1>5. ASSUME NEW n \in Node, NEW d \in Payload, SetProperties(n, d) \/ SetValue(n, d)
      PROVE  PathInv' /\ [Forest!Next]_<<Nodes, Up>>
  BY <1>5, QuietForestStep DEF SetProperties, SetValue, tree, running
<1>6. CASE DeleteChild
  BY <1>6, DeleteChildForestStep
<1>7. CASE Deallocate
  BY <1>7, DeallocateForestStep
<1>8. CASE UNCHANGED vars
  BY <1>8, QuietForestStep DEF vars, tree, running
<1> QED
  BY <1>1, <1>2, <1>3, <1>4, <1>5, <1>6, <1>7, <1>8 DEF OwnerNext, Destructor

\* The node tree implements the forest, in trees of any size: destructors that
\* run one child at a time amount to one step that destroys the subtree, and
\* every other call to one step that links or unlinks one node.
THEOREM NodeImplementsForest == OwnerSpec => ImplementsForest
<1>1. Init => RInv /\ LInv /\ PathInv /\ Forest!Init
  <2> SUFFICES ASSUME Init PROVE RInv /\ LInv /\ PathInv /\ Forest!Init
    OBVIOUS
  <2>1. RInv /\ dtors = <<>> /\ live = {}
    BY RInvInit DEF Init
  <2>2. QInv
    BY DEF Init, QInv, Links
  <2>3. Doomed = {} /\ PathInv
    BY <2>1, DoomedIs DEF PathInv, Elems
  <2>4. Forest!Init
    BY <2>1, <2>3 DEF Forest!Init
  <2> QED
    BY <2>1, <2>2, <2>3, <2>4, ReadyLinks
<1>2. RInv /\ LInv /\ PathInv /\ [OwnerNext]_vars
        => RInv' /\ LInv' /\ PathInv' /\ [Forest!Next]_<<Nodes, Up>>
  <2>1. [OwnerNext]_vars => [Next]_vars
    BY OwnerStep
  <2> QED
    BY <2>1, RInvNext, LInvNext, ForestStep
<1>3. [Forest!Next]_<<Nodes, Up>>
        => [Forest!Next]_<<live \ Doomed, [m \in live \ Doomed |-> parent[m]]>>
  BY DEF Nodes, Up
<1> QED
  BY <1>1, <1>2, <1>3, PTL DEF OwnerSpec, ImplementsForest, Forest!Spec
=============================================================================
